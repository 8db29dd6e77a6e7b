------------------------- MODULE ServiceStateProofs -------------------------
(***************************************************************************)
(* Theorems about ServiceState, for any teams, services, slots, tasks,     *)
(* rounds and bounds.                                                      *)
(*                                                                         *)
(* The journal only grows, and merging takes the worse of two states, so   *)
(* each copy of a service's state is the worst of what has reached it.     *)
(* The invariant says where what has not reached it is: a state that the   *)
(* map lacks is held by a task on its way to the map, a state that the     *)
(* scorebot lacks by a task or a message on its way to the scorebot.       *)
(***************************************************************************)
EXTENDS ServiceState, OperatorProofs

\* The journal holds an entry with the state for the key.
Entered(key, state) ==
    \E j \in DOMAIN journal : journal[j].key = key /\ journal[j].state = state

\* The row of round 0 stays finished.
RoundZeroStays == 1 \in FinishedRows(rounds)

InitialsAreUnknown ==
    \A j \in DOMAIN journal : journal[j].type = "Initial" => journal[j].state = Unknown

\* What the map shows, and what a task is about to show, is in the journal.
StatesAreEntered ==
    /\ \A key \in Key : map[key] # Absent => Entered(key, map[key])
    /\ \A k \in Tasks : task[k].pc \in {"map", "score"} => Entered(task[k].key, task[k].state)

\* What the scorebot shows, and what it is about to be told, is in the map.
ScoreIsBehind ==
    /\ \A key \in Key : score[key] <= map[key]
    /\ \A k \in Tasks : task[k].pc = "score" => task[k].state <= map[task[k].key]
    /\ \A i \in DOMAIN scoreMail : scoreMail[i].state <= map[scoreMail[i].key]

\* The map will be told of every observation.
TellsMap(k, key, state) ==
    task[k].pc = "map" /\ task[k].key = key /\ state <= task[k].state

MapIsTold ==
    \A j \in DOMAIN journal :
        journal[j].type # "Initial" =>
            \/ journal[j].state <= map[journal[j].key]
            \/ \E k \in Tasks : TellsMap(k, journal[j].key, journal[j].state)

\* The scorebot will be told of all that the map shows.
TellsScore(k, key, state) ==
    task[k].pc = "score" /\ task[k].key = key /\ state <= task[k].state

Mailed(i, key, state) == scoreMail[i].key = key /\ state <= scoreMail[i].state

ScoreIsTold ==
    \A key \in Key :
        \/ map[key] <= score[key]
        \/ \E k \in Tasks : TellsScore(k, key, map[key])
        \/ \E i \in DOMAIN scoreMail : Mailed(i, key, map[key])

\* A flag check that waits for answers is one of a service that was seen Up.
FlagChecksWait ==
    \A k \in Tasks : task[k].pc = "flags" => Entered(task[k].key, Up)

CopiesInv ==
    /\ InitialsAreUnknown /\ StatesAreEntered /\ ScoreIsBehind /\ MapIsTold /\ ScoreIsTold
    /\ FlagChecksFollowUp /\ FlagChecksWait

ServiceInv == TypeOK /\ RoundZeroStays /\ CopiesInv

-----------------------------------------------------------------------------
(* Lemmas about the operators *)

\* What the journal says of a key: the worst state entered for it.
LEMMA RecordedIsWorst ==
    ASSUME journal \in Seq(Entry), NEW key
    PROVE  /\ Recorded(key) \in State
           /\ \A j \in DOMAIN journal : journal[j].key = key => journal[j].state <= Recorded(key)
           /\ Recorded(key) = Unknown \/ Entered(key, Recorded(key))
<1>0. PICK jr : jr = journal
    OBVIOUS
<1> DEFINE n == Len(jr)
           V == State
           Body(s, e) == IF e.key = key THEN Merge(s, e.state) ELSE s
           op == [p \in (1..n) \X V |-> Body(p[2], jr[p[1]])]
           Form(it) == it = [S \in SUBSET (1..n) |->
                                IF S = {} THEN Unknown ELSE Body(it[S \ {Max(S)}], jr[Max(S)])]
           kt == CHOOSE it : Form(it)
<1>1. n \in Nat /\ Unknown \in V /\ DOMAIN jr = 1..n
    BY <1>0 DEF Unknown, State
<1>2. ASSUME NEW i \in 1..n PROVE jr[i].state \in State
  <2>1. jr[i] \in Entry
      BY <1>0
  <2>2. QED
      BY <2>1 DEF Entry
<1>3. ASSUME NEW i \in 1..n, NEW v \in V
      PROVE  op[<<i, v>>] = Body(v, jr[i]) /\ op[<<i, v>>] \in V
    BY <1>2, MergeOnlyWorsens
<1>4. StepsOn(op, n, V)
    BY <1>2, MergeOnlyWorsens DEF StepsOn
<1>5. Recorded(key) = kt[1..n]
    BY <1>0, <1>1 DEF Recorded, FoldLeft, MapThenFoldSet
<1> HIDE DEF op, V
<1>6. Form(kt)
  <2>1. PICK it : IsFold(it, n, V, Unknown, op)
    <3> HIDE DEF n, Body, Form, kt
    <3>1. QED
        BY <1>1, <1>4, FoldExists
  <2>2. ASSUME NEW S \in SUBSET (1..n), S # {}
        PROVE  op[<<Max(S), it[S \ {Max(S)}]>>] = Body(it[S \ {Max(S)}], jr[Max(S)])
    <3>1. Max(S) \in 1..n
        BY <1>1, <2>2, MaxUpTo
    <3>2. it[S \ {Max(S)}] \in V
        BY <2>1 DEF IsFold
    <3>3. QED
        BY <1>3, <3>1, <3>2
  <2> HIDE DEF Body
  <2>3. Form(it)
      BY <2>1, <2>2 DEF IsFold
  <2> HIDE DEF Form
  <2>4. QED
      BY <2>3
<1> HIDE DEF Body
<1>7. FoldsPositions(kt, n, V, Unknown, op)
  <2>1. kt[{}] = Unknown
      BY <1>6
  <2>2. ASSUME NEW S \in SUBSET (1..n), S # {}, kt[S \ {Max(S)}] \in V
        PROVE  kt[S] = op[<<Max(S), kt[S \ {Max(S)}]>>]
    <3>1. Max(S) \in 1..n
        BY <1>1, <2>2, MaxUpTo
    <3>2. kt[S] = Body(kt[S \ {Max(S)}], jr[Max(S)])
        BY <1>6, <2>2
    <3>3. QED
        BY <1>3, <2>2, <3>1, <3>2
  <2>3. QED
      BY <2>1, <2>2 DEF FoldsPositions
<1> HIDE DEF kt, Form
<1>8. PICK g : Unrolls(g, n, V, Unknown, op) /\ kt[1..n] = g[n]
  <2> HIDE DEF n
  <2>1. GoesThrough(kt, n, V, Unknown, op)
      BY <1>1, <1>4, <1>7, FoldUnrolls
  <2>2. QED
      BY <2>1 DEF GoesThrough
<1>9. g[0] = Unknown /\ \A k \in 0..n : g[k] \in V
    BY <1>1, <1>8 DEF Unrolls
<1>10. ASSUME NEW k \in 1..n
       PROVE g[k] = IF jr[k].key = key THEN Merge(g[k - 1], jr[k].state) ELSE g[k - 1]
  <2>1. g[k] = op[<<k, g[k - 1]>>] /\ k - 1 \in 0..n
      BY <1>1, <1>8 DEF Unrolls
  <2>2. QED
      BY <1>3, <1>9, <2>1 DEF Body
<1> DEFINE Worst(k) == /\ \A j \in 1..k : jr[j].key = key => jr[j].state <= g[k]
                       /\ g[k] = Unknown \/ Entered(key, g[k])
           D == {k \in 0..n : Worst(k)}
<1>11. 0 \in D
    BY <1>1, <1>9
<1>12. ASSUME NEW k \in 0..(n - 1), k \in D PROVE k + 1 \in D
  <2>1. k + 1 \in 1..n /\ (k + 1) - 1 = k /\ k \in 0..n /\ k + 1 \in 0..n
      BY <1>1
  <2> DEFINE r == jr[k + 1]
             s == g[k]
             t == g[k + 1]
  <2>2. s \in State /\ r.state \in State /\ t = IF r.key = key THEN Merge(s, r.state) ELSE s
      BY <1>2, <1>9, <1>10, <2>1 DEF V
  <2>3. Worst(k)
      BY <1>12
  <2>4. CASE r.key = key
    <3>1. t = IF s <= r.state THEN r.state ELSE s
        BY <2>2, <2>4, MergeIsMax
    <3>2. s <= t /\ r.state <= t
        BY <2>2, <3>1 DEF State
    <3>3. ASSUME NEW j \in 1..(k + 1), jr[j].key = key PROVE jr[j].state <= t
      <4>1. CASE j = k + 1
          BY <3>2, <4>1
      <4>2. CASE j # k + 1
        <5>1. j \in 1..k /\ j \in 1..n
            BY <2>1, <4>2
        <5>2. jr[j].state <= s /\ jr[j].state \in State
            BY <1>2, <2>3, <3>3, <5>1
        <5>3. t \in State
            BY <2>2, <3>1
        <5> DEFINE u == jr[j].state
        <5>4. u \in Int /\ s \in Int /\ t \in Int /\ u <= s /\ s <= t
            BY <2>2, <3>2, <5>2, <5>3 DEF State
        <5> HIDE DEF s, t, u
        <5>5. u <= t
            BY <5>4
        <5>6. QED
            BY <5>5 DEF u
      <4>3. QED
          BY <4>1, <4>2
    <3>4. t = Unknown \/ Entered(key, t)
      <4>1. Entered(key, r.state)
          BY <1>0, <1>1, <2>1, <2>4 DEF Entered
      <4>2. QED
          BY <2>3, <3>1, <4>1
    <3>5. QED
        BY <2>1, <3>3, <3>4
  <2>5. CASE r.key # key
    <3>1. t = s
        BY <2>2, <2>5
    <3>2. ASSUME NEW j \in 1..(k + 1), jr[j].key = key PROVE j \in 1..k
        BY <2>1, <2>5, <3>2
    <3>3. QED
        BY <2>1, <2>3, <3>1, <3>2
  <2>6. QED
      BY <2>4, <2>5
<1>13. \A k \in 0..n : k \in D
  <2> HIDE DEF D, n
  <2>1. QED
    BY <1>1, <1>11, <1>12, UpTo
<1>14. n \in D /\ Recorded(key) = g[n] /\ g[n] \in State
    BY <1>1, <1>5, <1>8, <1>9, <1>13 DEF V
<1>15. QED
    BY <1>0, <1>1, <1>14

\* and_modify(merge).or_insert keeps the worse of the two states; a key that is
\* absent counts as better than all states.
Copies == [Key -> State \cup {Absent}]

LEMMA UpdatedIsWorst ==
    ASSUME NEW m \in Copies, NEW key \in Key, NEW state \in State
    PROVE  /\ Updated(m, key, state) \in Copies
           /\ \A k \in Key : Updated(m, key, state)[k] =
                 IF k = key /\ m[k] <= state THEN state ELSE m[k]
<1> DEFINE u == IF m[key] = Absent THEN state ELSE Merge(m[key], state)
<1>1. m[key] \in State \cup {Absent}
    BY DEF Copies
<1>2. u = IF m[key] <= state THEN state ELSE m[key]
  <2>1. CASE m[key] = Absent
      BY <2>1 DEF State, Absent
  <2>2. CASE m[key] # Absent
      BY <1>1, <2>2, MergeIsMax
  <2>3. QED
      BY <2>1, <2>2
<1>3. Updated(m, key, state) = [m EXCEPT ![key] = u]
    BY DEF Updated
<1> HIDE DEF u
<1>4. u \in State \cup {Absent}
    BY <1>1, <1>2
<1>5. QED
    BY <1>2, <1>3, <1>4 DEF Copies

\* What a restart makes of the journal: for each key the worst state entered.
LEMMA RebuiltIsWorst ==
    ASSUME journal \in Seq(Entry)
    PROVE  /\ Rebuilt \in Copies
           /\ \A j \in DOMAIN journal : journal[j].state <= Rebuilt[journal[j].key]
           /\ \A key \in Key : Rebuilt[key] # Absent => Entered(key, Rebuilt[key])
<1>0. PICK jr : jr = journal
    OBVIOUS
<1> DEFINE n == Len(jr)
           V == Copies
           base == [key \in Key |-> Absent]
           Body(m, e) == Updated(m, e.key, e.state)
           op == [p \in (1..n) \X V |-> Body(p[2], jr[p[1]])]
           Form(it) == it = [S \in SUBSET (1..n) |->
                                IF S = {} THEN base ELSE Body(it[S \ {Max(S)}], jr[Max(S)])]
           kt == CHOOSE it : Form(it)
<1>1. n \in Nat /\ base \in V /\ DOMAIN jr = 1..n
    BY <1>0 DEF Copies
<1>2. ASSUME NEW i \in 1..n PROVE jr[i].state \in State /\ jr[i].key \in Key
  <2>1. jr[i] \in Entry
      BY <1>0
  <2>2. QED
      BY <2>1 DEF Entry
<1>3. ASSUME NEW i \in 1..n, NEW v \in V
      PROVE  op[<<i, v>>] = Body(v, jr[i]) /\ op[<<i, v>>] \in V
    BY <1>2, UpdatedIsWorst
<1>4. StepsOn(op, n, V)
    BY <1>2, UpdatedIsWorst DEF StepsOn
<1>5. Rebuilt = kt[1..n]
    BY <1>0, <1>1 DEF Rebuilt, FoldLeft, MapThenFoldSet
<1> HIDE DEF op, V, base
<1>6. Form(kt)
  <2>1. PICK it : IsFold(it, n, V, base, op)
    <3> HIDE DEF n, Body, Form, kt
    <3>1. QED
        BY <1>1, <1>4, FoldExists
  <2>2. ASSUME NEW S \in SUBSET (1..n), S # {}
        PROVE  op[<<Max(S), it[S \ {Max(S)}]>>] = Body(it[S \ {Max(S)}], jr[Max(S)])
    <3>1. Max(S) \in 1..n
        BY <1>1, <2>2, MaxUpTo
    <3>2. it[S \ {Max(S)}] \in V
        BY <2>1 DEF IsFold
    <3>3. QED
        BY <1>3, <3>1, <3>2
  <2> HIDE DEF Body
  <2>3. Form(it)
      BY <2>1, <2>2 DEF IsFold
  <2> HIDE DEF Form
  <2>4. QED
      BY <2>3
<1> HIDE DEF Body
<1>7. FoldsPositions(kt, n, V, base, op)
  <2>1. kt[{}] = base
      BY <1>6
  <2>2. ASSUME NEW S \in SUBSET (1..n), S # {}, kt[S \ {Max(S)}] \in V
        PROVE  kt[S] = op[<<Max(S), kt[S \ {Max(S)}]>>]
    <3>1. Max(S) \in 1..n
        BY <1>1, <2>2, MaxUpTo
    <3>2. kt[S] = Body(kt[S \ {Max(S)}], jr[Max(S)])
        BY <1>6, <2>2
    <3>3. QED
        BY <1>3, <2>2, <3>1, <3>2
  <2>3. QED
      BY <2>1, <2>2 DEF FoldsPositions
<1> HIDE DEF kt, Form
<1>8. PICK g : Unrolls(g, n, V, base, op) /\ kt[1..n] = g[n]
  <2> HIDE DEF n
  <2>1. GoesThrough(kt, n, V, base, op)
      BY <1>1, <1>4, <1>7, FoldUnrolls
  <2>2. QED
      BY <2>1 DEF GoesThrough
<1>9. g[0] = base /\ \A k \in 0..n : g[k] \in Copies
    BY <1>1, <1>8 DEF Unrolls, V
<1>10. ASSUME NEW k \in 1..n
       PROVE g[k] = Updated(g[k - 1], jr[k].key, jr[k].state)
  <2>1. g[k] = op[<<k, g[k - 1]>>] /\ k - 1 \in 0..n
      BY <1>1, <1>8 DEF Unrolls
  <2>2. QED
      BY <1>3, <1>9, <2>1 DEF Body, V
<1> DEFINE Worst(k) == /\ \A j \in 1..k : jr[j].state <= g[k][jr[j].key]
                       /\ \A key \in Key : g[k][key] # Absent => Entered(key, g[k][key])
           D == {k \in 0..n : Worst(k)}
<1>11. 0 \in D
    BY <1>1, <1>9 DEF base
<1>12. ASSUME NEW k \in 0..(n - 1), k \in D PROVE k + 1 \in D
  <2>1. k + 1 \in 1..n /\ (k + 1) - 1 = k /\ k \in 0..n /\ k + 1 \in 0..n
      BY <1>1
  <2>2. Worst(k)
      BY <1>12
  <2> DEFINE r == jr[k + 1]
             s == g[k]
             t == g[k + 1]
  <2>3. s \in Copies /\ r.state \in State /\ r.key \in Key /\ t = Updated(s, r.key, r.state)
      BY <1>2, <1>9, <1>10, <2>1
  <2> HIDE DEF s, t
  <2>4. \A key \in Key : /\ t[key] = IF key = r.key /\ s[key] <= r.state THEN r.state ELSE s[key]
                         /\ s[key] \in Int /\ t[key] \in Int
    <3>1. /\ t \in Copies
          /\ \A key \in Key : t[key] = IF key = r.key /\ s[key] <= r.state THEN r.state ELSE s[key]
        BY <2>3, UpdatedIsWorst
    <3>2. \A key \in Key : s[key] \in State \cup {Absent} /\ t[key] \in State \cup {Absent}
        BY <2>3, <3>1 DEF Copies
    <3>3. QED
        BY <3>1, <3>2 DEF State, Absent
  <2>5. ASSUME NEW j \in 1..(k + 1) PROVE jr[j].state <= t[jr[j].key]
    <3>1. j \in 1..n /\ jr[j].key \in Key /\ jr[j].state \in Int
        BY <1>2, <2>1 DEF State
    <3> DEFINE u == jr[j].state
               x == jr[j].key
    <3>2. s[x] <= t[x] /\ r.state <= t[r.key]
      <4>1. r.state \in Int
          BY <2>3 DEF State
      <4> HIDE DEF r, x
      <4>2. QED
          BY <2>3, <2>4, <3>1, <4>1 DEF x
    <3>3. CASE j = k + 1
        BY <3>2, <3>3
    <3>4. CASE j # k + 1
      <4>1. u <= s[x]
        <5>1. j \in 1..k
            BY <2>1, <3>4
        <5>2. QED
            BY <2>2, <5>1 DEF s
      <4>2. u \in Int /\ s[x] \in Int /\ t[x] \in Int
          BY <2>4, <3>1
      <4> HIDE DEF u, x
      <4>3. u <= t[x]
          BY <3>2, <4>1, <4>2
      <4>4. QED
          BY <4>3 DEF u, x
    <3>5. QED
        BY <3>3, <3>4
  <2>6. ASSUME NEW key \in Key, t[key] # Absent PROVE Entered(key, t[key])
    <3>1. CASE key = r.key /\ t[key] = r.state
      <4>1. k + 1 \in DOMAIN journal /\ journal[k + 1] = r
          BY <1>0, <1>1, <2>1
      <4>2. QED
          BY <3>1, <4>1 DEF Entered
    <3>2. CASE t[key] = s[key]
        BY <2>2, <2>6, <3>2 DEF s
    <3>3. QED
        BY <2>4, <3>1, <3>2
  <2>7. QED
      BY <2>1, <2>5, <2>6 DEF t
<1>13. \A k \in 0..n : k \in D
  <2> HIDE DEF D, n
  <2>1. QED
    BY <1>1, <1>11, <1>12, UpTo
<1>14. n \in D /\ Rebuilt = g[n] /\ g[n] \in Copies
    BY <1>1, <1>5, <1>8, <1>9, <1>13
<1>15. QED
    BY <1>0, <1>1, <1>14

-----------------------------------------------------------------------------
(* Types *)

\* What a task holds at each place.
LEMMA TaskShape ==
    ASSUME TypeOK, NEW k \in Tasks
    PROVE  /\ task[k].pc \in {"idle", "plant", "service", "flags", "map", "score"}
           /\ task[k].pc \in {"plant", "service", "flags", "map", "score"} => task[k].key \in Key
           /\ task[k].pc = "plant" => task[k].slot \in Slots
           /\ task[k].pc = "flags" => task[k].rows \in SUBSET (1..MaxRows) /\ task[k].rows # {}
           /\ task[k].pc \in {"map", "score"} => task[k].state \in State
<1>1. task[k] \in TaskState
    BY DEF TypeOK
<1>2. CASE task[k] = Idle
    BY <1>2 DEF Idle
<1>3. CASE task[k] \in [pc : {"plant"}, key : Key, slot : Slots]
    BY <1>3
<1>4. CASE task[k] \in [pc : {"service"}, key : Key]
    BY <1>4
<1>5. CASE task[k] \in [pc : {"flags"}, key : Key, rows : SUBSET (1..MaxRows),
                        asked : SUBSET [key : Key, slot : Slots]]
    BY <1>5 DEF TypeOK
<1>6. CASE task[k] \in [pc : {"map", "score"}, key : Key, state : State]
    BY <1>6
<1>7. QED
    BY <1>1, <1>2, <1>3, <1>4, <1>5, <1>6 DEF TaskState

\* A task that is given a state of the right type.
TasksOK == task \in [Tasks -> TaskState] /\ \A k \in Tasks : task[k].pc = "flags" => task[k].rows # {}

LEMMA TaskTypes ==
    ASSUME TasksOK, NEW k \in Tasks, NEW t \in TaskState, t.pc = "flags" => t.rows # {},
           task' = [task EXCEPT ![k] = t]
    PROVE  TasksOK'
BY DEF TasksOK

\* A service check, if one is asked for, begins in its place.
LEMMA AsksTypes ==
    ASSUME TasksOK, NEW k \in Tasks, NEW key \in Key, Asks(k, key)
    PROVE  TasksOK'
<1>1. CASE UNCHANGED task
    BY <1>1 DEF TasksOK
<1>2. CASE task' = [task EXCEPT ![k] = [pc |-> "service", key |-> key]]
  <2> DEFINE t == [pc |-> "service", key |-> key]
  <2>1. t \in TaskState /\ t.pc # "flags" /\ task' = [task EXCEPT ![k] = t]
      BY <1>2 DEF TaskState
  <2> HIDE DEF t
  <2>2. QED
      BY <2>1, TaskTypes
<1>3. QED
    BY <1>1, <1>2 DEF Asks

LEMMA KeyTypes ==
    /\ \A i \in 1..MaxRows, t \in Targets : [round |-> i, target |-> t] \in Key
    /\ \A key \in Key : key.round \in 1..MaxRows /\ key.target \in Targets
BY DEF Key

\* The checks of a round, and what has been asked of it.
LEMMA RoundKeys ==
    ASSUME NEW i \in 1..MaxRows
    PROVE  [round : {i}, target : Targets] \subseteq Key
BY DEF Key

\* The entries with which a round is opened.
InitialEntries(i) ==
    SetToSeq({[key |-> [round |-> i, target |-> t], state |-> Unknown, type |-> "Initial"] :
                 t \in Targets})

LEMMA InitialEntriesTypes ==
    ASSUME NEW i \in 1..MaxRows
    PROVE  /\ InitialEntries(i) \in Seq(Entry)
           /\ Len(InitialEntries(i)) <= Cardinality(Targets) /\ Cardinality(Targets) \in Nat
           /\ \A j \in DOMAIN InitialEntries(i) :
                 InitialEntries(i)[j].type = "Initial" /\ InitialEntries(i)[j].state = Unknown
<1> DEFINE f == [t \in Targets |->
                    [key |-> [round |-> i, target |-> t], state |-> Unknown, type |-> "Initial"]]
           S == {f[t] : t \in Targets}
<1>1. f \in Surjection(Targets, S)
    BY DEF Surjection
<1>2. S = {[key |-> [round |-> i, target |-> t], state |-> Unknown, type |-> "Initial"] :
              t \in Targets}
    OBVIOUS
<1>3. \A e \in S : e \in Entry /\ e.type = "Initial" /\ e.state = Unknown
    BY KeyTypes DEF Entry, Types, State, Unknown
<1>4. InitialEntries(i) = SetToSeq(S)
    BY <1>2 DEF InitialEntries
<1> HIDE DEF f, S
<1>5. IsFiniteSet(S) /\ Cardinality(S) <= Cardinality(Targets) /\ Cardinality(Targets) \in Nat
    BY <1>1, ServiceAssumption, FS_Surjection, FS_CardinalityType
<1>6. SetToSeq(S) \in Seq(S) /\ Len(SetToSeq(S)) = Cardinality(S)
    BY <1>5, EnumerationOfSet
<1> DEFINE q == SetToSeq(S)
<1> HIDE DEF q
<1>7. q \in Seq(S) /\ Len(q) <= Cardinality(Targets) /\ InitialEntries(i) = q
    BY <1>4, <1>5, <1>6 DEF q
<1>8. \A j \in DOMAIN q : q[j] \in S
    BY <1>7
<1>9. q \in Seq(Entry)
    BY <1>3, <1>7, <1>8
<1>10. QED
    BY <1>3, <1>5, <1>7, <1>8, <1>9

\* The finished row of round 0 makes the newest finished row well defined, and
\* the rows whose flags are checked are rows of the table.
LEMMA RowsOfTable ==
    ASSUME TypeOK, RoundZeroStays
    PROVE  /\ LastFinished(rounds) \in DOMAIN rounds /\ LastFinished(rounds) \in 1..MaxRows
           /\ roundId \in 1..MaxRows /\ CurrentRow(rounds) \in 1..MaxRows
           /\ DOMAIN rounds = 1..Len(rounds) /\ Len(rounds) \in Nat /\ MaxRows \in Nat
           /\ CheckedRounds(rounds, FlagLife) \in SUBSET (1..MaxRows)
<1>1. /\ rounds \in Seq(Row) /\ Len(rounds) \in 1..MaxRows /\ roundId \in DOMAIN rounds
      /\ MaxRows \in Nat /\ FinishedRows(rounds) # {}
    BY ServiceAssumption DEF TypeOK, RoundZeroStays
<1>2. DOMAIN rounds = 1..Len(rounds) /\ DOMAIN rounds \subseteq 1..MaxRows
    BY <1>1
<1>3. FinishedRows(rounds) \subseteq DOMAIN rounds
    BY DEF FinishedRows
<1>4. LastFinished(rounds) \in FinishedRows(rounds)
    BY <1>1, LastFinishedIsGreatest
<1>5. CheckedRounds(rounds, FlagLife) \subseteq FinishedRows(rounds)
    BY DEF CheckedRounds
<1>6. QED
    BY <1>1, <1>2, <1>3, <1>4, <1>5 DEF CurrentRow

\* The conjuncts of TypeOK, by what the actions change together.
TableOK ==
    /\ rounds \in Seq(Row) /\ Len(rounds) \in 1..MaxRows
    /\ roundId \in DOMAIN rounds
TokensOK == tokens \subseteq [key : Key, slot : Slots]
JournalOK == journal \in Seq(Entry) /\ Len(journal) <= MaxEntries
LoopOK ==
    /\ loop \in {"booted", "starting", "planting", "playing", "paused"}
    /\ toPlant \subseteq Targets \X Slots
DueOK == due \subseteq [key : Key, check : {"service", "flags"}]
SweepOK == sweep \in SweepState
ViewsOK ==
    /\ map \in Copies /\ score \in Copies
    /\ scoreMail \in Seq([key : Key, state : State]) /\ Len(scoreMail) <= MailCap
BoundsOK == sweeps \in 0..MaxSweeps /\ crashes \in 0..MaxCrashes

LEMMA TypeParts ==
    TypeOK <=> /\ TableOK /\ TokensOK /\ JournalOK /\ LoopOK /\ DueOK /\ SweepOK
               /\ TasksOK /\ ViewsOK /\ BoundsOK
BY DEF TypeOK, TableOK, TokensOK, JournalOK, LoopOK, DueOK, SweepOK, TasksOK, ViewsOK,
       BoundsOK, Copies

LEMMA TypePartsNext ==
    TypeOK' <=> (/\ TableOK /\ TokensOK /\ JournalOK /\ LoopOK /\ DueOK /\ SweepOK
                 /\ TasksOK /\ ViewsOK /\ BoundsOK)'
BY TypeParts, PTL

\* The parts of the state that a step leaves alone.
LEMMA Unchanged ==
    /\ TableOK /\ UNCHANGED <<rounds, roundId>> => TableOK'
    /\ TokensOK /\ UNCHANGED tokens => TokensOK'
    /\ JournalOK /\ UNCHANGED journal => JournalOK'
    /\ LoopOK /\ UNCHANGED <<loop, toPlant>> => LoopOK'
    /\ DueOK /\ UNCHANGED due => DueOK'
    /\ SweepOK /\ UNCHANGED sweep => SweepOK'
    /\ TasksOK /\ UNCHANGED task => TasksOK'
    /\ ViewsOK /\ UNCHANGED views => ViewsOK'
    /\ BoundsOK /\ UNCHANGED bounds => BoundsOK'
BY DEF TableOK, TokensOK, JournalOK, LoopOK, DueOK, SweepOK, TasksOK, ViewsOK, BoundsOK,
       views, bounds

LEMMA InitTypes == Init => TypeOK /\ RoundZeroStays
<1> SUFFICES ASSUME Init PROVE TypeOK /\ RoundZeroStays
    OBVIOUS
<1> USE ServiceAssumption DEF Init
<1>1. TableOK /\ RoundZeroStays
    BY DEF TableOK, RoundZeroStays, FinishedRows, InitialRounds, Row
<1>2. JournalOK /\ TokensOK /\ LoopOK /\ DueOK /\ SweepOK /\ BoundsOK
    BY DEF JournalOK, TokensOK, LoopOK, DueOK, SweepOK, BoundsOK, SweepState, Waiting
<1>3. TasksOK
    BY DEF TasksOK, TaskState, Idle
<1>4. ViewsOK
    BY DEF ViewsOK, Copies
<1>5. QED
    BY <1>1, <1>2, <1>3, <1>4, TypeParts

\* The rounds table keeps its row of round 0 when another row is finished or
\* opened.
LEMMA TableAfter ==
    ASSUME TableOK, RoundZeroStays
    PROVE  LET marked == MarkFinished(rounds, roundId)
               opened == StartNewRound(marked) IN
           /\ marked \in Seq(Row) /\ Len(marked) = Len(rounds)
           /\ DOMAIN marked = DOMAIN rounds /\ 1 \in FinishedRows(marked)
           /\ opened \in Seq(Row) /\ Len(opened) = Len(rounds) + 1
           /\ 1 \in FinishedRows(opened)
<1> DEFINE marked == MarkFinished(rounds, roundId)
<1>1. rounds \in Seq(Row) /\ roundId \in DOMAIN rounds /\ 1 \in FinishedRows(rounds)
    BY DEF TableOK, RoundZeroStays
<1>2. /\ marked \in Seq(Row) /\ Len(marked) = Len(rounds)
      /\ DOMAIN marked = DOMAIN rounds /\ 1 \in FinishedRows(marked)
    BY <1>1, MarkFinishedRows
<1> HIDE DEF marked
<1>3. /\ StartNewRound(marked) \in Seq(Row) /\ Len(StartNewRound(marked)) = Len(marked) + 1
      /\ FinishedRows(StartNewRound(marked)) = FinishedRows(marked)
    BY <1>2, StartNewRoundRows
<1>4. QED
    BY <1>2, <1>3 DEF marked

LEMMA StartTypes == TypeOK /\ Start => TypeOK'
<1> SUFFICES ASSUME TypeOK, Start PROVE TypeOK'
    OBVIOUS
<1>1. LoopOK'
    BY TypeParts DEF Start, LoopOK
<1>2. QED
    BY <1>1, TypeParts, TypePartsNext, Unchanged DEF Start, db

LEMMA PauseRoundTypes == TypeOK /\ RoundZeroStays /\ PauseRound => TypeOK' /\ RoundZeroStays'
<1> SUFFICES ASSUME TypeOK, RoundZeroStays, PauseRound PROVE TypeOK' /\ RoundZeroStays'
    OBVIOUS
<1>1. LoopOK'
    BY TypeParts DEF PauseRound, LoopOK
<1>2. TableOK' /\ RoundZeroStays'
    BY TypeParts, TableAfter DEF PauseRound, TableOK, RoundZeroStays
<1>3. QED
    BY <1>1, <1>2, TypeParts, TypePartsNext, Unchanged DEF PauseRound

LEMMA StartRoundTypes == TypeOK /\ RoundZeroStays /\ StartRound => TypeOK' /\ RoundZeroStays'
<1> SUFFICES ASSUME TypeOK, RoundZeroStays, StartRound PROVE TypeOK' /\ RoundZeroStays'
    OBVIOUS
<1> USE ServiceAssumption
<1>0. Len(rounds) \in 1..MaxRows /\ Len(rounds) < MaxRows /\ MaxRows \in Nat
    BY TypeParts DEF StartRound, TableOK
<1>1. LoopOK'
    BY TypeParts DEF StartRound, LoopOK
<1>2. TableOK' /\ RoundZeroStays'
  <2>1. /\ rounds' \in Seq(Row) /\ Len(rounds') = Len(rounds) + 1
        /\ 1 \in FinishedRows(rounds') /\ roundId' = Len(rounds) + 1
      BY TypeParts, TableAfter DEF StartRound
  <2>2. QED
      BY <1>0, <2>1 DEF TableOK, RoundZeroStays
<1>3. JournalOK'
  <2>1. roundId' \in 1..MaxRows
      BY <1>0 DEF StartRound
  <2> DEFINE q == InitialEntries(roundId')
  <2>2. /\ journal' = journal \o q
        /\ journal \in Seq(Entry) /\ Len(journal) + Cardinality(Targets) <= MaxEntries
      BY TypeParts DEF StartRound, InitialEntries, JournalOK
  <2>3. q \in Seq(Entry) /\ Len(q) <= Cardinality(Targets) /\ Cardinality(Targets) \in Nat
      BY <2>1, InitialEntriesTypes
  <2> HIDE DEF q
  <2>4. QED
      BY <2>2, <2>3 DEF JournalOK
<1>4. QED
    BY <1>1, <1>2, <1>3, TypeParts, TypePartsNext, Unchanged DEF StartRound

LEMMA SpawnChecksTypes == TypeOK /\ RoundZeroStays /\ SpawnChecks => TypeOK'
<1> SUFFICES ASSUME TypeOK, RoundZeroStays, SpawnChecks PROVE TypeOK'
    OBVIOUS
<1>1. LoopOK'
    BY TypeParts DEF SpawnChecks, LoopOK
<1>2. DueOK'
    BY TypeParts, RowsOfTable, RoundKeys DEF SpawnChecks, DueOK
<1>3. QED
    BY <1>1, <1>2, TypeParts, TypePartsNext, Unchanged DEF SpawnChecks, db

LEMMA PlantFlagTypes ==
    ASSUME NEW k \in Tasks, NEW t \in Targets, NEW s \in Slots
    PROVE  TypeOK /\ RoundZeroStays /\ PlantFlag(k, t, s) => TypeOK'
<1> SUFFICES ASSUME TypeOK, RoundZeroStays, PlantFlag(k, t, s) PROVE TypeOK'
    OBVIOUS
<1>1. LoopOK'
    BY TypeParts DEF PlantFlag, LoopOK
<1>2. TasksOK'
  <2> DEFINE x == [pc |-> "plant", key |-> [round |-> roundId, target |-> t], slot |-> s]
  <2>1. x \in TaskState /\ x.pc # "flags" /\ task' = [task EXCEPT ![k] = x]
      BY RowsOfTable, KeyTypes DEF PlantFlag, TaskState
  <2> HIDE DEF x
  <2>2. QED
      BY <2>1, TypeParts, TaskTypes
<1>3. QED
    BY <1>1, <1>2, TypeParts, TypePartsNext, Unchanged DEF PlantFlag, db

LEMMA ServiceCheckOfRoundTypes ==
    ASSUME NEW k \in Tasks, NEW d \in due
    PROVE  TypeOK /\ ServiceCheckOfRound(k, d.key) => TypeOK'
<1> SUFFICES ASSUME TypeOK, ServiceCheckOfRound(k, d.key) PROVE TypeOK'
    OBVIOUS
<1>1. d.key \in Key /\ due' \subseteq due
    BY TypeParts DEF DueOK, ServiceCheckOfRound
<1>2. TasksOK' /\ DueOK'
    BY <1>1, TypeParts, AsksTypes DEF ServiceCheckOfRound, DueOK
<1>3. QED
    BY <1>2, TypeParts, TypePartsNext, Unchanged DEF ServiceCheckOfRound, db

LEMMA FlagCheckOfRoundTypes ==
    ASSUME NEW k \in Tasks, NEW d \in due
    PROVE  TypeOK /\ RoundZeroStays /\ FlagCheckOfRound(k, d.key) => TypeOK'
<1> SUFFICES ASSUME TypeOK, RoundZeroStays, FlagCheckOfRound(k, d.key) PROVE TypeOK'
    OBVIOUS
<1>1. d.key \in Key /\ due' \subseteq due
    BY TypeParts DEF DueOK, FlagCheckOfRound
<1> DEFINE rows == CheckedRounds(rounds, FlagLife)
           asked == FlagsToAsk(d.key.target, rows)
           x == [pc |-> "flags", key |-> d.key, rows |-> rows, asked |-> asked]
<1>2. rows \in SUBSET (1..MaxRows)
    BY RowsOfTable
<1>3. asked \in SUBSET [key : Key, slot : Slots]
    BY TypeParts DEF FlagsToAsk, TokensOK
<1>4. TasksOK'
  <2>1. CASE UNCHANGED task
      BY <2>1, TypeParts, Unchanged
  <2>2. CASE rows # {} /\ task' = [task EXCEPT ![k] = x]
    <3> HIDE DEF rows, asked
    <3>1. x \in TaskState /\ x.rows # {}
        BY <1>1, <1>2, <1>3, <2>2 DEF TaskState
    <3> HIDE DEF x
    <3>2. QED
        BY <2>2, <3>1, TypeParts, TaskTypes
  <2>3. QED
      BY <2>1, <2>2 DEF FlagCheckOfRound
<1>5. DueOK'
    BY <1>1, TypeParts DEF DueOK
<1>6. QED
    BY <1>4, <1>5, TypeParts, TypePartsNext, Unchanged DEF FlagCheckOfRound, db

LEMMA SweepSleepsTypes == TypeOK /\ SweepSleeps => TypeOK'
<1> SUFFICES ASSUME TypeOK, SweepSleeps PROVE TypeOK'
    OBVIOUS
<1>1. SweepOK'
    BY DEF SweepSleeps, SweepOK, SweepState
<1>2. BoundsOK'
    BY TypeParts, ServiceAssumption DEF SweepSleeps, BoundsOK
<1>3. QED
    BY <1>1, <1>2, TypeParts, TypePartsNext, Unchanged DEF SweepSleeps, db, game

LEMMA SweepStartsTypes == TypeOK /\ RoundZeroStays /\ SweepStarts => TypeOK'
<1> SUFFICES ASSUME TypeOK, RoundZeroStays, SweepStarts PROVE TypeOK'
    OBVIOUS
<1>1. SweepOK'
    BY RowsOfTable, RoundKeys DEF SweepStarts, SweepOK, SweepState
<1>2. QED
    BY <1>1, TypeParts, TypePartsNext, Unchanged DEF SweepStarts, db, game

LEMMA SweepAsksTypes ==
    ASSUME NEW k \in Tasks, sweep.pc = "asking", NEW key \in sweep.keys
    PROVE  TypeOK /\ SweepAsks(k, key) => TypeOK'
<1> SUFFICES ASSUME TypeOK, SweepAsks(k, key) PROVE TypeOK'
    OBVIOUS
<1>1. sweep \in [pc : {"asking"}, keys : SUBSET Key]
    BY TypeParts DEF SweepOK, SweepState, Waiting
<1>2. key \in Key
    BY <1>1
<1>3. SweepOK'
    BY <1>1 DEF SweepAsks, SweepOK, SweepState
<1>4. TasksOK'
    BY <1>2, TypeParts, AsksTypes DEF SweepAsks
<1>5. QED
    BY <1>3, <1>4, TypeParts, TypePartsNext, Unchanged DEF SweepAsks, db, game

\* What all the tasks that record an observation do first.
LEMMA RecordTypes ==
    ASSUME TypeOK, NEW k \in Tasks, NEW key \in Key, NEW state \in State, NEW type \in Types,
           Record(k, key, state, type), TokensOK'
    PROVE  TypeOK'
<1>1. JournalOK'
  <2> DEFINE e == [key |-> key, state |-> state, type |-> type]
  <2>1. e \in Entry
      BY DEF Entry
  <2>2. journal \in Seq(Entry) /\ journal' = Append(journal, e) /\ Len(journal) < MaxEntries
      BY TypeParts DEF Record, AppendEntry, JournalOK
  <2> HIDE DEF e
  <2>3. QED
      BY <2>1, <2>2, ServiceAssumption DEF JournalOK
<1>2. TasksOK'
  <2> DEFINE x == [pc |-> "map", key |-> key, state |-> state]
  <2>1. x \in TaskState /\ x.pc # "flags" /\ task' = [task EXCEPT ![k] = x]
      BY DEF Record, TaskState
  <2> HIDE DEF x
  <2>2. QED
      BY <2>1, TypeParts, TaskTypes
<1>3. QED
    BY <1>1, <1>2, TypeParts, TypePartsNext, Unchanged DEF Record, game

LEMMA FlagOfType ==
    ASSUME TypeOK, NEW k \in Tasks, task[k].pc = "plant"
    PROVE  FlagOf(k) \in [key : Key, slot : Slots]
BY TaskShape DEF FlagOf

\* What a flag check records is a state.
LEMMA AnswersVerdict ==
    ASSUME TypeOK, NEW k \in Tasks, task[k].pc = "flags",
           NEW answers \in [task[k].asked -> CheckerStates \cup {Unknown}],
           FlagsChecked(k, answers)
    PROVE  \E v \in State : Record(k, task[k].key, v, "CheckFlag")
<1> DEFINE rows == task[k].rows
           Given(i) == {answers[f] : f \in {g \in task[k].asked : g.key.round = i}}
           status == [i \in rows |-> StatusOf(SetToSeq(Given(i)))]
<1>1. rows \in SUBSET (1..MaxRows) /\ rows # {} /\ MaxRows \in Nat
    BY TaskShape, ServiceAssumption
<1>2. ASSUME NEW i PROVE StatusOf(SetToSeq(Given(i))) \in State
  <2>1. Given(i) \in SUBSET State
    <3>1. CheckerStates \cup {Unknown} \subseteq State
        BY ServiceAssumption DEF State, Unknown
    <3>2. \A f \in task[k].asked : answers[f] \in State
        BY <3>1
    <3>3. QED
        BY <3>2
  <2> HIDE DEF Given
  <2>2. IsFiniteSet(Given(i))
    <3>1. IsFiniteSet(State)
      <4>1. \A n \in Int : IsFiniteSet(1..n)
          BY FS_Interval
      <4>2. 6 \in Int
          OBVIOUS
      <4>3. QED
          BY <4>1, <4>2, Zenon DEF State
    <3>2. QED
        BY <2>1, <3>1, FS_Subset
  <2>3. SetToSeq(Given(i)) \in Seq(Given(i))
      BY <2>2, EnumerationOfSet
  <2> DEFINE q == SetToSeq(Given(i))
  <2>4. q \in Seq(State)
      BY <2>1, <2>3
  <2> HIDE DEF q
  <2>5. StatusOf(q) \in State
      BY <2>4, StatusIsState
  <2>6. QED
      BY <2>5 DEF q
<1>3. Record(k, task[k].key, Verdict(status, FlagLife), "CheckFlag")
    BY DEF FlagsChecked
<1> HIDE DEF Given
<1>4. status \in [rows -> State]
    BY <1>2
<1> HIDE DEF status, rows
<1>5. rows \in SUBSET (0..MaxRows)
    BY <1>1
<1>6. Verdict(status, FlagLife) \in State
    BY <1>1, <1>4, <1>5, VerdictIsState
<1>7. QED
    BY <1>3, <1>6

LEMMA AnswerTypes ==
    ASSUME NEW k \in Tasks
    PROVE  TypeOK /\ RoundZeroStays /\ Answer(k) => TypeOK'
<1> SUFFICES ASSUME TypeOK, RoundZeroStays, Answer(k) PROVE TypeOK'
    OBVIOUS
<1> USE DEF Types
<1>1. CheckerStates \subseteq State
    BY ServiceAssumption
<1>2. ASSUME NEW s \in CheckerStates, NEW token \in BOOLEAN, Planted(k, s, token)
      PROVE  TypeOK'
  <2>1. task[k].key \in Key /\ FlagOf(k) \in [key : Key, slot : Slots]
      BY <1>2, TaskShape, FlagOfType DEF Planted
  <2>2. TokensOK'
      BY <1>2, <2>1, TypeParts DEF Planted, TokensOK
  <2>3. Record(k, task[k].key, s, "PlantFlag")
      BY <1>2 DEF Planted
  <2>4. QED
      BY <1>1, <2>1, <2>2, <2>3, RecordTypes
<1>3. ASSUME NEW s \in CheckerStates, ServiceChecked(k, s)
      PROVE  TypeOK'
  <2> DEFINE key == [task[k].key EXCEPT !.round = CurrentRow(rounds)]
  <2>1. task[k].key \in Key
      BY <1>3, TaskShape DEF ServiceChecked
  <2>2. CurrentRow(rounds) \in 1..MaxRows
      BY RowsOfTable
  <2>3. key \in Key
      BY <2>1, <2>2 DEF Key
  <2>4. TokensOK'
      BY <1>3, TypeParts, Unchanged DEF ServiceChecked
  <2>5. Record(k, key, s, "ServiceCheck")
      BY <1>3 DEF ServiceChecked
  <2> HIDE DEF key
  <2>6. QED
      BY <1>1, <2>3, <2>4, <2>5, RecordTypes
<1>4. ASSUME task[k].pc = "flags",
             NEW answers \in [task[k].asked -> CheckerStates \cup {Unknown}],
             FlagsChecked(k, answers)
      PROVE  TypeOK'
  <2>1. task[k].key \in Key
      BY <1>4, TaskShape
  <2>2. TokensOK'
      BY <1>4, TypeParts, Unchanged DEF FlagsChecked
  <2>3. PICK v \in State : Record(k, task[k].key, v, "CheckFlag")
      BY <1>4, AnswersVerdict
  <2>4. QED
      BY <2>1, <2>2, <2>3, RecordTypes
<1>5. QED
    BY <1>2, <1>3, <1>4 DEF Answer, PlantAnswer, ServiceAnswer, FlagAnswers

LEMMA TaskFailsTypes ==
    ASSUME NEW k \in Tasks
    PROVE  TypeOK /\ TaskFails(k) => TypeOK'
<1> SUFFICES ASSUME TypeOK, TaskFails(k) PROVE TypeOK'
    OBVIOUS
<1>1. TokensOK'
    BY TypeParts, FlagOfType DEF TaskFails, TokensOK
<1>2. TasksOK'
  <2>1. Idle \in TaskState /\ Idle.pc # "flags"
      BY DEF TaskState, Idle
  <2>2. QED
      BY <2>1, TypeParts, TaskTypes DEF TaskFails
<1>3. QED
    BY <1>1, <1>2, TypeParts, TypePartsNext, Unchanged DEF TaskFails, game

\* What UpdateMap and TellScorebot do with a task.
LEMMA MovedOn ==
    ASSUME TypeOK, NEW k \in Tasks, task[k].pc \in {"map", "score"}
    PROVE  /\ [task[k] EXCEPT !.pc = "score"] =
                 [pc |-> "score", key |-> task[k].key, state |-> task[k].state]
           /\ task[k].key \in Key /\ task[k].state \in State
<1>1. task[k] \in [pc : {"map", "score"}, key : Key, state : State]
    BY DEF TypeOK, TaskState, Idle
<1>2. QED
    BY <1>1

LEMMA UpdateMapTypes ==
    ASSUME NEW k \in Tasks
    PROVE  TypeOK /\ UpdateMap(k) => TypeOK'
<1> SUFFICES ASSUME TypeOK, UpdateMap(k) PROVE TypeOK'
    OBVIOUS
<1>1. task[k].key \in Key /\ task[k].state \in State
    BY MovedOn DEF UpdateMap
<1>2. ViewsOK'
    BY <1>1, TypeParts, UpdatedIsWorst DEF UpdateMap, ViewsOK
<1>3. TasksOK'
  <2> DEFINE x == [pc |-> "score", key |-> task[k].key, state |-> task[k].state]
  <2>1. task' = [task EXCEPT ![k] = x]
      BY MovedOn DEF UpdateMap
  <2>2. x \in TaskState /\ x.pc # "flags"
      BY <1>1 DEF TaskState
  <2> HIDE DEF x
  <2>3. QED
      BY <2>1, <2>2, TypeParts, TaskTypes
<1>4. QED
    BY <1>2, <1>3, TypeParts, TypePartsNext, Unchanged DEF UpdateMap, db, game

LEMMA TellScorebotTypes ==
    ASSUME NEW k \in Tasks
    PROVE  TypeOK /\ TellScorebot(k) => TypeOK'
<1> SUFFICES ASSUME TypeOK, TellScorebot(k) PROVE TypeOK'
    OBVIOUS
<1>1. ViewsOK'
  <2> DEFINE m == [key |-> task[k].key, state |-> task[k].state]
  <2>1. m \in [key : Key, state : State]
      BY MovedOn DEF TellScorebot
  <2>2. /\ scoreMail \in Seq([key : Key, state : State]) /\ Len(scoreMail) < MailCap
        /\ scoreMail' = Append(scoreMail, m) /\ UNCHANGED <<map, score>>
      BY TypeParts DEF TellScorebot, ViewsOK
  <2> HIDE DEF m
  <2>3. scoreMail' \in Seq([key : Key, state : State]) /\ Len(scoreMail') <= MailCap
      BY <2>1, <2>2, ServiceAssumption
  <2>4. QED
      BY <2>2, <2>3, TypeParts DEF ViewsOK
<1>2. TasksOK'
  <2>1. Idle \in TaskState /\ Idle.pc # "flags"
      BY DEF TaskState, Idle
  <2>2. QED
      BY <2>1, TypeParts, TaskTypes DEF TellScorebot
<1>3. QED
    BY <1>1, <1>2, TypeParts, TypePartsNext, Unchanged DEF TellScorebot, db, game

LEMMA MailShape ==
    ASSUME TypeOK
    PROVE  /\ scoreMail \in Seq([key : Key, state : State])
           /\ \A i \in DOMAIN scoreMail : scoreMail[i].key \in Key /\ scoreMail[i].state \in State
           /\ scoreMail # <<>> => /\ 1 \in DOMAIN scoreMail /\ Head(scoreMail) = scoreMail[1]
                                  /\ Tail(scoreMail) \in Seq([key : Key, state : State])
                                  /\ Len(Tail(scoreMail)) = Len(scoreMail) - 1
                                  /\ \A i \in DOMAIN Tail(scoreMail) :
                                        i + 1 \in DOMAIN scoreMail
                                        /\ Tail(scoreMail)[i] = scoreMail[i + 1]
<1> DEFINE M == [key : Key, state : State]
<1>1. scoreMail \in Seq(M)
    BY DEF TypeOK
<1>2. \A m \in M : m.key \in Key /\ m.state \in State
    OBVIOUS
<1> HIDE DEF M
<1>3. \A i \in DOMAIN scoreMail : scoreMail[i] \in M
    BY <1>1
<1>4. scoreMail # <<>> => /\ 1 \in DOMAIN scoreMail /\ Head(scoreMail) = scoreMail[1]
                          /\ Tail(scoreMail) \in Seq(M)
                          /\ Len(Tail(scoreMail)) = Len(scoreMail) - 1
                          /\ \A i \in DOMAIN Tail(scoreMail) :
                                i + 1 \in DOMAIN scoreMail
                                /\ Tail(scoreMail)[i] = scoreMail[i + 1]
    BY <1>1
<1>5. QED
    BY <1>1, <1>2, <1>3, <1>4 DEF M

LEMMA ScoreStateTypes == TypeOK /\ ScoreState => TypeOK'
<1> SUFFICES ASSUME TypeOK, ScoreState PROVE TypeOK'
    OBVIOUS
<1>1. score' \in Copies
  <2>1. Head(scoreMail).key \in Key /\ Head(scoreMail).state \in State /\ score \in Copies
      BY MailShape, TypeParts DEF ScoreState, ViewsOK
  <2>2. QED
      BY <2>1, UpdatedIsWorst DEF ScoreState
<1>2. scoreMail' \in Seq([key : Key, state : State]) /\ Len(scoreMail') <= MailCap
  <2>1. scoreMail \in Seq([key : Key, state : State]) /\ Len(scoreMail) <= MailCap
        /\ Len(Tail(scoreMail)) = Len(scoreMail) - 1 /\ scoreMail' = Tail(scoreMail)
      BY MailShape DEF TypeOK, ScoreState
  <2>2. Len(scoreMail) \in Nat /\ MailCap \in Nat
      BY <2>1, ServiceAssumption
  <2>3. Len(scoreMail') <= MailCap
      BY <2>1, <2>2
  <2>4. QED
      BY <2>1, <2>3, MailShape DEF ScoreState
<1>3. ViewsOK'
    BY <1>1, <1>2, TypeParts DEF ScoreState, ViewsOK
<1>4. QED
    BY <1>3, TypeParts, TypePartsNext, Unchanged DEF ScoreState, db, game

LEMMA CrashTypes == TypeOK /\ RoundZeroStays /\ Crash => TypeOK'
<1> SUFFICES ASSUME TypeOK, RoundZeroStays, Crash PROVE TypeOK'
    OBVIOUS
<1>1. TableOK' /\ LoopOK' /\ DueOK' /\ SweepOK'
    BY RowsOfTable, TypeParts DEF Crash, db, TableOK, LoopOK, DueOK, SweepOK, SweepState
<1>2. TasksOK'
    BY DEF Crash, TasksOK, TaskState, Idle
<1>3. ViewsOK'
  <2>1. Rebuilt \in Copies
      BY TypeParts, RebuiltIsWorst DEF JournalOK
  <2>2. QED
      BY <2>1, ServiceAssumption DEF Crash, ViewsOK
<1>4. BoundsOK'
    BY TypeParts, ServiceAssumption DEF Crash, BoundsOK
<1>5. QED
    BY <1>1, <1>2, <1>3, <1>4, TypeParts, TypePartsNext, Unchanged DEF Crash, db

-----------------------------------------------------------------------------
(* The steps *)

LEMMA InitCopies == Init => CopiesInv
<1> SUFFICES ASSUME Init PROVE CopiesInv
    OBVIOUS
<1>1. DOMAIN journal = {} /\ DOMAIN scoreMail = {}
    BY DEF Init
<1>2. \A k \in Tasks : task[k].pc = "idle"
    BY DEF Init, Idle
<1>3. \A key \in Key : map[key] = Absent /\ score[key] = Absent
    BY DEF Init
<1>4. InitialsAreUnknown /\ MapIsTold /\ FlagChecksFollowUp
    BY <1>1 DEF InitialsAreUnknown, MapIsTold, FlagChecksFollowUp
<1>5. StatesAreEntered /\ FlagChecksWait
    BY <1>2, <1>3 DEF StatesAreEntered, FlagChecksWait
<1>6. ScoreIsBehind /\ ScoreIsTold
    BY <1>1, <1>2, <1>3 DEF ScoreIsBehind, ScoreIsTold, Absent
<1>7. QED
    BY <1>4, <1>5, <1>6 DEF CopiesInv

\* A step that leaves the records and the tasks alone.
LEMMA QuietStep ==
    CopiesInv /\ UNCHANGED <<journal, task, views>> => CopiesInv'
<1> SUFFICES ASSUME CopiesInv, UNCHANGED <<journal, task, views>> PROVE CopiesInv'
    OBVIOUS
<1> USE DEF views
<1>1. \A key, state : Entered(key, state) <=> Entered(key, state)'
    BY DEF Entered
<1>2. InitialsAreUnknown' /\ FlagChecksFollowUp'
    BY DEF CopiesInv, InitialsAreUnknown, FlagChecksFollowUp
<1>3. StatesAreEntered' /\ FlagChecksWait'
    BY <1>1 DEF CopiesInv, StatesAreEntered, FlagChecksWait
<1>4. ScoreIsBehind' /\ MapIsTold' /\ ScoreIsTold'
    BY DEF CopiesInv, ScoreIsBehind, MapIsTold, TellsMap, ScoreIsTold, TellsScore, Mailed
<1>5. QED
    BY <1>2, <1>3, <1>4 DEF CopiesInv

\* A task goes from one place to another without having recorded anything.
LEMMA TaskStep ==
    ASSUME TypeOK, CopiesInv, NEW k \in Tasks, NEW t, UNCHANGED <<journal, views>>,
           task' = [task EXCEPT ![k] = t],
           task[k].pc \notin {"map", "score"}, t.pc \notin {"map", "score"},
           t.pc = "flags" => Entered(t.key, Up)
    PROVE  CopiesInv'
<1> USE DEF views
<1>0. task'[k] = t /\ \A i \in Tasks : i # k => task'[i] = task[i]
    BY DEF TypeOK
<1>1. \A key, state : Entered(key, state) <=> Entered(key, state)'
    BY DEF Entered
<1>2. InitialsAreUnknown' /\ FlagChecksFollowUp'
    BY DEF CopiesInv, InitialsAreUnknown, FlagChecksFollowUp
<1>3. StatesAreEntered' /\ FlagChecksWait'
  <2>1. \A i \in Tasks : task'[i].pc \in {"map", "score"} => Entered(task'[i].key, task'[i].state)
      BY <1>0 DEF CopiesInv, StatesAreEntered
  <2>2. \A i \in Tasks : task'[i].pc = "flags" => Entered(task'[i].key, Up)
      BY <1>0 DEF CopiesInv, FlagChecksWait
  <2>3. QED
      BY <1>1, <2>1, <2>2 DEF CopiesInv, StatesAreEntered, FlagChecksWait
<1>4. ScoreIsBehind'
    BY <1>0 DEF CopiesInv, ScoreIsBehind
<1>5. \A i \in Tasks : task[i].pc \in {"map", "score"} => task'[i] = task[i]
    BY <1>0
<1>6. MapIsTold' /\ ScoreIsTold'
    BY <1>5 DEF CopiesInv, MapIsTold, TellsMap, ScoreIsTold, TellsScore, Mailed
<1>7. QED
    BY <1>2, <1>3, <1>4, <1>6 DEF CopiesInv

\* The journal grows at its end.
LEMMA GrowthKeepsEntries ==
    ASSUME NEW q, journal \in Seq(Entry), q \in Seq(Entry), journal' = journal \o q
    PROVE  /\ DOMAIN journal = 1..Len(journal) /\ Len(journal) \in Nat
           /\ DOMAIN journal' = 1..(Len(journal) + Len(q)) /\ Len(q) \in Nat
           /\ \A j \in DOMAIN journal : j \in DOMAIN journal' /\ journal'[j] = journal[j]
           /\ \A j \in DOMAIN journal' : j \notin DOMAIN journal =>
                 j - Len(journal) \in DOMAIN q /\ journal'[j] = q[j - Len(journal)]
           /\ \A key, state : Entered(key, state) => Entered(key, state)'
<1>1. /\ DOMAIN journal = 1..Len(journal) /\ Len(journal) \in Nat
      /\ DOMAIN journal' = 1..(Len(journal) + Len(q)) /\ Len(q) \in Nat
      /\ \A j \in DOMAIN journal : j \in DOMAIN journal' /\ journal'[j] = journal[j]
      /\ \A j \in DOMAIN journal' : j \notin DOMAIN journal =>
            j - Len(journal) \in DOMAIN q /\ journal'[j] = q[j - Len(journal)]
    OBVIOUS
<1>2. \A key, state : Entered(key, state) => Entered(key, state)'
    BY <1>1 DEF Entered
<1>3. QED
    BY <1>1, <1>2

\* A flag check that has been recorded keeps the entry that it follows.
LEMMA FollowUpStays ==
    ASSUME FlagChecksFollowUp, NEW q, journal \in Seq(Entry), q \in Seq(Entry),
           journal' = journal \o q
    PROVE  \A j \in DOMAIN journal : journal'[j].type = "CheckFlag" =>
              \E i \in 1..(j - 1) : journal'[i].key = journal'[j].key /\ journal'[i].state = Up
<1> SUFFICES ASSUME NEW j \in DOMAIN journal, journal'[j].type = "CheckFlag"
             PROVE  \E i \in 1..(j - 1) : journal'[i].key = journal'[j].key /\ journal'[i].state = Up
    OBVIOUS
<1>1. /\ DOMAIN journal = 1..Len(journal) /\ Len(journal) \in Nat
      /\ \A i \in DOMAIN journal : journal'[i] = journal[i]
    BY GrowthKeepsEntries
<1>2. PICK i \in 1..(j - 1) : journal[i].key = journal[j].key /\ journal[i].state = Up
    BY <1>1 DEF FlagChecksFollowUp
<1>3. i \in DOMAIN journal
    BY <1>1
<1>4. QED
    BY <1>1, <1>2, <1>3

\* The Initial entries of a round tell nobody anything.
LEMMA OpeningStep ==
    ASSUME CopiesInv, UNCHANGED <<task, views>>, NEW q, journal \in Seq(Entry), q \in Seq(Entry),
           journal' = journal \o q,
           \A j \in DOMAIN q : q[j].type = "Initial" /\ q[j].state = Unknown
    PROVE  CopiesInv'
<1> USE DEF views
<1>1. /\ DOMAIN journal = 1..Len(journal) /\ Len(journal) \in Nat
      /\ \A j \in DOMAIN journal : j \in DOMAIN journal' /\ journal'[j] = journal[j]
      /\ \A j \in DOMAIN journal' : j \notin DOMAIN journal =>
            journal'[j].type = "Initial" /\ journal'[j].state = Unknown
      /\ \A key, state : Entered(key, state) => Entered(key, state)'
    BY GrowthKeepsEntries
<1>2. InitialsAreUnknown'
    BY <1>1 DEF CopiesInv, InitialsAreUnknown
<1>3. FlagChecksFollowUp'
    BY <1>1, FollowUpStays DEF CopiesInv, FlagChecksFollowUp
<1>4. StatesAreEntered' /\ FlagChecksWait'
    BY <1>1 DEF CopiesInv, StatesAreEntered, FlagChecksWait
<1>5. ScoreIsBehind' /\ ScoreIsTold'
    BY DEF CopiesInv, ScoreIsBehind, ScoreIsTold, TellsScore, Mailed
<1>6. MapIsTold'
    BY <1>1 DEF CopiesInv, MapIsTold, TellsMap
<1>7. QED
    BY <1>2, <1>3, <1>4, <1>5, <1>6 DEF CopiesInv

\* An observation is entered, and the task goes on to the map with it.
LEMMA RecordStep ==
    ASSUME TypeOK, CopiesInv, NEW k \in Tasks, NEW key \in Key, NEW state \in State,
           NEW type \in Types \ {"Initial"}, Record(k, key, state, type),
           task[k].pc \notin {"map", "score"},
           type = "CheckFlag" => Entered(key, Up)
    PROVE  CopiesInv'
<1> USE DEF views
<1> DEFINE e == [key |-> key, state |-> state, type |-> type]
           t == [pc |-> "map", key |-> key, state |-> state]
           q == <<e>>
<1>1. task'[k] = t /\ (\A i \in Tasks : i # k => task'[i] = task[i]) /\ UNCHANGED views
    BY DEF TypeOK, Record
<1>2. journal \in Seq(Entry) /\ q \in Seq(Entry) /\ journal' = journal \o q
  <2>1. e \in Entry
      BY DEF Entry
  <2>2. journal' = Append(journal, e) /\ journal \in Seq(Entry)
      BY DEF TypeOK, Record, AppendEntry
  <2> HIDE DEF e
  <2>3. QED
      BY <2>1, <2>2
<1>3. DOMAIN q = {1} /\ q[1] = e
    OBVIOUS
<1> HIDE DEF q
<1> DEFINE n == Len(journal)
<1>4. /\ DOMAIN journal = 1..n /\ n \in Nat /\ n + 1 \in DOMAIN journal'
      /\ \A j \in DOMAIN journal : j \in DOMAIN journal' /\ journal'[j] = journal[j]
      /\ \A j \in DOMAIN journal' : j \notin DOMAIN journal => j = n + 1 /\ journal'[j] = e
      /\ \A ky, st : Entered(ky, st) => Entered(ky, st)'
  <2>1. Len(q) = 1
      BY DEF q
  <2>2. /\ DOMAIN journal = 1..n /\ n \in Nat /\ DOMAIN journal' = 1..(n + 1)
        /\ \A j \in DOMAIN journal : j \in DOMAIN journal' /\ journal'[j] = journal[j]
        /\ \A j \in DOMAIN journal' : j \notin DOMAIN journal =>
              j - n \in DOMAIN q /\ journal'[j] = q[j - n]
        /\ \A ky, st : Entered(ky, st) => Entered(ky, st)'
      BY <1>2, <2>1, GrowthKeepsEntries
  <2> HIDE DEF n, e
  <2>3. ASSUME NEW j \in DOMAIN journal', j \notin DOMAIN journal
        PROVE  j = n + 1 /\ journal'[j] = e
    <3>1. j \in 1..(n + 1) /\ j \notin 1..n
        BY <2>2, <2>3
    <3>2. j = n + 1
        BY <2>2, <3>1
    <3>3. j - n = 1 /\ journal'[j] = q[j - n]
        BY <2>2, <2>3, <3>2
    <3>4. QED
        BY <1>3, <3>2, <3>3
  <2>4. QED
      BY <2>2, <2>3
<1> HIDE DEF n
<1>5. journal'[n + 1] = e /\ Entered(key, state)'
  <2>1. n + 1 \notin DOMAIN journal
      BY <1>4
  <2>2. journal'[n + 1] = e
      BY <1>4, <2>1
  <2>3. QED
      BY <1>4, <2>2 DEF Entered
<1>6. InitialsAreUnknown'
    BY <1>4 DEF CopiesInv, InitialsAreUnknown
<1>7. FlagChecksFollowUp'
  <2>1. \A j \in DOMAIN journal : journal'[j].type = "CheckFlag" =>
           \E i \in 1..(j - 1) : journal'[i].key = journal'[j].key /\ journal'[i].state = Up
      BY <1>2, FollowUpStays DEF CopiesInv
  <2>2. type = "CheckFlag" =>
           \E i \in 1..((n + 1) - 1) : journal'[i].key = key /\ journal'[i].state = Up
    <3>1. SUFFICES ASSUME type = "CheckFlag"
                   PROVE  \E i \in 1..((n + 1) - 1) : journal'[i].key = key /\ journal'[i].state = Up
        OBVIOUS
    <3>2. PICK i \in DOMAIN journal : journal[i].key = key /\ journal[i].state = Up
        BY <3>1 DEF Entered
    <3>3. i \in 1..((n + 1) - 1)
        BY <1>4
    <3>4. QED
        BY <1>4, <3>2, <3>3
  <2>3. QED
      BY <1>4, <1>5, <2>1, <2>2 DEF FlagChecksFollowUp
<1>8. StatesAreEntered' /\ FlagChecksWait'
    BY <1>1, <1>4, <1>5 DEF CopiesInv, StatesAreEntered, FlagChecksWait
<1>9. ScoreIsBehind' /\ ScoreIsTold'
    BY <1>1 DEF CopiesInv, ScoreIsBehind, ScoreIsTold, TellsScore, Mailed
<1>10. MapIsTold'
  <2>1. SUFFICES ASSUME NEW j \in DOMAIN journal', journal'[j].type # "Initial"
                 PROVE  \/ journal'[j].state <= map'[journal'[j].key]
                        \/ \E i \in Tasks : TellsMap(i, journal[j].key, journal[j].state)'
      BY DEF MapIsTold
  <2>2. CASE j \in DOMAIN journal
    <3>1. \/ journal[j].state <= map[journal[j].key]
          \/ \E i \in Tasks : TellsMap(i, journal[j].key, journal[j].state)
        BY <1>4, <2>1, <2>2 DEF CopiesInv, MapIsTold
    <3>2. QED
        BY <1>1, <1>4, <2>2, <3>1 DEF TellsMap
  <2>3. CASE j \notin DOMAIN journal
    <3>1. journal'[j] = e /\ state <= state
        BY <1>4, <2>3 DEF State
    <3>2. TellsMap(k, journal[j].key, journal[j].state)'
        BY <1>1, <3>1 DEF TellsMap
    <3>3. QED
        BY <3>2
  <2>4. QED
      BY <2>2, <2>3
<1>11. QED
    BY <1>6, <1>7, <1>8, <1>9, <1>10 DEF CopiesInv

\* The values of the copies are numbers.
LEMMA CopyShape ==
    ASSUME TypeOK
    PROVE  \A key \in Key : /\ map[key] \in Int /\ 0 <= map[key]
                            /\ score[key] \in Int /\ 0 <= score[key]
BY DEF TypeOK, State, Absent

\* The map is told: what it shows for the key is now the worse of what it showed
\* and what the task goes on to the scorebot with.
LEMMA UpdateMapStep ==
    ASSUME TypeOK, CopiesInv, NEW k \in Tasks, UpdateMap(k)
    PROVE  CopiesInv' /\ \A key \in Key : map'[key] >= map[key]
<1> DEFINE y == task[k].key
           s == task[k].state
           x == [pc |-> "score", key |-> y, state |-> s]
<1>1. y \in Key /\ s \in State /\ s \in Int /\ task[k].pc = "map" /\ Entered(y, s)
  <2>1. task[k].pc = "map" /\ y \in Key /\ s \in State
      BY MovedOn DEF UpdateMap
  <2>2. Entered(y, s)
      BY <2>1 DEF CopiesInv, StatesAreEntered
  <2>3. QED
      BY <2>1, <2>2 DEF State
<1>2. task'[k] = x /\ \A i \in Tasks : i # k => task'[i] = task[i]
    BY MovedOn DEF TypeOK, UpdateMap
<1>3. UNCHANGED <<journal, scoreMail, score>>
    BY DEF UpdateMap, db
<1> HIDE DEF y, s
<1>4. \A key \in Key : map'[key] = IF key = y /\ map[key] <= s THEN s ELSE map[key]
  <2>1. map \in Copies /\ map' = Updated(map, y, s)
      BY DEF UpdateMap, TypeOK, Copies, y, s
  <2>2. QED
      BY <1>1, <2>1, UpdatedIsWorst
<1>5. \A key \in Key : map'[key] >= map[key] /\ map'[key] \in Int /\ map[key] \in Int
    BY <1>1, <1>4, CopyShape
<1>6. s <= map'[y]
    BY <1>1, <1>4, <1>5, CopyShape
<1>7. \A key, state : Entered(key, state) <=> Entered(key, state)'
    BY <1>3 DEF Entered
<1>8. InitialsAreUnknown' /\ FlagChecksFollowUp'
    BY <1>3 DEF CopiesInv, InitialsAreUnknown, FlagChecksFollowUp
<1>9. StatesAreEntered'
  <2>1. ASSUME NEW key \in Key, map'[key] # Absent PROVE Entered(key, map'[key])
      BY <1>1, <1>4, <2>1 DEF CopiesInv, StatesAreEntered
  <2>2. ASSUME NEW i \in Tasks, task'[i].pc \in {"map", "score"}
        PROVE  Entered(task'[i].key, task'[i].state)
      BY <1>1, <1>2, <2>2 DEF CopiesInv, StatesAreEntered
  <2>3. QED
      BY <1>7, <2>1, <2>2 DEF StatesAreEntered
<1>10. FlagChecksWait'
    BY <1>2, <1>7 DEF CopiesInv, FlagChecksWait
<1>11. ScoreIsBehind'
  <2>1. ASSUME NEW key \in Key PROVE score'[key] <= map'[key]
    <3>1. score[key] <= map[key] /\ score[key] \in Int
        BY CopyShape DEF CopiesInv, ScoreIsBehind
    <3>2. QED
        BY <1>3, <1>5, <3>1
  <2>2. ASSUME NEW i \in Tasks, task'[i].pc = "score" PROVE task'[i].state <= map'[task'[i].key]
    <3>1. CASE i = k
        BY <1>2, <1>6, <3>1
    <3>2. CASE i # k
      <4>1. task'[i] = task[i] /\ task[i].pc = "score"
          BY <1>2, <2>2, <3>2
      <4> DEFINE ks == task[i].key
                 st == task[i].state
      <4>2. ks \in Key /\ st \in Int /\ st <= map[ks]
        <5>1. ks \in Key /\ st \in State
            BY <4>1, MovedOn
        <5>2. st <= map[ks]
            BY <4>1 DEF CopiesInv, ScoreIsBehind
        <5>3. QED
            BY <5>1, <5>2 DEF State
      <4> HIDE DEF ks, st
      <4>3. st <= map'[ks]
          BY <1>5, <4>2
      <4>4. QED
          BY <4>1, <4>3 DEF ks, st
    <3>3. QED
        BY <3>1, <3>2
  <2>3. ASSUME NEW i \in DOMAIN scoreMail PROVE scoreMail[i].state <= map'[scoreMail[i].key]
    <3> DEFINE ks == scoreMail[i].key
               st == scoreMail[i].state
    <3>1. ks \in Key /\ st \in Int /\ st <= map[ks]
        BY MailShape DEF CopiesInv, ScoreIsBehind, State
    <3> HIDE DEF ks, st
    <3>2. st <= map'[ks]
        BY <1>5, <3>1
    <3>3. QED
        BY <3>2 DEF ks, st
  <2>4. QED
      BY <1>3, <2>1, <2>2, <2>3 DEF ScoreIsBehind
<1>12. MapIsTold'
  <2>1. SUFFICES ASSUME NEW j \in DOMAIN journal, journal[j].type # "Initial"
                 PROVE  \/ journal[j].state <= map'[journal[j].key]
                        \/ \E i \in Tasks : /\ task'[i].pc = "map" /\ task'[i].key = journal[j].key
                                            /\ journal[j].state <= task'[i].state
      BY <1>3 DEF MapIsTold, TellsMap
  <2> DEFINE ky == journal[j].key
             st == journal[j].state
  <2>2. ky \in Key /\ st \in Int
    <3>1. journal[j] \in Entry
        BY DEF TypeOK
    <3>2. QED
        BY <3>1 DEF Entry, State
  <2>3. \/ st <= map[ky]
        \/ \E i \in Tasks : task[i].pc = "map" /\ task[i].key = ky /\ st <= task[i].state
      BY <2>1 DEF CopiesInv, MapIsTold, TellsMap
  <2> HIDE DEF ky, st
  <2>4. CASE st <= map[ky]
      BY <1>5, <2>2, <2>4 DEF ky, st
  <2>5. CASE \E i \in Tasks : task[i].pc = "map" /\ task[i].key = ky /\ st <= task[i].state
    <3>1. PICK i \in Tasks : task[i].pc = "map" /\ task[i].key = ky /\ st <= task[i].state
        BY <2>5
    <3>2. CASE i = k
      <4>1. ky = y /\ st <= s
          BY <3>1, <3>2 DEF y, s
      <4>2. st <= map'[ky]
          BY <1>1, <1>5, <1>6, <2>2, <4>1
      <4>3. QED
          BY <4>2 DEF ky, st
    <3>3. CASE i # k
        BY <1>2, <3>1, <3>3 DEF ky, st
    <3>4. QED
        BY <3>2, <3>3
  <2>6. QED
      BY <2>3, <2>4, <2>5
<1>13. ScoreIsTold'
  <2>1. SUFFICES ASSUME NEW key \in Key
                 PROVE  \/ map'[key] <= score[key]
                        \/ \E i \in Tasks : /\ task'[i].pc = "score" /\ task'[i].key = key
                                            /\ map'[key] <= task'[i].state
                        \/ \E i \in DOMAIN scoreMail : scoreMail[i].key = key
                                                       /\ map'[key] <= scoreMail[i].state
      BY <1>3 DEF ScoreIsTold, TellsScore, Mailed
  <2>2. CASE map'[key] = map[key]
    <3>1. \/ map[key] <= score[key]
          \/ \E i \in Tasks : /\ task[i].pc = "score" /\ task[i].key = key
                              /\ map[key] <= task[i].state
          \/ \E i \in DOMAIN scoreMail : scoreMail[i].key = key /\ map[key] <= scoreMail[i].state
        BY DEF CopiesInv, ScoreIsTold, TellsScore, Mailed
    <3>2. \A i \in Tasks : task[i].pc = "score" => task'[i] = task[i]
        BY <1>1, <1>2
    <3>3. QED
        BY <2>2, <3>1, <3>2
  <2>3. CASE map'[key] # map[key]
    <3>1. key = y /\ map'[key] = s
        BY <1>4, <2>3
    <3>2. QED
        BY <1>1, <1>2, <3>1
  <2>4. QED
      BY <2>2, <2>3
<1>14. QED
    BY <1>5, <1>8, <1>9, <1>10, <1>11, <1>12, <1>13 DEF CopiesInv

\* The task's message is what is left of it.
LEMMA TellScorebotStep ==
    ASSUME TypeOK, CopiesInv, NEW k \in Tasks, TellScorebot(k)
    PROVE  CopiesInv'
<1> DEFINE m == [key |-> task[k].key, state |-> task[k].state]
           n == Len(scoreMail)
<1>1. UNCHANGED <<journal, map, score>>
    BY DEF TellScorebot, db
<1>2. task'[k].pc = "idle" /\ \A i \in Tasks : i # k => task'[i] = task[i]
    BY DEF TypeOK, TellScorebot, Idle
<1>3. /\ n + 1 \in DOMAIN scoreMail' /\ scoreMail'[n + 1] = m
      /\ \A i \in DOMAIN scoreMail : i \in DOMAIN scoreMail' /\ scoreMail'[i] = scoreMail[i]
      /\ \A i \in DOMAIN scoreMail' : i \in DOMAIN scoreMail \/ scoreMail'[i] = m
  <2>1. m \in [key : Key, state : State]
      BY MovedOn DEF TellScorebot
  <2>2. scoreMail \in Seq([key : Key, state : State]) /\ scoreMail' = Append(scoreMail, m)
      BY DEF TypeOK, TellScorebot
  <2> HIDE DEF m
  <2>3. QED
      BY <2>1, <2>2
<1>4. task[k].pc = "score" /\ m.key = task[k].key /\ m.state = task[k].state
    BY DEF TellScorebot
<1> HIDE DEF m, n
<1>5. \A key, state : Entered(key, state) <=> Entered(key, state)'
    BY <1>1 DEF Entered
<1>6. InitialsAreUnknown' /\ FlagChecksFollowUp'
    BY <1>1 DEF CopiesInv, InitialsAreUnknown, FlagChecksFollowUp
<1>7. StatesAreEntered' /\ FlagChecksWait'
    BY <1>1, <1>2, <1>5 DEF CopiesInv, StatesAreEntered, FlagChecksWait
<1>8. ScoreIsBehind'
  <2>1. m.state <= map[m.key]
      BY <1>4 DEF CopiesInv, ScoreIsBehind
  <2>2. \A i \in DOMAIN scoreMail' : scoreMail'[i].state <= map[scoreMail'[i].key]
      BY <1>3, <2>1 DEF CopiesInv, ScoreIsBehind
  <2>3. QED
      BY <1>1, <1>2, <2>2 DEF CopiesInv, ScoreIsBehind
<1>9. MapIsTold'
  <2>1. \A i \in Tasks : task[i].pc = "map" => task'[i] = task[i]
      BY <1>2, <1>4
  <2>2. QED
      BY <1>1, <2>1 DEF CopiesInv, MapIsTold, TellsMap
<1>10. ScoreIsTold'
  <2>1. SUFFICES ASSUME NEW key \in Key
                 PROVE  \/ map[key] <= score[key]
                        \/ \E i \in Tasks : /\ task'[i].pc = "score" /\ task'[i].key = key
                                            /\ map[key] <= task'[i].state
                        \/ \E i \in DOMAIN scoreMail' : scoreMail'[i].key = key
                                                        /\ map[key] <= scoreMail'[i].state
      BY <1>1 DEF ScoreIsTold, TellsScore, Mailed
  <2>2. \/ map[key] <= score[key]
        \/ \E i \in Tasks : /\ task[i].pc = "score" /\ task[i].key = key
                            /\ map[key] <= task[i].state
        \/ \E i \in DOMAIN scoreMail : scoreMail[i].key = key /\ map[key] <= scoreMail[i].state
      BY DEF CopiesInv, ScoreIsTold, TellsScore, Mailed
  <2>3. QED
      BY <1>2, <1>3, <1>4, <2>2
<1>11. QED
    BY <1>6, <1>7, <1>8, <1>9, <1>10 DEF CopiesInv

\* The scorebot takes a message: what it shows for the key is at least that.
LEMMA ScoreStateStep ==
    ASSUME TypeOK, CopiesInv, ScoreState
    PROVE  CopiesInv'
<1> DEFINE y == scoreMail[1].key
           s == scoreMail[1].state
<1>1. UNCHANGED <<journal, map, task>>
    BY DEF ScoreState, db
<1>2. /\ y \in Key /\ s \in State /\ s \in Int /\ 1 \in DOMAIN scoreMail
      /\ scoreMail \in Seq([key : Key, state : State])
      /\ scoreMail # <<>> /\ scoreMail' = Tail(scoreMail)
      /\ Head(scoreMail).key = y /\ Head(scoreMail).state = s
    BY MailShape DEF ScoreState, State
<1>3. s <= map[y]
    BY <1>2 DEF CopiesInv, ScoreIsBehind
<1>4. \A i \in DOMAIN scoreMail' : i + 1 \in DOMAIN scoreMail /\ scoreMail'[i] = scoreMail[i + 1]
    BY <1>2, MailShape
<1>5. \A i \in DOMAIN scoreMail : i = 1 \/ (i - 1 \in DOMAIN scoreMail' /\ scoreMail'[i - 1] = scoreMail[i])
  <2> DEFINE M == [key : Key, state : State]
  <2>1. scoreMail \in Seq(M) /\ scoreMail # <<>> /\ scoreMail' = Tail(scoreMail)
      BY <1>2
  <2> HIDE DEF M
  <2>2. QED
      BY <2>1
<1> HIDE DEF y, s
<1>6. \A key \in Key : score'[key] = IF key = y /\ score[key] <= s THEN s ELSE score[key]
  <2>1. score \in Copies /\ score' = Updated(score, y, s)
      BY <1>2 DEF ScoreState, TypeOK, Copies
  <2>2. QED
      BY <1>2, <2>1, UpdatedIsWorst
<1>7. \A key, state : Entered(key, state) <=> Entered(key, state)'
    BY <1>1 DEF Entered
<1>8. InitialsAreUnknown' /\ FlagChecksFollowUp'
    BY <1>1 DEF CopiesInv, InitialsAreUnknown, FlagChecksFollowUp
<1>9. StatesAreEntered' /\ FlagChecksWait'
    BY <1>1, <1>7 DEF CopiesInv, StatesAreEntered, FlagChecksWait
<1>10. ScoreIsBehind'
  <2>1. \A key \in Key : score'[key] <= map[key]
      BY <1>3, <1>6 DEF CopiesInv, ScoreIsBehind
  <2>2. \A i \in DOMAIN scoreMail' : scoreMail'[i].state <= map[scoreMail'[i].key]
      BY <1>4 DEF CopiesInv, ScoreIsBehind
  <2>3. QED
      BY <1>1, <2>1, <2>2 DEF CopiesInv, ScoreIsBehind
<1>11. MapIsTold'
    BY <1>1 DEF CopiesInv, MapIsTold, TellsMap
<1>12. ScoreIsTold'
  <2>1. SUFFICES ASSUME NEW key \in Key
                 PROVE  \/ map[key] <= score'[key]
                        \/ \E i \in Tasks : /\ task[i].pc = "score" /\ task[i].key = key
                                            /\ map[key] <= task[i].state
                        \/ \E i \in DOMAIN scoreMail' : scoreMail'[i].key = key
                                                        /\ map[key] <= scoreMail'[i].state
      BY <1>1 DEF ScoreIsTold, TellsScore, Mailed
  <2>2. \/ map[key] <= score[key]
        \/ \E i \in Tasks : /\ task[i].pc = "score" /\ task[i].key = key
                            /\ map[key] <= task[i].state
        \/ \E i \in DOMAIN scoreMail : scoreMail[i].key = key /\ map[key] <= scoreMail[i].state
      BY DEF CopiesInv, ScoreIsTold, TellsScore, Mailed
  <2> DEFINE a == map[key]
             b == score[key]
             c == score'[key]
  <2>3. a \in Int /\ b \in Int /\ c \in Int /\ b <= c /\ (key = y => s <= c)
      BY <1>2, <1>6, CopyShape
  <2> HIDE DEF a, b, c
  <2>4. CASE a <= b
    <3>1. a <= c
        BY <2>3, <2>4
    <3>2. QED
        BY <3>1 DEF a, c
  <2>5. CASE \E i \in DOMAIN scoreMail : scoreMail[i].key = key /\ a <= scoreMail[i].state
    <3>1. PICK i \in DOMAIN scoreMail : scoreMail[i].key = key /\ a <= scoreMail[i].state
        BY <2>5
    <3>2. CASE i = 1
      <4>1. key = y /\ a <= s
          BY <3>1, <3>2 DEF y, s
      <4>2. a <= c
          BY <1>2, <2>3, <4>1
      <4>3. QED
          BY <4>2 DEF a, c
    <3>3. CASE i # 1
      <4>1. i - 1 \in DOMAIN scoreMail' /\ scoreMail'[i - 1] = scoreMail[i]
          BY <1>5, <3>3
      <4>2. QED
          BY <3>1, <4>1 DEF a
    <3>4. QED
        BY <3>2, <3>3
  <2>6. QED
      BY <2>2, <2>4, <2>5 DEF a, b
<1>13. QED
    BY <1>8, <1>9, <1>10, <1>11, <1>12 DEF CopiesInv

\* A restart takes map and scorebot to the worst of all that is in the journal,
\* hence nothing that the map showed before is taken back.
LEMMA CrashStep ==
    ASSUME TypeOK, CopiesInv, Crash
    PROVE  CopiesInv' /\ \A key \in Key : map'[key] >= map[key]
<1>1. /\ map' = Rebuilt /\ score' = Rebuilt /\ scoreMail' = <<>> /\ UNCHANGED journal
      /\ \A k \in Tasks : task'[k].pc = "idle"
    BY DEF Crash, db, Idle
<1>2. /\ Rebuilt \in Copies /\ journal \in Seq(Entry)
      /\ \A j \in DOMAIN journal : journal[j].state <= Rebuilt[journal[j].key]
      /\ \A key \in Key : Rebuilt[key] # Absent => Entered(key, Rebuilt[key])
    BY RebuiltIsWorst DEF TypeOK
<1>3. \A key \in Key : Rebuilt[key] \in Int /\ 0 <= Rebuilt[key]
    BY <1>2 DEF Copies, State, Absent
<1>4. \A key, state : Entered(key, state) <=> Entered(key, state)'
    BY <1>1 DEF Entered
<1>5. InitialsAreUnknown' /\ FlagChecksFollowUp'
    BY <1>1 DEF CopiesInv, InitialsAreUnknown, FlagChecksFollowUp
<1>6. StatesAreEntered' /\ FlagChecksWait'
    BY <1>1, <1>2, <1>4 DEF StatesAreEntered, FlagChecksWait
<1>7. DOMAIN scoreMail' = {}
    BY <1>1
<1>8. ScoreIsBehind' /\ ScoreIsTold'
    BY <1>1, <1>3, <1>7 DEF ScoreIsBehind, ScoreIsTold
<1>9. MapIsTold'
    BY <1>1, <1>2 DEF MapIsTold
<1>10. ASSUME NEW key \in Key PROVE map'[key] >= map[key]
  <2>1. CASE map[key] = Absent
      BY <1>1, <1>3, <2>1 DEF Absent
  <2>2. CASE map[key] # Absent
    <3>1. PICK j \in DOMAIN journal : journal[j].key = key /\ journal[j].state = map[key]
        BY <2>2 DEF CopiesInv, StatesAreEntered, Entered
    <3> DEFINE a == map[key]
               b == Rebuilt[key]
    <3>2. a \in Int /\ b \in Int /\ a <= b
        BY <1>2, <1>3, <3>1, CopyShape
    <3> HIDE DEF a, b
    <3>3. b >= a
        BY <3>2
    <3>4. QED
        BY <1>1, <3>3 DEF a, b
  <2>3. QED
      BY <2>1, <2>2
<1>11. QED
    BY <1>5, <1>6, <1>8, <1>9, <1>10 DEF CopiesInv

\* Asking for a check of a service.
LEMMA AsksStep ==
    ASSUME TypeOK, CopiesInv, NEW k \in Tasks, NEW key, Asks(k, key), UNCHANGED <<journal, views>>
    PROVE  CopiesInv'
<1>1. CASE UNCHANGED task
    BY <1>1, QuietStep
<1>2. CASE task[k] = Idle /\ task' = [task EXCEPT ![k] = [pc |-> "service", key |-> key]]
  <2> DEFINE t == [pc |-> "service", key |-> key]
  <2>1. t.pc = "service" /\ task' = [task EXCEPT ![k] = t] /\ task[k].pc = "idle"
      BY <1>2 DEF Idle
  <2> HIDE DEF t
  <2>2. QED
      BY <2>1, TaskStep
<1>3. QED
    BY <1>1, <1>2 DEF Asks

LEMMA AskStep ==
    ASSUME TypeOK, CopiesInv, NEW k \in Tasks, Ask(k)
    PROVE  CopiesInv'
<1>1. ASSUME NEW d \in due, ServiceCheckOfRound(k, d.key) PROVE CopiesInv'
    BY <1>1, AsksStep DEF ServiceCheckOfRound, db
<1>2. ASSUME NEW d \in due, FlagCheckOfRound(k, d.key) PROVE CopiesInv'
  <2> DEFINE rows == CheckedRounds(rounds, FlagLife)
             t == [pc |-> "flags", key |-> d.key, rows |-> rows,
                   asked |-> FlagsToAsk(d.key.target, rows)]
  <2>1. UNCHANGED <<journal, views>>
      BY <1>2 DEF FlagCheckOfRound, db
  <2>2. CASE UNCHANGED task
      BY <2>1, <2>2, QuietStep
  <2>3. CASE map[d.key] = Up /\ task[k] = Idle /\ task' = [task EXCEPT ![k] = t]
    <3>1. d.key \in Key
        BY TypeParts DEF DueOK
    <3>2. Entered(d.key, Up)
        BY <2>3, <3>1 DEF CopiesInv, StatesAreEntered, Up, Absent
    <3>3. t.pc = "flags" /\ t.key = d.key /\ task[k].pc = "idle" /\ task' = [task EXCEPT ![k] = t]
        BY <2>3 DEF Idle
    <3> HIDE DEF t
    <3>4. QED
        BY <2>1, <3>2, <3>3, TaskStep
  <2>4. QED
      BY <1>2, <2>2, <2>3 DEF FlagCheckOfRound
<1>3. ASSUME NEW key \in sweep.keys, SweepAsks(k, key) PROVE CopiesInv'
    BY <1>3, AsksStep DEF SweepAsks, db
<1>4. QED
    BY <1>1, <1>2, <1>3 DEF Ask

LEMMA AnswerStep ==
    ASSUME TypeOK, RoundZeroStays, CopiesInv, NEW k \in Tasks, Answer(k)
    PROVE  CopiesInv' /\ UNCHANGED map
<1> USE DEF Types
<1>1. CheckerStates \subseteq State
    BY ServiceAssumption
<1>2. ASSUME NEW s \in CheckerStates, NEW token \in BOOLEAN, Planted(k, s, token)
      PROVE  CopiesInv' /\ UNCHANGED map
  <2>1. task[k].key \in Key /\ task[k].pc = "plant" /\ Record(k, task[k].key, s, "PlantFlag")
      BY <1>2, TaskShape DEF Planted
  <2>2. QED
      BY <1>1, <2>1, RecordStep DEF Record, views
<1>3. ASSUME NEW s \in CheckerStates, ServiceChecked(k, s)
      PROVE  CopiesInv' /\ UNCHANGED map
  <2> DEFINE key == [task[k].key EXCEPT !.round = CurrentRow(rounds)]
  <2>1. task[k].key \in Key /\ CurrentRow(rounds) \in 1..MaxRows
      BY <1>3, TaskShape, RowsOfTable DEF ServiceChecked
  <2>2. key \in Key
      BY <2>1 DEF Key
  <2>3. task[k].pc = "service" /\ Record(k, key, s, "ServiceCheck")
      BY <1>3 DEF ServiceChecked
  <2> HIDE DEF key
  <2>4. QED
      BY <1>1, <2>2, <2>3, RecordStep DEF Record, views
<1>4. ASSUME task[k].pc = "flags",
             NEW answers \in [task[k].asked -> CheckerStates \cup {Unknown}],
             FlagsChecked(k, answers)
      PROVE  CopiesInv' /\ UNCHANGED map
  <2>1. task[k].key \in Key /\ Entered(task[k].key, Up)
      BY <1>4, TaskShape DEF CopiesInv, FlagChecksWait
  <2>2. PICK v \in State : Record(k, task[k].key, v, "CheckFlag")
      BY <1>4, AnswersVerdict
  <2>3. QED
      BY <1>4, <2>1, <2>2, RecordStep DEF Record, views
<1>5. QED
    BY <1>2, <1>3, <1>4 DEF Answer, PlantAnswer, ServiceAnswer, FlagAnswers

-----------------------------------------------------------------------------
(* The invariant *)

LEMMA SameRounds == RoundZeroStays /\ UNCHANGED rounds => RoundZeroStays'
BY DEF RoundZeroStays

\* A step that leaves map, journal and tasks alone, or that leaves the map alone.
OnlyWorsens == \A key \in Key : map'[key] >= map[key]

LEMMA SameMap == TypeOK /\ UNCHANGED map => OnlyWorsens
BY CopyShape DEF OnlyWorsens

LEMMA LoopPreserves ==
    ServiceInv /\ Loop => ServiceInv' /\ OnlyWorsens
<1> SUFFICES ASSUME ServiceInv, Loop PROVE ServiceInv' /\ OnlyWorsens
    OBVIOUS
<1> USE DEF ServiceInv
<1>1. UNCHANGED map
    BY DEF Loop, Start, PauseRound, StartRound, SpawnChecks, PlantFlag, views
<1>2. CASE Start
  <2>1. TypeOK' /\ RoundZeroStays'
      BY <1>2, StartTypes, SameRounds DEF Start, db
  <2>2. CopiesInv'
      BY <1>2, QuietStep DEF Start, db
  <2>3. QED
      BY <1>1, <2>1, <2>2, SameMap
<1>3. CASE PauseRound
  <2>1. TypeOK' /\ RoundZeroStays'
      BY <1>3, PauseRoundTypes
  <2>2. CopiesInv'
      BY <1>3, QuietStep DEF PauseRound
  <2>3. QED
      BY <1>1, <2>1, <2>2, SameMap
<1>4. CASE StartRound
  <2>1. TypeOK' /\ RoundZeroStays'
      BY <1>4, StartRoundTypes
  <2>2. roundId' \in 1..MaxRows
      BY <2>1, ServiceAssumption DEF TypeOK
  <2> DEFINE q == InitialEntries(roundId')
  <2>3. journal' = journal \o q /\ journal \in Seq(Entry) /\ UNCHANGED <<task, views>>
      BY <1>4 DEF StartRound, InitialEntries, TypeOK
  <2>4. q \in Seq(Entry) /\ \A j \in DOMAIN q : q[j].type = "Initial" /\ q[j].state = Unknown
      BY <2>2, InitialEntriesTypes
  <2> HIDE DEF q
  <2>5. CopiesInv'
      BY <2>3, <2>4, OpeningStep
  <2>6. QED
      BY <1>1, <2>1, <2>5, SameMap
<1>5. CASE SpawnChecks
  <2>1. TypeOK' /\ RoundZeroStays'
      BY <1>5, SpawnChecksTypes, SameRounds DEF SpawnChecks, db
  <2>2. CopiesInv'
      BY <1>5, QuietStep DEF SpawnChecks, db
  <2>3. QED
      BY <1>1, <2>1, <2>2, SameMap
<1>6. ASSUME NEW k \in Tasks, NEW t \in Targets, NEW s \in Slots, PlantFlag(k, t, s)
      PROVE  ServiceInv' /\ OnlyWorsens
  <2>1. TypeOK' /\ RoundZeroStays'
      BY <1>6, PlantFlagTypes, SameRounds DEF PlantFlag, db
  <2> DEFINE x == [pc |-> "plant", key |-> [round |-> roundId, target |-> t], slot |-> s]
  <2>2. /\ task' = [task EXCEPT ![k] = x] /\ task[k].pc = "idle" /\ x.pc = "plant"
        /\ UNCHANGED <<journal, views>>
      BY <1>6 DEF PlantFlag, db, Idle
  <2> HIDE DEF x
  <2>3. CopiesInv'
      BY <2>2, TaskStep
  <2>4. QED
      BY <1>1, <2>1, <2>3, SameMap
<1>7. QED
    BY <1>2, <1>3, <1>4, <1>5, <1>6 DEF Loop

LEMMA TaskPreserves ==
    ASSUME NEW k \in Tasks, ServiceInv,
           Ask(k) \/ Answer(k) \/ TaskFails(k) \/ UpdateMap(k) \/ TellScorebot(k)
    PROVE  ServiceInv' /\ OnlyWorsens
<1> USE DEF ServiceInv
<1>1. RoundZeroStays'
  <2>1. UNCHANGED rounds
      BY DEF Ask, ServiceCheckOfRound, FlagCheckOfRound, SweepAsks, Answer, PlantAnswer, Planted,
             ServiceAnswer, ServiceChecked, FlagAnswers, FlagsChecked, Record, TaskFails,
             UpdateMap, TellScorebot, db
  <2>2. QED
      BY <2>1, SameRounds
<1>2. CASE Ask(k)
  <2>1. TypeOK'
      BY <1>2, ServiceCheckOfRoundTypes, FlagCheckOfRoundTypes, SweepAsksTypes DEF Ask
  <2>2. UNCHANGED map
      BY <1>2 DEF Ask, ServiceCheckOfRound, FlagCheckOfRound, SweepAsks, views
  <2>3. QED
      BY <1>1, <1>2, <2>1, <2>2, AskStep, SameMap
<1>3. CASE Answer(k)
    BY <1>1, <1>3, AnswerTypes, AnswerStep, SameMap
<1>4. CASE TaskFails(k)
  <2>1. /\ task' = [task EXCEPT ![k] = Idle] /\ task[k].pc \notin {"map", "score"}
        /\ Idle.pc = "idle" /\ UNCHANGED <<journal, views>>
      BY <1>4 DEF TaskFails, Idle
  <2>2. CopiesInv' /\ UNCHANGED map
      BY <2>1, TaskStep DEF views
  <2>3. QED
      BY <1>1, <1>4, <2>2, TaskFailsTypes, SameMap
<1>5. CASE UpdateMap(k)
    BY <1>1, <1>5, UpdateMapTypes, UpdateMapStep DEF OnlyWorsens
<1>6. CASE TellScorebot(k)
  <2>1. UNCHANGED map
      BY <1>6 DEF TellScorebot
  <2>2. QED
      BY <1>1, <1>6, <2>1, TellScorebotTypes, TellScorebotStep, SameMap
<1>7. QED
    BY <1>2, <1>3, <1>4, <1>5, <1>6

LEMMA ServiceInvNext ==
    ServiceInv /\ [Next]_vars => ServiceInv' /\ OnlyWorsens
<1> SUFFICES ASSUME ServiceInv, [Next]_vars PROVE ServiceInv' /\ OnlyWorsens
    OBVIOUS
<1>0. TypeOK /\ RoundZeroStays /\ CopiesInv
    BY DEF ServiceInv
<1>1. CASE Loop
    BY <1>1, LoopPreserves
<1>2. CASE SweepSleeps
  <2>1. UNCHANGED <<rounds, journal, task, views, map>>
      BY <1>2 DEF SweepSleeps, db, views
  <2>2. QED
      BY <1>0, <1>2, <2>1, SweepSleepsTypes, SameRounds, QuietStep, SameMap DEF ServiceInv
<1>3. CASE SweepStarts
  <2>1. UNCHANGED <<rounds, journal, task, views, map>>
      BY <1>3 DEF SweepStarts, db, views
  <2>2. QED
      BY <1>0, <1>3, <2>1, SweepStartsTypes, SameRounds, QuietStep, SameMap DEF ServiceInv
<1>4. CASE ScoreState
  <2>1. UNCHANGED <<rounds, map>>
      BY <1>4 DEF ScoreState, db
  <2>2. QED
      BY <1>0, <1>4, <2>1, ScoreStateTypes, SameRounds, ScoreStateStep, SameMap DEF ServiceInv
<1>5. CASE Crash
  <2>1. UNCHANGED rounds
      BY <1>5 DEF Crash, db
  <2>2. QED
      BY <1>0, <1>5, <2>1, CrashTypes, SameRounds, CrashStep DEF ServiceInv, OnlyWorsens
<1>6. ASSUME NEW k \in Tasks,
             Ask(k) \/ Answer(k) \/ TaskFails(k) \/ UpdateMap(k) \/ TellScorebot(k)
      PROVE  ServiceInv' /\ OnlyWorsens
    BY <1>6, TaskPreserves
<1>7. CASE UNCHANGED vars
  <2>1. UNCHANGED <<rounds, journal, task, views, map>>
      BY <1>7 DEF vars, db, views
  <2>2. TypeOK'
      BY <1>0, <1>7, TypeParts, TypePartsNext, Unchanged DEF vars, db, game
  <2>3. QED
      BY <1>0, <2>1, <2>2, SameRounds, QuietStep, SameMap DEF ServiceInv
<1>8. QED
    BY <1>1, <1>2, <1>3, <1>4, <1>5, <1>6, <1>7 DEF Next

LEMMA ServiceInvHolds == Spec => []ServiceInv
<1>1. Init => ServiceInv
    BY InitTypes, InitCopies DEF ServiceInv
<1>2. ServiceInv /\ [Next]_vars => ServiceInv'
    BY ServiceInvNext
<1>3. QED
    BY <1>1, <1>2, PTL DEF Spec

\* Neither map nor scorebot is ahead of what it is a copy of, whatever tasks and
\* restarts interleave: a crash takes back nothing that was shown (game.rs
\* update_service_state).
LEMMA CopiesFollow == ServiceInv => CopiesFollowJournal
<1> SUFFICES ASSUME ServiceInv, NEW key \in Key
             PROVE  score[key] <= map[key] /\ map[key] <= Recorded(key)
    BY DEF CopiesFollowJournal
<1> USE DEF ServiceInv
<1>1. score[key] <= map[key]
    BY DEF CopiesInv, ScoreIsBehind
<1>2. /\ Recorded(key) \in State
      /\ \A j \in DOMAIN journal : journal[j].key = key => journal[j].state <= Recorded(key)
    BY RecordedIsWorst DEF TypeOK
<1>3. CASE map[key] = Absent
    BY <1>1, <1>2, <1>3 DEF Absent, State
<1>4. CASE map[key] # Absent
    BY <1>1, <1>2, <1>4 DEF CopiesInv, StatesAreEntered, Entered
<1>5. QED
    BY <1>3, <1>4

\* With no observation under way, the three places agree.
LEMMA CopiesAgree == ServiceInv => CopiesAgreeAtRest
<1> SUFFICES ASSUME ServiceInv,
                    scoreMail = <<>>, \A k \in Tasks : task[k].pc \notin {"map", "score"},
                    NEW key \in Key
             PROVE  /\ map[key] = score[key]
                    /\ Sla(score[key]) = Sla(Recorded(key))
                    /\ IF map[key] = Absent
                       THEN \A e \in Range(journal) : e.key = key => e.type = "Initial"
                       ELSE map[key] = Recorded(key)
    BY DEF CopiesAgreeAtRest
<1> USE DEF ServiceInv
<1>1. map[key] \in Int /\ 0 <= map[key] /\ score[key] \in Int
    BY CopyShape
<1>2. score[key] <= map[key] /\ map[key] <= score[key]
  <2>1. DOMAIN scoreMail = {}
      OBVIOUS
  <2>2. QED
      BY <2>1 DEF CopiesInv, ScoreIsBehind, ScoreIsTold, TellsScore
<1>3. map[key] = score[key]
    BY <1>1, <1>2
<1>4. \A j \in DOMAIN journal : journal[j].key = key =>
         journal[j].type = "Initial" \/ journal[j].state <= map[key]
    BY DEF CopiesInv, MapIsTold, TellsMap
<1>5. \A j \in DOMAIN journal : journal[j].state \in State
  <2>1. \A j \in DOMAIN journal : journal[j] \in Entry
      BY DEF TypeOK
  <2>2. QED
      BY <2>1 DEF Entry
<1>6. /\ Recorded(key) \in State
      /\ \A j \in DOMAIN journal : journal[j].key = key => journal[j].state <= Recorded(key)
      /\ Recorded(key) = Unknown \/ Entered(key, Recorded(key))
    BY RecordedIsWorst DEF TypeOK
<1>7. CASE map[key] = Absent
  <2>1. \A j \in DOMAIN journal : journal[j].key = key => journal[j].type = "Initial"
      BY <1>4, <1>5, <1>7 DEF State, Absent
  <2>2. Recorded(key) = Unknown
      BY <1>6, <2>1 DEF Entered, CopiesInv, InitialsAreUnknown
  <2>3. Sla(score[key]) = Sla(Recorded(key))
      BY <1>3, <1>7, <2>2 DEF Sla, Absent, Unknown, Up, Recovering
  <2>4. QED
      BY <1>3, <1>7, <2>1, <2>3 DEF Range
<1>8. CASE map[key] # Absent
  <2>1. PICK i \in DOMAIN journal : journal[i].key = key /\ journal[i].state = map[key]
      BY <1>8 DEF CopiesInv, StatesAreEntered, Entered
  <2>2. map[key] <= Recorded(key) /\ map[key] \in State
      BY <1>5, <1>6, <2>1
  <2>3. Recorded(key) <= map[key]
    <3>1. CASE Recorded(key) = Unknown
        BY <2>2, <3>1 DEF State, Unknown
    <3>2. CASE Entered(key, Recorded(key))
      <4>1. PICK j \in DOMAIN journal : journal[j].key = key /\ journal[j].state = Recorded(key)
          BY <3>2 DEF Entered
      <4>2. CASE journal[j].type = "Initial"
          BY <2>2, <4>1, <4>2 DEF CopiesInv, InitialsAreUnknown, State, Unknown
      <4>3. CASE journal[j].type # "Initial"
          BY <1>4, <4>1, <4>3
      <4>4. QED
          BY <4>2, <4>3
    <3>3. QED
        BY <1>6, <3>1, <3>2
  <2>4. map[key] = Recorded(key)
      BY <1>6, <2>2, <2>3 DEF State
  <2>5. QED
      BY <1>3, <1>8, <2>4
<1>9. QED
    BY <1>7, <1>8

-----------------------------------------------------------------------------
(* The theorems *)

\* The variables keep their types (game.rs Model, the tasks' locals, FaustCTF).
THEOREM TypeCorrect == Spec => []TypeOK
<1>1. ServiceInv => TypeOK
    BY DEF ServiceInv
<1>2. QED
    BY <1>1, ServiceInvHolds, PTL

\* What the map and the scorebot show has been recorded, at every step of every
\* interleaving of answers, messages and restarts (game.rs update_service_state,
\* replay_scorebot).
THEOREM CopiesAreBacked == Spec => []CopiesFollowJournal
BY CopiesFollow, ServiceInvHolds, PTL

\* Whatever the order in which the answers passed each other between journal,
\* map and scorebot, the three agree once all have arrived (game.rs
\* update_service_state, replay_scorebot).
THEOREM CopiesConverge == Spec => []CopiesAgreeAtRest
BY CopiesAgree, ServiceInvHolds, PTL

\* A flag check's verdict is recorded only for a service that a checker has seen
\* Up in that round before (game.rs check_flags).
THEOREM FlagChecksNeedUp == Spec => []FlagChecksFollowUp
<1>1. ServiceInv => FlagChecksFollowUp
    BY DEF ServiceInv, CopiesInv
<1>2. QED
    BY <1>1, ServiceInvHolds, PTL

\* No step improves or forgets what the map shows of a round, not even a restart
\* (service.rs should_update, game.rs replay_scorebot).
THEOREM MapOnlyWorsens == Spec => StatesOnlyWorsen
<1>1. ServiceInv /\ [Next]_vars => [OnlyWorsens]_vars
    BY ServiceInvNext
<1>2. Spec => [][OnlyWorsens]_vars
    BY <1>1, ServiceInvHolds, PTL DEF Spec
<1>3. QED
    BY <1>2 DEF StatesOnlyWorsen, OnlyWorsens
=============================================================================
