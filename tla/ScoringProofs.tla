---------------------------- MODULE ScoringProofs ----------------------------
(***************************************************************************)
(* Proofs about Scoring: that the points the scorebot keeps are those of   *)
(* the messages it has handled, whatever their order (Reflects), that      *)
(* these and the messages under way are always the entries of the journal  *)
(* that count, and that the replay leaves the scorebot in such a state.    *)
(***************************************************************************)
EXTENDS Scoring, OperatorProofs

-----------------------------------------------------------------------------
(* Flags, teams and messages *)

LEMMA FlagsFinite ==
    ASSUME ScoringAssumption
    PROVE  IsFiniteSet(Flag)
<1> DEFINE Pair == (1..MaxRows) \X Teams
           F == [p \in Pair |-> [round |-> p[1], team |-> p[2]]]
<1>1. IsFiniteSet(1..MaxRows) /\ IsFiniteSet(Teams)
    BY FS_Interval DEF ScoringAssumption
<1>2. IsFiniteSet(Pair)
    BY <1>1, FS_Product
<1>3. F \in [Pair -> Flag]
    BY DEF Flag
<1>4. ASSUME NEW f \in Flag PROVE \E p \in Pair : F[p] = f
  <2>1. f.round \in 1..MaxRows /\ f.team \in Teams /\ f = [round |-> f.round, team |-> f.team]
      BY DEF Flag
  <2>2. <<f.round, f.team>> \in Pair
      BY <2>1
  <2>3. F[<<f.round, f.team>>] = [round |-> f.round, team |-> f.team]
      BY <2>2
  <2> HIDE DEF F, Pair
  <2>4. QED
      BY <2>1, <2>2, <2>3
<1> HIDE DEF F, Pair
<1>5. F \in Surjection(Pair, Flag)
    BY <1>3, <1>4 DEF Surjection
<1>6. QED
    BY <1>2, <1>5, FS_Surjection

\* A set of teams is one that Loss and the shares of a flag are defined for.
LEMMA TeamsCounted ==
    ASSUME ScoringAssumption, NEW S \in SUBSET Teams
    PROVE  /\ Cardinality(S) \in 0..Cardinality(Teams)
           /\ Loss[Cardinality(S)] \in Nat
           /\ S = {} => Loss[Cardinality(S)] = 0
           /\ S # {} => Unit \div Cardinality(S) \in Nat
<1>1. IsFiniteSet(Teams) /\ Loss \in [0..Cardinality(Teams) -> Nat] /\ Loss[0] = 0 /\ Unit \in Nat
    BY DEF ScoringAssumption
<1>2. /\ IsFiniteSet(S) /\ Cardinality(S) \in Nat /\ Cardinality(Teams) \in Nat
      /\ Cardinality(S) <= Cardinality(Teams)
    BY <1>1, FS_Subset, FS_CardinalityType
<1>3. Cardinality(S) \in 0..Cardinality(Teams)
    BY <1>2
<1>4. Loss[Cardinality(S)] \in Nat
    BY <1>1, <1>3
<1>5. S = {} => Loss[Cardinality(S)] = 0
    BY <1>1, <1>2, FS_EmptySet
<1>6. S # {} => Cardinality(S) # 0
    BY <1>2, FS_EmptySet
<1>7. S # {} => Unit \div Cardinality(S) \in Nat
    BY <1>1, <1>2, <1>6
<1>8. QED
    BY <1>3, <1>4, <1>5, <1>7

LEMMA MessageTypes ==
    /\ \A m \in Message :
          /\ m.round \in 1..MaxRows
          /\ m.type \in {"UpdateRound", "FlagSubmission", "ServiceState"}
          /\ m.type = "UpdateRound" => m = UpdateRound(m.round)
          /\ m.type = "FlagSubmission" =>
                m \in Submission /\ m.attacker \in Teams /\ m.flag \in Flag
          /\ m.type = "ServiceState" =>
                m \in Observation /\ m.team \in Teams /\ m.state \in State
    /\ \A i \in 1..MaxRows : UpdateRound(i) \in Message
    /\ Submission \subseteq Message /\ Observation \subseteq Message
<1>1. ASSUME NEW m \in Message
      PROVE  /\ m.round \in 1..MaxRows
             /\ m.type \in {"UpdateRound", "FlagSubmission", "ServiceState"}
             /\ m.type = "UpdateRound" => m = UpdateRound(m.round)
             /\ m.type = "FlagSubmission" =>
                   m \in Submission /\ m.attacker \in Teams /\ m.flag \in Flag
             /\ m.type = "ServiceState" =>
                   m \in Observation /\ m.team \in Teams /\ m.state \in State
  <2>1. CASE m \in Submission
      BY <2>1 DEF Submission
  <2>2. CASE m \in Observation
      BY <2>2 DEF Observation
  <2>3. CASE m \in [type : {"UpdateRound"}, round : 1..MaxRows]
      BY <2>3 DEF UpdateRound
  <2>4. QED
      BY <2>1, <2>2, <2>3 DEF Message
<1>2. ASSUME NEW i \in 1..MaxRows PROVE UpdateRound(i) \in Message
    BY DEF UpdateRound, Message
<1>3. Submission \subseteq Message /\ Observation \subseteq Message
    BY DEF Message
<1>4. QED
    BY <1>1, <1>2, <1>3

-----------------------------------------------------------------------------
(* The points of a set of messages *)

\* What of the log a replay keeps, with the rounds that count.
KeptIn(m, counted) ==
    /\ m.type # "ServiceState"   => m.round \in counted
    /\ m.type = "FlagSubmission" => m.flag.round \in counted

KeptSet(entries, counted) == {m \in Range(entries) : KeptIn(m, counted)}

Flags(E)   == {m.flag : m \in {n \in E : n.type = "FlagSubmission"}}
Holders(E, f) == {m.attacker : m \in {n \in E : n.type = "FlagSubmission" /\ n.flag = f}}
Started(E) == {m.round : m \in {n \in E : n.type = "UpdateRound"}} \ {1}
Past(E)    == {i \in Started(E) : \E j \in Started(E) : j > i}
Observed(E, t, i) == {m.state : m \in {n \in E : n.type = "ServiceState" /\ n.team = t /\ n.round = i}}

Attack(E, t) == [f \in {g \in Flags(E) : t \in Holders(E, g)} |->
                    Unit + Unit \div Cardinality(Holders(E, f))]
Defence(E, t) == [f \in {g \in Flags(E) : g.team = t} |-> Loss[Cardinality(Holders(E, f))]]
Uptimes(E, t) == [i \in Past(E) |-> Uptime(Max({Unknown} \cup Observed(E, t, i)))]

Points(E) == [t \in Teams |-> SumFunction(Attack(E, t)) - SumFunction(Defence(E, t))
                              + SumFunction(Uptimes(E, t))]

\* The points that the journal says are those of the entries that count.
LEMMA JournalIsPoints ==
    ASSUME NEW entries, NEW counted
    PROVE  JournalPoints(entries, counted) = Points(KeptSet(entries, counted))
<1> DEFINE E == KeptSet(entries, counted)
           seen     == {m \in Range(entries) : m.round \in counted}
           captures == {m \in seen : m.type = "FlagSubmission" /\ m.flag.round \in counted}
           flags    == {m.flag : m \in captures}
           holders  == [f \in flags |-> {m.attacker : m \in {n \in captures : n.flag = f}}]
           started  == {m.round : m \in {n \in seen : n.type = "UpdateRound"}} \ {1}
           past     == {i \in started : \E j \in started : j > i}
           observed(t, i) == {m.state : m \in {n \in seen :
                              n.type = "ServiceState" /\ n.team = t /\ n.round = i}}
<1>1. captures = {n \in E : n.type = "FlagSubmission"}
    BY DEF KeptSet, KeptIn
<1>2. flags = Flags(E)
    BY <1>1 DEF Flags
<1>3. ASSUME NEW f \in flags PROVE holders[f] = Holders(E, f)
  <2>1. {n \in captures : n.flag = f} = {n \in E : n.type = "FlagSubmission" /\ n.flag = f}
      BY <1>1
  <2>2. QED
      BY <2>1 DEF Holders
<1>4. started = Started(E)
    BY DEF Started, KeptSet, KeptIn
<1>5. past = Past(E)
    BY <1>4 DEF Past
<1>6. ASSUME NEW t, NEW i \in past PROVE observed(t, i) = Observed(E, t, i)
    BY DEF Observed, KeptSet, KeptIn
<1>7. ASSUME NEW t
      PROVE  /\ [f \in {g \in flags : t \in holders[g]} |-> Unit + Unit \div Cardinality(holders[f])]
                = Attack(E, t)
             /\ [f \in {g \in flags : g.team = t} |-> Loss[Cardinality(holders[f])]] = Defence(E, t)
             /\ [i \in past |-> Uptime(Max({Unknown} \cup observed(t, i)))] = Uptimes(E, t)
  <2> HIDE DEF E, flags, holders, past, observed
  <2>1. {g \in flags : t \in holders[g]} = {g \in Flags(E) : t \in Holders(E, g)}
      BY <1>2, <1>3
  <2>2. \A f \in {g \in flags : t \in holders[g]} :
            Unit + Unit \div Cardinality(holders[f]) = Unit + Unit \div Cardinality(Holders(E, f))
      BY <1>3
  <2>3. \A f \in {g \in flags : g.team = t} :
            Loss[Cardinality(holders[f])] = Loss[Cardinality(Holders(E, f))]
      BY <1>3
  <2>4. \A i \in past : Uptime(Max({Unknown} \cup observed(t, i)))
                          = Uptime(Max({Unknown} \cup Observed(E, t, i)))
      BY <1>6
  <2>5. QED
      BY <1>2, <1>5, <2>1, <2>2, <2>3, <2>4 DEF Attack, Defence, Uptimes
<1>8. Points(E) = [t \in Teams |->
            SumFunction([f \in {g \in flags : t \in holders[g]} |->
                            Unit + Unit \div Cardinality(holders[f])])
          - SumFunction([f \in {g \in flags : g.team = t} |-> Loss[Cardinality(holders[f])]])
          + SumFunction([i \in past |-> Uptime(Max({Unknown} \cup observed(t, i)))])]
  <2> HIDE DEF E, flags, holders, past, observed
  <2> QED
      BY <1>7 DEF Points
<1>9. QED
    BY <1>8 DEF JournalPoints

-----------------------------------------------------------------------------
(* A score that reflects a set of messages *)

Increasing(ids) == \A j, k \in DOMAIN ids : j < k => ids[j] < ids[k]

Reflects(s, E) ==
    /\ \A f \in Flag : s.weight[f] = Holders(E, f)
    /\ \A t \in Teams, f \in Flag : f \in s.taken[t] <=> t \in s.weight[f]
    /\ \A t \in Teams, i \in 1..MaxRows :
          /\ s.state[t][i] \in {Unknown} \cup Observed(E, t, i)
          /\ \A o \in Observed(E, t, i) : o <= s.state[t][i]
    /\ Increasing(s.rounds) /\ Range(s.rounds) = Started(E)

Scored(s) == s \in Score(DOMAIN s.history)

LEMMA ScoredParts ==
    ASSUME NEW s, Scored(s)
    PROVE  /\ s.weight \in [Flag -> SUBSET Teams] /\ s.taken \in [Teams -> SUBSET Flag]
           /\ s.rounds \in Seq(1..MaxRows) /\ s.state \in [Teams -> [1..MaxRows -> State]]
           /\ s.history \in [DOMAIN s.history -> [Teams -> Int]]
BY DEF Scored, Score

LEMMA EventTypes ==
    ASSUME NEW E \in SUBSET Message
    PROVE  /\ Flags(E) \subseteq Flag
           /\ \A f : Holders(E, f) \subseteq Teams /\ (Holders(E, f) # {} <=> f \in Flags(E))
           /\ Started(E) \subseteq 1..MaxRows
           /\ \A t, i : Observed(E, t, i) \subseteq State
BY MessageTypes DEF Flags, Holders, Started, Observed

\* The numbers of the rounds that have started increase with their ids.
Numbered(ids) ==
    \A i \in ids : /\ rounds[i].number \in Nat
                   /\ \A j \in ids : i < j => rounds[i].number < rounds[j].number

LEMMA AttackIsAttack ==
    ASSUME ScoringAssumption, NEW s, Scored(s), NEW E \in SUBSET Message, Reflects(s, E),
           NEW t \in Teams
    PROVE  /\ AttackPoint(s, t) = SumFunction(Attack(E, t))
           /\ AttackPoint(s, t) \in Int
<1>1. s.taken[t] = {g \in Flags(E) : t \in Holders(E, g)}
  <2>1. s.taken[t] \subseteq Flag /\ Flags(E) \subseteq Flag
      BY ScoredParts, EventTypes
  <2>2. \A f \in Flag : f \in s.taken[t] <=> t \in Holders(E, f)
      BY DEF Reflects
  <2>3. \A f \in Flag : t \in Holders(E, f) => f \in Flags(E)
      BY EventTypes
  <2>4. QED
      BY <2>1, <2>2, <2>3
<1>2. \A f \in s.taken[t] : f \in Flag /\ s.weight[f] = Holders(E, f) /\ Holders(E, f) # {}
    BY <1>1, EventTypes DEF Reflects
<1>3. [f \in s.taken[t] |-> Unit + Unit \div Cardinality(s.weight[f])] = Attack(E, t)
    BY <1>1, <1>2 DEF Attack
<1>4. AttackPoint(s, t) = SumFunction(Attack(E, t))
    BY <1>3 DEF AttackPoint
<1>5. IntsOn(Attack(E, t), DOMAIN Attack(E, t)) /\ IsFiniteSet(DOMAIN Attack(E, t))
  <2>1. DOMAIN Attack(E, t) = s.taken[t] /\ s.taken[t] \subseteq Flag
      BY <1>1, ScoredParts DEF Attack
  <2>2. IsFiniteSet(DOMAIN Attack(E, t))
      BY <2>1, FlagsFinite, FS_Subset
  <2>3. ASSUME NEW f \in s.taken[t] PROVE Attack(E, t)[f] \in Int
    <3>1. Unit \div Cardinality(Holders(E, f)) \in Nat /\ Unit \in Nat
        BY <1>2, TeamsCounted, EventTypes DEF ScoringAssumption
    <3>2. QED
        BY <1>1, <3>1 DEF Attack
  <2>4. QED
      BY <2>1, <2>2, <2>3 DEF IntsOn
<1>6. QED
    BY <1>4, <1>5, SumIsInt DEF SumFunction

LEMMA DefenceIsDefence ==
    ASSUME ScoringAssumption, NEW s, Scored(s), NEW E \in SUBSET Message, Reflects(s, E),
           NEW t \in Teams
    PROVE  /\ DefenceLoss(s, t) = SumFunction(Defence(E, t))
           /\ DefenceLoss(s, t) \in Int
<1> DEFINE T == {g \in DOMAIN s.weight : g.team = t}
           S == {g \in Flags(E) : g.team = t}
           f == [g \in T |-> Loss[Cardinality(s.weight[g])]]
<1>1. DOMAIN s.weight = Flag /\ T \subseteq Flag /\ S \subseteq T
    BY ScoredParts, EventTypes
<1>2. IsFiniteSet(T) /\ IsFiniteSet(S)
    BY <1>1, FlagsFinite, FS_Subset
<1>3. \A g \in T : f[g] \in Nat /\ s.weight[g] = Holders(E, g) /\ s.weight[g] \subseteq Teams
    BY <1>1, TeamsCounted, ScoredParts DEF Reflects
<1>4. \A g \in T \ S : f[g] = 0
  <2>1. ASSUME NEW g \in T \ S PROVE f[g] = 0
    <3>1. Holders(E, g) = {} /\ g \in T
        BY EventTypes
    <3>2. QED
        BY <1>3, <3>1, TeamsCounted
  <2>2. QED
      BY <2>1
<1>5. DOMAIN f = T /\ IntsOn(f, T) /\ IntsOn(f, S)
  <2>1. DOMAIN f = T
      OBVIOUS
  <2> HIDE DEF f
  <2>2. QED
      BY <1>1, <1>3, <2>1 DEF IntsOn
<1>6. \A g \in S : Defence(E, t)[g] = f[g]
    BY <1>1, <1>3 DEF Defence
<1>7. DOMAIN Defence(E, t) = S
    BY DEF Defence
<1>8. DefenceLoss(s, t) = SumFunctionOnSet(f, T)
    BY <1>5 DEF DefenceLoss, SumFunction
<1> HIDE DEF f, T, S
<1>9. SumFunctionOnSet(f, T) = SumFunctionOnSet(f, S) /\ SumFunctionOnSet(f, T) \in Int
    BY <1>1, <1>2, <1>4, <1>5, SumDropZeros, SumIsInt
<1>10. SumFunctionOnSet(Defence(E, t), S) = SumFunctionOnSet(f, S)
    BY <1>2, <1>5, <1>6, SumAgree
<1>11. QED
    BY <1>7, <1>8, <1>9, <1>10 DEF SumFunction

\* The worst of some states is the one that none of them is worse than.
LEMMA WorstIsMax ==
    ASSUME NEW O \in SUBSET State, NEW v \in {Unknown} \cup O, \A o \in O : o <= v
    PROVE  Max({Unknown} \cup O) = v
<1>1. {Unknown} \cup O \in SUBSET (1..6)
    BY DEF State, Unknown
<1> DEFINE S == {Unknown} \cup O
           m == Max(S)
<1>2. m \in S /\ \A j \in S : j <= m
  <2> HIDE DEF S
  <2>1. S \in SUBSET (1..6) /\ S # {}
      BY <1>1 DEF S
  <2>2. QED
      BY <2>1, MaxUpTo
<1>3. v <= m /\ m \in 1..6 /\ v \in 1..6
    BY <1>1, <1>2
<1>4. m <= v
  <2>1. CASE m \in O
      BY <2>1
  <2>2. CASE m = Unknown
      BY <1>3, <2>2 DEF Unknown
  <2>3. QED
      BY <1>2, <2>1, <2>2
<1> HIDE DEF m
<1>5. QED
    BY <1>3, <1>4 DEF m

LEMMA SlaIsUptimes ==
    ASSUME ScoringAssumption, NEW s, Scored(s), NEW E \in SUBSET Message, Reflects(s, E),
           Numbered(Started(E)), NEW t \in Teams
    PROVE  /\ Sla(s, t) = SumFunction(Uptimes(E, t))
           /\ Sla(s, t) \in Int
<1> DEFINE ids == s.rounds
           n == Len(ids)
           past == {k \in DOMAIN ids : rounds[ids[k]].number # rounds[Last(ids)].number}
           g == [k \in past |-> Uptime(s.state[t][ids[k]])]
<1>1. n \in Nat /\ DOMAIN ids = 1..n /\ \A k \in 1..n : ids[k] \in 1..MaxRows
    BY ScoredParts
<1>2. \A k \in 1..n : ids[k] \in Started(E) /\ ids[k] \in Int
    BY <1>1 DEF Reflects, Range
<1>3. \A j, k \in 1..n : j < k => ids[j] < ids[k]
    BY <1>1 DEF Reflects, Increasing
<1>4. ASSUME NEW k \in 1..n PROVE k \in past <=> k < n
  <2>1. Last(ids) = ids[n] /\ n \in 1..n
      BY <1>1 DEF Last
  <2>2. k < n => rounds[ids[k]].number < rounds[ids[n]].number
      BY <1>2, <1>3, <2>1 DEF Numbered
  <2>3. rounds[ids[k]].number \in Nat /\ rounds[ids[n]].number \in Nat
      BY <1>2, <2>1 DEF Numbered
  <2>4. k < n => rounds[ids[k]].number # rounds[ids[n]].number
      BY <2>2, <2>3
  <2>5. k = n \/ k < n
      BY <1>1
  <2>6. k \in past <=> rounds[ids[k]].number # rounds[ids[n]].number
      BY <1>1, <2>1
  <2> HIDE DEF past, ids
  <2>7. QED
      BY <2>4, <2>5, <2>6
<1>5. ASSUME NEW k \in 1..n PROVE ids[k] \in Past(E) <=> k < n
  <2>1. ASSUME k < n PROVE ids[k] \in Past(E)
    <3>1. n \in 1..n /\ ids[n] > ids[k]
        BY <1>1, <1>2, <1>3, <2>1
    <3>2. QED
        BY <1>2, <3>1 DEF Past
  <2>2. ASSUME ids[k] \in Past(E) PROVE k < n
    <3>1. PICK j \in Started(E) : j > ids[k]
        BY <2>2 DEF Past
    <3>2. PICK p \in 1..n : ids[p] = j
        BY <1>1 DEF Reflects, Range
    <3>3. ~(p < k) /\ p # k
        BY <1>2, <1>3, <3>1, <3>2
    <3>4. QED
        BY <1>1, <3>3
  <2>3. QED
      BY <2>1, <2>2
<1>6. past \subseteq 1..n /\ IsFiniteSet(past)
  <2>1. past \subseteq 1..n /\ IsFiniteSet(1..n)
      BY <1>1, FS_Interval
  <2> HIDE DEF past
  <2>2. QED
      BY <2>1, FS_Subset
<1>7. Past(E) = {ids[k] : k \in past}
  <2>1. \A i \in Past(E) : \E k \in 1..n : i = ids[k]
      BY <1>1 DEF Past, Reflects, Range
  <2> HIDE DEF past, ids
  <2>2. QED
      BY <1>4, <1>5, <1>6, <2>1
<1>8. \A j, k \in past : ids[j] = ids[k] => j = k
  <2>1. ASSUME NEW j \in 1..n, NEW k \in 1..n, ids[j] = ids[k] PROVE j = k
      BY <1>1, <1>2, <1>3, <2>1
  <2>2. QED
      BY <1>6, <2>1
<1>9. \A k \in past : Uptimes(E, t)[ids[k]] = g[k]
  <2>1. ASSUME NEW k \in past PROVE Uptimes(E, t)[ids[k]] = g[k]
    <3>1. ids[k] \in Past(E) /\ ids[k] \in 1..MaxRows
        BY <1>1, <1>6, <1>7
    <3>2. Max({Unknown} \cup Observed(E, t, ids[k])) = s.state[t][ids[k]]
      <4> DEFINE O == Observed(E, t, ids[k])
                 v == s.state[t][ids[k]]
      <4>1. O \in SUBSET State
          BY EventTypes
      <4>2. v \in {Unknown} \cup O /\ \A o \in O : o <= v
          BY <3>1 DEF Reflects
      <4> HIDE DEF O, v
      <4>3. Max({Unknown} \cup O) = v
          BY <4>1, <4>2, WorstIsMax
      <4>4. QED
          BY <4>3 DEF O, v
    <3> HIDE DEF ids
    <3>3. QED
        BY <3>1, <3>2 DEF Uptimes, g
  <2>2. QED
      BY <2>1
<1>10. DOMAIN g = past /\ IntsOn(g, past)
  <2>1. \A x : Uptime(x) \in Int
    <3>1. Unit \in Nat
        BY DEF ScoringAssumption
    <3>2. Unit \div 2 \in Nat
        BY <3>1
    <3>3. QED
        BY <3>1, <3>2 DEF Uptime
  <2>2. DOMAIN g = past /\ \A k \in past : g[k] = Uptime(s.state[t][ids[k]])
      OBVIOUS
  <2> HIDE DEF g, past
  <2>3. QED
      BY <2>1, <2>2 DEF IntsOn
<1>11. Sla(s, t) = SumFunctionOnSet(g, past)
    BY <1>10 DEF Sla, SumFunction
<1>12. DOMAIN Uptimes(E, t) = Past(E)
    BY DEF Uptimes
<1> HIDE DEF ids, past, g
<1>13. SumFunctionOnSet(g, past) = SumFunctionOnSet(Uptimes(E, t), Past(E))
  <2> DEFINE u == Uptimes(E, t)
  <2>1. SameUnder(ids, g, u, past) /\ Renames(ids, past, Past(E))
      BY <1>7, <1>8, <1>9 DEF SameUnder, Renames
  <2>2. IntsOn(g, past)
      BY <1>10
  <2> HIDE DEF u
  <2>3. SumFunctionOnSet(g, past) = SumFunctionOnSet(u, Past(E))
      BY <1>6, <2>1, <2>2, SumRename
  <2>4. QED
      BY <2>3 DEF u
<1>14. SumFunctionOnSet(g, past) \in Int
    BY <1>6, <1>10, SumIsInt
<1>15. QED
    BY <1>11, <1>12, <1>13, <1>14 DEF SumFunction

\* The score shows the points of the messages it reflects.
LEMMA ViewIsPoints ==
    ASSUME ScoringAssumption, NEW s, Scored(s), NEW E \in SUBSET Message, Reflects(s, E),
           Numbered(Started(E))
    PROVE  View(s) = Points(E) /\ View(s) \in [Teams -> Int]
<1>1. ASSUME NEW t \in Teams
      PROVE  /\ AttackPoint(s, t) = SumFunction(Attack(E, t)) /\ AttackPoint(s, t) \in Int
             /\ DefenceLoss(s, t) = SumFunction(Defence(E, t)) /\ DefenceLoss(s, t) \in Int
             /\ Sla(s, t) = SumFunction(Uptimes(E, t)) /\ Sla(s, t) \in Int
    BY AttackIsAttack, DefenceIsDefence, SlaIsUptimes
<1>2. QED
    BY <1>1 DEF View, Points

-----------------------------------------------------------------------------
(* What a message does to the score *)

LEMMA ExceptTwice ==
    ASSUME NEW A, NEW B, NEW C, NEW f \in [A -> [B -> C]], NEW a \in A, NEW b \in B, NEW c
    PROVE  \A x \in A, y \in B : [f EXCEPT ![a][b] = c][x][y] = IF x = a /\ y = b THEN c ELSE f[x][y]
OBVIOUS

LEMMA AfterSubmission ==
    ASSUME NEW s, Scored(s), NEW E \in SUBSET Message, Reflects(s, E),
           NEW m \in Message, m.type = "FlagSubmission"
    PROVE  /\ Scored(After(s, m)) /\ Reflects(After(s, m), E \cup {m})
           /\ After(s, m).rounds = s.rounds /\ After(s, m).history = s.history
<1> DEFINE u == OnFlagSubmission(s, m)
           F == E \cup {m}
<1>1. After(s, m) = u
    BY DEF After
<1>2. m.attacker \in Teams /\ m.flag \in Flag
    BY MessageTypes
<1>3. /\ u \in Score(DOMAIN s.history)
      /\ u.rounds = s.rounds /\ u.history = s.history /\ u.state = s.state
      /\ u.weight = [s.weight EXCEPT ![m.flag] = @ \cup {m.attacker}]
      /\ u.taken = [s.taken EXCEPT ![m.attacker] = @ \cup {m.flag}]
    BY <1>2 DEF OnFlagSubmission, Scored, Score
<1>0. s.weight \in [Flag -> SUBSET Teams] /\ s.taken \in [Teams -> SUBSET Flag]
    BY ScoredParts
<1> HIDE DEF u
<1>4. \A f \in Flag : u.weight[f] = IF f = m.flag THEN s.weight[f] \cup {m.attacker} ELSE s.weight[f]
    BY <1>0, <1>3
<1>5. \A t \in Teams : u.taken[t] = IF t = m.attacker THEN s.taken[t] \cup {m.flag} ELSE s.taken[t]
    BY <1>0, <1>3
<1>6. \A f : Holders(F, f) = IF f = m.flag THEN Holders(E, f) \cup {m.attacker} ELSE Holders(E, f)
    BY DEF Holders
<1>7. \A t, i : Observed(F, t, i) = Observed(E, t, i)
    BY DEF Observed
<1>8. Started(F) = Started(E)
    BY DEF Started
<1>9. Reflects(u, F)
  <2> HIDE DEF u, F
  <2>1. \A f \in Flag : u.weight[f] = Holders(F, f)
      BY <1>4, <1>6 DEF Reflects
  <2>2. \A t \in Teams, f \in Flag : f \in u.taken[t] <=> t \in u.weight[f]
    <3>1. \A t \in Teams, f \in Flag : f \in s.taken[t] <=> t \in s.weight[f]
        BY DEF Reflects
    <3>2. ASSUME NEW t \in Teams, NEW f \in Flag
          PROVE  f \in u.taken[t] <=> t \in u.weight[f]
      <4>1. t \in u.weight[f] <=> t \in s.weight[f] \/ (f = m.flag /\ t = m.attacker)
          BY <1>4
      <4>2. f \in u.taken[t] <=> f \in s.taken[t] \/ (t = m.attacker /\ f = m.flag)
          BY <1>5
      <4>3. QED
          BY <3>1, <4>1, <4>2
    <3>3. QED
        BY <3>2
  <2>3. QED
      BY <1>3, <1>7, <1>8, <2>1, <2>2 DEF Reflects
<1>10. QED
    BY <1>1, <1>3, <1>9 DEF Scored

LEMMA AfterState ==
    ASSUME NEW s, Scored(s), NEW E \in SUBSET Message, Reflects(s, E),
           NEW m \in Message, m.type = "ServiceState"
    PROVE  /\ Scored(After(s, m)) /\ Reflects(After(s, m), E \cup {m})
           /\ After(s, m).rounds = s.rounds /\ After(s, m).history = s.history
<1> DEFINE u == OnServiceState(s, m)
           F == E \cup {m}
           old(t, i) == s.state[t][i]
<1>1. After(s, m) = u
    BY DEF After
<1>2. m.team \in Teams /\ m.round \in 1..MaxRows /\ m.state \in State
    BY MessageTypes
<1>0. s.state \in [Teams -> [1..MaxRows -> State]]
    BY ScoredParts
<1>00. \A t \in Teams, i \in 1..MaxRows : old(t, i) \in State
    BY <1>0
<1> HIDE DEF u, old
<1>3. /\ old(m.team, m.round) \in State
      /\ Merge(old(m.team, m.round), m.state) \in State
      /\ Merge(old(m.team, m.round), m.state)
            = IF old(m.team, m.round) <= m.state THEN m.state ELSE old(m.team, m.round)
    BY <1>00, <1>2, MergeIsMax, MergeOnlyWorsens
<1>4. /\ u \in Score(DOMAIN s.history)
      /\ u.rounds = s.rounds /\ u.history = s.history /\ u.weight = s.weight /\ u.taken = s.taken
      /\ u.state = [s.state EXCEPT ![m.team][m.round] = Merge(@, m.state)]
    BY <1>2, <1>3 DEF u, old, OnServiceState, Scored, Score
<1>5. \A t \in Teams, i \in 1..MaxRows :
         u.state[t][i] = IF t = m.team /\ i = m.round THEN Merge(old(t, i), m.state) ELSE old(t, i)
  <2> DEFINE st == s.state
             new == Merge(old(m.team, m.round), m.state)
  <2>1. u.state = [st EXCEPT ![m.team][m.round] = new]
      BY <1>4 DEF old
  <2> DEFINE I == 1..MaxRows
  <2>2. st \in [Teams -> [I -> State]] /\ m.team \in Teams /\ m.round \in I
      BY <1>0, <1>2
  <2> HIDE DEF st, new, I
  <2>3. \A t \in Teams, i \in I :
            u.state[t][i] = IF t = m.team /\ i = m.round THEN new ELSE st[t][i]
      BY <2>1, <2>2, ExceptTwice
  <2>4. QED
      BY <2>3 DEF new, st, I, old
<1>6. \A f : Holders(F, f) = Holders(E, f)
    BY DEF Holders
<1>7. \A t, i : Observed(F, t, i) = IF t = m.team /\ i = m.round
                                   THEN Observed(E, t, i) \cup {m.state} ELSE Observed(E, t, i)
    BY DEF Observed
<1>8. Started(F) = Started(E)
    BY DEF Started
<1>9. ASSUME NEW t \in Teams, NEW i \in 1..MaxRows
      PROVE  /\ u.state[t][i] \in {Unknown} \cup Observed(F, t, i)
             /\ \A o \in Observed(F, t, i) : o <= u.state[t][i]
  <2> DEFINE v == old(t, i)
             w == u.state[t][i]
  <2>1. v \in {Unknown} \cup Observed(E, t, i) /\ \A o \in Observed(E, t, i) : o <= v
      BY DEF Reflects, old
  <2>2. \A o \in Observed(E, t, i) : o \in Int
    <3>1. Observed(E, t, i) \subseteq State
        BY EventTypes
    <3>2. QED
        BY <3>1 DEF State
  <2>3. v \in Int /\ m.state \in Int
      BY <1>00, <1>2 DEF State
  <2>4. CASE t = m.team /\ i = m.round
    <3>1. w = IF v <= m.state THEN m.state ELSE v
        BY <1>3, <1>5, <2>4
    <3>2. Observed(F, t, i) = Observed(E, t, i) \cup {m.state}
        BY <1>7, <2>4
    <3> HIDE DEF F, v, w
    <3>3. w \in {Unknown} \cup Observed(F, t, i) /\ \A o \in Observed(F, t, i) : o <= w
        BY <2>1, <2>2, <2>3, <3>1, <3>2
    <3>4. QED
        BY <3>3 DEF w
  <2>5. CASE ~(t = m.team /\ i = m.round)
    <3>1. w = v /\ Observed(F, t, i) = Observed(E, t, i)
        BY <1>5, <1>7, <2>5
    <3> HIDE DEF F, v, w
    <3>2. w \in {Unknown} \cup Observed(F, t, i) /\ \A o \in Observed(F, t, i) : o <= w
        BY <2>1, <3>1
    <3>3. QED
        BY <3>2 DEF w
  <2>6. QED
      BY <2>4, <2>5
<1>10. Reflects(u, F)
  <2> HIDE DEF u, F
  <2>1. QED
      BY <1>4, <1>6, <1>8, <1>9 DEF Reflects
<1>11. QED
    BY <1>1, <1>4, <1>10 DEF Scored

\* A round begins that is newer than those the score knows of.
LEMMA AfterUpdate ==
    ASSUME NEW s, Scored(s), NEW E \in SUBSET Message, Reflects(s, E),
           NEW m \in Message, m.type = "UpdateRound",
           IsRoundZero(rounds, m.round) <=> m.round = 1,
           m.round # 1 => \A r \in Started(E) : r < m.round,
           View(s) \in [Teams -> Int]
    PROVE  /\ Scored(After(s, m)) /\ Reflects(After(s, m), E \cup {m})
           /\ m.round = 1 => After(s, m) = s
           /\ m.round # 1 => After(s, m).history = Enter(s.history, m.round, View(s))
<1> DEFINE F == E \cup {m}
           r == m.round
<1>1. r \in 1..MaxRows
    BY MessageTypes
<1>2. \A f : Holders(F, f) = Holders(E, f)
    BY DEF Holders
<1>3. \A t, i : Observed(F, t, i) = Observed(E, t, i)
    BY DEF Observed
<1>4. Started(F) = Started(E) \cup ({r} \ {1})
    BY DEF Started
<1>5. CASE r = 1
  <2>1. After(s, m) = s
      BY <1>5 DEF After, OnUpdateRound
  <2>2. Started(F) = Started(E)
      BY <1>4, <1>5
  <2>3. Reflects(s, F)
      BY <1>2, <1>3, <2>2 DEF Reflects
  <2>4. QED
      BY <1>5, <2>1, <2>3
<1>6. CASE r # 1
  <2> DEFINE u == [s EXCEPT !.history = Enter(@, m.round, View(s)), !.rounds = Append(@, m.round)]
             n == Len(s.rounds)
  <2>1. After(s, m) = u
      BY <1>6 DEF After, OnUpdateRound
  <2>2. Enter(s.history, r, View(s)) \in [DOMAIN s.history \cup {r} -> [Teams -> Int]]
      BY ScoredParts DEF Enter
  <2>3. /\ u.weight = s.weight /\ u.taken = s.taken /\ u.state = s.state
        /\ u.history = Enter(s.history, r, View(s)) /\ u.rounds = Append(s.rounds, r)
        /\ u \in Score(DOMAIN s.history \cup {r})
    <3>1. Append(s.rounds, r) \in Seq(1..MaxRows)
        BY <1>1, ScoredParts
    <3>2. QED
        BY <2>2, <3>1 DEF Scored, Score
  <2>4. DOMAIN u.history = DOMAIN s.history \cup {r}
      BY <2>3 DEF Enter
  <2>5. /\ n \in Nat /\ DOMAIN s.rounds = 1..n /\ DOMAIN u.rounds = 1..(n + 1)
        /\ \A k \in 1..n : u.rounds[k] = s.rounds[k] /\ s.rounds[k] \in 1..MaxRows
        /\ u.rounds[n + 1] = r
    <3> DEFINE I == 1..MaxRows
    <3>1. s.rounds \in Seq(I) /\ u.rounds = Append(s.rounds, r) /\ r \in I
        BY <1>1, <2>3, ScoredParts
    <3> HIDE DEF u, I, r
    <3>2. \A k \in DOMAIN s.rounds : s.rounds[k] \in I
        BY <3>1
    <3>3. QED
        BY <3>1, <3>2, AppendParts DEF I
  <2>6. \A k \in 1..n : s.rounds[k] < r
      BY <1>6, <2>5 DEF Reflects, Range
  <2>7. Increasing(u.rounds)
    <3>1. ASSUME NEW j \in 1..(n + 1), NEW k \in 1..(n + 1), j < k
          PROVE  u.rounds[j] < u.rounds[k]
      <4>1. j \in 1..n
          BY <2>5, <3>1
      <4>2. CASE k = n + 1
          BY <2>5, <2>6, <4>1, <4>2
      <4>3. CASE k # n + 1
        <5>1. k \in 1..n
            BY <2>5, <4>3
        <5>2. s.rounds[j] < s.rounds[k]
            BY <2>5, <3>1, <4>1, <5>1 DEF Reflects, Increasing
        <5>3. QED
            BY <2>5, <4>1, <5>1, <5>2
      <4>4. QED
          BY <4>2, <4>3
    <3> HIDE DEF u
    <3>2. QED
        BY <2>5, <3>1 DEF Increasing
  <2>8. Range(u.rounds) = Started(F)
    <3>1. Range(s.rounds) = Started(E)
        BY DEF Reflects
    <3> HIDE DEF u, F, r
    <3>2. Range(u.rounds) = Range(s.rounds) \cup {r}
      <4> DEFINE I == 1..MaxRows
      <4>1. s.rounds \in Seq(I) /\ u.rounds = Append(s.rounds, r) /\ r \in I
          BY <1>1, <2>3, ScoredParts DEF r
      <4> HIDE DEF I
      <4>2. QED
          BY <4>1, AppendParts
    <3>3. QED
        BY <1>4, <1>6, <3>1, <3>2
  <2> HIDE DEF u, F
  <2>9. Reflects(u, F)
      BY <1>2, <1>3, <2>3, <2>7, <2>8 DEF Reflects
  <2>10. Scored(u)
      BY <2>3, <2>4 DEF Scored
  <2>11. QED
      BY <1>6, <2>1, <2>3, <2>9, <2>10 DEF F
<1>7. QED
    BY <1>5, <1>6

\* A message can be handled: a round begins that is newer than those reflected.
InOrder(m, E) ==
    m.type = "UpdateRound" => /\ IsRoundZero(rounds, m.round) <=> m.round = 1
                              /\ m.round # 1 => \A r \in Started(E) : r < m.round

Enters(m) == m.type = "UpdateRound" /\ m.round # 1

LEMMA AfterMessage ==
    ASSUME ScoringAssumption, NEW s, Scored(s), NEW E \in SUBSET Message, Reflects(s, E),
           Numbered(Started(E)), NEW m \in Message, InOrder(m, E)
    PROVE  /\ Scored(After(s, m)) /\ Reflects(After(s, m), E \cup {m})
           /\ ~Enters(m) => After(s, m).history = s.history
           /\ Enters(m)  => After(s, m).history = Enter(s.history, m.round, Points(E))
<1>1. CASE m.type = "FlagSubmission"
    BY <1>1, AfterSubmission DEF Enters
<1>2. CASE m.type = "ServiceState"
    BY <1>2, AfterState DEF Enters
<1>3. CASE m.type = "UpdateRound"
  <2>1. View(s) = Points(E) /\ View(s) \in [Teams -> Int]
      BY ViewIsPoints
  <2>2. /\ IsRoundZero(rounds, m.round) <=> m.round = 1
        /\ m.round # 1 => \A r \in Started(E) : r < m.round
      BY <1>3 DEF InOrder
  <2>3. QED
      BY <1>3, <2>1, <2>2, AfterUpdate DEF Enters
<1>4. QED
    BY <1>1, <1>2, <1>3, MessageTypes

-----------------------------------------------------------------------------
(* The replay *)

\* What is kept of the first k entries.
KeptTo(entries, k, counted) == {entries[j] : j \in {i \in 1..k : KeptIn(entries[i], counted)}}

LEMMA KeptToFacts ==
    ASSUME NEW entries \in Seq(Message), NEW counted
    PROVE  /\ KeptTo(entries, 0, counted) = {}
           /\ \A k \in 0..(Len(entries) - 1) :
                 KeptTo(entries, k + 1, counted)
                   = IF KeptIn(entries[k + 1], counted)
                     THEN KeptTo(entries, k, counted) \cup {entries[k + 1]}
                     ELSE KeptTo(entries, k, counted)
           /\ KeptTo(entries, Len(entries), counted) = KeptSet(entries, counted)
           /\ \A k \in 0..Len(entries) :
                 /\ KeptTo(entries, k, counted) \subseteq Message
                 /\ KeptSet(SubSeq(entries, 1, k), counted) = KeptTo(entries, k, counted)
<1> DEFINE n == Len(entries)
<1>1. n \in Nat /\ DOMAIN entries = 1..n /\ \A j \in 1..n : entries[j] \in Message
    OBVIOUS
<1>2. KeptTo(entries, 0, counted) = {}
    BY DEF KeptTo
<1>3. ASSUME NEW k \in 0..(n - 1)
      PROVE  KeptTo(entries, k + 1, counted)
               = IF KeptIn(entries[k + 1], counted)
                 THEN KeptTo(entries, k, counted) \cup {entries[k + 1]}
                 ELSE KeptTo(entries, k, counted)
  <2>1. 1..(k + 1) = (1..k) \cup {k + 1}
      BY <1>1
  <2> HIDE DEF n
  <2>2. QED
      BY <2>1 DEF KeptTo
<1>4. KeptTo(entries, n, counted) = KeptSet(entries, counted)
    BY <1>1 DEF KeptTo, KeptSet, Range
<1>5. ASSUME NEW k \in 0..n
      PROVE  /\ KeptTo(entries, k, counted) \subseteq Message
             /\ KeptSet(SubSeq(entries, 1, k), counted) = KeptTo(entries, k, counted)
  <2>1. 1..k \subseteq 1..n
      BY <1>1
  <2>2. KeptTo(entries, k, counted) \subseteq Message
      BY <1>1, <2>1 DEF KeptTo
  <2> DEFINE ss == SubSeq(entries, 1, k)
  <2>3. DOMAIN ss = 1..k /\ \A j \in 1..k : ss[j] = entries[j]
    <3>1. ss = [j \in 1..((k - 1) + 1) |-> entries[(j + 1) - 1]]
        OBVIOUS
    <3>2. (k - 1) + 1 = k /\ \A j \in 1..k : (j + 1) - 1 = j
        BY <1>1
    <3> HIDE DEF ss
    <3>3. QED
        BY <3>1, <3>2
  <2> HIDE DEF ss
  <2>4. KeptSet(ss, counted) = KeptTo(entries, k, counted)
      BY <2>3 DEF KeptTo, KeptSet, Range
  <2>5. QED
      BY <2>2, <2>4 DEF ss
<1>6. QED
    BY <1>2, <1>3, <1>4, <1>5

\* The scores that a sequence of messages can lead to, with points that are not
\* known to be numbers.
Shown == {View(b) : b \in [weight : [Flag -> SUBSET Teams], taken : [Teams -> SUBSET Flag],
                            rounds : Seq(1..MaxRows), state : [Teams -> [1..MaxRows -> State]]]}

Histories == UNION {[R -> Shown] : R \in SUBSET (1..MaxRows)}

Scores == [weight : [Flag -> SUBSET Teams], taken : [Teams -> SUBSET Flag],
           rounds : Seq(1..MaxRows), state : [Teams -> [1..MaxRows -> State]],
           history : Histories]

LEMMA ViewIsShown ==
    ASSUME NEW s \in Scores
    PROVE  View(s) \in Shown
<1> DEFINE b == [weight |-> s.weight, taken |-> s.taken, rounds |-> s.rounds, state |-> s.state]
<1>1. b \in [weight : [Flag -> SUBSET Teams], taken : [Teams -> SUBSET Flag],
             rounds : Seq(1..MaxRows), state : [Teams -> [1..MaxRows -> State]]]
    BY DEF Scores
<1>2. b.weight = s.weight /\ b.taken = s.taken /\ b.rounds = s.rounds /\ b.state = s.state
    OBVIOUS
<1> HIDE DEF b
<1>3. View(b) = View(s)
    BY <1>2 DEF View, AttackPoint, DefenceLoss, Sla
<1>4. QED
    BY <1>1, <1>3 DEF Shown

LEMMA AfterIsScore ==
    ASSUME NEW s \in Scores, NEW m \in Message
    PROVE  After(s, m) \in Scores
<1>1. /\ s.weight \in [Flag -> SUBSET Teams] /\ s.taken \in [Teams -> SUBSET Flag]
      /\ s.rounds \in Seq(1..MaxRows) /\ s.state \in [Teams -> [1..MaxRows -> State]]
      /\ s.history \in Histories
    BY DEF Scores
<1>2. CASE m.type = "FlagSubmission"
  <2>1. m.attacker \in Teams /\ m.flag \in Flag /\ After(s, m) = OnFlagSubmission(s, m)
      BY <1>2, MessageTypes DEF After
  <2>2. OnFlagSubmission(s, m) \in Scores
      BY <1>1, <2>1 DEF OnFlagSubmission, Scores
  <2>3. QED
      BY <2>1, <2>2
<1>3. CASE m.type = "ServiceState"
  <2>1. /\ m.team \in Teams /\ m.round \in 1..MaxRows /\ m.state \in State
        /\ After(s, m) = OnServiceState(s, m)
      BY <1>3, MessageTypes DEF After
  <2>2. Merge(s.state[m.team][m.round], m.state) \in State
      BY <1>1, <2>1, MergeOnlyWorsens
  <2>3. OnServiceState(s, m) \in Scores
      BY <1>1, <2>1, <2>2 DEF OnServiceState, Scores
  <2>4. QED
      BY <2>1, <2>3
<1>4. CASE m.type = "UpdateRound"
  <2>1. m.round \in 1..MaxRows /\ After(s, m) = OnUpdateRound(s, m)
      BY <1>4, MessageTypes DEF After
  <2>2. PICK R \in SUBSET (1..MaxRows) : s.history \in [R -> Shown]
      BY <1>1 DEF Histories
  <2>3. Enter(s.history, m.round, View(s)) \in [R \cup {m.round} -> Shown]
      BY <2>2, ViewIsShown DEF Enter
  <2>4. R \cup {m.round} \in SUBSET (1..MaxRows)
      BY <2>1
  <2>5. Enter(s.history, m.round, View(s)) \in Histories
      BY <2>3, <2>4 DEF Histories
  <2>6. Append(s.rounds, m.round) \in Seq(1..MaxRows)
      BY <1>1, <2>1
  <2>7. [s EXCEPT !.history = Enter(@, m.round, View(s)), !.rounds = Append(@, m.round)] \in Scores
      BY <2>5, <2>6 DEF Scores
  <2>8. QED
      BY <2>1, <2>7 DEF OnUpdateRound
<1>5. QED
    BY <1>2, <1>3, <1>4, MessageTypes

TellsInOrder(entries) ==
    \A j, k \in DOMAIN entries :
        (j < k /\ entries[j].type = "UpdateRound" /\ entries[k].type = "UpdateRound")
        => entries[j].round < entries[k].round

OfRounds(m, ids) == m.round \in ids /\ (m.type = "FlagSubmission" => m.flag.round \in ids)

\* A history of the first k entries: the points before each round's UpdateRound.
IsHistory(history, entries, k, counted) ==
    \A i \in DOMAIN history :
        \E j \in 1..k : /\ entries[j] = UpdateRound(i)
                        /\ history[i] = Points(KeptTo(entries, j - 1, counted))

LEMMA NewScoreIsEmpty ==
    /\ Scored(NewScore) /\ Reflects(NewScore, {}) /\ NewScore \in Scores
    /\ DOMAIN NewScore.history = {}
<1> DEFINE none == NewScore.history
<1>1. /\ NewScore.weight = [f \in Flag |-> {}] /\ NewScore.taken = [t \in Teams |-> {}]
      /\ NewScore.rounds = <<>> /\ none = <<>>
      /\ NewScore.state = [t \in Teams |-> [i \in 1..MaxRows |-> Unknown]]
    BY DEF NewScore
<1>2. DOMAIN none = {} /\ none \in [{} -> [Teams -> Int]] /\ none \in [{} -> Shown]
    BY <1>1
<1>3. Unknown \in State
    BY DEF Unknown, State
<1>4. NewScore \in Score({})
    BY <1>1, <1>2, <1>3 DEF NewScore, Score
<1>5. NewScore \in Scores
  <2>1. none \in Histories
      BY <1>2 DEF Histories
  <2>2. QED
      BY <1>1, <1>3, <2>1 DEF NewScore, Scores
<1>6. /\ \A f : Holders({}, f) = {} /\ Started({}) = {} /\ \A t, i : Observed({}, t, i) = {}
    BY DEF Holders, Started, Observed
<1>7. Increasing(NewScore.rounds) /\ Range(NewScore.rounds) = {}
    BY <1>1 DEF Increasing, Range
<1>8. Reflects(NewScore, {})
  <2> DEFINE z == NewScore
  <2>1. /\ \A f \in Flag : z.weight[f] = {}
        /\ \A t \in Teams : z.taken[t] = {}
        /\ \A t \in Teams, i \in 1..MaxRows : z.state[t][i] = Unknown
      BY <1>1
  <2> HIDE DEF z
  <2>2. \A t \in Teams, i \in 1..MaxRows :
            /\ z.state[t][i] \in {Unknown} \cup Observed({}, t, i)
            /\ \A o \in Observed({}, t, i) : o <= z.state[t][i]
      BY <1>6, <2>1
  <2>3. Increasing(z.rounds) /\ Range(z.rounds) = Started({})
      BY <1>6, <1>7 DEF z
  <2>4. QED
      BY <1>6, <2>1, <2>2, <2>3 DEF Reflects, z
<1>9. QED
    BY <1>2, <1>4, <1>5, <1>8 DEF Scored

\* The replay leaves the score of what the journal keeps of the finished rounds,
\* and the points before each of them as its history.
LEMMA ReplayedIsJournal ==
    ASSUME ScoringAssumption, log \in Seq(Message), TellsInOrder(log),
           \A k \in DOMAIN log : OfRounds(log[k], DOMAIN rounds),
           Numbered(FinishedRows(rounds)),
           \A i \in FinishedRows(rounds) : IsRoundZero(rounds, i) <=> i = 1
    PROVE  /\ Scored(Replayed) /\ Reflects(Replayed, KeptSet(log, FinishedRows(rounds)))
           /\ IsHistory(Replayed.history, log, Len(log), FinishedRows(rounds))
<1>0. PICK lg : lg = log
    OBVIOUS
<1> DEFINE n == Len(lg)
           V == Scores
           base == NewScore
           fin == FinishedRows(rounds)
           Body(s, m) == IF Kept(m) THEN After(s, m) ELSE s
           op == [p \in (1..n) \X V |-> Body(p[2], lg[p[1]])]
           Form(it) == it = [S \in SUBSET (1..n) |->
                                IF S = {} THEN base ELSE Body(it[S \ {Max(S)}], lg[Max(S)])]
           kt == CHOOSE it : Form(it)
<1>1. /\ n \in Nat /\ base \in V /\ DOMAIN lg = 1..n /\ lg \in Seq(Message)
      /\ \A i \in 1..n : lg[i] \in Message
  <2>1. lg \in Seq(Message)
      BY <1>0
  <2>2. QED
      BY <2>1, NewScoreIsEmpty
<1>2. ASSUME NEW v \in V, NEW i \in 1..n PROVE Body(v, lg[i]) \in V
    BY <1>1, AfterIsScore
<1>3. ASSUME NEW i \in 1..n, NEW v \in V
      PROVE  op[<<i, v>>] = Body(v, lg[i]) /\ op[<<i, v>>] \in V
    BY <1>2
<1>4. StepsOn(op, n, V)
    BY <1>2 DEF StepsOn
<1>5. Replayed = kt[1..n]
    BY <1>0, <1>1 DEF Replayed, FoldLeft, MapThenFoldSet
<1> HIDE DEF op, V, base
<1>6. Form(kt)
  <2>1. PICK it : IsFold(it, n, V, base, op)
    <3> HIDE DEF n, Body, Form, kt
    <3>1. QED
        BY <1>1, <1>4, FoldExists
  <2>2. ASSUME NEW S \in SUBSET (1..n), S # {}
        PROVE  op[<<Max(S), it[S \ {Max(S)}]>>] = Body(it[S \ {Max(S)}], lg[Max(S)])
    <3>1. Max(S) \in 1..n
        BY <1>1, <2>2, MaxUpTo
    <3>2. it[S \ {Max(S)}] \in V
        BY <2>1 DEF IsFold
    <3>3. QED
        BY <1>3, <3>1, <3>2
  <2> HIDE DEF Body
  <2>3. Form(it)
      BY <2>1, <2>2 DEF IsFold
  <2> HIDE DEF Form
  <2>4. QED
      BY <2>3
<1> HIDE DEF Body
<1>7. FoldsPositions(kt, n, V, base, op)
  <2>1. kt[{}] = base
      BY <1>6
  <2>2. ASSUME NEW S \in SUBSET (1..n), S # {}, kt[S \ {Max(S)}] \in V
        PROVE  kt[S] = op[<<Max(S), kt[S \ {Max(S)}]>>]
    <3>1. Max(S) \in 1..n
        BY <1>1, <2>2, MaxUpTo
    <3>2. kt[S] = Body(kt[S \ {Max(S)}], lg[Max(S)])
        BY <1>6, <2>2
    <3>3. QED
        BY <1>3, <2>2, <3>1, <3>2
  <2>3. QED
      BY <2>1, <2>2 DEF FoldsPositions
<1> HIDE DEF kt, Form
<1>8. PICK g : Unrolls(g, n, V, base, op) /\ kt[1..n] = g[n]
  <2> HIDE DEF n
  <2>1. GoesThrough(kt, n, V, base, op)
      BY <1>1, <1>4, <1>7, FoldUnrolls
  <2>2. QED
      BY <2>1 DEF GoesThrough
<1>9. g[0] = base /\ \A k \in 0..n : g[k] \in V
    BY <1>1, <1>8 DEF Unrolls
<1>10. ASSUME NEW k \in 1..n
       PROVE g[k] = IF Kept(lg[k]) THEN After(g[k - 1], lg[k]) ELSE g[k - 1]
  <2>1. g[k] = op[<<k, g[k - 1]>>] /\ k - 1 \in 0..n
      BY <1>1, <1>8 DEF Unrolls
  <2>2. QED
      BY <1>3, <1>9, <2>1 DEF Body
<1>11. ASSUME NEW k \in 1..n PROVE Kept(lg[k]) <=> KeptIn(lg[k], fin)
  <2>1. OfRounds(lg[k], DOMAIN rounds)
      BY <1>0, <1>1
  <2>2. QED
      BY <2>1 DEF OfRounds, Kept, KeptIn, FinishedRows
<1> DEFINE M(k) == KeptTo(lg, k, fin)
           Good(k) == /\ Scored(g[k]) /\ Reflects(g[k], M(k))
                      /\ IsHistory(g[k].history, lg, k, fin)
           D == {k \in 0..n : Good(k)}
<1>12. M(0) = {} /\ M(n) = KeptSet(lg, fin)
    BY <1>1, KeptToFacts
<1>13. 0 \in D
  <2>1. Scored(g[0]) /\ Reflects(g[0], {}) /\ DOMAIN g[0].history = {}
      BY <1>9, NewScoreIsEmpty DEF base
  <2>2. IsHistory(g[0].history, lg, 0, fin)
      BY <2>1 DEF IsHistory
  <2>3. Good(0)
    <3> HIDE DEF M
    <3>1. Reflects(g[0], M(0))
        BY <1>12, <2>1
    <3>2. QED
        BY <2>1, <2>2, <3>1
  <2> HIDE DEF Good
  <2>4. QED
      BY <1>1, <2>3
<1> HIDE DEF fin
<1>14. ASSUME NEW k \in 0..(n - 1), k \in D PROVE k + 1 \in D
  <2> DEFINE m == lg[k + 1]
  <2>1. k + 1 \in 1..n /\ (k + 1) - 1 = k /\ k \in 0..n /\ k + 1 \in 0..n
      BY <1>1
  <2>2. Scored(g[k]) /\ Reflects(g[k], M(k)) /\ IsHistory(g[k].history, lg, k, fin)
      BY <1>14
  <2>3. m \in Message /\ M(k) \in SUBSET Message
      BY <1>1, <2>1, KeptToFacts
  <2>4. /\ KeptIn(m, fin) => M(k + 1) = M(k) \cup {m}
        /\ ~KeptIn(m, fin) => M(k + 1) = M(k)
      BY <1>1, KeptToFacts
  <2>5. g[k + 1] = IF KeptIn(m, fin) THEN After(g[k], m) ELSE g[k]
      BY <1>10, <1>11, <2>1
  <2>6. \A h : IsHistory(h, lg, k, fin) => IsHistory(h, lg, k + 1, fin)
    <3>1. 1..k \subseteq 1..(k + 1)
        BY <2>1
    <3>2. QED
        BY <3>1 DEF IsHistory
  <2> HIDE DEF n, M
  <2>7. CASE ~KeptIn(m, fin)
    <3>1. g[k + 1] = g[k] /\ M(k + 1) = M(k)
        BY <2>4, <2>5, <2>7
    <3>2. Good(k + 1)
        BY <2>2, <2>6, <3>1
    <3>3. QED
        BY <2>1, <3>2
  <2>8. CASE KeptIn(m, fin)
    <3>1. g[k + 1] = After(g[k], m) /\ M(k + 1) = M(k) \cup {m}
        BY <2>4, <2>5, <2>8
    <3>2. Started(M(k)) \subseteq fin
        BY DEF M, Started, KeptTo, KeptIn
    <3>3. Numbered(Started(M(k)))
        BY <3>2 DEF Numbered, fin
    <3>4. InOrder(m, M(k))
      <4>1. SUFFICES ASSUME m.type = "UpdateRound"
                     PROVE  /\ IsRoundZero(rounds, m.round) <=> m.round = 1
                            /\ \A r \in Started(M(k)) : r < m.round
          BY DEF InOrder
      <4>2. m.round \in fin
          BY <2>8, <4>1 DEF KeptIn
      <4>3. ASSUME NEW r \in Started(M(k)) PROVE r < m.round
        <5>1. PICK j \in 1..k : lg[j].type = "UpdateRound" /\ lg[j].round = r
            BY DEF M, Started, KeptTo
        <5>2. j \in 1..n /\ j < k + 1
            BY <1>1, <2>1, <5>1 DEF n
        <5>3. QED
            BY <1>0, <1>1, <2>1, <4>1, <5>1, <5>2 DEF TellsInOrder
      <4>4. QED
          BY <4>2, <4>3 DEF fin
    <3>5. /\ Scored(g[k + 1]) /\ Reflects(g[k + 1], M(k + 1))
          /\ ~Enters(m) => g[k + 1].history = g[k].history
          /\ Enters(m)  => g[k + 1].history = Enter(g[k].history, m.round, Points(M(k)))
      <4> DEFINE s == g[k]
                 E == M(k)
      <4>1. Scored(s) /\ Reflects(s, E) /\ E \in SUBSET Message /\ Numbered(Started(E)) /\ InOrder(m, E)
          BY <2>2, <2>3, <3>3, <3>4
      <4> HIDE DEF s, E, m
      <4>2. /\ Scored(After(s, m)) /\ Reflects(After(s, m), E \cup {m})
            /\ ~Enters(m) => After(s, m).history = s.history
            /\ Enters(m)  => After(s, m).history = Enter(s.history, m.round, Points(E))
          BY <2>3, <4>1, AfterMessage
      <4>3. QED
          BY <3>1, <4>2 DEF s, E
    <3>6. IsHistory(g[k + 1].history, lg, k + 1, fin)
      <4>1. CASE ~Enters(m)
          BY <2>2, <2>6, <3>5, <4>1
      <4>2. CASE Enters(m)
        <5> DEFINE h == g[k].history
                   u == g[k + 1].history
        <5>1. u = Enter(h, m.round, Points(M(k)))
            BY <3>5, <4>2
        <5>2. m = UpdateRound(m.round)
            BY <2>3, <4>2, MessageTypes DEF Enters
        <5>3. IsHistory(h, lg, k + 1, fin)
            BY <2>2, <2>6
        <5>4. k + 1 \in 1..(k + 1)
            BY <2>1
        <5> HIDE DEF h, u
        <5>5. ASSUME NEW i \in DOMAIN u
              PROVE  \E j \in 1..(k + 1) : /\ lg[j] = UpdateRound(i)
                                           /\ u[i] = Points(KeptTo(lg, j - 1, fin))
          <6>1. CASE i = m.round
            <7>1. u[i] = Points(M(k))
                BY <5>1, <6>1 DEF Enter
            <7>2. QED
                BY <2>1, <5>2, <5>4, <6>1, <7>1 DEF M
          <6>2. CASE i # m.round
            <7>1. i \in DOMAIN h /\ u[i] = h[i]
                BY <5>1, <6>2 DEF Enter
            <7>2. QED
                BY <5>3, <7>1 DEF IsHistory
          <6>3. QED
              BY <6>1, <6>2
        <5>6. QED
            BY <5>5 DEF IsHistory, u
      <4>3. QED
          BY <4>1, <4>2
    <3>7. Good(k + 1)
        BY <3>5, <3>6
    <3>8. QED
        BY <2>1, <3>7
  <2>9. QED
      BY <2>7, <2>8
<1>15. \A k \in 0..n : k \in D
  <2> HIDE DEF D, n
  <2>1. QED
      BY <1>1, <1>13, <1>14, UpTo
<1>16. n \in D /\ Replayed = g[n]
    BY <1>1, <1>5, <1>8, <1>15
<1>17. QED
    BY <1>0, <1>12, <1>16 DEF fin

-----------------------------------------------------------------------------
(* The invariant *)

\* The ids of the rounds that count follow the order in which they were played.
RoundsOrdered ==
    /\ 1 \in FinishedRows(rounds) /\ Numbered(Counted)
    /\ \A i \in Counted : i <= roundId /\ (IsRoundZero(rounds, i) <=> i = 1)
    /\ loop = "tell" => roundId # 1

LogOrdered ==
    /\ TellsInOrder(log)
    /\ \A k \in DOMAIN log : OfRounds(log[k], DOMAIN rounds)

\* The rounds under way are newer than those that the scorebot knows of.
MailOrdered ==
    /\ TellsInOrder(mail)
    /\ \A m \in Range(mail) :
          m.type = "UpdateRound" => /\ m.round # 1
                                    /\ \A r \in Range(score.rounds) : r < m.round
                                    /\ loop = "tell" => m.round < roundId
    /\ loop = "tell" => \A r \in Range(score.rounds) : r < roundId

\* What is written with an older timestamp than that of a round's start races
\* with the round.
RelayCounts ==
    /\ relay.pc \in {"append", "send"} => KeptIn(relay.entry, Counted)
    /\ relay.pc = "append" =>
          /\ relay.at \in 1..(Len(log) + 1)
          /\ \A k \in DOMAIN log :
                log[k].type = "UpdateRound" /\ log[k].round \notin raced => k < relay.at

\* Written, and not yet handled by the scorebot.
InFlight == Range(mail) \cup recording
            \cup (IF relay.pc = "send" THEN {relay.entry} ELSE {})
            \cup (IF loop = "tell" THEN {UpdateRound(roundId)} ELSE {})

\* E is what the journal keeps of the time before round i.
Precedes(E, i) ==
    \E k \in DOMAIN log : log[k] = UpdateRound(i) /\ E = KeptTo(log, k - 1, Counted)

Handled(E, q) == E \cup {mail[p] : p \in 1..q}

\* The score reflects E, which is all that is written but what is under way.
\* When the scorebot comes to the start of a round it has handled all that was
\* written before it, unless something raced with it.
Follows(E) ==
    /\ Reflects(score, E) /\ E \cup InFlight = KeptSet(log, Counted)
    /\ \A p \in DOMAIN mail :
          mail[p].type = "UpdateRound" /\ mail[p].round \notin raced
          => Precedes(Handled(E, p - 1), mail[p].round)
    /\ loop = "tell" /\ roundId \notin raced => Precedes(Handled(E, Len(mail)), roundId)

ScoreFollows == \E E \in SUBSET Message : Follows(E)

HistoryFollows ==
    \A i \in DOMAIN score.history :
        \E k \in DOMAIN log :
            /\ log[k] = UpdateRound(i)
            /\ i \notin raced => score.history[i] = Points(KeptTo(log, k - 1, Counted))

ScoringInv ==
    /\ TypeOK /\ RoundsOrdered /\ LogOrdered /\ MailOrdered /\ RelayCounts
    /\ ScoreFollows /\ HistoryFollows

-----------------------------------------------------------------------------
(* Handle *)

LEMMA StartedAdds ==
    ASSUME NEW E, NEW m
    PROVE  Started(E \cup {m}) = IF Enters(m) THEN Started(E) \cup {m.round} ELSE Started(E)
BY DEF Started, Enters

\* What the score reflects and the next message to it belong to rounds that count.
LEMMA MessageCounts ==
    ASSUME ScoringAssumption, ScoringInv, NEW E \in SUBSET Message, Follows(E),
           NEW m \in Range(mail)
    PROVE  /\ Started(E) \subseteq Counted /\ Numbered(Started(E))
           /\ m \in Message
           /\ m.type = "UpdateRound" => m.round \in Counted /\ m.round # 1
           /\ InOrder(m, E)
<1>1. E \cup InFlight = KeptSet(log, Counted) /\ m \in InFlight
    BY DEF Follows, InFlight
<1>2. ASSUME NEW x \in KeptSet(log, Counted), x.type = "UpdateRound" PROVE x.round \in Counted
    BY <1>2 DEF KeptSet, KeptIn
<1>3. Started(E) \subseteq Counted
    BY <1>1, <1>2 DEF Started
<1>4. Numbered(Started(E))
    BY <1>3 DEF ScoringInv, RoundsOrdered, Numbered
<1>5. m \in Message
    BY DEF ScoringInv, TypeOK, Range
<1>6. ASSUME m.type = "UpdateRound"
      PROVE  /\ m.round \in Counted /\ m.round # 1
             /\ IsRoundZero(rounds, m.round) <=> m.round = 1
             /\ \A r \in Started(E) : r < m.round
  <2>1. m.round \in Counted /\ m.round # 1
    <3>1. m \in KeptSet(log, Counted)
        BY <1>1
    <3>2. m.round # 1
        BY <1>6 DEF ScoringInv, MailOrdered
    <3>3. QED
        BY <1>2, <1>6, <3>1, <3>2
  <2>2. IsRoundZero(rounds, m.round) <=> m.round = 1
      BY <2>1 DEF ScoringInv, RoundsOrdered
  <2>3. \A r \in Started(E) : r < m.round
      BY <1>6 DEF ScoringInv, MailOrdered, Follows, Reflects
  <2>4. QED
      BY <2>1, <2>2, <2>3
<1>7. QED
    BY <1>3, <1>4, <1>5, <1>6 DEF InOrder

LEMMA HandleKeeps ==
    ASSUME ScoringAssumption, ScoringInv, Handle
    PROVE  ScoringInv'
<1>00. PICK m : m = Head(mail)
    OBVIOUS
<1>1. PICK E \in SUBSET Message : Follows(E)
    BY DEF ScoringInv, ScoreFollows
<1>2. /\ mail # <<>> /\ mail' = Tail(mail) /\ score' = After(score, m)
      /\ UNCHANGED <<rounds, log, roundId, loop, relay, recording, raced, crashes>>
    BY <1>00 DEF Handle, db, senders
<1>3. mail \in Seq(Message) /\ Len(mail) <= MailCap
    BY DEF ScoringInv, TypeOK
<1>4. /\ Len(mail) \in Nat \ {0} /\ DOMAIN mail = 1..Len(mail) /\ m = mail[1] /\ m \in Message
      /\ mail' \in Seq(Message) /\ DOMAIN mail' = 1..(Len(mail) - 1) /\ Len(mail') = Len(mail) - 1
      /\ \A k \in 1..(Len(mail) - 1) : mail'[k] = mail[k + 1]
      /\ Range(mail) = {m} \cup Range(mail')
    BY <1>00, <1>2, <1>3, TailParts
<1>5. /\ Started(E) \subseteq Counted /\ Numbered(Started(E)) /\ InOrder(m, E)
      /\ m.type = "UpdateRound" => m.round \in Counted /\ m.round # 1
    BY <1>1, <1>4, MessageCounts
<1>6. /\ Scored(score) /\ Reflects(score, E) /\ E \cup InFlight = KeptSet(log, Counted)
    BY <1>1 DEF Follows, ScoringInv, TypeOK, Scored
<1>7. /\ Scored(score') /\ Reflects(score', E \cup {m})
      /\ ~Enters(m) => score'.history = score.history
      /\ Enters(m)  => score'.history = Enter(score.history, m.round, Points(E))
    BY <1>2, <1>4, <1>5, <1>6, AfterMessage
<1>8. Range(score'.rounds) = Started(E \cup {m}) /\ Range(score.rounds) = Started(E)
    BY <1>6, <1>7 DEF Reflects
<1>9. Counted' = Counted
    BY <1>2 DEF Counted
<1>0. Started(E \cup {m}) = IF Enters(m) THEN Started(E) \cup {m.round} ELSE Started(E)
    BY StartedAdds
<1>10. TypeOK'
  <2>1. score' \in Score(DOMAIN score'.history)
      BY <1>7 DEF Scored
  <2>2. DOMAIN score'.history \subseteq DOMAIN rounds
    <3>1. Counted \subseteq DOMAIN rounds
        BY DEF ScoringInv, TypeOK, Counted, FinishedRows
    <3>2. DOMAIN score.history \subseteq DOMAIN rounds
        BY DEF ScoringInv, TypeOK
    <3>3. CASE Enters(m)
      <4>1. DOMAIN score'.history = DOMAIN score.history \cup {m.round}
          BY <1>7, <3>3 DEF Enter
      <4>2. QED
          BY <1>5, <3>1, <3>2, <3>3, <4>1 DEF Enters
    <3>4. CASE ~Enters(m)
        BY <1>7, <3>2, <3>4
    <3>5. QED
        BY <3>3, <3>4
  <2>3. Len(mail') <= MailCap
      BY <1>3, <1>4 DEF ScoringAssumption
  <2>4. QED
      BY <1>2, <1>4, <2>1, <2>2, <2>3 DEF ScoringInv, TypeOK
<1>11. RoundsOrdered'
    BY <1>2, <1>9 DEF ScoringInv, RoundsOrdered, Numbered, IsRoundZero
<1>12. LogOrdered'
    BY <1>2 DEF ScoringInv, LogOrdered
<1>13. MailOrdered'
  <2>1. TellsInOrder(mail')
    <3>1. ASSUME NEW j \in DOMAIN mail', NEW k \in DOMAIN mail', j < k,
                 mail'[j].type = "UpdateRound", mail'[k].type = "UpdateRound"
          PROVE  mail'[j].round < mail'[k].round
      <4>1. j + 1 \in DOMAIN mail /\ k + 1 \in DOMAIN mail /\ j + 1 < k + 1
          BY <1>4, <3>1
      <4>2. mail'[j] = mail[j + 1] /\ mail'[k] = mail[k + 1]
          BY <1>4
      <4>3. QED
          BY <3>1, <4>1, <4>2 DEF ScoringInv, MailOrdered, TellsInOrder
    <3>2. QED
        BY <3>1 DEF TellsInOrder
  <2>2. ASSUME NEW x \in Range(mail'), x.type = "UpdateRound"
        PROVE  /\ x.round # 1
               /\ \A r \in Range(score'.rounds) : r < x.round
               /\ loop = "tell" => x.round < roundId
    <3>1. /\ x.round # 1 /\ (loop = "tell" => x.round < roundId)
          /\ \A r \in Started(E) : r < x.round
        BY <1>4, <1>8, <2>2 DEF ScoringInv, MailOrdered
    <3>2. Enters(m) => m.round < x.round
      <4>1. PICK k \in DOMAIN mail' : x = mail'[k]
          BY DEF Range
      <4>2. k + 1 \in DOMAIN mail /\ 1 \in DOMAIN mail /\ 1 < k + 1 /\ x = mail[k + 1]
          BY <1>4, <4>1
      <4>3. QED
          BY <1>4, <2>2, <4>2 DEF ScoringInv, MailOrdered, TellsInOrder, Enters
    <3>3. QED
        BY <1>0, <1>8, <3>1, <3>2
  <2>3. loop = "tell" => \A r \in Range(score'.rounds) : r < roundId
    <3>1. loop = "tell" => /\ \A r \in Started(E) : r < roundId
                           /\ Enters(m) => m.round < roundId
        BY <1>4, <1>8 DEF ScoringInv, MailOrdered, Enters
    <3>2. QED
        BY <1>0, <1>8, <3>1
  <2>4. QED
      BY <1>2, <2>1, <2>2, <2>3 DEF MailOrdered
<1>14. RelayCounts'
    BY <1>2, <1>9 DEF ScoringInv, RelayCounts
<1>15. ScoreFollows'
  <2>0. PICK F \in SUBSET Message : F = E \cup {m}
    <3>1. m \in Message
        BY <1>4
    <3>2. QED
        BY <3>1
  <2>1. F \cup InFlight' = KeptSet(log, Counted)
      BY <1>2, <1>4, <1>6, <2>0 DEF InFlight
  <2>2. ASSUME NEW q \in 0..(Len(mail) - 1) PROVE Handled(F, q)' = Handled(E, q + 1)
    <3> DEFINE n == Len(mail)
    <3>1. \A p \in 1..(q + 1) : p = 1 \/ (p - 1 \in 1..q /\ mail[p] = mail'[p - 1])
      <4>1. ASSUME NEW p \in 1..(q + 1), p # 1
            PROVE  p - 1 \in 1..q /\ p - 1 \in 1..(Len(mail) - 1) /\ (p - 1) + 1 = p
          BY <1>4, <4>1
      <4>2. QED
          BY <1>4, <4>1
    <3>2. \A p \in 1..q : p + 1 \in 1..(q + 1) /\ mail'[p] = mail[p + 1]
        BY <1>4
    <3>3. 1 \in 1..(q + 1) /\ m = mail[1]
        BY <1>4
    <3>4. {m} \cup {mail'[p] : p \in 1..q} = {mail[p] : p \in 1..(q + 1)}
      <4>1. {m} \cup {mail'[p] : p \in 1..q} \subseteq {mail[p] : p \in 1..(q + 1)}
          BY <3>2, <3>3
      <4>2. {mail[p] : p \in 1..(q + 1)} \subseteq {m} \cup {mail'[p] : p \in 1..q}
          BY <3>1, <3>3
      <4>3. QED
          BY <4>1, <4>2
    <3>5. Handled(F, q)' = E \cup {m} \cup {mail'[p] : p \in 1..q}
        BY <2>0 DEF Handled
    <3>6. QED
        BY <3>4, <3>5 DEF Handled
  <2>3. \A X, i : Precedes(X, i) => Precedes(X, i)'
      BY <1>2, <1>9 DEF Precedes
  <2>4. ASSUME NEW p \in DOMAIN mail', mail'[p].type = "UpdateRound", mail'[p].round \notin raced
        PROVE  Precedes(Handled(F, p - 1), mail[p].round)'
    <3>1. /\ p - 1 \in 0..(Len(mail) - 1) /\ (p - 1) + 1 = p /\ (p + 1) - 1 = p
          /\ p + 1 \in DOMAIN mail /\ mail'[p] = mail[p + 1]
        BY <1>4
    <3>2. Precedes(Handled(E, (p + 1) - 1), mail[p + 1].round)
        BY <1>1, <2>4, <3>1 DEF Follows
    <3>3. Precedes(Handled(E, p), mail'[p].round)
        BY <3>1, <3>2
    <3>4. Handled(F, p - 1)' = Handled(E, p)
        BY <2>2, <3>1
    <3>5. QED
        BY <1>2, <1>9, <3>3, <3>4 DEF Precedes
  <2>5. loop = "tell" /\ roundId \notin raced => Precedes(Handled(F, Len(mail)), roundId)'
    <3>1. Handled(F, Len(mail))' = Handled(E, Len(mail))
      <4>0. Len(mail) - 1 \in 0..(Len(mail) - 1)
          BY <1>4
      <4>1. PICK q \in 0..(Len(mail) - 1) : q = Len(mail) - 1
          BY <4>0
      <4>2. Handled(F, Len(mail))' = Handled(F, q)'
          BY <1>4, <4>1 DEF Handled
      <4>3. q + 1 = Len(mail)
          BY <1>4, <4>1
      <4>4. QED
          BY <2>2, <4>2, <4>3
    <3>2. loop = "tell" /\ roundId \notin raced => Precedes(Handled(E, Len(mail)), roundId)
        BY <1>1 DEF Follows
    <3>3. QED
        BY <1>2, <1>9, <3>1, <3>2 DEF Precedes
  <2>6. Follows(F)'
      BY <1>2, <1>7, <1>9, <2>0, <2>1, <2>4, <2>5 DEF Follows
  <2>7. QED
      BY <2>6 DEF ScoreFollows
<1>16. HistoryFollows'
  <2>1. ASSUME NEW i \in DOMAIN score'.history
        PROVE  \E k \in DOMAIN log :
                  /\ log[k] = UpdateRound(i)
                  /\ i \notin raced => score'.history[i] = Points(KeptTo(log, k - 1, Counted))
    <3>1. CASE i \in DOMAIN score.history /\ score'.history[i] = score.history[i]
        BY <3>1 DEF ScoringInv, HistoryFollows
    <3>2. CASE Enters(m) /\ i = m.round
      <4>1. score'.history[i] = Points(E)
          BY <1>7, <3>2 DEF Enter
      <4>2. m \in KeptSet(log, Counted) /\ m = UpdateRound(i)
          BY <1>4, <1>6, <3>2, MessageTypes DEF InFlight, Enters
      <4>3. PICK k \in DOMAIN log : log[k] = UpdateRound(i)
          BY <4>2 DEF KeptSet, Range
      <4>4. CASE i \in raced
          BY <4>3, <4>4
      <4>5. CASE i \notin raced
        <5>1. Precedes(Handled(E, 1 - 1), i)
          <6>1. 1 \in DOMAIN mail
              BY <1>4
          <6>2. mail[1].type = "UpdateRound" /\ mail[1].round = i
              BY <1>4, <3>2 DEF Enters
          <6>3. \A p \in DOMAIN mail :
                    mail[p].type = "UpdateRound" /\ mail[p].round \notin raced
                    => Precedes(Handled(E, p - 1), mail[p].round)
              BY <1>1 DEF Follows
          <6>4. Precedes(Handled(E, 1 - 1), mail[1].round)
              BY <4>5, <6>1, <6>2, <6>3
          <6>5. QED
              BY <6>2, <6>4
        <5>2. Handled(E, 1 - 1) = E
            BY DEF Handled
        <5>3. QED
            BY <4>1, <5>1, <5>2 DEF Precedes
      <4>6. QED
          BY <4>4, <4>5
    <3>3. QED
        BY <1>7, <3>1, <3>2 DEF Enter
  <2>2. QED
      BY <1>2, <1>9, <2>1 DEF HistoryFollows
<1>17. QED
    BY <1>10, <1>11, <1>12, <1>13, <1>14, <1>15, <1>16 DEF ScoringInv

-----------------------------------------------------------------------------
(* TellRound, TellSubmission, TellState *)

\* A message that was under way enters the channel.  Only TellRound sends the
\* start of a round.
Enqueues(m) ==
    /\ m \in Message /\ Send(m)
    /\ UNCHANGED <<rounds, log, roundId, score, crashes>>
    /\ InFlight' = InFlight /\ raced \subseteq raced'
    /\ m.type = "UpdateRound" => m = UpdateRound(roundId) /\ loop = "tell" /\ raced' = raced
    /\ loop' = "tell" => loop = "tell" /\ m.type # "UpdateRound" /\ roundId \in raced'

LEMMA EnqueueKeeps ==
    ASSUME ScoringInv, NEW m, Enqueues(m)
    PROVE  RoundsOrdered' /\ LogOrdered' /\ MailOrdered' /\ ScoreFollows' /\ HistoryFollows'
<1>1. /\ m \in Message /\ mail' = Append(mail, m) /\ UNCHANGED <<rounds, log, roundId, score>>
      /\ InFlight' = InFlight /\ raced \subseteq raced'
      /\ loop' = "tell" => loop = "tell" /\ m.type # "UpdateRound" /\ roundId \in raced'
    BY DEF Enqueues, Send
<1>2. m.type = "UpdateRound" => /\ m = UpdateRound(roundId) /\ m.round = roundId
                                /\ loop = "tell" /\ raced' = raced
    BY DEF Enqueues, UpdateRound
<1>3. mail \in Seq(Message)
    BY DEF ScoringInv, TypeOK
<1> DEFINE n == Len(mail)
<1>4. /\ n \in Nat /\ DOMAIN mail = 1..n /\ DOMAIN mail' = 1..(n + 1) /\ Len(mail') = n + 1
      /\ \A k \in 1..n : mail'[k] = mail[k]
      /\ mail'[n + 1] = m /\ Range(mail') = Range(mail) \cup {m}
    BY <1>1, <1>3, AppendParts
<1> HIDE DEF n
<1>5. Counted' = Counted
    BY <1>1 DEF Counted
<1>6. RoundsOrdered'
    BY <1>1, <1>5 DEF ScoringInv, RoundsOrdered, Numbered, IsRoundZero
<1>7. LogOrdered'
    BY <1>1 DEF ScoringInv, LogOrdered
<1>8. MailOrdered'
  <2>1. TellsInOrder(mail')
    <3>1. ASSUME NEW j \in 1..(n + 1), NEW k \in 1..(n + 1), j < k,
                 mail'[j].type = "UpdateRound", mail'[k].type = "UpdateRound"
          PROVE  mail'[j].round < mail'[k].round
      <4>1. j \in 1..n /\ mail'[j] = mail[j] /\ mail[j] \in Range(mail)
          BY <1>4, <3>1 DEF Range
      <4>2. CASE k = n + 1
          BY <1>2, <1>4, <3>1, <4>1, <4>2 DEF ScoringInv, MailOrdered
      <4>3. CASE k # n + 1
        <5>1. k \in 1..n
            BY <1>4, <4>3
        <5>2. QED
            BY <1>4, <3>1, <4>1, <5>1 DEF ScoringInv, MailOrdered, TellsInOrder
      <4>4. QED
          BY <4>2, <4>3
    <3>2. QED
        BY <1>4, <3>1 DEF TellsInOrder
  <2>2. ASSUME NEW x \in Range(mail'), x.type = "UpdateRound"
        PROVE  /\ x.round # 1
               /\ \A r \in Range(score.rounds) : r < x.round
               /\ loop' = "tell" => x.round < roundId
    <3>1. CASE x = m
        BY <1>1, <1>2, <2>2, <3>1 DEF ScoringInv, MailOrdered, RoundsOrdered
    <3>2. CASE x \in Range(mail)
        BY <1>1, <2>2, <3>2 DEF ScoringInv, MailOrdered
    <3>3. QED
        BY <1>4, <3>1, <3>2
  <2>3. loop' = "tell" => \A r \in Range(score.rounds) : r < roundId
      BY <1>1 DEF ScoringInv, MailOrdered
  <2>4. QED
      BY <1>1, <2>1, <2>2, <2>3 DEF MailOrdered
<1>9. ScoreFollows'
  <2>1. PICK E \in SUBSET Message : Follows(E)
      BY DEF ScoringInv, ScoreFollows
  <2>2. ASSUME NEW q \in 0..n PROVE Handled(E, q)' = Handled(E, q)
    <3>1. \A p \in 1..q : mail'[p] = mail[p]
        BY <1>4
    <3>2. QED
        BY <3>1 DEF Handled
  <2>3. \A X, i : Precedes(X, i) => Precedes(X, i)'
      BY <1>1, <1>5 DEF Precedes
  <2>4. ASSUME NEW p \in DOMAIN mail', mail'[p].type = "UpdateRound", mail'[p].round \notin raced'
        PROVE  Precedes(Handled(E, p - 1), mail[p].round)'
    <3>1. p - 1 \in 0..n /\ Handled(E, p - 1)' = Handled(E, p - 1)
        BY <1>4, <2>2
    <3>2. Precedes(Handled(E, p - 1), mail'[p].round)
      <4>1. CASE p \in 1..n
        <5>1. mail'[p] = mail[p] /\ p \in DOMAIN mail
            BY <1>4, <4>1
        <5>2. QED
            BY <1>1, <2>1, <2>4, <5>1 DEF Follows
      <4>2. CASE p = n + 1
        <5>1. mail'[p].round = roundId /\ loop = "tell" /\ roundId \notin raced
            BY <1>2, <1>4, <2>4, <4>2
        <5>2. p - 1 = Len(mail)
            BY <1>4, <4>2 DEF n
        <5>3. QED
            BY <2>1, <5>1, <5>2 DEF Follows
      <4>3. QED
          BY <1>4, <4>1, <4>2
    <3>3. QED
        BY <1>1, <1>5, <3>1, <3>2 DEF Precedes
  <2>5. ~(loop' = "tell" /\ roundId' \notin raced')
      BY <1>1
  <2>6. Follows(E)'
      BY <1>1, <1>5, <2>1, <2>4, <2>5 DEF Follows
  <2>7. QED
      BY <2>6 DEF ScoreFollows
<1>10. HistoryFollows'
    BY <1>1, <1>5 DEF ScoringInv, HistoryFollows
<1>11. QED
    BY <1>6, <1>7, <1>8, <1>9, <1>10

LEMMA TellKeeps ==
    ASSUME ScoringAssumption, ScoringInv, Tell
    PROVE  ScoringInv'
<1>1. /\ mail \in Seq(Message) /\ Len(mail) <= MailCap /\ roundId \in DOMAIN rounds
      /\ DOMAIN rounds \subseteq 1..MaxRows /\ raced \subseteq DOMAIN rounds
      /\ recording \subseteq Message
      /\ relay \in {Ready} \cup [pc : {"append", "send"}, entry : Submission, at : Nat]
    BY MessageTypes DEF ScoringInv, TypeOK
<1>2. ASSUME NEW m \in Message, Send(m)
      PROVE  mail' \in Seq(Message) /\ Len(mail') <= MailCap
    BY <1>1, <1>2, AppendParts DEF Send, ScoringAssumption
<1>3. ASSUME Race PROVE /\ raced \subseteq raced' /\ raced' \subseteq DOMAIN rounds
                        /\ loop = "tell" => roundId \in raced'
    BY <1>1, <1>3 DEF Race
<1>4. CASE TellRound
  <2> DEFINE m == UpdateRound(roundId)
  <2>1. /\ loop = "tell" /\ loop' = "play" /\ Send(m) /\ m \in Message /\ m.type = "UpdateRound"
        /\ UNCHANGED <<rounds, log, roundId, relay, recording, score, raced, crashes>>
      BY <1>1, <1>4, MessageTypes DEF TellRound, db, UpdateRound
  <2>2. TypeOK'
      BY <1>2, <2>1 DEF ScoringInv, TypeOK
  <2>3. RelayCounts'
      BY <2>1 DEF ScoringInv, RelayCounts, Counted
  <2>4. InFlight' = InFlight
    <3>1. Range(mail') = Range(mail) \cup {m}
        BY <1>1, <2>1, AppendParts DEF Send
    <3> HIDE DEF m
    <3>2. QED
        BY <2>1, <3>1 DEF InFlight, m
  <2>5. Enqueues(m)
      BY <2>1, <2>4 DEF Enqueues
  <2>6. QED
      BY <2>2, <2>3, <2>5, EnqueueKeeps DEF ScoringInv
<1>5. CASE TellSubmission
  <2>1. PICK m : m = relay.entry
      OBVIOUS
  <2>2. /\ relay.pc = "send" /\ Send(m) /\ relay' = Ready /\ Race
        /\ UNCHANGED <<rounds, log, roundId, loop, recording, score, crashes>>
      BY <1>5, <2>1 DEF TellSubmission, db
  <2>3. m \in Submission /\ m \in Message /\ m.type = "FlagSubmission"
      BY <1>1, <2>1, <2>2, MessageTypes DEF Ready, Submission
  <2>4. TypeOK'
      BY <1>2, <1>3, <2>2, <2>3 DEF ScoringInv, TypeOK
  <2>5. RelayCounts'
      BY <2>2 DEF RelayCounts, Ready
  <2>6. InFlight' = InFlight
    <3>1. Range(mail') = Range(mail) \cup {m}
        BY <1>1, <2>2, <2>3, AppendParts DEF Send
    <3>2. relay'.pc # "send"
        BY <2>2 DEF Ready
    <3>3. QED
        BY <2>1, <2>2, <3>1, <3>2 DEF InFlight
  <2>7. Enqueues(m)
      BY <1>3, <2>2, <2>3, <2>6 DEF Enqueues
  <2>8. QED
      BY <2>4, <2>5, <2>7, EnqueueKeeps DEF ScoringInv
<1>6. ASSUME NEW m \in recording, TellState(m) PROVE ScoringInv'
  <2>1. /\ Send(m) /\ recording' = recording \ {m} /\ Race
        /\ UNCHANGED <<rounds, log, roundId, loop, relay, score, crashes>>
      BY <1>6 DEF TellState, db
  <2>2. m \in Message /\ m.type = "ServiceState"
    <3>1. m \in Observation
        BY DEF ScoringInv, TypeOK
    <3>2. QED
        BY <3>1, MessageTypes DEF Observation
  <2>3. TypeOK'
      BY <1>2, <1>3, <2>1, <2>2 DEF ScoringInv, TypeOK
  <2>4. RelayCounts'
      BY <1>3, <2>1 DEF ScoringInv, RelayCounts, Counted
  <2>5. InFlight' = InFlight
    <3>1. Range(mail') = Range(mail) \cup {m}
        BY <1>1, <2>1, <2>2, AppendParts DEF Send
    <3>2. QED
        BY <2>1, <3>1 DEF InFlight
  <2>6. Enqueues(m)
      BY <1>3, <2>1, <2>2, <2>5 DEF Enqueues
  <2>7. QED
      BY <2>3, <2>4, <2>6, EnqueueKeeps DEF ScoringInv
<1>7. QED
    BY <1>4, <1>5, <1>6 DEF Tell

-----------------------------------------------------------------------------
(* What writes to the log *)

\* b is a with x at position p.
Inserted(b, a, p, x) ==
    /\ p \in 1..(Len(a) + 1) /\ b[p] = x
    /\ \A k \in 1..(p - 1) : b[k] = a[k]
    /\ \A k \in p..Len(a) : b[k + 1] = a[k]

LEMMA AppendInserts ==
    ASSUME NEW S, NEW a \in Seq(S), NEW x \in S
    PROVE  Inserted(Append(a, x), a, Len(a) + 1, x)
<1>1. Len(a) \in Nat /\ Append(a, x)[Len(a) + 1] = x /\ \A k \in 1..Len(a) : Append(a, x)[k] = a[k]
    BY AppendParts
<1> DEFINE n == Len(a)
           b == Append(a, x)
<1> HIDE DEF n, b
<1>2. Inserted(b, a, n + 1, x)
    BY <1>1 DEF Inserted, n, b
<1>3. QED
    BY <1>2 DEF n, b

LEMMA InsertAtInserts ==
    ASSUME NEW S, NEW a \in Seq(S), NEW x \in S, NEW p \in 1..(Len(a) + 1)
    PROVE  /\ InsertAt(a, p, x) \in Seq(S) /\ Len(InsertAt(a, p, x)) = Len(a) + 1
           /\ Inserted(InsertAt(a, p, x), a, p, x)
<1> DEFINE n == Len(a)
           c == SubSeq(a, 1, p - 1)
           d == SubSeq(a, p, n)
           b == c \o <<x>> \o d
<1>0. InsertAt(a, p, x) = b
    BY DEF InsertAt
<1>1. n \in Nat /\ DOMAIN a = 1..n /\ p \in 1..(n + 1) /\ \A k \in 1..n : a[k] \in S
    OBVIOUS
<1>2. /\ c \in Seq(S) /\ Len(c) = p - 1 /\ \A k \in 1..(p - 1) : c[k] = a[k]
  <2>1. c \in Seq(S) /\ Len(c) = p - 1
      BY <1>1
  <2>2. \A k \in 1..(p - 1) : c[k] = a[k]
      BY <1>1
  <2>3. QED
      BY <2>1, <2>2
<1>3. /\ d \in Seq(S) /\ Len(d) = n + 1 - p /\ \A k \in 1..(n + 1 - p) : d[k] = a[k + p - 1]
  <2>1. d \in Seq(S) /\ Len(d) = n + 1 - p
      BY <1>1
  <2>2. \A k \in 1..(n + 1 - p) : d[k] = a[k + p - 1]
      BY <1>1
  <2>3. QED
      BY <2>1, <2>2
<1> HIDE DEF n, c, d
<1>4. /\ b \in Seq(S) /\ Len(b) = n + 1
      /\ \A k \in 1..(p - 1) : b[k] = c[k]
      /\ b[p] = x
      /\ \A k \in 1..(n + 1 - p) : b[k + p] = d[k]
  <2>1. b \in Seq(S) /\ Len(b) = n + 1
    <3> DEFINE e == c \o <<x>>
    <3>1. e \in Seq(S) /\ Len(e) = p
        BY <1>1, <1>2
    <3> HIDE DEF e
    <3>2. e \o d \in Seq(S) /\ Len(e \o d) = n + 1
        BY <1>1, <1>3, <3>1
    <3>3. QED
        BY <3>2 DEF e
  <2>2. \A k \in 1..(p - 1) : b[k] = c[k]
      BY <1>1, <1>2, <1>3
  <2>3. b[p] = x
      BY <1>1, <1>2, <1>3
  <2>4. \A k \in 1..(n + 1 - p) : b[k + p] = d[k]
      BY <1>1, <1>2, <1>3
  <2>5. QED
      BY <2>1, <2>2, <2>3, <2>4
<1> HIDE DEF b
<1>5. ASSUME NEW k \in p..n PROVE b[k + 1] = a[k]
  <2>1. k + 1 - p \in 1..(n + 1 - p) /\ (k + 1 - p) + p = k + 1 /\ (k + 1 - p) + p - 1 = k
      BY <1>1
  <2>2. QED
      BY <1>3, <1>4, <2>1
<1>6. Inserted(b, a, p, x)
    BY <1>1, <1>2, <1>4, <1>5 DEF Inserted, n
<1>7. QED
    BY <1>0, <1>4, <1>6 DEF n

\* The message x is written at position p.  The starts of rounds that do not race
\* with it are before p; the rounds that count are the same for what was written.
Writes(x, p) ==
    /\ x \in Message /\ OfRounds(x, DOMAIN rounds') /\ KeptIn(x, Counted')
    /\ log' \in Seq(Message) /\ Len(log') = Len(log) + 1 /\ Inserted(log', log, p, x)
    /\ DOMAIN rounds \subseteq DOMAIN rounds' /\ raced \subseteq raced'
    /\ \A k \in DOMAIN log : KeptIn(log[k], Counted') <=> KeptIn(log[k], Counted)
    /\ \A k \in DOMAIN log :
          log[k].type = "UpdateRound" => /\ log[k].round \notin raced' => k < p
                                         /\ x.type = "UpdateRound" => log[k].round < x.round
    /\ x.type = "UpdateRound" => p = Len(log) + 1

LEMMA WriteKeeps ==
    ASSUME ScoringInv, NEW x, NEW p, Writes(x, p)
    PROVE  /\ LogOrdered'
           /\ KeptSet(log, Counted)' = KeptSet(log, Counted) \cup {x}
           /\ \A k \in 0..(p - 1) : KeptTo(log, k, Counted)' = KeptTo(log, k, Counted)
           /\ \A E, i : i \notin raced' /\ Precedes(E, i) => Precedes(E, i)'
           /\ UNCHANGED score => HistoryFollows'
<1> DEFINE n == Len(log)
           at(k) == IF k < p THEN k ELSE k + 1
<1>1. /\ n \in Nat /\ DOMAIN log = 1..n /\ p \in 1..(n + 1) /\ DOMAIN log' = 1..(n + 1)
      /\ \A k \in 1..n : log[k] \in Message
  <2>1. log \in Seq(Message)
      BY DEF ScoringInv, TypeOK
  <2>2. n \in Nat /\ DOMAIN log = 1..n /\ \A k \in 1..n : log[k] \in Message
      BY <2>1
  <2>3. DOMAIN log' = 1..(n + 1) /\ p \in 1..(n + 1)
      BY <2>2 DEF Writes, Inserted
  <2>4. QED
      BY <2>2, <2>3
<1>2. /\ log'[p] = x
      /\ \A k \in 1..(p - 1) : log'[k] = log[k]
      /\ \A k \in p..n : log'[k + 1] = log[k]
    BY DEF Writes, Inserted
<1> HIDE DEF n
<1>3. \A k \in 1..n : at(k) \in 1..(n + 1) /\ at(k) # p /\ log'[at(k)] = log[k]
  <2>1. ASSUME NEW k \in 1..n PROVE at(k) \in 1..(n + 1) /\ at(k) # p /\ log'[at(k)] = log[k]
    <3>1. CASE k < p
      <4>1. k \in 1..(p - 1) /\ at(k) = k
          BY <1>1, <3>1
      <4>2. QED
          BY <1>1, <1>2, <4>1
    <3>2. CASE ~(k < p)
      <4>1. k \in p..n /\ at(k) = k + 1
          BY <1>1, <3>2
      <4>2. QED
          BY <1>1, <1>2, <4>1
    <3>3. QED
        BY <3>1, <3>2
  <2>2. QED
      BY <2>1
<1>4. \A j \in 1..(n + 1) : j # p => \E k \in 1..n : at(k) = j
  <2>1. ASSUME NEW j \in 1..(n + 1), j # p PROVE \E k \in 1..n : at(k) = j
    <3>1. CASE j < p
      <4>1. j \in 1..n /\ at(j) = j
          BY <1>1, <3>1
      <4>2. QED
          BY <4>1
    <3>2. CASE j > p
      <4>1. j - 1 \in 1..n /\ at(j - 1) = j
          BY <1>1, <3>2
      <4>2. QED
          BY <4>1
    <3>3. QED
        BY <1>1, <2>1, <3>1, <3>2
  <2>2. QED
      BY <2>1
<1>5. \A j, k \in 1..n : at(j) < at(k) => j < k
    BY <1>1
<1> HIDE DEF at
<1>6. LogOrdered'
  <2>1. ASSUME NEW j \in 1..(n + 1) PROVE OfRounds(log'[j], DOMAIN rounds')
    <3>1. CASE j = p
        BY <1>2, <3>1 DEF Writes
    <3>2. CASE j # p
      <4>1. PICK k \in 1..n : at(k) = j
          BY <1>4, <3>2
      <4>2. log'[j] = log[k] /\ OfRounds(log[k], DOMAIN rounds)
          BY <1>1, <1>3, <4>1 DEF ScoringInv, LogOrdered
      <4>3. QED
          BY <4>2 DEF OfRounds, Writes
    <3>3. QED
        BY <3>1, <3>2
  <2>2. ASSUME NEW j \in 1..(n + 1), NEW k \in 1..(n + 1), j < k,
               log'[j].type = "UpdateRound", log'[k].type = "UpdateRound"
        PROVE  log'[j].round < log'[k].round
    <3>1. j = p => p = n + 1
        BY <1>2, <2>2 DEF Writes, n
    <3>2. j # p
        BY <1>1, <2>2, <3>1
    <3>3. PICK i \in 1..n : at(i) = j /\ log'[j] = log[i]
        BY <1>3, <1>4, <3>2
    <3>4. CASE k = p
        BY <1>1, <1>2, <2>2, <3>3, <3>4 DEF Writes
    <3>5. CASE k # p
      <4>1. PICK l \in 1..n : at(l) = k /\ log'[k] = log[l]
          BY <1>3, <1>4, <3>5
      <4>2. i < l
          BY <1>5, <2>2, <3>3, <4>1
      <4>3. QED
          BY <1>1, <2>2, <3>3, <4>1, <4>2 DEF ScoringInv, LogOrdered, TellsInOrder
    <3>6. QED
        BY <3>4, <3>5
  <2>3. TellsInOrder(log')
      BY <1>1, <2>2 DEF TellsInOrder
  <2>4. QED
      BY <1>1, <2>1, <2>3 DEF LogOrdered
<1>7. KeptSet(log, Counted)' = KeptSet(log, Counted) \cup {x}
  <2>0. /\ \A j \in 1..(n + 1) : log'[j] \in Range(log')
        /\ \A y \in Range(log') : \E j \in 1..(n + 1) : y = log'[j]
        /\ \A k \in 1..n : log[k] \in Range(log)
        /\ \A y \in Range(log) : \E k \in 1..n : y = log[k]
      BY <1>1 DEF Range
  <2>1. /\ \A y \in Range(log') : y = x \/ \E k \in 1..n : y = log[k]
        /\ x \in Range(log') /\ \A k \in 1..n : log[k] \in Range(log')
        /\ \A k \in 1..n : log[k] \in Range(log)
        /\ \A y \in Range(log) : \E k \in 1..n : y = log[k]
    <3>1. ASSUME NEW y \in Range(log') PROVE y = x \/ \E k \in 1..n : y = log[k]
      <4>1. PICK j \in 1..(n + 1) : y = log'[j]
          BY <2>0
      <4>2. QED
          BY <1>2, <1>3, <1>4, <4>1
    <3>2. x \in Range(log')
        BY <1>1, <1>2, <2>0
    <3>3. \A k \in 1..n : log[k] \in Range(log')
        BY <1>3, <2>0
    <3>4. QED
        BY <2>0, <3>1, <3>2, <3>3
  <2>2. /\ KeptIn(x, Counted')
        /\ \A k \in 1..n : KeptIn(log[k], Counted') <=> KeptIn(log[k], Counted)
      BY <1>1 DEF Writes
  <2>3. KeptSet(log, Counted)' \subseteq KeptSet(log, Counted) \cup {x}
      BY <2>1, <2>2 DEF KeptSet
  <2>4. KeptSet(log, Counted) \cup {x} \subseteq KeptSet(log, Counted)'
      BY <2>1, <2>2 DEF KeptSet
  <2>5. QED
      BY <2>3, <2>4
<1>8. ASSUME NEW k \in 0..(p - 1) PROVE KeptTo(log, k, Counted)' = KeptTo(log, k, Counted)
  <2>1. \A j \in 1..k : j \in 1..n /\ log'[j] = log[j] /\ (KeptIn(log[j], Counted') <=> KeptIn(log[j], Counted))
    <3>1. \A j \in 1..k : j \in 1..n /\ j \in 1..(p - 1)
        BY <1>1
    <3>2. QED
        BY <1>1, <1>2, <3>1 DEF Writes
  <2>2. KeptTo(log, k, Counted)' = {log'[j] : j \in {i \in 1..k : KeptIn(log'[i], Counted')}}
      BY DEF KeptTo
  <2>3. QED
      BY <2>1, <2>2 DEF KeptTo
<1>9. ASSUME NEW k \in 1..n, NEW i, log[k] = UpdateRound(i), i \notin raced'
      PROVE  k \in DOMAIN log' /\ log'[k] = log[k] /\ KeptTo(log, k - 1, Counted)' = KeptTo(log, k - 1, Counted)
  <2>1. k < p
      BY <1>1, <1>9 DEF Writes, UpdateRound
  <2>2. k - 1 \in 0..(p - 1) /\ k \in 1..(p - 1) /\ k \in 1..(n + 1)
      BY <1>1, <2>1
  <2>3. \A j \in 0..(p - 1) : KeptTo(log, j, Counted)' = KeptTo(log, j, Counted)
      BY <1>8
  <2>4. PICK j \in 0..(p - 1) : j = k - 1
      BY <2>2
  <2>5. QED
      BY <1>1, <1>2, <2>2, <2>3, <2>4
<1>10. ASSUME NEW E, NEW i, i \notin raced', Precedes(E, i) PROVE Precedes(E, i)'
  <2>1. PICK k \in 1..n : log[k] = UpdateRound(i) /\ E = KeptTo(log, k - 1, Counted)
      BY <1>1, <1>10 DEF Precedes
  <2>2. k \in DOMAIN log' /\ log'[k] = UpdateRound(i) /\ E = KeptTo(log, k - 1, Counted)'
      BY <1>9, <1>10, <2>1
  <2>3. QED
      BY <2>2 DEF Precedes
<1>11. ASSUME UNCHANGED score PROVE HistoryFollows'
  <2>1. ASSUME NEW i \in DOMAIN score.history
        PROVE  \E k \in DOMAIN log' :
                  /\ log'[k] = UpdateRound(i)
                  /\ i \notin raced' => score.history[i] = Points(KeptTo(log, k - 1, Counted)')
    <3>1. PICK k \in 1..n :
                  /\ log[k] = UpdateRound(i)
                  /\ i \notin raced => score.history[i] = Points(KeptTo(log, k - 1, Counted))
        BY <1>1 DEF ScoringInv, HistoryFollows
    <3>2. CASE i \in raced'
        BY <1>1, <1>3, <3>1, <3>2
    <3>3. CASE i \notin raced'
      <4>1. i \notin raced
          BY <3>3 DEF Writes
      <4>2. QED
          BY <1>9, <3>1, <3>3, <4>1
    <3>4. QED
        BY <3>2, <3>3
  <2>2. QED
      BY <1>11, <2>1 DEF HistoryFollows
<1>12. QED
    BY <1>6, <1>7, <1>8, <1>10, <1>11

\* JournalState and JournalSubmission: what is written is under way.
LEMMA EventWriteKeeps ==
    ASSUME ScoringInv, NEW x, NEW p, Writes(x, p), x.type # "UpdateRound",
           UNCHANGED <<rounds, roundId, loop, mail, score, raced>>,
           InFlight' = InFlight \cup {x}
    PROVE  RoundsOrdered' /\ LogOrdered' /\ MailOrdered' /\ ScoreFollows' /\ HistoryFollows'
<1>1. Counted' = Counted
    BY DEF Counted
<1>2. RoundsOrdered'
    BY <1>1 DEF ScoringInv, RoundsOrdered, Numbered, IsRoundZero
<1>3. MailOrdered'
    BY DEF ScoringInv, MailOrdered
<1>4. /\ LogOrdered' /\ HistoryFollows'
      /\ KeptSet(log, Counted)' = KeptSet(log, Counted) \cup {x}
      /\ \A E, i : i \notin raced /\ Precedes(E, i) => Precedes(E, i)'
    BY WriteKeeps
<1>5. ScoreFollows'
  <2>1. PICK E \in SUBSET Message : Follows(E)
      BY DEF ScoringInv, ScoreFollows
  <2>2. \A q : Handled(E, q)' = Handled(E, q)
      BY DEF Handled
  <2>3. ASSUME NEW q \in DOMAIN mail, mail[q].type = "UpdateRound", mail[q].round \notin raced
        PROVE  Precedes(Handled(E, q - 1), mail[q].round)'
    <3>1. Precedes(Handled(E, q - 1), mail[q].round)
        BY <2>1, <2>3 DEF Follows
    <3>2. PICK H, i : H = Handled(E, q - 1) /\ i = mail[q].round
        OBVIOUS
    <3>3. Precedes(H, i)'
        BY <1>4, <2>3, <3>1, <3>2
    <3>4. H = Handled(E, q - 1)' /\ i = mail[q].round'
        BY <2>2, <3>2
    <3>5. QED
        BY <3>3, <3>4 DEF Precedes
  <2>4. ASSUME loop = "tell", roundId \notin raced
        PROVE  Precedes(Handled(E, Len(mail)), roundId)'
    <3>1. Precedes(Handled(E, Len(mail)), roundId)
        BY <2>1, <2>4 DEF Follows
    <3>2. PICK H, i : H = Handled(E, Len(mail)) /\ i = roundId
        OBVIOUS
    <3>3. Precedes(H, i)'
        BY <1>4, <2>4, <3>1, <3>2
    <3>4. H = Handled(E, Len(mail))' /\ i = roundId'
        BY <2>2, <3>2 DEF Handled
    <3>5. QED
        BY <3>3, <3>4 DEF Precedes
  <2>5. Reflects(score', E) /\ E \cup InFlight' = KeptSet(log, Counted)'
      BY <1>4, <2>1 DEF Follows
  <2>6. Follows(E)'
      BY <2>3, <2>4, <2>5 DEF Follows
  <2>7. QED
      BY <2>6 DEF ScoreFollows
<1>6. QED
    BY <1>2, <1>3, <1>4, <1>5

LEMMA RecordKeeps ==
    ASSUME ScoringAssumption, ScoringInv, Record
    PROVE  ScoringInv'
<1>1. PICK t \in Victims, i \in Played, st \in States : JournalState(t, i, st)
    BY DEF Record
<1>2. PICK x : x = ServiceState(t, i, st)
    OBVIOUS
<1>3. /\ log \in Seq(Message) /\ roundId \in DOMAIN rounds /\ DOMAIN rounds \subseteq 1..MaxRows
      /\ \A k \in DOMAIN log : log[k] \in Message
    BY DEF ScoringInv, TypeOK
<1>4. i \in DOMAIN rounds
    BY <1>3 DEF Played, FinishedRows
<1>5. x \in Observation /\ x \in Message /\ x.type = "ServiceState" /\ x.round = i
  <2>1. t \in Teams /\ st \in State /\ i \in 1..MaxRows
      BY <1>3, <1>4 DEF ScoringAssumption
  <2>2. x \in Observation /\ x.type = "ServiceState" /\ x.round = i
      BY <1>2, <2>1 DEF ServiceState, Observation
  <2>3. QED
      BY <2>2, MessageTypes
<1>6. /\ log' = Append(log, x) /\ recording' = recording \cup {x}
      /\ UNCHANGED <<rounds, roundId, loop, relay, mail, score, raced, crashes>>
    BY <1>1, <1>2 DEF JournalState
<1> DEFINE n == Len(log)
<1>7. /\ log' \in Seq(Message) /\ n \in Nat /\ DOMAIN log = 1..n /\ Len(log') = n + 1
      /\ DOMAIN log' = 1..(n + 1) /\ \A k \in 1..n : log'[k] = log[k]
      /\ log'[n + 1] = x /\ Inserted(log', log, n + 1, x)
    BY <1>3, <1>5, <1>6, AppendParts, AppendInserts
<1> HIDE DEF n
<1>8. Counted' = Counted
    BY <1>6 DEF Counted
<1>9. Writes(x, n + 1)
  <2>1. OfRounds(x, DOMAIN rounds') /\ KeptIn(x, Counted')
      BY <1>4, <1>5, <1>6 DEF OfRounds, KeptIn
  <2>2. \A k \in 1..n : k < n + 1
      BY <1>7
  <2>3. QED
      BY <1>5, <1>6, <1>7, <1>8, <2>1, <2>2 DEF Writes, n
<1>10. InFlight' = InFlight \cup {x}
    BY <1>6 DEF InFlight
<1>11. TypeOK'
    BY <1>5, <1>6, <1>7 DEF ScoringInv, TypeOK
<1>12. RelayCounts'
  <2>1. ASSUME relay.pc = "append"
        PROVE  /\ relay.at \in 1..(n + 1 + 1)
               /\ \A k \in 1..(n + 1) :
                     log'[k].type = "UpdateRound" /\ log'[k].round \notin raced => k < relay.at
    <3>1. relay.at \in 1..(n + 1)
        BY <2>1 DEF ScoringInv, RelayCounts, n
    <3>2. \A k \in 1..n : log[k].type = "UpdateRound" /\ log[k].round \notin raced => k < relay.at
        BY <1>7, <2>1 DEF ScoringInv, RelayCounts
    <3>3. \A k \in 1..(n + 1) : k = n + 1 \/ k \in 1..n
        BY <1>7
    <3>4. \A k \in 1..(n + 1) : log'[k].type = "UpdateRound" => k \in 1..n /\ log'[k] = log[k]
        BY <1>5, <1>7, <3>3
    <3>5. relay.at \in 1..(n + 1 + 1)
        BY <1>7, <3>1
    <3>6. QED
        BY <3>2, <3>4, <3>5
  <2>2. relay.pc \in {"append", "send"} => KeptIn(relay.entry, Counted')
      BY <1>8 DEF ScoringInv, RelayCounts
  <2>3. QED
      BY <1>6, <1>7, <2>1, <2>2 DEF RelayCounts
<1>13. QED
    BY <1>5, <1>6, <1>9, <1>10, <1>11, <1>12, EventWriteKeeps DEF ScoringInv

LEMMA JournalSubmissionKeeps ==
    ASSUME ScoringAssumption, ScoringInv, JournalSubmission
    PROVE  ScoringInv'
<1>1. PICK x, p : x = relay.entry /\ p = relay.at
    OBVIOUS
<1>2. /\ relay.pc = "append" /\ log' = InsertAt(log, p, x)
      /\ relay' = [relay EXCEPT !.pc = "send"]
      /\ UNCHANGED <<rounds, roundId, loop, recording, mail, score, raced, crashes>>
    BY <1>1 DEF JournalSubmission
<1>3. /\ log \in Seq(Message)
      /\ relay \in {Ready} \cup [pc : {"append", "send"}, entry : Submission, at : Nat]
      /\ Counted \subseteq DOMAIN rounds
    BY DEF ScoringInv, TypeOK, Counted, FinishedRows
<1>4. relay \in [pc : {"append", "send"}, entry : Submission, at : Nat]
    BY <1>2, <1>3 DEF Ready
<1>5. /\ relay' \in [pc : {"append", "send"}, entry : Submission, at : Nat]
      /\ relay'.pc = "send" /\ relay'.entry = x /\ x \in Submission /\ x \in Message
      /\ x.type = "FlagSubmission"
    BY <1>1, <1>2, <1>4, MessageTypes DEF Submission
<1>6. /\ KeptIn(x, Counted) /\ p \in 1..(Len(log) + 1)
      /\ \A k \in DOMAIN log : log[k].type = "UpdateRound" /\ log[k].round \notin raced => k < p
    BY <1>1, <1>2 DEF ScoringInv, RelayCounts
<1>7. log' \in Seq(Message) /\ Len(log') = Len(log) + 1 /\ Inserted(log', log, p, x)
    BY <1>2, <1>3, <1>5, <1>6, InsertAtInserts
<1>8. Counted' = Counted
    BY <1>2 DEF Counted
<1>9. Writes(x, p)
  <2>1. OfRounds(x, DOMAIN rounds') /\ KeptIn(x, Counted')
      BY <1>2, <1>3, <1>5, <1>6, <1>8 DEF OfRounds, KeptIn
  <2>2. QED
      BY <1>2, <1>5, <1>6, <1>7, <1>8, <2>1 DEF Writes
<1>10. InFlight' = InFlight \cup {x}
    BY <1>2, <1>5 DEF InFlight
<1>11. TypeOK'
    BY <1>2, <1>5, <1>7 DEF ScoringInv, TypeOK
<1>12. RelayCounts'
    BY <1>5, <1>6, <1>8 DEF RelayCounts
<1>13. QED
    BY <1>2, <1>5, <1>9, <1>10, <1>11, <1>12, EventWriteKeeps DEF ScoringInv

\* FinishRound and StampSubmission write nothing.
LEMMA QuietKeeps ==
    ASSUME ScoringInv,
           UNCHANGED <<log, roundId, loop, recording, mail, score, raced>>,
           InFlight' = InFlight, Counted' = Counted, DOMAIN rounds' = DOMAIN rounds,
           \A i \in DOMAIN rounds : rounds'[i].number = rounds[i].number,
           FinishedRows(rounds) \subseteq FinishedRows(rounds')
    PROVE  RoundsOrdered' /\ LogOrdered' /\ MailOrdered' /\ ScoreFollows' /\ HistoryFollows'
<1>1. Counted \subseteq DOMAIN rounds
    BY DEF ScoringInv, TypeOK, Counted, FinishedRows
<1>2. RoundsOrdered'
  <2>1. Numbered(Counted)'
      BY <1>1 DEF ScoringInv, RoundsOrdered, Numbered
  <2>2. QED
      BY <1>1, <2>1 DEF ScoringInv, RoundsOrdered, IsRoundZero
<1>3. LogOrdered' /\ MailOrdered' /\ HistoryFollows'
    BY DEF ScoringInv, LogOrdered, MailOrdered, HistoryFollows
<1>4. ScoreFollows'
    BY DEF ScoringInv, ScoreFollows, Follows, Precedes, Handled
<1>5. QED
    BY <1>2, <1>3, <1>4

LEMMA FinishRoundKeeps ==
    ASSUME ScoringAssumption, ScoringInv, FinishRound
    PROVE  ScoringInv'
<1>1. /\ loop = "play" /\ rounds' = MarkFinished(rounds, roundId)
      /\ UNCHANGED <<log, roundId, loop, relay, recording, mail, score, raced, crashes>>
    BY DEF FinishRound, senders
<1>2. rounds \in Seq(Row) /\ roundId \in DOMAIN rounds
    BY DEF ScoringInv, TypeOK
<1>3. /\ rounds' \in Seq(Row) /\ DOMAIN rounds' = DOMAIN rounds /\ Len(rounds') = Len(rounds)
      /\ \A j \in DOMAIN rounds : rounds'[j].number = rounds[j].number
      /\ FinishedRows(rounds') = FinishedRows(rounds) \cup {roundId}
    BY <1>1, <1>2, MarkFinishedRows
<1>4. Counted' = Counted /\ InFlight' = InFlight
    BY <1>1, <1>3 DEF Counted, InFlight
<1>5. TypeOK'
    BY <1>1, <1>3 DEF ScoringInv, TypeOK
<1>6. RelayCounts'
    BY <1>1, <1>4 DEF ScoringInv, RelayCounts
<1>7. QED
    BY <1>1, <1>3, <1>4, <1>5, <1>6, QuietKeeps DEF ScoringInv

LEMMA SubmitKeeps ==
    ASSUME ScoringAssumption, ScoringInv, Submit
    PROVE  ScoringInv'
<1>1. PICK a \in Teams, i \in Played, f \in [round : Played, team : Victims] : StampSubmission(a, f, i)
    BY DEF Submit
<1>2. PICK x : x = FlagSubmission(a, f, i)
    OBVIOUS
<1>3. /\ relay = Ready /\ relay' = [pc |-> "append", entry |-> x, at |-> Len(log) + 1]
      /\ UNCHANGED <<rounds, log, roundId, loop, recording, mail, score, raced, crashes>>
    BY <1>1, <1>2 DEF StampSubmission, db
<1>4. /\ log \in Seq(Message) /\ roundId \in DOMAIN rounds /\ DOMAIN rounds \subseteq 1..MaxRows
      /\ Len(log) \in Nat /\ DOMAIN log = 1..Len(log)
    BY DEF ScoringInv, TypeOK
<1>5. Played \subseteq Counted /\ Played \subseteq 1..MaxRows
    BY <1>4 DEF Played, Counted, FinishedRows
<1>6. x \in Submission /\ KeptIn(x, Counted)
  <2>1. /\ f.round \in Played /\ f.round \in 1..MaxRows /\ f.team \in Teams
        /\ f = [round |-> f.round, team |-> f.team] /\ i \in 1..MaxRows
      BY <1>5 DEF ScoringAssumption
  <2>2. f \in Flag
      BY <2>1 DEF Flag
  <2>3. x \in Submission /\ x.round = i /\ x.flag = f
      BY <1>2, <2>1, <2>2 DEF FlagSubmission, Submission
  <2>4. QED
      BY <1>5, <2>1, <2>3 DEF KeptIn
<1>7. relay'.pc = "append" /\ relay'.entry = x /\ relay'.at = Len(log) + 1 /\ relay.pc = "recv"
    BY <1>3 DEF Ready
<1>8. Counted' = Counted /\ InFlight' = InFlight
    BY <1>3, <1>7 DEF Counted, InFlight
<1>9. TypeOK'
  <2>1. relay' \in [pc : {"append", "send"}, entry : Submission, at : Nat]
      BY <1>3, <1>4, <1>6
  <2>2. QED
      BY <1>3, <2>1 DEF ScoringInv, TypeOK
<1>10. RelayCounts'
  <2>1. \A k \in DOMAIN log : k < Len(log) + 1
      BY <1>4
  <2>2. Len(log) + 1 \in 1..(Len(log) + 1)
      BY <1>4
  <2>3. QED
      BY <1>3, <1>6, <1>7, <1>8, <2>1, <2>2 DEF RelayCounts
<1>11. QED
    BY <1>3, <1>8, <1>9, <1>10, QuietKeeps DEF ScoringInv

LEMMA StartRoundKeeps ==
    ASSUME ScoringAssumption, ScoringInv, StartRound
    PROVE  ScoringInv'
<1>0. PICK n, l, r : n = Len(rounds) /\ l = Len(log) /\ r = n + 1
    OBVIOUS
<1>1. /\ rounds \in Seq(Row) /\ n \in Nat /\ DOMAIN rounds = 1..n /\ roundId \in 1..n
      /\ log \in Seq(Message) /\ l \in Nat /\ DOMAIN log = 1..l
      /\ Counted \subseteq 1..n /\ FinishedRows(rounds) \subseteq Counted /\ raced \subseteq 1..n
    BY <1>0 DEF ScoringInv, TypeOK, Counted, FinishedRows
<1>2. /\ loop = "play" /\ roundId \in FinishedRows(rounds) /\ n < MaxRows
      /\ rounds' = StartNewRound(rounds) /\ roundId' = Len(rounds') /\ loop' = "tell"
      /\ log' = Append(log, UpdateRound(roundId'))
      /\ raced' = IF relay = Ready /\ recording = {} THEN raced ELSE raced \cup {roundId'}
      /\ UNCHANGED <<relay, recording, mail, score, crashes>>
    BY <1>0, <1>1 DEF StartRound, FinishedRows
<1>3. LastFinished(rounds) = roundId
  <2>1. \A j \in FinishedRows(rounds) : j <= roundId
      BY <1>1 DEF ScoringInv, RoundsOrdered
  <2>2. QED
      BY <1>1, <1>2, <2>1, LastFinishedUnique
<1>4. /\ rounds' \in Seq(Row) /\ Len(rounds') = n + 1 /\ DOMAIN rounds' = (1..n) \cup {n + 1}
      /\ \A j \in 1..n : rounds'[j] = rounds[j]
      /\ rounds'[n + 1].number = rounds[roundId].number + 1
      /\ FinishedRows(rounds') = FinishedRows(rounds)
    BY <1>0, <1>1, <1>2, <1>3, StartNewRoundRows
<1>5. PICK x : x = UpdateRound(r)
    OBVIOUS
<1>6. /\ r \in 1..MaxRows /\ r \notin 1..n /\ roundId' = r /\ r # 1 /\ \A i \in 1..n : i < r
      /\ DOMAIN rounds' = (1..n) \cup {r}
  <2>1. n \in Nat /\ MaxRows \in Nat /\ n + 1 \in 1..MaxRows /\ n >= 1
      BY <1>1, <1>2 DEF ScoringAssumption
  <2>2. QED
      BY <1>0, <1>2, <1>4, <2>1
<1>7. x \in Message /\ x.type = "UpdateRound" /\ x.round = r
    BY <1>5, <1>6, MessageTypes DEF UpdateRound
<1>8. /\ log' \in Seq(Message) /\ Len(log') = l + 1 /\ DOMAIN log' = 1..(l + 1)
      /\ \A k \in 1..l : log'[k] = log[k]
      /\ log'[l + 1] = x /\ Inserted(log', log, l + 1, x)
    BY <1>0, <1>1, <1>2, <1>5, <1>6, <1>7, AppendParts, AppendInserts
<1>9. Counted' = Counted \cup {r} /\ r \notin Counted
    BY <1>1, <1>2, <1>4, <1>6 DEF Counted
<1>10. raced \subseteq raced' /\ raced' \subseteq (1..n) \cup {r}
    BY <1>1, <1>2, <1>6
<1>11. Writes(x, l + 1)
  <2>1. OfRounds(x, DOMAIN rounds') /\ KeptIn(x, Counted')
      BY <1>6, <1>7, <1>9 DEF OfRounds, KeptIn
  <2>2. ASSUME NEW k \in DOMAIN log
        PROVE  /\ KeptIn(log[k], Counted') <=> KeptIn(log[k], Counted)
               /\ k < l + 1 /\ log[k].round < r
    <3>1. OfRounds(log[k], 1..n)
        BY <1>1 DEF ScoringInv, LogOrdered
    <3>2. KeptIn(log[k], Counted') <=> KeptIn(log[k], Counted)
        BY <1>6, <1>9, <3>1 DEF OfRounds, KeptIn
    <3>3. k < l + 1 /\ log[k].round < r
        BY <1>1, <1>6, <3>1 DEF OfRounds
    <3>4. QED
        BY <3>2, <3>3
  <2>3. DOMAIN rounds \subseteq DOMAIN rounds'
      BY <1>1, <1>6
  <2>4. QED
      BY <1>0, <1>7, <1>8, <1>10, <2>1, <2>2, <2>3 DEF Writes
<1>12. /\ LogOrdered' /\ HistoryFollows'
       /\ KeptSet(log, Counted)' = KeptSet(log, Counted) \cup {x}
       /\ KeptTo(log, l, Counted)' = KeptTo(log, l, Counted)
       /\ \A E, i : i \notin raced' /\ Precedes(E, i) => Precedes(E, i)'
  <2>1. \A k \in 0..((l + 1) - 1) : KeptTo(log, k, Counted)' = KeptTo(log, k, Counted)
      BY <1>11, WriteKeeps
  <2>2. l \in 0..((l + 1) - 1)
      BY <1>1
  <2>3. QED
      BY <1>2, <1>11, <2>1, <2>2, WriteKeeps
<1>13. TypeOK'
  <2>1. Len(rounds') \in 1..MaxRows /\ roundId' \in DOMAIN rounds' /\ DOMAIN rounds \subseteq DOMAIN rounds'
      BY <1>0, <1>1, <1>4, <1>6
  <2>2. raced' \subseteq DOMAIN rounds'
      BY <1>6, <1>10
  <2>3. rounds' \in Seq(Row) /\ log' \in Seq(Message) /\ loop' \in {"play", "tell"}
      BY <1>2, <1>4, <1>8
  <2>4. score' \in Score(DOMAIN score'.history) /\ DOMAIN score'.history \subseteq DOMAIN rounds'
      BY <1>2, <2>1 DEF ScoringInv, TypeOK
  <2>5. QED
      BY <1>2, <2>1, <2>2, <2>3, <2>4 DEF ScoringInv, TypeOK
<1>14. RoundsOrdered'
  <2>1. 1 \in FinishedRows(rounds')
      BY <1>4 DEF ScoringInv, RoundsOrdered
  <2>2. /\ \A i \in Counted : rounds'[i] = rounds[i] /\ i <= roundId /\ i < r
        /\ roundId \in Counted
        /\ rounds'[r].number = rounds[roundId].number + 1
    <3>1. \A i \in Counted : i <= roundId
        BY DEF ScoringInv, RoundsOrdered
    <3>2. QED
        BY <1>0, <1>1, <1>2, <1>4, <1>6, <3>1
  <2>3. /\ \A i \in Counted : rounds[i].number \in Nat
        /\ \A i, j \in Counted : i < j => rounds[i].number < rounds[j].number
      BY DEF ScoringInv, RoundsOrdered, Numbered
  <2>4. \A i \in Counted : rounds[i].number <= rounds[roundId].number
    <3>1. ASSUME NEW i \in Counted PROVE rounds[i].number <= rounds[roundId].number
      <4>1. i = roundId \/ i < roundId
          BY <1>1, <2>2
      <4>2. QED
          BY <2>2, <2>3, <4>1
    <3>2. QED
        BY <3>1
  <2>5. /\ \A i \in Counted \cup {r} : rounds'[i].number \in Nat
        /\ \A i, j \in Counted \cup {r} : i < j => rounds'[i].number < rounds'[j].number
    <3>1. \A i \in Counted : rounds'[i].number < rounds'[r].number /\ rounds'[i].number \in Nat
        BY <2>2, <2>3, <2>4
    <3>2. rounds'[r].number \in Nat
        BY <2>2, <2>3
    <3>3. \A j \in Counted : ~(r < j) /\ ~(r < r)
        BY <1>1, <1>6, <2>2
    <3>4. QED
        BY <2>2, <2>3, <3>1, <3>2, <3>3
  <2>6. Numbered(Counted)'
      BY <1>9, <2>5 DEF Numbered
  <2>7. \A i \in Counted \cup {r} : i <= r /\ (rounds'[i].number = 0 <=> i = 1)
    <3>1. \A i \in Counted : rounds[i].number = 0 <=> i = 1
        BY DEF ScoringInv, RoundsOrdered, IsRoundZero
    <3>2. rounds'[r].number # 0 /\ r # 1 /\ r <= r
        BY <1>6, <2>2, <2>3
    <3>3. \A i \in Counted : i <= r
        BY <1>1, <1>6, <2>2
    <3>4. QED
        BY <2>2, <3>1, <3>2, <3>3
  <2>8. QED
      BY <1>6, <1>9, <2>1, <2>6, <2>7 DEF RoundsOrdered, IsRoundZero
<1>15. PICK E \in SUBSET Message : Follows(E)
    BY DEF ScoringInv, ScoreFollows
<1>16. MailOrdered'
  <2>1. ASSUME NEW m \in Range(mail), m.type = "UpdateRound" PROVE m.round < r
      BY <1>1, <1>6, <1>15, <2>1, MessageCounts
  <2>2. Started(E) \subseteq Counted
    <3>1. E \subseteq KeptSet(log, Counted)
        BY <1>15 DEF Follows
    <3>2. QED
        BY <3>1 DEF KeptSet, KeptIn, Started
  <2>3. \A i \in Range(score.rounds) : i < r
      BY <1>1, <1>6, <1>15, <2>2 DEF Follows, Reflects
  <2>4. QED
      BY <1>2, <1>6, <2>1, <2>3 DEF ScoringInv, MailOrdered
<1>17. RelayCounts'
  <2>1. relay.pc \in {"append", "send"} => KeptIn(relay.entry, Counted')
      BY <1>9 DEF ScoringInv, RelayCounts, KeptIn
  <2>2. ASSUME relay.pc = "append"
        PROVE  /\ relay.at \in 1..(l + 1 + 1)
               /\ \A k \in 1..(l + 1) :
                     log'[k].type = "UpdateRound" /\ log'[k].round \notin raced' => k < relay.at
    <3>1. relay.at \in 1..(l + 1)
        BY <1>0, <2>2 DEF ScoringInv, RelayCounts
    <3>2. \A k \in 1..l : log[k].type = "UpdateRound" /\ log[k].round \notin raced => k < relay.at
        BY <1>1, <2>2 DEF ScoringInv, RelayCounts
    <3>3. r \in raced'
        BY <1>2, <1>6, <2>2 DEF Ready
    <3>4. \A k \in 1..(l + 1) : k = l + 1 \/ k \in 1..l
        BY <1>1
    <3>5. relay.at \in 1..(l + 1 + 1)
        BY <1>1, <3>1
    <3>6. QED
        BY <1>7, <1>8, <1>10, <3>2, <3>3, <3>4, <3>5
  <2>3. QED
      BY <1>2, <1>8, <2>1, <2>2 DEF RelayCounts
<1>18. ScoreFollows'
  <2>1. \A q : Handled(E, q)' = Handled(E, q)
      BY <1>2 DEF Handled
  <2>2. ASSUME NEW q \in DOMAIN mail, mail[q].type = "UpdateRound", mail[q].round \notin raced'
        PROVE  Precedes(Handled(E, q - 1), mail[q].round)'
    <3>1. Precedes(Handled(E, q - 1), mail[q].round)
        BY <1>10, <1>15, <2>2 DEF Follows
    <3>2. PICK H, i : H = Handled(E, q - 1) /\ i = mail[q].round
        OBVIOUS
    <3>3. Precedes(H, i)'
        BY <1>12, <2>2, <3>1, <3>2
    <3>4. H = Handled(E, q - 1)' /\ i = mail[q].round'
        BY <1>2, <2>1, <3>2
    <3>5. QED
        BY <3>3, <3>4 DEF Precedes
  <2>3. ASSUME r \notin raced' PROVE Precedes(Handled(E, Len(mail)), roundId)'
    <3>1. relay = Ready /\ recording = {}
        BY <1>2, <1>6, <2>3
    <3>2. InFlight = Range(mail)
        BY <1>2, <3>1 DEF InFlight, Ready
    <3>3. Handled(E, Len(mail))' = E \cup Range(mail)
      <4>1. mail \in Seq(Message)
          BY DEF ScoringInv, TypeOK
      <4>2. Range(mail) = {mail[q] : q \in 1..Len(mail)}
          BY <4>1 DEF Range
      <4>3. QED
          BY <1>2, <4>2 DEF Handled
    <3>4. E \cup Range(mail) = KeptTo(log, l, Counted)
      <4>1. KeptTo(log, l, Counted) = KeptSet(log, Counted)
          BY <1>0, <1>1, KeptToFacts
      <4>2. QED
          BY <1>15, <3>2, <4>1 DEF Follows
    <3>5. Handled(E, Len(mail))' = KeptTo(log, l, Counted)'
        BY <1>12, <3>3, <3>4
    <3>6. l + 1 \in DOMAIN log' /\ log'[l + 1] = UpdateRound(roundId') /\ (l + 1) - 1 = l
        BY <1>1, <1>5, <1>6, <1>8
    <3>7. QED
        BY <3>5, <3>6 DEF Precedes
  <2>4. InFlight' = InFlight \cup {x}
    <3>1. InFlight = Range(mail) \cup recording \cup (IF relay.pc = "send" THEN {relay.entry} ELSE {})
        BY <1>2 DEF InFlight
    <3>2. InFlight' = Range(mail) \cup recording \cup (IF relay.pc = "send" THEN {relay.entry} ELSE {})
                      \cup {x}
        BY <1>2, <1>5, <1>6 DEF InFlight
    <3>3. QED
        BY <3>1, <3>2
  <2>5. Reflects(score', E) /\ E \cup InFlight' = KeptSet(log, Counted)'
      BY <1>2, <1>12, <1>15, <2>4 DEF Follows
  <2>6. Follows(E)'
      BY <1>2, <1>6, <2>2, <2>3, <2>5 DEF Follows
  <2>7. QED
      BY <2>6 DEF ScoreFollows
<1>19. QED
    BY <1>12, <1>13, <1>14, <1>16, <1>17, <1>18 DEF ScoringInv

-----------------------------------------------------------------------------
(* Crash *)

LEMMA CrashKeeps ==
    ASSUME ScoringAssumption, ScoringInv, Crash
    PROVE  ScoringInv'
<1>1. PICK fin, z : fin = FinishedRows(rounds) /\ z = Replayed
    OBVIOUS
<1>2. /\ crashes < MaxCrashes /\ crashes' = crashes + 1
      /\ roundId' = LastFinished(rounds) /\ loop' = "play" /\ relay' = Ready /\ recording' = {}
      /\ mail' = <<>> /\ score' = z /\ raced' = {} /\ UNCHANGED <<rounds, log>>
    BY <1>1 DEF Crash, db
<1>3. /\ rounds \in Seq(Row) /\ log \in Seq(Message) /\ DOMAIN rounds \subseteq 1..MaxRows
      /\ DOMAIN log = 1..Len(log) /\ Len(log) \in Nat
      /\ fin \subseteq DOMAIN rounds /\ fin \subseteq Counted /\ 1 \in fin
    BY <1>1 DEF ScoringInv, TypeOK, RoundsOrdered, FinishedRows, Counted
<1>4. roundId' \in fin /\ \A i \in fin : i <= roundId'
    BY <1>1, <1>2, <1>3, LastFinishedIsGreatest
<1>5. Counted' = fin /\ InFlight' = {} /\ relay'.pc = "recv"
  <2>1. Counted' = fin
      BY <1>1, <1>2, <1>4 DEF Counted
  <2>2. Range(mail') = {}
      BY <1>2 DEF Range
  <2>3. QED
      BY <1>2, <2>1, <2>2 DEF InFlight, Ready
<1>6. /\ Numbered(fin) /\ \A i \in fin : IsRoundZero(rounds, i) <=> i = 1
      /\ TellsInOrder(log) /\ \A k \in DOMAIN log : OfRounds(log[k], DOMAIN rounds)
    BY <1>3 DEF ScoringInv, RoundsOrdered, Numbered, LogOrdered
<1>7. Scored(z) /\ Reflects(z, KeptSet(log, fin)) /\ IsHistory(z.history, log, Len(log), fin)
    BY <1>1, <1>3, <1>6, ReplayedIsJournal
<1>8. TypeOK'
  <2>1. ASSUME NEW i \in DOMAIN z.history PROVE i \in DOMAIN rounds
    <3>1. PICK j \in 1..Len(log) : log[j] = UpdateRound(i)
        BY <1>7 DEF IsHistory
    <3>2. QED
        BY <1>3, <1>6, <3>1 DEF OfRounds, UpdateRound
  <2>2. crashes' \in 0..MaxCrashes
      BY <1>2 DEF ScoringInv, TypeOK, ScoringAssumption
  <2>3. mail' \in Seq(Message) /\ Len(mail') <= MailCap
      BY <1>2 DEF ScoringAssumption
  <2>4. z \in Score(DOMAIN z.history)
      BY <1>7 DEF Scored
  <2>5. QED
      BY <1>2, <1>3, <1>4, <2>1, <2>2, <2>3, <2>4 DEF ScoringInv, TypeOK
<1>9. RoundsOrdered'
  <2>1. Numbered(Counted)'
      BY <1>2, <1>5, <1>6 DEF Numbered
  <2>2. QED
      BY <1>1, <1>2, <1>3, <1>4, <1>5, <1>6, <2>1 DEF RoundsOrdered, IsRoundZero
<1>10. LogOrdered' /\ MailOrdered' /\ RelayCounts'
  <2>1. LogOrdered'
      BY <1>2, <1>6 DEF LogOrdered
  <2>2. MailOrdered'
      BY <1>2 DEF MailOrdered, TellsInOrder, Range
  <2>3. RelayCounts'
      BY <1>5 DEF RelayCounts
  <2>4. QED
      BY <2>1, <2>2, <2>3
<1>11. ScoreFollows'
  <2>1. PICK E : E = KeptSet(log, fin)
      OBVIOUS
  <2>2. E \in SUBSET Message
      BY <1>3, <2>1 DEF KeptSet, Range
  <2>3. KeptSet(log, Counted)' = E
      BY <1>2, <1>5, <2>1 DEF KeptSet
  <2>4. Reflects(score', E)
      BY <1>2, <1>7, <2>1
  <2>5. Follows(E)'
      BY <1>2, <1>5, <2>3, <2>4 DEF Follows
  <2>6. QED
      BY <2>2, <2>5 DEF ScoreFollows
<1>12. HistoryFollows'
  <2>1. ASSUME NEW i \in DOMAIN z.history
        PROVE  \E k \in DOMAIN log : log[k] = UpdateRound(i)
                                     /\ z.history[i] = Points(KeptTo(log, k - 1, fin))
      BY <1>3, <1>7 DEF IsHistory
  <2>2. QED
      BY <1>2, <1>5, <2>1 DEF HistoryFollows
<1>13. QED
    BY <1>8, <1>9, <1>10, <1>11, <1>12 DEF ScoringInv

-----------------------------------------------------------------------------
(* Init and Next *)

LEMMA InitInv ==
    ASSUME ScoringAssumption, Init
    PROVE  ScoringInv
<1>1. PICK m : m = UpdateRound(1)
    OBVIOUS
<1>2. /\ rounds = <<[number |-> 0, finished |-> TRUE]>> /\ log = <<m>>
      /\ roundId = 1 /\ loop = "play" /\ relay = Ready /\ recording = {}
      /\ mail = <<>> /\ score = NewScore /\ raced = {} /\ crashes = 0
    BY <1>1 DEF Init, InitialRounds
<1>3. 1 \in 1..MaxRows /\ m \in Message /\ m.type = "UpdateRound" /\ m.round = 1
  <2>1. 1 \in 1..MaxRows
      BY DEF ScoringAssumption
  <2>2. QED
      BY <1>1, <2>1, MessageTypes DEF UpdateRound
<1>4. /\ rounds \in Seq(Row) /\ Len(rounds) = 1 /\ DOMAIN rounds = {1}
      /\ rounds[1].number = 0 /\ rounds[1].finished
    BY <1>2 DEF Row
<1>5. log \in Seq(Message) /\ Len(log) = 1 /\ DOMAIN log = {1} /\ log[1] = m
    BY <1>2, <1>3
<1>6. FinishedRows(rounds) = {1} /\ Counted = {1}
    BY <1>2, <1>4 DEF FinishedRows, Counted
<1>7. InFlight = {} /\ Range(mail) = {} /\ DOMAIN mail = {} /\ relay.pc = "recv"
    BY <1>2 DEF InFlight, Range, Ready
<1>8. Scored(score) /\ Reflects(score, {}) /\ DOMAIN score.history = {}
    BY <1>2, NewScoreIsEmpty
<1>9. TypeOK
  <2>1. score \in Score(DOMAIN score.history)
      BY <1>8 DEF Scored
  <2>2. Len(rounds) \in 1..MaxRows /\ roundId \in DOMAIN rounds
      BY <1>2, <1>3, <1>4
  <2>3. mail \in Seq(Message) /\ Len(mail) <= MailCap /\ crashes \in 0..MaxCrashes
      BY <1>2 DEF ScoringAssumption
  <2>4. QED
      BY <1>2, <1>4, <1>5, <1>8, <2>1, <2>2, <2>3 DEF TypeOK
<1>10. RoundsOrdered
    BY <1>2, <1>4, <1>6 DEF RoundsOrdered, Numbered, IsRoundZero
<1>11. LogOrdered /\ MailOrdered /\ RelayCounts /\ HistoryFollows
  <2>1. LogOrdered
      BY <1>3, <1>4, <1>5 DEF LogOrdered, TellsInOrder, OfRounds
  <2>2. QED
      BY <1>2, <1>7, <1>8, <2>1 DEF MailOrdered, TellsInOrder, RelayCounts, HistoryFollows
<1>12. ScoreFollows
  <2>1. KeptSet(log, Counted) = {m}
      BY <1>3, <1>5, <1>6 DEF KeptSet, KeptIn, Range
  <2>2. \A f : Holders({m}, f) = Holders({}, f)
      BY <1>3 DEF Holders
  <2>3. Started({m}) = Started({})
      BY <1>3 DEF Started
  <2>4. \A t, i : Observed({m}, t, i) = Observed({}, t, i)
      BY <1>3 DEF Observed
  <2>5. Reflects(score, {m})
      BY <1>8, <2>2, <2>3, <2>4 DEF Reflects
  <2>6. Follows({m})
      BY <1>2, <1>7, <2>1, <2>5 DEF Follows
  <2>7. QED
      BY <1>3, <2>6 DEF ScoreFollows
<1>13. QED
    BY <1>9, <1>10, <1>11, <1>12 DEF ScoringInv

LEMMA NextKeeps ==
    ASSUME ScoringAssumption, ScoringInv, [Next]_vars
    PROVE  ScoringInv'
<1>1. CASE UNCHANGED vars
  <2>1. UNCHANGED <<log, roundId, loop, recording, mail, score, raced, rounds, relay, crashes>>
      BY <1>1 DEF vars, db, senders
  <2>2. Counted' = Counted /\ InFlight' = InFlight
      BY <2>1 DEF Counted, InFlight
  <2>3. TypeOK' /\ RelayCounts'
      BY <2>1, <2>2 DEF ScoringInv, TypeOK, RelayCounts
  <2>4. QED
      BY <2>1, <2>2, <2>3, QuietKeeps DEF ScoringInv
<1>2. CASE Next
    BY <1>2, FinishRoundKeeps, StartRoundKeeps, SubmitKeeps, JournalSubmissionKeeps, RecordKeeps,
       TellKeeps, HandleKeeps, CrashKeeps DEF Next
<1>3. QED
    BY <1>1, <1>2

LEMMA AlwaysScoringInv == Spec => []ScoringInv
<1>1. Init => ScoringInv
    BY ScoringAssumption, InitInv
<1>2. ScoringInv /\ [Next]_vars => ScoringInv'
    BY ScoringAssumption, NextKeeps
<1>3. QED
    BY <1>1, <1>2, PTL DEF Spec

-----------------------------------------------------------------------------
(* The properties *)

\* The scorebot, the tables and the messages between them always have their types:
\* the points are integers for every order of events and after every restart, and
\* the channel never holds more than its capacity (scoring.rs FaustCTF, game.rs).
THEOREM ScoringTypes == Spec => []TypeOK
<1>1. ScoringInv => TypeOK
    BY DEF ScoringInv
<1>2. QED
    BY <1>1, AlwaysScoringInv, PTL

\* The flags a team has taken and the teams that share a flag always agree, so no
\* share is divided by zero (scoring.rs flag_submission, calculate_attack_point).
THEOREM SharesAreWeighed == Spec => []CapturesAreWeighed
<1>1. ScoringInv => CapturesAreWeighed
    BY DEF ScoringInv, ScoreFollows, Follows, Reflects, CapturesAreWeighed
<1>2. QED
    BY <1>1, AlwaysScoringInv, PTL

\* With nothing under way the points are those of the journal, for any number of
\* teams, rounds, submissions, states and restarts, any order in which the tasks
\* write and send, and any point at which a crash drops what was sent (scoring.rs
\* FaustCTF, game.rs replay_scorebot).
THEOREM PointsAreJournaled == Spec => []PointsFollowJournal
<1>1. ASSUME ScoringInv, loop = "play", relay = Ready, recording = {}, mail = <<>>
      PROVE  View(score) = JournalPoints(log, Counted)
  <2>1. PICK E \in SUBSET Message : Follows(E)
      BY <1>1 DEF ScoringInv, ScoreFollows
  <2>2. InFlight = {}
      BY <1>1 DEF InFlight, Range, Ready
  <2>3. Reflects(score, E) /\ E = KeptSet(log, Counted)
      BY <2>1, <2>2 DEF Follows
  <2>4. Scored(score)
      BY <1>1 DEF ScoringInv, TypeOK, Scored
  <2>5. Started(E) \subseteq Counted
      BY <2>3 DEF Started, KeptSet, KeptIn
  <2>6. Numbered(Started(E))
      BY <1>1, <2>5 DEF ScoringInv, RoundsOrdered, Numbered
  <2>7. View(score) = Points(E)
      BY ScoringAssumption, <2>3, <2>4, <2>6, ViewIsPoints
  <2>8. QED
      BY <2>3, <2>7, JournalIsPoints
<1>2. ScoringInv => PointsFollowJournal
    BY <1>1 DEF PointsFollowJournal
<1>3. QED
    BY <1>2, AlwaysScoringInv, PTL

\* The history shows for every round the points of what was journaled before its
\* start, live and after a restart, unless something raced with the start of the
\* round (scoring.rs UpdateRound, game.rs replay_scorebot).
THEOREM HistoryIsJournaled == Spec => []HistoryFollowsJournal
<1>1. ASSUME ScoringInv, NEW i \in DOMAIN score.history \ raced
      PROVE  score.history[i] = JournalPoints(Before(i), Counted)
  <2>1. PICK k \in DOMAIN log : /\ log[k] = UpdateRound(i)
                                /\ score.history[i] = Points(KeptTo(log, k - 1, Counted))
      BY <1>1 DEF ScoringInv, HistoryFollows
  <2>2. log \in Seq(Message) /\ DOMAIN log = 1..Len(log) /\ Len(log) \in Nat
      BY <1>1 DEF ScoringInv, TypeOK
  <2>3. ASSUME NEW j \in DOMAIN log, log[j] = UpdateRound(i) PROVE j = k
    <3>1. /\ log[j].type = "UpdateRound" /\ log[k].type = "UpdateRound"
          /\ log[j].round = i /\ log[k].round = i
        BY <2>1, <2>3 DEF UpdateRound
    <3>2. i \in 1..MaxRows
        BY <2>1, <2>2, <3>1, MessageTypes
    <3>3. ~(j < k) /\ ~(k < j)
        BY <1>1, <3>1, <3>2 DEF ScoringInv, LogOrdered, TellsInOrder
    <3>4. QED
        BY <2>2, <3>3
  <2>4. (CHOOSE j \in DOMAIN log : log[j] = UpdateRound(i)) = k
      BY <2>1, <2>3
  <2>5. Before(i) = SubSeq(log, 1, k - 1)
      BY <2>4 DEF Before
  <2>6. k - 1 \in 0..Len(log)
      BY <2>2
  <2>7. KeptSet(SubSeq(log, 1, k - 1), Counted) = KeptTo(log, k - 1, Counted)
      BY <2>2, <2>6, KeptToFacts
  <2>8. QED
      BY <2>1, <2>5, <2>7, JournalIsPoints
<1>2. ScoringInv => HistoryFollowsJournal
    BY <1>1 DEF HistoryFollowsJournal
<1>3. QED
    BY <1>2, AlwaysScoringInv, PTL
=============================================================================
