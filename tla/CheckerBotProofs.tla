--------------------------- MODULE CheckerBotProofs ---------------------------
(***************************************************************************)
(* Proofs about CheckerBot: where the requests are, for any services,      *)
(* tasks and requests, and any capacity of the channels.                   *)
(***************************************************************************)
EXTENDS CheckerBot, OperatorProofs

-----------------------------------------------------------------------------
(* Channels without repetitions *)

Distinct(a) == \A i, j \in DOMAIN a : a[i] = a[j] => i = j

LEMMA SendDistinct ==
    ASSUME NEW S, NEW a \in Seq(S), NEW x \in S, Distinct(a), x \notin Range(a)
    PROVE  /\ Append(a, x) \in Seq(S) /\ Len(Append(a, x)) = Len(a) + 1
           /\ Range(Append(a, x)) = Range(a) \cup {x} /\ Distinct(Append(a, x))
<1> DEFINE n == Len(a)
           b == Append(a, x)
<1>1. /\ b \in Seq(S) /\ n \in Nat /\ DOMAIN a = 1..n /\ Len(b) = n + 1 /\ DOMAIN b = 1..(n + 1)
      /\ \A k \in 1..n : b[k] = a[k]
      /\ b[n + 1] = x /\ Range(b) = Range(a) \cup {x}
    BY AppendParts
<1> HIDE DEF n, b
<1>2. \A k \in 1..n : a[k] # x
    BY <1>1 DEF Range
<1>3. \A k \in 1..(n + 1) : k \in 1..n \/ k = n + 1
    BY <1>1
<1>4. Distinct(b)
    BY <1>1, <1>2, <1>3 DEF Distinct
<1>5. QED
    BY <1>1, <1>4 DEF n, b

LEMMA ReceiveDistinct ==
    ASSUME NEW S, NEW a \in Seq(S), a # <<>>, Distinct(a)
    PROVE  /\ Head(a) \in S /\ Head(a) \in Range(a)
           /\ Tail(a) \in Seq(S) /\ Len(Tail(a)) = Len(a) - 1 /\ Len(a) \in Nat
           /\ Range(Tail(a)) = Range(a) \ {Head(a)} /\ Distinct(Tail(a))
<1> DEFINE n == Len(a)
           b == Tail(a)
           x == Head(a)
<1>1. /\ n \in Nat \ {0} /\ DOMAIN a = 1..n /\ x = a[1] /\ a[1] \in S
      /\ b \in Seq(S) /\ DOMAIN b = 1..(n - 1) /\ Len(b) = n - 1
      /\ \A k \in 1..(n - 1) : b[k] = a[k + 1]
      /\ Range(a) = {a[1]} \cup Range(b)
    BY TailParts
<1> HIDE DEF n, b, x
<1>2. \A k \in 1..(n - 1) : k + 1 \in 1..n /\ k + 1 # 1 /\ 1 \in 1..n
    BY <1>1
<1>3. \A k \in 1..(n - 1) : b[k] # a[1]
  <2>1. ASSUME NEW k \in 1..(n - 1), b[k] = a[1] PROVE FALSE
    <3>1. a[k + 1] = a[1] /\ k + 1 \in DOMAIN a /\ 1 \in DOMAIN a /\ k + 1 # 1
        BY <1>1, <1>2, <2>1
    <3>2. QED
        BY <3>1 DEF Distinct
  <2>2. QED
      BY <2>1
<1>4. Range(b) = Range(a) \ {x}
  <2>1. a[1] \notin Range(b)
      BY <1>1, <1>3 DEF Range
  <2>2. QED
      BY <1>1, <2>1
<1>5. Distinct(b)
  <2>1. ASSUME NEW i \in 1..(n - 1), NEW j \in 1..(n - 1), b[i] = b[j] PROVE i = j
    <3>1. i + 1 = j + 1
        BY <1>1, <1>2, <2>1 DEF Distinct
    <3>2. QED
        BY <1>1, <3>1
  <2>2. QED
      BY <1>1, <2>1 DEF Distinct
<1>6. QED
    BY <1>1, <1>4, <1>5 DEF n, b, x

-----------------------------------------------------------------------------
(* The invariant *)

\* No channel holds a request twice, and no two tasks have the same to send.
NoRepeats ==
    /\ Distinct(comm) /\ \A s \in Services : Distinct(queue[s])
    /\ \A t \in Tasks : Distinct(todo[t])
    /\ \A t, u \in Tasks : t # u => Range(todo[t]) \cap Range(todo[u]) = {}

CheckerInv == TypeOK /\ NoRepeats /\ OnePlace

Scripted == UNION {Range(Script[t]) : t \in Tasks}

\* A step that takes a request from one place to another keeps the places.
LEMMA MoveKeeps ==
    ASSUME OnePlace, NEW x \in Requests, NEW p \in Places, NEW q \in Places, At(x, p),
           \A r \in Requests, z \in Places : At(r, z)' <=> IF r = x THEN z = q ELSE At(r, z),
           \A s \in Services, r \in Requests :
               r \in Range(queue'[s]) => r \in Range(queue[s]) \/ s = ServiceOf[r]
    PROVE  OnePlace'
<1>1. Scripted \subseteq Requests
  <2>1. \A t \in Tasks : Range(Script[t]) \subseteq Requests
      BY CheckerAssumption DEF Range
  <2>2. QED
      BY <2>1 DEF Scripted
<1>2. \A r \in Scripted : \E z \in Places : At(r, z)'
    BY <1>1 DEF OnePlace, Scripted
<1>3. \A r \in Requests, y, z \in Places : At(r, y)' /\ At(r, z)' => y = z
    BY DEF OnePlace
<1>4. \A s \in Services, r \in Requests : r \in Range(queue'[s]) => ServiceOf[r] = s
    BY DEF OnePlace
<1>5. QED
    BY <1>2, <1>3, <1>4 DEF OnePlace, Scripted

LEMMA Parts ==
    ASSUME CheckerInv
    PROVE  /\ todo \in [Tasks -> Seq(Requests)] /\ comm \in Seq(Requests) /\ Len(comm) <= Cap
           /\ held \in SUBSET Requests /\ \A r, q \in held : r = q
           /\ handler \in [Services -> {"up", "dead"}]
           /\ queue \in [Services -> Seq(Requests)] /\ \A s \in Services : Len(queue[s]) <= Cap
           /\ calls \in SUBSET Requests
           /\ reply \in [Requests -> {"none", "state", "failed", "dropped"}]
           /\ \A r \in Requests : ServiceOf[r] \in Services
           /\ Cap \in Nat /\ 0 <= Cap
BY CheckerAssumption DEF CheckerInv, TypeOK

LEMMA AskKeeps ==
    ASSUME CheckerInv, NEW t \in Tasks, Ask(t)
    PROVE  CheckerInv'
<1> DEFINE x == Head(todo[t])
<1>1. /\ todo[t] # <<>> /\ Len(comm) < Cap /\ comm' = Append(comm, x)
      /\ todo' = [todo EXCEPT ![t] = Tail(@)]
      /\ UNCHANGED <<held, handler, queue, calls, reply>>
    BY DEF Ask
<1>2. /\ x \in Requests /\ x \in Range(todo[t]) /\ Tail(todo[t]) \in Seq(Requests)
      /\ Range(Tail(todo[t])) = Range(todo[t]) \ {x} /\ Distinct(Tail(todo[t]))
    BY <1>1, Parts, ReceiveDistinct DEF CheckerInv, NoRepeats
<1> HIDE DEF x
<1>3. \A u \in Tasks : todo'[u] = IF u = t THEN Tail(todo[t]) ELSE todo[u]
    BY <1>1, Parts
<1>4. \A u \in Tasks : /\ Range(todo'[u]) = Range(todo[u]) \ {x} /\ Distinct(todo'[u])
    BY <1>2, <1>3 DEF CheckerInv, NoRepeats
<1>5. At(x, "todo") /\ ~At(x, "comm")
    BY <1>2 DEF At, CheckerInv, OnePlace, Places
<1>6. /\ comm' \in Seq(Requests) /\ Len(comm') = Len(comm) + 1
      /\ Range(comm') = Range(comm) \cup {x} /\ Distinct(comm')
  <2>1. x \notin Range(comm)
      BY <1>5 DEF At
  <2>2. Distinct(comm)
      BY DEF CheckerInv, NoRepeats
  <2>3. QED
      BY <1>1, <1>2, <2>1, <2>2, Parts, SendDistinct
<1>7. TypeOK'
  <2>1. todo' \in [Tasks -> Seq(Requests)]
      BY <1>1, <1>2, Parts
  <2>2. Len(comm') <= Cap
    <3>1. Len(comm) \in Nat
        BY Parts
    <3>2. QED
        BY <1>1, <1>6, <3>1, Parts
  <2>3. QED
      BY <1>1, <1>6, <2>1, <2>2, Parts DEF TypeOK
<1>8. NoRepeats'
    BY <1>1, <1>4, <1>6 DEF CheckerInv, NoRepeats
<1>9. ASSUME NEW r \in Requests, NEW z \in Places
      PROVE  At(r, z)' <=> IF r = x THEN z = "comm" ELSE At(r, z)
  <2>1. CASE r = x
    <3>1. \A y \in Places : At(x, y) => y = "todo"
        BY <1>2, <1>5 DEF CheckerInv, OnePlace, Places
    <3>2. QED
        BY <1>1, <1>4, <1>6, <2>1, <3>1 DEF At, Places
  <2>2. CASE r # x
      BY <1>1, <1>4, <1>6, <2>2 DEF At
  <2>3. QED
      BY <2>1, <2>2
<1>10. OnePlace'
    BY <1>1, <1>2, <1>5, <1>9, MoveKeeps DEF CheckerInv, Places
<1>11. QED
    BY <1>7, <1>8, <1>10 DEF CheckerInv

LEMMA ReceiveKeeps ==
    ASSUME CheckerInv, Receive
    PROVE  CheckerInv'
<1> DEFINE x == Head(comm)
<1>1. /\ held = {} /\ comm # <<>> /\ held' = {x} /\ comm' = Tail(comm)
      /\ UNCHANGED <<todo, handler, queue, calls, reply>>
    BY DEF Receive, Nobody
<1>2. Distinct(comm)
    BY DEF CheckerInv, NoRepeats
<1>3. /\ x \in Requests /\ x \in Range(comm) /\ comm' \in Seq(Requests)
      /\ Len(comm') = Len(comm) - 1 /\ Len(comm) \in Nat
      /\ Range(comm') = Range(comm) \ {x} /\ Distinct(comm')
    BY <1>1, <1>2, Parts, ReceiveDistinct
<1> HIDE DEF x
<1>4. TypeOK'
  <2>1. Len(comm') <= Cap
      BY <1>3, Parts
  <2>2. held' \in SUBSET Requests /\ \A r, q \in held' : r = q
      BY <1>1, <1>3
  <2>3. QED
      BY <1>1, <1>3, <2>1, <2>2, Parts DEF TypeOK
<1>5. NoRepeats'
    BY <1>1, <1>3 DEF CheckerInv, NoRepeats
<1>6. At(x, "comm")
    BY <1>3 DEF At
<1>7. ASSUME NEW r \in Requests, NEW z \in Places
      PROVE  At(r, z)' <=> IF r = x THEN z = "held" ELSE At(r, z)
  <2>1. CASE r = x
    <3>1. \A y \in Places : At(x, y) => y = "comm"
        BY <1>3, <1>6 DEF CheckerInv, OnePlace, Places
    <3>2. QED
        BY <1>1, <1>3, <2>1, <3>1 DEF At, Places
  <2>2. CASE r # x
      BY <1>1, <1>3, <2>2 DEF At
  <2>3. QED
      BY <2>1, <2>2
<1>8. OnePlace'
    BY <1>1, <1>3, <1>6, <1>7, MoveKeeps DEF CheckerInv, Places
<1>9. QED
    BY <1>4, <1>5, <1>8 DEF CheckerInv

LEMMA ForwardKeeps ==
    ASSUME CheckerInv, Forward
    PROVE  CheckerInv'
<1>1. PICK x \in held : /\ Len(queue[ServiceOf[x]]) < Cap
                        /\ queue' = [queue EXCEPT ![ServiceOf[x]] = Append(@, x)]
                        /\ held' = {} /\ UNCHANGED <<todo, comm, handler, calls, reply>>
    BY DEF Forward, Nobody
<1> DEFINE s == ServiceOf[x]
<1>2. x \in Requests /\ s \in Services /\ held = {x}
    BY Parts
<1>3. /\ queue[s] \in Seq(Requests) /\ Len(queue[s]) \in Nat /\ Distinct(queue[s])
  <2>1. Distinct(queue[s])
      BY <1>2 DEF CheckerInv, NoRepeats
  <2>2. queue[s] \in Seq(Requests)
      BY <1>2, Parts
  <2>3. QED
      BY <2>1, <2>2
<1>4. At(x, "held") /\ ~At(x, "queue")
    BY <1>2 DEF At, CheckerInv, OnePlace, Places
<1>5. x \notin Range(queue[s])
    BY <1>4 DEF At
<1>6. /\ Append(queue[s], x) \in Seq(Requests) /\ Len(Append(queue[s], x)) = Len(queue[s]) + 1
      /\ Range(Append(queue[s], x)) = Range(queue[s]) \cup {x} /\ Distinct(Append(queue[s], x))
    BY <1>2, <1>3, <1>5, SendDistinct
<1>7. \A u \in Services : queue'[u] = IF u = s THEN Append(queue[s], x) ELSE queue[u]
    BY <1>1, Parts
<1> HIDE DEF s
<1>8. \A u \in Services, r \in Requests :
          r \in Range(queue'[u]) <=> r \in Range(queue[u]) \/ (u = s /\ r = x)
    BY <1>6, <1>7
<1>9. TypeOK'
  <2>1. queue' \in [Services -> Seq(Requests)]
      BY <1>1, <1>6, Parts DEF s
  <2>2. \A u \in Services : Len(queue'[u]) <= Cap
    <3>1. Len(Append(queue[s], x)) <= Cap
        BY <1>1, <1>3, <1>6, Parts DEF s
    <3>2. QED
        BY <1>7, <3>1, Parts
  <2>3. QED
      BY <1>1, <2>1, <2>2, Parts DEF TypeOK
<1>10. NoRepeats'
  <2>1. \A u \in Services : Distinct(queue'[u])
      BY <1>6, <1>7 DEF CheckerInv, NoRepeats
  <2>2. QED
      BY <1>1, <2>1 DEF CheckerInv, NoRepeats
<1>11. ASSUME NEW r \in Requests, NEW z \in Places
       PROVE  At(r, z)' <=> IF r = x THEN z = "queue" ELSE At(r, z)
  <2>1. r \in Range(queue'[ServiceOf[r]]) <=> r \in Range(queue[ServiceOf[r]]) \/ r = x
      BY <1>8, Parts DEF s
  <2>2. CASE r = x
    <3>1. \A y \in Places : At(x, y) => y = "held"
        BY <1>2, <1>4 DEF CheckerInv, OnePlace, Places
    <3>2. QED
        BY <1>1, <2>1, <2>2, <3>1 DEF At, Places
  <2>3. CASE r # x
      BY <1>1, <1>2, <2>1, <2>3 DEF At
  <2>4. QED
      BY <2>2, <2>3
<1>12. \A u \in Services, r \in Requests :
          r \in Range(queue'[u]) => r \in Range(queue[u]) \/ u = ServiceOf[r]
    BY <1>8 DEF s
<1>13. OnePlace'
    BY <1>2, <1>4, <1>11, <1>12, MoveKeeps DEF CheckerInv, Places
<1>14. QED
    BY <1>9, <1>10, <1>13 DEF CheckerInv

LEMMA ForwardFailsKeeps ==
    ASSUME CheckerInv, ForwardFails
    PROVE  CheckerInv'
<1>1. PICK x \in held : /\ reply' = [reply EXCEPT ![x] = "dropped"]
                        /\ held' = {} /\ UNCHANGED <<todo, comm, handler, queue, calls>>
    BY DEF ForwardFails, Nobody
<1>2. x \in Requests /\ held = {x} /\ At(x, "held")
    BY Parts DEF At
<1>3. \A r \in Requests : reply'[r] = IF r = x THEN "dropped" ELSE reply[r]
    BY <1>1, Parts
<1>4. TypeOK' /\ NoRepeats'
    BY <1>1, Parts DEF CheckerInv, NoRepeats, TypeOK
<1>5. ASSUME NEW r \in Requests, NEW z \in Places
      PROVE  At(r, z)' <=> IF r = x THEN z = "reply" ELSE At(r, z)
  <2>1. CASE r = x
    <3>1. \A y \in Places : At(x, y) => y = "held"
        BY <1>2 DEF CheckerInv, OnePlace, Places
    <3>2. QED
        BY <1>1, <1>3, <2>1, <3>1 DEF At, Places
  <2>2. CASE r # x
      BY <1>1, <1>2, <1>3, <2>2 DEF At
  <2>3. QED
      BY <2>1, <2>2
<1>6. OnePlace'
    BY <1>1, <1>2, <1>5, MoveKeeps DEF CheckerInv, Places
<1>7. QED
    BY <1>4, <1>6 DEF CheckerInv

LEMMA SpawnKeeps ==
    ASSUME CheckerInv, NEW s \in Services, Spawn(s)
    PROVE  CheckerInv'
<1> DEFINE x == Head(queue[s])
<1>1. /\ queue[s] # <<>> /\ calls' = calls \cup {x}
      /\ queue' = [queue EXCEPT ![s] = Tail(@)]
      /\ UNCHANGED <<todo, comm, held, handler, reply>>
    BY DEF Spawn
<1>2. queue[s] \in Seq(Requests) /\ Distinct(queue[s])
    BY Parts DEF CheckerInv, NoRepeats
<1>3. /\ x \in Requests /\ x \in Range(queue[s]) /\ Tail(queue[s]) \in Seq(Requests)
      /\ Len(Tail(queue[s])) = Len(queue[s]) - 1 /\ Len(queue[s]) \in Nat
      /\ Range(Tail(queue[s])) = Range(queue[s]) \ {x} /\ Distinct(Tail(queue[s]))
    BY <1>1, <1>2, ReceiveDistinct
<1> HIDE DEF x
<1>4. \A u \in Services : queue'[u] = IF u = s THEN Tail(queue[s]) ELSE queue[u]
    BY <1>1, Parts
<1>5. ServiceOf[x] = s /\ At(x, "queue")
    BY <1>3 DEF CheckerInv, OnePlace, At
<1>6. \A u \in Services, r \in Requests : r \in Range(queue'[u]) <=> r \in Range(queue[u]) /\ r # x
  <2>1. \A u \in Services : x \in Range(queue[u]) => u = s
      BY <1>3, <1>5 DEF CheckerInv, OnePlace
  <2>2. QED
      BY <1>3, <1>4, <2>1
<1>7. TypeOK'
  <2>1. queue' \in [Services -> Seq(Requests)]
      BY <1>1, <1>3, Parts
  <2>2. \A u \in Services : Len(queue'[u]) <= Cap
    <3>1. Len(Tail(queue[s])) <= Cap
        BY <1>3, Parts
    <3>2. QED
        BY <1>4, <3>1, Parts
  <2>3. calls' \in SUBSET Requests
      BY <1>1, <1>3, Parts
  <2>4. QED
      BY <1>1, <2>1, <2>2, <2>3, Parts DEF TypeOK
<1>8. NoRepeats'
  <2>1. \A u \in Services : Distinct(queue'[u])
      BY <1>3, <1>4 DEF CheckerInv, NoRepeats
  <2>2. QED
      BY <1>1, <2>1 DEF CheckerInv, NoRepeats
<1>9. ASSUME NEW r \in Requests, NEW z \in Places
      PROVE  At(r, z)' <=> IF r = x THEN z = "calls" ELSE At(r, z)
  <2>1. r \in Range(queue'[ServiceOf[r]]) <=> r \in Range(queue[ServiceOf[r]]) /\ r # x
      BY <1>6, Parts
  <2>2. CASE r = x
    <3>1. \A y \in Places : At(x, y) => y = "queue"
        BY <1>3, <1>5 DEF CheckerInv, OnePlace, Places
    <3>2. QED
        BY <1>1, <2>1, <2>2, <3>1 DEF At, Places
  <2>3. CASE r # x
      BY <1>1, <2>1, <2>3 DEF At
  <2>4. QED
      BY <2>2, <2>3
<1>10. OnePlace'
    BY <1>3, <1>5, <1>6, <1>9, MoveKeeps DEF CheckerInv, Places
<1>11. QED
    BY <1>7, <1>8, <1>10 DEF CheckerInv

LEMMA AnswerKeeps ==
    ASSUME CheckerInv, NEW x \in Requests, Answer(x)
    PROVE  CheckerInv'
<1>1. PICK outcome \in {"state", "failed"} :
          /\ x \in calls /\ calls' = calls \ {x}
          /\ reply' = [reply EXCEPT ![x] = outcome]
          /\ UNCHANGED <<todo, comm, held, handler, queue>>
    BY DEF Answer
<1>2. At(x, "calls")
    BY <1>1 DEF At
<1>3. \A r \in Requests : reply'[r] = IF r = x THEN outcome ELSE reply[r]
    BY <1>1, Parts
<1>4. TypeOK' /\ NoRepeats'
    BY <1>1, Parts DEF CheckerInv, NoRepeats, TypeOK
<1>5. ASSUME NEW r \in Requests, NEW z \in Places
      PROVE  At(r, z)' <=> IF r = x THEN z = "reply" ELSE At(r, z)
  <2>1. CASE r = x
    <3>1. \A y \in Places : At(x, y) => y = "calls"
        BY <1>2 DEF CheckerInv, OnePlace, Places
    <3>2. QED
        BY <1>1, <1>3, <2>1, <3>1 DEF At, Places
  <2>2. CASE r # x
      BY <1>1, <1>3, <2>2 DEF At
  <2>3. QED
      BY <2>1, <2>2
<1>6. OnePlace'
    BY <1>1, <1>2, <1>5, MoveKeeps DEF CheckerInv, Places
<1>7. QED
    BY <1>4, <1>6 DEF CheckerInv

-----------------------------------------------------------------------------
(* The theorems *)

LEMMA CheckerInvInit ==
    ASSUME Init
    PROVE  CheckerInv
<1>1. /\ todo = Script /\ comm = <<>> /\ held = {} /\ calls = {}
      /\ handler \in [Services -> {"up", "dead"}]
      /\ queue = [s \in Services |-> <<>>] /\ reply = [r \in Requests |-> "none"]
    BY DEF Init, Nobody
<1>2. Range(comm) = {} /\ \A s \in Services : Range(queue[s]) = {}
    BY <1>1 DEF Range
<1>3. TypeOK
  <2>1. Len(comm) <= Cap /\ \A s \in Services : Len(queue[s]) <= Cap
      BY <1>1, CheckerAssumption
  <2>2. QED
      BY <1>1, <2>1, CheckerAssumption DEF TypeOK
<1>4. NoRepeats
  <2>1. Distinct(comm) /\ \A s \in Services : Distinct(queue[s])
      BY <1>1 DEF Distinct
  <2>2. \A t \in Tasks : Distinct(todo[t])
      BY <1>1, CheckerAssumption DEF Distinct
  <2>3. \A t, u \in Tasks : t # u => Range(todo[t]) \cap Range(todo[u]) = {}
      BY <1>1, CheckerAssumption DEF Range
  <2>4. QED
      BY <2>1, <2>2, <2>3 DEF NoRepeats
<1>5. OnePlace
  <2>1. ASSUME NEW r \in Requests, NEW z \in Places, At(r, z) PROVE z = "todo"
      BY <1>1, <1>2, <2>1, CheckerAssumption DEF At, Places
  <2>2. \A r \in Scripted : \E z \in Places : At(r, z)
    <3>1. \A r \in Scripted : At(r, "todo")
        BY <1>1 DEF At, Scripted
    <3>2. QED
        BY <3>1 DEF Places
  <2>3. QED
      BY <1>2, <2>1, <2>2 DEF OnePlace, Scripted
<1>6. QED
    BY <1>3, <1>4, <1>5 DEF CheckerInv

LEMMA CheckerInvStep ==
    ASSUME CheckerInv, [Next]_vars
    PROVE  CheckerInv'
<1>1. CASE \E t \in Tasks : Ask(t)
    BY <1>1, AskKeeps
<1>2. CASE Receive
    BY <1>2, ReceiveKeeps
<1>3. CASE Forward
    BY <1>3, ForwardKeeps
<1>4. CASE ForwardFails
    BY <1>4, ForwardFailsKeeps
<1>5. CASE \E s \in Services : Spawn(s)
    BY <1>5, SpawnKeeps
<1>6. CASE \E r \in Requests : Answer(r)
    BY <1>6, AnswerKeeps
<1>7. CASE UNCHANGED vars
  <2>1. TypeOK' /\ NoRepeats'
      BY <1>7 DEF vars, CheckerInv, TypeOK, NoRepeats
  <2>2. \A r, z : At(r, z)' <=> At(r, z)
      BY <1>7 DEF vars, At
  <2>3. OnePlace'
      BY <1>7, <2>2 DEF vars, CheckerInv, OnePlace
  <2>4. QED
      BY <2>1, <2>3 DEF CheckerInv
<1>8. QED
    BY <1>1, <1>2, <1>3, <1>4, <1>5, <1>6, <1>7 DEF Next, Proxy

LEMMA AlwaysCheckerInv == Spec => []CheckerInv
<1>1. Init => CheckerInv
    BY CheckerInvInit
<1>2. CheckerInv /\ [Next]_vars => CheckerInv'
    BY CheckerInvStep
<1>3. QED
    BY <1>1, <1>2, PTL DEF Spec

\* The variables have their types; in particular no channel of the checkerbot or
\* of a service ever holds more than its capacity (checker.rs:81, 99).
THEOREM CheckerTypes == Spec => []TypeOK
<1>1. CheckerInv => TypeOK
    BY DEF CheckerInv
<1>2. QED
    BY <1>1, AlwaysCheckerInv, PTL

\* Whatever the number of tasks, services and requests, and however the requests
\* are interleaved on their way through the proxy: a request is in one place, the
\* right one for its service (checker.rs:116-154).
THEOREM RequestsInOnePlace == Spec => []OnePlace
<1>1. CheckerInv => OnePlace
    BY DEF CheckerInv
<1>2. QED
    BY <1>1, AlwaysCheckerInv, PTL

\* What became of a request does not change: a oneshot channel is answered once,
\* or dropped (checker.rs:134, 294, 337, 357, 384).
RepliesAreFinal == \A r \in Requests : reply[r] # "none" => reply'[r] = reply[r]

\* No step of the proxy, of a process or of a call touches the reply of a request
\* that has got one.
THEOREM AnsweredOnce == Spec => [][RepliesAreFinal]_vars
<1>1. ASSUME CheckerInv, [Next]_vars PROVE RepliesAreFinal
  <2>1. CASE ForwardFails
    <3>1. PICK x \in held : reply' = [reply EXCEPT ![x] = "dropped"]
        BY <2>1 DEF ForwardFails
    <3>2. x \in Requests /\ At(x, "held")
        BY <1>1, Parts DEF At
    <3>3. ~At(x, "reply")
        BY <1>1, <3>2 DEF CheckerInv, OnePlace, Places
    <3>4. QED
        BY <1>1, <3>1, <3>3, Parts DEF At, RepliesAreFinal
  <2>2. ASSUME NEW x \in Requests, Answer(x) PROVE RepliesAreFinal
    <3>1. PICK outcome \in {"state", "failed"} : x \in calls /\ reply' = [reply EXCEPT ![x] = outcome]
        BY <2>2 DEF Answer
    <3>2. ~At(x, "reply")
      <4>1. At(x, "calls")
          BY <3>1 DEF At
      <4>2. QED
          BY <1>1, <4>1 DEF CheckerInv, OnePlace, Places
    <3>3. QED
        BY <1>1, <3>1, <3>2, Parts DEF At, RepliesAreFinal
  <2>3. CASE UNCHANGED reply
      BY <2>3 DEF RepliesAreFinal
  <2>4. QED
      BY <1>1, <2>1, <2>2, <2>3
      DEF Next, Proxy, Ask, Receive, Forward, Spawn, vars
<1>2. QED
    BY <1>1, AlwaysCheckerInv, PTL DEF Spec

\* Requests are queued only where a process takes them.
QueuesAreRead == \A s \in Services : queue[s] # <<>> => handler[s] = "up"

\* One of the guards holds of the steps that no answer of a checker is needed for.
CanMove ==
    \/ \E t \in Tasks : todo[t] # <<>> /\ Len(comm) < Cap
    \/ held = Nobody /\ comm # <<>>
    \/ \E r \in held : handler[ServiceOf[r]] = "dead" \/ Len(queue[ServiceOf[r]]) < Cap
    \/ \E s \in Services : handler[s] = "up" /\ queue[s] # <<>>

\* While a request is on its way to its checker, something moves without any answer.
NeverStuck ==
    \A r \in Scripted : r \in calls \/ reply[r] # "none" \/ CanMove

LEMMA AlwaysQueuesAreRead == Spec => []QueuesAreRead
<1>1. Init => QueuesAreRead
    BY DEF Init, QueuesAreRead
<1>2. ASSUME CheckerInv, QueuesAreRead, [Next]_vars PROVE QueuesAreRead'
  <2>1. ASSUME NEW r \in held, handler[ServiceOf[r]] = "up", UNCHANGED handler,
               queue' = [queue EXCEPT ![ServiceOf[r]] = Append(@, r)]
        PROVE  QueuesAreRead'
    <3>1. \A s \in Services : s = ServiceOf[r] \/ queue'[s] = queue[s]
        BY <1>2, <2>1, Parts
    <3>2. QED
        BY <1>2, <2>1, <3>1 DEF QueuesAreRead
  <2>2. ASSUME NEW s \in Services, handler[s] = "up", UNCHANGED handler,
               queue' = [queue EXCEPT ![s] = Tail(@)]
        PROVE  QueuesAreRead'
    <3>1. \A u \in Services : u = s \/ queue'[u] = queue[u]
        BY <1>2, <2>2, Parts
    <3>2. QED
        BY <1>2, <2>2, <3>1 DEF QueuesAreRead
  <2>3. CASE UNCHANGED <<handler, queue>>
      BY <1>2, <2>3 DEF QueuesAreRead
  <2>4. CASE Forward
      BY <2>1, <2>4 DEF Forward
  <2>5. CASE \E s \in Services : Spawn(s)
      BY <2>2, <2>5 DEF Spawn
  <2>6. QED
      BY <1>2, <2>3, <2>4, <2>5
      DEF Next, Proxy, Ask, Receive, ForwardFails, Answer, vars
<1>3. QED
    BY <1>1, <1>2, AlwaysCheckerInv, PTL DEF Spec

\* However small the channels and whichever checkers are silent, tasks, proxy and
\* processes do not wait for each other in a circle: a request that has not reached
\* its call never waits for an answer to another (checker.rs:134, 146, 152, 225, 247, 264).
THEOREM RequestsAlwaysMove == Spec => []NeverStuck
<1>1. ASSUME CheckerInv, QueuesAreRead PROVE NeverStuck
  <2>1. SUFFICES ASSUME NEW r \in Scripted, r \notin calls, reply[r] = "none"
                 PROVE  CanMove
      BY DEF NeverStuck
  <2>2. r \in Requests
    <3>1. \A t \in Tasks : Range(Script[t]) \subseteq Requests
        BY CheckerAssumption DEF Range
    <3>2. QED
        BY <3>1 DEF Scripted
  <2>3. PICK place \in {"todo", "comm", "held", "queue"} : At(r, place)
      BY <1>1, <2>1 DEF CheckerInv, OnePlace, Scripted, Places, At
  <2>4. ASSUME NEW q \in held PROVE CanMove
    <3>1. ServiceOf[q] \in Services
        BY <1>1, Parts
    <3>2. CASE handler[ServiceOf[q]] = "up" /\ queue[ServiceOf[q]] # <<>>
        BY <3>1, <3>2 DEF CanMove
    <3>3. CASE queue[ServiceOf[q]] = <<>>
      <4>1. Len(queue[ServiceOf[q]]) < Cap
          BY <3>3, CheckerAssumption
      <4>2. QED
          BY <4>1 DEF CanMove
    <3>4. CASE handler[ServiceOf[q]] # "up"
        BY <1>1, <3>1, <3>4, Parts DEF CanMove
    <3>5. QED
        BY <3>2, <3>3, <3>4
  <2>5. CASE comm # <<>>
      BY <2>4, <2>5 DEF CanMove, Nobody
  <2>6. CASE place = "todo" /\ comm = <<>>
    <3>1. PICK t \in Tasks : r \in Range(todo[t])
        BY <2>3, <2>6 DEF At
    <3>2. todo[t] # <<>>
        BY <3>1 DEF Range
    <3>3. Len(comm) < Cap
        BY <2>6, CheckerAssumption
    <3>4. QED
        BY <3>2, <3>3 DEF CanMove
  <2>7. CASE place = "comm" /\ comm = <<>>
      BY <2>3, <2>7 DEF At, Range
  <2>8. CASE place = "held"
      BY <2>3, <2>4, <2>8 DEF At
  <2>9. CASE place = "queue"
    <3>1. queue[ServiceOf[r]] # <<>> /\ ServiceOf[r] \in Services
      <4>1. r \in Range(queue[ServiceOf[r]])
          BY <2>3, <2>9 DEF At
      <4>2. QED
          BY <1>1, <2>2, <4>1, Parts DEF Range
    <3>2. QED
        BY <1>1, <3>1 DEF QueuesAreRead, CanMove
  <2>10. QED
      BY <2>5, <2>6, <2>7, <2>8, <2>9
<1>2. QED
    BY <1>1, AlwaysCheckerInv, AlwaysQueuesAreRead, PTL
=============================================================================
