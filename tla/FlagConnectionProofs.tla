------------------------ MODULE FlagConnectionProofs ------------------------
(* Throttled connections stay within their limits, for any limits; replies come
   at once before the buffering limit; and the metrics of a team add up. *)
EXTENDS FlagConnection, OperatorProofs

\* The limits between two looks at the throttle: before a line is read each
\* count of a throttled connection is below its limit, and one line adds one.
Bounded(st) ==
    st.throttled => \A s \in Limited :
        /\ st.counts[s] <= Limit[s]
        /\ st.pc \in {"read", "judge"} => st.counts[s] < Limit[s]

ThrottleInv == TypeOK /\ \A c \in Conns : Bounded(conn[c])

\* The state of one connection is well-formed.
WellFormed(st) == st \in ConnState /\ (~st.buffered => st.unsent = 0)

LEMMA InitThrottle == Init => ThrottleInv
<1>. SUFFICES ASSUME Init PROVE ThrottleInv
  OBVIOUS
<1>. USE ConnectionAssumption
<1>1. New \in ConnState /\ New.unsent = 0
  BY DEF New, ConnState, Places, Counts, NoCounts
<1>2. Bounded(New)
  BY DEF Bounded, New, NoCounts, Limited, Status
<1>3. TypeOK
  <2>1. conn \in [Conns -> ConnState] /\ \A c \in Conns : conn[c].unsent = 0
    BY <1>1 DEF Init
  <2>2. metrics \in [Teams -> Counts]
    BY DEF Init, Counts, NoCounts
  <2>3. throttle \in BOOLEAN
    BY Zenon DEF Init
  <2>4. toggles \in 0..MaxToggles
    BY SMT DEF Init, ConnectionAssumption
  <2>. QED
    BY <2>1, <2>2, <2>3, <2>4, Zenon DEF TypeOK
<1>. QED
  BY <1>2, <1>3 DEF ThrottleInv, Init

\* A step of one connection to a well-formed, bounded state keeps the invariant.
LEMMA BecomeKeeps ==
    ASSUME ThrottleInv, NEW c \in Conns, NEW st, Become(c, st),
           WellFormed(st), Bounded(st), metrics' \in [Teams -> Counts]
    PROVE  ThrottleInv'
<1>1. \A d \in Conns : conn'[d] = IF d = c THEN st ELSE conn[d]
  BY DEF Become, ThrottleInv, TypeOK
<1>2. conn' \in [Conns -> ConnState]
  BY <1>1 DEF Become, ThrottleInv, TypeOK, WellFormed
<1>3. TypeOK'
  BY <1>1, <1>2 DEF Become, ThrottleInv, TypeOK, WellFormed
<1>4. \A d \in Conns : Bounded(conn'[d])
  BY <1>1 DEF ThrottleInv
<1>. QED
  BY <1>3, <1>4 DEF ThrottleInv, Bounded

\* Going on to a place where no line is being judged needs nothing else.
LEMMA GoToKeeps ==
    ASSUME ThrottleInv, NEW c \in Conns, NEW pc \in Places, GoTo(c, pc),
           pc \in {"read", "judge"} => conn[c].pc \in {"read", "judge"},
           metrics' \in [Teams -> Counts]
    PROVE  ThrottleInv'
<1>. DEFINE st == [conn[c] EXCEPT !.pc = pc]
<1>1. conn[c] \in ConnState /\ Bounded(conn[c]) /\ (~conn[c].buffered => conn[c].unsent = 0)
  BY DEF ThrottleInv, TypeOK
<1>2. WellFormed(st)
  BY <1>1 DEF WellFormed, ConnState
<1>3. Bounded(st)
  BY <1>1 DEF Bounded, ConnState
<1>4. Become(c, st)
  BY DEF GoTo
<1>. QED
  BY <1>2, <1>3, <1>4, BecomeKeeps

\* A judged line adds one to a count that was below its limit.
LEMMA JudgedKeeps ==
    ASSUME ThrottleInv, NEW c \in Conns, NEW s \in Status, NEW pc \in Places,
           conn[c].pc \in {"read", "judge"}, pc \notin {"read", "judge"},
           Judged(c, s, pc), metrics' \in [Teams -> Counts]
    PROVE  ThrottleInv'
<1>. DEFINE st == [conn[c] EXCEPT !.counts[s] = @ + 1, !.pc = pc]
<1>1. conn[c] \in ConnState /\ Bounded(conn[c]) /\ (~conn[c].buffered => conn[c].unsent = 0)
  BY DEF ThrottleInv, TypeOK
<1>2. WellFormed(st)
  <2>1. [conn[c].counts EXCEPT ![s] = @ + 1] \in Counts
    BY <1>1 DEF ConnState, Counts
  <2>. QED
    BY <1>1, <2>1 DEF WellFormed, ConnState
<1>3. Bounded(st)
  <2>. SUFFICES ASSUME st.throttled, NEW r \in Limited PROVE st.counts[r] <= Limit[r]
    BY DEF Bounded
  <2>1. conn[c].counts[r] \in Nat /\ Limit[r] \in Nat /\ conn[c].counts[r] < Limit[r]
    BY <1>1, ConnectionAssumption DEF Bounded, ConnState, Counts, Status
  <2>2. st.counts[r] = IF r = s THEN conn[c].counts[r] + 1 ELSE conn[c].counts[r]
    BY <1>1 DEF ConnState, Counts, Status
  <2>. QED
    BY <2>1, <2>2
<1>4. Become(c, st)
  BY DEF Judged
<1>. QED
  BY <1>2, <1>3, <1>4, BecomeKeeps

LEMMA CheckKeeps ==
    ASSUME ThrottleInv, NEW c \in Conns, CheckThrottle(c)
    PROVE  ThrottleInv'
<1>. DEFINE pc == IF throttle /\ AtLimit(conn[c].counts) THEN "farewell" ELSE "read"
            st == [conn[c] EXCEPT !.pc = pc, !.throttled = @ /\ throttle]
<1>1. conn[c] \in ConnState /\ Bounded(conn[c]) /\ (~conn[c].buffered => conn[c].unsent = 0)
      /\ throttle \in BOOLEAN
  BY DEF ThrottleInv, TypeOK
<1>2. WellFormed(st)
  BY <1>1 DEF WellFormed, ConnState, Places
<1>3. Bounded(st)
  <2>. SUFFICES ASSUME st.throttled, NEW s \in Limited
                PROVE  /\ st.counts[s] <= Limit[s]
                       /\ st.pc = "read" => st.counts[s] < Limit[s]
    BY <1>1 DEF Bounded, ConnState
  <2>1. throttle /\ conn[c].throttled /\ st.counts = conn[c].counts /\ st.pc = pc
    BY <1>1 DEF ConnState
  <2>2. conn[c].counts[s] \in Nat /\ Limit[s] \in Nat /\ conn[c].counts[s] <= Limit[s]
    BY <1>1, <2>1, ConnectionAssumption DEF Bounded, ConnState, Counts, Status
  <2>3. ~AtLimit(conn[c].counts) => conn[c].counts[s] # Limit[s]
    BY <2>2 DEF AtLimit, Limited
  <2>. QED
    BY <2>1, <2>2, <2>3
<1>4. Become(c, st) /\ metrics' \in [Teams -> Counts]
  BY DEF CheckThrottle, ThrottleInv, TypeOK
<1>. QED
  BY <1>2, <1>3, <1>4, BecomeKeeps

\* The steps that only write: replies and the last flush.
LEMMA WriteKeeps ==
    ASSUME ThrottleInv, NEW c \in Conns, NEW pc \in {"check", "closed"}, NEW n \in Nat,
           NEW b \in BOOLEAN, ~b => n = 0, metrics' \in [Teams -> Counts],
           Become(c, [conn[c] EXCEPT !.pc = pc, !.unsent = n, !.buffered = b])
    PROVE  ThrottleInv'
<1>. DEFINE st == [conn[c] EXCEPT !.pc = pc, !.unsent = n, !.buffered = b]
<1>1. conn[c] \in ConnState /\ Bounded(conn[c])
  BY DEF ThrottleInv, TypeOK
<1>2. WellFormed(st)
  BY <1>1 DEF WellFormed, ConnState, Places
<1>3. Bounded(st)
  BY <1>1 DEF Bounded, ConnState
<1>. QED
  BY <1>2, <1>3, BecomeKeeps

LEMMA ReplyKeeps ==
    ASSUME ThrottleInv, NEW c \in Conns,
           ReplyToDecoded(c) \/ ReplyToUndecoded(c) \/ Leave(c)
    PROVE  ThrottleInv'
<1>1. conn[c] \in ConnState /\ (~conn[c].buffered => conn[c].unsent = 0)
      /\ metrics' \in [Teams -> Counts]
  BY DEF ThrottleInv, TypeOK, ReplyToDecoded, ReplyToUndecoded, Leave
<1>2. Unsent(c) \subseteq Nat /\ (~conn[c].buffered => Unsent(c) = {0})
  BY <1>1 DEF Unsent, ConnState
<1>3. CASE GoTo(c, "lost")
  BY <1>1, <1>3, GoToKeeps DEF Places
<1>4. CASE ReplyToUndecoded(c) /\ ~GoTo(c, "lost")
  <2>1. PICK n \in Unsent(c) : Become(c, [conn[c] EXCEPT !.pc = "check", !.unsent = n])
    BY <1>4 DEF ReplyToUndecoded
  <2>2. [conn[c] EXCEPT !.pc = "check", !.unsent = n]
        = [conn[c] EXCEPT !.pc = "check", !.unsent = n, !.buffered = conn[c].buffered]
    BY <1>1 DEF ConnState
  <2>3. n \in Nat /\ conn[c].buffered \in BOOLEAN /\ (~conn[c].buffered => n = 0)
    BY <1>1, <1>2, <2>1 DEF ConnState
  <2>. QED
    BY <1>1, <2>1, <2>2, <2>3, WriteKeeps
<1>5. CASE ReplyToDecoded(c) /\ ~GoTo(c, "lost")
  <2>. DEFINE full == Total(conn[c].counts) = NonBufferingLimit
  <2>1. PICK n \in IF full THEN {0} ELSE Unsent(c) :
            Become(c, [conn[c] EXCEPT !.pc = "check", !.unsent = n,
                                      !.buffered = conn[c].buffered \/ full])
    BY <1>1, <1>5 DEF ReplyToDecoded, ConnState
  <2>2. n \in Nat /\ (~(conn[c].buffered \/ full) => n = 0)
    BY <1>1, <1>2, <2>1 DEF ConnState
  <2>3. (conn[c].buffered \/ full) \in BOOLEAN
    BY <1>1 DEF ConnState
  <2>. HIDE DEF full
  <2>. QED
    BY <1>1, <2>1, <2>2, <2>3, WriteKeeps
<1>6. CASE Leave(c)
  <2>1. PICK n \in {0, conn[c].unsent} :
            Become(c, [conn[c] EXCEPT !.pc = "closed", !.unsent = n])
    BY <1>6 DEF Leave
  <2>2. [conn[c] EXCEPT !.pc = "closed", !.unsent = n]
        = [conn[c] EXCEPT !.pc = "closed", !.unsent = n, !.buffered = conn[c].buffered]
    BY <1>1 DEF ConnState
  <2>3. n \in Nat /\ conn[c].buffered \in BOOLEAN /\ (~conn[c].buffered => n = 0)
    BY <1>1, <2>1 DEF ConnState
  <2>. QED
    BY <1>1, <2>1, <2>2, <2>3, WriteKeeps
<1>. QED
  BY <1>3, <1>4, <1>5, <1>6

LEMMA AppendKeeps ==
    ASSUME ThrottleInv, NEW c \in Conns, AppendMetrics(c)
    PROVE  ThrottleInv'
<1>1. conn[c].counts \in Counts /\ metrics \in [Teams -> Counts]
  BY DEF ThrottleInv, TypeOK, ConnState
<1>. DEFINE sums == [s \in Status |-> metrics[TeamOf[c]][s] + conn[c].counts[s]]
<1>2. TeamOf[c] \in Teams
  BY ConnectionAssumption
<1>3. sums \in Counts
  BY <1>1, <1>2 DEF Counts
<1>4. metrics' = [metrics EXCEPT ![TeamOf[c]] = sums]
  BY <1>1, <1>2 DEF AppendMetrics
<1>5. metrics' \in [Teams -> Counts]
  BY <1>1, <1>3, <1>4
<1>6. GoTo(c, "leave")
  BY DEF AppendMetrics
<1>. QED
  BY <1>5, <1>6, GoToKeeps DEF Places

LEMMA NextThrottle == ThrottleInv /\ [Next]_vars => ThrottleInv'
<1>. SUFFICES ASSUME ThrottleInv, [Next]_vars PROVE ThrottleInv'
  OBVIOUS
<1>1. CASE UNCHANGED vars
  BY <1>1 DEF ThrottleInv, TypeOK, Bounded, vars
<1>2. CASE ThrottleSubmission
  BY <1>2, ConnectionAssumption DEF ThrottleSubmission, ThrottleInv, TypeOK, Bounded
<1>3. ASSUME NEW c \in Conns,
             Open(c) \/ Farewell(c) \/ Timeout(c)
      PROVE  ThrottleInv'
  <2>1. metrics' \in [Teams -> Counts]
    BY <1>3 DEF Open, Farewell, Timeout, ThrottleInv, TypeOK
  <2>2. PICK pc \in {"check", "append", "lost", "closed"} : GoTo(c, pc)
    BY <1>3 DEF Open, Farewell, Timeout
  <2>. QED
    BY <2>1, <2>2, GoToKeeps DEF Places
<1>4. ASSUME NEW c \in Conns, Read(c) \/ Judge(c) PROVE ThrottleInv'
  <2>1. metrics' \in [Teams -> Counts] /\ conn[c].pc \in {"read", "judge"}
    BY <1>4 DEF Read, Judge, ThrottleInv, TypeOK
  <2>2. CASE \E pc \in {"append", "judge", "lost"} : GoTo(c, pc)
    BY <2>1, <2>2, GoToKeeps DEF Places
  <2>3. CASE \E s \in Status, pc \in {"decoded", "undecoded"} : Judged(c, s, pc)
    BY <2>1, <2>3, JudgedKeeps DEF Places
  <2>. QED
    BY <1>4, <2>2, <2>3, ConnectionAssumption DEF Read, Judge, Status, Limited
<1>5. ASSUME NEW c \in Conns,
             CheckThrottle(c) \/ ReplyToUndecoded(c) \/ ReplyToDecoded(c)
                \/ AppendMetrics(c) \/ Leave(c)
      PROVE  ThrottleInv'
  BY <1>5, CheckKeeps, ReplyKeeps, AppendKeeps
<1>. QED
  BY <1>1, <1>2, <1>3, <1>4, <1>5 DEF Next

\* The inductive invariant of the connections (flagbot.rs:626-750).
THEOREM ThrottleInvariance == Spec => []ThrottleInv
<1>. QED
  BY InitThrottle, NextThrottle, PTL DEF Spec

\* For any limits, teams and connections: one that never saw the throttle off
\* passes none of its limits (flagbot.rs:627-663).
THEOREM ThrottledWithinLimits == Spec => [](TypeOK /\ ThrottledCountsBounded)
<1>1. ThrottleInv => TypeOK /\ ThrottledCountsBounded
  BY DEF ThrottleInv, Bounded, ThrottledCountsBounded
<1>. QED
  BY <1>1, ThrottleInvariance, PTL

-----------------------------------------------------------------------------
(* The total of the counts, and the buffer *)

\* The total is a natural that grows by one with each line.
LEMMA TotalGrows ==
    ASSUME NEW counts \in Counts, NEW s \in Status
    PROVE  /\ Total(counts) \in Nat
           /\ Total([counts EXCEPT ![s] = @ + 1]) = Total(counts) + 1
<1>. DEFINE more == [counts EXCEPT ![s] = @ + 1]
<1>1. IsFiniteSet(Status)
  <2>1. \A S, x : IsFiniteSet(S) => IsFiniteSet(S \cup {x})
    BY FS_AddElement
  <2>2. IsFiniteSet((((({} \cup {"InvalidFlag"}) \cup {"DuplicateSubmission"})
                       \cup {"FlagExpired"}) \cup {"SelfFlag"}) \cup {"Accepted"})
    BY <2>1, FS_EmptySet
  <2>3. Status = (((({} \cup {"InvalidFlag"}) \cup {"DuplicateSubmission"})
                       \cup {"FlagExpired"}) \cup {"SelfFlag"}) \cup {"Accepted"}
    BY DEF Status, Limited
  <2>. QED
    BY <2>2, <2>3
<1>2. \A r \in Status : counts[r] \in Nat
  BY DEF Counts
<1>3. Total(counts) \in Nat
  BY <1>1, <1>2, SumIsNat DEF Total
<1>4. \A r \in Status : more[r] = IF r = s THEN counts[r] + 1 ELSE counts[r]
  BY DEF Counts
<1>. HIDE DEF more
<1>5. IntsOn(counts, Status) /\ IntsOn(more, Status)
  BY <1>2, <1>4 DEF IntsOn
<1>6. more[s] - counts[s] = 1 /\ \A r \in Status \ {s} : more[r] = counts[r]
  BY <1>2, <1>4
<1>7. SumFunctionOnSet(more, Status) = SumFunctionOnSet(counts, Status) + (more[s] - counts[s])
  BY <1>1, <1>5, <1>6, SumChange
<1>. QED
  BY <1>3, <1>6, <1>7 DEF Total, more

\* What a step may do to a connection's counts and to its buffer.
Advances(old, new) ==
    \/ /\ new.counts = old.counts
       /\ new.buffered => old.buffered \/ Total(old.counts) = NonBufferingLimit
    \/ /\ \E s \in Status : new.counts = [old.counts EXCEPT ![s] = @ + 1]
       /\ new.buffered = old.buffered

\* Only on the way out are counts in the metrics, and there they stay as they are.
Appended(st) == st.pc \in {"leave", "closed"}

Stays(old, new) ==
    /\ Appended(new) <=> Appended(old)
    /\ Appended(old) => new.counts = old.counts

LEMMA BecomeSteps ==
    ASSUME TypeOK, NEW c \in Conns, NEW st, Become(c, st)
    PROVE  \A d \in Conns : conn'[d] = IF d = c THEN st ELSE conn[d]
BY DEF Become, TypeOK

\* Each step advances one connection; only AppendMetrics touches the metrics.
LEMMA ConnSteps ==
    ASSUME TypeOK, [Next]_vars
    PROVE  /\ \A d \in Conns : Advances(conn[d], conn'[d])
           /\ \/ metrics' = metrics /\ \A d \in Conns : Stays(conn[d], conn'[d])
              \/ \E c \in Conns : AppendMetrics(c)
<1>0. \A d \in Conns : Advances(conn[d], conn[d]) /\ Stays(conn[d], conn[d])
  BY DEF Advances, Stays
<1>1. CASE UNCHANGED vars \/ ThrottleSubmission
  BY <1>0, <1>1 DEF vars, ThrottleSubmission
<1>2. ASSUME NEW c \in Conns, NEW st, Become(c, st), metrics' = metrics,
             Advances(conn[c], st), Stays(conn[c], st)
      PROVE  metrics' = metrics /\ \A d \in Conns : Advances(conn[d], conn'[d])
                                                    /\ Stays(conn[d], conn'[d])
  BY <1>0, <1>2, BecomeSteps
<1>3. ASSUME NEW c \in Conns, NEW pc, GoTo(c, pc)
      PROVE  /\ Become(c, [conn[c] EXCEPT !.pc = pc])
             /\ Advances(conn[c], [conn[c] EXCEPT !.pc = pc])
             /\ (pc \in {"leave", "closed"} <=> Appended(conn[c]))
                   => Stays(conn[c], [conn[c] EXCEPT !.pc = pc])
  <2>1. conn[c] \in ConnState
    BY DEF TypeOK
  <2>. QED
    BY <1>3, <2>1 DEF GoTo, Advances, Stays, Appended, ConnState
<1>4. ASSUME NEW c \in Conns,
             Open(c) \/ Farewell(c) \/ Timeout(c)
             \/ (Read(c) /\ \E pc \in {"append", "judge", "lost"} : GoTo(c, pc))
             \/ ((ReplyToUndecoded(c) \/ ReplyToDecoded(c)) /\ GoTo(c, "lost"))
      PROVE  metrics' = metrics /\ \A d \in Conns : Advances(conn[d], conn'[d])
                                                    /\ Stays(conn[d], conn'[d])
  <2>1. PICK pc : GoTo(c, pc) /\ (pc \in {"leave", "closed"} <=> Appended(conn[c]))
    <3>1. CASE Timeout(c)
      BY <3>1 DEF Timeout, Appended
    <3>2. CASE Open(c) \/ Farewell(c)
      BY <3>2 DEF Open, Farewell, Appended
    <3>3. CASE Read(c) /\ \E pc \in {"append", "judge", "lost"} : GoTo(c, pc)
      BY <3>3 DEF Read, Appended
    <3>4. CASE (ReplyToUndecoded(c) \/ ReplyToDecoded(c)) /\ GoTo(c, "lost")
      <4>1. conn[c].pc \in {"undecoded", "decoded"}
        BY <3>4 DEF ReplyToUndecoded, ReplyToDecoded
      <4>2. "lost" \in {"leave", "closed"} <=> Appended(conn[c])
        BY <4>1 DEF Appended
      <4>. QED
        BY <3>4, <4>2, Zenon
    <3>. QED
      BY <1>4, <3>1, <3>2, <3>3, <3>4
  <2>2. metrics' = metrics
    BY <1>4 DEF Open, Farewell, Timeout, Read, ReplyToUndecoded, ReplyToDecoded
  <2>. QED
    BY <1>2, <1>3, <2>1, <2>2
<1>5. ASSUME NEW c \in Conns, CheckThrottle(c)
      PROVE  metrics' = metrics /\ \A d \in Conns : Advances(conn[d], conn'[d])
                                                    /\ Stays(conn[d], conn'[d])
  <2>. DEFINE st == [conn[c] EXCEPT
                        !.pc = IF throttle /\ AtLimit(conn[c].counts) THEN "farewell" ELSE "read",
                        !.throttled = @ /\ throttle]
  <2>1. Become(c, st) /\ metrics' = metrics /\ conn[c].pc = "check" /\ conn[c] \in ConnState
    BY <1>5 DEF CheckThrottle, TypeOK
  <2>2. Advances(conn[c], st) /\ Stays(conn[c], st)
    BY <2>1 DEF Advances, Stays, Appended, ConnState
  <2>. QED
    BY <1>2, <2>1, <2>2
<1>6. ASSUME NEW c \in Conns, NEW s \in Status, NEW pc \in {"decoded", "undecoded"},
             conn[c].pc \in {"read", "judge"}, Judged(c, s, pc), metrics' = metrics
      PROVE  metrics' = metrics /\ \A d \in Conns : Advances(conn[d], conn'[d])
                                                    /\ Stays(conn[d], conn'[d])
  <2>. DEFINE st == [conn[c] EXCEPT !.counts[s] = @ + 1, !.pc = pc]
  <2>1. Become(c, st) /\ conn[c] \in ConnState
    BY <1>6 DEF Judged, TypeOK
  <2>2. Advances(conn[c], st) /\ Stays(conn[c], st)
    BY <1>6, <2>1 DEF Advances, Stays, Appended, ConnState
  <2>. QED
    BY <1>2, <1>6, <2>1, <2>2
<1>7. ASSUME NEW c \in Conns, Read(c) \/ Judge(c)
      PROVE  metrics' = metrics /\ \A d \in Conns : Advances(conn[d], conn'[d])
                                                    /\ Stays(conn[d], conn'[d])
  <2>1. metrics' = metrics /\ conn[c].pc \in {"read", "judge"}
    BY <1>7 DEF Read, Judge
  <2>2. CASE \E s \in Status, pc \in {"decoded", "undecoded"} : Judged(c, s, pc)
    BY <1>6, <2>1, <2>2
  <2>3. CASE Read(c) /\ \E pc \in {"append", "judge", "lost"} : GoTo(c, pc)
    BY <1>4, <2>3
  <2>. QED
    BY <1>7, <2>2, <2>3, ConnectionAssumption DEF Read, Judge, Status, Limited
<1>8. ASSUME NEW c \in Conns, ReplyToUndecoded(c) \/ ReplyToDecoded(c) \/ Leave(c)
      PROVE  metrics' = metrics /\ \A d \in Conns : Advances(conn[d], conn'[d])
                                                    /\ Stays(conn[d], conn'[d])
  <2>0. conn[c] \in ConnState
    BY DEF TypeOK
  <2>1. CASE (ReplyToUndecoded(c) \/ ReplyToDecoded(c)) /\ GoTo(c, "lost")
    BY <1>4, <2>1
  <2>2. CASE ReplyToUndecoded(c) /\ ~GoTo(c, "lost")
    <3>1. PICK n : Become(c, [conn[c] EXCEPT !.pc = "check", !.unsent = n])
      BY <2>2 DEF ReplyToUndecoded
    <3>. DEFINE st == [conn[c] EXCEPT !.pc = "check", !.unsent = n]
    <3>2. Advances(conn[c], st) /\ Stays(conn[c], st) /\ metrics' = metrics
      BY <2>0, <2>2 DEF ReplyToUndecoded, Advances, Stays, Appended, ConnState
    <3>. QED
      BY <1>2, <3>1, <3>2
  <2>3. CASE ReplyToDecoded(c) /\ ~GoTo(c, "lost")
    <3>. DEFINE full == Total(conn[c].counts) = NonBufferingLimit
    <3>1. PICK n : Become(c, [conn[c] EXCEPT !.pc = "check", !.unsent = n, !.buffered = @ \/ full])
      BY <2>3 DEF ReplyToDecoded
    <3>. DEFINE st == [conn[c] EXCEPT !.pc = "check", !.unsent = n, !.buffered = @ \/ full]
    <3>2. st.counts = conn[c].counts /\ st.buffered = (conn[c].buffered \/ full) /\ st.pc = "check"
      BY <2>0 DEF ConnState
    <3>3. conn[c].pc = "decoded" /\ metrics' = metrics
      BY <2>3 DEF ReplyToDecoded
    <3>4. Advances(conn[c], st) /\ Stays(conn[c], st)
      BY <3>2, <3>3 DEF Advances, Stays, Appended
    <3>. QED
      BY <1>2, <3>1, <3>3, <3>4
  <2>4. CASE Leave(c)
    <3>1. PICK n : Become(c, [conn[c] EXCEPT !.pc = "closed", !.unsent = n])
      BY <2>4 DEF Leave
    <3>. DEFINE st == [conn[c] EXCEPT !.pc = "closed", !.unsent = n]
    <3>2. Advances(conn[c], st) /\ Stays(conn[c], st) /\ metrics' = metrics
      BY <2>0, <2>4 DEF Leave, Advances, Stays, Appended, ConnState
    <3>. QED
      BY <1>2, <3>1, <3>2
  <2>. QED
    BY <1>8, <2>1, <2>2, <2>3, <2>4
<1>9. ASSUME NEW c \in Conns, AppendMetrics(c)
      PROVE  \A d \in Conns : Advances(conn[d], conn'[d])
  <2>1. GoTo(c, "leave")
    BY <1>9 DEF AppendMetrics
  <2>2. Become(c, [conn[c] EXCEPT !.pc = "leave"]) /\ Advances(conn[c], [conn[c] EXCEPT !.pc = "leave"])
    BY <1>3, <2>1
  <2>3. \A d \in Conns : conn'[d] = IF d = c THEN [conn[c] EXCEPT !.pc = "leave"] ELSE conn[d]
    BY <2>2, BecomeSteps
  <2>. QED
    BY <1>0, <2>2, <2>3
<1>. QED
  BY <1>1, <1>4, <1>5, <1>7, <1>8, <1>9 DEF Next

\* The buffered writer comes with the limit at the earliest.
BufferInv == \A c \in Conns : conn[c].buffered => Total(conn[c].counts) >= NonBufferingLimit

LEMMA NextBuffer == TypeOK /\ BufferInv /\ [Next]_vars => BufferInv'
<1>. SUFFICES ASSUME TypeOK, BufferInv, [Next]_vars, NEW c \in Conns, conn'[c].buffered
              PROVE  Total(conn'[c].counts) >= NonBufferingLimit
  BY DEF BufferInv
<1>. DEFINE counts == conn[c].counts
<1>1. counts \in Counts /\ Advances(conn[c], conn'[c]) /\ NonBufferingLimit \in Nat
  BY ConnSteps, ConnectionAssumption DEF TypeOK, ConnState
<1>2. Total(counts) \in Nat
  BY <1>1, TotalGrows DEF Status
<1>3. conn[c].buffered => Total(counts) >= NonBufferingLimit
  BY DEF BufferInv
<1>4. CASE conn'[c].counts = counts /\ (conn[c].buffered \/ Total(counts) = NonBufferingLimit)
  BY <1>1, <1>2, <1>3, <1>4
<1>5. ASSUME NEW s \in Status, conn'[c].counts = [counts EXCEPT ![s] = @ + 1], conn[c].buffered
      PROVE  Total(conn'[c].counts) >= NonBufferingLimit
  <2>1. Total(conn'[c].counts) = Total(counts) + 1
    BY <1>1, <1>5, TotalGrows
  <2>. QED
    BY <1>1, <1>2, <1>3, <1>5, <2>1
<1>. QED
  BY <1>1, <1>4, <1>5 DEF Advances

\* Before the buffering limit each reply is on its way as soon as it is written,
\* for any limit and any number of connections (flagbot.rs:743-744).
THEOREM RepliesAreInstant == Spec => []InstantFeedback
<1>1. Init => BufferInv
  BY DEF Init, New, BufferInv
<1>2. TypeOK /\ BufferInv => InstantFeedback
  <2>. SUFFICES ASSUME TypeOK, BufferInv, NEW c \in Conns,
                       Total(conn[c].counts) < NonBufferingLimit
                PROVE  conn[c].unsent = 0
    BY DEF InstantFeedback
  <2>1. Total(conn[c].counts) \in Nat /\ NonBufferingLimit \in Nat
    BY TotalGrows, ConnectionAssumption DEF TypeOK, ConnState, Status
  <2>2. ~conn[c].buffered
    BY <2>1 DEF BufferInv
  <2>. QED
    BY <2>2 DEF TypeOK
<1>3. ThrottleInv => TypeOK
  BY DEF ThrottleInv
<1>. QED
  BY <1>1, <1>2, <1>3, NextBuffer, ThrottleInvariance, PTL DEF Spec

-----------------------------------------------------------------------------
(* The metrics *)

\* The connections of a team whose counts the metrics hold, and their counts of
\* one status.
AppendedOf(t) == {c \in Conns : TeamOf[c] = t /\ conn[c].pc \in {"leave", "closed"}}
CountsOf(s) == [c \in Conns |-> conn[c].counts[s]]

LEMMA NextMetrics == TypeOK /\ TypeOK' /\ MetricsAddUp /\ [Next]_vars => MetricsAddUp'
<1>. SUFFICES ASSUME TypeOK, TypeOK', MetricsAddUp, [Next]_vars, NEW t \in Teams, NEW s \in Status
              PROVE  metrics'[t][s] = SumFunctionOnSet(CountsOf(s)', AppendedOf(t)')
  BY DEF MetricsAddUp, CountsOf, AppendedOf
<1>. DEFINE f == CountsOf(s)
            g == CountsOf(s)'
            A == AppendedOf(t)
            B == AppendedOf(t)'
<1>1. /\ \A c \in Conns : f[c] = conn[c].counts[s] /\ f[c] \in Nat
      /\ \A c \in Conns : g[c] = conn'[c].counts[s] /\ g[c] \in Nat
  BY DEF CountsOf, TypeOK, ConnState, Counts
<1>2. A \subseteq Conns /\ B \subseteq Conns /\ IsFiniteSet(A) /\ IsFiniteSet(B)
  BY ConnectionAssumption, FS_Subset DEF AppendedOf
<1>3. metrics[t][s] = SumFunctionOnSet(f, A)
  BY DEF MetricsAddUp, CountsOf, AppendedOf
<1>4. ASSUME \A d \in Conns : Stays(conn[d], conn'[d])
      PROVE  A = B /\ \A c \in A : g[c] = f[c]
  BY <1>1, <1>4 DEF Stays, Appended, AppendedOf
<1>5. CASE metrics' = metrics /\ \A d \in Conns : Stays(conn[d], conn'[d])
  <2>1. IntsOn(f, A)
    BY <1>1, <1>2 DEF IntsOn
  <2>. HIDE DEF f, g, A, B
  <2>2. SumFunctionOnSet(g, A) = SumFunctionOnSet(f, A)
    BY <1>2, <1>4, <1>5, <2>1, SumAgree
  <2>. QED
    BY <1>3, <1>4, <1>5, <2>2 DEF f, g, A, B
<1>6. ASSUME NEW c \in Conns, AppendMetrics(c)
      PROVE  metrics'[t][s] = SumFunctionOnSet(g, B)
  <2>1. /\ conn[c].pc = "append" /\ conn[c] \in ConnState
        /\ \A d \in Conns : conn'[d] = IF d = c THEN [conn[c] EXCEPT !.pc = "leave"] ELSE conn[d]
    BY <1>6, BecomeSteps DEF AppendMetrics, GoTo, TypeOK
  <2>2. metrics'[t][s] = IF TeamOf[c] = t THEN metrics[t][s] + conn[c].counts[s] ELSE metrics[t][s]
    BY <1>6, ConnectionAssumption DEF AppendMetrics, TypeOK, Counts
  <2>3. \A d \in Conns : g[d] = f[d]
    BY <1>1, <2>1 DEF ConnState
  <2>4. c \notin A /\ B = IF TeamOf[c] = t THEN A \cup {c} ELSE A
    BY <2>1 DEF AppendedOf, ConnState
  <2>5. IntsOn(f, A) /\ IntsOn(f, A \cup {c}) /\ IntsOn(f, B) /\ \A d \in B : g[d] = f[d]
    BY <1>1, <1>2, <2>3 DEF IntsOn
  <2>6. f[c] = conn[c].counts[s] /\ f[c] \in Int
    BY <1>1
  <2>. HIDE DEF f, g, A, B
  <2>7. SumFunctionOnSet(g, B) = SumFunctionOnSet(f, B)
    BY <1>2, <2>5, SumAgree
  <2>8. SumFunctionOnSet(f, A \cup {c}) = f[c] + SumFunctionOnSet(f, A) /\ SumFunctionOnSet(f, A) \in Int
    BY <1>2, <2>4, <2>5, SumAdd, SumIsInt
  <2>. QED
    BY <1>3, <2>2, <2>4, <2>6, <2>7, <2>8
<1>. QED
  BY <1>5, <1>6, ConnSteps

\* For any teams and connections: a team's metrics are the sums over its
\* connections that appended their counts, in whatever order they ended
\* (flagbot.rs:752-758).
THEOREM MetricsAreSums == Spec => []MetricsAddUp
<1>1. Init => MetricsAddUp
  <2>. SUFFICES ASSUME Init, NEW t \in Teams, NEW s \in Status
                PROVE  metrics[t][s] = SumFunctionOnSet(CountsOf(s), AppendedOf(t))
    BY DEF MetricsAddUp, CountsOf, AppendedOf
  <2>1. AppendedOf(t) = {} /\ metrics[t][s] = 0
    BY DEF Init, New, AppendedOf, NoCounts
  <2>2. SumFunctionOnSet(CountsOf(s), {}) = 0
    BY SumIsInt, FS_EmptySet DEF IntsOn
  <2>. QED
    BY <2>1, <2>2
<1>2. ThrottleInv => TypeOK
  BY DEF ThrottleInv
<1>. QED
  BY <1>1, <1>2, NextMetrics, ThrottleInvariance, PTL DEF Spec
=============================================================================
