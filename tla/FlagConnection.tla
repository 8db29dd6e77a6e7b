--------------------------- MODULE FlagConnection ---------------------------
(***************************************************************************)
(* What a connection does with the lines it receives: the loop of          *)
(* handle_tcp_connection (flagbot.rs) with its throttling, its buffered    *)
(* replies, its counts, and the metrics they are added to.  FlagEndpoint   *)
(* is how the connection came to be, FlagSubmission what check_flag does   *)
(* with a line that decodes; here its verdict is any status.               *)
(***************************************************************************)
EXTENDS Integers, FiniteSets, Functions

CONSTANTS
    Teams,
    Conns,              \* connections that were given a permit, of which a run has finitely many
    TeamOf,             \* the team whose address a connection comes from
    Limit,              \* the *_limit fields of TcpConfig, by status
    NonBufferingLimit,  \* TcpConfig.non_buffering_limit
    MaxLines,           \* bound: lines of each connection
    Verdicts,           \* bound: what check_flag answers
    MaxToggles          \* bound: ThrottleSubmission messages

Limited == {"InvalidFlag", "DuplicateSubmission", "FlagExpired", "SelfFlag"}
Status == Limited \cup {"Accepted"}

ASSUME ConnectionAssumption ==
    /\ IsFiniteSet(Conns) /\ TeamOf \in [Conns -> Teams]
    /\ Limit \in [Limited -> Nat] /\ NonBufferingLimit \in Nat
    /\ MaxLines \in [Conns -> Nat] /\ Verdicts \subseteq Status /\ MaxToggles \in Nat

VARIABLES
    throttle,   \* Model.throttle_submission
    conn,       \* the connection tasks
    metrics,    \* Model.metrics, but for tcp_connections
    toggles     \* bound

vars == <<throttle, conn, metrics, toggles>>

-----------------------------------------------------------------------------
(* Data *)

Counts == [Status -> Nat]
NoCounts == [s \in Status |-> 0]
Total(counts) == SumFunctionOnSet(counts, Status)

\* The await where the task stands.  "check" is the head of the loop, "decoded"
\* and "undecoded" the writing of a reply; from "closed" on the metrics hold the
\* connection's counts, and "lost" is a task that ended before that.
Places == {"none", "check", "farewell", "read", "judge", "decoded", "undecoded",
           "append", "leave", "closed", "lost"}

\* unsent: replies in the writer's buffer.  throttled: the throttle was on at
\* every look at it so far.
ConnState == [pc : Places, counts : Counts, buffered : BOOLEAN, unsent : Nat,
              throttled : BOOLEAN]

\* Mutant: a buffer of the default size from the start.
New_Buffered == [pc |-> "none", counts |-> NoCounts, buffered |-> TRUE, unsent |-> 0,
                 throttled |-> TRUE]

\* The first writer's buffer is smaller than any reply.
New == [pc |-> "none", counts |-> NoCounts, buffered |-> FALSE, unsent |-> 0,
        throttled |-> TRUE]

\* Mutant: one flag too many.
AtLimit_Exceeded(counts) ==
    \/ counts["InvalidFlag"] = Limit["InvalidFlag"] + 1
    \/ \E s \in Limited \ {"InvalidFlag"} : counts[s] > Limit[s]

\* The order of the tests only decides which farewell is written.
AtLimit(counts) ==
    \/ counts["InvalidFlag"] = Limit["InvalidFlag"]
    \/ \E s \in Limited \ {"InvalidFlag"} : counts[s] >= Limit[s]

Init ==
    /\ throttle = FALSE /\ toggles = 0
    /\ conn = [c \in Conns |-> New]
    /\ metrics = [t \in Teams |-> NoCounts]

-----------------------------------------------------------------------------

\* Msg::ThrottleSubmission
ThrottleSubmission ==
    /\ toggles < MaxToggles /\ toggles' = toggles + 1
    /\ throttle' \in BOOLEAN
    /\ UNCHANGED <<conn, metrics>>

Become(c, state) ==
    /\ conn' = [conn EXCEPT ![c] = state]
    /\ UNCHANGED <<throttle, toggles>>

GoTo(c, pc) == Become(c, [conn[c] EXCEPT !.pc = pc])

Open(c) ==
    /\ conn[c].pc = "none" /\ GoTo(c, "check")
    /\ UNCHANGED metrics

\* The head of the loop.
CheckThrottle(c) ==
    /\ conn[c].pc = "check"
    /\ Become(c, [conn[c] EXCEPT
           !.pc = IF throttle /\ AtLimit(conn[c].counts) THEN "farewell" ELSE "read",
           !.throttled = @ /\ throttle])
    /\ UNCHANGED metrics

\* A write that fails ends the task through `?`.
Farewell(c) ==
    /\ conn[c].pc = "farewell"
    /\ GoTo(c, "append") \/ GoTo(c, "lost")
    /\ UNCHANGED metrics

\* What a line does to the counts; the bound is on their sum.
Judged(c, s, pc) ==
    /\ Total(conn[c].counts) < MaxLines[c]
    /\ Become(c, [conn[c] EXCEPT !.counts[s] = @ + 1, !.pc = pc])

\* The end of the input or an error, a line that decodes or one that does not,
\* or one on which decode panics: hexadecimal, but too long (flag.rs:258).
Read(c) ==
    /\ conn[c].pc = "read"
    /\ \/ GoTo(c, "append") \/ GoTo(c, "judge") \/ GoTo(c, "lost")
       \/ Judged(c, "InvalidFlag", "undecoded")
    /\ UNCHANGED metrics

\* check_flag answers; an error counts as an invalid flag.
Judge(c) ==
    /\ conn[c].pc = "judge"
    /\ \E s \in Verdicts : Judged(c, s, "decoded")
    /\ UNCHANGED metrics

\* A buffered reply waits, or goes out with the full buffer.
Unsent(c) == IF conn[c].buffered THEN {conn[c].unsent + 1, 0} ELSE {0}

\* `continue` skips what follows the replies to the other lines.
ReplyToUndecoded(c) ==
    /\ conn[c].pc = "undecoded"
    /\ \/ \E n \in Unsent(c) : Become(c, [conn[c] EXCEPT !.pc = "check", !.unsent = n])
       \/ GoTo(c, "lost")
    /\ UNCHANGED metrics

\* After that many lines the writer is flushed, and replaced by a buffered one.
ReplyToDecoded(c) ==
    LET full == Total(conn[c].counts) = NonBufferingLimit IN
    /\ conn[c].pc = "decoded"
    /\ \/ \E n \in IF full THEN {0} ELSE Unsent(c) :
            Become(c, [conn[c] EXCEPT !.pc = "check", !.unsent = n,
                                      !.buffered = @ \/ full])
       \/ GoTo(c, "lost")
    /\ UNCHANGED metrics

\* Mutant: the counts replace those of the team's other connections.
AppendMetrics_Replaces(c) ==
    /\ conn[c].pc = "append"
    /\ metrics' = [metrics EXCEPT ![TeamOf[c]] = conn[c].counts]
    /\ GoTo(c, "leave")

\* FlagSubmissionMetrics::append, under the write lock.
AppendMetrics(c) ==
    /\ conn[c].pc = "append"
    /\ metrics' = [metrics EXCEPT ![TeamOf[c]] =
                      [s \in Status |-> @[s] + conn[c].counts[s]]]
    /\ GoTo(c, "leave")

\* Flush, a second of sleep, shutdown; or an error in one of them.
Leave(c) ==
    /\ conn[c].pc = "leave"
    /\ \E n \in {0, conn[c].unsent} :
          Become(c, [conn[c] EXCEPT !.pc = "closed", !.unsent = n])
    /\ UNCHANGED metrics

\* Mutant: only read_line has a timeout.
Timeout_OfRead(c) ==
    /\ conn[c].pc = "read"
    /\ GoTo(c, "lost")
    /\ UNCHANGED metrics

\* The 30 s timeout around the task drops it at whatever it waits for.
Timeout(c) ==
    /\ conn[c].pc \in {"farewell", "read", "judge", "decoded", "undecoded", "append", "leave"}
    /\ GoTo(c, IF conn[c].pc = "leave" THEN "closed" ELSE "lost")
    /\ UNCHANGED metrics

-----------------------------------------------------------------------------

Next == \/ ThrottleSubmission
        \/ \E c \in Conns :
              \/ Open(c) \/ CheckThrottle(c) \/ Farewell(c) \/ Read(c) \/ Judge(c)
              \/ ReplyToUndecoded(c) \/ ReplyToDecoded(c)
              \/ AppendMetrics(c) \/ Leave(c) \/ Timeout(c)

Spec == Init /\ [][Next]_vars

\* The runtime goes on with a task that need not wait, and fires its timeout.
\* A team may neither send nor read.
Fairness == \A c \in Conns : WF_vars(CheckThrottle(c)) /\ WF_vars(Timeout(c))

FairSpec == Spec /\ Fairness
-----------------------------------------------------------------------------
(* Properties *)

\* Types of the variables (flagbot.rs FlagSubmissionMetrics); nothing waits in
\* the first writer's buffer.
TypeOK ==
    /\ throttle \in BOOLEAN /\ toggles \in 0..MaxToggles
    /\ conn \in [Conns -> ConnState]
    /\ \A c \in Conns : ~conn[c].buffered => conn[c].unsent = 0
    /\ metrics \in [Teams -> Counts]

\* A connection that never saw the throttle off passes no limit, whatever it
\* sends, although each kind is compared in its own way and only before the next
\* line is read (flagbot.rs:627-663).
ThrottledCountsBounded ==
    \A c \in Conns : conn[c].throttled =>
        \A s \in Limited : conn[c].counts[s] <= Limit[s]

\* A team's metrics are the sums over its connections that got to append their
\* counts, in any order of their ends; what the timeout or an error cuts off
\* before that is missing (flagbot.rs:752-758).
MetricsAddUp ==
    \A t \in Teams, s \in Status : metrics[t][s] =
        SumFunctionOnSet([c \in Conns |-> conn[c].counts[s]],
            {c \in Conns : TeamOf[c] = t /\ conn[c].pc \in {"leave", "closed"}})

\* "For initial flag submission we need an un-buffered writer.  Since we need to
\* give the players instant feedback": no reply waits in a buffer before the
\* limit is reached (flagbot.rs:743-744).
InstantFeedback ==
    \A c \in Conns : Total(conn[c].counts) < NonBufferingLimit => conn[c].unsent = 0

\* Every connection ends, whether or not the team reads or sends (flagbot.rs:452).
EveryConnectionEnds ==
    \A c \in Conns : conn[c].pc = "check" ~> conn[c].pc \in {"closed", "lost"}

-----------------------------------------------------------------------------
(* What the comments say and the code does not do: each has an instance
   in which TLC refutes it. *)

\* "Close Connection if the submission has hit some threshold" (flagbot.rs:628).
ThresholdCloses ==
    [][\A c \in Conns :
        conn[c].pc = "check" /\ throttle /\ (\E s \in Limited : conn[c].counts[s] >= Limit[s])
            => conn'[c].pc # "read"]_vars

\* "Number of flags to receive before starting to buffer the connection"
\* (flagbot.rs:773): from then on the writer is a buffered one.
BufferedFromLimit ==
    \A c \in Conns : conn[c].pc = "check" /\ Total(conn[c].counts) > NonBufferingLimit
        => conn[c].buffered
=============================================================================
