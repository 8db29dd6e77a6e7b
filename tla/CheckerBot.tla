----------------------------- MODULE CheckerBot -----------------------------
(***************************************************************************)
(* The way of a request to a checker and back (checker.rs): tasks of the   *)
(* game send requests into the checkerbot's channel; CheckerBot::run is a  *)
(* proxy that forwards each into the channel of its service; the process   *)
(* of the service, RequestMsg::handle, spawns a task that calls the        *)
(* checker and answers through the request's oneshot channel.              *)
(*                                                                         *)
(* What the answers say, and what they are used for, is ServiceState.  The *)
(* calls over the network, with their timeout and concurrency limit, are a *)
(* single step that comes when it comes.                                   *)
(***************************************************************************)
EXTENDS Integers, Sequences, FiniteSets, Functions

CONSTANTS
    Services,
    Requests,
    ServiceOf,      \* the service a request is about, by its slot or its id
    Tasks,          \* tasks of the game that send requests
    Script,         \* the requests that a task sends, in order
    Cap,            \* capacity of the channels (10 in the code)
    Silent          \* services whose checker need not answer or fail

ASSUME CheckerAssumption ==
    /\ ServiceOf \in [Requests -> Services] /\ Silent \subseteq Services
    /\ Script \in [Tasks -> Seq(Requests)]
    \* A request holds an end of its own oneshot channel: none is sent twice.
    /\ \A t, u \in Tasks : \A i \in DOMAIN Script[t], j \in DOMAIN Script[u] :
          Script[t][i] = Script[u][j] => t = u /\ i = j
    /\ Cap \in Nat \ {0}

VARIABLES
    todo,       \* what each task has still to send
    comm,       \* the checkerbot's channel
    held,       \* the request that the proxy forwards, if any
    handler,    \* the process of each service: "up", or "dead"
    queue,      \* its channel
    calls,      \* requests whose task has been spawned and has not answered
    reply       \* what became of the oneshot channel of each request

vars == <<todo, comm, held, handler, queue, calls, reply>>

Nobody == {}

Init ==
    /\ todo = Script /\ comm = <<>> /\ held = Nobody
    \* A process dies as it starts if the URI of its checker is invalid.
    /\ handler \in [Services -> {"up", "dead"}]
    /\ queue = [s \in Services |-> <<>>]
    /\ calls = {}
    /\ reply = [r \in Requests |-> "none"]

\* Comm::checkerbot: a send that waits for room.
Ask(t) ==
    /\ todo[t] # <<>> /\ Len(comm) < Cap
    /\ comm' = Append(comm, Head(todo[t]))
    /\ todo' = [todo EXCEPT ![t] = Tail(@)]
    /\ UNCHANGED <<held, handler, queue, calls, reply>>

-----------------------------------------------------------------------------
(* CheckerBot::run *)

\* Mutant: the proxy waits for the answer to what it has forwarded.
Receive_Awaits ==
    /\ held = Nobody /\ comm # <<>>
    /\ calls = {} /\ \A s \in Services : queue[s] = <<>>
    /\ held' = {Head(comm)} /\ comm' = Tail(comm)
    /\ UNCHANGED <<todo, handler, queue, calls, reply>>

Receive ==
    /\ held = Nobody /\ comm # <<>>
    /\ held' = {Head(comm)} /\ comm' = Tail(comm)
    /\ UNCHANGED <<todo, handler, queue, calls, reply>>

\* The proxy waits for room in the channel of the service.
Forward ==
    \E r \in held :
        LET s == ServiceOf[r] IN
        /\ handler[s] = "up" /\ Len(queue[s]) < Cap
        /\ queue' = [queue EXCEPT ![s] = Append(@, r)]
        /\ held' = Nobody
        /\ UNCHANGED <<todo, comm, handler, calls, reply>>

\* The channel of a dead process is closed: the error is logged, and the
\* request is dropped with its end of the oneshot channel.
ForwardFails ==
    \E r \in held :
        /\ handler[ServiceOf[r]] = "dead"
        /\ reply' = [reply EXCEPT ![r] = "dropped"]
        /\ held' = Nobody
        /\ UNCHANGED <<todo, comm, handler, queue, calls>>

-----------------------------------------------------------------------------
(* RequestMsg::handle; plant_flag, check_flag and check_service *)

\* Mutant: the process makes the call itself.
Spawn_Awaits(s) ==
    /\ handler[s] = "up" /\ queue[s] # <<>>
    /\ \A r \in calls : ServiceOf[r] # s
    /\ calls' = calls \cup {Head(queue[s])}
    /\ queue' = [queue EXCEPT ![s] = Tail(@)]
    /\ UNCHANGED <<todo, comm, held, handler, reply>>

Spawn(s) ==
    /\ handler[s] = "up" /\ queue[s] # <<>>
    /\ calls' = calls \cup {Head(queue[s])}
    /\ queue' = [queue EXCEPT ![s] = Tail(@)]
    /\ UNCHANGED <<todo, comm, held, handler, reply>>

\* A state, or Failed: the call fails, is timed out, or its response has no status.
Answer(r) ==
    /\ r \in calls
    /\ \E outcome \in {"state", "failed"} : reply' = [reply EXCEPT ![r] = outcome]
    /\ calls' = calls \ {r}
    /\ UNCHANGED <<todo, comm, held, handler, queue>>

-----------------------------------------------------------------------------

Proxy == Receive \/ Forward \/ ForwardFails

Next == \/ \E t \in Tasks : Ask(t)
        \/ Proxy
        \/ \E s \in Services : Spawn(s)
        \/ \E r \in Requests : Answer(r)

Spec == Init /\ [][Next]_vars

\* Tasks go on when they can.  A checker that is not silent answers, or the
\* timeout of the call fires; of a silent one nothing is assumed, not even the
\* timeout, which is as long as the configuration says.
Fairness == /\ \A t \in Tasks : WF_vars(Ask(t))
            /\ WF_vars(Proxy)
            /\ \A s \in Services : WF_vars(Spawn(s))
            /\ \A r \in Requests : ServiceOf[r] \notin Silent => WF_vars(Answer(r))

FairSpec == Spec /\ Fairness
-----------------------------------------------------------------------------
(* Properties *)

\* Types of the variables (checker.rs CheckerBot, RequestMsg).
TypeOK ==
    /\ todo \in [Tasks -> Seq(Requests)]
    /\ comm \in Seq(Requests) /\ Len(comm) <= Cap
    /\ held \in SUBSET Requests /\ \A r, q \in held : r = q
    /\ handler \in [Services -> {"up", "dead"}]
    /\ queue \in [Services -> Seq(Requests)] /\ \A s \in Services : Len(queue[s]) <= Cap
    /\ calls \in SUBSET Requests
    /\ reply \in [Requests -> {"none", "state", "failed", "dropped"}]

Places == {"todo", "comm", "held", "queue", "calls", "reply"}

\* Where a request is.
At(r, place) ==
    \/ place = "todo"  /\ \E t \in Tasks : r \in Range(todo[t])
    \/ place = "comm"  /\ r \in Range(comm)
    \/ place = "held"  /\ r \in held
    \/ place = "queue" /\ r \in Range(queue[ServiceOf[r]])
    \/ place = "calls" /\ r \in calls
    \/ place = "reply" /\ reply[r] # "none"

\* A request that a task has to send is in one place until it is answered, and is
\* answered from there only: none is lost between the channels, none is answered
\* twice, and none is with the process of another service (checker.rs:116-157).
OnePlace ==
    /\ \A r \in UNION {Range(Script[t]) : t \in Tasks} : \E place \in Places : At(r, place)
    /\ \A r \in Requests, p, q \in Places : At(r, p) /\ At(r, q) => p = q
    /\ \A s \in Services, r \in Requests : r \in Range(queue[s]) => ServiceOf[r] = s

\* The tasks of the game, above all the loop that hands out the flags of a round,
\* get rid of all their requests, however few of them the channels hold and
\* whether or not any checker answers (checker.rs:221, game.rs:593).
RequestsAreTaken == \A t \in Tasks : <>(todo[t] = <<>>)

\* A checker that does not answer holds up only the requests for its own
\* service: those for other services are answered, or dropped by a dead process,
\* although all pass through the same proxy (checker.rs:102, "for every service,
\* we create a dedicated process").
SilentCheckerIsAlone ==
    \A r \in Requests : ServiceOf[r] \notin Silent => <>(reply[r] # "none")
=============================================================================
