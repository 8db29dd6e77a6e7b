---------------------------- MODULE FlagEndpoint ----------------------------
(***************************************************************************)
(* The TCP endpoint that accepts the teams' connections: FlagBot::run,     *)
(* create_tcp_endpoint and the control messages of Msg::handle             *)
(* (flagbot.rs), driven by the handlers of the admin's commands            *)
(* (admin_handlers.rs).  The endpoint is told of a Start or a Pause by     *)
(* notify_waiters, which reaches only a `notified()` future that exists at *)
(* that moment; every endpoint has semaphores of its own; a connection is  *)
(* a task that waits for a permit and then serves.                         *)
(*                                                                         *)
(* Of a TcpConfig only max_connection matters here, so a configuration is  *)
(* that number; FlagConnection has the other limits.  The Start and Pause  *)
(* that the game sends to the flagbot arrive in the same channel as those  *)
(* of the admin.                                                           *)
(***************************************************************************)
EXTENDS Integers, Sequences, FiniteSets

CONSTANTS
    Teams,
    Stranger,       \* an address that belongs to no team
    Conns,          \* connections, each made at most once
    TeamOf,         \* the team whose address a connection comes from
    Limits,         \* values of TcpConfig.max_connection
    DefaultLimit,   \* the one of TcpConfig::default()
    Admins,         \* HTTP requests that are handled at the same time
    MailCap,        \* capacity of the flagbot's channel (10 in the code)
    MaxCommands,    \* bound: admin commands
    MaxErrors       \* bound: failed bind() and accept() calls

ASSUME EndpointAssumption ==
    /\ Stranger \notin Teams /\ TeamOf \in [Conns -> Teams \cup {Stranger}]
    /\ IsFiniteSet(Conns)
    /\ Limits \subseteq Nat /\ DefaultLimit \in Limits
    /\ MailCap \in Nat \ {0} /\ MaxCommands \in Nat /\ MaxErrors \in Nat

VARIABLES
    \* command (admin_handlers.rs)
    admin,          \* what each request has still to do
    \* Msg::handle
    mail,           \* the flagbot's channel, restricted to control messages
    handler,        \* "recv", or "notify": the state is set, the waiters are not notified
    running,        \* Model.running
    tcpConfig,      \* Model.tcp_config
    \* FlagBot::run and create_tcp_endpoint
    server,         \* where the task stands
    notified,       \* its pending notified() future has been notified
    endpoints,      \* the config every endpoint was created with; the last one is current
    \* connections
    conn,           \* phase and endpoint of each
    tcpConnections, \* Metrics.tcp_connections
    \* bounds
    commands, errors

adminVars   == <<admin, commands>>
handlerVars == <<handler, running, tcpConfig>>
serverVars  == <<server, notified, endpoints, errors>>
connVars    == <<conn, tcpConnections>>
vars == <<adminVars, mail, handlerVars, serverVars, connVars>>

-----------------------------------------------------------------------------
(* Data *)

Start == [type |-> "Start"]
Pause == [type |-> "Pause"]
Sleep == [type |-> "Sleep"]
UpdateTcpConfig(l) == [type |-> "UpdateTcpConfig", limit |-> l]

Msg == {Start, Pause} \cup {UpdateTcpConfig(l) : l \in Limits}

\* The steps of the handler of SetTcpConfig.
SetTcpConfig(l) == <<UpdateTcpConfig(l), Pause, Sleep, Start>>

Scripts == {<<Start>>, <<Pause>>} \cup {SetTcpConfig(l) : l \in Limits}

\* Where the task stands: "idle" is about to create a notified() future and
\* "waiting" has one; likewise "select" and "listening" in the endpoint.
Closed  == {"idle", "waiting", "woken", "configure", "bind"}
Serving == {"select", "listening", "check", "accepting"}

Phases == {"none", "backlog", "reset", "accepted", "refused", "spawned",
           "queued", "open", "closed"}

\* The connections of a team that stand in a phase and belong to an endpoint.
In(phase, e, t) ==
    {c \in Conns : conn[c].phase = phase /\ conn[c].endpoint = e /\ TeamOf[c] = t}

\* available_permits: a permit that is given back goes to a waiting task.
Available(e, t) == endpoints[e] - Cardinality(In("open", e, t))

Move(c, phase) == conn' = [conn EXCEPT ![c].phase = phase]

-----------------------------------------------------------------------------

Init ==
    /\ admin = [a \in Admins |-> <<>>] /\ commands = 0
    /\ mail = <<>> /\ handler = "recv" /\ running = TRUE
    /\ tcpConfig = DefaultLimit
    /\ server = "idle" /\ notified = FALSE /\ endpoints = <<>> /\ errors = 0
    /\ conn = [c \in Conns |-> [phase |-> "none", endpoint |-> 0]]
    /\ tcpConnections = [t \in Teams |-> 0]

-----------------------------------------------------------------------------
(* The admin's commands *)

Command(a) ==
    /\ commands < MaxCommands /\ admin[a] = <<>>
    /\ commands' = commands + 1
    /\ \E script \in Scripts : admin' = [admin EXCEPT ![a] = script]
    /\ UNCHANGED <<mail, handlerVars, serverVars, connVars>>

\* Mutant: an unbounded channel.
AdminSends_Unbounded(a) ==
    /\ admin[a] # <<>> /\ Head(admin[a]) # Sleep
    /\ mail' = Append(mail, Head(admin[a]))
    /\ admin' = [admin EXCEPT ![a] = Tail(@)]
    /\ UNCHANGED <<commands, handlerVars, serverVars, connVars>>

AdminSends(a) ==
    /\ admin[a] # <<>> /\ Head(admin[a]) # Sleep
    /\ Len(mail) < MailCap
    /\ mail' = Append(mail, Head(admin[a]))
    /\ admin' = [admin EXCEPT ![a] = Tail(@)]
    /\ UNCHANGED <<commands, handlerVars, serverVars, connVars>>

\* The sleep of 500 ms ends whatever the flagbot has done meanwhile.
AdminWakes(a) ==
    /\ admin[a] # <<>> /\ Head(admin[a]) = Sleep
    /\ admin' = [admin EXCEPT ![a] = Tail(@)]
    /\ UNCHANGED <<commands, mail, handlerVars, serverVars, connVars>>

-----------------------------------------------------------------------------
(* Msg::handle *)

Receives(type) ==
    /\ handler = "recv" /\ mail # <<>> /\ Head(mail).type = type
    /\ mail' = Tail(mail)
    /\ UNCHANGED <<adminVars, serverVars, connVars>>

\* running is stored first; the waiters are notified in a step of its own.
HandleStart ==
    /\ Receives("Start")
    /\ running' = TRUE /\ handler' = "notify"
    /\ UNCHANGED tcpConfig

HandlePause ==
    /\ Receives("Pause")
    /\ running' = FALSE /\ handler' = "notify"
    /\ UNCHANGED tcpConfig

HandleUpdateTcpConfig ==
    /\ Receives("UpdateTcpConfig")
    /\ tcpConfig' = Head(mail).limit
    /\ UNCHANGED <<handler, running>>

\* notify_waiters wakes the future that exists and leaves nothing for a later one.
NotifyWaiters ==
    /\ handler = "notify" /\ handler' = "recv"
    /\ notified' = (notified \/ server \in {"waiting", "listening"})
    /\ UNCHANGED <<adminVars, mail, running, tcpConfig, server, endpoints, errors, connVars>>

-----------------------------------------------------------------------------
(* FlagBot::run *)

GoTo(s) == server' = s

\* notify.notified() is created ...
Register ==
    /\ server = "idle" /\ GoTo("waiting")
    /\ UNCHANGED <<adminVars, mail, handlerVars, notified, endpoints, errors, connVars>>

\* ... and resolves.
Wake ==
    /\ server = "waiting" /\ notified
    /\ GoTo("woken") /\ notified' = FALSE
    /\ UNCHANGED <<adminVars, mail, handlerVars, endpoints, errors, connVars>>

LookAtRunning ==
    /\ server = "woken"
    /\ GoTo(IF running THEN "configure" ELSE "idle")
    /\ UNCHANGED <<adminVars, mail, handlerVars, notified, endpoints, errors, connVars>>

-----------------------------------------------------------------------------
(* create_tcp_endpoint *)

\* Mutant: the configuration is cloned once, for the first endpoint.
Configure_Once ==
    /\ server = "configure" /\ GoTo("bind")
    /\ endpoints' = Append(endpoints, IF endpoints = <<>> THEN tcpConfig ELSE endpoints[1])
    /\ UNCHANGED <<adminVars, mail, handlerVars, notified, errors, connVars>>

\* The configuration is cloned, and the semaphores are new.
Configure ==
    /\ server = "configure" /\ GoTo("bind")
    /\ endpoints' = Append(endpoints, tcpConfig)
    /\ UNCHANGED <<adminVars, mail, handlerVars, notified, errors, connVars>>

Bind ==
    /\ server = "bind" /\ GoTo("select")
    /\ UNCHANGED <<adminVars, mail, handlerVars, notified, endpoints, errors, connVars>>

\* The error is logged; nobody tries again before the next notification.
BindFails ==
    /\ server = "bind" /\ GoTo("idle")
    /\ errors < MaxErrors /\ errors' = errors + 1
    /\ UNCHANGED <<adminVars, mail, handlerVars, notified, endpoints, connVars>>

\* select! creates its two futures anew in every iteration.
Select ==
    /\ server = "select" /\ GoTo("listening")
    /\ UNCHANGED <<adminVars, mail, handlerVars, notified, endpoints, errors, connVars>>

Notice ==
    /\ server = "listening" /\ notified
    /\ GoTo("check") /\ notified' = FALSE
    /\ UNCHANGED <<adminVars, mail, handlerVars, endpoints, errors, connVars>>

\* A closed listener resets the connections that it has not accepted.
CheckRunning ==
    /\ server = "check"
    /\ GoTo(IF running THEN "select" ELSE "idle")
    /\ conn' = [c \in Conns |-> IF ~running /\ conn[c].phase = "backlog"
                                THEN [conn[c] EXCEPT !.phase = "reset"] ELSE conn[c]]
    /\ UNCHANGED <<adminVars, mail, handlerVars, notified, endpoints, errors, tcpConnections>>

\* When both futures are ready select! takes either; the notification of the
\* one it drops is gone.
Accept(c) ==
    /\ server = "listening" /\ conn[c].phase = "backlog"
    /\ GoTo("accepting") /\ notified' = FALSE
    /\ conn' = [conn EXCEPT ![c] = [phase |-> "accepted", endpoint |-> Len(endpoints)]]
    /\ UNCHANGED <<adminVars, mail, handlerVars, endpoints, errors, tcpConnections>>

AcceptFails ==
    /\ server = "listening"
    /\ GoTo("select") /\ notified' = FALSE
    /\ errors < MaxErrors /\ errors' = errors + 1
    /\ UNCHANGED <<adminVars, mail, handlerVars, endpoints, connVars>>

\* Mutant: only the connections that get a task are counted.
Admit_CountsServed(c) ==
    LET t == TeamOf[c]
        served == t \in Teams /\ Available(conn[c].endpoint, t) > 0
    IN
    /\ server = "accepting" /\ conn[c].phase = "accepted"
    /\ Move(c, IF served THEN "spawned" ELSE "refused")
    /\ tcpConnections' = [u \in Teams |-> tcpConnections[u] + IF u = t /\ served THEN 1 ELSE 0]
    /\ GoTo("select")
    /\ UNCHANGED <<adminVars, mail, handlerVars, notified, endpoints, errors>>

\* With the metrics' lock: count the connection, look for a free permit, and
\* spawn a task that serves the connection or one that refuses it.
Admit(c) ==
    LET t == TeamOf[c] IN
    /\ server = "accepting" /\ conn[c].phase = "accepted"
    /\ Move(c, IF t \in Teams /\ Available(conn[c].endpoint, t) > 0
               THEN "spawned" ELSE "refused")
    /\ tcpConnections' = [u \in Teams |-> tcpConnections[u] + IF u = t THEN 1 ELSE 0]
    /\ GoTo("select")
    /\ UNCHANGED <<adminVars, mail, handlerVars, notified, endpoints, errors>>

-----------------------------------------------------------------------------
(* Connections *)

Connect(c) ==
    /\ conn[c].phase = "none" /\ server \in Serving
    /\ Move(c, "backlog")
    /\ UNCHANGED <<adminVars, mail, handlerVars, serverVars, tcpConnections>>

\* Mutant: `let _ = semaphore.acquire()` drops the permit at once.
Acquire_Dropped(c) ==
    /\ conn[c].phase = "spawned"
    /\ Move(c, "open")
    /\ UNCHANGED <<adminVars, mail, handlerVars, serverVars, tcpConnections>>

\* The spawned task takes a permit or waits for one; the 30 s timeout starts
\* with the permit.
Acquire(c) ==
    /\ conn[c].phase = "spawned"
    /\ Move(c, IF Available(conn[c].endpoint, TeamOf[c]) > 0 THEN "open" ELSE "queued")
    /\ UNCHANGED <<adminVars, mail, handlerVars, serverVars, tcpConnections>>

\* Mutant: the permit is forgotten, not dropped.
Finish_Forgets(c) ==
    /\ conn[c].phase = "open"
    /\ Move(c, "closed")
    /\ UNCHANGED <<adminVars, mail, handlerVars, serverVars, tcpConnections>>

\* handle_tcp_connection returns, fails, or is cut off; its permit goes to a
\* task that waits for it, if there is one.
Finish(c) ==
    LET waiting == In("queued", conn[c].endpoint, TeamOf[c]) IN
    /\ conn[c].phase = "open"
    /\ IF waiting = {}
       THEN Move(c, "closed")
       ELSE \E q \in waiting :
              conn' = [conn EXCEPT ![c].phase = "closed", ![q].phase = "open"]
    /\ UNCHANGED <<adminVars, mail, handlerVars, serverVars, tcpConnections>>

-----------------------------------------------------------------------------

Handle == HandleStart \/ HandlePause \/ HandleUpdateTcpConfig \/ NotifyWaiters

Server == \/ Register \/ Wake \/ LookAtRunning \/ Configure \/ Bind
          \/ Select \/ Notice \/ CheckRunning
          \/ \E c \in Conns : Accept(c) \/ Admit(c)

Next == \/ \E a \in Admins : Command(a) \/ AdminSends(a) \/ AdminWakes(a)
        \/ Handle \/ Server \/ BindFails \/ AcceptFails
        \/ \E c \in Conns : Connect(c) \/ Acquire(c) \/ Finish(c)

Spec == Init /\ [][Next]_vars

\* Requests, the two tasks of the flagbot and the connections' tasks go on
\* when they can; the timeout ends every connection.  Nothing is assumed of
\* commands, of teams that connect, and of errors.
Fairness == /\ \A a \in Admins : WF_vars(AdminSends(a)) /\ WF_vars(AdminWakes(a))
            /\ WF_vars(Handle) /\ WF_vars(Server)
            /\ \A c \in Conns : WF_vars(Acquire(c)) /\ WF_vars(Finish(c))

FairSpec == Spec /\ Fairness
-----------------------------------------------------------------------------
(* Properties *)

\* Types of the variables (flagbot.rs Model, TcpConfig, Metrics).
TypeOK ==
    /\ admin \in [Admins -> Seq(Msg \cup {Sleep})]
    /\ mail \in Seq(Msg) /\ Len(mail) <= MailCap
    /\ handler \in {"recv", "notify"} /\ running \in BOOLEAN /\ tcpConfig \in Limits
    /\ server \in Closed \cup Serving /\ notified \in BOOLEAN
    /\ endpoints \in Seq(Limits)
    /\ conn \in [Conns -> [phase : Phases, endpoint : Nat]]
    /\ tcpConnections \in [Teams -> Nat]
    /\ commands \in 0..MaxCommands /\ errors \in 0..MaxErrors

\* However the look at available_permits, the spawn of the task, acquire and
\* the hand-over of permits interleave, an endpoint serves no team on more
\* connections than it was configured for (flagbot.rs:431, 448).
OpenWithinLimit ==
    \A e \in DOMAIN endpoints, t \in Teams :
        Cardinality(In("open", e, t)) <= endpoints[e]

\* tcp_connections counts every connection the endpoint answered, the refused
\* ones included (flagbot.rs:421-427).
ConnectionsAreCounted ==
    \A t \in Teams : tcpConnections[t] =
        Cardinality({c \in Conns : TeamOf[c] = t
            /\ conn[c].phase \in {"refused", "spawned", "queued", "open", "closed"}})

\* A connection that found a permit free and then had to wait for it is served
\* in the end, because the timeout ends the others (flagbot.rs:448-462).
WaitingIsServed ==
    \A c \in Conns : conn[c].phase = "queued" ~> conn[c].phase = "open"

\* All commands have been given, and all but the last one are done.
LastIs(message) ==
    /\ commands = MaxCommands /\ \A a \in Admins : admin[a] = <<>>
    /\ handler = "recv" /\ mail = <<message>>

\* A Start that finds FlagBot::run waiting opens the endpoint, unless binding
\* fails, and opens it with the configuration in force: a restart whose Pause
\* has closed the endpoint takes the new limit (flagbot.rs:346-368, 384;
\* admin_handlers.rs:36-45).
StartOpensEndpoint ==
    (LastIs(Start) /\ server = "waiting" /\ ~notified /\ errors = MaxErrors)
        ~> (server \in Serving /\ endpoints[Len(endpoints)] = tcpConfig)

-----------------------------------------------------------------------------
(* What the comments say and the code does not do: each has an instance
   in which TLC refutes it. *)

\* "closes the endpoint if the running state has been changed to false"
\* (flagbot.rs:406).
PauseClosesEndpoint ==
    LastIs(Pause) /\ errors = MaxErrors ~> server \in Closed

\* "Start accepting flags." (flagbot.rs:170)
StartAcceptsFlags ==
    LastIs(Start) /\ errors = MaxErrors ~> server \in Serving

\* "Restart flagbot for the configuration to be effective." (admin_handlers.rs:39),
\* "Only works with a sleep." (admin_handlers.rs:42): a restart of an endpoint
\* to which nobody connects meanwhile opens one with the new configuration.
Quiet == \A c \in Conns : conn[c].phase \notin {"none", "backlog"}
RestartTakesEffect ==
    \A a \in Admins, l \in Limits :
        (/\ commands = MaxCommands /\ admin[a] = SetTcpConfig(l)
         /\ \A b \in Admins \ {a} : admin[b] = <<>>
         /\ mail = <<>> /\ handler = "recv"
         /\ server = "listening" /\ ~notified /\ Quiet /\ errors = MaxErrors)
        ~> (server \in Serving /\ endpoints[Len(endpoints)] = l)

\* "Stop accepting flags." (flagbot.rs:176)
PausedServesNobody ==
    ~running /\ server \in Closed => \A c \in Conns : conn[c].phase # "open"

\* "Max number of connections from a team." (flagbot.rs:783): a team is served
\* on no more connections than the largest limit that was in force.
TeamWithinLimit ==
    \A t \in Teams :
        LET served == UNION {In("open", e, t) : e \in DOMAIN endpoints} IN
        served # {} => \E e \in DOMAIN endpoints : Cardinality(served) <= endpoints[e]

\* "We have exhausted the limit of connections a team is permitted to create,
\* so notify the team and close the connection." (flagbot.rs:432-433): what is
\* above the limit is refused.
SurplusIsRefused ==
    \A e \in DOMAIN endpoints, t \in Teams :
        Cardinality(In("spawned", e, t) \cup In("queued", e, t) \cup In("open", e, t))
            <= endpoints[e]
=============================================================================
