------------------------- MODULE FlagEndpointProofs -------------------------
(* The limit of connections and their count, for any teams, connections,   *)
(* limits and number of endpoints.                                         *)
EXTENDS FlagEndpoint, FiniteSetTheorems, TLAPS

\* A connection belongs to an endpoint that exists, or to none.
KnownEndpoints == \A c \in Conns : conn[c].endpoint \in 0..Len(endpoints)

EndpointInv == TypeOK /\ KnownEndpoints /\ OpenWithinLimit /\ ConnectionsAreCounted

ConnState == [phase : Phases, endpoint : Nat]

Open(e, t) == In("open", e, t)

Answered == {"refused", "spawned", "queued", "open", "closed"}
Counted(t) == {c \in Conns : TeamOf[c] = t /\ conn[c].phase \in Answered}

-----------------------------------------------------------------------------
(* Typing *)

LEMMA ScriptsTyped == Scripts \subseteq Seq(Msg \cup {Sleep})
<1>1. Start \in Msg /\ Pause \in Msg /\ \A l \in Limits : UpdateTcpConfig(l) \in Msg
  BY DEF Msg
<1>2. \A m \in Msg : <<m>> \in Seq(Msg \cup {Sleep})
  OBVIOUS
<1>3. \A m1, m2, m3 \in Msg : <<m1, m2, Sleep, m3>> \in Seq(Msg \cup {Sleep})
  OBVIOUS
<1>. QED
  BY <1>1, <1>2, <1>3, Zenon DEF Scripts, SetTcpConfig

LEMMA InitType == Init => TypeOK
<1>. SUFFICES ASSUME Init PROVE TypeOK
  OBVIOUS
<1>1. running \in BOOLEAN /\ notified \in BOOLEAN
  BY Zenon DEF Init
<1>2. admin \in [Admins -> Seq(Msg \cup {Sleep})] /\ mail \in Seq(Msg) /\ Len(mail) <= MailCap
      /\ endpoints \in Seq(Limits)
  BY EndpointAssumption DEF Init
<1>3. handler \in {"recv", "notify"} /\ tcpConfig \in Limits /\ server \in Closed \cup Serving
      /\ commands \in 0..MaxCommands /\ errors \in 0..MaxErrors
  BY EndpointAssumption DEF Init, Closed
<1>4. conn \in [Conns -> ConnState] /\ tcpConnections \in [Teams -> Nat]
  BY DEF Init, ConnState, Phases
<1>. QED
  BY <1>1, <1>2, <1>3, <1>4, Zenon DEF TypeOK, ConnState

\* The requests and the handler.
LEMMA AdminType ==
    ASSUME TypeOK,
           (\E a \in Admins : Command(a) \/ AdminSends(a) \/ AdminWakes(a)) \/ Handle
    PROVE  TypeOK'
<1>. USE EndpointAssumption
<1>1. ASSUME NEW a \in Admins, Command(a) PROVE TypeOK'
  <2>1. admin' \in [Admins -> Seq(Msg \cup {Sleep})] /\ commands' \in 0..MaxCommands
    BY <1>1, ScriptsTyped DEF Command, TypeOK
  <2>. QED
    BY <1>1, <2>1 DEF Command, TypeOK, handlerVars, serverVars, connVars
<1>2. ASSUME NEW a \in Admins, AdminSends(a) PROVE TypeOK'
  <2>1. admin[a] \in Seq(Msg \cup {Sleep}) /\ admin[a] # <<>> /\ Head(admin[a]) \in Msg
    BY <1>2 DEF AdminSends, TypeOK
  <2>2. admin' \in [Admins -> Seq(Msg \cup {Sleep})]
    BY <1>2, <2>1 DEF AdminSends, TypeOK
  <2>3. mail' \in Seq(Msg) /\ Len(mail') <= MailCap
    BY <1>2, <2>1 DEF AdminSends, TypeOK
  <2>. QED
    BY <1>2, <2>2, <2>3 DEF AdminSends, TypeOK, handlerVars, serverVars, connVars
<1>3. ASSUME NEW a \in Admins, AdminWakes(a) PROVE TypeOK'
  <2>1. admin' \in [Admins -> Seq(Msg \cup {Sleep})]
    BY <1>3 DEF AdminWakes, TypeOK
  <2>. QED
    BY <1>3, <2>1 DEF AdminWakes, TypeOK, handlerVars, serverVars, connVars
<1>4. CASE HandleStart \/ HandlePause \/ HandleUpdateTcpConfig
  <2>1. mail \in Seq(Msg) /\ mail # <<>> /\ mail' = Tail(mail)
    BY <1>4 DEF HandleStart, HandlePause, HandleUpdateTcpConfig, Receives, TypeOK
  <2>2. mail' \in Seq(Msg) /\ Len(mail') <= MailCap
    BY <2>1 DEF TypeOK
  <2>3. Head(mail).type = "UpdateTcpConfig" => Head(mail).limit \in Limits
    BY <2>1 DEF Msg, Start, Pause, UpdateTcpConfig
  <2>4. tcpConfig' \in Limits
    BY <1>4, <2>3 DEF HandleStart, HandlePause, HandleUpdateTcpConfig, Receives, TypeOK
  <2>5. running' \in BOOLEAN
    BY <1>4, Zenon DEF HandleStart, HandlePause, HandleUpdateTcpConfig, TypeOK
  <2>6. handler' \in {"recv", "notify"}
    BY <1>4 DEF HandleStart, HandlePause, HandleUpdateTcpConfig, TypeOK
  <2>7. UNCHANGED <<adminVars, serverVars, connVars>>
    BY <1>4 DEF HandleStart, HandlePause, HandleUpdateTcpConfig, Receives
  <2>. QED
    BY <2>2, <2>4, <2>5, <2>6, <2>7 DEF TypeOK, adminVars, serverVars, connVars
<1>5. CASE NotifyWaiters
  BY <1>5 DEF NotifyWaiters, TypeOK, adminVars, connVars
<1>. QED
  BY <1>1, <1>2, <1>3, <1>4, <1>5 DEF Handle

\* The task of the endpoint, but for the connections it meets.
ServerAlone == \/ Register \/ Wake \/ LookAtRunning \/ Configure \/ Bind \/ BindFails
               \/ Select \/ Notice \/ AcceptFails

LEMMA ServerType ==
    ASSUME TypeOK, ServerAlone
    PROVE  TypeOK'
<1>1. server' \in Closed \cup Serving
  BY DEF ServerAlone, Register, Wake, LookAtRunning, Configure, Bind, BindFails, Select,
         Notice, AcceptFails, GoTo, Closed, Serving
<1>2. notified' \in BOOLEAN
  BY Zenon DEF ServerAlone, Register, Wake, LookAtRunning, Configure, Bind, BindFails, Select,
         Notice, AcceptFails, TypeOK
<1>3. endpoints' \in Seq(Limits)
  <2>1. endpoints' = endpoints \/ endpoints' = Append(endpoints, tcpConfig)
    BY DEF ServerAlone, Register, Wake, LookAtRunning, Configure, Bind, BindFails, Select,
           Notice, AcceptFails
  <2>2. endpoints \in Seq(Limits) /\ tcpConfig \in Limits
    BY DEF TypeOK
  <2>. QED
    BY <2>1, <2>2
<1>4. errors' = errors \/ (errors < MaxErrors /\ errors' = errors + 1)
  BY DEF ServerAlone, Register, Wake, LookAtRunning, Configure, Bind, BindFails, Select,
         Notice, AcceptFails
<1>5. errors' \in 0..MaxErrors
  BY <1>4, EndpointAssumption DEF TypeOK
<1>6. UNCHANGED <<adminVars, mail, handlerVars, connVars>>
  BY DEF ServerAlone, Register, Wake, LookAtRunning, Configure, Bind, BindFails, Select,
         Notice, AcceptFails
<1>. QED
  BY <1>1, <1>2, <1>3, <1>5, <1>6 DEF TypeOK, adminVars, handlerVars, connVars

\* What becomes of the connections.
ConnStep == \/ CheckRunning
            \/ \E c \in Conns : \/ Accept(c) \/ Admit(c) \/ Connect(c)
                                \/ Acquire(c) \/ Finish(c)

LEMMA MoveType ==
    ASSUME TypeOK, NEW c \in Conns, NEW phase \in Phases, Move(c, phase)
    PROVE  conn' \in [Conns -> ConnState]
BY DEF TypeOK, Move, ConnState

LEMMA ConnType ==
    ASSUME TypeOK, ConnStep
    PROVE  TypeOK'
<1>1. CASE CheckRunning
  <2>1. conn' \in [Conns -> ConnState]
    BY <1>1 DEF CheckRunning, TypeOK, ConnState, Phases
  <2>2. server' \in Closed \cup Serving
    BY <1>1 DEF CheckRunning, GoTo, Closed, Serving
  <2>. QED
    BY <1>1, <2>1, <2>2 DEF CheckRunning, TypeOK, ConnState, adminVars, handlerVars
<1>2. ASSUME NEW c \in Conns, Accept(c) PROVE TypeOK'
  <2>1. Len(endpoints) \in Nat
    BY DEF TypeOK
  <2>2. conn' \in [Conns -> ConnState]
    BY <1>2, <2>1 DEF Accept, TypeOK, ConnState, Phases
  <2>3. server' \in Closed \cup Serving
    BY <1>2 DEF Accept, GoTo, Serving
  <2>. QED
    BY <1>2, <2>2, <2>3 DEF Accept, TypeOK, ConnState, adminVars, handlerVars
<1>3. ASSUME NEW c \in Conns, Admit(c) PROVE TypeOK'
  <2>1. conn' \in [Conns -> ConnState]
    BY <1>3, MoveType DEF Admit, Phases
  <2>2. server' \in Closed \cup Serving
    BY <1>3 DEF Admit, GoTo, Serving
  <2>3. tcpConnections' \in [Teams -> Nat]
    BY <1>3 DEF Admit, TypeOK
  <2>. QED
    BY <1>3, <2>1, <2>2, <2>3 DEF Admit, TypeOK, ConnState, adminVars, handlerVars
<1>4. ASSUME NEW c \in Conns, Connect(c) \/ Acquire(c) PROVE TypeOK'
  <2>1. conn' \in [Conns -> ConnState]
    BY <1>4, MoveType DEF Connect, Acquire, Phases
  <2>. QED
    BY <1>4, <2>1 DEF Connect, Acquire, TypeOK, ConnState, adminVars, handlerVars, serverVars
<1>5. ASSUME NEW c \in Conns, Finish(c) PROVE TypeOK'
  <2>1. conn' \in [Conns -> ConnState]
    <3>1. CASE Move(c, "closed")
      BY <3>1, MoveType DEF Phases
    <3>2. CASE \E q \in Conns :
                  conn' = [conn EXCEPT ![c].phase = "closed", ![q].phase = "open"]
      <4>1. PICK q \in Conns :
                conn' = [conn EXCEPT ![c].phase = "closed", ![q].phase = "open"]
        BY <3>2
      <4>2. /\ DOMAIN conn' = Conns /\ conn' = [d \in Conns |-> conn'[d]]
            /\ \A d \in Conns : conn'[d] \in ConnState
        BY <4>1 DEF TypeOK, ConnState, Phases
      <4>. QED
        BY <4>2
    <3>. QED
      BY <1>5, <3>1, <3>2 DEF Finish, In
  <2>. QED
    BY <1>5, <2>1 DEF Finish, TypeOK, ConnState, adminVars, handlerVars, serverVars
<1>. QED
  BY <1>1, <1>2, <1>3, <1>4, <1>5 DEF ConnStep

\* The three groups of steps.
LEMMA NextSteps ==
    Next <=> \/ (\E a \in Admins : Command(a) \/ AdminSends(a) \/ AdminWakes(a)) \/ Handle
             \/ ServerAlone \/ ConnStep
BY DEF Next, Server, ServerAlone, ConnStep

LEMMA NextType == TypeOK /\ [Next]_vars => TypeOK'
<1>1. ASSUME TypeOK, UNCHANGED vars PROVE TypeOK'
  BY <1>1 DEF TypeOK, vars, adminVars, handlerVars, serverVars, connVars
<1>. QED
  BY <1>1, AdminType, ServerType, ConnType, NextSteps

-----------------------------------------------------------------------------
(* The limit *)

LEMMA OpenFinite ==
    ASSUME NEW e, NEW t
    PROVE  IsFiniteSet(Open(e, t)) /\ Cardinality(Open(e, t)) \in Nat
<1>1. Open(e, t) \subseteq Conns
  BY DEF Open, In
<1>. QED
  BY <1>1, FS_Subset, FS_CardinalityType, EndpointAssumption

LEMMA OpenLimit ==
    ASSUME TypeOK, OpenWithinLimit, NEW e \in DOMAIN endpoints, NEW t \in Teams
    PROVE  e \in Nat /\ endpoints[e] \in Nat /\ Cardinality(Open(e, t)) <= endpoints[e]
<1>1. endpoints \in Seq(Limits)
  BY DEF TypeOK
<1>2. e \in Nat /\ endpoints[e] \in Limits
  BY <1>1
<1>. QED
  BY <1>2, EndpointAssumption DEF OpenWithinLimit, Open

\* A step after which no endpoint serves a connection it did not serve before.
LEMMA FewerOpen ==
    ASSUME TypeOK, OpenWithinLimit, endpoints' = endpoints,
           \A e \in Nat, t \in Teams : Open(e, t)' \subseteq Open(e, t)
    PROVE  OpenWithinLimit'
<1>. SUFFICES ASSUME NEW e \in DOMAIN endpoints, NEW t \in Teams
              PROVE  Cardinality(Open(e, t)') <= endpoints[e]
  BY DEF OpenWithinLimit, Open
<1>1. e \in Nat /\ endpoints[e] \in Nat /\ Cardinality(Open(e, t)) <= endpoints[e]
  BY OpenLimit
<1>2. IsFiniteSet(Open(e, t)) /\ Open(e, t)' \subseteq Open(e, t)
  BY <1>1, OpenFinite
<1>3. Cardinality(Open(e, t)') <= Cardinality(Open(e, t))
      /\ Cardinality(Open(e, t)') \in Nat /\ Cardinality(Open(e, t)) \in Nat
  BY <1>2, FS_Subset, FS_CardinalityType
<1>. QED
  BY <1>1, <1>3

LEMMA MoveOthers ==
    ASSUME TypeOK, NEW c \in Conns, NEW phase, Move(c, phase)
    PROVE  /\ conn'[c].phase = phase /\ conn'[c].endpoint = conn[c].endpoint
           /\ \A d \in Conns \ {c} : conn'[d] = conn[d]
BY DEF TypeOK, Move

\* Taking a free permit.
LEMMA AcquireLimit ==
    ASSUME TypeOK, OpenWithinLimit, NEW c \in Conns, Acquire(c)
    PROVE  OpenWithinLimit'
<1>1. endpoints' = endpoints
  BY DEF Acquire, serverVars
<1>. DEFINE free == Available(conn[c].endpoint, TeamOf[c]) > 0
<1>2. CASE ~free
  <2>1. Move(c, "queued")
    BY <1>2 DEF Acquire
  <2>2. \A e \in Nat, t \in Teams : Open(e, t)' \subseteq Open(e, t)
    BY <2>1, MoveOthers DEF Open, In
  <2>. QED
    BY <1>1, <2>2, FewerOpen
<1>3. CASE free
  <2>1. Move(c, "open") /\ conn[c].phase = "spawned"
    BY <1>3 DEF Acquire
  <2>. SUFFICES ASSUME NEW e \in DOMAIN endpoints, NEW t \in Teams
                PROVE  Cardinality(Open(e, t)') <= endpoints[e]
    BY <1>1 DEF OpenWithinLimit, Open
  <2>2. e \in Nat /\ endpoints[e] \in Nat /\ Cardinality(Open(e, t)) <= endpoints[e]
    BY OpenLimit
  <2>3. IsFiniteSet(Open(e, t)) /\ Cardinality(Open(e, t)) \in Nat
    BY OpenFinite
  <2>4. CASE conn[c].endpoint = e /\ TeamOf[c] = t
    <3>1. Open(e, t)' = Open(e, t) \cup {c} /\ c \notin Open(e, t)
      BY <2>1, <2>4, MoveOthers DEF Open, In
    <3>2. Cardinality(Open(e, t)') = Cardinality(Open(e, t)) + 1
      BY <2>3, <3>1, FS_AddElement
    <3>3. endpoints[e] - Cardinality(Open(e, t)) > 0
      BY <1>3, <2>4 DEF Available, Open
    <3>. QED
      BY <2>2, <2>3, <3>2, <3>3
  <2>5. CASE ~(conn[c].endpoint = e /\ TeamOf[c] = t)
    <3>1. Open(e, t)' = Open(e, t)
      BY <2>1, <2>5, MoveOthers DEF Open, In
    <3>. QED
      BY <2>2, <3>1
  <2>. QED
    BY <2>4, <2>5
<1>. QED
  BY <1>2, <1>3

\* Giving a permit back, or handing it over.
LEMMA FinishLimit ==
    ASSUME TypeOK, OpenWithinLimit, NEW c \in Conns, Finish(c)
    PROVE  OpenWithinLimit'
<1>1. endpoints' = endpoints /\ conn[c].phase = "open"
  BY DEF Finish, serverVars
<1>2. CASE Move(c, "closed")
  <2>1. \A e \in Nat, t \in Teams : Open(e, t)' \subseteq Open(e, t)
    BY <1>2, MoveOthers DEF Open, In
  <2>. QED
    BY <1>1, <2>1, FewerOpen
<1>3. ASSUME NEW q \in In("queued", conn[c].endpoint, TeamOf[c]),
             conn' = [conn EXCEPT ![c].phase = "closed", ![q].phase = "open"]
      PROVE  OpenWithinLimit'
  <2>1. q \in Conns /\ q # c /\ conn[q].phase = "queued"
        /\ conn[q].endpoint = conn[c].endpoint /\ TeamOf[q] = TeamOf[c]
    BY <1>1, <1>3 DEF In
  <2>2. /\ conn'[c].phase = "closed" /\ conn'[q].phase = "open"
        /\ conn'[q].endpoint = conn[c].endpoint
        /\ \A d \in Conns \ {c, q} : conn'[d] = conn[d]
    BY <1>3, <2>1 DEF TypeOK
  <2>. SUFFICES ASSUME NEW e \in DOMAIN endpoints, NEW t \in Teams
                PROVE  Cardinality(Open(e, t)') <= endpoints[e]
    BY <1>1 DEF OpenWithinLimit, Open
  <2>3. e \in Nat /\ endpoints[e] \in Nat /\ Cardinality(Open(e, t)) <= endpoints[e]
    BY OpenLimit
  <2>4. IsFiniteSet(Open(e, t)) /\ Cardinality(Open(e, t)) \in Nat
    BY OpenFinite
  <2>5. CASE conn[c].endpoint = e /\ TeamOf[c] = t
    <3>1. Open(e, t)' = (Open(e, t) \ {c}) \cup {q} /\ c \in Open(e, t) /\ q \notin Open(e, t)
      BY <1>1, <2>1, <2>2, <2>5 DEF Open, In
    <3>2. IsFiniteSet(Open(e, t) \ {c}) /\ Cardinality(Open(e, t) \ {c}) = Cardinality(Open(e, t)) - 1
      BY <2>4, <3>1, FS_RemoveElement
    <3>3. Cardinality(Open(e, t)') = Cardinality(Open(e, t) \ {c}) + 1
      BY <3>1, <3>2, FS_AddElement
    <3>. QED
      BY <2>3, <2>4, <3>2, <3>3
  <2>6. CASE ~(conn[c].endpoint = e /\ TeamOf[c] = t)
    <3>1. Open(e, t)' = Open(e, t)
      BY <1>1, <2>1, <2>2, <2>6 DEF Open, In
    <3>. QED
      BY <2>3, <3>1
  <2>. QED
    BY <2>5, <2>6
<1>. QED
  BY <1>2, <1>3 DEF Finish

\* A new endpoint serves nobody yet.
LEMMA ConfigureLimit ==
    ASSUME TypeOK, KnownEndpoints, OpenWithinLimit, Configure
    PROVE  KnownEndpoints' /\ OpenWithinLimit'
<1>1. endpoints \in Seq(Limits) /\ tcpConfig \in Nat /\ Len(endpoints) \in Nat
      /\ endpoints' = Append(endpoints, tcpConfig) /\ conn' = conn
  BY EndpointAssumption DEF Configure, TypeOK, connVars
<1>2. /\ Len(endpoints') = Len(endpoints) + 1
      /\ DOMAIN endpoints' = DOMAIN endpoints \cup {Len(endpoints) + 1}
      /\ endpoints'[Len(endpoints) + 1] = tcpConfig
      /\ \A e \in DOMAIN endpoints : endpoints'[e] = endpoints[e]
  BY <1>1
<1>3. KnownEndpoints'
  BY <1>1, <1>2 DEF KnownEndpoints
<1>4. \A t \in Teams : Open(Len(endpoints) + 1, t) = {}
  BY <1>1 DEF KnownEndpoints, Open, In
<1>5. \A e, t : Open(e, t)' = Open(e, t)
  BY <1>1 DEF Open, In
<1>6. ASSUME NEW e \in DOMAIN endpoints', NEW t \in Teams
      PROVE  Cardinality(Open(e, t)') <= endpoints'[e]
  <2>1. CASE e \in DOMAIN endpoints
    BY <1>2, <1>5, <2>1 DEF OpenWithinLimit, Open
  <2>2. CASE e = Len(endpoints) + 1
    <3>1. Open(e, t)' = {}
      BY <1>4, <1>5, <2>2
    <3>2. Cardinality(Open(e, t)') = 0
      BY <3>1, FS_EmptySet
    <3>. QED
      BY <1>1, <1>2, <2>2, <3>2
  <2>. QED
    BY <1>2, <2>1, <2>2
<1>. QED
  BY <1>3, <1>6 DEF OpenWithinLimit, Open

LEMMA NextLimit ==
    ASSUME TypeOK, KnownEndpoints, OpenWithinLimit, [Next]_vars
    PROVE  KnownEndpoints' /\ OpenWithinLimit'
<1>1. CASE conn' = conn /\ endpoints' = endpoints
  BY <1>1 DEF KnownEndpoints, OpenWithinLimit, In
<1>2. CASE Configure
  BY <1>2, ConfigureLimit
<1>3. CASE CheckRunning
  <2>1. \A d \in Conns : /\ conn'[d].endpoint = conn[d].endpoint
                         /\ conn'[d].phase = "open" => conn[d].phase = "open"
    BY <1>3 DEF CheckRunning, TypeOK
  <2>2. endpoints' = endpoints
    BY <1>3 DEF CheckRunning
  <2>3. \A e \in Nat, t \in Teams : Open(e, t)' \subseteq Open(e, t)
    BY <2>1 DEF Open, In
  <2>. QED
    BY <2>1, <2>2, <2>3, FewerOpen DEF KnownEndpoints
<1>4. ASSUME NEW c \in Conns, Accept(c) PROVE KnownEndpoints' /\ OpenWithinLimit'
  <2>1. /\ conn'[c].endpoint = Len(endpoints) /\ conn'[c].phase # "open"
        /\ \A d \in Conns \ {c} : conn'[d] = conn[d]
    BY <1>4 DEF Accept, TypeOK
  <2>2. endpoints' = endpoints /\ Len(endpoints) \in Nat
    BY <1>4 DEF Accept, TypeOK
  <2>3. \A e \in Nat, t \in Teams : Open(e, t)' \subseteq Open(e, t)
    BY <2>1 DEF Open, In
  <2>4. KnownEndpoints'
    BY <2>1, <2>2 DEF KnownEndpoints
  <2>. QED
    BY <2>2, <2>3, <2>4, FewerOpen
<1>5. ASSUME NEW c \in Conns, Admit(c) \/ Connect(c)
      PROVE  KnownEndpoints' /\ OpenWithinLimit'
  <2>1. endpoints' = endpoints
    BY <1>5 DEF Admit, Connect, serverVars
  <2>2. PICK phase \in {"spawned", "refused", "backlog"} : Move(c, phase)
    BY <1>5 DEF Admit, Connect
  <2>3. \A e \in Nat, t \in Teams : Open(e, t)' \subseteq Open(e, t)
    BY <2>2, MoveOthers DEF Open, In
  <2>4. KnownEndpoints'
    BY <2>1, <2>2, MoveOthers DEF KnownEndpoints
  <2>. QED
    BY <2>1, <2>3, <2>4, FewerOpen
<1>6. ASSUME NEW c \in Conns, Acquire(c) PROVE KnownEndpoints' /\ OpenWithinLimit'
  <2>1. endpoints' = endpoints
    BY <1>6 DEF Acquire, serverVars
  <2>2. PICK phase : Move(c, phase)
    BY <1>6 DEF Acquire
  <2>3. KnownEndpoints'
    BY <2>1, <2>2, MoveOthers DEF KnownEndpoints
  <2>. QED
    BY <1>6, <2>3, AcquireLimit
<1>7. ASSUME NEW c \in Conns, Finish(c) PROVE KnownEndpoints' /\ OpenWithinLimit'
  <2>1. endpoints' = endpoints
    BY <1>7 DEF Finish, serverVars
  <2>2. \A d \in Conns : conn'[d].endpoint = conn[d].endpoint
    <3>1. CASE Move(c, "closed")
      BY <3>1, MoveOthers
    <3>2. CASE \E q \in Conns :
                  conn' = [conn EXCEPT ![c].phase = "closed", ![q].phase = "open"]
      <4>1. PICK q \in Conns :
                conn' = [conn EXCEPT ![c].phase = "closed", ![q].phase = "open"]
        BY <3>2
      <4>. QED
        BY <4>1 DEF TypeOK
    <3>. QED
      BY <1>7, <3>1, <3>2 DEF Finish, In
  <2>3. KnownEndpoints'
    BY <2>1, <2>2 DEF KnownEndpoints
  <2>. QED
    BY <1>7, <2>3, FinishLimit
<1>8. CASE (\E a \in Admins : Command(a) \/ AdminSends(a) \/ AdminWakes(a)) \/ Handle
  BY <1>1, <1>8 DEF Command, AdminSends, AdminWakes, Handle, HandleStart, HandlePause,
                    HandleUpdateTcpConfig, NotifyWaiters, Receives, serverVars, connVars
<1>9. CASE ServerAlone
  BY <1>1, <1>2, <1>9 DEF ServerAlone, Register, Wake, LookAtRunning, Bind, BindFails,
                          Select, Notice, AcceptFails, connVars
<1>10. CASE UNCHANGED vars
  BY <1>1, <1>10 DEF vars, serverVars, connVars
<1>. QED
  BY <1>3, <1>4, <1>5, <1>6, <1>7, <1>8, <1>9, <1>10, NextSteps DEF ConnStep

-----------------------------------------------------------------------------
(* The count of the connections *)

LEMMA CountedUnchanged ==
    ASSUME ConnectionsAreCounted, tcpConnections' = tcpConnections,
           \A d \in Conns : conn'[d].phase \in Answered <=> conn[d].phase \in Answered
    PROVE  ConnectionsAreCounted'
<1>1. \A t \in Teams : Counted(t)' = Counted(t)
  BY DEF Counted
<1>2. \A t \in Teams : tcpConnections'[t] = Cardinality(Counted(t)')
  BY <1>1 DEF ConnectionsAreCounted, Counted, Answered
<1>. QED
  BY <1>2 DEF ConnectionsAreCounted, Counted, Answered

LEMMA AdmitCounted ==
    ASSUME TypeOK, ConnectionsAreCounted, NEW c \in Conns, Admit(c)
    PROVE  ConnectionsAreCounted'
<1>1. PICK phase \in {"spawned", "refused"} : Move(c, phase)
  BY DEF Admit
<1>2. conn[c].phase = "accepted" /\ conn'[c].phase \in Answered
      /\ \A d \in Conns \ {c} : conn'[d] = conn[d]
  BY <1>1, MoveOthers DEF Admit, Answered
<1>3. ASSUME NEW t \in Teams PROVE tcpConnections'[t] = Cardinality(Counted(t)')
  <2>1. IsFiniteSet(Counted(t)) /\ tcpConnections[t] = Cardinality(Counted(t))
        /\ tcpConnections[t] \in Nat
    BY FS_Subset, EndpointAssumption DEF Counted, ConnectionsAreCounted, Answered, TypeOK
  <2>2. tcpConnections'[t] = tcpConnections[t] + IF t = TeamOf[c] THEN 1 ELSE 0
    BY DEF Admit
  <2>3. CASE t = TeamOf[c]
    <3>1. Counted(t)' = Counted(t) \cup {c} /\ c \notin Counted(t)
      BY <1>2, <2>3 DEF Counted, Answered
    <3>2. Cardinality(Counted(t)') = Cardinality(Counted(t)) + 1
      BY <2>1, <3>1, FS_AddElement
    <3>. QED
      BY <2>1, <2>2, <2>3, <3>2
  <2>4. CASE t # TeamOf[c]
    <3>1. Counted(t)' = Counted(t)
      BY <1>2, <2>4 DEF Counted
    <3>. QED
      BY <2>1, <2>2, <2>4, <3>1
  <2>. QED
    BY <2>3, <2>4
<1>. QED
  BY <1>3 DEF ConnectionsAreCounted, Counted, Answered

LEMMA NextCounted ==
    ASSUME TypeOK, ConnectionsAreCounted, [Next]_vars
    PROVE  ConnectionsAreCounted'
<1>1. CASE conn' = conn /\ tcpConnections' = tcpConnections
  BY <1>1, CountedUnchanged
<1>2. CASE CheckRunning
  <2>1. \A d \in Conns : conn'[d].phase \in Answered <=> conn[d].phase \in Answered
    BY <1>2 DEF CheckRunning, TypeOK, Answered
  <2>. QED
    BY <1>2, <2>1, CountedUnchanged DEF CheckRunning
<1>3. ASSUME NEW c \in Conns, Accept(c) PROVE ConnectionsAreCounted'
  <2>1. \A d \in Conns : conn'[d].phase \in Answered <=> conn[d].phase \in Answered
    BY <1>3 DEF Accept, TypeOK, Answered
  <2>. QED
    BY <1>3, <2>1, CountedUnchanged DEF Accept
<1>4. ASSUME NEW c \in Conns, Connect(c) \/ Acquire(c) PROVE ConnectionsAreCounted'
  <2>1. \A d \in Conns : conn'[d].phase \in Answered <=> conn[d].phase \in Answered
    BY <1>4, MoveOthers DEF Connect, Acquire, Answered
  <2>. QED
    BY <1>4, <2>1, CountedUnchanged DEF Connect, Acquire
<1>5. ASSUME NEW c \in Conns, Finish(c) PROVE ConnectionsAreCounted'
  <2>1. \A d \in Conns : conn'[d].phase \in Answered <=> conn[d].phase \in Answered
    BY <1>5, ZenonT(30) DEF Finish, Move, In, TypeOK, Answered
  <2>. QED
    BY <1>5, <2>1, CountedUnchanged DEF Finish
<1>6. CASE (\E a \in Admins : Command(a) \/ AdminSends(a) \/ AdminWakes(a)) \/ Handle
  BY <1>1, <1>6 DEF Command, AdminSends, AdminWakes, Handle, HandleStart, HandlePause,
                    HandleUpdateTcpConfig, NotifyWaiters, Receives, connVars
<1>7. CASE ServerAlone
  BY <1>1, <1>7 DEF ServerAlone, Register, Wake, LookAtRunning, Configure, Bind, BindFails,
                    Select, Notice, AcceptFails, connVars
<1>8. CASE UNCHANGED vars
  BY <1>1, <1>8 DEF vars, connVars
<1>. QED
  BY <1>2, <1>3, <1>4, <1>5, <1>6, <1>7, <1>8, AdmitCounted, NextSteps DEF ConnStep

-----------------------------------------------------------------------------

LEMMA InitEndpoint == Init => EndpointInv
<1>. SUFFICES ASSUME Init PROVE EndpointInv
  OBVIOUS
<1>1. KnownEndpoints /\ OpenWithinLimit
  BY DEF Init, KnownEndpoints, OpenWithinLimit
<1>2. \A t \in Teams : {c \in Conns : TeamOf[c] = t
            /\ conn[c].phase \in {"refused", "spawned", "queued", "open", "closed"}} = {}
  BY DEF Init
<1>3. ConnectionsAreCounted
  BY <1>2, FS_EmptySet DEF Init, ConnectionsAreCounted
<1>. QED
  BY <1>1, <1>3, InitType DEF EndpointInv

\* The inductive invariant of the endpoint (flagbot.rs:371-499).
THEOREM EndpointInvariance == Spec => []EndpointInv
<1>1. EndpointInv /\ [Next]_vars => EndpointInv'
  BY NextType, NextLimit, NextCounted DEF EndpointInv
<1>. QED
  BY <1>1, InitEndpoint, PTL DEF Spec

\* For any limits, teams and connections, and however often the endpoint is
\* opened anew, endpoints and connections have their types (flagbot.rs:371-499).
THEOREM EndpointTypes == Spec => []TypeOK
<1>1. EndpointInv => TypeOK
  BY DEF EndpointInv
<1>. QED
  BY <1>1, EndpointInvariance, PTL

\* Each endpoint stays within its limit (flagbot.rs:431, 448).
THEOREM EndpointWithinLimit == Spec => []OpenWithinLimit
<1>1. EndpointInv => OpenWithinLimit
  BY DEF EndpointInv
<1>. QED
  BY <1>1, EndpointInvariance, PTL

\* tcp_connections counts every answered connection (flagbot.rs:421-427).
THEOREM EveryConnectionCounted == Spec => []ConnectionsAreCounted
<1>1. EndpointInv => ConnectionsAreCounted
  BY DEF EndpointInv
<1>. QED
  BY <1>1, EndpointInvariance, PTL
=============================================================================
