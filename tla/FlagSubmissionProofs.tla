------------------------ MODULE FlagSubmissionProofs ------------------------
(***************************************************************************)
(* A flag's way from the connection to the score keeps its promises for    *)
(* any teams, connections, lifetimes and capacities: what is accepted is   *)
(* alive, what is journaled can be replayed, what is credited is what is   *)
(* journaled, and the journal implements SubmissionCredit.                 *)
(***************************************************************************)
EXTENDS FlagSubmission, OperatorProofs

-----------------------------------------------------------------------------
(* The inductive invariant *)

\* A round that is not abandoned: finished, or the one being played.
Valid(i) == i \in DOMAIN rounds /\ (rounds[i].finished \/ i = roundId)

\* The table holds a finished row; the rounds that count are numbered in the
\* order of their rows, and the one being played is the newest.
TableInv ==
    /\ FinishedRows(rounds) # {}
    /\ Valid(roundId)
    /\ \A i \in FinishedRows(rounds) : i <= roundId
    /\ \A i, j \in DOMAIN rounds :
          Valid(i) /\ Valid(j) /\ i <= j => rounds[i].number <= rounds[j].number

\* The messages of a type that are in the flagbot's channel, by position.
Sent(type) == {k \in DOMAIN flagMail : flagMail[k].type = type}

\* When the flagbot comes to position k of its channel, it plays a round not
\* before i.
Heard(k, i) == i <= fbRound \/ \E j \in Sent("UpdateRound") : j < k /\ i <= flagMail[j].round

\* The flagbot is told of rounds in order, of a round before its flags, and of
\* the one being played.
RoundMailInv ==
    /\ Valid(fbRound)
    /\ \A k \in Sent("UpdateRound") : Valid(flagMail[k].round) /\ fbRound < flagMail[k].round
    /\ \A j, k \in Sent("UpdateRound") : j < k => flagMail[j].round < flagMail[k].round
    /\ Heard(Len(flagMail) + 1, roundId)

\* A flag that may be handed out or is known is one of a round that counts.
ValidFlag(f) == Valid(f.round) /\ f.round # 1

\* A flag is handed out once: it is unplanted, on its way, or known.
FlagInv ==
    /\ \A f \in known : ValidFlag(f) /\ f.round <= fbRound
    /\ \A f \in unplanted : ValidFlag(f) /\ f.round = roundId /\ f \notin known
    /\ \A k \in Sent("NewFlag") :
          /\ ValidFlag(flagMail[k].flag) /\ Heard(k, flagMail[k].flag.round)
          /\ flagMail[k].flag \notin known \cup unplanted
    /\ \A j, k \in Sent("NewFlag") : j # k => flagMail[j].flag # flagMail[k].flag

\* What check_flag has established of a submission it accepts.
Sound(s) ==
    /\ {s.round, s.flag.round} \subseteq DOMAIN rounds
    /\ s.attacker # s.flag.team /\ s.flag.round # 1
    /\ s.flag.round <= s.round
    /\ rounds[s.round].number - rounds[s.flag.round].number \in 0..(FlagLife - 1)

\* The submission is sound, its round counts and the flagbot knows its flag.
Fresh(s) == Sound(s) /\ Valid(s.round) /\ s.flag \in known

Checked == {"readSubmission", "sendMsg", "sendEvent"}

\* From check_flag to the journal.
PathInv ==
    /\ \A c \in Conns : conn[c].pc = "readRound" => conn[c].flag \in known
    /\ \A c \in Conns : conn[c].pc \in Checked => Fresh(SubmissionOf(c))
    /\ \A s \in Range(events) : Fresh(s)
    /\ \A s \in Range(journal) : Sound(s) /\ (Valid(s.round) => Valid(s.flag.round))

\* The pair is in flag_submission, or the message that puts it there is on its way.
Marked(p) ==
    p \in submitted \/ \E k \in Sent("SubmittedFlag") : Pair(flagMail[k].submission) = p

\* The pairs that the journal credits.
CountedPairs == {Pair(s) : s \in Counted}

\* What is credited or about to be is what the journal holds; all of it is
\* marked, and its flags will not be handed out again.
CreditInv ==
    /\ credited \cup Range(scoreMail) \cup (IF relay.pc = "notify" THEN {relay.pair} ELSE {})
         = CountedPairs
    /\ \A p \in CountedPairs : Marked(p) /\ p[2] \in known
    /\ \A s \in Range(events) : Marked(Pair(s))
    /\ \A c \in Conns : conn[c].pc = "sendEvent" => Marked(Pair(SubmissionOf(c)))

SubmissionInv == TypeOK /\ TableInv /\ RoundMailInv /\ FlagInv /\ PathInv /\ CreditInv

-----------------------------------------------------------------------------
(* Types *)

\* The parts of the type invariant.
LEMMA Constants == /\ MailCap \in Nat /\ MailCap > 0 /\ MaxRows \in Nat /\ MaxRows > 0
                   /\ FlagLife \in Nat /\ FlagLife > 0
                   /\ TeamOf \in [Conns -> Teams]
BY SubmissionAssumption DEF SubmissionAssumption

LEMMA InitType == Init => TypeOK
<1> SUFFICES ASSUME Init PROVE TypeOK
    OBVIOUS
<1>1. rounds \in Seq(Row) /\ Len(rounds) = 1 /\ DOMAIN rounds = {1}
    BY DEF Init, InitialRounds, Row
<1>2. IsHistory(gained) /\ IsHistory(lost)
    BY DEF Init, IsHistory
<1>3. conn \in [Conns -> ConnState]
    BY DEF Init, ConnState, Idle
<1>4. /\ journal \in Seq(Submission) /\ events \in Seq(Submission)
      /\ flagMail \in Seq(FlagbotMsg) /\ scoreMail \in Seq(Teams \X Flag)
      /\ Len(events) = 0 /\ Len(flagMail) = 0
    BY DEF Init
<1>5. /\ roundId = 1 /\ unplanted = {} /\ fbRound = 1 /\ known = {} /\ submitted = {}
      /\ relay = [pc |-> "recv"] /\ credited = {} /\ received = 0 /\ crashes = 0
    BY DEF Init
<1>6. QED
    BY <1>1, <1>2, <1>3, <1>4, <1>5, Constants, SubmissionAssumption
       DEF TypeOK, SubmissionAssumption

\* A submission in preparation is one.
LEMMA SubmissionType ==
    ASSUME TypeOK, NEW c \in Conns, conn[c].pc \in {"readSubmission", "sendMsg", "sendEvent"}
    PROVE  /\ SubmissionOf(c) \in Submission /\ conn[c].flag \in Flag
           /\ conn[c] = [pc |-> conn[c].pc, flag |-> conn[c].flag, round |-> conn[c].round]
           /\ conn[c].round \in 1..MaxRows
<1>1. conn[c] \in [pc : {"readSubmission", "sendMsg", "sendEvent"},
                   flag : Flag, round : 1..MaxRows]
    BY DEF TypeOK, ConnState, Idle
<1>2. QED
    BY <1>1, Constants DEF SubmissionOf, Submission

\* The flag that is looked up is one.
LEMMA LookedUpType ==
    ASSUME TypeOK, NEW c \in Conns, conn[c].pc = "readRound"
    PROVE  conn[c].flag \in Flag
<1>1. conn[c] \in [pc : {"readRound"}, flag : Flag]
    BY DEF TypeOK, ConnState, Idle
<1>2. QED
    BY <1>1

\* A pair is an attacker and a flag.
LEMMA PairType ==
    ASSUME NEW s \in Submission
    PROVE  Pair(s) \in Teams \X Flag /\ s.round \in 1..MaxRows
           /\ s.attacker \in Teams /\ s.flag \in Flag
           /\ s.flag.round \in 1..MaxRows /\ s.flag.team \in Teams
BY DEF Submission, Flag, Pair

\* What the messages carry.
LEMMA MsgContents ==
    ASSUME NEW m \in FlagbotMsg
    PROVE  /\ m.type = "UpdateRound" => m.round \in 1..MaxRows
           /\ m.type = "NewFlag" => m.flag \in Flag
           /\ m.type = "SubmittedFlag" => m.submission \in Submission
BY DEF FlagbotMsg

LEMMA MsgTypes ==
    /\ \A s \in Submission : SubmittedFlag(s) \in FlagbotMsg
    /\ \A i \in 1..MaxRows : UpdateRound(i) \in FlagbotMsg
    /\ \A f \in Flag : NewFlag(f) \in FlagbotMsg
BY DEF FlagbotMsg, SubmittedFlag, UpdateRound, NewFlag

\* A sent message extends the channel ...
LEMMA SendType ==
    ASSUME TypeOK, NEW m \in FlagbotMsg, Send(m)
    PROVE  /\ flagMail' \in Seq(FlagbotMsg) /\ Len(flagMail') <= MailCap
           /\ DOMAIN flagMail' = DOMAIN flagMail \cup {Len(flagMail) + 1}
           /\ DOMAIN flagMail \subseteq Nat /\ Len(flagMail) \in Nat
           /\ Len(flagMail') = Len(flagMail) + 1
           /\ \A k \in DOMAIN flagMail : k < Len(flagMail) + 1 /\ flagMail'[k] = flagMail[k]
           /\ flagMail'[Len(flagMail) + 1] = m
BY Constants DEF TypeOK, Send

\* ... a received one is taken off its head.
LEMMA ReceiveType ==
    ASSUME TypeOK, NEW type, Receives(type)
    PROVE  /\ flagMail' \in Seq(FlagbotMsg) /\ Len(flagMail') <= MailCap
           /\ Head(flagMail) \in FlagbotMsg /\ Head(flagMail).type = type
           /\ 1 \in DOMAIN flagMail /\ Head(flagMail) = flagMail[1]
           /\ DOMAIN flagMail \subseteq Nat \ {0} /\ DOMAIN flagMail' \subseteq Nat \ {0}
           /\ Len(flagMail) \in Nat /\ Len(flagMail') = Len(flagMail) - 1
           /\ \A k \in DOMAIN flagMail' : k + 1 \in DOMAIN flagMail /\ flagMail'[k] = flagMail[k + 1]
           /\ \A k \in DOMAIN flagMail :
                 k = 1 \/ (k - 1 \in DOMAIN flagMail' /\ flagMail'[k - 1] = flagMail[k])
<1>1. flagMail \in Seq(FlagbotMsg) /\ flagMail # <<>> /\ flagMail' = Tail(flagMail)
      /\ Len(flagMail) <= MailCap /\ Head(flagMail).type = type
    BY DEF TypeOK, Receives
<1>2. /\ flagMail' \in Seq(FlagbotMsg) /\ Head(flagMail) \in FlagbotMsg
      /\ Len(flagMail) \in Nat \ {0} /\ Len(flagMail') = Len(flagMail) - 1
      /\ DOMAIN flagMail = 1..Len(flagMail) /\ DOMAIN flagMail' = 1..Len(flagMail')
      /\ Head(flagMail) = flagMail[1]
    BY <1>1
<1>3. \A k \in DOMAIN flagMail' : k + 1 \in DOMAIN flagMail /\ flagMail'[k] = flagMail[k + 1]
    BY <1>1
<1>4. \A k \in DOMAIN flagMail :
          k = 1 \/ (k - 1 \in DOMAIN flagMail' /\ flagMail'[k - 1] = flagMail[k])
  <2>1. ASSUME NEW k \in DOMAIN flagMail, k # 1 PROVE k - 1 \in DOMAIN flagMail'
      BY <1>2, <2>1
  <2>2. QED
      BY <1>2, <1>3, <2>1
<1>5. QED
    BY <1>1, <1>2, <1>3, <1>4, Constants

\* What a restart counts from the journal is a number.
LEMMA CountsType ==
    ASSUME TypeOK
    PROVE  \A t, i : Gains(t, i) \in Nat /\ Losses(t, i) \in Nat
<1>1. IsFiniteSet(DOMAIN journal)
    BY FS_Interval DEF TypeOK
<1>2. QED
    BY <1>1, FS_Subset, FS_CardinalityType DEF Gains, Losses

\* What a history holds when a round is opened in it, when an entry of it is
\* increased, and after a restart.
LEMMA OpenRoundType ==
    ASSUME NEW h, IsHistory(h), NEW i \in 1..MaxRows
    PROVE  /\ IsHistory(OpenRound(h, i))
           /\ DOMAIN OpenRound(h, i) =
                 IF IsRoundZero(rounds, i) THEN DOMAIN h ELSE DOMAIN h \cup (Teams \X {i})
           /\ \A e \in DOMAIN OpenRound(h, i) :
                 OpenRound(h, i)[e] =
                    IF ~IsRoundZero(rounds, i) /\ e[2] = i THEN 0 ELSE h[e]
<1>1. Teams \X {i} \subseteq Teams \X (1..MaxRows)
    OBVIOUS
<1>2. \A e \in Teams \X {i} : e[2] = i
    OBVIOUS
<1>3. QED
    BY <1>1, <1>2, Zenon DEF IsHistory, OpenRound

LEMMA IncreaseType ==
    ASSUME NEW h, IsHistory(h), NEW t, NEW i
    PROVE  /\ IsHistory(Increase(h, t, i)) /\ DOMAIN Increase(h, t, i) = DOMAIN h
           /\ \A e \in DOMAIN h : /\ h[e] \in Nat
                                  /\ Increase(h, t, i)[e] = IF e = <<t, i>> THEN h[e] + 1 ELSE h[e]
BY DEF IsHistory, Increase

LEMMA ReplayedHistoryType ==
    ASSUME TypeOK, Crash
    PROVE  /\ IsHistory(gained') /\ IsHistory(lost')
           /\ DOMAIN gained' = Teams \X ReplayedRounds /\ DOMAIN lost' = Teams \X ReplayedRounds
           /\ \A t \in Teams, i \in ReplayedRounds :
                 gained'[<<t, i>>] = Gains(t, i) /\ lost'[<<t, i>>] = Losses(t, i)
<1>1. ReplayedRounds \subseteq 1..MaxRows
  <2>1. DOMAIN rounds = 1..Len(rounds) /\ Len(rounds) \in 1..MaxRows /\ MaxRows \in Nat
      BY Constants DEF TypeOK
  <2>2. QED
      BY <2>1 DEF ReplayedRounds, FinishedRows
<1>2. /\ gained' = [e \in Teams \X ReplayedRounds |-> Gains(e[1], e[2])]
      /\ lost' = [e \in Teams \X ReplayedRounds |-> Losses(e[1], e[2])]
    BY DEF Crash
<1>3. \A t \in Teams, i \in ReplayedRounds : <<t, i>>[1] = t /\ <<t, i>>[2] = i
    OBVIOUS
<1>4. QED
    BY <1>1, <1>2, <1>3, CountsType DEF IsHistory

\* Ids of rows.
LEMMA RowsAreNaturals ==
    ASSUME TypeOK
    PROVE  DOMAIN rounds \subseteq Nat
<1>1. rounds \in Seq(Row)
    BY DEF TypeOK
<1>2. QED
    BY <1>1

\* Rows the table gains, and what they are called.
LEMMA RowsStep ==
    ASSUME TypeOK, FinishedRows(rounds) # {}, [Next]_vars
    PROVE  /\ \/ UNCHANGED rounds /\ UNCHANGED roundId
              \/ FinishRound
              \/ StartRound
              \/ Crash
           /\ rounds' \in Seq(Row) /\ Len(rounds') \in 1..MaxRows
           /\ roundId' \in DOMAIN rounds'
           /\ DOMAIN rounds \subseteq DOMAIN rounds'
           /\ \A i \in DOMAIN rounds : rounds'[i].number = rounds[i].number
<1>1. \/ UNCHANGED rounds /\ UNCHANGED roundId
      \/ FinishRound \/ StartRound \/ Crash
    BY DEF Next, Game, HandOut, Handle, Receives, HandleUpdateRound, HandleNewFlag,
       HandleSubmittedFlag, JournalEvent, RelayFails, NotifyScorebot, Credit, Connection,
       ReadRound, ReadSubmission, SendMsg, SendEvent, Timeout, Receive, vars, gameVars
<1> USE DEF TypeOK
<1>2. CASE UNCHANGED rounds /\ UNCHANGED roundId
    BY <1>1, <1>2
<1>3. CASE FinishRound
  <2>1. rounds' = MarkFinished(rounds, roundId) /\ UNCHANGED roundId
      BY <1>3 DEF FinishRound
  <2>2. QED
      BY <1>1, <2>1, MarkFinishedRows
<1>4. CASE StartRound
  <2>1. rounds' = StartNewRound(rounds) /\ roundId' = Len(rounds) + 1 /\ Len(rounds) < MaxRows
      BY <1>4 DEF StartRound
  <2>2. /\ rounds' \in Seq(Row) /\ Len(rounds') = Len(rounds) + 1
        /\ DOMAIN rounds' = DOMAIN rounds \cup {Len(rounds) + 1}
        /\ \A i \in DOMAIN rounds : rounds'[i] = rounds[i]
      BY <2>1, StartNewRoundRows
  <2>3. Len(rounds') \in 1..MaxRows
      BY <2>1, <2>2, Constants
  <2>4. QED
      BY <1>1, <2>1, <2>2, <2>3
<1>5. CASE Crash
  <2>1. UNCHANGED rounds /\ roundId' = LastFinished(rounds)
      BY <1>5 DEF Crash
  <2>2. roundId' \in DOMAIN rounds
      BY <2>1, LastFinishedIsGreatest DEF FinishedRows
  <2>3. QED
      BY <1>1, <2>1, <2>2
<1>6. QED
    BY <1>1, <1>2, <1>3, <1>4, <1>5

\* A connection goes to a state of its own.
LEMMA GoToType ==
    ASSUME TypeOK, NEW c \in Conns, NEW st \in ConnState, GoTo(c, st)
    PROVE  conn' \in [Conns -> ConnState]
BY DEF TypeOK, GoTo

LEMMA NextType ==
    ASSUME TypeOK, FinishedRows(rounds) # {}, [Next]_vars,
           \A k \in DOMAIN flagMail :
               flagMail[k].type = "UpdateRound" => flagMail[k].round \in DOMAIN rounds
    PROVE  TypeOK'
<1>1. /\ rounds' \in Seq(Row) /\ Len(rounds') \in 1..MaxRows /\ roundId' \in DOMAIN rounds'
      /\ DOMAIN rounds \subseteq DOMAIN rounds'
    BY RowsStep
<1>2. fbRound \in DOMAIN rounds'
    BY <1>1 DEF TypeOK
<1>3. MaxRows \in Nat /\ DOMAIN rounds = 1..Len(rounds) /\ Len(rounds) \in 1..MaxRows
      /\ DOMAIN rounds' \subseteq 1..MaxRows
    BY <1>1, Constants DEF TypeOK
<1>4. CASE UNCHANGED vars
    BY <1>4 DEF TypeOK, vars, gameVars, flagbotVars, relayVars, scoreVars, bounds
<1> USE DEF TypeOK
<1>5. CASE Game
  <2>1. UNCHANGED <<flagbotVars, conn, relayVars, scoreVars, bounds>>
      BY <1>5 DEF Game, FinishRound, StartRound, HandOut
  <2>2. flagMail' \in Seq(FlagbotMsg) /\ Len(flagMail') <= MailCap
    <3>1. CASE FinishRound
        BY <3>1 DEF FinishRound
    <3>2. CASE StartRound
      <4>1. UpdateRound(roundId') \in FlagbotMsg /\ Send(UpdateRound(roundId'))
          BY <1>1, <1>3, <3>2, MsgTypes DEF StartRound
      <4>2. QED
          BY <4>1, SendType
    <3>3. CASE \E f \in unplanted : HandOut(f)
      <4>1. PICK f \in Flag : Send(NewFlag(f)) /\ NewFlag(f) \in FlagbotMsg
          BY <3>3, MsgTypes DEF HandOut
      <4>2. QED
          BY <4>1, SendType
    <3>4. QED
        BY <1>5, <3>1, <3>2, <3>3 DEF Game
  <2>3. unplanted' \subseteq Flag
    <3>1. CASE StartRound
      <4>1. unplanted' = [round : {roundId'}, team : Teams] /\ roundId' \in 1..MaxRows
          BY <1>1, <1>3, <3>1 DEF StartRound
      <4>2. QED
          BY <4>1 DEF Flag
    <3>2. CASE FinishRound \/ \E f \in unplanted : HandOut(f)
        BY <3>2 DEF FinishRound, HandOut
    <3>3. QED
        BY <1>5, <3>1, <3>2 DEF Game
  <2>4. QED
      BY <1>1, <1>2, <2>1, <2>2, <2>3 DEF flagbotVars, relayVars, scoreVars, bounds
<1>6. CASE \E c \in Conns : Connection(c) \/ Timeout(c) \/ \E f \in known : Receive(c, f)
  <2>1. PICK c \in Conns : Connection(c) \/ Timeout(c) \/ \E f \in known : Receive(c, f)
      BY <1>6
  <2>2. /\ UNCHANGED <<gameVars, flagbotVars, journal, relay, scoreVars, crashes>>
        /\ received' \in 0..MaxSubmissions
    <3>1. CASE \E f \in known : Receive(c, f)
        BY <3>1, SubmissionAssumption DEF Receive, relayVars, SubmissionAssumption
    <3>2. CASE ReadRound(c) \/ ReadSubmission(c)
        BY <3>2 DEF ReadRound, ReadSubmission, relayVars, bounds
    <3>3. CASE SendMsg(c)
        BY <3>3 DEF SendMsg, relayVars, bounds
    <3>4. CASE SendEvent(c)
        BY <3>4 DEF SendEvent, bounds
    <3>5. CASE Timeout(c)
        BY <3>5 DEF Timeout, relayVars, bounds
    <3>6. QED
        BY <2>1, <3>1, <3>2, <3>3, <3>4, <3>5 DEF Connection
  <2>3. \E st \in ConnState : GoTo(c, st)
    <3>1. Idle \in ConnState
        BY DEF ConnState
    <3>2. CASE \E f \in known : Receive(c, f)
        BY <3>2 DEF Receive, ConnState
    <3>3. CASE ReadRound(c)
      <4>1. conn[c].flag \in Flag
          BY <3>3, LookedUpType DEF ReadRound
      <4>2. [pc |-> "readSubmission", flag |-> conn[c].flag, round |-> fbRound] \in ConnState
          BY <1>3, <4>1 DEF ConnState
      <4>3. QED
          BY <3>1, <3>3, <4>2 DEF ReadRound
    <3>4. ASSUME conn[c].pc \in {"readSubmission", "sendMsg"}
          PROVE  /\ [conn[c] EXCEPT !.pc = "sendMsg"] \in ConnState
                 /\ [conn[c] EXCEPT !.pc = "sendEvent"] \in ConnState
      <4>1. conn[c] \in [pc : {"readSubmission", "sendMsg", "sendEvent"},
                         flag : Flag, round : 1..MaxRows]
          BY <3>4 DEF ConnState, Idle
      <4>2. QED
          BY <4>1 DEF ConnState
    <3>5. CASE ReadSubmission(c) \/ SendMsg(c)
        BY <3>1, <3>4, <3>5 DEF ReadSubmission, SendMsg
    <3>6. CASE SendEvent(c) \/ Timeout(c)
        BY <3>1, <3>6 DEF SendEvent, Timeout
    <3>7. QED
        BY <2>1, <3>2, <3>3, <3>5, <3>6 DEF Connection
  <2>4. conn' \in [Conns -> ConnState]
      BY <2>3, GoToType
  <2>5. flagMail' \in Seq(FlagbotMsg) /\ Len(flagMail') <= MailCap
    <3>1. CASE SendMsg(c)
      <4>1. SubmittedFlag(SubmissionOf(c)) \in FlagbotMsg /\ Send(SubmittedFlag(SubmissionOf(c)))
          BY <3>1, SubmissionType, MsgTypes DEF SendMsg
      <4>2. QED
          BY <4>1, SendType
    <3>2. CASE UNCHANGED flagMail
        BY <3>2
    <3>3. QED
        BY <2>1, <3>1, <3>2 DEF Connection, ReadRound, ReadSubmission, SendEvent, Timeout, Receive
  <2>6. events' \in Seq(Submission) /\ Len(events') <= MailCap
    <3>1. CASE SendEvent(c)
      <4>1. SubmissionOf(c) \in Submission
          BY <3>1, SubmissionType DEF SendEvent
      <4>2. CASE Len(events) < MailCap /\ events' = Append(events, SubmissionOf(c))
        <5>1. Len(events') = Len(events) + 1 /\ events' \in Seq(Submission) /\ Len(events) \in Nat
            BY <4>1, <4>2
        <5>2. QED
            BY <4>2, <5>1, Constants
      <4>3. CASE UNCHANGED events
          BY <4>3
      <4>4. QED
          BY <3>1, <4>2, <4>3 DEF SendEvent
    <3>2. CASE UNCHANGED events
        BY <3>2
    <3>3. QED
        BY <2>1, <3>1, <3>2 DEF Connection, ReadRound, ReadSubmission, SendMsg, Timeout, Receive,
           relayVars
  <2>7. QED
      BY <1>1, <1>2, <2>2, <2>4, <2>5, <2>6 DEF gameVars, flagbotVars, scoreVars
<1>7. CASE Handle
  <2>1. PICK type \in {"UpdateRound", "NewFlag", "SubmittedFlag"} : Receives(type)
      BY <1>7 DEF Handle, HandleUpdateRound, HandleNewFlag, HandleSubmittedFlag
  <2>2. /\ flagMail' \in Seq(FlagbotMsg) /\ Len(flagMail') <= MailCap
        /\ Head(flagMail) \in FlagbotMsg
        /\ UNCHANGED <<gameVars, conn, relayVars, scoreVars, bounds>>
      BY <2>1, ReceiveType DEF Receives
  <2>3. fbRound' \in DOMAIN rounds' /\ known' \subseteq Flag /\ submitted' \subseteq Teams \X Flag
        /\ IsHistory(gained') /\ IsHistory(lost')
    <3>1. CASE HandleUpdateRound
      <4>1. PICK i \in 1..MaxRows :
                /\ fbRound' = i /\ i = Head(flagMail).round
                /\ gained' = OpenRound(gained, i) /\ lost' = OpenRound(lost, i)
                /\ UNCHANGED <<known, submitted>> /\ i \in DOMAIN rounds
        <5>1. Receives("UpdateRound") /\ Head(flagMail).type = "UpdateRound"
              /\ 1 \in DOMAIN flagMail /\ Head(flagMail) = flagMail[1]
            BY <3>1, ReceiveType DEF HandleUpdateRound
        <5>2. Head(flagMail).round \in 1..MaxRows /\ Head(flagMail).round \in DOMAIN rounds
            BY <1>3, <5>1
        <5>3. QED
            BY <3>1, <5>2, Zenon DEF HandleUpdateRound
      <4>2. IsHistory(gained') /\ IsHistory(lost')
          BY <4>1, OpenRoundType
      <4>3. fbRound' \in DOMAIN rounds'
          BY <1>1, <4>1
      <4>4. QED
          BY <4>1, <4>2, <4>3
    <3>2. CASE HandleNewFlag
        BY <1>2, <2>2, <3>2, ReceiveType, MsgContents, ZenonT(30) DEF HandleNewFlag
    <3>3. CASE HandleSubmittedFlag
      <4>1. PICK s \in Submission :
                /\ submitted' = submitted \cup {Pair(s)}
                /\ \/ /\ gained' = Increase(gained, s.attacker, s.round)
                      /\ lost' = Increase(lost, s.flag.team, s.round)
                   \/ UNCHANGED <<gained, lost>>
                /\ UNCHANGED <<fbRound, known>>
          BY <2>2, <3>3, ReceiveType, MsgContents DEF HandleSubmittedFlag
      <4>2. Pair(s) \in Teams \X Flag
          BY PairType
      <4>3. IsHistory(gained') /\ IsHistory(lost')
          BY <4>1, IncreaseType
      <4>4. QED
          BY <1>2, <4>1, <4>2, <4>3
    <3>4. QED
        BY <1>7, <3>1, <3>2, <3>3 DEF Handle
  <2>4. QED
      BY <1>1, <2>2, <2>3 DEF gameVars, relayVars, scoreVars, bounds
<1>8. CASE JournalEvent \/ RelayFails
  <2>1. UNCHANGED <<gameVars, flagMail, flagbotVars, conn, scoreVars, bounds>>
      BY <1>8 DEF JournalEvent, RelayFails
  <2>2. /\ journal' \in Seq(Submission) /\ events' \in Seq(Submission) /\ Len(events') <= MailCap
        /\ relay' \in [pc : {"recv", "dead"}] \cup [pc : {"notify"}, pair : Teams \X Flag]
    <3>1. CASE JournalEvent
      <4>1. Head(events) \in Submission /\ Tail(events) \in Seq(Submission)
            /\ Len(Tail(events)) <= MailCap
          BY <3>1, Constants DEF JournalEvent
      <4>2. QED
          BY <3>1, <4>1, PairType DEF JournalEvent
    <3>2. CASE RelayFails
        BY <3>2, Constants DEF RelayFails
    <3>3. QED
        BY <1>8, <3>1, <3>2
  <2>3. QED
      BY <1>1, <1>2, <2>1, <2>2 DEF gameVars, flagbotVars, scoreVars, bounds
<1>9. CASE NotifyScorebot \/ Credit
  <2>1. UNCHANGED <<gameVars, flagMail, flagbotVars, conn, journal, events, bounds>>
      BY <1>9 DEF NotifyScorebot, Credit, relayVars
  <2>2. /\ scoreMail' \in Seq(Teams \X Flag) /\ credited' \subseteq Teams \X Flag
        /\ relay' \in [pc : {"recv", "dead"}] \cup [pc : {"notify"}, pair : Teams \X Flag]
    <3>1. CASE NotifyScorebot
        BY <3>1 DEF NotifyScorebot
    <3>2. CASE Credit
        BY <3>2 DEF Credit, relayVars
    <3>3. QED
        BY <1>9, <3>1, <3>2
  <2>3. QED
      BY <1>1, <1>2, <2>1, <2>2 DEF gameVars, flagbotVars, bounds
<1>10. CASE Crash
  <2>1. /\ UNCHANGED <<rounds, journal, received>> /\ crashes' \in 0..MaxCrashes
        /\ flagMail' = <<>> /\ events' = <<>> /\ scoreMail' = <<>>
        /\ fbRound' = roundId' /\ unplanted' = {} /\ relay' = [pc |-> "recv"]
        /\ conn' = [c \in Conns |-> Idle] /\ known' = StoredFlags
      BY <1>10, SubmissionAssumption DEF Crash, SubmissionAssumption
  <2>2. known' \subseteq Flag
      BY <1>3, <2>1 DEF StoredFlags, Flag, FinishedRows
  <2>3. submitted' \subseteq Teams \X Flag /\ credited' \subseteq Teams \X Flag
    <3>1. \A s \in Range(journal) : Pair(s) \in Teams \X Flag
        BY PairType DEF Range
    <3>2. QED
        BY <1>10, <3>1 DEF Crash, Replayed, Effective
  <2>4. IsHistory(gained') /\ IsHistory(lost')
      BY <1>10, ReplayedHistoryType
  <2>5. conn' \in [Conns -> ConnState]
      BY <2>1 DEF ConnState
  <2>6. Len(flagMail') <= MailCap /\ Len(events') <= MailCap
      BY <2>1, Constants
  <2>7. QED
      BY <1>1, <2>1, <2>2, <2>3, <2>4, <2>5, <2>6
<1>11. QED
    BY <1>4, <1>5, <1>6, <1>7, <1>8, <1>9, <1>10 DEF Next

-----------------------------------------------------------------------------
(* The round table *)

\* Which rows count changes with a crash only: of the rows there were, the same
\* ones count after any other step, and fewer after a crash.
LEMMA ValidStep ==
    ASSUME TypeOK, TableInv, [Next]_vars
    PROVE  /\ \A i \in DOMAIN rounds : Valid(i)' => Valid(i)
           /\ ~Crash => \A i \in DOMAIN rounds : Valid(i) => Valid(i)'
           /\ Crash => \A i : Valid(i)' <=> i \in FinishedRows(rounds)
           /\ \A i \in DOMAIN rounds : rounds[i].finished => Valid(i)'
<1>1. \/ UNCHANGED rounds /\ UNCHANGED roundId
      \/ FinishRound \/ StartRound \/ Crash
    BY RowsStep DEF TableInv
<1>2. DOMAIN rounds \subseteq DOMAIN rounds' /\ rounds \in Seq(Row) /\ Len(rounds) \in Nat
      /\ roundId \in DOMAIN rounds
    BY RowsStep DEF TableInv, TypeOK
<1>3. CASE UNCHANGED rounds /\ UNCHANGED roundId
  <2>1. Crash => roundId = LastFinished(rounds)
      BY <1>3 DEF Crash
  <2>2. Crash => roundId \in FinishedRows(rounds)
      BY <1>2, <2>1, LastFinishedIsGreatest DEF TableInv
  <2>3. QED
      BY <1>3, <2>2 DEF Valid, FinishedRows
<1>4. CASE FinishRound
  <2>1. rounds' = MarkFinished(rounds, roundId) /\ UNCHANGED roundId /\ ~rounds[roundId].finished
      BY <1>4 DEF FinishRound
  <2>2. /\ DOMAIN rounds' = DOMAIN rounds
        /\ \A j \in DOMAIN rounds : rounds'[j].finished <=> (rounds[j].finished \/ j = roundId)
        /\ FinishedRows(rounds') = FinishedRows(rounds) \cup {roundId}
      BY <1>2, <2>1, MarkFinishedRows
  <2>3. ~Crash
      BY <1>2, <2>1, <2>2 DEF Crash, FinishedRows
  <2>4. QED
      BY <2>1, <2>2, <2>3 DEF Valid
<1>5. CASE StartRound
  <2>1. rounds' = StartNewRound(rounds) /\ roundId' = Len(rounds) + 1 /\ rounds[roundId].finished
      BY <1>5 DEF StartRound
  <2>2. /\ DOMAIN rounds' = DOMAIN rounds \cup {Len(rounds) + 1}
        /\ \A j \in DOMAIN rounds : rounds'[j] = rounds[j]
        /\ Len(rounds') = Len(rounds) + 1
      BY <1>2, <2>1, StartNewRoundRows DEF TableInv
  <2>3. ~Crash
      BY <1>2, <2>2 DEF Crash
  <2>4. \A j \in DOMAIN rounds : j # roundId'
      BY <1>2, <2>1
  <2>5. QED
      BY <2>1, <2>2, <2>3, <2>4 DEF Valid
<1>6. CASE Crash
  <2>1. UNCHANGED rounds /\ roundId' = LastFinished(rounds)
      BY <1>6 DEF Crash
  <2>2. roundId' \in FinishedRows(rounds)
      BY <1>2, <2>1, LastFinishedIsGreatest DEF TableInv
  <2>3. QED
      BY <1>6, <2>1, <2>2 DEF Valid, FinishedRows
<1>7. QED
    BY <1>1, <1>3, <1>4, <1>5, <1>6

LEMMA TableStep ==
    ASSUME TypeOK, TableInv, [Next]_vars
    PROVE  TableInv'
<1>1. /\ \/ UNCHANGED rounds /\ UNCHANGED roundId
         \/ FinishRound \/ StartRound \/ Crash
      /\ rounds' \in Seq(Row) /\ Len(rounds') \in Nat /\ roundId' \in DOMAIN rounds'
      /\ DOMAIN rounds' = 1..Len(rounds') /\ DOMAIN rounds = 1..Len(rounds)
      /\ DOMAIN rounds \subseteq DOMAIN rounds'
      /\ \A i \in DOMAIN rounds : rounds'[i].number = rounds[i].number
      /\ rounds \in Seq(Row) /\ Len(rounds) \in Nat /\ roundId \in DOMAIN rounds
      /\ \A i \in DOMAIN rounds : rounds[i].number \in Nat
  <2>1. /\ rounds \in Seq(Row) /\ Len(rounds) \in Nat /\ DOMAIN rounds = 1..Len(rounds)
        /\ roundId \in DOMAIN rounds /\ FinishedRows(rounds) # {}
      BY DEF TypeOK, TableInv
  <2>2. ASSUME NEW i \in DOMAIN rounds PROVE rounds[i].number \in Nat
    <3>1. rounds[i] \in Row
        BY <2>1
    <3>2. QED
        BY <3>1 DEF Row
  <2>3. QED
      BY <2>1, <2>2, RowsStep
<1>2. \A i \in DOMAIN rounds : Valid(i)' => Valid(i)
    BY ValidStep
<1>3. CASE UNCHANGED rounds /\ UNCHANGED roundId
    BY <1>3 DEF TableInv, Valid
<1>4. CASE FinishRound
  <2>1. rounds' = MarkFinished(rounds, roundId) /\ UNCHANGED roundId
      BY <1>4 DEF FinishRound
  <2>2. /\ DOMAIN rounds' = DOMAIN rounds
        /\ FinishedRows(rounds') = FinishedRows(rounds) \cup {roundId}
      BY <1>1, <2>1, MarkFinishedRows
  <2>3. Valid(roundId)'
      BY <1>1, <2>1 DEF Valid
  <2>4. \A i \in FinishedRows(rounds') : i <= roundId'
      BY <1>1, <2>1, <2>2 DEF TableInv
  <2>5. QED
      BY <1>1, <1>2, <2>1, <2>2, <2>3, <2>4 DEF TableInv
<1>5. CASE StartRound
  <2>1. rounds' = StartNewRound(rounds) /\ roundId' = Len(rounds) + 1 /\ rounds[roundId].finished
      BY <1>5 DEF StartRound
  <2>2. /\ DOMAIN rounds' = DOMAIN rounds \cup {Len(rounds) + 1}
        /\ FinishedRows(rounds') = FinishedRows(rounds)
        /\ rounds'[Len(rounds) + 1].number = rounds[LastFinished(rounds)].number + 1
      BY <1>1, <2>1, StartNewRoundRows DEF TableInv
  <2>3. /\ LastFinished(rounds) \in FinishedRows(rounds)
        /\ \A j \in FinishedRows(rounds) : j <= LastFinished(rounds)
        /\ FinishedRows(rounds) \subseteq DOMAIN rounds
      BY <1>1, LastFinishedIsGreatest DEF TableInv, FinishedRows
  <2>4. \A i \in DOMAIN rounds : Valid(i) <=> i \in FinishedRows(rounds)
      BY <2>1 DEF Valid, FinishedRows
  <2>5. \A i \in DOMAIN rounds : Valid(i) => rounds[i].number <= rounds[LastFinished(rounds)].number
      BY <2>3, <2>4 DEF TableInv
  <2>6. \A i \in DOMAIN rounds' : i \in DOMAIN rounds \/ i = Len(rounds) + 1
      BY <2>2
  <2>7. Valid(roundId)' /\ \A i \in FinishedRows(rounds') : i <= roundId'
      BY <1>1, <2>1, <2>2, <2>3 DEF Valid
  <2>8. ASSUME NEW i \in DOMAIN rounds', NEW j \in DOMAIN rounds', Valid(i)', Valid(j)', i <= j
        PROVE  rounds'[i].number <= rounds'[j].number
    <3>1. CASE i \in DOMAIN rounds /\ j \in DOMAIN rounds
        BY <1>1, <1>2, <2>8, <3>1 DEF TableInv
    <3>2. CASE i \in DOMAIN rounds /\ j = Len(rounds) + 1
      <4>1. rounds[i].number <= rounds[LastFinished(rounds)].number
          BY <1>2, <2>5, <2>8, <3>2
      <4>2. /\ rounds'[i].number = rounds[i].number /\ rounds[i].number \in Nat
            /\ rounds[LastFinished(rounds)].number \in Nat
            /\ rounds'[j].number = rounds[LastFinished(rounds)].number + 1
          BY <1>1, <2>2, <2>3, <3>2
      <4>3. QED
          BY <4>1, <4>2
    <3>3. CASE i = Len(rounds) + 1
      <4>1. j = i
          BY <1>1, <2>6, <2>8, <3>3
      <4>2. rounds'[i].number \in Nat
          BY <1>1, <2>2, <2>3, <3>3
      <4>3. QED
          BY <4>1, <4>2
    <3>4. QED
        BY <2>6, <2>8, <3>1, <3>2, <3>3
  <2>9. QED
      BY <2>2, <2>7, <2>8 DEF TableInv
<1>6. CASE Crash
  <2>1. UNCHANGED rounds /\ roundId' = LastFinished(rounds)
      BY <1>6 DEF Crash
  <2>2. roundId' \in FinishedRows(rounds) /\ \A j \in FinishedRows(rounds) : j <= roundId'
      BY <1>1, <2>1, LastFinishedIsGreatest DEF TableInv
  <2>3. Valid(roundId)'
      BY <2>1, <2>2 DEF Valid, FinishedRows
  <2>4. QED
      BY <1>2, <2>1, <2>2, <2>3 DEF TableInv
<1>7. QED
    BY <1>1, <1>3, <1>4, <1>5, <1>6

\* What is sound stays sound: rows keep their numbers.
LEMMA SoundStep ==
    ASSUME TypeOK, TableInv, [Next]_vars, NEW s, Sound(s)
    PROVE  Sound(s)'
BY RowsStep DEF Sound, TableInv

-----------------------------------------------------------------------------
(* The flagbot's channel *)

\* What sending does to the messages of a type ...
LEMMA SentAfterSend ==
    ASSUME TypeOK, NEW m \in FlagbotMsg, Send(m), NEW type
    PROVE  /\ \A k \in Sent(type) : k \in Sent(type)' /\ flagMail'[k] = flagMail[k]
                                  /\ k < Len(flagMail) + 1 /\ k \in Nat
           /\ \A k \in Sent(type)' :
                 \/ k \in Sent(type) /\ flagMail'[k] = flagMail[k]
                 \/ k = Len(flagMail) + 1 /\ flagMail'[k] = m /\ m.type = type
           /\ m.type = type => /\ Len(flagMail) + 1 \in Sent(type)'
                               /\ flagMail'[Len(flagMail) + 1] = m
BY SendType DEF Sent

\* ... and what receiving does.
LEMMA SentAfterReceive ==
    ASSUME TypeOK, NEW ty, Receives(ty), NEW type
    PROVE  /\ \A k \in Sent(type)' : /\ k + 1 \in Sent(type) /\ flagMail'[k] = flagMail[k + 1]
                                   /\ k \in Nat \ {0}
           /\ \A k \in Sent(type) :
                 \/ k = 1 /\ type = ty
                 \/ k - 1 \in Sent(type)' /\ flagMail'[k - 1] = flagMail[k]
           /\ 1 \in Sent(ty) /\ Head(flagMail) = flagMail[1]
           /\ Sent(type) \subseteq Nat \ {0}
<1>1. /\ \A k \in DOMAIN flagMail' : k + 1 \in DOMAIN flagMail /\ flagMail'[k] = flagMail[k + 1]
      /\ \A k \in DOMAIN flagMail :
            k = 1 \/ (k - 1 \in DOMAIN flagMail' /\ flagMail'[k - 1] = flagMail[k])
      /\ 1 \in DOMAIN flagMail /\ Head(flagMail) = flagMail[1] /\ Head(flagMail).type = ty
      /\ DOMAIN flagMail \subseteq Nat \ {0} /\ DOMAIN flagMail' \subseteq Nat \ {0}
    BY ReceiveType
<1>2. QED
    BY <1>1 DEF Sent

\* What is heard when a message is received was heard before it was sent ...
LEMMA HeardAfterSend ==
    ASSUME TypeOK, NEW m \in FlagbotMsg, Send(m), UNCHANGED fbRound, NEW k \in Nat, NEW i \in Nat,
           Heard(k, i)
    PROVE  Heard(k, i)' /\ Heard(k + 1, i)'
<1>1. CASE i <= fbRound
    BY <1>1 DEF Heard
<1>2. CASE \E j \in Sent("UpdateRound") : j < k /\ i <= flagMail[j].round
  <2>1. PICK j \in Sent("UpdateRound") : j < k /\ i <= flagMail[j].round
      BY <1>2
  <2>2. j \in Sent("UpdateRound")' /\ flagMail'[j] = flagMail[j] /\ j \in Nat
      BY <2>1, SentAfterSend
  <2>3. j < k + 1
      BY <2>1, <2>2
  <2>4. QED
      BY <2>1, <2>2, <2>3 DEF Heard
<1>3. QED
    BY <1>1, <1>2 DEF Heard

\* ... and is still heard when another message has been taken off.
LEMMA HeardAfterReceive ==
    ASSUME TypeOK, RoundMailInv, NEW ty, Receives(ty), NEW k \in Nat, NEW i \in Nat,
           ty = "UpdateRound" => fbRound' = Head(flagMail).round,
           ty # "UpdateRound" => UNCHANGED fbRound,
           Heard(k, i)
    PROVE  Heard(k - 1, i)'
<1>1. fbRound <= fbRound' /\ fbRound \in Nat /\ fbRound' \in Nat
  <2>1. fbRound \in Nat
      BY DEF TypeOK
  <2>2. CASE ty = "UpdateRound"
    <3>1. 1 \in Sent("UpdateRound") /\ fbRound' = flagMail[1].round
        BY <2>2, SentAfterReceive
    <3>2. Valid(flagMail[1].round) /\ fbRound < flagMail[1].round
        BY <3>1 DEF RoundMailInv
    <3>3. QED
        BY <2>1, <3>1, <3>2, RowsAreNaturals DEF Valid
  <2>3. QED
      BY <2>1, <2>2
<1>2. CASE i <= fbRound
  <2>1. i <= fbRound'
      BY <1>1, <1>2
  <2>2. QED
      BY <2>1 DEF Heard
<1>3. CASE \E j \in Sent("UpdateRound") : j < k /\ i <= flagMail[j].round
  <2>1. PICK j \in Sent("UpdateRound") : j < k /\ i <= flagMail[j].round
      BY <1>3
  <2>2. CASE j = 1 /\ ty = "UpdateRound"
    <3>1. i <= fbRound'
        BY <2>1, <2>2, SentAfterReceive
    <3>2. QED
        BY <3>1 DEF Heard
  <2>3. CASE j - 1 \in Sent("UpdateRound")' /\ flagMail'[j - 1] = flagMail[j]
    <3>1. j - 1 < k - 1
        BY <2>1, SentAfterReceive
    <3>2. QED
        BY <2>1, <2>3, <3>1 DEF Heard
  <2>4. QED
      BY <2>1, <2>2, <2>3, SentAfterReceive
<1>4. QED
    BY <1>2, <1>3 DEF Heard

\* Steps by what they do to the channel.
LEMMA ChannelSteps ==
    ASSUME TypeOK, [Next]_vars
    PROVE  \/ UNCHANGED <<flagMail, fbRound, roundId, known, unplanted, submitted>>
           \/ StartRound
           \/ \E f \in unplanted : HandOut(f)
           \/ \E c \in Conns : SendMsg(c)
           \/ HandleUpdateRound \/ HandleNewFlag \/ HandleSubmittedFlag
           \/ Crash
<1>1. CASE UNCHANGED vars
    BY <1>1 DEF vars, gameVars, flagbotVars
<1>2. CASE Game
    BY <1>2 DEF Game, FinishRound, flagbotVars
<1>3. CASE Handle
    BY <1>3 DEF Handle
<1>4. CASE \E c \in Conns : Connection(c) \/ Timeout(c) \/ \E f \in known : Receive(c, f)
    BY <1>4 DEF Connection, ReadRound, ReadSubmission, SendEvent, Timeout, Receive,
       gameVars, flagbotVars
<1>5. CASE JournalEvent \/ RelayFails \/ NotifyScorebot \/ Credit
    BY <1>5 DEF JournalEvent, RelayFails, NotifyScorebot, Credit, gameVars, flagbotVars
<1>6. QED
    BY <1>1, <1>2, <1>3, <1>4, <1>5 DEF Next

LEMMA RoundMailStep ==
    ASSUME TypeOK, TableInv, RoundMailInv, [Next]_vars
    PROVE  RoundMailInv'
<1>1. /\ ~Crash => \A i \in DOMAIN rounds : Valid(i) => Valid(i)'
      /\ \A i : Valid(i) => i \in DOMAIN rounds
      /\ rounds \in Seq(Row) /\ Len(rounds) \in Nat /\ DOMAIN rounds = 1..Len(rounds)
      /\ roundId \in Nat /\ fbRound \in Nat /\ flagMail \in Seq(FlagbotMsg)
      /\ Len(flagMail) \in Nat
    BY ValidStep DEF TypeOK, Valid
<1>2. CASE UNCHANGED <<flagMail, fbRound, roundId>> /\ ~Crash
    BY <1>1, <1>2 DEF RoundMailInv, Sent, Heard
<1>3. CASE ~Crash /\ UNCHANGED <<fbRound, roundId>> /\ \E m \in FlagbotMsg : Send(m) /\ m.type # "UpdateRound"
  <2>1. PICK m \in FlagbotMsg : Send(m) /\ m.type # "UpdateRound"
      BY <1>3
  <2>2. \A k \in Sent("UpdateRound")' :
            k \in Sent("UpdateRound") /\ flagMail'[k] = flagMail[k]
      BY <2>1, SentAfterSend
  <2>3. PICK n \in Nat, i \in Nat : n = Len(flagMail) + 1 /\ i = roundId /\ Heard(n, i)
      BY <1>1 DEF RoundMailInv
  <2>4. Heard(Len(flagMail) + 1, roundId)'
    <3>1. Heard(n + 1, i)'
        BY <1>3, <2>1, <2>3, HeardAfterSend
    <3>2. n + 1 = Len(flagMail') + 1 /\ i = roundId'
        BY <1>3, <2>1, <2>3, SendType
    <3>3. QED
        BY <3>1, <3>2
  <2>5. QED
      BY <1>1, <1>3, <2>2, <2>4 DEF RoundMailInv
<1>4. CASE StartRound
  <2> DEFINE m == UpdateRound(roundId')
  <2>1. /\ Send(m) /\ UNCHANGED fbRound /\ roundId' = Len(rounds) + 1 /\ Len(rounds) < MaxRows
        /\ rounds' = StartNewRound(rounds)
      BY <1>4 DEF StartRound, flagbotVars
  <2>2. m \in FlagbotMsg /\ m.type = "UpdateRound" /\ m.round = roundId'
      BY <1>1, <2>1, MsgTypes, Constants DEF UpdateRound
  <2> HIDE DEF m
  <2>3. ~Crash /\ Valid(roundId)'
    <3>1. TableInv'
        BY TableStep
    <3>2. Len(rounds') = Len(rounds) + 1
        BY <1>1, <2>1, StartNewRoundRows DEF TableInv
    <3>3. QED
        BY <1>1, <3>1, <3>2 DEF TableInv, Crash
  <2>4. \A k \in Sent("UpdateRound")' :
            \/ k \in Sent("UpdateRound") /\ flagMail'[k] = flagMail[k]
               /\ k < Len(flagMail) + 1
            \/ k = Len(flagMail) + 1 /\ flagMail'[k] = m
      BY <2>1, <2>2, SentAfterSend
  <2>5. Valid(fbRound)' /\ fbRound' < roundId' /\ fbRound' = fbRound
      BY <1>1, <2>1, <2>3 DEF RoundMailInv
  <2>6. \A k \in Sent("UpdateRound") :
            /\ flagMail[k].round < roundId' /\ flagMail[k].round \in DOMAIN rounds
            /\ Valid(flagMail[k].round)
      BY <1>1, <2>1, <2>3 DEF RoundMailInv
  <2>7. \A k \in Sent("UpdateRound")' :
            Valid(flagMail[k].round)' /\ fbRound' < flagMail'[k].round
    <3>1. ASSUME NEW k \in Sent("UpdateRound"), flagMail'[k] = flagMail[k]
          PROVE  Valid(flagMail[k].round)' /\ fbRound' < flagMail'[k].round
      <4>1. PICK i \in DOMAIN rounds : i = flagMail[k].round /\ Valid(i) /\ Valid(i)'
          BY <1>1, <2>3, <2>6
      <4>2. QED
          BY <2>5, <3>1, <4>1 DEF RoundMailInv
    <3>2. ASSUME NEW k \in Sent("UpdateRound")', flagMail'[k] = m
          PROVE  Valid(flagMail[k].round)' /\ fbRound' < flagMail'[k].round
        BY <1>1, <2>1, <2>2, <2>3, <2>5, <3>2
    <3>3. QED
        BY <2>4, <3>1, <3>2
  <2>8. \A j, k \in Sent("UpdateRound")' : j < k => flagMail'[j].round < flagMail'[k].round
    <3>1. ASSUME NEW j \in Sent("UpdateRound")', NEW k \in Sent("UpdateRound")', j < k
          PROVE  flagMail'[j].round < flagMail'[k].round
      <4>1. j \in Sent("UpdateRound") /\ flagMail'[j] = flagMail[j]
        <5>1. j \in Nat /\ k \in Nat
            BY <1>1, <2>1, <2>2, <2>4, SentAfterSend
        <5>2. QED
            BY <1>1, <2>4, <3>1, <5>1
      <4>2. CASE k \in Sent("UpdateRound") /\ flagMail'[k] = flagMail[k]
          BY <3>1, <4>1, <4>2 DEF RoundMailInv
      <4>3. CASE flagMail'[k] = m
        <5>1. flagMail[j].round < roundId' /\ flagMail[j].round \in Nat /\ roundId' \in Nat
            BY <1>1, <2>1, <2>6, <4>1
        <5>2. QED
            BY <2>2, <4>1, <4>3, <5>1
      <4>4. QED
          BY <2>4, <4>2, <4>3
    <3>2. QED
        BY <3>1
  <2>9. Heard(Len(flagMail) + 1, roundId)'
    <3>1. Len(flagMail') = Len(flagMail) + 1 /\ Len(flagMail) + 1 \in Sent("UpdateRound")'
          /\ flagMail'[Len(flagMail) + 1] = m
        BY <2>1, <2>2, SentAfterSend, SendType
    <3>2. Len(flagMail) + 1 < Len(flagMail') + 1 /\ roundId' <= flagMail'[Len(flagMail) + 1].round
        BY <1>1, <2>1, <2>2, <3>1
    <3>3. QED
        BY <3>1, <3>2 DEF Heard
  <2>10. QED
      BY <2>5, <2>7, <2>8, <2>9 DEF RoundMailInv
<1>5. CASE ~Crash /\ UNCHANGED roundId /\ \E ty \in {"UpdateRound", "NewFlag", "SubmittedFlag"} :
              /\ Receives(ty)
              /\ ty = "UpdateRound" => fbRound' = Head(flagMail).round
              /\ ty # "UpdateRound" => UNCHANGED fbRound
  <2>1. PICK ty \in {"UpdateRound", "NewFlag", "SubmittedFlag"} :
              /\ Receives(ty)
              /\ ty = "UpdateRound" => fbRound' = Head(flagMail).round
              /\ ty # "UpdateRound" => UNCHANGED fbRound
      BY <1>5
  <2>2. \A k \in Sent("UpdateRound")' :
            /\ k + 1 \in Sent("UpdateRound") /\ flagMail'[k] = flagMail[k + 1] /\ k \in Nat \ {0}
      BY <2>1, SentAfterReceive
  <2>3. Valid(fbRound)' /\ \A k \in Sent("UpdateRound")' : fbRound' < flagMail'[k].round
    <3>1. CASE ty = "UpdateRound"
      <4>1. 1 \in Sent("UpdateRound") /\ fbRound' = flagMail[1].round
          BY <2>1, <3>1, SentAfterReceive
      <4>2. \A k \in Sent("UpdateRound")' : 1 < k + 1
          BY <2>2
      <4>3. \A k \in Sent("UpdateRound")' : fbRound' < flagMail'[k].round
          BY <2>2, <4>1, <4>2 DEF RoundMailInv
      <4>4. Valid(fbRound)'
        <5>1. Valid(fbRound')
            BY <4>1 DEF RoundMailInv
        <5>2. rounds[fbRound'].finished \/ fbRound' = roundId
            BY <5>1 DEF Valid
        <5>3. DOMAIN rounds \subseteq DOMAIN rounds' /\ \A i \in DOMAIN rounds : rounds[i].finished => Valid(i)'
            BY RowsStep, ValidStep DEF TableInv
        <5>4. Valid(roundId)'
            BY TableStep DEF TableInv
        <5>5. QED
            BY <1>5, <5>1, <5>2, <5>3, <5>4 DEF Valid
      <4>5. QED
          BY <4>3, <4>4
    <3>2. CASE ty # "UpdateRound"
        BY <1>1, <1>5, <2>1, <2>2, <3>2 DEF RoundMailInv, Valid
    <3>3. QED
        BY <3>1, <3>2
  <2>4. \A k \in Sent("UpdateRound")' : Valid(flagMail[k].round)'
      BY <1>1, <1>5, <2>2 DEF RoundMailInv, Valid
  <2>5. \A j, k \in Sent("UpdateRound")' : j < k => flagMail'[j].round < flagMail'[k].round
    <3>1. \A j, k \in Sent("UpdateRound")' : j < k => j + 1 < k + 1
        BY <2>2
    <3>2. QED
        BY <2>2, <3>1 DEF RoundMailInv
  <2>6. Heard(Len(flagMail) + 1, roundId)'
    <3>1. PICK n \in Nat, i \in Nat : n = Len(flagMail) + 1 /\ i = roundId /\ Heard(n, i)
        BY <1>1 DEF RoundMailInv
    <3>2. Heard(n - 1, i)'
        BY <2>1, <3>1, HeardAfterReceive
    <3>3. n - 1 = Len(flagMail') + 1 /\ i = roundId'
        BY <1>1, <1>5, <2>1, <3>1, ReceiveType
    <3>4. QED
        BY <3>2, <3>3
  <2>7. QED
      BY <2>3, <2>4, <2>5, <2>6 DEF RoundMailInv
<1>6. CASE Crash
  <2>1. flagMail' = <<>> /\ fbRound' = roundId' /\ roundId' = LastFinished(rounds)
      BY <1>6 DEF Crash
  <2>2. Valid(fbRound)' /\ roundId' \in Nat
    <3>1. TableInv'
        BY TableStep
    <3>2. roundId' \in FinishedRows(rounds)
        BY <1>1, <2>1, LastFinishedIsGreatest DEF TableInv
    <3>3. QED
        BY <1>1, <2>1, <3>1, <3>2 DEF TableInv, Valid, FinishedRows
  <2>3. Sent("UpdateRound")' = {}
      BY <2>1 DEF Sent
  <2>4. Heard(Len(flagMail) + 1, roundId)'
      BY <2>1, <2>2 DEF Heard
  <2>5. QED
      BY <2>2, <2>3, <2>4 DEF RoundMailInv
<1>7. ASSUME ~Crash, \E f \in unplanted : HandOut(f)
      PROVE  UNCHANGED <<fbRound, roundId>> /\ \E m \in FlagbotMsg : Send(m) /\ m.type # "UpdateRound"
  <2>1. PICK f \in Flag : HandOut(f)
      BY <1>7 DEF TypeOK
  <2>2. NewFlag(f) \in FlagbotMsg /\ NewFlag(f).type # "UpdateRound"
      BY MsgTypes DEF NewFlag
  <2>3. QED
      BY <2>1, <2>2 DEF HandOut, flagbotVars
<1>8. ASSUME ~Crash, \E c \in Conns : SendMsg(c)
      PROVE  UNCHANGED <<fbRound, roundId>> /\ \E m \in FlagbotMsg : Send(m) /\ m.type # "UpdateRound"
  <2>1. PICK c \in Conns : SendMsg(c)
      BY <1>8
  <2>2. SubmittedFlag(SubmissionOf(c)) \in FlagbotMsg
        /\ SubmittedFlag(SubmissionOf(c)).type # "UpdateRound"
      BY <2>1, SubmissionType, MsgTypes DEF SendMsg, SubmittedFlag
  <2>3. QED
      BY <2>1, <2>2 DEF SendMsg, gameVars, flagbotVars
<1>9. ASSUME HandleUpdateRound \/ HandleNewFlag \/ HandleSubmittedFlag
      PROVE  UNCHANGED roundId /\ \E ty \in {"UpdateRound", "NewFlag", "SubmittedFlag"} :
              /\ Receives(ty)
              /\ ty = "UpdateRound" => fbRound' = Head(flagMail).round
              /\ ty # "UpdateRound" => UNCHANGED fbRound
    BY <1>9, Zenon DEF HandleUpdateRound, HandleNewFlag, HandleSubmittedFlag, Receives, gameVars
<1>10. QED
    BY <1>2, <1>3, <1>4, <1>5, <1>6, <1>7, <1>8, <1>9, ChannelSteps

\* The rows that count still do, unless the process crashed.
LEMMA ValidFlagStep ==
    ASSUME TypeOK, TableInv, [Next]_vars, ~Crash, NEW f, ValidFlag(f)
    PROVE  ValidFlag(f)'
BY ValidStep DEF ValidFlag, Valid

\* A flag in the channel is still announced by an earlier round when another
\* message is sent ...
LEMMA AnnouncedAfterSend ==
    ASSUME TypeOK, FlagInv, NEW m \in FlagbotMsg, Send(m), UNCHANGED fbRound,
           NEW k \in Sent("NewFlag")
    PROVE  /\ k \in Sent("NewFlag")' /\ flagMail'[k] = flagMail[k]
           /\ Heard(k, flagMail[k].flag.round)'
<1>1. k \in Sent("NewFlag")' /\ flagMail'[k] = flagMail[k] /\ k \in Nat
    BY SentAfterSend
<1>2. PICK i \in Nat : i = flagMail[k].flag.round /\ Heard(k, i)
  <2>1. ValidFlag(flagMail[k].flag) /\ Heard(k, flagMail[k].flag.round)
    BY DEF FlagInv
  <2>2. flagMail[k].flag.round \in DOMAIN rounds
    BY <2>1 DEF ValidFlag, Valid
  <2>3. QED
    BY <2>1, <2>2, RowsAreNaturals
<1>3. Heard(k, i)'
    BY <1>1, <1>2, HeardAfterSend
<1>4. i = flagMail'[k].flag.round
    BY <1>1, <1>2
<1>5. QED
    BY <1>1, <1>3, <1>4

\* ... or one is taken off.
LEMMA AnnouncedAfterReceive ==
    ASSUME TypeOK, RoundMailInv, FlagInv, NEW ty, Receives(ty),
           ty = "UpdateRound" => fbRound' = Head(flagMail).round,
           ty # "UpdateRound" => UNCHANGED fbRound,
           NEW k \in Sent("NewFlag")'
    PROVE  /\ k + 1 \in Sent("NewFlag") /\ flagMail'[k] = flagMail[k + 1]
           /\ k \in Nat \ {0}
           /\ Heard(k, flagMail[k].flag.round)'
<1>1. k + 1 \in Sent("NewFlag") /\ flagMail'[k] = flagMail[k + 1] /\ k \in Nat \ {0}
    BY SentAfterReceive
<1>2. PICK i \in Nat : i = flagMail[k + 1].flag.round /\ Heard(k + 1, i)
  <2>1. ValidFlag(flagMail[k + 1].flag) /\ Heard(k + 1, flagMail[k + 1].flag.round)
    BY <1>1 DEF FlagInv
  <2>2. flagMail[k + 1].flag.round \in DOMAIN rounds
    BY <2>1 DEF ValidFlag, Valid
  <2>3. QED
    BY <2>1, <2>2, RowsAreNaturals
<1>3. Heard((k + 1) - 1, i)'
    BY <1>1, <1>2, HeardAfterReceive
<1>4. i = flagMail'[k].flag.round /\ (k + 1) - 1 = k
    BY <1>1, <1>2
<1>5. QED
    BY <1>1, <1>3, <1>4

LEMMA FlagStep ==
    ASSUME TypeOK, TableInv, RoundMailInv, FlagInv, [Next]_vars
    PROVE  FlagInv'
<1> DEFINE
      KnownOK    == \A f \in known : ValidFlag(f) /\ f.round <= fbRound
      PlantOK    == \A f \in unplanted : ValidFlag(f) /\ f.round = roundId /\ f \notin known
      MailOK     == \A k \in Sent("NewFlag") :
                        /\ ValidFlag(flagMail[k].flag) /\ Heard(k, flagMail[k].flag.round)
                        /\ flagMail[k].flag \notin known \cup unplanted
      DistinctOK == \A j, k \in Sent("NewFlag") : j # k => flagMail[j].flag # flagMail[k].flag
<1>0. /\ FlagInv <=> KnownOK /\ PlantOK /\ MailOK /\ DistinctOK
      /\ FlagInv' <=> KnownOK' /\ PlantOK' /\ MailOK' /\ DistinctOK'
    BY DEF FlagInv
<1>1. /\ \A i : Valid(i) => i \in DOMAIN rounds
      /\ rounds \in Seq(Row) /\ Len(rounds) \in Nat /\ DOMAIN rounds = 1..Len(rounds)
      /\ roundId \in Nat /\ fbRound \in Nat /\ flagMail \in Seq(FlagbotMsg)
      /\ Len(flagMail) \in Nat
    BY DEF TypeOK, Valid
<1>2. ~Crash => \A f : ValidFlag(f) => ValidFlag(f)'
    BY ValidFlagStep
<1>3. CASE UNCHANGED <<flagMail, fbRound, roundId, known, unplanted>> /\ ~Crash
    BY <1>2, <1>3 DEF FlagInv, Sent, Heard, ValidFlag, Valid
<1>4. CASE StartRound
  <2> DEFINE m == UpdateRound(roundId')
  <2>1. /\ Send(m) /\ UNCHANGED <<fbRound, known>> /\ roundId' = Len(rounds) + 1
        /\ Len(rounds) < MaxRows /\ rounds' = StartNewRound(rounds)
        /\ unplanted' = [round : {roundId'}, team : Teams]
      BY <1>4 DEF StartRound, flagbotVars
  <2>2. m \in FlagbotMsg /\ m.type = "UpdateRound"
      BY <1>1, <2>1, MsgTypes, Constants DEF UpdateRound
  <2> HIDE DEF m
  <2>3. ~Crash /\ Valid(roundId)'
    <3>1. TableInv'
        BY TableStep
    <3>2. Len(rounds') = Len(rounds) + 1
        BY <1>1, <2>1, StartNewRoundRows DEF TableInv
    <3>3. QED
        BY <1>1, <3>1, <3>2 DEF TableInv, Crash
  <2>4. \A f : ValidFlag(f) => f.round # roundId'
      BY <1>1, <2>1 DEF ValidFlag
  <2>5. \A f \in unplanted' : f.round = roundId'
      BY <2>1
  <2>6. KnownOK'
      BY <1>0, <1>2, <2>1, <2>3
  <2>7. PlantOK'
    <3>1. roundId' # 1
        BY <1>1, <2>1 DEF TypeOK
    <3>2. \A f \in unplanted' : ValidFlag(f)'
        BY <2>3, <2>5, <3>1 DEF ValidFlag
    <3>3. QED
        BY <1>0, <2>1, <2>4, <2>5, <3>2
  <2>8. \A k \in Sent("NewFlag")' : k \in Sent("NewFlag")
      BY <2>1, <2>2, SentAfterSend
  <2>9. ASSUME NEW k \in Sent("NewFlag")'
        PROVE  /\ k \in Sent("NewFlag") /\ flagMail'[k] = flagMail[k]
               /\ Heard(k, flagMail[k].flag.round)'
      BY <2>1, <2>2, <2>8, AnnouncedAfterSend
  <2>10. MailOK'
    <3>1. ASSUME NEW k \in Sent("NewFlag")'
          PROVE  ValidFlag(flagMail[k].flag)' /\ flagMail'[k].flag \notin known' \cup unplanted'
      <4>1. PICK f : f = flagMail[k].flag /\ ValidFlag(f) /\ ValidFlag(f)' /\ f \notin known
          BY <1>0, <1>2, <2>3, <2>9
      <4>2. f = flagMail'[k].flag
          BY <2>9, <4>1
      <4>3. QED
          BY <2>1, <2>4, <2>5, <4>1, <4>2
    <3>2. QED
        BY <2>9, <3>1
  <2>11. DistinctOK'
      BY <1>0, <2>9
  <2>12. QED
      BY <1>0, <2>6, <2>7, <2>10, <2>11
<1>5. CASE \E f \in unplanted : HandOut(f)
  <2>1. PICK f \in unplanted : HandOut(f)
      BY <1>5
  <2> DEFINE m == NewFlag(f)
  <2>2. /\ Send(m) /\ UNCHANGED <<rounds, roundId, fbRound, known>> /\ unplanted' = unplanted \ {f}
        /\ m \in FlagbotMsg /\ m.type = "NewFlag" /\ m.flag = f
      BY <2>1, MsgTypes DEF HandOut, flagbotVars, NewFlag, TypeOK
  <2> HIDE DEF m
  <2>3. \A h : ValidFlag(h) <=> ValidFlag(h)'
      BY <2>2 DEF ValidFlag, Valid
  <2>4. KnownOK' /\ PlantOK'
      BY <1>0, <2>2, <2>3
  <2>5. \A k \in Sent("NewFlag")' :
            \/ k \in Sent("NewFlag") /\ flagMail'[k] = flagMail[k] /\ Heard(k, flagMail[k].flag.round)'
            \/ k = Len(flagMail) + 1 /\ flagMail'[k] = m
      BY <2>2, SentAfterSend, AnnouncedAfterSend
  <2>6. MailOK'
    <3>1. ASSUME NEW k \in Sent("NewFlag"), flagMail'[k] = flagMail[k]
          PROVE  ValidFlag(flagMail[k].flag)' /\ flagMail'[k].flag \notin known' \cup unplanted'
      <4>1. PICK h : h = flagMail[k].flag /\ ValidFlag(h) /\ ValidFlag(h)' /\ h \notin known \cup unplanted
          BY <1>0, <2>3
      <4>2. QED
          BY <2>2, <3>1, <4>1
    <3>2. ASSUME NEW k, k = Len(flagMail) + 1, flagMail'[k] = m
          PROVE  /\ ValidFlag(flagMail[k].flag)' /\ Heard(k, flagMail[k].flag.round)'
                 /\ flagMail'[k].flag \notin known' \cup unplanted'
      <4>1. ValidFlag(f) /\ ValidFlag(f)' /\ f.round = roundId /\ f \notin known
          BY <1>0, <2>3
      <4>2. PICK i \in Nat : i = roundId /\ Heard(k, i)
          BY <1>1, <3>2 DEF RoundMailInv
      <4>3. Heard(k, i)'
          BY <1>1, <2>2, <3>2, <4>2, HeardAfterSend
      <4>4. flagMail'[k].flag = f /\ flagMail'[k].flag.round = i
          BY <2>2, <3>2, <4>1, <4>2
      <4>5. QED
          BY <2>2, <4>1, <4>3, <4>4
    <3>3. QED
        BY <2>5, <3>1, <3>2
  <2>7. DistinctOK'
    <3>1. \A k \in Sent("NewFlag") : flagMail[k].flag # f
        BY <1>0, <2>1
    <3>2. QED
        BY <1>0, <2>2, <2>5, <3>1
  <2>8. QED
      BY <1>0, <2>4, <2>6, <2>7
<1>6. CASE \E c \in Conns : SendMsg(c)
  <2>1. PICK c \in Conns : SendMsg(c)
      BY <1>6
  <2>2. /\ \E m \in FlagbotMsg : Send(m) /\ m.type # "NewFlag"
        /\ UNCHANGED <<rounds, roundId, unplanted, fbRound, known>>
    <3>1. SubmittedFlag(SubmissionOf(c)) \in FlagbotMsg
          /\ SubmittedFlag(SubmissionOf(c)).type # "NewFlag"
        BY <2>1, SubmissionType, MsgTypes DEF SendMsg, SubmittedFlag
    <3>2. QED
        BY <2>1, <3>1 DEF SendMsg, gameVars, flagbotVars
  <2>3. \A h : ValidFlag(h) <=> ValidFlag(h)'
      BY <2>2 DEF ValidFlag, Valid
  <2>4. \A k \in Sent("NewFlag")' :
            k \in Sent("NewFlag") /\ flagMail'[k] = flagMail[k] /\ Heard(k, flagMail[k].flag.round)'
      BY <2>2, SentAfterSend, AnnouncedAfterSend
  <2>5. MailOK'
    <3>1. ASSUME NEW k \in Sent("NewFlag"), flagMail'[k] = flagMail[k]
          PROVE  ValidFlag(flagMail[k].flag)' /\ flagMail'[k].flag \notin known' \cup unplanted'
      <4>1. PICK h : h = flagMail[k].flag /\ ValidFlag(h) /\ ValidFlag(h)' /\ h \notin known \cup unplanted
          BY <1>0, <2>3
      <4>2. QED
          BY <2>2, <3>1, <4>1
    <3>2. QED
        BY <2>4, <3>1
  <2>6. QED
      BY <1>0, <2>2, <2>3, <2>4, <2>5
<1>7. CASE HandleUpdateRound \/ HandleSubmittedFlag
  <2>1. /\ UNCHANGED <<rounds, roundId, unplanted, known>>
        /\ \E ty \in {"UpdateRound", "SubmittedFlag"} :
              /\ Receives(ty)
              /\ ty = "UpdateRound" => fbRound' = Head(flagMail).round
              /\ ty # "UpdateRound" => UNCHANGED fbRound
      BY <1>7, Zenon DEF HandleUpdateRound, HandleSubmittedFlag, Receives, gameVars
  <2>2. PICK ty \in {"UpdateRound", "SubmittedFlag"} :
              /\ Receives(ty)
              /\ ty = "UpdateRound" => fbRound' = Head(flagMail).round
              /\ ty # "UpdateRound" => UNCHANGED fbRound
      BY <2>1
  <2>3. \A h : ValidFlag(h) <=> ValidFlag(h)'
      BY <2>1 DEF ValidFlag, Valid
  <2>4. \A k \in Sent("NewFlag")' :
            /\ k + 1 \in Sent("NewFlag") /\ flagMail'[k] = flagMail[k + 1] /\ k \in Nat
            /\ Heard(k, flagMail[k].flag.round)'
      BY <2>2, AnnouncedAfterReceive
  <2>5. KnownOK'
    <3>1. fbRound <= fbRound' /\ fbRound' \in Nat
      <4>1. CASE ty = "UpdateRound"
        <5>1. 1 \in Sent("UpdateRound") /\ fbRound' = flagMail[1].round
            BY <2>2, <4>1, SentAfterReceive
        <5>2. QED
            BY <1>1, <5>1 DEF RoundMailInv
      <4>2. QED
          BY <1>1, <2>2, <4>1
    <3>2. \A f \in known : f.round \in Nat
        BY <1>0, <1>1 DEF ValidFlag
    <3>3. QED
        BY <1>0, <1>1, <2>1, <2>3, <3>1, <3>2
  <2>6. PlantOK'
      BY <1>0, <2>1, <2>3
  <2>7. MailOK'
    <3>1. ASSUME NEW k \in Sent("NewFlag")'
          PROVE  ValidFlag(flagMail[k].flag)' /\ flagMail'[k].flag \notin known' \cup unplanted'
      <4>1. PICK h : h = flagMail[k + 1].flag /\ ValidFlag(h) /\ ValidFlag(h)' /\ h \notin known \cup unplanted
          BY <1>0, <2>3, <2>4
      <4>2. QED
          BY <2>1, <2>4, <4>1
    <3>2. QED
        BY <2>4, <3>1
  <2>8. DistinctOK'
    <3>1. \A j, k \in Sent("NewFlag")' : j # k => j + 1 # k + 1
        BY <2>4
    <3>2. QED
        BY <1>0, <2>4, <3>1
  <2>9. QED
      BY <1>0, <2>5, <2>6, <2>7, <2>8
<1>8. CASE HandleNewFlag
  <2>1. /\ UNCHANGED <<rounds, roundId, unplanted, fbRound>> /\ Receives("NewFlag")
        /\ known' = known \cup {Head(flagMail).flag}
      BY <1>8 DEF HandleNewFlag, Receives, gameVars
  <2>2. \A h : ValidFlag(h) <=> ValidFlag(h)'
      BY <2>1 DEF ValidFlag, Valid
  <2>3. \A k \in Sent("NewFlag")' :
            /\ k + 1 \in Sent("NewFlag") /\ flagMail'[k] = flagMail[k + 1] /\ k \in Nat \ {0}
            /\ Heard(k, flagMail[k].flag.round)'
      BY <2>1, AnnouncedAfterReceive
  <2>4. 1 \in Sent("NewFlag") /\ Head(flagMail) = flagMail[1]
      BY <2>1, SentAfterReceive
  <2>5. PICK f : f = flagMail[1].flag /\ ValidFlag(f) /\ Heard(1, f.round) /\ f \notin known \cup unplanted
      BY <1>0, <2>4
  <2>6. f.round <= fbRound
      BY <2>1, <2>5, SentAfterReceive DEF Heard
  <2>7. KnownOK' /\ PlantOK'
      BY <1>0, <2>1, <2>2, <2>4, <2>5, <2>6
  <2>8. MailOK'
    <3>1. ASSUME NEW k \in Sent("NewFlag")'
          PROVE  ValidFlag(flagMail[k].flag)' /\ flagMail'[k].flag \notin known' \cup unplanted'
      <4>1. PICK h : h = flagMail[k + 1].flag /\ ValidFlag(h) /\ ValidFlag(h)' /\ h \notin known \cup unplanted
          BY <1>0, <2>2, <2>3
      <4>2. h # f
        <5>1. k + 1 # 1
            BY <2>3
        <5>2. QED
            BY <1>0, <2>3, <2>4, <2>5, <4>1, <5>1
      <4>3. QED
          BY <2>1, <2>3, <2>4, <2>5, <4>1, <4>2
    <3>2. QED
        BY <2>3, <3>1
  <2>9. DistinctOK'
    <3>1. \A j, k \in Sent("NewFlag")' : j # k => j + 1 # k + 1
        BY <2>3
    <3>2. QED
        BY <1>0, <2>3, <3>1
  <2>10. QED
      BY <1>0, <2>7, <2>8, <2>9
<1>9. CASE Crash
  <2>1. /\ flagMail' = <<>> /\ fbRound' = LastFinished(rounds) /\ unplanted' = {}
        /\ known' = [round : FinishedRows(rounds) \ {1}, team : Teams]
      BY <1>9 DEF Crash, StoredFlags
  <2>2. \A i \in FinishedRows(rounds) : Valid(i)' /\ i <= fbRound'
      BY <1>1, <1>9, <2>1, ValidStep, LastFinishedIsGreatest DEF TableInv
  <2>3. \A f \in known' : f.round \in FinishedRows(rounds) /\ f.round # 1
      BY <2>1
  <2>4. KnownOK'
      BY <2>2, <2>3 DEF ValidFlag
  <2>5. Sent("NewFlag")' = {}
      BY <2>1 DEF Sent
  <2>6. QED
      BY <1>0, <2>1, <2>4, <2>5
<1>10. CASE UNCHANGED <<flagMail, fbRound, roundId, known, unplanted>>
    BY <1>3, <1>9, <1>10
<1>11. QED
    BY <1>4, <1>5, <1>6, <1>7, <1>8, <1>9, <1>10, ChannelSteps

-----------------------------------------------------------------------------
(* From the connection to the journal *)

\* What a queue holds after a message is added ...
LEMMA RangeOfAppend ==
    ASSUME NEW S, NEW q \in Seq(S), NEW x \in S
    PROVE  Append(q, x) \in Seq(S) /\ Range(Append(q, x)) = Range(q) \cup {x}
<1>1. /\ DOMAIN Append(q, x) = DOMAIN q \cup {Len(q) + 1}
      /\ \A k \in DOMAIN q : Append(q, x)[k] = q[k]
      /\ Append(q, x)[Len(q) + 1] = x
    OBVIOUS
<1>2. QED
    BY <1>1 DEF Range

\* ... or taken, or all are dropped.
LEMMA RangeOfTail ==
    ASSUME NEW S, NEW q \in Seq(S), q # <<>>
    PROVE  /\ Head(q) \in Range(q) /\ Head(q) \in S /\ Tail(q) \in Seq(S)
           /\ Range(q) = Range(Tail(q)) \cup {Head(q)}
<1>1. /\ \A k \in DOMAIN Tail(q) : k + 1 \in DOMAIN q /\ Tail(q)[k] = q[k + 1]
      /\ 1 \in DOMAIN q /\ Head(q) = q[1] /\ DOMAIN q = 1..Len(q) /\ Len(q) \in Nat
      /\ DOMAIN Tail(q) = 1..(Len(q) - 1)
      /\ Head(q) \in S /\ Tail(q) \in Seq(S)
    OBVIOUS
<1>2. ASSUME NEW k \in DOMAIN q, k # 1 PROVE k - 1 \in DOMAIN Tail(q) /\ Tail(q)[k - 1] = q[k]
    BY <1>1, <1>2
<1>3. Head(q) \in Range(q)
    BY <1>1 DEF Range
<1>4. Range(Tail(q)) \subseteq Range(q)
    BY <1>1 DEF Range
<1>5. ASSUME NEW k \in DOMAIN q PROVE q[k] \in Range(Tail(q)) \cup {Head(q)}
  <2>1. CASE k = 1
      BY <1>1, <2>1
  <2>2. CASE k # 1
    <3>1. k - 1 \in DOMAIN Tail(q) /\ Tail(q)[k - 1] = q[k]
        BY <1>2, <2>2
    <3>2. QED
        BY <3>1 DEF Range
  <2>3. QED
      BY <2>1, <2>2
<1>6. Range(q) \subseteq Range(Tail(q)) \cup {Head(q)}
    BY <1>5 DEF Range
<1>7. QED
    BY <1>1, <1>3, <1>4, <1>6

LEMMA RangeOfEmpty == Range(<<>>) = {}
BY DEF Range

\* A fresh submission stays so until the process crashes.
LEMMA FreshStep ==
    ASSUME TypeOK, TableInv, [Next]_vars, ~Crash, NEW s, Fresh(s), known \subseteq known'
    PROVE  Fresh(s)'
BY ValidStep, SoundStep DEF Fresh, Valid

\* No known flag is forgotten before a crash.
LEMMA KnownGrows ==
    ASSUME TypeOK, [Next]_vars, ~Crash
    PROVE  known \subseteq known'
BY ChannelSteps DEF StartRound, HandOut, SendMsg, HandleUpdateRound, HandleNewFlag,
   HandleSubmittedFlag, flagbotVars

\* Steps by what they do to connections, events and journal.
LEMMA PathSteps ==
    ASSUME [Next]_vars
    PROVE  \/ UNCHANGED <<conn, events, journal>>
           \/ UNCHANGED <<events, journal, fbRound, known>> /\ \E c \in Conns :
                 \/ ReadRound(c) \/ ReadSubmission(c) \/ SendMsg(c) \/ Timeout(c)
                 \/ \E f \in known : Receive(c, f)
           \/ \E c \in Conns : SendEvent(c)
           \/ JournalEvent
           \/ RelayFails
           \/ Crash
<1>1. CASE UNCHANGED vars
    BY <1>1 DEF vars, relayVars
<1>2. CASE Game
    BY <1>2 DEF Game, FinishRound, StartRound, HandOut, relayVars
<1>3. CASE Handle
    BY <1>3 DEF Handle, HandleUpdateRound, HandleNewFlag, HandleSubmittedFlag, Receives, relayVars
<1>4. CASE \E c \in Conns : Connection(c) \/ Timeout(c) \/ \E f \in known : Receive(c, f)
    BY <1>4 DEF Connection, ReadRound, ReadSubmission, SendMsg, Timeout, Receive,
       relayVars, flagbotVars
<1>5. CASE NotifyScorebot \/ Credit
    BY <1>5 DEF NotifyScorebot, Credit, relayVars
<1>6. QED
    BY <1>1, <1>2, <1>3, <1>4, <1>5 DEF Next

\* What a connection comes to when it goes on.
LEMMA ConnectionStep ==
    ASSUME TypeOK, TableInv, RoundMailInv, FlagInv, PathInv, [Next]_vars, ~Crash, NEW c \in Conns,
           \/ ReadRound(c) \/ ReadSubmission(c) \/ SendMsg(c) \/ SendEvent(c) \/ Timeout(c)
           \/ \E f \in known : Receive(c, f)
    PROVE  /\ \A d \in Conns \ {c} : conn'[d] = conn[d]
           /\ conn'[c].pc = "readRound" => conn'[c].flag \in known
           /\ conn'[c].pc \in Checked => Fresh(SubmissionOf(c))'
<1> DEFINE Step(st) == /\ \A d \in Conns \ {c} : conn'[d] = conn[d]
                       /\ conn'[c] = st
<1>0. \A st : GoTo(c, st) => Step(st)
    BY DEF GoTo, TypeOK
<1>1. CASE \E f \in known : Receive(c, f)
  <2>1. PICK f \in known : GoTo(c, [pc |-> "readRound", flag |-> f])
      BY <1>1 DEF Receive
  <2>2. QED
      BY <1>0, <2>1 DEF Checked
<1>2. ASSUME Step(Idle)
      PROVE  /\ \A d \in Conns \ {c} : conn'[d] = conn[d]
             /\ conn'[c].pc = "readRound" => conn'[c].flag \in known
             /\ conn'[c].pc \in Checked => Fresh(SubmissionOf(c))'
    BY <1>2 DEF Idle, Checked
<1>3. ASSUME NEW s, Fresh(s), SubmissionOf(c)' = s PROVE Fresh(SubmissionOf(c))'
  <2>1. Fresh(s)'
      BY <1>3, KnownGrows, FreshStep
  <2>2. QED
      BY <1>3, <2>1
<1>4. CASE Timeout(c) \/ SendEvent(c)
    BY <1>0, <1>2, <1>4 DEF Timeout, SendEvent
<1>5. CASE ReadRound(c)
  <2>1. CASE conn[c].flag.team = TeamOf[c] \/ fbRound < conn[c].flag.round
             \/ Expired(fbRound, conn[c].flag)
      BY <1>0, <1>2, <1>5, <2>1 DEF ReadRound
  <2>2. CASE ~(conn[c].flag.team = TeamOf[c] \/ fbRound < conn[c].flag.round
               \/ Expired(fbRound, conn[c].flag))
    <3>1. PICK f, i : f = conn[c].flag /\ i = fbRound
        OBVIOUS
    <3>2. Step([pc |-> "readSubmission", flag |-> f, round |-> i]) /\ conn[c].pc = "readRound"
        BY <1>0, <1>5, <2>2, <3>1 DEF ReadRound
    <3>3. f \in known /\ Valid(f.round) /\ f.round # 1 /\ f.round <= i /\ Valid(i)
        BY <3>1, <3>2 DEF PathInv, FlagInv, ValidFlag, RoundMailInv
    <3>4. rounds[f.round].number <= rounds[i].number
        BY <3>3 DEF TableInv, Valid
    <3>5. rounds[f.round].number \in Nat /\ rounds[i].number \in Nat
      <4>1. rounds[f.round] \in Row /\ rounds[i] \in Row
          BY <3>3 DEF TypeOK, Valid
      <4>2. QED
          BY <4>1 DEF Row
    <3>6. rounds[i].number - rounds[f.round].number \in 0..(FlagLife - 1)
        BY <2>2, <3>1, <3>4, <3>5, Constants DEF Expired, Age
    <3>7. Fresh([round |-> i, attacker |-> TeamOf[c], flag |-> f])
        BY <2>2, <3>1, <3>3, <3>6 DEF Fresh, Sound, Valid
    <3>8. SubmissionOf(c)' = [round |-> i, attacker |-> TeamOf[c], flag |-> f]
        BY <3>2 DEF SubmissionOf
    <3>9. conn'[c].pc # "readRound"
        BY <3>2
    <3>10. QED
        BY <1>3, <3>2, <3>7, <3>8, <3>9
  <2>3. QED
      BY <2>1, <2>2
<1>6. CASE ReadSubmission(c) \/ SendMsg(c)
  <2>1. /\ conn[c].pc \in {"readSubmission", "sendMsg"}
        /\ Step(Idle) \/ \E pc \in {"sendMsg", "sendEvent"} : Step([conn[c] EXCEPT !.pc = pc])
      BY <1>0, <1>6 DEF ReadSubmission, SendMsg
  <2>2. CASE Step(Idle)
      BY <1>2, <2>2
  <2>3. CASE \E pc \in {"sendMsg", "sendEvent"} : Step([conn[c] EXCEPT !.pc = pc])
    <3>1. PICK pc \in {"sendMsg", "sendEvent"} : Step([conn[c] EXCEPT !.pc = pc])
        BY <2>3
    <3>2. PICK s : s = SubmissionOf(c) /\ Fresh(s)
        BY <2>1 DEF PathInv, Checked
    <3>3. conn[c] = [pc |-> conn[c].pc, flag |-> conn[c].flag, round |-> conn[c].round]
        BY <2>1, SubmissionType
    <3>4. /\ conn'[c].pc = pc /\ conn'[c].flag = conn[c].flag /\ conn'[c].round = conn[c].round
        BY <3>1, <3>3
    <3>5. SubmissionOf(c)' = s
        BY <3>2, <3>4 DEF SubmissionOf
    <3>6. QED
        BY <1>3, <3>1, <3>2, <3>4, <3>5
  <2>4. QED
      BY <2>1, <2>2, <2>3
<1>7. QED
    BY <1>1, <1>4, <1>5, <1>6

LEMMA PathStep ==
    ASSUME TypeOK, TableInv, RoundMailInv, FlagInv, PathInv, [Next]_vars
    PROVE  PathInv'
<1>1. /\ events \in Seq(Submission) /\ journal \in Seq(Submission) /\ roundId \in Nat
      /\ rounds \in Seq(Row) /\ DOMAIN rounds \subseteq Nat
    BY DEF TypeOK
<1>2. ASSUME ~Crash
      PROVE  /\ known \subseteq known'
             /\ \A s : Fresh(s) => Fresh(s)'
             /\ \A s \in Range(journal) : Sound(s)' /\ (Valid(s.round)' => Valid(s.flag.round)')
  <2>1. \A s : Fresh(s) => Fresh(s)'
      BY <1>2, FreshStep, KnownGrows
  <2>2. ASSUME NEW s \in Range(journal)
        PROVE  Sound(s)' /\ (Valid(s.round)' => Valid(s.flag.round)')
    <3>1. Sound(s) /\ (Valid(s.round) => Valid(s.flag.round))
        BY DEF PathInv
    <3>2. s.round \in DOMAIN rounds /\ s.flag.round \in DOMAIN rounds
        BY <3>1 DEF Sound
    <3>3. QED
        BY <1>2, <3>1, <3>2, SoundStep, ValidStep
  <2>3. QED
      BY <1>2, <2>1, <2>2, KnownGrows
<1>3. ASSUME ~Crash, NEW d \in Conns, conn'[d] = conn[d]
      PROVE  /\ conn'[d].pc = "readRound" => conn'[d].flag \in known'
             /\ conn'[d].pc \in Checked => Fresh(SubmissionOf(d))'
  <2>1. SubmissionOf(d)' = SubmissionOf(d)
      BY <1>3 DEF SubmissionOf
  <2>2. PICK s : s = SubmissionOf(d)
      OBVIOUS
  <2>3. QED
      BY <1>2, <1>3, <2>1, <2>2 DEF PathInv
<1>4. CASE UNCHANGED <<conn, events, journal>> /\ ~Crash
    BY <1>2, <1>3, <1>4 DEF PathInv
<1>5. CASE /\ ~Crash /\ UNCHANGED <<events, journal, fbRound, known>>
           /\ \E c \in Conns :
                 \/ ReadRound(c) \/ ReadSubmission(c) \/ SendMsg(c) \/ Timeout(c)
                 \/ \E f \in known : Receive(c, f)
  <2>1. PICK c \in Conns :
                 \/ ReadRound(c) \/ ReadSubmission(c) \/ SendMsg(c) \/ Timeout(c)
                 \/ \E f \in known : Receive(c, f)
      BY <1>5
  <2>2. /\ \A d \in Conns \ {c} : conn'[d] = conn[d]
        /\ conn'[c].pc = "readRound" => conn'[c].flag \in known
        /\ conn'[c].pc \in Checked => Fresh(SubmissionOf(c))'
      BY <1>5, <2>1, ConnectionStep
  <2>3. \A d \in Conns : /\ conn'[d].pc = "readRound" => conn'[d].flag \in known'
                         /\ conn'[d].pc \in Checked => Fresh(SubmissionOf(d))'
      BY <1>2, <1>3, <1>5, <2>2
  <2>4. QED
      BY <1>2, <1>5, <2>3 DEF PathInv
<1>6. CASE ~Crash /\ \E c \in Conns : SendEvent(c)
  <2>1. PICK c \in Conns : SendEvent(c)
      BY <1>6
  <2>2. /\ \A d \in Conns \ {c} : conn'[d] = conn[d]
        /\ conn'[c].pc = "readRound" => conn'[c].flag \in known
        /\ conn'[c].pc \in Checked => Fresh(SubmissionOf(c))'
      BY <1>6, <2>1, ConnectionStep
  <2>3. \A d \in Conns : /\ conn'[d].pc = "readRound" => conn'[d].flag \in known'
                         /\ conn'[d].pc \in Checked => Fresh(SubmissionOf(d))'
      BY <1>2, <1>3, <1>6, <2>2
  <2>4. Fresh(SubmissionOf(c)) /\ SubmissionOf(c) \in Submission
      BY <2>1, SubmissionType DEF SendEvent, PathInv, Checked
  <2>5. Range(events') \subseteq Range(events) \cup {SubmissionOf(c)}
    <3>1. events' = Append(events, SubmissionOf(c)) \/ UNCHANGED events
        BY <2>1 DEF SendEvent
    <3>2. QED
        BY <1>1, <2>4, <3>1, RangeOfAppend, ZenonT(30)
  <2>6. \A s \in Range(events') : Fresh(s)'
      BY <1>2, <1>6, <2>4, <2>5 DEF PathInv
  <2>7. UNCHANGED journal
      BY <2>1 DEF SendEvent
  <2>8. QED
      BY <1>2, <1>6, <2>3, <2>6, <2>7 DEF PathInv
<1>7. CASE ~Crash /\ (JournalEvent \/ RelayFails)
  <2>1. /\ UNCHANGED conn /\ events # <<>>
        /\ \/ events' = Tail(events) /\ journal' = Append(journal, Head(events))
           \/ events' = <<>> /\ UNCHANGED journal
      BY <1>7 DEF JournalEvent, RelayFails
  <2>2. /\ Range(events') \subseteq Range(events)
        /\ Range(journal') \subseteq Range(journal) \cup {Head(events)}
        /\ Head(events) \in Range(events)
    <3>1. /\ Head(events) \in Range(events) /\ Head(events) \in Submission
          /\ Range(Tail(events)) \subseteq Range(events)
        BY <1>1, <2>1, RangeOfTail
    <3>2. Range(Append(journal, Head(events))) = Range(journal) \cup {Head(events)}
        BY <1>1, <3>1, RangeOfAppend
    <3>3. QED
        BY <2>1, <3>1, <3>2, RangeOfEmpty
  <2>3. \A s \in Range(events) : Fresh(s)' /\ Fresh(s)
      BY <1>2, <1>7 DEF PathInv
  <2>4. \A s \in Range(events) : Sound(s)' /\ (Valid(s.round)' => Valid(s.flag.round)')
    <3>1. ASSUME NEW s \in Range(events) PROVE Sound(s)' /\ Valid(s.flag.round)'
      <4>1. Sound(s)' /\ s.flag \in known /\ s.flag.round \in DOMAIN rounds
          BY <2>3 DEF Fresh, Sound
      <4>2. Valid(s.flag.round)
          BY <4>1 DEF FlagInv, ValidFlag
      <4>3. QED
          BY <1>7, <4>1, <4>2, ValidStep
    <3>2. QED
        BY <3>1
  <2>5. QED
      BY <1>2, <1>3, <1>7, <2>1, <2>2, <2>3, <2>4 DEF PathInv
<1>8. CASE Crash
  <2>1. conn' = [c \in Conns |-> Idle] /\ events' = <<>> /\ UNCHANGED journal
      BY <1>8 DEF Crash
  <2>2. \A c \in Conns : conn'[c].pc = "ready"
      BY <2>1 DEF Idle
  <2>3. Range(events') = {}
      BY <2>1, RangeOfEmpty
  <2>4. ASSUME NEW s \in Range(journal)
        PROVE  Sound(s)' /\ (Valid(s.round)' => Valid(s.flag.round)')
    <3>1. Sound(s) /\ (Valid(s.round) => Valid(s.flag.round))
        BY DEF PathInv
    <3>2. s.round \in DOMAIN rounds /\ s.flag.round \in DOMAIN rounds /\ s.flag.round <= s.round
        BY <3>1 DEF Sound
    <3>3. \A i : Valid(i)' <=> i \in FinishedRows(rounds)
        BY <1>8, ValidStep
    <3>4. ASSUME s.round \in FinishedRows(rounds) PROVE s.flag.round \in FinishedRows(rounds)
      <4>1. Valid(s.flag.round) /\ s.round <= roundId
          BY <3>1, <3>2, <3>4 DEF Valid, FinishedRows, TableInv
      <4>2. CASE s.flag.round = roundId
          BY <1>1, <3>2, <3>4, <4>1, <4>2
      <4>3. QED
          BY <3>2, <4>1, <4>2 DEF Valid, FinishedRows
    <3>5. QED
        BY <3>1, <3>3, <3>4, SoundStep
  <2>5. QED
      BY <2>1, <2>2, <2>3, <2>4 DEF PathInv, Checked
<1>9. QED
    BY <1>4, <1>5, <1>6, <1>7, <1>8, PathSteps

-----------------------------------------------------------------------------
(* From the journal to the score *)

\* A pair whose flag is known stays marked: its mark is taken off only when the
\* flag is handed out.
LEMMA MarkedStep ==
    ASSUME TypeOK, FlagInv, [Next]_vars, ~Crash, NEW p, Marked(p), p[2] \in known
    PROVE  Marked(p)'
<1>1. CASE UNCHANGED <<flagMail, submitted>>
    BY <1>1 DEF Marked, Sent
<1>2. CASE UNCHANGED submitted /\ \E m \in FlagbotMsg : Send(m)
  <2>1. CASE p \in submitted
      BY <1>2, <2>1 DEF Marked
  <2>2. CASE \E k \in Sent("SubmittedFlag") : Pair(flagMail[k].submission) = p
    <3>1. PICK k \in Sent("SubmittedFlag") : Pair(flagMail[k].submission) = p
        BY <2>2
    <3>2. k \in Sent("SubmittedFlag")' /\ flagMail'[k] = flagMail[k]
        BY <1>2, SentAfterSend
    <3>3. QED
        BY <3>1, <3>2 DEF Marked, Pair
  <2>3. QED
      BY <2>1, <2>2 DEF Marked
<1>3. ASSUME NEW ty, Receives(ty), ty # "SubmittedFlag",
             NEW k \in Sent("SubmittedFlag"), Pair(flagMail[k].submission) = p
      PROVE  Marked(p)'
  <2>1. k - 1 \in Sent("SubmittedFlag")' /\ flagMail'[k - 1] = flagMail[k]
      BY <1>3, SentAfterReceive
  <2>2. QED
      BY <1>3, <2>1 DEF Marked, Pair
<1>4. CASE HandleUpdateRound
  <2>1. Receives("UpdateRound") /\ UNCHANGED submitted
      BY <1>4 DEF HandleUpdateRound
  <2>2. CASE p \in submitted
      BY <2>1, <2>2 DEF Marked
  <2>3. QED
      BY <1>3, <2>1, <2>2 DEF Marked
<1>5. CASE HandleNewFlag
  <2>1. Receives("NewFlag") /\ submitted' = submitted \ (Teams \X {Head(flagMail).flag})
      BY <1>5 DEF HandleNewFlag
  <2>2. Head(flagMail).flag \notin known
      BY <2>1, SentAfterReceive DEF FlagInv
  <2>3. CASE p \in submitted
    <3>1. p \notin Teams \X {Head(flagMail).flag}
        BY <2>2
    <3>2. QED
        BY <2>1, <2>3, <3>1 DEF Marked
  <2>4. QED
      BY <1>3, <2>1, <2>3 DEF Marked
<1>6. CASE HandleSubmittedFlag
  <2>1. Receives("SubmittedFlag") /\ submitted' = submitted \cup {Pair(Head(flagMail).submission)}
      BY <1>6 DEF HandleSubmittedFlag
  <2>2. CASE p \in submitted
      BY <2>1, <2>2 DEF Marked
  <2>3. CASE \E k \in Sent("SubmittedFlag") : Pair(flagMail[k].submission) = p
    <3>1. PICK k \in Sent("SubmittedFlag") : Pair(flagMail[k].submission) = p
        BY <2>3
    <3>2. CASE k = 1
        BY <2>1, <3>1, <3>2, SentAfterReceive DEF Marked
    <3>3. CASE k - 1 \in Sent("SubmittedFlag")' /\ flagMail'[k - 1] = flagMail[k]
        BY <3>1, <3>3 DEF Marked, Pair
    <3>4. QED
        BY <2>1, <3>1, <3>2, <3>3, SentAfterReceive
  <2>4. QED
      BY <2>2, <2>3 DEF Marked
<1>7. ASSUME StartRound \/ (\E f \in unplanted : HandOut(f)) \/ (\E c \in Conns : SendMsg(c))
      PROVE  UNCHANGED submitted /\ \E m \in FlagbotMsg : Send(m)
  <2>1. CASE StartRound
    <3>1. UpdateRound(roundId') \in FlagbotMsg
      <4>1. roundId' = Len(rounds) + 1 /\ Len(rounds) < MaxRows /\ Len(rounds) \in Nat
          BY <2>1 DEF StartRound, TypeOK
      <4>2. QED
          BY <4>1, Constants, MsgTypes
    <3>2. QED
        BY <2>1, <3>1 DEF StartRound, flagbotVars
  <2>2. CASE \E f \in unplanted : HandOut(f)
    <3>1. PICK f \in Flag : HandOut(f)
        BY <2>2 DEF TypeOK
    <3>2. QED
        BY <3>1, MsgTypes DEF HandOut, flagbotVars
  <2>3. CASE \E c \in Conns : SendMsg(c)
    <3>1. PICK c \in Conns : SendMsg(c)
        BY <2>3
    <3>2. SubmittedFlag(SubmissionOf(c)) \in FlagbotMsg
        BY <3>1, SubmissionType, MsgTypes DEF SendMsg
    <3>3. QED
        BY <3>1, <3>2 DEF SendMsg, flagbotVars
  <2>4. QED
      BY <1>7, <2>1, <2>2, <2>3
<1>8. QED
    BY <1>1, <1>2, <1>4, <1>5, <1>6, <1>7, ChannelSteps

\* What counts are the journaled submissions whose round does.
LEMMA CountedValid ==
    ASSUME PathInv
    PROVE  Counted = {s \in Range(journal) : Valid(s.round)}
BY DEF PathInv, Sound, Valid, Counted

\* Steps by what they do to the relay and the scorebot.
LEMMA CreditSteps ==
    ASSUME [Next]_vars
    PROVE  \/ UNCHANGED <<journal, relay, scoreMail, credited>>
           \/ JournalEvent \/ RelayFails \/ NotifyScorebot \/ Credit \/ Crash
<1>1. CASE UNCHANGED vars
    BY <1>1 DEF vars, relayVars, scoreVars
<1>2. CASE Game
    BY <1>2 DEF Game, FinishRound, StartRound, HandOut, relayVars, scoreVars
<1>3. CASE Handle
    BY <1>3 DEF Handle, HandleUpdateRound, HandleNewFlag, HandleSubmittedFlag, Receives,
       relayVars, scoreVars
<1>4. CASE \E c \in Conns : Connection(c) \/ Timeout(c) \/ \E f \in known : Receive(c, f)
    BY <1>4 DEF Connection, ReadRound, ReadSubmission, SendMsg, SendEvent, Timeout, Receive,
       relayVars, scoreVars
<1>5. QED
    BY <1>1, <1>2, <1>3, <1>4 DEF Next

\* The pairs that count: the journal adds one, and a crash leaves those of the
\* finished rounds.
LEMMA CountedStep ==
    ASSUME TypeOK, TableInv, RoundMailInv, FlagInv, PathInv, [Next]_vars, ~Crash
    PROVE  /\ UNCHANGED journal => CountedPairs' = CountedPairs
           /\ JournalEvent => CountedPairs' = CountedPairs \cup {Pair(Head(events))}
<1>1. Counted' = {s \in Range(journal') : Valid(s.round)'}
  <2>1. PathInv'
      BY PathStep
  <2>2. \A s \in Range(journal') : s.round \in DOMAIN rounds'
      BY <2>1 DEF PathInv, Sound
  <2>3. QED
      BY <2>2 DEF Counted, Valid
<1>2. Counted = {s \in Range(journal) : Valid(s.round)}
    BY CountedValid
<1>3. \A s \in Range(journal) : Valid(s.round) <=> Valid(s.round)'
    BY ValidStep DEF PathInv, Sound
<1>4. ASSUME UNCHANGED journal PROVE CountedPairs' = CountedPairs
  <2>1. Counted' = Counted
      BY <1>1, <1>2, <1>3, <1>4
  <2>2. QED
      BY <2>1 DEF CountedPairs, Pair
<1>5. ASSUME JournalEvent PROVE CountedPairs' = CountedPairs \cup {Pair(Head(events))}
  <2>1. PICK h : h = Head(events)
      OBVIOUS
  <2>2. events # <<>> /\ journal' = Append(journal, h)
      BY <1>5, <2>1 DEF JournalEvent
  <2>3. h \in Range(events) /\ h \in Submission
      BY <2>1, <2>2, RangeOfTail DEF TypeOK
  <2>4. Range(journal') = Range(journal) \cup {h}
      BY <2>2, <2>3, RangeOfAppend DEF TypeOK
  <2>5. Valid(h.round) /\ h.round \in DOMAIN rounds
      BY <2>3 DEF PathInv, Fresh, Valid
  <2>6. Valid(h.round)'
      BY <2>5, ValidStep
  <2>7. Counted' = Counted \cup {h}
      BY <1>1, <1>2, <1>3, <2>4, <2>6
  <2>8. QED
      BY <2>1, <2>7 DEF CountedPairs, Pair
<1>6. QED
    BY <1>4, <1>5

LEMMA CreditStep ==
    ASSUME TypeOK, TableInv, RoundMailInv, FlagInv, PathInv, CreditInv, [Next]_vars
    PROVE  CreditInv'
<1> DEFINE
      Notified == IF relay.pc = "notify" THEN {relay.pair} ELSE {}
      BookedOK == credited \cup Range(scoreMail) \cup Notified = CountedPairs
      MarkedOK == \A p \in CountedPairs : Marked(p) /\ p[2] \in known
      EventsOK == \A s \in Range(events) : Marked(Pair(s))
      ConnsOK  == \A c \in Conns : conn[c].pc = "sendEvent" => Marked(Pair(SubmissionOf(c)))
<1>0. /\ CreditInv <=> BookedOK /\ MarkedOK /\ EventsOK /\ ConnsOK
      /\ CreditInv' <=> BookedOK' /\ MarkedOK' /\ EventsOK' /\ ConnsOK'
    BY DEF CreditInv
<1>1. /\ events \in Seq(Submission) /\ journal \in Seq(Submission)
      /\ scoreMail \in Seq(Teams \X Flag)
      /\ relay \in [pc : {"recv", "dead"}] \cup [pc : {"notify"}, pair : Teams \X Flag]
    BY DEF TypeOK
<1>2. ASSUME ~Crash
      PROVE  \A p : Marked(p) /\ p[2] \in known => Marked(p)' /\ p[2] \in known'
    BY <1>2, MarkedStep, KnownGrows
<1>3. \A s : Pair(s)[2] = s.flag
    BY DEF Pair
<1>4. \A s \in Range(events) : Marked(Pair(s)) /\ Pair(s)[2] \in known
    BY <1>0, <1>3 DEF PathInv, Fresh
<1>5. ASSUME NEW c \in Conns, conn[c].pc \in Checked
      PROVE  Pair(SubmissionOf(c))[2] \in known
    BY <1>3, <1>5 DEF PathInv, Fresh
<1>6. ASSUME ~Crash PROVE BookedOK'
  <2>1. CASE UNCHANGED <<journal, relay, scoreMail, credited>>
      BY <1>0, <1>6, <2>1, CountedStep
  <2>2. CASE JournalEvent
    <3>1. /\ relay.pc = "recv" /\ relay'.pc = "notify" /\ relay'.pair = Pair(Head(events))
          /\ UNCHANGED <<scoreMail, credited>>
        BY <2>2 DEF JournalEvent, scoreVars
    <3>2. CountedPairs' = CountedPairs \cup {Pair(Head(events))}
        BY <1>6, <2>2, CountedStep
    <3>3. QED
        BY <1>0, <3>1, <3>2
  <2>3. CASE RelayFails
    <3>1. /\ relay.pc = "recv" /\ relay'.pc = "dead" /\ UNCHANGED <<journal, scoreMail, credited>>
        BY <2>3 DEF RelayFails, scoreVars
    <3>2. CountedPairs' = CountedPairs
        BY <1>6, <3>1, CountedStep
    <3>3. QED
        BY <1>0, <3>1, <3>2
  <2>4. CASE NotifyScorebot
    <3>1. /\ relay.pc = "notify" /\ relay'.pc = "recv" /\ UNCHANGED <<journal, credited>>
          /\ scoreMail' = Append(scoreMail, relay.pair)
        BY <2>4 DEF NotifyScorebot
    <3>2. CountedPairs' = CountedPairs
        BY <1>6, <3>1, CountedStep
    <3>3. relay.pair \in Teams \X Flag
        BY <1>1, <3>1
    <3>4. Range(scoreMail') = Range(scoreMail) \cup {relay.pair}
        BY <1>1, <3>1, <3>3, RangeOfAppend
    <3>5. QED
        BY <1>0, <3>1, <3>2, <3>4
  <2>5. CASE Credit
    <3>1. /\ UNCHANGED <<journal, relay>> /\ scoreMail # <<>>
          /\ scoreMail' = Tail(scoreMail) /\ credited' = credited \cup {Head(scoreMail)}
        BY <2>5 DEF Credit, relayVars
    <3>2. CountedPairs' = CountedPairs
        BY <1>6, <3>1, CountedStep
    <3>3. Range(scoreMail) = Range(Tail(scoreMail)) \cup {Head(scoreMail)}
        BY <1>1, <3>1, RangeOfTail
    <3>4. QED
        BY <1>0, <3>1, <3>2, <3>3
  <2>6. QED
      BY <1>6, <2>1, <2>2, <2>3, <2>4, <2>5, CreditSteps
<1>7. ASSUME ~Crash PROVE MarkedOK'
  <2>1. \A p \in CountedPairs : Marked(p)' /\ p[2] \in known'
      BY <1>0, <1>2, <1>7
  <2>2. CASE UNCHANGED journal
      BY <1>7, <2>1, <2>2, CountedStep
  <2>3. CASE JournalEvent
    <3>1. events # <<>> /\ Head(events) \in Range(events)
        BY <1>1, <2>3, RangeOfTail DEF JournalEvent
    <3>2. PICK p : p = Pair(Head(events))
        OBVIOUS
    <3>3. Marked(p)' /\ p[2] \in known'
        BY <1>2, <1>4, <1>7, <3>1, <3>2
    <3>4. CountedPairs' = CountedPairs \cup {p}
        BY <1>7, <2>3, <3>2, CountedStep
    <3>5. QED
        BY <2>1, <3>3, <3>4
  <2>4. QED
      BY <1>7, <2>2, <2>3, CreditSteps DEF RelayFails, NotifyScorebot, Credit, relayVars
<1>8. ASSUME ~Crash PROVE EventsOK'
  <2>1. \A s \in Range(events) : Marked(Pair(s))'
    <3>1. ASSUME NEW s \in Range(events) PROVE Marked(Pair(s))'
      <4>1. PICK p : p = Pair(s)
          OBVIOUS
      <4>2. Marked(p)' /\ p = Pair(s)'
          BY <1>2, <1>4, <1>8, <4>1 DEF Pair
      <4>3. QED
          BY <4>2
    <3>2. QED
        BY <3>1
  <2>2. CASE \E c \in Conns : SendEvent(c)
    <3>1. PICK c \in Conns : SendEvent(c)
        BY <2>2
    <3>2. PICK s \in Submission : s = SubmissionOf(c)
        BY <3>1, SubmissionType DEF SendEvent
    <3>3. Marked(Pair(s)) /\ Pair(s)[2] \in known
        BY <1>0, <1>5, <3>1, <3>2 DEF SendEvent, Checked
    <3>4. PICK p : p = Pair(s)
        OBVIOUS
    <3>5. Marked(p)' /\ p = Pair(s)'
        BY <1>2, <1>8, <3>3, <3>4 DEF Pair
    <3>6. events' = Append(events, s) \/ UNCHANGED events
        BY <3>1, <3>2 DEF SendEvent
    <3>7. Range(events') \subseteq Range(events) \cup {s}
        BY <1>1, <3>6, RangeOfAppend
    <3>8. QED
        BY <2>1, <3>5, <3>7
  <2>3. CASE JournalEvent \/ RelayFails
    <3>1. events # <<>> /\ (events' = Tail(events) \/ events' = <<>>)
        BY <2>3 DEF JournalEvent, RelayFails
    <3>2. Range(Tail(events)) \subseteq Range(events)
        BY <1>1, <3>1, RangeOfTail
    <3>3. Range(events') \subseteq Range(events)
        BY <3>1, <3>2, RangeOfEmpty
    <3>4. QED
        BY <2>1, <3>3
  <2>4. CASE UNCHANGED events
      BY <2>1, <2>4
  <2>5. QED
      BY <1>8, <2>2, <2>3, <2>4, PathSteps
<1>9. ASSUME ~Crash PROVE ConnsOK'
  <2>1. ASSUME NEW c \in Conns, conn'[c] = conn[c], conn'[c].pc = "sendEvent"
        PROVE  Marked(Pair(SubmissionOf(c)))'
    <3>1. PICK p : p = Pair(SubmissionOf(c))
        OBVIOUS
    <3>2. Marked(p) /\ p[2] \in known
        BY <1>0, <1>5, <2>1, <3>1 DEF Checked
    <3>3. p = Pair(SubmissionOf(c))'
        BY <2>1, <3>1 DEF Pair, SubmissionOf
    <3>4. QED
        BY <1>2, <1>9, <3>2, <3>3
  <2>2. CASE \E c \in Conns : SendMsg(c)
    <3>1. PICK c \in Conns : SendMsg(c)
        BY <2>2
    <3>2. /\ conn' = [conn EXCEPT ![c] = [conn[c] EXCEPT !.pc = "sendEvent"]]
          /\ conn[c].pc = "sendMsg"
        BY <3>1 DEF SendMsg, GoTo
    <3>3. \A d \in Conns \ {c} : conn'[d] = conn[d]
        BY <3>2 DEF TypeOK
    <3>4. SubmissionOf(c)' = SubmissionOf(c) /\ SubmissionOf(c) \in Submission
      <4>1. conn[c] = [pc |-> conn[c].pc, flag |-> conn[c].flag, round |-> conn[c].round]
            /\ SubmissionOf(c) \in Submission
          BY <3>2, SubmissionType
      <4>2. conn'[c].flag = conn[c].flag /\ conn'[c].round = conn[c].round
          BY <3>2, <4>1 DEF TypeOK
      <4>3. QED
          BY <4>1, <4>2 DEF SubmissionOf
    <3>5. Marked(Pair(SubmissionOf(c)))'
      <4>1. PICK s \in Submission : s = SubmissionOf(c)
          BY <3>4
      <4>2. SubmittedFlag(s) \in FlagbotMsg /\ Send(SubmittedFlag(s))
            /\ SubmittedFlag(s).type = "SubmittedFlag" /\ SubmittedFlag(s).submission = s
          BY <3>1, <4>1, MsgTypes DEF SendMsg, SubmittedFlag
      <4>3. PICK k : k \in Sent("SubmittedFlag")' /\ flagMail'[k].submission = s
          BY <4>2, SentAfterSend
      <4>4. Pair(flagMail[k].submission)' = Pair(SubmissionOf(c))'
          BY <3>4, <4>1, <4>3 DEF Pair
      <4>5. QED
          BY <4>3, <4>4 DEF Marked
    <3>6. QED
        BY <2>1, <3>3, <3>5
  <2>3. CASE \E c \in Conns : \/ ReadRound(c) \/ ReadSubmission(c) \/ SendEvent(c) \/ Timeout(c)
                              \/ \E f \in known : Receive(c, f)
    <3>1. PICK c \in Conns : \/ ReadRound(c) \/ ReadSubmission(c) \/ SendEvent(c) \/ Timeout(c)
                             \/ \E f \in known : Receive(c, f)
        BY <2>3
    <3>2. \E st \in ConnState : GoTo(c, st) /\ st.pc # "sendEvent"
      <4>1. CASE ReadRound(c)
        <5>1. [pc |-> "readSubmission", flag |-> conn[c].flag, round |-> fbRound] \in ConnState
          <6>1. conn[c].flag \in Flag
              BY <4>1, LookedUpType DEF ReadRound
          <6>2. fbRound \in 1..MaxRows
              BY Constants DEF TypeOK
          <6>3. QED
              BY <6>1, <6>2 DEF ConnState
        <5>2. QED
            BY <4>1, <5>1 DEF ReadRound, ConnState, Idle
      <4>2. CASE ReadSubmission(c)
        <5>1. conn[c] \in [pc : {"readSubmission", "sendMsg", "sendEvent"},
                           flag : Flag, round : 1..MaxRows]
            BY <4>2 DEF ReadSubmission, TypeOK, ConnState, Idle
        <5>2. [conn[c] EXCEPT !.pc = "sendMsg"] \in ConnState
              /\ [conn[c] EXCEPT !.pc = "sendMsg"].pc = "sendMsg"
            BY <5>1 DEF ConnState
        <5>3. QED
            BY <4>2, <5>2 DEF ReadSubmission, ConnState, Idle
      <4>3. CASE SendEvent(c) \/ Timeout(c)
          BY <4>3 DEF SendEvent, Timeout, ConnState, Idle
      <4>4. CASE \E f \in known : Receive(c, f)
          BY <4>4 DEF Receive, ConnState, TypeOK
      <4>5. QED
          BY <3>1, <4>1, <4>2, <4>3, <4>4
    <3>3. conn'[c].pc # "sendEvent" /\ \A d \in Conns \ {c} : conn'[d] = conn[d]
        BY <3>2 DEF GoTo, TypeOK
    <3>4. QED
        BY <2>1, <3>3
  <2>4. CASE UNCHANGED conn
      BY <2>1, <2>4
  <2>5. QED
      BY <1>9, <2>2, <2>3, <2>4, PathSteps DEF JournalEvent, RelayFails
<1>10. CASE Crash
  <2>1. /\ conn' = [c \in Conns |-> Idle] /\ events' = <<>> /\ UNCHANGED journal
        /\ scoreMail' = <<>> /\ relay'.pc = "recv"
        /\ submitted' = {Pair(s) : s \in Replayed} /\ credited' = {Pair(s) : s \in Effective}
        /\ known' = [round : FinishedRows(rounds) \ {1}, team : Teams]
      BY <1>10 DEF Crash, StoredFlags
  <2>2. PathInv' /\ \A i : Valid(i)' <=> i \in FinishedRows(rounds)
      BY <1>10, PathStep, ValidStep
  <2>3. \A s \in Range(journal) :
            /\ s.round \in DOMAIN rounds /\ s.flag.round \in DOMAIN rounds /\ s.flag.round # 1
            /\ s.round \in FinishedRows(rounds) => s.flag.round \in FinishedRows(rounds)
    <3>1. ASSUME NEW s \in Range(journal)
          PROVE  s.round \in FinishedRows(rounds) => s.flag.round \in FinishedRows(rounds)
        BY <2>1, <2>2 DEF PathInv
    <3>2. QED
        BY <3>1 DEF PathInv, Sound
  <2>4. Counted' = Replayed /\ Effective = Replayed
    <3>1. Counted' = {s \in Range(journal) : s.round \in FinishedRows(rounds)}
      <4>1. Counted' = {s \in Range(journal') : Valid(s.round)'}
        <5>1. \A s \in Range(journal') : s.round \in DOMAIN rounds'
            BY <2>2 DEF PathInv, Sound
        <5>2. QED
            BY <5>1 DEF Counted, Valid
      <4>2. QED
          BY <2>1, <2>2, <4>1
    <3>2. QED
        BY <2>3, <3>1 DEF Replayed, Effective, FinishedRows
  <2>5. CountedPairs' = {Pair(s) : s \in Replayed}
      BY <2>4 DEF CountedPairs, Pair
  <2>6. BookedOK'
      BY <2>1, <2>4, <2>5, RangeOfEmpty
  <2>7. MarkedOK'
    <3>1. ASSUME NEW s \in Replayed PROVE s.flag \in known'
      <4>1. s \in Range(journal) /\ s.round \in FinishedRows(rounds)
          BY <2>3 DEF Replayed, FinishedRows
      <4>2. s \in Submission
          BY <1>1, <4>1 DEF Range
      <4>3. s.flag \in Flag
          BY <4>2, PairType
      <4>4. QED
          BY <2>1, <2>3, <4>1, <4>3 DEF Flag
    <3>2. \A p \in CountedPairs' : p \in submitted' /\ p[2] \in known'
        BY <1>3, <2>1, <2>5, <3>1
    <3>3. QED
        BY <3>2 DEF Marked
  <2>8. EventsOK'
      BY <2>1, RangeOfEmpty
  <2>9. ConnsOK'
      BY <2>1 DEF Idle
  <2>10. QED
      BY <1>0, <2>6, <2>7, <2>8, <2>9
<1>11. QED
    BY <1>0, <1>6, <1>7, <1>8, <1>9, <1>10

-----------------------------------------------------------------------------
(* The invariant and what it implies *)

LEMMA InitSubmission == Init => SubmissionInv
<1> SUFFICES ASSUME Init PROVE SubmissionInv
    OBVIOUS
<1>1. TypeOK
    BY InitType
<1>2. /\ rounds = InitialRounds /\ roundId = 1 /\ fbRound = 1 /\ unplanted = {} /\ known = {}
      /\ flagMail = <<>> /\ events = <<>> /\ journal = <<>> /\ scoreMail = <<>>
      /\ credited = {} /\ relay = [pc |-> "recv"] /\ conn = [c \in Conns |-> Idle]
    BY DEF Init
<1>3. DOMAIN rounds = {1} /\ rounds[1].finished /\ FinishedRows(rounds) = {1}
    BY <1>2 DEF InitialRounds, FinishedRows
<1>4. \A i : Valid(i) <=> i = 1
    BY <1>3 DEF Valid
<1>5. TableInv
  <2>1. rounds[1].number \in Nat
      BY <1>2 DEF InitialRounds
  <2>2. QED
      BY <1>2, <1>3, <1>4, <2>1 DEF TableInv
<1>6. \A type : Sent(type) = {}
    BY <1>2 DEF Sent
<1>7. RoundMailInv /\ FlagInv
    BY <1>2, <1>4, <1>6 DEF RoundMailInv, Heard, FlagInv
<1>8. PathInv
    BY <1>2, RangeOfEmpty DEF PathInv, Checked, Idle
<1>9. CreditInv
    BY <1>2, RangeOfEmpty DEF CreditInv, CountedPairs, Counted, Idle
<1>10. QED
    BY <1>1, <1>5, <1>7, <1>8, <1>9 DEF SubmissionInv

\* The table, the channel, the flags, the submissions on their way and the
\* credit fit together in every reachable state.
THEOREM SubmissionInvariance == Spec => []SubmissionInv
<1>1. SubmissionInv /\ [Next]_vars => SubmissionInv'
  <2> SUFFICES ASSUME SubmissionInv, [Next]_vars PROVE SubmissionInv'
      OBVIOUS
  <2>1. TypeOK /\ TableInv /\ RoundMailInv /\ FlagInv /\ PathInv /\ CreditInv
      BY DEF SubmissionInv
  <2>2. \A k \in DOMAIN flagMail :
            flagMail[k].type = "UpdateRound" => flagMail[k].round \in DOMAIN rounds
      BY <2>1 DEF RoundMailInv, Sent, Valid
  <2>3. TypeOK'
      BY <2>1, <2>2, NextType DEF TableInv
  <2>4. QED
      BY <2>1, <2>3, TableStep, RoundMailStep, FlagStep, PathStep, CreditStep DEF SubmissionInv
<1>2. QED
    BY InitSubmission, <1>1, PTL DEF Spec

\* The variables keep their types (flagbot.rs Model, game.rs, db.rs journals).
THEOREM SubmissionTypes == Spec => []TypeOK
<1>1. SubmissionInv => TypeOK
    BY DEF SubmissionInv
<1>2. QED
    BY <1>1, SubmissionInvariance, PTL

\* Whatever is accepted is another team's flag that was alive in the round it is
\* recorded under, for every FlagLife and any number of crashes.
THEOREM AcceptedAreAlive == Spec => []AcceptedFlagsAreAlive
<1>1. SubmissionInv => AcceptedFlagsAreAlive
  <2> SUFFICES ASSUME SubmissionInv, NEW s \in InFlight PROVE Sound(s)
      BY DEF AcceptedFlagsAreAlive, Sound, Age
  <2>1. PathInv
      BY DEF SubmissionInv
  <2>2. QED
      BY <2>1 DEF InFlight, PathInv, Fresh, Checked
<1>2. QED
    BY <1>1, SubmissionInvariance, PTL

\* check_flag never looks up a flag that is newer than current_round, so the
\* subtraction that computes its age does not underflow.
THEOREM NoInvalidState == Spec => []InvalidStateUnreachable
<1>1. SubmissionInv => InvalidStateUnreachable
  <2> SUFFICES ASSUME SubmissionInv, NEW c \in Conns, conn[c].pc = "readRound"
               PROVE  /\ conn[c].flag.round <= fbRound
                      /\ rounds[conn[c].flag.round].number <= rounds[fbRound].number
      BY DEF InvalidStateUnreachable
  <2>1. PathInv /\ FlagInv /\ RoundMailInv /\ TableInv
      BY DEF SubmissionInv
  <2>2. conn[c].flag.round <= fbRound /\ Valid(conn[c].flag.round) /\ Valid(fbRound)
      BY <2>1 DEF PathInv, FlagInv, ValidFlag, RoundMailInv
  <2>3. QED
      BY <2>1, <2>2 DEF TableInv, Valid
<1>2. QED
    BY <1>1, SubmissionInvariance, PTL

\* A journaled submission of a finished round is about a flag of a finished one.
LEMMA OlderIsFinished ==
    ASSUME SubmissionInv, NEW s \in Range(journal), rounds[s.round].finished
    PROVE  rounds[s.flag.round].finished
<1>1. TypeOK /\ PathInv /\ TableInv
    BY DEF SubmissionInv
<1>2. Sound(s) /\ (Valid(s.round) => Valid(s.flag.round))
    BY <1>1 DEF PathInv
<1>3. /\ s.round \in DOMAIN rounds /\ s.flag.round \in DOMAIN rounds
      /\ s.flag.round <= s.round /\ DOMAIN rounds \subseteq Nat
      /\ s.round \in FinishedRows(rounds) /\ roundId \in Nat
    BY <1>1, <1>2 DEF Sound, FinishedRows, TypeOK
<1>4. s.round <= roundId /\ Valid(s.flag.round)
    BY <1>1, <1>2, <1>3 DEF TableInv, Valid
<1>5. CASE s.flag.round = roundId
  <2>1. s.round = s.flag.round
      BY <1>3, <1>4, <1>5
  <2>2. QED
      BY <2>1
<1>6. QED
    BY <1>4, <1>5 DEF Valid

\* What the replay and the dump look up for a finished round is there.
THEOREM JournalIsReplayable == Spec => []JournalRefersToStoredFlags
<1>1. SubmissionInv => JournalRefersToStoredFlags
    BY OlderIsFinished DEF JournalRefersToStoredFlags
<1>2. QED
    BY <1>1, SubmissionInvariance, PTL

\* With nothing on its way to the scorebot, the score credits exactly the pairs
\* of the journal, also after any number of restarts.
THEOREM ScoreIsJournal == Spec => []ScoreMatchesJournal
<1>1. SubmissionInv => ScoreMatchesJournal
  <2> SUFFICES ASSUME SubmissionInv, relay.pc # "notify", scoreMail = <<>>
               PROVE  credited = {Pair(s) : s \in Counted}
      BY DEF ScoreMatchesJournal
  <2>1. CreditInv
      BY DEF SubmissionInv
  <2>2. QED
      BY <2>1, RangeOfEmpty DEF CreditInv, CountedPairs
<1>2. QED
    BY <1>1, SubmissionInvariance, PTL

\* No pair is credited while its flag stays open for resubmission.
THEOREM CreditedAreMarked == Spec => []CreditedIsMarked
<1>1. SubmissionInv => CreditedIsMarked
    BY DEF SubmissionInv, CreditInv, Marked, Sent, CreditedIsMarked
<1>2. QED
    BY <1>1, SubmissionInvariance, PTL

-----------------------------------------------------------------------------
(* The history: as many gains as losses *)

\* The two histories have the same entries: a round is opened in both, for all
\* teams.
SameEntries ==
    /\ DOMAIN gained = DOMAIN lost
    /\ \A e \in DOMAIN gained : Teams \X {e[2]} \subseteq DOMAIN gained

\* The entries of a round.
In(h, i) == {e \in DOMAIN h : e[2] = i}

LEMMA InIsFinite ==
    ASSUME NEW h, IsHistory(h), NEW i
    PROVE  IsFiniteSet(In(h, i)) /\ IntsOn(h, In(h, i)) /\ Total(h, i) \in Int
           /\ Total(h, i) = SumFunctionOnSet(h, In(h, i))
<1>1. IsFiniteSet(Teams \X (1..MaxRows))
  <2>1. IsFiniteSet(Teams) /\ IsFiniteSet(1..MaxRows)
      BY FS_Interval, Constants, SubmissionAssumption DEF SubmissionAssumption
  <2>2. QED
      BY <2>1, FS_Product
<1>2. In(h, i) \subseteq Teams \X (1..MaxRows)
    BY DEF In, IsHistory
<1>3. IsFiniteSet(In(h, i))
    BY <1>1, <1>2, FS_Subset
<1>4. IntsOn(h, In(h, i))
    BY DEF IntsOn, In, IsHistory
<1>5. Total(h, i) = SumFunctionOnSet(h, In(h, i))
    BY DEF Total, In
<1>6. QED
    BY <1>3, <1>4, <1>5, SumIsInt

\* What is not there is not increased; what is adds one to its round.
LEMMA IncreaseTotal ==
    ASSUME NEW h, IsHistory(h), NEW t, NEW r, NEW i
    PROVE  Total(Increase(h, t, r), i)
              = Total(h, i) + (IF <<t, r>> \in DOMAIN h /\ i = r THEN 1 ELSE 0)
<1> DEFINE g == Increase(h, t, r)
<1>1. /\ IsHistory(g) /\ DOMAIN g = DOMAIN h
      /\ \A e \in DOMAIN h : h[e] \in Nat /\ g[e] = IF e = <<t, r>> THEN h[e] + 1 ELSE h[e]
    BY IncreaseType
<1>2. CASE <<t, r>> \notin DOMAIN h
  <2>1. g = h
      BY <1>2 DEF Increase
  <2>2. QED
      BY <1>2, <2>1, InIsFinite
<1> HIDE DEF g
<1>3. In(g, i) = In(h, i)
    BY <1>1 DEF In
<1>4. CASE <<t, r>> \in DOMAIN h /\ i # r
  <2>1. \A e \in In(h, i) : g[e] = h[e]
    <3>1. <<t, r>> \notin In(h, i)
        BY <1>4 DEF In
    <3>2. QED
        BY <1>1, <3>1 DEF In
  <2>2. Total(g, i) = Total(h, i)
      BY <1>1, <1>3, <2>1, InIsFinite, SumAgree
  <2>3. QED
      BY <1>4, <2>2, InIsFinite DEF g
<1>5. CASE <<t, r>> \in DOMAIN h /\ i = r
  <2> DEFINE T == In(h, i)
             y == <<t, r>>
  <2>1. IsFiniteSet(T) /\ IntsOn(h, T) /\ IntsOn(g, T)
      BY <1>1, <1>3, InIsFinite
  <2>2. y \in T /\ h[y] \in Nat /\ g[y] = h[y] + 1
      BY <1>1, <1>5 DEF In
  <2>3. \A x \in T \ {y} : g[x] = h[x]
      BY <1>1 DEF In
  <2>4. Total(h, i) = SumFunctionOnSet(h, T) /\ Total(g, i) = SumFunctionOnSet(g, T)
      BY <1>1, <1>3, InIsFinite
  <2>5. Total(h, i) \in Int
      BY InIsFinite
  <2> HIDE DEF T, y
  <2>6. SumFunctionOnSet(g, T) = SumFunctionOnSet(h, T) + (g[y] - h[y])
      BY <2>1, <2>2, <2>3, SumChange
  <2>7. QED
      BY <1>5, <2>2, <2>4, <2>5, <2>6 DEF g
<1>6. QED
    BY <1>2, <1>4, <1>5 DEF g

\* A round that is opened starts with nothing; the others keep what they have.
LEMMA OpenRoundTotal ==
    ASSUME NEW h, IsHistory(h), NEW r \in 1..MaxRows, NEW i
    PROVE  Total(OpenRound(h, r), i)
              = IF ~IsRoundZero(rounds, r) /\ i = r THEN 0 ELSE Total(h, i)
<1> DEFINE g == OpenRound(h, r)
<1>1. CASE IsRoundZero(rounds, r)
    BY <1>1 DEF OpenRound
<1>2. CASE ~IsRoundZero(rounds, r)
  <2>1. /\ IsHistory(g) /\ DOMAIN g = DOMAIN h \cup (Teams \X {r})
        /\ \A e \in DOMAIN g : g[e] = IF e[2] = r THEN 0 ELSE h[e]
      BY <1>2, OpenRoundType
  <2> HIDE DEF g
  <2>2. CASE i = r
    <3>1. \A e \in In(g, i) : g[e] = 0
        BY <2>1, <2>2 DEF In
    <3>2. IsFiniteSet(In(g, i)) /\ Total(g, i) = SumFunctionOnSet(g, In(g, i))
        BY <2>1, InIsFinite
    <3>3. QED
        BY <1>2, <2>2, <3>1, <3>2, SumOfZeros DEF g
  <2>3. CASE i # r
    <3>1. In(g, i) = In(h, i)
      <4>1. \A e \in Teams \X {r} : e[2] = r
          OBVIOUS
      <4>2. QED
          BY <2>1, <2>3, <4>1 DEF In
    <3>2. \A e \in In(h, i) : g[e] = h[e]
        BY <2>1, <2>3, <3>1 DEF In
    <3>3. Total(g, i) = Total(h, i)
        BY <2>1, <3>1, <3>2, InIsFinite, SumAgree
    <3>4. QED
        BY <2>3, <3>3 DEF g
  <2>4. QED
      BY <2>2, <2>3
<1>3. QED
    BY <1>1, <1>2

\* What the replay books: every entry that takes effect is one team's gain and one
\* team's loss, in its round.
LEMMA ReplayBalances ==
    ASSUME TypeOK, Crash, NEW i
    PROVE  Total(gained', i) = Total(lost', i)
<1> DEFINE K == {k \in DOMAIN journal : journal[k] \in Effective /\ journal[k].round = i}
           T == Teams \X {i}
           a == [k \in K |-> <<journal[k].attacker, i>>]
           v == [k \in K |-> <<journal[k].flag.team, i>>]
           f == [e \in T |-> Cardinality({k \in K : a[k] = e})]
           g == [e \in T |-> Cardinality({k \in K : v[k] = e})]
<1>0. /\ IsHistory(gained') /\ IsHistory(lost')
      /\ DOMAIN gained' = Teams \X ReplayedRounds /\ DOMAIN lost' = Teams \X ReplayedRounds
      /\ \A t \in Teams, j \in ReplayedRounds :
            gained'[<<t, j>>] = Gains(t, j) /\ lost'[<<t, j>>] = Losses(t, j)
    BY ReplayedHistoryType
<1>1. CASE i \notin ReplayedRounds
  <2>1. In(gained', i) = {} /\ In(lost', i) = {}
      BY <1>0, <1>1 DEF In
  <2>2. \A h : IsHistory(h) /\ In(h, i) = {} => Total(h, i) = 0
      BY InIsFinite, SumIsInt
  <2>3. QED
      BY <1>0, <2>1, <2>2
<1>2. CASE i \in ReplayedRounds
  <2>1. In(gained', i) = T /\ In(lost', i) = T
      BY <1>0, <1>2 DEF In
  <2>2. IsFiniteSet(K)
    <3>1. DOMAIN journal = 1..Len(journal) /\ Len(journal) \in Nat
        BY DEF TypeOK
    <3>2. IsFiniteSet(DOMAIN journal)
        BY <3>1, FS_Interval
    <3>3. QED
        BY <3>2, FS_Subset
  <2>3. IsFiniteSet(T)
      BY <1>0, <2>1, InIsFinite
  <2>4. a \in [K -> T] /\ v \in [K -> T]
    <3>1. \A k \in K : journal[k] \in Submission
        BY DEF TypeOK
    <3>2. \A k \in K : journal[k].attacker \in Teams /\ journal[k].flag.team \in Teams
        BY <3>1, PairType
    <3>3. QED
        BY <3>2
  <2>5. ASSUME NEW t \in Teams
        PROVE  gained'[<<t, i>>] = f[<<t, i>>] /\ lost'[<<t, i>>] = g[<<t, i>>]
    <3>1. <<t, i>> \in T
        OBVIOUS
    <3>2. \A k \in K : (a[k] = <<t, i>> <=> journal[k].attacker = t)
                    /\ (v[k] = <<t, i>> <=> journal[k].flag.team = t)
        OBVIOUS
    <3>3. {k \in K : a[k] = <<t, i>>}
              = {k \in DOMAIN journal : /\ journal[k] \in Effective
                                        /\ journal[k].round = i
                                        /\ journal[k].attacker = t}
        BY <3>2
    <3>4. {k \in K : v[k] = <<t, i>>}
              = {k \in DOMAIN journal : /\ journal[k] \in Effective
                                        /\ journal[k].round = i
                                        /\ journal[k].flag.team = t}
        BY <3>2
    <3>5. f[<<t, i>>] = Gains(t, i) /\ g[<<t, i>>] = Losses(t, i)
        BY <3>1, <3>3, <3>4 DEF Gains, Losses
    <3>6. QED
        BY <1>0, <1>2, <3>5
  <2>6. (\A e \in T : gained'[e] = f[e] /\ lost'[e] = g[e])
    <3> HIDE DEF f, g
    <3> QED
      BY <2>5
  <2>7. SumFunctionOnSet(f, T) = Cardinality(K) /\ SumFunctionOnSet(g, T) = Cardinality(K)
    <3> HIDE DEF K, a, v, T
    <3> QED
      BY <2>2, <2>3, <2>4, SumOfClasses
  <2>8. IntsOn(gained', T) /\ IntsOn(lost', T)
        /\ Total(gained', i) = SumFunctionOnSet(gained', T)
        /\ Total(lost', i) = SumFunctionOnSet(lost', T)
      BY <1>0, <2>1, InIsFinite
  <2> HIDE DEF f, g, T
  <2>9. /\ SumFunctionOnSet(f, T) = SumFunctionOnSet(gained', T)
        /\ SumFunctionOnSet(g, T) = SumFunctionOnSet(lost', T)
      BY <2>3, <2>6, <2>8, SumAgree
  <2>10. QED
      BY <2>7, <2>8, <2>9
<1>3. QED
    BY <1>1, <1>2

\* What happens to the histories.
LEMMA HistorySteps ==
    ASSUME TypeOK, [Next]_vars
    PROVE  \/ UNCHANGED <<gained, lost>>
           \/ \E i \in 1..MaxRows : /\ HandleUpdateRound /\ fbRound' = i
                                    /\ gained' = OpenRound(gained, i) /\ lost' = OpenRound(lost, i)
           \/ \E s \in Submission :
                 /\ HandleSubmittedFlag /\ s = Head(flagMail).submission /\ s.flag \in known
                 /\ gained' = Increase(gained, s.attacker, s.round)
                 /\ lost' = Increase(lost, s.flag.team, s.round)
           \/ Crash
<1>1. CASE HandleUpdateRound
  <2>1. /\ Receives("UpdateRound") /\ fbRound' = Head(flagMail).round
        /\ gained' = OpenRound(gained, fbRound') /\ lost' = OpenRound(lost, fbRound')
      BY <1>1 DEF HandleUpdateRound
  <2>2. fbRound' \in 1..MaxRows
      BY <2>1, ReceiveType, MsgContents
  <2>3. QED
      BY <1>1, <2>1, <2>2
<1>2. CASE HandleSubmittedFlag
  <2>1. Receives("SubmittedFlag")
      BY <1>2 DEF HandleSubmittedFlag
  <2>2. Head(flagMail).submission \in Submission
      BY <2>1, ReceiveType, MsgContents
  <2>3. QED
      BY <1>2, <2>2 DEF HandleSubmittedFlag
<1>3. CASE UNCHANGED vars
    BY <1>3 DEF vars, flagbotVars
<1>4. CASE Game
    BY <1>4 DEF Game, FinishRound, StartRound, HandOut, flagbotVars
<1>5. CASE HandleNewFlag
    BY <1>5 DEF HandleNewFlag
<1>6. CASE JournalEvent \/ RelayFails \/ NotifyScorebot \/ Credit
    BY <1>6 DEF JournalEvent, RelayFails, NotifyScorebot, Credit, flagbotVars
<1>7. ASSUME NEW c \in Conns, Connection(c) \/ Timeout(c) \/ \E f \in known : Receive(c, f)
      PROVE  UNCHANGED <<gained, lost>>
    BY <1>7 DEF Connection, ReadRound, ReadSubmission, SendMsg, SendEvent, Timeout, Receive,
                flagbotVars
<1>8. QED
    BY <1>1, <1>2, <1>3, <1>4, <1>5, <1>6, <1>7 DEF Next, Handle

LEMMA SameEntriesStep == TypeOK /\ SameEntries /\ [Next]_vars => SameEntries'
<1> SUFFICES ASSUME TypeOK, SameEntries, [Next]_vars
             PROVE  SameEntries'
    OBVIOUS
<1>0. IsHistory(gained) /\ IsHistory(lost)
    BY DEF TypeOK
<1>1. CASE UNCHANGED <<gained, lost>>
    BY <1>1 DEF SameEntries
<1>2. ASSUME NEW i \in 1..MaxRows, gained' = OpenRound(gained, i), lost' = OpenRound(lost, i)
      PROVE  SameEntries'
  <2>1. /\ DOMAIN gained' = IF IsRoundZero(rounds, i) THEN DOMAIN gained
                             ELSE DOMAIN gained \cup (Teams \X {i})
        /\ DOMAIN lost' = DOMAIN gained'
      BY <1>0, <1>2, OpenRoundType DEF SameEntries
  <2>2. \A e \in Teams \X {i} : e[2] = i
      OBVIOUS
  <2>3. QED
      BY <2>1, <2>2, Zenon DEF SameEntries
<1>3. ASSUME NEW s \in Submission, gained' = Increase(gained, s.attacker, s.round),
             lost' = Increase(lost, s.flag.team, s.round)
      PROVE  SameEntries'
  <2>1. DOMAIN gained' = DOMAIN gained /\ DOMAIN lost' = DOMAIN lost
      BY <1>0, <1>3, IncreaseType
  <2>2. QED
      BY <2>1 DEF SameEntries
<1>4. CASE Crash
  <2>1. DOMAIN gained' = Teams \X ReplayedRounds /\ DOMAIN lost' = Teams \X ReplayedRounds
      BY <1>4, ReplayedHistoryType
  <2>2. \A e \in Teams \X ReplayedRounds : e[2] \in ReplayedRounds
      OBVIOUS
  <2>3. QED
      BY <2>1, <2>2 DEF SameEntries
<1>5. QED
    BY <1>1, <1>2, <1>3, <1>4, HistorySteps

LEMMA BalanceStep == TypeOK /\ SameEntries /\ GainedEqualsLost /\ [Next]_vars => GainedEqualsLost'
<1> SUFFICES ASSUME TypeOK, SameEntries, GainedEqualsLost, [Next]_vars, NEW i \in 1..MaxRows
             PROVE  Total(gained', i) = Total(lost', i)
    BY DEF GainedEqualsLost, Total
<1>1. Total(gained, i) = Total(lost, i)
    BY DEF GainedEqualsLost
<1>2. IsHistory(gained) /\ IsHistory(lost)
    BY DEF TypeOK
<1>3. CASE UNCHANGED <<gained, lost>>
    BY <1>1, <1>3
<1>4. ASSUME NEW r \in 1..MaxRows, gained' = OpenRound(gained, r), lost' = OpenRound(lost, r)
      PROVE  Total(gained', i) = Total(lost', i)
    BY <1>1, <1>2, <1>4, OpenRoundTotal
<1>5. ASSUME NEW s \in Submission, gained' = Increase(gained, s.attacker, s.round),
             lost' = Increase(lost, s.flag.team, s.round)
      PROVE  Total(gained', i) = Total(lost', i)
  <2>1. PICK t \in Teams, u \in Teams, r \in 1..MaxRows :
              t = s.attacker /\ u = s.flag.team /\ r = s.round
      BY PairType DEF Submission
  <2>2. <<t, r>> \in DOMAIN gained <=> <<u, r>> \in DOMAIN lost
    <3>1. <<t, r>>[2] = r /\ <<u, r>>[2] = r
          /\ <<t, r>> \in Teams \X {r} /\ <<u, r>> \in Teams \X {r}
        OBVIOUS
    <3>2. QED
        BY <3>1 DEF SameEntries
  <2>3. /\ Total(gained', i) = Total(gained, i)
                + (IF <<t, r>> \in DOMAIN gained /\ i = r THEN 1 ELSE 0)
        /\ Total(lost', i) = Total(lost, i)
                + (IF <<u, r>> \in DOMAIN lost /\ i = r THEN 1 ELSE 0)
      BY <1>2, <1>5, <2>1, IncreaseTotal
  <2>4. QED
      BY <1>1, <2>2, <2>3
<1>6. CASE Crash
    BY <1>6, ReplayBalances
<1>7. QED
    BY <1>3, <1>4, <1>5, <1>6, HistorySteps

\* For any teams, submissions and crashes: in every round as many flags are
\* gained as are lost, although a submission looks up the entries of its
\* attacker and of its victim one after the other (flagbot.rs
\* Msg::SubmittedFlag; game.rs, the replay).
THEOREM HistoryBalances == Spec => []GainedEqualsLost
<1>1. Init => SameEntries /\ GainedEqualsLost
    BY DEF Init, SameEntries, GainedEqualsLost
<1>2. TypeOK /\ (SameEntries /\ GainedEqualsLost) /\ [Next]_vars
      => (SameEntries /\ GainedEqualsLost)'
    BY SameEntriesStep, BalanceStep
<1>3. QED
    BY <1>1, <1>2, SubmissionTypes, PTL DEF Spec

-----------------------------------------------------------------------------
(* The history: what is journaled is booked *)

\* How many elements of a sequence are in a set.
Positions(q, S) == {k \in DOMAIN q : q[k] \in S}
Count(q, S) == Cardinality(Positions(q, S))

LEMMA CountType ==
    ASSUME NEW A, NEW q \in Seq(A), NEW S
    PROVE  /\ IsFiniteSet(Positions(q, S)) /\ Count(q, S) \in Nat
           /\ (\A x \in Range(q) : x \notin S) => Count(q, S) = 0
<1>1. IsFiniteSet(DOMAIN q)
    BY FS_Interval
<1>2. IsFiniteSet(Positions(q, S)) /\ Count(q, S) \in Nat
    BY <1>1, FS_Subset, FS_CardinalityType DEF Positions, Count
<1>3. ASSUME \A x \in Range(q) : x \notin S PROVE Count(q, S) = 0
  <2>1. Positions(q, S) = {}
      BY <1>3 DEF Positions, Range
  <2>2. QED
      BY <2>1, FS_EmptySet DEF Count
<1>4. QED
    BY <1>2, <1>3

LEMMA CountOfAppend ==
    ASSUME NEW A, NEW q \in Seq(A), NEW x \in A, NEW S
    PROVE  Count(Append(q, x), S) = Count(q, S) + (IF x \in S THEN 1 ELSE 0)
<1> DEFINE n == Len(q) + 1
<1>1. /\ DOMAIN Append(q, x) = DOMAIN q \cup {n} /\ n \notin DOMAIN q
      /\ Append(q, x)[n] = x
      /\ \A k \in DOMAIN q : Append(q, x)[k] = q[k]
    OBVIOUS
<1> HIDE DEF n
<1>2. Positions(Append(q, x), S) = Positions(q, S) \cup (IF x \in S THEN {n} ELSE {})
    BY <1>1 DEF Positions
<1>3. IsFiniteSet(Positions(q, S)) /\ n \notin Positions(q, S) /\ Count(q, S) \in Nat
    BY <1>1, CountType DEF Positions
<1>4. CASE x \in S
  <2>1. Positions(Append(q, x), S) = Positions(q, S) \cup {n}
      BY <1>2, <1>4
  <2>2. QED
      BY <1>3, <1>4, <2>1, FS_AddElement DEF Count
<1>5. CASE x \notin S
    BY <1>2, <1>3, <1>5 DEF Count
<1>6. QED
    BY <1>4, <1>5

LEMMA CountOfTail ==
    ASSUME NEW A, NEW q \in Seq(A), q # <<>>, NEW S
    PROVE  Count(q, S) = Count(Tail(q), S) + (IF Head(q) \in S THEN 1 ELSE 0)
<1> DEFINE P == Positions(q, S)
           R == Positions(Tail(q), S)
           f == [k \in R |-> k + 1]
<1>1. /\ Tail(q) \in Seq(A) /\ Head(q) = q[1] /\ 1 \in DOMAIN q
      /\ DOMAIN q \subseteq Nat \ {0} /\ DOMAIN Tail(q) \subseteq Nat \ {0}
      /\ \A k \in DOMAIN Tail(q) : k + 1 \in DOMAIN q /\ Tail(q)[k] = q[k + 1]
      /\ \A k \in DOMAIN q \ {1} : k - 1 \in DOMAIN Tail(q)
    OBVIOUS
<1>2. /\ R \subseteq Nat \ {0} /\ \A k \in R : k + 1 \in P \ {1}
      /\ \A k \in P \ {1} : k - 1 \in R /\ k \in Nat
  <2>1. ASSUME NEW k \in DOMAIN q \ {1} PROVE Tail(q)[k - 1] = q[k] /\ k \in Nat
    <3>1. k - 1 \in DOMAIN Tail(q) /\ k \in Nat /\ (k - 1) + 1 = k
        BY <1>1
    <3>2. QED
        BY <1>1, <3>1
  <2>2. \A k \in R : k + 1 # 1
      BY <1>1 DEF Positions
  <2>3. QED
      BY <1>1, <2>1, <2>2 DEF Positions
<1> HIDE DEF P, R
<1>3. f \in Bijection(R, P \ {1})
  <2>1. f \in [R -> P \ {1}]
      BY <1>2
  <2>2. \A j, k \in R : f[j] = f[k] => j = k
      BY <1>2
  <2>3. ASSUME NEW k \in P \ {1} PROVE \E j \in R : f[j] = k
    <3>1. k - 1 \in R /\ f[k - 1] = k
        BY <1>2
    <3>2. QED
        BY <3>1
  <2> HIDE DEF f
  <2>4. f \in Injection(R, P \ {1})
      BY <2>1, <2>2 DEF Injection, IsInjective
  <2>5. f \in Surjection(R, P \ {1})
      BY <2>1, <2>3 DEF Surjection
  <2>6. QED
      BY <2>4, <2>5 DEF Bijection
<1>4. IsFiniteSet(P) /\ IsFiniteSet(R) /\ Cardinality(P) \in Nat
    BY <1>1, CountType, FS_CardinalityType DEF P, R
<1>5. Cardinality(P \ {1}) = Cardinality(R)
    BY <1>3, <1>4, FS_Bijection DEF ExistsBijection
<1>6. Cardinality(P \ {1}) = IF 1 \in P THEN Cardinality(P) - 1 ELSE Cardinality(P)
    BY <1>4, FS_RemoveElement
<1>7. 1 \in P <=> Head(q) \in S
    BY <1>1 DEF P, Positions
<1>8. QED
    BY <1>4, <1>5, <1>6, <1>7 DEF Count, P, R

\* The connections that are about to notify the game of a submission of S.
Sending(S) == {c \in Conns : conn[c].pc = "sendEvent" /\ SubmissionOf(c) \in S}

\* The submissions of S that are journaled or will be ...
Booked(S) == Count(journal, S) + Count(events, S) + Cardinality(Sending(S))

\* ... and those that the flagbot is still to be told of.
Messages(S) == {m \in FlagbotMsg : m.type = "SubmittedFlag" /\ m.submission \in S}
Announced(S) == Count(flagMail, Messages(S))

LEMMA BookedType ==
    ASSUME TypeOK, NEW S
    PROVE  /\ Count(journal, S) \in Nat /\ Count(events, S) \in Nat
           /\ IsFiniteSet(Sending(S)) /\ Cardinality(Sending(S)) \in Nat
           /\ Booked(S) \in Nat /\ Announced(S) \in Nat
<1>1. Count(journal, S) \in Nat /\ Count(events, S) \in Nat /\ Announced(S) \in Nat
    BY CountType DEF TypeOK, Announced
<1>2. IsFiniteSet(Sending(S)) /\ Cardinality(Sending(S)) \in Nat
    BY FS_Subset, FS_CardinalityType, SubmissionAssumption DEF SubmissionAssumption, Sending
<1>3. QED
    BY <1>1, <1>2 DEF Booked

\* Messages on their way in and out of the flagbot's channel.
LEMMA AnnouncedSend ==
    ASSUME TypeOK, NEW m \in FlagbotMsg, Send(m), NEW S
    PROVE  Announced(S)' = Announced(S) + (IF m \in Messages(S) THEN 1 ELSE 0)
<1>1. flagMail \in Seq(FlagbotMsg) /\ flagMail' = Append(flagMail, m)
    BY DEF TypeOK, Send
<1>2. Announced(S)' = Count(flagMail', Messages(S))
    BY DEF Announced, Messages
<1>3. QED
    BY <1>1, <1>2, CountOfAppend DEF Announced

LEMMA AnnouncedReceive ==
    ASSUME TypeOK, NEW type, Receives(type), NEW S
    PROVE  Announced(S) = Announced(S)' + (IF Head(flagMail) \in Messages(S) THEN 1 ELSE 0)
<1>1. flagMail \in Seq(FlagbotMsg) /\ flagMail # <<>> /\ flagMail' = Tail(flagMail)
    BY DEF TypeOK, Receives
<1>2. Announced(S)' = Count(flagMail', Messages(S))
    BY DEF Announced, Messages
<1>3. QED
    BY <1>1, <1>2, CountOfTail DEF Announced

\* A connection goes on to another state.
LEMMA SendingStep ==
    ASSUME TypeOK, NEW c \in Conns, NEW st, GoTo(c, st), NEW S
    PROVE  /\ st.pc # "sendEvent" => Sending(S)' = Sending(S) \ {c}
           /\ conn[c].pc = "sendMsg" /\ st = [conn[c] EXCEPT !.pc = "sendEvent"]
              => Sending(S)' = Sending(S) \cup (IF SubmissionOf(c) \in S THEN {c} ELSE {})
<1>1. conn'[c] = st /\ \A d \in Conns \ {c} : conn'[d] = conn[d]
    BY DEF GoTo, TypeOK
<1>2. \A d \in Conns \ {c} : SubmissionOf(d)' = SubmissionOf(d)
    BY <1>1 DEF SubmissionOf
<1>3. \A d \in Conns \ {c} : d \in Sending(S)' <=> d \in Sending(S)
    BY <1>1, <1>2 DEF Sending
<1>4. ASSUME st.pc # "sendEvent" PROVE Sending(S)' = Sending(S) \ {c}
  <2>1. c \notin Sending(S)'
      BY <1>1, <1>4 DEF Sending
  <2>2. Sending(S) \subseteq Conns /\ Sending(S)' \subseteq Conns
      BY DEF Sending
  <2>3. QED
      BY <1>3, <2>1, <2>2
<1>5. ASSUME conn[c].pc = "sendMsg", st = [conn[c] EXCEPT !.pc = "sendEvent"]
      PROVE  Sending(S)' = Sending(S) \cup (IF SubmissionOf(c) \in S THEN {c} ELSE {})
  <2>1. conn[c] = [pc |-> conn[c].pc, flag |-> conn[c].flag, round |-> conn[c].round]
      BY <1>5, SubmissionType
  <2>2. conn'[c].pc = "sendEvent" /\ conn'[c].flag = conn[c].flag /\ conn'[c].round = conn[c].round
      BY <1>1, <1>5, <2>1
  <2>3. SubmissionOf(c)' = SubmissionOf(c)
      BY <2>2 DEF SubmissionOf
  <2>4. c \notin Sending(S) /\ (c \in Sending(S)' <=> SubmissionOf(c) \in S)
      BY <1>5, <2>2, <2>3 DEF Sending
  <2>5. Sending(S) \subseteq Conns /\ Sending(S)' \subseteq Conns
      BY DEF Sending
  <2>6. QED
      BY <1>3, <2>4, <2>5
<1>6. QED
    BY <1>4, <1>5

\* A step of a connection: what is booked is announced before.
LEMMA ConnectionBooks ==
    ASSUME TypeOK, NEW c \in Conns, NEW S,
           Connection(c) \/ Timeout(c) \/ \E f \in known : Receive(c, f)
    PROVE  Booked(S)' + Announced(S) <= Booked(S) + Announced(S)'
<1>1. /\ Count(journal, S) \in Nat /\ Count(events, S) \in Nat /\ IsFiniteSet(Sending(S))
      /\ Cardinality(Sending(S)) \in Nat /\ Announced(S) \in Nat
      /\ Booked(S) = Count(journal, S) + Count(events, S) + Cardinality(Sending(S))
    BY BookedType DEF Booked
<1>2. /\ Cardinality(Sending(S) \ {c}) =
            IF c \in Sending(S) THEN Cardinality(Sending(S)) - 1 ELSE Cardinality(Sending(S))
      /\ Cardinality(Sending(S) \cup {c}) =
            IF c \in Sending(S) THEN Cardinality(Sending(S)) ELSE Cardinality(Sending(S)) + 1
    BY <1>1, FS_RemoveElement, FS_AddElement
<1>3. CASE /\ UNCHANGED <<journal, events, flagMail>>
           /\ \E st : GoTo(c, st) /\ st.pc # "sendEvent"
  <2>1. Sending(S)' = Sending(S) \ {c}
      BY <1>3, SendingStep
  <2>2. Announced(S)' = Announced(S)
      BY <1>3 DEF Announced, Messages
  <2>3. Booked(S)' = Count(journal, S) + Count(events, S) + Cardinality(Sending(S) \ {c})
      BY <1>3, <2>1 DEF Booked
  <2>4. QED
      BY <1>1, <1>2, <2>2, <2>3
<1>4. CASE SendMsg(c)
  <2>1. PICK s \in Submission : s = SubmissionOf(c)
      BY <1>4, SubmissionType DEF SendMsg
  <2>2. SubmittedFlag(s) \in FlagbotMsg /\ Send(SubmittedFlag(s))
        /\ (SubmittedFlag(s) \in Messages(S) <=> s \in S)
      BY <1>4, <2>1, MsgTypes DEF SendMsg, SubmittedFlag, Messages
  <2>3. Announced(S)' = Announced(S) + (IF s \in S THEN 1 ELSE 0)
      BY <2>2, AnnouncedSend
  <2>4. /\ conn[c].pc = "sendMsg" /\ GoTo(c, [conn[c] EXCEPT !.pc = "sendEvent"])
        /\ UNCHANGED <<journal, events>>
      BY <1>4 DEF SendMsg, relayVars
  <2>5. Sending(S)' = Sending(S) \cup (IF s \in S THEN {c} ELSE {})
      BY <2>1, <2>4, SendingStep
  <2>6. c \notin Sending(S)
      BY <2>4 DEF Sending
  <2>7. Cardinality(Sending(S)') = Cardinality(Sending(S)) + (IF s \in S THEN 1 ELSE 0)
    <3>1. CASE s \in S
      <4>1. Sending(S)' = Sending(S) \cup {c}
          BY <2>5, <3>1
      <4>2. QED
          BY <1>2, <2>6, <3>1, <4>1
    <3>2. CASE s \notin S
      <4>1. Sending(S)' = Sending(S)
          BY <2>5, <3>2
      <4>2. QED
          BY <1>1, <3>2, <4>1
    <3>3. QED
        BY <3>1, <3>2
  <2>8. Booked(S)' = Count(journal, S) + Count(events, S) + Cardinality(Sending(S)')
      BY <2>4 DEF Booked
  <2>9. QED
      BY <1>1, <2>3, <2>7, <2>8
<1>5. CASE SendEvent(c)
  <2>1. PICK s \in Submission : s = SubmissionOf(c)
      BY <1>5, SubmissionType DEF SendEvent
  <2>2. /\ conn[c].pc = "sendEvent" /\ GoTo(c, Idle) /\ Idle.pc # "sendEvent"
        /\ UNCHANGED <<journal, flagMail>>
        /\ events' = Append(events, s) \/ UNCHANGED events
      BY <1>5, <2>1 DEF SendEvent, Idle
  <2>3. Sending(S)' = Sending(S) \ {c} /\ (c \in Sending(S) <=> s \in S)
      BY <2>1, <2>2, SendingStep DEF Sending
  <2>4. Count(events', S) <= Count(events, S) + (IF s \in S THEN 1 ELSE 0)
        /\ Count(events', S) \in Nat
    <3>1. Count(Append(events, s), S) = Count(events, S) + (IF s \in S THEN 1 ELSE 0)
        BY CountOfAppend DEF TypeOK
    <3>2. CASE events' = Append(events, s)
        BY <1>1, <3>1, <3>2
    <3>3. CASE UNCHANGED events
        BY <1>1, <3>3
    <3>4. QED
        BY <2>2, <3>2, <3>3
  <2>5. Announced(S)' = Announced(S)
      BY <2>2 DEF Announced, Messages
  <2>6. Booked(S)' = Count(journal, S) + Count(events', S) + Cardinality(Sending(S) \ {c})
      BY <2>2, <2>3 DEF Booked
  <2>7. QED
      BY <1>1, <1>2, <2>3, <2>4, <2>5, <2>6
<1>6. CASE ReadRound(c) \/ Timeout(c) \/ \E f \in known : Receive(c, f)
  <2>1. UNCHANGED <<journal, events, flagMail>>
      BY <1>6 DEF ReadRound, Timeout, Receive, relayVars
  <2>2. \E st : GoTo(c, st) /\ st.pc # "sendEvent"
    <3>1. Idle.pc # "sendEvent"
        BY DEF Idle
    <3>2. CASE ReadRound(c)
      <4>1. PICK st : /\ GoTo(c, st)
                      /\ st \in {Idle, [pc |-> "readSubmission", flag |-> conn[c].flag,
                                        round |-> fbRound]}
          BY <3>2 DEF ReadRound
      <4>2. QED
          BY <3>1, <4>1
    <3>3. CASE \E f \in known : Receive(c, f)
      <4>1. PICK f \in known : GoTo(c, [pc |-> "readRound", flag |-> f])
          BY <3>3 DEF Receive
      <4>2. QED
          BY <4>1
    <3>4. QED
        BY <1>6, <3>1, <3>2, <3>3 DEF Timeout
  <2>3. QED
      BY <1>3, <2>1, <2>2
<1>7. CASE ReadSubmission(c)
  <2>1. UNCHANGED <<journal, events, flagMail>>
      BY <1>7 DEF ReadSubmission, relayVars
  <2>2. Idle.pc # "sendEvent" /\ [conn[c] EXCEPT !.pc = "sendMsg"].pc # "sendEvent"
    <3>1. conn[c] = [pc |-> conn[c].pc, flag |-> conn[c].flag, round |-> conn[c].round]
        BY <1>7, SubmissionType DEF ReadSubmission
    <3>2. QED
        BY <3>1 DEF Idle
  <2>3. \E st : GoTo(c, st) /\ st.pc # "sendEvent"
      BY <1>7, <2>2 DEF ReadSubmission
  <2>4. QED
      BY <1>3, <2>1, <2>3
<1>8. QED
    BY <1>4, <1>5, <1>6, <1>7 DEF Connection

\* Unless the flagbot counts a submission, no more is booked than before, but
\* for what is announced.
LEMMA BooksStep ==
    ASSUME TypeOK, [Next]_vars, NEW S
    PROVE  /\ Crash => Booked(S)' = Count(journal, S) /\ Announced(S)' = 0
           /\ HandleSubmittedFlag =>
                 /\ Booked(S)' = Booked(S)
                 /\ Announced(S) = Announced(S)'
                                   + (IF Head(flagMail).submission \in S THEN 1 ELSE 0)
           /\ ~Crash /\ ~HandleSubmittedFlag =>
                 Booked(S)' + Announced(S) <= Booked(S) + Announced(S)'
<1> DEFINE NoMore == Booked(S)' + Announced(S) <= Booked(S) + Announced(S)'
<1>1. /\ Count(journal, S) \in Nat /\ Count(events, S) \in Nat
      /\ Cardinality(Sending(S)) \in Nat /\ Announced(S) \in Nat /\ Booked(S) \in Nat
      /\ Booked(S) = Count(journal, S) + Count(events, S) + Cardinality(Sending(S))
    BY BookedType DEF Booked
<1>2. ASSUME UNCHANGED <<journal, events, conn>> PROVE Booked(S)' = Booked(S)
    BY <1>2 DEF Booked, Sending, SubmissionOf
<1>3. ASSUME UNCHANGED flagMail PROVE Announced(S)' = Announced(S)
    BY <1>3 DEF Announced, Messages
<1>4. ASSUME UNCHANGED <<journal, events, conn, flagMail>> PROVE NoMore
    BY <1>1, <1>2, <1>3, <1>4
<1>5. ASSUME UNCHANGED <<journal, events, conn>>, NEW m \in FlagbotMsg, Send(m) PROVE NoMore
  <2>1. Announced(S)' = Announced(S) + (IF m \in Messages(S) THEN 1 ELSE 0)
      BY <1>5, AnnouncedSend
  <2>2. QED
      BY <1>1, <1>2, <1>5, <2>1
<1>6. ASSUME StartRound \/ \E f \in unplanted : HandOut(f) PROVE NoMore
  <2>1. UNCHANGED <<journal, events, conn>>
      BY <1>6 DEF StartRound, HandOut, relayVars
  <2>2. \E m \in FlagbotMsg : Send(m)
    <3>1. CASE StartRound
      <4>1. roundId' \in 1..MaxRows
        <5>1. roundId' = Len(rounds) + 1 /\ Len(rounds) < MaxRows
            BY <3>1 DEF StartRound
        <5>2. QED
            BY <5>1, Constants DEF TypeOK
      <4>2. UpdateRound(roundId') \in FlagbotMsg /\ Send(UpdateRound(roundId'))
          BY <3>1, <4>1, MsgTypes DEF StartRound
      <4>3. QED
          BY <4>2
    <3>2. CASE \E f \in unplanted : HandOut(f)
      <4>1. PICK f \in Flag : NewFlag(f) \in FlagbotMsg /\ Send(NewFlag(f))
          BY <3>2, MsgTypes DEF HandOut, TypeOK
      <4>2. QED
          BY <4>1
    <3>3. QED
        BY <1>6, <3>1, <3>2
  <2>3. QED
      BY <1>5, <2>1, <2>2
<1>7. ASSUME FinishRound \/ NotifyScorebot \/ Credit \/ UNCHANGED vars PROVE NoMore
  <2>1. UNCHANGED <<journal, events, conn, flagMail>>
      BY <1>7 DEF FinishRound, NotifyScorebot, Credit, relayVars, vars
  <2>2. QED
      BY <1>4, <2>1
<1>8. ASSUME HandleUpdateRound \/ HandleNewFlag PROVE NoMore
  <2>1. PICK type \in {"UpdateRound", "NewFlag"} : Receives(type)
      BY <1>8 DEF HandleUpdateRound, HandleNewFlag
  <2>2. UNCHANGED <<journal, events, conn>>
      BY <2>1 DEF Receives, relayVars
  <2>3. Head(flagMail) \notin Messages(S)
      BY <2>1 DEF Messages, Receives
  <2>4. Announced(S) = Announced(S)' + (IF Head(flagMail) \in Messages(S) THEN 1 ELSE 0)
      BY <2>1, AnnouncedReceive
  <2>5. Announced(S)' \in Nat
    <3>1. flagMail' \in Seq(FlagbotMsg)
        BY <2>1, ReceiveType
    <3>2. Announced(S)' = Count(flagMail', Messages(S))
        BY DEF Announced, Messages
    <3>3. QED
        BY <3>1, <3>2, CountType
  <2>6. QED
      BY <1>1, <1>2, <2>2, <2>3, <2>4, <2>5
<1>9. ASSUME HandleSubmittedFlag
      PROVE  /\ Booked(S)' = Booked(S)
             /\ Announced(S) = Announced(S)'
                               + (IF Head(flagMail).submission \in S THEN 1 ELSE 0)
  <2>1. Receives("SubmittedFlag") /\ UNCHANGED <<journal, events, conn>>
      BY <1>9 DEF HandleSubmittedFlag, Receives, relayVars
  <2>2. Head(flagMail) \in FlagbotMsg /\ Head(flagMail).type = "SubmittedFlag"
      BY <2>1, ReceiveType
  <2>3. Head(flagMail) \in Messages(S) <=> Head(flagMail).submission \in S
      BY <2>2 DEF Messages
  <2>4. Announced(S) = Announced(S)' + (IF Head(flagMail) \in Messages(S) THEN 1 ELSE 0)
      BY <2>1, AnnouncedReceive
  <2>5. QED
      BY <1>2, <2>1, <2>3, <2>4
<1>10. ASSUME JournalEvent \/ RelayFails PROVE NoMore
  <2>1. UNCHANGED <<conn, flagMail>> /\ events # <<>> /\ events \in Seq(Submission)
        /\ journal \in Seq(Submission)
      BY <1>10 DEF JournalEvent, RelayFails, TypeOK
  <2>2. Sending(S)' = Sending(S)
      BY <2>1 DEF Sending, SubmissionOf
  <2>3. Booked(S)' = Count(journal', S) + Count(events', S) + Cardinality(Sending(S))
      BY <2>2 DEF Booked
  <2>4. CASE JournalEvent
    <3>1. journal' = Append(journal, Head(events)) /\ events' = Tail(events)
        BY <2>4 DEF JournalEvent
    <3>2. Head(events) \in Submission /\ Tail(events) \in Seq(Submission)
        BY <2>1, RangeOfTail
    <3>3. Count(journal', S) = Count(journal, S) + (IF Head(events) \in S THEN 1 ELSE 0)
        BY <2>1, <3>1, <3>2, CountOfAppend
    <3>4. Count(events, S) = Count(events', S) + (IF Head(events) \in S THEN 1 ELSE 0)
        BY <2>1, <3>1, CountOfTail
    <3>5. Count(events', S) \in Nat
        BY <3>1, <3>2, CountType
    <3>6. QED
        BY <1>1, <1>3, <2>1, <2>3, <3>3, <3>4, <3>5
  <2>5. CASE RelayFails
    <3>1. UNCHANGED journal /\ events' = <<>> /\ events' \in Seq(Submission)
        BY <2>5 DEF RelayFails, relayVars
    <3>2. Count(events', S) = 0
        BY <3>1, CountType, RangeOfEmpty
    <3>3. QED
        BY <1>1, <1>3, <2>1, <2>3, <3>1, <3>2
  <2>6. QED
      BY <1>10, <2>4, <2>5
<1>11. ASSUME \E c \in Conns : Connection(c) \/ Timeout(c) \/ \E f \in known : Receive(c, f)
       PROVE  NoMore
    BY <1>11, ConnectionBooks
<1>12. ASSUME Crash PROVE Booked(S)' = Count(journal, S) /\ Announced(S)' = 0
  <2>1. /\ flagMail' = <<>> /\ events' = <<>> /\ UNCHANGED journal
        /\ conn' = [c \in Conns |-> Idle]
        /\ flagMail' \in Seq(FlagbotMsg) /\ events' \in Seq(Submission)
      BY <1>12 DEF Crash
  <2>2. Count(events', S) = 0 /\ Count(flagMail', Messages(S)) = 0
      BY <2>1, CountType, RangeOfEmpty
  <2>3. Cardinality(Sending(S)') = 0
    <3>1. \A c \in Conns : conn'[c].pc = "ready"
        BY <2>1 DEF Idle
    <3>2. Sending(S)' = {}
        BY <3>1 DEF Sending
    <3>3. QED
        BY <3>2, FS_EmptySet
  <2>4. Announced(S)' = 0
      BY <2>2 DEF Announced, Messages
  <2>5. Booked(S)' = Count(journal, S)
      BY <1>1, <2>1, <2>2, <2>3 DEF Booked
  <2>6. QED
      BY <2>4, <2>5
<1> HIDE DEF NoMore
<1>13. ~Crash /\ ~HandleSubmittedFlag => NoMore
    BY <1>6, <1>7, <1>8, <1>10, <1>11 DEF Next, Game, Handle
<1>14. QED
    BY <1>9, <1>12, <1>13 DEF NoMore

\* The rounds that have a history.
Opened(i) == Teams \X {i} \subseteq DOMAIN gained /\ Teams \X {i} \subseteq DOMAIN lost

\* Only the first row is round zero; the entries of a round are there before a
\* submission of the round, which is never ahead of the flagbot, and a
\* submission that is announced is about a known flag.
EntriesInv ==
    /\ \A i \in DOMAIN rounds : i # 1 => ~IsRoundZero(rounds, i)
    /\ fbRound # 1 => Opened(fbRound)
    /\ \A c \in Conns : conn[c].pc \in Checked =>
          Opened(conn[c].round) /\ conn[c].round <= fbRound
    /\ \A k \in Sent("SubmittedFlag") :
          Opened(flagMail[k].submission.round) /\ flagMail[k].submission.flag \in known
    /\ \A s \in Range(events) : s.round <= fbRound
    /\ \A s \in Range(journal) : Valid(s.round) => s.round <= fbRound

\* While the process runs the rounds with a history, and the flagbot's, grow.
LEMMA EntriesGrow ==
    ASSUME TypeOK, RoundMailInv, EntriesInv, [Next]_vars, ~Crash
    PROVE  /\ \A i : Opened(i) => Opened(i)'
           /\ fbRound <= fbRound' /\ fbRound \in Nat /\ fbRound' \in Nat
           /\ fbRound' # 1 => Opened(fbRound)'
<1>0. IsHistory(gained) /\ IsHistory(lost) /\ fbRound \in Nat /\ DOMAIN rounds \subseteq Nat
    BY RowsAreNaturals DEF TypeOK
<1>1. DOMAIN gained \subseteq DOMAIN gained' /\ DOMAIN lost \subseteq DOMAIN lost'
  <2>1. ASSUME NEW i \in 1..MaxRows
        PROVE  /\ DOMAIN gained \subseteq DOMAIN OpenRound(gained, i)
               /\ DOMAIN lost \subseteq DOMAIN OpenRound(lost, i)
    <3>1. \A h : IsHistory(h) => DOMAIN h \subseteq DOMAIN OpenRound(h, i)
        BY DEF OpenRound
    <3>2. QED
        BY <1>0, <3>1
  <2>2. \A t, i : /\ DOMAIN Increase(gained, t, i) = DOMAIN gained
                  /\ DOMAIN Increase(lost, t, i) = DOMAIN lost
      BY <1>0, IncreaseType
  <2>3. QED
      BY <2>1, <2>2, HistorySteps
<1>2. \A i : Opened(i) => Opened(i)'
    BY <1>1 DEF Opened
<1>3. CASE HandleUpdateRound
  <2>1. PICK i \in 1..MaxRows : /\ fbRound' = i /\ i = Head(flagMail).round
                                /\ gained' = OpenRound(gained, i) /\ lost' = OpenRound(lost, i)
                                /\ Receives("UpdateRound")
    <3>1. /\ Receives("UpdateRound") /\ fbRound' = Head(flagMail).round
          /\ gained' = OpenRound(gained, fbRound') /\ lost' = OpenRound(lost, fbRound')
        BY <1>3 DEF HandleUpdateRound
    <3>2. fbRound' \in 1..MaxRows
        BY <3>1, ReceiveType, MsgContents
    <3>3. QED
        BY <3>1, <3>2
  <2>2. 1 \in Sent("UpdateRound") /\ i = flagMail[1].round
      BY <2>1, SentAfterReceive
  <2>3. fbRound < i /\ i \in DOMAIN rounds
      BY <2>2 DEF RoundMailInv, Valid
  <2>4. ASSUME i # 1 PROVE Opened(i)'
    <3>1. ~IsRoundZero(rounds, i)
        BY <2>3, <2>4 DEF EntriesInv
    <3>2. /\ DOMAIN gained' = DOMAIN gained \cup (Teams \X {i})
          /\ DOMAIN lost' = DOMAIN lost \cup (Teams \X {i})
        BY <1>0, <2>1, <3>1, OpenRoundType
    <3>3. QED
        BY <3>2 DEF Opened
  <2>5. QED
      BY <1>0, <1>2, <2>1, <2>3, <2>4
<1>4. CASE UNCHANGED fbRound
    BY <1>0, <1>2, <1>4 DEF EntriesInv
<1>5. UNCHANGED fbRound \/ HandleUpdateRound
    BY ChannelSteps DEF StartRound, HandOut, SendMsg, HandleNewFlag, HandleSubmittedFlag, flagbotVars
<1>6. QED
    BY <1>3, <1>4, <1>5

\* Rows are numbered from the second on.
LEMMA NumberedStep ==
    ASSUME TypeOK, TableInv, EntriesInv, [Next]_vars
    PROVE  \A i \in DOMAIN rounds' : i # 1 => ~IsRoundZero(rounds', i)
<1>1. \A i \in DOMAIN rounds : i # 1 => rounds[i].number # 0
    BY DEF EntriesInv, IsRoundZero
<1>2. \A i \in DOMAIN rounds : rounds'[i].number = rounds[i].number
    BY RowsStep DEF TableInv
<1>3. CASE DOMAIN rounds' = DOMAIN rounds
    BY <1>1, <1>2, <1>3 DEF IsRoundZero
<1>4. CASE StartRound
  <2>1. rounds' = StartNewRound(rounds) /\ rounds \in Seq(Row)
      BY <1>4 DEF StartRound, TypeOK
  <2>2. LastFinished(rounds) \in DOMAIN rounds
      BY <2>1, LastFinishedIsGreatest DEF TableInv, FinishedRows
  <2>3. rounds[LastFinished(rounds)].number \in Nat
    <3>1. rounds[LastFinished(rounds)] \in Row
        BY <2>1, <2>2
    <3>2. QED
        BY <3>1 DEF Row
  <2>4. /\ DOMAIN rounds' = DOMAIN rounds \cup {Len(rounds) + 1}
        /\ rounds'[Len(rounds) + 1].number = rounds[LastFinished(rounds)].number + 1
      BY <2>1, StartNewRoundRows DEF TableInv
  <2>5. rounds'[Len(rounds) + 1].number # 0
      BY <2>3, <2>4
  <2>6. QED
      BY <1>1, <1>2, <2>4, <2>5 DEF IsRoundZero
<1>5. CASE FinishRound
    BY <1>3, <1>5, MarkFinishedRows DEF FinishRound, TypeOK
<1>6. QED
    BY <1>3, <1>4, <1>5, RowsStep DEF TableInv, Crash

\* The submissions on their way.
LEMMA ConnectionsOpened ==
    ASSUME TypeOK, TableInv, RoundMailInv, FlagInv, PathInv, EntriesInv, [Next]_vars, ~Crash,
           NEW c \in Conns, conn'[c].pc \in Checked
    PROVE  Opened(conn[c].round)' /\ conn'[c].round <= fbRound'
<1>0. /\ \A i : Opened(i) => Opened(i)'
      /\ fbRound <= fbRound' /\ fbRound \in Nat /\ fbRound' \in Nat
    BY EntriesGrow
<1>1. ASSUME NEW i \in Nat, conn'[c].round = i, i <= fbRound, Opened(i)
      PROVE  Opened(conn[c].round)' /\ conn'[c].round <= fbRound'
  <2>1. Opened(i)'
      BY <1>0, <1>1
  <2>2. QED
      BY <1>0, <1>1, <2>1
<1>2. CASE conn'[c] = conn[c]
  <2>1. conn[c].round \in 1..MaxRows
      BY <1>2, SubmissionType DEF Checked
  <2>2. QED
      BY <1>1, <1>2, <2>1 DEF EntriesInv
<1>3. CASE conn[c].pc \in Checked /\ conn'[c].round = conn[c].round
  <2>1. conn[c].round \in 1..MaxRows
      BY <1>3, SubmissionType DEF Checked
  <2>2. QED
      BY <1>1, <1>3, <2>1 DEF EntriesInv
<1>4. CASE conn'[c].round = fbRound /\ conn[c].pc = "readRound"
  <2>1. conn[c].flag \in known
      BY <1>4 DEF PathInv
  <2>2. conn[c].flag.round \in DOMAIN rounds /\ conn[c].flag.round # 1 /\ conn[c].flag.round <= fbRound
      BY <2>1 DEF FlagInv, ValidFlag, Valid
  <2>3. DOMAIN rounds = 1..Len(rounds) /\ Len(rounds) \in Nat
      BY DEF TypeOK
  <2>4. fbRound # 1
      BY <1>0, <2>2, <2>3
  <2>5. QED
      BY <1>0, <1>1, <1>4, <2>4 DEF EntriesInv
<1>5. ASSUME NEW d \in Conns, Connection(d) \/ Timeout(d) \/ \E f \in known : Receive(d, f), d = c
      PROVE  \/ conn'[c] = conn[c]
             \/ conn[c].pc \in Checked /\ conn'[c].round = conn[c].round
             \/ conn'[c].round = fbRound /\ conn[c].pc = "readRound"
  <2>0. \A st : GoTo(c, st) => conn'[c] = st
      BY DEF GoTo, TypeOK
  <2>1. Idle.pc \notin Checked
      BY DEF Idle, Checked
  <2>2. CASE ReadRound(c)
      BY <2>0, <2>1, <2>2 DEF ReadRound
  <2>3. CASE ReadSubmission(c) \/ SendMsg(c)
    <3>1. conn[c].pc \in Checked
        BY <2>3 DEF ReadSubmission, SendMsg, Checked
    <3>2. conn'[c] = Idle \/ \E pc \in {"sendMsg", "sendEvent"} : conn'[c] = [conn[c] EXCEPT !.pc = pc]
        BY <2>0, <2>3 DEF ReadSubmission, SendMsg
    <3>3. conn[c] = [pc |-> conn[c].pc, flag |-> conn[c].flag, round |-> conn[c].round]
        BY <3>1, SubmissionType DEF Checked
    <3>4. QED
        BY <2>1, <3>1, <3>2, <3>3
  <2>4. CASE SendEvent(c) \/ Timeout(c)
      BY <2>0, <2>1, <2>4 DEF SendEvent, Timeout
  <2>5. CASE \E f \in known : Receive(c, f)
    <3>1. PICK f \in known : conn'[c] = [pc |-> "readRound", flag |-> f]
        BY <2>0, <2>5 DEF Receive
    <3>2. conn'[c].pc = "readRound"
        BY <3>1
    <3>3. QED
        BY <3>2 DEF Checked
  <2>6. QED
      BY <1>5, <2>2, <2>3, <2>4, <2>5 DEF Connection
<1>6. ASSUME NEW d \in Conns, Connection(d) \/ Timeout(d) \/ \E f \in known : Receive(d, f), d # c
      PROVE  conn'[c] = conn[c]
  <2>1. \A st : GoTo(d, st) => conn'[c] = conn[c]
      BY <1>6 DEF GoTo, TypeOK
  <2>2. QED
      BY <1>6, <2>1 DEF Connection, ReadRound, ReadSubmission, SendMsg, SendEvent, Timeout, Receive
<1>7. UNCHANGED conn \/ \E d \in Conns : Connection(d) \/ Timeout(d) \/ \E f \in known : Receive(d, f)
    BY PathSteps DEF Connection, JournalEvent, RelayFails
<1>8. QED
    BY <1>2, <1>3, <1>4, <1>5, <1>6, <1>7

\* The messages on their way.
LEMMA MessagesOpened ==
    ASSUME TypeOK, RoundMailInv, PathInv, EntriesInv, [Next]_vars, ~Crash,
           NEW k \in Sent("SubmittedFlag")'
    PROVE  Opened(flagMail[k].submission.round)' /\ flagMail'[k].submission.flag \in known'
<1>0. known \subseteq known' /\ \A i : Opened(i) => Opened(i)'
    BY KnownGrows, EntriesGrow
<1>1. ASSUME NEW s, s = flagMail'[k].submission, Opened(s.round), s.flag \in known
      PROVE  Opened(flagMail[k].submission.round)' /\ flagMail'[k].submission.flag \in known'
  <2>1. Opened(s.round)'
      BY <1>0, <1>1
  <2>2. QED
      BY <1>0, <1>1, <2>1
<1>2. ASSUME NEW j \in Sent("SubmittedFlag"), flagMail'[k] = flagMail[j]
      PROVE  Opened(flagMail[k].submission.round)' /\ flagMail'[k].submission.flag \in known'
    BY <1>1, <1>2 DEF EntriesInv
<1>3. CASE UNCHANGED flagMail
  <2>1. k \in Sent("SubmittedFlag")
      BY <1>3 DEF Sent
  <2>2. QED
      BY <1>2, <1>3, <2>1
<1>4. CASE StartRound \/ \E f \in unplanted : HandOut(f)
  <2>1. PICK m \in FlagbotMsg : Send(m) /\ m.type # "SubmittedFlag"
    <3>1. CASE StartRound
      <4>1. roundId' \in 1..MaxRows
        <5>1. roundId' = Len(rounds) + 1 /\ Len(rounds) < MaxRows
            BY <3>1 DEF StartRound
        <5>2. QED
            BY <5>1, Constants DEF TypeOK
      <4>2. UpdateRound(roundId') \in FlagbotMsg /\ Send(UpdateRound(roundId'))
          BY <3>1, <4>1, MsgTypes DEF StartRound
      <4>3. QED
          BY <4>2 DEF UpdateRound
    <3>2. CASE \E f \in unplanted : HandOut(f)
      <4>1. PICK f \in Flag : NewFlag(f) \in FlagbotMsg /\ Send(NewFlag(f))
          BY <3>2, MsgTypes DEF HandOut, TypeOK
      <4>2. QED
          BY <4>1 DEF NewFlag
    <3>3. QED
        BY <1>4, <3>1, <3>2
  <2>2. k \in Sent("SubmittedFlag") /\ flagMail'[k] = flagMail[k]
      BY <2>1, SentAfterSend
  <2>3. QED
      BY <1>2, <2>2
<1>5. CASE \E c \in Conns : SendMsg(c)
  <2>1. PICK c \in Conns : SendMsg(c)
      BY <1>5
  <2>2. PICK s \in Submission : s = SubmissionOf(c)
      BY <2>1, SubmissionType DEF SendMsg
  <2>3. SubmittedFlag(s) \in FlagbotMsg /\ Send(SubmittedFlag(s))
      BY <2>1, <2>2, MsgTypes DEF SendMsg
  <2>4. Opened(s.round) /\ s.flag \in known
    <3>1. conn[c].pc \in Checked
        BY <2>1 DEF SendMsg, Checked
    <3>2. s.round = conn[c].round
        BY <2>2 DEF SubmissionOf
    <3>3. QED
        BY <2>2, <3>1, <3>2 DEF EntriesInv, PathInv, Fresh
  <2>5. CASE k \in Sent("SubmittedFlag") /\ flagMail'[k] = flagMail[k]
      BY <1>2, <2>5
  <2>6. CASE flagMail'[k] = SubmittedFlag(s)
    <3>1. flagMail'[k].submission = s
        BY <2>6 DEF SubmittedFlag
    <3>2. QED
        BY <1>1, <2>4, <3>1
  <2>7. QED
      BY <2>3, <2>5, <2>6, SentAfterSend
<1>6. CASE HandleUpdateRound \/ HandleNewFlag \/ HandleSubmittedFlag
  <2>1. PICK ty : Receives(ty)
      BY <1>6 DEF HandleUpdateRound, HandleNewFlag, HandleSubmittedFlag
  <2>2. k + 1 \in Sent("SubmittedFlag") /\ flagMail'[k] = flagMail[k + 1]
      BY <2>1, SentAfterReceive
  <2>3. QED
      BY <1>2, <2>2
<1>7. QED
    BY <1>3, <1>4, <1>5, <1>6, ChannelSteps

LEMMA EntriesStep ==
    ASSUME TypeOK, TableInv, RoundMailInv, FlagInv, PathInv, EntriesInv, [Next]_vars
    PROVE  EntriesInv'
<1>0. /\ \A i \in DOMAIN rounds' : i # 1 => ~IsRoundZero(rounds', i)
      /\ events \in Seq(Submission) /\ journal \in Seq(Submission)
    BY NumberedStep DEF TypeOK
<1>1. CASE ~Crash
  <2>1. fbRound <= fbRound' /\ fbRound \in Nat /\ fbRound' \in Nat /\ (fbRound' # 1 => Opened(fbRound)')
      BY <1>1, EntriesGrow
  <2>2. \A c \in Conns : conn'[c].pc \in Checked =>
            Opened(conn[c].round)' /\ conn'[c].round <= fbRound'
      BY <1>1, ConnectionsOpened
  <2>3. \A k \in Sent("SubmittedFlag")' :
            Opened(flagMail[k].submission.round)' /\ flagMail'[k].submission.flag \in known'
      BY <1>1, MessagesOpened
  <2>4. ASSUME NEW s \in Submission, s.round <= fbRound PROVE s.round <= fbRound'
    <3>1. s.round \in Nat
        BY PairType, Constants
    <3>2. QED
        BY <2>1, <2>4, <3>1
  <2>5. \A s \in Range(events) \cup Range(journal) : s \in Submission
      BY <1>0 DEF Range
  <2>6. ASSUME NEW s \in Range(journal), Valid(s.round)' PROVE s.round <= fbRound'
    <3>1. s.round \in DOMAIN rounds
        BY DEF PathInv, Sound
    <3>2. Valid(s.round)
        BY <2>6, <3>1, ValidStep
    <3>3. s.round <= fbRound
        BY <3>2 DEF EntriesInv
    <3>4. QED
        BY <2>4, <2>5, <3>3
  <2>7. \A s \in Range(events) : s.round <= fbRound'
      BY <2>4, <2>5 DEF EntriesInv
  <2>8. (\A s \in Range(events') : s.round <= fbRound')
        /\ \A s \in Range(journal') : Valid(s.round)' => s.round <= fbRound'
    <3>1. CASE UNCHANGED <<events, journal>>
        BY <2>6, <2>7, <3>1
    <3>2. CASE \E c \in Conns : SendEvent(c)
      <4>1. PICK c \in Conns : SendEvent(c)
          BY <3>2
      <4>2. PICK s \in Submission : s = SubmissionOf(c)
          BY <4>1, SubmissionType DEF SendEvent
      <4>3. s.round <= fbRound
          BY <4>1, <4>2 DEF SendEvent, EntriesInv, Checked, SubmissionOf
      <4>4. UNCHANGED journal /\ (events' = Append(events, s) \/ UNCHANGED events)
          BY <4>1, <4>2 DEF SendEvent
      <4>5. Range(events') \subseteq Range(events) \cup {s}
          BY <1>0, <4>4, RangeOfAppend, ZenonT(30)
      <4>6. QED
          BY <2>4, <2>6, <2>7, <4>3, <4>4, <4>5
    <3>3. CASE JournalEvent \/ RelayFails
      <4>1. /\ events # <<>>
            /\ \/ events' = Tail(events) /\ journal' = Append(journal, Head(events))
               \/ events' = <<>> /\ UNCHANGED journal
          BY <3>3 DEF JournalEvent, RelayFails
      <4>2. /\ Range(events') \subseteq Range(events)
            /\ Range(journal') \subseteq Range(journal) \cup {Head(events)}
            /\ Head(events) \in Range(events)
        <5>1. /\ Head(events) \in Range(events) /\ Head(events) \in Submission
              /\ Range(Tail(events)) \subseteq Range(events)
            BY <1>0, <4>1, RangeOfTail
        <5>2. Range(Append(journal, Head(events))) = Range(journal) \cup {Head(events)}
            BY <1>0, <5>1, RangeOfAppend
        <5>3. QED
            BY <4>1, <5>1, <5>2, RangeOfEmpty
      <4>3. QED
          BY <2>6, <2>7, <4>2
    <3>4. QED
        BY <1>1, <3>1, <3>2, <3>3, PathSteps
  <2>9. QED
      BY <1>0, <2>1, <2>2, <2>3, <2>8 DEF EntriesInv
<1>2. CASE Crash
  <2>1. /\ conn' = [c \in Conns |-> Idle] /\ events' = <<>> /\ flagMail' = <<>>
        /\ UNCHANGED <<rounds, journal>> /\ fbRound' = LastFinished(rounds)
      BY <1>2 DEF Crash
  <2>2. \A c \in Conns : conn'[c].pc = "ready"
      BY <2>1 DEF Idle
  <2>3. Range(events') = {} /\ Sent("SubmittedFlag")' = {}
      BY <2>1, RangeOfEmpty DEF Sent
  <2>4. /\ fbRound' \in FinishedRows(rounds) /\ fbRound' \in DOMAIN rounds
        /\ \A i \in FinishedRows(rounds) : i <= fbRound'
      BY <2>1, LastFinishedIsGreatest DEF TableInv, FinishedRows, TypeOK
  <2>5. ASSUME fbRound' # 1 PROVE Opened(fbRound)'
    <3>1. fbRound' \in ReplayedRounds
        BY <2>4, <2>5 DEF EntriesInv, ReplayedRounds
    <3>2. DOMAIN gained' = Teams \X ReplayedRounds /\ DOMAIN lost' = Teams \X ReplayedRounds
        BY <1>2, ReplayedHistoryType
    <3>3. QED
        BY <3>1, <3>2 DEF Opened
  <2>6. \A s \in Range(journal') : Valid(s.round)' => s.round <= fbRound'
      BY <1>2, <2>4, ValidStep
  <2>7. QED
      BY <1>0, <2>2, <2>3, <2>5, <2>6 DEF EntriesInv, Checked
<1>3. QED
    BY <1>1, <1>2

\* What a history holds for a team in a round, and what is to be booked there.
Entry(h, t, i) == IF <<t, i>> \in DOMAIN h THEN h[<<t, i>>] ELSE 0
Gaining(t, i) == {s \in Submission : s.round = i /\ s.attacker = t}
Losing(t, i) == {s \in Submission : s.round = i /\ s.flag.team = t}

BooksInv ==
    \A t \in Teams : \A i : Valid(i) =>
        /\ Booked(Gaining(t, i)) <= Entry(gained, t, i) + Announced(Gaining(t, i))
        /\ Booked(Losing(t, i)) <= Entry(lost, t, i) + Announced(Losing(t, i))

LEMMA EntryIncreases ==
    ASSUME NEW h, IsHistory(h), NEW t, NEW i, NEW u, NEW r, <<u, r>> \in DOMAIN h
    PROVE  /\ Entry(h, t, i) \in Nat
           /\ Entry(Increase(h, u, r), t, i) =
                 Entry(h, t, i) + (IF u = t /\ r = i THEN 1 ELSE 0)
<1>1. <<u, r>> = <<t, i>> <=> u = t /\ r = i
    OBVIOUS
<1>2. QED
    BY <1>1, IncreaseType DEF Entry

LEMMA EntryOpens ==
    ASSUME NEW h, IsHistory(h), NEW t \in Teams, NEW i, NEW r \in 1..MaxRows, i # r
    PROVE  Entry(OpenRound(h, r), t, i) = Entry(h, t, i)
<1>1. <<t, i>>[2] = i /\ <<t, i>> \notin Teams \X {r}
    OBVIOUS
<1>2. <<t, i>> \in DOMAIN OpenRound(h, r) <=> <<t, i>> \in DOMAIN h
    BY <1>1 DEF OpenRound
<1>3. <<t, i>> \in DOMAIN h => OpenRound(h, r)[<<t, i>>] = h[<<t, i>>]
    BY <1>1 DEF OpenRound
<1>4. QED
    BY <1>2, <1>3 DEF Entry

LEMMA EntryType ==
    ASSUME NEW h, IsHistory(h), NEW t, NEW i
    PROVE  Entry(h, t, i) \in Nat
BY DEF Entry, IsHistory

\* A round of which there are no submissions yet.
LEMMA NothingBooked ==
    ASSUME TypeOK, NEW i, NEW S, \A s \in S : s.round = i,
           \A s \in Range(journal) \cup Range(events) : s.round # i,
           \A c \in Conns : conn[c].pc = "sendEvent" => conn[c].round # i
    PROVE  Booked(S) = 0
<1>1. Count(journal, S) = 0 /\ Count(events, S) = 0
    BY CountType DEF TypeOK
<1>2. Sending(S) = {}
    BY DEF Sending, SubmissionOf
<1>3. QED
    BY <1>1, <1>2, FS_EmptySet DEF Booked

\* A restart books what it replays: all that is journaled in the finished rounds.
LEMMA ReplayBooks ==
    ASSUME SubmissionInv, EntriesInv, [Next]_vars, Crash,
           NEW t \in Teams, NEW i \in FinishedRows(rounds)
    PROVE  /\ Count(journal, Gaining(t, i)) <= Entry(gained', t, i)
           /\ Count(journal, Losing(t, i)) <= Entry(lost', t, i)
<1>1. /\ TypeOK /\ TableInv /\ PathInv
      /\ journal \in Seq(Submission) /\ DOMAIN rounds = 1..Len(rounds) /\ Len(rounds) \in Nat
    BY DEF SubmissionInv, TypeOK
<1>2. /\ IsHistory(gained') /\ IsHistory(lost')
      /\ DOMAIN gained' = Teams \X ReplayedRounds /\ DOMAIN lost' = Teams \X ReplayedRounds
      /\ i \in ReplayedRounds => gained'[<<t, i>>] = Gains(t, i) /\ lost'[<<t, i>>] = Losses(t, i)
    BY <1>1, ReplayedHistoryType
<1>3. CASE i = 1
  <2>1. ASSUME NEW s \in Range(journal) PROVE s.round # 1
    <3>1. s.flag.round \in 1..Len(rounds) /\ s.flag.round # 1 /\ s.flag.round <= s.round
          /\ s.round \in 1..Len(rounds)
        BY <1>1 DEF PathInv, Sound
    <3>2. QED
        BY <1>1, <3>1
  <2>2. Count(journal, Gaining(t, i)) = 0 /\ Count(journal, Losing(t, i)) = 0
      BY <1>1, <1>3, <2>1, CountType DEF Gaining, Losing
  <2>3. QED
      BY <1>2, <2>2, EntryType
<1>4. CASE i # 1
  <2>1. i \in ReplayedRounds
      BY <1>4 DEF ReplayedRounds, EntriesInv, FinishedRows
  <2>2. Entry(gained', t, i) = Gains(t, i) /\ Entry(lost', t, i) = Losses(t, i)
      BY <1>2, <2>1 DEF Entry
  <2>3. ASSUME NEW k \in DOMAIN journal, journal[k].round = i
        PROVE  journal[k] \in Effective
    <3>1. journal[k] \in Range(journal) /\ rounds[journal[k].round].finished
        BY <2>3 DEF Range, FinishedRows
    <3>2. rounds[journal[k].flag.round].finished
        BY <3>1, OlderIsFinished
    <3>3. QED
        BY <3>1, <3>2 DEF Effective, Replayed
  <2>4. \A k \in DOMAIN journal : journal[k] \in Submission
      BY <1>1
  <2>5. Positions(journal, Gaining(t, i))
            = {k \in DOMAIN journal : /\ journal[k] \in Effective
                                      /\ journal[k].round = i
                                      /\ journal[k].attacker = t}
      BY <2>3, <2>4 DEF Positions, Gaining
  <2>6. Positions(journal, Losing(t, i))
            = {k \in DOMAIN journal : /\ journal[k] \in Effective
                                      /\ journal[k].round = i
                                      /\ journal[k].flag.team = t}
      BY <2>3, <2>4 DEF Positions, Losing
  <2>7. Count(journal, Gaining(t, i)) = Gains(t, i) /\ Count(journal, Losing(t, i)) = Losses(t, i)
      BY <2>5, <2>6 DEF Count, Gains, Losses
  <2>8. Gains(t, i) \in Nat /\ Losses(t, i) \in Nat
      BY <1>1, CountsType
  <2>9. QED
      BY <2>2, <2>7, <2>8
<1>5. QED
    BY <1>3, <1>4

LEMMA BooksInvStep ==
    ASSUME SubmissionInv, EntriesInv, BooksInv, [Next]_vars
    PROVE  BooksInv'
<1> SUFFICES ASSUME NEW t \in Teams, NEW i, Valid(i)'
             PROVE  /\ Booked(Gaining(t, i))' <= Entry(gained', t, i) + Announced(Gaining(t, i))'
                    /\ Booked(Losing(t, i))' <= Entry(lost', t, i) + Announced(Losing(t, i))'
    BY DEF BooksInv, Entry
<1> DEFINE A == Gaining(t, i)
           V == Losing(t, i)
<1>1. TypeOK /\ TableInv /\ RoundMailInv /\ FlagInv /\ PathInv /\ CreditInv
      /\ IsHistory(gained) /\ IsHistory(lost)
    BY DEF SubmissionInv, TypeOK
<1>2. /\ Entry(gained, t, i) \in Nat /\ Entry(lost, t, i) \in Nat
      /\ Booked(A) \in Nat /\ Booked(V) \in Nat /\ Announced(A) \in Nat /\ Announced(V) \in Nat
    BY <1>1, EntryType, BookedType
<1>3. /\ Entry(gained', t, i) \in Nat /\ Entry(lost', t, i) \in Nat
      /\ Booked(A)' \in Nat /\ Booked(V)' \in Nat /\ Announced(A)' \in Nat /\ Announced(V)' \in Nat
  <2>1. TypeOK'
    <3>1. \A k \in DOMAIN flagMail :
              flagMail[k].type = "UpdateRound" => flagMail[k].round \in DOMAIN rounds
        BY <1>1 DEF RoundMailInv, Sent, Valid
    <3>2. QED
        BY <1>1, <3>1, NextType DEF TableInv
  <2>2. /\ IsHistory(gained') /\ IsHistory(lost') /\ journal' \in Seq(Submission)
        /\ events' \in Seq(Submission) /\ flagMail' \in Seq(FlagbotMsg)
      BY <2>1 DEF TypeOK, IsHistory
  <2>3. \A S : /\ Booked(S)' = Count(journal', S) + Count(events', S) + Cardinality(Sending(S)')
               /\ Announced(S)' = Count(flagMail', Messages(S))
      BY DEF Booked, Announced, Messages
  <2>4. \A S : Cardinality(Sending(S)') \in Nat
    <3>1. \A S : Sending(S)' \subseteq Conns
        BY DEF Sending
    <3>2. QED
        BY <3>1, FS_Subset, FS_CardinalityType, SubmissionAssumption DEF SubmissionAssumption
  <2>5. QED
      BY <2>2, <2>3, <2>4, EntryType, CountType
<1> HIDE DEF A, V
<1>4. CASE Crash
  <2>1. i \in FinishedRows(rounds)
      BY <1>1, <1>4, ValidStep
  <2>2. Count(journal, A) <= Entry(gained', t, i) /\ Count(journal, V) <= Entry(lost', t, i)
      BY <1>4, <2>1, ReplayBooks DEF A, V
  <2>3. /\ Booked(A)' = Count(journal, A) /\ Announced(A)' = 0
        /\ Booked(V)' = Count(journal, V) /\ Announced(V)' = 0
      BY <1>1, <1>4, BooksStep
  <2>4. QED
      BY <1>3, <2>2, <2>3 DEF A, V
<1>5. CASE ~Crash /\ i \notin DOMAIN rounds
  <2>1. Booked(A) = 0 /\ Booked(V) = 0
    <3>1. \A s \in Range(journal) \cup Range(events) : s.round # i
        BY <1>1, <1>5 DEF PathInv, Fresh, Sound
    <3>2. \A c \in Conns : conn[c].pc = "sendEvent" => conn[c].round # i
        BY <1>1, <1>5 DEF PathInv, Fresh, Sound, Checked, SubmissionOf
    <3>3. QED
        BY <1>1, <3>1, <3>2, NothingBooked DEF A, V, Gaining, Losing
  <2>2. Booked(A)' <= Announced(A)' /\ Booked(V)' <= Announced(V)'
      BY <1>1, <1>2, <1>3, <1>5, <2>1, BooksStep
  <2>3. QED
      BY <1>3, <2>2 DEF A, V
<1>6. ASSUME ~Crash, i \in DOMAIN rounds
      PROVE  /\ Valid(i)
             /\ Booked(A) <= Entry(gained, t, i) + Announced(A)
             /\ Booked(V) <= Entry(lost, t, i) + Announced(V)
  <2>1. Valid(i)
      BY <1>1, <1>6, ValidStep
  <2>2. QED
      BY <2>1 DEF BooksInv, A, V
<1>7. CASE ~Crash /\ i \in DOMAIN rounds /\ HandleSubmittedFlag
  <2>1. PICK s \in Submission :
            /\ s = Head(flagMail).submission /\ s.flag \in known /\ Opened(s.round)
            /\ gained' = Increase(gained, s.attacker, s.round)
            /\ lost' = Increase(lost, s.flag.team, s.round)
    <3>1. Receives("SubmittedFlag")
        BY <1>7 DEF HandleSubmittedFlag
    <3>2. Head(flagMail).submission \in Submission
        BY <1>1, <3>1, ReceiveType, MsgContents
    <3>3. 1 \in Sent("SubmittedFlag") /\ Head(flagMail) = flagMail[1]
        BY <1>1, <3>1, SentAfterReceive
    <3>4. Opened(Head(flagMail).submission.round) /\ Head(flagMail).submission.flag \in known
        BY <3>3 DEF EntriesInv
    <3>5. QED
        BY <1>7, <3>2, <3>4 DEF HandleSubmittedFlag
  <2>2. /\ <<s.attacker, s.round>> \in DOMAIN gained
        /\ <<s.flag.team, s.round>> \in DOMAIN lost
      BY <2>1, PairType DEF Opened
  <2>3. /\ Entry(gained', t, i) = Entry(gained, t, i)
                + (IF s.attacker = t /\ s.round = i THEN 1 ELSE 0)
        /\ Entry(lost', t, i) = Entry(lost, t, i)
                + (IF s.flag.team = t /\ s.round = i THEN 1 ELSE 0)
      BY <1>1, <2>1, <2>2, EntryIncreases
  <2>4. /\ s \in A <=> s.attacker = t /\ s.round = i
        /\ s \in V <=> s.flag.team = t /\ s.round = i
      BY DEF A, V, Gaining, Losing
  <2>5. /\ Booked(A)' = Booked(A) /\ Booked(V)' = Booked(V)
        /\ Announced(A) = Announced(A)' + (IF s \in A THEN 1 ELSE 0)
        /\ Announced(V) = Announced(V)' + (IF s \in V THEN 1 ELSE 0)
      BY <1>1, <1>7, <2>1, BooksStep
  <2>6. QED
      BY <1>2, <1>3, <1>6, <1>7, <2>3, <2>4, <2>5 DEF A, V
<1>8. CASE ~Crash /\ i \in DOMAIN rounds /\ ~HandleSubmittedFlag
  <2>1. /\ Booked(A)' + Announced(A) <= Booked(A) + Announced(A)'
        /\ Booked(V)' + Announced(V) <= Booked(V) + Announced(V)'
      BY <1>1, <1>8, BooksStep
  <2>2. CASE UNCHANGED <<gained, lost>>
      BY <1>2, <1>3, <1>6, <1>8, <2>1, <2>2 DEF A, V
  <2>3. CASE HandleUpdateRound
    <3>1. PICK r \in 1..MaxRows : /\ gained' = OpenRound(gained, r) /\ lost' = OpenRound(lost, r)
                                  /\ Receives("UpdateRound") /\ r = Head(flagMail).round
      <4>1. /\ Receives("UpdateRound") /\ fbRound' = Head(flagMail).round
            /\ gained' = OpenRound(gained, fbRound') /\ lost' = OpenRound(lost, fbRound')
          BY <2>3 DEF HandleUpdateRound
      <4>2. fbRound' \in 1..MaxRows
          BY <1>1, <4>1, ReceiveType, MsgContents
      <4>3. QED
          BY <4>1, <4>2
    <3>2. CASE i # r
      <4>1. Entry(gained', t, i) = Entry(gained, t, i) /\ Entry(lost', t, i) = Entry(lost, t, i)
          BY <1>1, <3>1, <3>2, EntryOpens
      <4>2. QED
          BY <1>2, <1>3, <1>6, <1>8, <2>1, <4>1 DEF A, V
    <3>3. CASE i = r
      <4>1. fbRound < i /\ fbRound \in Nat /\ i \in Nat
        <5>1. 1 \in Sent("UpdateRound") /\ Head(flagMail) = flagMail[1]
            BY <1>1, <3>1, SentAfterReceive
        <5>2. fbRound < i
            BY <1>1, <3>1, <3>3, <5>1 DEF RoundMailInv
        <5>3. QED
            BY <1>1, <3>3, <5>2, RowsAreNaturals DEF TypeOK
      <4>2. ASSUME NEW s \in Range(journal) \cup Range(events) PROVE s.round # i
        <5>1. Valid(s.round) => s.round <= fbRound
            BY DEF EntriesInv
        <5>2. QED
            BY <1>6, <1>8, <4>1, <5>1
      <4>3. ASSUME NEW c \in Conns, conn[c].pc = "sendEvent" PROVE conn[c].round # i
        <5>1. conn[c].round <= fbRound
            BY <4>3 DEF EntriesInv, Checked
        <5>2. QED
            BY <4>1, <5>1
      <4>4. Booked(A) = 0 /\ Booked(V) = 0
          BY <1>1, <4>2, <4>3, NothingBooked DEF A, V, Gaining, Losing
      <4>5. QED
          BY <1>2, <1>3, <2>1, <4>4 DEF A, V
    <3>4. QED
        BY <3>2, <3>3
  <2>4. QED
      BY <1>1, <1>8, <2>2, <2>3, HistorySteps
<1>9. QED
    BY <1>4, <1>5, <1>6, <1>7, <1>8

LEMMA InitBooks == Init => EntriesInv /\ BooksInv
<1> SUFFICES ASSUME Init PROVE EntriesInv /\ BooksInv
    OBVIOUS
<1>1. TypeOK
    BY InitType
<1>2. /\ journal = <<>> /\ events = <<>> /\ flagMail = <<>> /\ fbRound = 1 /\ DOMAIN rounds = {1}
      /\ \A c \in Conns : conn[c].pc = "ready"
    BY DEF Init, InitialRounds, Idle
<1>3. EntriesInv
    BY <1>2, RangeOfEmpty DEF EntriesInv, Checked, Sent
<1>4. ASSUME NEW t \in Teams, NEW i
      PROVE  Booked(Gaining(t, i)) = 0 /\ Booked(Losing(t, i)) = 0
    BY <1>1, <1>2, RangeOfEmpty, NothingBooked DEF Gaining, Losing
<1>5. ASSUME NEW t \in Teams, NEW i
      PROVE  /\ Booked(Gaining(t, i)) <= Entry(gained, t, i) + Announced(Gaining(t, i))
             /\ Booked(Losing(t, i)) <= Entry(lost, t, i) + Announced(Losing(t, i))
  <2>1. /\ Entry(gained, t, i) \in Nat /\ Entry(lost, t, i) \in Nat
        /\ Announced(Gaining(t, i)) \in Nat /\ Announced(Losing(t, i)) \in Nat
      BY <1>1, EntryType, BookedType DEF TypeOK
  <2>2. QED
      BY <1>4, <2>1
<1>6. QED
    BY <1>3, <1>5 DEF BooksInv

\* What the property says, in the terms of the invariant.
LEMMA BooksAreCovered ==
    ASSUME TypeOK, TableInv, BooksInv
    PROVE  JournalIsBooked
<1> SUFFICES ASSUME NEW t \in Teams, NEW i \in FinishedRows(rounds) \cup {roundId}
             PROVE  /\ Covers(gained, t, i,
                              {k \in DOMAIN journal :
                                  journal[k].round = i /\ journal[k].attacker = t},
                              {k \in Waiting : LET s == flagMail[k].submission IN
                                                   s.round = i /\ s.attacker = t})
                    /\ Covers(lost, t, i,
                              {k \in DOMAIN journal :
                                  journal[k].round = i /\ journal[k].flag.team = t},
                              {k \in Waiting : LET s == flagMail[k].submission IN
                                                   s.round = i /\ s.flag.team = t})
    BY DEF JournalIsBooked
<1>1. Valid(i)
    BY DEF FinishedRows, Valid, TypeOK
<1>2. \A k \in DOMAIN journal : journal[k] \in Submission
    BY DEF TypeOK
<1>3. ASSUME NEW k \in DOMAIN flagMail, flagMail[k].type = "SubmittedFlag"
      PROVE  flagMail[k] \in FlagbotMsg /\ flagMail[k].submission \in Submission
  <2>1. flagMail[k] \in FlagbotMsg
      BY DEF TypeOK
  <2>2. QED
      BY <1>3, <2>1, MsgContents
<1>4. /\ Positions(journal, Gaining(t, i))
             = {k \in DOMAIN journal : journal[k].round = i /\ journal[k].attacker = t}
      /\ Positions(journal, Losing(t, i))
             = {k \in DOMAIN journal : journal[k].round = i /\ journal[k].flag.team = t}
    BY <1>2 DEF Positions, Gaining, Losing
<1>5. /\ Positions(flagMail, Messages(Gaining(t, i)))
             = {k \in Waiting : LET s == flagMail[k].submission IN s.round = i /\ s.attacker = t}
      /\ Positions(flagMail, Messages(Losing(t, i)))
             = {k \in Waiting : LET s == flagMail[k].submission IN s.round = i /\ s.flag.team = t}
    BY <1>3 DEF Positions, Messages, Gaining, Losing, Waiting
<1>6. /\ Booked(Gaining(t, i)) <= Entry(gained, t, i) + Announced(Gaining(t, i))
      /\ Booked(Losing(t, i)) <= Entry(lost, t, i) + Announced(Losing(t, i))
    BY <1>1 DEF BooksInv
<1>7. ASSUME NEW S, NEW n \in Nat, Booked(S) <= n + Announced(S)
      PROVE  Count(journal, S) <= n + Announced(S)
    BY <1>7, BookedType DEF Booked
<1>8. /\ Count(journal, Gaining(t, i)) <= Entry(gained, t, i) + Announced(Gaining(t, i))
      /\ Count(journal, Losing(t, i)) <= Entry(lost, t, i) + Announced(Losing(t, i))
    BY <1>6, <1>7, EntryType DEF TypeOK
<1>9. QED
    BY <1>4, <1>5, <1>8 DEF Covers, Entry, Count, Announced

\* For any teams, connections, capacities and crashes: what is journaled in a
\* round that counts is in the history of both teams, or is announced to it.
THEOREM JournalIsAlwaysBooked == Spec => []JournalIsBooked
<1>1. Init => EntriesInv /\ BooksInv
    BY InitBooks
<1>2. SubmissionInv /\ (EntriesInv /\ BooksInv) /\ [Next]_vars => (EntriesInv /\ BooksInv)'
    BY EntriesStep, BooksInvStep DEF SubmissionInv
<1>3. SubmissionInv /\ (EntriesInv /\ BooksInv) => JournalIsBooked
    BY BooksAreCovered DEF SubmissionInv
<1>4. QED
    BY <1>1, <1>2, <1>3, SubmissionInvariance, PTL DEF Spec

-----------------------------------------------------------------------------
(* The journal implements the promise *)

Open == CountedPairs \ Settled

\* A step of the journal is a step of the promise or changes nothing of it.
LEMMA PromiseStep ==
    ASSUME SubmissionInv, [Next]_vars
    PROVE  \/ Settled' = Settled \cup Open /\ Open' = {}
           \/ Open' = {} /\ UNCHANGED Settled
           \/ \E p \in {q \in Teams \X Flag : q[1] # q[2].team} :
                 \/ p \notin Settled /\ Open' = Open \cup {p} /\ UNCHANGED Settled
                 \/ Settled' = Settled \cup {p} /\ Open' = Open \ {p}
           \/ UNCHANGED <<Open, Settled>>
<1>1. TypeOK /\ TableInv /\ RoundMailInv /\ FlagInv /\ PathInv /\ CreditInv
    BY DEF SubmissionInv
<1>2. /\ rounds \in Seq(Row) /\ roundId \in DOMAIN rounds /\ journal \in Seq(Submission)
      /\ events \in Seq(Submission)
      /\ \A s \in Range(journal) : s.round \in DOMAIN rounds
    BY <1>1 DEF TypeOK, PathInv, Sound
<1>3. Settled \subseteq CountedPairs
    BY DEF Settled, CountedPairs, Counted
<1>4. CASE FinishRound
  <2>1. /\ rounds' = MarkFinished(rounds, roundId) /\ UNCHANGED <<roundId, journal>> /\ ~Crash
    <3>1. rounds' = MarkFinished(rounds, roundId) /\ ~rounds[roundId].finished
          /\ UNCHANGED <<roundId, journal>>
        BY <1>4 DEF FinishRound, relayVars
    <3>2. rounds'[roundId].finished
        BY <1>2, <3>1, MarkFinishedRows
    <3>3. QED
        BY <3>1, <3>2 DEF Crash
  <2>2. \A j \in DOMAIN rounds : rounds'[j].finished <=> (rounds[j].finished \/ j = roundId)
      BY <1>2, <2>1, MarkFinishedRows
  <2>3. Settled' = CountedPairs
      BY <1>2, <2>1, <2>2 DEF Settled, CountedPairs, Counted, Pair
  <2>4. CountedPairs' = CountedPairs
      BY <1>1, <2>1, CountedStep
  <2>5. QED
      BY <1>3, <2>3, <2>4 DEF Open
<1>5. CASE StartRound
  <2>1. rounds' = StartNewRound(rounds) /\ UNCHANGED journal
      BY <1>5 DEF StartRound, relayVars
  <2>2. \A j \in DOMAIN rounds : rounds'[j] = rounds[j]
      BY <1>1, <1>2, <2>1, StartNewRoundRows DEF TableInv
  <2>3. ~Crash
    <3>1. FinishedRows(rounds) # {} /\ Len(rounds) \in Nat
        BY <1>1, <1>2 DEF TableInv
    <3>2. Len(rounds') = Len(rounds) + 1
        BY <1>2, <2>1, <3>1, StartNewRoundRows
    <3>3. QED
        BY <3>1, <3>2 DEF Crash
  <2>4. Settled' = Settled
      BY <1>2, <2>1, <2>2 DEF Settled, Pair
  <2>5. CountedPairs' = CountedPairs
      BY <1>1, <2>1, <2>3, CountedStep
  <2>6. QED
      BY <2>4, <2>5 DEF Open
<1>6. CASE Crash
  <2>1. UNCHANGED <<rounds, journal>> /\ roundId' = LastFinished(rounds)
      BY <1>6 DEF Crash
  <2>2. roundId' \in FinishedRows(rounds)
      BY <1>1, <1>2, <2>1, LastFinishedIsGreatest DEF TableInv
  <2>3. Settled' = Settled /\ CountedPairs' = Settled
      BY <2>1, <2>2 DEF Settled, CountedPairs, Counted, Pair, FinishedRows
  <2>4. QED
      BY <2>3 DEF Open
<1>7. CASE JournalEvent
  <2>1. PICK h : h = Head(events)
      OBVIOUS
  <2>2. /\ events # <<>> /\ journal' = Append(journal, h) /\ UNCHANGED <<rounds, roundId>> /\ ~Crash
    <3>1. events # <<>> /\ journal' = Append(journal, h) /\ UNCHANGED <<rounds, roundId>>
        BY <1>7, <2>1 DEF JournalEvent, gameVars
    <3>2. Append(journal, h) # journal
      <4>1. h \in Submission
          BY <1>2, <2>1, <3>1, RangeOfTail
      <4>2. Len(Append(journal, h)) = Len(journal) + 1 /\ Len(journal) \in Nat
          BY <1>2, <4>1
      <4>3. QED
          BY <4>2
    <3>3. QED
        BY <3>1, <3>2 DEF Crash
  <2>3. h \in Range(events) /\ h \in Submission
      BY <1>2, <2>1, <2>2, RangeOfTail
  <2>4. Range(journal') = Range(journal) \cup {h}
      BY <1>2, <2>2, <2>3, RangeOfAppend
  <2>5. PICK p : p = Pair(h)
      OBVIOUS
  <2>6. CountedPairs' = CountedPairs \cup {p}
      BY <1>1, <1>7, <2>1, <2>2, <2>5, CountedStep
  <2>7. p \in {q \in Teams \X Flag : q[1] # q[2].team}
    <3>1. h.attacker # h.flag.team
        BY <1>1, <2>3 DEF PathInv, Fresh, Sound
    <3>2. QED
        BY <2>3, <2>5, <3>1, PairType DEF Pair
  <2>8. CASE rounds[h.round].finished
    <3>1. Settled' = Settled \cup {p}
        BY <2>2, <2>4, <2>5, <2>8 DEF Settled, Pair
    <3>2. Open' = Open \ {p}
        BY <2>6, <3>1 DEF Open
    <3>3. QED
        BY <2>7, <3>1, <3>2
  <2>9. CASE ~rounds[h.round].finished
    <3>1. Settled' = Settled
        BY <2>2, <2>4, <2>5, <2>9 DEF Settled, Pair
    <3>2. CASE p \in Settled
        BY <1>3, <2>6, <3>1, <3>2 DEF Open
    <3>3. CASE p \notin Settled
      <4>1. Open' = Open \cup {p}
          BY <2>6, <3>1, <3>3 DEF Open
      <4>2. QED
          BY <2>7, <3>1, <3>3, <4>1
    <3>4. QED
        BY <3>2, <3>3
  <2>10. QED
      BY <2>8, <2>9
<1>8. CASE UNCHANGED <<rounds, roundId, journal>>
    BY <1>8 DEF Open, CountedPairs, Counted, Settled, Pair
<1>9. UNCHANGED journal \/ JournalEvent \/ Crash
    BY CreditSteps DEF RelayFails, NotifyScorebot, Credit, relayVars
<1>10. QED
    BY <1>1, <1>4, <1>5, <1>6, <1>7, <1>8, <1>9, RowsStep DEF TableInv

\* The journal credits each pair of an attacker and another team's flag once, and
\* takes back nothing that a finished round has settled.
THEOREM JournalImplementsCredit == Spec => ImplementsCredit
<1>1. Init => Promise!Init
    BY RangeOfEmpty DEF Init, Promise!Init, Settled, Counted
<1>2. SubmissionInv /\ [Next]_vars
      => [Promise!Next]_<<{Pair(s) : s \in Counted} \ Settled, Settled>>
  <2> SUFFICES ASSUME SubmissionInv, [Next]_vars
               PROVE  [Promise!Next]_<<{Pair(s) : s \in Counted} \ Settled, Settled>>
      OBVIOUS
  <2>1. QED
      BY PromiseStep DEF Promise!Next, Promise!FinishRound, Promise!Abandon, Promise!Accept,
         Open, CountedPairs
<1>3. QED
    BY <1>1, <1>2, SubmissionInvariance, PTL DEF Spec, ImplementsCredit, Promise!Spec
=============================================================================
