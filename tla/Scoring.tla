------------------------------- MODULE Scoring -------------------------------
(***************************************************************************)
(* The points (scoring.rs: ScoreBot::run and FaustCTF), as events reach    *)
(* the scorebot live and as replay_scorebot (game.rs) feeds them to it     *)
(* after a restart.                                                        *)
(*                                                                         *)
(* Live, three kinds of tasks write to the database and then send: the     *)
(* game loop, the relay of the submissions, and the tasks that record a    *)
(* service's state.  The replay sorts what they wrote by its timestamps.   *)
(*                                                                         *)
(* One service with one slot stands for all, since points are sums over    *)
(* services and flags: a flag is a round and a team.  Points are integers  *)
(* in a unit that the shares of a flag divide.  FlagSubmission says which  *)
(* submissions are accepted, ServiceState which states are recorded; here  *)
(* both are arbitrary, and the Initial entries, which change no points,    *)
(* are left out.                                                           *)
(***************************************************************************)
EXTENDS RoundJournal, StateMerge, FiniteSets, Functions, FiniteSetsExt

CONSTANTS
    Teams,
    States,         \* states that are recorded
    Unit,           \* one point
    Loss,           \* count^0.75, by the number of teams that hold a flag
    Victims,        \* bound: teams whose flags are captured and whose service is observed
    MailCap,        \* capacity of the scorebot's channel (10 in the code)
    MaxRows,        \* bound: rows of the rounds table
    MaxSubmissions, \* bound: journaled submissions
    MaxStates,      \* bound: journaled states
    MaxCrashes      \* bound: crashes of the process

ASSUME ScoringAssumption ==
    /\ IsFiniteSet(Teams) /\ Victims \subseteq Teams /\ States \subseteq State
    /\ Unit \in Nat /\ \A n \in 1..Cardinality(Teams) : Unit % n = 0
    /\ Loss \in [0..Cardinality(Teams) -> Nat] /\ Loss[0] = 0
    /\ MailCap \in Nat \ {0} /\ MaxRows \in Nat \ {0}
    /\ MaxSubmissions \in Nat /\ MaxStates \in Nat /\ MaxCrashes \in Nat

VARIABLES
    \* The database
    rounds,     \* table rounds
    log,        \* starts of rounds, submissions and states in the order of their timestamps
    \* The tasks that write and send
    roundId,    \* current round of progress_game
    loop,       \* "tell": it has still to send UpdateRound
    relay,      \* where handle_flagbot_event stands
    recording,  \* states that are journaled and still to be sent
    \* The scorebot
    mail,       \* its channel
    score,      \* FaustCTF and the history of points
    \* auxiliary
    raced,      \* rounds whose UpdateRound was overtaken by an event or overtook one
    crashes     \* bound

db      == <<rounds, log>>
senders == <<roundId, loop, relay, recording>>
vars == <<db, senders, mail, score, raced, crashes>>

-----------------------------------------------------------------------------
(* FaustCTF *)

Flag == [round : 1..MaxRows, team : Teams]

UpdateRound(i)          == [type |-> "UpdateRound", round |-> i]
FlagSubmission(a, f, i) == [type |-> "FlagSubmission", attacker |-> a, flag |-> f, round |-> i]
ServiceState(t, i, s)   == [type |-> "ServiceState", team |-> t, round |-> i, state |-> s]

\* flag_weight and flag_submission, round_ids (the last one is current_round),
\* service_state, and Model.h_score.
NewScore == [weight  |-> [f \in Flag |-> {}],
             taken   |-> [t \in Teams |-> {}],
             rounds  |-> <<>>,
             state   |-> [t \in Teams |-> [i \in 1..MaxRows |-> Unknown]],
             history |-> <<>>]

\* calculate_attack_point: a point for the flag, and a share of another.
AttackPoint(s, t) ==
    SumFunction([f \in s.taken[t] |-> Unit + Unit \div Cardinality(s.weight[f])])

\* calculate_defence_point, as what is subtracted.
DefenceLoss(s, t) ==
    SumFunction([f \in {g \in DOMAIN s.weight : g.team = t} |-> Loss[Cardinality(s.weight[f])]])

Uptime(state) == IF state = Up THEN Unit ELSE IF state = Recovering THEN Unit \div 2 ELSE 0

\* Mutant: the round being played counts as well.
Sla_WithCurrent(s, t) ==
    SumFunction([k \in DOMAIN s.rounds |-> Uptime(s.state[t][s.rounds[k]])])

\* calculate_sla: every round but those with the number of the current one.
\* The factor that all teams have in common is left out.
Sla(s, t) ==
    LET past == {k \in DOMAIN s.rounds :
                    rounds[s.rounds[k]].number # rounds[Last(s.rounds)].number}
    IN  SumFunction([k \in past |-> Uptime(s.state[t][s.rounds[k]])])

View(s) == [t \in Teams |-> AttackPoint(s, t) - DefenceLoss(s, t) + Sla(s, t)]

\* Mutant: only the first capture of a flag is weighed.
OnFlagSubmission_FirstOnly(s, m) ==
    [s EXCEPT !.taken[m.attacker] = @ \cup {m.flag},
              !.weight[m.flag] = IF @ = {} THEN {m.attacker} ELSE @]

\* The attacker shares the flag.  That its team has a bit in the set of those
\* who do, and an entry in the map of those who took flags, is taken for granted:
\* ids start at 1 and every team gets an entry when the score is created.
OnFlagSubmission(s, m) ==
    [s EXCEPT !.taken[m.attacker] = @ \cup {m.flag}, !.weight[m.flag] = @ \cup {m.attacker}]

OnServiceState(s, m) == [s EXCEPT !.state[m.team][m.round] = Merge(@, m.state)]

\* History::insert.
Enter(history, i, points) ==
    [j \in DOMAIN history \cup {i} |-> IF j = i THEN points ELSE history[j]]

\* Mutant: the history is written after the new round has begun.
OnUpdateRound_Late(s, m) ==
    IF IsRoundZero(rounds, m.round) THEN s
    ELSE LET started == [s EXCEPT !.rounds = Append(@, m.round)]
         IN  [started EXCEPT !.history = Enter(@, m.round, View(started))]

\* The points so far enter the history, and the round begins.
OnUpdateRound(s, m) ==
    IF IsRoundZero(rounds, m.round) THEN s
    ELSE [s EXCEPT !.history = Enter(@, m.round, View(s)), !.rounds = Append(@, m.round)]

\* What the scorebot makes of a message.
After(s, m) ==
    CASE m.type = "FlagSubmission" -> OnFlagSubmission(s, m)
      [] m.type = "ServiceState"   -> OnServiceState(s, m)
      [] m.type = "UpdateRound"    -> OnUpdateRound(s, m)

\* The replay sends the finished rounds, the submissions of finished rounds for
\* flags of finished rounds, and all the states ...
Kept(m) ==
    /\ m.type # "ServiceState"   => rounds[m.round].finished
    /\ m.type = "FlagSubmission" => rounds[m.flag.round].finished

\* ... sorted.
Replayed == FoldLeft(LAMBDA s, m : IF Kept(m) THEN After(s, m) ELSE s, NewScore, log)

-----------------------------------------------------------------------------

Ready == [pc |-> "recv"]

Init ==
    /\ rounds = InitialRounds /\ log = <<UpdateRound(1)>>
    /\ roundId = 1 /\ loop = "play" /\ relay = Ready /\ recording = {}
    /\ mail = <<>> /\ score = NewScore
    /\ raced = {} /\ crashes = 0

\* The tasks are gone.  Game::new and Game::run rebuild the score.
Crash ==
    /\ crashes < MaxCrashes /\ crashes' = crashes + 1
    /\ roundId' = LastFinished(rounds) /\ loop' = "play"
    /\ relay' = Ready /\ recording' = {}
    /\ mail' = <<>> /\ score' = Replayed
    /\ raced' = {}
    /\ UNCHANGED db

Send(m) == /\ Len(mail) < MailCap
           /\ mail' = Append(mail, m)

\* An event is sent between a round's row and its UpdateRound.
Race == raced' = IF loop = "tell" THEN raced \cup {roundId} ELSE raced

Written(type) == Cardinality({k \in DOMAIN log : log[k].type = type})

-----------------------------------------------------------------------------
(* progress_game *)

\* By a pause, or because the next round is due.
FinishRound ==
    /\ loop = "play" /\ ~rounds[roundId].finished
    /\ rounds' = MarkFinished(rounds, roundId)
    /\ UNCHANGED <<log, senders, mail, score, raced, crashes>>

StartRound ==
    /\ loop = "play" /\ rounds[roundId].finished /\ Len(rounds) < MaxRows
    /\ rounds' = StartNewRound(rounds) /\ roundId' = Len(rounds')
    /\ log' = Append(log, UpdateRound(roundId'))
    /\ loop' = "tell"
    /\ raced' = IF relay = Ready /\ recording = {} THEN raced ELSE raced \cup {roundId'}
    /\ UNCHANGED <<relay, recording, mail, score, crashes>>

TellRound ==
    /\ loop = "tell" /\ loop' = "play"
    /\ Send(UpdateRound(roundId))
    /\ UNCHANGED <<db, roundId, relay, recording, score, raced, crashes>>

-----------------------------------------------------------------------------
(* handle_flagbot_event and update_service_state *)

\* The event's timestamp is taken ...
StampSubmission(a, f, i) ==
    /\ relay = Ready /\ Written("FlagSubmission") < MaxSubmissions
    /\ relay' = [pc |-> "append", entry |-> FlagSubmission(a, f, i), at |-> Len(log) + 1]
    /\ UNCHANGED <<db, roundId, loop, recording, mail, score, raced, crashes>>

\* ... before its entry is written ...
JournalSubmission ==
    /\ relay.pc = "append"
    /\ log' = InsertAt(log, relay.at, relay.entry)
    /\ relay' = [relay EXCEPT !.pc = "send"]
    /\ UNCHANGED <<rounds, roundId, loop, recording, mail, score, raced, crashes>>

\* ... and the scorebot is told.
TellSubmission ==
    /\ relay.pc = "send" /\ Send(relay.entry)
    /\ relay' = Ready
    /\ Race
    /\ UNCHANGED <<db, roundId, loop, recording, score, crashes>>

\* The entry gets its timestamp under the lock of the database.
JournalState(t, i, s) ==
    /\ Written("ServiceState") < MaxStates
    /\ log' = Append(log, ServiceState(t, i, s))
    /\ recording' = recording \cup {ServiceState(t, i, s)}
    /\ UNCHANGED <<rounds, roundId, loop, relay, mail, score, raced, crashes>>

TellState(m) ==
    /\ m \in recording /\ Send(m)
    /\ recording' = recording \ {m}
    /\ Race
    /\ UNCHANGED <<db, roundId, loop, relay, score, crashes>>

-----------------------------------------------------------------------------
(* ScoreBot::run; UpdateScoreboard, which publishes the view, changes nothing *)

Handle ==
    /\ mail # <<>>
    /\ mail' = Tail(mail)
    /\ score' = After(score, Head(mail))
    /\ UNCHANGED <<db, senders, raced, crashes>>

-----------------------------------------------------------------------------

Played == {i \in {roundId} \cup FinishedRows(rounds) : ~IsRoundZero(rounds, i)}

\* A submission is recorded for the round played when it was judged, which may be
\* over by now; its flag is of that round or an earlier one.  The flagbot is told
\* of a round after the scorebot.
Submit == \E a \in Teams, i \in Played, f \in [round : Played, team : Victims] :
              /\ f.team # a /\ f.round <= i /\ (i = roundId => loop = "play")
              /\ StampSubmission(a, f, i)

\* So may the round that a checker's answer is recorded for.
Record == \E t \in Victims, i \in Played, s \in States : JournalState(t, i, s)

Tell == TellRound \/ TellSubmission \/ \E m \in recording : TellState(m)

Next == \/ FinishRound \/ StartRound \/ Submit \/ JournalSubmission \/ Record \/ Tell
        \/ Handle \/ Crash

Spec == Init /\ [][Next]_vars
-----------------------------------------------------------------------------
(* Properties *)

\* The points according to some entries of the log, for the rounds that count:
\* computed from the sets of captures and of observations alone, without the
\* order of messages.
JournalPoints(entries, counted) ==
    LET seen     == {m \in Range(entries) : m.round \in counted}
        captures == {m \in seen : m.type = "FlagSubmission" /\ m.flag.round \in counted}
        flags    == {m.flag : m \in captures}
        holders  == [f \in flags |-> {m.attacker : m \in {n \in captures : n.flag = f}}]
        started  == {m.round : m \in {n \in seen : n.type = "UpdateRound"}} \ {1}
        past     == {i \in started : \E j \in started : j > i}
        observed(t, i) == {m.state : m \in {n \in seen :
                              n.type = "ServiceState" /\ n.team = t /\ n.round = i}}
    IN  [t \in Teams |->
            SumFunction([f \in {g \in flags : t \in holders[g]} |->
                            Unit + Unit \div Cardinality(holders[f])])
          - SumFunction([f \in {g \in flags : g.team = t} |-> Loss[Cardinality(holders[f])]])
          + SumFunction([i \in past |-> Uptime(Max({Unknown} \cup observed(t, i)))])]

\* Finished, or the one being played: what is left of an abandoned round after
\* a restart does not count.
Counted == FinishedRows(rounds) \cup {roundId}

Submission == [type : {"FlagSubmission"}, attacker : Teams, flag : Flag, round : 1..MaxRows]

Observation == [type : {"ServiceState"}, team : Teams, round : 1..MaxRows, state : State]

Message == [type : {"UpdateRound"}, round : 1..MaxRows] \cup Submission \cup Observation

\* A score with points for the rounds R in its history.
Score(R) == [weight : [Flag -> SUBSET Teams], taken : [Teams -> SUBSET Flag],
             rounds : Seq(1..MaxRows), state : [Teams -> [1..MaxRows -> State]],
             history : [R -> [Teams -> Int]]]

\* Types of the variables (scoring.rs FaustCTF and Model, game.rs).
TypeOK ==
    /\ rounds \in Seq(Row) /\ Len(rounds) \in 1..MaxRows /\ roundId \in DOMAIN rounds
    /\ log \in Seq(Message)
    /\ loop \in {"play", "tell"}
    /\ relay \in {Ready} \cup [pc : {"append", "send"}, entry : Submission, at : Nat]
    /\ recording \subseteq Observation
    /\ mail \in Seq(Message) /\ Len(mail) <= MailCap
    /\ score \in Score(DOMAIN score.history) /\ DOMAIN score.history \subseteq DOMAIN rounds
    /\ raced \subseteq DOMAIN rounds /\ crashes \in 0..MaxCrashes

\* With nothing under way to the scorebot, its points are those of the journal,
\* however the senders overtook each other and whatever a restart has rebuilt
\* and dropped (scoring.rs FaustCTF, game.rs replay_scorebot).
PointsFollowJournal ==
    (loop = "play" /\ relay = Ready /\ recording = {} /\ mail = <<>>) =>
        View(score) = JournalPoints(log, Counted)

\* A flag counts for exactly the teams that share its weight: no team has a
\* flag that nobody holds, whose share would be 1/0 and make the sort of the
\* scoreboard compare what cannot be compared (scoring.rs:313, 279).
CapturesAreWeighed ==
    \A t \in Teams, f \in Flag : f \in score.taken[t] <=> t \in score.weight[f]

Before(i) == SubSeq(log, 1, (CHOOSE k \in DOMAIN log : log[k] = UpdateRound(i)) - 1)

\* The history shows for every round the points of what was journaled before it
\* started, so that a restart rebuilds the same history, unless an event was
\* between the journal and the channel as the round started (scoring.rs
\* UpdateRound, game.rs:434).
HistoryFollowsJournal ==
    \A i \in DOMAIN score.history \ raced :
        score.history[i] = JournalPoints(Before(i), Counted)

\* "The messages should also come in the same order as before" (scoring.rs:64-66):
\* the history is what a replay makes of it.
HistoryIsReplayed ==
    \A i \in DOMAIN score.history :
        score.history[i] = JournalPoints(Before(i), Counted)
=============================================================================
