--------------------------- MODULE FlagSubmission ---------------------------
(***************************************************************************)
(* A flag on its way from a team's connection to the score:                *)
(*   handle_tcp_connection/check_flag  (one task per connection)           *)
(*     -> flagbot channel -> Msg::handle      (flag_submission, history)   *)
(*     -> event channel   -> handle_flagbot_event (journal)                *)
(*     -> scorebot channel -> ScoreBot::run   (credited flags)             *)
(* while progress_game opens rounds, the 30s timeout cuts connections and  *)
(* the process crashes and replays its journal.                            *)
(*                                                                         *)
(* A secret is identified with its flag, a row's flags with their owners:  *)
(* one service with one slot, so a flag is a round and a team.  That a     *)
(* finished round has all its flags and that nothing is served during the  *)
(* replay is established in GameLoop; here a restart is one step.          *)
(***************************************************************************)
EXTENDS RoundJournal, FiniteSets, Functions, FiniteSetsExt

CONSTANTS
    Teams,
    Conns,          \* connections, of all the teams
    TeamOf,         \* the team whose address a connection comes from
    FlagLife,       \* config.flag_life()
    MailCap,        \* capacity of the mpsc channels (10 in the code)
    MaxRows,        \* bound: rows of the rounds table
    MaxSubmissions, \* bound: flags received
    MaxCrashes      \* bound: crashes of the process

ASSUME SubmissionAssumption ==
    /\ IsFiniteSet(Teams) /\ IsFiniteSet(Conns) /\ TeamOf \in [Conns -> Teams]
    /\ FlagLife \in Nat \ {0} /\ MailCap \in Nat \ {0}
    /\ MaxRows \in Nat \ {0} /\ MaxSubmissions \in Nat /\ MaxCrashes \in Nat

VARIABLES
    \* The database
    rounds,         \* table rounds
    journal,        \* FlagSubmissionJournal, in the order of the inserts
    \* progress_game
    roundId,        \* its current round
    unplanted,      \* flags of the round still to be handed out
    \* flagbot
    flagMail,       \* its channel
    fbRound,        \* Model.current_round
    known,          \* Model.secret_map and flag_map
    submitted,      \* Model.flag_submission: the pairs that map to true
    gained, lost,   \* Model.h_flag_gained, h_flag_lost: maps from team and round
    conn,           \* the connection tasks
    \* handle_flagbot_event
    events,         \* the flag event channel
    relay,          \* where the task stands
    \* scorebot
    scoreMail,      \* its channel, restricted to flag submissions
    credited,       \* flags credited, by attacker and flag
    \* bounds
    received, crashes

gameVars    == <<rounds, roundId, unplanted>>
flagbotVars == <<fbRound, known, submitted, gained, lost>>
relayVars   == <<journal, events, relay>>
scoreVars   == <<scoreMail, credited>>
bounds      == <<received, crashes>>
vars == <<gameVars, flagMail, flagbotVars, conn, relayVars, scoreVars, bounds>>

-----------------------------------------------------------------------------
(* Data *)

Flag == [round : 1..MaxRows, team : Teams]

\* What FlagEvent::SubmittedFlag, Msg::SubmittedFlag and a journal row carry:
\* the current round when the flag was accepted, the attacker, the flag.
Submission == [round : 1..MaxRows, attacker : Teams, flag : Flag]

\* The key of flag_submission and of the scorebot's set.
Pair(s) == <<s.attacker, s.flag>>

SubmittedFlag(s) == [type |-> "SubmittedFlag", submission |-> s]
UpdateRound(i)   == [type |-> "UpdateRound", round |-> i]
NewFlag(f)       == [type |-> "NewFlag", flag |-> f]

\* flagbot::Msg, restricted to what flags and rounds concern.
FlagbotMsg == [type : {"SubmittedFlag"}, submission : Submission]
              \cup [type : {"UpdateRound"}, round : 1..MaxRows]
              \cup [type : {"NewFlag"}, flag : Flag]

Idle == [pc |-> "ready"]
ConnState == {Idle} \cup [pc : {"readRound"}, flag : Flag]
             \cup [pc : {"readSubmission", "sendMsg", "sendEvent"},
                   flag : Flag, round : 1..MaxRows]

\* Mutant: the submissions of the abandoned rounds as well.
Replayed_AllRows == Range(journal)

\* The submissions the replay reads: those of finished rounds; and those of
\* them that take effect, because their flag is in the replayed flag_map.
Replayed == {s \in Range(journal) : rounds[s.round].finished}
Effective == {s \in Replayed : rounds[s.flag.round].finished}

\* A History: a map from some teams and rounds to numbers (history.rs).
IsHistory(h) == DOMAIN h \subseteq Teams \X (1..MaxRows) /\ h \in [DOMAIN h -> Nat]

\* History::insert of 0 for every team; round zero has no history.
OpenRound(h, i) ==
    IF IsRoundZero(rounds, i) THEN h
    ELSE [e \in DOMAIN h \cup (Teams \X {i}) |-> IF e[2] = i THEN 0 ELSE h[e]]

\* `if let Some(value)`: an entry that is not there is not counted.
Increase(h, t, i) ==
    IF <<t, i>> \in DOMAIN h THEN [h EXCEPT ![<<t, i>>] = @ + 1] ELSE h

\* What the replay books for a team in a round.
Gains(t, i)  == Cardinality({k \in DOMAIN journal : /\ journal[k] \in Effective
                                                    /\ journal[k].round = i
                                                    /\ journal[k].attacker = t})
Losses(t, i) == Cardinality({k \in DOMAIN journal : /\ journal[k] \in Effective
                                                    /\ journal[k].round = i
                                                    /\ journal[k].flag.team = t})

-----------------------------------------------------------------------------

Init ==
    /\ rounds = InitialRounds /\ journal = <<>>
    /\ roundId = 1 /\ unplanted = {}
    /\ flagMail = <<>> /\ fbRound = 1 /\ known = {} /\ submitted = {}
    /\ gained = <<>> /\ lost = <<>>
    /\ conn = [c \in Conns |-> Idle]
    /\ events = <<>> /\ relay = [pc |-> "recv"]
    /\ scoreMail = <<>> /\ credited = {}
    /\ received = 0 /\ crashes = 0

\* Mutant: the flags of the abandoned rounds as well.
StoredFlags_All == [round : DOMAIN rounds \ {1}, team : Teams]

\* FlagStore::all: the flags of the finished rounds only.
StoredFlags == [round : FinishedRows(rounds) \ {1}, team : Teams]

\* The replayed rounds that have a history.
ReplayedRounds == {i \in FinishedRows(rounds) : ~IsRoundZero(rounds, i)}

\* All tasks are gone; Game::new and Game::run rebuild their state from the
\* database.
Crash ==
    /\ crashes < MaxCrashes
    /\ crashes' = crashes + 1
    /\ roundId' = LastFinished(rounds) /\ unplanted' = {}
    /\ flagMail' = <<>> /\ fbRound' = LastFinished(rounds)
    /\ known' = StoredFlags
    /\ submitted' = {Pair(s) : s \in Replayed}
    /\ gained' = [e \in Teams \X ReplayedRounds |-> Gains(e[1], e[2])]
    /\ lost' = [e \in Teams \X ReplayedRounds |-> Losses(e[1], e[2])]
    /\ conn' = [c \in Conns |-> Idle]
    /\ events' = <<>> /\ relay' = [pc |-> "recv"]
    /\ scoreMail' = <<>>
    /\ credited' = {Pair(s) : s \in Effective}
    /\ UNCHANGED <<rounds, journal, received>>

\* Mutant: an unbounded channel.
Send_Unbounded(m) == flagMail' = Append(flagMail, m)

Send(m) == /\ Len(flagMail) < MailCap
           /\ flagMail' = Append(flagMail, m)

-----------------------------------------------------------------------------
(* progress_game, as far as the flagbot sees it *)

\* The round is over, by a pause or because the next one is due.
FinishRound ==
    /\ unplanted = {} /\ ~rounds[roundId].finished
    /\ rounds' = MarkFinished(rounds, roundId)
    /\ UNCHANGED <<roundId, unplanted, flagMail, flagbotVars, conn, relayVars, scoreVars, bounds>>

\* Mutant: the flagbot is not told.
StartRound_Silent ==
    /\ rounds[roundId].finished /\ Len(rounds) < MaxRows
    /\ rounds' = StartNewRound(rounds)
    /\ roundId' = Len(rounds) + 1
    /\ unplanted' = [round : {roundId'}, team : Teams]
    /\ UNCHANGED <<flagMail, flagbotVars, conn, relayVars, scoreVars, bounds>>

StartRound ==
    /\ rounds[roundId].finished /\ Len(rounds) < MaxRows
    /\ rounds' = StartNewRound(rounds)
    /\ roundId' = Len(rounds) + 1
    /\ Send(UpdateRound(roundId'))
    /\ unplanted' = [round : {roundId'}, team : Teams]
    /\ UNCHANGED <<flagbotVars, conn, relayVars, scoreVars, bounds>>

HandOut(f) ==
    /\ f \in unplanted
    /\ Send(NewFlag(f))
    /\ unplanted' = unplanted \ {f}
    /\ UNCHANGED <<rounds, roundId, flagbotVars, conn, relayVars, scoreVars, bounds>>

-----------------------------------------------------------------------------
(* A connection: handle_tcp_connection and check_flag *)

GoTo(c, state) == conn' = [conn EXCEPT ![c] = state]

\* A line arrives; the secret is found in secret_map and its flag in flag_map.
\* (A line that decodes to no known secret changes nothing here.)
Receive(c, f) ==
    /\ conn[c] = Idle /\ f \in known /\ received < MaxSubmissions
    /\ received' = received + 1
    /\ GoTo(c, [pc |-> "readRound", flag |-> f])
    /\ UNCHANGED <<gameVars, flagMail, flagbotVars, relayVars, scoreVars, crashes>>

Age(i, f) == rounds[i].number - rounds[f.round].number

\* Mutant: off by one.
Expired_Late(i, f) == Age(i, f) < 0 \/ Age(i, f) > FlagLife

\* flag_life check on numbers; the difference is an i64, and a negative one
\* becomes a huge usize.
Expired(i, f) == Age(i, f) < 0 \/ Age(i, f) >= FlagLife

\* Mutant: a team's own flags are not refused.
ReadRound_OwnFlags(c) ==
    LET f == conn[c].flag IN
    /\ conn[c].pc = "readRound"
    /\ GoTo(c, IF fbRound < f.round \/ Expired(fbRound, f)
               THEN Idle
               ELSE [pc |-> "readSubmission", flag |-> f, round |-> fbRound])
    /\ UNCHANGED <<gameVars, flagMail, flagbotVars, relayVars, scoreVars, bounds>>

\* current_round is read once and used for the rest of the check: own flag,
\* flag of a later round and expired flag are refused.
ReadRound(c) ==
    LET f == conn[c].flag IN
    /\ conn[c].pc = "readRound"
    /\ GoTo(c, IF f.team = TeamOf[c] \/ fbRound < f.round \/ Expired(fbRound, f)
               THEN Idle
               ELSE [pc |-> "readSubmission", flag |-> f, round |-> fbRound])
    /\ UNCHANGED <<gameVars, flagMail, flagbotVars, relayVars, scoreVars, bounds>>

\* A flag the team has submitted is answered as a duplicate.
ReadSubmission(c) ==
    /\ conn[c].pc = "readSubmission"
    /\ GoTo(c, IF <<TeamOf[c], conn[c].flag>> \in submitted
               THEN Idle
               ELSE [conn[c] EXCEPT !.pc = "sendMsg"])
    /\ UNCHANGED <<gameVars, flagMail, flagbotVars, relayVars, scoreVars, bounds>>

SubmissionOf(c) ==
    [round |-> conn[c].round, attacker |-> TeamOf[c], flag |-> conn[c].flag]

\* Mutant: the flagbot is not told.
SendMsg_Skipped(c) ==
    /\ conn[c].pc = "sendMsg"
    /\ GoTo(c, [conn[c] EXCEPT !.pc = "sendEvent"])
    /\ UNCHANGED <<gameVars, flagMail, flagbotVars, relayVars, scoreVars, bounds>>

\* Accepted: first the flagbot is told to mark the flag as submitted ...
SendMsg(c) ==
    /\ conn[c].pc = "sendMsg"
    /\ Send(SubmittedFlag(SubmissionOf(c)))
    /\ GoTo(c, [conn[c] EXCEPT !.pc = "sendEvent"])
    /\ UNCHANGED <<gameVars, flagbotVars, relayVars, scoreVars, bounds>>

\* ... then the game is notified.  Without a receiver the send fails, is
\* logged, and the flag is answered as accepted all the same.
SendEvent(c) ==
    /\ conn[c].pc = "sendEvent"
    /\ \/ /\ relay.pc # "dead" /\ Len(events) < MailCap
          /\ events' = Append(events, SubmissionOf(c))
       \/ relay.pc = "dead" /\ UNCHANGED events
    /\ GoTo(c, Idle)
    /\ UNCHANGED <<gameVars, flagMail, flagbotVars, journal, relay, scoreVars, bounds>>

\* The 30s timeout drops the task where it waits: for a lock or for room in a
\* channel.
Timeout(c) ==
    /\ \/ conn[c].pc \in {"readRound", "readSubmission"}
       \/ conn[c].pc = "sendMsg" /\ Len(flagMail) = MailCap
       \/ conn[c].pc = "sendEvent" /\ Len(events) = MailCap /\ relay.pc # "dead"
    /\ GoTo(c, Idle)
    /\ UNCHANGED <<gameVars, flagMail, flagbotVars, relayVars, scoreVars, bounds>>

-----------------------------------------------------------------------------
(* Msg::handle *)

Receives(type) ==
    /\ flagMail # <<>> /\ Head(flagMail).type = type
    /\ flagMail' = Tail(flagMail)
    /\ UNCHANGED <<gameVars, conn, relayVars, scoreVars, bounds>>

\* Mutant: no entry is made for the flags that are lost.
HandleUpdateRound_GainsOnly ==
    /\ Receives("UpdateRound")
    /\ fbRound' = Head(flagMail).round
    /\ gained' = OpenRound(gained, fbRound')
    /\ UNCHANGED <<known, submitted, lost>>

\* The new round's history starts at 0 for every team, in both maps.
HandleUpdateRound ==
    /\ Receives("UpdateRound")
    /\ fbRound' = Head(flagMail).round
    /\ gained' = OpenRound(gained, fbRound') /\ lost' = OpenRound(lost, fbRound')
    /\ UNCHANGED <<known, submitted>>

\* The three maps are updated together, under their three write locks.
HandleNewFlag ==
    /\ Receives("NewFlag")
    /\ LET f == Head(flagMail).flag IN
        /\ known' = known \cup {f}
        /\ submitted' = submitted \ (Teams \X {f})
    /\ UNCHANGED <<fbRound, gained, lost>>

\* Mutant: counted in the flagbot's current round.
HandleSubmittedFlag_CurrentRound ==
    /\ Receives("SubmittedFlag")
    /\ LET s == Head(flagMail).submission IN
        /\ submitted' = submitted \cup {Pair(s)}
        /\ IF s.flag \in known
           THEN /\ gained' = Increase(gained, s.attacker, fbRound)
                /\ lost' = Increase(lost, s.flag.team, fbRound)
           ELSE UNCHANGED <<gained, lost>>
    /\ UNCHANGED <<fbRound, known>>

\* Marked in any case; counted only if the flag is in flag_map, and then in
\* each of the two histories only if it has the entry.
HandleSubmittedFlag ==
    /\ Receives("SubmittedFlag")
    /\ LET s == Head(flagMail).submission IN
        /\ submitted' = submitted \cup {Pair(s)}
        /\ IF s.flag \in known
           THEN /\ gained' = Increase(gained, s.attacker, s.round)
                /\ lost' = Increase(lost, s.flag.team, s.round)
           ELSE UNCHANGED <<gained, lost>>
    /\ UNCHANGED <<fbRound, known>>

-----------------------------------------------------------------------------
(* handle_flagbot_event and the scorebot *)

\* Journal the submission.
JournalEvent ==
    /\ relay.pc = "recv" /\ events # <<>>
    /\ events' = Tail(events)
    /\ journal' = Append(journal, Head(events))
    /\ relay' = [pc |-> "notify", pair |-> Pair(Head(events))]
    /\ UNCHANGED <<gameVars, flagMail, flagbotVars, conn, scoreVars, bounds>>

\* FlagStore::get or append returns Err: `?` ends the task, the receiver is
\* dropped and with it all that waits in the channel.
RelayFails ==
    /\ relay.pc = "recv" /\ events # <<>>
    /\ events' = <<>>
    /\ relay' = [pc |-> "dead"]
    /\ UNCHANGED <<gameVars, flagMail, flagbotVars, conn, journal, scoreVars, bounds>>

\* Mutant: try_send, which drops the message when the channel is full.
NotifyScorebot_TrySend ==
    /\ relay.pc = "notify"
    /\ scoreMail' = IF Len(scoreMail) < MailCap THEN Append(scoreMail, relay.pair) ELSE scoreMail
    /\ relay' = [pc |-> "recv"]
    /\ UNCHANGED <<gameVars, flagMail, flagbotVars, conn, journal, events, credited, bounds>>

NotifyScorebot ==
    /\ relay.pc = "notify" /\ Len(scoreMail) < MailCap
    /\ scoreMail' = Append(scoreMail, relay.pair)
    /\ relay' = [pc |-> "recv"]
    /\ UNCHANGED <<gameVars, flagMail, flagbotVars, conn, journal, events, credited, bounds>>

\* on_flag_submission inserts into a set: a second submission credits nothing.
Credit ==
    /\ scoreMail # <<>>
    /\ scoreMail' = Tail(scoreMail)
    /\ credited' = credited \cup {Head(scoreMail)}
    /\ UNCHANGED <<gameVars, flagMail, flagbotVars, conn, relayVars, bounds>>

-----------------------------------------------------------------------------

Game == FinishRound \/ StartRound \/ \E f \in unplanted : HandOut(f)

Connection(c) ==
    ReadRound(c) \/ ReadSubmission(c) \/ SendMsg(c) \/ SendEvent(c)

Handle == HandleUpdateRound \/ HandleNewFlag \/ HandleSubmittedFlag

Next == \/ Game \/ Handle \/ JournalEvent \/ RelayFails \/ NotifyScorebot \/ Credit \/ Crash
        \/ \E c \in Conns : Connection(c) \/ Timeout(c) \/ \E f \in known : Receive(c, f)

Spec == Init /\ [][Next]_vars

\* Tasks that can go on do; rounds, teams, errors and crashes promise nothing.
Fairness == /\ \A c \in Conns : WF_vars(Connection(c))
            /\ WF_vars(Handle) /\ WF_vars(NotifyScorebot) /\ WF_vars(Credit)
            /\ WF_vars(JournalEvent)

FairSpec == Spec /\ Fairness
-----------------------------------------------------------------------------
(* Properties *)

\* Types of the variables (flagbot.rs Model, game.rs, db.rs journals).
TypeOK ==
    /\ rounds \in Seq(Row) /\ Len(rounds) \in 1..MaxRows
    /\ journal \in Seq(Submission)
    /\ roundId \in DOMAIN rounds /\ unplanted \subseteq Flag
    /\ fbRound \in DOMAIN rounds /\ known \subseteq Flag
    /\ submitted \subseteq Teams \X Flag
    /\ IsHistory(gained) /\ IsHistory(lost)
    /\ conn \in [Conns -> ConnState]
    /\ events \in Seq(Submission) /\ Len(events) <= MailCap
    /\ flagMail \in Seq(FlagbotMsg) /\ Len(flagMail) <= MailCap
    /\ relay \in [pc : {"recv", "dead"}] \cup [pc : {"notify"}, pair : Teams \X Flag]
    /\ scoreMail \in Seq(Teams \X Flag) /\ credited \subseteq Teams \X Flag
    /\ received \in 0..MaxSubmissions /\ crashes \in 0..MaxCrashes

\* Submissions at any stage between check_flag and the journal.
InFlight ==
    {SubmissionOf(c) : c \in {d \in Conns : conn[d].pc \in {"sendMsg", "sendEvent"}}}
    \cup Range(events) \cup Range(journal)

\* Whatever is accepted is another team's flag that was alive in the round it
\* is recorded under, although that round was read before the submission was
\* looked up and queued: its age is between 0 and flag_life - 1
\* (flagbot.rs check_flag).
AcceptedFlagsAreAlive ==
    \A s \in InFlight :
        /\ s.attacker # s.flag.team
        /\ s.flag.round <= s.round
        /\ Age(s.round, s.flag) \in 0..(FlagLife - 1)

\* check_flag never meets a known flag that is newer than current_round: "This
\* is an invalid state", which would underflow the age (flagbot.rs:549-552).
InvalidStateUnreachable ==
    \A c \in Conns : conn[c].pc = "readRound" =>
        /\ conn[c].flag.round <= fbRound
        /\ rounds[conn[c].flag.round].number <= rounds[fbRound].number

\* What a history holds for a round, over all teams.
Total(h, i) == SumFunctionOnSet(h, {e \in DOMAIN h : e[2] = i})

\* In every round the flags gained over all teams equal the flags lost, live
\* and after a restart: the two lookups of a submission, for the attacker's
\* entry and for the victim's, find both or none (flagbot.rs:233, 248).
GainedEqualsLost == \A i \in 1..MaxRows : Total(gained, i) = Total(lost, i)

\* The messages SubmittedFlag that wait in the flagbot's channel.
Waiting == {k \in DOMAIN flagMail : flagMail[k].type = "SubmittedFlag"}

\* A history has counted, or will when the waiting messages in W are handled,
\* at least the journal entries in J for team t in round i.
Covers(h, t, i, J, W) ==
    Cardinality(J) <= (IF <<t, i>> \in DOMAIN h THEN h[<<t, i>>] ELSE 0) + Cardinality(W)

\* What is journaled in a round that counts is counted in the history of that
\* round, for the attacker and for the victim, or the message that does it is
\* on its way: the message precedes the event, the entries of a round are
\* made before a submission of the round can arrive, its flag stays in
\* flag_map, and a restart counts what it replays (flagbot.rs:149-266,
\* check_flag; game.rs handle_flagbot_event).
JournalIsBooked ==
    \A t \in Teams, i \in FinishedRows(rounds) \cup {roundId} :
        /\ Covers(gained, t, i,
                  {k \in DOMAIN journal : journal[k].round = i /\ journal[k].attacker = t},
                  {k \in Waiting : LET s == flagMail[k].submission IN
                                       s.round = i /\ s.attacker = t})
        /\ Covers(lost, t, i,
                  {k \in DOMAIN journal : journal[k].round = i /\ journal[k].flag.team = t},
                  {k \in Waiting : LET s == flagMail[k].submission IN
                                       s.round = i /\ s.flag.team = t})

\* A journaled submission of a finished round is about a flag of a finished
\* round: the replay and dump.rs ("Invalid FlagId specified") look it up among
\* those only.
JournalRefersToStoredFlags ==
    \A s \in Range(journal) :
        rounds[s.round].finished => rounds[s.flag.round].finished

\* Journaled in a round that counts: finished, or the one being played.
Counted == {s \in Range(journal) : rounds[s.round].finished \/ s.round = roundId}

\* With nothing between the relay and the scorebot, exactly the pairs of the
\* journal are credited: none lost, none invented, also after a restart.
ScoreMatchesJournal ==
    (relay.pc # "notify" /\ scoreMail = <<>>) => credited = {Pair(s) : s \in Counted}

\* A credited pair is marked in flag_submission, or the message that marks it
\* is on its way: the flag cannot be credited and stay open for resubmission
\* (check_flag sends Msg::SubmittedFlag before the event).
CreditedIsMarked ==
    \A p \in credited :
        \/ p \in submitted
        \/ \E k \in DOMAIN flagMail :
              flagMail[k].type = "SubmittedFlag" /\ Pair(flagMail[k].submission) = p

\* An event that reached the relay is credited, unless the relay died on a
\* database error or the process crashed.
EventIsCredited ==
    \A a \in Range(TeamOf) : \A f \in {g \in Flag : g.round # 1 /\ g.team # a} :
        (\E k \in DOMAIN events : Pair(events[k]) = <<a, f>>) ~>
            (<<a, f>> \in credited \/ relay.pc = "dead" \/ crashes > 0)

\* The journal implements the abstract promise: settled pairs are those of
\* finished rounds, open ones those of the round being played.
Settled == {Pair(s) : s \in {u \in Range(journal) : rounds[u.round].finished}}
Promise == INSTANCE SubmissionCredit WITH
    Pairs <- {p \in Teams \X Flag : p[1] # p[2].team},
    settled <- Settled,
    open <- {Pair(s) : s \in Counted} \ Settled
ImplementsCredit == Promise!Spec

\* game.rs:191 ("ensure that we don't accept duplicate submissions"): the
\* journal holds no pair twice as long as the process runs.
NoDuplicateSubmissions ==
    crashes = 0 => \A j, k \in DOMAIN journal : Pair(journal[j]) = Pair(journal[k]) => j = k

\* flagbot.rs:106 ("Notify others that an attacker has submitted a flag and the
\* flag has been validated"): with nothing in flight, what is marked as
\* submitted has been journaled.
MarkedIsJournaled ==
    (/\ flagMail = <<>> /\ events = <<>> /\ relay.pc # "dead"
     /\ \A c \in Conns : conn[c] = Idle)
    => submitted \subseteq {Pair(s) : s \in Range(journal)}
=============================================================================
