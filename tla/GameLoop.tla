------------------------------ MODULE GameLoop ------------------------------
(***************************************************************************)
(* The tasks of game.rs that drive a game, with the bots they feed:        *)
(*   - progress_game, which opens one round after another, seeds it and    *)
(*     hands its flags out, and which parks while the game is paused;      *)
(*   - handle, the task that executes the admin's Start and Pause;         *)
(*   - Game::run, which replays the journals into the bots at start-up;    *)
(*   - the flagbot's Msg::handle and the scorebot's run, as far as rounds, *)
(*     flags and Start/Pause concern them.                                 *)
(* The process may crash between any two steps: the database survives, all *)
(* the rest is rebuilt by the replay.                                      *)
(***************************************************************************)
EXTENDS RoundJournal, FiniteSets

CONSTANTS
    Teams,          \* team ids
    Services,       \* service ids
    Slots,          \* flag slots of all the services
    SlotService,    \* the service a slot belongs to
    TotalRound,     \* config.total_round()
    MailCap,        \* capacity of the bots' mpsc channels (10 in the code)
    MaxRows,        \* bound: rows the rounds table may reach
    MaxCommands,    \* bound: admin commands
    MaxCrashes      \* bound: crashes of the process

ASSUME ConstantsAssumption ==
    /\ SlotService \in [Slots -> Services]
    /\ TotalRound \in Nat
    /\ MailCap \in Nat \ {0}
    /\ MaxRows \in Nat /\ MaxCommands \in Nat /\ MaxCrashes \in Nat

VARIABLES
    \* The database: all that survives a crash.
    rounds,         \* table rounds
    seeded,         \* Initial entries of the service state journal
    flagStore,      \* table flags
    \* progress_game and the shared Model
    pc,             \* where progress_game (before it: Game::run) stands
    shouldRun,      \* Model.should_run
    roundId,        \* progress_game's local round_id
    stoppedOnce,    \* progress_game's local stopped_once
    unseeded,       \* (team, service) pairs the for loops have not reached
    unplanted,      \* (team, slot) pairs left of the current pair
    \* handle
    admin,          \* where the admin command handler stands
    \* replay
    script,         \* what Game::run has still to replay
    \* flagbot
    flagMail,       \* flagbot's channel
    running,        \* flagbot Model.running
    fbRound,        \* flagbot Model.current_round
    known,          \* flagbot Model.flag_map and secret_map
    awake,          \* notify_waiters was called: FlagBot::run can be serving
    \* scorebot
    scoreMail,      \* scorebot's channel
    hScore,         \* rounds recorded in scoring Model.h_score, in order
    \* bounds
    commands, crashes

db       == <<rounds, seeded, flagStore>>
loopVars == <<pc, roundId, stoppedOnce, unseeded, unplanted>>
gameVars == <<shouldRun, admin, script>>
flagbot  == <<running, fbRound, known, awake>>
vars == <<db, loopVars, gameVars, flagMail, flagbot, scoreMail, hScore,
          commands, crashes>>

-----------------------------------------------------------------------------
(* Data *)

\* Flags, journal entries and messages refer to rows of the table.
Flag == [round : DOMAIN rounds, team : Teams, slot : Slots]
Seed == [round : DOMAIN rounds, team : Teams, service : Services]

\* flagbot::Msg, restricted to what the game sends it.
FlagMsg == [type : {"NewFlag"}, flag : Flag]
           \cup [type : {"UpdateRound"}, round : DOMAIN rounds]
           \cup [type : {"Start", "Pause"}]

NewFlag(f)     == [type |-> "NewFlag", flag |-> f]
UpdateRound(i) == [type |-> "UpdateRound", round |-> i]
Start          == [type |-> "Start"]
Pause          == [type |-> "Pause"]

PCs == {"replay", "nap", "decide", "pausing", "marking", "parked", "create",
        "tellScore", "tellFlags", "seed", "sleep", "dead"}

\* Mutant: the flags of the abandoned rounds as well.
StoredFlags_All == flagStore

\* FlagStore::all: the flags of the finished rounds only.
StoredFlags == {f \in flagStore : rounds[f.round].finished}

\* Mutant: replay the abandoned rounds to the scorebot.
Script_AllScores(rs, flags) ==
    [flags |-> flags, rounds |-> FinishedRows(rs), scores |-> DOMAIN rs]

\* What Game::run replays: all the flags (a HashMap, in any order), then the
\* rounds, to the flagbot; then the rounds to the scorebot.
Script(rs, flags) ==
    [flags |-> flags, rounds |-> FinishedRows(rs), scores |-> FinishedRows(rs)]

-----------------------------------------------------------------------------
(* Start of the process: Game::new and Game::run up to the replay *)

\* Mutant: resume the newest row, finished or not.
ResumedRound_Newest == CurrentRow(rounds)

\* "We can ignore any unfinished round."
ResumedRound == LastFinished(rounds)

Boot ==
    /\ pc' = "replay"
    /\ shouldRun' = FALSE
    /\ roundId' = ResumedRound
    /\ stoppedOnce' = FALSE
    /\ unseeded' = {} /\ unplanted' = {}
    /\ admin' = "idle"
    /\ script' = Script(rounds, StoredFlags)
    /\ flagMail' = <<>> /\ scoreMail' = <<>> /\ hScore' = <<>>
    /\ running' = TRUE
    /\ fbRound' = ResumedRound
    /\ known' = {}
    /\ awake' = FALSE

Init ==
    /\ rounds = InitialRounds /\ seeded = {} /\ flagStore = {}
    /\ pc = "replay" /\ shouldRun = FALSE
    /\ roundId = 1 /\ stoppedOnce = FALSE
    /\ unseeded = {} /\ unplanted = {}
    /\ admin = "idle"
    /\ script = Script(InitialRounds, {})
    /\ flagMail = <<>> /\ scoreMail = <<>> /\ hScore = <<>>
    /\ running = TRUE /\ fbRound = 1 /\ known = {} /\ awake = FALSE
    /\ commands = 0 /\ crashes = 0

Crash ==
    /\ crashes < MaxCrashes
    /\ crashes' = crashes + 1
    /\ Boot
    /\ UNCHANGED <<db, commands>>

\* Mutant: an unbounded channel.
SendFlagbot_Unbounded(m) == flagMail' = Append(flagMail, m)

\* Comm::flagbot and Comm::scorebot: send waits while the channel is full.
SendFlagbot(m) ==
    /\ Len(flagMail) < MailCap
    /\ flagMail' = Append(flagMail, m)

SendScorebot(i) ==
    /\ Len(scoreMail) < MailCap
    /\ scoreMail' = Append(scoreMail, i)

ReplayFlag(f) ==
    /\ pc = "replay" /\ f \in script.flags
    /\ SendFlagbot(NewFlag(f))
    /\ script' = [script EXCEPT !.flags = @ \ {f}]
    /\ UNCHANGED <<db, loopVars, shouldRun, admin, flagbot, scoreMail, hScore,
                   commands, crashes>>

ReplayRound ==
    /\ pc = "replay" /\ script.flags = {} /\ script.rounds # {}
    /\ LET i == FirstRow(script.rounds) IN
        /\ SendFlagbot(UpdateRound(i))
        /\ script' = [script EXCEPT !.rounds = @ \ {i}]
    /\ UNCHANGED <<db, loopVars, shouldRun, admin, flagbot, scoreMail, hScore,
                   commands, crashes>>

ReplayScore ==
    /\ pc = "replay" /\ script.flags = {} /\ script.rounds = {} /\ script.scores # {}
    /\ LET i == FirstRow(script.scores) IN
        /\ SendScorebot(i)
        /\ script' = [script EXCEPT !.scores = @ \ {i}]
    /\ UNCHANGED <<db, loopVars, shouldRun, admin, flagMail, flagbot, hScore,
                   commands, crashes>>

\* Mutant: the game is spawned while the replay is still going on.
SpawnGame_Early ==
    /\ pc = "replay"
    /\ pc' = "nap"
    /\ UNCHANGED <<db, roundId, stoppedOnce, unseeded, unplanted, gameVars, flagMail,
                   flagbot, scoreMail, hScore, commands, crashes>>

\* The replay is over: progress_game and the admin API are spawned.
SpawnGame ==
    /\ pc = "replay" /\ script = [flags |-> {}, rounds |-> {}, scores |-> {}]
    /\ pc' = "nap"
    /\ UNCHANGED <<db, roundId, stoppedOnce, unseeded, unplanted, gameVars, flagMail,
                   flagbot, scoreMail, hScore, commands, crashes>>

-----------------------------------------------------------------------------
(* progress_game *)

\* Mutant: only a running game is noticed.
Check_Naps ==
    /\ pc = "nap"
    /\ pc' = IF shouldRun THEN "decide" ELSE "nap"
    /\ UNCHANGED <<db, roundId, stoppedOnce, unseeded, unplanted, gameVars, flagMail,
                   flagbot, scoreMail, hScore, commands, crashes>>

\* Sleep 100ms, then look at should_run.
Check ==
    /\ pc = "nap"
    /\ pc' = IF shouldRun THEN "decide" ELSE "pausing"
    /\ UNCHANGED <<db, roundId, stoppedOnce, unseeded, unplanted, gameVars, flagMail,
                   flagbot, scoreMail, hScore, commands, crashes>>

\* Stop the flagbot: this is the end of a round.
AnnouncePause ==
    /\ pc = "pausing"
    /\ SendFlagbot(Pause)
    /\ pc' = "marking"
    /\ UNCHANGED <<db, roundId, stoppedOnce, unseeded, unplanted, gameVars, flagbot,
                   scoreMail, hScore, commands, crashes>>

\* mark_round_as_finished, then notify.notified().await: only from here on
\* does a notify_waiters reach the loop.
FinishAndPark ==
    /\ pc = "marking"
    /\ rounds' = MarkFinished(rounds, roundId)
    /\ pc' = "parked"
    /\ UNCHANGED <<seeded, flagStore, roundId, stoppedOnce, unseeded, unplanted, gameVars,
                   flagMail, flagbot, scoreMail, hScore, commands, crashes>>

\* Mutant: count the rows of the table instead of the rounds.
FinalRound_ById == roundId - 1 = TotalRound /\ ~stoppedOnce

\* total_round is reached, and the loop has not stopped for it yet.
FinalRound == rounds[roundId].number = TotalRound /\ ~stoppedOnce

\* The final round is over: stop, once in the life of the process.
StopAtTotal ==
    /\ pc = "decide" /\ FinalRound
    /\ shouldRun' = FALSE
    /\ stoppedOnce' = TRUE
    /\ pc' = "nap"
    /\ UNCHANGED <<db, roundId, unseeded, unplanted, admin, script, flagMail, flagbot,
                   scoreMail, hScore, commands, crashes>>

\* Mutant: the new round is opened before the old one is marked.
FinishRound_Unmarked ==
    /\ pc = "decide" /\ ~FinalRound
    /\ Len(rounds) < MaxRows
    /\ pc' = "create"
    /\ UNCHANGED <<db, roundId, stoppedOnce, unseeded, unplanted, gameVars,
                   flagMail, flagbot, scoreMail, hScore, commands, crashes>>

FinishRound ==
    /\ pc = "decide" /\ ~FinalRound
    /\ Len(rounds) < MaxRows
    /\ rounds' = MarkFinished(rounds, roundId)
    /\ pc' = "create"
    /\ UNCHANGED <<seeded, flagStore, roundId, stoppedOnce, unseeded, unplanted, gameVars,
                   flagMail, flagbot, scoreMail, hScore, commands, crashes>>

CreateRound ==
    /\ pc = "create"
    /\ rounds' = StartNewRound(rounds)
    /\ roundId' = Len(rounds) + 1
    /\ pc' = "tellScore"
    /\ UNCHANGED <<seeded, flagStore, stoppedOnce, unseeded, unplanted, gameVars,
                   flagMail, flagbot, scoreMail, hScore, commands, crashes>>

TellScorebot ==
    /\ pc = "tellScore"
    /\ SendScorebot(roundId)
    /\ pc' = "tellFlags"
    /\ UNCHANGED <<db, roundId, stoppedOnce, unseeded, unplanted, gameVars, flagMail,
                   flagbot, hScore, commands, crashes>>

TellFlagbot ==
    /\ pc = "tellFlags"
    /\ SendFlagbot(UpdateRound(roundId))
    /\ pc' = "seed"
    /\ unseeded' = Teams \X Services
    /\ UNCHANGED <<db, roundId, stoppedOnce, unplanted, gameVars, flagbot, scoreMail,
                   hScore, commands, crashes>>

\* Journal the Initial state of one service of one team.
SeedState(t, sv) ==
    /\ pc = "seed" /\ unplanted = {} /\ <<t, sv>> \in unseeded
    /\ seeded' = seeded \cup {[round |-> roundId, team |-> t, service |-> sv]}
    /\ unseeded' = unseeded \ {<<t, sv>>}
    /\ unplanted' = {t} \X {s \in Slots : SlotService[s] = sv}
    /\ UNCHANGED <<rounds, flagStore, pc, roundId, stoppedOnce, gameVars, flagMail,
                   flagbot, scoreMail, hScore, commands, crashes>>

FlagOf(p) == [round |-> roundId, team |-> p[1], slot |-> p[2]]

\* The pair whose flag is stored and not yet handed to the flagbot.
Stored == {p \in unplanted : FlagOf(p) \in flagStore}

\* Store a new flag and ask the checkerbot to plant it ...
StoreFlag(p) ==
    /\ pc = "seed" /\ p \in unplanted /\ Stored = {}
    /\ flagStore' = flagStore \cup {FlagOf(p)}
    /\ UNCHANGED <<rounds, seeded, loopVars, gameVars, flagMail, flagbot, scoreMail, hScore,
                   commands, crashes>>

\* ... then tell the flagbot.
HandOutFlag(p) ==
    /\ pc = "seed" /\ p \in Stored
    /\ SendFlagbot(NewFlag(FlagOf(p)))
    /\ unplanted' = unplanted \ {p}
    /\ UNCHANGED <<db, pc, roundId, stoppedOnce, unseeded, gameVars, flagbot,
                   scoreMail, hScore, commands, crashes>>

\* The round is set up: spawn its checks and sleep for what is left of it.
SleepRound ==
    /\ pc = "seed" /\ unseeded = {} /\ unplanted = {}
    /\ pc' = "sleep"
    /\ UNCHANGED <<db, roundId, stoppedOnce, unseeded, unplanted, gameVars, flagMail,
                   flagbot, scoreMail, hScore, commands, crashes>>

EndOfRound ==
    /\ pc = "sleep"
    /\ pc' = "nap"
    /\ UNCHANGED <<db, roundId, stoppedOnce, unseeded, unplanted, gameVars, flagMail,
                   flagbot, scoreMail, hScore, commands, crashes>>

\* A database call returns Err and `?` ends progress_game; handle_task logs
\* it and the other tasks go on.
LoopFails ==
    /\ pc \in {"marking", "decide", "create", "seed"} /\ Stored = {}
    /\ pc' = "dead"
    /\ UNCHANGED <<db, roundId, stoppedOnce, unseeded, unplanted, gameVars, flagMail,
                   flagbot, scoreMail, hScore, commands, crashes>>

-----------------------------------------------------------------------------
(* handle: the admin's commands, one at a time *)

ReceivePause ==
    /\ admin = "idle" /\ pc # "replay" /\ commands < MaxCommands
    /\ commands' = commands + 1
    /\ shouldRun' = FALSE
    /\ admin' = "notifying"
    /\ UNCHANGED <<db, loopVars, script, flagMail, flagbot, scoreMail, hScore, crashes>>

ReceiveStart ==
    /\ admin = "idle" /\ pc # "replay" /\ commands < MaxCommands
    /\ commands' = commands + 1
    /\ shouldRun' = TRUE
    /\ admin' = "starting"
    /\ UNCHANGED <<db, loopVars, script, flagMail, flagbot, scoreMail, hScore, crashes>>

\* Mutant: the loop is not notified of a Start.
ForwardStart_Silent ==
    /\ admin = "starting"
    /\ SendFlagbot(Start)
    /\ admin' = "idle"
    /\ UNCHANGED <<db, loopVars, shouldRun, script, flagbot, scoreMail, hScore,
                   commands, crashes>>

ForwardStart ==
    /\ admin = "starting"
    /\ SendFlagbot(Start)
    /\ admin' = "notifying"
    /\ UNCHANGED <<db, loopVars, shouldRun, script, flagbot, scoreMail, hScore,
                   commands, crashes>>

\* notify_waiters keeps no permit: it wakes the loop only if it is parked.
NotifyLoop ==
    /\ admin = "notifying"
    /\ admin' = "idle"
    /\ pc' = IF pc = "parked" THEN "nap" ELSE pc
    /\ UNCHANGED <<db, roundId, stoppedOnce, unseeded, unplanted, shouldRun, script,
                   flagMail, flagbot, scoreMail, hScore, commands, crashes>>

-----------------------------------------------------------------------------
(* The bots *)

ReceiveFlagMsg(type) ==
    /\ flagMail # <<>> /\ Head(flagMail).type = type
    /\ flagMail' = Tail(flagMail)
    /\ UNCHANGED <<db, loopVars, gameVars, scoreMail, hScore, commands, crashes>>

FlagbotUpdateRound ==
    /\ ReceiveFlagMsg("UpdateRound")
    /\ fbRound' = Head(flagMail).round
    /\ UNCHANGED <<running, known, awake>>

FlagbotNewFlag ==
    /\ ReceiveFlagMsg("NewFlag")
    /\ known' = known \cup {Head(flagMail).flag}
    /\ UNCHANGED <<running, fbRound, awake>>

FlagbotStart ==
    /\ ReceiveFlagMsg("Start")
    /\ running' = TRUE /\ awake' = TRUE
    /\ UNCHANGED <<fbRound, known>>

FlagbotPause ==
    /\ ReceiveFlagMsg("Pause")
    /\ running' = FALSE /\ awake' = TRUE
    /\ UNCHANGED <<fbRound, known>>

\* Before a round starts the score so far is recorded as the round's entry of
\* the history; round 0 is skipped.
ScorebotUpdateRound ==
    /\ scoreMail # <<>>
    /\ scoreMail' = Tail(scoreMail)
    /\ hScore' = IF IsRoundZero(rounds, Head(scoreMail)) THEN hScore
                 ELSE Append(hScore, Head(scoreMail))
    /\ UNCHANGED <<db, loopVars, gameVars, flagMail, flagbot, commands, crashes>>

-----------------------------------------------------------------------------

Replay == (\E f \in script.flags : ReplayFlag(f)) \/ ReplayRound \/ ReplayScore \/ SpawnGame

ProgressGame ==
    \/ Check \/ AnnouncePause \/ FinishAndPark
    \/ StopAtTotal \/ FinishRound \/ CreateRound \/ TellScorebot \/ TellFlagbot
    \/ \E t \in Teams, sv \in Services : SeedState(t, sv)
    \/ \E p \in unplanted : StoreFlag(p) \/ HandOutFlag(p)
    \/ SleepRound \/ EndOfRound

Handle == ForwardStart \/ NotifyLoop

Command == ReceivePause \/ ReceiveStart

FlagbotHandle == FlagbotUpdateRound \/ FlagbotNewFlag \/ FlagbotStart \/ FlagbotPause

Next == \/ Replay \/ ProgressGame \/ LoopFails \/ Handle \/ Command
        \/ FlagbotHandle \/ ScorebotUpdateRound \/ Crash

Spec == Init /\ [][Next]_vars

\* Every task of the runtime that can run eventually runs; nobody promises
\* commands, failures or crashes.
Fairness == /\ WF_vars(Replay) /\ WF_vars(ProgressGame) /\ WF_vars(Handle)
            /\ WF_vars(FlagbotHandle) /\ WF_vars(ScorebotUpdateRound)

FairSpec == Spec /\ Fairness

-----------------------------------------------------------------------------
(* Properties *)

\* Types of all the variables: the tables' ids and the bots' copies of them
\* stay within the rows that exist (db.rs, game.rs, flagbot.rs Model).
TypeOK ==
    /\ rounds \in Seq(Row) /\ rounds # <<>>
    /\ seeded \subseteq Seed /\ flagStore \subseteq Flag
    /\ pc \in PCs /\ shouldRun \in BOOLEAN
    /\ roundId \in DOMAIN rounds /\ stoppedOnce \in BOOLEAN
    /\ unseeded \subseteq Teams \X Services
    /\ unplanted \subseteq Teams \X Slots
    /\ admin \in {"idle", "starting", "notifying"}
    /\ script \in [flags : SUBSET Flag, rounds : SUBSET DOMAIN rounds,
                   scores : SUBSET DOMAIN rounds]
    /\ flagMail \in Seq(FlagMsg) /\ Len(flagMail) <= MailCap
    /\ running \in BOOLEAN /\ fbRound \in DOMAIN rounds
    /\ known \subseteq Flag /\ awake \in BOOLEAN
    /\ scoreMail \in Seq(DOMAIN rounds) /\ hScore \in Seq(DOMAIN rounds)
    /\ commands \in 0..MaxCommands /\ crashes \in 0..MaxCrashes

\* Finished rounds are numbered 0, 1, 2, ... in the order of their ids, with
\* no gap and no number twice, however often the process crashed or was
\* paused: start_new_round continues after the last finished round and every
\* round's age is a difference of such numbers (db.rs start_new_round).
FinishedNumbersContiguous ==
    \A i \in FinishedRows(rounds) :
        /\ \A j \in FinishedRows(rounds) : i < j => rounds[i].number < rounds[j].number
        /\ rounds[i].number # 0 =>
              \E j \in FinishedRows(rounds) : rounds[j].number = rounds[i].number - 1

\* Everything the for loops of progress_game journal for round i is there.
Complete(i) ==
    /\ \A t \in Teams, sv \in Services :
          [round |-> i, team |-> t, service |-> sv] \in seeded
    /\ \A t \in Teams, s \in Slots :
          [round |-> i, team |-> t, slot |-> s] \in flagStore

\* A finished round was set up completely: each service of each team has its
\* Initial state and each slot its flag.  dump.rs unwraps exactly that
\* ("No ServiceState found"), and a round is marked finished from two places.
FinishedRoundsComplete == \A i \in FinishedRows(rounds) \ {1} : Complete(i)

\* The loop's round is the newest row that is finished or will be; while it is
\* unfinished it carries the number after the last finished one.
NewestRound ==
    /\ 1 \in FinishedRows(rounds)
    /\ \A j \in FinishedRows(rounds) : j <= roundId
    /\ ~rounds[roundId].finished =>
          \E l \in FinishedRows(rounds) :
              /\ \A j \in FinishedRows(rounds) : j <= l
              /\ rounds[roundId].number = rounds[l].number + 1
    /\ pc = "create" => rounds[roundId].finished

\* While a round is seeded every pair is journaled or still to do; wherever
\* the loop may go on to mark it finished it is complete.
SeedingProgress ==
    /\ pc \in {"replay", "nap", "decide", "pausing", "marking", "sleep", "parked"} =>
          roundId = 1 \/ Complete(roundId)
    /\ pc = "seed" =>
          /\ \A t \in Teams, sv \in Services :
                <<t, sv>> \in unseeded
                \/ [round |-> roundId, team |-> t, service |-> sv] \in seeded
          /\ \A t \in Teams, s \in Slots :
                \/ <<t, SlotService[s]>> \in unseeded
                \/ <<t, s>> \in unplanted
                \/ [round |-> roundId, team |-> t, slot |-> s] \in flagStore

\* What progress_game maintains from one await to the next.
LoopInv == NewestRound /\ SeedingProgress

\* A round that a crash abandoned is never finished afterwards, by whichever
\* process: when Game::run starts, a row that is not finished stays so for
\* ever.  Its number is given to a new row and it must not appear in the
\* history twice (game.rs Game::new "We can ignore any unfinished round").
AbandonedStayUnfinished ==
    \A i \in 1..MaxRows :
        [](   pc = "replay" /\ i \in DOMAIN rounds /\ ~rounds[i].finished
           => [](i \in DOMAIN rounds /\ ~rounds[i].finished))

\* Once FlagBot::run can be serving connections the flagbot knows all the
\* flags of the finished rounds, and no flag of a round that is newer than its
\* own current_round: check_flag's InvalidFlag branch "This is an invalid
\* state" is never taken.  During the replay both are false.
ServesConsistentFlags ==
    awake => /\ \A f \in known : f.round <= fbRound
             /\ \A f \in flagStore : rounds[f.round].finished /\ f.round < fbRound
                                        => f \in known

\* check_flag compares ids and subtracts numbers.  The subtraction does not
\* underflow although abandoned rows make ids and numbers diverge, because no
\* flag of an abandoned round is known.
AgeIsNatural ==
    \A f \in known :
        /\ f.round <= fbRound => rounds[f.round].number <= rounds[fbRound].number
        /\ rounds[f.round].finished \/ f.round = roundId

\* The scoreboard history holds each played round once, oldest first: all the
\* finished rounds and the one being played, none that was abandoned
\* (scoring.rs ScoreBot::run, replayed by game.rs replay_scorebot).
ScoreHistoryIsPlayedRounds ==
    /\ \A j, k \in DOMAIN hScore : j < k => hScore[j] < hScore[k]
    /\ \A k \in DOMAIN hScore : rounds[hScore[k]].finished \/ hScore[k] = roundId
    /\ (pc \in {"nap", "seed", "sleep", "parked"} /\ scoreMail = <<>>) =>
          \A i \in FinishedRows(rounds) \ {1} : \E k \in DOMAIN hScore : hScore[k] = i

\* No round beyond the total is opened in a process whose loop has not first
\* stopped itself, even when abandoned rows make ids run ahead of numbers and
\* when the restart falls on the last round (game.rs "Only stop the game once
\* when it reaches the total_round").
OvertimeNeedsStop ==
    [][\A i \in DOMAIN rounds' \ DOMAIN rounds :
          rounds'[i].number = TotalRound + 1 => stoppedOnce]_vars

\* A Pause that is not followed by a Start takes effect: the loop ends up
\* parked with its round finished, unless a database error killed it (or the
\* bound on rows is reached).
PauseTakesEffect ==
    (pc # "replay" /\ ~shouldRun) ~>
        (shouldRun \/ pc \in {"dead", "replay"}
         \/ (pc = "parked" /\ rounds[roundId].finished /\ ~shouldRun)
         \/ Len(rounds) = MaxRows)

\* A Start that finds the loop parked is not lost: a round is set up, unless a
\* Pause, the final stop, an error, a crash or the bound comes first.
StartWakesParkedLoop ==
    (pc = "parked" /\ shouldRun /\ admin # "idle") ~>
        (pc = "seed" \/ ~shouldRun \/ pc \in {"dead", "replay"} \/ Len(rounds) = MaxRows)

\* What the comment at game.rs:529 ("The state of the Game has changed. Check
\* Again") takes for granted: while should_run is set the loop does not stay
\* parked.
StartTakesEffect ==
    (pc = "parked" /\ shouldRun) ~>
        (pc # "parked" \/ ~shouldRun)

\* What flagbot.rs "Start accepting flags" and game.rs:521 ("Stop flagbot also
\* since this is the end of a round") promise together: while a round is being
\* played, with every message delivered, the flagbot accepts flags.
PlayedRoundAcceptsFlags ==
    (pc = "sleep" /\ shouldRun /\ admin = "idle" /\ flagMail = <<>>) => running
=============================================================================
