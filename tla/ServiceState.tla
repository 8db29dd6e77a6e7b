---------------------------- MODULE ServiceState ----------------------------
(***************************************************************************)
(* The state of the teams' services, round by round (game.rs): the tasks   *)
(* that plant flags, check flags and check services, and the three places  *)
(* they record what they learn in, one after the other:                    *)
(*   service state journal -> Model.service_state_map -> scorebot          *)
(* A restart rebuilds the last two from the first.                         *)
(*                                                                         *)
(* GameLoop models the set-up of a round step by step; here its Initial    *)
(* journal entries are written as the round is opened.                     *)
(***************************************************************************)
EXTENDS CheckFlags, FiniteSetsExt

CONSTANTS
    Targets,        \* the services of the teams: (team, service) pairs
    Slots,          \* the flag slots of each service
    FlagLife,       \* config.flag_life()
    CheckerStates,  \* states the checkers answer with (never Recovering)
    Tasks,          \* bound: the tasks that wait for a checker at a time
    MailCap,        \* capacity of the scorebot's channel (10 in the code)
    MaxRows,        \* bound: rows of the rounds table
    MaxEntries,     \* bound: entries of the service state journal
    MaxSweeps,      \* bound: passes of check_services over the targets
    MaxCrashes      \* bound: crashes of the process

ASSUME ServiceAssumption ==
    /\ CheckerStates \subseteq State \ {Recovering}
    /\ IsFiniteSet(Targets) /\ FlagLife \in Nat /\ MailCap \in Nat \ {0}
    /\ MaxRows \in Nat \ {0} /\ MaxEntries \in Nat /\ MaxSweeps \in Nat /\ MaxCrashes \in Nat

VARIABLES
    \* The database
    rounds,         \* table rounds
    tokens,         \* flags that the checker has given a token for
    journal,        \* service_states, in the order of the inserts
    \* progress_game
    loop,           \* where it stands
    roundId,        \* its current round
    toPlant,        \* flags of the round still to be planted
    due,            \* check_services_for_round: its checks still to come
    \* check_services
    sweep,          \* where its loop stands
    \* handle_checkerbot_response and check_flags
    task,           \* the tasks that wait for an answer or record one
    \* What is derived from the journal
    map,            \* Model.service_state_map
    scoreMail,      \* scorebot's channel, restricted to service states
    score,          \* FaustCTF.service_state
    \* bounds
    sweeps, crashes

db    == <<rounds, tokens, journal>>
game  == <<loop, roundId, toPlant, due>>
views == <<map, scoreMail, score>>
bounds == <<sweeps, crashes>>
vars  == <<db, game, sweep, task, views, bounds>>

-----------------------------------------------------------------------------
(* Data *)

\* ServiceStateKey: the service of a team in a round.
Key == [round : 1..MaxRows, target : Targets]

\* A key that a HashMap does not hold.
Absent == 0

Types == {"Initial", "PlantFlag", "ServiceCheck", "CheckFlag"}
Entry == [key : Key, state : State, type : Types]

Idle   == [pc |-> "idle"]
Waiting == [pc |-> "waiting"]

\* ServiceStateJournal::get: the entries of a key folded from Unknown.
Recorded(key) == FoldLeft(LAMBDA s, e : IF e.key = key THEN Merge(s, e.state) ELSE s,
                          Unknown, journal)

\* Mutant: the last one to write wins.
Updated_LastWins(m, key, state) == [m EXCEPT ![key] = state]

\* entry(key).and_modify(merge).or_insert(state)
Updated(m, key, state) ==
    [m EXCEPT ![key] = IF @ = Absent THEN state ELSE Merge(@, state)]

\* The map and the scorebot after a replay of all the entries, in their order.
Rebuilt == FoldLeft(LAMBDA m, e : Updated(m, e.key, e.state),
                    [key \in Key |-> Absent], journal)

Init ==
    /\ rounds = InitialRounds /\ tokens = {} /\ journal = <<>>
    /\ loop = "booted" /\ roundId = 1 /\ toPlant = {} /\ due = {}
    /\ sweep = Waiting
    /\ task = [k \in Tasks |-> Idle]
    /\ map = [key \in Key |-> Absent]
    /\ scoreMail = <<>> /\ score = [key \in Key |-> Absent]
    /\ sweeps = 0 /\ crashes = 0

Crash ==
    /\ crashes < MaxCrashes
    /\ crashes' = crashes + 1
    /\ loop' = "booted" /\ roundId' = LastFinished(rounds)
    /\ toPlant' = {} /\ due' = {} /\ sweep' = Waiting
    /\ task' = [k \in Tasks |-> Idle]
    /\ map' = Rebuilt /\ scoreMail' = <<>> /\ score' = Rebuilt
    /\ UNCHANGED <<db, sweeps>>

\* ServiceStateJournal::append
AppendEntry(key, state, type) ==
    /\ Len(journal) < MaxEntries
    /\ journal' = Append(journal, [key |-> key, state |-> state, type |-> type])

-----------------------------------------------------------------------------
(* progress_game *)

\* The admin's Start reaches the loop, and check_services with it.
Start ==
    /\ loop \in {"booted", "paused"}
    /\ loop' = "starting"
    /\ UNCHANGED <<db, roundId, toPlant, due, sweep, task, views, bounds>>

\* The round ends by a Pause.
PauseRound ==
    /\ loop = "playing"
    /\ rounds' = MarkFinished(rounds, roundId)
    /\ loop' = "paused"
    /\ UNCHANGED <<tokens, journal, roundId, toPlant, due, sweep, task, views, bounds>>

\* The round ends and the next is opened with Initial entries for all targets.
StartRound ==
    /\ loop \in {"starting", "playing"} /\ Len(rounds) < MaxRows
    /\ Len(journal) + Cardinality(Targets) <= MaxEntries
    /\ rounds' = StartNewRound(MarkFinished(rounds, roundId))
    /\ roundId' = Len(rounds) + 1
    /\ journal' = journal \o SetToSeq(
          {[key |-> [round |-> roundId', target |-> t], state |-> Unknown, type |-> "Initial"] :
              t \in Targets})
    /\ toPlant' = Targets \X Slots
    /\ loop' = "planting"
    /\ UNCHANGED <<tokens, due, sweep, task, views, bounds>>

\* Ask for a flag to be planted and spawn the task that waits for the answer.
PlantFlag(k, t, s) ==
    /\ loop = "planting" /\ <<t, s>> \in toPlant /\ task[k] = Idle
    /\ toPlant' = toPlant \ {<<t, s>>}
    /\ task' = [task EXCEPT ![k] =
          [pc |-> "plant", key |-> [round |-> roundId, target |-> t], slot |-> s]]
    /\ UNCHANGED <<db, loop, roundId, due, sweep, views, bounds>>

\* Spawn check_services_for_round: one service check and one flag check of
\* everything, in an order drawn at random.
SpawnChecks ==
    /\ loop = "planting" /\ toPlant = {}
    /\ loop' = "playing"
    /\ due' = due \cup [key : [round : {roundId}, target : Targets], check : {"service", "flags"}]
    /\ UNCHANGED <<db, roundId, toPlant, sweep, task, views, bounds>>

-----------------------------------------------------------------------------
(* The checks *)

\* check_service for one target: only a service recorded as Up or Mumble is
\* asked for.
Asks(k, key) ==
    IF Recorded(key) \in {Up, Mumble}
    THEN task[k] = Idle /\ task' = [task EXCEPT ![k] = [pc |-> "service", key |-> key]]
    ELSE UNCHANGED task

ServiceCheckOfRound(k, key) ==
    LET d == [key |-> key, check |-> "service"] IN
    /\ d \in due /\ due' = due \ {d}
    /\ Asks(k, key)
    /\ UNCHANGED <<db, loop, roundId, toPlant, sweep, views, bounds>>

\* check_services: should_run is looked at before the jitter ...
SweepSleeps ==
    /\ sweep.pc = "waiting" /\ loop \notin {"booted", "paused"}
    /\ sweeps < MaxSweeps /\ sweeps' = sweeps + 1
    /\ sweep' = [pc |-> "sleeping"]
    /\ UNCHANGED <<db, game, task, views, crashes>>

\* ... and the newest row after it.
SweepStarts ==
    /\ sweep.pc = "sleeping"
    /\ sweep' = IF IsRoundZero(rounds, CurrentRow(rounds)) THEN Waiting
                ELSE [pc |-> "asking", keys |-> [round : {CurrentRow(rounds)}, target : Targets]]
    /\ UNCHANGED <<db, game, task, views, bounds>>

SweepAsks(k, key) ==
    /\ sweep.pc = "asking" /\ key \in sweep.keys
    /\ sweep' = IF sweep.keys = {key} THEN Waiting ELSE [sweep EXCEPT !.keys = @ \ {key}]
    /\ Asks(k, key)
    /\ UNCHANGED <<db, game, views, bounds>>

\* FlagStore::get_by_round of the rounds, for one service of one team; a flag
\* whose token is missing (NULL or empty) is not asked about.
FlagsToAsk(target, rows) == {f \in tokens : f.key.target = target /\ f.key.round \in rows}

\* Mutant: services in any state are checked.
FlagCheckOfRound_AnyState(k, key) ==
    LET d    == [key |-> key, check |-> "flags"]
        rows == CheckedRounds(rounds, FlagLife)
    IN
    /\ d \in due /\ due' = due \ {d}
    /\ IF rows # {}
       THEN /\ task[k] = Idle
            /\ task' = [task EXCEPT ![k] =
                  [pc |-> "flags", key |-> key, rows |-> rows,
                   asked |-> FlagsToAsk(key.target, rows)]]
       ELSE UNCHANGED task
    /\ UNCHANGED <<db, loop, roundId, toPlant, sweep, views, bounds>>

\* check_flags up to its requests, its lookup in the map and its two queries in
\* one step: the state decides only whether to ask, and a round that finishes or
\* a token that is set in between is what a later check would find.  A service
\* that the map does not hold as Up is not checked, nor one without earlier rounds.
FlagCheckOfRound(k, key) ==
    LET d    == [key |-> key, check |-> "flags"]
        rows == CheckedRounds(rounds, FlagLife)
    IN
    /\ d \in due /\ due' = due \ {d}
    /\ IF map[key] = Up /\ rows # {}
       THEN /\ task[k] = Idle
            /\ task' = [task EXCEPT ![k] =
                  [pc |-> "flags", key |-> key, rows |-> rows,
                   asked |-> FlagsToAsk(key.target, rows)]]
       ELSE UNCHANGED task
    /\ UNCHANGED <<db, loop, roundId, toPlant, sweep, views, bounds>>

-----------------------------------------------------------------------------
(* The answers, and update_service_state *)

\* update_service_state begins with the journal; the task goes on to the map.
Record(k, key, state, type) ==
    /\ AppendEntry(key, state, type)
    /\ task' = [task EXCEPT ![k] = [pc |-> "map", key |-> key, state |-> state]]
    /\ UNCHANGED <<rounds, game, sweep, views, bounds>>

\* The flag a PlantFlag request is about.
FlagOf(k) == [key |-> task[k].key, slot |-> task[k].slot]

\* The token and the identifier are stored, then the state, for the round of
\* the flag.  An empty token reads back as none.
Planted(k, state, token) ==
    /\ task[k].pc = "plant"
    /\ tokens' = IF token THEN tokens \cup {FlagOf(k)} ELSE tokens
    /\ Record(k, task[k].key, state, "PlantFlag")

\* The state is stored for the round that is the newest by now.
ServiceChecked(k, state) ==
    /\ task[k].pc = "service"
    /\ Record(k, [task[k].key EXCEPT !.round = CurrentRow(rounds)], state, "ServiceCheck")
    /\ UNCHANGED tokens

\* All the answers are in (Unknown stands for a request that failed).
FlagsChecked(k, answers) ==
    LET rows == task[k].rows
        status == [i \in rows |->
            StatusOf(SetToSeq({answers[f] : f \in {g \in task[k].asked : g.key.round = i}}))]
    IN
    /\ task[k].pc = "flags"
    /\ Record(k, task[k].key, Verdict(status, FlagLife), "CheckFlag")
    /\ UNCHANGED tokens

\* The request fails, or the database refuses a write: the task ends.  A token
\* may be stored by then.
TaskFails(k) ==
    /\ task[k].pc \in {"plant", "service", "flags"}
    /\ \/ UNCHANGED tokens
       \/ task[k].pc = "plant" /\ tokens' = tokens \cup {FlagOf(k)}
    /\ task' = [task EXCEPT ![k] = Idle]
    /\ UNCHANGED <<rounds, journal, game, sweep, views, bounds>>

\* Mutant: the map is left to the next restart.
UpdateMap_Skipped(k) ==
    /\ task[k].pc = "map"
    /\ task' = [task EXCEPT ![k].pc = "score"]
    /\ UNCHANGED <<db, game, sweep, views, bounds>>

UpdateMap(k) ==
    /\ task[k].pc = "map"
    /\ map' = Updated(map, task[k].key, task[k].state)
    /\ task' = [task EXCEPT ![k].pc = "score"]
    /\ UNCHANGED <<db, game, sweep, scoreMail, score, bounds>>

\* Mutant: an unbounded channel.
TellScorebot_Unbounded(k) ==
    /\ task[k].pc = "score"
    /\ scoreMail' = Append(scoreMail, [key |-> task[k].key, state |-> task[k].state])
    /\ task' = [task EXCEPT ![k] = Idle]
    /\ UNCHANGED <<db, game, sweep, map, score, bounds>>

TellScorebot(k) ==
    /\ task[k].pc = "score" /\ Len(scoreMail) < MailCap
    /\ scoreMail' = Append(scoreMail, [key |-> task[k].key, state |-> task[k].state])
    /\ task' = [task EXCEPT ![k] = Idle]
    /\ UNCHANGED <<db, game, sweep, map, score, bounds>>

\* on_service_state_update
ScoreState ==
    /\ scoreMail # <<>>
    /\ score' = Updated(score, Head(scoreMail).key, Head(scoreMail).state)
    /\ scoreMail' = Tail(scoreMail)
    /\ UNCHANGED <<db, game, sweep, task, map, bounds>>

-----------------------------------------------------------------------------

\* plant_flag, check_service and check_flag of the checkerbot pass on what the
\* checker says.
PlantAnswer(k) == \E s \in CheckerStates, token \in BOOLEAN : Planted(k, s, token)

ServiceAnswer(k) == \E s \in CheckerStates : ServiceChecked(k, s)

FlagAnswers(k) ==
    /\ task[k].pc = "flags"
    /\ \E answers \in [task[k].asked -> CheckerStates \cup {Unknown}] : FlagsChecked(k, answers)

Answer(k) == PlantAnswer(k) \/ ServiceAnswer(k) \/ FlagAnswers(k)

Loop == \/ Start \/ PauseRound \/ StartRound \/ SpawnChecks
        \/ \E k \in Tasks, t \in Targets, s \in Slots : PlantFlag(k, t, s)

Ask(k) == \/ \E d \in due : ServiceCheckOfRound(k, d.key) \/ FlagCheckOfRound(k, d.key)
          \/ sweep.pc = "asking" /\ \E key \in sweep.keys : SweepAsks(k, key)

Next == \/ Loop \/ SweepSleeps \/ SweepStarts \/ ScoreState \/ Crash
        \/ \E k \in Tasks : Ask(k) \/ Answer(k) \/ TaskFails(k) \/ UpdateMap(k) \/ TellScorebot(k)

Spec == Init /\ [][Next]_vars
-----------------------------------------------------------------------------
(* Properties *)

TaskState ==
    {Idle} \cup [pc : {"plant"}, key : Key, slot : Slots]
    \cup [pc : {"service"}, key : Key]
    \cup [pc : {"flags"}, key : Key, rows : SUBSET (1..MaxRows),
          asked : SUBSET [key : Key, slot : Slots]]
    \cup [pc : {"map", "score"}, key : Key, state : State]

SweepState == {Waiting, [pc |-> "sleeping"]} \cup [pc : {"asking"}, keys : SUBSET Key]

\* Types of the variables (game.rs Model, the tasks' locals, FaustCTF); a flag
\* check that was begun has a round to check.
TypeOK ==
    /\ rounds \in Seq(Row) /\ Len(rounds) \in 1..MaxRows
    /\ tokens \subseteq [key : Key, slot : Slots]
    /\ journal \in Seq(Entry) /\ Len(journal) <= MaxEntries
    /\ loop \in {"booted", "starting", "planting", "playing", "paused"}
    /\ roundId \in DOMAIN rounds /\ toPlant \subseteq Targets \X Slots
    /\ due \subseteq [key : Key, check : {"service", "flags"}]
    /\ sweep \in SweepState
    /\ task \in [Tasks -> TaskState] /\ \A k \in Tasks : task[k].pc = "flags" => task[k].rows # {}
    /\ map \in [Key -> State \cup {Absent}] /\ score \in [Key -> State \cup {Absent}]
    /\ scoreMail \in Seq([key : Key, state : State]) /\ Len(scoreMail) <= MailCap
    /\ sweeps \in 0..MaxSweeps /\ crashes \in 0..MaxCrashes

\* Neither copy is ahead of what it is a copy of: a state that the API or the
\* scoreboard shows is in the journal, so that a crash cannot take it back
\* (game.rs update_service_state: journal, map, scorebot).
CopiesFollowJournal ==
    \A key \in Key : score[key] <= map[key] /\ map[key] <= Recorded(key)

\* What the map has shown for a round is never improved or forgotten, neither
\* by the answers that race to update it nor by a restart, except that Unknown
\* may turn out to be Up (service.rs should_update).
StatesOnlyWorsen == [][\A key \in Key : map'[key] >= map[key]]_vars

\* What calculate_sla makes of an entry of the scorebot, in half points.
Sla(state) == IF state = Up THEN 2 ELSE IF state = Recovering THEN 1 ELSE 0

\* Once all the tasks have finished recording, the map, the scorebot and the
\* journal agree, whatever the order in which concurrent answers passed each
\* other between them and whichever of them a restart rebuilt; only a round that
\* nobody answered is missing from the map (game.rs update_service_state,
\* replay_scorebot; cache.rs:173).
CopiesAgreeAtRest ==
    (scoreMail = <<>> /\ \A k \in Tasks : task[k].pc \notin {"map", "score"}) =>
        \A key \in Key :
            /\ map[key] = score[key]
            /\ Sla(score[key]) = Sla(Recorded(key))
            /\ IF map[key] = Absent
               THEN \A e \in Range(journal) : e.key = key => e.type = "Initial"
               ELSE map[key] = Recorded(key)

\* A flag check records its verdict only in a round in which a checker has seen
\* the service Up before, however the answers of other tasks and a restart
\* interleave with it: so no flag check turns Unknown into Up, and a service is
\* Recovering only after it was Up (game.rs check_flags "Don't check if the
\* service is not up").
FlagChecksFollowUp ==
    \A j \in DOMAIN journal :
        journal[j].type = "CheckFlag" =>
            \E i \in 1..(j - 1) : journal[i].key = journal[j].key /\ journal[i].state = Up

\* game.rs:613 ("Start checking service for this round"): an answer is recorded
\* for the round it was asked for.
ChecksCountForTheirRound ==
    [][\A k \in Tasks : (task[k].pc = "service" /\ task'[k].pc = "map")
          => task'[k].key = task[k].key]_vars

\* cache.rs:173-174 ("ignoring unknown service_state for a round_id, which ideally
\* should not happen"): with no answer under way, the map has a state for every
\* service in every finished round.
FinishedRoundsHaveStates ==
    (\A k \in Tasks : task[k] = Idle) =>
        \A i \in FinishedRows(rounds) \ {1}, t \in Targets :
            map[[round |-> i, target |-> t]] # Absent
=============================================================================
