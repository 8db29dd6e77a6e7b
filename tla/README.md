# A TLA+ model of bi0s-adf

bi0s-adf runs an attack/defence CTF: in every round it hands a fresh flag to
each service of each team, lets the teams submit the flags they steal, asks
checkers how the services are, and keeps the score.  It is one Rust process of
tokio tasks with a SQLite database.  This directory models what must survive
its concurrency and its restarts, model-checks it with TLC, and proves the
safety properties with TLAPS.

## The system

| Part (source) | State it keeps | Operations | Talks to |
|---|---|---|---|
| Game loop, `progress_game` (game.rs:504) | its round, `stopped_once`; shares `should_run` | open a round, journal Initial states, store and hand out flags, sleep, mark finished, park at a pause | flagbot, scorebot, checkerbot (channels of 10), database; parks on a `Notify` |
| Admin commands, `handle` (game.rs:56) | `should_run` | Start, Pause | flagbot; `notify_waiters` |
| Start-up, `Game::new`, `Game::run` (game.rs:120) | – | resume the last finished round, replay tables and journals into the bots, spawn the tasks | every part |
| Round table, journals, flag table (db.rs) | the database | insert, mark, "last finished", "newest", entries | all tasks, one mutex, no `await` while it is held |
| Flagbot messages, `Msg::handle` (flagbot.rs:134) | current round, flags and secrets, submissions, history, `running` | UpdateRound, NewFlag, SubmittedFlag, Start, Pause, TcpConfig, Throttle | `Notify` to the endpoint |
| Flag endpoint (flagbot.rs:327, 371, 607) | listener, permits per team, metrics per connection | accept, throttle, 30 s timeout | `check_flag` |
| Flag check, `check_flag` (flagbot.rs:510) | locals of a connection | look up, judge, send Msg and FlagEvent | flagbot channel, event channel |
| Event relay, `handle_flagbot_event` (game.rs:468) | – | journal a submission, tell the scorebot | database, scorebot |
| Service states (game.rs:1061, service.rs:175) | journal, `service_state_map`, scorebot's copy | merge an observation into each, one after the other | database, API, scorebot |
| Checks (game.rs:636–1048) | tasks waiting for answers | service checks of a round and at random, flag checks, answers to plant requests | checkerbot (oneshot replies) |
| Checkerbot (checker.rs) | a queue per service | gRPC requests with a timeout | external checkers |
| Scorebot (scoring.rs:104) | FaustCTF (or RuCTF) score, history of points | states, submissions, rounds, scoreboard | API |
| API (api/), dump (dump.rs), CLI (main.rs) | cache | read database and models; admin commands | |

What is hard: tasks that pass each other between two awaits (a `Notify`
without permits, two senders into one channel, a lock released before the
state is updated), a process that may stop between any two database writes and
must rebuild the same game from what is left, and ids and numbers of rounds
that diverge after a crash.  What makes the parts correct:

- rounds: finished ones are numbered 0, 1, 2, …, each set up completely; an
  abandoned one never counts;
- flagbot: it never serves with half of its flags, and never meets a flag newer
  than its round; what it accepts was alive; gains balance losses, and what is
  journaled is counted in both histories;
- submissions: journaled, credited and marked agree, also after a restart;
- service states: the three copies agree in the end, are never ahead of the
  journal, and only worsen;
- control: a Pause stops the game after the round, a Start starts it;
- endpoint: it serves a team on no more connections than configured, none waits
  for ever, and it opens with the configuration set last;
- points: they are those of the journals, in whatever order events arrived;
- checks: a checker that does not answer holds up nobody else.

## Modules

| Module | Models | Of |
|---|---|---|
| `RoundJournal` | the rounds table as a sequence of rows (a row's id is its position) | db.rs `RoundJournal` |
| `GameLoop` | `progress_game`, `handle`, the replay of rounds and flags, the bots' reaction | game.rs, flagbot.rs, scoring.rs |
| `SubmissionCredit` | abstract: what a team is promised for a submitted flag | – |
| `FlagSubmission` | `check_flag`, `Msg::handle`, the relay, the scorebot, restarts | flagbot.rs, game.rs, db.rs |
| `FlagEndpoint` | `FlagBot::run`, `create_tcp_endpoint`, the control messages, the admin's commands that send them | flagbot.rs, admin_handlers.rs |
| `FlagConnection` | the loop of `handle_tcp_connection`: throttle, buffering, counts, metrics, timeout | flagbot.rs |
| `StateMerge` | the numbers of the states, `should_update` and folds of it | service.rs |
| `CheckFlags` | what `check_flags` concludes from the answers | game.rs |
| `ServiceState` | all tasks that record a service's state, and the three copies | game.rs, checker.rs, scoring.rs |
| `Scoring` | `ScoreBot::run`, FaustCTF's points, `replay_scorebot` | scoring.rs, game.rs |
| `CheckerBot` | the proxy, a process per service, the calls and their replies | checker.rs |
| `CheckTiming` | operators: when in a round its checks are sent | game.rs |
| `OperatorProofs`, `GameLoopProofs`, `FlagSubmissionProofs`, `FlagEndpointProofs`, `FlagConnectionProofs`, `ServiceStateProofs`, `ScoringProofs`, `CheckerBotProofs` | theorems | – |
| `MCGameLoop`, `MCFlagSubmission`, `MCServiceState`, `MCFlagEndpoint`, `MCFlagConnection`, `MCScoring`, `MCCheckerBot` | instances for TLC | – |

`GameLoop`, `FlagSubmission`, `CheckFlags` and `Scoring` extend `RoundJournal`;
`CheckFlags` and `Scoring` also extend `StateMerge`, and `ServiceState` extends
`CheckFlags`.  A module of proofs extends its component and, if it needs what is proved of
shared operators, `OperatorProofs`.

The parts of the flagbot meet in three places.  `FlagEndpoint` decides which
connections are served, `FlagConnection` what a served connection does with its
lines, `FlagSubmission` what `check_flag` does with one line.  Each takes from
the next only an interface: the endpoint needs a connection to end, which
`EveryConnectionEnds` shows; the connection needs any verdict.  `GameLoop` and
`FlagEndpoint` share the flagbot's `running` and its `Notify`: `GameLoop` has
only whether the waiters were ever notified (`awake`), `FlagEndpoint` the whole
protocol, with the game's Start and Pause among the messages.

### State and actions against the code

A step of a model is what a task does between two points where another task can
act: an await on a lock or a channel, a sleep, or a database call (the database
lock is released between calls, and a crash may fall between them).  A crash
keeps the variables named "The database" and sets the rest to what `Game::new`
and `Game::run` make of it.

*GameLoop.*  `pc` is where `progress_game` stands: `nap` (the 100 ms sleep),
`decide` (it saw `should_run`), `pausing`, `marking`, `parked` (in
`notified()`), `create`, `tellScore`, `tellFlags`, `seed`, `sleep`, `dead` (an
error was returned).  `NotifyLoop` is `notify_waiters`: it moves the loop only
if `pc = "parked"`.  The order of the two `for` loops over hash maps is not
fixed, so `SeedState` picks any pair left, and then `StoreFlag` any of its
slots, whose flag `HandOutFlag` sends before the next one is stored. `script` is
what `Game::run` has still to replay; the bots consume their channels meanwhile.

*FlagSubmission.*  A connection goes `ready` → `readRound` (own flag, age) →
`readSubmission` (duplicate) → `sendMsg` → `sendEvent` → `ready`; `Timeout`
drops it where it waits for a lock or for room in a channel.  `Crash` replays:
submissions of finished rounds (`Replayed`) mark and, if their flag is known,
count and credit (`Effective`).  The histories `gained` and `lost` are maps from
some teams and rounds: `HandleUpdateRound` makes the entries of a round, and
`HandleSubmittedFlag` looks up the flag, the attacker's entry and the victim's,
each of which may be missing (`Increase` then counts nothing).  Game steps are
those of `GameLoop` merged to finish, open, hand out, which is all the flagbot
can tell apart.

*FlagEndpoint.*  `server` is where the one task stands.  In `FlagBot::run`:
`idle` (about to create a `notified()` future), `waiting` (it has one), `woken`.
In `create_tcp_endpoint`: `configure`, `bind`, then per iteration of `select!`
`select`, `listening`, and `check` or `accepting`.  `notified` says that the
future which exists has been notified; `NotifyWaiters` sets it only in `waiting`
and `listening`, and `Accept` drops it with the future, as `select!` does with
the branch it does not take.  `endpoints` are the configurations in the order
they were cloned, so that connections of an earlier endpoint keep their own
semaphores.  `AdminWakes` ends the 500 ms sleep in `SetTcpConfig`, at any time: how
far the endpoint has got by then is open.

*FlagConnection.*  `pc` is the await of a connection's task; `closed` and `lost`
tell whether its counts reached the metrics.  `unsent` are the replies in the
writer's buffer.  Which replies a full buffer takes along depends on their
lengths, so `Unsent` is a choice.

*ServiceState.*  A task waits for its answer (`plant`, `service`, `flags`), then
journals (`Record`), updates the map (`UpdateMap`), tells the scorebot
(`TellScorebot`); any number of tasks may stand between these.  A request may
stay unanswered for as long as the run lasts, so answers arrive in any order and
in any later round.  In `SweepSleeps` and `SweepStarts` the check of `should_run`
and the choice of the round are separated by the jitter, as in `check_services`;
a sweep that starts because of a lost Start (see `game_loop_lost_start`) does
what one does that slept through the pause.

*Scoring.*  `log` is what the three kinds of writers put into the database, in
the order of its timestamps; a submission takes its timestamp before its entry
is written, a state under the lock.  The messages travel separately (`loop`,
`relay`, `recording`, then `mail`), so that any may overtake another.  `Crash`
feeds the sorted log to a fresh score, as `replay_scorebot` does.  `raced` marks
the rounds whose `UpdateRound` an event passed, or was passed by.  Points are
integers in a `Unit` that the shares divide; `Loss` stands for `n^0.75`, of which
only the value at 0 matters.

*CheckerBot.*  `todo` is what each task has still to send, `held` the request
the proxy is about to forward, `handler` whether the service's process survived
its start, `calls` the spawned tasks, `reply` the oneshot channels.

What is abstracted: secrets (a secret is its flag), reasons of Mumble and
Corrupt, wall-clock times, wording.  One service with one slot stands for all in
`FlagSubmission` and `Scoring`: flags of one team and round are treated alike in
the first, and points are sums over services and flags in the second.
`ceil(n * 0.80)` is computed on f64 in the code; `FourFifths` is the integer it
yields, and `Buffer` that of a fifth of a round.  A flag check that finds the
newest round up and too many older flags lost gives Recovering; any other newest
state is recorded as it is.

## Runs

| Run | Asks |
|---|---|
| `game_loop` | Do rounds, their contents and the bots' knowledge stay consistent through pauses, the final stop, crashes anywhere, and replays? |
| `game_loop_live` | Does a Pause park the loop, and does a Start wake a parked loop? |
| `submission` | Do acceptance, history, journal and credit agree, also after a restart (gains equal losses, what is journaled is booked), do they implement `SubmissionCredit`, and is every event that reached the relay credited? |
| `service_state` | Do the copies of a state follow the journal, agree at rest, and only worsen? |
| `service_state_flags` | Does a flag check only judge a service that was up? |
| `endpoint` | Does every endpoint keep its limit per team and count its connections; is one that waits for a permit served; does a Start open a waiting endpoint, with the configuration set last? |
| `connection` | Do the limits hold for a throttled connection, do replies come at once before the buffering limit, do the metrics add up, and does every connection end? |
| `scoring` | Are the points, and those the history shows for each round, those of the journals, although messages overtake each other and a restart replays them in another order? |
| `checkerbot` | Does the game get rid of its requests, and are those for other services answered, when one checker never answers? |
| `game_loop_lost_start` | Finding 1: a Start can be lost. |
| `service_state_stale` | Finding 2: an answer is counted for another round. |
| `endpoint_pause` | Finding 3: a Pause can leave the endpoint open. |

The three findings are runs that must fail, each against the sentence of the
repository that says otherwise (PROJECT.json quotes them):

1. *Lost Start.*  The loop sees `should_run` unset, `handle` sets it and calls
   `notify_waiters`, the loop awaits `notified()`.  Nobody wakes it.
2. *Stale answer.*  `handle_checkerbot_response` ignores the answer's round.
3. *Forgotten Pause.*  The endpoint looks at `should_run` only in the branch of
   `notified()`, whose future is new in every iteration: a Pause that falls while
   it binds, answers a connection, or is ready together with an `accept`, is gone.

### Further instances that TLC refutes

These configurations belong to no run that has to pass or fail.  Each checks one
sentence of the code at one property that the module states under "What the
comments say", and TLC answers with a trace:

| Configuration | Property | Sentence | Trace |
|---|---|---|---|
| `GameLoopFlagbotPaused` | `PlayedRoundAcceptsFlags` | game.rs:521, flagbot.rs:170 | the loop sees `should_run` unset; the admin's Start queues `Start` for the flagbot; the loop queues `Pause` behind it (game.rs:522) and is woken: the round is played with the flagbot paused |
| `FlagSubmissionDuplicate` | `NoDuplicateSubmissions` | flagbot.rs:563, game.rs:191 | two connections pass the lookup before either's `Msg::SubmittedFlag` is handled; the score is a set and does not notice, the journal and the history counts do |
| `FlagSubmissionLost` | `MarkedIsJournaled` | flagbot.rs:591, 106 | the timeout strikes between the two sends: the flag is marked as submitted and never credited |
| `ServiceStateMissing` | `FinishedRoundsHaveStates` | cache.rs:173-174 | the Initial Unknown is journaled but not put in the map (game.rs:570); a restart puts it there |
| `FlagEndpointStart` | `StartAcceptsFlags` | flagbot.rs:170 | a Start is handled while the task is between a look at `running` and its next `notified()` (flagbot.rs:348) |
| `FlagEndpointRestart` | `RestartTakesEffect` | admin_handlers.rs:39, 42 | the sleep ends before the endpoint has noticed its Pause, so that the Start sets `running` again before it looks: it stays open with its old configuration; or the Start is handled while the endpoint closes and its notification is lost |
| `FlagEndpointPaused` | `PausedServesNobody` | flagbot.rs:176 | a Pause closes the listener; connections that are open go on submitting (flagbot.rs:410) |
| `FlagEndpointLimit` | `TeamWithinLimit` | flagbot.rs:783 | the semaphores are new for every endpoint (flagbot.rs:389): after a restart a team has its old connections and its new ones |
| `FlagEndpointSurplus` | `SurplusIsRefused` | flagbot.rs:432-433 | `available_permits` is read before the spawned task acquires (flagbot.rs:431): a surplus connection waits instead |
| `FlagConnectionThreshold` | `ThresholdCloses` | flagbot.rs:628 | invalid flags are compared with `==` (flagbot.rs:629): a connection that passed that limit unthrottled is never closed for it |
| `FlagConnectionBuffer` | `BufferedFromLimit` | flagbot.rs:773 | the switch to the buffered writer is skipped by the `continue` of a line that does not decode (flagbot.rs:688, 746), and the test is for equality |
| `ScoringHistory` | `HistoryIsReplayed` | scoring.rs:64-66 | an event is between journal and channel as a round starts: the history shows it one round later than after a restart |

Run one with `tlc -config FlagEndpointLimit.cfg MCFlagEndpoint`, and likewise for
the others with the MC module of their prefix.

What `CheckTiming` says of the comments at game.rs:272 and 686: between the
first check and the second one the buffer is kept, but after the second one less
than a buffer may be left of the round.  In rounds of less than four seconds a
jitter is taken modulo 0 (game.rs:652, 688-706), which panics; the theorem `JittersExist`
shows that four seconds are enough.

### Bounds

- `GameLoop.cfg`: one team, two services, one of them without a flag slot (so
  that a round is complete in different ways), five rows, total 2, three
  commands, two crashes, channels of two.  Two crashes and five rows allow two
  abandoned rows, a restart of a restart, a restart on the last round and
  overtime; three commands allow Start, Pause, Start in any position.  A second
  team only multiplies the seeding steps, which touch disjoint pairs.
- `GameLoopLive`, `GameLoopLostStart`, `GameLoopFlagbotPaused`: channels of one
  message, which makes every send block; two rounds.
- `FlagSubmission.cfg`: two teams, two connections of the same attacker (what
  the race needs), `flag_life` 2 and four rows (so that flags expire, and one
  row may be abandoned), one crash, two submissions, channels of one message, so
  that every queue on the way is full at some point.
- `ServiceState.cfg`: two tasks that race to record three different states for
  one service with two slots, one round and its abandoned or resumed successor,
  a sweep, a crash.  `ServiceStateFlags.cfg`: two rounds, so that a flag check
  has a finished round to look at, and four journal entries: the seeds of both
  rounds, one answer that moves the first, one that moves the second.  Tasks are
  symmetric.
- `FlagEndpoint.cfg`: two connections of a team against limits of one and two
  (one served and the other waiting or refused, or each at an endpoint of its
  own), two admins with two commands
  (two of `SetTcpConfig` interleave, or one meets a Pause), one failed `bind` or
  `accept`, a channel of two.  An address of no team, who is always refused and
  never counted, is in no cfg but can be had with `c4`.
- `FlagConnection.cfg`: a connection of three lines, which passes a limit of two
  and the buffering limit of two, and one of one line, which ends meanwhile; the
  throttle is set twice, so that it goes on and off.
- `Scoring.cfg`: two attackers who share a flag, three rounds and round zero, two
  submissions, a state and a crash.  The attackers are symmetric.
- `CheckerBot.cfg`: channels of one message; four requests for the silent service
  are more than its channel, the proxy and the channel before it hold.

The constants starting with `Max` are bounds of the model; the code has none.
Deadlock is not checked because the bounds end every behaviour, and because a
loop that parks or dies stops the system by design.

### Fairness

tokio polls every task that is woken, mpsc channels serve waiting senders in
turn, sleeps end, and locks are fair.  So each task is weakly fair:

- `GameLoop`: the loop, `handle`, the handlers of both bots;
- `FlagSubmission`: each connection, the flagbot's handler, the relay, the
  scorebot;
- `FlagEndpoint`: the requests of the admins, the flagbot's two tasks, and of a
  connection its `acquire` and its end, which the 30 s timeout brings about;
- `FlagConnection`: the head of the loop, which waits for nothing but a lock, and
  the timeout.  A team that neither sends nor reads is part of the model;
- `CheckerBot`: the tasks of the game, the proxy, the processes, and the answers
  of the services that are not silent.

Nothing is assumed of admin commands, crashes, failing calls, submissions,
throttling, or silent checkers.

## Proofs

Every theorem holds for arbitrary values of the constants, from one named
assumption of the module, which says no more than what type each constant has.

**The game loop.**  `GameLoopProofs` rests on `ConstantsAssumption`:

- `GameInvariance`: `Spec => []GameInv`, with
  `GameInv == TypeOK /\ LoopInv /\ FinishedNumbersContiguous /\ FinishedRoundsComplete`;
- `TypeCorrectness`, `NumbersContiguous`, `RoundsComplete`, `LoopInvariance`:
  its conjuncts;
- `AbandonedRounds`: `Spec => AbandonedStayUnfinished`, from the same invariant: a
  row that is unfinished when a process starts is not the loop's round, and no
  step makes it that, since a crash resumes a finished row and every other step
  keeps the round or opens a new one.

Neither `FinishedNumbersContiguous` nor `FinishedRoundsComplete` is inductive:
marking a round could repeat a number or finish a round that was not set up.
`LoopInv` says why it does not.  `NewestRound`: the loop's round is at or after
every finished row and, while it is unfinished, has the number after the last
finished one, so that marking it extends the numbers by one.
`SeedingProgress`: during `seed` each pair is journaled or still to do, and
wherever the loop can go on to mark its round, the round is complete (or is the
row of round 0, whose mark changes nothing).  A crash restores both, because
`Game::new` resumes a finished row.  The proof has one lemma per conjunct
(`NextType`, `NextNumbers`, `NextComplete`, `NextNewestRound`, `NextSeeding`);
each first isolates the few steps that touch the rows, the loop's round or the
journals (`RoundsSteps`, `RoundIdSteps`, `CreateSteps`, `JournalSteps`).

**What the bots are told.**  The second part of `GameLoopProofs` adds to
`GameInv` what is on its way to the bots.  `RoundInvariance`: every round the
flagbot knows, has queued or is still to be told counts, and past the total the
loop has stopped once; hence `AgesAreNatural` and `OvertimeAfterStop`.
`FlagsServedConsistent` needs to speak of every prefix of the flagbot's channel,
since the bot is woken at any moment: `ServesInv` looks at the state the bot
will have after its first p messages, for every p, and says which flags it knows
by then; handling a message moves to the next prefix, sending one adds a last.
`HistoryIsPlayedRounds` strings the history, the scorebot's channel and what is
left of the replay together into one list and shows it ascending (`ScoreInv`).

**Submissions.**  `FlagSubmissionProofs` shows
`SubmissionInv == TypeOK /\ TableInv /\ RoundMailInv /\ FlagInv /\ PathInv /\ CreditInv`
invariant under `SubmissionAssumption`:

- `TableInv`, `RoundMailInv`: the rows, and the rounds under way to the flagbot,
  in strictly ascending order, all newer than its own: no round is announced
  twice, which would reset its history;
- `FlagInv`: a flag is handed out once, after its round was announced, and the
  flags the flagbot knows are of rounds that count and not newer than its own;
- `PathInv`: a submission that passed a check of `check_flag` still satisfies it
  wherever it is now (in the connection, the channel, the relay, the journal),
  because rounds only grow and the submission carries the round it was judged in;
- `CreditInv`: what is credited or on its way from the relay to the scorebot is
  exactly what the journal holds, and all of it is marked or about to be.

From it follow the safety properties of `submission`.  Two are about the
histories and need invariants of their own.

- `HistoryBalances` (`GainedEqualsLost`): a submission is counted by two lookups,
  which could find one entry and not the other.  `SameEntries` says that both
  histories have, in a round, entries for all teams or for none; then a
  submission moves either sum over the teams by one or neither
  (`IncreaseTotal`), and a replay counts the same submissions on both sides
  (`ReplayBalances`).
- `JournalIsAlwaysBooked` (`JournalIsBooked`): `EntriesInv` says that the histories
  have the entries of every round a submission on its way can name, and
  `BooksInv` that the journal's entries and those still to be journaled, of each
  attacker, victim and round, are no more than what the history has counted and
  the waiting messages will add.

From `SubmissionInv` follows also `JournalImplementsCredit`: `Spec =>
Credit!Spec` for the mapping that hides everything but what is promised and what
is credited (`PromiseStep`: each step is a step of `SubmissionCredit` or a
stutter).

**The endpoint.**  `FlagEndpointProofs`: permits are not a variable but what the
open connections leave, so `OpenWithinLimit` says that no step opens one too
many; it holds because the tasks that wait are served only by one that ends.
`EveryConnectionCounted`: a counter per team is a cardinality.
`FlagConnectionProofs`: `ThrottleInv` says in addition that a connection about to
read is below its limits if it always saw the throttle, the four comparisons of
which are three of `>=` and one of `==`; the latter is enough only because the
connection passes the limit one line at a time.

The other two results on a connection are about sums.  `RepliesAreInstant`: the
writer is replaced when the total of the counts equals the limit, and the total
only grows (`TotalGrows`), so no buffered connection is below it.  `MetricsAreSums`:
a team's metrics are a sum over its connections of what each has appended, and a
step changes one of them.

**States of services.**  `ServiceStateProofs` shows
`ServiceInv == TypeOK /\ RoundZeroStays /\ CopiesInv` invariant under
`ServiceAssumption`.  An observation goes from a task to the journal, from there
to the map and on to the scorebot, and any task may pass any other in between.
`CopiesInv` follows it on its way: what the map shows, or is about to be told, is
in the journal (`StatesAreEntered`); what the scorebot shows, or is about to be
told, is at most what the map shows (`ScoreIsBehind`); and the reverse, every
observation in the journal has reached the map or is with a task that will bring
one at least as bad (`MapIsTold`), and every state of the map has reached the
scorebot, its channel or a task that will send it (`ScoreIsTold`).
`CopiesAgreeAtRest` alone says nothing while anything moves, and is not inductive.
With nothing under way `MapIsTold` and `ScoreIsTold` make both copies the worst
state of the journal, which is what its fold yields (`RecordedIsWorst`); a restart
makes map and scorebot the worst of the journal's states at once
(`CopiesConverge`, `CopiesAreBacked`).  `MapOnlyWorsens` is an action property of
the same invariant: a restart rebuilds the map from a journal that holds what the
map showed.  `FlagChecksNeedUp` rests on `FlagChecksWait`: a flag check that waits
for its answers is one of a service that was journaled Up, and the journal keeps
that whatever happens to the service meanwhile.

**Points.**  `ScoringProofs` shows
`ScoringInv == TypeOK /\ RoundsOrdered /\ LogOrdered /\ MailOrdered /\ RelayCounts
/\ ScoreFollows /\ HistoryFollows` invariant under `ScoringAssumption`.  Its centre
is `Reflects(s, E)`: a score is that of a *set* of messages E, in which no order
is left.  A message adds itself to E (`AfterMessage`), the points of such a
score are a function of E (`ViewIsPoints`), and they are the function that
`JournalPoints` computes from the log (`JournalIsPoints`).

- `ScoreFollows`: there is an E that the score reflects and that, with the
  messages `InFlight`, is what the log keeps for the rounds that count.  Also, for
  every message to start a round that nothing raced with: what will have been
  handled when its turn comes is the log before the round's entry.
- `HistoryFollows`: the history of such a round is the points of that part.
- `RoundsOrdered`, `LogOrdered`, `MailOrdered`: ids and numbers of the rounds that
  count increase together, and their starts are in this order in the log, in the
  channel and in `round_ids`; `calculate_sla`, which compares with the last of
  these, depends on it.
- `RelayCounts`: an entry that is written with an older timestamp comes after the
  start of each round it does not race with.

What a restart makes of the log is a fold over a sequence: `ReplayedIsJournal`
follows it entry by entry and shows that it reflects what is kept of the finished
rounds.  From the invariant follow `PointsAreJournaled` (with nothing in flight, E
is all that is kept), `HistoryIsJournaled` and `SharesAreWeighed`; `ScoringTypes`
says that the points are integers.

**Requests to checkers.**  `CheckerBotProofs` shows `CheckerInv == TypeOK /\
NoRepeats /\ OnePlace` invariant under `CheckerAssumption`, of which one part
matters here: a request carries the sender of its own oneshot channel, which
cannot be cloned, so no request is sent twice.  Each step moves one request from
one place to the next (`MoveKeeps`); `NoRepeats` is needed because taking the
head of a channel removes the request from it only if it is not in there twice.
The runs check two liveness properties of this component; the theorems give what
safety they rest on.  `AnsweredOnce`: a request is answered from one place, so a
reply is final.  `RequestsAlwaysMove`: as long as a request has not got to its
checker, the guard of a step holds that waits for no checker, so that tasks,
proxy and processes never wait for each other in a circle.  It speaks of the
guards, since ENABLED is out of reach.

**Operators.**  `OperatorProofs` states what the table's operators return
(`LastFinishedIsGreatest`, `StartNewRoundRows`, …) for any table with a finished
row.  It shows that `should_update` is the order of the states'
numbers in spite of its special case (`ShouldUpdateIsOrder`), that a merge never
improves a state (`MergeOnlyWorsens`) and that two observations may be merged in
either order and repeatedly (`MergeIsOrderInsensitive`): this is why tasks may
pass each other between the three copies.  It shows for rounds of
every length that no jitter is taken modulo 0 from four seconds on
(`JittersExist`), and how far the checks are apart (`ChecksAreSpaced`).

Sums and folds are `SumFunctionOnSet` and `FoldLeft` of the community modules, both
recursions over a set of positions or keys with an operator for the step.  The
theorems of the library about such recursions take that operator as a parameter,
which the provers cannot instantiate.  So `OperatorProofs` proves the recursion it
needs for a step that is a function (`FoldExists`, `FoldUnrolls`, `SumIsInt`,
`SumAgree`, `SumRename`, `SumDropZeros`), by induction in the form that a set of
naturals without a least counterexample has none.

**Only model-checked.**  Liveness under fairness is out of the prover's reach:
`PauseTakesEffect`, `StartWakesParkedLoop`, `EventIsCredited`,
`WaitingIsServed`, `StartOpensEndpoint`, `EveryConnectionEnds`,
`RequestsAreTaken`, `SilentCheckerIsAlone`.  Every invariant and every action
property of the passing runs is a theorem.

## Not modelled

- The dump reads the database of a stopped game.  What its `expect()` calls take
  for granted is stated as `FinishedRoundsComplete`, `JournalRefersToStoredFlags`
  and `CopiesAgreeAtRest`.
- RuCTF's scoring: `main.rs` runs FaustCTF, nothing constructs RuCTF, and its f64
  arithmetic has no counterpart here.
- The read-only handlers of the API and their caches.  They keep nothing that
  anyone writes back; three hazards in them are listed without a property.
- The codec of flags: a flag is identified with its row, and a secret that decodes
  to none changes no state.
- Configuration, teams and services, the command line, the example checker and
  its protocol: read once before the game runs, or outside of it.

## Plan

Done: `RoundJournal` and `GameLoop`; `FlagSubmission` with `SubmissionCredit`;
`StateMerge`, `CheckFlags` and `ServiceState`; `FlagEndpoint` and
`FlagConnection`; `Scoring`; `CheckerBot`; `CheckTiming`; and the proofs above.

Left, in this order:

1. `Reports`: what the API's cache and the dump read while the game goes on, with
   the state of the previous round (cache.rs:115) and the entry that is shared by
   all teams and services (cache.rs:150).
2. The composition of `FlagEndpoint` with `GameLoop`, in the place of `awake`, to
   follow a game's Start from the loop to the first accepted connection.
