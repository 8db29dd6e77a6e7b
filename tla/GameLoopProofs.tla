--------------------------- MODULE GameLoopProofs ---------------------------
(***************************************************************************)
(* Theorems about GameLoop for every number of teams, services, slots,     *)
(* rounds, commands and crashes, with proofs checked by TLAPS.             *)
(***************************************************************************)
EXTENDS GameLoop, OperatorProofs

\* Appending a well-typed message keeps the flagbot's channel well typed.
LEMMA SendFlagbotType ==
    ASSUME TypeOK, NEW m \in FlagMsg, SendFlagbot(m)
    PROVE  flagMail' \in Seq(FlagMsg) /\ Len(flagMail') <= MailCap
BY ConstantsAssumption DEF TypeOK, SendFlagbot

\* The same for the scorebot's channel of rounds.
LEMMA SendScorebotType ==
    ASSUME TypeOK, NEW i \in DOMAIN rounds, SendScorebot(i)
    PROVE  scoreMail' \in Seq(DOMAIN rounds)
BY DEF TypeOK, SendScorebot

\* The head of a nonempty channel is a message, its tail a channel.
LEMMA ReceiveFlagMsgType ==
    ASSUME TypeOK, NEW type, ReceiveFlagMsg(type)
    PROVE  /\ Head(flagMail) \in FlagMsg
           /\ Head(flagMail).type = type
           /\ flagMail' \in Seq(FlagMsg) /\ Len(flagMail') <= MailCap
BY ConstantsAssumption DEF TypeOK, ReceiveFlagMsg

\* What a message carries is determined by its type (flagbot.rs Msg).
LEMMA FlagMsgContents ==
    ASSUME NEW m \in FlagMsg
    PROVE  /\ m.type = "UpdateRound" => m.round \in DOMAIN rounds
           /\ m.type = "NewFlag" => m.flag \in Flag
BY DEF FlagMsg

\* The messages the game composes are messages of the flagbot.
LEMMA MsgTypes ==
    /\ Start \in FlagMsg /\ Pause \in FlagMsg
    /\ \A i \in DOMAIN rounds : UpdateRound(i) \in FlagMsg
    /\ \A f \in Flag : NewFlag(f) \in FlagMsg
BY DEF FlagMsg, Start, Pause, UpdateRound, NewFlag

\* What is planted for a pair of the loop is a flag of its round.
LEMMA FlagOfType ==
    ASSUME TypeOK, NEW p \in unplanted
    PROVE  FlagOf(p) \in Flag /\ FlagOf(p).round = roundId
BY DEF TypeOK, Flag, FlagOf

\* Types that depend on the table only through its domain.
LEMMA SameDomain ==
    ASSUME DOMAIN rounds' = DOMAIN rounds
    PROVE  Flag' = Flag /\ Seed' = Seed /\ FlagMsg' = FlagMsg
BY DEF Flag, Seed, FlagMsg

\* The empty channel, at the start of the process.
LEMMA EmptyChannels ==
    /\ <<>> \in Seq(FlagMsg) /\ Len(<<>>) <= MailCap
    /\ <<>> \in Seq(DOMAIN rounds)
<1>1. <<>> \in Seq(FlagMsg) /\ <<>> \in Seq(DOMAIN rounds)
    BY EmptySeq
<1>2. Len(<<>>) <= MailCap
    BY ConstantsAssumption DEF ConstantsAssumption
<1>3. QED
    BY <1>1, <1>2

\* A database fresh from `init` and a process at its start are well typed.
LEMMA InitType == Init => TypeOK
<1> SUFFICES ASSUME Init PROVE TypeOK
    OBVIOUS
<1>1. rounds \in Seq(Row) /\ rounds # <<>> /\ DOMAIN rounds = {1}
    BY DEF Init, InitialRounds, Row
<1>2. FinishedRows(InitialRounds) \subseteq {1}
    BY DEF FinishedRows, InitialRounds
<1>3. script \in [flags : SUBSET Flag, rounds : SUBSET DOMAIN rounds,
                  scores : SUBSET DOMAIN rounds]
    BY <1>1, <1>2 DEF Init, Script
<1>4. /\ flagMail \in Seq(FlagMsg) /\ Len(flagMail) <= MailCap
      /\ scoreMail \in Seq(DOMAIN rounds) /\ hScore \in Seq(DOMAIN rounds)
    BY EmptyChannels DEF Init
<1>5. commands \in 0..MaxCommands /\ crashes \in 0..MaxCrashes
    BY ConstantsAssumption DEF ConstantsAssumption, Init
<1>6. roundId \in DOMAIN rounds /\ fbRound \in DOMAIN rounds
    BY <1>1 DEF Init
<1>7. QED
    BY <1>1, <1>3, <1>4, <1>5, <1>6 DEF Init, TypeOK, PCs

\* Every step preserves the types.  A row 1 that is finished is what makes the
\* queries of the table well defined.
LEMMA NextType ==
    ASSUME TypeOK, 1 \in FinishedRows(rounds), [Next]_vars
    PROVE  TypeOK'
<1> USE ConstantsAssumption DEF ConstantsAssumption
<1>1. LastFinished(rounds) \in DOMAIN rounds
    BY LastFinishedIsGreatest DEF TypeOK, FinishedRows
<1>2. ASSUME UNCHANGED rounds PROVE /\ DOMAIN rounds' = DOMAIN rounds /\ Seq(DOMAIN rounds)' = Seq(DOMAIN rounds)
                                    /\ Flag' = Flag /\ Seed' = Seed /\ FlagMsg' = FlagMsg
    BY <1>2, SameDomain
<1>3. CASE Crash
  <2>1. FinishedRows(rounds) \subseteq DOMAIN rounds /\ StoredFlags \subseteq Flag
      BY DEF FinishedRows, StoredFlags, TypeOK
  <2>2. UNCHANGED rounds
      BY <1>3 DEF Crash, db
  <2>3. script' \in [flags : SUBSET Flag, rounds : SUBSET DOMAIN rounds,
                     scores : SUBSET DOMAIN rounds]
      BY <1>3, <2>1 DEF Crash, Boot, Script
  <2>4. /\ flagMail' \in Seq(FlagMsg) /\ Len(flagMail') <= MailCap
        /\ scoreMail' \in Seq(DOMAIN rounds) /\ hScore' \in Seq(DOMAIN rounds)
      BY <1>3, EmptyChannels DEF Crash, Boot
  <2>5. commands' \in 0..MaxCommands /\ crashes' \in 0..MaxCrashes
      BY <1>3 DEF Crash, TypeOK
  <2>6. roundId' \in DOMAIN rounds /\ fbRound' \in DOMAIN rounds
      BY <1>1, <1>3 DEF Crash, Boot, ResumedRound
  <2>7. QED
      BY <1>2, <1>3, <2>2, <2>3, <2>4, <2>5, <2>6 DEF Crash, Boot, TypeOK, PCs, db
<1>4. CASE \E f \in script.flags : ReplayFlag(f)
  <2>1. PICK f \in script.flags : ReplayFlag(f)
      BY <1>4
  <2>2. f \in Flag
      BY DEF TypeOK
  <2>3. flagMail' \in Seq(FlagMsg) /\ Len(flagMail') <= MailCap
      BY <2>1, <2>2, MsgTypes, SendFlagbotType DEF ReplayFlag
  <2>4. UNCHANGED rounds
      BY <2>1 DEF ReplayFlag, db
  <2>5. QED
      BY <1>2, <2>1, <2>3, <2>4 DEF ReplayFlag, TypeOK, db, loopVars, flagbot
<1>5. CASE ReplayRound
  <2>0. script.rounds \subseteq DOMAIN rounds /\ DOMAIN rounds \subseteq Nat
      BY DEF TypeOK
  <2>1. FirstRow(script.rounds) \in DOMAIN rounds
      BY <1>5, <2>0, FirstRowIsLeast DEF ReplayRound
  <2>2. flagMail' \in Seq(FlagMsg) /\ Len(flagMail') <= MailCap
      BY <1>5, <2>1, MsgTypes, SendFlagbotType DEF ReplayRound
  <2>3. UNCHANGED rounds
      BY <1>5 DEF ReplayRound, db
  <2>4. QED
      BY <1>2, <1>5, <2>2, <2>3 DEF ReplayRound, TypeOK, db, loopVars, flagbot
<1>6. CASE ReplayScore
  <2>0. script.scores \subseteq DOMAIN rounds /\ DOMAIN rounds \subseteq Nat
      BY DEF TypeOK
  <2>1. FirstRow(script.scores) \in DOMAIN rounds
      BY <1>6, <2>0, FirstRowIsLeast DEF ReplayScore
  <2>2. scoreMail' \in Seq(DOMAIN rounds)
      BY <1>6, <2>1, SendScorebotType DEF ReplayScore
  <2>3. UNCHANGED rounds
      BY <1>6 DEF ReplayScore, db
  <2>4. QED
      BY <1>2, <1>6, <2>2, <2>3 DEF ReplayScore, TypeOK, db, loopVars, flagbot
<1>7. CASE SpawnGame
    BY <1>7, <1>2 DEF SpawnGame, TypeOK, PCs, db, gameVars, flagbot
<1>8. CASE Check
    BY <1>8, <1>2 DEF Check, TypeOK, PCs, db, gameVars, flagbot
<1>9. CASE AnnouncePause
  <2>1. flagMail' \in Seq(FlagMsg) /\ Len(flagMail') <= MailCap
      BY <1>9, MsgTypes, SendFlagbotType DEF AnnouncePause
  <2>2. UNCHANGED rounds
      BY <1>9 DEF AnnouncePause, db
  <2>3. QED
      BY <1>2, <1>9, <2>1, <2>2 DEF AnnouncePause, TypeOK, PCs, db, gameVars, flagbot
<1>10. CASE FinishAndPark
  <2>1. /\ rounds' \in Seq(Row) /\ rounds' # <<>> /\ DOMAIN rounds' = DOMAIN rounds
      BY <1>10, MarkFinishedRows DEF FinishAndPark, TypeOK
  <2>2. QED
      BY <1>10, <2>1, SameDomain DEF FinishAndPark, TypeOK, PCs, gameVars, flagbot
<1>11. CASE StopAtTotal
    BY <1>11, <1>2 DEF StopAtTotal, TypeOK, PCs, db, gameVars, flagbot
<1>12. CASE FinishRound
  <2>1. /\ rounds' \in Seq(Row) /\ rounds' # <<>> /\ DOMAIN rounds' = DOMAIN rounds
      BY <1>12, MarkFinishedRows DEF FinishRound, TypeOK
  <2>2. QED
      BY <1>12, <2>1, SameDomain DEF FinishRound, TypeOK, PCs, gameVars, flagbot
<1>13. CASE CreateRound
  <2>1. /\ rounds' \in Seq(Row) /\ rounds' # <<>>
        /\ DOMAIN rounds \subseteq DOMAIN rounds' /\ roundId' \in DOMAIN rounds'
    <3>1. rounds \in Seq(Row) /\ rounds' = StartNewRound(rounds) /\ roundId' = Len(rounds) + 1
        BY <1>13 DEF CreateRound, TypeOK
    <3>2. FinishedRows(rounds) # {}
        OBVIOUS
    <3>3. /\ rounds' \in Seq(Row) /\ Len(rounds') = Len(rounds) + 1
          /\ DOMAIN rounds' = DOMAIN rounds \cup {Len(rounds) + 1}
        BY <3>1, <3>2, StartNewRoundRows
    <3>4. Len(rounds') # 0
        BY <3>1, <3>3
    <3>5. QED
        BY <3>1, <3>3, <3>4
  <2>2. Flag \subseteq Flag' /\ Seed \subseteq Seed'
      BY <2>1 DEF Flag, Seed
  <2>3. FlagMsg \subseteq FlagMsg'
      BY <2>1, <2>2 DEF FlagMsg
  <2>4. flagMail \in Seq(FlagMsg') /\ scoreMail \in Seq(DOMAIN rounds')
        /\ hScore \in Seq(DOMAIN rounds')
      BY <2>1, <2>3, SeqMonotonic DEF TypeOK
  <2>5. script' \in [flags : SUBSET Flag', rounds : SUBSET DOMAIN rounds',
                     scores : SUBSET DOMAIN rounds']
      BY <1>13, <2>1, <2>2 DEF CreateRound, TypeOK, gameVars
  <2>6. QED
      BY <1>13, <2>1, <2>2, <2>4, <2>5 DEF CreateRound, TypeOK, PCs, gameVars, flagbot
<1>14. CASE TellScorebot
  <2>1. scoreMail' \in Seq(DOMAIN rounds)
      BY <1>14, SendScorebotType DEF TellScorebot, TypeOK
  <2>2. QED
      BY <1>2, <1>14, <2>1 DEF TellScorebot, TypeOK, PCs, db, gameVars, flagbot
<1>15. CASE TellFlagbot
  <2>1. flagMail' \in Seq(FlagMsg) /\ Len(flagMail') <= MailCap
      BY <1>15, MsgTypes, SendFlagbotType DEF TellFlagbot, TypeOK
  <2>2. QED
      BY <1>2, <1>15, <2>1 DEF TellFlagbot, TypeOK, PCs, db, gameVars, flagbot
<1>16. CASE \E t \in Teams, sv \in Services : SeedState(t, sv)
  <2>1. PICK t \in Teams, sv \in Services : SeedState(t, sv)
      BY <1>16
  <2>2. [round |-> roundId, team |-> t, service |-> sv] \in Seed
      BY DEF Seed, TypeOK
  <2>3. UNCHANGED rounds
      BY <2>1 DEF SeedState
  <2>4. QED
      BY <1>2, <2>1, <2>2, <2>3 DEF SeedState, TypeOK, gameVars, flagbot
<1>17. CASE \E p \in unplanted : StoreFlag(p) \/ HandOutFlag(p)
  <2>1. PICK p \in unplanted : StoreFlag(p) \/ HandOutFlag(p)
      BY <1>17
  <2>2. FlagOf(p) \in Flag
      BY FlagOfType
  <2>3. CASE StoreFlag(p)
    <3>1. flagStore' \subseteq Flag /\ UNCHANGED rounds
        BY <2>2, <2>3 DEF StoreFlag, TypeOK
    <3>2. QED
        BY <1>2, <2>3, <3>1 DEF StoreFlag, TypeOK, loopVars, gameVars, flagbot
  <2>4. CASE HandOutFlag(p)
    <3>1. flagMail' \in Seq(FlagMsg) /\ Len(flagMail') <= MailCap
        BY <2>2, <2>4, MsgTypes, SendFlagbotType DEF HandOutFlag
    <3>2. UNCHANGED rounds /\ unplanted' \subseteq unplanted
        BY <2>4 DEF HandOutFlag, db
    <3>3. QED
        BY <1>2, <2>4, <3>1, <3>2 DEF HandOutFlag, TypeOK, db, gameVars, flagbot
  <2>5. QED
      BY <2>1, <2>3, <2>4
<1>18. CASE SleepRound \/ EndOfRound \/ LoopFails
    BY <1>18, <1>2 DEF SleepRound, EndOfRound, LoopFails, TypeOK, PCs, db, gameVars, flagbot
<1>19. CASE ReceivePause \/ ReceiveStart
  <2>1. commands' \in 0..MaxCommands
      BY <1>19 DEF ReceivePause, ReceiveStart, TypeOK
  <2>2. QED
      BY <1>2, <1>19, <2>1 DEF ReceivePause, ReceiveStart, TypeOK, db, loopVars, flagbot
<1>20. CASE ForwardStart
  <2>1. flagMail' \in Seq(FlagMsg) /\ Len(flagMail') <= MailCap
      BY <1>20, MsgTypes, SendFlagbotType DEF ForwardStart
  <2>2. QED
      BY <1>2, <1>20, <2>1 DEF ForwardStart, TypeOK, db, loopVars, flagbot
<1>21. CASE NotifyLoop
    BY <1>21, <1>2 DEF NotifyLoop, TypeOK, PCs, db, flagbot
<1>22. CASE FlagbotHandle
  <2>1. PICK type \in {"UpdateRound", "NewFlag", "Start", "Pause"} : ReceiveFlagMsg(type)
      BY <1>22 DEF FlagbotHandle, FlagbotUpdateRound, FlagbotNewFlag, FlagbotStart, FlagbotPause
  <2>2. /\ flagMail' \in Seq(FlagMsg) /\ Len(flagMail') <= MailCap
        /\ UNCHANGED <<db, loopVars, gameVars, scoreMail, hScore, commands, crashes>>
      BY <2>1, ReceiveFlagMsgType DEF ReceiveFlagMsg
  <2>3. running' \in BOOLEAN /\ awake' \in BOOLEAN /\ fbRound' \in DOMAIN rounds /\ known' \subseteq Flag
    <3>1. CASE FlagbotUpdateRound
        BY <3>1, ReceiveFlagMsgType, FlagMsgContents DEF FlagbotUpdateRound, TypeOK
    <3>2. CASE FlagbotNewFlag
      <4>1. Head(flagMail).flag \in Flag
          BY <3>2, ReceiveFlagMsgType, FlagMsgContents DEF FlagbotNewFlag
      <4>2. QED
          BY <3>2, <4>1 DEF FlagbotNewFlag, TypeOK
    <3>3. CASE FlagbotStart \/ FlagbotPause
        BY <3>3 DEF FlagbotStart, FlagbotPause, TypeOK
    <3>4. QED
        BY <1>22, <3>1, <3>2, <3>3 DEF FlagbotHandle
  <2>4. QED
      BY <1>2, <2>2, <2>3 DEF TypeOK, db, loopVars, gameVars
<1>23. CASE ScorebotUpdateRound
  <2>1. Head(scoreMail) \in DOMAIN rounds /\ Tail(scoreMail) \in Seq(DOMAIN rounds)
      BY <1>23, HeadTailProperties DEF ScorebotUpdateRound, TypeOK
  <2>2. hScore' \in Seq(DOMAIN rounds)
    <3>1. Append(hScore, Head(scoreMail)) \in Seq(DOMAIN rounds)
        BY <2>1, AppendProperties DEF TypeOK
    <3>2. QED
        BY <1>23, <3>1 DEF ScorebotUpdateRound, TypeOK
  <2>3. QED
      BY <1>2, <1>23, <2>1, <2>2 DEF ScorebotUpdateRound, TypeOK, db, loopVars, gameVars, flagbot
<1>24. CASE UNCHANGED vars
    BY <1>2, <1>24 DEF vars, TypeOK, db, loopVars, gameVars, flagbot
<1>25. QED
    BY <1>3, <1>4, <1>5, <1>6, <1>7, <1>8, <1>9, <1>10, <1>11, <1>12, <1>13, <1>14, <1>15,
       <1>16, <1>17, <1>18, <1>19, <1>20, <1>21, <1>22, <1>23, <1>24
       DEF Next, Replay, ProgressGame, Handle, Command

-----------------------------------------------------------------------------

\* The inductive invariant of progress_game.
GameInv == TypeOK /\ LoopInv /\ FinishedNumbersContiguous /\ FinishedRoundsComplete

\* The invariant holds before the first round.
LEMMA InitInv == Init => GameInv
<1> SUFFICES ASSUME Init PROVE GameInv
    OBVIOUS
<1>1. rounds = <<[number |-> 0, finished |-> TRUE]>> /\ roundId = 1 /\ pc = "replay"
    BY DEF Init, InitialRounds
<1>2. FinishedRows(rounds) = {1}
    BY <1>1 DEF FinishedRows
<1>3. LoopInv /\ FinishedNumbersContiguous /\ FinishedRoundsComplete
    BY <1>1, <1>2 DEF LoopInv, NewestRound, SeedingProgress, FinishedNumbersContiguous,
                      FinishedRoundsComplete
<1>4. QED
    BY <1>3, InitType DEF GameInv

\* The only steps that touch the table: two that mark the loop's round and one
\* that adds a row.
LEMMA RoundsSteps ==
    ASSUME [Next]_vars
    PROVE  \/ UNCHANGED rounds
           \/ FinishAndPark \/ FinishRound
           \/ CreateRound
BY DEF Next, Replay, ReplayFlag, ReplayRound, ReplayScore, SpawnGame, ProgressGame, Check,
       AnnouncePause, StopAtTotal, TellScorebot, TellFlagbot, SeedState, StoreFlag, HandOutFlag, SleepRound,
       EndOfRound, LoopFails, Handle, ForwardStart, NotifyLoop, Command, ReceivePause,
       ReceiveStart, FlagbotHandle, FlagbotUpdateRound, FlagbotNewFlag, FlagbotStart,
       FlagbotPause, ReceiveFlagMsg, ScorebotUpdateRound, Crash, vars, db

\* The only steps that touch the loop's local round.
LEMMA RoundIdSteps ==
    ASSUME [Next]_vars
    PROVE  \/ UNCHANGED roundId
           \/ CreateRound
           \/ roundId' = LastFinished(rounds) /\ pc' = "replay" /\ UNCHANGED db
BY DEF Next, Replay, ReplayFlag, ReplayRound, ReplayScore, SpawnGame, ProgressGame, Check,
       AnnouncePause, FinishAndPark, StopAtTotal, FinishRound, TellScorebot, TellFlagbot,
       SeedState, StoreFlag, HandOutFlag, SleepRound, EndOfRound, LoopFails, Handle, ForwardStart,
       NotifyLoop, Command, ReceivePause, ReceiveStart, FlagbotHandle, FlagbotUpdateRound,
       FlagbotNewFlag, FlagbotStart, FlagbotPause, ReceiveFlagMsg, ScorebotUpdateRound,
       Crash, Boot, ResumedRound, vars, db, loopVars

\* Only FinishRound leads to the point where a row is created.
LEMMA CreateSteps ==
    ASSUME [Next]_vars, pc' = "create"
    PROVE  pc = "create" \/ FinishRound
BY DEF Next, Replay, ReplayFlag, ReplayRound, ReplayScore, SpawnGame, ProgressGame, Check,
       AnnouncePause, FinishAndPark, StopAtTotal, CreateRound, TellScorebot, TellFlagbot,
       SeedState, StoreFlag, HandOutFlag, SleepRound, EndOfRound, LoopFails, Handle, ForwardStart,
       NotifyLoop, Command, ReceivePause, ReceiveStart, FlagbotHandle, FlagbotUpdateRound,
       FlagbotNewFlag, FlagbotStart, FlagbotPause, ReceiveFlagMsg, ScorebotUpdateRound,
       Crash, Boot, ResumedRound, vars, db, loopVars

\* The journals only grow.
LEMMA JournalSteps ==
    ASSUME [Next]_vars
    PROVE  seeded \subseteq seeded' /\ flagStore \subseteq flagStore'
BY DEF Next, Replay, ReplayFlag, ReplayRound, ReplayScore, SpawnGame, ProgressGame, Check,
       AnnouncePause, FinishAndPark, StopAtTotal, FinishRound, CreateRound, TellScorebot,
       TellFlagbot, SeedState, StoreFlag, HandOutFlag, SleepRound, EndOfRound, LoopFails, Handle,
       ForwardStart, NotifyLoop, Command, ReceivePause, ReceiveStart, FlagbotHandle,
       FlagbotUpdateRound, FlagbotNewFlag, FlagbotStart, FlagbotPause, ReceiveFlagMsg,
       ScorebotUpdateRound, Crash, vars, db

\* A round that is set up completely stays so.
LEMMA CompleteGrows ==
    ASSUME NEW i, Complete(i), seeded \subseteq seeded', flagStore \subseteq flagStore'
    PROVE  Complete(i)'
BY DEF Complete

\* Marking the loop's round keeps the finished rounds contiguous.
LEMMA MarkKeepsNumbers ==
    ASSUME TypeOK, NewestRound, FinishedNumbersContiguous,
           rounds' = MarkFinished(rounds, roundId)
    PROVE  FinishedNumbersContiguous'
<1>1. /\ DOMAIN rounds' = DOMAIN rounds
      /\ \A j \in DOMAIN rounds : rounds'[j].number = rounds[j].number
      /\ FinishedRows(rounds') = FinishedRows(rounds) \cup {roundId}
    BY MarkFinishedRows, ZenonT(30) DEF TypeOK
<1>2. FinishedRows(rounds) \subseteq DOMAIN rounds /\ DOMAIN rounds \subseteq Nat
    BY DEF FinishedRows, TypeOK
<1>3. \A j \in DOMAIN rounds : rounds[j].number \in Nat
  <2>1. \A j \in DOMAIN rounds : rounds[j] \in Row
      BY DEF TypeOK
  <2>2. QED
      BY <2>1 DEF Row
<1>4. CASE rounds[roundId].finished
  <2>1. FinishedRows(rounds') = FinishedRows(rounds)
      BY <1>1, <1>4 DEF FinishedRows, TypeOK
  <2>2. QED
      BY <1>1, <1>2, <2>1 DEF FinishedNumbersContiguous
<1>5. CASE ~rounds[roundId].finished
  <2>1. PICK l \in FinishedRows(rounds) :
            /\ \A j \in FinishedRows(rounds) : j <= l
            /\ rounds[roundId].number = rounds[l].number + 1
      BY <1>5 DEF NewestRound
  <2>2. \A j \in FinishedRows(rounds) : rounds[j].number < rounds[roundId].number
      BY <1>2, <1>3, <2>1 DEF FinishedNumbersContiguous
  <2>3. roundId \in DOMAIN rounds /\ \A j \in FinishedRows(rounds) : j <= roundId
      BY DEF TypeOK, NewestRound
  <2>4. ASSUME NEW i \in FinishedRows(rounds'), NEW j \in FinishedRows(rounds'), i < j
        PROVE  rounds'[i].number < rounds'[j].number
    <3>1. CASE j = roundId
        BY <1>1, <1>2, <2>2, <2>3, <2>4, <3>1
    <3>2. CASE i = roundId
        BY <1>1, <1>2, <2>3, <2>4, <3>2
    <3>3. CASE i \in FinishedRows(rounds) /\ j \in FinishedRows(rounds)
        BY <1>1, <1>2, <2>4, <3>3 DEF FinishedNumbersContiguous
    <3>4. QED
        BY <1>1, <3>1, <3>2, <3>3
  <2>5. ASSUME NEW i \in FinishedRows(rounds'), rounds'[i].number # 0
        PROVE  \E j \in FinishedRows(rounds') : rounds'[j].number = rounds'[i].number - 1
    <3>1. CASE i = roundId
      <4>1. rounds'[l].number = rounds'[i].number - 1
          BY <1>1, <1>2, <1>3, <2>1, <2>3, <3>1
      <4>2. QED
          BY <1>1, <4>1
    <3>2. CASE i \in FinishedRows(rounds)
      <4>1. PICK j \in FinishedRows(rounds) : rounds[j].number = rounds[i].number - 1
          BY <1>1, <1>2, <2>5, <3>2 DEF FinishedNumbersContiguous
      <4>2. QED
          BY <1>1, <1>2, <3>2, <4>1
    <3>3. QED
        BY <1>1, <3>1, <3>2
  <2>6. QED
      BY <2>4, <2>5 DEF FinishedNumbersContiguous
<1>6. QED
    BY <1>4, <1>5

\* Every step keeps the finished rounds contiguous.
LEMMA NextNumbers ==
    ASSUME GameInv, [Next]_vars
    PROVE  FinishedNumbersContiguous'
<1> USE DEF GameInv, LoopInv
<1>1. CASE UNCHANGED rounds
    BY <1>1 DEF FinishedNumbersContiguous
<1>2. CASE FinishAndPark \/ FinishRound
    BY <1>2, MarkKeepsNumbers DEF FinishAndPark, FinishRound
<1>3. CASE CreateRound
  <2>1. /\ \A j \in DOMAIN rounds : rounds'[j] = rounds[j]
        /\ FinishedRows(rounds') = FinishedRows(rounds)
      BY <1>3, StartNewRoundRows DEF CreateRound, TypeOK, NewestRound
  <2>2. FinishedRows(rounds) \subseteq DOMAIN rounds
      BY DEF FinishedRows
  <2>3. QED
      BY <2>1, <2>2 DEF FinishedNumbersContiguous
<1>4. QED
    BY <1>1, <1>2, <1>3, RoundsSteps

\* Every step keeps the finished rounds complete: the only row that is ever
\* marked is the loop's, where SeedingProgress holds.
LEMMA NextComplete ==
    ASSUME GameInv, [Next]_vars
    PROVE  FinishedRoundsComplete'
<1> USE DEF GameInv, LoopInv
<1>1. \A i : Complete(i) => Complete(i)'
    BY JournalSteps, CompleteGrows
<1>2. CASE UNCHANGED rounds \/ CreateRound
  <2>1. FinishedRows(rounds') = FinishedRows(rounds)
      BY <1>2, StartNewRoundRows DEF CreateRound, TypeOK, NewestRound
  <2>2. QED
      BY <1>1, <2>1 DEF FinishedRoundsComplete
<1>3. CASE FinishAndPark \/ FinishRound
  <2>1. FinishedRows(rounds') = FinishedRows(rounds) \cup {roundId}
      BY <1>3, MarkFinishedRows DEF FinishAndPark, FinishRound, TypeOK
  <2>2. roundId = 1 \/ Complete(roundId)
      BY <1>3 DEF FinishAndPark, FinishRound, SeedingProgress
  <2>3. Complete(roundId) => Complete(roundId)'
      BY <1>3 DEF FinishAndPark, FinishRound, Complete
  <2>4. ASSUME NEW i \in FinishedRows(rounds') \ {1} PROVE Complete(i)'
    <3>1. CASE i \in FinishedRows(rounds)
        BY <1>1, <2>4, <3>1 DEF FinishedRoundsComplete
    <3>2. CASE i = roundId
      <4>1. Complete(i)
          BY <2>2, <2>4, <3>2
      <4>2. QED
          BY <1>1, <4>1
    <3>3. QED
        BY <2>1, <3>1, <3>2
  <2>5. QED
      BY <2>4 DEF FinishedRoundsComplete
<1>4. QED
    BY <1>2, <1>3, RoundsSteps

\* Every step keeps the loop's round the newest one.
LEMMA NextNewestRound ==
    ASSUME GameInv, [Next]_vars
    PROVE  NewestRound'
<1> USE DEF GameInv, LoopInv
<1>0. /\ FinishedRows(rounds) \subseteq DOMAIN rounds /\ DOMAIN rounds \subseteq Nat
      /\ roundId \in DOMAIN rounds
    BY DEF FinishedRows, TypeOK
<1>1. CASE FinishAndPark \/ FinishRound
  <2>1. /\ DOMAIN rounds' = DOMAIN rounds
        /\ FinishedRows(rounds') = FinishedRows(rounds) \cup {roundId}
        /\ rounds'[roundId].finished
        /\ roundId' = roundId
      BY <1>1, MarkFinishedRows DEF FinishAndPark, FinishRound, TypeOK
  <2>2. QED
      BY <1>0, <2>1 DEF NewestRound
<1>2. CASE CreateRound
  <2>1. /\ rounds[roundId].finished /\ roundId \in FinishedRows(rounds)
        /\ LastFinished(rounds) = roundId
      BY <1>0, <1>2, LastFinishedUnique DEF CreateRound, NewestRound, FinishedRows, TypeOK
  <2>2. /\ \A j \in DOMAIN rounds : rounds'[j] = rounds[j]
        /\ FinishedRows(rounds') = FinishedRows(rounds)
        /\ rounds'[roundId'].number = rounds[roundId].number + 1
        /\ roundId' = Len(rounds) + 1 /\ pc' = "tellScore"
    <3>1. rounds \in Seq(Row) /\ FinishedRows(rounds) # {}
        BY <2>1 DEF TypeOK
    <3>2. rounds' = StartNewRound(rounds) /\ roundId' = Len(rounds) + 1 /\ pc' = "tellScore"
        BY <1>2 DEF CreateRound
    <3>3. QED
        BY <2>1, <3>1, <3>2, StartNewRoundRows
  <2>3. DOMAIN rounds = 1..Len(rounds) /\ Len(rounds) \in Nat
      BY DEF TypeOK
  <2>4. \A j \in FinishedRows(rounds') : j <= roundId'
      BY <1>0, <2>2, <2>3
  <2>5. /\ roundId \in FinishedRows(rounds') /\ \A j \in FinishedRows(rounds') : j <= roundId
        /\ rounds'[roundId'].number = rounds'[roundId].number + 1
      BY <1>0, <2>1, <2>2 DEF NewestRound
  <2>6. 1 \in FinishedRows(rounds') /\ pc' # "create"
      BY <2>2 DEF NewestRound
  <2>7. QED
      BY <2>4, <2>5, <2>6 DEF NewestRound
<1>3. CASE roundId' = LastFinished(rounds) /\ pc' = "replay" /\ UNCHANGED db
  <2>1. /\ LastFinished(rounds) \in FinishedRows(rounds)
        /\ \A j \in FinishedRows(rounds) : j <= LastFinished(rounds)
      BY LastFinishedIsGreatest DEF TypeOK, NewestRound
  <2>2. UNCHANGED rounds /\ rounds[LastFinished(rounds)].finished
      BY <1>3, <2>1 DEF db, FinishedRows
  <2>3. QED
      BY <1>3, <2>1, <2>2 DEF NewestRound
<1>4. CASE UNCHANGED rounds /\ UNCHANGED roundId
  <2>1. pc' = "create" => pc = "create" \/ FinishRound
      BY CreateSteps
  <2>2. QED
      BY <1>1, <1>4, <2>1 DEF NewestRound
<1>5. QED
    BY <1>1, <1>2, <1>3, <1>4, RoundsSteps, RoundIdSteps

\* What a step may do to the seeding: the cases of SeedingProgress by the
\* place the loop goes to.
LEMMA NextSeeding ==
    ASSUME GameInv, [Next]_vars
    PROVE  SeedingProgress'
<1> USE DEF GameInv, LoopInv
<1> DEFINE Settled == {"replay", "nap", "decide", "pausing", "marking", "sleep", "parked"}
<1>0. \A i : Complete(i) => Complete(i)'
    BY JournalSteps, CompleteGrows
<1>1. CASE CreateRound \/ TellScorebot
    BY <1>1 DEF CreateRound, TellScorebot, SeedingProgress
<1>2. CASE TellFlagbot
  <2>1. pc' = "seed" /\ unseeded' = Teams \X Services
      BY <1>2 DEF TellFlagbot
  <2>2. \A s \in Slots : SlotService[s] \in Services
      BY ConstantsAssumption DEF ConstantsAssumption
  <2>3. QED
      BY <2>1, <2>2 DEF SeedingProgress
<1>3. CASE \E t \in Teams, sv \in Services : SeedState(t, sv)
  <2>1. PICK t \in Teams, sv \in Services : SeedState(t, sv)
      BY <1>3
  <2>2. /\ pc = "seed" /\ pc' = "seed" /\ roundId' = roundId /\ unplanted = {}
        /\ seeded' = seeded \cup {[round |-> roundId, team |-> t, service |-> sv]}
        /\ unseeded' = unseeded \ {<<t, sv>>} /\ flagStore' = flagStore
        /\ unplanted' = {t} \X {s \in Slots : SlotService[s] = sv}
      BY <2>1 DEF SeedState
  <2>3. ASSUME NEW t2 \in Teams, NEW sv2 \in Services
        PROVE  <<t2, sv2>> \in unseeded'
               \/ [round |-> roundId', team |-> t2, service |-> sv2] \in seeded'
      BY <2>2 DEF SeedingProgress
  <2>4. ASSUME NEW t2 \in Teams, NEW s \in Slots
        PROVE  \/ <<t2, SlotService[s]>> \in unseeded'
               \/ <<t2, s>> \in unplanted'
               \/ [round |-> roundId', team |-> t2, slot |-> s] \in flagStore'
      BY <2>2 DEF SeedingProgress
  <2>5. QED
      BY <2>2, <2>3, <2>4 DEF SeedingProgress
<1>4. CASE \E p \in unplanted : StoreFlag(p) \/ HandOutFlag(p)
  <2>1. PICK p \in unplanted : StoreFlag(p) \/ HandOutFlag(p)
      BY <1>4
  <2>2. /\ pc = "seed" /\ pc' = "seed" /\ UNCHANGED <<roundId, unseeded, seeded>>
        /\ flagStore \subseteq flagStore'
        /\ \/ unplanted' = unplanted
           \/ unplanted' = unplanted \ {p} /\ FlagOf(p) \in flagStore
      BY <2>1 DEF StoreFlag, HandOutFlag, Stored, db, loopVars
  <2>3. ASSUME NEW t2 \in Teams, NEW s2 \in Slots
        PROVE  \/ <<t2, SlotService[s2]>> \in unseeded'
               \/ <<t2, s2>> \in unplanted'
               \/ [round |-> roundId', team |-> t2, slot |-> s2] \in flagStore'
    <3>1. CASE p = <<t2, s2>>
        BY <2>2, <3>1 DEF SeedingProgress, FlagOf
    <3>2. CASE p # <<t2, s2>>
        BY <2>2, <3>2 DEF SeedingProgress
    <3>3. QED
        BY <3>1, <3>2
  <2>4. QED
      BY <2>2, <2>3 DEF SeedingProgress
<1>5. CASE SleepRound
    BY <1>5, ConstantsAssumption
       DEF ConstantsAssumption, SleepRound, SeedingProgress, Complete, db
<1>6. CASE Crash
  <2>1. LastFinished(rounds) \in FinishedRows(rounds)
      BY LastFinishedIsGreatest DEF TypeOK, NewestRound
  <2>2. LastFinished(rounds) = 1 \/ Complete(LastFinished(rounds))
      BY <2>1 DEF FinishedRoundsComplete
  <2>3. roundId' = LastFinished(rounds) /\ pc' = "replay"
      BY <1>6 DEF Crash, Boot, ResumedRound
  <2>4. QED
      BY <1>0, <2>2, <2>3 DEF SeedingProgress
<1>7. CASE /\ UNCHANGED <<roundId, seeded, flagStore, unseeded, unplanted>>
           /\ pc' = "seed" => pc = "seed"
           /\ pc' \in Settled => pc \in Settled
    BY <1>0, <1>7 DEF SeedingProgress, Complete
<1>8. QED
  <2>1. CASE Replay \/ Check \/ AnnouncePause \/ FinishAndPark \/ StopAtTotal \/ FinishRound
             \/ EndOfRound \/ LoopFails \/ UNCHANGED vars
      BY <1>7, <2>1 DEF Replay, ReplayFlag, ReplayRound, ReplayScore, SpawnGame, Check,
         AnnouncePause, FinishAndPark, StopAtTotal, FinishRound, EndOfRound, LoopFails,
         vars, db, loopVars
  <2>2. CASE Handle \/ Command \/ FlagbotHandle \/ ScorebotUpdateRound
      BY <1>7, <2>2 DEF Handle, ForwardStart, NotifyLoop, Command, ReceivePause, ReceiveStart,
         FlagbotHandle, FlagbotUpdateRound, FlagbotNewFlag, FlagbotStart, FlagbotPause,
         ReceiveFlagMsg, ScorebotUpdateRound, db, loopVars
  <2>3. QED
      BY <1>1, <1>2, <1>3, <1>4, <1>5, <1>6, <2>1, <2>2 DEF Next, ProgressGame

\* The inductive step.
LEMMA NextInv ==
    ASSUME GameInv, [Next]_vars
    PROVE  GameInv'
<1>1. TypeOK'
    BY NextType DEF GameInv, LoopInv, NewestRound
<1>2. LoopInv'
    BY NextNewestRound, NextSeeding DEF LoopInv
<1>3. QED
    BY <1>1, <1>2, NextNumbers, NextComplete DEF GameInv

\* The inductive invariant holds in every reachable state: types, the loop's
\* round and its seeding, the numbers and the contents of the finished rounds.
THEOREM GameInvariance == Spec => []GameInv
<1>1. Init => GameInv
    BY InitInv
<1>2. GameInv /\ [Next]_vars => GameInv'
    BY NextInv
<1>3. QED
    BY <1>1, <1>2, PTL DEF Spec

\* Every variable of the game, its bots and its tables keeps its type: in
\* particular no query of the rounds table, no message and no journal entry
\* ever refers to a row that does not exist.
THEOREM TypeCorrectness == Spec => []TypeOK
<1>1. GameInv => TypeOK
    BY DEF GameInv
<1>2. QED
    BY <1>1, GameInvariance, PTL

\* Whatever the admin does and wherever the process crashes, finished rounds
\* are numbered without gaps and without repetition (db.rs start_new_round).
THEOREM NumbersContiguous == Spec => []FinishedNumbersContiguous
<1>1. GameInv => FinishedNumbersContiguous
    BY DEF GameInv
<1>2. QED
    BY <1>1, GameInvariance, PTL

\* A round that is marked finished, by the pause or by the next round, has all
\* its Initial states and all its flags in the database (dump.rs relies on it).
THEOREM RoundsComplete == Spec => []FinishedRoundsComplete
<1>1. GameInv => FinishedRoundsComplete
    BY DEF GameInv
<1>2. QED
    BY <1>1, GameInvariance, PTL

\* The loop's own round is always the newest playable one, and seeding leaves
\* nothing out.
THEOREM LoopInvariance == Spec => []LoopInv
<1>1. GameInv => LoopInv
    BY DEF GameInv
<1>2. QED
    BY <1>1, GameInvariance, PTL

\* Row i is not finished and the loop is not playing it.
Abandoned(i) == i \in DOMAIN rounds /\ ~rounds[i].finished /\ i # roundId

\* The process starts with a finished round.
StartsFinished == pc = "replay" => rounds[roundId].finished

LEMMA StartsFinishedStep ==
    ASSUME GameInv, StartsFinished, [Next]_vars
    PROVE  StartsFinished'
<1>1. /\ rounds \in Seq(Row) /\ FinishedRows(rounds) # {} /\ roundId \in DOMAIN rounds
    BY DEF GameInv, LoopInv, NewestRound, TypeOK
<1>2. SUFFICES ASSUME pc' = "replay" PROVE rounds'[roundId'].finished
    BY DEF StartsFinished
<1>3. CASE Crash
  <2>1. roundId' = LastFinished(rounds) /\ UNCHANGED rounds
      BY <1>3 DEF Crash, Boot, ResumedRound, db
  <2>2. QED
      BY <1>1, <2>1, LastFinishedIsGreatest DEF FinishedRows
<1>4. CASE pc = "replay" /\ UNCHANGED <<rounds, roundId>>
    BY <1>4 DEF StartsFinished
<1>5. QED
    BY <1>2, <1>3, <1>4 DEF Next, Replay, ReplayFlag, ReplayRound, ReplayScore, SpawnGame,
       ProgressGame, Check, AnnouncePause, FinishAndPark, StopAtTotal, FinishRound, CreateRound,
       TellScorebot, TellFlagbot, SeedState, StoreFlag, HandOutFlag, SleepRound, EndOfRound,
       LoopFails, Handle, ForwardStart, NotifyLoop, Command, ReceivePause, ReceiveStart,
       FlagbotHandle, FlagbotUpdateRound, FlagbotNewFlag, FlagbotStart, FlagbotPause,
       ReceiveFlagMsg, ScorebotUpdateRound, vars, db, loopVars

\* What is not finished and not played is not played again, and so never marked.
LEMMA AbandonedStep ==
    ASSUME GameInv, NEW i, Abandoned(i), [Next]_vars
    PROVE  Abandoned(i)'
<1>1. /\ rounds \in Seq(Row) /\ FinishedRows(rounds) # {} /\ roundId \in DOMAIN rounds
      /\ i \in DOMAIN rounds /\ i \notin FinishedRows(rounds) /\ i # roundId
    BY DEF GameInv, LoopInv, NewestRound, TypeOK, Abandoned, FinishedRows
<1>2. i \in DOMAIN rounds' /\ ~rounds'[i].finished
  <2>1. CASE FinishAndPark \/ FinishRound
    <3>1. rounds' = MarkFinished(rounds, roundId)
        BY <2>1 DEF FinishAndPark, FinishRound
    <3>2. DOMAIN rounds' = DOMAIN rounds
          /\ FinishedRows(rounds') = FinishedRows(rounds) \cup {roundId}
        BY <1>1, <3>1, MarkFinishedRows
    <3>3. QED
        BY <1>1, <3>2 DEF FinishedRows
  <2>2. CASE CreateRound
    <3>1. /\ DOMAIN rounds' = DOMAIN rounds \cup {Len(rounds) + 1}
          /\ \A j \in DOMAIN rounds : rounds'[j] = rounds[j]
        BY <1>1, <2>2, StartNewRoundRows DEF CreateRound
    <3>2. QED
        BY <1>1, <3>1 DEF FinishedRows
  <2>3. CASE UNCHANGED rounds
      BY <1>1, <2>3 DEF FinishedRows
  <2>4. QED
      BY <2>1, <2>2, <2>3, RoundsSteps
<1>3. i # roundId'
  <2>1. CASE CreateRound
    <3>1. roundId' = Len(rounds) + 1
        BY <2>1 DEF CreateRound
    <3>2. QED
        BY <1>1, <3>1
  <2>2. CASE roundId' = LastFinished(rounds)
      BY <1>1, <2>2, LastFinishedIsGreatest
  <2>3. QED
      BY <1>1, <2>1, <2>2, RoundIdSteps
<1>4. QED
    BY <1>2, <1>3 DEF Abandoned

\* A round that some process left unfinished stays so for ever, in whatever order
\* later processes pause, crash and open rounds: the loop never plays it again
\* (game.rs Game::new, mark_round_as_finished).
THEOREM AbandonedRounds == Spec => AbandonedStayUnfinished
<1>1. Init => StartsFinished
    BY DEF Init, StartsFinished, InitialRounds
<1>2. Spec => []StartsFinished
    BY <1>1, StartsFinishedStep, GameInvariance, PTL DEF Spec
<1>3. ASSUME NEW i \in 1..MaxRows
      PROVE  Spec => [](   pc = "replay" /\ i \in DOMAIN rounds /\ ~rounds[i].finished
                        => [](i \in DOMAIN rounds /\ ~rounds[i].finished))
  <2>1. StartsFinished /\ pc = "replay" /\ i \in DOMAIN rounds /\ ~rounds[i].finished
        => Abandoned(i)
      BY DEF StartsFinished, Abandoned
  <2>2. GameInv /\ Abandoned(i) /\ [Next]_vars => Abandoned(i)'
      BY AbandonedStep
  <2>3. Abandoned(i) => i \in DOMAIN rounds /\ ~rounds[i].finished
      BY DEF Abandoned
  <2>4. QED
      BY <1>2, <2>1, <2>2, <2>3, GameInvariance, PTL DEF Spec
<1>4. QED
    BY <1>3 DEF AbandonedStayUnfinished

-----------------------------------------------------------------------------
(* What the game's messages make the bots believe: the flagbot subtracts only
   numbers whose difference is natural, and serves flags that fit its round; the
   scorebot's history is the rounds played; and the loop opens no round beyond
   the total before it has stopped. *)


\* Finished, or the loop's round; what a crash abandoned does not count.
Counts(i) == i \in FinishedRows(rounds) \/ i = roundId

\* What a message says of rounds that count.
MsgCounts(m) == /\ m.type = "UpdateRound" => Counts(m.round)
                /\ m.type = "NewFlag" => Counts(m.flag.round)

\* The flagbot is told of rounds that count, and of their flags.
ToldRoundsCount ==
    /\ Counts(fbRound)
    /\ \A f \in known : Counts(f.round)
    /\ \A k \in DOMAIN flagMail : MsgCounts(flagMail[k])
    /\ \A f \in script.flags : Counts(f.round)
    /\ \A i \in script.rounds : Counts(i)

\* Where a round is opened after the final one, the loop has stopped before.
StoppedBeforeOvertime ==
    pc = "create" /\ rounds[roundId].number = TotalRound => stoppedOnce

\* A round that counts goes on counting, until a crash abandons it.
LEMMA CountsStays ==
    ASSUME GameInv, [Next]_vars, ~Crash, NEW i, Counts(i)
    PROVE  Counts(i)'
<1> USE DEF GameInv, LoopInv
<1>1. CASE UNCHANGED rounds /\ UNCHANGED roundId
    BY <1>1 DEF Counts
<1>2. CASE FinishAndPark \/ FinishRound
  <2>1. FinishedRows(rounds') = FinishedRows(rounds) \cup {roundId} /\ roundId' = roundId
      BY <1>2, MarkFinishedRows DEF FinishAndPark, FinishRound, TypeOK
  <2>2. QED
      BY <2>1 DEF Counts
<1>3. CASE CreateRound
  <2>1. rounds \in Seq(Row) /\ FinishedRows(rounds) # {} /\ rounds' = StartNewRound(rounds)
      BY <1>3 DEF CreateRound, TypeOK, NewestRound
  <2>2. FinishedRows(rounds') = FinishedRows(rounds)
      BY <2>1, StartNewRoundRows
  <2>3. roundId \in FinishedRows(rounds)
      BY <1>3 DEF CreateRound, TypeOK, NewestRound, FinishedRows
  <2>4. QED
      BY <2>2, <2>3 DEF Counts
<1>4. QED
  <2>1. UNCHANGED roundId \/ CreateRound
      BY DEF Next, Replay, ReplayFlag, ReplayRound, ReplayScore, SpawnGame, ProgressGame, Check,
       AnnouncePause, FinishAndPark, StopAtTotal, FinishRound, TellScorebot, TellFlagbot,
       SeedState, StoreFlag, HandOutFlag, SleepRound, EndOfRound, LoopFails, Handle, ForwardStart,
       NotifyLoop, Command, ReceivePause, ReceiveStart, FlagbotHandle, FlagbotUpdateRound,
       FlagbotNewFlag, FlagbotStart, FlagbotPause, ReceiveFlagMsg, ScorebotUpdateRound,
       vars, db, loopVars
  <2>2. QED
      BY <1>1, <1>2, <1>3, <2>1, RoundsSteps

\* Among the rounds that count, numbers grow with ids.
LEMMA NumbersGrow ==
    ASSUME GameInv, NEW i, NEW j, Counts(i), Counts(j), i <= j
    PROVE  rounds[i].number <= rounds[j].number
<1> USE DEF GameInv, LoopInv
<1>1. /\ DOMAIN rounds \subseteq Nat /\ FinishedRows(rounds) \subseteq DOMAIN rounds
      /\ roundId \in DOMAIN rounds /\ \A l \in FinishedRows(rounds) : l <= roundId
    BY DEF TypeOK, FinishedRows, NewestRound
<1>2. \A l \in DOMAIN rounds : rounds[l].number \in Nat
  <2>1. \A l \in DOMAIN rounds : rounds[l] \in Row
      BY DEF TypeOK
  <2>2. QED
      BY <2>1 DEF Row
<1>3. i \in DOMAIN rounds /\ j \in DOMAIN rounds
    BY <1>1 DEF Counts
<1>4. CASE i = j
    BY <1>2, <1>3, <1>4
<1>5. CASE i < j /\ i \in FinishedRows(rounds) /\ j \in FinishedRows(rounds)
    BY <1>2, <1>3, <1>5 DEF FinishedNumbersContiguous
<1>6. CASE i < j /\ i \in FinishedRows(rounds) /\ j = roundId /\ ~rounds[roundId].finished
  <2>1. PICK l \in FinishedRows(rounds) :
            /\ \A k \in FinishedRows(rounds) : k <= l
            /\ rounds[roundId].number = rounds[l].number + 1
      BY <1>6 DEF NewestRound
  <2>2. l \in DOMAIN rounds /\ (i = l \/ rounds[i].number < rounds[l].number)
      BY <1>1, <1>3, <1>6, <2>1 DEF FinishedNumbersContiguous
  <2>3. QED
      BY <1>2, <1>3, <1>6, <2>1, <2>2
<1>7. i = j \/ i < j
    BY <1>1, <1>3
<1>8. j = roundId /\ rounds[roundId].finished => j \in FinishedRows(rounds)
    BY <1>1 DEF FinishedRows
<1>9. i < j => i \in FinishedRows(rounds)
    BY <1>1, <1>3 DEF Counts
<1>10. QED
    BY <1>4, <1>5, <1>6, <1>7, <1>8, <1>9 DEF Counts

\* Only a running loop that passes the final round gets to create one.
LEMMA OvertimeStep ==
    ASSUME GameInv, StoppedBeforeOvertime, [Next]_vars
    PROVE  StoppedBeforeOvertime'
<1> USE DEF GameInv, LoopInv
<1>1. CASE FinishRound
  <2>1. rounds'[roundId].number = rounds[roundId].number
      BY <1>1, MarkFinishedRows DEF FinishRound, TypeOK
  <2>2. QED
      BY <1>1, <2>1 DEF FinishRound, FinalRound, StoppedBeforeOvertime
<1>2. CASE pc' = "create" /\ pc = "create"
  <2>1. UNCHANGED <<rounds, roundId, stoppedOnce>>
      BY <1>2 DEF Next, Replay, ReplayFlag, ReplayRound, ReplayScore, SpawnGame, ProgressGame,
       Check, AnnouncePause, FinishAndPark, StopAtTotal, FinishRound, CreateRound, TellScorebot,
       TellFlagbot, SeedState, StoreFlag, HandOutFlag, SleepRound, EndOfRound, LoopFails, Handle,
       ForwardStart, NotifyLoop, Command, ReceivePause, ReceiveStart, FlagbotHandle,
       FlagbotUpdateRound, FlagbotNewFlag, FlagbotStart, FlagbotPause, ReceiveFlagMsg,
       ScorebotUpdateRound, Crash, Boot, vars, db, loopVars
  <2>2. QED
      BY <1>2, <2>1 DEF StoppedBeforeOvertime
<1>3. QED
    BY <1>1, <1>2, CreateSteps DEF StoppedBeforeOvertime

\* A sent message counts: the channel goes on holding rounds that count.
LEMMA SendCounts ==
    ASSUME TypeOK, NEW m \in FlagMsg, SendFlagbot(m), MsgCounts(m),
           \A k \in DOMAIN flagMail : MsgCounts(flagMail[k])
    PROVE  \A k \in DOMAIN flagMail' : MsgCounts(flagMail'[k])
<1>1. flagMail \in Seq(FlagMsg) /\ flagMail' = Append(flagMail, m)
    BY DEF TypeOK, SendFlagbot
<1>2. \A k \in DOMAIN flagMail' :
          \/ k \in DOMAIN flagMail /\ flagMail'[k] = flagMail[k]
          \/ flagMail'[k] = m
    BY <1>1
<1>3. QED
    BY <1>2

\* So does what is left when one is received, and the one received counted.
LEMMA ReceiveCounts ==
    ASSUME TypeOK, NEW type, ReceiveFlagMsg(type),
           \A k \in DOMAIN flagMail : MsgCounts(flagMail[k])
    PROVE  /\ MsgCounts(Head(flagMail))
           /\ \A k \in DOMAIN flagMail' : MsgCounts(flagMail'[k])
<1>1. flagMail \in Seq(FlagMsg) /\ flagMail # <<>> /\ flagMail' = Tail(flagMail)
    BY DEF TypeOK, ReceiveFlagMsg
<1>2. /\ 1 \in DOMAIN flagMail /\ Head(flagMail) = flagMail[1]
      /\ \A k \in DOMAIN flagMail' : k + 1 \in DOMAIN flagMail /\ flagMail'[k] = flagMail[k + 1]
    BY <1>1
<1>3. QED
    BY <1>2

\* What a step tells the flagbot counts already before the step.
LEMMA ToldStep ==
    ASSUME GameInv, ToldRoundsCount, [Next]_vars, ~Crash
    PROVE  /\ Counts(fbRound')
           /\ \A f \in known' : Counts(f.round)
           /\ \A k \in DOMAIN flagMail' : MsgCounts(flagMail'[k])
           /\ \A f \in script'.flags : Counts(f.round)
           /\ \A i \in script'.rounds : Counts(i)
<1> USE DEF GameInv, ToldRoundsCount
<1>0. /\ script \in [flags : SUBSET Flag, rounds : SUBSET DOMAIN rounds,
                     scores : SUBSET DOMAIN rounds]
      /\ DOMAIN rounds \subseteq Nat /\ Counts(roundId)
    BY DEF TypeOK, Counts
<1>1. CASE \E f \in script.flags : ReplayFlag(f)
  <2>1. PICK f \in script.flags : ReplayFlag(f)
      BY <1>1
  <2>2. NewFlag(f) \in FlagMsg /\ MsgCounts(NewFlag(f)) /\ SendFlagbot(NewFlag(f))
      BY <1>0, <2>1, MsgTypes DEF ReplayFlag, NewFlag, MsgCounts
  <2>3. \A k \in DOMAIN flagMail' : MsgCounts(flagMail'[k])
      BY <2>2, SendCounts
  <2>4. QED
      BY <1>0, <2>1, <2>3 DEF ReplayFlag, flagbot
<1>2. CASE ReplayRound
  <2> DEFINE i == FirstRow(script.rounds)
  <2>1. i \in script.rounds
      BY <1>0, <1>2, FirstRowIsLeast DEF ReplayRound
  <2>2. UpdateRound(i) \in FlagMsg /\ MsgCounts(UpdateRound(i)) /\ SendFlagbot(UpdateRound(i))
    <3>1. SendFlagbot(UpdateRound(i))
        BY <1>2 DEF ReplayRound
    <3> HIDE DEF i
    <3>2. QED
        BY <1>0, <2>1, <3>1, MsgTypes DEF UpdateRound, MsgCounts
  <2>3. \A k \in DOMAIN flagMail' : MsgCounts(flagMail'[k])
    <3> HIDE DEF i
    <3>1. QED
        BY <2>2, SendCounts
  <2>4. QED
      BY <1>0, <1>2, <2>3 DEF ReplayRound, flagbot
<1>3. CASE AnnouncePause \/ ForwardStart
  <2>1. PICK m \in {Start, Pause} : SendFlagbot(m)
      BY <1>3 DEF AnnouncePause, ForwardStart
  <2>2. m \in FlagMsg /\ MsgCounts(m)
      BY MsgTypes DEF MsgCounts, Start, Pause
  <2>3. \A k \in DOMAIN flagMail' : MsgCounts(flagMail'[k])
      BY <2>1, <2>2, SendCounts
  <2>4. UNCHANGED <<fbRound, known, script>>
      BY <1>3 DEF AnnouncePause, ForwardStart, flagbot, gameVars
  <2>5. QED
      BY <2>3, <2>4
<1>4. CASE TellFlagbot
  <2>1. UpdateRound(roundId) \in FlagMsg /\ MsgCounts(UpdateRound(roundId))
      BY <1>0, MsgTypes DEF TypeOK, UpdateRound, MsgCounts
  <2>2. \A k \in DOMAIN flagMail' : MsgCounts(flagMail'[k])
      BY <1>4, <2>1, SendCounts DEF TellFlagbot
  <2>3. QED
      BY <1>4, <2>2 DEF TellFlagbot, flagbot, gameVars
<1>5. CASE \E p \in unplanted : HandOutFlag(p)
  <2>1. PICK p \in unplanted : HandOutFlag(p)
      BY <1>5
  <2>2. FlagOf(p) \in Flag /\ FlagOf(p).round = roundId
      BY FlagOfType
  <2>3. NewFlag(FlagOf(p)) \in FlagMsg /\ MsgCounts(NewFlag(FlagOf(p)))
      BY <1>0, <2>2, MsgTypes DEF NewFlag, MsgCounts
  <2>4. \A k \in DOMAIN flagMail' : MsgCounts(flagMail'[k])
      BY <2>1, <2>3, SendCounts DEF HandOutFlag
  <2>5. QED
      BY <2>1, <2>4 DEF HandOutFlag, flagbot, gameVars
<1>6. CASE FlagbotHandle
  <2>1. PICK type \in {"UpdateRound", "NewFlag", "Start", "Pause"} : ReceiveFlagMsg(type)
      BY <1>6 DEF FlagbotHandle, FlagbotUpdateRound, FlagbotNewFlag, FlagbotStart, FlagbotPause
  <2>2. /\ MsgCounts(Head(flagMail)) /\ UNCHANGED script
        /\ \A k \in DOMAIN flagMail' : MsgCounts(flagMail'[k])
      BY <2>1, ReceiveCounts DEF ReceiveFlagMsg, gameVars
  <2>3. Counts(fbRound') /\ \A f \in known' : Counts(f.round)
    <3>1. CASE FlagbotUpdateRound
        BY <2>2, <3>1 DEF FlagbotUpdateRound, ReceiveFlagMsg, MsgCounts
    <3>2. CASE FlagbotNewFlag
        BY <2>2, <3>2 DEF FlagbotNewFlag, ReceiveFlagMsg, MsgCounts
    <3>3. CASE FlagbotStart \/ FlagbotPause
        BY <3>3 DEF FlagbotStart, FlagbotPause
    <3>4. QED
        BY <1>6, <3>1, <3>2, <3>3 DEF FlagbotHandle
  <2>4. QED
      BY <2>2, <2>3
<1>7. CASE UNCHANGED <<fbRound, known, flagMail, script>>
    BY <1>7
<1>8. CASE ReplayScore
  <2>1. /\ UNCHANGED <<fbRound, known, flagMail>>
        /\ script' = [script EXCEPT !.scores = @ \ {FirstRow(script.scores)}]
      BY <1>8 DEF ReplayScore, flagbot
  <2>2. script'.flags = script.flags /\ script'.rounds = script.rounds
      BY <1>0, <2>1
  <2>3. QED
      BY <2>1, <2>2
<1>9. QED
  <2>1. CASE SpawnGame \/ Check \/ FinishAndPark \/ StopAtTotal \/ FinishRound \/ CreateRound
             \/ TellScorebot \/ (\E t \in Teams, sv \in Services : SeedState(t, sv))
             \/ (\E p \in unplanted : StoreFlag(p)) \/ SleepRound \/ EndOfRound
      BY <1>7, <2>1 DEF SpawnGame, Check, FinishAndPark, StopAtTotal, FinishRound, CreateRound,
         TellScorebot, SeedState, StoreFlag, SleepRound, EndOfRound, flagbot, gameVars
  <2>2. CASE LoopFails \/ NotifyLoop \/ Command \/ ScorebotUpdateRound \/ UNCHANGED vars
      BY <1>7, <2>2 DEF LoopFails, NotifyLoop, Command, ReceivePause, ReceiveStart,
         ScorebotUpdateRound, vars, flagbot, gameVars
  <2>3. QED
      BY <1>1, <1>2, <1>3, <1>4, <1>5, <1>6, <1>8, <2>1, <2>2
         DEF Next, Replay, ProgressGame, Handle

\* After a restart only the flags and rounds of finished rounds are replayed.
LEMMA ToldAfterCrash ==
    ASSUME GameInv, Crash
    PROVE  ToldRoundsCount'
<1>1. LastFinished(rounds) \in FinishedRows(rounds)
    BY LastFinishedIsGreatest DEF GameInv, LoopInv, NewestRound, TypeOK
<1>2. /\ UNCHANGED rounds /\ fbRound' = LastFinished(rounds) /\ known' = {} /\ flagMail' = <<>>
      /\ script' = Script(rounds, StoredFlags)
    BY DEF Crash, Boot, ResumedRound, db
<1>3. \A f \in StoredFlags : f.round \in FinishedRows(rounds)
  <2>1. \A f \in flagStore : f.round \in DOMAIN rounds
      BY DEF GameInv, TypeOK, Flag
  <2>2. QED
      BY <2>1 DEF StoredFlags, FinishedRows
<1>4. QED
    BY <1>1, <1>2, <1>3 DEF ToldRoundsCount, Counts, Script

\* The same after any step.
LEMMA ToldNext ==
    ASSUME GameInv, ToldRoundsCount, [Next]_vars
    PROVE  ToldRoundsCount'
<1>1. CASE Crash
    BY <1>1, ToldAfterCrash
<1>2. CASE ~Crash
  <2>1. \A i : Counts(i) => Counts(i)'
      BY <1>2, CountsStays
  <2>2. \A m : MsgCounts(m) => MsgCounts(m)'
      BY <2>1 DEF MsgCounts
  <2>3. /\ Counts(fbRound')
        /\ \A f \in known' : Counts(f.round)
        /\ \A k \in DOMAIN flagMail' : MsgCounts(flagMail'[k])
        /\ \A f \in script'.flags : Counts(f.round)
        /\ \A i \in script'.rounds : Counts(i)
      BY <1>2, ToldStep
  <2>4. QED
      BY <2>1, <2>2, <2>3 DEF ToldRoundsCount
<1>3. QED
    BY <1>1, <1>2

\* The rounds the flagbot hears of, and the loop's own before it opens another.
THEOREM RoundInvariance == Spec => [](ToldRoundsCount /\ StoppedBeforeOvertime)
<1>1. Init => ToldRoundsCount /\ StoppedBeforeOvertime
  <2> SUFFICES ASSUME Init PROVE ToldRoundsCount /\ StoppedBeforeOvertime
      OBVIOUS
  <2>1. rounds = <<[number |-> 0, finished |-> TRUE]>> /\ roundId = 1 /\ fbRound = 1
        /\ known = {} /\ flagMail = <<>> /\ pc = "replay" /\ script = Script(rounds, {})
      BY DEF Init, InitialRounds
  <2>2. QED
      BY <2>1 DEF ToldRoundsCount, StoppedBeforeOvertime, Counts, Script
<1>2. GameInv /\ ToldRoundsCount /\ StoppedBeforeOvertime /\ [Next]_vars
          => (ToldRoundsCount /\ StoppedBeforeOvertime)'
    BY ToldNext, OvertimeStep
<1>3. QED
    BY <1>1, <1>2, GameInvariance, PTL DEF Spec

\* The age that check_flag computes does not underflow, and no flag of an
\* abandoned round is known (flagbot.rs:558).
THEOREM AgesAreNatural == Spec => []AgeIsNatural
<1>1. GameInv /\ ToldRoundsCount => AgeIsNatural
  <2> SUFFICES ASSUME GameInv, ToldRoundsCount PROVE AgeIsNatural
      OBVIOUS
  <2>1. ASSUME NEW f \in known
        PROVE  /\ f.round <= fbRound => rounds[f.round].number <= rounds[fbRound].number
               /\ rounds[f.round].finished \/ f.round = roundId
    <3>1. Counts(f.round) /\ Counts(fbRound)
        BY DEF ToldRoundsCount
    <3>2. rounds[f.round].finished \/ f.round = roundId
        BY <3>1 DEF Counts, FinishedRows
    <3>3. QED
        BY <3>1, <3>2, NumbersGrow
  <2>2. QED
      BY <2>1 DEF AgeIsNatural
<1>2. QED
    BY <1>1, GameInvariance, RoundInvariance, PTL

\* The round after the total is opened only by a loop that has stopped itself
\* before, in the life of its process (game.rs:535-547).
THEOREM OvertimeAfterStop == Spec => OvertimeNeedsStop
<1> DEFINE A == \A i \in DOMAIN rounds' \ DOMAIN rounds :
                    rounds'[i].number = TotalRound + 1 => stoppedOnce
<1>1. GameInv /\ StoppedBeforeOvertime /\ [Next]_vars => [A]_vars
  <2> SUFFICES ASSUME GameInv, StoppedBeforeOvertime, [Next]_vars PROVE A
      OBVIOUS
  <2> USE DEF GameInv, LoopInv
  <2>1. CASE UNCHANGED rounds
      BY <2>1
  <2>2. CASE FinishAndPark \/ FinishRound
    <3>1. DOMAIN rounds' = DOMAIN rounds
        BY <2>2, MarkFinishedRows DEF FinishAndPark, FinishRound, TypeOK
    <3>2. QED
        BY <3>1
  <2>3. CASE CreateRound
    <3>1. /\ rounds \in Seq(Row) /\ rounds' = StartNewRound(rounds) /\ pc = "create"
          /\ roundId \in FinishedRows(rounds)
        BY <2>3 DEF CreateRound, TypeOK, NewestRound, FinishedRows
    <3>2. LastFinished(rounds) = roundId
        BY <3>1, LastFinishedUnique DEF NewestRound
    <3>3. /\ DOMAIN rounds' = DOMAIN rounds \cup {Len(rounds) + 1}
          /\ rounds'[Len(rounds) + 1].number = rounds[roundId].number + 1
        BY <3>1, <3>2, StartNewRoundRows
    <3>4. rounds[roundId].number \in Nat /\ TotalRound \in Nat
      <4>1. rounds[roundId] \in Row
          BY <3>1 DEF TypeOK
      <4>2. QED
          BY <4>1, ConstantsAssumption DEF Row, ConstantsAssumption
    <3>5. QED
        BY <3>1, <3>3, <3>4 DEF StoppedBeforeOvertime
  <2>4. QED
      BY <2>1, <2>2, <2>3, RoundsSteps
<1>2. QED
    BY <1>1, GameInvariance, RoundInvariance, PTL DEF Spec, OvertimeNeedsStop

-----------------------------------------------------------------------------
(* The flagbot's channel is seen as the states the flagbot will be in after
   its first p messages: its round then, and the flags it knows then. *)

\* The flagbot will have round v: that of the last UpdateRound among them.
RoundAfter(p, v) ==
    \/ \E j \in 1..p : /\ flagMail[j].type = "UpdateRound" /\ flagMail[j].round = v
                       /\ \A l \in (j + 1)..p : flagMail[l].type # "UpdateRound"
    \/ v = fbRound /\ \A l \in 1..p : flagMail[l].type # "UpdateRound"

\* The flagbot will know f.
KnownAfter(p, f) ==
    f \in known \/ \E j \in 1..p : flagMail[j].type = "NewFlag" /\ flagMail[j].flag = f

\* FlagBot::run will have been woken.
AwakeAfter(p) == awake \/ \E j \in 1..p : flagMail[j].type \in {"Start", "Pause"}

\* What ServesConsistentFlags says of that state.
ConsistentAfter(p) ==
    \A v \in DOMAIN rounds : RoundAfter(p, v) =>
        /\ \A f \in Flag : KnownAfter(p, f) => f.round <= v
        /\ \A f \in flagStore : rounds[f.round].finished /\ f.round < v => KnownAfter(p, f)

\* The loop has still to hand f out.
Pending(f) == pc = "seed" /\ \E p \in unplanted : f = FlagOf(p)

\* With every message handled the flagbot has the loop's round and all the flags
\* that count but those still to be handed out; while the game is replayed, all
\* but what the script still holds.
ToldEverything ==
    LET N == Len(flagMail) IN
    /\ pc # "replay" =>
          /\ \A v \in DOMAIN rounds : RoundAfter(N, v) =>
                /\ pc \notin {"tellScore", "tellFlags"} => v = roundId
                /\ \A f \in Flag : KnownAfter(N, f) => f.round <= v
          /\ \A f \in flagStore : Counts(f.round) => KnownAfter(N, f) \/ Pending(f)
    /\ pc = "replay" =>
          /\ rounds[roundId].finished /\ admin = "idle"
          /\ ~AwakeAfter(N)
          /\ script.rounds # {} => roundId \in script.rounds
          /\ script.rounds = {} => \A v \in DOMAIN rounds : RoundAfter(N, v) => v = roundId
          /\ \A f \in StoredFlags : f \in script.flags \/ KnownAfter(N, f)

\* From its waking on the flagbot is consistent, after every message.
ServesInv ==
    /\ ToldEverything
    /\ \A p \in 0..Len(flagMail) : AwakeAfter(p) => ConsistentAfter(p)

\* Every round the flagbot will have, and every flag it will know, counts.
LEMMA AfterCounts ==
    ASSUME GameInv, ToldRoundsCount, NEW p \in 0..Len(flagMail)
    PROVE  /\ \A v : RoundAfter(p, v) => v \in DOMAIN rounds /\ Counts(v)
           /\ \A f : KnownAfter(p, f) => f \in Flag /\ Counts(f.round)
<1>1. \A j \in 1..p : flagMail[j] \in FlagMsg /\ MsgCounts(flagMail[j])
    BY DEF GameInv, TypeOK, ToldRoundsCount
<1>2. fbRound \in DOMAIN rounds /\ Counts(fbRound) /\ known \subseteq Flag
      /\ \A f \in known : Counts(f.round)
    BY DEF GameInv, TypeOK, ToldRoundsCount
<1>3. ASSUME NEW v, RoundAfter(p, v) PROVE v \in DOMAIN rounds /\ Counts(v)
  <2>1. CASE v = fbRound
      BY <1>2, <2>1
  <2>2. CASE \E j \in 1..p : flagMail[j].type = "UpdateRound" /\ flagMail[j].round = v
      BY <1>1, <2>2, FlagMsgContents DEF MsgCounts
  <2>3. QED
      BY <1>3, <2>1, <2>2 DEF RoundAfter
<1>4. ASSUME NEW f, KnownAfter(p, f) PROVE f \in Flag /\ Counts(f.round)
  <2>1. CASE f \in known
      BY <1>2, <2>1
  <2>2. CASE \E j \in 1..p : flagMail[j].type = "NewFlag" /\ flagMail[j].flag = f
      BY <1>1, <2>2, FlagMsgContents DEF MsgCounts
  <2>3. QED
      BY <1>4, <2>1, <2>2 DEF KnownAfter
<1>5. QED
    BY <1>3, <1>4

\* No round that counts is newer than the loop's.
LEMMA CountsUpToRound ==
    ASSUME GameInv, NEW i, Counts(i)
    PROVE  i \in DOMAIN rounds /\ i <= roundId
BY DEF GameInv, LoopInv, NewestRound, TypeOK, Counts, FinishedRows

\* A message that is sent changes only the state after the last message.
LEMMA SendAfter ==
    ASSUME GameInv, NEW m, SendFlagbot(m), UNCHANGED flagbot,
           NEW N, N = Len(flagMail)
    PROVE  /\ N \in Nat /\ Len(flagMail') = N + 1
           /\ \A p \in 0..N :
                 /\ \A v : RoundAfter(p, v)' <=> RoundAfter(p, v)
                 /\ \A f : KnownAfter(p, f)' <=> KnownAfter(p, f)
                 /\ AwakeAfter(p)' <=> AwakeAfter(p)
           /\ \A v : RoundAfter(N + 1, v)' =>
                 \/ m.type = "UpdateRound" /\ m.round = v
                 \/ m.type # "UpdateRound" /\ RoundAfter(N, v)
           /\ \A f : KnownAfter(N + 1, f)' <=>
                 KnownAfter(N, f) \/ (m.type = "NewFlag" /\ m.flag = f)
           /\ AwakeAfter(N + 1)' <=> AwakeAfter(N) \/ m.type \in {"Start", "Pause"}
<1>1. /\ N \in Nat /\ Len(flagMail') = N + 1 /\ flagMail'[N + 1] = m
      /\ \A j \in 1..N : flagMail'[j] = flagMail[j]
      /\ UNCHANGED <<fbRound, known, awake>>
    BY DEF GameInv, TypeOK, SendFlagbot, flagbot
<1>2. ASSUME NEW p \in 0..N
      PROVE  /\ p \in Nat /\ 1..p \subseteq 1..N
             /\ \A j \in 1..p : flagMail'[j] = flagMail[j] /\ (j + 1)..p \subseteq 1..p
    BY <1>1
<1>3. ASSUME NEW p \in 0..N, NEW v PROVE RoundAfter(p, v)' <=> RoundAfter(p, v)
  <2>1. (\A l \in 1..p : flagMail'[l].type # "UpdateRound")
            <=> \A l \in 1..p : flagMail[l].type # "UpdateRound"
      BY <1>2
  <2>2. (\E j \in 1..p : /\ flagMail'[j].type = "UpdateRound" /\ flagMail'[j].round = v
                         /\ \A l \in (j + 1)..p : flagMail'[l].type # "UpdateRound")
            <=> \E j \in 1..p : /\ flagMail[j].type = "UpdateRound" /\ flagMail[j].round = v
                                /\ \A l \in (j + 1)..p : flagMail[l].type # "UpdateRound"
    <3>1. ASSUME NEW j \in 1..p, NEW l \in (j + 1)..p PROVE flagMail'[l] = flagMail[l]
        BY <1>2, <3>1
    <3>2. QED
        BY <1>2, <3>1
  <2>3. QED
      BY <1>1, <2>1, <2>2 DEF RoundAfter
<1>4. ASSUME NEW p \in 0..N, NEW f PROVE KnownAfter(p, f)' <=> KnownAfter(p, f)
    BY <1>1, <1>2 DEF KnownAfter
<1>5. ASSUME NEW p \in 0..N PROVE AwakeAfter(p)' <=> AwakeAfter(p)
    BY <1>1, <1>2 DEF AwakeAfter
<1>6. 1..(N + 1) = 1..N \cup {N + 1} /\ (N + 2)..(N + 1) = {}
    BY <1>1
<1>7. ASSUME NEW v, RoundAfter(N + 1, v)'
      PROVE  \/ m.type = "UpdateRound" /\ m.round = v
             \/ m.type # "UpdateRound" /\ RoundAfter(N, v)
  <2>1. CASE v = fbRound /\ \A l \in 1..(N + 1) : flagMail'[l].type # "UpdateRound"
      BY <1>1, <1>6, <2>1 DEF RoundAfter
  <2>2. CASE \E j \in 1..(N + 1) :
                 /\ flagMail'[j].type = "UpdateRound" /\ flagMail'[j].round = v
                 /\ \A l \in (j + 1)..(N + 1) : flagMail'[l].type # "UpdateRound"
    <3>1. PICK j \in 1..(N + 1) :
                 /\ flagMail'[j].type = "UpdateRound" /\ flagMail'[j].round = v
                 /\ \A l \in (j + 1)..(N + 1) : flagMail'[l].type # "UpdateRound"
        BY <2>2
    <3>2. CASE j = N + 1
        BY <1>1, <3>1, <3>2
    <3>3. CASE j \in 1..N
      <4>1. m.type # "UpdateRound" /\ \A l \in (j + 1)..N : flagMail[l].type # "UpdateRound"
          BY <1>1, <3>1, <3>3
      <4>2. flagMail[j].type = "UpdateRound" /\ flagMail[j].round = v
          BY <1>1, <3>1, <3>3
      <4>3. QED
          BY <3>3, <4>1, <4>2 DEF RoundAfter
    <3>4. QED
        BY <1>6, <3>2, <3>3
  <2>3. QED
      BY <1>1, <1>7, <2>1, <2>2 DEF RoundAfter
<1>8. ASSUME NEW f
      PROVE  KnownAfter(N + 1, f)' <=>
                 KnownAfter(N, f) \/ (m.type = "NewFlag" /\ m.flag = f)
    BY <1>1, <1>6 DEF KnownAfter
<1>9. AwakeAfter(N + 1)' <=> AwakeAfter(N) \/ m.type \in {"Start", "Pause"}
    BY <1>1, <1>6 DEF AwakeAfter
<1>10. QED
    BY <1>1, <1>3, <1>4, <1>5, <1>7, <1>8, <1>9

\* Once the head is handled, the state after p messages is what the state
\* after p + 1 was.
LEMMA HandleAfter ==
    ASSUME GameInv, FlagbotHandle
    PROVE  /\ Len(flagMail) \in Nat \ {0} /\ Len(flagMail') = Len(flagMail) - 1
           /\ \A p \in 0..Len(flagMail') :
                 /\ \A v : RoundAfter(p, v)' => RoundAfter(p + 1, v)
                 /\ \A f : KnownAfter(p, f)' <=> KnownAfter(p + 1, f)
                 /\ AwakeAfter(p)' <=> AwakeAfter(p + 1)
<1>1. PICK type \in {"UpdateRound", "NewFlag", "Start", "Pause"} : ReceiveFlagMsg(type)
    BY DEF FlagbotHandle, FlagbotUpdateRound, FlagbotNewFlag, FlagbotStart, FlagbotPause
<1>2. /\ Len(flagMail) \in Nat \ {0} /\ Len(flagMail') = Len(flagMail) - 1
      /\ Head(flagMail) = flagMail[1]
      /\ \A j \in 1..Len(flagMail') : flagMail'[j] = flagMail[j + 1]
    BY <1>1 DEF GameInv, TypeOK, ReceiveFlagMsg
<1>3. /\ fbRound' = IF flagMail[1].type = "UpdateRound" THEN flagMail[1].round ELSE fbRound
      /\ known' = IF flagMail[1].type = "NewFlag" THEN known \cup {flagMail[1].flag} ELSE known
      /\ awake' <=> awake \/ flagMail[1].type \in {"Start", "Pause"}
    <2>1. awake \in BOOLEAN
        BY DEF GameInv, TypeOK
    <2>2. QED
        BY <1>2, <2>1 DEF FlagbotHandle, FlagbotUpdateRound, FlagbotNewFlag, FlagbotStart,
           FlagbotPause, ReceiveFlagMsg
<1>4. ASSUME NEW p \in 0..Len(flagMail')
      PROVE  /\ p \in Nat /\ 1 \in 1..(p + 1)
             /\ \A j \in 1..p : j + 1 \in 1..(p + 1) /\ flagMail'[j] = flagMail[j + 1]
             /\ \A j \in 2..(p + 1) : j - 1 \in 1..p /\ flagMail'[j - 1] = flagMail[j]
             /\ \A j \in 1..(p + 1) : j = 1 \/ j \in 2..(p + 1)
    BY <1>2
<1>5. ASSUME NEW p \in 0..Len(flagMail'), NEW v, RoundAfter(p, v)'
      PROVE  RoundAfter(p + 1, v)
  <2>1. CASE v = fbRound' /\ \A l \in 1..p : flagMail'[l].type # "UpdateRound"
    <3>1. \A l \in 2..(p + 1) : flagMail[l].type # "UpdateRound"
        BY <1>4, <2>1
    <3>2. CASE flagMail[1].type = "UpdateRound"
      <4>1. flagMail[1].round = v /\ \A l \in (1 + 1)..(p + 1) : flagMail[l].type # "UpdateRound"
          BY <1>3, <2>1, <3>1, <3>2
      <4>2. QED
          BY <1>4, <3>2, <4>1 DEF RoundAfter
    <3>3. CASE flagMail[1].type # "UpdateRound"
        BY <1>3, <1>4, <2>1, <3>1, <3>3 DEF RoundAfter
    <3>4. QED
        BY <3>2, <3>3
  <2>2. CASE \E j \in 1..p :
                 /\ flagMail'[j].type = "UpdateRound" /\ flagMail'[j].round = v
                 /\ \A l \in (j + 1)..p : flagMail'[l].type # "UpdateRound"
    <3>1. PICK j \in 1..p :
                 /\ flagMail'[j].type = "UpdateRound" /\ flagMail'[j].round = v
                 /\ \A l \in (j + 1)..p : flagMail'[l].type # "UpdateRound"
        BY <2>2
    <3>2. ASSUME NEW l \in (j + 1 + 1)..(p + 1) PROVE flagMail[l].type # "UpdateRound"
      <4>1. l \in 2..(p + 1) /\ l - 1 \in (j + 1)..p
          BY <1>4
      <4>2. QED
          BY <1>4, <3>1, <4>1
    <3>3. j + 1 \in 1..(p + 1) /\ flagMail[j + 1].type = "UpdateRound" /\ flagMail[j + 1].round = v
        BY <1>4, <3>1
    <3>4. QED
        BY <3>2, <3>3 DEF RoundAfter
  <2>3. QED
      BY <1>5, <2>1, <2>2 DEF RoundAfter
<1>6. ASSUME NEW p \in 0..Len(flagMail'), NEW f
      PROVE  KnownAfter(p, f)' <=> KnownAfter(p + 1, f)
  <2>1. f \in known' <=> f \in known \/ (flagMail[1].type = "NewFlag" /\ flagMail[1].flag = f)
      BY <1>3
  <2>2. (\E j \in 1..p : flagMail'[j].type = "NewFlag" /\ flagMail'[j].flag = f)
            <=> \E j \in 2..(p + 1) : flagMail[j].type = "NewFlag" /\ flagMail[j].flag = f
    <3>1. ASSUME NEW j \in 1..p, flagMail'[j].type = "NewFlag", flagMail'[j].flag = f
          PROVE  \E l \in 2..(p + 1) : flagMail[l].type = "NewFlag" /\ flagMail[l].flag = f
      <4>1. j + 1 \in 2..(p + 1) /\ flagMail'[j] = flagMail[j + 1]
          BY <1>4
      <4>2. QED
          BY <3>1, <4>1
    <3>2. ASSUME NEW l \in 2..(p + 1), flagMail[l].type = "NewFlag", flagMail[l].flag = f
          PROVE  \E j \in 1..p : flagMail'[j].type = "NewFlag" /\ flagMail'[j].flag = f
      <4>1. l - 1 \in 1..p /\ flagMail'[l - 1] = flagMail[l]
          BY <1>4
      <4>2. QED
          BY <3>2, <4>1
    <3>3. QED
        BY <3>1, <3>2
  <2>3. \A j \in 2..(p + 1) : j \in 1..(p + 1)
      BY <1>4
  <2>4. QED
      BY <1>4, <2>1, <2>2, <2>3 DEF KnownAfter
<1>7. ASSUME NEW p \in 0..Len(flagMail')
      PROVE  AwakeAfter(p)' <=> AwakeAfter(p + 1)
  <2>1. (\E j \in 1..p : flagMail'[j].type \in {"Start", "Pause"})
            <=> \E j \in 2..(p + 1) : flagMail[j].type \in {"Start", "Pause"}
    <3>1. ASSUME NEW j \in 1..p, flagMail'[j].type \in {"Start", "Pause"}
          PROVE  \E l \in 2..(p + 1) : flagMail[l].type \in {"Start", "Pause"}
      <4>1. j + 1 \in 2..(p + 1) /\ flagMail'[j] = flagMail[j + 1]
          BY <1>4
      <4>2. QED
          BY <3>1, <4>1
    <3>2. ASSUME NEW j \in 2..(p + 1), flagMail[j].type \in {"Start", "Pause"}
          PROVE  \E l \in 1..p : flagMail'[l].type \in {"Start", "Pause"}
      <4>1. j - 1 \in 1..p /\ flagMail'[j - 1] = flagMail[j]
          BY <1>4
      <4>2. QED
          BY <3>2, <4>1
    <3>3. QED
        BY <3>1, <3>2
  <2>2. \A j \in 2..(p + 1) : j \in 1..(p + 1)
      BY <1>4
  <2>3. QED
      BY <1>3, <1>4, <2>1, <2>2 DEF AwakeAfter
<1>8. QED
    BY <1>2, <1>5, <1>6, <1>7

\* With nothing sent and nothing handled, what the flagbot will have is the same.
LEMMA SameAfter ==
    ASSUME UNCHANGED <<flagMail, flagbot>>
    PROVE  \A p : /\ \A v : RoundAfter(p, v)' <=> RoundAfter(p, v)
                  /\ \A f : KnownAfter(p, f)' <=> KnownAfter(p, f)
                  /\ AwakeAfter(p)' <=> AwakeAfter(p)
BY DEF RoundAfter, KnownAfter, AwakeAfter, flagbot

\* A flag that joins those to be served is of the loop's round: no state that
\* is still to come has a newer round, so none has to know it already.
LEMMA FlagsInScope ==
    ASSUME GameInv, ToldRoundsCount, ServesInv, NEW p \in 0..Len(flagMail), AwakeAfter(p),
           NEW v, RoundAfter(p, v), NEW f \in flagStore', f.round < v,
           \/ f \in flagStore /\ rounds[f.round].finished
           \/ f.round = roundId
    PROVE  KnownAfter(p, f)
<1>1. v \in DOMAIN rounds /\ v <= roundId
    BY AfterCounts, CountsUpToRound
<1>2. v \in Nat /\ roundId \in Nat
    BY <1>1 DEF GameInv, TypeOK
<1>3. CASE f \in flagStore /\ rounds[f.round].finished
    BY <1>1, <1>3 DEF ServesInv, ConsistentAfter
<1>4. CASE f.round = roundId
    BY <1>1, <1>2, <1>4
<1>5. QED
    BY <1>3, <1>4

\* After a message is sent it is enough that the flagbot is told everything.
LEMMA SendServes ==
    ASSUME GameInv, GameInv', ToldRoundsCount, ServesInv, ToldEverything',
           NEW m, SendFlagbot(m), UNCHANGED flagbot, UNCHANGED rounds,
           \A f \in flagStore' : f \in flagStore \/ f.round = roundId
    PROVE  ServesInv'
<1>1. PICK N \in Nat : N = Len(flagMail) /\ Len(flagMail') = N + 1
    BY SendAfter DEF GameInv, TypeOK
<1>2. ASSUME NEW p \in 0..N, AwakeAfter(p)' PROVE ConsistentAfter(p)'
  <2>1. /\ AwakeAfter(p) /\ p \in 0..Len(flagMail)
        /\ \A v : RoundAfter(p, v)' <=> RoundAfter(p, v)
        /\ \A f : KnownAfter(p, f)' <=> KnownAfter(p, f)
      BY <1>1, <1>2, SendAfter
  <2>2. ConsistentAfter(p) /\ Flag' = Flag
      BY <2>1, SameDomain DEF ServesInv
  <2>3. ASSUME NEW v \in DOMAIN rounds, RoundAfter(p, v), NEW f \in flagStore',
               rounds'[f.round].finished, f.round < v
        PROVE  KnownAfter(p, f)
      BY <2>1, <2>3, FlagsInScope
  <2>4. QED
      BY <2>1, <2>2, <2>3 DEF ConsistentAfter
<1>3. ASSUME AwakeAfter(N + 1)' PROVE ConsistentAfter(N + 1)'
  <2>1. ASSUME NEW q, q = Len(flagMail'), AwakeAfter(q)' PROVE ConsistentAfter(q)'
    <3>1. pc' # "replay"
        BY <2>1 DEF ToldEverything
    <3>2. \A f \in flagStore' : rounds'[f.round].finished => Counts(f.round)'
        BY DEF GameInv, TypeOK, Counts, FinishedRows, Flag
    <3>3. \A f : Pending(f)' => pc' = "seed" /\ f.round = roundId'
        BY DEF Pending, FlagOf
    <3>4. ASSUME NEW v \in DOMAIN rounds', RoundAfter(q, v)'
          PROVE  /\ \A f \in Flag' : KnownAfter(q, f)' => f.round <= v
                 /\ \A f \in flagStore' :
                        rounds'[f.round].finished /\ f.round < v => KnownAfter(q, f)'
      <4>1. /\ \A f \in Flag' : KnownAfter(q, f)' => f.round <= v
            /\ pc' \notin {"tellScore", "tellFlags"} => v = roundId'
            /\ \A f \in flagStore' : Counts(f.round)' => KnownAfter(q, f)' \/ Pending(f)'
          BY <2>1, <3>1, <3>4 DEF ToldEverything
      <4>2. ASSUME NEW f \in flagStore', rounds'[f.round].finished, f.round < v
            PROVE  KnownAfter(q, f)'
        <5>1. v \in Nat
            BY <3>4 DEF GameInv, TypeOK
        <5>2. ~Pending(f)'
            BY <3>3, <4>1, <4>2, <5>1
        <5>3. QED
            BY <3>2, <4>1, <4>2, <5>2
      <4>3. QED
          BY <4>1, <4>2
    <3>5. QED
        BY <3>4 DEF ConsistentAfter
  <2>2. QED
      BY <1>1, <1>3, <2>1
<1>4. \A p \in 0..(N + 1) : p \in 0..N \/ p = N + 1
    OBVIOUS
<1>5. QED
    BY <1>1, <1>2, <1>3, <1>4 DEF ServesInv

\* Telling everything, where one message is sent while the game is replayed.
LEMMA ReplayTells ==
    ASSUME GameInv, ToldRoundsCount, ServesInv, Replay
    PROVE  ToldEverything'
<1> USE DEF ServesInv
<1>0. /\ script \in [flags : SUBSET Flag, rounds : SUBSET DOMAIN rounds,
                     scores : SUBSET DOMAIN rounds]
      /\ roundId \in Nat /\ DOMAIN rounds \subseteq Nat
    BY DEF GameInv, TypeOK
<1>1. ASSUME NEW N, N = Len(flagMail), NEW f \in script.flags, ReplayFlag(f)
      PROVE  ToldEverything'
  <2>1. /\ pc = "replay" /\ SendFlagbot(NewFlag(f)) /\ UNCHANGED <<flagbot, rounds, flagStore, roundId, pc, admin>>
        /\ script' = [script EXCEPT !.flags = @ \ {f}]
      BY <1>1 DEF ReplayFlag, db, loopVars
  <2>2. script'.flags = script.flags \ {f} /\ script'.rounds = script.rounds
      BY <1>0, <2>1
  <2>3. /\ Len(flagMail') = N + 1
        /\ \A v : RoundAfter(N + 1, v)' => RoundAfter(N, v)
        /\ \A g : KnownAfter(N + 1, g)' <=> KnownAfter(N, g) \/ f = g
        /\ AwakeAfter(N + 1)' => AwakeAfter(N)
      BY <1>1, <2>1, SendAfter DEF NewFlag
  <2>4. StoredFlags' = StoredFlags
      BY <2>1 DEF StoredFlags
  <2>5. QED
      BY <1>1, <2>1, <2>2, <2>3, <2>4 DEF ToldEverything
<1>2. ASSUME NEW N, N = Len(flagMail), ReplayRound
      PROVE  ToldEverything'
  <2>1. PICK i : /\ i = FirstRow(script.rounds) /\ SendFlagbot(UpdateRound(i))
                 /\ script' = [script EXCEPT !.rounds = @ \ {i}]
      BY <1>2 DEF ReplayRound
  <2>2. /\ pc = "replay" /\ script.rounds # {}
        /\ UNCHANGED <<flagbot, rounds, flagStore, roundId, pc, admin>>
      BY <1>2 DEF ReplayRound, db, loopVars
  <2>3. script'.flags = script.flags /\ script'.rounds = script.rounds \ {i}
      BY <1>0, <2>1
  <2>4. i \in script.rounds /\ \A j \in script.rounds : i <= j /\ j <= roundId
      BY <1>0, <2>1, <2>2, FirstRowIsLeast, CountsUpToRound DEF ToldRoundsCount
  <2>5. /\ roundId \in script.rounds
        /\ i # roundId => roundId \in script'.rounds
        /\ script'.rounds = {} => i = roundId
    <3>1. roundId \in script.rounds
        BY <2>2 DEF ToldEverything
    <3>2. QED
        BY <2>3, <2>4, <3>1
  <2>6. i = roundId => script'.rounds = {}
      BY <1>0, <2>3, <2>4
  <2>7. /\ Len(flagMail') = N + 1
        /\ \A v : RoundAfter(N + 1, v)' => v = i
        /\ \A g : KnownAfter(N + 1, g)' <=> KnownAfter(N, g)
        /\ AwakeAfter(N + 1)' => AwakeAfter(N)
      BY <1>2, <2>1, <2>2, SendAfter DEF UpdateRound
  <2>8. StoredFlags' = StoredFlags
      BY <2>2 DEF StoredFlags
  <2>9. QED
      BY <1>2, <2>2, <2>3, <2>5, <2>6, <2>7, <2>8 DEF ToldEverything
<1>3. CASE ReplayScore
  <2>1. /\ UNCHANGED <<flagMail, flagbot, rounds, flagStore, roundId, pc, admin>>
        /\ script' = [script EXCEPT !.scores = @ \ {FirstRow(script.scores)}]
      BY <1>3 DEF ReplayScore, db, loopVars
  <2>2. script'.flags = script.flags /\ script'.rounds = script.rounds
      BY <1>0, <2>1
  <2>3. StoredFlags' = StoredFlags /\ pc = "replay"
      BY <1>3, <2>1 DEF StoredFlags, ReplayScore
  <2>4. QED
      BY <2>1, <2>2, <2>3, SameAfter DEF ToldEverything
<1>4. CASE SpawnGame
  <2>1. /\ UNCHANGED <<flagMail, flagbot, rounds, flagStore, roundId>> /\ pc = "replay"
        /\ pc' = "nap" /\ script.rounds = {} /\ script.flags = {}
      BY <1>4 DEF SpawnGame, db
  <2>2. \A v : RoundAfter(Len(flagMail), v) => v = roundId
    <3>1. Len(flagMail) \in 0..Len(flagMail)
        BY DEF GameInv, TypeOK
    <3>2. QED
        BY <2>1, <3>1, AfterCounts DEF ToldEverything
  <2>3. \A f : KnownAfter(Len(flagMail), f) => f.round <= roundId
    <3>1. Len(flagMail) \in 0..Len(flagMail)
        BY DEF GameInv, TypeOK
    <3>2. QED
        BY <3>1, AfterCounts, CountsUpToRound
  <2>4. \A f \in flagStore : Counts(f.round) => f \in StoredFlags
      BY <2>1 DEF ToldEverything, Counts, FinishedRows, StoredFlags
  <2>5. Flag' = Flag /\ \A i : Counts(i)' <=> Counts(i)
      BY <2>1, SameDomain DEF Counts
  <2>6. QED
      BY <2>1, <2>2, <2>3, <2>4, <2>5, SameAfter DEF ToldEverything
<1>5. QED
    BY <1>1, <1>2, <1>3, <1>4 DEF Replay

\* Steps that neither send nor handle: what has been told stays everything.
LEMMA QuietTells ==
    ASSUME GameInv, GameInv', ToldRoundsCount, ToldEverything, pc # "replay", pc' # "replay",
           UNCHANGED <<flagMail, flagbot>>,
           \A f \in flagStore' : (f \in flagStore /\ ~Pending(f)) \/ Pending(f)',
           \/ /\ UNCHANGED roundId /\ \A i \in DOMAIN rounds : Counts(i)' => Counts(i)
              /\ UNCHANGED DOMAIN rounds
              /\ pc \in {"tellScore", "tellFlags"} => pc' \in {"tellScore", "tellFlags"}
           \/ /\ pc' = "tellScore" /\ roundId' \notin DOMAIN rounds
              /\ FinishedRows(rounds') = FinishedRows(rounds)
    PROVE  ToldEverything'
<1>0. Len(flagMail) \in 0..Len(flagMail) /\ Len(flagMail') = Len(flagMail)
    BY DEF GameInv, TypeOK
<1>1. PICK N \in 0..Len(flagMail) : N = Len(flagMail) /\ N = Len(flagMail')
    BY <1>0
<1>2. /\ \A v : RoundAfter(N, v)' <=> RoundAfter(N, v)
      /\ \A f : KnownAfter(N, f)' <=> KnownAfter(N, f)
    BY SameAfter
<1>3. /\ \A v : RoundAfter(N, v) => v \in DOMAIN rounds
      /\ \A f : KnownAfter(N, f) => f \in Flag
    BY <1>1, AfterCounts
<1>4. ASSUME NEW v, RoundAfter(N, v)
      PROVE  /\ pc' \notin {"tellScore", "tellFlags"} => v = roundId'
             /\ \A f : KnownAfter(N, f) => f.round <= v
    BY <1>1, <1>3, <1>4 DEF ToldEverything
<1>5. ASSUME NEW f \in flagStore', Counts(f.round)' PROVE KnownAfter(N, f) \/ Pending(f)'
  <2>1. SUFFICES ASSUME f \in flagStore, ~Pending(f) PROVE KnownAfter(N, f)
      OBVIOUS
  <2>2. f.round \in DOMAIN rounds
      BY <2>1 DEF GameInv, TypeOK, Flag
  <2>3. Counts(f.round)
      BY <1>5, <2>2 DEF Counts
  <2>4. QED
      BY <1>1, <2>1, <2>3 DEF ToldEverything
<1>6. QED
    BY <1>1, <1>2, <1>4, <1>5 DEF ToldEverything

\* And the states still to come stay consistent: a flag whose round is finished
\* by the step is of the loop's round.
LEMMA QuietServes ==
    ASSUME GameInv, ToldRoundsCount, ServesInv, ToldEverything',
           UNCHANGED <<flagMail, flagbot>>,
           \A f \in flagStore' : rounds'[f.round].finished =>
               (f \in flagStore /\ rounds[f.round].finished) \/ f.round = roundId
    PROVE  ServesInv'
<1>1. ASSUME NEW p \in 0..Len(flagMail), AwakeAfter(p)' PROVE ConsistentAfter(p)'
  <2>1. /\ AwakeAfter(p)
        /\ \A v : RoundAfter(p, v)' <=> RoundAfter(p, v)
        /\ \A f : KnownAfter(p, f)' <=> KnownAfter(p, f)
      BY <1>1, SameAfter
  <2>2. /\ \A v : RoundAfter(p, v) => v \in DOMAIN rounds
        /\ \A f : KnownAfter(p, f) => f \in Flag
      BY AfterCounts
  <2>3. \A v : RoundAfter(p, v) => \A f : KnownAfter(p, f) => f.round <= v
      BY <2>1, <2>2 DEF ServesInv, ConsistentAfter
  <2>4. ASSUME NEW v, RoundAfter(p, v), NEW f \in flagStore',
               rounds'[f.round].finished, f.round < v
        PROVE  KnownAfter(p, f)
      BY <2>1, <2>4, FlagsInScope
  <2>5. QED
      BY <2>1, <2>3, <2>4 DEF ConsistentAfter
<1>2. QED
    BY <1>1 DEF ServesInv

\* The state after the message that is sent.
LEMMA SendOne ==
    ASSUME GameInv, NEW m, SendFlagbot(m), UNCHANGED flagbot, NEW N, N = Len(flagMail)
    PROVE  /\ Len(flagMail') = N + 1
           /\ m.type # "UpdateRound" => \A v : RoundAfter(N + 1, v)' => RoundAfter(N, v)
           /\ m.type # "NewFlag" => \A f : KnownAfter(N + 1, f)' <=> KnownAfter(N, f)
           /\ m.type = "NewFlag" =>
                 \A f : KnownAfter(N + 1, f)' <=> KnownAfter(N, f) \/ m.flag = f
<1>1. /\ Len(flagMail') = N + 1
      /\ \A v : RoundAfter(N + 1, v)' =>
            \/ m.type = "UpdateRound" /\ m.round = v
            \/ m.type # "UpdateRound" /\ RoundAfter(N, v)
      /\ \A f : KnownAfter(N + 1, f)' <=>
            KnownAfter(N, f) \/ (m.type = "NewFlag" /\ m.flag = f)
    BY SendAfter, Z3
<1>2. m.type # "UpdateRound" => \A v : RoundAfter(N + 1, v)' => RoundAfter(N, v)
    BY <1>1
<1>3. m.type # "NewFlag" => \A f : KnownAfter(N + 1, f)' <=> KnownAfter(N, f)
    BY <1>1
<1>4. m.type = "NewFlag" => \A f : KnownAfter(N + 1, f)' <=> KnownAfter(N, f) \/ m.flag = f
    BY <1>1
<1>5. QED
    BY <1>1, <1>2, <1>3, <1>4

\* What the running game sends completes what the flagbot has been told.
LEMMA PlayTells ==
    ASSUME GameInv, GameInv', ToldRoundsCount, ToldEverything,
           \/ AnnouncePause \/ ForwardStart \/ TellFlagbot
           \/ \E p \in unplanted : HandOutFlag(p)
    PROVE  /\ ToldEverything'
           /\ \E m : SendFlagbot(m)
           /\ UNCHANGED flagbot /\ UNCHANGED rounds
           /\ \A f \in flagStore' : f \in flagStore \/ f.round = roundId
<1>0. Len(flagMail) \in 0..Len(flagMail)
    BY DEF GameInv, TypeOK
<1>1. PICK N \in 0..Len(flagMail) : N = Len(flagMail)
    BY <1>0
<1>2. \A f : KnownAfter(N, f) => f \in Flag /\ f.round <= roundId
    BY AfterCounts, CountsUpToRound
<1>3. pc # "replay"
    BY DEF ToldEverything, AnnouncePause, ForwardStart, TellFlagbot, HandOutFlag
<1>4. CASE AnnouncePause \/ ForwardStart
  <2>1. PICK m \in {Start, Pause} : SendFlagbot(m)
      BY <1>4 DEF AnnouncePause, ForwardStart
  <2>2. /\ UNCHANGED <<flagbot, rounds, flagStore, roundId>> /\ pc' # "replay"
        /\ pc \in {"tellScore", "tellFlags"} => pc' \in {"tellScore", "tellFlags"}
      BY <1>3, <1>4 DEF AnnouncePause, ForwardStart, db, loopVars
  <2>3. /\ Len(flagMail') = N + 1
        /\ \A v : RoundAfter(N + 1, v)' => RoundAfter(N, v)
        /\ \A f : KnownAfter(N + 1, f)' <=> KnownAfter(N, f)
    <3>1. m.type # "UpdateRound" /\ m.type # "NewFlag"
        BY DEF Start, Pause
    <3>2. QED
        BY <1>1, <2>1, <2>2, <3>1, SendOne
  <2>4. Flag' = Flag /\ \A i : Counts(i)' <=> Counts(i)
      BY <2>2, SameDomain DEF Counts
  <2>5. \A f : Pending(f) => Pending(f)'
      BY <1>4 DEF AnnouncePause, ForwardStart, Pending, FlagOf, loopVars
  <2>6. ToldEverything'
      BY <1>1, <1>3, <2>2, <2>3, <2>4, <2>5 DEF ToldEverything
  <2>7. QED
      BY <2>1, <2>2, <2>6
<1>5. CASE TellFlagbot
  <2>1. /\ SendFlagbot(UpdateRound(roundId)) /\ pc' = "seed"
        /\ UNCHANGED <<flagbot, rounds, flagStore, roundId>>
      BY <1>5 DEF TellFlagbot, db
  <2>2. /\ Len(flagMail') = N + 1
        /\ \A v : RoundAfter(N + 1, v)' => v = roundId
        /\ \A f : KnownAfter(N + 1, f)' <=> KnownAfter(N, f)
      BY <1>1, <2>1, SendAfter DEF UpdateRound
  <2>3. Flag' = Flag /\ \A i : Counts(i)' <=> Counts(i)
      BY <2>1, SameDomain DEF Counts
  <2>4. \A f : ~Pending(f)
      BY <1>5 DEF TellFlagbot, Pending
  <2>5. ToldEverything'
      BY <1>1, <1>2, <1>3, <2>1, <2>2, <2>3, <2>4 DEF ToldEverything
  <2>6. QED
      BY <2>1, <2>5
<1>6. CASE \E p \in unplanted : HandOutFlag(p)
  <2>1. PICK p \in unplanted : HandOutFlag(p)
      BY <1>6
  <2>2. PICK f : f = FlagOf(p) /\ f.round = roundId /\ SendFlagbot(NewFlag(f))
      BY <2>1, FlagOfType DEF HandOutFlag, GameInv
  <2>3. /\ pc = "seed" /\ pc' = "seed" /\ UNCHANGED <<flagbot, rounds, flagStore, roundId>>
        /\ unplanted' = unplanted \ {p}
      BY <2>1 DEF HandOutFlag, db
  <2>4. /\ Len(flagMail') = N + 1
        /\ \A v : RoundAfter(N + 1, v)' => RoundAfter(N, v)
        /\ \A g : KnownAfter(N + 1, g)' <=> KnownAfter(N, g) \/ f = g
      BY <1>1, <2>2, <2>3, SendOne DEF NewFlag
  <2>5. Flag' = Flag /\ \A i : Counts(i)' <=> Counts(i)
      BY <2>3, SameDomain DEF Counts
  <2>6. \A v : RoundAfter(N, v) => v = roundId
      BY <1>1, <2>3, AfterCounts DEF ToldEverything
  <2>7. \A g : Pending(g) => Pending(g)' \/ f = g
      BY <2>2, <2>3 DEF Pending, FlagOf
  <2>8. ToldEverything'
      BY <1>1, <1>2, <1>3, <2>2, <2>3, <2>4, <2>5, <2>6, <2>7 DEF ToldEverything
  <2>9. QED
      BY <2>2, <2>3, <2>8
<1>7. QED
    BY <1>4, <1>5, <1>6

\* The running game's other steps, and the admin's.
LEMMA QuietSteps ==
    ASSUME GameInv, GameInv', ToldRoundsCount, ToldEverything, pc # "replay",
           \/ Check \/ StopAtTotal \/ FinishRound \/ FinishAndPark \/ CreateRound
           \/ TellScorebot \/ (\E t \in Teams, sv \in Services : SeedState(t, sv))
           \/ (\E p \in unplanted : StoreFlag(p)) \/ SleepRound \/ EndOfRound \/ LoopFails \/ NotifyLoop \/ Command
    PROVE  /\ UNCHANGED <<flagMail, flagbot>>
           /\ ToldEverything'
           /\ \A f \in flagStore' : rounds'[f.round].finished =>
                  (f \in flagStore /\ rounds[f.round].finished) \/ f.round = roundId
<1>1. /\ UNCHANGED <<flagMail, flagbot>> /\ pc' # "replay"
      /\ pc \in {"tellScore", "tellFlags"} => pc' \in {"tellScore", "tellFlags"}
    BY DEF Check, StopAtTotal, FinishRound, FinishAndPark, CreateRound, TellScorebot, SeedState,
       StoreFlag, SleepRound, EndOfRound, LoopFails, NotifyLoop, Command, ReceivePause,
       ReceiveStart, db, loopVars
<1>2. /\ rounds \in Seq(Row) /\ roundId \in DOMAIN rounds /\ FinishedRows(rounds) # {}
      /\ \A f \in flagStore : f.round \in DOMAIN rounds
    BY DEF GameInv, TypeOK, LoopInv, NewestRound, Flag
<1>3. \A f \in flagStore' : (f \in flagStore /\ ~Pending(f)) \/ Pending(f)'
  <2>1. CASE \E p \in unplanted : StoreFlag(p)
    <3>1. PICK p \in unplanted : StoreFlag(p)
        BY <2>1
    <3>2. /\ flagStore' = flagStore \cup {FlagOf(p)} /\ pc' = "seed"
          /\ UNCHANGED <<roundId, unplanted, pc>>
        BY <3>1 DEF StoreFlag, loopVars
    <3>3. QED
        BY <3>2 DEF Pending, FlagOf
  <2>2. CASE \/ SleepRound \/ LoopFails \/ (\E t \in Teams, sv \in Services : SeedState(t, sv))
    <3>1. flagStore' = flagStore
        BY <2>2 DEF SleepRound, LoopFails, SeedState, db
    <3>2. \A f \in flagStore : ~Pending(f)
        BY <2>2 DEF SleepRound, LoopFails, SeedState, Pending, Stored
    <3>3. QED
        BY <3>1, <3>2
  <2>3. CASE /\ flagStore' = flagStore
             /\ pc = "seed" => pc' = "seed" /\ UNCHANGED <<roundId, unplanted>>
      BY <2>3 DEF Pending, FlagOf
  <2>4. QED
      BY <2>1, <2>2, <2>3 DEF Check, StopAtTotal, FinishRound, FinishAndPark, CreateRound,
         TellScorebot, EndOfRound, NotifyLoop, Command, ReceivePause, ReceiveStart, db, loopVars
<1>4. CASE UNCHANGED <<rounds, roundId>>
  <2>1. \A i : Counts(i)' <=> Counts(i)
      BY <1>4 DEF Counts
  <2>2. ASSUME NEW p, StoreFlag(p)
        PROVE  \A f \in flagStore' : f \in flagStore \/ f.round = roundId
    <3>1. FlagOf(p).round = roundId
        BY DEF FlagOf
    <3>2. QED
        BY <2>2, <3>1 DEF StoreFlag
  <2>3. \A f \in flagStore' : f \in flagStore \/ f.round = roundId
      BY <1>4, <2>2 DEF Check, StopAtTotal, FinishRound, FinishAndPark, CreateRound,
         TellScorebot, SeedState, SleepRound, EndOfRound, LoopFails, NotifyLoop, Command,
         ReceivePause, ReceiveStart, db, loopVars
  <2>4. QED
      BY <1>1, <1>3, <1>4, <2>1, <2>3, QuietTells
<1>5. CASE FinishRound \/ FinishAndPark
  <2>1. rounds' = MarkFinished(rounds, roundId) /\ UNCHANGED roundId
      BY <1>5 DEF FinishRound, FinishAndPark
  <2>2. /\ DOMAIN rounds' = DOMAIN rounds
        /\ \A j \in DOMAIN rounds : rounds'[j].finished <=> rounds[j].finished \/ j = roundId
        /\ FinishedRows(rounds') = FinishedRows(rounds) \cup {roundId}
      BY <1>2, <2>1, MarkFinishedRows
  <2>3. \A i : Counts(i)' <=> Counts(i)
      BY <2>1, <2>2 DEF Counts
  <2>4. flagStore' = flagStore
      BY <1>5 DEF FinishRound, FinishAndPark
  <2>5. QED
      BY <1>1, <1>2, <1>3, <2>1, <2>2, <2>3, <2>4, QuietTells
<1>6. CASE CreateRound
  <2>1. rounds' = StartNewRound(rounds) /\ roundId' = Len(rounds) + 1 /\ pc' = "tellScore"
      BY <1>6 DEF CreateRound
  <2>2. /\ \A j \in DOMAIN rounds : rounds'[j] = rounds[j]
        /\ FinishedRows(rounds') = FinishedRows(rounds)
      BY <1>2, <2>1, StartNewRoundRows
  <2>3. roundId' \notin DOMAIN rounds
      BY <1>2, <2>1
  <2>4. flagStore' = flagStore
      BY <1>6 DEF CreateRound
  <2>5. QED
      BY <1>1, <1>2, <1>3, <2>1, <2>2, <2>3, <2>4, QuietTells
<1>7. QED
    BY <1>4, <1>5, <1>6 DEF Check, StopAtTotal, TellScorebot, SeedState, StoreFlag, SleepRound,
       EndOfRound, LoopFails, NotifyLoop, Command, ReceivePause, ReceiveStart, db, loopVars

\* From the waking on every step leaves what is served consistent.
LEMMA ServesNext ==
    ASSUME GameInv, GameInv', ToldRoundsCount, ServesInv, [Next]_vars
    PROVE  ServesInv'
<1> USE DEF ServesInv
<1>1. CASE FlagbotHandle
  <2>1. /\ UNCHANGED <<rounds, flagStore, roundId, pc, admin, script>>
        /\ Len(flagMail) \in Nat \ {0} /\ Len(flagMail') = Len(flagMail) - 1
      BY <1>1, HandleAfter DEF FlagbotHandle, FlagbotUpdateRound, FlagbotNewFlag, FlagbotStart,
         FlagbotPause, ReceiveFlagMsg, db, loopVars, gameVars
  <2>2. Flag' = Flag /\ StoredFlags' = StoredFlags /\ \A i : Counts(i)' <=> Counts(i)
      BY <2>1, SameDomain DEF StoredFlags, Counts
  <2>3. ToldEverything'
    <3>0. \A f : Pending(f) <=> Pending(f)'
        BY <1>1, <2>1 DEF Pending, FlagOf, FlagbotHandle, FlagbotUpdateRound, FlagbotNewFlag,
           FlagbotStart, FlagbotPause, ReceiveFlagMsg, loopVars
    <3>1. PICK N : N = Len(flagMail') /\ N \in 0..Len(flagMail') /\ N + 1 = Len(flagMail)
        BY <2>1
    <3>2. /\ \A v : RoundAfter(N, v)' => RoundAfter(N + 1, v)
          /\ \A f : KnownAfter(N, f)' <=> KnownAfter(N + 1, f)
          /\ AwakeAfter(N)' => AwakeAfter(N + 1)
        BY <1>1, <3>1, HandleAfter
    <3>3. QED
        BY <2>1, <2>2, <3>0, <3>1, <3>2 DEF ToldEverything
  <2>4. ASSUME NEW p \in 0..Len(flagMail'), AwakeAfter(p)' PROVE ConsistentAfter(p)'
    <3>1. /\ p + 1 \in 0..Len(flagMail) /\ AwakeAfter(p + 1)
          /\ \A v : RoundAfter(p, v)' => RoundAfter(p + 1, v)
          /\ \A f : KnownAfter(p, f)' <=> KnownAfter(p + 1, f)
        BY <1>1, <2>1, <2>4, HandleAfter
    <3>2. ConsistentAfter(p + 1)
        BY <3>1
    <3>3. QED
        BY <2>1, <2>2, <3>1, <3>2 DEF ConsistentAfter
  <2>5. QED
      BY <2>3, <2>4
<1>2. CASE Crash
  <2>1. /\ pc' = "replay" /\ admin' = "idle" /\ flagMail' = <<>> /\ ~awake'
        /\ roundId' = LastFinished(rounds) /\ UNCHANGED <<rounds, flagStore>>
        /\ script' = Script(rounds, StoredFlags)
      BY <1>2 DEF Crash, Boot, ResumedRound, db
  <2>2. roundId' \in FinishedRows(rounds)
      BY <2>1, LastFinishedIsGreatest DEF GameInv, TypeOK, LoopInv, NewestRound
  <2>3. /\ script'.rounds = FinishedRows(rounds) /\ script'.flags = StoredFlags
        /\ StoredFlags' = StoredFlags /\ rounds[roundId'].finished
      BY <2>1, <2>2 DEF Script, StoredFlags, FinishedRows
  <2>4. Len(flagMail') = 0 /\ \A p \in 0..0 : ~AwakeAfter(p)'
      BY <2>1 DEF AwakeAfter
  <2>5. QED
      BY <2>1, <2>2, <2>3, <2>4 DEF ToldEverything
<1>3. CASE Replay
  <2>1. ToldEverything'
      BY <1>3, ReplayTells
  <2>2. CASE \E m : SendFlagbot(m) /\ UNCHANGED <<flagbot, rounds, flagStore>>
      BY <2>1, <2>2, SendServes
  <2>3. CASE UNCHANGED <<flagMail, flagbot, rounds, flagStore>>
      BY <2>1, <2>3, QuietServes
  <2>4. QED
      BY <1>3, <2>2, <2>3 DEF Replay, ReplayFlag, ReplayRound, ReplayScore, SpawnGame, db
<1>4. CASE \/ AnnouncePause \/ ForwardStart \/ TellFlagbot
           \/ \E p \in unplanted : HandOutFlag(p)
  <2>1. /\ ToldEverything'
        /\ \E m : SendFlagbot(m)
        /\ UNCHANGED flagbot /\ UNCHANGED rounds
        /\ \A f \in flagStore' : f \in flagStore \/ f.round = roundId
      BY <1>4, PlayTells
  <2>2. QED
      BY <2>1, SendServes
<1>5. CASE \/ Check \/ StopAtTotal \/ FinishRound \/ FinishAndPark \/ CreateRound
           \/ TellScorebot \/ (\E t \in Teams, sv \in Services : SeedState(t, sv))
           \/ (\E p \in unplanted : StoreFlag(p)) \/ SleepRound \/ EndOfRound \/ LoopFails \/ NotifyLoop \/ Command
  <2>1. pc # "replay"
      BY <1>5 DEF ToldEverything, Check, StopAtTotal, FinishRound, FinishAndPark, CreateRound,
         TellScorebot, SeedState, StoreFlag, SleepRound, EndOfRound, LoopFails, NotifyLoop,
         Command, ReceivePause, ReceiveStart
  <2>2. /\ UNCHANGED <<flagMail, flagbot>>
        /\ ToldEverything'
        /\ \A f \in flagStore' : rounds'[f.round].finished =>
               (f \in flagStore /\ rounds[f.round].finished) \/ f.round = roundId
      BY <1>5, <2>1, QuietSteps
  <2>3. QED
      BY <2>2, QuietServes
<1>6. CASE ScorebotUpdateRound \/ UNCHANGED vars
  <2>1. UNCHANGED <<flagMail, flagbot, rounds, flagStore, roundId, pc, admin, script>>
      BY <1>6 DEF ScorebotUpdateRound, vars, db, loopVars, gameVars
  <2>2. Flag' = Flag /\ StoredFlags' = StoredFlags /\ \A i : Counts(i)' <=> Counts(i)
      BY <2>1, SameDomain DEF StoredFlags, Counts
  <2>3. ToldEverything'
    <3>1. \A f : Pending(f) <=> Pending(f)'
        BY <1>6, <2>1 DEF Pending, FlagOf, ScorebotUpdateRound, vars, loopVars
    <3>2. QED
        BY <2>1, <2>2, <3>1, SameAfter DEF ToldEverything
  <2>4. QED
      BY <2>1, <2>3, QuietServes
<1>7. QED
    BY <1>1, <1>2, <1>3, <1>4, <1>5, <1>6 DEF Next, ProgressGame, Handle

\* Whatever is in the channels when the flagbot is woken, and however rounds are
\* abandoned, check_flag never meets a flag of a round it has not heard of, nor
\* lacks one of a round before its own (flagbot.rs:548 "invalid state").
THEOREM FlagsServedConsistent == Spec => []ServesConsistentFlags
<1>1. Init => ServesInv
  <2> SUFFICES ASSUME Init PROVE ServesInv
      OBVIOUS
  <2>1. /\ pc = "replay" /\ admin = "idle" /\ flagMail = <<>> /\ ~awake /\ flagStore = {}
        /\ rounds = <<[number |-> 0, finished |-> TRUE]>> /\ roundId = 1
        /\ script = [flags |-> {}, rounds |-> FinishedRows(rounds),
                     scores |-> FinishedRows(rounds)]
      BY DEF Init, InitialRounds, Script
  <2>2. FinishedRows(rounds) = {1} /\ rounds[1].finished
      BY <2>1 DEF FinishedRows
  <2>3. Len(flagMail) = 0 /\ \A p \in 0..0 : ~AwakeAfter(p)
      BY <2>1 DEF AwakeAfter
  <2>4. script.rounds = {1} /\ StoredFlags = {}
      BY <2>1, <2>2 DEF StoredFlags
  <2>5. QED
      BY <2>1, <2>2, <2>3, <2>4 DEF ServesInv, ToldEverything
<1>2. GameInv /\ GameInv' /\ ToldRoundsCount /\ ServesInv /\ [Next]_vars => ServesInv'
    BY ServesNext
<1>3. GameInv /\ ServesInv => ServesConsistentFlags
  <2> SUFFICES ASSUME GameInv, ServesInv, awake
               PROVE  /\ \A f \in known : f.round <= fbRound
                      /\ \A f \in flagStore : rounds[f.round].finished /\ f.round < fbRound
                                                 => f \in known
      BY DEF ServesConsistentFlags
  <2>1. /\ 0 \in 0..Len(flagMail) /\ AwakeAfter(0) /\ RoundAfter(0, fbRound)
        /\ \A f : KnownAfter(0, f) <=> f \in known
      BY DEF GameInv, TypeOK, AwakeAfter, RoundAfter, KnownAfter
  <2>2. ConsistentAfter(0) /\ fbRound \in DOMAIN rounds /\ known \subseteq Flag
      BY <2>1 DEF ServesInv, GameInv, TypeOK
  <2>3. QED
      BY <2>1, <2>2 DEF ConsistentAfter
<1>4. QED
    BY <1>1, <1>2, <1>3, GameInvariance, RoundInvariance, PTL DEF Spec

-----------------------------------------------------------------------------
(* The scorebot's channel, seen with what it has recorded and what is still to
   be replayed as one ascending list of rounds. *)

\* The scorebot has heard of i, will hear of it, or the replay still holds it.
Told(i) == \/ \E k \in DOMAIN hScore : hScore[k] = i
           \/ \E k \in DOMAIN scoreMail : scoreMail[k] = i
           \/ i \in script.scores

\* Recorded, waiting, to be replayed: ascending, and rounds that count.
ScoresAscend ==
    /\ \A j, k \in DOMAIN hScore : j < k => hScore[j] < hScore[k]
    /\ \A j, k \in DOMAIN scoreMail : j < k => scoreMail[j] < scoreMail[k]
    /\ \A j \in DOMAIN hScore, k \in DOMAIN scoreMail : hScore[j] < scoreMail[k]
    /\ \A i \in script.scores : /\ \A k \in DOMAIN hScore : hScore[k] < i
                                /\ \A k \in DOMAIN scoreMail : scoreMail[k] < i

\* All the rounds that are finished, or may be from where the loop stands, are
\* told, and the new one is not told twice.
ScoresComplete ==
    /\ \A i \in DOMAIN rounds : Told(i) => Counts(i)
    /\ \A i \in FinishedRows(rounds) \ {1} : Told(i)
    /\ pc \notin {"tellScore", "dead"} => roundId = 1 \/ Told(roundId)
    /\ pc = "tellScore" => ~Told(roundId)
    /\ pc # "replay" => script.scores = {}
    /\ pc = "replay" => rounds[roundId].finished

ScoreInv == ScoresAscend /\ ScoresComplete

\* The only round of number zero that counts is the first row.
LEMMA RoundZeroIsFirst ==
    ASSUME GameInv, NEW i, Counts(i), i # 1
    PROVE  ~IsRoundZero(rounds, i)
<1> USE DEF GameInv, LoopInv
<1>1. /\ i \in DOMAIN rounds /\ 1 \in FinishedRows(rounds) /\ DOMAIN rounds \subseteq Nat \ {0}
      /\ \A l \in DOMAIN rounds : rounds[l].number \in Nat
  <2>1. \A l \in DOMAIN rounds : rounds[l] \in Row
      BY DEF TypeOK
  <2>2. QED
      BY <2>1, SMTT(30) DEF Row, TypeOK, Counts, FinishedRows, NewestRound
<1>2. CASE i \in FinishedRows(rounds)
  <2>1. 1 < i /\ 1 \in DOMAIN rounds
      BY <1>1 DEF FinishedRows
  <2>2. rounds[1].number < rounds[i].number
      BY <1>1, <1>2, <2>1 DEF FinishedNumbersContiguous
  <2>3. QED
      BY <1>1, <2>1, <2>2 DEF IsRoundZero
<1>3. CASE i = roundId /\ ~rounds[roundId].finished
    BY <1>1, <1>3 DEF NewestRound, IsRoundZero, FinishedRows
<1>4. QED
    BY <1>1, <1>2, <1>3 DEF Counts, FinishedRows

\* A round later than all that were told may be sent.
LEMMA SendScore ==
    ASSUME GameInv, ScoreInv, NEW i \in DOMAIN rounds, SendScorebot(i), UNCHANGED hScore,
           script'.scores = script.scores \ {i},
           \A k \in DOMAIN hScore : hScore[k] < i,
           \A k \in DOMAIN scoreMail : scoreMail[k] < i,
           \A j \in script.scores : j = i \/ i < j
    PROVE  /\ ScoresAscend'
           /\ \A j : Told(j)' <=> Told(j) \/ j = i
<1>1. /\ scoreMail \in Seq(DOMAIN rounds) /\ scoreMail' = Append(scoreMail, i)
      /\ DOMAIN rounds \subseteq Nat
    BY DEF GameInv, TypeOK, SendScorebot
<1>2. /\ \A k \in DOMAIN scoreMail' : \/ k \in DOMAIN scoreMail /\ scoreMail'[k] = scoreMail[k]
                                      \/ k = Len(scoreMail) + 1 /\ scoreMail'[k] = i
      /\ \A k \in DOMAIN scoreMail : /\ k \in DOMAIN scoreMail' /\ scoreMail'[k] = scoreMail[k]
                                     /\ k \in Nat /\ k < Len(scoreMail) + 1
      /\ Len(scoreMail) + 1 \in DOMAIN scoreMail' /\ Len(scoreMail) + 1 \in Nat
      /\ scoreMail'[Len(scoreMail) + 1] = i
    BY <1>1
<1>3. \A j, k \in DOMAIN scoreMail' : j < k => scoreMail'[j] < scoreMail'[k]
  <2> SUFFICES ASSUME NEW j \in DOMAIN scoreMail', NEW k \in DOMAIN scoreMail', j < k
               PROVE  scoreMail'[j] < scoreMail'[k]
      OBVIOUS
  <2>1. j \in DOMAIN scoreMail
      BY <1>2
  <2>2. QED
      BY <1>2, <2>1 DEF ScoreInv, ScoresAscend
<1>4. ScoresAscend'
    BY <1>2, <1>3 DEF ScoreInv, ScoresAscend
<1>5. ASSUME NEW j PROVE Told(j)' <=> Told(j) \/ j = i
    BY <1>2 DEF Told
<1>6. QED
    BY <1>4, <1>5

\* The head of the channel is recorded, unless it is round zero.
LEMMA RecordScore ==
    ASSUME GameInv, ScoreInv, ScorebotUpdateRound
    PROVE  /\ ScoresAscend'
           /\ \A j : Told(j)' => Told(j)
           /\ \A j : Told(j) /\ j # 1 => Told(j)'
<1> DEFINE h == scoreMail[1]
<1>1. /\ scoreMail \in Seq(DOMAIN rounds) /\ scoreMail # <<>> /\ scoreMail' = Tail(scoreMail)
      /\ hScore \in Seq(DOMAIN rounds) /\ DOMAIN rounds \subseteq Nat
      /\ UNCHANGED script /\ Head(scoreMail) = h /\ 1 \in DOMAIN scoreMail
      /\ \/ IsRoundZero(rounds, h) /\ hScore' = hScore
         \/ ~IsRoundZero(rounds, h) /\ hScore' = Append(hScore, h)
    BY DEF GameInv, TypeOK, ScorebotUpdateRound, gameVars
<1>2. /\ \A k \in DOMAIN scoreMail' : k \in Nat /\ k + 1 \in DOMAIN scoreMail /\ 1 < k + 1
                                      /\ scoreMail'[k] = scoreMail[k + 1]
      /\ \A k \in DOMAIN scoreMail : k = 1 \/ (k - 1 \in DOMAIN scoreMail'
                                               /\ scoreMail'[k - 1] = scoreMail[k])
  <2>1. /\ Len(scoreMail) \in Nat \ {0} /\ DOMAIN scoreMail = 1..Len(scoreMail)
        /\ DOMAIN scoreMail' = 1..(Len(scoreMail) - 1)
        /\ \A k \in 1..(Len(scoreMail) - 1) : scoreMail'[k] = scoreMail[k + 1]
      BY <1>1, TailParts
  <2>2. QED
      BY <2>1
<1>3. \A k \in DOMAIN scoreMail' : h < scoreMail'[k]
    BY <1>1, <1>2 DEF ScoreInv, ScoresAscend
<1>4. Counts(h)
    BY <1>1 DEF ScoreInv, ScoresComplete, Told
<1>5. h # 1 => ~IsRoundZero(rounds, h)
    BY <1>4, RoundZeroIsFirst
<1>6. \A j, k \in DOMAIN scoreMail' : j < k => scoreMail'[j] < scoreMail'[k]
    BY <1>2 DEF ScoreInv, ScoresAscend
<1>7. ASSUME NEW j
      PROVE  (\E k \in DOMAIN scoreMail : scoreMail[k] = j)
                 <=> j = h \/ \E k \in DOMAIN scoreMail' : scoreMail'[k] = j
  <2>1. ASSUME NEW k \in DOMAIN scoreMail, scoreMail[k] = j
        PROVE  j = h \/ \E l \in DOMAIN scoreMail' : scoreMail'[l] = j
      BY <1>2, <2>1
  <2>2. ASSUME NEW k \in DOMAIN scoreMail', scoreMail'[k] = j
        PROVE  \E l \in DOMAIN scoreMail : scoreMail[l] = j
      BY <1>2, <2>2
  <2>3. QED
      BY <1>1, <2>1, <2>2
<1>8. CASE IsRoundZero(rounds, h) /\ hScore' = hScore
  <2>1. ScoresAscend'
      BY <1>1, <1>2, <1>6, <1>8 DEF ScoreInv, ScoresAscend
  <2>2. \A j : /\ Told(j)' => Told(j)
               /\ Told(j) /\ j # 1 => Told(j)'
    <3>1. UNCHANGED hScore /\ script'.scores = script.scores /\ h = 1
        BY <1>1, <1>5, <1>8
    <3> HIDE DEF h
    <3>2. QED
        BY <1>7, <3>1 DEF Told
  <2>3. QED
      BY <2>1, <2>2
<1>9. CASE hScore' = Append(hScore, h)
  <2>1. /\ \A k \in DOMAIN hScore' : \/ k \in DOMAIN hScore /\ hScore'[k] = hScore[k]
                                     \/ k = Len(hScore) + 1 /\ hScore'[k] = h
        /\ \A k \in DOMAIN hScore : /\ k \in DOMAIN hScore' /\ hScore'[k] = hScore[k]
                                    /\ k \in Nat /\ k < Len(hScore) + 1
        /\ Len(hScore) + 1 \in DOMAIN hScore' /\ Len(hScore) + 1 \in Nat
        /\ hScore'[Len(hScore) + 1] = h
      BY <1>1, <1>9
  <2>2. \A k \in DOMAIN hScore : hScore[k] < h
      BY <1>1 DEF ScoreInv, ScoresAscend
  <2>3. \A j, k \in DOMAIN hScore' : j < k => hScore'[j] < hScore'[k]
    <3> SUFFICES ASSUME NEW j \in DOMAIN hScore', NEW k \in DOMAIN hScore', j < k
                 PROVE  hScore'[j] < hScore'[k]
        OBVIOUS
    <3>1. j \in DOMAIN hScore
        BY <2>1
    <3>2. QED
        BY <2>1, <2>2, <3>1 DEF ScoreInv, ScoresAscend
  <2>4. ScoresAscend'
    <3>1. \A j \in DOMAIN hScore', k \in DOMAIN scoreMail' : hScore'[j] < scoreMail'[k]
        BY <1>2, <1>3, <2>1 DEF ScoreInv, ScoresAscend
    <3>2. \A i \in script'.scores : /\ \A k \in DOMAIN hScore' : hScore'[k] < i
                                    /\ \A k \in DOMAIN scoreMail' : scoreMail'[k] < i
        BY <1>1, <1>2, <2>1 DEF ScoreInv, ScoresAscend
    <3>3. QED
        BY <1>6, <2>3, <3>1, <3>2 DEF ScoresAscend
  <2>5. \A j : Told(j)' <=> Told(j)
    <3>1. script'.scores = script.scores
        BY <1>1
    <3> HIDE DEF h
    <3>2. ASSUME NEW j
          PROVE  (\E k \in DOMAIN hScore' : hScore'[k] = j)
                     <=> j = h \/ \E k \in DOMAIN hScore : hScore[k] = j
        BY <2>1
    <3>3. QED
        BY <1>7, <3>1, <3>2 DEF Told
  <2>6. QED
      BY <2>4, <2>5
<1>10. QED
    BY <1>1, <1>8, <1>9

\* Steps that leave the scorebot's list alone.
LEMMA QuietScores ==
    ASSUME GameInv, GameInv', ScoreInv, [Next]_vars, ~Crash,
           UNCHANGED <<hScore, scoreMail>>, script'.scores = script.scores,
           \/ UNCHANGED rounds \/ FinishAndPark \/ FinishRound \/ CreateRound,
           ~CreateRound => /\ UNCHANGED roundId
                           /\ pc' = "tellScore" => pc = "tellScore"
                           /\ pc = "tellScore" => pc' = "tellScore"
                           /\ pc = "dead" => pc' = "dead"
                           /\ pc' = "replay" => pc = "replay"
                           /\ pc = "replay" /\ pc' # "replay" => script.scores = {}
    PROVE  ScoreInv'
<1> USE DEF GameInv, LoopInv, ScoreInv
<1>1. ScoresAscend' /\ \A i : Told(i)' <=> Told(i)
    BY DEF ScoresAscend, Told
<1>2. \A i : Counts(i) => Counts(i)'
    BY CountsStays
<1>3. \A i : Told(i) => i \in DOMAIN rounds
    BY DEF TypeOK, Told
<1>4. \A i : Told(i)' => Counts(i)'
    BY <1>1, <1>2, <1>3 DEF ScoresComplete
<1>5. CASE UNCHANGED rounds /\ ~CreateRound
    BY <1>1, <1>4, <1>5 DEF ScoresComplete
<1>6. CASE FinishAndPark \/ FinishRound
  <2>1. /\ FinishedRows(rounds') = FinishedRows(rounds) \cup {roundId} /\ UNCHANGED roundId
        /\ pc \in {"marking", "decide"} /\ pc' \in {"parked", "create"}
      BY <1>6, MarkFinishedRows DEF FinishAndPark, FinishRound, TypeOK
  <2>2. QED
      BY <1>1, <1>4, <2>1 DEF ScoresComplete
<1>7. CASE CreateRound
  <2>1. /\ rounds \in Seq(Row) /\ FinishedRows(rounds) # {} /\ rounds' = StartNewRound(rounds)
        /\ roundId' = Len(rounds) + 1 /\ pc = "create" /\ pc' = "tellScore"
      BY <1>7 DEF CreateRound, TypeOK, NewestRound
  <2>2. FinishedRows(rounds') = FinishedRows(rounds)
      BY <2>1, StartNewRoundRows
  <2>3. roundId' \notin DOMAIN rounds
      BY <2>1
  <2>4. QED
      BY <1>1, <1>3, <1>4, <2>1, <2>2, <2>3 DEF ScoresComplete
<1>8. QED
    BY <1>5, <1>6, <1>7

\* The scorebot's list stays ascending and complete.
LEMMA ScoreNext ==
    ASSUME GameInv, GameInv', ScoreInv, [Next]_vars
    PROVE  ScoreInv'
<1> USE DEF GameInv, LoopInv, ScoreInv
<1>0. /\ script \in [flags : SUBSET Flag, rounds : SUBSET DOMAIN rounds,
                     scores : SUBSET DOMAIN rounds]
      /\ DOMAIN rounds \subseteq Nat /\ roundId \in DOMAIN rounds
      /\ \A i : Told(i) => i \in DOMAIN rounds
    BY SMTT(30) DEF TypeOK, Told
<1>1. CASE Crash
  <2>1. /\ hScore' = <<>> /\ scoreMail' = <<>> /\ pc' = "replay" /\ UNCHANGED rounds
        /\ script' = Script(rounds, StoredFlags) /\ roundId' = LastFinished(rounds)
      BY <1>1 DEF Crash, Boot, ResumedRound, db
  <2>2. script'.scores = FinishedRows(rounds) /\ roundId' \in FinishedRows(rounds)
      BY <2>1, LastFinishedIsGreatest DEF Script, TypeOK, NewestRound
  <2>3. DOMAIN hScore' = {} /\ DOMAIN scoreMail' = {}
      BY <2>1
  <2>4. ScoresAscend'
      BY <2>3 DEF ScoresAscend
  <2>5. \A i : Told(i)' <=> i \in FinishedRows(rounds)
      BY <2>2, <2>3 DEF Told
  <2>6. QED
      BY <2>1, <2>2, <2>4, <2>5 DEF ScoresComplete, Counts, FinishedRows
<1>2. CASE ReplayScore
  <2>1. PICK i : i = FirstRow(script.scores)
      OBVIOUS
  <2>2. /\ pc = "replay" /\ SendScorebot(i) /\ UNCHANGED <<rounds, roundId, pc, hScore>>
        /\ script' = [script EXCEPT !.scores = @ \ {i}] /\ script.scores # {}
      BY <1>2, <2>1 DEF ReplayScore, db, loopVars
  <2>3. script'.scores = script.scores \ {i}
      BY <1>0, <2>2
  <2>4. i \in script.scores /\ \A j \in script.scores : i <= j
      BY <1>0, <2>1, <2>2, FirstRowIsLeast
  <2>5. \A j \in script.scores : j = i \/ i < j
      BY <1>0, <2>4
  <2>6. /\ \A k \in DOMAIN hScore : hScore[k] < i
        /\ \A k \in DOMAIN scoreMail : scoreMail[k] < i
      BY <2>4 DEF ScoresAscend
  <2>7. ScoresAscend' /\ \A j : Told(j)' <=> Told(j) \/ j = i
      BY <1>0, <2>2, <2>3, <2>4, <2>5, <2>6, SendScore
  <2>8. Told(i)
      BY <2>4 DEF Told
  <2>9. QED
      BY <2>2, <2>7, <2>8 DEF ScoresComplete, Counts
<1>3. CASE TellScorebot
  <2>1. /\ pc = "tellScore" /\ pc' = "tellFlags" /\ SendScorebot(roundId)
        /\ UNCHANGED <<rounds, roundId, hScore, script>>
      BY <1>3 DEF TellScorebot, db, gameVars
  <2>2. script.scores = {} /\ ~Told(roundId)
      BY <2>1 DEF ScoresComplete
  <2>3. \A i : Told(i) => i < roundId
    <3>1. \A i : Told(i) => i <= roundId
        BY <1>0, CountsUpToRound DEF ScoresComplete
    <3>2. QED
        BY <1>0, <2>2, <3>1
  <2>4. /\ \A k \in DOMAIN hScore : hScore[k] < roundId
        /\ \A k \in DOMAIN scoreMail : scoreMail[k] < roundId
      BY <2>3 DEF Told
  <2>5. script'.scores = script.scores \ {roundId} /\ \A j \in script.scores : roundId < j
      BY <2>1, <2>2
  <2>6. ScoresAscend' /\ \A j : Told(j)' <=> Told(j) \/ j = roundId
      BY <1>0, <2>1, <2>4, <2>5, SendScore
  <2>7. QED
      BY <2>1, <2>2, <2>6 DEF ScoresComplete, Counts
<1>4. CASE ScorebotUpdateRound
  <2>1. UNCHANGED <<rounds, roundId, pc, script>>
      BY <1>4 DEF ScorebotUpdateRound, db, loopVars, gameVars
  <2>2. /\ ScoresAscend'
        /\ \A j : Told(j)' => Told(j)
        /\ \A j : Told(j) /\ j # 1 => Told(j)'
      BY <1>4, RecordScore
  <2>3. QED
      BY <2>1, <2>2 DEF ScoresComplete, Counts
<1>5. CASE ~Crash /\ ~ReplayScore /\ ~TellScorebot /\ ~ScorebotUpdateRound
  <2>1. /\ UNCHANGED <<hScore, scoreMail>>
        /\ ~CreateRound => /\ UNCHANGED roundId
                           /\ pc' = "tellScore" => pc = "tellScore"
                           /\ pc = "tellScore" => pc' = "tellScore"
                           /\ pc = "dead" => pc' = "dead"
                           /\ pc' = "replay" => pc = "replay"
      BY <1>5 DEF Next, Replay, ReplayFlag, ReplayRound, SpawnGame, ProgressGame, Check,
         AnnouncePause, FinishAndPark, StopAtTotal, FinishRound, CreateRound, TellFlagbot,
         SeedState, StoreFlag, HandOutFlag, SleepRound, EndOfRound, LoopFails, Handle, ForwardStart,
         NotifyLoop, Command, ReceivePause, ReceiveStart, FlagbotHandle, FlagbotUpdateRound,
         FlagbotNewFlag, FlagbotStart, FlagbotPause, ReceiveFlagMsg, vars, db, loopVars
  <2>2. script'.scores = script.scores
    <3>1. CASE \E f \in script.flags : ReplayFlag(f)
        BY <1>0, <3>1 DEF ReplayFlag
    <3>2. CASE ReplayRound
        BY <1>0, <3>2 DEF ReplayRound
    <3>3. CASE UNCHANGED script
        BY <3>3
    <3>4. QED
        BY <1>5, <3>1, <3>2, <3>3 DEF Next, Replay, SpawnGame, ProgressGame, Check,
         AnnouncePause, FinishAndPark, StopAtTotal, FinishRound, CreateRound, TellFlagbot,
         SeedState, StoreFlag, HandOutFlag, SleepRound, EndOfRound, LoopFails, Handle, ForwardStart,
         NotifyLoop, Command, ReceivePause, ReceiveStart, FlagbotHandle, FlagbotUpdateRound,
         FlagbotNewFlag, FlagbotStart, FlagbotPause, ReceiveFlagMsg, vars, gameVars
  <2>3. pc = "replay" /\ pc' # "replay" => script.scores = {}
    <3>1. pc = "replay" /\ pc' # "replay" => SpawnGame
        BY <1>5 DEF Next, Replay, ReplayFlag, ReplayRound, ProgressGame, Check, AnnouncePause,
         FinishAndPark, StopAtTotal, FinishRound, CreateRound, TellFlagbot, SeedState, StoreFlag,
         HandOutFlag, SleepRound, EndOfRound, LoopFails, Handle, ForwardStart, NotifyLoop, Command,
         ReceivePause, ReceiveStart, FlagbotHandle, FlagbotUpdateRound, FlagbotNewFlag,
         FlagbotStart, FlagbotPause, ReceiveFlagMsg, vars, loopVars
    <3>2. SpawnGame => script.scores = {}
        BY DEF SpawnGame
    <3>3. QED
        BY <3>1, <3>2
  <2>4. QED
      BY <1>5, <2>1, <2>2, <2>3, RoundsSteps, QuietScores
<1>6. QED
    BY <1>1, <1>2, <1>3, <1>4, <1>5

\* The history of the scores lists each round that was played once and in order,
\* whatever was abandoned before and replayed since (scoring.rs:133).
THEOREM HistoryIsPlayedRounds == Spec => []ScoreHistoryIsPlayedRounds
<1>1. Init => ScoreInv
  <2> SUFFICES ASSUME Init PROVE ScoreInv
      OBVIOUS
  <2>1. /\ pc = "replay" /\ hScore = <<>> /\ scoreMail = <<>> /\ roundId = 1
        /\ rounds = <<[number |-> 0, finished |-> TRUE]>>
        /\ script = [flags |-> {}, rounds |-> FinishedRows(rounds),
                     scores |-> FinishedRows(rounds)]
      BY DEF Init, InitialRounds, Script
  <2>2. FinishedRows(rounds) = {1} /\ rounds[1].finished
      BY <2>1 DEF FinishedRows
  <2>3. DOMAIN hScore = {} /\ DOMAIN scoreMail = {} /\ script.scores = {1}
      BY <2>1, <2>2
  <2>4. \A i : Told(i) <=> i = 1
      BY <2>3 DEF Told
  <2>5. QED
      BY <2>1, <2>2, <2>3, <2>4 DEF ScoreInv, ScoresAscend, ScoresComplete, Counts
<1>2. GameInv /\ GameInv' /\ ScoreInv /\ [Next]_vars => ScoreInv'
    BY ScoreNext
<1>3. GameInv /\ ScoreInv => ScoreHistoryIsPlayedRounds
  <2> SUFFICES ASSUME GameInv, ScoreInv PROVE ScoreHistoryIsPlayedRounds
      OBVIOUS
  <2>1. \A j, k \in DOMAIN hScore : j < k => hScore[j] < hScore[k]
      BY DEF ScoreInv, ScoresAscend
  <2>2. ASSUME NEW k \in DOMAIN hScore
        PROVE  rounds[hScore[k]].finished \/ hScore[k] = roundId
    <3>1. hScore[k] \in DOMAIN rounds /\ Told(hScore[k])
        BY DEF GameInv, TypeOK, Told
    <3>2. QED
        BY <3>1 DEF ScoreInv, ScoresComplete, Counts, FinishedRows
  <2>3. ASSUME pc \in {"nap", "seed", "sleep", "parked"}, scoreMail = <<>>,
               NEW i \in FinishedRows(rounds) \ {1}
        PROVE  \E k \in DOMAIN hScore : hScore[k] = i
    <3>1. Told(i) /\ script.scores = {} /\ DOMAIN scoreMail = {}
        BY <2>3 DEF ScoreInv, ScoresComplete
    <3>2. QED
        BY <3>1 DEF Told
  <2>4. QED
      BY <2>1, <2>2, <2>3 DEF ScoreHistoryIsPlayedRounds
<1>4. QED
    BY <1>1, <1>2, <1>3, GameInvariance, PTL DEF Spec
=============================================================================
