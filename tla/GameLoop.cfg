\* One team, two services, one flag slot; rounds up to the one beyond the
\* total; two crashes.
CONSTANTS
    t1 = t1
    t2 = t2
    web = web
    dns = dns
    w1 = w1
    w2 = w2
    d1 = d1
    Teams = {t1}
    Services = {web, dns}
    Slots = {w1}
    SlotService <- OneSlotService
    TotalRound = 2
    MailCap = 2
    MaxRows = 5
    MaxCommands = 3
    MaxCrashes = 2
SPECIFICATION Spec
INVARIANTS
    TypeOK
    FinishedNumbersContiguous
    FinishedRoundsComplete
    LoopInv
    ServesConsistentFlags
    AgeIsNatural
    ScoreHistoryIsPlayedRounds
PROPERTIES
    AbandonedStayUnfinished
    OvertimeNeedsStop
CHECK_DEADLOCK FALSE
