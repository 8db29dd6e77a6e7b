\* One team, one service with one slot; two rounds, one crash.
CONSTANTS
    t1 = t1
    t2 = t2
    web = web
    dns = dns
    w1 = w1
    w2 = w2
    d1 = d1
    Teams = {t1}
    Services = {web}
    Slots = {w1}
    SlotService <- OneSlotService
    TotalRound = 1
    MailCap = 1
    MaxRows = 3
    MaxCommands = 3
    MaxCrashes = 1
SPECIFICATION FairSpec
PROPERTIES
    PauseTakesEffect
    StartWakesParkedLoop
CHECK_DEADLOCK FALSE
