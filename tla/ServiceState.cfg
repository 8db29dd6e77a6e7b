\* One service with two slots, one round and its restart: two tasks race to record
\* what their checkers answered.
CONSTANTS
    web = web
    dns = dns
    s1 = s1
    s2 = s2
    k1 = k1
    k2 = k2
    k3 = k3
    Targets = {web}
    Slots = {s1, s2}
    FlagLife = 2
    CheckerStates = {2, 4, 6}
    Tasks = {k1, k2}
    MailCap = 1
    MaxRows = 2
    MaxEntries = 4
    MaxSweeps = 1
    MaxCrashes = 1
SPECIFICATION Spec
SYMMETRY TaskSymmetry
INVARIANTS
    TypeOK
    CopiesFollowJournal
    CopiesAgreeAtRest
PROPERTY StatesOnlyWorsen
CHECK_DEADLOCK FALSE
