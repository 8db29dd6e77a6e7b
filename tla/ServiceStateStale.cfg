\* A service check that is answered in the next round.
CONSTANTS
    web = web
    dns = dns
    s1 = s1
    s2 = s2
    k1 = k1
    k2 = k2
    k3 = k3
    Targets = {web}
    Slots = {s1}
    FlagLife = 2
    CheckerStates = {2, 4}
    Tasks = {k1, k2}
    MailCap = 1
    MaxRows = 3
    MaxEntries = 4
    MaxSweeps = 1
    MaxCrashes = 0
SPECIFICATION Spec
SYMMETRY TaskSymmetry
PROPERTY ChecksCountForTheirRound
CHECK_DEADLOCK FALSE
