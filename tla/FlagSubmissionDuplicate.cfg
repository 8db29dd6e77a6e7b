\* Two connections of one team, one round, no crash.
CONSTANTS
    a = a
    b = b
    c1 = c1
    c2 = c2
    Teams = {a, b}
    Conns = {c1, c2}
    TeamOf <- SameTeam
    FlagLife = 2
    MailCap = 2
    MaxRows = 2
    MaxSubmissions = 2
    MaxCrashes = 0
SPECIFICATION Spec
INVARIANT NoDuplicateSubmissions
CHECK_DEADLOCK FALSE
