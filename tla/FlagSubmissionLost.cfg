\* Two connections of one team, two rounds, channels of one message.
CONSTANTS
    a = a
    b = b
    c1 = c1
    c2 = c2
    Teams = {a, b}
    Conns = {c1, c2}
    TeamOf <- SameTeam
    FlagLife = 2
    MailCap = 1
    MaxRows = 3
    MaxSubmissions = 3
    MaxCrashes = 0
SPECIFICATION Spec
INVARIANT MarkedIsJournaled
CHECK_DEADLOCK FALSE
