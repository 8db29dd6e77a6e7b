\* One connection of up to three lines.
CONSTANTS
    a = a
    b = b
    c1 = c1
    c2 = c2
    c3 = c3
    Teams = {a, b}
    Conns = {c1}
    TeamOf <- TwoTeams
    Limit <- Limits
    NonBufferingLimit = 2
    MaxLines <- Lines
    Verdicts = {"Accepted", "InvalidFlag", "SelfFlag"}
    MaxToggles = 1
SPECIFICATION Spec
INVARIANT
    BufferedFromLimit
CHECK_DEADLOCK FALSE
