\* One connection that passes the limit of two before the throttle is on.
CONSTANTS
    a = a
    b = b
    c1 = c1
    c2 = c2
    c3 = c3
    Teams = {a, b}
    Conns = {c1}
    TeamOf <- TwoTeams
    Limit <- Limits
    NonBufferingLimit = 2
    MaxLines <- ManyLines
    Verdicts = {"Accepted", "InvalidFlag", "SelfFlag"}
    MaxToggles = 1
SPECIFICATION Spec
PROPERTY
    ThresholdCloses
CHECK_DEADLOCK FALSE
