\* A team's two connections, of up to three lines and of one; the throttle set twice.
CONSTANTS
    a = a
    b = b
    c1 = c1
    c2 = c2
    c3 = c3
    Teams = {a, b}
    Conns = {c1, c2}
    TeamOf <- TwoTeams
    Limit <- Limits
    NonBufferingLimit = 2
    MaxLines <- Lines
    Verdicts = {"Accepted", "InvalidFlag", "SelfFlag"}
    MaxToggles = 2
SPECIFICATION FairSpec
INVARIANTS
    ThrottledCountsBounded
    MetricsAddUp
    InstantFeedback
PROPERTY
    EveryConnectionEnds
CHECK_DEADLOCK FALSE
