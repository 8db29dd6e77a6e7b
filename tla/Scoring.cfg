\* Three teams, three rounds, two submissions, a state and a crash.
CONSTANTS
    a = a
    b = b
    c = c
    Teams = {a, b, c}
    States = {2}
    Victims = {c}
    Unit = 6
    Loss <- Sixths
    MailCap = 1
    MaxRows = 4
    MaxSubmissions = 2
    MaxStates = 1
    MaxCrashes = 1
SPECIFICATION Spec
SYMMETRY AttackerSymmetry
INVARIANTS
    PointsFollowJournal
    CapturesAreWeighed
    HistoryFollowsJournal
CHECK_DEADLOCK FALSE
