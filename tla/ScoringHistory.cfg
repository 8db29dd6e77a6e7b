\* An event that passes the start of a round between the journal and the channel.
CONSTANTS
    a = a
    b = b
    c = c
    Teams = {a, b, c}
    States = {2}
    Victims = {c}
    Unit = 6
    Loss <- Sixths
    MailCap = 1
    MaxRows = 4
    MaxSubmissions = 1
    MaxStates = 0
    MaxCrashes = 0
SPECIFICATION Spec
SYMMETRY AttackerSymmetry
INVARIANT
    HistoryIsReplayed
CHECK_DEADLOCK FALSE
