\* Two teams, two connections of the attacker, three rounds, one crash, channels of one message.
CONSTANTS
    a = a
    b = b
    c1 = c1
    c2 = c2
    Teams = {a, b}
    Conns = {c1, c2}
    TeamOf <- SameTeam
    FlagLife = 2
    MailCap = 1
    MaxRows = 4
    MaxSubmissions = 2
    MaxCrashes = 1
SPECIFICATION FairSpec
INVARIANTS
    TypeOK
    AcceptedFlagsAreAlive
    InvalidStateUnreachable
    GainedEqualsLost
    JournalIsBooked
    JournalRefersToStoredFlags
    ScoreMatchesJournal
    CreditedIsMarked
PROPERTIES
    ImplementsCredit
    EventIsCredited
CHECK_DEADLOCK FALSE
