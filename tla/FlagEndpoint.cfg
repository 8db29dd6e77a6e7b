\* Two admins with two commands, two connections of the team.
CONSTANTS
    a = a
    stranger = stranger
    c1 = c1
    c2 = c2
    c3 = c3
    c4 = c4
    h1 = h1
    h2 = h2
    Teams = {a}
    Stranger = stranger
    Conns = {c1, c2}
    TeamOf <- OneStranger
    Limits = {1, 2}
    DefaultLimit = 1
    Admins = {h1, h2}
    MailCap = 2
    MaxCommands = 2
    MaxErrors = 1
SPECIFICATION FairSpec
INVARIANTS
    TypeOK
    OpenWithinLimit
    ConnectionsAreCounted
PROPERTIES
    WaitingIsServed
    StartOpensEndpoint
CHECK_DEADLOCK FALSE
