\* A restart of an open endpoint; one connection, refused before it.
CONSTANTS
    a = a
    stranger = stranger
    c1 = c1
    c2 = c2
    c3 = c3
    c4 = c4
    h1 = h1
    h2 = h2
    Teams = {a}
    Stranger = stranger
    Conns = {c1}
    TeamOf <- OneStranger
    Limits = {1, 2}
    DefaultLimit = 1
    Admins = {h1}
    MailCap = 2
    MaxCommands = 2
    MaxErrors = 0
SPECIFICATION FairSpec
PROPERTY
    RestartTakesEffect
CHECK_DEADLOCK FALSE
