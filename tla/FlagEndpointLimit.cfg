\* Two connections, one in each of two endpoints.
CONSTANTS
    a = a
    stranger = stranger
    c1 = c1
    c2 = c2
    c3 = c3
    c4 = c4
    h1 = h1
    h2 = h2
    Teams = {a}
    Stranger = stranger
    Conns = {c1, c2}
    TeamOf <- OneStranger
    Limits = {1}
    DefaultLimit = 1
    Admins = {h1}
    MailCap = 1
    MaxCommands = 3
    MaxErrors = 0
SPECIFICATION Spec
INVARIANT
    TeamWithinLimit
CHECK_DEADLOCK FALSE
