\* Two tasks that send more requests for a silent checker than the channels hold.
CONSTANTS
    web = web
    dns = dns
    loop = loop
    check = check
    w1 = w1
    w2 = w2
    w3 = w3
    w4 = w4
    d1 = d1
    d2 = d2
    Services = {web, dns}
    Requests = {w1, w2, w3, w4, d1, d2}
    ServiceOf <- OfService
    Tasks = {loop, check}
    Script <- InTurn
    Cap = 1
    Silent = {web}
SPECIFICATION FairSpec
PROPERTIES
    RequestsAreTaken
    SilentCheckerIsAlone
CHECK_DEADLOCK FALSE
