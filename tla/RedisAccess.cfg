SPECIFICATION AccessSpec
CONSTANTS
    a1 = a1  a2 = a2  b1 = b1
    c1 = c1  c2 = c2  c3 = c3  c4 = c4
    Threads <- MCThreads
    Loop <- MCLoop
    Clients <- MCClients
    NoClient = NoClient
    Initial = 1
    Longest = 2
    JitterPercent = 100
    FailureCap = 2
PROPERTIES
    NoStaleDegrade
    ProbesRationed
    AsyncPaced
    DroppedByCommandOrOtherLoop
    Recovers
