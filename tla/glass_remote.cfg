SPECIFICATION HealthySpec
CONSTANTS
    b1 = b1
    q1 = q1
    n1 = n1
    n2 = n2
    t1 = t1
    t2 = t2
    NoEntry = NoEntry
    NoToken = NoToken
    NoCall = NoCall
    Here = Here
    OwnName = OwnName
    NoConn = NoConn
    Browser <- OneBrowser
    Query <- OneQuery
    Node <- TwoNodes
    Self = n1
    Limit = 2
    Window = 2
    Lifetime = 1
    Leeway = 1
    Configured = FALSE
    MaxTime = 3
    MaxTries = 5
    MaxRestarts = 1
    Output <- TwoLines
INVARIANT RemoteQueryWorks
