SPECIFICATION Spec
CONSTANTS
    p1 = p1
    p2 = p2
    NoTracker = NoTracker
    Prefix <- TwoPrefixes
    Check = 1
    Window = 2
    Threshold = 3
    Resolve = 3
    Ttl = 4
    MaxChanges = 3
    MaxFaults = 1
INVARIANTS
    TypeOK
    OneEventPerPrefix
PROPERTIES
    NoFalseAlarm
    NoEarlyAllClear
    QuietIsResolved
    CalmIsResolved
