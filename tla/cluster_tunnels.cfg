CHECK_DEADLOCK FALSE
SPECIFICATION QuietFairSpec
CONSTANTS
    a = a
    b = b
    x = x
    NoRow = NoRow
    Node <- TwoNodes
    Elsewhere = {}
    Fronted = {}
    Boot <- BootEachOther
    Typed = {}
    Host = {1, 2}
    MaxCrashes = 0
    MaxEdits = 0
PROPERTY CollisionsEnd
