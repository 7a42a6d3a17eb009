\* With every bound used up a cluster of refused calls may have nothing left
\* to do.
CHECK_DEADLOCK FALSE
SPECIFICATION FairSpec
CONSTANTS
    a = a
    b = b
    x = x
    NoRow = NoRow
    Node <- TwoNodes
    Elsewhere = {x}
    Fronted = {a}
    Boot <- BootFromA
    Typed <- OwnNames
    Host = {1, 2}
    MaxCrashes = 1
    MaxEdits = 1
INVARIANTS
    TypeOK
    OwnRowIntact
    TunnelHasKey
    TunnelsDiffer
PROPERTIES
    TunnelsStay
    DeadNodeEndsOffline
