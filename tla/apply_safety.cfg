SPECIFICATION RFairSpec
CONSTANTS
    r1 = r1
    r2 = r2
    i1 = i1
    i2 = i2
    Debounce = Debounce
    Gossip = Gossip
    NoProc = NoProc
    NoRow = NoRow
    NoConf = NoConf
    Req <- TwoCalls
    Iface <- OneIface
    Ops <- RaceAndApplyOps
    MaxWrites = 2
INVARIANTS
    TypeOK
    NoLostUpdate
    WgHonest
    ManagedHonest
PROPERTIES
    StatusConverges
    Recovers
