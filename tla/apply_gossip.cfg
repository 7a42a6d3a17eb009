SPECIFICATION ClusterSpec
CONSTANTS
    r1 = r1
    r2 = r2
    i1 = i1
    i2 = i2
    Debounce = Debounce
    Gossip = Gossip
    NoProc = NoProc
    NoRow = NoRow
    NoConf = NoConf
    Req <- OneCall
    Iface <- OneIface
    Ops <- CreateDelete
    MaxWrites = 2
PROPERTY MonotonicDeploy
