SPECIFICATION Spec
CONSTANTS
    c1 = c1
    c2 = c2
    k1 = k1
    k2 = k2
    k3 = k3
    k4 = k4
    Main = Main
    Own = Own
    NoKey = NoKey
    Call <- TwoCalls
    Key <- Keys
    ClusterMode = TRUE
    MaxPeers = 2
INVARIANTS
    TypeOK
    PeersShareTheNodeKey
    LocalPeersHaveAKey
PROPERTY NodeKeyIsStable
