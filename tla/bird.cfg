SPECIFICATION Spec
CONSTANTS
    p1 = p1
    p2 = p2
    other = other
    Me = Me
    ListenAddr = ListenAddr
    NoOrigin = NoOrigin
    NoLink = NoLink
    NoRow = NoRow
    NoConf = NoConf
    Peer <- TwoPeers
    Node <- Nodes
    Rule <- Rules
    Link <- Links
    Mode <- Modes
    MaxEdits = 4
INVARIANT TypeOK
PROPERTY SessionsMatchPeers
