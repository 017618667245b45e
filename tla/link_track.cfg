\* two ports, two hosts and one without a name, an event of each end
CONSTANTS
    p1 = p1
    p2 = p2
    l1 = l1
    e1 = e1
    Port = {p1, p2}
    Host = {1, 2}
    Cabling <- MCCabling
    Blank = 0
    None = None
    Window = 2
    LocalEvent = {l1}
    PeerEvent = {e1}
    MaxMoves = 1
    MaxFaults = 1
SPECIFICATION FairSpec
INVARIANTS
    TypeOK
    TopologyTold
    PeersHearLosses
PROPERTIES
    ConnectedPeersStay
    AlarmsCorrected
    PairsReported
