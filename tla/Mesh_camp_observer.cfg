\* A camp command's short TTL against a default announcer, on a perfect network.
SPECIFICATION MeshSpec
CONSTANTS
    a = a
    o = o
    c1 = c1
    c2 = c2
    Nodes = {a, o}
    Advertisers = {a}
    Contents = {c1}
    None = None
    Hb <- CampHb
    Ttl <- CampTtl
    MaxDelay = 0
    MaxLoss = 0
PROPERTY LivePeersStay
CHECK_DEADLOCK FALSE
