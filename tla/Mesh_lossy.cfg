\* An agent and an observer, lost, late, repeated and reordered messages.
SPECIFICATION MeshSpec
CONSTANTS
    a = a
    o = o
    c1 = c1
    c2 = c2
    Nodes = {a, o}
    Advertisers = {a}
    Contents = {c1, c2}
    None = None
    Hb <- DefaultHb
    Ttl <- DefaultTtl
    MaxDelay = 1
    MaxLoss = 2
INVARIANTS
    MeshTypeOK
    AgreedView
    DepartedLeave
PROPERTY LivePeersStay
CHECK_DEADLOCK FALSE
