\* Two tasks, two agents, two cards; clock and feed long enough for a join,
\* a refresh, an expiry and a rejoin.
SPECIFICATION FairSpec
CONSTANTS
    i1 = i1
    i2 = i2
    c1 = c1
    c2 = c2
    Ids = {a, b}
    Cards = {c1, c2}
    Instances = {i1, i2}
    InstanceOf <- NameOfCard
    Callers = {p, q}
    None = None
    Ttl = 1
    MaxTime = 3
    MaxEvents = 2
INVARIANTS
    TypeOK
    FeedIsChained
    FeedMatchesMap
    SweepIsExact
PROPERTIES
    NoPrematureExpiry
    ImplementsPresence
    EveryCallReturns
CHECK_DEADLOCK FALSE
