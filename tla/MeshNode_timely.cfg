\* A verifying node or an observer, an updating app, a peer that is announced
\* signed or not, and goodbyes under any name, ours too.
SPECIFICATION NodeSpec
CONSTANTS
    me = me
    peer = peer
    c1 = c1
    c2 = c2
    p1 = p1
    here = here
    there = there
    app1 = app1
    Ids = {me, peer}
    Me = me
    Contents = {c1, p1}
    OwnContents = {c1}
    Announced <- PeerCards
    Unsigned = Unsigned
    Initial = c1
    Cards <- AllCards
    Instances = {here, there}
    InstanceOf <- NameOfCard
    Main = Main
    Heartbeat = Heartbeat
    Sweeper = Sweeper
    Listener = Listener
    Apps = {app1}
    Callers <- AllCallers
    None = None
    Configs <- VerifyingOrObserver
    Ttl = 3
    Hb = 1
    MaxLate = 1
    MaxTime = 4
    MaxEvents = 2
INVARIANTS
    NodeTypeOK
    ObserverIsInvisible
    ListenerSparesLocal
    PeersAreVerified
PROPERTIES
    LocalNeverExpires
    QuietAfterShutdown
CHECK_DEADLOCK FALSE
