\* Heartbeat, sweeper, an updating app, shutdown and drop.
SPECIFICATION FairNodeSpec
CONSTANTS
    me = me
    peer = peer
    c1 = c1
    c2 = c2
    p1 = p1
    here = here
    there = there
    app1 = app1
    Ids = {me}
    Me = me
    Contents = {c1, c2}
    OwnContents = {c1, c2}
    Announced = {}
    Unsigned = Unsigned
    Initial = c1
    Cards <- AllCards
    Instances = {here, there}
    InstanceOf <- NameOfCard
    Main = Main
    Heartbeat = Heartbeat
    Sweeper = Sweeper
    Listener = Listener
    Apps = {app1}
    Callers <- AllCallers
    None = None
    Configs <- JustPlain
    Ttl = 3
    Hb = 1
    MaxLate = 1
    MaxTime = 0
    MaxEvents = 2
PROPERTIES
    EntryCatchesUp
    TasksEnd
    ShutdownReturns
    ServiceIsWithdrawn
CHECK_DEADLOCK FALSE
