\* Clients that connect again and again, lag or keep up; Ctrl-C at any moment.
SPECIFICATION FairServeSpec
CONSTANTS
    Ids = {a, b}
    Cards = {c1}
    None = None
    Capacity = 2
    MaxEvents = 3
    Clients = {s1, s2}
INVARIANTS
    ServeTypeOK
    ViewIsCurrent
PROPERTIES
    StreamsKeepUp
    DrainingEnds
CHECK_DEADLOCK FALSE
