\* Registry changes, lag, failing writes, kills and restarts at every step.
SPECIFICATION FairWatchSpec
CONSTANTS
    Ids = {a, b}
    Cards = {c1, c2}
    None = None
    Missing = Missing
    Torn = Torn
    Capacity = 2
    MaxEvents = 4
INVARIANTS
    WatchTypeOK
    SnapshotIsWhole
    StateFileCatchesUp
PROPERTY WatchKeepsUp
CHECK_DEADLOCK FALSE
