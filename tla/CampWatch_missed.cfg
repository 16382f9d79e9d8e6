\* A change between the snapshot and the subscription.
SPECIFICATION WatchSpec
CONSTANTS
    Ids = {a}
    Cards = {c1}
    None = None
    Missing = Missing
    Torn = Torn
    Capacity = 2
    MaxEvents = 3
INVARIANT StateFileIsCurrent
CHECK_DEADLOCK FALSE
