CONSTANTS
    tab = tab
    Pages <- MCPages
    Capacity = 2
    MaxPuts = 3
    MaxPosts = 2
    MaxReloads = 1
    MaxTroubles = 1
SPECIFICATION Spec
CHECK_DEADLOCK FALSE
INVARIANTS
    OnceAndInOrder
    NothingMissed
    ShownIsKept
    NoDoubleBubble
PROPERTY ConnectionsEnd
