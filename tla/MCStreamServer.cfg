CONSTANTS
    c1 = c1
    c2 = c2
    c3 = c3
    Conns <- MCConns
    MaxStarts = 2
SPECIFICATION Spec
INVARIANTS
    TypeOK
    NoOrphanThread
    StopLeavesNothing
    BroadcastMeetsLiveOnly
PROPERTIES
    CallbacksPaired
    StopTerminates
CHECK_DEADLOCK FALSE
