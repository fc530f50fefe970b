CONSTANTS
    Requests <- MCRequests
    MaxHead = 3
    Chunk = 2
    ItemSize = 2
    Room = 3
    QueueCap = 2
    Deadline = 1
SPECIFICATION Spec
INVARIANTS
    TypeOK
PROPERTIES
    NothingAfterTornWrite
    EndsWhenOver
CHECK_DEADLOCK FALSE
