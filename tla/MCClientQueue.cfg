CONSTANTS
    AudioSize = 3
    ControlSize = 2
    QueueLimit = 9
    MaxFrames = 8
SPECIFICATION Spec
INVARIANTS
    TypeOK
    DeliveredInOrder
    EveryFrameAccounted
PROPERTIES
    DropsOldestOnly
CHECK_DEADLOCK FALSE
