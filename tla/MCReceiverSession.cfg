CONSTANTS
    Sockets = {s1, s2, s3}
    NoSocket = NoSocket
    MaxClicks = 5
    MaxDrops = 2
SPECIFICATION Spec
INVARIANTS
    TypeOK
    ListeningIsServed
    StraysComeFromStops
PROPERTY
    StreamSettles
CHECK_DEADLOCK FALSE
