CONSTANTS
    PacketFrames = 2
    BlockFrames = 4
    Step = 3
    Unit = 2
    Target = 12
    RingFrames = 50
    Patience = 0
    MaxFlight = 4
    MaxPackets = 20
    MaxLosses = 2
    MaxStalls = 6
    MaxResets = 2
SPECIFICATION PlaybackSpec
INVARIANTS
    PlaybackTypeOK
    StaysOnClock
    DelayWithinTargetAbsorbed
CHECK_DEADLOCK FALSE
