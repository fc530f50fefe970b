CONSTANTS
    PacketFrames = 1
    BlockFrames = 2
    Step = 1
    Unit = 1
    Target = 4
    RingFrames = 32
    Patience = 20
    MaxFlight = 1
    MaxPackets = 46
    MaxLosses = 2
    MaxStalls = 0
    MaxResets = 0
SPECIFICATION PlaybackSpec
INVARIANT
    AudioRecovers
CHECK_DEADLOCK FALSE
