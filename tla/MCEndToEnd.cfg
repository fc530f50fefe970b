CONSTANTS
    SettingsSet <- MCSettings
    ChannelSet <- MCChannels
    SeqMod = 16
    ClockMod = 16
    Signal <- MCSignal
    Queued = 2
    Target = 1
    Most = 3
    MaxPackets = 4
    MaxEvents = 2
SPECIFICATION EndToEndSpec
INVARIANTS
    EndToEndTypeOK
    RingOfOneDescription
    OnePacketBeforeRestart
    LossesCounted
    HeardFaithfully
CHECK_DEADLOCK FALSE
