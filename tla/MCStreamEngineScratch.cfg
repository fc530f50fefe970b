CONSTANTS
    SettingsSet <- MCSettings
    ChannelSet <- MCChannels
    Capacity = 2
    Quarter = 1
    MaxCalls = 3
    SeqMod = 2
    ClockMod = 3
SPECIFICATION Spec
INVARIANT
    ReadFitsScratch
CHECK_DEADLOCK FALSE
