CONSTANTS
    DefaultSettings <- MCDefault
    Projects <- MCProjects
    BoxFormats = {"pcm16", "pcm24"}
    BoxFrames = {256, 512}
    Networks <- MCNetworks
    Ports = {1, 2}
    PortRange = 2
    NoAddress = NoAddress
    None = None
    MaxPosted = 2
    MaxEvents = 2
SPECIFICATION Spec
INVARIANTS
    TypeOK
PROPERTIES
    RestoredStreams
    SaveKeepsRestored
    BoxChangesOneThing
CHECK_DEADLOCK FALSE
