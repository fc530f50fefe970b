CONSTANTS
    Frames <- MCFrames
    StreamLength = 4
    ReadSize = 4
    maxPayloadSize = 3
    Threshold = 3
SPECIFICATION ParserSpec
INVARIANTS
    ParserTypeOK
    MessagesAreTheStreams
CHECK_DEADLOCK FALSE
