CONSTANTS
    Tags = 5
    MaxBlock = 3
    MaxRead = 3
    MaxOverruns = 1
    SourceWidths <- MCSourceWidths
    Shapes <- MCShapes
SPECIFICATION Spec
INVARIANTS
    TypeOK
    ClaimsDisjoint
    BlockClaimedWhole
PROPERTIES
    ReadyFramesStable
    ImplementsFifo
