SPECIFICATION FairSpec
CONSTANTS
    Capacity = 2
    Producers = {midi, ui}
    MaxPushes = 4
    MaxClears = 1
INVARIANTS
    TypeOK
    CellHasOneUser
    FullAnswerIsTrue
PROPERTIES
    ImplementsFifo
    ClaimedCellsDrain
