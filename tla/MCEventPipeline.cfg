CONSTANTS
    LaneCapacity = 1
    CriticalCapacity = 1
    NodeCapacity = 1
    SpillCapacity = 1
    QueueCapacity = 3
    Reserve = 1
    Frames = 2
    CounterLimit = 16
    MaxPushes = 6
    MaxBlocks = 2

SPECIFICATION Spec

INVARIANTS
    TypeOK
    ReleasesOutliveNotes
    SourceOrder
    ReleaseSilences

CHECK_DEADLOCK FALSE
