SPECIFICATION Spec
CONSTANTS
    Addresses <- MCAddresses
    AddressOrder <- MCAddressOrder
    Bootstrap <- MCBootstrap
    Port = 1
    CodeCells = {2}
    VectorCells = {3}
    SidRange = {4}
    ColorRange = {5}
    Values = {0, 1}
    PowerOn = 0
    IoMaps = {0}
    NotSaved = NotSaved
    LogSize = 3
    MaxDirtyRam = 1
    MaxDirtyColor = 1
    MaxTimedWrites = 1
    MaxWrites = 3
INVARIANTS
    TypeOK
    MirrorFollowsMachine
    NoWriteIsSkipped
PROPERTY
    RollbackLeavesNoTrace
