SPECIFICATION FairSpec
CONSTANTS
    Setters = {ui, host}
    Values = {0, 1}
    Default = 0
    RingCapacity = 2
    MaxRequests = 3
    MaxRestores = 1
INVARIANTS
    TypeOK
    LastRequestWins
    NoSplitBrain
    OlderIntentsStaySuperseded
PROPERTY
    QueuedIntentsDrain
