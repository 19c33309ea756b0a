SPECIFICATION Spec
CONSTANTS
    Setters = {ui}
    Values = {0, 1, 2}
    Default = 0
    RingCapacity = 3
    MaxRequests = 3
    MaxRestores = 0
INVARIANT
    EveryRequestTakesEffect
