SPECIFICATION Spec
CONSTANTS
    Callers = {ui, loader}
    Slots = 2
    MaxRequests = 5
    MaxShared = 3
INVARIANTS
    TypeOK
    OneHolder
    NoOlderTunePlays
    SubtuneOfLive
PROPERTIES
    NobodyForgotten
