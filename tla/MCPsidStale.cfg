SPECIFICATION Spec
CONSTANTS
    Callers = {ui, loader}
    Slots = 2
    MaxRequests = 2
    MaxShared = 2
PROPERTIES
    NoStalePublish
