CONSTANTS
    MaxVoices = 2
    Notes = {60}
    Channels = {0}
    NoteIds = {}
    RingCapacities = {1}
    DroppedLimit = 1
    MaxMessages = 4
    MaxRestores = 1
    MaxTunes = 1
    MaxEvents = 5

SPECIFICATION Spec

INVARIANT
    RestoreLosesNoHeldNote
