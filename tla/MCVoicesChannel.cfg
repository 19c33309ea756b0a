CONSTANTS
    MaxVoices = 2
    Notes = {60}
    Channels = {0, 1}
    NoteIds = {5}
    ForcedCapacity = 2
    UnisonCounts = {2}
    Presses <- MCPresses
    MaxKeys = 2
    MaxPedals = 0

SPECIFICATION Spec

INVARIANT HeldVoicesSound
