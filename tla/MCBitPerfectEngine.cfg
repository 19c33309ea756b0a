CONSTANTS
    MaxVoices = 2
    Notes = {60}
    Channels = {0, 1}
    NoteIds = {5}
    ForcedCapacity = 2
    UnisonCounts = {1, 2}
    Presses <- MCPresses
    MaxKeys = 3
    MaxPedals = 1

SPECIFICATION Spec

INVARIANTS
    TypeOK
    KeysMatchPresses
    PedalNotesUnderPedal
    GatesFollowNotes
    LastNotePriority
