SPECIFICATION Spec
CONSTANTS
    None = None
    FlushInterval = 1
    MaxDomain = 3
    DefaultSlots = 4
    Worlds <- MCWorlds
INVARIANTS
    RecordingReadable
    LossesCounted
    ReplayFaithful
PROPERTIES
    WaitsEnd
CHECK_DEADLOCK FALSE
