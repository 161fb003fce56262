\* Widths of a few bits, in the proportions of the real ones.
SPECIFICATION ConvSpec
CONSTANTS
    OFF_MAX = 7
    U64_MAX = 15
    PID_MAX = 3
    U32_MAX = 7
    Offsets <- MCOffsets
    Pids <- MCPids
    NANOS = 4
    I64_MAX = 3
    Values <- MCValues
    Default <- MCDefault
    MaxWords = 3
    XattrValues <- MCXattrValues
    MaxSize = 3
    MaxChanges = 3
    Bytes = {1, 2}
    MaxOffset = 3
    MaxData = 2
    MaxEdits = 3
INVARIANTS LockKept StoredIsMeant OptionsArrive XattrWhole DataAsWritten
PROPERTY ReadsBackWhatWasSet
CHECK_DEADLOCK FALSE
