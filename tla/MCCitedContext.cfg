SPECIFICATION Spec
CONSTANTS
    None = None
    Source <- SourceDef
    Cited <- CitedDef
    ChunkSize = 2
    Overlap = 0
    MaxChars = 9
    Overhead = 2
    MinText = 2
    Marker = 1
    MaxCalls = 2
    MaxRows = 3
INVARIANT ShownLinesAreRecorded
CHECK_DEADLOCK FALSE
