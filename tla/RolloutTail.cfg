SPECIFICATION Spec
CONSTANTS
    f = f
    g = g
    x = x
    Newline = Newline
    Return = Return
    Letters = {x}
    Identities = {f, g}
    NoFile = NoFile
    ReadChunk = 2
    MaxLine = 2
    Writes <- MCWrites
    First = f
    NoCursor = NoCursor
    MaxBytes = 5
    MaxTruncations = 1
    MaxCrashes = 1
CHECK_DEADLOCK FALSE
INVARIANTS
    TypeOK
    CursorMatchesLines
    LinesApart
PROPERTIES
    FilesAreStreams
    CursorKeepsItsFile
