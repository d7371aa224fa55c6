SPECIFICATION Spec
CONSTANTS
    Icons = {"installing"}
    TextRows = 2
    TextCols = 2
    FracMax = 2
    MaxChars = 3
    MaxScopes = 2
    Rows = 2
    Cols = 3
    History = 4
    Buffer = 2
    Chunks <- MCChunks
    MaxPrints = 5
    QueueMax = 2
    MaxEvents = 3
    MaxOutput = 1
    MaxSessions = 2
    Values <- MCValues
    MaxProps = 2
INVARIANTS
    ScreenRight
    SessionRight
PROPERTIES
    NoStepBack
    ScreenSettles
CHECK_DEADLOCK FALSE
