SPECIFICATION PackageSpec
CONSTANTS
    Parts <- MCParts
    BufLines = 3
    Others = 1
    MaxOps = 3
    PipeMax = 2
    MaxLines = 2
    NBlocks = 4
    BlockUnits = 2
    FlashImages <- MCFlashImages
    Marks = {{}, {0}, {1}}
    Eccs = {{}, {1}}
    FlashFaults = 2
    MaxCrashes = 1
INVARIANTS
    InstallSafe
    ScriptHonest
    ArchiveRight
    FlashRight
PROPERTIES
    VolumesSafe
    InstallReturns
CHECK_DEADLOCK FALSE
