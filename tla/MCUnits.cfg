SPECIFICATION MCSpec
CONSTANTS
    SCR_WIDTH = 2
    ScrLines = 2
    ConLines = 4
    ScrChars = {"a"}
    MaxBack = 2
    KbKeys = {"a", "PAD_1", "END", "SHIFT_L", "ALT_R", "CAPS_LOCK", "NUM_LOCK", "PRINTSCREEN", "PAUSEBREAK"}
    KB_IN_SIZE = 3
    MaxEvents = 3
    NrRows = 3
    HeapPids = {0, 1}
    RowBits = 4
    total_blocks = 3
    MALLOC_BLOCK_SIZE = 2
    HeapSizes = {1, 4, 9}
    LogPids = {10, 11}
    LogMen = {11}
    MAX_LOG_CNT = 3
    LogAnswers = 2
    MaxPosts = 4
    MaxAsked = 3
    SchedProcs = {1, 3, 4, 6, 10}
    Helpers = {1}
    Filer = 3
    Forker = 4
    FreeSlots = {10}
    NoProc = 58
    TaskPrio = 2
    UserPrio = 1
    MaxDumps = 1
    MaxForks = 1
    InitPid = 6
    ShPids = {10, 11, 12}
    Shells = 1
    ShLines <- MCLines
    ShPrograms = {"c", "r", "t"}
    RM = "r"
    TOUCH = "t"
    NoPid = 58
    NUL = "0"
    PTR = 2
    ArgStacks = {3}
    OrigStack = 20
    MaxKilled = 1
    DevSects = 9
    NR_SECTS_FOR_LOG = 3
    FirstSect = 2
    FileSects = 2
    MapBits = 10
    LogSectSize = 3
    HeadSize = 2
    StringLens = {1, 3, 4}
    MaxLogged = 14
    Archives <- MCArchives
    TarSect = 2
    ChunkSects = 2
    FileBytes = 8
CHECK_DEADLOCK FALSE
INVARIANTS
    ScreenSound
    KeyboardSound
    HeapSound
    LogSound
    PrioritiesKept
    ShellSound
    DiskLogSound
    UntarSound
PROPERTIES
    OthersUntouched
    ReadyRuns
