SPECIFICATION Spec
CONSTANTS
    p1 = p1
    p2 = p2
    p3 = p3
    a = a
    b = b
    Procs = {p1, p2, p3}
    Paths = {a, b, TAR}
    NewPaths = {a, b}
    LongNames = {b}
    DOT = DOT
    TTY = TTY
    TAR = TAR
    NONE = NONE
    GARBLED = GARBLED
    NR_FILES = 1
    NR_FILE_DESC = 2
    NR_INODE = 3
    NrInodes = 5
    NrSects = 7
    NR_DEFAULT_FILE_SECTS = 2
    SECTOR_SIZE = 2
    DirSlots = 4
    INSTALL_START_BIT = 6
    INSTALL_NR_SECTS = 1
    Lengths = {9}
    MaxSlots = 5
    MaxCnt = 2
CHECK_DEADLOCK FALSE
INVARIANTS
    FilesSound
    CountsCoverUsers
    CacheIsDisk
SYMMETRY Symmetry
VIEW View
