\* Four names for two processes.  Descriptors, slots and runs of sectors are fewer
\* than they can ask for.
CONSTANTS
    Users = {u, v}
    Names = {f, g, h, i}
    NR_TTY = 1
    NR_INODES = 7
    NR_SECTS = 18
    NR_DEFAULT_FILE_SECTS = 3
    n_1st_sect = 3
    NR_FILES = 2
    NR_FILE_DESC = 2
    NR_INODE = 3
    MaxCnt = 2
    BITS = 2

SPECIFICATION Spec

SYMMETRY NamesAndUsers

INVARIANTS
    TypeOK
    MapsExact
    CacheAgrees
    RefsCoverDescs
    DirectoryMaps
    AssertsHold
    MapBytesAgree

PROPERTIES
    OpenFilesStay

\* The machine may stop.
CHECK_DEADLOCK FALSE
