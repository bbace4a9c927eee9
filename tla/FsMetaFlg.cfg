CONSTANTS
    Users = {u}
    Names = {f, g, h}
    NR_TTY = 1
    NR_INODES = 5
    NR_SECTS = 9
    NR_DEFAULT_FILE_SECTS = 2
    n_1st_sect = 3
    NR_FILES = 1
    NR_FILE_DESC = 1
    NR_INODE = 2
    MaxCnt = 2

SPECIFICATION Spec

INVARIANTS
    UnlinkFindsEntry

CHECK_DEADLOCK FALSE
