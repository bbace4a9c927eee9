\* Two consoles.  Keys: a (30), left control down and up (29, 157), F2 (60).
CONSTANTS
    KE_IN_COUNT = 2
    NR_TTY = 2
    NR_TTY_BUF = 1
    Codes = {30, 29, 157, 60}
    MaxCnt = 1

SPECIFICATION Spec

INVARIANTS
    TypeOK
    NoCharLeftBehind

CHECK_DEADLOCK FALSE
