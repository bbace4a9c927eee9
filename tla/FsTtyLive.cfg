\* One user with two terminals.
CONSTANTS
    u = u
    v = v
    t0 = t0
    t1 = t1
    Users = {u}
    FS = FS
    TTY = TTY
    Ttys = {t0, t1}
    Bound <- AllTerminals
    Counts = {1, 2}
    ANY = ANY
    INTERRUPT = INTERRUPT
    NO_TASK = NO_TASK

SPECIFICATION FairSpec

PROPERTIES
    CallsReturn

CHECK_DEADLOCK FALSE
