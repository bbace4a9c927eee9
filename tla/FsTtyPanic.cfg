\* Each user reads at its own terminal.
CONSTANTS
    u = u
    v = v
    t0 = t0
    t1 = t1
    Users = {u, v}
    FS = FS
    TTY = TTY
    Ttys = {t0, t1}
    Bound <- OwnTerminals
    Counts = {1, 2}
    ANY = ANY
    INTERRUPT = INTERRUPT
    NO_TASK = NO_TASK

SPECIFICATION Spec

INVARIANTS
    TasksDoNotDeadlock

CHECK_DEADLOCK FALSE
