CONSTANTS
    Procs = {tty, fs, usr}
    IntTasks = {tty}
    MsgTypes = {request}
    HARD_INT = HARD_INT
    ANY = ANY
    INTERRUPT = INTERRUPT
    NO_TASK = NO_TASK
    SENDING = SENDING
    RECEIVING = RECEIVING

SPECIFICATION Spec

INVARIANTS
    WaitingReceiverGetsMessage

\* The machine may stop, and everyone may wait.
CHECK_DEADLOCK FALSE
