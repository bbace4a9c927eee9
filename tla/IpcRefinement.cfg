\* Three processes, one of which is a task that interrupts inform: a circle of
\* sends can be longer than two, and a queue longer than one.
CONSTANTS
    Procs = {tty, fs, usr}
    IntTasks = {tty}
    MsgTypes = {request}
    HARD_INT = HARD_INT
    ANY = ANY
    INTERRUPT = INTERRUPT
    NO_TASK = NO_TASK
    SENDING = SENDING
    RECEIVING = RECEIVING

SPECIFICATION FairSpec

INVARIANTS
    QueueHoldsSenders
    NoSendCycle
    NoMissedRendezvous
    AssertsHold
    HaltsOnlyForIntTasks
    NoLostWakeup
    DeadlockIsTheWalk

PROPERTIES
    ImplementsRendezvous
    MeetingsComplete
    SendersAreServed

\* The machine may stop, and everyone may wait.
CHECK_DEADLOCK FALSE
