\* Three processes that compete, and one slot of pcb_table that the loop of
\* kernelMain strikes on its way past the end.
CONSTANTS
    NR_PROCS = 4
    NR_LOOP = 6
    Priority = 3
    MaxOverrun = 1

SPECIFICATION FairSpec

INVARIANTS
    RunnerMayRun

PROPERTIES
    PassesOnlyTheWoken
    NoStarvation
