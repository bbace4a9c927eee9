\* A count register of three values: a message for three sectors is one for all it
\* counts, and one for four sectors is beyond it.
CONSTANTS
    Tables <- MCTables
    Sectors = {1, 2, 3, 4, 8, 9}
    Data = {a, b}
    Devices <- MCDevices
    NR_SUB_PER_PART = 2
    COUNTS = 3
    MaxCnt = 4
    MaxOpen = 2

SPECIFICATION Spec

INVARIANTS
    TypeOK
    AnswersExact
    NoStrayInterrupt

PROPERTIES
    WritesStay
    RequestsAnswered

CHECK_DEADLOCK FALSE
