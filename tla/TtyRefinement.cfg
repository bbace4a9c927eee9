\* One console.  Keys: a (30), enter (28), backspace (14), and E0 (224), which
\* needs another code.
CONSTANTS
    KE_IN_COUNT = 2
    NR_TTY = 1
    NR_TTY_BUF = 2
    Codes = {30, 28, 14, 224}
    MaxCnt = 2

SPECIFICATION FairSpec

PROPERTIES
    ImplementsTerminal
    NoKeyboardStall

\* Nobody has to type.
CHECK_DEADLOCK FALSE
