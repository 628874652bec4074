CONSTANTS
    TERMINAL_BUFFER_SIZE = 16
    Lines <- MCLines
    Names <- MCNames

SPECIFICATION Spec

\* exit powers the machine off (terminal.c:139-167): nothing runs after it.
CHECK_DEADLOCK FALSE

INVARIANT CommandIsFirstWord
