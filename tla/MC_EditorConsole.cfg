CONSTANTS
    TERMINAL_BUFFER_SIZE = 5
    Inputs <- MCInputs
    VGA_WIDTH = 4
    VGA_HEIGHT = 3
    OutChars = {}
    TERMINAL_PROMPT <- MCPrompt
    MSG <- MCMsg
SPECIFICATION Spec
INVARIANT NoWriteOutsideScreen
