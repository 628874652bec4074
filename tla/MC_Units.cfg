CONSTANTS
    W = 8
    INT_MIN_TEXT <- MCIntMinText
    Bytes <- MCBytes
    L = 3
    Tokens <- MCTokens
    Tails <- MCNoTail
    MAX_TOKENS = 4
    ArgValues <- MCArgValues
    Strings <- MCStrings
    TERMINAL_BUFFER_SIZE = 5
    Inputs <- MCInputs
    VGA_WIDTH = 4
    VGA_HEIGHT = 2
    OutChars <- MCOutChars
    Keys <- MCKeys
    scancode_to_char <- MCTable
    scancode_to_char_shift <- MCTableShift
    TABLE_SIZE = 58
    MAX_QUEUE = 2
    MAX_PRESSES = 2
    Faulty = TRUE
    KERNEL_SIZE = 2
    INFO_SIZE = 1
    INIT_KEY = 1

SPECIFICATION Spec

INVARIANTS
    KeyboardTypeOK OnePerPress
    EditorTypeOK
    ConsoleTypeOK ConsoleStaysOnScreen
    ReturnReleasesResources
    FormatsMatchReference StringHelpersMatchReference PrintfMatchesReference

PROPERTIES EveryPressTyped LineRefinement
