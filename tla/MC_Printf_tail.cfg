CONSTANTS
    W = 8
    INT_MIN_TEXT <- MCIntMinText
    Tokens <- MCTokens
    Tails <- MCTrailing
    MAX_TOKENS = 1
    ArgValues <- MCArgValues
    Strings <- MCStrings

SPECIFICATION Spec

INVARIANT PrintfStaysInFormat
