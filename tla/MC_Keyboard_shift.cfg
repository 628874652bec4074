CONSTANTS
    Keys <- MCKeys
    scancode_to_char <- MCTable
    scancode_to_char_shift <- MCTableShift
    TABLE_SIZE = 58
    MAX_QUEUE = 2
    MAX_PRESSES = 2
SPECIFICATION Spec
INVARIANT ShiftReflectsHeld
