CONSTANTS
    Names <- MCNames
    NameLen <- MCNameLen
    Bytes <- MCBytes
    Inputs <- MCInputs
    ReadSizes <- MCReadSizes
    Paths <- MCPaths
    ListBufSize <- MCListBufSize
    MAX_FILES = 5
    MAX_FILE_SIZE = 1
    MAX_FILENAME = 3

SPECIFICATION SpecWithClear

INVARIANT NoOrphans
