\* fs_delete_file on a table of six entries: the smallest table in which
\* an entry's parent sits three or more slots above the deleted one.
CONSTANTS
    Names <- MCNames
    NameLen <- MCNameLen
    Bytes <- MCBytes
    Inputs <- MCInputs
    ReadSizes <- MCReadSizes
    Paths <- MCPaths
    ListBufSize <- MCListBufSize
    MAX_FILES = 6
    MAX_FILE_SIZE = 1
    MAX_FILENAME = 3

SPECIFICATION Spec

INVARIANT ParentIsDirectory
