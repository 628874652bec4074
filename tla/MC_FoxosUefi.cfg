CONSTANTS
    Faulty = FALSE
    KERNEL_SIZE = 2
    INFO_SIZE = 1
    INIT_KEY = 1
SPECIFICATION Spec
INVARIANT ReturnReleasesResources
