CONSTANTS
    Faulty = TRUE
    KERNEL_SIZE = 2
    INFO_SIZE = 1
    INIT_KEY = 1
SPECIFICATION Spec
INVARIANT SuccessOnlyWhenLoaded
