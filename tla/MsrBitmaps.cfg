CONSTANTS
    BITMAP_FOR_HIGH_MSRS = 2
    MIN_HIGH_MSR = 32
    Msr <- MCMsr
    InitialBits <- MCInitialBits
SPECIFICATION Spec
INVARIANT TypeOK
PROPERTY MonitorsExactlyTheMsr
CHECK_DEADLOCK FALSE
