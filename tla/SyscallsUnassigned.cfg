CONSTANTS
    SSDT_SIZE = 3
    Assigned = 1
    InitialSsdt <- MCInitialSsdt
    Number = {0}
    MaxSysenter = 0
    Locals <- MCLocals
    KernelSlots = 30
    GuestSlots = 18
SPECIFICATION Safety
INVARIANT UnassignedIsReported
CHECK_DEADLOCK FALSE
