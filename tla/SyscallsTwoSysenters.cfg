CONSTANTS
    SSDT_SIZE = 3
    Assigned = 1
    InitialSsdt <- MCInitialSsdt
    Number = {1}
    MaxSysenter = 2
    Locals <- MCLocals
    KernelSlots = 30
    GuestSlots = 18
SPECIFICATION Safety
INVARIANT SysenterReturns
CHECK_DEADLOCK FALSE
