CONSTANTS
    SSDT_SIZE = 3
    Assigned = 1
    InitialSsdt <- MCInitialSsdt
    Number = {1,4}
    MaxSysenter = 1
    Locals <- MCLocals
    KernelSlots = 30
    GuestSlots = 18
SPECIFICATION Spec
INVARIANT TypeOK
INVARIANT Served
INVARIANT StackKept
INVARIANT SysenterReturns
PROPERTY CallsReturn
