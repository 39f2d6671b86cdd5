CONSTANTS
    Program <- MCProgram
    Length <- MCLength
    Write <- MCWrite
    Target <- MCTarget
    InitialGuest <- MCInitialGuest
    InitialMsr <- MCInitialMsr
    AnyMsr = {6, 12, 18}
    Ept <- MCEpt
    EptLength = {}
    BITMAP_FOR_HIGH_MSRS = 1
    MIN_HIGH_MSR = 16
    InitialBits <- MCInitialBits
    HostValue = {99}
    SsdtPage = 1
    ssdt <- MCssdt
    ssdt_hook = 70
    MSR_IA32_SYSENTER_EIP = 6
    MSR_IA32_LSTAR = 18
SPECIFICATION Spec
INVARIANT TypeOK
PROPERTY InstructionsAreAtomic
PROPERTY InstructionsComplete
PROPERTY VmcallProtects
CHECK_DEADLOCK FALSE
