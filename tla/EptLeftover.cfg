CONSTANTS
    TABLE_SIZE = 2
    MEMORY_SIZE = 2
    EPTS_FRAME = 5
    InitialEntry <- AnyMemory
    Gpa <- MCGpa
    Flags <- MCFlags
SPECIFICATION Spec
INVARIANT MustBeZeroIsZero
CHECK_DEADLOCK FALSE
