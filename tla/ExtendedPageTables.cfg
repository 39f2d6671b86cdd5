CONSTANTS
    TABLE_SIZE = 2
    MEMORY_SIZE = 2
    EPTS_FRAME = 5
    InitialEntry <- CleanReserved
    Gpa <- MCGpa
    Flags <- MCFlags
SPECIFICATION Spec
INVARIANT TypeOK
PROPERTY TranslatesAsPromised
CHECK_DEADLOCK FALSE
