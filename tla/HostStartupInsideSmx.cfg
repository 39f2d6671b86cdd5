CONSTANTS
    Processor <- MCInsideSmxOnly
    Leftover <- MCLeftover
SPECIFICATION Safety
INVARIANT VmxonNeverFaults
CHECK_DEADLOCK FALSE
