CONSTANTS
    Processor <- MCProcessor
    Leftover <- MCLeftover
SPECIFICATION Spec
INVARIANT TypeOK
INVARIANT GuestIsContained
INVARIANT EndsAsSupported
PROPERTY LaunchesIfSupported
CHECK_DEADLOCK FALSE
