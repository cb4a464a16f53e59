CONSTANTS
    MaxWrites = 2
    MaxOutput = 1
    MaxInput = 1
    InitialInput = 0
    Depth = 1
    InputDepth = 1
    MaxIdle = 1
SPECIFICATION Spec
CHECK_DEADLOCK FALSE
INVARIANTS
    PtyAnswersForItsProcess
PROPERTY
    PtyReturns
