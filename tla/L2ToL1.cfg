SPECIFICATION Spec
CONSTANTS
    c1 = c1
    system = system
    Call <- MCCallWithSystem
    SystemCall <- MCSystemCall
    FaultyRoots <- MCFaultyRoots
    MaxBlocks = 2
    MaxMessages = 2
    MaxBlocked = 1
    MaxLength = 3
    Zero = Zero
    MaxBatchSize = 2
    Windows <- MCWindows
    MaxTime = 3
    CheckCTC = FALSE
INVARIANTS
    FinalMessageIsProvable
PROPERTY
    ImplementsMessageChannel
CHECK_DEADLOCK FALSE
