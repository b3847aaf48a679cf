SPECIFICATION Spec
CONSTANTS
    c1 = c1
    passer = passer
    Call <- MCCall
    PasserCall <- MCPasserCall
    MaxQueue = 6
INVARIANTS
    UndeliveredIsReplayable
PROPERTY
    ImplementsMessageChannel
CHECK_DEADLOCK FALSE
