SPECIFICATION Spec
CONSTANTS
    Messages <- MCMessages
    SystemMessages <- MCSystemMessages
    MaxElements = 3
    MaxBatchSize = 2
    FirstBatch = 9
    Windows <- MCWindows
    MaxTime = 3
    getLogsInterval = 1
    relayNumber = 1
    useChainStore = TRUE
    MaxDeletions = 1
    MaxFaults = 2
INVARIANTS
    NothingIsSkipped
    StandsAtBatch
PROPERTIES
    FinalIsRelayed
CHECK_DEADLOCK FALSE
