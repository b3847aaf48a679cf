\* A deployed sequencer, with a skipped element, failures of the worker and crashes.
SPECIFICATION Spec
CONSTANTS
    Nil = Nil
    Sequenced = Sequenced
    InitialBlocks <- MCDeployed
    Skipped <- MCSkipped
    MaxFailures = 2
    MaxCrashes = 2
    OracleFails = FALSE
    MaxQueue = 5
    MaxSequenced = 2
INVARIANTS
    LatestIndexIsTip
PROPERTIES
    ExtendsTransactionLog
    EnqueueIsIncluded
CHECK_DEADLOCK FALSE
