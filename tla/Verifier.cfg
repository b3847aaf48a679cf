\* A verifier after its first batch, with failures, crashes, a wrong root
\* and a transaction of the oracle's owner, after which the oracle may not be read.
SPECIFICATION VerifierSpec
CONSTANTS
    Nil = Nil
    InitialBlocks <- MCDeployed
    InitialBatches <- MCFirstBatch
    BadRoots <- MCBadRoots
    OwnerElements <- MCOwnerElements
    MaxFailures = 1
    MaxCrashes = 2
    OracleFails = TRUE
    MaxBatchSize = 3
    MaxElements = 5
INVARIANTS
    NoBatchSkipped
PROPERTY
    BatchIsApplied
CHECK_DEADLOCK FALSE
