\* MVM_StateCommitmentChain.sol, the fraud proof window may change.
CONSTANTS
    r1 = r1
    r2 = r2
    Root <- MCRoot
    Zero = Zero
    MaxLength = 3
    MaxBatchSize = 2
    Windows = {1, 2}
    MaxTime = 4
    MaxElements = 3
    CheckCTC = FALSE
SYMMETRY RootSymmetry
SPECIFICATION Spec
INVARIANTS
    TypeOK
    BatchesPartitionElements
    OneRootPerElement
PROPERTIES
    FinalityIsForever
    ImplementsStateLog
