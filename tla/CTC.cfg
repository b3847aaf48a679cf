\* Sequencer batches of up to three contexts, one of which may be the empty one, over a queue of four elements.
SPECIFICATION Spec
CONSTANTS
    MaxLength = 3
    Zero = Zero
    t1 = t1
    Tx <- MCTx
    MaxCount = 2
    MaxContexts = 3
    MaxQueue = 4
    MaxElements = 5
    MaxTime = 2
    Timestamps <- MCTimestamps
    Sequenced = Sequenced
INVARIANTS
    TypeOK
    CursorsAgree
    EventsCoverElements
PROPERTIES
    ImplementsTransactionLog
CHECK_DEADLOCK FALSE
