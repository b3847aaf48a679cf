SPECIFICATION Spec
CONSTANTS
    a = a
    b = b
    Accounts = {a, b}
    None = None
    Txs <- MCTxs
    Submissions <- MCSubmissions
    Prices = {25}
    Funds <- MCFunds
    PriceBump = 10
    AccountSlots = 1
    GlobalSlots = 2
    AccountQueue = 1
    GlobalQueue = 1
    JournalBatch = 2
    DeepReorg = 1
    MaxBlocks = 2
    MaxReorg = 1
    MaxHeads = 2
    MaxRestarts = 1
    MaxCalls = 1
INVARIANTS
    ListsPartitionAll
    PendingIsExecutable
    MinerKnowsExecutable
PROPERTIES
    LocalsAreKept
    RunEnforcesLimits
    RestartKeepsLocals
CHECK_DEADLOCK FALSE
