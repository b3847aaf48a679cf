SPECIFICATION Spec
CONSTANTS
    s1 = s1
    s2 = s2
    None = None
    Nodes <- MCNodes
    Txs <- MCTxs
    Submissions <- MCSubmissions
    FirstEpoch <- MCFirstEpoch
    MaxHeight = 3
    MaxSubmissions = 3
    MaxRestarts = 1
    MaxBusy = 1
INVARIANTS
    TypeOK
    OrderlyChains
    ForksNeedUnsure
PROPERTIES
    OwnEpochIsKept
CHECK_DEADLOCK FALSE
