SPECIFICATION Spec
CONSTANTS
    Ether = Ether
    Metis = Metis
    ZeroAddress = ZeroAddress
    OVM_ETH = OVM_ETH
    Coinbase = Coinbase
    token = token
    l2Token = l2Token
    foreign = foreign
    ERC20 <- MCERC20
    StandardToken <- MCStandardToken
    ForeignToken <- MCForeignToken
    l1TokenOf <- MCl1TokenOf
    MaxAmount = 2
    MaxDeposits = 2
    MaxWithdrawals = 2
INVARIANTS
    Conservation
    BalanceIsDeposits
CHECK_DEADLOCK FALSE
