SPECIFICATION Spec
CONSTANTS
    w1 = w1
    w2 = w2
    small = small
    large = large
    Nothing = Nothing
    Wallets <- MCWallets
    Pools <- MCPools
    Required <- MCRequired
    Balances <- MCBalances
    MaxMounts = 2
    MaxChecks = 2
INVARIANTS
    StagedDepositIsPayable
    ContinueMeansRead
PROPERTIES GateDecides
CHECK_DEADLOCK FALSE
