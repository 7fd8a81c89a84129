SPECIFICATION Spec
CONSTANTS
    large = large
    small = small
    n1 = n1
    n2 = n2
    r1 = r1
    Nothing = Nothing
    Pools <- MCPools
    Notes <- MCNotes
    PoolOf <- MCPoolOf
    Recipients <- MCRecipients
    Cap <- MCCap
    Fees <- MCFees
    MaxStaleRootRetries = 1
    MaxMounts = 2
    MaxProofs = 2
INVARIANTS
    TypeOK
    DoneMeansWithdrawn
    FeeWithinTheCeilingShown
    NothingOffCluster
PROPERTIES WithdrawalsEnd
CHECK_DEADLOCK FALSE
