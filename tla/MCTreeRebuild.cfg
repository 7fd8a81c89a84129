SPECIFICATION Spec
CONSTANTS
    ThisPool = thisPool
    OtherPool = otherPool
    Zero = zero
    a = a
    b = b
    Transactions <- MCTransactions
    TamperedLeaves <- MCTamperedLeaves
    RingSize = 2
    MaxChain = 3
INVARIANTS
    TreeOpensToTheChain
    LeavesAreTheChains
    CompleteHistoryRebuilds
    CacheIsAPrefix
PROPERTIES
    RebuildEnds
CHECK_DEADLOCK FALSE
