SPECIFICATION Spec
CONSTANTS
    admin = admin
    alice = alice
    relay = relay
    fresh = fresh
    vault = vault
    poolpda = poolpda
    n1 = n1
    n1b = n1b
    n2 = n2
    f1 = f1
    f2 = f2
    Wallets <- MCWallets
    Admin = admin
    VaultPda = vault
    PoolPda = poolpda
    Notes = {n1, n1b, n2}
    Nullifiers = {f1, f2}
    NullifierOf <- MCNullifierOf
    ZeroLeaf = zeroleaf
    NonCanonicalLeaf = noncanonical
    NoRoot = noroot
    Denomination = 57500
    RootHistorySize = 2
    SaturationThreshold = 3
    TreeCapacity = 4
    RentRates = {4, 5}
    InitialBalance <- MCInitialBalance
    Treasuries <- MCTreasuries
    Relayers = {relay}
    Recipients <- MCRecipients
    FeeCeilings = {900}
    FeesTaken = {900, 1000}
    Senders = {admin}
    TransferTargets <- MCTargets
    TransferAmounts = {}
    MaxProofs = 2
INVARIANT
    InsertionLeavesEmptyRoot
