SPECIFICATION Spec
CONSTANTS
    Depth = 3
    Zero = zero
    LeafValues = {zero, a, b}
    SaturationThreshold = 7
INVARIANTS
    ChainRootIsTreeRoot
    SdkFollowsChain
    PathProvesItsLeafOnly
    RootIdentifiesLeaves
CHECK_DEADLOCK FALSE
