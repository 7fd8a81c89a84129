SPECIFICATION Spec
CONSTANTS
    p1 = p1
    Nothing = Nothing
    Pools <- MCPools
    Denomination = 2
    Rent = 1
    MaxDenomsPerWindow = 2
    Saturation = 2
    RelayerFindings = {{}}
    MaxDeposits = 2
    MaxEvents = 3
INVARIANTS
    CriticalHasACause
    OutOfStepIsNoticed
    BaselineSurvives
PROPERTIES
    PassesComplete
CHECK_DEADLOCK FALSE
