SPECIFICATION Spec
CONSTANTS
    r1 = r1
    r2 = r2
    n1 = n1
    Requests = {r1, r2}
    Notes = {n1}
    Denomination = 100000000
    RootHistorySize = 1
    Ceilings = {600000, 1453000, 2000001}
    Estimates = {10000}
    Rents = {528320, 1447680}
    InitialBalance = 10005000
    MinimumBalanceToServe = 10000000
    RpcLag = 1
    MaxDeposits = 2
    NoRent = norent
PROPERTIES
    NeverSubsidised
CHECK_DEADLOCK FALSE
