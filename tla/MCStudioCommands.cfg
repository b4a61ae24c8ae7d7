SPECIFICATION Spec
CONSTANTS MaxRuns = 3  MaxScriptRuns = 2  MaxLate = 1
CONSTANTS Wallets = {"a", "b", "farm"}  FarmVault = "farm"  Allocations <- AllocationLists
CONSTANTS MintedLp = 10  FarmStart = 1  FarmLastTime = 2  StakeTokens = 2  UnstakeLock = 1
CONSTANTS Farms = {"f", "g", "h"}  Pools = {"P", "Q"}  FarmsOf <- FarmsByPool
CONSTANTS ClaimLists <- ListsOfFarms  MaxClaimAll = 2  FarmTokens = 2  MaxClaims = 1
CONSTANTS VaultTokens = 3  TxFee = 1  MaxLpPrice = 2
CONSTANTS Schedules <- LockSchedules  LockTokens = 4  LockLastTime = 4
CONSTANTS Sales <- PresaleKinds  Start = 1  End = 2  MinCap = 2  SaleCap = 3  Quote = 4
CONSTANTS CapLeast <- LeastByRegistry  CapMost <- MostByRegistry  SaleLastTime = 3
CONSTANTS Deposits <- FirstPositions  SplitParts = {{"unl"}, {"unl", "perm", "fee"}}
CONSTANTS MaxPrice = 1  LpTokens = 1  UserShares <- ShareLists  ShareTokens = 2
CONSTANTS Kinds <- VaultKinds  Whitelist <- Listed  BatchSize = 2  Cap = 2  MaxCap = 2
CONSTANTS QuoteTokens = 3  Fills = 2  Hooks = {"hook", "none"}  NoHook = "none"
CONSTANTS AskedBins <- LimitOrders  LastBin = 2  MaxBins = 3  Positions = {"p", "q"}
CONSTANTS Programs = {"dammV1", "dammV2", "dlmm", "dbc"}  MaxRate = 4  Slippage = 1  Funds = 2
\* Of the programs, one that funds its pools and one that does not.
CONSTANTS PoolPrograms = {"dammV2", "dlmm"}  FundedPrograms = {"dammV2"}
INVARIANTS TypeOK LoneRunNeverRefused OkMeansDone
INVARIANTS LockedByShare VestingSound OrdersAsAsked SlippageBounded
CHECK_DEADLOCK FALSE
