CONSTANTS Wallets = {"a", "farm"}  FarmVault = "farm"  Allocations <- List
CONSTANTS MintedLp = 10  FarmStart = 1  LastTime = 1  MaxRuns = 2  MaxLate = 0
SPECIFICATION Spec
INVARIANT LocksThePercentage
CHECK_DEADLOCK FALSE
