CONSTANTS UserShares <- Shares  Tokens = 1  Fee = 1  MaxRuns = 3  MaxLate = 0
SPECIFICATION Spec
INVARIANT RetransferIsNoOp
CHECK_DEADLOCK FALSE
