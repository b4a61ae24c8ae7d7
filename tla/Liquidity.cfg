SPECIFICATION Spec
CONSTANTS MaxSteps = 6 MaxRuns = 3 MaxSwaps = 2 Patience = {TRUE, FALSE}
CONSTANTS MaxChunks = 2 MaxAmount = 1 Held = 1 Shifts = 2
CONSTANTS Inits = 2 Adds = 2 SeedRuns = 2 Faults = 2
INVARIANTS TypeOK OneDeposit DepositReady CompleteIsClean OwnTokensKept FreedIsConverted
INVARIANTS SeedInOrder DoneMeansSeeded
PROPERTIES WithdrawalConverges RunEnds
CHECK_DEADLOCK FALSE
