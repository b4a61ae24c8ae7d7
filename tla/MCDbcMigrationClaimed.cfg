CONSTANTS o1 = o1  o2 = o2
CONSTANTS Operators = {o1}  DryRun = {FALSE}  Keepers = FALSE  Faults = 1  Transfers = 1
SPECIFICATION Spec
INVARIANT AlreadyClaimedIsTrue
CHECK_DEADLOCK FALSE
