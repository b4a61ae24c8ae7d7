CONSTANTS o1 = o1  o2 = o2
CONSTANTS Operators = {o1}  DryRun = {TRUE, FALSE}  Keepers = TRUE  Faults = 2  Transfers = 1
SPECIFICATION FairSpec
INVARIANTS TypeOK DoneMeansComplete LoneRunNeverRefused
PROPERTY Converges
CHECK_DEADLOCK FALSE
