CONSTANT N = 3
SPECIFICATION FairSpec
INVARIANTS TypeOK LandedInOrder ReportUsable NoFalseAlarm CleanDryRunHolds
PROPERTIES Terminates Refines
CHECK_DEADLOCK FALSE
