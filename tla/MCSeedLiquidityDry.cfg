CONSTANTS Inits = 1  Adds = 1  Runs = 1  Faults = 0
SPECIFICATION Spec
INVARIANT DryRunSendsNothing
CHECK_DEADLOCK FALSE
