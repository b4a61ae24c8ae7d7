CONSTANTS MaxChunks = 2  MaxAmount = 1  Held = 1  Faults = 1  Shifts = 0
SPECIFICATION Spec
INVARIANT RerunConvertsAll
CHECK_DEADLOCK FALSE
