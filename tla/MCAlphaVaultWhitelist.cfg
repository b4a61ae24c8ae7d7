CONSTANTS Whitelists <- Lists  ChunkSize = 3  MaxChunks = 2
CONSTANTS DryRuns = 1  Edits = 2  Faults = 2
SPECIFICATION FairSpec
INVARIANTS TypeOK ServedNotContradicted DoneServesAll TreesDecide
PROPERTIES RootMatchesFolder EverybodyServed
CHECK_DEADLOCK FALSE
