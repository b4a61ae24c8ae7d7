CONSTANTS m1 = m1  m2 = m2  w1 = w1  w2 = w2
CONSTANTS Mints = {m1}  Wallets = {w1}
CONSTANTS Loads = 1  Refreshes = 2  Trades = 0  Switches = 0  Faults = 1
SPECIFICATION FairSpec
PROPERTY StaysLive
CHECK_DEADLOCK FALSE
