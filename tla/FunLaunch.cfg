CONSTANTS
    \* Balances: below the check, just above it (no configuration, or no pool, is paid
    \* for), and enough for one, two and three launches.
    Attempts = 3
    Balances = {10, 20, 30, 60, 100}
    MinBalance = 15
    ConfigCost = 6
    PoolCost = 20
    LaunchFaults = 2
    Mints = {"m1", "m2"}
    Wallets = {"w1", "w2"}
    Loads = 2
    Refreshes = 1
    Trades = 1
    Switches = 1
    TradeFaults = 1
SPECIFICATION Spec
INVARIANTS TypeOK ResultIsLaunched UnshownPoolNeedsFault BalancesSettle
PROPERTIES AttemptEnds ControlsReleased
CHECK_DEADLOCK FALSE
