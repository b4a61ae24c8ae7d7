------------------------------- MODULE FunLaunch -------------------------------
(***************************************************************************)
(* The two pages of fun-launch that send transactions.  A behaviour is one *)
(* of the page that page names, which the initial state chooses; the       *)
(* variables of the other stay Off.                                        *)
(***************************************************************************)
EXTENDS Integers, FiniteSets

CONSTANTS
    Attempts, Balances, MinBalance, ConfigCost, PoolCost,           \* launch page
    LaunchFaults,
    Mints, Wallets, Loads, Refreshes, Trades, Switches,             \* trade page
    TradeFaults

VARIABLES
    page,
    pools, error, faults,                                               \* both
    attempt, stage, sub, balance, configs, flying, result, shown,       \* launch page
    view, loading, requests, asked, wallet, balances, fetches, busy,    \* trade page
    loads, refreshes, trades, switches

Off == "off"

Lp == INSTANCE Launch WITH Faults <- LaunchFaults
Tp == INSTANCE TradePage WITH Faults <- TradeFaults

ASSUME Constants == Lp!LaunchConstants /\ Tp!TradePageConstants

ofLaunch == <<attempt, stage, sub, balance, configs, flying, result, shown>>
ofTrade  == <<view, loading, requests, asked, wallet, balances, fetches, busy, loads, refreshes,
              trades, switches>>
vars     == <<page, pools, error, faults, ofLaunch, ofTrade>>

LaunchOff == /\ attempt = Off /\ stage = Off /\ sub = Off /\ balance = Off /\ configs = Off
             /\ flying = Off /\ result = Off /\ shown = Off
TradeOff  == /\ view = Off /\ loading = Off /\ requests = Off /\ asked = Off /\ wallet = Off
             /\ balances = Off /\ fetches = Off /\ busy = Off
             /\ loads = Off /\ refreshes = Off /\ trades = Off /\ switches = Off

Init == \/ page = "launch" /\ Lp!Init /\ TradeOff
        \/ page = "trade" /\ Tp!Init /\ LaunchOff

Launching(A) == page = "launch" /\ A /\ UNCHANGED <<page, ofTrade>>
Trading(A)   == page = "trade" /\ A /\ UNCHANGED <<page, ofLaunch>>

Next == Launching(Lp!Next) \/ Trading(Tp!Next)

\* The fairness of the two pages.
Spec == /\ Init /\ [][Next]_vars
        /\ WF_vars(Launching(Lp!Page)) /\ WF_vars(Launching(Lp!Chain))
        /\ WF_vars(Trading(Tp!Respond)) /\ WF_vars(Trading(Tp!Refresh))

-----------------------------------------------------------------------------
\* The pages and the chain hold only what their code can put there.
TypeOK == /\ page = "launch" => Lp!TypeOK
          /\ page = "trade" => Tp!TypeOK

\* Launch: what the page shows as launched is on chain, configuration and pool.
ResultIsLaunched == page = "launch" => Lp!ResultIsLaunched

\* Launch: no token is launched behind an error message unless the RPC failed.
UnshownPoolNeedsFault == page = "launch" => Lp!UnshownPoolNeedsFault

\* Launch: every attempt ends, with a result or with an error.
AttemptEnds == (page = "launch" /\ stage # "idle") ~> stage = "idle"

\* TradePage: the balances shown are those of the wallet in the pool shown.
BalancesSettle == page = "trade" => Tp!BalancesSettle

\* TradePage: the spinner stops, and a handler that waits for the reload of its pool is
\* released.
ControlsReleased ==
    /\ (page = "trade" /\ loading) ~> (page = "trade" /\ ~loading)
    /\ \A k \in Tp!Kinds :
          (page = "trade" /\ busy[k].at > 0) ~> (page = "trade" /\ busy[k].at <= 0)
=============================================================================
