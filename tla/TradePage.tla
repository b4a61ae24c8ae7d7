------------------------------- MODULE TradePage -------------------------------
(***************************************************************************)
(* scaffolds/fun-launch/src/pages/trade.tsx: the page loads a pool by its  *)
(* mint, refreshes it every REFRESH_MS as long as a view is shown, fetches *)
(* the wallet's balances for each new view, and reloads the pool after a   *)
(* swap or a migration.  Loads are asynchronous and nothing ties an answer *)
(* to the latest question: answers apply in whatever order they come.      *)
(*                                                                         *)
(* React state is a variable; an effect is part of every action that       *)
(* changes its dependencies, its cleanup first.                            *)
(***************************************************************************)
EXTENDS Integers, FiniteSets

CONSTANTS
    Mints, Wallets,
    Loads,              \* loads by the button or a link, at most
    Refreshes,          \* interval ticks, at most
    Trades,             \* swaps and migrations, at most
    Switches,           \* wallet connections, changes and disconnections, at most
    Faults              \* RPC errors, at most

None == "none"

TradePageConstants ==
    /\ None \notin Mints /\ None \notin Wallets
    /\ {Loads, Refreshes, Trades, Switches, Faults} \subseteq Nat

VARIABLES
    pools,              \* mints that have a DBC pool
    view,               \* the mint of the pool shown, or None
    loading, error,     \* the spinner; is an error shown?
    requests,           \* load calls in progress
    asked,              \* loads started, numbering the requests
    wallet,             \* publicKey, or None
    balances,           \* whose balances of which mint are shown, or NoBalances
    fetches,            \* balance fetches in progress
    busy,               \* per trade: Idle, Sending or the reload's number; its mint
    loads, refreshes, trades, switches, faults      \* budgets spent

pageVars == <<view, loading, error, wallet, balances, busy>>
netVars  == <<requests, asked, fetches>>
spent    == <<loads, refreshes, trades, switches, faults>>
vars     == <<pools, pageVars, netVars, spent>>

NoBalances == [mint |-> None, owner |-> None]
Kinds   == {"swap", "migrate"}          \* handleSwap, handleMigrate
Idle    == 0
Sending == -1
NotBusy == [at |-> Idle, mint |-> None]

-----------------------------------------------------------------------------
Init ==
    /\ pools \in SUBSET Mints
    /\ view = None /\ loading = FALSE /\ error = FALSE
    /\ requests = {} /\ asked = 0
    /\ wallet \in Wallets \union {None}
    /\ balances = NoBalances /\ fetches = {}
    /\ busy = [k \in Kinds |-> NotBusy]
    /\ loads = 0 /\ refreshes = 0 /\ trades = 0 /\ switches = 0 /\ faults = 0

Fault == faults < Faults /\ faults' = faults + 1

\* load(m, silent): the error disappears, the spinner shows unless silent.
Load(m, silent) ==
    /\ asked' = asked + 1
    /\ requests' = requests \union {[id |-> asked + 1, mint |-> m, silent |-> silent]}
    /\ loading' = (loading \/ ~silent)
    /\ error' = FALSE

\* Variant: fetches in progress are not cancelled.
BalanceEffectNoCancel(v, w) ==
    IF v = None \/ w = None
    THEN fetches' = fetches /\ balances' = NoBalances
    ELSE /\ fetches' = fetches \union {[mint |-> v, owner |-> w, cancelled |-> FALSE]}
         /\ UNCHANGED balances

\* The balances effect for view v and wallet w: the cleanup cancels the fetch in
\* progress; a new one starts, or there is nothing to show.
BalanceEffect(v, w) ==
    LET cancelled == {[f EXCEPT !.cancelled = TRUE] : f \in fetches}
    IN  IF v = None \/ w = None
        THEN fetches' = cancelled /\ balances' = NoBalances
        ELSE /\ fetches' = cancelled \union {[mint |-> v, owner |-> w, cancelled |-> FALSE]}
             /\ UNCHANGED balances

-----------------------------------------------------------------------------
\* A load with the spinner.
Asked(m) ==
    /\ loads < Loads /\ loads' = loads + 1
    /\ Load(m, FALSE)
    /\ UNCHANGED <<pools, view, wallet, balances, fetches, busy, refreshes, trades, switches,
                   faults>>

\* The Load button, disabled while the spinner shows.
UserLoad(m) == ~loading /\ Asked(m)

\* The page is opened with ?mint= or follows a link to another mint: whatever is loading.
LinkLoad(m) == Asked(m)

\* The interval exists only while there is a view.
Refresh ==
    /\ view # None
    /\ refreshes < Refreshes /\ refreshes' = refreshes + 1
    /\ Load(view, TRUE)
    /\ UNCHANGED <<pools, view, wallet, balances, fetches, busy, loads, trades, switches,
                   faults>>

\* Variant: the trade's handler does not clear its flag after the reload.
SettleStillBusy(r, v) ==
    /\ requests' = requests \ {r}
    /\ view' = v
    /\ loading' = (loading /\ r.silent)
    /\ UNCHANGED busy

\* The end of load call r with view v: the finally block, and the trade that awaited it.
Settle(r, v) ==
    /\ requests' = requests \ {r}
    /\ view' = v
    /\ loading' = (loading /\ r.silent)
    /\ busy' = [k \in Kinds |-> IF busy[k].at = r.id THEN NotBusy ELSE busy[k]]

\* Variant: a missing pool account is not an error.
AnswerUnchecked(r) ==
    /\ r \in requests
    /\ Settle(r, r.mint)
    /\ BalanceEffect(r.mint, wallet)
    /\ UNCHANGED <<pools, error, asked, wallet, spent>>

\* setView takes a new object, so the effects run even for the same mint.
Answer(r) ==
    /\ r \in requests /\ r.mint \in pools
    /\ Settle(r, r.mint)
    /\ BalanceEffect(r.mint, wallet)
    /\ UNCHANGED <<pools, error, asked, wallet, spent>>

\* The catch block of load: the view goes, and with it the interval.
LoadFails(r) ==
    /\ Settle(r, None) /\ error' = TRUE
    /\ BalanceEffect(None, wallet)
    /\ UNCHANGED <<pools, asked, wallet, loads, refreshes, trades, switches>>

\* There is no pool for the mint, or the RPC fails.
NotFound(r) == r \in requests /\ r.mint \notin pools /\ LoadFails(r) /\ UNCHANGED faults
RpcError(r) == r \in requests /\ Fault /\ LoadFails(r)

\* A cancelled fetch changes nothing.
BalancesArrive(f) ==
    /\ f \in fetches /\ fetches' = fetches \ {f}
    /\ balances' = IF f.cancelled THEN balances ELSE [mint |-> f.mint, owner |-> f.owner]
    /\ UNCHANGED <<pools, view, loading, error, wallet, requests, asked, busy, spent>>

BalancesFail(f) ==
    /\ f \in fetches /\ fetches' = fetches \ {f} /\ Fault
    /\ balances' = IF f.cancelled THEN balances ELSE NoBalances
    /\ UNCHANGED <<pools, view, loading, error, wallet, requests, asked, busy, loads,
                   refreshes, trades, switches>>

Connect(w) ==
    /\ w # wallet
    /\ switches < Switches /\ switches' = switches + 1
    /\ wallet' = w
    /\ BalanceEffect(view, w)
    /\ UNCHANGED <<pools, view, loading, error, requests, asked, busy, loads, refreshes,
                   trades, faults>>

-----------------------------------------------------------------------------
(* handleSwap and handleMigrate, alike but for the transaction. *)

Trade(k) ==
    /\ busy[k] = NotBusy /\ wallet # None /\ view # None
    /\ trades < Trades /\ trades' = trades + 1
    /\ busy' = [busy EXCEPT ![k] = [at |-> Sending, mint |-> view]]
    /\ UNCHANGED <<pools, view, loading, error, wallet, balances, netVars, loads,
                   refreshes, switches, faults>>

\* Confirmed: the handler reloads the pool it traded in (the mint of its own
\* closure, whatever is shown by now) and is busy until that load ends.
TradeConfirmed(k) ==
    /\ busy[k].at = Sending
    /\ Load(busy[k].mint, TRUE)
    /\ busy' = [busy EXCEPT ![k].at = asked + 1]
    /\ UNCHANGED <<pools, view, wallet, balances, fetches, spent>>

TradeFails(k) ==
    /\ busy[k].at = Sending
    /\ busy' = [busy EXCEPT ![k] = NotBusy]
    /\ UNCHANGED <<pools, view, loading, error, wallet, balances, netVars, spent>>

Respond == \/ \E r \in requests : Answer(r) \/ NotFound(r)
           \/ \E f \in fetches : BalancesArrive(f)

Next ==
    \/ \E m \in Mints : UserLoad(m) \/ LinkLoad(m)
    \/ Refresh
    \/ Respond
    \/ \E r \in requests : RpcError(r)
    \/ \E f \in fetches : BalancesFail(f)
    \/ \E w \in Wallets \union {None} : Connect(w)
    \/ \E k \in Kinds : Trade(k) \/ TradeFails(k) \/ TradeConfirmed(k)

Spec == Init /\ [][Next]_vars

\* RPC calls return; the interval keeps ticking (up to its bound) while it exists.
FairSpec == Spec /\ WF_vars(Respond) /\ WF_vars(Refresh)

-----------------------------------------------------------------------------
TypeOK ==
    /\ pools \subseteq Mints /\ view \in pools \union {None}
    /\ loading \in BOOLEAN /\ error \in BOOLEAN
    /\ wallet \in Wallets \union {None}
    /\ requests \subseteq [id : 1..asked, mint : Mints, silent : BOOLEAN]
    /\ balances \in [mint : Mints, owner : Wallets] \union {NoBalances}
    /\ busy \in [Kinds -> [at : Sending..asked, mint : pools \union {None}]]
    /\ loads <= Loads /\ refreshes <= Refreshes /\ trades <= Trades

\* Once no live fetch is left, the balances shown are those of the connected wallet
\* in the pool shown, however views, wallets and answers alternated.
BalancesSettle ==
    (\A f \in fetches : f.cancelled)
        => balances \in {NoBalances, [mint |-> view, owner |-> wallet]}

\* No control stays disabled: the spinner always stops, and with it the Load button
\* works again, and a handler that waits for the reload of its pool is released.
ControlsReleased ==
    /\ loading ~> ~loading
    /\ \A k \in Kinds : busy[k].at > 0 ~> busy[k].at <= 0

\* "refresh periodically so progress and price stay live": a pool that exists and
\* that the user asked for comes back after a passing RPC error.
StaysLive == [](view # None => []<>(view # None))
=============================================================================
