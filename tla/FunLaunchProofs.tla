---------------------------- MODULE FunLaunchProofs ----------------------------
(***************************************************************************)
(* The two pages of the launchpad: what the launch page reports is what is *)
(* on chain, and the trade page ends up with the balances of what it       *)
(* shows.                                                                  *)
(***************************************************************************)
EXTENDS FunLaunch, TLAPS

-----------------------------------------------------------------------------
\* The launch page.  The transaction that creates the pool of an attempt.
PoolTx(n) == [kind |-> "pool", attempt |-> n]

\* The type invariant of Launch.
LaunchTypes ==
    /\ attempt \in 0..Attempts /\ stage \in {"config", "pool", "idle"}
    /\ sub \in {"none", "balance", "simulate", "wallet", "confirm"}
    /\ stage = "idle" <=> sub = "none"
    /\ balance \in Nat /\ configs \subseteq 1..Attempts /\ pools \subseteq 1..Attempts
    /\ flying \subseteq [kind : {"config", "pool"}, attempt : 1..Attempts]
    /\ result \in 0..Attempts /\ shown \subseteq 1..Attempts
    /\ error \in {"none", "funds", "other"} /\ faults \in 0..LaunchFaults

\* Nothing is on chain, or on its way, for an attempt that has not begun.
Numbered ==
    /\ stage # "idle" => attempt \in 1..Attempts
    /\ \A n \in pools : n <= attempt
    /\ \A t \in flying : t.attempt <= attempt

\* A pool is created on a configuration, and what the page calls launched is a pool.
Based == pools \subseteq configs /\ (result # 0 => result \in pools)

\* The attempt in progress has put no pool on its way before the wallet was asked to.
Fresh ==
    stage # "idle" /\ ~(stage = "pool" /\ sub = "confirm")
        => attempt \notin pools /\ PoolTx(attempt) \notin flying

\* A pool that exists, or is on its way, and that the page does not show belongs to the
\* attempt in progress, or the RPC has failed.
Accounted ==
    \A n \in 1..Attempts \ shown :
        n \in pools \/ PoolTx(n) \in flying => faults > 0 \/ (n = attempt /\ stage = "pool")

\* The inductive invariant of Launch.
LaunchInv == LaunchTypes /\ Numbered /\ Based /\ Fresh /\ Accounted

\* The invariant implies the properties of Launch.
LEMMA LaunchSound == LaunchInv => Lp!TypeOK /\ Lp!ResultIsLaunched /\ Lp!UnshownPoolNeedsFault
<1>1. SUFFICES ASSUME LaunchTypes, Based, Accounted
               PROVE  Lp!TypeOK /\ Lp!ResultIsLaunched /\ Lp!UnshownPoolNeedsFault
  BY DEF LaunchInv
<1>2. Lp!TypeOK
  BY <1>1 DEF LaunchTypes, Lp!TypeOK, Lp!Kind, Lp!Attempt
<1>3. Lp!ResultIsLaunched
  BY <1>1 DEF Based, Lp!ResultIsLaunched
<1>4. Lp!UnshownPoolNeedsFault
  BY <1>1 DEF Accounted, PoolTx, Lp!UnshownPoolNeedsFault, Lp!TxOf, Lp!Attempt
<1>5. QED
  BY <1>2, <1>3, <1>4

\* The initial states satisfy the invariant.
LEMMA LaunchStart == Lp!Init => LaunchInv
<1>1. SUFFICES ASSUME Lp!Init PROVE LaunchInv
  OBVIOUS
<1>2. /\ balance \in Nat /\ configs = {} /\ pools = {} /\ flying = {}
      /\ attempt = 0 /\ stage = "idle" /\ sub = "none" /\ result = 0 /\ error = "none"
      /\ shown = {} /\ faults = 0 /\ 0 \in 0..Attempts /\ 0 \in 0..LaunchFaults
  BY <1>1, Constants DEF Lp!Init, Lp!LaunchConstants
<1>3. QED
  BY <1>2 DEF LaunchInv, LaunchTypes, Numbered, Based, Fresh, Accounted

\* An attempt that ends with an error: if its pool can still appear, the RPC failed.
LEMMA ThrowKeeps ==
    ASSUME LaunchInv, stage # "idle", NEW why \in {"funds", "other"}, Lp!Throw(why),
           UNCHANGED Lp!chain, faults' \in 0..LaunchFaults, faults' >= faults,
           stage = "pool" /\ sub = "confirm" /\ faults' = 0 =>
             attempt \notin pools /\ PoolTx(attempt) \notin flying
    PROVE  LaunchInv'
<1>1. LaunchTypes /\ Numbered /\ Based /\ Fresh /\ Accounted
  BY DEF LaunchInv
<1>2. /\ stage' = "idle" /\ sub' = "none" /\ error' = why
      /\ attempt' = attempt /\ result' = result /\ shown' = shown
      /\ balance' = balance /\ configs' = configs /\ pools' = pools /\ flying' = flying
  BY DEF Lp!Throw, Lp!chain
<1>3. LaunchTypes' /\ Numbered' /\ Based' /\ Fresh'
  BY <1>1, <1>2 DEF LaunchTypes, Numbered, Based, Fresh
<1>4. Accounted'
  BY <1>1, <1>2 DEF Accounted, Fresh, LaunchTypes
<1>5. QED
  BY <1>3, <1>4 DEF LaunchInv

\* From one check to the next.
LEMMA EnterKeeps ==
    ASSUME LaunchInv, sub \in {"balance", "simulate"}, NEW s \in {"simulate", "wallet"}, Lp!Enter(s),
           UNCHANGED Lp!chain, faults' \in 0..LaunchFaults, faults' >= faults
    PROVE  LaunchInv'
<1>1. LaunchTypes /\ Numbered /\ Based /\ Fresh /\ Accounted
  BY DEF LaunchInv
<1>2. /\ stage' = stage /\ sub' = s /\ error' = error
      /\ attempt' = attempt /\ result' = result /\ shown' = shown
      /\ balance' = balance /\ configs' = configs /\ pools' = pools /\ flying' = flying
  BY DEF Lp!Enter, Lp!chain
<1>3. LaunchTypes' /\ Numbered' /\ Based' /\ Fresh'
  BY <1>1, <1>2 DEF LaunchTypes, Numbered, Based, Fresh
<1>4. Accounted'
  BY <1>1, <1>2 DEF Accounted, LaunchTypes
<1>5. QED
  BY <1>3, <1>4 DEF LaunchInv

\* A new attempt has nothing on chain.
LEMMA ClickKeeps == ASSUME LaunchInv, Lp!Click PROVE LaunchInv'
<1>1. LaunchTypes /\ Numbered /\ Based /\ Fresh /\ Accounted
  BY DEF LaunchInv
<1>2. /\ stage = "idle" /\ attempt < Attempts /\ attempt' = attempt + 1 /\ stage' = "config"
      /\ sub' = "balance" /\ error' = "none" /\ result' = 0 /\ shown' = shown /\ faults' = faults
      /\ balance' = balance /\ configs' = configs /\ pools' = pools /\ flying' = flying
  BY DEF Lp!Click, Lp!chain
<1>3. Attempts \in Nat /\ attempt \in 0..Attempts
  BY <1>1, Constants DEF Lp!LaunchConstants, LaunchTypes
<1>4. LaunchTypes' /\ Based'
  BY <1>1, <1>2, <1>3 DEF LaunchTypes, Based
<1>5. Numbered'
  BY <1>1, <1>2, <1>3 DEF LaunchTypes, Numbered
<1>6. attempt + 1 \notin pools /\ PoolTx(attempt + 1) \notin flying
  BY <1>1, <1>3 DEF Numbered, PoolTx
<1>7. Fresh'
  BY <1>2, <1>6 DEF Fresh
<1>8. Accounted'
  BY <1>1, <1>2 DEF Accounted
<1>9. QED
  BY <1>4, <1>5, <1>7, <1>8 DEF LaunchInv

\* The wallet signs: from here on the attempt has a transaction on its way.
LEMMA ApproveKeeps == ASSUME LaunchInv, Lp!Approve PROVE LaunchInv'
<1>1. LaunchTypes /\ Numbered /\ Based /\ Fresh /\ Accounted
  BY DEF LaunchInv
<1>2. /\ sub = "wallet" /\ sub' = "confirm" /\ flying' = flying \union {Lp!Current}
      /\ stage' = stage /\ error' = error /\ attempt' = attempt /\ result' = result /\ shown' = shown
      /\ balance' = balance /\ configs' = configs /\ pools' = pools /\ faults' = faults
  BY DEF Lp!Approve, Lp!Enter
<1>3. /\ stage \in {"config", "pool"} /\ attempt \in 1..Attempts
      /\ Lp!Current = [kind |-> stage, attempt |-> attempt]
  BY <1>1, <1>2 DEF LaunchTypes, Numbered, Lp!Current, Lp!TxOf
<1>4. Lp!Current \in [kind : {"config", "pool"}, attempt : 1..Attempts] /\ Lp!Current.attempt = attempt
  BY <1>3
<1>5. LaunchTypes' /\ Based'
  BY <1>1, <1>2, <1>4 DEF LaunchTypes, Based
<1>6. Numbered'
  BY <1>1, <1>2, <1>3, <1>4 DEF Numbered
<1>7. \A n : PoolTx(n) = Lp!Current <=> n = attempt /\ stage = "pool"
  BY <1>3 DEF PoolTx
<1>8. Fresh'
  BY <1>1, <1>2, <1>3, <1>7 DEF Fresh
<1>9. Accounted'
  BY <1>1, <1>2, <1>7 DEF Accounted
<1>10. QED
  BY <1>5, <1>6, <1>8, <1>9 DEF LaunchInv

\* The RPC confirms, or gives up on, the transaction.
LEMMA ConfirmKeeps == ASSUME LaunchInv, Lp!Confirm PROVE LaunchInv'
<1>1. LaunchTypes /\ Numbered /\ Based /\ Fresh /\ Accounted
  BY DEF LaunchInv
<1>2. /\ sub = "confirm" /\ Lp!Landed(Lp!Current) /\ error' = error /\ attempt' = attempt
      /\ balance' = balance /\ configs' = configs /\ pools' = pools /\ flying' = flying /\ faults' = faults
      /\ \/ /\ stage = "config" /\ stage' = "pool" /\ sub' = "balance"
            /\ result' = result /\ shown' = shown
         \/ /\ stage = "pool" /\ stage' = "idle" /\ sub' = "none"
            /\ result' = attempt /\ shown' = shown \union {attempt}
  BY DEF Lp!Confirm, Lp!chain
<1>3. attempt \in 1..Attempts
  BY <1>1, <1>2 DEF LaunchTypes, Numbered
<1>4. stage = "pool" => attempt \in pools
  BY <1>2 DEF Lp!Landed, Lp!Current, Lp!TxOf
<1>5. LaunchTypes' /\ Numbered'
  BY <1>1, <1>2, <1>3 DEF LaunchTypes, Numbered
<1>6. Based' /\ Fresh'
  BY <1>1, <1>2, <1>4 DEF Based, Fresh
<1>7. Accounted'
  BY <1>1, <1>2 DEF Accounted
<1>8. QED
  BY <1>5, <1>6, <1>7 DEF LaunchInv

\* A transaction lands or expires: no pool appears that was not on its way.
LEMMA ChainKeeps == ASSUME LaunchInv, Lp!Chain PROVE LaunchInv'
<1>1. LaunchTypes /\ Numbered /\ Based /\ Fresh /\ Accounted
  BY DEF LaunchInv
<1>2. PICK t \in [kind : Lp!Kind, attempt : Lp!Attempt] : Lp!Land(t) \/ Lp!Expire(t)
  BY DEF Lp!Chain
<1>3. /\ t \in flying /\ flying' = flying \ {t} /\ faults' = faults
      /\ attempt' = attempt /\ stage' = stage /\ sub' = sub /\ result' = result /\ shown' = shown
      /\ error' = error
  BY <1>2 DEF Lp!Land, Lp!Expire, Lp!page
<1>4. t.kind \in {"config", "pool"} /\ t.attempt \in 1..Attempts /\ t.attempt <= attempt
      /\ t = [kind |-> t.kind, attempt |-> t.attempt]
  BY <1>1, <1>2, <1>3 DEF Numbered, Lp!Kind, Lp!Attempt
<1>5. /\ balance' \in Nat /\ configs \subseteq configs' /\ configs' \subseteq configs \union {t.attempt}
      /\ \/ pools' = pools
         \/ pools' = pools \union {t.attempt} /\ t.attempt \in configs /\ t = PoolTx(t.attempt)
  <2>1. CASE Lp!Expire(t)
    BY <1>1, <2>1 DEF Lp!Expire, LaunchTypes
  <2>2. CASE Lp!Land(t)
    <3>1. /\ balance >= Lp!Cost(t) /\ (t.kind = "pool" => t.attempt \in configs)
          /\ balance' = balance - Lp!Cost(t)
          /\ configs' = IF t.kind = "config" THEN configs \union {t.attempt} ELSE configs
          /\ pools' = IF t.kind = "pool" THEN pools \union {t.attempt} ELSE pools
      BY <2>2 DEF Lp!Land, Lp!Executable
    <3>2. Lp!Cost(t) \in Nat /\ balance \in Nat
      BY <1>1, Constants DEF Lp!Cost, Lp!LaunchConstants, LaunchTypes
    <3>3. balance' \in Nat
      BY <3>1, <3>2
    <3>4. t.kind = "pool" => t = PoolTx(t.attempt)
      BY <1>4 DEF PoolTx
    <3>5. QED
      BY <3>1, <3>3, <3>4
  <2>3. QED
    BY <1>2, <2>1, <2>2
<1>6. LaunchTypes'
  BY <1>1, <1>3, <1>4, <1>5 DEF LaunchTypes
<1>7. Numbered' /\ Based'
  BY <1>1, <1>3, <1>4, <1>5 DEF Numbered, Based
<1>8. \A n : n \in pools' \/ PoolTx(n) \in flying' => n \in pools \/ PoolTx(n) \in flying
  BY <1>3, <1>5
<1>9. Fresh'
  BY <1>1, <1>3, <1>8 DEF Fresh
<1>10. Accounted'
  BY <1>1, <1>3, <1>8 DEF Accounted
<1>11. QED
  BY <1>6, <1>7, <1>9, <1>10 DEF LaunchInv

\* The inductive step.
LEMMA LaunchStep == ASSUME LaunchInv, Lp!Next PROVE LaunchInv'
<1>1. LaunchTypes
  BY DEF LaunchInv
<1>2. faults \in 0..LaunchFaults /\ LaunchFaults \in Nat
      /\ (sub # "none" => stage # "idle") /\ stage \in {"config", "pool", "idle"}
  BY <1>1, Constants DEF LaunchTypes, Lp!LaunchConstants
<1>3. Lp!Fault => faults' \in 0..LaunchFaults /\ faults' > faults /\ faults' # 0
  BY <1>2 DEF Lp!Fault
<1>4. CASE Lp!CheckBalance
  BY <1>2, <1>4, EnterKeeps, ThrowKeeps DEF Lp!CheckBalance
<1>5. CASE Lp!CheckError
  BY <1>2, <1>3, <1>5, ThrowKeeps DEF Lp!CheckError
<1>6. CASE Lp!Simulate
  BY <1>2, <1>6, EnterKeeps, ThrowKeeps DEF Lp!Simulate
<1>7. CASE Lp!SimulateHiccup
  BY <1>2, <1>3, <1>7, EnterKeeps DEF Lp!SimulateHiccup
<1>8. CASE Lp!Reject
  BY <1>2, <1>8, ThrowKeeps DEF Lp!Reject
<1>9. CASE Lp!ConfirmFailed
  <2>1. stage = "pool" => attempt \notin pools /\ PoolTx(attempt) \notin flying
    BY <1>9 DEF Lp!ConfirmFailed, Lp!Landed, Lp!Current, Lp!TxOf, PoolTx
  <2>2. QED
    BY <1>2, <1>9, <2>1, ThrowKeeps DEF Lp!ConfirmFailed
<1>10. CASE Lp!ConfirmError
  BY <1>2, <1>3, <1>10, ThrowKeeps DEF Lp!ConfirmError
<1>11. QED
  BY <1>4, <1>5, <1>6, <1>7, <1>8, <1>9, <1>10, ClickKeeps, ApproveKeeps, ConfirmKeeps,
     ChainKeeps
     DEF Lp!Next, Lp!Page, Lp!Rpc

-----------------------------------------------------------------------------
\* The trade page.  The type invariant of TradePage.
TradeTypes ==
    /\ pools \subseteq Mints /\ view \in pools \union {Tp!None}
    /\ loading \in BOOLEAN /\ error \in BOOLEAN
    /\ wallet \in Wallets \union {Tp!None}
    /\ asked \in Nat
    /\ requests \subseteq [id : 1..asked, mint : Mints, silent : BOOLEAN]
    /\ fetches \subseteq [mint : Mints, owner : Wallets, cancelled : BOOLEAN]
    /\ balances \in [mint : Mints, owner : Wallets] \union {Tp!NoBalances}
    /\ busy \in [Tp!Kinds -> [at : -1..asked, mint : pools \union {Tp!None}]]
    /\ loads \in 0..Loads /\ refreshes \in 0..Refreshes /\ trades \in 0..Trades

\* A handler that sends a transaction knows the pool it trades in.
Sends == \A k \in Tp!Kinds : busy[k].at = Tp!Sending => busy[k].mint # Tp!None

\* A fetch that has not been cancelled asks for what is shown.
Current == \A f \in fetches : ~f.cancelled => f.mint = view /\ f.owner = wallet

\* With no fetch left to come, the balances are those of what is shown, or none.
Settled ==
    (\A f \in fetches : f.cancelled)
        => balances \in {Tp!NoBalances, [mint |-> view, owner |-> wallet]}

\* The inductive invariant of TradePage.
TradeInv == TradeTypes /\ Sends /\ Current /\ Settled

\* The invariant implies the properties of TradePage.
LEMMA TradeSound == TradeInv => Tp!TypeOK /\ Tp!BalancesSettle
<1>1. SUFFICES ASSUME TradeTypes, Settled PROVE Tp!TypeOK /\ Tp!BalancesSettle
  BY DEF TradeInv
<1>2. Loads \in Nat /\ Refreshes \in Nat /\ Trades \in Nat
  BY Constants DEF Tp!TradePageConstants
<1>3. Tp!TypeOK
  BY <1>1, <1>2 DEF TradeTypes, Tp!TypeOK, Tp!Sending
<1>4. Tp!BalancesSettle
  BY <1>1 DEF Settled, Tp!BalancesSettle
<1>5. QED
  BY <1>3, <1>4

\* The initial states satisfy the invariant.
LEMMA TradeStart == Tp!Init => TradeInv
<1>1. SUFFICES ASSUME Tp!Init PROVE TradeInv
  OBVIOUS
<1>2. /\ pools \in SUBSET Mints /\ view = Tp!None /\ loading = FALSE /\ error = FALSE
      /\ requests = {} /\ asked = 0 /\ wallet \in Wallets \union {Tp!None}
      /\ balances = Tp!NoBalances /\ fetches = {} /\ busy = [k \in Tp!Kinds |-> Tp!NotBusy]
      /\ loads = 0 /\ refreshes = 0 /\ trades = 0
  BY <1>1 DEF Tp!Init
<1>3. Loads \in Nat /\ Refreshes \in Nat /\ Trades \in Nat
  BY Constants DEF Tp!TradePageConstants
<1>4. Tp!NotBusy \in [at : -1..0, mint : pools \union {Tp!None}] /\ Tp!NotBusy.at # Tp!Sending
  BY DEF Tp!NotBusy, Tp!Idle, Tp!Sending
<1>5. TradeTypes
  <2>1. busy \in [Tp!Kinds -> [at : -1..asked, mint : pools \union {Tp!None}]]
    BY <1>2, <1>4
  <2>2. 0 \in 0..Loads /\ 0 \in 0..Refreshes /\ 0 \in 0..Trades
    BY <1>3
  <2>3. loading \in BOOLEAN /\ error \in BOOLEAN /\ asked \in Nat
    BY <1>2
  <2>4. QED
    BY <1>2, <2>1, <2>2, <2>3 DEF TradeTypes
<1>6. Sends /\ Current /\ Settled
  BY <1>2, <1>4 DEF Sends, Current, Settled
<1>7. QED
  BY <1>5, <1>6 DEF TradeInv

\* The constants of TradePage, expanded.
LEMMA TradeConsts ==
    /\ Loads \in Nat /\ Refreshes \in Nat /\ Trades \in Nat
    /\ Tp!None \notin Mints /\ Tp!None \notin Wallets
    /\ Tp!Sending = -1
    /\ Tp!NotBusy = [at |-> 0, mint |-> Tp!None]
BY Constants DEF Tp!TradePageConstants, Tp!Sending, Tp!NotBusy, Tp!Idle

\* The type invariant in the parts that different handlers disturb.
FetchType == fetches \subseteq [mint : Mints, owner : Wallets, cancelled : BOOLEAN]
ShownType == balances \in [mint : Mints, owner : Wallets] \union {Tp!NoBalances}

\* The balances effect leaves at most one live fetch, for what is now shown.
LEMMA EffectKeeps ==
    ASSUME TradeInv, NEW v \in Mints \union {Tp!None}, NEW w \in Wallets \union {Tp!None},
           Tp!BalanceEffect(v, w), view' = v, wallet' = w
    PROVE  FetchType' /\ ShownType' /\ Current' /\ Settled'
<1>1. FetchType /\ ShownType
  BY DEF TradeInv, TradeTypes, FetchType, ShownType
<1> DEFINE cancelled == {[f EXCEPT !.cancelled = TRUE] : f \in fetches}
           mine == [mint |-> v, owner |-> w, cancelled |-> FALSE]
<1>2. /\ cancelled \subseteq [mint : Mints, owner : Wallets, cancelled : BOOLEAN]
      /\ \A f \in cancelled : f.cancelled = TRUE
  BY <1>1 DEF FetchType
<1>3. \/ (v = Tp!None \/ w = Tp!None) /\ fetches' = cancelled /\ balances' = Tp!NoBalances
      \/ v # Tp!None /\ w # Tp!None /\ fetches' = cancelled \union {mine} /\ balances' = balances
  BY DEF Tp!BalanceEffect
<1> HIDE DEF cancelled
<1>4. CASE fetches' = cancelled /\ balances' = Tp!NoBalances
  BY <1>2, <1>4 DEF FetchType, ShownType, Current, Settled
<1>5. CASE v # Tp!None /\ w # Tp!None /\ fetches' = cancelled \union {mine} /\ balances' = balances
  <2>1. mine \in [mint : Mints, owner : Wallets, cancelled : BOOLEAN]
    BY <1>5
  <2>2. FetchType' /\ ShownType'
    BY <1>1, <1>2, <1>5, <2>1 DEF FetchType, ShownType
  <2>3. Current'
    BY <1>2, <1>5 DEF Current
  <2>4. Settled'
    <3>1. mine \in fetches' /\ ~mine.cancelled
      BY <1>5
    <3>2. QED
      BY <3>1 DEF Settled
  <2>5. QED
    BY <2>2, <2>3, <2>4
<1>6. QED
  BY <1>3, <1>4, <1>5

RequestType ==
    /\ asked \in Nat
    /\ requests \subseteq [id : 1..asked, mint : Mints, silent : BOOLEAN]
    /\ loading \in BOOLEAN /\ error \in BOOLEAN
BusyType == busy \in [Tp!Kinds -> [at : -1..asked, mint : pools \union {Tp!None}]]

\* The parts are the type invariant.
LEMMA TradeParts ==
    TradeTypes <=> /\ RequestType /\ BusyType /\ FetchType /\ ShownType
                   /\ pools \subseteq Mints /\ view \in pools \union {Tp!None}
                   /\ wallet \in Wallets \union {Tp!None}
                   /\ loads \in 0..Loads /\ refreshes \in 0..Refreshes /\ trades \in 0..Trades
BY DEF TradeTypes, RequestType, BusyType, FetchType, ShownType

\* A load call adds a request with a number of its own.
LEMMA LoadKeeps ==
    ASSUME TradeInv, NEW m \in Mints, NEW silent \in BOOLEAN, Tp!Load(m, silent)
    PROVE  RequestType' /\ asked' = asked + 1 /\ asked \in Nat
<1>1. /\ asked \in Nat /\ loading \in BOOLEAN
      /\ requests \subseteq [id : 1..asked, mint : Mints, silent : BOOLEAN]
  BY DEF TradeInv, TradeTypes
<1>2. /\ asked' = asked + 1 /\ error' = FALSE /\ loading' = (loading \/ ~silent)
      /\ requests' = requests \union {[id |-> asked + 1, mint |-> m, silent |-> silent]}
  BY DEF Tp!Load
<1>3. [id |-> asked + 1, mint |-> m, silent |-> silent] \in [id : 1..(asked + 1), mint : Mints, silent : BOOLEAN]
  BY <1>1
<1>4. [id : 1..asked, mint : Mints, silent : BOOLEAN] \subseteq [id : 1..(asked + 1), mint : Mints, silent : BOOLEAN]
  BY <1>1
<1>5. requests' \subseteq [id : 1..asked', mint : Mints, silent : BOOLEAN]
  BY <1>1, <1>2, <1>3, <1>4
<1>6. loading' \in BOOLEAN
  BY <1>2
<1>7. QED
  <2>1. asked' \in Nat /\ asked' = asked + 1
    BY <1>1, <1>2
  <2>2. error' \in BOOLEAN
    BY <1>2
  <2>3. QED
    BY <1>1, <1>5, <1>6, <2>1, <2>2, Zenon DEF RequestType

\* The end of a load call takes its request away and lets the handlers that await it go on.
LEMMA SettleKeeps ==
    ASSUME TradeInv, NEW r \in requests, NEW v \in pools \union {Tp!None}, Tp!Settle(r, v),
           asked' = asked, pools' = pools, error' \in BOOLEAN
    PROVE  RequestType' /\ BusyType' /\ Sends' /\ view' = v
<1>1. /\ asked \in Nat /\ requests \subseteq [id : 1..asked, mint : Mints, silent : BOOLEAN]
      /\ busy \in [Tp!Kinds -> [at : -1..asked, mint : pools \union {Tp!None}]] /\ Sends
  BY DEF TradeInv, TradeTypes
<1>2. /\ requests' = requests \ {r} /\ view' = v /\ loading' = (loading /\ r.silent)
      /\ busy' = [k \in Tp!Kinds |-> IF busy[k].at = r.id THEN Tp!NotBusy ELSE busy[k]]
  BY DEF Tp!Settle
<1>3. loading' \in BOOLEAN
  BY <1>2
<1>4. RequestType'
  BY <1>1, <1>2, <1>3 DEF RequestType
<1>5. Tp!NotBusy \in [at : -1..asked, mint : pools \union {Tp!None}] /\ Tp!NotBusy.at # Tp!Sending
  BY <1>1, TradeConsts
<1>6. BusyType' /\ Sends'
  BY <1>1, <1>2, <1>5 DEF BusyType, Sends
<1>7. QED
  BY <1>2, <1>4, <1>6

\* A new request leaves the handlers as they are.
LEMMA BusyGrows ==
    ASSUME TradeInv, pools' = pools, asked' \in {asked, asked + 1}, busy' = busy
    PROVE  BusyType' /\ Sends'
<1>1. /\ asked \in Nat /\ Sends
      /\ busy \in [Tp!Kinds -> [at : -1..asked, mint : pools \union {Tp!None}]]
  BY DEF TradeInv, TradeTypes
<1>2. -1..asked \subseteq -1..asked'
  BY <1>1
<1>3. QED
  BY <1>1, <1>2 DEF BusyType, Sends

\* A step that shows the same view and balances to the same wallet.
LEMMA SameShown ==
    ASSUME TradeInv, UNCHANGED <<view, wallet, balances, fetches>>
    PROVE  FetchType' /\ ShownType' /\ Current' /\ Settled'
BY DEF TradeInv, TradeTypes, FetchType, ShownType, Current, Settled

\* An answer takes its fetch away; if the fetch was live, what it brings is what is shown.
LEMMA FetchEnds ==
    ASSUME TradeInv, NEW f \in fetches, fetches' = fetches \ {f}, view' = view, wallet' = wallet,
           \/ f.cancelled /\ balances' = balances
           \/ ~f.cancelled /\ balances' \in {Tp!NoBalances, [mint |-> f.mint, owner |-> f.owner]}
    PROVE  FetchType' /\ ShownType' /\ Current' /\ Settled'
<1>1. FetchType /\ ShownType /\ Current /\ Settled
  BY DEF TradeInv, TradeTypes, FetchType, ShownType
<1>2. f.mint \in Mints /\ f.owner \in Wallets
  BY <1>1 DEF FetchType
<1>3. FetchType' /\ ShownType' /\ Current'
  BY <1>1, <1>2 DEF FetchType, ShownType, Current
<1>4. Settled'
  BY <1>1 DEF Settled, Current
<1>5. QED
  BY <1>3, <1>4

\* The invariant, taken apart,
LEMMA TradeFacts ==
    ASSUME TradeInv
    PROVE  /\ TradeTypes /\ Sends /\ Current /\ Settled
           /\ pools \subseteq Mints /\ view \in pools \union {Tp!None}
           /\ wallet \in Wallets \union {Tp!None} /\ error \in BOOLEAN
           /\ RequestType /\ BusyType /\ FetchType /\ ShownType
           /\ loads \in 0..Loads /\ refreshes \in 0..Refreshes /\ trades \in 0..Trades
BY TradeParts DEF TradeInv, RequestType

Rest == /\ pools \subseteq Mints /\ view \in pools \union {Tp!None}
        /\ wallet \in Wallets \union {Tp!None}
        /\ loads \in 0..Loads /\ refreshes \in 0..Refreshes /\ trades \in 0..Trades

\* and put together.
LEMMA TradeWhole ==
    RequestType /\ BusyType /\ Sends /\ FetchType /\ ShownType /\ Current /\ Settled /\ Rest => TradeInv
BY TradeParts DEF TradeInv, Rest

\* The user or a link asks for a pool.
LEMMA AskedKeeps == ASSUME TradeInv, NEW m \in Mints, Tp!Asked(m) PROVE TradeInv'
<1>1. /\ loads < Loads /\ loads' = loads + 1 /\ Tp!Load(m, FALSE)
      /\ UNCHANGED <<pools, view, wallet, balances, fetches, busy, refreshes, trades>>
  BY DEF Tp!Asked
<1>2. RequestType' /\ asked' = asked + 1
  BY <1>1, LoadKeeps
<1>3. BusyType' /\ Sends'
  BY <1>1, <1>2, BusyGrows
<1>4. FetchType' /\ ShownType' /\ Current' /\ Settled'
  BY <1>1, SameShown
<1>5. Rest'
  BY <1>1, TradeFacts, TradeConsts DEF Rest
<1>6. QED
  BY <1>2, <1>3, <1>4, <1>5, TradeWhole, PTL

\* The page refreshes itself.
LEMMA RefreshKeeps == ASSUME TradeInv, Tp!Refresh PROVE TradeInv'
<1>1. /\ view # Tp!None /\ refreshes < Refreshes /\ refreshes' = refreshes + 1 /\ Tp!Load(view, TRUE)
      /\ UNCHANGED <<pools, view, wallet, balances, fetches, busy, loads, trades>>
  BY DEF Tp!Refresh
<1>2. view \in Mints
  BY <1>1, TradeFacts
<1>3. RequestType' /\ asked' = asked + 1
  BY <1>1, <1>2, LoadKeeps
<1>4. BusyType' /\ Sends'
  BY <1>1, <1>3, BusyGrows
<1>5. FetchType' /\ ShownType' /\ Current' /\ Settled'
  BY <1>1, SameShown
<1>6. Rest'
  BY <1>1, TradeFacts, TradeConsts DEF Rest
<1>7. QED
  BY <1>3, <1>4, <1>5, <1>6, TradeWhole, PTL

\* The end of a load call, with a view or without one.
LEMMA EndOfLoad ==
    ASSUME TradeInv, NEW r \in requests, NEW v \in pools \union {Tp!None},
           Tp!Settle(r, v), Tp!BalanceEffect(v, wallet), error' \in BOOLEAN,
           UNCHANGED <<pools, asked, wallet, loads, refreshes, trades>>
    PROVE  TradeInv'
<1>1. RequestType' /\ BusyType' /\ Sends' /\ view' = v
  BY SettleKeeps
<1>2. v \in Mints \union {Tp!None} /\ wallet \in Wallets \union {Tp!None}
  BY TradeFacts
<1>3. FetchType' /\ ShownType' /\ Current' /\ Settled'
  BY <1>1, <1>2, EffectKeeps
<1>4. Rest'
  BY <1>1, TradeFacts DEF Rest
<1>5. QED
  BY <1>1, <1>3, <1>4, TradeWhole, PTL

\* The three ends of a load call.
LEMMA AnswerKeeps ==
    ASSUME TradeInv, NEW r \in requests, Tp!Answer(r) \/ Tp!NotFound(r) \/ Tp!RpcError(r)
    PROVE  TradeInv'
<1>1. CASE Tp!Answer(r)
  <2>1. /\ r.mint \in pools /\ Tp!Settle(r, r.mint) /\ Tp!BalanceEffect(r.mint, wallet)
        /\ UNCHANGED <<pools, error, asked, wallet, loads, refreshes, trades>>
    BY <1>1 DEF Tp!Answer, Tp!spent
  <2>2. error' \in BOOLEAN
    BY <2>1, TradeFacts
  <2>3. QED
    BY <2>1, <2>2, EndOfLoad
<1>2. CASE Tp!NotFound(r) \/ Tp!RpcError(r)
  <2>1. /\ Tp!Settle(r, Tp!None) /\ Tp!BalanceEffect(Tp!None, wallet) /\ error' = TRUE
        /\ UNCHANGED <<pools, asked, wallet, loads, refreshes, trades>>
    BY <1>2 DEF Tp!NotFound, Tp!RpcError, Tp!LoadFails
  <2>2. error' \in BOOLEAN
    BY <2>1
  <2>3. QED
    BY <2>1, <2>2, EndOfLoad
<1>3. QED
  BY <1>1, <1>2

\* The two ends of a fetch.
LEMMA FetchKeeps ==
    ASSUME TradeInv, NEW f \in fetches, Tp!BalancesArrive(f) \/ Tp!BalancesFail(f)
    PROVE  TradeInv'
<1>1. /\ fetches' = fetches \ {f}
      /\ UNCHANGED <<pools, view, loading, error, wallet, requests, asked, busy, loads, refreshes, trades>>
      /\ \/ f.cancelled /\ balances' = balances
         \/ ~f.cancelled /\ balances' \in {Tp!NoBalances, [mint |-> f.mint, owner |-> f.owner]}
  BY DEF Tp!BalancesArrive, Tp!BalancesFail, Tp!spent
<1>2. FetchType' /\ ShownType' /\ Current' /\ Settled'
  BY <1>1, FetchEnds
<1>3. RequestType' /\ BusyType' /\ Sends'
  BY <1>1, TradeFacts DEF RequestType, BusyType, Sends
<1>4. Rest'
  BY <1>1, TradeFacts DEF Rest
<1>5. QED
  BY <1>2, <1>3, <1>4, TradeWhole, PTL

\* The wallet is connected, changed or disconnected.
LEMMA ConnectKeeps ==
    ASSUME TradeInv, NEW w \in Wallets \union {Tp!None}, Tp!Connect(w)
    PROVE  TradeInv'
<1>1. /\ wallet' = w /\ Tp!BalanceEffect(view, w)
      /\ UNCHANGED <<pools, view, loading, error, requests, asked, busy, loads, refreshes, trades>>
  BY DEF Tp!Connect
<1>2. view \in Mints \union {Tp!None}
  BY TradeFacts
<1>3. FetchType' /\ ShownType' /\ Current' /\ Settled'
  BY <1>1, <1>2, EffectKeeps
<1>4. RequestType' /\ BusyType' /\ Sends'
  BY <1>1, TradeFacts DEF RequestType, BusyType, Sends
<1>5. Rest'
  BY <1>1, TradeFacts DEF Rest
<1>6. QED
  BY <1>3, <1>4, <1>5, TradeWhole, PTL

\* The steps of a trade.
LEMMA TradeKeeps ==
    ASSUME TradeInv, NEW k \in Tp!Kinds, Tp!Trade(k) \/ Tp!TradeFails(k) \/ Tp!TradeConfirmed(k)
    PROVE  TradeInv'
<1>1. /\ busy \in [Tp!Kinds -> [at : -1..asked, mint : pools \union {Tp!None}]] /\ Sends /\ asked \in Nat
      /\ view \in pools \union {Tp!None} /\ pools \subseteq Mints
  BY TradeFacts DEF BusyType, RequestType
<1>2. FetchType' /\ ShownType' /\ Current' /\ Settled'
  <2>1. UNCHANGED <<view, wallet, balances, fetches>>
    BY DEF Tp!Trade, Tp!TradeFails, Tp!TradeConfirmed, Tp!netVars
  <2>2. QED
    BY <2>1, SameShown
<1>3. CASE Tp!Trade(k) \/ Tp!TradeFails(k)
  <2>1. /\ UNCHANGED <<pools, view, loading, error, wallet, requests, asked, loads, refreshes>>
        /\ trades' = trades \/ (trades < Trades /\ trades' = trades + 1)
    <3>1. CASE Tp!Trade(k)
      BY <3>1 DEF Tp!Trade, Tp!netVars
    <3>2. CASE Tp!TradeFails(k)
      BY <3>2 DEF Tp!TradeFails, Tp!netVars, Tp!spent
    <3>3. QED
      BY <1>3, <3>1, <3>2
  <2>2. PICK b \in [at : -1..asked, mint : pools \union {Tp!None}] :
           busy' = [busy EXCEPT ![k] = b] /\ (b.at = Tp!Sending => b.mint # Tp!None)
    <3>1. CASE Tp!Trade(k)
      <4>1. busy' = [busy EXCEPT ![k] = [at |-> -1, mint |-> view]] /\ view # Tp!None
        BY <3>1, TradeConsts DEF Tp!Trade
      <4>2. [at |-> -1, mint |-> view] \in [at : -1..asked, mint : pools \union {Tp!None}]
        BY <1>1
      <4>3. QED
        BY <4>1, <4>2
    <3>2. CASE Tp!TradeFails(k)
      <4>1. busy' = [busy EXCEPT ![k] = Tp!NotBusy]
        BY <3>2 DEF Tp!TradeFails
      <4>2. Tp!NotBusy \in [at : -1..asked, mint : pools \union {Tp!None}] /\ Tp!NotBusy.at # Tp!Sending
        BY <1>1, TradeConsts
      <4>3. QED
        BY <4>1, <4>2
    <3>3. QED
      BY <1>3, <3>1, <3>2
  <2>3. BusyType' /\ Sends'
    BY <1>1, <2>1, <2>2 DEF BusyType, Sends
  <2>4. RequestType' /\ Rest'
    BY <2>1, TradeFacts, TradeConsts DEF RequestType, Rest
  <2>5. QED
    BY <1>2, <2>3, <2>4, TradeWhole, PTL
<1>4. CASE Tp!TradeConfirmed(k)
  <2>1. /\ busy[k].at = Tp!Sending /\ Tp!Load(busy[k].mint, TRUE)
        /\ busy' = [busy EXCEPT ![k].at = asked + 1]
        /\ UNCHANGED <<pools, view, wallet, loads, refreshes, trades>>
    BY <1>4 DEF Tp!TradeConfirmed, Tp!spent
  <2>2. busy[k].mint \in pools
    BY <1>1, <2>1 DEF Sends
  <2>3. RequestType' /\ asked' = asked + 1
    BY <1>1, <2>1, <2>2, LoadKeeps
  <2>4. \A j \in Tp!Kinds :
           /\ busy'[j] = IF j = k THEN [at |-> asked + 1, mint |-> busy[k].mint] ELSE busy[j]
           /\ busy'[j] \in [at : -1..(asked + 1), mint : pools \union {Tp!None}]
    BY <1>1, <2>1
  <2>5. busy' \in [Tp!Kinds -> [at : -1..asked', mint : pools' \union {Tp!None}]]
    BY <1>1, <2>1, <2>3, <2>4
  <2>6. Sends'
    BY <1>1, <2>4, TradeConsts DEF Sends
  <2>7. Rest'
    BY <2>1, TradeFacts DEF Rest
  <2>8. BusyType'
    BY <2>5 DEF BusyType
  <2>9. QED
    BY <1>2, <2>3, <2>6, <2>7, <2>8, TradeWhole, PTL
<1>5. QED
  BY <1>3, <1>4

\* The inductive step.
LEMMA TradeStep == ASSUME TradeInv, Tp!Next PROVE TradeInv'
BY AskedKeeps, RefreshKeeps, AnswerKeeps, FetchKeeps, ConnectKeeps, TradeKeeps
   DEF Tp!Next, Tp!Respond, Tp!UserLoad, Tp!LinkLoad

-----------------------------------------------------------------------------
\* The inductive invariant of the composition: the one of the page that is open.
FunInv == /\ page = "launch" => LaunchInv
          /\ page = "trade" => TradeInv

\* The initial states satisfy the invariant.
LEMMA FunStart == Init => FunInv
BY LaunchStart, TradeStart DEF Init, FunInv

\* A step is a step of the page that is open, or changes nothing.
LEMMA FunStep == FunInv /\ [Next]_vars => FunInv'
<1>1. SUFFICES ASSUME FunInv, [Next]_vars PROVE FunInv'
  OBVIOUS
<1>2. CASE Launching(Lp!Next)
  BY <1>1, <1>2, LaunchStep DEF FunInv, Launching
<1>3. CASE Trading(Tp!Next)
  BY <1>1, <1>3, TradeStep DEF FunInv, Trading
<1>4. CASE UNCHANGED vars
  <2>1. UNCHANGED <<page, pools, error, faults, attempt, stage, sub, balance, configs, flying, result, shown,
                    view, loading, requests, asked, wallet, balances, fetches, busy, loads, refreshes, trades>>
    BY <1>4 DEF vars, ofLaunch, ofTrade
  <2>2. LaunchInv => LaunchInv'
    BY <2>1 DEF LaunchInv, LaunchTypes, Numbered, Based, Fresh, Accounted
  <2>3. TradeInv => TradeInv'
    BY <2>1 DEF TradeInv, TradeTypes, Sends, Current, Settled
  <2>4. QED
    BY <1>1, <2>1, <2>2, <2>3 DEF FunInv
<1>5. QED
  BY <1>1, <1>2, <1>3, <1>4 DEF Next

\* The invariant holds in every reachable state.
LEMMA FunAlways == Spec => []FunInv
BY FunStart, FunStep, PTL DEF Spec

\* The invariant implies the properties of the two pages.
LEMMA FunSound == FunInv => TypeOK /\ ResultIsLaunched /\ UnshownPoolNeedsFault /\ BalancesSettle
BY LaunchSound, TradeSound
   DEF FunInv, TypeOK, ResultIsLaunched, UnshownPoolNeedsFault, BalancesSettle

-----------------------------------------------------------------------------
\* Every reachable state of the two pages has its type, for any number of attempts, pools
\* and wallets.
THEOREM FunTypeCorrect == Spec => []TypeOK
BY FunAlways, FunSound, PTL

\* What the launch page reports as launched is a pool, on a configuration that exists.
THEOREM FunResultIsLaunched == Spec => []ResultIsLaunched
BY FunAlways, FunSound, PTL

\* A pool that came into being without the launch page showing it is the work of an RPC
\* failure: no order of clicks, rejections and checks loses one.
THEOREM FunUnshownPoolNeedsFault == Spec => []UnshownPoolNeedsFault
BY FunAlways, FunSound, PTL

\* However load calls, refreshes, trades and wallet changes overlap, the balances the trade
\* page ends up with are those of the pool and the wallet it shows, or none.
THEOREM FunBalancesSettle == Spec => []BalancesSettle
BY FunAlways, FunSound, PTL
=============================================================================
