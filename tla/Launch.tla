-------------------------------- MODULE Launch --------------------------------
(***************************************************************************)
(* scaffolds/fun-launch: the Launch button (CurveVisualizer, handleLaunch) *)
(* creates a DBC config, then a mint and pool on it, each through          *)
(* sendWithPreflight (lib/send.ts): balance check, simulation on our own   *)
(* RPC, the wallet, the confirmation.  The user clicks again after an      *)
(* error; each attempt has a config keypair and a mint of its own.         *)
(*                                                                         *)
(* The wallet's SOL is counted in thousandths.  The chain is external: a   *)
(* transaction handed to the wallet lands or expires in its own time.      *)
(***************************************************************************)
EXTENDS Integers, FiniteSets

CONSTANTS
    Attempts,           \* clicks on Launch, at most
    Balances,           \* what the wallet may hold beforehand
    MinBalance,         \* minLamports of a launch
    ConfigCost, PoolCost,   \* rent and fees of the two transactions
    Faults              \* RPC errors, at most

LaunchConstants ==
    /\ Attempts \in Nat /\ Faults \in Nat /\ Balances \subseteq Nat
    /\ MinBalance \in Nat /\ ConfigCost \in Nat /\ PoolCost \in Nat

VARIABLES
    attempt,            \* clicks so far; names the attempt's config and mint
    stage,              \* "idle", "config" or "pool"; loading = (stage # "idle")
    sub,                \* where sendWithPreflight is
    balance,
    configs, pools,     \* on chain: attempts whose config / pool exists
    flying,             \* handed to the wallet and may still land
    result,             \* the attempt shown as launched, 0 if none
    shown,              \* every attempt that was shown as launched (history)
    error,              \* the error shown: "none", "funds", "other"
    faults

chain == <<balance, configs, pools, flying>>
page  == <<attempt, stage, sub, result, shown, error>>
vars  == <<chain, page, faults>>

Attempt == 1..Attempts
Kind    == {"config", "pool"}
TxOf(k, n) == [kind |-> k, attempt |-> n]
Cost(t)    == IF t.kind = "config" THEN ConfigCost ELSE PoolCost
Landed(t)  == t.attempt \in (IF t.kind = "config" THEN configs ELSE pools)
Current    == TxOf(stage, attempt)

Executable(t) == balance >= Cost(t) /\ (t.kind = "pool" => t.attempt \in configs)

-----------------------------------------------------------------------------
Init ==
    /\ balance \in Balances /\ configs = {} /\ pools = {} /\ flying = {}
    /\ attempt = 0 /\ stage = "idle" /\ sub = "none" /\ result = 0 /\ error = "none"
    /\ shown = {}
    /\ faults = 0

\* The button is disabled while an attempt runs; another token may be launched after.
Click ==
    /\ stage = "idle" /\ attempt < Attempts
    /\ attempt' = attempt + 1 /\ stage' = "config" /\ sub' = "balance"
    /\ error' = "none" /\ result' = 0
    /\ UNCHANGED <<chain, shown, faults>>

\* Variant: loading is cleared, the rest is left as it was.
ThrowKeepsStep(why) ==
    /\ stage' = "idle" /\ error' = why
    /\ UNCHANGED <<attempt, sub, result, shown>>

\* The catch and finally blocks of handleLaunch.
Throw(why) ==
    /\ stage' = "idle" /\ sub' = "none" /\ error' = why
    /\ UNCHANGED <<attempt, result, shown>>

Fault == faults < Faults /\ faults' = faults + 1

Enter(s) == sub' = s /\ UNCHANGED <<attempt, stage, result, shown, error>>

CheckBalance ==
    /\ sub = "balance"
    /\ IF balance >= MinBalance THEN Enter("simulate") ELSE Throw("funds")
    /\ UNCHANGED <<chain, faults>>

\* The balance or the blockhash cannot be read.
CheckError ==
    /\ sub = "balance" /\ Fault
    /\ Throw("other")
    /\ UNCHANGED chain

Simulate ==
    /\ sub = "simulate"
    /\ IF Executable(Current) THEN Enter("wallet")
       ELSE Throw(IF balance < Cost(Current) THEN "funds" ELSE "other")
    /\ UNCHANGED <<chain, faults>>

\* An RPC hiccup is no answer: the wallet may try anyway.
SimulateHiccup ==
    /\ sub = "simulate" /\ Fault
    /\ Enter("wallet")
    /\ UNCHANGED chain

\* Variant: the signature counts as success, nothing is confirmed.
ApproveUnconfirmed ==
    /\ sub = "wallet"
    /\ flying' = flying \union {Current}
    /\ \/ /\ stage = "config" /\ stage' = "pool" /\ sub' = "balance"
          /\ UNCHANGED <<result, shown>>
       \/ /\ stage = "pool" /\ stage' = "idle" /\ sub' = "none"
          /\ result' = attempt /\ shown' = shown \union {attempt}
    /\ UNCHANGED <<balance, configs, pools, attempt, error, faults>>

Approve ==
    /\ sub = "wallet"
    /\ flying' = flying \union {Current}
    /\ Enter("confirm")
    /\ UNCHANGED <<balance, configs, pools, faults>>

\* The user declines, or the wallet refuses to send.
Reject ==
    /\ sub = "wallet"
    /\ Throw("other")
    /\ UNCHANGED <<chain, faults>>

\* Confirmed: on to the pool, or show the result.
Confirm ==
    /\ sub = "confirm" /\ Landed(Current)
    /\ \/ /\ stage = "config" /\ stage' = "pool" /\ sub' = "balance"
          /\ UNCHANGED <<result, shown>>
       \/ /\ stage = "pool" /\ stage' = "idle" /\ sub' = "none"
          /\ result' = attempt /\ shown' = shown \union {attempt}
    /\ UNCHANGED <<chain, attempt, error, faults>>

\* Variant: gives up on a timer while the transaction can still land.
ConfirmTimer ==
    /\ sub = "confirm" /\ ~Landed(Current)
    /\ Throw("other")
    /\ UNCHANGED <<chain, faults>>

\* Variant: the last valid block height is not watched.
ConfirmUnwatched == FALSE /\ UNCHANGED vars

\* lastValidBlockHeight has passed, or the transaction failed on chain.
ConfirmFailed ==
    /\ sub = "confirm" /\ ~Landed(Current) /\ Current \notin flying
    /\ Throw(IF balance < Cost(Current) THEN "funds" ELSE "other")
    /\ UNCHANGED <<chain, faults>>

\* The RPC fails while confirming; the transaction may land all the same.
ConfirmError ==
    /\ sub = "confirm" /\ Fault
    /\ Throw("other")
    /\ UNCHANGED chain

Land(t) ==
    /\ t \in flying /\ Executable(t)
    /\ flying' = flying \ {t} /\ balance' = balance - Cost(t)
    /\ configs' = IF t.kind = "config" THEN configs \union {t.attempt} ELSE configs
    /\ pools'   = IF t.kind = "pool" THEN pools \union {t.attempt} ELSE pools
    /\ UNCHANGED <<page, faults>>

Expire(t) ==
    /\ t \in flying /\ flying' = flying \ {t}
    /\ UNCHANGED <<balance, configs, pools, page, faults>>

Page  == CheckBalance \/ Simulate \/ Approve \/ Reject \/ Confirm \/ ConfirmFailed
Rpc   == CheckError \/ SimulateHiccup \/ ConfirmError
Chain == \E t \in [kind : Kind, attempt : Attempt] : Land(t) \/ Expire(t)

Next == Click \/ Page \/ Rpc \/ Chain

Spec == Init /\ [][Next]_vars

\* The page's code runs on, the user answers the wallet's prompt one way or the
\* other, and a transaction lands or expires.
FairSpec == Spec /\ WF_vars(Page) /\ WF_vars(Chain)

-----------------------------------------------------------------------------
TypeOK ==
    /\ attempt \in 0..Attempts /\ stage \in Kind \union {"idle"}
    /\ sub \in {"none", "balance", "simulate", "wallet", "confirm"}
    /\ stage = "idle" <=> sub = "none"
    /\ balance \in Nat /\ configs \subseteq Attempt /\ pools \subseteq Attempt
    /\ flying \subseteq [kind : Kind, attempt : Attempt]
    /\ result \in 0..Attempts /\ shown \subseteq Attempt
    /\ error \in {"none", "funds", "other"} /\ faults \in 0..Faults

\* What the page shows as launched is on chain, config and pool.
ResultIsLaunched == result # 0 => result \in configs /\ result \in pools

\* As long as the RPC answers, no token is launched behind an error message: every
\* pool that exists or may still come to exist was shown, or is the one in progress.
UnshownPoolNeedsFault ==
    \A n \in Attempt \ shown :
        n \in pools \/ TxOf("pool", n) \in flying
            => faults > 0 \/ (n = attempt /\ stage = "pool")

\* Every attempt ends: with a result or with an error.
AttemptEnds == stage # "idle" ~> stage = "idle"

\* minLamports makes sendWithPreflight "refuse early" a wallet that has too little:
\* having passed the first check, a launch does not stop for lack of SOL.  This does not
\* hold: the check of the first transaction does not count what the second one costs.
RefusedEarlyOrNever == error = "funds" => attempt \notin configs
=============================================================================
