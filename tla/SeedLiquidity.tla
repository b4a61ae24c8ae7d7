----------------------------- MODULE SeedLiquidity -----------------------------
(***************************************************************************)
(* studio/src/lib/dlmm/index.ts, seedLiquidityLfg: seed a launch pool in   *)
(* three stages.  A preflight transaction proves that the position owner   *)
(* holds the token; the transactions that create bin arrays and positions  *)
(* are sent all at once (Promise.all); the deposits are then sent one by   *)
(* one, each confirmed before the next.  A failed promise ends the         *)
(* command while the other transactions are still on their way, and the    *)
(* operator may run it again.                                              *)
(*                                                                         *)
(* The SDK decides which transactions there are; the chain and the         *)
(* program are external.                                                   *)
(***************************************************************************)
EXTENDS Integers, FiniteSets

CONSTANTS
    Inits,              \* groups of initializeBinArraysAndPosition instructions
    Adds,               \* groups of addLiquidity instructions
    Runs,               \* runs of the command, at most
    Faults              \* RPC failures, at most

SeedLiquidityConstants ==
    /\ Inits \in Nat /\ Adds \in Nat /\ Runs \in Nat /\ Faults \in Nat

InitGroup == 1..Inits
AddGroup  == 1..Adds
Prove(r)  == [kind |-> "prove", n |-> 0, run |-> r]
InitTx(n, r) == [kind |-> "init", n |-> n, run |-> r]
AddTx(n, r)  == [kind |-> "add", n |-> n, run |-> r]
Txs(r) == {Prove(r)} \union {InitTx(n, r) : n \in InitGroup} \union {AddTx(n, r) : n \in AddGroup}

VARIABLES
    seedOwner,          \* seedTokenXToPositionOwner
    dryRun,             \* config.dryRun of this run
    pc,                 \* "idle", "prove", "init", "add", "done", "threw"
    run,                \* runs so far
    todo,               \* init groups the SDK returned to this run
    next,               \* the deposit the loop is at
    awaited,            \* transactions whose confirmation is awaited
    sent,               \* every transaction handed to the RPC node
    flying,             \* those that may still land
    landed,             \* those that took effect
    proved,             \* on chain: the owner holds the token
    faults

chainVars == <<sent, flying, landed, proved>>
vars == <<seedOwner, dryRun, pc, run, todo, next, awaited, chainVars, faults>>

\* The groups whose positions exist, and the deposits made, <<run, group>> each.
Inited   == {t.n : t \in {u \in landed : u.kind = "init"}}
Deposits == {<<t.run, t.n>> : t \in {u \in landed : u.kind = "add"}}

\* External: the program wants the owner's token, then every position.
Executable(t) == CASE t.kind = "prove" -> TRUE
                   [] t.kind = "init"  -> proved /\ t.n \notin Inited
                   [] t.kind = "add"   -> Inited = InitGroup

-----------------------------------------------------------------------------
Init ==
    /\ seedOwner \in BOOLEAN /\ dryRun = FALSE /\ pc = "idle" /\ run = 0
    /\ todo = {} /\ next = 1 /\ awaited = {}
    /\ sent = {} /\ flying = {} /\ landed = {} /\ proved \in BOOLEAN
    /\ faults = 0

\* dlmmInstance.seedLiquidity: whether it leaves out groups that exist is its affair.
Build ==
    /\ pc \in {"idle", "threw"} /\ run < Runs
    /\ run' = run + 1 /\ dryRun' \in BOOLEAN
    /\ todo' \in {InitGroup, InitGroup \ Inited}
    /\ next' = 1
    /\ pc' = IF seedOwner /\ ~proved THEN "prove" ELSE "init"
    /\ UNCHANGED <<seedOwner, awaited, chainVars, faults>>

Submit(txs) ==
    /\ awaited' = txs /\ sent' = sent \union txs /\ flying' = flying \union txs
    /\ UNCHANGED <<landed, proved>>

Throw ==
    /\ pc' = "threw" /\ awaited' = {}

\* The only place where dryRun is looked at.
DryRunRefused ==
    /\ pc = "prove" /\ dryRun
    /\ Throw
    /\ UNCHANGED <<seedOwner, dryRun, run, todo, next, chainVars, faults>>

SendProve ==
    /\ pc = "prove" /\ ~dryRun /\ awaited = {} /\ Prove(run) \notin sent
    /\ Submit({Prove(run)})
    /\ UNCHANGED <<seedOwner, dryRun, pc, run, todo, next, faults>>

\* All of them at once, after the preflight's confirmation; Promise.all awaits them.
SendInits ==
    /\ awaited = {}
    /\ \/ pc = "init"
       \/ pc = "prove" /\ Prove(run) \in sent
    /\ Submit({InitTx(n, run) : n \in todo})
    /\ pc' = "add"
    /\ UNCHANGED <<seedOwner, dryRun, run, todo, next, faults>>

\* Variant: one confirmed position is enough to start.
SendAddAny ==
    /\ pc = "add" /\ next <= Adds
    /\ awaited = {} \/ awaited \intersect landed # {}
    /\ Submit({AddTx(next, run)})
    /\ next' = next + 1
    /\ UNCHANGED <<seedOwner, dryRun, pc, run, todo, faults>>

\* Variant: the deposits are not awaited one by one.
SendAddTogether ==
    /\ pc = "add" /\ next <= Adds /\ awaited \subseteq {AddTx(n, run) : n \in AddGroup}
    /\ awaited' = awaited \union {AddTx(next, run)}
    /\ sent' = sent \union {AddTx(next, run)} /\ flying' = flying \union {AddTx(next, run)}
    /\ next' = next + 1
    /\ UNCHANGED <<seedOwner, dryRun, pc, run, todo, landed, proved, faults>>

\* Variant: the loop's bound is off by one.
SendAddPastEnd ==
    /\ pc = "add" /\ next <= Adds + 1 /\ awaited = {}
    /\ Submit({AddTx(next, run)})
    /\ next' = next + 1
    /\ UNCHANGED <<seedOwner, dryRun, pc, run, todo, faults>>

\* The next deposit, once everything sent so far is confirmed.
SendAdd ==
    /\ pc = "add" /\ next <= Adds /\ awaited = {}
    /\ Submit({AddTx(next, run)})
    /\ next' = next + 1
    /\ UNCHANGED <<seedOwner, dryRun, pc, run, todo, faults>>

\* Variant: the last deposit is not awaited.
FinishEarly ==
    /\ pc = "add" /\ next > Adds
    /\ pc' = "done" /\ awaited' = {}
    /\ UNCHANGED <<seedOwner, dryRun, run, todo, next, chainVars, faults>>

Finish ==
    /\ pc = "add" /\ next > Adds /\ awaited = {}
    /\ pc' = "done"
    /\ UNCHANGED <<seedOwner, dryRun, run, todo, next, awaited, chainVars, faults>>

Confirmed(t) ==
    /\ t \in awaited \intersect landed
    /\ awaited' = awaited \ {t}
    /\ UNCHANGED <<seedOwner, dryRun, pc, run, todo, next, chainVars, faults>>

\* Variant: expiry is not watched.
FailedUnseen(t) == t \in awaited /\ FALSE /\ UNCHANGED vars

\* Refused, failed on chain or expired: the first rejection ends the command.
Failed(t) ==
    /\ t \in awaited \ (landed \union flying)
    /\ Throw
    /\ UNCHANGED <<seedOwner, dryRun, run, todo, next, chainVars, faults>>

\* A request to the RPC node fails, that for a blockhash or that for a confirmation.
RpcError ==
    /\ pc \in {"prove", "init", "add"} /\ faults < Faults /\ faults' = faults + 1
    /\ Throw
    /\ UNCHANGED <<seedOwner, dryRun, run, todo, next, chainVars>>

-----------------------------------------------------------------------------
Land(t) ==
    /\ t \in flying /\ Executable(t)
    /\ flying' = flying \ {t} /\ landed' = landed \union {t}
    /\ proved' = (proved \/ t.kind = "prove")
    /\ UNCHANGED <<seedOwner, dryRun, pc, run, todo, next, awaited, sent, faults>>

Drop(t) ==
    /\ t \in flying /\ flying' = flying \ {t}
    /\ UNCHANGED <<seedOwner, dryRun, pc, run, todo, next, awaited, sent, landed, proved,
                   faults>>

Client == \/ DryRunRefused \/ SendProve \/ SendInits \/ SendAdd \/ Finish
          \/ \E t \in awaited : Confirmed(t) \/ Failed(t)
Chain  == \E t \in flying : Land(t) \/ Drop(t)

Next == Client \/ Chain \/ Build \/ RpcError

Spec == Init /\ [][Next]_vars

\* The command runs on; a transaction lands or its blockhash expires.
FairSpec == Spec /\ WF_vars(Client) /\ WF_vars(Chain)

-----------------------------------------------------------------------------
AllTxs == UNION {Txs(r) : r \in 1..Runs}

TypeOK ==
    /\ seedOwner \in BOOLEAN /\ dryRun \in BOOLEAN
    /\ pc \in {"idle", "prove", "init", "add", "done", "threw"}
    /\ run \in 0..Runs /\ todo \subseteq InitGroup /\ next \in 1..(Adds + 1)
    /\ awaited \subseteq sent /\ sent \subseteq AllTxs /\ flying \subseteq sent
    /\ landed \subseteq sent \ flying /\ proved \in BOOLEAN /\ faults \in 0..Faults

\* A stage starts when the one before it is on chain: no deposit is sent before every
\* position it may go to exists, although the positions are created concurrently and
\* some by an earlier, failed run; and when the command seeds the owner's token itself,
\* nothing is created before it is there.
StagesInOrder ==
    /\ \A t \in flying : t.kind = "add" => Inited = InitGroup
    /\ seedOwner => \A t \in flying : t.kind # "prove" => proved

\* The deposits of a run land in order and without a gap, late ones included, so that
\* after a failure at most the one that was awaited is in doubt.
DepositsInOrder ==
    \A d \in Deposits : \A n \in AddGroup : n < d[2] => <<d[1], n>> \in Deposits

\* "Finished" means that every deposit of this run is on chain.
DoneMeansSeeded == pc = "done" => \A n \in AddGroup : <<run, n>> \in Deposits

Underway == pc \in {"prove", "init", "add"}
Ended    == pc \in {"done", "threw"}

\* Whatever becomes of its transactions, a run ends.
RunEnds == Underway ~> Ended

\* "If true, transactions will be simulated and not executed."
DryRunSendsNothing == \A t \in sent : t.run = run => ~dryRun
=============================================================================
