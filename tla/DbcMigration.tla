----------------------------- MODULE DbcMigration -----------------------------
(***************************************************************************)
(* studio/src/lib/dbc/index.ts, migrateDammV1 and migrateDammV2: graduate  *)
(* a bonding-curve pool, then (DAMM v1) claim and lock the LP tokens of    *)
(* its creator and of its partner.  A run snapshots the pool once, looks   *)
(* at the other accounts later, and sends one transaction at a time; the   *)
(* migration is permissionless, so another operator or a keeper may land   *)
(* the same transactions in between, and the creator role can be           *)
(* transferred (transferDbcPoolCreator).                                   *)
(*                                                                         *)
(* The on-chain program is external: a transaction has the preconditions   *)
(* and the effect that the order of the code and its checks rely on.       *)
(* The configurations that a migrated pool may have exist on the cluster:  *)
(* what migrateDammV2 does on a local validator without them (it makes one *)
(* of its own, at another address and in a dry run too) is left out.       *)
(***************************************************************************)
EXTENDS Integers, Sequences, FiniteSets

CONSTANTS
    Operators,          \* concurrent runs of the command
    DryRun,             \* the values of config.dryRun an operator may use
    Keepers,            \* TRUE: others may land migration transactions too
    Faults,             \* lost confirmations and killed runs, at most
    Transfers           \* transfers of the creator role, at most

ASSUME DbcMigrationAssumption ==
    /\ DryRun \subseteq BOOLEAN /\ Keepers \in BOOLEAN
    /\ Faults \in Nat /\ Transfers \in Nat

Role  == {"creator", "partner"}
Op(o) == [op |-> o, role |-> "any"]
Claim(r) == [op |-> "claim", role |-> r]
Lock(r)  == [op |-> "lock", role |-> r]
Txs == {Op("metadata"), Op("locker"), Op("migrate")}
         \union {Claim(r) : r \in Role} \union {Lock(r) : r \in Role}

VARIABLES
    pool,               \* how the pool was set up: version, vesting, LP shares
    ready,              \* quoteReserve has reached migrationQuoteThreshold
    same,               \* the creator and the partner are the same address
    metadata, locker, migrated,     \* what exists on chain
    claimed, locked,    \* roles whose claim / lock status is set
    pc, dry, seen,      \* per operator: where, config.dryRun, pool snapshot
    queue,              \* per operator: transactions still to be sent
    report,             \* per operator: how the last run ended
    ghosts,             \* transactions whose confirmation was lost, may yet land
    alone,              \* nobody but one live run has touched anything
    faults, transfers   \* budgets spent

chain  == <<metadata, locker, migrated, claimed, locked>>
setup  == <<pool, ready, same>>
local  == <<pc, dry, seen, queue, report>>
budget == <<faults, transfers>>
vars   == <<setup, chain, local, ghosts, alone, budget>>

Pools == [v1 : BOOLEAN, vesting : BOOLEAN, claimable : SUBSET Role, lockable : SUBSET Role]

Init ==
    /\ pool \in {p \in Pools : p.v1 \/ (p.claimable = {} /\ p.lockable = {})}
    /\ ready = FALSE /\ same \in BOOLEAN
    /\ metadata = FALSE /\ locker = FALSE /\ migrated = FALSE
    /\ claimed = {} /\ locked = {}
    /\ pc = [o \in Operators |-> "idle"] /\ dry = [o \in Operators |-> FALSE]
    /\ seen = [o \in Operators |-> [migrated |-> FALSE, same |-> FALSE]]
    /\ queue = [o \in Operators |-> <<>>] /\ report = [o \in Operators |-> "none"]
    /\ ghosts = {} /\ alone = TRUE /\ faults = 0 /\ transfers = 0

-----------------------------------------------------------------------------
(* The program. *)

\* The roles a claim or a lock by role r settles: both, when one address holds both.
Beneficiaries(r) == IF same THEN Role ELSE {r}

Applicable(t) ==
    /\ ready
    /\ t.op = "metadata" => pool.v1 /\ ~metadata
    /\ t.op = "locker"   => pool.vesting /\ ~locker
    /\ t.op = "migrate"  => ~migrated /\ (pool.v1 => metadata) /\ (pool.vesting => locker)
    /\ t.op = "claim" =>
         migrated /\ t.role \notin claimed /\ Beneficiaries(t.role) \intersect pool.claimable # {}
    /\ t.op = "lock" =>
         migrated /\ t.role \notin locked /\ Beneficiaries(t.role) \intersect pool.lockable # {}

Apply(t) ==
    /\ Applicable(t)
    /\ metadata' = (metadata \/ t.op = "metadata")
    /\ locker'   = (locker \/ t.op = "locker")
    /\ migrated' = (migrated \/ t.op = "migrate")
    /\ claimed'  = claimed \union (IF t.op = "claim" THEN Beneficiaries(t.role) ELSE {})
    /\ locked'   = locked  \union (IF t.op = "lock"  THEN Beneficiaries(t.role) ELSE {})

-----------------------------------------------------------------------------
(* One run of the command. *)

\* Variant: the array of transactions is not emptied.
EndKeepsQueue(o, outcome) ==
    /\ pc' = [pc EXCEPT ![o] = "idle"] /\ report' = [report EXCEPT ![o] = outcome]
    /\ UNCHANGED queue

End(o, outcome) ==
    /\ pc' = [pc EXCEPT ![o] = "idle"] /\ report' = [report EXCEPT ![o] = outcome]
    /\ queue' = [queue EXCEPT ![o] = <<>>]

\* The pool account is read once; every later use of poolState is of this snapshot.
ReadPool(o) ==
    /\ pc[o] = "idle" /\ (report[o] = "done" => dry[o])
    /\ \E d \in DryRun : dry' = [dry EXCEPT ![o] = d]
    /\ seen' = [seen EXCEPT ![o] = [migrated |-> migrated, same |-> same]]
    /\ IF ready THEN /\ pc' = [pc EXCEPT ![o] = "plan"]
                     /\ report' = [report EXCEPT ![o] = "none"]
                     /\ UNCHANGED queue
                ELSE End(o, "threw")
    /\ UNCHANGED <<setup, chain, ghosts, alone, budget>>

When(c, t) == IF c THEN <<t>> ELSE <<>>

\* Variant: the migration goes first.
SetupTxsMigrateFirst(s) ==
    When(pool.v1 /\ ~metadata, Op("metadata"))
      \o When(~s.migrated, Op("migrate"))
      \o When(pool.vesting /\ ~locker, Op("locker"))

\* Variant: the locker is left to somebody else.
SetupTxsNoLocker(s) ==
    When(pool.v1 /\ ~metadata, Op("metadata")) \o When(~s.migrated, Op("migrate"))

\* The metadata account (v1), the vesting locker and the migration, as missing.
SetupTxs(s) ==
    When(pool.v1 /\ ~metadata, Op("metadata"))
      \o When(pool.vesting /\ ~locker, Op("locker"))
      \o When(~s.migrated, Op("migrate"))

Plan(o) ==
    /\ pc[o] = "plan"
    /\ queue' = [queue EXCEPT ![o] = SetupTxs(seen[o])]
    /\ pc' = [pc EXCEPT ![o] = "setup"]
    /\ UNCHANGED <<setup, chain, dry, seen, report, ghosts, alone, budget>>

\* Variant: a combined claim is due when the creator has something to claim.
DueCreatorOnly(s, shares, settled) ==
    IF s.same THEN IF "creator" \in shares /\ settled = {} THEN <<"creator">> ELSE <<>>
    ELSE When("creator" \in shares \ settled, "creator")
           \o When("partner" \in shares \ settled, "partner")

\* The roles whose share is taken, in order: one combined transaction when creator
\* and partner are the same address, and only if neither has been taken yet.
Due(s, shares, settled) ==
    IF s.same THEN When(shares # {} /\ settled = {}, "creator")
    ELSE When("creator" \in shares \ settled, "creator")
           \o When("partner" \in shares \ settled, "partner")

LpTxs(s) ==
    LET claims == Due(s, pool.claimable, claimed)
        locks  == Due(s, pool.lockable, locked)
    IN  [i \in 1..Len(claims) |-> Claim(claims[i])] \o [i \in 1..Len(locks) |-> Lock(locks[i])]

\* Setup is through: v2 is done; v1 fetches the metadata account again and plans
\* the LP transactions, unless this is a dry run on a pool that is not migrated.
PlanLp(o) ==
    /\ pc[o] = "setup" /\ queue[o] = <<>>
    /\ \/ ~pool.v1 /\ End(o, "done")
       \/ pool.v1 /\ ~metadata /\ End(o, IF dry[o] THEN "skipped" ELSE "threw")
       \/ /\ pool.v1 /\ metadata /\ dry[o] /\ ~seen[o].migrated
          /\ End(o, "skipped")
       \/ /\ pool.v1 /\ metadata /\ (~dry[o] \/ seen[o].migrated)
          /\ IF LpTxs(seen[o]) = <<>> THEN End(o, "done")
             ELSE /\ queue' = [queue EXCEPT ![o] = LpTxs(seen[o])]
                  /\ pc' = [pc EXCEPT ![o] = "lp"]
                  /\ UNCHANGED report
    /\ UNCHANGED <<setup, chain, dry, seen, ghosts, alone, budget>>

\* The transaction at the head of the queue is through; the last LP one ends the run.
Pop(o) ==
    IF pc[o] = "lp" /\ Len(queue[o]) = 1 THEN End(o, "done")
    ELSE queue' = [queue EXCEPT ![o] = Tail(@)] /\ UNCHANGED <<pc, report>>

Send(o) ==
    /\ pc[o] \in {"setup", "lp"} /\ queue[o] # <<>> /\ ~dry[o]
    /\ Apply(Head(queue[o]))
    /\ Pop(o)
    /\ alone' = (alone /\ \A p \in Operators \ {o} : pc[p] = "idle")
    /\ UNCHANGED <<setup, dry, seen, ghosts, budget>>

Simulate(o) ==
    /\ pc[o] \in {"setup", "lp"} /\ queue[o] # <<>> /\ dry[o]
    /\ Applicable(Head(queue[o]))
    /\ Pop(o)
    /\ UNCHANGED <<setup, chain, dry, seen, ghosts, alone, budget>>

\* The program refuses the transaction, in the simulation or on sending: throw.
Refused(o) ==
    /\ pc[o] \in {"setup", "lp"} /\ queue[o] # <<>>
    /\ ~Applicable(Head(queue[o]))
    /\ End(o, "threw")
    /\ UNCHANGED <<setup, chain, dry, seen, ghosts, alone, budget>>

\* The confirmation is lost: the command throws, the transaction may still land.
Unconfirmed(o) ==
    /\ pc[o] \in {"setup", "lp"} /\ queue[o] # <<>> /\ ~dry[o]
    /\ faults < Faults /\ faults' = faults + 1
    /\ ghosts' = ghosts \union {Head(queue[o])}
    /\ End(o, "threw")
    /\ alone' = FALSE
    /\ UNCHANGED <<setup, chain, dry, seen, transfers>>

Kill(o) ==
    /\ pc[o] # "idle"
    /\ faults < Faults /\ faults' = faults + 1
    /\ End(o, "none")
    /\ UNCHANGED <<setup, chain, dry, seen, ghosts, alone, transfers>>

-----------------------------------------------------------------------------
(* Everybody else. *)

LandLate(t) ==
    /\ t \in ghosts /\ ghosts' = ghosts \ {t}
    /\ \/ Apply(t)
       \/ UNCHANGED chain
    /\ UNCHANGED <<setup, local, alone, budget>>

Keeper(t) ==
    /\ Keepers /\ Apply(t)
    /\ alone' = FALSE
    /\ UNCHANGED <<setup, local, ghosts, budget>>

\* The curve's quote reserve reaches the threshold.
Graduate ==
    /\ ~ready /\ ready' = TRUE
    /\ UNCHANGED <<pool, same, chain, local, ghosts, alone, budget>>

\* The command transferDbcPoolCreator has no condition on the pool's state.
TransferPoolCreator ==
    /\ transfers < Transfers /\ transfers' = transfers + 1
    /\ same' \in BOOLEAN
    /\ alone' = FALSE
    /\ UNCHANGED <<pool, ready, chain, local, ghosts, faults>>

Step(o) == ReadPool(o) \/ Plan(o) \/ PlanLp(o) \/ Send(o) \/ Simulate(o) \/ Refused(o)

Next ==
    \/ \E o \in Operators : Step(o) \/ Unconfirmed(o) \/ Kill(o)
    \/ \E t \in Txs : LandLate(t) \/ Keeper(t)
    \/ Graduate \/ TransferPoolCreator

Spec     == Init /\ [][Next]_vars
FairSpec == Spec /\ \A o \in Operators : WF_vars(Step(o))

-----------------------------------------------------------------------------
TypeOK ==
    /\ pool \in Pools /\ ready \in BOOLEAN /\ same \in BOOLEAN
    /\ metadata \in BOOLEAN /\ locker \in BOOLEAN /\ migrated \in BOOLEAN
    /\ claimed \subseteq Role /\ locked \subseteq Role
    /\ pc \in [Operators -> {"idle", "plan", "setup", "lp"}]
    /\ dry \in [Operators -> BOOLEAN]
    /\ seen \in [Operators -> [migrated : BOOLEAN, same : BOOLEAN]]
    /\ \A o \in Operators :
          /\ Len(queue[o]) <= 4 /\ \A i \in DOMAIN queue[o] : queue[o][i] \in Txs
          /\ pc[o] = "idle" => queue[o] = <<>>
    /\ report \in [Operators -> {"none", "done", "threw", "skipped"}]
    /\ ghosts \subseteq Txs /\ alone \in BOOLEAN
    /\ faults \in 0..Faults /\ transfers \in 0..Transfers

Graduated == migrated /\ (pool.vesting => locker)

Complete ==
    /\ Graduated
    /\ pool.claimable \subseteq claimed /\ pool.lockable \subseteq locked

\* A live run that ends well leaves nothing to migrate nor, unless the creator role was
\* transferred meanwhile, to claim or lock, whoever else was sending the same
\* transactions and however stale its snapshot was.
DoneMeansComplete ==
    \A o \in Operators :
        report[o] = "done" /\ ~dry[o] => Graduated /\ (transfers = 0 => Complete)

\* The order of a run's transactions meets the program's preconditions: with no
\* interference, a run on a graduated pool is never refused.
LoneRunNeverRefused ==
    \A o \in Operators :
        alone /\ ~dry[o] /\ pc[o] \in {"setup", "lp"} /\ queue[o] # <<>>
            => Applicable(Head(queue[o]))

\* Going live and re-running after throws, lost confirmations, kills and others'
\* transactions gets the job done; transfers of the creator role do not keep it from
\* graduating the pool.
Converges ==
    <>[](\A o \in Operators : ~dry[o])
        => (ready ~> (Complete \/ (transfers > 0 /\ Graduated)))

\* When a run says "LP tokens already claimed for creator+partner", they are.  This does
\* not hold after a transfer of the creator role.
AlreadyClaimedIsTrue ==
    \A o \in Operators :
        /\ pc[o] = "setup" /\ queue[o] = <<>> /\ pool.v1 /\ metadata /\ migrated
        /\ seen[o].same /\ pool.claimable # {} /\ claimed # {}
        => pool.claimable \subseteq claimed

\* The dry-run branch after the setup transactions says that reaching it without a
\* metadata account is expected; a dry run on a graduated v1 pool therefore gets there.
\* This does not hold.
DryRunReachesEnd ==
    \A o \in Operators :
        pool.v1 /\ dry[o] /\ ready /\ alone /\ pc[o] = "setup" /\ queue[o] # <<>>
        => Applicable(Head(queue[o]))
=============================================================================
