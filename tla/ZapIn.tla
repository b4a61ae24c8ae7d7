--------------------------------- MODULE ZapIn ---------------------------------
(***************************************************************************)
(* studio/src/lib/zap/index.ts, zapInDammV2 and zapInDlmm: deposit one     *)
(* token into a pool position through an ordered bundle of transactions,   *)
(* and what the operator does when the bundle aborts.  The bundle is sent  *)
(* by sendOrderedTransactions, used here through OrderedChain.             *)
(*                                                                         *)
(* A transaction of the bundle is the sequence of SDK operations merged    *)
(* into it: "create" (an empty DAMM v2 position), "setup" (wrap SOL,       *)
(* create ATAs), "swap" (rebalance), "ledger", "zapIn" (the deposit) and   *)
(* "cleanUp".  Which operation reads what another creates is external.     *)
(***************************************************************************)
EXTENDS Integers, Sequences, FiniteSets

CONSTANTS
    MaxSteps,           \* transactions in the longest bundle
    MaxRuns,            \* times the operator runs the command
    MaxSwaps,           \* rebalancing swaps in a DLMM bundle
    Patience            \* does the operator wait until nothing is in flight?

ZapInConstants ==
    /\ MaxSteps \in Nat /\ MaxRuns \in Nat \ {0} /\ MaxSwaps \in Nat
    /\ MaxSteps >= MaxSwaps + 4 /\ Patience \subseteq BOOLEAN

VARIABLES
    work, landed, verdict, late,    \* the bundle: OrderedChain
    steps,              \* the transactions of the bundle, in order
    deferred,           \* the steps marked dependsOnPriorStep
    target,             \* the position the bundle deposits into
    protocol,           \* "dammV2" or "dlmm"
    patient,            \* the operator's habit, from Patience
    phase,              \* "choose", "sent", "inspect", "satisfied"
    run,                \* runs started so far; also names the run's keypair
    positions,          \* on chain: positions that exist
    deposits,           \* on chain: the deposits, <<run, position, step>> each
    open,               \* on chain: the wallet's temporary accounts, not yet closed
    ghosts,             \* transactions of earlier bundles that may still land
    reported            \* the recovery address of the abort message

bundleVars == <<work, landed, verdict, late, steps, deferred, target>>
setting    == <<protocol, patient>>
chainVars  == <<positions, deposits, open>>
vars == <<bundleVars, setting, phase, run, chainVars, ghosts, reported>>

B == INSTANCE OrderedChain WITH N <- MaxSteps

Runs     == 1..MaxRuns
Old      == 0                       \* a position the wallet held beforehand
Position == {Old} \union Runs
NoPosition == -1

-----------------------------------------------------------------------------
(* The bundles *)

Optional(has, op) == IF has THEN <<op>> ELSE <<>>
Swaps(n)          == [i \in 1..n |-> <<"swap">>]
Tail3             == <<<<"ledger">>, <<"zapIn">>, <<"cleanUp">>>>

\* Variant: the ledger goes with the clean-up, after the deposit.
DammV2StepsLateLedger(new, hasSetup) ==
    <<Optional(new, "create") \o Optional(hasSetup, "setup"),
      <<"zapIn">>, <<"ledger", "cleanUp">>>>

\* buildDammV2ZapInSteps: everything before the deposit in one transaction.  The direct
\* route never has swaps, so the steps for a bundle with swaps are never built.
DammV2Steps(new, hasSetup) ==
    <<Optional(new, "create") \o Optional(hasSetup, "setup") \o <<"ledger">>,
      <<"zapIn">>, <<"cleanUp">>>>

\* Variant: no clean-up unless something was set up.
DlmmStepsCleanSetupOnly(hasSetup, n) ==
    IF n = 0
    THEN <<Optional(hasSetup, "setup") \o <<"ledger">>, <<"zapIn">>>>
            \o Optional(hasSetup, <<"cleanUp">>)
    ELSE Optional(hasSetup, <<"setup">>) \o Swaps(n) \o Tail3

\* buildDlmmZapInSteps: merged without swaps, separate with them.
DlmmSteps(hasSetup, n) ==
    IF n = 0
    THEN <<Optional(hasSetup, "setup") \o <<"ledger">>, <<"zapIn">>, <<"cleanUp">>>>
    ELSE Optional(hasSetup, <<"setup">>) \o Swaps(n) \o Tail3

\* Variant: the mark goes to the step after.
DeferredNext(s) == {i + 1 : i \in {j \in DOMAIN s : s[j] \in {<<"zapIn">>, <<"cleanUp">>}}}

\* The dependsOnPriorStep marks: every swap but the first, and what follows a
\* separate set-up; a merged first transaction carries none.
Deferred(s) ==
    {i \in DOMAIN s : \/ s[i] \in {<<"zapIn">>, <<"cleanUp">>}
                      \/ s[i] = <<"ledger">> /\ i > 1
                      \/ s[i] = <<"swap">> /\ \E j \in 1..(i - 1) : s[j] = <<"swap">>}

\* External: the operations whose accounts an operation reads.
Reads(op) == CASE op = "zapIn"   -> {"create", "setup", "ledger"}
               [] op = "cleanUp" -> {"setup", "ledger"}
               [] op = "swap"    -> {"setup"}
               [] OTHER          -> {}

OpsOf(s, i) == {s[i][k] : k \in DOMAIN s[i]}
Needs(s, i) == {j \in 1..(i - 1) :
                   \E op \in OpsOf(s, i) : OpsOf(s, j) \intersect Reads(op) # {}}

-----------------------------------------------------------------------------
Init ==
    /\ protocol \in {"dammV2", "dlmm"} /\ patient \in Patience
    /\ work = {} /\ landed = {} /\ verdict = "stopped" /\ late = FALSE
    /\ steps = <<>> /\ deferred = {} /\ target = NoPosition
    /\ phase = "choose" /\ run = 0
    /\ positions \in SUBSET {Old} /\ deposits = {} /\ open = {}
    /\ ghosts = {} /\ reported = NoPosition

\* What may still land of the bundle being abandoned.
Leftover ==
    IF late THEN {[ops |-> steps[i], target |-> target, run |-> run, step |-> i] :
                    i \in {s \in work \ landed : \A r \in work : r < s => r \in landed}}
            ELSE {}

\* The command builds a fresh bundle: nothing of an earlier run is reused.
Start(s, t) ==
    /\ phase = "choose" /\ run < MaxRuns
    /\ run' = run + 1
    /\ steps' = s /\ deferred' = Deferred(s) /\ target' = t
    /\ work' = DOMAIN s /\ landed' = {} /\ verdict' = "running" /\ late' = FALSE
    /\ ghosts' = ghosts \union Leftover
    /\ phase' = "sent"
    /\ UNCHANGED <<setting, chainVars, reported>>

\* positionMode "new": a throwaway keypair names the position.  An operator told
\* about an aborted run takes this mode only if the position reported is not there.
ZapInDammV2New ==
    /\ protocol = "dammV2" /\ reported \notin positions
    /\ \E setup \in BOOLEAN : Start(DammV2Steps(TRUE, setup), run + 1)

\* positionMode "existing": the wallet must hold a position; the only one is taken,
\* of several the operator picks, and picks the one the abort message named.
ZapInDammV2Existing ==
    /\ protocol = "dammV2" /\ positions # {}
    /\ run = 0 \/ reported \in positions
    /\ \E t \in positions :
          /\ run > 0 => t = reported
          /\ \E setup \in BOOLEAN : Start(DammV2Steps(FALSE, setup), t)

\* Always a new position, initialized by the deposit itself.
ZapInDlmm ==
    /\ protocol = "dlmm"
    /\ \E setup \in BOOLEAN, n \in 0..MaxSwaps : Start(DlmmSteps(setup, n), run + 1)

-----------------------------------------------------------------------------
(* The chain *)

\* The effect of transaction i of run r, made of ops, depositing into position t.
Tx(ops, t, r, i) ==
    LET has(op) == \E k \in DOMAIN ops : ops[k] = op
    IN  /\ positions' = IF has("create") \/ (protocol = "dlmm" /\ has("zapIn"))
                        THEN positions \union {t} ELSE positions
        /\ deposits'  = IF has("zapIn") THEN deposits \union {<<r, t, i>>} ELSE deposits
        /\ open'      = IF has("cleanUp") THEN {}
                        ELSE open \union {op \in {"setup", "ledger"} : has(op)}

LandNow(i) ==
    /\ B!Land /\ landed' = landed \union {i}
    /\ Tx(steps[i], target, run, i)
    /\ UNCHANGED <<steps, deferred, target, setting, phase, run, ghosts, reported>>

LandGhost(g) ==
    /\ g \in ghosts
    /\ Tx(g.ops, g.target, g.run, g.step)
    /\ ghosts' = ghosts \ {g}
    /\ UNCHANGED <<bundleVars, setting, phase, run, reported>>

ExpireGhost(g) ==
    /\ g \in ghosts
    /\ ghosts' = ghosts \ {g}
    /\ UNCHANGED <<bundleVars, setting, phase, run, chainVars, reported>>

Settle ==
    /\ B!Settle
    /\ UNCHANGED <<steps, deferred, target, setting, phase, run, chainVars, ghosts, reported>>

-----------------------------------------------------------------------------
Finish ==
    /\ phase = "sent" /\ B!Complete
    /\ phase' = "satisfied"
    /\ UNCHANGED <<steps, deferred, target, setting, run, chainVars, ghosts, reported>>

\* The bundle aborts; the message names the position of this run.
Abort ==
    /\ phase = "sent" /\ B!Stop
    /\ phase' = "inspect"
    /\ reported' = target
    /\ UNCHANGED <<steps, deferred, target, setting, run, chainVars, ghosts>>

\* Variant: the guidance printed is that of an idempotent bundle.
InspectNotTold ==
    /\ phase = "inspect"
    /\ patient => ~late /\ ghosts = {}
    /\ phase' = "choose"
    /\ UNCHANGED <<bundleVars, setting, run, chainVars, ghosts, reported>>

\* "Inspect current on-chain state [...] and confirm whether the deposit already
\* landed."  A patient operator first lets the last blockhash expire.
Inspect ==
    /\ phase = "inspect"
    /\ patient => ~late /\ ghosts = {}
    /\ phase' = IF deposits # {} THEN "satisfied" ELSE "choose"
    /\ UNCHANGED <<bundleVars, setting, run, chainVars, ghosts, reported>>

Next ==
    \/ ZapInDammV2New \/ ZapInDammV2Existing \/ ZapInDlmm
    \/ \E i \in 1..MaxSteps : LandNow(i)
    \/ \E g \in ghosts : LandGhost(g) \/ ExpireGhost(g)
    \/ Settle \/ Finish \/ Abort \/ Inspect

Spec == Init /\ [][Next]_vars

-----------------------------------------------------------------------------
TypeOK ==
    /\ work \subseteq 1..MaxSteps /\ landed \subseteq work
    /\ verdict \in {"running", "complete", "stopped"} /\ late \in BOOLEAN
    /\ DOMAIN steps = work /\ deferred \subseteq work
    /\ target \in Position \union {NoPosition} /\ reported \in Position \union {NoPosition}
    /\ protocol \in {"dammV2", "dlmm"} /\ patient \in Patience
    /\ phase \in {"choose", "sent", "inspect", "satisfied"} /\ run \in 0..MaxRuns
    /\ positions \subseteq Position /\ deposits \subseteq Runs \X Position \X (1..MaxSteps)
    /\ open \subseteq {"setup", "ledger"}

\* An operator who lets the last blockhash expire and then follows the abort message
\* makes one deposit and at most one new position in all, however many runs it takes
\* and wherever each of them aborted.
OneDeposit ==
    patient => Cardinality(deposits) <= 1 /\ Cardinality(positions \ {Old}) <= 1

\* The message asks for no patience: "inspect current on-chain state [...] and confirm
\* whether the deposit already landed".  This does not hold.
OneDepositAtOnce == Cardinality(deposits) <= 1

\* When the deposit's turn comes, the ledger it reads and (DAMM v2) the position it
\* fills are on chain, whatever earlier runs and their late transactions did.
DepositReady ==
    \A i \in work \ landed :
        verdict = "running" /\ "zapIn" \in OpsOf(steps, i) /\ {j \in work : j < i} \subseteq landed
            => "ledger" \in open /\ (protocol = "dammV2" => target \in positions)

\* With a patient operator a bundle that runs to its end leaves no temporary account
\* behind, its own or an aborted run's.
CompleteIsClean == patient /\ verdict = "complete" => open = {}

\* Every step that reads what another transaction of the bundle creates is marked, so that a
\* dry run does not blame it: "defer dry-run simulation of whatever depends on it landing for
\* real", as the comment in buildDlmmZapInSteps has it.  This does not hold.
DependentsDeferred == \A i \in work : Needs(steps, i) # {} => i \in deferred
=============================================================================
