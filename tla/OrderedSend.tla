------------------------------ MODULE OrderedSend ------------------------------
(***************************************************************************)
(* studio/src/helpers/transaction.ts, sendOrderedTransactions: one CLI     *)
(* invocation simulates (dry run) or sends (live) an ordered bundle of     *)
(* transactions.  The chain and the RPC node are external: a submitted     *)
(* transaction lands, is dropped or expires in its own time, and the       *)
(* client learns of it through a confirmation that may itself fail.        *)
(*                                                                         *)
(* A step is its position in the bundle.  Its instructions are abstracted  *)
(* to four facts: it has none (bundle.empty), it is marked                 *)
(* dependsOnPriorStep (bundle.deferred), which earlier steps create what   *)
(* it reads (bundle.needs), and whether the program rejects it whatever    *)
(* the state (bundle.bad).  The last two are facts of the chain the code   *)
(* cannot see.                                                             *)
(***************************************************************************)
EXTENDS Integers, FiniteSets

CONSTANT N              \* number of steps in the bundle

ASSUME NAssumption == N \in Nat

Steps == 1..N

VARIABLES
    bundle,             \* the steps parameter and what the chain makes of it
    mode,               \* the dryRun parameter: "dry" or "live"
    pc,                 \* where the invocation is
    cur,                \* the step the loop is at; N + 1 after the last one
    sent,               \* steps submitted to the RPC node
    flying,             \* submitted steps that may still land
    landed,             \* steps whose effects are on chain
    failures,           \* dry run: steps whose simulation failed
    rpcErrors,          \* dry run: those that failed on the way to the node
    dryVerdict,         \* what the last dry run told the operator
    cause,              \* live: why the bundle aborted
    report              \* live: what the abort message claims

vars == <<bundle, mode, pc, cur, sent, flying, landed, failures, rpcErrors,
          dryVerdict, cause, report>>

chainVars == <<sent, flying, landed>>
dryVars   == <<failures, rpcErrors, dryVerdict>>
liveVars  == <<cause, report>>

Bundles == [empty : SUBSET Steps, deferred : SUBSET Steps,
            needs : [Steps -> SUBSET Steps], bad : SUBSET Steps]

\* A step reads only what earlier steps create.
WellFormed(b) == \A s \in Steps : \A r \in b.needs[s] : r < s

NoReport == [landed |-> {}, unsent |-> {}]

\* The runnable steps: those with at least one instruction.
Runnable == Steps \ bundle.empty

\* t is where the loop stands after s: the next runnable step, or past the end.
Follows(s, t) ==
    /\ t \in Runnable \union {N + 1}
    /\ s < t
    /\ \A r \in Runnable : r <= s \/ t <= r

\* The accounts the step reads exist, and the program accepts it.
Executable(s) ==
    /\ s \notin bundle.bad
    /\ bundle.needs[s] \ bundle.empty \subseteq landed

-----------------------------------------------------------------------------
Init ==
    /\ bundle \in Bundles
    /\ WellFormed(bundle)
    /\ mode \in {"dry", "live"}
    /\ pc = "call"
    /\ cur = 0
    /\ sent = {} /\ flying = {} /\ landed = {}
    /\ failures = {} /\ rpcErrors = {} /\ dryVerdict = "none"
    /\ cause = "none" /\ report = NoReport

\* Steps without instructions are filtered out; with none left the call returns.
Call ==
    /\ pc = "call"
    /\ Follows(0, cur')
    /\ pc' = IF cur' = N + 1 THEN "done" ELSE IF mode = "dry" THEN "dry" ELSE "send"
    /\ UNCHANGED <<bundle, mode, chainVars, dryVars, liveVars>>

-----------------------------------------------------------------------------
(* Dry run *)

\* A step marked dependsOnPriorStep is not simulated.
Defer ==
    /\ pc = "dry" /\ cur \in bundle.deferred
    /\ Follows(cur, cur')
    /\ UNCHANGED <<bundle, mode, pc, chainVars, dryVars, liveVars>>

\* Simulated alone, against the chain as it is.
SimulateOk ==
    /\ pc = "dry" /\ cur \in Steps \ bundle.deferred
    /\ Executable(cur)
    /\ Follows(cur, cur')
    /\ UNCHANGED <<bundle, mode, pc, chainVars, dryVars, liveVars>>

\* Variant: the dependsOnPriorStep mark is not looked at.
SimulateFailEverything ==
    /\ pc = "dry" /\ cur \in Steps
    /\ ~Executable(cur)
    /\ failures' = failures \union {cur}
    /\ Follows(cur, cur')
    /\ UNCHANGED <<bundle, mode, pc, chainVars, rpcErrors, dryVerdict, liveVars>>

SimulateFail ==
    /\ pc = "dry" /\ cur \in Steps \ bundle.deferred
    /\ ~Executable(cur)
    /\ failures' = failures \union {cur}
    /\ Follows(cur, cur')
    /\ UNCHANGED <<bundle, mode, pc, chainVars, rpcErrors, dryVerdict, liveVars>>

\* The blockhash or the simulation request itself fails: caught like the others.
SimulateRpcError ==
    /\ pc = "dry" /\ cur \in Steps \ bundle.deferred
    /\ failures' = failures \union {cur}
    /\ rpcErrors' = rpcErrors \union {cur}
    /\ Follows(cur, cur')
    /\ UNCHANGED <<bundle, mode, pc, chainVars, dryVerdict, liveVars>>

\* Variant: deferred steps count as verified.
DryVerdictUnverified ==
    /\ pc = "dry" /\ cur = N + 1
    /\ dryVerdict' = IF failures # {} THEN "failed" ELSE "clean"
    /\ pc' = "done"
    /\ UNCHANGED <<bundle, mode, cur, chainVars, failures, rpcErrors, liveVars>>

DryVerdict ==
    /\ pc = "dry" /\ cur = N + 1
    /\ dryVerdict' = IF failures # {} THEN "failed"
                     ELSE IF Runnable \intersect bundle.deferred # {} THEN "partly"
                     ELSE "clean"
    /\ pc' = "done"
    /\ UNCHANGED <<bundle, mode, cur, chainVars, failures, rpcErrors, liveVars>>

\* The operator runs the command again without dryRun.
GoLive ==
    /\ pc = "done" /\ mode = "dry"
    /\ mode' = "live"
    /\ pc' = "call"
    /\ cur' = 0
    /\ UNCHANGED <<bundle, chainVars, dryVars, liveVars>>

-----------------------------------------------------------------------------
(* Live send *)

\* Variant: send all, confirm none.
SubmitNoWait ==
    /\ pc = "send"
    /\ sent' = sent \union {cur}
    /\ flying' = flying \union {cur}
    /\ Follows(cur, cur')
    /\ pc' = IF cur' = N + 1 THEN "done" ELSE "send"
    /\ UNCHANGED <<bundle, mode, landed, dryVars, liveVars>>

Submit ==
    /\ pc = "send"
    /\ sent' = sent \union {cur}
    /\ flying' = flying \union {cur}
    /\ pc' = "await"
    /\ UNCHANGED <<bundle, mode, cur, landed, dryVars, liveVars>>

\* Variants: ranges taken over array indices; the rest sliced at i, not i + 1.
AbortReportByIndex(s) == [landed |-> 0..(s - 1), unsent |-> {r \in Runnable : r > s}]
AbortReportSlice(s)   == [landed |-> {r \in Runnable : r <= s},
                          unsent |-> {r \in Runnable : r >= s}]

\* The message: every step up to the failing one landed, the rest was not sent.
AbortReport(s) == [landed |-> {r \in Runnable : r <= s},
                   unsent |-> {r \in Runnable : r > s}]

\* The awaited transaction is confirmed; the loop moves on or returns.
ConfirmOk ==
    /\ pc = "await" /\ cur \in landed
    /\ Follows(cur, cur')
    /\ pc' = IF cur' = N + 1 THEN "done" ELSE "send"
    /\ UNCHANGED <<bundle, mode, chainVars, dryVars, liveVars>>

\* Variant: the error is logged and the loop goes on.
AbortButContinue(why) ==
    /\ Follows(cur, cur')
    /\ pc' = IF cur' = N + 1 THEN "done" ELSE "send"
    /\ cause' = why
    /\ UNCHANGED report

\* The catch block: throw with a summary, send nothing more.
Abort(why) ==
    /\ pc' = "aborted"
    /\ cause' = why
    /\ report' = AbortReport(cur)
    /\ UNCHANGED cur

\* The node refuses the transaction at its preflight simulation.
PreflightRejects ==
    /\ pc = "send" /\ ~Executable(cur)
    /\ Abort("program")
    /\ UNCHANGED <<bundle, mode, chainVars, dryVars>>

\* No blockhash, or the node cannot be reached: nothing was submitted.
SubmitError ==
    /\ pc = "send"
    /\ Abort("rpc")
    /\ UNCHANGED <<bundle, mode, chainVars, dryVars>>

\* Variant: expiry is not watched.
ConfirmFailedUnwatched == FALSE /\ UNCHANGED vars

\* The awaited transaction expired or failed on chain.
ConfirmFailed ==
    /\ pc = "await" /\ cur \notin landed \union flying
    /\ Abort(IF Executable(cur) THEN "expired" ELSE "program")
    /\ UNCHANGED <<bundle, mode, chainVars, dryVars>>

\* The node fails while the confirmation is polled: the transaction may have
\* landed, may land later, or may never land.
ConfirmError ==
    /\ pc = "await"
    /\ Abort("rpc")
    /\ UNCHANGED <<bundle, mode, chainVars, dryVars>>

\* The operator interrupts the process; there is no message.
Kill ==
    /\ mode = "live" /\ pc \in {"send", "await"}
    /\ pc' = "killed"
    /\ UNCHANGED <<bundle, mode, cur, chainVars, dryVars, liveVars>>

-----------------------------------------------------------------------------
(* The chain *)

Land(s) ==
    /\ s \in flying /\ Executable(s)
    /\ landed' = landed \union {s}
    /\ flying' = flying \ {s}
    /\ UNCHANGED <<bundle, mode, pc, cur, sent, dryVars, liveVars>>

\* The blockhash expires, or the transaction executes and fails.
Drop(s) ==
    /\ s \in flying
    /\ flying' = flying \ {s}
    /\ UNCHANGED <<bundle, mode, pc, cur, sent, landed, dryVars, liveVars>>

-----------------------------------------------------------------------------
Progress == \/ Call
            \/ Defer \/ SimulateOk \/ SimulateFail \/ DryVerdict
            \/ Submit \/ ConfirmOk \/ PreflightRejects \/ ConfirmFailed
RpcError == SimulateRpcError \/ SubmitError \/ ConfirmError
Operator == GoLive \/ Kill
Chain    == \E s \in Steps : Land(s) \/ Drop(s)

Next == Progress \/ RpcError \/ Operator \/ Chain

\* The process keeps running and a transaction does not stay undecided for ever
\* (its blockhash expires).  Nothing obliges the node to fail or the operator to act.
Fairness == WF_vars(Progress) /\ WF_vars(Chain)

Spec     == Init /\ [][Next]_vars
FairSpec == Spec /\ Fairness

-----------------------------------------------------------------------------
TypeOK ==
    /\ bundle \in Bundles
    /\ mode \in {"dry", "live"}
    /\ pc \in {"call", "dry", "send", "await", "done", "aborted", "killed"}
    /\ cur \in 0..(N + 1)
    /\ sent \in SUBSET Steps /\ flying \in SUBSET Steps /\ landed \in SUBSET Steps
    /\ failures \in SUBSET Steps /\ rpcErrors \in SUBSET Steps
    /\ dryVerdict \in {"none", "clean", "partly", "failed"}
    /\ cause \in {"none", "program", "rpc", "expired"}
    /\ report \in [landed : SUBSET Steps, unsent : SUBSET Steps]

\* Effects reach the chain in the order of the bundle, without a gap, however
\* confirmations fail and however late a transaction lands: a step that is on
\* chain has every earlier runnable step on chain.
LandedInOrder == \A s \in landed : \A r \in Runnable : r < s => r \in landed

\* The part of the abort message an operator relies on to re-run only what is
\* left: the steps named as not sent are not on chain and cannot land later,
\* and those before the failing one are on chain.
ReportUsable ==
    pc = "aborted" =>
        /\ report.unsent \intersect (landed \union flying) = {}
        /\ report.landed \ {cur} \subseteq landed

\* The message itself: "Step(s) 1-k above already landed on-chain", with k the
\* step that failed.  This does not hold.
ReportedLandedHaveLanded == pc = "aborted" => report.landed \subseteq landed

\* "All steps sent and confirmed" is printed only when the whole bundle is on
\* chain and nothing is left in flight.
SuccessMeansAll == pc = "done" /\ mode = "live" => landed = Runnable /\ flying = {}

\* A dry run blames a step only for a fault of its own, provided every step that
\* reads what an earlier one creates carries the dependsOnPriorStep mark.
NoFalseAlarm ==
    (\A s \in Runnable \ bundle.deferred : bundle.needs[s] \ bundle.empty = {})
        => failures \ rpcErrors \subseteq bundle.bad

\* A clean dry run is a promise about the live run that follows it: the program
\* rejects none of its steps, so only the network can abort it.
CleanDryRunHolds == dryVerdict = "clean" => cause # "program"

\* Every invocation comes to an end.
Terminates == <>(pc \in {"done", "aborted", "killed"})

\* The abstract bundle.
OC == INSTANCE OrderedChain WITH
        work    <- Runnable,
        verdict <- CASE pc \in {"aborted", "killed"}     -> "stopped"
                     [] pc = "done" /\ mode = "live"     -> "complete"
                     [] OTHER                            -> "running",
        late    <- pc \in {"aborted", "killed"} /\ flying # {}

\* The invocation implements it.
Refines == OC!Spec
=============================================================================
