-------------------------------- MODULE ZapOut --------------------------------
(***************************************************************************)
(* studio/src/lib/zap/index.ts, zapOut: remove a position's liquidity and  *)
(* swap the side that is not outputMint into outputMint.  A wide DLMM      *)
(* position needs several remove-liquidity transactions, one per chunk of  *)
(* bins; the swap rides in the last one.  DAMM v2 and a narrow DLMM        *)
(* position need one.  The bundle goes through sendOrderedTransactions,    *)
(* used here through what OrderedSend implements: OrderedChain.            *)
(*                                                                         *)
(* Amounts are small integers: x counts tokens of the swap's input mint, y *)
(* of the output mint.  The operator may re-run the command after an abort *)
(* ("Re-running the same command IS safe here"), and a transaction of an   *)
(* aborted run may still land during a later one.                          *)
(***************************************************************************)
EXTENDS Integers, FiniteSets

CONSTANTS
    MaxChunks,          \* remove-liquidity transactions of one bundle, at most
    MaxAmount,          \* tokens of either side in a chunk, at most
    Held,               \* input-mint tokens the wallet holds beforehand
    Faults,             \* bundles that abort, at most
    Shifts              \* price moves that change a chunk's composition, at most

ZapOutConstants ==
    /\ MaxChunks \in Nat \ {0} /\ MaxAmount \in Nat /\ Held \in Nat
    /\ Faults \in Nat /\ Shifts \in Nat

VARIABLES
    work, landed, verdict, late,    \* the bundle: OrderedChain; work is the chunks
    position,           \* per chunk, the tokens that removal would free
    closed,             \* the last removal closes the position account
    wallet,             \* the wallet's balance of the input mint
    converted,          \* input-mint tokens swapped into outputMint
    phase,              \* "idle", "read" (position read), "sent" (bundle built)
    plan,               \* what the built zap-out instruction carries
    ghosts,             \* transactions of earlier bundles that may still land
    faults, shifts      \* budgets spent

bundleVars == <<work, landed, verdict, late>>
chainVars  == <<position, closed, wallet, converted>>
vars == <<bundleVars, chainVars, phase, plan, ghosts, faults, shifts>>

B == INSTANCE OrderedChain WITH N <- MaxChunks

Chunk    == work
Last     == Cardinality(work)
Emptied  == [x |-> 0, y |-> 0]

\* The input-mint tokens in the chunks of position p, named by chunk and number.
Tokens(p) == UNION {{c} \X (1..p[c].x) : c \in Chunk}
SumX(p)   == Cardinality(Tokens(p))

Lesser(a, b) == IF a < b THEN a ELSE b
NoPlan   == [pre |-> 0, max |-> 0, swap |-> FALSE]

\* Variant: only the side to be swapped counts.
HasLiquidityToSwap == ~closed /\ SumX(position) # 0

\* Neither "holds no position" nor "has no liquidity to remove" applies.
HasLiquidity == ~closed /\ \E c \in Chunk : position[c] # Emptied

-----------------------------------------------------------------------------
Init ==
    /\ \E n \in 1..MaxChunks : work = 1..n
    /\ position \in [Chunk -> [x : 0..MaxAmount, y : 0..MaxAmount]]
    /\ closed = FALSE /\ wallet = Held /\ converted = 0
    /\ landed = {} /\ verdict = "stopped" /\ late = FALSE
    /\ phase = "idle" /\ plan = NoPlan /\ ghosts = {}
    /\ faults = 0 /\ shifts = 0

\* The step of the stopped bundle that may still land, with what it carries.
Leftover ==
    IF late THEN {[chunk |-> c, plan |-> plan] :
                    c \in {s \in Chunk \ landed : \A r \in Chunk : r < s => r \in landed}}
            ELSE {}

\* A run reads the position; with nothing in it the command throws.
ReadPosition ==
    /\ phase = "idle" /\ HasLiquidity
    /\ phase' = "read"
    /\ ghosts' = ghosts \union Leftover
    /\ late' = FALSE
    /\ plan' = [NoPlan EXCEPT !.max = SumX(position), !.swap = SumX(position) # 0]
    /\ UNCHANGED <<chainVars, work, landed, verdict, faults, shifts>>

\* Variant: the swap takes the whole balance.
BuildNoSnapshot ==
    /\ phase = "read"
    /\ phase' = "sent"
    /\ plan' = [plan EXCEPT !.pre = 0, !.max = Held + Last * MaxAmount]
    /\ landed' = {} /\ verdict' = "running"
    /\ UNCHANGED <<chainVars, work, late, ghosts, faults, shifts>>

\* The zap-out instruction is built: it snapshots the wallet's balance and caps
\* the swap at the amount read from the position.  The bundle starts.
Build ==
    /\ phase = "read"
    /\ phase' = "sent"
    /\ plan' = [plan EXCEPT !.pre = IF plan.swap THEN wallet ELSE 0]
    /\ landed' = {} /\ verdict' = "running"
    /\ UNCHANGED <<chainVars, work, late, ghosts, faults, shifts>>

-----------------------------------------------------------------------------
\* Variant: the swap is a transaction after the last removal, not part of it.
TxLeavesSwapOut(c, p) ==
    /\ ~closed
    /\ position' = [position EXCEPT ![c] = Emptied]
    /\ closed' = (c = Last)
    /\ wallet' = wallet + position[c].x
    /\ UNCHANGED converted

\* Variant: the swap sells the estimate.
TxSellsEstimate(c, p) ==
    LET amount == IF c = Last /\ p.swap THEN p.max ELSE 0
    IN  /\ ~closed
        /\ position' = [position EXCEPT ![c] = Emptied]
        /\ closed' = (c = Last)
        /\ wallet' = wallet + position[c].x - amount
        /\ converted' = converted + amount

\* The effect of transaction c of a bundle built with plan p.  The removal frees
\* whatever the chunk holds by then; the last one also swaps the balance gained
\* since the snapshot, up to the cap, and closes the position.
Tx(c, p) ==
    LET balance == wallet + position[c].x
        amount  == IF c = Last /\ p.swap THEN Lesser(balance - p.pre, p.max) ELSE 0
    IN  /\ ~closed
        /\ amount >= 0
        /\ position' = [position EXCEPT ![c] = Emptied]
        /\ closed' = (c = Last)
        /\ wallet' = balance - amount
        /\ converted' = converted + amount

LandNow(c) ==
    /\ B!Land /\ landed' = landed \union {c}
    /\ Tx(c, plan)
    /\ UNCHANGED <<phase, plan, ghosts, faults, shifts>>

LandGhost(g) ==
    /\ g \in ghosts
    /\ Tx(g.chunk, g.plan)
    /\ ghosts' = ghosts \ {g}
    /\ UNCHANGED <<bundleVars, phase, plan, faults, shifts>>

ExpireGhost(g) ==
    /\ g \in ghosts
    /\ ghosts' = ghosts \ {g}
    /\ UNCHANGED <<bundleVars, chainVars, phase, plan, faults, shifts>>

Settle ==
    /\ phase = "idle" /\ B!Settle
    /\ UNCHANGED <<chainVars, phase, plan, ghosts, faults, shifts>>

Finish ==
    /\ phase = "sent" /\ B!Complete
    /\ phase' = "idle"
    /\ UNCHANGED <<chainVars, plan, ghosts, faults, shifts>>

\* A network fault, or a step made impossible by a transaction of an earlier run.
Fail ==
    /\ phase = "sent" /\ B!Stop
    /\ closed \/ faults < Faults
    /\ faults' = IF closed THEN faults ELSE faults + 1
    /\ phase' = "idle"
    /\ UNCHANGED <<chainVars, plan, ghosts, shifts>>

\* The pool's price crosses a chunk: a token of one side becomes one of the other.
Shift(c) ==
    /\ shifts < Shifts /\ ~closed
    /\ \/ /\ position[c].x > 0
          /\ position' = [position EXCEPT ![c] = [x |-> @.x - 1, y |-> @.y + 1]]
       \/ /\ position[c].y > 0
          /\ position' = [position EXCEPT ![c] = [x |-> @.x + 1, y |-> @.y - 1]]
    /\ shifts' = shifts + 1
    /\ UNCHANGED <<bundleVars, closed, wallet, converted, phase, plan, ghosts, faults>>

Run == ReadPosition \/ Build \/ Finish \/ (closed /\ Fail) \/ \E c \in Chunk : LandNow(c)

Next ==
    \/ Run \/ Fail \/ Settle
    \/ \E g \in ghosts : LandGhost(g) \/ ExpireGhost(g)
    \/ \E c \in Chunk : Shift(c)

\* The operator re-runs until the position is empty, as the abort message invites;
\* only Faults bundles abort.
Spec     == Init /\ [][Next]_vars
FairSpec == Spec /\ WF_vars(Run)

-----------------------------------------------------------------------------
Plans == [pre : Nat, max : Nat, swap : BOOLEAN]

TypeOK ==
    /\ work = 1..Last /\ Last \in 1..MaxChunks /\ landed \subseteq work
    /\ verdict \in {"running", "complete", "stopped"} /\ late \in BOOLEAN
    /\ position \in [Chunk -> [x : Nat, y : Nat]] /\ closed \in BOOLEAN
    /\ wallet \in Nat /\ converted \in Nat
    /\ phase \in {"idle", "read", "sent"} /\ plan \in Plans
    /\ \A g \in ghosts : g.chunk \in Chunk /\ g.plan \in Plans
    /\ faults \in 0..Faults /\ shifts \in 0..Shifts

\* The swap sells only what removals freed: however runs are repeated, however
\* late an old bundle's swap lands, the tokens the wallet held beforehand stay.
OwnTokensKept == wallet >= Held

\* Unless the price moves in between, no freed token is left unconverted by a bundle
\* that goes through at the first attempt, nor, with one removal transaction, by an
\* abort: removal and conversion are then one step of the chain.
FreedIsConverted ==
    /\ Last = 1 /\ shifts = 0 => wallet = Held
    /\ verdict = "complete" /\ faults = 0 /\ shifts = 0 => wallet = Held

Withdrawn == \A c \in Chunk : position[c] = Emptied

\* Re-running gets all the liquidity out.
WithdrawalConverges == <>[]Withdrawn

\* What "resumes/converges from wherever this left off" promises of a zap-out: once
\* a run completes, what was freed has been converted, earlier aborts or not.
RerunConvertsAll == verdict = "complete" /\ shifts = 0 => wallet = Held
=============================================================================
