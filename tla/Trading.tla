--------------------------------- MODULE Trading ---------------------------------
(***************************************************************************)
(* The swap command of the four pool programs: studio/src/lib/damm_v1,     *)
(* damm_v2, dlmm and dbc, each trading.ts.  A swap quotes the configured   *)
(* amount against the pool as it reads it and asks the program for no less *)
(* than the quote less the slippage; whoever trades in between moves the   *)
(* rate, and a swap without confirmation may go through at a later one.    *)
(***************************************************************************)
EXTENDS Integers, Sequences, FiniteSets

CONSTANTS
    Programs,           \* of "dammV1", "dammV2", "dlmm", "dbc"
    MaxRate,            \* what the configured amount buys, at most
    Slippage,           \* what a swap may bring less than quoted
    Funds,              \* swaps the wallet can pay for
    MaxRuns, MaxLate

VARIABLES chain, cmd, queue, late, status

-----------------------------------------------------------------------------
\* A swap brings what the pool gives when it lands, or fails below its minimum.
Accepts(c, t) == /\ c.sol /\ c.funds > 0 /\ c.rate > 0
                 /\ c.rate >= t.min /\ ~c.complete

\* slip: the most that a swap ever brought less than it was quoted.
Effect(c, t) == [c EXCEPT !.funds = @ - 1, !.rate = @ - 1,
                          !.slip = IF t.quoted - c.rate > @ THEN t.quoted - c.rate ELSE @]

Resumes  == {}
Forgives == {}
S == INSTANCE Submission

-----------------------------------------------------------------------------
\* pool: the pool is there; complete: a bonding curve that is bought out.
Init == \E program \in Programs, sol \in BOOLEAN :
            S!Begin([program |-> program, pool |-> FALSE, complete |-> FALSE, rate |-> MaxRate,
                     funds |-> Funds, sol |-> sol, slip |-> 0])

\* Variant: no minimum is asked for.
MinimumNone(quoted) == 0

Minimum(quoted) == IF quoted > Slippage THEN quoted - Slippage ELSE 0

\* The SDK quotes no swap that brings nothing or that a bought-out curve would refuse.
Quoted == chain.rate > 0 /\ ~chain.complete

\* configured: the swap's block is in the configuration.  member: the input mint is one of the
\* pool's, which only the DAMM commands ask, the others name a direction.  The DBC command
\* does not look at the wallet's SOL, and none looks at its funds.
Swap(configured, member) ==
    S!Command("swap", [short |-> chain.funds = 0 \/ ~chain.sol],
              /\ configured /\ chain.pool /\ Quoted
              /\ chain.program # "dbc" => chain.sol
              /\ chain.program \in {"dammV1", "dammV2"} => member,
              <<[min |-> Minimum(chain.rate), quoted |-> chain.rate]>>)

PoolOpens   == ~chain.pool /\ S!World([chain EXCEPT !.pool = TRUE])
OthersTrade == /\ chain.pool /\ ~chain.complete
               /\ \E r \in {chain.rate - 1, chain.rate + 1} \intersect 1..MaxRate :
                     S!World([chain EXCEPT !.rate = r])
Completes   == /\ chain.pool /\ chain.program = "dbc" /\ ~chain.complete
               /\ S!World([chain EXCEPT !.complete = TRUE])

Next == \/ PoolOpens \/ OthersTrade \/ Completes \/ S!Step
        \/ \E configured, member \in BOOLEAN : Swap(configured, member)

Spec == Init /\ [][Next]_S!vars

-----------------------------------------------------------------------------
TypeOK ==
    /\ S!TypeOK({"swap"}, [min : 0..MaxRate, quoted : 1..MaxRate])
    /\ chain.program \in Programs /\ chain.pool \in BOOLEAN /\ chain.complete \in BOOLEAN
    /\ chain.complete => chain.program = "dbc" /\ chain.pool
    /\ chain.rate \in 0..MaxRate /\ chain.funds \in 0..Funds /\ chain.slip \in 0..MaxRate
    /\ chain.sol \in BOOLEAN

\* A swap that is alone with the pool is refused only to a wallet that cannot pay for it.
LoneRunNeverRefused == status = "refused" => cmd.moved \/ cmd.arg.short

\* No swap, not even one that lands late, at a rate others made, brings less than its quote
\* less the slippage.
SlippageBounded == chain.slip <= Slippage
=============================================================================
