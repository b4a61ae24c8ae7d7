-------------------------------- MODULE DammV1 --------------------------------
(***************************************************************************)
(* studio/src/lib/damm_v1/index.ts and the first part of stake2earn.ts:    *)
(* the wallet creates a customizable pool, locks its LP tokens for a list  *)
(* of wallets, and creates the stake-for-fee farm whose vault may be one   *)
(* of them.  The split is fromAllocationsToAmount of helpers/common.ts.    *)
(* Percentages are kept in tenths, since the code drops their fraction.    *)
(***************************************************************************)
EXTENDS Integers, Sequences, FiniteSets

CONSTANTS
    Wallets, FarmVault, \* who LP is locked for; the farm's fee vault is one
    Allocations,        \* lists of [to |-> wallet, tenths |-> percentage in tenths]
    MintedLp,           \* LP tokens the creator of the pool receives
    FarmStart, LastTime,\* startFeeDistributeTimestamp; the clock's bound
    MaxRuns, MaxLate

VARIABLES chain, cmd, queue, late, status

-----------------------------------------------------------------------------
(* helpers/common.ts *)

Floor10(t) == t \div 10
SumOf(f) == LET sum[i \in 0..Len(f)] == IF i = 0 THEN 0 ELSE sum[i - 1] + f[i]
            IN  sum[Len(f)]
SumTenths(a) == SumOf([i \in DOMAIN a |-> a[i].tenths])

\* Division by a sum that is truncated to zero throws as well.
Splits(a) ==
    /\ SumTenths(a) \in 1..1000
    /\ Len(a) = 1 \/ Floor10(SumTenths(a)) > 0

ShareOf(lp, a, i) == (lp * Floor10(a[i].tenths)) \div Floor10(SumTenths(a))

\* Variant: the last wallet gets its own share only.
FromAllocationsToAmountFloor(lp, a) ==
    [i \in DOMAIN a |-> IF Len(a) = 1 THEN lp ELSE ShareOf(lp, a, i)]

\* fromAllocationsToAmount: "the last wallet get remaining amount".
FromAllocationsToAmount(lp, a) ==
    LET first == [i \in 1..(Len(a) - 1) |-> ShareOf(lp, a, i)]
    IN  Append(first, lp - SumOf(first))

-----------------------------------------------------------------------------
(* The programs *)

Accepts(c, t) ==
    CASE t.kind = "createPool" -> ~c.pool
      [] t.kind = "lock"       -> c.pool /\ t.amount <= c.lp
      [] t.kind = "createFarm" -> c.pool /\ ~c.farm /\ c.now <= FarmStart

Effect(c, t) ==
    CASE t.kind = "createPool" -> [c EXCEPT !.pool = TRUE, !.lp = MintedLp]
      [] t.kind = "lock"       -> [c EXCEPT !.lp = @ - t.amount, !.locked[t.to] = @ + t.amount]
      [] t.kind = "createFarm" -> [c EXCEPT !.farm = TRUE]

Resumes == {}
Forgives == {}
S == INSTANCE Submission

-----------------------------------------------------------------------------
Init == S!Begin([pool |-> FALSE, lp |-> 0, locked |-> [w \in Wallets |-> 0],
                 farm |-> FALSE, now |-> 0])

\* The pool's address follows from the mints: a second pool is the program's to refuse.
CreateDammV1Pool == S!Command("createPool", "none", TRUE, <<[kind |-> "createPool"]>>)

LockTxs(lp, a) ==
    LET amounts == FromAllocationsToAmount(lp, a)
    IN  [i \in DOMAIN a |-> [kind |-> "lock", to |-> a[i].to, amount |-> amounts[i]]]

Memory(a) == [list |-> a, lp |-> chain.lp, locked |-> chain.locked]

\* The balance is read once; a wallet without an LP account makes the read throw.
LockLiquidity(a) ==
    S!Command("lock", Memory(a), a # <<>> /\ chain.pool /\ Splits(a), LockTxs(chain.lp, a))

\* The list must name the farm's vault; whether there is a farm is not looked at.
LockLiquidityStake2Earn(a) ==
    S!Command("lock", Memory(a),
              /\ a # <<>> /\ \E i \in DOMAIN a : a[i].to = FarmVault
              /\ chain.pool /\ Splits(a),
              LockTxs(chain.lp, a))

\* Variant: the start is not compared with the clock.
CreateFarmUnchecked ==
    S!Command("createFarm", [pool |-> chain.pool], TRUE,
              IF chain.farm THEN <<>> ELSE <<[kind |-> "createFarm"]>>)

\* An existing farm is left alone; a start behind the clock is refused up front.
CreateFarm ==
    S!Command("createFarm", [pool |-> chain.pool], chain.farm \/ chain.now <= FarmStart,
              IF chain.farm THEN <<>> ELSE <<[kind |-> "createFarm"]>>)

Tick == chain.now < LastTime /\ S!World([chain EXCEPT !.now = @ + 1])

Next ==
    \/ CreateDammV1Pool \/ CreateFarm \/ Tick \/ S!Step
    \/ \E a \in Allocations : LockLiquidity(a) \/ LockLiquidityStake2Earn(a)

Spec == Init /\ [][Next]_S!vars

-----------------------------------------------------------------------------
Txs == [kind : {"createPool", "createFarm"}]
       \union [kind : {"lock"}, to : Wallets, amount : 0..MintedLp]

TypeOK ==
    /\ S!TypeOK({"createPool", "lock", "createFarm"}, Txs)
    /\ chain.pool \in BOOLEAN /\ chain.farm \in BOOLEAN /\ chain.now \in 0..LastTime
    /\ chain.lp \in 0..MintedLp /\ chain.locked \in [Wallets -> 0..MintedLp]

\* What the locks of this run added for wallet w.
Gained(w) == chain.locked[w] - cmd.arg.locked[w]
TenthsOf(w) ==
    SumOf([i \in DOMAIN cmd.arg.list |->
              IF cmd.arg.list[i].to = w THEN cmd.arg.list[i].tenths ELSE 0])
WholePercents == \A i \in DOMAIN cmd.arg.list : cmd.arg.list[i].tenths % 10 = 0

\* A lock that ends without an error, and beside which nothing else of the wallet's
\* landed, has locked all it read and each wallet's part of it: exact up to one unit per
\* allocation, for percentages without a fraction.
LockedByShare ==
    S!Succeeded("lock") /\ late = {} /\ WholePercents =>
        /\ SumOf(FromAllocationsToAmount(cmd.arg.lp, cmd.arg.list)) = cmd.arg.lp
        /\ \A w \in Wallets :
             LET sum == SumTenths(cmd.arg.list)
                 n   == Len(cmd.arg.list) * sum
             IN  cmd.moved \/ Gained(w) * sum - cmd.arg.lp * TenthsOf(w) \in (-n)..n

\* The configuration's words: `percentage` is a share of the wallet's LP balance.
LocksThePercentage ==
    S!Succeeded("lock") /\ ~cmd.moved /\ late = {} =>
        \A w \in Wallets :
            Gained(w) * 1000 <= cmd.arg.lp * TenthsOf(w) + 1000 * Len(cmd.arg.list)

\* What was checked is not refused unless the chain moved since it was read.  Whether the
\* pool exists is checked by neither command that creates something.
LoneRunNeverRefused ==
    status = "refused" =>
        \/ cmd.moved \/ cmd.op = "createPool"
        \/ cmd.op = "createFarm" /\ ~cmd.arg.pool
=============================================================================
