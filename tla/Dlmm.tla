---------------------------------- MODULE Dlmm ----------------------------------
(***************************************************************************)
(* studio/src/lib/dlmm without seedLiquidityLfg (module SeedLiquidity) and *)
(* the swap (module Trading): create a pool, switch its trading on or off, *)
(* seed a single bin, place and cancel limit orders, claim fees. A price   *)
(* is twice a bin id, or lies between two bins when it is odd. Balances,   *)
(* rent and on which side of the active bin an order may lie are left to   *)
(* the program and left out.                                               *)
(***************************************************************************)
EXTENDS Naturals, Sequences, FiniteSets, SequencesExt

CONSTANTS
    AskedBins,          \* placeLimitOrder.bins: sequences of [price, amount]
    LastBin,            \* the highest bin that one of these prices falls into
    MaxBins,            \* MAX_BIN_PER_LIMIT_ORDER
    Positions,          \* of the wallet on the pool, besides the seeded one
    MaxRuns, MaxLate

VARIABLES chain, cmd, queue, late, status

Keys(c) == {o.key : o \in c.orders}

-----------------------------------------------------------------------------
Accepts(c, t) ==
    CASE t.kind = "create" -> c.pool = "none"
      [] t.kind \in {"seed", "status"} -> c.pool # "none"
      [] t.kind = "place"  -> c.pool = "limits"
      [] t.kind = "cancel" -> t.key \in Keys(c)
      [] t.kind = "claim"  -> t.position \in c.held

Effect(c, t) ==
    CASE t.kind = "create" -> [c EXCEPT !.pool = t.type]
      [] t.kind = "status" -> [c EXCEPT !.enabled = t.enabled]
      [] t.kind = "seed"   -> [c EXCEPT !.seeded = @ + 1]
      [] t.kind = "place"  -> [c EXCEPT !.orders = @ \union
                                  {[key |-> t.key, side |-> t.side, bins |-> t.bins,
                                    asked |-> t.asked]}]
      [] t.kind = "cancel" -> [c EXCEPT !.orders = {o \in @ : o.key # t.key}]
      [] t.kind = "claim"  -> [c EXCEPT !.fees = @ \ {t.position}]

Resumes  == {}
Forgives == {}
S == INSTANCE Submission

-----------------------------------------------------------------------------
\* pool: none, or what its function type allows.
Init == S!Begin([pool |-> "none", enabled |-> TRUE, seeded |-> 0, orders |-> {},
                 held |-> {}, fees |-> {}])

\* The pool's address comes from its mints; one that is there already is not looked for.
CreatePermissionlessDlmmPool(configured, type) ==
    S!Command("create", [exists |-> chain.pool # "none"], configured,
              <<[kind |-> "create", type |-> type]>>)

\* set_pool_status, for whoever created the pool.
SetPoolStatus(configured, enabled) ==
    S!Command("status", "none", configured /\ chain.pool # "none",
              <<[kind |-> "status", enabled |-> enabled]>>)

\* A repeated seed adds to the position that the first one made.
SeedLiquiditySingleBin(rounding) ==
    S!Command("seed", "none", rounding \in {"up", "down"} /\ chain.pool # "none",
              <<[kind |-> "seed"]>>)

\* Variant: both sides round to the bin below.
BinIdDown(side, price) == price \div 2

\* getBinIdFromPrice: a sale rounds up, a purchase rounds down.
BinId(side, price) == IF side = "ask" THEN (price + 1) \div 2 ELSE price \div 2

\* Variant: of several entries that fall into one bin the last one counts.
OrderBinsLast(side, asked) ==
    [b \in {BinId(side, asked[i].price) : i \in DOMAIN asked} |->
        asked[CHOOSE i \in DOMAIN asked :
                 /\ BinId(side, asked[i].price) = b
                 /\ \A j \in DOMAIN asked : BinId(side, asked[j].price) = b => j <= i].amount]

SumOf(f) == LET sum[i \in 0..Len(f)] == IF i = 0 THEN 0 ELSE sum[i - 1] + f[i]
            IN  sum[Len(f)]

\* What some of the entries ask for together.
AskedFor(asked, entries) ==
    SumOf([i \in DOMAIN asked |-> IF i \in entries THEN asked[i].amount ELSE 0])

\* One amount for each bin id: entries that fall into the same bin are added.
OrderBins(side, asked) ==
    [b \in {BinId(side, asked[i].price) : i \in DOMAIN asked} |->
        AskedFor(asked, {i \in DOMAIN asked : BinId(side, asked[i].price) = b})]

\* The order's account is a fresh keypair: the number of the run.
PlaceLimitOrder(side, asked) ==
    S!Command("place", "none",
              side \in {"ask", "bid"} /\ Len(asked) \in 1..MaxBins /\ chain.pool = "limits",
              <<[kind |-> "place", key |-> cmd.n + 1, side |-> side,
                 bins |-> OrderBins(side, asked), asked |-> asked]>>)

Cancels(keys) == [i \in DOMAIN keys |-> [kind |-> "cancel", key |-> keys[i]]]

CancelOne(k) == S!Command("cancel", {k}, k \in Keys(chain), Cancels(<<k>>))

\* Every order that is open when the command begins, one transaction each, in the order in
\* which the node lists them.
CancelAll(configured) ==
    \E keys \in SetToSeqs(Keys(chain)) :
        S!Command("cancel", Keys(chain), configured /\ chain.pool # "none", Cancels(keys))

\* No position is no error, and neither is a failure to build the transactions (hitch): it
\* is printed as nothing to claim.
ClaimAllFees(hitch) ==
    \E ps \in SetToSeqs(chain.fees) :
        S!Command("claim", [hitch |-> hitch], chain.pool # "none",
                  IF hitch THEN <<>>
                  ELSE [i \in DOMAIN ps |-> [kind |-> "claim", position |-> ps[i]]])

\* The wallet opens positions elsewhere; trades leave fees on them.
FeesAccrue == \E p \in Positions \ chain.fees :
                 /\ chain.pool # "none" /\ chain.enabled
                 /\ S!World([chain EXCEPT !.held = @ \union {p}, !.fees = @ \union {p}])

Next ==
    \/ FeesAccrue \/ S!Step
    \/ \E configured \in BOOLEAN, type \in {"limits", "plain"} :
          CreatePermissionlessDlmmPool(configured, type)
    \/ \E rounding \in {"up", "down", "other"} : SeedLiquiditySingleBin(rounding)
    \/ \E side \in {"ask", "bid", "other"}, asked \in AskedBins : PlaceLimitOrder(side, asked)
    \/ \E k \in 1..MaxRuns : CancelOne(k)
    \/ \E b \in BOOLEAN : CancelAll(b) \/ ClaimAllFees(b)
                           \/ \E enabled \in BOOLEAN : SetPoolStatus(b, enabled)

Spec == Init /\ [][Next]_S!vars

-----------------------------------------------------------------------------
IsTx(t) ==
    \/ t.kind = "create" /\ t.type \in {"limits", "plain"}
    \/ t.kind = "seed" \/ (t.kind = "status" /\ t.enabled \in BOOLEAN)
    \/ t.kind = "place" /\ t.key \in 1..MaxRuns /\ t.asked \in AskedBins
    \/ t.kind = "cancel" /\ t.key \in 1..MaxRuns
    \/ t.kind = "claim" /\ t.position \in Positions

TypeOK ==
    /\ S!TypeOK({"create", "status", "seed", "place", "cancel", "claim"},
                {t \in ToSet(queue) \union {l.tx : l \in late} : IsTx(t)})
    /\ chain.pool \in {"none", "limits", "plain"} /\ chain.seeded \in 0..MaxRuns
    /\ chain.enabled \in BOOLEAN
    /\ chain.fees \subseteq chain.held /\ chain.held \subseteq Positions
    /\ Keys(chain) \subseteq 1..MaxRuns
    /\ \A o, p \in chain.orders : o.key = p.key => o = p

\* A command that is alone with the chain is refused only when it creates the pool again:
\* cancelling every order never cancels one twice.
LoneRunNeverRefused ==
    status = "refused" => cmd.moved \/ (cmd.op = "create" /\ cmd.arg.exists)

\* After a cancellation none of the orders it was about is open; after a claim alone that
\* did not fail to be built no position has fees.
OkMeansDone ==
    /\ S!Succeeded("cancel") => Keys(chain) \intersect cmd.arg = {}
    /\ ~cmd.moved /\ S!Succeeded("claim") /\ ~cmd.arg.hitch => chain.fees = {}

\* What an order holds in some of its bins together; the lowest bin is number 0.
HeldIn(bins, some) ==
    SumOf([n \in 1..(LastBin + 1) |-> IF n - 1 \in some THEN bins[n - 1] ELSE 0])

\* An order holds the whole amount asked for, and no part of it at a worse price than asked:
\* at or below a bin a sale offers no more than was asked at or below its price, at or above
\* it a purchase bids no more.
OrdersAsAsked ==
    \A o \in chain.orders :
        /\ HeldIn(o.bins, DOMAIN o.bins) = AskedFor(o.asked, DOMAIN o.asked)
        /\ \A b \in DOMAIN o.bins :
              LET atWorst(x, y) == IF o.side = "ask" THEN x <= y ELSE x >= y
              IN  HeldIn(o.bins, {x \in DOMAIN o.bins : atWorst(x, b)})
                  <= AskedFor(o.asked, {i \in DOMAIN o.asked : atWorst(o.asked[i].price, 2 * b)})
=============================================================================
