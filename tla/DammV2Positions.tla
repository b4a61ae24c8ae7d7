---------------------------- MODULE DammV2Positions ----------------------------
(***************************************************************************)
(* studio/src/lib/damm_v2: create a pool, split, grow, shrink, release and *)
(* close the wallet's positions in it.  A position is an NFT whose key the *)
(* run generates (the number of that run).  Its liquidity is unlocked,     *)
(* vesting or locked for good, and it gathers fees.  Amounts of tokens are *)
(* those of the price the run has read, without slippage: at another price *)
(* the program refuses.                                                    *)
(***************************************************************************)
EXTENDS Integers, Sequences, FiniteSets

CONSTANTS
    Deposits,           \* a first position: [unl, vest, perm] of liquidity
    SplitParts,         \* sets of the parts a split halves: "unl", "vest", "perm", "fee"
    MaxPrice,           \* price moves, at most
    Tokens,             \* the wallet's, in liquidity they buy
    MaxRuns, MaxLate

VARIABLES chain, cmd, queue, late, status

Parts      == {"unl", "vest", "perm", "fee"}
Pos(c, k)  == CHOOSE p \in c.pos : p.key = k
Keys(c)    == {p.key : p \in c.pos}
Empty(p)   == p.unl = 0 /\ p.vest = 0 /\ p.perm = 0
Half(parts, name, n) == IF name \in parts THEN n \div 2 ELSE 0

Change(c, p, q) == [c EXCEPT !.pos = (@ \ {p}) \union q]

-----------------------------------------------------------------------------
\* Liquidity whose time has come is released by the transaction that removes it.
Accepts(c, t) ==
    CASE t.kind = "create" -> ~c.pool
      [] t.kind = "split"  -> /\ t.key \in Keys(c)
                              /\ \E name \in t.parts \ {"fee"} :
                                    Half(t.parts, name, Pos(c, t.key)[name]) > 0
      [] t.kind = "add"    -> t.key \in Keys(c) /\ t.price = c.price /\ c.tokens > 0
      [] t.kind = "remove" -> /\ t.key \in Keys(c) /\ t.price = c.price
                              /\ t.amount <= Pos(c, t.key).unl
                                             + (IF c.ripe THEN Pos(c, t.key).vest ELSE 0)
      [] t.kind \in {"claim", "refresh"} -> t.key \in Keys(c)
      [] t.kind = "close"  -> t.key \in Keys(c) /\ Empty(Pos(c, t.key)) /\ Pos(c, t.key).fee = 0

Effect(c, t) ==
    CASE t.kind = "create" ->
           [c EXCEPT !.pool = TRUE,
                     !.pos = {[key |-> t.key, unl |-> t.d.unl, vest |-> t.d.vest,
                               perm |-> t.d.perm, fee |-> 0]}]
      [] t.kind = "split" ->
           LET p == Pos(c, t.key)
               half == [name \in Parts |-> Half(t.parts, name, p[name])]
               new == [key |-> t.new, unl |-> half["unl"], vest |-> half["vest"],
                       perm |-> half["perm"], fee |-> half["fee"]]
           IN  Change(c, p, {[p EXCEPT !.unl = @ - half["unl"], !.vest = @ - half["vest"],
                                       !.perm = @ - half["perm"], !.fee = @ - half["fee"]]}
                            \union IF t.own THEN {new} ELSE {})
      [] t.kind = "add" ->
           Change([c EXCEPT !.tokens = @ - 1], Pos(c, t.key),
                  {[Pos(c, t.key) EXCEPT !.unl = @ + 1]})
      [] t.kind = "remove" ->
           LET p == Pos(c, t.key)
               all == p.unl + (IF c.ripe THEN p.vest ELSE 0)
           IN  Change([c EXCEPT !.tokens = @ + t.amount], p,
                      {[p EXCEPT !.unl = all - t.amount, !.vest = IF c.ripe THEN 0 ELSE @]})
      [] t.kind = "claim" -> Change(c, Pos(c, t.key), {[Pos(c, t.key) EXCEPT !.fee = 0]})
      [] t.kind = "refresh" ->
           LET p == Pos(c, t.key)
           IN  Change(c, p, {IF c.ripe THEN [p EXCEPT !.unl = @ + p.vest, !.vest = 0] ELSE p})
      [] t.kind = "close" -> Change(c, Pos(c, t.key), {})

Resumes == {"add", "remove"}
Forgives == {}
S == INSTANCE Submission

-----------------------------------------------------------------------------
Init == S!Begin([pool |-> FALSE, pos |-> {}, price |-> 0, ripe |-> FALSE, tokens |-> Tokens])

\* The pool's address follows from its mints; whether it exists already is not looked at.
\* configured stands for the blocks and mints each kind of pool asks for.
CreatePool(ok, d) ==
    S!Command("create", [exists |-> chain.pool], ok,
              <<[kind |-> "create", key |-> cmd.n + 1, d |-> d]>>)

\* Fees that compound need both sides.
CreateDammV2OneSidedPool(configured, compounding, d) == CreatePool(configured /\ ~compounding, d)

CreateDammV2BalancedPool(configured, d) == CreatePool(configured, d)

\* The user picks one of the wallet's positions of the pool; without any the run ends.
OnPosition(op, k, arg, ok, txs) ==
    S!Command(op, arg, chain.pool /\ ok, IF k \in Keys(chain) THEN txs ELSE <<>>)

\* Both halves of a split, the position that is created and the move, are one transaction.
SplitPosition(k, parts, own) ==
    OnPosition("split", k,
               [void |-> k \in Keys(chain) /\ \A name \in parts \ {"fee"} :
                            Half(parts, name, Pos(chain, k)[name]) = 0], TRUE,
               <<[kind |-> "split", key |-> k, new |-> cmd.n + 1, parts |-> parts,
                  own |-> own]>>)

ClaimPositionFee(k) == OnPosition("claim", k, "none", TRUE, <<[kind |-> "claim", key |-> k]>>)

RefreshVesting(k) ==
    OnPosition("refresh", k, "none", TRUE,
               IF k \in Keys(chain) /\ Pos(chain, k).vest > 0
               THEN <<[kind |-> "refresh", key |-> k]>> ELSE <<>>)

\* The balance is left to the program.
AddLiquidity(k) ==
    OnPosition("add", k, [short |-> chain.tokens = 0], TRUE,
               <<[kind |-> "add", key |-> k, price |-> chain.price]>>)

\* The run waits once more, for the block to be final, and reads the position: without an
\* answer it ends in an error, its deposit on chain all the same.
AddGoesOn ==
    /\ cmd.op = "add"
    /\ \E answered \in BOOLEAN : S!Resume("added", cmd.arg, answered, <<>>)

Removable(k) == Pos(chain, k).unl + Pos(chain, k).vest

\* All that is not locked for good, what is still vesting included; nothing ends the run.
RemoveLiquidity(k, configured) ==
    OnPosition("remove", k,
               [key |-> k, some |-> k \in Keys(chain) /\ Removable(k) > 0,
                unripe |-> k \in Keys(chain) /\ ~chain.ripe /\ Pos(chain, k).vest > 0],
               configured,
               IF k \in Keys(chain) /\ Removable(k) > 0
               THEN <<[kind |-> "remove", key |-> k, amount |-> Removable(k),
                       price |-> chain.price]>>
               ELSE <<>>)

CloseTxs(k) ==
    (IF Pos(chain, k).fee > 0 THEN <<[kind |-> "claim", key |-> k]>> ELSE <<>>)
       \o <<[kind |-> "close", key |-> k]>>

\* Variant: the position is closed without a look at its fees.
RemoveThenClose ==
    /\ cmd.op = "remove"
    /\ \E answered \in BOOLEAN :
          S!Resume("removed", cmd.arg, answered,
                   IF cmd.arg.key \in Keys(chain) /\ Empty(Pos(chain, cmd.arg.key))
                   THEN <<[kind |-> "close", key |-> cmd.arg.key]>> ELSE <<>>)

\* After the final block the position is read again: what is left ends the run (always so in a
\* dry run); otherwise its fees are claimed, if it has any, and it is closed.
RemoveGoesOn ==
    /\ cmd.op = "remove"
    /\ \E answered \in BOOLEAN :
          S!Resume("removed", cmd.arg, answered,
                   IF cmd.arg.key \in Keys(chain) /\ Empty(Pos(chain, cmd.arg.key))
                   THEN CloseTxs(cmd.arg.key) ELSE <<>>)

\* Whatever liquidity or fee is left ends the run without an error.
ClosePosition(k) ==
    OnPosition("close", k, "none", TRUE,
               IF k \in Keys(chain) /\ Empty(Pos(chain, k)) /\ Pos(chain, k).fee = 0
               THEN <<[kind |-> "close", key |-> k]>> ELSE <<>>)

PriceMoves == chain.pool /\ chain.price < MaxPrice /\ S!World([chain EXCEPT !.price = @ + 1])
Ripens     == chain.pool /\ ~chain.ripe /\ S!World([chain EXCEPT !.ripe = TRUE])
FeesAccrue == \E p \in chain.pos :
                 /\ ~Empty(p) /\ p.fee = 0
                 /\ S!World(Change(chain, p, {[p EXCEPT !.fee = 2]}))

Next ==
    \/ PriceMoves \/ Ripens \/ FeesAccrue \/ AddGoesOn \/ RemoveGoesOn \/ S!Step
    \/ \E configured \in BOOLEAN, d \in Deposits :
          \/ CreateDammV2BalancedPool(configured, d)
          \/ \E compounding \in BOOLEAN : CreateDammV2OneSidedPool(configured, compounding, d)
    \/ \E k \in 1..MaxRuns :
          \/ ClaimPositionFee(k) \/ RefreshVesting(k) \/ AddLiquidity(k) \/ ClosePosition(k)
          \/ \E parts \in SplitParts, own \in BOOLEAN : SplitPosition(k, parts, own)
          \/ \E configured \in BOOLEAN : RemoveLiquidity(k, configured)

Spec == Init /\ [][Next]_S!vars

-----------------------------------------------------------------------------
Most == Tokens + 8      \* liquidity, at most
RunKeys == 1..MaxRuns

Txs == [kind : {"create"}, key : RunKeys, d : Deposits]
       \union [kind : {"split"}, key : RunKeys, new : RunKeys, parts : SplitParts,
               own : BOOLEAN]
       \union [kind : {"add"}, key : RunKeys, price : 0..MaxPrice]
       \union [kind : {"remove"}, key : RunKeys, price : 0..MaxPrice, amount : 1..Most]
       \union [kind : {"claim", "refresh", "close"}, key : RunKeys]

TypeOK ==
    /\ S!TypeOK({"create", "split", "claim", "refresh", "add", "added", "remove", "removed",
                 "close"}, Txs)
    /\ chain.pool \in BOOLEAN /\ chain.ripe \in BOOLEAN /\ chain.price \in 0..MaxPrice
    /\ chain.tokens \in 0..Most
    /\ chain.pos \subseteq [key : RunKeys, unl : 0..Most, vest : 0..Most, perm : 0..Most,
                            fee : 0..2]
    /\ Cardinality(Keys(chain)) = Cardinality(chain.pos)

\* Alone, a run is refused only for what the commands leave to the program: a pool that is
\* there already, a split of nothing, tokens it has not got, liquidity still vesting.
LoneRunNeverRefused ==
    status = "refused" =>
        \/ cmd.moved
        \/ cmd.op = "create" /\ cmd.arg.exists
        \/ cmd.op = "split" /\ cmd.arg.void
        \/ cmd.op = "add" /\ cmd.arg.short
        \/ cmd.op = "remove" /\ cmd.arg.unripe

\* removeLiquidity that found something to remove and ends well, with nobody else about,
\* leaves no position, or one that is locked for good.
OkMeansDone ==
    /\ ~cmd.moved /\ S!Succeeded("removed") /\ cmd.arg.some
    /\ cmd.arg.key \in Keys(chain)
    => Pos(chain, cmd.arg.key).perm > 0
=============================================================================
