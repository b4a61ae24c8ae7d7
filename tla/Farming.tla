-------------------------------- MODULE Farming --------------------------------
(***************************************************************************)
(* studio/src/lib/farming: a wallet stakes the LP tokens of a DAMM v1 pool *)
(* in reward farms, unstakes, and claims from one farm or from a list of   *)
(* them, at most MaxClaimAll farms to a transaction.  A farm is named, or  *)
(* looked up by its pool, which works when the pool has exactly one.       *)
(***************************************************************************)
EXTENDS Integers, Sequences, FiniteSets, SequencesExt

CONSTANTS
    Farms, Pools, FarmsOf,  \* FarmsOf[p]: what the REST service answers for pool p
    ClaimLists,             \* farmClaimAll.farms: sequences of farms
    MaxClaimAll,            \* the SDK's MAX_CLAIM_ALL_ALLOWED
    Tokens,                 \* LP tokens of the wallet at first
    MaxClaims,              \* claims counted per farm, at most
    MaxRuns, MaxLate

VARIABLES chain, cmd, queue, late, status

Amounts == 1..Tokens

Accepts(c, t) ==
    CASE t.kind = "stake"   -> t.amount <= c.tokens
      [] t.kind = "unstake" -> c.user[t.farm] /\ t.amount <= c.staked[t.farm]
      [] t.kind = "claim"   -> \A f \in t.farms : c.user[f]

Effect(c, t) ==
    CASE t.kind = "stake"   -> [c EXCEPT !.tokens = @ - t.amount, !.user[t.farm] = TRUE,
                                         !.staked[t.farm] = @ + t.amount]
      [] t.kind = "unstake" -> [c EXCEPT !.tokens = @ + t.amount,
                                         !.staked[t.farm] = @ - t.amount]
      [] t.kind = "claim"   ->
           [c EXCEPT !.reward = [f \in Farms |-> @[f] /\ f \notin t.farms],
                     !.claims = [f \in Farms |-> IF c.reward[f] /\ f \in t.farms
                                                 THEN @[f] + 1 ELSE @[f]]]

Resumes == {}
Forgives == {}
S == INSTANCE Submission

-----------------------------------------------------------------------------
Init == S!Begin([tokens |-> Tokens, user |-> [f \in Farms |-> FALSE],
                 staked |-> [f \in Farms |-> 0], reward |-> [f \in Farms |-> FALSE],
                 claims |-> [f \in Farms |-> 0]])

\* A farm by its address, or the only farm of a pool.
ResolveFarmAddress(s) == IF s \in Farms THEN {s} ELSE FarmsOf[s]

\* No answer, or several farms: the command lists them and throws.
OnFarm(s, Do(_)) ==
    LET r == ResolveFarmAddress(s)
    IN  IF Cardinality(r) = 1 THEN \E f \in r : Do(f) ELSE S!Unready

\* The user's account is created by the same transaction.
Stake(f, a) ==
    S!Command("stake", "none", chain.tokens >= a,
              <<[kind |-> "stake", farm |-> f, amount |-> a]>>)

\* null (0) unstakes all that is staked; a missing account and no stake are the same.
Unstake(f, a) ==
    S!Command("unstake", "none",
              chain.user[f] /\ chain.staked[f] > 0 /\ a <= chain.staked[f],
              <<[kind |-> "unstake", farm |-> f,
                 amount |-> IF a = 0 THEN chain.staked[f] ELSE a]>>)

Claim(f) ==
    S!Command("claim", "none", chain.user[f] /\ chain.reward[f],
              <<[kind |-> "claim", farms |-> {f}]>>)

\* Variant: the last, smaller batch is forgotten.
BatchesWhole(l) ==
    [i \in 1..(Len(l) \div MaxClaimAll) |->
       [kind |-> "claim",
        farms |-> ToSet(SubSeq(l, (i - 1) * MaxClaimAll + 1, i * MaxClaimAll))]]

\* The SDK's batches, in the order of the list.
Batches(l) ==
    [i \in 1..((Len(l) + MaxClaimAll - 1) \div MaxClaimAll) |->
       [kind |-> "claim",
        farms |-> ToSet(SubSeq(l, (i - 1) * MaxClaimAll + 1, Min({i * MaxClaimAll, Len(l)})))]]

\* One claimable farm is enough to send every batch, one after the other.
ClaimAll(l) ==
    S!Command("claimAll", [farms |-> ToSet(l), user |-> chain.user, reward |-> chain.reward,
                           claims |-> chain.claims],
              l # <<>> /\ \E f \in ToSet(l) : chain.reward[f], Batches(l))

RewardsAccrue == \E f \in Farms :
    /\ chain.staked[f] > 0 /\ ~chain.reward[f] /\ chain.claims[f] < MaxClaims
    /\ S!World([chain EXCEPT !.reward[f] = TRUE])

Next ==
    \/ RewardsAccrue \/ S!Step
    \/ \E l \in ClaimLists : ClaimAll(l)
    \/ \E s \in Farms \union Pools :
         \/ OnFarm(s, Claim)
         \/ \E a \in Amounts : OnFarm(s, LAMBDA f : Stake(f, a))
         \/ \E a \in 0..Tokens : OnFarm(s, LAMBDA f : Unstake(f, a))

Spec == Init /\ [][Next]_S!vars

-----------------------------------------------------------------------------
Txs == [kind : {"stake", "unstake"}, farm : Farms, amount : Amounts]
       \union [kind : {"claim"}, farms : SUBSET Farms]

TypeOK ==
    /\ S!TypeOK({"stake", "unstake", "claim", "claimAll"}, Txs)
    /\ chain.tokens \in 0..Tokens /\ chain.user \in [Farms -> BOOLEAN]
    /\ chain.staked \in [Farms -> 0..Tokens] /\ chain.reward \in [Farms -> BOOLEAN]
    /\ chain.claims \in [Farms -> 0..MaxClaims]

\* The checks cover what the program asks for, one farm of a claim list in which the
\* wallet never staked apart: claimAll looks for rewards, not for accounts.
LoneRunNeverRefused ==
    status = "refused" =>
        \/ cmd.moved
        \/ cmd.op = "claimAll" /\ \E f \in cmd.arg.farms : ~cmd.arg.user[f]

\* A claimAll that ends has claimed, from every farm of the list, the reward that was
\* there when it looked, although it goes through several transactions.
OkMeansDone ==
    S!Succeeded("claimAll") =>
        \A f \in cmd.arg.farms : cmd.arg.reward[f] => chain.claims[f] > cmd.arg.claims[f]
=============================================================================
