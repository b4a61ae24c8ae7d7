------------------------------ MODULE Stake2Earn ------------------------------
(***************************************************************************)
(* studio/src/lib/damm_v1/stake2earn.ts, the stakers' commands on a        *)
(* stake-for-fee farm: stake, claim fees, ask for an unstake, cancel or    *)
(* withdraw it.  A request to unstake lives in an account of its own whose *)
(* key is generated by the run that sends it (the number of that run) and  *)
(* printed; the later commands are given a key, or list the open requests  *)
(* and stop.                                                               *)
(***************************************************************************)
EXTENDS Integers, Sequences, FiniteSets

CONSTANTS
    Tokens,             \* what the wallet owns at first
    LockTime, LastTime, \* the farm's unstakeLockDuration; the clock's bound
    MaxRuns, MaxLate

VARIABLES chain, cmd, queue, late, status

Amounts == 1..Tokens

Request(c, k) == CHOOSE u \in c.requests : u.key = k
Keys(c)       == {u.key : u \in c.requests}

Accepts(c, t) ==
    CASE t.kind = "stake"    -> c.farm /\ t.amount <= c.tokens
      [] t.kind = "claim"    -> c.escrow
      [] t.kind = "unstake"  -> c.escrow /\ t.amount <= c.staked /\ t.key \notin Keys(c)
      [] t.kind = "cancel"   -> t.key \in Keys(c)
      [] t.kind = "withdraw" -> t.key \in Keys(c) /\ Request(c, t.key).at <= c.now

Effect(c, t) ==
    CASE t.kind = "stake"    -> [c EXCEPT !.tokens = @ - t.amount, !.staked = @ + t.amount,
                                          !.escrow = TRUE]
      [] t.kind = "claim"    -> [c EXCEPT !.fees = 0]
      [] t.kind = "unstake"  -> [c EXCEPT !.staked = @ - t.amount,
                                          !.requests = @ \union {[key |-> t.key,
                                              amount |-> t.amount, at |-> c.now + LockTime]}]
      [] t.kind = "cancel"   -> LET u == Request(c, t.key)
                                IN  [c EXCEPT !.staked = @ + u.amount, !.requests = @ \ {u}]
      [] t.kind = "withdraw" -> LET u == Request(c, t.key)
                                IN  [c EXCEPT !.tokens = @ + u.amount, !.requests = @ \ {u}]

Resumes == {}
Forgives == {}
S == INSTANCE Submission

-----------------------------------------------------------------------------
Init == \E farm \in BOOLEAN :
    S!Begin([farm |-> farm, tokens |-> Tokens, escrow |-> FALSE, staked |-> 0,
             fees |-> 0, requests |-> {}, now |-> 0])

\* loadStakeForFee: every command but the status wants the farm's vault.
Loaded == chain.farm

\* assertHoldsAtLeast; the escrow is created by the same transaction.
Stake(a) ==
    S!Command("stake", "none", Loaded /\ chain.tokens >= a,
              <<[kind |-> "stake", amount |-> a]>>)

ClaimFee ==
    S!Command("claim", "none", Loaded /\ chain.escrow /\ chain.fees > 0, <<[kind |-> "claim"]>>)

\* Variant: the amount is not compared with the stake.
UnstakeStartUnchecked(a) ==
    S!Command("unstake", "none", Loaded /\ chain.escrow,
              <<[kind |-> "unstake", amount |-> a, key |-> cmd.n + 1]>>)

UnstakeStart(a) ==
    S!Command("unstake", "none", Loaded /\ chain.escrow /\ a <= chain.staked,
              <<[kind |-> "unstake", amount |-> a, key |-> cmd.n + 1]>>)

\* resolveUnstakeKey: without a key (0) the open requests are listed and the run ends.
ResolveUnstakeKey(k) == k # 0 /\ k \in Keys(chain)

CancelUnstake(k) ==
    S!Command("cancel", "none", Loaded /\ ResolveUnstakeKey(k),
              <<[kind |-> "cancel", key |-> k]>>)

\* The clock that is compared is the one read with the farm.
WithdrawUnstake(k) ==
    S!Command("withdraw", "none",
              Loaded /\ ResolveUnstakeKey(k) /\ Request(chain, k).at <= chain.now,
              <<[kind |-> "withdraw", key |-> k]>>)

Tick       == chain.now < LastTime /\ S!World([chain EXCEPT !.now = @ + 1])
FeesAccrue == chain.staked > 0 /\ chain.fees = 0 /\ S!World([chain EXCEPT !.fees = 1])
FarmOpens  == ~chain.farm /\ S!World([chain EXCEPT !.farm = TRUE])

Next ==
    \/ ClaimFee \/ Tick \/ FeesAccrue \/ FarmOpens \/ S!Step
    \/ \E a \in Amounts : Stake(a) \/ UnstakeStart(a)
    \/ \E k \in 0..cmd.n : CancelUnstake(k) \/ WithdrawUnstake(k)

Spec == Init /\ [][Next]_S!vars

-----------------------------------------------------------------------------
Txs == [kind : {"claim"}] \union [kind : {"stake"}, amount : Amounts]
       \union [kind : {"unstake"}, amount : Amounts, key : 1..MaxRuns]
       \union [kind : {"cancel", "withdraw"}, key : 1..MaxRuns]

TypeOK ==
    /\ S!TypeOK({"stake", "claim", "unstake", "cancel", "withdraw"}, Txs)
    /\ chain.farm \in BOOLEAN /\ chain.escrow \in BOOLEAN /\ chain.fees \in 0..1
    /\ chain.tokens \in 0..Tokens /\ chain.staked \in 0..Tokens /\ chain.now \in 0..LastTime
    /\ chain.requests \subseteq [key : 1..MaxRuns, amount : Amounts,
                                 at : 0..(LastTime + LockTime)]

\* The checks cover what the farm's program asks for: a transaction of a run during which
\* nobody else and no late transaction moved the chain is not refused.
LoneRunNeverRefused == status = "refused" => cmd.moved
=============================================================================
