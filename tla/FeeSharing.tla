------------------------------- MODULE FeeSharing -------------------------------
(***************************************************************************)
(* studio/src/lib/fee_sharing: create a fee vault, fund it from the        *)
(* wallet, from a DAMM v2 position that was made over to it or from a DBC  *)
(* pool, and claim the wallet's share.  A vault's address comes from a     *)
(* keypair the run generates (the number of that run); it is of the keypair*)
(* or of the PDA kind, and only from the PDA kind can a shareholder sweep a*)
(* position into the vault.  The vaults are of one mint: when that is      *)
(* native SOL, funding wraps it from the balance that also pays the fee.   *)
(***************************************************************************)
EXTENDS Integers, Sequences, FiniteSets

CONSTANTS
    UserShares,         \* feeSharingCreate.userShares: sequences of shares; the wallet is
                        \*   the first recipient, or none
    Tokens,             \* of the wallet at first (lamports when native)
    Fee,                \* what a transaction that wraps SOL costs, rent included, in lamports
    MaxRuns, MaxLate

VARIABLES chain, cmd, queue, late, status

Vault(c, v) == CHOOSE x \in c.vaults : x.key = v
Keys(c)     == {x.key : x \in c.vaults}

SumOf(f) == LET sum[i \in 0..Len(f)] == IF i = 0 THEN 0 ELSE sum[i - 1] + f[i]
            IN  sum[Len(f)]

\* The wallet's part of what the vault has received, in whole tokens.
Due(x) == IF x.mine THEN (x.funded * Head(x.shares)) \div SumOf(x.shares) ELSE 0

ValidShares(shares) ==
    Len(shares) \in 2..5 /\ \A i \in DOMAIN shares : shares[i] > 0

Wallet == 0             \* who owns the DAMM v2 position: the wallet or a vault's key

Sweepable(c, v) == v \in Keys(c) /\ Vault(c, v).pda /\ Vault(c, v).mine

-----------------------------------------------------------------------------
Accepts(c, t) ==
    CASE t.kind = "create"   -> ValidShares(t.shares)
      [] t.kind = "fund"     -> t.v \in Keys(c)
                              /\ t.amount + (IF c.native THEN Fee ELSE 0) <= c.tokens
      [] t.kind = "transfer" -> c.owner = Wallet
      [] t.kind = "sweep"    -> Sweepable(c, t.v) /\ c.owner = t.v
      [] t.kind = "reward"   -> Sweepable(c, t.v) /\ c.owner = t.v /\ t.index \in c.rewards
      [] t.kind = "dbc"      -> t.v \in Keys(c) /\ c.payee = t.v
      [] t.kind = "claim"    -> t.v \in Keys(c) /\ Vault(c, t.v).mine

Funded(c, v, n) ==
    LET x == Vault(c, v) IN [c EXCEPT !.vaults = (@ \ {x}) \union {[x EXCEPT !.funded = @ + n]}]

Effect(c, t) ==
    CASE t.kind = "create" ->
           [c EXCEPT !.vaults = @ \union {[key |-> t.v, pda |-> t.pda, mine |-> t.mine,
                                           shares |-> t.shares, funded |-> 0, claimed |-> 0]}]
      [] t.kind = "fund"     -> Funded([c EXCEPT !.tokens = @ - t.amount], t.v, t.amount)
      [] t.kind = "transfer" -> [c EXCEPT !.owner = t.v]
      [] t.kind \in {"sweep", "reward"} -> Funded([c EXCEPT !.fees = 0], t.v, c.fees)
      [] t.kind = "dbc"      -> Funded(c, t.v, 1)
      [] t.kind = "claim"    ->
           LET x == Vault(c, t.v)
           IN  [c EXCEPT !.tokens = @ + (Due(x) - x.claimed),
                         !.vaults = (@ \ {x}) \union {[x EXCEPT !.claimed = Due(x)]}]

Resumes == {}
Forgives == {}
S == INSTANCE Submission

-----------------------------------------------------------------------------
\* payee: the vault that the DBC pool's configuration names, none (0), or -1: no such pool.
Init == \E native \in BOOLEAN :
    S!Begin([vaults |-> {}, owner |-> Wallet, fees |-> 0, rewards |-> {}, payee |-> -1,
             tokens |-> Tokens, native |-> native])

\* Variant: nothing is asked of the shares.
CreateVaultUnchecked(shares, pda, mine) ==
    S!Command("create", "none", TRUE,
              <<[kind |-> "create", v |-> cmd.n + 1, shares |-> shares, pda |-> pda,
                 mine |-> mine]>>)

CreateVault(shares, pda, mine) ==
    S!Command("create", "none", ValidShares(shares),
              <<[kind |-> "create", v |-> cmd.n + 1, shares |-> shares, pda |-> pda,
                 mine |-> mine]>>)

\* Both balances, that of SOL and that of a token account, are compared with the amount: the
\* little more that rent and fees take is not asked for.
Fund(v, a) ==
    S!Command("fund", [short |-> chain.native /\ ~(a + Fee <= chain.tokens)],
              v \in Keys(chain) /\ a <= chain.tokens,
              <<[kind |-> "fund", v |-> v, amount |-> a]>>)

\* The positions are those of the wallet: one that the vault owns already is not found.
\* The kind of the vault is not looked at.
TransferDammV2PositionToVault(v) ==
    S!Command("transfer", [owned |-> v \in Keys(chain) /\ chain.owner = v],
              v \in Keys(chain) /\ chain.owner = Wallet, <<[kind |-> "transfer", v |-> v]>>)

\* assertVaultSupportsClaimingFeeBridge, then findVaultOwnedDammV2Position.
CanBridge(v) == Sweepable(chain, v) /\ chain.owner = v

FundFromDammV2(v) == S!Command("sweep", "none", CanBridge(v), <<[kind |-> "sweep", v |-> v]>>)

FundFromDammV2Reward(v, index) ==
    S!Command("reward", "none", CanBridge(v) /\ index \in {0, 1} \intersect chain.rewards,
              <<[kind |-> "reward", v |-> v, index |-> index]>>)

\* role and source select the program's instruction; whether the pool pays this vault is
\* left to the program.
FundFromDbc(v, valid) ==
    S!Command("dbc", [barred |-> chain.payee # v],
              valid /\ v \in Keys(chain) /\ chain.payee # -1,
              <<[kind |-> "dbc", v |-> v]>>)

ClaimShare(v) ==
    S!Command("claim", "none",
              v \in Keys(chain) /\ Vault(chain, v).mine
                 /\ Due(Vault(chain, v)) > Vault(chain, v).claimed,
              <<[kind |-> "claim", v |-> v]>>)

FeesAccrue  == chain.fees = 0 /\ S!World([chain EXCEPT !.fees = 2])
RewardOpens == chain.rewards = {} /\ S!World([chain EXCEPT !.rewards = {0}])
PoolOpens   == /\ chain.payee = -1
               /\ \E v \in Keys(chain) \union {0} : S!World([chain EXCEPT !.payee = v])

Next ==
    \/ FeesAccrue \/ RewardOpens \/ PoolOpens \/ S!Step
    \/ \E shares \in UserShares, pda, mine \in BOOLEAN : CreateVault(shares, pda, mine)
    \/ \E v \in 1..MaxRuns :
          \/ TransferDammV2PositionToVault(v) \/ FundFromDammV2(v) \/ ClaimShare(v)
          \/ \E a \in 1..Tokens : Fund(v, a)
          \/ \E index \in 0..2 : FundFromDammV2Reward(v, index)
          \/ \E valid \in BOOLEAN : FundFromDbc(v, valid)

Spec == Init /\ [][Next]_S!vars

-----------------------------------------------------------------------------
RunKeys == 1..MaxRuns
Most    == Tokens + 3 * MaxRuns

Txs == [kind : {"create"}, v : RunKeys, shares : UserShares, pda : BOOLEAN, mine : BOOLEAN]
       \union [kind : {"fund"}, v : RunKeys, amount : 1..Tokens]
       \union [kind : {"transfer", "sweep", "dbc", "claim"}, v : RunKeys]
       \union [kind : {"reward"}, v : RunKeys, index : 0..2]

TypeOK ==
    /\ S!TypeOK({"create", "fund", "transfer", "sweep", "reward", "dbc", "claim"}, Txs)
    /\ chain.owner \in {Wallet} \union Keys(chain) /\ chain.fees \in 0..2
    /\ chain.rewards \subseteq {0, 1} /\ chain.payee \in {-1, 0} \union Keys(chain)
    /\ chain.tokens \in 0..Most /\ chain.native \in BOOLEAN
    /\ \A x \in chain.vaults : x.claimed \in 0..x.funded /\ x.funded \in 0..Most

\* The checks cover what the program asks for, two cases apart: whom the DBC pool pays, and
\* a funding with native SOL that leaves too little for rent and fee.
LoneRunNeverRefused ==
    status = "refused" =>
        \/ cmd.moved
        \/ cmd.op = "dbc" /\ cmd.arg.barred
        \/ cmd.op = "fund" /\ cmd.arg.short

\* A wallet that claims alone and ends well has nothing left to claim of that vault.
OkMeansDone ==
    ~cmd.moved /\ S!Succeeded("claim") =>
        \E x \in chain.vaults : x.mine /\ x.claimed = Due(x) /\ Due(x) > 0

\* A transfer that is run again after it went through "no-ops cleanly if the position is
\* already vault-owned".
RetransferIsNoOp == ~(status = "threw" /\ cmd.op = "transfer" /\ cmd.arg.owned)
=============================================================================
