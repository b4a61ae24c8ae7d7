------------------------------- MODULE AlphaVault -------------------------------
(***************************************************************************)
(* studio/src/lib/alpha_vault: create a vault that is open to all or that  *)
(* is permissioned with an authority, who creates the escrow of everybody  *)
(* on its whitelist in batches (handleSendTxs), and what a participant     *)
(* does: deposit, withdraw, claim and close the escrow, take the unused    *)
(* quote back, and crank the vault's purchase.  The vault's address        *)
(* follows from its creator and the pool.                                  *)
(***************************************************************************)
EXTENDS Integers, Sequences, FiniteSets, SequencesExt

CONSTANTS
    Kinds,              \* the vaults: [mode : Modes, whitelist : WhitelistModes]
    Whitelist,          \* addresses an authority serves; "me" is this wallet
    BatchSize,          \* escrows per transaction
    Cap, MaxCap,        \* of this wallet; of a first-come-first-served vault
    Tokens,             \* quote tokens of the wallet at first
    Fills,              \* transactions that fill the vault
    MaxRuns, MaxLate

VARIABLES chain, cmd, queue, late, status

Modes          == {"fcfs", "prorata"}
WhitelistModes == {"permissionless", "merkle", "authority"}

\* The phases of the vault, VaultState.
Depositing == 1
Purchasing == 2
Locking    == 3
Vesting    == 4
Ended      == 5

Amounts    == 1..Tokens

NoEscrow == [open |-> FALSE, dep |-> 0, claimed |-> 0, refunded |-> FALSE]

-----------------------------------------------------------------------------
(* interactionState, of the SDK *)

Quota(c) ==
    IF c.mode = "fcfs" THEN Min({Cap - c.me.dep, MaxCap - c.total})
    ELSE IF c.whitelist = "permissionless" THEN Tokens ELSE Cap - c.me.dep

CanDeposit(c, proof) ==
    /\ c.phase = Depositing /\ Quota(c) > 0
    /\ CASE c.whitelist = "permissionless" -> TRUE
         [] c.whitelist = "merkle"         -> proof
         [] c.whitelist = "authority"      -> c.me.open

CanWithdraw(c)   == c.mode = "prorata" /\ c.phase = Depositing /\ c.me.dep > 0
CanTakeUnused(c) == c.phase >= Locking /\ c.filled < Fills /\ ~c.me.refunded
CanFill(c)       == c.phase = Purchasing /\ c.filled < Fills

\* Half of what was bought is vested while vesting, all of it at the end.
Claimable(c) ==
    IF c.me.dep = 0 \/ c.phase < Vesting THEN 0 ELSE (c.phase - Locking) - c.me.claimed

-----------------------------------------------------------------------------
Accepts(c, t) ==
    CASE t.kind = "create"   -> ~c.vault
      [] t.kind = "escrows"  -> c.vault /\ t.batch \intersect c.served = {}
      [] t.kind = "deposit"  -> CanDeposit(c, t.proof) /\ t.amount <= Min({Quota(c), c.tokens})
      [] t.kind = "withdraw" -> CanWithdraw(c) /\ t.amount <= c.me.dep
      [] t.kind = "claim"    -> c.me.open /\ c.phase >= Vesting
      [] t.kind = "close"    -> c.me.open /\ c.phase = Ended /\ Claimable(c) = 0
      [] t.kind = "unused"   -> c.me.open /\ CanTakeUnused(c)
      [] t.kind = "fill"     -> CanFill(c)

Effect(c, t) ==
    CASE t.kind = "create"   -> [c EXCEPT !.vault = TRUE]
      [] t.kind = "escrows"  -> [c EXCEPT !.served = @ \union t.batch,
                                          !.me.open = @ \/ "me" \in t.batch]
      [] t.kind = "deposit"  -> [c EXCEPT !.me.open = TRUE, !.me.dep = @ + t.amount,
                                          !.total = @ + t.amount, !.tokens = @ - t.amount]
      [] t.kind = "withdraw" -> [c EXCEPT !.me.dep = @ - t.amount, !.total = @ - t.amount,
                                          !.tokens = @ + t.amount]
      [] t.kind = "claim"    -> [c EXCEPT !.me.claimed = @ + Claimable(c)]
      [] t.kind = "close"    -> [c EXCEPT !.me = NoEscrow]
      [] t.kind = "unused"   -> [c EXCEPT !.me.refunded = TRUE]
      [] t.kind = "fill"     -> [c EXCEPT !.filled = @ + 1]

Resumes == {"authority", "claim+close", "crank"}
Forgives == {}
S == INSTANCE Submission

-----------------------------------------------------------------------------
Init == \E kind \in Kinds :
    S!Begin([vault |-> FALSE, mode |-> kind.mode, whitelist |-> kind.whitelist,
             phase |-> Depositing - 1, served |-> {}, me |-> NoEscrow, total |-> 0,
             filled |-> 0,
             tokens |-> Tokens])

\* An existing vault is not looked for.
Create(ok) == S!Command("create", [exists |-> chain.vault], ok, <<[kind |-> "create"]>>)

CreateFcfsAlphaVault(fields) == chain.mode = "fcfs" /\ Create(fields)

CreateProrataAlphaVault == chain.mode = "prorata" /\ Create(TRUE)

\* Variant: an incomplete last batch is not sent.
BatchesFull(l) ==
    [i \in 1..(Len(l) \div BatchSize) |->
        [kind |-> "escrows",
         batch |-> ToSet(SubSeq(l, (i - 1) * BatchSize + 1, i * BatchSize))]]

\* handleSendTxs.
Batches(l) ==
    [i \in 1..((Len(l) + BatchSize - 1) \div BatchSize) |->
        [kind |-> "escrows",
         batch |-> ToSet(SubSeq(l, (i - 1) * BatchSize + 1, Min({i * BatchSize, Len(l)})))]]

\* The escrows of the whole whitelist are built on every run; the program refuses those
\* that are there, and the second one of somebody who is listed twice.
Again == [again |-> ToSet(Whitelist) \intersect chain.served # {} \/ ~IsInjective(Whitelist)]

CreateWithAuthority(whitelisted) ==
    IF chain.vault
    THEN S!Command("escrows", Again, whitelisted, Batches(Whitelist))
    ELSE S!Command("authority", "none", whitelisted, <<[kind |-> "create"]>>)

\* AlphaVault.create wants the vault on chain, where a dry run has not put it.
AuthorityGoesOn == /\ cmd.op = "authority"
                   /\ S!Resume("escrows", Again, chain.vault, Batches(Whitelist))

\* createAlphaVault: by the whitelist the configuration asks for.  The whitelist file is
\* wanted by the permissioned modes; AlphaVaultWhitelist has the one with Merkle proofs.
CreateAlphaVault(given) ==
    CASE chain.whitelist = "permissionless" ->
           CreateFcfsAlphaVault(given) \/ (given /\ CreateProrataAlphaVault)
      [] chain.whitelist = "authority" -> CreateWithAuthority(given)
      [] OTHER -> given /\ ~chain.vault /\ Create(TRUE)

-----------------------------------------------------------------------------
\* loadAlphaVault
Loaded == chain.vault

\* Variant: the amount is not compared with the quota.
DepositUnchecked(a, proof) ==
    S!Command("deposit", [short |-> a > chain.tokens],
              /\ Loaded /\ (chain.whitelist = "merkle" => proof)
              /\ CanDeposit(chain, proof),
              <<[kind |-> "deposit", amount |-> a, proof |-> proof]>>)

\* The balance of the quote token is left to the program.
Deposit(a, proof) ==
    S!Command("deposit", [short |-> a > chain.tokens],
              /\ Loaded /\ (chain.whitelist = "merkle" => proof)
              /\ CanDeposit(chain, proof) /\ a <= Quota(chain),
              <<[kind |-> "deposit", amount |-> a, proof |-> proof]>>)

Withdraw(a) ==
    S!Command("withdraw", "none",
              Loaded /\ chain.me.open /\ CanWithdraw(chain) /\ a <= chain.me.dep,
              <<[kind |-> "withdraw", amount |-> a]>>)

\* A dry run does not go on to close the escrow.
Claim(close) ==
    S!Command(IF close THEN "claim+close" ELSE "claim", "none",
              Loaded /\ chain.me.open /\ Claimable(chain) > 0, <<[kind |-> "claim"]>>)

FullyClaimed == chain.phase = Ended /\ Claimable(chain) = 0

CloseEscrowWhenDone ==
    /\ cmd.op = "claim+close"
    /\ S!Resume("closed", "none", TRUE,
                IF ~cmd.dry /\ FullyClaimed THEN <<[kind |-> "close"]>> ELSE <<>>)

WithdrawRemainingQuote ==
    S!Command("unused", "none", Loaded /\ chain.me.open /\ CanTakeUnused(chain),
              <<[kind |-> "unused"]>>)

FillTxs == IF CanFill(chain) THEN <<[kind |-> "fill"]>> ELSE <<>>

\* One transaction after the other until the SDK has none to offer; a dry run stops after
\* the first.
CrankFill == S!Command("crank", "none", Loaded, FillTxs)

CrankGoesOn == /\ cmd.op = "crank"
               /\ S!Resume("crank", "none", TRUE, IF cmd.dry THEN <<>> ELSE FillTxs)

-----------------------------------------------------------------------------
PhasePasses  == chain.vault /\ chain.phase < Ended /\ S!World([chain EXCEPT !.phase = @ + 1])
OthersCrank  == CanFill(chain) /\ S!World([chain EXCEPT !.filled = @ + 1])
OthersDeposit == /\ chain.vault /\ chain.phase = Depositing /\ chain.total = 0
                 /\ S!World([chain EXCEPT !.total = 1])

Next ==
    \/ PhasePasses \/ OthersCrank \/ OthersDeposit \/ S!Step
    \/ AuthorityGoesOn
    \/ \E given \in BOOLEAN : CreateAlphaVault(given)
    \/ \E a \in Amounts : Withdraw(a) \/ \E proof \in BOOLEAN : Deposit(a, proof)
    \/ \E close \in BOOLEAN : Claim(close)
    \/ CloseEscrowWhenDone \/ WithdrawRemainingQuote \/ CrankFill \/ CrankGoesOn

Spec == Init /\ [][Next]_S!vars

-----------------------------------------------------------------------------
Ops == {"create", "authority", "escrows", "deposit", "withdraw", "claim", "claim+close",
        "closed", "unused", "crank"}

Txs == [kind : {"create", "claim", "close", "unused", "fill"}]
       \union [kind : {"escrows"}, batch : SUBSET ToSet(Whitelist)]
       \union [kind : {"deposit"}, amount : Amounts, proof : BOOLEAN]
       \union [kind : {"withdraw"}, amount : Amounts]

TypeOK ==
    /\ S!TypeOK(Ops, Txs)
    /\ [mode |-> chain.mode, whitelist |-> chain.whitelist] \in Kinds
    /\ chain.vault \in BOOLEAN /\ chain.phase \in 0..Ended /\ chain.filled \in 0..Fills
    /\ chain.served \subseteq ToSet(Whitelist) /\ chain.tokens \in 0..Tokens
    /\ chain.me.dep \in 0..Tokens /\ chain.total \in chain.me.dep..(Tokens + 1)
    /\ chain.me.claimed \in 0..2

\* Alone, a run is refused only for what it leaves to the program: a vault or an escrow
\* that is there already, somebody listed twice, a balance that is short.
LoneRunNeverRefused ==
    status = "refused" =>
        \/ cmd.moved
        \/ cmd.op = "create" /\ cmd.arg.exists
        \/ cmd.op = "escrows" /\ cmd.arg.again
        \/ cmd.op = "deposit" /\ cmd.arg.short

\* A crank that ends well, alone, leaves nothing to fill; an authority's run leaves nobody
\* of the list without escrow; and a claim that was to close the escrow leaves none that
\* could be closed.
OkMeansDone ==
    /\ S!Succeeded("escrows") => ToSet(Whitelist) \subseteq chain.served
    /\ ~cmd.moved =>
         /\ S!Succeeded("crank") => ~CanFill(chain)
         /\ S!Succeeded("closed") => ~(chain.me.open /\ FullyClaimed)
=============================================================================
