-------------------------------- MODULE Presale --------------------------------
(***************************************************************************)
(* studio/src/lib/presale_vault: create a presale, buy into it through one *)
(* escrow per registry, take deposits, refunds and tokens out, close the   *)
(* escrows, and the creator's side once the raise is over.  What a presale *)
(* permits in each phase is the SDK's wrapper and the program, which agree *)
(* on a given chain; a command asks the wrapper of the chain it has read.  *)
(***************************************************************************)
EXTENDS Integers, Sequences, FiniteSets, SequencesExt

CONSTANTS
    Sales,              \* the presales: [mode : Modes, whitelist : Whitelists,
                        \*   disableWithdraw : BOOLEAN]
    Start, End,         \* of the presale; deposits are open from Start to before End
    MinCap, MaxCap,     \* of the whole presale
    Least, Most,        \* deposit caps of a buyer, by registry
    Quote,              \* what the wallet owns at first
    LastTime, MaxRuns, MaxLate

VARIABLES chain, cmd, queue, late, status

Modes      == {"Fcfs", "Prorata", "FixedPrice"}
Whitelists == {"permissionless", "merkle", "authority"}
Registries == DOMAIN Most
Amounts    == 1..Quote
Vested     == LastTime - End + 1          \* steps of the vesting

NoEscrow == [open |-> FALSE, dep |-> 0, claimed |-> 0, refunded |-> FALSE]

-----------------------------------------------------------------------------
(* The presale's wrapper, on a chain *)

Progress(c) ==
    CASE c.now < Start -> "NotStarted"
      [] c.now >= Start /\ c.now < End -> "Ongoing"
      [] OTHER -> IF c.total >= MinCap THEN "Completed" ELSE "Failed"

Resolved(c)    == Progress(c) \in {"Completed", "Failed"}
CanDeposit(c)  == Progress(c) = "Ongoing" /\ (c.mode = "Prorata" \/ c.total < MaxCap)
CanWithdraw(c) == Progress(c) = "Ongoing" /\ c.mode # "Fcfs" /\ ~c.disableWithdraw
CanClaim(c)    == Progress(c) = "Completed"
CanCreatorWithdraw(c)   == Resolved(c) /\ ~c.paid
CanCreatorCollectFee(c) == Progress(c) = "Completed" /\ ~c.feePaid

Remaining(c, r) ==
    IF c.mode = "Prorata" THEN Most[r] - c.esc[r].dep
    ELSE Min({Most[r] - c.esc[r].dep, MaxCap - c.total})

\* Of a completed prorata raise everybody gets back the part above the cap.
Overflow(c, r) ==
    IF c.mode = "Prorata" /\ c.total > MaxCap
    THEN c.esc[r].dep - (c.esc[r].dep * MaxCap) \div c.total ELSE 0

Refundable(c, r) ==
    CASE Progress(c) = "Failed"    -> c.esc[r].dep
      [] Progress(c) = "Completed" -> IF c.esc[r].refunded THEN 0 ELSE Overflow(c, r)
      [] OTHER -> 0

Claimable(c, r) == IF c.esc[r].dep > 0 THEN (c.now - End + 1) - c.esc[r].claimed ELSE 0

CanClose(c, r) ==
    /\ c.esc[r].open
    /\ \/ Progress(c) \in {"Ongoing", "Failed"} /\ c.esc[r].dep = 0
       \/ /\ Progress(c) = "Completed" /\ Refundable(c, r) = 0
          /\ c.esc[r].dep = 0 \/ c.esc[r].claimed = Vested

-----------------------------------------------------------------------------
Accepts(c, t) ==
    CASE t.kind = "initialize" -> t.end > c.now /\ t.start < t.end
      [] t.kind = "deposit" ->
           /\ CanDeposit(c) /\ t.amount <= Remaining(c, t.r) /\ t.amount <= c.quote
           /\ c.esc[t.r].open \/ t.create
      [] t.kind = "withdraw" -> CanWithdraw(c) /\ t.amount <= c.esc[t.r].dep
      [] t.kind = "claim"    -> CanClaim(c) /\ c.esc[t.r].open /\ Claimable(c, t.r) > 0
      [] t.kind = "refund"   -> Refundable(c, t.r) > 0
      [] t.kind = "close"    -> CanClose(c, t.r)
      [] t.kind = "creator"  -> CanCreatorWithdraw(c)
      [] t.kind = "fee"      -> CanCreatorCollectFee(c)
      [] t.kind = "unsold"   -> Resolved(c) /\ ~c.unsold

Effect(c, t) ==
    CASE t.kind = "initialize" -> [c EXCEPT !.made = @ + 1]
      [] t.kind = "deposit"  -> [c EXCEPT !.esc[t.r].open = TRUE, !.esc[t.r].dep = @ + t.amount,
                                          !.quote = @ - t.amount, !.total = @ + t.amount]
      [] t.kind = "withdraw" -> [c EXCEPT !.esc[t.r].dep = @ - t.amount, !.quote = @ + t.amount,
                                          !.total = @ - t.amount]
      [] t.kind = "claim"    -> [c EXCEPT !.esc[t.r].claimed = c.now - End + 1]
      [] t.kind = "refund"   ->
           [c EXCEPT !.quote = @ + Refundable(c, t.r), !.esc[t.r].refunded = TRUE,
                     !.esc[t.r].dep = IF Progress(c) = "Failed" THEN 0 ELSE @]
      [] t.kind = "close"    -> [c EXCEPT !.esc[t.r] = NoEscrow]
      [] t.kind = "creator"  -> [c EXCEPT !.paid = TRUE]
      [] t.kind = "fee"      -> [c EXCEPT !.feePaid = TRUE]
      [] t.kind = "unsold"   -> [c EXCEPT !.unsold = TRUE]

Resumes == {}
Forgives == {}
S == INSTANCE Submission

-----------------------------------------------------------------------------
Init == \E sale \in Sales :
    S!Begin([mode |-> sale.mode, whitelist |-> sale.whitelist,
             disableWithdraw |-> sale.disableWithdraw, now |-> 0,
             esc |-> [r \in Registries |-> NoEscrow], total |-> 0, quote |-> Quote,
             paid |-> FALSE, feePaid |-> FALSE, unsold |-> FALSE, made |-> 0])

\* assertPresaleTimesAreValid; 0 means at once.
TimesAreValid(start, end) == end > chain.now /\ (start = 0 \/ end > start)

\* A presale is made under a fresh key; valid are the fields its type asks for.
CreateVault(valid, start, end) ==
    S!Command("create", "none", TimesAreValid(start, end) /\ valid,
              <<[kind |-> "initialize", start |-> start, end |-> end]>>)

CreateFcfsPresaleVault(fields, start, end) == CreateVault(fields, start, end)

CreateProrataPresaleVault(start, end) == CreateVault(TRUE, start, end)

CreateFixedPricePresaleVault(price, start, end) == CreateVault(price, start, end)

\* Both permissioned kinds are not implemented.
CreatePermissionedPresaleVault(start, end) == CreateVault(FALSE, start, end)

\* createPresaleVault: by the type the configuration asks for.
CreatePresaleVault(start, end) ==
    \/ CreateProrataPresaleVault(start, end)
    \/ CreatePermissionedPresaleVault(start, end)
    \/ \E given \in BOOLEAN : \/ CreateFcfsPresaleVault(given, start, end)
                            \/ CreateFixedPricePresaleVault(given, start, end)

\* An escrow the deposit has to create: only of registry 0 when the presale is open to
\* everybody, with the proof its server publishes, or by the operator and never here.
MayOpen(r, proof) ==
    \/ chain.whitelist = "permissionless" /\ r = 0
    \/ chain.whitelist = "merkle" /\ proof

DepositTxs(a, r) ==
    <<[kind |-> "deposit", r |-> r, amount |-> a,
       create |-> r \in Registries /\ ~chain.esc[r].open]>>

\* What the checks leave out: the balance of the quote token, and for a wallet's first
\* deposit what is left of the presale's own cap.
Short(a) == [short |-> a > chain.quote \/ (chain.mode # "Prorata" /\ a > MaxCap - chain.total)]

\* Variant: the cap of an existing escrow is that of the registry.
DepositToCap(a, r, proof) ==
    S!Command("deposit", Short(a),
              /\ CanDeposit(chain) /\ r \in Registries /\ a \in Least[r]..Most[r]
              /\ chain.esc[r].open \/ MayOpen(r, proof),
              DepositTxs(a, r))

Deposit(a, r, proof) ==
    S!Command("deposit", Short(a),
              /\ CanDeposit(chain) /\ r \in Registries
              /\ a <= (IF chain.esc[r].open THEN Remaining(chain, r) ELSE Most[r])
              /\ a >= Least[r]
              /\ chain.esc[r].open \/ MayOpen(r, proof),
              DepositTxs(a, r))

Withdraw(a, r) ==
    S!Command("withdraw", "none",
              /\ r \in Registries /\ chain.esc[r].open
              /\ CanWithdraw(chain) /\ a <= chain.esc[r].dep,
              <<[kind |-> "withdraw", r |-> r, amount |-> a]>>)

Claim(r) ==
    S!Command("claim", "none",
              /\ r \in Registries /\ chain.esc[r].open
              /\ CanClaim(chain) /\ Claimable(chain, r) > 0,
              <<[kind |-> "claim", r |-> r]>>)

\* One transaction for each escrow that qualifies, in the order in which the node lists them;
\* none that does is an error.
Sweep(op, eligible) ==
    \E rs \in SetToSeqs(eligible) :
        S!Command(op, "none", eligible # {}, [i \in DOMAIN rs |-> [kind |-> op, r |-> rs[i]]])

\* Variant: only the first escrow.
SweepFirst(op, eligible) ==
    S!Command(op, "none", eligible # {}, <<[kind |-> op, r |-> Min(eligible)]>>)

WithdrawRemainingQuote ==
    Sweep("refund", {r \in Registries : chain.esc[r].open /\ Refundable(chain, r) > 0})

CloseEscrow == Sweep("close", {r \in Registries : CanClose(chain, r)})

\* The fee is collected after the proceeds, on what was read before them.
CreatorWithdraw(creator, collectFee) ==
    S!Command("creator", [collectFee |-> collectFee],
              creator /\ CanCreatorWithdraw(chain),
              <<[kind |-> "creator"]>>
                 \o IF collectFee /\ CanCreatorCollectFee(chain) THEN <<[kind |-> "fee"]>>
                    ELSE <<>>)

HandleUnsold ==
    S!Command("unsold", "none", Resolved(chain) /\ ~chain.unsold, <<[kind |-> "unsold"]>>)

Tick       == chain.now < LastTime /\ S!World([chain EXCEPT !.now = @ + 1])
OthersBuy  == /\ CanDeposit(chain) /\ chain.total < MaxCap + 1
              /\ S!World([chain EXCEPT !.total = @ + 1])

Next ==
    \/ Tick \/ OthersBuy \/ S!Step
    \/ \E start, end \in 0..End : CreatePresaleVault(start, end)
    \/ \E a \in Amounts, r \in Registries \union {Cardinality(Registries)}, proof \in BOOLEAN :
          Deposit(a, r, proof) \/ Withdraw(a, r)
    \/ \E r \in Registries : Claim(r)
    \/ WithdrawRemainingQuote \/ CloseEscrow \/ HandleUnsold
    \/ \E creator, collectFee \in BOOLEAN : CreatorWithdraw(creator, collectFee)

Spec == Init /\ [][Next]_S!vars

-----------------------------------------------------------------------------
Ops == {"create", "deposit", "withdraw", "claim", "refund", "close", "creator", "unsold"}

Txs == [kind : {"initialize"}, start : 0..End, end : 0..End]
       \union [kind : {"deposit"}, r : Registries, amount : Amounts, create : BOOLEAN]
       \union [kind : {"withdraw"}, r : Registries, amount : Amounts]
       \union [kind : {"claim", "refund", "close"}, r : Registries]
       \union [kind : {"creator", "fee", "unsold"}]

TypeOK ==
    /\ S!TypeOK(Ops, Txs)
    /\ [mode |-> chain.mode, whitelist |-> chain.whitelist,
        disableWithdraw |-> chain.disableWithdraw] \in Sales
    /\ chain.now \in 0..LastTime /\ chain.quote \in 0..Quote /\ chain.made \in 0..MaxRuns
    /\ chain.total \in 0..(MaxCap + 1 + Quote)
    /\ \A r \in Registries :
          chain.esc[r].dep \in 0..Most[r] /\ chain.esc[r].claimed \in 0..Vested

\* The checks cover what the program asks for, a deposit apart that the wallet
\* has not the quote for, or that is more than the presale can still take.
LoneRunNeverRefused ==
    status = "refused" => cmd.moved \/ (cmd.op = "deposit" /\ cmd.arg.short)

\* A sweep that ends well, with nobody else about, leaves nothing of its kind to do, and a
\* creator's run that was to collect the fee leaves no fee that could be collected.
OkMeansDone ==
    ~cmd.moved =>
        /\ S!Succeeded("refund") => \A r \in Registries : Refundable(chain, r) = 0
        /\ S!Succeeded("close") => \A r \in Registries : ~CanClose(chain, r)
        /\ S!Succeeded("creator") /\ cmd.arg.collectFee => ~CanCreatorCollectFee(chain)
=============================================================================
