----------------------------- MODULE DynamicVault -----------------------------
(***************************************************************************)
(* studio/src/lib/dynamic_vault: deposit tokens into the one vault of a    *)
(* mint and withdraw by LP share.  Native SOL is wrapped from the wallet's *)
(* balance, which also pays the fee.  The vault earns: an LP token is      *)
(* worth price tokens, and the price only goes up.                         *)
(***************************************************************************)
EXTENDS Integers, Sequences, FiniteSets

CONSTANTS
    Tokens,             \* tokens (lamports when native) of the wallet at first
    Fee,                \* what a transaction costs, in lamports
    MaxPrice, MaxRuns, MaxLate

VARIABLES chain, cmd, queue, late, status

Amounts == 1..Tokens

Accepts(c, t) ==
    CASE t.kind = "deposit"  -> t.amount + (IF c.native THEN Fee ELSE 0) <= c.tokens
      [] t.kind = "withdraw" -> t.lp <= c.lp

Effect(c, t) ==
    CASE t.kind = "deposit"  -> [c EXCEPT !.tokens = @ - t.amount,
                                          !.lp = @ + t.amount \div c.price]
      [] t.kind = "withdraw" -> [c EXCEPT !.tokens = @ + t.lp * c.price, !.lp = @ - t.lp]

Resumes == {}
Forgives == {}
S == INSTANCE Submission

-----------------------------------------------------------------------------
Init == \E vault, native \in BOOLEAN :
    S!Begin([vault |-> vault, native |-> native, tokens |-> Tokens, lp |-> 0, price |-> 1])

\* Variant: the balance is not looked at.
DepositUnchecked(a) ==
    S!Command("deposit", [native |-> chain.native, left |-> chain.tokens - a], chain.vault,
              <<[kind |-> "deposit", amount |-> a]>>)

\* Both balances, that of SOL and that of a token account, are compared with the amount.
Deposit(a) ==
    S!Command("deposit", [native |-> chain.native, left |-> chain.tokens - a],
              chain.vault /\ a <= chain.tokens,
              <<[kind |-> "deposit", amount |-> a]>>)

\* The amount is in LP units.
Withdraw(a) ==
    S!Command("withdraw", "none", chain.vault /\ a <= chain.lp,
              <<[kind |-> "withdraw", lp |-> a]>>)

VaultEarns == chain.price < MaxPrice /\ S!World([chain EXCEPT !.price = @ + 1])

Next == VaultEarns \/ S!Step \/ \E a \in Amounts : Deposit(a) \/ Withdraw(a)

Spec == Init /\ [][Next]_S!vars

-----------------------------------------------------------------------------
TypeOK ==
    /\ S!TypeOK({"deposit", "withdraw"},
                [kind : {"deposit"}, amount : Amounts]
                    \union [kind : {"withdraw"}, lp : Amounts])
    /\ chain.vault \in BOOLEAN /\ chain.native \in BOOLEAN /\ chain.price \in 1..MaxPrice
    /\ chain.tokens \in 0..(Tokens * MaxPrice) /\ chain.lp \in 0..Tokens

\* The checks cover what the program asks for, one case apart: a deposit of native SOL
\* that leaves less than the fee passes the comparison and is refused.
LoneRunNeverRefused ==
    status = "refused" =>
        \/ cmd.moved
        \/ cmd.op = "deposit" /\ cmd.arg.native /\ cmd.arg.left \in 0..(Fee - 1)
=============================================================================
