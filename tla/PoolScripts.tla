------------------------------ MODULE PoolScripts ------------------------------
(***************************************************************************)
(* studio/src/actions/*/create_pool and create_alpha_vault: one command    *)
(* that mints the base token (helpers/token.ts) unless --baseMint names    *)
(* one, creates the pool, and creates the pool's Alpha Vault when the      *)
(* configuration has one.  The token's key is that of a file or of the run *)
(* (its number); the pool's address follows from program and mint, the     *)
(* vault's from the pool.  An earlier step is not undone when a later one  *)
(* fails, and the configuration of a step is looked at when its turn       *)
(* comes.  The vault is one transaction here, see AlphaVault for the       *)
(* others.                                                                 *)
(***************************************************************************)
EXTENDS Naturals, Sequences, FiniteSets

CONSTANTS Programs,
          Funded,               \* the programs whose pools are created with deposits
          MaxRuns, MaxLate

VARIABLES chain, cmd, queue, late, status

Filed    == 0                   \* the mint of the keypair file
Existing == MaxRuns + 1         \* a token that was there before
MintKeys == Filed..Existing
NoMint   == MaxRuns + 2         \* nothing on the command line

Mint(c, k)        == CHOOSE m \in c.mints : m.key = k
Known(c, k)       == \E m \in c.mints : m.key = k
HasTokens(c, k)   == Known(c, k) /\ Mint(c, k).supplied
HasPool(c, pr, k) == \E p \in c.pools : p.program = pr /\ p.mint = k

-----------------------------------------------------------------------------
\* There is one pool per address; a vault wants its pool, and of the kind it is told.
Accepts(c, t) ==
    CASE t.kind = "mint"    -> ~Known(c, t.mint)
      [] t.kind = "account" -> Known(c, t.mint)
      [] t.kind = "supply"  -> Known(c, t.mint) /\ Mint(c, t.mint).mine /\ Mint(c, t.mint).account
      [] t.kind = "pool"    -> /\ Known(c, t.mint) /\ ~HasPool(c, t.program, t.mint)
                               /\ t.program \in Funded => HasTokens(c, t.mint)
      [] t.kind = "vault"   -> /\ t.type = t.program
                               /\ [program |-> t.program, mint |-> t.mint,
                                   hasAlphaVault |-> TRUE] \in c.pools
                               /\ <<t.program, t.mint>> \notin c.vaults

SetMint(c, m, n) == [c EXCEPT !.mints = (@ \ {m}) \union {n}]

Effect(c, t) ==
    CASE t.kind = "mint"    -> [c EXCEPT !.mints = @ \union {[key |-> t.mint, mine |-> TRUE,
                                                  account |-> FALSE, supplied |-> FALSE]}]
      [] t.kind = "account" -> LET m == Mint(c, t.mint)
                               IN  SetMint(c, m, [m EXCEPT !.account = TRUE])
      [] t.kind = "supply"  -> LET m == Mint(c, t.mint)
                               IN  SetMint(c, m, [m EXCEPT !.supplied = TRUE, !.mine = FALSE])
      [] t.kind = "pool"    -> [c EXCEPT !.pools = @ \union
                                  {[program |-> t.program, mint |-> t.mint,
                                    hasAlphaVault |-> t.hasAlphaVault]}]
      [] t.kind = "vault"   -> [c EXCEPT !.vaults = @ \union {<<t.program, t.mint>>}]

Resumes  == {"token", "pool+vault"}
Forgives == {}
S == INSTANCE Submission

-----------------------------------------------------------------------------
Init == S!Begin([mints |-> {[key |-> Existing, mine |-> FALSE, account |-> TRUE,
                             supplied |-> TRUE]},
                 pools |-> {}, vaults |-> {}])

\* Variant: the account is taken to be there.
TokenTxsNoAccount(k) == <<[kind |-> "mint", mint |-> k], [kind |-> "supply", mint |-> k]>>

\* createAndMintToken: the mint with its metadata; the wallet's account, which cannot be
\* there yet; the whole supply, with which the wallet gives the mint authority away.
TokenTxs(k) == <<[kind |-> "mint", mint |-> k], [kind |-> "account", mint |-> k],
                 [kind |-> "supply", mint |-> k]>>

\* What is configured of a vault: none, hasAlphaVault alone, an alphaVault block with it.
VaultModes == {"off", "alone", "block"}

\* Variant: no vault.
PoolOpAlone(a) == "pool"

PoolOp(a) == IF a.vault = "block" THEN "pool+vault" ELSE "pool"

PoolTxs(a) == <<[kind |-> "pool", program |-> a.program, mint |-> a.mint,
                 hasAlphaVault |-> a.vault # "off"]>>

\* What stands in the configuration and may be wrong is noted with the command: a keypair
\* that has its mint already, a token without supply, a pool that is there.
Asked(a, wrong) == [a EXCEPT !.wrong = wrong]
PoolWrong(a) == HasPool(chain, a.program, a.mint)
                \/ (a.program \in Funded /\ ~HasTokens(chain, a.mint))

\* createTokenMint does not run dry.
CreateTokenMint(a, described) ==
    /\ S!Command("token", Asked(a, Known(chain, a.mint)), described, TokenTxs(a.mint))
    /\ ~cmd'.dry

NoDryToken(a) == S!Command("token", Asked(a, FALSE), FALSE, <<>>) /\ cmd'.dry

\* configured: the pool's block and the quote mint are there.
CreatePool(a, configured) ==
    S!Command(PoolOp(a), Asked(a, PoolWrong(a)), configured /\ Known(chain, a.mint), PoolTxs(a))

PoolGoesOn(configured) ==
    /\ cmd.op = "token"
    /\ S!Resume(PoolOp(cmd.arg), Asked(cmd.arg, PoolWrong(cmd.arg)), configured,
                PoolTxs(cmd.arg))

VaultTxs(a, type) == <<[kind |-> "vault", program |-> a.program, mint |-> a.mint, type |-> type]>>

\* alphaVault.poolType need not be the pool's; and a dry run has not put the pool there.
VaultGoesOn(type, configured) ==
    /\ cmd.op = "pool+vault"
    /\ S!Resume("vault", Asked(cmd.arg, cmd.dry \/ type # cmd.arg.program), configured,
                VaultTxs(cmd.arg, type))

\* create_alpha_vault derives the pool from alphaVault.poolType and does not look for it.
CreateAlphaVault(program, k) ==
    LET a == [program |-> program, mint |-> k, vault |-> "block", wrong |-> FALSE]
        t == VaultTxs(a, program)
    IN  S!Command("vault", Asked(a, ~Accepts(chain, t[1])), TRUE, t)

\* A script without --baseMint (and createBaseToken with its key in a file or not), or with it.
TokenScript(a, filed, given) ==
    LET t == [a EXCEPT !.mint = IF filed THEN Filed ELSE cmd.n + 1]
    IN  CreateTokenMint(t, given) \/ NoDryToken(t)

Script(a, k, given) == CreatePool([a EXCEPT !.mint = k], given)

\* Whoever holds a token can create its pool; of a new one only the wallet does.
OthersCreatePool ==
    \E pr \in Programs :
        /\ ~HasPool(chain, pr, Existing)
        /\ S!World([chain EXCEPT !.pools = @ \union
                      {[program |-> pr, mint |-> Existing, hasAlphaVault |-> FALSE]}])

Blank == [program : Programs, mint : {Filed}, vault : VaultModes, wrong : {FALSE}]

Next ==
    \/ OthersCreatePool \/ S!Step
    \/ \E given \in BOOLEAN :
          \/ PoolGoesOn(given) \/ \E type \in Programs : VaultGoesOn(type, given)
          \/ \E a \in Blank : \/ \E filed \in BOOLEAN : TokenScript(a, filed, given)
                             \/ \E k \in MintKeys : Script(a, k, given)
    \/ \E program \in Programs, k \in MintKeys : CreateAlphaVault(program, k)

Spec == Init /\ [][Next]_S!vars

-----------------------------------------------------------------------------
Txs == [kind : {"mint", "account", "supply"}, mint : MintKeys]
       \union [kind : {"pool"}, program : Programs, mint : MintKeys, hasAlphaVault : BOOLEAN]
       \union [kind : {"vault"}, program : Programs, mint : MintKeys, type : Programs]

TypeOK ==
    /\ S!TypeOK({"token", "pool", "pool+vault", "vault"}, Txs)
    /\ chain.mints \subseteq [key : MintKeys, mine : BOOLEAN, account : BOOLEAN,
                              supplied : BOOLEAN]
    /\ chain.pools \subseteq [program : Programs, mint : MintKeys, hasAlphaVault : BOOLEAN]
    /\ \A v \in chain.vaults : HasPool(chain, v[1], v[2])

\* A script alone with the chain is refused only for what the operator wrote, or in a dry
\* run whose vault would stand on a pool that was only simulated: in particular a token it
\* has minted itself has the supply its pool needs.
LoneRunNeverRefused == status = "refused" => cmd.moved \/ cmd.arg.wrong

\* A script that reports success has made the pool, and the vault that was asked for.
OkMeansDone ==
    \A op \in {"pool", "vault"} :
        S!Succeeded(op) =>
            /\ HasPool(chain, cmd.arg.program, cmd.arg.mint)
            /\ cmd.arg.vault = "block"
               => <<cmd.arg.program, cmd.arg.mint>> \in chain.vaults
=============================================================================
