-------------------------------- MODULE DbcPool --------------------------------
(***************************************************************************)
(* studio/src/lib/dbc: create a configuration of the bonding curve, create *)
(* a pool on it, claim the trading fees.  createDbcPool without a given    *)
(* configuration creates one first, in a transaction of its own; each is   *)
(* created under a keypair of the run (here the number of the run), so a   *)
(* run after a failed one leaves another configuration behind.  The        *)
(* migration of a pool is module DbcMigration.                             *)
(***************************************************************************)
EXTENDS Naturals, Sequences, FiniteSets

CONSTANTS Hooks,        \* transfer hook programs, among them NoHook
          NoHook,
          MaxRuns, MaxLate

VARIABLES chain, cmd, queue, late, status

None == 0               \* no configuration given on the command line
Filed == 0              \* the base mint of the keypair file; others are fresh

ConfigKeys(c) == {x.key : x \in c.configs}
HookOf(c, k)  == (CHOOSE x \in c.configs : x.key = k).hook

-----------------------------------------------------------------------------
\* A pool takes the transfer hook of its configuration; there is one pool per base mint.
Accepts(c, t) ==
    CASE t.kind = "config"  -> TRUE
      [] t.kind = "pool"    -> /\ t.config \in ConfigKeys(c) /\ HookOf(c, t.config) = t.hook
                               /\ \A p \in c.pools : p.mint # t.mint
      [] t.kind \in {"creator", "partner"} -> \E p \in c.pools : p.mint = t.mint

Fee(p, role) == IF role = "creator" THEN p.creator ELSE p.partner

Effect(c, t) ==
    CASE t.kind = "config" -> [c EXCEPT !.configs = @ \union {[key |-> t.key, hook |-> t.hook]}]
      [] t.kind = "pool"   ->
           [c EXCEPT !.pools = @ \union {[mint |-> t.mint, config |-> t.config, creator |-> 0,
                                          partner |-> 0]}]
      [] OTHER ->
           LET p    == CHOOSE x \in c.pools : x.mint = t.mint
               left == IF t.max < Fee(p, t.kind) THEN Fee(p, t.kind) - t.max ELSE 0
           IN  [c EXCEPT !.pools = (@ \ {p}) \union
                   {IF t.kind = "creator" THEN [p EXCEPT !.creator = left]
                                          ELSE [p EXCEPT !.partner = left]}]

Resumes  == {"config+pool"}
Forgives == {"pool"}
S == INSTANCE Submission

-----------------------------------------------------------------------------
\* roles: what the wallet is to the pools (creator, claimer of the partner's fees).
Init == \E roles \in SUBSET {"creator", "partner"} :
            S!Begin([configs |-> {}, pools |-> {}, roles |-> roles])

ConfigTx(hook) == <<[kind |-> "config", key |-> cmd.n + 1, hook |-> hook]>>

\* built: a known curve mode and its fields, and a hook only with a Token 2022 mint.
CreateDbcConfig(hook, built) == S!Command("config", "none", built, ConfigTx(hook))

\* Variant: the hook of a configuration created in the same run is not taken over.
PoolHookStated(stated, given, hook) == stated

\* dbcPool.transferHookProgram, or else that of a configuration created in this run.
PoolHook(stated, given, hook) ==
    IF stated = NoHook /\ given = None THEN hook ELSE stated

PoolTx(config, mint, hook) ==
    <<[kind |-> "pool", config |-> config, mint |-> mint, hook |-> hook]>>

\* What stands in the configuration file and may be wrong: a mint that has its pool already,
\* a hook that is not the configuration's, a configuration that is not there.
Wrong(config, mint, hook) ==
    \/ \E p \in chain.pools : p.mint = mint
    \/ config \notin ConfigKeys(chain) \/ HookOf(chain, config) # hook

\* hook: dbcConfig.transferHookProgram, stated: dbcPool.transferHookProgram, described: a
\* metadata uri or an image to upload, which is asked for only when the configuration is there.
CreateDbcPool(given, hook, stated, built, described, filed) ==
    LET mint == IF filed THEN Filed ELSE cmd.n + 1
        own  == PoolHook(stated, given, hook)
    IN  IF given = None
        THEN S!Command("config+pool", [mint |-> mint, hook |-> own, described |-> described,
                                       key |-> cmd.n + 1,
                                       wrong |-> stated \notin {NoHook, hook}],
                       built, ConfigTx(hook))
        ELSE S!Command("pool", [mint |-> mint, wrong |-> Wrong(given, mint, own)],
                       described, PoolTx(given, mint, own))

PoolGoesOn ==
    /\ cmd.op = "config+pool"
    /\ LET a == cmd.arg
       IN  S!Resume("pool", [mint |-> a.mint,
                             wrong |-> a.wrong \/ \E p \in chain.pools : p.mint = a.mint],
                    a.described, PoolTx(a.key, a.mint, a.hook))

\* Variant: the partner's fees only when the wallet is not the creator.
RolesOne == IF "creator" \in chain.roles THEN <<"creator">>
            ELSE IF "partner" \in chain.roles THEN <<"partner">> ELSE <<>>

Roles == (IF "creator" \in chain.roles THEN <<"creator">> ELSE <<>>)
         \o (IF "partner" \in chain.roles THEN <<"partner">> ELSE <<>>)

\* Each role's fees in a transaction of its own, as much as they were when read.
ClaimTradingFee(mint) ==
    LET found == {p \in chain.pools : p.mint = mint}
    IN  S!Command("fees", mint, found # {},
                  IF found = {} THEN <<>>
                  ELSE [i \in DOMAIN Roles |->
                          [kind |-> Roles[i], mint |-> mint,
                           max |-> Fee(CHOOSE p \in found : TRUE, Roles[i])]])

\* Trades leave fees to both.
Trades == \E p \in chain.pools :
            /\ p.creator + p.partner = 0
            /\ S!World([chain EXCEPT !.pools = (@ \ {p}) \union
                                         {[p EXCEPT !.creator = 1, !.partner = 2]}])

Next ==
    \/ Trades \/ PoolGoesOn \/ S!Step
    \/ \E mint \in Filed..MaxRuns : ClaimTradingFee(mint)
    \/ \E hook \in Hooks, built \in BOOLEAN :
          \/ CreateDbcConfig(hook, built)
          \/ \E given \in None..MaxRuns, stated \in Hooks, described, filed \in BOOLEAN :
                CreateDbcPool(given, hook, stated, built, described, filed)

Spec == Init /\ [][Next]_S!vars

-----------------------------------------------------------------------------
RunKeys == 1..MaxRuns

Txs == [kind : {"config"}, key : RunKeys, hook : Hooks]
       \union [kind : {"pool"}, config : RunKeys, mint : Filed..MaxRuns, hook : Hooks]
       \union [kind : {"creator", "partner"}, mint : Filed..MaxRuns, max : 0..2]

TypeOK ==
    /\ S!TypeOK({"config", "config+pool", "pool", "fees"}, Txs)
    /\ chain.configs \subseteq [key : RunKeys, hook : Hooks]
    /\ chain.pools \subseteq [mint : Filed..MaxRuns, config : RunKeys, creator : 0..1,
                              partner : 0..2]
    /\ \A p, q \in chain.pools : p.mint = q.mint => p = q

\* A command that is alone with the chain is refused only for what the operator wrote: in
\* particular a pool made together with its configuration gets the hook it needs.
LoneRunNeverRefused == status = "refused" => cmd.moved \/ (cmd.op = "pool" /\ cmd.arg.wrong)

\* A pool that was announced is there; after a claim alone nothing is left of either role.
OkMeansDone ==
    /\ S!Succeeded("pool") => \E p \in chain.pools : p.mint = cmd.arg.mint
    /\ ~cmd.moved /\ S!Succeeded("fees") =>
          \A p \in chain.pools, role \in chain.roles : p.mint = cmd.arg => Fee(p, role) = 0
=============================================================================
