------------------------ MODULE StudioCommandsProofs ------------------------
(***************************************************************************)
(* About the single commands of the studio, for every value of their       *)
(* constants: DBC pools, DLMM, presales, alpha vaults and the scripts that *)
(* make pools, and the theorems about all components.                      *)
(***************************************************************************)
EXTENDS StudioPartsProofs

-----------------------------------------------------------------------------
(* DbcPool *)

\* Configurations have the numbers of runs that were made, n so far.
DbcConfigs(n) == [key : 1..n, hook : Hooks]

DbcTx(n) == [kind : {"config"}, key : 1..n, hook : Hooks]
            \union [kind : {"pool"}, config : Int, mint : Int, hook : Hooks]
            \union [kind : {"creator", "partner"}, mint : Int, max : Int]

DbcPools == [mint : Int, config : Int, creator : Int, partner : Int]

DbcChain(n) == [configs : SUBSET DbcConfigs(n), pools : SUBSET DbcPools,
                roles : SUBSET {"creator", "partner"}]

\* What an accepted transaction leaves: a configuration is added, a claim leaves every pool.
LEMMA DbcLands ==
    ASSUME NEW n \in Nat, NEW c \in DbcChain(n), NEW t \in DbcTx(n), DP!Accepts(c, t)
    PROVE  /\ DP!Effect(c, t) \in DbcChain(n)
           /\ t.kind = "config"
              => DP!Effect(c, t).configs = c.configs \union {[key |-> t.key, hook |-> t.hook]}
           /\ t.kind \in {"creator", "partner"}
              => \A p \in c.pools : \E q \in DP!Effect(c, t).pools : q.mint = p.mint
<1> DEFINE d == DP!Effect(c, t)
<1>1. /\ c.configs \subseteq DbcConfigs(n) /\ c.pools \subseteq DbcPools
      /\ c.roles \in SUBSET {"creator", "partner"}
  BY DEF DbcChain
<1>2. CASE t.kind = "config"
  <2> DEFINE x == [key |-> t.key, hook |-> t.hook]
             cs == c.configs \union {x}
  <2>1. x \in DbcConfigs(n)
    BY <1>2 DEF DbcTx, DbcConfigs
  <2>2. d = [c EXCEPT !.configs = cs]
    BY <1>2 DEF DP!Effect, DbcChain
  <2>3. cs \in SUBSET DbcConfigs(n)
    BY <1>1, <2>1
  <2> HIDE DEF cs, d
  <2>4. d \in DbcChain(n) /\ d.configs = cs
    BY <1>1, <2>2, <2>3 DEF DbcChain
  <2> QED BY <1>2, <2>4 DEF d, cs
<1>3. CASE t.kind = "pool"
  <2> DEFINE x == [mint |-> t.mint, config |-> t.config, creator |-> 0, partner |-> 0]
             ps == c.pools \union {x}
  <2>1. x \in DbcPools
    BY <1>3 DEF DbcTx, DbcPools
  <2>2. d = [c EXCEPT !.pools = ps]
    BY <1>3 DEF DP!Effect, DbcChain
  <2>3. ps \in SUBSET DbcPools
    BY <1>1, <2>1
  <2> HIDE DEF ps, d
  <2>4. d \in DbcChain(n)
    BY <1>1, <2>2, <2>3 DEF DbcChain
  <2> QED BY <1>3, <2>4 DEF d
<1>4. CASE t.kind \in {"creator", "partner"}
  <2> DEFINE p == CHOOSE x \in c.pools : x.mint = t.mint
             left == IF t.max < DP!Fee(p, t.kind) THEN DP!Fee(p, t.kind) - t.max ELSE 0
             q == IF t.kind = "creator" THEN [p EXCEPT !.creator = left]
                                        ELSE [p EXCEPT !.partner = left]
             ps == (c.pools \ {p}) \union {q}
  <2>1. p \in c.pools /\ p \in DbcPools
    BY Zenon, <1>1, <1>4 DEF DP!Accepts
  <2>2. left \in Int
    BY <1>4, <2>1 DEF DbcPools, DbcTx, DP!Fee
  <2>3. d = [c EXCEPT !.pools = ps]
    BY <1>4 DEF DP!Effect, DbcChain
  <2> HIDE DEF left, p
  <2>4. q \in DbcPools /\ q.mint = p.mint
    BY <2>1, <2>2 DEF DbcPools
  <2> HIDE DEF q
  <2>5. ps \in SUBSET DbcPools /\ \A x \in c.pools : \E y \in ps : y.mint = x.mint
    BY <1>1, <2>4
  <2> HIDE DEF ps, d
  <2>6. d \in DbcChain(n) /\ d.pools = ps
    BY <1>1, <2>3, <2>5 DEF DbcChain
  <2> QED BY <1>4, <2>5, <2>6 DEF d
<1> QED BY <1>2, <1>3, <1>4 DEF DbcTx

\* The steps of Submission, of DBC commands.
LEMMA DbcSteps ==
    ASSUME DP!S!Step
    PROVE  Steps(DP!Accepts, DP!Effect, DP!Resumes, DP!Forgives)
BY DEF DP!S!Step, DP!S!Land, DP!S!Simulate, DP!S!Forgive, DP!S!Refuse, DP!S!Lose,
       DP!S!Unready, DP!S!LandsLate, DP!S!Expires, DP!S!Command, DP!S!After,
       DP!S!Forgiven, DP!S!Busy, Steps, Takes, Stops, Commanded, Late

\* They keep what is pending, and the chain, of their sets.
LEMMA DbcTyped ==
    ASSUME NEW n \in Nat, Typed(DbcTx(n), DbcChain(n)), DP!S!Step
    PROVE  Typed(DbcTx(n), DbcChain(n))'
<1>0. \A c \in DbcChain(n), t \in DbcTx(n) : DP!Accepts(c, t) => DP!Effect(c, t) \in DbcChain(n)
  BY DbcLands
<1>1. AnyStep(DbcChain(n))
  BY Zenon, <1>0, DbcSteps, TypedHead DEF Steps, AnyStep, Typed, Takes
<1> QED BY <1>1, TypedStep

\* Another run has another configuration.
LEMMA DbcGrows ==
    ASSUME NEW n \in Nat
    PROVE  /\ DbcTx(n) \subseteq DbcTx(n + 1) /\ DbcChain(n) \subseteq DbcChain(n + 1)
           /\ Typed(DbcTx(n), DbcChain(n)) => Typed(DbcTx(n + 1), DbcChain(n + 1))
           /\ Typed(DbcTx(n), DbcChain(n))' => Typed(DbcTx(n + 1), DbcChain(n + 1))'
<1>1. 1..n \subseteq 1..(n + 1)
  OBVIOUS
<1>2. DbcTx(n) \subseteq DbcTx(n + 1)
  BY <1>1 DEF DbcTx
<1>3. DbcConfigs(n) \subseteq DbcConfigs(n + 1)
  BY <1>1 DEF DbcConfigs
<1>4. DbcChain(n) \subseteq DbcChain(n + 1)
  BY <1>3 DEF DbcChain
<1> QED BY <1>2, <1>4, TypedGrows

\* Of a command that is alone: a new configuration is new, the pool made next wants its hook,
\* and fees are claimed from a pool that is there.
DbcAlone ==
    \/ cmd.op = "config" /\ Len(queue) = 1 /\ Head(queue).kind = "config"
    \/ /\ cmd.op = "config+pool" /\ cmd.arg.key \notin DP!ConfigKeys(chain)
       /\ Len(queue) = 1 /\ Head(queue).kind = "config" /\ Head(queue).key = cmd.arg.key
       /\ cmd.arg.wrong \/ Head(queue).hook = cmd.arg.hook
    \/ /\ cmd.op = "pool" /\ Len(queue) = 1
       /\ cmd.dry \/ cmd.arg.wrong \/ DP!Accepts(chain, Head(queue))
    \/ /\ cmd.op = "fees"
       /\ \A i \in DOMAIN queue : /\ queue[i].kind \in {"creator", "partner"}
                                  /\ \E p \in chain.pools : p.mint = queue[i].mint

DbcMade == cmd.arg.key \in DP!ConfigKeys(chain)
           /\ DP!HookOf(chain, cmd.arg.key) = cmd.arg.hook

DbcLone ==
    /\ cmd.op = "config+pool"
       => cmd.arg.key \in Int /\ cmd.arg.mint \in Int /\ cmd.arg.hook \in Hooks
    /\ status = "resumed" => cmd.op = "config+pool"
    /\ status = "running" => cmd.moved \/ DbcAlone
    /\ status = "resumed" => cmd.moved \/ cmd.dry \/ cmd.arg.wrong \/ DbcMade
    /\ status = "refused" => cmd.moved \/ (cmd.op = "pool" /\ cmd.arg.wrong)

DbcInv == Typed(DbcTx(cmd.n), DbcChain(cmd.n)) /\ DbcLone

\* It holds before the first command.
LEMMA DbcInit == ASSUME DP!Init PROVE DbcInv
BY DEF DP!Init, DP!S!Begin, DP!S!NoCommand, DbcInv, Typed, CmdInv, DbcLone, DbcChain

\* What a step of Submission leaves true of a command that is alone.
LEMMA DbcTakes ==
    ASSUME NEW n \in Nat, Typed(DbcTx(n), DbcChain(n)), DbcLone, Takes(DP!Resumes),
           \/ cmd.dry /\ chain' = chain
           \/ /\ ~cmd.dry /\ DP!Accepts(chain, Head(queue))
              /\ chain' = DP!Effect(chain, Head(queue))
    PROVE  DbcLone'
<1>1. /\ queue \in Seq(DbcTx(n)) /\ queue # <<>> /\ queue' = Tail(queue) /\ cmd' = cmd
      /\ status = "running" /\ chain \in DbcChain(n) /\ Head(queue) \in DbcTx(n)
      /\ status' = IF Len(queue) > 1 THEN "running"
                   ELSE IF cmd.op = "config+pool" THEN "resumed" ELSE "ok"
  BY TypedHead DEF Typed, Takes, DP!Resumes
<1>2. CASE cmd.moved
  BY <1>1, <1>2 DEF DbcLone
<1>3. CASE ~cmd.moved /\ Len(queue) > 1
  <2>1. /\ cmd.op = "fees"
        /\ \A i \in DOMAIN queue : /\ queue[i].kind \in {"creator", "partner"}
                                   /\ \E p \in chain.pools : p.mint = queue[i].mint
    BY <1>1, <1>3 DEF DbcLone, DbcAlone
  <2>2. /\ \A i \in DOMAIN Tail(queue) : Tail(queue)[i] = queue[i + 1] /\ i + 1 \in DOMAIN queue
        /\ Head(queue).kind \in {"creator", "partner"}
    BY <1>1, <2>1, QueueRest
  <2>3. \A p \in chain.pools : \E q \in chain'.pools : q.mint = p.mint
    BY <1>1, <2>2, DbcLands
  <2>4. DbcAlone'
    BY <1>1, <2>1, <2>2, <2>3 DEF DbcAlone
  <2> QED BY <1>1, <1>3, <2>1, <2>4 DEF DbcLone
<1>4. CASE ~cmd.moved /\ ~(Len(queue) > 1) /\ cmd.op = "config+pool"
  <2>1. cmd.arg.key \notin DP!ConfigKeys(chain) /\ Head(queue).kind = "config"
        /\ Head(queue).key = cmd.arg.key /\ (cmd.arg.wrong \/ Head(queue).hook = cmd.arg.hook)
    BY <1>1, <1>4 DEF DbcLone, DbcAlone
  <2>2. ASSUME ~cmd.dry, ~cmd.arg.wrong PROVE DbcMade'
    <3>1. chain'.configs = chain.configs \union {[key |-> cmd.arg.key, hook |-> cmd.arg.hook]}
      BY <1>1, <2>1, <2>2, DbcLands
    <3> DEFINE x == CHOOSE y \in chain'.configs : y.key = cmd.arg.key
    <3>2. \E y \in chain'.configs : y.key = cmd.arg.key
      BY Zenon, <3>1
    <3>3. x \in chain'.configs /\ x.key = cmd.arg.key
      BY <3>2
    <3>4. x \notin chain.configs
      BY <2>1, <3>3 DEF DP!ConfigKeys
    <3>5. x.hook = cmd.arg.hook
      BY <3>1, <3>3, <3>4
    <3>6. cmd.arg.key \in DP!ConfigKeys(chain')
      BY <3>2 DEF DP!ConfigKeys
    <3> QED BY <1>1, <3>5, <3>6 DEF DbcMade, DP!HookOf
  <2> QED BY <1>1, <1>4, <2>2 DEF DbcLone
<1>5. CASE ~cmd.moved /\ ~(Len(queue) > 1) /\ cmd.op # "config+pool"
  BY <1>1, <1>5 DEF DbcLone
<1> QED BY <1>2, <1>3, <1>4, <1>5

\* A transaction that is refused met a chain that was moved, or made a pool under a
\* configuration that does not fit.
LEMMA DbcStops ==
    ASSUME NEW n \in Nat, Typed(DbcTx(n), DbcChain(n)), DbcLone,
           Stops(DP!Accepts(chain, Head(queue)), DP!Forgives)
    PROVE  DbcLone'
<1>1. /\ queue \in Seq(DbcTx(n)) /\ queue # <<>> /\ cmd' = cmd
      /\ status = "running" /\ chain' = chain
      /\ status' = "lost" \/ (status' = "refused" /\ ~DP!Accepts(chain, Head(queue))
                              /\ ~(cmd.dry /\ cmd.op = "pool"))
  BY DEF Typed, Stops, DP!Forgives
<1>2. DbcAlone => \/ cmd.op = "pool" /\ (cmd.dry \/ cmd.arg.wrong)
                  \/ DP!Accepts(chain, Head(queue))
  <2>1. queue[1] = Head(queue) /\ 1 \in DOMAIN queue
    BY <1>1, QueueRest
  <2> QED BY Zenon, <2>1 DEF DbcAlone, DP!Accepts
<1> QED BY <1>1, <1>2 DEF DbcLone

\* Every DBC command and every step of others keeps it.
LEMMA DbcStep == ASSUME DbcInv, DP!Next PROVE DbcInv'
<1>1. PICK n \in Nat : n = cmd.n
  BY DEF DbcInv, Typed, CmdInv
<1>2. /\ Typed(DbcTx(n), DbcChain(n)) /\ DbcLone /\ chain \in DbcChain(n)
      /\ Typed(DbcTx(n + 1), DbcChain(n + 1)) /\ CmdInv /\ n + 1 \in Nat
  BY SMTT(30), <1>1, DbcGrows DEF DbcInv, Typed
<1>3. ASSUME Typed(DbcTx(n), DbcChain(n))', cmd'.n \in {n, n + 1}, DbcLone' PROVE DbcInv'
  BY <1>3, DbcGrows DEF DbcInv
<1>4. ASSUME Typed(DbcTx(n + 1), DbcChain(n + 1))', cmd'.n = n + 1, DbcLone' PROVE DbcInv'
  BY <1>4 DEF DbcInv
<1>5. CASE DP!S!Step
  <2>1. Typed(DbcTx(n), DbcChain(n))'
    BY <1>2, <1>5, DbcTyped
  <2>2. Steps(DP!Accepts, DP!Effect, DP!Resumes, DP!Forgives)
    BY <1>5, DbcSteps
  <2>3. cmd'.n \in {n, n + 1}
    BY <1>1, <1>2, <2>2 DEF Steps, Takes, Stops, Commanded, Late, CmdInv
  <2>4. CASE Commanded("unready", "none", FALSE, <<>>)
    BY <1>2, <1>3, <2>1, <2>3, <2>4 DEF Commanded, DbcLone
  <2>5. CASE \E l \in late : Late(l) /\ ((cmd' = [cmd EXCEPT !.moved = TRUE])
                                        \/ (UNCHANGED <<chain, cmd>>))
    BY <1>2, <1>3, <2>1, <2>3, <2>5 DEF Late, DbcLone, DbcAlone, DbcMade, CmdInv
  <2>6. CASE Takes(DP!Resumes) /\ (\/ cmd.dry /\ chain' = chain
                                  \/ /\ ~cmd.dry /\ DP!Accepts(chain, Head(queue))
                                     /\ chain' = DP!Effect(chain, Head(queue)))
    BY <1>2, <1>3, <2>1, <2>3, <2>6, DbcTakes
  <2>7. CASE Stops(DP!Accepts(chain, Head(queue)), DP!Forgives)
    BY <1>2, <1>3, <2>1, <2>3, <2>7, DbcStops
  <2> QED BY Zenon, <2>2, <2>4, <2>5, <2>6, <2>7 DEF Steps
<1>6. CASE DP!Trades
  <2>1. PICK p \in chain.pools :
           Moved([chain EXCEPT !.pools = (chain.pools \ {p}) \union
                                              {[p EXCEPT !.creator = 1, !.partner = 2]}])
    BY Zenon, <1>6 DEF DP!Trades, DP!S!World, Moved
  <2> DEFINE q == [p EXCEPT !.creator = 1, !.partner = 2]
             ps == (chain.pools \ {p}) \union {q}
             c == [chain EXCEPT !.pools = ps]
  <2>2. q \in DbcPools
    <3>1. p \in DbcPools
      BY <1>2 DEF DbcChain
    <3>2. \A a, b \in Int : [p EXCEPT !.creator = a, !.partner = b] \in DbcPools
      BY Zenon, <3>1 DEF DbcPools
    <3>3. 1 \in Int /\ 2 \in Int
      OBVIOUS
    <3> QED BY Zenon, <3>2, <3>3, Zenon
  <2>3. ps \in SUBSET DbcPools
    BY <1>2, <2>2 DEF DbcChain
  <2>4. Moved(c)
    BY <2>1
  <2> HIDE DEF q, ps
  <2>5. c \in DbcChain(n)
    BY <1>2, <2>3 DEF DbcChain
  <2> HIDE DEF c
  <2>6. Typed(DbcTx(n), DbcChain(n))' /\ cmd'.moved /\ cmd'.n = n
    BY <1>1, <1>2, <2>4, <2>5, TypedMoved DEF Moved, CmdInv
  <2> QED BY <1>2, <1>3, <2>4, <2>6 DEF DbcLone, Moved, CmdInv
<1>7. ASSUME NEW hook \in Hooks, NEW built \in BOOLEAN, DP!CreateDbcConfig(hook, built)
      PROVE  DbcInv'
  <2> DEFINE t == [kind |-> "config", key |-> n + 1, hook |-> hook]
  <2>1. Commanded("config", "none", built, <<t>>)
    BY Zenon, <1>1, <1>7 DEF DP!CreateDbcConfig, DP!ConfigTx, DP!S!Command, DP!S!Busy, Commanded
  <2>2. t \in DbcTx(n + 1) /\ t.kind = "config"
    BY DEF DbcTx
  <2> HIDE DEF t
  <2>3. /\ Typed(DbcTx(n + 1), DbcChain(n + 1))' /\ cmd'.n = n + 1 /\ cmd'.op = "config"
        /\ status' \in {"threw", "running"}
        /\ status' = "running" => Len(queue') = 1 /\ Head(queue') = t
    BY <1>1, <1>2, <2>1, <2>2, OneTransaction
  <2> QED BY <1>4, <2>2, <2>3 DEF DbcLone, DbcAlone
<1>8. ASSUME NEW given \in DP!None..MaxScriptRuns, NEW stated \in Hooks, NEW hook \in Hooks,
             NEW built \in BOOLEAN, NEW described \in BOOLEAN, NEW filed \in BOOLEAN,
             DP!CreateDbcPool(given, hook, stated, built, described, filed)
      PROVE  DbcInv'
  <2> DEFINE mint == IF filed THEN DP!Filed ELSE n + 1
             own == DP!PoolHook(stated, given, hook)
  <2>1. given \in Int /\ mint \in Int /\ own \in Hooks
    BY BoundAssumption DEF DP!None, DP!Filed, DP!PoolHook
  <2>2. CASE given = DP!None
    <3> DEFINE t == [kind |-> "config", key |-> n + 1, hook |-> hook]
               arg == [mint |-> mint, hook |-> own, described |-> described, key |-> n + 1,
                       wrong |-> stated \notin {NoHook, hook}]
    <3>1. Commanded("config+pool", arg, built, <<t>>)
      BY <1>1, <1>8, <2>2
         DEF DP!CreateDbcPool, DP!ConfigTx, DP!S!Command, DP!S!Busy, Commanded
    <3>2. /\ t \in DbcTx(n + 1) /\ t.kind = "config" /\ t.key = arg.key /\ t.hook = hook
          /\ arg.key = n + 1 /\ arg.hook = own /\ arg.mint = mint
      BY DEF DbcTx
    <3>3. arg.wrong \/ own = hook
      BY Zenon, <2>2 DEF DP!PoolHook
    <3>4. n + 1 \notin DP!ConfigKeys(chain)
      BY <1>2 DEF DbcChain, DbcConfigs, DP!ConfigKeys
    <3> HIDE DEF t, arg, own, mint
    <3>5. /\ Typed(DbcTx(n + 1), DbcChain(n + 1))' /\ cmd'.n = n + 1 /\ cmd'.op = "config+pool"
          /\ status' \in {"threw", "running"} /\ cmd'.arg = arg /\ chain' = chain
          /\ status' = "running" => Len(queue') = 1 /\ Head(queue') = t
      BY <1>1, <1>2, <3>1, <3>2, OneTransaction
    <3>6. DbcLone'
      BY <2>1, <3>2, <3>3, <3>4, <3>5 DEF DbcLone, DbcAlone
    <3> QED BY <1>4, <3>5, <3>6
  <2>3. CASE given # DP!None
    <3> DEFINE t == [kind |-> "pool", config |-> given, mint |-> mint, hook |-> own]
               arg == [mint |-> mint, wrong |-> DP!Wrong(given, mint, own)]
    <3>1. Commanded("pool", arg, described, <<t>>)
      BY <1>1, <1>8, <2>3
         DEF DP!CreateDbcPool, DP!PoolTx, DP!S!Command, DP!S!Busy, Commanded
    <3>2. t \in DbcTx(n + 1)
      BY <2>1 DEF DbcTx
    <3>3. arg.wrong \/ DP!Accepts(chain, t)
      BY DEF DP!Wrong, DP!Accepts
    <3> HIDE DEF t, arg
    <3>4. /\ Typed(DbcTx(n + 1), DbcChain(n + 1))' /\ cmd'.n = n + 1 /\ cmd'.op = "pool"
          /\ status' \in {"threw", "running"} /\ cmd'.arg = arg /\ chain' = chain
          /\ status' = "running" => Len(queue') = 1 /\ Head(queue') = t
      BY <1>1, <1>2, <3>1, <3>2, OneTransaction
    <3>5. DbcLone'
      BY <3>3, <3>4 DEF DbcLone, DbcAlone
    <3> QED BY <1>4, <3>4, <3>5
  <2> QED BY <2>2, <2>3
<1>9. CASE DP!PoolGoesOn
  <2> DEFINE a == cmd.arg
             t == [kind |-> "pool", config |-> a.key, mint |-> a.mint, hook |-> a.hook]
             arg == [mint |-> a.mint, wrong |-> a.wrong \/ \E p \in chain.pools : p.mint = a.mint]
  <2>1. Resumed("pool", arg, a.described, <<t>>) /\ status = "resumed"
    BY <1>9 DEF DP!PoolGoesOn, DP!PoolTx, DP!S!Resume, Resumed
  <2>2. t \in DbcTx(n)
    BY <1>2, <2>1 DEF DbcLone, DbcTx
  <2>3. cmd.moved \/ cmd.dry \/ arg.wrong \/ DP!Accepts(chain, t)
    BY Zenon, <1>2, <2>1 DEF DbcLone, DbcMade, DP!Accepts
  <2>4. <<t>> \in Seq(DbcTx(n)) /\ <<t>> # <<>> /\ Len(<<t>>) = 1 /\ Head(<<t>>) = t
    BY <2>2
  <2> HIDE DEF t, arg
  <2>5. Typed(DbcTx(n), DbcChain(n))'
    BY Zenon, <1>2, <2>1, <2>4, TypedResumed
  <2>6. /\ cmd'.op = "pool" /\ cmd'.arg = arg /\ cmd'.moved = cmd.moved /\ cmd'.dry = cmd.dry
        /\ cmd'.n = n /\ chain' = chain /\ status' \in {"threw", "running"}
        /\ status' = "running" => queue' = <<t>>
    BY <1>1, <1>2, <2>1, <2>4 DEF Resumed, CmdInv
  <2>7. DbcLone'
    BY <2>3, <2>4, <2>6 DEF DbcLone, DbcAlone
  <2> QED BY <1>3, <2>5, <2>6, <2>7
<1>10. ASSUME NEW mint \in DP!Filed..MaxScriptRuns, DP!ClaimTradingFee(mint) PROVE DbcInv'
  <2> DEFINE found == {p \in chain.pools : p.mint = mint}
             r == DP!Roles
             txs == [i \in DOMAIN r |-> [kind |-> r[i], mint |-> mint,
                                         max |-> DP!Fee(CHOOSE p \in found : TRUE, r[i])]]
             qs == IF found = {} THEN <<>> ELSE txs
  <2>1. Commanded("fees", mint, found # {}, qs)
    BY Zenon, <1>10 DEF DP!ClaimTradingFee, DP!S!Command, DP!S!Busy, Commanded
  <2>2. r \in Seq({"creator", "partner"})
    <3> DEFINE x == IF "creator" \in chain.roles THEN <<"creator">> ELSE <<>>
               y == IF "partner" \in chain.roles THEN <<"partner">> ELSE <<>>
    <3> DEFINE roles == {"creator", "partner"}
    <3>0. "creator" \in roles /\ "partner" \in roles
      OBVIOUS
    <3> HIDE DEF roles
    <3>1. x \in Seq(roles) /\ y \in Seq(roles)
      <4>1. <<"creator">> \in Seq(roles) /\ <<"partner">> \in Seq(roles) /\ <<>> \in Seq(roles)
        BY <3>0
      <4> QED BY <4>1
    <3>2. r = x \o y
      BY DEF DP!Roles
    <3> HIDE DEF x, y, r
    <3> QED BY <3>1, <3>2 DEF roles
  <2>3. mint \in Int
    BY BoundAssumption DEF DP!Filed
  <2>4. ASSUME found # {}
        PROVE  /\ qs \in Seq(DbcTx(n + 1))
               /\ \A i \in DOMAIN qs : /\ qs[i].kind \in {"creator", "partner"}
                                       /\ qs[i].mint = mint
    <3> DEFINE p == CHOOSE p \in found : TRUE
    <3>1. p \in DbcPools
      BY <1>2, <2>4 DEF DbcChain
    <3> HIDE DEF r, found, p
    <3>2. \A i \in DOMAIN r : r[i] \in {"creator", "partner"}
      BY <2>2
    <3>3. \A i \in DOMAIN r :
             [kind |-> r[i], mint |-> mint, max |-> DP!Fee(p, r[i])] \in DbcTx(n + 1)
      BY <2>3, <3>1, <3>2 DEF DbcTx, DP!Fee, DbcPools
    <3>4. qs = [i \in DOMAIN r |-> [kind |-> r[i], mint |-> mint, max |-> DP!Fee(p, r[i])]]
      BY <2>4 DEF p
    <3>5. DOMAIN r = 1..Len(r) /\ Len(r) \in Nat
      BY <2>2
    <3> HIDE DEF qs
    <3> QED BY <3>2, <3>3, <3>4, <3>5
  <2> HIDE DEF qs
  <2>5. Typed(DbcTx(n + 1), DbcChain(n + 1))'
    BY Zenon, <1>2, <2>1, <2>4, TypedCommanded
  <2>6. /\ cmd'.op = "fees" /\ cmd'.n = n + 1 /\ chain' = chain
        /\ status' \in {"threw", "running", "ok"}
        /\ status' = "running" => found # {} /\ queue' = qs
    BY <1>1, <2>1 DEF Commanded
  <2>7. found # {} => \E p \in chain.pools : p.mint = mint
    OBVIOUS
  <2> HIDE DEF found
  <2>8. DbcLone'
    BY <2>4, <2>6, <2>7 DEF DbcLone, DbcAlone
  <2> QED BY <1>4, <2>5, <2>6, <2>8
<1> QED BY <1>5, <1>6, <1>7, <1>8, <1>9, <1>10 DEF DP!Next

-----------------------------------------------------------------------------
(* Dlmm *)

DlmmSides == {"ask", "bid", "other"}
DlmmBins  == {DL!OrderBins(side, asked) : side \in DlmmSides, asked \in AskedBins}

DlmmTx == [kind : {"create"}, type : {"limits", "plain"}]
          \union [kind : {"status"}, enabled : BOOLEAN] \union [kind : {"seed"}]
          \union {t \in [kind : {"place"}, key : Int, side : DlmmSides, bins : DlmmBins,
                        asked : AskedBins] : t.bins = DL!OrderBins(t.side, t.asked)}
          \union [kind : {"cancel"}, key : Int] \union [kind : {"claim"}, position : Positions]

\* The amounts of an order are those of its entries.
DlmmOrders == {o \in [key : Int, side : DlmmSides, bins : DlmmBins, asked : AskedBins] :
                  o.bins = DL!OrderBins(o.side, o.asked)}

DlmmRecord == [pool : {"none", "limits", "plain"}, enabled : BOOLEAN, seeded : Int,
               orders : SUBSET DlmmOrders, held : SUBSET Positions, fees : SUBSET Positions]

\* Fees lie on positions that the wallet holds; there are finitely many of everything.
DlmmChain == {c \in DlmmRecord : /\ c.fees \subseteq c.held
                                 /\ IsFiniteSet(c.fees) /\ IsFiniteSet(c.orders)}

\* What an accepted transaction leaves: a cancelled order is gone and no other, a claim
\* leaves the position.
LEMMA DlmmLands ==
    ASSUME NEW c \in DlmmChain, NEW t \in DlmmTx, DL!Accepts(c, t)
    PROVE  /\ DL!Effect(c, t) \in DlmmChain
           /\ t.kind = "cancel" => DL!Keys(DL!Effect(c, t)) = DL!Keys(c) \ {t.key}
           /\ t.kind = "claim" => DL!Effect(c, t).held = c.held
<1> DEFINE d == DL!Effect(c, t)
<1>1. /\ c \in DlmmRecord /\ c.fees \subseteq c.held /\ IsFiniteSet(c.fees)
      /\ IsFiniteSet(c.orders) /\ c.orders \subseteq DlmmOrders /\ c.fees \subseteq Positions
      /\ c.seeded \in Int
  BY DEF DlmmChain, DlmmRecord
<1>2. CASE t.kind = "create"
  <2> DEFINE v == t.type
  <2>1. v \in {"none", "limits", "plain"}
    BY <1>2 DEF DlmmTx
  <2>2. d = [c EXCEPT !.pool = v]
    BY <1>2 DEF DL!Effect
  <2> HIDE DEF v, d
  <2>3. d \in DlmmRecord /\ d.fees = c.fees /\ d.held = c.held /\ d.orders = c.orders
    BY <1>1, <2>1, <2>2 DEF DlmmRecord
  <2> QED BY <1>1, <1>2, <2>3 DEF DlmmChain, d
<1>3. CASE t.kind = "status"
  <2> DEFINE v == t.enabled
  <2>1. v \in BOOLEAN
    BY <1>3 DEF DlmmTx
  <2>2. d = [c EXCEPT !.enabled = v]
    BY <1>3 DEF DL!Effect
  <2> HIDE DEF v, d
  <2>3. d \in DlmmRecord /\ d.fees = c.fees /\ d.held = c.held /\ d.orders = c.orders
    BY <1>1, <2>1, <2>2 DEF DlmmRecord
  <2> QED BY <1>1, <1>3, <2>3 DEF DlmmChain, d
<1>4. CASE t.kind = "seed"
  <2> DEFINE v == c.seeded + 1
  <2>1. v \in Int
    BY <1>1
  <2>2. d = [c EXCEPT !.seeded = v]
    BY <1>4 DEF DL!Effect
  <2> HIDE DEF v, d
  <2>3. d \in DlmmRecord /\ d.fees = c.fees /\ d.held = c.held /\ d.orders = c.orders
    BY <1>1, <2>1, <2>2 DEF DlmmRecord
  <2> QED BY <1>1, <1>4, <2>3 DEF DlmmChain, d
<1>5. CASE t.kind = "place"
  <2> DEFINE x == [key |-> t.key, side |-> t.side, bins |-> t.bins, asked |-> t.asked]
             v == c.orders \union {x}
  <2>1. x \in DlmmOrders
    BY <1>5 DEF DlmmTx, DlmmOrders
  <2>2. d = [c EXCEPT !.orders = v]
    BY <1>5 DEF DL!Effect
  <2> HIDE DEF x
  <2>3. v \in SUBSET DlmmOrders /\ IsFiniteSet(v)
    BY Zenon, <1>1, <2>1, FS_AddElement
  <2> HIDE DEF v, d
  <2>4. d \in DlmmRecord /\ d.fees = c.fees /\ d.held = c.held /\ d.orders = v
    BY <1>1, <2>2, <2>3 DEF DlmmRecord
  <2> QED BY <1>1, <1>5, <2>3, <2>4 DEF DlmmChain, d
<1>6. CASE t.kind = "cancel"
  <2> DEFINE v == {o \in c.orders : o.key # t.key}
  <2>1. v \subseteq c.orders /\ v \in SUBSET DlmmOrders /\ IsFiniteSet(v)
    <3>1. v \subseteq c.orders
      OBVIOUS
    <3> QED BY <1>1, <3>1, FS_Subset
  <2>2. d = [c EXCEPT !.orders = v]
    BY <1>6 DEF DL!Effect
  <2>3. {o.key : o \in v} = {o.key : o \in c.orders} \ {t.key}
    OBVIOUS
  <2> HIDE DEF v, d
  <2>4. d \in DlmmRecord /\ d.fees = c.fees /\ d.held = c.held /\ d.orders = v
    BY <1>1, <2>1, <2>2 DEF DlmmRecord
  <2>5. DL!Keys(d) = DL!Keys(c) \ {t.key}
    BY <2>3, <2>4 DEF DL!Keys
  <2> QED BY <1>1, <1>6, <2>1, <2>4, <2>5 DEF DlmmChain, d
<1>7. CASE t.kind = "claim"
  <2> DEFINE v == c.fees \ {t.position}
  <2>1. v \subseteq c.fees /\ v \in SUBSET Positions /\ IsFiniteSet(v)
    <3>1. v \subseteq c.fees
      OBVIOUS
    <3> QED BY <1>1, <3>1, FS_Subset
  <2>2. d = [c EXCEPT !.fees = v]
    BY <1>7 DEF DL!Effect
  <2> HIDE DEF v, d
  <2>3. d \in DlmmRecord /\ d.fees = v /\ d.held = c.held /\ d.orders = c.orders
    BY <1>1, <2>1, <2>2 DEF DlmmRecord
  <2> QED BY <1>1, <1>7, <2>1, <2>3 DEF DlmmChain, d
<1> QED BY <1>2, <1>3, <1>4, <1>5, <1>6, <1>7 DEF DlmmTx

\* The steps of Submission, of DLMM commands.
LEMMA DlmmSteps ==
    ASSUME DL!S!Step
    PROVE  Steps(DL!Accepts, DL!Effect, DL!Resumes, DL!Forgives)
BY DEF DL!S!Step, DL!S!Land, DL!S!Simulate, DL!S!Forgive, DL!S!Refuse, DL!S!Lose,
       DL!S!Unready, DL!S!LandsLate, DL!S!Expires, DL!S!Command, DL!S!After,
       DL!S!Forgiven, DL!S!Busy, Steps, Takes, Stops, Commanded, Late

\* They keep what is pending, and the chain, of their sets.
LEMMA DlmmTyped ==
    ASSUME Typed(DlmmTx, DlmmChain), DL!S!Step
    PROVE  Typed(DlmmTx, DlmmChain)'
<1>0. \A c \in DlmmChain, t \in DlmmTx : DL!Accepts(c, t) => DL!Effect(c, t) \in DlmmChain
  BY DlmmLands
<1>1. AnyStep(DlmmChain)
  BY Zenon, <1>0, DlmmSteps, TypedHead DEF Steps, AnyStep, Typed, Takes
<1> QED BY <1>1, TypedStep

\* Of a command that is alone: no order is cancelled twice, and a position with fees is held.
DlmmAlone ==
    \/ /\ cmd.op \notin {"cancel", "claim"} /\ Len(queue) = 1
       /\ (cmd.op = "create" /\ cmd.arg.exists) \/ DL!Accepts(chain, Head(queue))
    \/ /\ cmd.op = "cancel"
       /\ \A i \in DOMAIN queue : /\ queue[i].kind = "cancel"
                                  /\ queue[i].key \in DL!Keys(chain)
                                  /\ \A j \in DOMAIN queue : queue[i].key = queue[j].key => i = j
    \/ /\ cmd.op = "claim"
       /\ \A i \in DOMAIN queue : queue[i].kind = "claim" /\ queue[i].position \in chain.held

DlmmLone ==
    /\ status = "running" => cmd.moved \/ DlmmAlone
    /\ status = "refused" => cmd.moved \/ (cmd.op = "create" /\ cmd.arg.exists)

DlmmInv == Typed(DlmmTx, DlmmChain) /\ DlmmLone

\* It holds before the first command.
LEMMA DlmmInit == ASSUME DL!Init PROVE DlmmInv
<1> DEFINE zero == 0
           true == TRUE
           none == {}
<1>1. chain = [pool |-> "none", enabled |-> true, seeded |-> zero, orders |-> none,
               held |-> none, fees |-> none]
      /\ cmd = DL!S!NoCommand /\ queue = <<>> /\ late = {} /\ status = "idle"
  BY DEF DL!Init, DL!S!Begin
<1>2. /\ zero \in Int /\ true \in BOOLEAN /\ none \in SUBSET DlmmOrders
      /\ none \in SUBSET Positions /\ IsFiniteSet(none) /\ none \subseteq none
  BY FS_EmptySet
<1> HIDE DEF zero, true, none
<1>3. chain \in DlmmChain
  BY <1>1, <1>2 DEF DlmmChain, DlmmRecord
<1> QED BY <1>1, <1>3 DEF DL!S!NoCommand, DlmmInv, Typed, CmdInv, DlmmLone

\* After the first cancel or claim the others still find their orders and positions.
LEMMA DlmmTakes ==
    ASSUME Typed(DlmmTx, DlmmChain), DlmmLone, Takes(DL!Resumes),
           \/ cmd.dry /\ chain' = chain
           \/ /\ ~cmd.dry /\ DL!Accepts(chain, Head(queue))
              /\ chain' = DL!Effect(chain, Head(queue))
    PROVE  DlmmLone'
<1>1. /\ queue \in Seq(DlmmTx) /\ queue # <<>> /\ queue' = Tail(queue) /\ cmd' = cmd
      /\ chain \in DlmmChain /\ Head(queue) \in DlmmTx /\ (cmd.moved \/ DlmmAlone)
      /\ status' = IF Len(queue) > 1 THEN "running" ELSE "ok"
  BY TypedHead DEF Typed, Takes, DL!Resumes, DlmmLone
<1>2. CASE cmd.moved \/ ~(Len(queue) > 1)
  BY <1>1, <1>2 DEF DlmmLone
<1>3. CASE ~cmd.moved /\ Len(queue) > 1
  <2>1. /\ \A i \in DOMAIN Tail(queue) : Tail(queue)[i] = queue[i + 1] /\ i + 1 \in DOMAIN queue
        /\ Head(queue) = queue[1] /\ 1 \in DOMAIN queue
        /\ DOMAIN Tail(queue) \subseteq Int /\ \A i \in DOMAIN Tail(queue) : i + 1 # 1
    BY <1>1, QueueRest
  <2>2. CASE cmd.op = "cancel"
    <3>1. \A i \in DOMAIN queue : /\ queue[i].kind = "cancel"
                                  /\ queue[i].key \in DL!Keys(chain)
                                  /\ \A j \in DOMAIN queue : queue[i].key = queue[j].key => i = j
      BY <1>1, <1>3, <2>2 DEF DlmmAlone
    <3>2. \A k \in DL!Keys(chain) : k # queue[1].key => k \in DL!Keys(chain')
      BY <1>1, <2>1, <3>1, DlmmLands
    <3>3. ASSUME NEW i \in DOMAIN Tail(queue)
          PROVE  /\ Tail(queue)[i].kind = "cancel" /\ Tail(queue)[i].key \in DL!Keys(chain')
                 /\ \A j \in DOMAIN Tail(queue) :
                       Tail(queue)[i].key = Tail(queue)[j].key => i = j
      <4>1. Tail(queue)[i] = queue[i + 1] /\ i + 1 \in DOMAIN queue /\ i + 1 # 1 /\ i \in Int
        BY <2>1
      <4>2. queue[i + 1].key # queue[1].key
        BY <2>1, <3>1, <4>1
      <4>3. \A j \in DOMAIN Tail(queue) : queue[i + 1].key = queue[j + 1].key => i + 1 = j + 1
        BY <2>1, <3>1, <4>1
      <4>4. \A j \in DOMAIN Tail(queue) : j \in Int /\ Tail(queue)[j] = queue[j + 1]
        BY <2>1
      <4> QED BY <3>1, <3>2, <4>1, <4>2, <4>3, <4>4
    <3>4. DlmmAlone'
      BY <1>1, <2>2, <3>3 DEF DlmmAlone
    <3> QED BY <1>1, <1>3, <2>2, <3>4 DEF DlmmLone
  <2>3. CASE cmd.op = "claim"
    <3>1. \A i \in DOMAIN queue : queue[i].kind = "claim" /\ queue[i].position \in chain.held
      BY <1>1, <1>3, <2>3 DEF DlmmAlone
    <3>2. chain'.held = chain.held
      BY <1>1, <2>1, <3>1, DlmmLands
    <3>3. DlmmAlone'
      BY <1>1, <2>1, <2>3, <3>1, <3>2 DEF DlmmAlone
    <3> QED BY <1>1, <1>3, <2>3, <3>3 DEF DlmmLone
  <2>4. CASE cmd.op \notin {"cancel", "claim"}
    BY <1>1, <1>3, <2>4 DEF DlmmAlone
  <2> QED BY <2>2, <2>3, <2>4
<1> QED BY <1>2, <1>3

\* A transaction that is refused met a chain that was moved, or made a pool that exists.
LEMMA DlmmStops ==
    ASSUME Typed(DlmmTx, DlmmChain), DlmmLone,
           Stops(DL!Accepts(chain, Head(queue)), DL!Forgives)
    PROVE  DlmmLone'
<1>1. /\ queue \in Seq(DlmmTx) /\ queue # <<>> /\ cmd' = cmd /\ (cmd.moved \/ DlmmAlone)
      /\ status' = "lost" \/ (status' = "refused" /\ ~DL!Accepts(chain, Head(queue)))
  BY DEF Typed, Stops, DlmmLone
<1>2. queue[1] = Head(queue) /\ 1 \in DOMAIN queue
  BY <1>1, QueueRest
<1>3. DlmmAlone => (cmd.op = "create" /\ cmd.arg.exists) \/ DL!Accepts(chain, Head(queue))
  <2>1. ASSUME DlmmAlone, cmd.op = "cancel" PROVE DL!Accepts(chain, Head(queue))
    <3>1. Head(queue).kind = "cancel" /\ Head(queue).key \in DL!Keys(chain)
      BY <1>2, <2>1 DEF DlmmAlone
    <3> QED BY Zenon, <3>1 DEF DL!Accepts
  <2>2. ASSUME DlmmAlone, cmd.op = "claim" PROVE DL!Accepts(chain, Head(queue))
    <3>1. Head(queue).kind = "claim" /\ Head(queue).position \in chain.held
      BY <1>2, <2>2 DEF DlmmAlone
    <3> QED BY Zenon, <3>1 DEF DL!Accepts
  <2> QED BY <2>1, <2>2 DEF DlmmAlone
<1> QED BY <1>1, <1>3 DEF DlmmLone

\* A command of one transaction that its checks leave to be accepted.
LEMMA DlmmOne ==
    ASSUME DlmmInv, NEW op, op \notin {"cancel", "claim"}, NEW arg, NEW ok, NEW t \in DlmmTx,
           Commanded(op, arg, ok, <<t>>),
           ok => (op = "create" /\ arg.exists) \/ DL!Accepts(chain, t)
    PROVE  DlmmInv'
<1>1. /\ Typed(DlmmTx, DlmmChain)' /\ chain' = chain /\ status' \in {"threw", "running"}
      /\ status' = "running" => ok /\ Len(queue') = 1 /\ Head(queue') = t
      /\ cmd'.op = op /\ cmd'.arg = arg
  BY OneTransaction DEF DlmmInv
<1> QED BY <1>1 DEF DlmmInv, DlmmLone, DlmmAlone

\* The members of a finite set, in some order.
LEMMA OrderOf ==
    ASSUME NEW T, IsFiniteSet(T), NEW s \in DL!SetToSeqs(T)
    PROVE  /\ s \in Seq(T)
           /\ \A i, j \in DOMAIN s : s[i] = s[j] => i = j
<1> DEFINE n == DL!Cardinality(T)
<1>0. n = Cardinality(T)
  BY DEF DL!Cardinality, Cardinality
<1>1. n \in Nat
  BY <1>0, FS_CardinalityType
<1>2. s \in [1..n -> T] /\ \A i, j \in 1..n : i # j => s[i] # s[j]
  BY DEF DL!SetToSeqs
<1> HIDE DEF n
<1> QED BY <1>1, <1>2

\* A command that cancels orders that are there, each once.
LEMMA DlmmCancels ==
    ASSUME DlmmInv, NEW keys \in Seq(DL!Keys(chain)), NEW arg, NEW ok,
           \A i, j \in DOMAIN keys : keys[i] = keys[j] => i = j,
           Commanded("cancel", arg, ok, DL!Cancels(keys))
    PROVE  DlmmInv'
<1> DEFINE txs == DL!Cancels(keys)
<1>1. txs = [i \in DOMAIN keys |-> [kind |-> "cancel", key |-> keys[i]]]
  BY DEF DL!Cancels
<1>2. /\ DOMAIN keys = 1..Len(keys) /\ Len(keys) \in Nat
      /\ \A i \in DOMAIN keys : keys[i] \in DL!Keys(chain)
  OBVIOUS
<1>3. DL!Keys(chain) \subseteq Int
  BY DEF DlmmInv, Typed, DlmmChain, DlmmRecord, DlmmOrders, DL!Keys
<1>4. \A i \in DOMAIN keys : [kind |-> "cancel", key |-> keys[i]] \in DlmmTx
  BY <1>2, <1>3 DEF DlmmTx
<1>5. txs \in Seq(DlmmTx)
  BY <1>1, <1>2, <1>4
<1>6. /\ DOMAIN txs = DOMAIN keys
      /\ \A i \in DOMAIN txs : txs[i].kind = "cancel" /\ txs[i].key = keys[i]
  BY <1>1
<1> HIDE DEF txs
<1>7. Typed(DlmmTx, DlmmChain)'
  BY <1>5, TypedCommanded DEF DlmmInv, txs
<1>8. /\ cmd'.op = "cancel" /\ chain' = chain /\ status' \in {"threw", "running", "ok"}
      /\ status' = "running" => queue' = txs
  BY DEF Commanded, txs
<1>9. status' = "running" => DlmmAlone'
  BY <1>2, <1>6, <1>8 DEF DlmmAlone
<1> QED BY <1>7, <1>8, <1>9 DEF DlmmInv, DlmmLone

\* Every DLMM command and every step of others keeps it.
LEMMA DlmmStep == ASSUME DlmmInv, DL!Next PROVE DlmmInv'
<1>0. /\ Typed(DlmmTx, DlmmChain) /\ chain \in DlmmChain /\ chain \in DlmmRecord /\ DlmmLone
      /\ CmdInv /\ cmd.n \in Nat /\ chain.fees \subseteq chain.held /\ IsFiniteSet(chain.fees)
      /\ IsFiniteSet(chain.orders) /\ chain.fees \subseteq Positions
      /\ chain.held \subseteq Positions
  BY DEF DlmmInv, Typed, DlmmChain, DlmmRecord, CmdInv
<1>1. CASE DL!S!Step
  <2>1. Typed(DlmmTx, DlmmChain)'
    BY <1>0, <1>1, DlmmTyped
  <2>2. Steps(DL!Accepts, DL!Effect, DL!Resumes, DL!Forgives)
    BY <1>1, DlmmSteps
  <2>3. CASE Commanded("unready", "none", FALSE, <<>>)
    BY <1>0, <2>1, <2>3 DEF Commanded, DlmmLone, DlmmInv
  <2>4. CASE \E l \in late : Late(l) /\ ((cmd' = [cmd EXCEPT !.moved = TRUE])
                                        \/ (UNCHANGED <<chain, cmd>>))
    BY <1>0, <2>1, <2>4 DEF Late, DlmmLone, DlmmAlone, CmdInv, DlmmInv
  <2>5. CASE Takes(DL!Resumes) /\ (\/ cmd.dry /\ chain' = chain
                                  \/ /\ ~cmd.dry /\ DL!Accepts(chain, Head(queue))
                                     /\ chain' = DL!Effect(chain, Head(queue)))
    BY <1>0, <2>1, <2>5, DlmmTakes DEF DlmmInv
  <2>6. CASE Stops(DL!Accepts(chain, Head(queue)), DL!Forgives)
    BY <1>0, <2>1, <2>6, DlmmStops DEF DlmmInv
  <2> QED BY Zenon, <2>2, <2>3, <2>4, <2>5, <2>6 DEF Steps
<1>2. CASE DL!FeesAccrue
  <2>1. PICK p \in Positions :
           Moved([chain EXCEPT !.held = chain.held \union {p}, !.fees = chain.fees \union {p}])
    BY Zenon, <1>2 DEF DL!FeesAccrue, DL!S!World, Moved
  <2> DEFINE h == chain.held \union {p}
             f == chain.fees \union {p}
             c == [chain EXCEPT !.held = h, !.fees = f]
  <2>2. /\ h \in SUBSET Positions /\ f \in SUBSET Positions /\ f \subseteq h /\ IsFiniteSet(f)
    BY <1>0, FS_AddElement
  <2>3. Moved(c)
    BY <2>1
  <2> HIDE DEF h, f
  <2>4. c \in DlmmRecord /\ c.held = h /\ c.fees = f /\ c.orders = chain.orders
    BY Zenon, <1>0, <2>2 DEF DlmmRecord
  <2> HIDE DEF c
  <2>5. c \in DlmmChain
    BY <1>0, <2>2, <2>4 DEF DlmmChain
  <2>6. Typed(DlmmTx, DlmmChain)' /\ cmd'.moved
    BY <1>0, <2>3, <2>5, TypedMoved
  <2> QED BY <1>0, <2>3, <2>6 DEF DlmmInv, DlmmLone, Moved, CmdInv
<1>3. ASSUME NEW configured \in BOOLEAN, NEW type \in {"limits", "plain"},
             DL!CreatePermissionlessDlmmPool(configured, type)
      PROVE  DlmmInv'
  <2> DEFINE t == [kind |-> "create", type |-> type]
             arg == [exists |-> chain.pool # "none"]
  <2>1. Commanded("create", arg, configured, <<t>>)
    BY Zenon, <1>3 DEF DL!CreatePermissionlessDlmmPool, DL!S!Command, DL!S!Busy, Commanded
  <2>2. t \in DlmmTx
    BY DEF DlmmTx
  <2>3. arg.exists \/ DL!Accepts(chain, t)
    BY Zenon DEF DL!Accepts
  <2> HIDE DEF t, arg
  <2> QED BY <2>1, <2>2, <2>3, DlmmOne
<1>4. ASSUME NEW rounding \in {"up", "down", "other"}, DL!SeedLiquiditySingleBin(rounding)
      PROVE  DlmmInv'
  <2> DEFINE t == [kind |-> "seed"]
             ok == rounding \in {"up", "down"} /\ chain.pool # "none"
  <2>1. Commanded("seed", "none", ok, <<t>>)
    BY Zenon, <1>4 DEF DL!SeedLiquiditySingleBin, DL!S!Command, DL!S!Busy, Commanded
  <2>2. t \in DlmmTx
    BY DEF DlmmTx
  <2>3. ok => DL!Accepts(chain, t)
    BY DEF DL!Accepts
  <2> HIDE DEF t, ok
  <2> QED BY <2>1, <2>2, <2>3, DlmmOne
<1>5. ASSUME NEW side \in {"ask", "bid", "other"}, NEW asked \in AskedBins,
             DL!PlaceLimitOrder(side, asked)
      PROVE  DlmmInv'
  <2> DEFINE bins == DL!OrderBins(side, asked)
             t == [kind |-> "place", key |-> cmd.n + 1, side |-> side, bins |-> bins,
                   asked |-> asked]
             ok == side \in {"ask", "bid"} /\ Len(asked) \in 1..MaxBins /\ chain.pool = "limits"
  <2>1. Commanded("place", "none", ok, <<t>>)
    BY Zenon, <1>5 DEF DL!PlaceLimitOrder, DL!S!Command, DL!S!Busy, Commanded
  <2>2. bins \in DlmmBins /\ side \in DlmmSides
    BY DEF DlmmBins, DlmmSides
  <2>3. bins = DL!OrderBins(side, asked)
    OBVIOUS
  <2> HIDE DEF bins
  <2>4. /\ t \in [kind : {"place"}, key : Int, side : DlmmSides, bins : DlmmBins,
                  asked : AskedBins]
        /\ t.bins = bins /\ t.side = side /\ t.asked = asked
    BY <1>0, <2>2
  <2>5. t.bins = DL!OrderBins(t.side, t.asked)
    BY Zenon, <2>3, <2>4
  <2> HIDE DEF t
  <2>6. t \in DlmmTx
    BY Zenon, <2>4, <2>5 DEF DlmmTx
  <2> USE DEF t
  <2>7. ok => DL!Accepts(chain, t)
    BY DEF DL!Accepts
  <2> HIDE DEF t, ok
  <2> QED BY <2>1, <2>6, <2>7, DlmmOne
<1>6. ASSUME NEW k \in 1..MaxRuns, DL!CancelOne(k) PROVE DlmmInv'
  <2> DEFINE keys == <<k>>
             ok == k \in DL!Keys(chain)
  <2>1. Commanded("cancel", {k}, ok, DL!Cancels(keys))
    BY Zenon, <1>6 DEF DL!CancelOne, DL!S!Command, DL!S!Busy, Commanded
  <2>2. CASE ok
    <3>1. keys \in Seq(DL!Keys(chain)) /\ \A i, j \in DOMAIN keys : i = j
      BY <2>2
    <3> HIDE DEF keys, ok
    <3> QED BY <2>1, <3>1, DlmmCancels
  <2>3. CASE ~ok
    <3>1. status' = "threw" /\ Typed(DlmmTx, DlmmChain)'
      BY Zenon, <1>0, <2>1, <2>3, TypedCommanded DEF Commanded
    <3> QED BY <3>1 DEF DlmmInv, DlmmLone
  <2> QED BY <2>2, <2>3
<1>7. ASSUME NEW configured \in BOOLEAN, DL!CancelAll(configured) PROVE DlmmInv'
  <2>1. PICK keys \in DL!SetToSeqs(DL!Keys(chain)) :
           Commanded("cancel", DL!Keys(chain), configured /\ chain.pool # "none", DL!Cancels(keys))
    BY Zenon, <1>7 DEF DL!CancelAll, DL!S!Command, DL!S!Busy, Commanded
  <2>2. IsFiniteSet(DL!Keys(chain))
    <3> DEFINE f == [o \in chain.orders |-> o.key]
    <3>1. f \in Surjection(chain.orders, DL!Keys(chain))
      BY DEF DL!Keys, Surjection
    <3> HIDE DEF f
    <3> QED BY <1>0, <3>1, FS_Surjection
  <2>3. keys \in Seq(DL!Keys(chain)) /\ \A i, j \in DOMAIN keys : keys[i] = keys[j] => i = j
    BY <2>2, OrderOf
  <2> QED BY <2>1, <2>3, DlmmCancels
<1>8. ASSUME NEW hitch \in BOOLEAN, DL!ClaimAllFees(hitch) PROVE DlmmInv'
  <2>1. PICK ps \in DL!SetToSeqs(chain.fees) :
           Commanded("claim", [hitch |-> hitch], chain.pool # "none",
                     IF hitch THEN <<>>
                     ELSE [i \in DOMAIN ps |-> [kind |-> "claim", position |-> ps[i]]])
    BY Zenon, <1>8 DEF DL!ClaimAllFees, DL!S!Command, DL!S!Busy, Commanded
  <2>2. ps \in Seq(chain.fees)
    BY <1>0, OrderOf
  <2>3. DOMAIN ps = 1..Len(ps) /\ Len(ps) \in Nat
        /\ \A i \in DOMAIN ps : ps[i] \in chain.held /\ ps[i] \in Positions
    BY <1>0, <2>2
  <2> DEFINE all == [i \in DOMAIN ps |-> [kind |-> "claim", position |-> ps[i]]]
             txs == IF hitch THEN <<>> ELSE all
  <2>4. \A i \in DOMAIN ps : [kind |-> "claim", position |-> ps[i]] \in DlmmTx
    BY <2>3 DEF DlmmTx
  <2>5. /\ all \in Seq(DlmmTx)
        /\ \A i \in DOMAIN all : all[i].kind = "claim" /\ all[i].position \in chain.held
    BY <2>3, <2>4
  <2> HIDE DEF all
  <2>6. txs \in Seq(DlmmTx) /\ (txs # <<>> => txs = all)
    <3>1. <<>> \in Seq(DlmmTx)
      OBVIOUS
    <3> QED BY <2>5, <3>1
  <2> DEFINE ok == chain.pool # "none"
             arg == [hitch |-> hitch]
  <2>7. Commanded("claim", arg, ok, txs)
    BY <2>1 DEF all
  <2> HIDE DEF ok, txs, arg
  <2>8. Typed(DlmmTx, DlmmChain)'
    BY <1>0, <2>6, <2>7, TypedCommanded
  <2>9. /\ cmd'.op = "claim" /\ chain' = chain /\ status' \in {"threw", "running", "ok"}
        /\ status' = "running" => queue' = txs /\ txs # <<>>
    BY <2>7 DEF Commanded
  <2>10. status' = "running" => DlmmAlone'
    BY <2>5, <2>6, <2>9 DEF DlmmAlone
  <2> QED BY <2>8, <2>9, <2>10 DEF DlmmInv, DlmmLone
<1>9. ASSUME NEW configured \in BOOLEAN, NEW enabled \in BOOLEAN,
             DL!SetPoolStatus(configured, enabled)
      PROVE  DlmmInv'
  <2> DEFINE t == [kind |-> "status", enabled |-> enabled]
             ok == configured /\ chain.pool # "none"
  <2>1. Commanded("status", "none", ok, <<t>>)
    BY Zenon, <1>9 DEF DL!SetPoolStatus, DL!S!Command, DL!S!Busy, Commanded
  <2>2. t \in DlmmTx
    BY DEF DlmmTx
  <2>3. ok => DL!Accepts(chain, t)
    BY DEF DL!Accepts
  <2> HIDE DEF t, ok
  <2> QED BY <2>1, <2>2, <2>3, DlmmOne
<1> QED BY <1>1, <1>2, <1>3, <1>4, <1>5, <1>6, <1>7, <1>8, <1>9 DEF DL!Next

-----------------------------------------------------------------------------
(* Presale *)

SaleTx == [kind : {"initialize"}, start : Int, end : Int]
          \union [kind : {"deposit"}, r : PS!Registries, amount : Nat \ {0}, create : BOOLEAN]
          \union [kind : {"withdraw"}, r : PS!Registries, amount : Nat \ {0}]
          \union [kind : {"claim", "refund", "close"}, r : PS!Registries]
          \union [kind : {"creator", "fee", "unsold"}]

SaleEscrows == [open : BOOLEAN, dep : Int, claimed : Int, refunded : BOOLEAN]

SaleRecord == [mode : {"Fcfs", "Prorata", "FixedPrice"}, disableWithdraw : BOOLEAN,
               whitelist : {"permissionless", "merkle", "authority"}, now : Nat,
               esc : [PS!Registries -> SaleEscrows], total : Int, quote : Int,
               paid : BOOLEAN, feePaid : BOOLEAN, unsold : BOOLEAN, made : Int]

\* What is deposited is deposited in an escrow.
SaleChain == {c \in SaleRecord : \A r \in PS!Registries : ~c.esc[r].open => c.esc[r].dep = 0}

\* Transactions of a command of which the second does not mind the first.
SaleApart(t, u) == \/ /\ t.kind \in {"refund", "close"} /\ u.kind = t.kind
                      /\ t.r # u.r
                   \/ t.kind = "creator" /\ u.kind = "fee"

\* What an escrow can have back is a number.
LEMMA SaleRefund ==
    ASSUME NEW c \in SaleChain, NEW r \in PS!Registries PROVE PS!Refundable(c, r) \in Int
<1>1. c.esc[r].dep \in Int /\ c.total \in Int /\ SaleCap \in Nat
  BY SaleAssumption DEF SaleChain, SaleRecord, SaleEscrows
<1>2. PS!Overflow(c, r) \in Int
  <2>1. CASE c.mode = "Prorata" /\ c.total > SaleCap
    <3>1. PICK p \in Int : p = c.esc[r].dep * SaleCap
      BY <1>1
    <3>2. c.total \in Nat \ {0}
      BY <1>1, <2>1
    <3>3. p \div c.total \in Int
      BY <3>1, <3>2
    <3> QED BY <1>1, <2>1, <3>1, <3>3 DEF PS!Overflow
  <2>2. CASE ~(c.mode = "Prorata" /\ c.total > SaleCap)
    BY <2>2 DEF PS!Overflow
  <2> QED BY <2>1, <2>2
<1> QED BY <1>1, <1>2 DEF PS!Refundable

\* The escrow of a registry gets another state.
SaleWith(c, r, e, q, n) ==
    [c EXCEPT !.esc = [c.esc EXCEPT ![r] = e], !.quote = q, !.total = n]

\* What that leaves alone.
LEMMA SaleSet ==
    ASSUME NEW c \in SaleChain, NEW r \in PS!Registries, NEW e \in SaleEscrows,
           ~e.open => e.dep = 0, NEW q \in Int, NEW n \in Int
    PROVE  LET d == SaleWith(c, r, e, q, n)
           IN  /\ d \in SaleChain /\ d.esc[r] = e /\ d.now = c.now /\ d.mode = c.mode
               /\ d.total = n /\ \A s \in PS!Registries : s # r => d.esc[s] = c.esc[s]
<1> DEFINE x == [c.esc EXCEPT ![r] = e]
           d == SaleWith(c, r, e, q, n)
<1>0. d = [c EXCEPT !.esc = x, !.quote = q, !.total = n]
  BY DEF SaleWith
<1>1. /\ c \in SaleRecord /\ c.esc \in [PS!Registries -> SaleEscrows]
      /\ \A s \in PS!Registries : ~c.esc[s].open => c.esc[s].dep = 0
  BY DEF SaleChain, SaleRecord
<1>2. /\ x \in [PS!Registries -> SaleEscrows] /\ x[r] = e
      /\ \A s \in PS!Registries : s # r => x[s] = c.esc[s]
  BY <1>1
<1> HIDE DEF x, d
<1>3. d \in SaleRecord /\ d.esc = x /\ d.now = c.now /\ d.mode = c.mode /\ d.total = n
  BY Zenon, <1>0, <1>1, <1>2 DEF SaleRecord
<1>4. \A s \in PS!Registries : ~d.esc[s].open => d.esc[s].dep = 0
  BY <1>1, <1>2, <1>3
<1> QED BY <1>2, <1>3, <1>4 DEF SaleChain, d, x

\* What an accepted transaction leaves, also for the others of its command.
LEMMA SaleLands ==
    ASSUME NEW c \in SaleChain, NEW t \in SaleTx, PS!Accepts(c, t)
    PROVE  /\ PS!Effect(c, t) \in SaleChain
           /\ \A u \in SaleTx : PS!Accepts(c, u) /\ SaleApart(t, u)
                                => PS!Accepts(PS!Effect(c, t), u)
<1> DEFINE d == PS!Effect(c, t)
           r == t.r
           e == c.esc[r]
<1>1. /\ c \in SaleRecord /\ c.esc \in [PS!Registries -> SaleEscrows]
      /\ c.quote \in Int /\ c.total \in Int /\ c.now \in Nat /\ c.made \in Int
      /\ \A s \in PS!Registries : ~c.esc[s].open => c.esc[s].dep = 0
  BY DEF SaleChain, SaleRecord
<1>2. CASE t.kind = "initialize"
  <2> DEFINE v == c.made + 1
  <2>1. v \in Int
    BY <1>1
  <2>2. d = [c EXCEPT !.made = v]
    BY <1>2 DEF PS!Effect
  <2> HIDE DEF v, d
  <2>3. d \in SaleRecord /\ d.esc = c.esc
    BY <1>1, <2>1, <2>2 DEF SaleRecord
  <2> QED BY <1>1, <1>2, <2>3 DEF SaleChain, SaleApart, d
<1>3. CASE t.kind = "deposit"
  <2> DEFINE a == t.amount
             true == TRUE
             dep == e.dep + a
             x == [e EXCEPT !.open = true, !.dep = dep]
             q == c.quote - a
             n == c.total + a
  <2>1. r \in PS!Registries /\ a \in Int
    BY <1>3 DEF SaleTx
  <2>2. e \in SaleEscrows
    BY <1>1, <2>1
  <2>3. dep \in Int /\ q \in Int /\ n \in Int /\ true \in BOOLEAN
    BY <1>1, <2>1, <2>2 DEF SaleEscrows
  <2>4. d = SaleWith(c, r, x, q, n)
    BY ZenonT(60), <1>1, <1>3, <2>1, <2>2 DEF PS!Effect, SaleRecord, SaleEscrows, SaleWith
  <2> HIDE DEF a, dep, q, n, d, r, e
  <2>5. x \in SaleEscrows /\ x.open = true
    BY Zenon, <2>2, <2>3 DEF SaleEscrows
  <2> HIDE DEF x
  <2>6. d \in SaleChain
    BY <2>1, <2>3, <2>4, <2>5, SaleSet DEF true
  <2> QED BY <1>3, <2>6 DEF SaleApart, d
<1>4. CASE t.kind = "withdraw"
  <2> DEFINE a == t.amount
             dep == e.dep - a
             x == [e EXCEPT !.dep = dep]
             q == c.quote + a
             n == c.total - a
  <2>1. r \in PS!Registries /\ a \in Nat \ {0}
    BY <1>4 DEF SaleTx
  <2>2. e \in SaleEscrows /\ (~e.open => e.dep = 0)
    BY <1>1, <2>1
  <2>3. dep \in Int /\ q \in Int /\ n \in Int
    BY <1>1, <2>1, <2>2 DEF SaleEscrows
  <2>4. d = SaleWith(c, r, x, q, n)
    BY <1>1, <1>4, <2>1, <2>2 DEF PS!Effect, SaleRecord, SaleEscrows, SaleWith
  <2>5. e.open
    <3>1. a <= e.dep
      BY <1>4 DEF PS!Accepts
    <3> HIDE DEF a, e
    <3> QED BY <2>1, <2>2, <3>1 DEF SaleEscrows
  <2> HIDE DEF a, dep, q, n, d, r, e
  <2>6. x \in SaleEscrows /\ x.open = e.open
    BY <2>2, <2>3 DEF SaleEscrows
  <2> HIDE DEF x
  <2>7. d \in SaleChain
    BY Zenon, <2>1, <2>3, <2>4, <2>5, <2>6, SaleSet
  <2> QED BY <1>4, <2>7 DEF SaleApart, d
<1>5. CASE t.kind = "claim"
  <2> DEFINE v == c.now - End + 1
             x == [e EXCEPT !.claimed = v]
  <2>1. r \in PS!Registries /\ v \in Int /\ e.open
    BY <1>1, <1>5, SaleAssumption DEF SaleTx, PS!Accepts
  <2>2. e \in SaleEscrows
    BY <1>1, <2>1
  <2>3. d = [c EXCEPT !.esc = [c.esc EXCEPT ![r] = x]]
    BY <1>1, <1>5, <2>1, <2>2 DEF PS!Effect, SaleRecord, SaleEscrows
  <2>4. d = SaleWith(c, r, x, c.quote, c.total)
    BY Zenon, <1>1, <2>3 DEF SaleRecord, SaleWith
  <2> HIDE DEF v, d, r, e
  <2>5. x \in SaleEscrows /\ x.open = e.open
    BY Zenon, <2>1, <2>2 DEF SaleEscrows
  <2> HIDE DEF x
  <2>6. d \in SaleChain
    BY Zenon, <1>1, <2>1, <2>4, <2>5, SaleSet
  <2> QED BY <1>5, <2>6 DEF SaleApart, d
<1>6. CASE t.kind = "refund"
  <2> DEFINE b == PS!Refundable(c, r)
             q == c.quote + b
             dep == IF PS!Progress(c) = "Failed" THEN 0 ELSE e.dep
             true == TRUE
             x == [e EXCEPT !.refunded = true, !.dep = dep]
  <2>1. r \in PS!Registries
    BY <1>6 DEF SaleTx
  <2>2. e \in SaleEscrows /\ (~e.open => e.dep = 0) /\ b \in Int
    BY <1>1, <2>1, SaleRefund
  <2>3. d = [c EXCEPT !.esc = [c.esc EXCEPT ![r] = x], !.quote = q]
    BY ZenonT(60), <1>1, <1>6, <2>1, <2>2 DEF PS!Effect, SaleRecord, SaleEscrows
  <2>4. d = SaleWith(c, r, x, q, c.total)
    BY Zenon, <1>1, <2>3 DEF SaleRecord, SaleWith
  <2>5. q \in Int /\ dep \in Int /\ (~e.open => dep = 0) /\ true \in BOOLEAN
    BY <1>1, <2>2 DEF SaleEscrows
  <2> HIDE DEF q, dep, true, d, e, r
  <2>6. x \in SaleEscrows /\ x.open = e.open /\ x.dep = dep
    BY Zenon, <2>2, <2>5 DEF SaleEscrows
  <2> HIDE DEF x
  <2>7. /\ d \in SaleChain /\ d.now = c.now /\ d.mode = c.mode /\ d.total = c.total
        /\ \A s \in PS!Registries : s # r => d.esc[s] = c.esc[s]
    <3>1. ~x.open => x.dep = 0
      BY <2>5, <2>6
    <3> QED BY <1>1, <2>1, <2>4, <2>5, <2>6, <3>1, SaleSet
  <2>8. ASSUME NEW u \in SaleTx, PS!Accepts(c, u), SaleApart(t, u) PROVE PS!Accepts(d, u)
    <3>1. u.kind = "refund" /\ u.r # r /\ u.r \in PS!Registries
      BY <1>6, <2>8 DEF SaleApart, SaleTx, r
    <3>2. PS!Refundable(d, u.r) = PS!Refundable(c, u.r)
      BY <2>7, <3>1 DEF PS!Refundable, PS!Overflow, PS!Progress
    <3> QED BY <2>8, <3>1, <3>2 DEF PS!Accepts
  <2> QED BY <2>7, <2>8 DEF d
<1>7. CASE t.kind = "close"
  <2> DEFINE x == PS!NoEscrow
  <2>1. r \in PS!Registries
    BY <1>7 DEF SaleTx
  <2>2. x \in SaleEscrows /\ x.dep = 0
    BY DEF SaleEscrows, PS!NoEscrow
  <2>3. d = [c EXCEPT !.esc = [c.esc EXCEPT ![r] = x]]
    BY <1>1, <1>7, <2>1 DEF PS!Effect, SaleRecord
  <2>4. d = SaleWith(c, r, x, c.quote, c.total)
    BY Zenon, <1>1, <2>3 DEF SaleRecord, SaleWith
  <2> HIDE DEF x, d, r
  <2>5. /\ d \in SaleChain /\ d.now = c.now /\ d.mode = c.mode /\ d.total = c.total
        /\ \A s \in PS!Registries : s # r => d.esc[s] = c.esc[s]
    BY <1>1, <2>1, <2>2, <2>4, SaleSet
  <2>6. ASSUME NEW u \in SaleTx, PS!Accepts(c, u), SaleApart(t, u) PROVE PS!Accepts(d, u)
    <3>1. u.kind = "close" /\ u.r # r /\ u.r \in PS!Registries
      BY <1>7, <2>6 DEF SaleApart, SaleTx, r
    <3>2. PS!Refundable(d, u.r) = PS!Refundable(c, u.r) /\ PS!Progress(d) = PS!Progress(c)
          /\ d.esc[u.r] = c.esc[u.r]
      BY <2>5, <3>1 DEF PS!Refundable, PS!Overflow, PS!Progress
    <3>3. PS!CanClose(d, u.r) <=> PS!CanClose(c, u.r)
      BY <3>2 DEF PS!CanClose
    <3> QED BY <2>6, <3>1, <3>3 DEF PS!Accepts
  <2> QED BY <2>5, <2>6 DEF d
<1>8. CASE t.kind \in {"creator", "fee", "unsold"}
  <2> DEFINE true == TRUE
  <2>1. true \in BOOLEAN
    OBVIOUS
  <2>2. d = IF t.kind = "creator" THEN [c EXCEPT !.paid = true]
            ELSE IF t.kind = "fee" THEN [c EXCEPT !.feePaid = true] ELSE [c EXCEPT !.unsold = true]
    BY <1>8 DEF PS!Effect
  <2> HIDE DEF true, d
  <2>3. /\ d \in SaleRecord /\ d.esc = c.esc /\ d.now = c.now /\ d.total = c.total
        /\ t.kind = "creator" => d.feePaid = c.feePaid
    BY <1>1, <2>1, <2>2 DEF SaleRecord
  <2>4. ASSUME NEW u \in SaleTx, PS!Accepts(c, u), SaleApart(t, u) PROVE PS!Accepts(d, u)
    <3>1. u.kind = "fee" /\ t.kind = "creator"
      BY <1>8, <2>4 DEF SaleApart
    <3> QED BY <2>3, <2>4, <3>1 DEF PS!Accepts, PS!CanCreatorCollectFee, PS!Progress
  <2> QED BY <1>1, <2>3, <2>4 DEF SaleChain, d
<1> QED BY <1>2, <1>3, <1>4, <1>5, <1>6, <1>7, <1>8 DEF SaleTx

\* The steps of Submission, of presale commands.
LEMMA SaleSteps ==
    ASSUME PS!S!Step
    PROVE  Steps(PS!Accepts, PS!Effect, PS!Resumes, PS!Forgives)
BY DEF PS!S!Step, PS!S!Land, PS!S!Simulate, PS!S!Forgive, PS!S!Refuse, PS!S!Lose,
       PS!S!Unready, PS!S!LandsLate, PS!S!Expires, PS!S!Command, PS!S!After,
       PS!S!Forgiven, PS!S!Busy, Steps, Takes, Stops, Commanded, Late

\* They keep what is pending, and the chain, of their sets.
LEMMA SaleTyped ==
    ASSUME Typed(SaleTx, SaleChain), PS!S!Step
    PROVE  Typed(SaleTx, SaleChain)'
<1>0. \A c \in SaleChain, t \in SaleTx : PS!Accepts(c, t) => PS!Effect(c, t) \in SaleChain
  BY SaleLands
<1>1. AnyStep(SaleChain)
  BY Zenon, <1>0, SaleSteps, TypedHead DEF Steps, AnyStep, Typed, Takes
<1> QED BY <1>1, TypedStep

\* Of a command that is alone: everything it still has to send is accepted, whatever of it
\* goes first; a deposit apart that is short.
SaleAll(q) ==
    \A i \in DOMAIN q : /\ PS!Accepts(chain, q[i])
                        /\ \A j \in DOMAIN q : i < j => SaleApart(q[i], q[j])

SaleExcept == cmd.op = "deposit" /\ cmd.arg.short

SaleLone ==
    /\ status = "running" => cmd.moved \/ SaleExcept \/ SaleAll(queue)
    /\ status = "refused" => cmd.moved \/ SaleExcept

SaleInv == Typed(SaleTx, SaleChain) /\ SaleLone

\* It holds before the first command.
LEMMA SaleInit == ASSUME PS!Init PROVE SaleInv
<1>1. PICK sale \in Sales :
         PS!S!Begin([mode |-> sale.mode, whitelist |-> sale.whitelist,
             disableWithdraw |-> sale.disableWithdraw, now |-> 0,
             esc |-> [r \in PS!Registries |-> PS!NoEscrow], total |-> 0, quote |-> Quote,
             paid |-> FALSE, feePaid |-> FALSE, unsold |-> FALSE, made |-> 0])
  BY Zenon DEF PS!Init
<1> DEFINE zero == 0
           false == FALSE
           esc == [r \in PS!Registries |-> PS!NoEscrow]
           m == sale.mode
           w == sale.whitelist
           b == sale.disableWithdraw
<1>2. chain = [mode |-> m, whitelist |-> w, disableWithdraw |-> b, now |-> zero,
               esc |-> esc, total |-> zero, quote |-> Quote,
               paid |-> false, feePaid |-> false, unsold |-> false, made |-> zero]
      /\ cmd = PS!S!NoCommand /\ queue = <<>> /\ late = {} /\ status = "idle"
  BY <1>1 DEF PS!S!Begin
<1>3. /\ m \in {"Fcfs", "Prorata", "FixedPrice"} /\ b \in BOOLEAN
      /\ w \in {"permissionless", "merkle", "authority"}
      /\ zero \in Nat /\ zero \in Int /\ Quote \in Int /\ false \in BOOLEAN
  BY SaleAssumption
<1>4. PS!NoEscrow \in SaleEscrows /\ PS!NoEscrow.dep = 0
  BY DEF SaleEscrows, PS!NoEscrow
<1>5. esc \in [PS!Registries -> SaleEscrows] /\ \A r \in PS!Registries : esc[r].dep = 0
  BY <1>4
<1> HIDE DEF zero, false, esc, m, w, b
<1>6. chain \in SaleRecord /\ chain.esc = esc
  BY <1>2, <1>3, <1>5 DEF SaleRecord
<1>7. chain \in SaleChain
  BY <1>5, <1>6 DEF SaleChain
<1> QED BY <1>2, <1>7 DEF PS!S!NoCommand, SaleInv, Typed, CmdInv, SaleLone

\* After the first transaction the rest of the command is still accepted.
LEMMA SaleTakes ==
    ASSUME Typed(SaleTx, SaleChain), SaleLone, Takes(PS!Resumes),
           \/ cmd.dry /\ chain' = chain
           \/ /\ ~cmd.dry /\ PS!Accepts(chain, Head(queue))
              /\ chain' = PS!Effect(chain, Head(queue))
    PROVE  SaleLone'
<1>1. /\ queue \in Seq(SaleTx) /\ queue # <<>> /\ queue' = Tail(queue) /\ cmd' = cmd
      /\ chain \in SaleChain /\ Head(queue) \in SaleTx
      /\ cmd.moved \/ SaleExcept \/ SaleAll(queue)
      /\ status' \in {"running", "ok"}
  BY TypedHead DEF Typed, Takes, PS!Resumes, SaleLone
<1>2. CASE cmd.moved \/ SaleExcept
  BY <1>1, <1>2 DEF SaleLone, SaleExcept
<1>3. CASE SaleAll(queue)
  <2>1. /\ \A i \in DOMAIN Tail(queue) : Tail(queue)[i] = queue[i + 1] /\ i + 1 \in DOMAIN queue
        /\ Head(queue) = queue[1] /\ 1 \in DOMAIN queue
        /\ \A i \in DOMAIN Tail(queue) : i \in Int /\ 1 < i + 1
        /\ \A i \in DOMAIN queue : queue[i] \in SaleTx
    BY <1>1, QueueRest
  <2>2. ASSUME NEW i \in DOMAIN Tail(queue)
        PROVE  /\ PS!Accepts(chain', Tail(queue)[i])
               /\ \A j \in DOMAIN Tail(queue) : i < j => SaleApart(Tail(queue)[i], Tail(queue)[j])
    <3>1. Tail(queue)[i] = queue[i + 1] /\ i + 1 \in DOMAIN queue /\ i \in Int /\ 1 < i + 1
      BY <2>1
    <3>2. PS!Accepts(chain, queue[i + 1]) /\ SaleApart(queue[1], queue[i + 1])
      BY <1>3, <2>1, <3>1 DEF SaleAll
    <3>3. PS!Accepts(chain', queue[i + 1])
      BY <1>1, <2>1, <3>1, <3>2, SaleLands
    <3>4. ASSUME NEW j \in DOMAIN Tail(queue), i < j PROVE SaleApart(Tail(queue)[i],
       Tail(queue)[j])
      <4>1. Tail(queue)[j] = queue[j + 1] /\ j + 1 \in DOMAIN queue /\ i + 1 < j + 1
        BY <2>1, <3>1, <3>4
      <4> QED BY <1>3, <3>1, <4>1 DEF SaleAll
    <3> QED BY <3>1, <3>3, <3>4
  <2>3. SaleAll(queue)'
    BY <1>1, <2>2 DEF SaleAll
  <2> QED BY <1>1, <2>3 DEF SaleLone
<1> QED BY <1>1, <1>2, <1>3

\* A transaction that is refused met a chain that was moved, or was a deposit that is short.
LEMMA SaleStops ==
    ASSUME Typed(SaleTx, SaleChain), SaleLone,
           Stops(PS!Accepts(chain, Head(queue)), PS!Forgives)
    PROVE  SaleLone'
<1>1. /\ queue \in Seq(SaleTx) /\ queue # <<>> /\ cmd' = cmd
      /\ cmd.moved \/ SaleExcept \/ SaleAll(queue)
      /\ status' = "lost" \/ (status' = "refused" /\ ~PS!Accepts(chain, Head(queue)))
  BY DEF Typed, Stops, SaleLone
<1>2. SaleAll(queue) => PS!Accepts(chain, Head(queue))
  BY <1>1, QueueRest DEF SaleAll
<1> QED BY <1>1, <1>2 DEF SaleLone, SaleExcept

\* A command whose transactions are all accepted, and do not mind each other.
LEMMA SaleCommanded ==
    ASSUME SaleInv, NEW op, NEW arg, NEW ok, NEW txs, Commanded(op, arg, ok, txs),
           ok => /\ txs \in Seq(SaleTx)
                 /\ (op = "deposit" /\ arg.short) \/ SaleAll(txs)
    PROVE  SaleInv'
<1>1. Typed(SaleTx, SaleChain)'
  BY TypedCommanded DEF SaleInv
<1>2. /\ cmd'.op = op /\ cmd'.arg = arg /\ chain' = chain
      /\ status' \in {"threw", "running", "ok"} /\ (status' = "running" => ok /\ queue' = txs)
  BY DEF Commanded
<1>3. ok => (op = "deposit" /\ arg.short) \/ SaleAll(queue)' \/ ~(queue' = txs)
  BY <1>2 DEF SaleAll
<1> QED BY <1>1, <1>2, <1>3 DEF SaleInv, SaleLone, SaleExcept

\* A command of one transaction.
LEMMA SaleOne ==
    ASSUME SaleInv, NEW op, NEW arg, NEW ok, NEW t, Commanded(op, arg, ok, <<t>>),
           ok => /\ t \in SaleTx
                 /\ (op = "deposit" /\ arg.short) \/ PS!Accepts(chain, t)
    PROVE  SaleInv'
<1>1. ok => <<t>> \in Seq(SaleTx)
  OBVIOUS
<1>2. PS!Accepts(chain, t) => SaleAll(<<t>>)
  <2>1. DOMAIN <<t>> = {1} /\ <<t>>[1] = t
    OBVIOUS
  <2> QED BY <2>1 DEF SaleAll
<1> QED BY Zenon, <1>1, <1>2, SaleCommanded

\* The members of a finite set, in some order, of Presale.
LEMMA SaleOrder ==
    ASSUME NEW T, IsFiniteSet(T), NEW s \in PS!SetToSeqs(T)
    PROVE  /\ s \in Seq(T)
           /\ \A i, j \in DOMAIN s : s[i] = s[j] => i = j
<1> DEFINE n == PS!Cardinality(T)
<1>0. n = Cardinality(T)
  BY DEF PS!Cardinality, Cardinality
<1>1. n \in Nat
  BY <1>0, FS_CardinalityType
<1>2. s \in [1..n -> T] /\ \A i, j \in 1..n : i # j => s[i] # s[j]
  BY DEF PS!SetToSeqs
<1> HIDE DEF n
<1> QED BY <1>1, <1>2

\* A refund or a close of all escrows that can have it, each once.
LEMMA SaleSweep ==
    ASSUME SaleInv, NEW op \in {"refund", "close"}, NEW el \in SUBSET PS!Registries,
           \A r \in el : PS!Accepts(chain, [kind |-> op, r |-> r]),
           PS!Sweep(op, el)
    PROVE  SaleInv'
<1>1. PICK rs \in PS!SetToSeqs(el) :
         Commanded(op, "none", el # {}, [i \in DOMAIN rs |-> [kind |-> op, r |-> rs[i]]])
  BY Zenon DEF PS!Sweep, PS!S!Command, PS!S!Busy, Commanded
<1>2. IsFiniteSet(el)
  BY SaleAssumption, FS_Subset DEF PS!Registries
<1>3. rs \in Seq(el) /\ \A i, j \in DOMAIN rs : rs[i] = rs[j] => i = j
  BY <1>2, SaleOrder
<1>4. DOMAIN rs = 1..Len(rs) /\ Len(rs) \in Nat /\ \A i \in DOMAIN rs : rs[i] \in el
  BY <1>3
<1> DEFINE tx(r) == [kind |-> op, r |-> r]
           txs == [i \in DOMAIN rs |-> tx(rs[i])]
<1>5. \A r \in el : tx(r) \in SaleTx /\ tx(r).kind = op /\ tx(r).r = r /\ PS!Accepts(chain, tx(r))
  BY DEF SaleTx
<1> HIDE DEF tx
<1>6. txs \in Seq(SaleTx) /\ DOMAIN txs = DOMAIN rs /\ \A i \in DOMAIN rs : txs[i] = tx(rs[i])
  BY <1>4, <1>5
<1>7. Commanded(op, "none", el # {}, txs)
  BY <1>1 DEF tx
<1> HIDE DEF txs
<1>8. \A i, j \in DOMAIN rs : i < j => i # j
  BY <1>4
<1>9. ASSUME NEW i \in DOMAIN rs, NEW j \in DOMAIN rs, i < j PROVE SaleApart(txs[i], txs[j])
  <2>1. rs[i] # rs[j]
    BY <1>3, <1>8, <1>9
  <2> QED BY <1>4, <1>5, <1>6, <2>1 DEF SaleApart
<1>10. SaleAll(txs)
  BY <1>4, <1>5, <1>6, <1>9 DEF SaleAll
<1> QED BY <1>6, <1>7, <1>10, SaleCommanded

\* Every presale command and every step of others keeps it.
LEMMA SaleStep == ASSUME SaleInv, PS!Next PROVE SaleInv'
<1>0. /\ Typed(SaleTx, SaleChain) /\ chain \in SaleChain /\ chain \in SaleRecord /\ SaleLone
      /\ CmdInv /\ chain.now \in Nat /\ chain.total \in Int /\ chain.quote \in Int
      /\ chain.esc \in [PS!Registries -> SaleEscrows]
      /\ \A r \in PS!Registries : ~chain.esc[r].open => chain.esc[r].dep = 0
  BY DEF SaleInv, Typed, SaleChain, SaleRecord
<1>1. CASE PS!S!Step
  <2>1. Typed(SaleTx, SaleChain)'
    BY <1>0, <1>1, SaleTyped
  <2>2. Steps(PS!Accepts, PS!Effect, PS!Resumes, PS!Forgives)
    BY <1>1, SaleSteps
  <2>3. CASE Commanded("unready", "none", FALSE, <<>>)
    BY <1>0, <2>1, <2>3 DEF Commanded, SaleLone, SaleInv
  <2>4. CASE \E l \in late : Late(l) /\ ((cmd' = [cmd EXCEPT !.moved = TRUE])
                                        \/ (UNCHANGED <<chain, cmd>>))
    BY <1>0, <2>1, <2>4 DEF Late, SaleLone, SaleExcept, SaleAll, CmdInv, SaleInv
  <2>5. CASE Takes(PS!Resumes) /\ (\/ cmd.dry /\ chain' = chain
                                  \/ /\ ~cmd.dry /\ PS!Accepts(chain, Head(queue))
                                     /\ chain' = PS!Effect(chain, Head(queue)))
    BY <1>0, <2>1, <2>5, SaleTakes DEF SaleInv
  <2>6. CASE Stops(PS!Accepts(chain, Head(queue)), PS!Forgives)
    BY <1>0, <2>1, <2>6, SaleStops DEF SaleInv
  <2> QED BY Zenon, <2>2, <2>3, <2>4, <2>5, <2>6 DEF Steps
<1>2. CASE PS!Tick \/ PS!OthersBuy
  <2> DEFINE now == chain.now + 1
             total == chain.total + 1
             c == [chain EXCEPT !.now = now]
             d == [chain EXCEPT !.total = total]
  <2>1. Moved(c) \/ Moved(d)
    BY <1>2 DEF PS!Tick, PS!OthersBuy, PS!S!World, Moved
  <2>2. now \in Nat /\ total \in Int
    BY <1>0
  <2> HIDE DEF now, total
  <2>3. c \in SaleRecord /\ c.esc = chain.esc /\ d \in SaleRecord /\ d.esc = chain.esc
    BY <1>0, <2>2 DEF SaleRecord
  <2> HIDE DEF c, d
  <2>4. c \in SaleChain /\ d \in SaleChain
    BY <1>0, <2>3 DEF SaleChain
  <2>5. Typed(SaleTx, SaleChain)' /\ cmd'.moved
    BY <1>0, <2>1, <2>4, TypedMoved
  <2>6. status' = status
    BY <2>1 DEF Moved
  <2> QED BY <1>0, <2>5, <2>6 DEF SaleInv, SaleLone
<1>3. ASSUME NEW start \in 0..End, NEW end \in 0..End, PS!CreatePresaleVault(start, end)
      PROVE  SaleInv'
  <2> DEFINE t == [kind |-> "initialize", start |-> start, end |-> end]
  <2>1. PICK valid : Commanded("create", "none", PS!TimesAreValid(start, end) /\ valid, <<t>>)
    BY <1>3 DEF PS!CreatePresaleVault, PS!CreateProrataPresaleVault,
       PS!CreatePermissionedPresaleVault, PS!CreateFcfsPresaleVault,
       PS!CreateFixedPricePresaleVault, PS!CreateVault, PS!S!Command, PS!S!Busy, Commanded
  <2>2. t \in SaleTx
    BY DEF SaleTx
  <2>3. PS!TimesAreValid(start, end) => PS!Accepts(chain, t)
    BY <1>0 DEF PS!TimesAreValid, PS!Accepts
  <2> HIDE DEF t
  <2> QED BY Zenon, <2>1, <2>2, <2>3, SaleOne
<1>4. ASSUME NEW a \in PS!Amounts, NEW r, NEW proof \in BOOLEAN, PS!Deposit(a, r, proof)
      PROVE  SaleInv'
  <2> DEFINE t == [kind |-> "deposit", r |-> r, amount |-> a,
                   create |-> r \in PS!Registries /\ ~chain.esc[r].open]
             arg == PS!Short(a)
             ok == /\ PS!CanDeposit(chain) /\ r \in PS!Registries
                   /\ a <= (IF chain.esc[r].open THEN PS!Remaining(chain, r) ELSE CapMost[r])
                   /\ a >= CapLeast[r]
                   /\ chain.esc[r].open \/ PS!MayOpen(r, proof)
  <2>1. Commanded("deposit", arg, ok, <<t>>)
    BY Zenon, <1>4 DEF PS!Deposit, PS!DepositTxs, PS!S!Command, PS!S!Busy, Commanded
  <2>2. a \in Nat \ {0}
    BY SaleAssumption DEF PS!Amounts
  <2>3. ASSUME ok PROVE t \in SaleTx /\ (arg.short \/ PS!Accepts(chain, t))
    <3>1. r \in PS!Registries /\ PS!CanDeposit(chain)
      BY <2>3
    <3>2. t \in SaleTx
      BY <2>2, <3>1 DEF SaleTx
    <3>3. arg.short <=> (a > chain.quote \/ (chain.mode # "Prorata" /\ a > SaleCap - chain.total))
      BY Zenon DEF PS!Short
    <3>4. chain.esc[r].dep \in Int /\ CapMost[r] \in Int /\ SaleCap \in Int
      BY <1>0, <3>1, SaleAssumption DEF SaleEscrows, PS!Registries
    <3>5. ASSUME ~arg.short PROVE a <= PS!Remaining(chain, r) /\ a <= chain.quote
      <4>1. a <= chain.quote /\ (chain.mode = "Prorata" \/ a <= SaleCap - chain.total)
        BY <1>0, <2>2, <3>3, <3>4, <3>5
      <4>2. CASE chain.esc[r].open
        BY <2>3, <4>1, <4>2
      <4>3. CASE ~chain.esc[r].open
        <5> DEFINE x == CapMost[r] - chain.esc[r].dep
                   y == SaleCap - chain.total
        <5>1. a <= x /\ x \in Int /\ y \in Int
          BY <1>0, <2>2, <2>3, <3>1, <3>4, <4>3
        <5>2. PS!Remaining(chain, r) = IF chain.mode = "Prorata" THEN x ELSE PS!Min({x, y})
          BY DEF PS!Remaining
        <5>3. PS!Min({x, y}) \in {x, y}
          <6> HIDE DEF x, y
          <6>1. \E m \in {x, y} : \A n \in {x, y} : m <= n
            BY <5>1
          <6> QED BY <6>1 DEF PS!Min
        <5> HIDE DEF x
        <5> QED BY <4>1, <5>1, <5>2, <5>3
      <4> QED BY <4>2, <4>3
    <3>6. ~arg.short => PS!Accepts(chain, t)
      BY Zenon, <3>1, <3>5 DEF PS!Accepts
    <3> QED BY <3>2, <3>6
  <2> HIDE DEF t, arg, ok
  <2> QED BY <2>1, <2>3, SaleOne
<1>5. ASSUME NEW a \in PS!Amounts, NEW r, PS!Withdraw(a, r) PROVE SaleInv'
  <2> DEFINE t == [kind |-> "withdraw", r |-> r, amount |-> a]
             ok == /\ r \in PS!Registries /\ chain.esc[r].open
                   /\ PS!CanWithdraw(chain) /\ a <= chain.esc[r].dep
  <2>1. Commanded("withdraw", "none", ok, <<t>>)
    BY Zenon, <1>5 DEF PS!Withdraw, PS!S!Command, PS!S!Busy, Commanded
  <2>2. a \in Nat \ {0}
    BY SaleAssumption DEF PS!Amounts
  <2>3. ok => t \in SaleTx
    BY <2>2 DEF SaleTx
  <2>4. ok => PS!Accepts(chain, t)
    BY DEF PS!Accepts
  <2> HIDE DEF t, ok
  <2> QED BY <2>1, <2>3, <2>4, SaleOne
<1>6. ASSUME NEW r \in PS!Registries, PS!Claim(r) PROVE SaleInv'
  <2> DEFINE t == [kind |-> "claim", r |-> r]
             ok == /\ r \in PS!Registries /\ chain.esc[r].open
                   /\ PS!CanClaim(chain) /\ PS!Claimable(chain, r) > 0
  <2>1. Commanded("claim", "none", ok, <<t>>)
    BY Zenon, <1>6 DEF PS!Claim, PS!S!Command, PS!S!Busy, Commanded
  <2>2. t \in SaleTx /\ (ok => PS!Accepts(chain, t))
    BY DEF SaleTx, PS!Accepts
  <2> HIDE DEF t, ok
  <2> QED BY <2>1, <2>2, SaleOne
<1>7. CASE PS!WithdrawRemainingQuote
  <2> DEFINE el == {r \in PS!Registries : chain.esc[r].open /\ PS!Refundable(chain, r) > 0}
  <2>1. PS!Sweep("refund", el) /\ el \in SUBSET PS!Registries
    BY <1>7 DEF PS!WithdrawRemainingQuote
  <2>2. \A r \in el : PS!Accepts(chain, [kind |-> "refund", r |-> r])
    BY DEF PS!Accepts
  <2> HIDE DEF el
  <2> QED BY <2>1, <2>2, SaleSweep
<1>8. CASE PS!CloseEscrow
  <2> DEFINE el == {r \in PS!Registries : PS!CanClose(chain, r)}
  <2>1. PS!Sweep("close", el) /\ el \in SUBSET PS!Registries
    BY <1>8 DEF PS!CloseEscrow
  <2>2. \A r \in el : PS!Accepts(chain, [kind |-> "close", r |-> r])
    BY DEF PS!Accepts
  <2> HIDE DEF el
  <2> QED BY <2>1, <2>2, SaleSweep
<1>9. CASE PS!HandleUnsold
  <2> DEFINE t == [kind |-> "unsold"]
             ok == PS!Resolved(chain) /\ ~chain.unsold
  <2>1. Commanded("unsold", "none", ok, <<t>>)
    BY Zenon, <1>9 DEF PS!HandleUnsold, PS!S!Command, PS!S!Busy, Commanded
  <2>2. t \in SaleTx /\ (ok => PS!Accepts(chain, t))
    BY DEF SaleTx, PS!Accepts
  <2> HIDE DEF t, ok
  <2> QED BY <2>1, <2>2, SaleOne
<1>10. ASSUME NEW creator \in BOOLEAN, NEW collectFee \in BOOLEAN,
              PS!CreatorWithdraw(creator, collectFee)
       PROVE  SaleInv'
  <2> DEFINE t == [kind |-> "creator"]
             u == [kind |-> "fee"]
             ok == creator /\ PS!CanCreatorWithdraw(chain)
             both == collectFee /\ PS!CanCreatorCollectFee(chain)
             txs == IF both THEN <<t, u>> ELSE <<t>>
             arg == [collectFee |-> collectFee]
  <2>1. <<t>> \o <<u>> = <<t, u>> /\ <<t>> \o <<>> = <<t>>
    <3>1. <<t>> \in Seq({t})
      OBVIOUS
    <3>2. <<t>> \o <<u>> = <<t, u>>
      BY Joined
    <3>3. <<t>> \o <<>> = <<t>>
      BY <3>1, ConcatEmptySeq
    <3> QED BY <3>2, <3>3
  <2>2. Commanded("creator", arg, ok, txs)
    BY Zenon, <1>10, <2>1 DEF PS!CreatorWithdraw, PS!S!Command, PS!S!Busy, Commanded
  <2>3. /\ t \in SaleTx /\ u \in SaleTx /\ SaleApart(t, u)
        /\ ok => PS!Accepts(chain, t)
        /\ both => PS!Accepts(chain, u)
    BY DEF SaleTx, PS!Accepts, SaleApart
  <2> HIDE DEF t, u, ok, both
  <2>4. ASSUME ok PROVE txs \in Seq(SaleTx) /\ SaleAll(txs)
    <3>1. CASE both
      <4>1. txs = <<t, u>> /\ <<t, u>> \in Seq(SaleTx) /\ DOMAIN <<t, u>> = {1, 2}
            /\ <<t, u>>[1] = t /\ <<t, u>>[2] = u
        BY <2>3, <3>1
      <4>2. \A i \in {1, 2}, j \in {1, 2} : i < j => i = 1 /\ j = 2
        OBVIOUS
      <4> HIDE DEF txs
      <4> QED BY <2>3, <2>4, <3>1, <4>1, <4>2 DEF SaleAll
    <3>2. CASE ~both
      <4>1. txs = <<t>> /\ <<t>> \in Seq(SaleTx) /\ DOMAIN <<t>> = {1} /\ <<t>>[1] = t
        BY <2>3, <3>2
      <4>2. ~(1 < 1)
        OBVIOUS
      <4> HIDE DEF txs
      <4> QED BY <2>3, <2>4, <4>1, <4>2 DEF SaleAll
    <3> QED BY <3>1, <3>2
  <2> HIDE DEF txs, arg
  <2> QED BY <2>2, <2>4, SaleCommanded
<1> QED BY <1>1, <1>2, <1>3, <1>4, <1>5, <1>6, <1>7, <1>8, <1>9, <1>10 DEF PS!Next

-----------------------------------------------------------------------------
(* AlphaVault *)

AlphaListed == VA!ToSet(Whitelist)

AlphaTx == [kind : {"create", "claim", "close", "unused", "fill"}]
           \union [kind : {"escrows"}, batch : SUBSET AlphaListed]
           \union [kind : {"deposit"}, amount : Int, proof : BOOLEAN]
           \union [kind : {"withdraw"}, amount : Int]

AlphaEscrow == [open : BOOLEAN, dep : Int, claimed : Int, refunded : BOOLEAN]

AlphaChain == [vault : BOOLEAN, mode : {"fcfs", "prorata"},
               whitelist : {"permissionless", "merkle", "authority"}, phase : Int,
               served : SUBSET AlphaListed, me : AlphaEscrow, total : Int, filled : Int,
               tokens : Int]

\* Transactions of a command of which the second does not mind the first.
AlphaApart(t, u) == /\ t.kind = "escrows" /\ u.kind = "escrows"
                    /\ t.batch \intersect u.batch = {}

\* The smaller of two numbers, of AlphaVault.
LEMMA AlphaMin ==
    ASSUME NEW a \in Int, NEW b \in Int
    PROVE  VA!Min({a, b}) = IF a <= b THEN a ELSE b
<1> DEFINE m == IF a <= b THEN a ELSE b
<1>1. m \in {a, b} /\ \A y \in {a, b} : m <= y
  OBVIOUS
<1>2. \A x \in {a, b} : (\A y \in {a, b} : x <= y) => x = m
  OBVIOUS
<1> QED BY <1>1, <1>2 DEF VA!Min

\* What an escrow can claim is a number.
LEMMA AlphaClaimable == ASSUME NEW c \in AlphaChain PROVE VA!Claimable(c) \in Int
BY DEF AlphaChain, AlphaEscrow, VA!Claimable, VA!Locking

\* What an accepted transaction leaves, also for the others of its command.
LEMMA AlphaLands ==
    ASSUME NEW c \in AlphaChain, NEW t \in AlphaTx, VA!Accepts(c, t)
    PROVE  /\ VA!Effect(c, t) \in AlphaChain
           /\ t.kind = "claim" => (VA!Effect(c, t).me.open <=> c.me.open)
           /\ \A u \in AlphaTx : VA!Accepts(c, u) /\ AlphaApart(t, u)
                                 => VA!Accepts(VA!Effect(c, t), u)
<1> DEFINE d == VA!Effect(c, t)
           e == c.me
<1>1. /\ e \in AlphaEscrow /\ c.served \in SUBSET AlphaListed /\ c.total \in Int
      /\ c.filled \in Int /\ c.tokens \in Int /\ e.dep \in Int /\ e.claimed \in Int
  BY DEF AlphaChain, AlphaEscrow
<1>2. CASE t.kind = "create"
  <2> DEFINE true == TRUE
  <2>1. d = [c EXCEPT !.vault = true] /\ true \in BOOLEAN
    BY <1>2 DEF VA!Effect
  <2> HIDE DEF d, true
  <2>2. d \in AlphaChain
    BY <2>1 DEF AlphaChain
  <2> QED BY <1>2, <2>2 DEF AlphaApart, d
<1>3. CASE t.kind = "escrows"
  <2> DEFINE v == c.served \union t.batch
             o == e.open \/ "me" \in t.batch
             x == [e EXCEPT !.open = o]
  <2>1. v \in SUBSET AlphaListed /\ o \in BOOLEAN
    BY <1>1, <1>3 DEF AlphaTx
  <2>2. d = [c EXCEPT !.served = v, !.me = x]
    BY <1>1, <1>3 DEF VA!Effect, AlphaChain
  <2> HIDE DEF o, e
  <2>3. x \in AlphaEscrow
    BY <1>1, <2>1 DEF AlphaEscrow
  <2> HIDE DEF v, x, d
  <2>4. d \in AlphaChain /\ d.served = v /\ d.vault = c.vault
    BY Zenon, <2>1, <2>2, <2>3 DEF AlphaChain
  <2>5. ASSUME NEW u \in AlphaTx, VA!Accepts(c, u), AlphaApart(t, u) PROVE VA!Accepts(d, u)
    <3>1. u.kind = "escrows" /\ u.batch \intersect t.batch = {} /\ c.vault
          /\ u.batch \intersect c.served = {}
      BY <2>5 DEF AlphaApart, VA!Accepts
    <3> QED BY <2>4, <3>1 DEF VA!Accepts, v
  <2> QED BY <1>3, <2>4, <2>5 DEF d
<1>4. CASE t.kind = "deposit"
  <2> DEFINE true == TRUE
             dep == e.dep + t.amount
             n == c.total + t.amount
             q == c.tokens - t.amount
             x == [e EXCEPT !.open = true, !.dep = dep]
  <2>1. dep \in Int /\ n \in Int /\ q \in Int /\ true \in BOOLEAN
    BY <1>1, <1>4 DEF AlphaTx
  <2>2. d = [c EXCEPT !.me = x, !.total = n, !.tokens = q]
    BY Zenon, <1>1, <1>4 DEF VA!Effect, AlphaChain, AlphaEscrow
  <2> HIDE DEF dep, n, q, true, e
  <2>3. x \in AlphaEscrow
    BY Zenon, <1>1, <2>1 DEF AlphaEscrow
  <2> HIDE DEF x, d
  <2>4. d \in AlphaChain
    BY Zenon, <2>1, <2>2, <2>3 DEF AlphaChain
  <2> QED BY <1>4, <2>4 DEF AlphaApart, d
<1>5. CASE t.kind = "withdraw"
  <2> DEFINE dep == e.dep - t.amount
             n == c.total - t.amount
             q == c.tokens + t.amount
             x == [e EXCEPT !.dep = dep]
  <2>1. dep \in Int /\ n \in Int /\ q \in Int
    BY <1>1, <1>5 DEF AlphaTx
  <2>2. d = [c EXCEPT !.me = x, !.total = n, !.tokens = q]
    BY <1>1, <1>5 DEF VA!Effect, AlphaChain, AlphaEscrow
  <2> HIDE DEF dep, n, q, e
  <2>3. x \in AlphaEscrow
    BY <1>1, <2>1 DEF AlphaEscrow
  <2> HIDE DEF x, d
  <2>4. d \in AlphaChain
    BY Zenon, <2>1, <2>2, <2>3 DEF AlphaChain
  <2> QED BY <1>5, <2>4 DEF AlphaApart, d
<1>6. CASE t.kind = "claim"
  <2> DEFINE v == e.claimed + VA!Claimable(c)
             x == [e EXCEPT !.claimed = v]
  <2>1. v \in Int
    BY <1>1, AlphaClaimable
  <2>2. d = [c EXCEPT !.me = x]
    BY <1>1, <1>6 DEF VA!Effect, AlphaChain, AlphaEscrow
  <2> HIDE DEF v, e
  <2>3. x \in AlphaEscrow /\ x.open = e.open
    BY <1>1, <2>1 DEF AlphaEscrow
  <2> HIDE DEF x, d
  <2>4. d \in AlphaChain /\ d.me = x
    BY <2>2, <2>3 DEF AlphaChain
  <2> QED BY <1>6, <2>3, <2>4 DEF AlphaApart, d, e
<1>7. CASE t.kind = "close"
  <2> DEFINE x == VA!NoEscrow
  <2>1. x \in AlphaEscrow
    BY DEF AlphaEscrow, VA!NoEscrow
  <2>2. d = [c EXCEPT !.me = x]
    BY <1>7 DEF VA!Effect
  <2> HIDE DEF x, d
  <2>3. d \in AlphaChain
    BY <2>1, <2>2 DEF AlphaChain
  <2> QED BY <1>7, <2>3 DEF AlphaApart, d
<1>8. CASE t.kind = "unused"
  <2> DEFINE true == TRUE
             x == [e EXCEPT !.refunded = true]
  <2>1. true \in BOOLEAN
    OBVIOUS
  <2>2. d = [c EXCEPT !.me = x]
    BY <1>1, <1>8 DEF VA!Effect, AlphaChain
  <2> HIDE DEF true, e
  <2>3. x \in AlphaEscrow
    BY <1>1, <2>1 DEF AlphaEscrow
  <2> HIDE DEF x, d
  <2>4. d \in AlphaChain
    BY <2>2, <2>3 DEF AlphaChain
  <2> QED BY <1>8, <2>4 DEF AlphaApart, d
<1>9. CASE t.kind = "fill"
  <2> DEFINE v == c.filled + 1
  <2>1. v \in Int
    BY <1>1
  <2>2. d = [c EXCEPT !.filled = v]
    BY <1>9 DEF VA!Effect
  <2> HIDE DEF v, d
  <2>3. d \in AlphaChain
    BY <2>1, <2>2 DEF AlphaChain
  <2> QED BY <1>9, <2>3 DEF AlphaApart, d
<1> QED BY <1>2, <1>3, <1>4, <1>5, <1>6, <1>7, <1>8, <1>9 DEF AlphaTx

\* The batches serve the list, and nobody twice who is listed once.
LEMMA AlphaBatches ==
    LET s == VA!Batches(Whitelist)
    IN  /\ s \in Seq(AlphaTx)
        /\ \A i \in DOMAIN s : /\ s[i].kind = "escrows" /\ s[i].batch \subseteq AlphaListed
                               /\ \A j \in DOMAIN s : i < j /\ VA!IsInjective(Whitelist)
                                                      => s[i].batch \intersect s[j].batch = {}
<1> DEFINE l == Whitelist
           n == (Len(l) + BatchSize - 1) \div BatchSize
           lo(i) == (i - 1) * BatchSize + 1
           hi(i) == VA!Min({i * BatchSize, Len(l)})
           b(i) == VA!ToSet(SubSeq(l, lo(i), hi(i)))
<1>1. l \in Seq({l[i] : i \in DOMAIN l}) /\ Len(l) \in Nat /\ BatchSize \in Nat \ {0}
  BY WhitelistAssumption
<1>2. n \in Int
  BY <1>1
<1>3. ASSUME NEW i \in 1..n
      PROVE  /\ lo(i) \in Nat \ {0} /\ hi(i) \in Int /\ hi(i) <= Len(l)
             /\ hi(i) <= i * BatchSize /\ i * BatchSize \in Nat
  <2>1. i \in Nat /\ i >= 1
    BY <1>2
  <2>2. i * BatchSize \in Nat /\ (i - 1) * BatchSize \in Nat
    BY <1>1, <2>1
  <2> DEFINE m == i * BatchSize
  <2> HIDE DEF m
  <2>3. VA!Min({m, Len(l)}) = IF m <= Len(l) THEN m ELSE Len(l)
    BY <1>1, <2>2, AlphaMin DEF m
  <2> QED BY <1>1, <2>2, <2>3 DEF m
<1>4. ASSUME NEW i \in 1..n
      PROVE  \A x \in b(i) : \E k \in DOMAIN l : /\ x = l[k] /\ k \in Int
                                                 /\ lo(i) <= k /\ k <= i * BatchSize
  <2> DEFINE q == SubSeq(l, lo(i), hi(i))
  <2>0. lo(i) \in Nat \ {0} /\ hi(i) \in Int /\ hi(i) <= Len(l)
    BY <1>3
  <2>1. \A j \in DOMAIN q : /\ q[j] = l[lo(i) + j - 1] /\ lo(i) + j - 1 \in DOMAIN l
                            /\ lo(i) <= lo(i) + j - 1 /\ lo(i) + j - 1 <= hi(i)
                            /\ lo(i) + j - 1 \in Int
    <3> HIDE DEF lo, hi
    <3>1. \A j \in DOMAIN q : q[j] = l[lo(i) + j - 1] /\ lo(i) + j - 1 \in DOMAIN l
      BY SMTT(30), <1>1, <2>0
    <3>2. DOMAIN q = 1..(IF lo(i) <= hi(i) THEN hi(i) - lo(i) + 1 ELSE 0)
      BY <1>1, <2>0
    <3> HIDE DEF q
    <3>3. \A j \in DOMAIN q : /\ lo(i) <= lo(i) + j - 1 /\ lo(i) + j - 1 <= hi(i)
                              /\ lo(i) + j - 1 \in Int
      BY <2>0, <3>2
    <3> QED BY <3>1, <3>3
  <2>2. \A j \in DOMAIN q : lo(i) + j - 1 <= i * BatchSize
    <3>1. hi(i) \in Int /\ hi(i) <= i * BatchSize /\ i * BatchSize \in Nat
      BY Zenon, <1>3
    <3> DEFINE m == i * BatchSize
    <3> HIDE DEF q, lo, hi, m
    <3> QED BY <2>1, <3>1 DEF m
  <2> HIDE DEF q, lo
  <2> QED BY Zenon, <2>1, <2>2 DEF VA!ToSet, q
<1>5. ASSUME NEW i \in 1..n PROVE b(i) \subseteq AlphaListed
  <2> HIDE DEF b, lo
  <2> QED BY <1>4 DEF AlphaListed, VA!ToSet
<1>6. ASSUME NEW i \in 1..n, NEW j \in 1..n, i < j, VA!IsInjective(l)
      PROVE  b(i) \intersect b(j) = {}
  <2>1. i * BatchSize < lo(j)
    <3>1. i \in Int /\ j - 1 \in Int /\ i <= j - 1
      BY <1>2, <1>6
    <3>2. i * BatchSize <= (j - 1) * BatchSize
      BY <1>1, <3>1
    <3>3. i * BatchSize \in Int /\ (j - 1) * BatchSize \in Int
      BY <1>1, <3>1
    <3> QED BY <3>2, <3>3
  <2>2. i * BatchSize \in Int /\ lo(j) \in Int
    <3>1. i * BatchSize \in Nat
      BY Zenon, <1>3
    <3>2. lo(j) \in Nat \ {0}
      BY Zenon, <1>3
    <3> HIDE DEF lo
    <3> QED BY <3>1, <3>2
  <2> DEFINE m == i * BatchSize
  <2> HIDE DEF lo, b, m
  <2>3. ASSUME NEW x \in b(i), x \in b(j) PROVE FALSE
    <3>1. PICK k \in DOMAIN l : x = l[k] /\ k \in Int /\ k <= m
      BY <1>4, <2>3 DEF m
    <3>2. PICK o \in DOMAIN l : x = l[o] /\ o \in Int /\ lo(j) <= o
      BY <1>4, <2>3
    <3>3. k = o
      BY Zenon, <1>6, <3>1, <3>2 DEF VA!IsInjective
    <3> QED BY <2>1, <2>2, <3>1, <3>2, <3>3 DEF m
  <2> QED BY <2>3
<1> DEFINE s == [i \in 1..n |-> [kind |-> "escrows", batch |-> b(i)]]
<1>7. VA!Batches(l) = s
  BY DEF VA!Batches
<1> HIDE DEF n, b
<1>8. n \in Nat \/ 1..n = {}
  BY <1>2
<1>9. s \in Seq(AlphaTx)
  <2>1. \A i \in 1..n : s[i] \in AlphaTx
    BY <1>5 DEF AlphaTx
  <2>2. CASE n \in Nat
    BY <2>1, <2>2
  <2>3. CASE 1..n = {}
    <3>1. s = [i \in 1..0 |-> [kind |-> "escrows", batch |-> b(i)]]
      BY <2>3
    <3>2. s = <<>>
      BY <3>1
    <3>3. <<>> \in Seq(AlphaTx)
      OBVIOUS
    <3> HIDE DEF s
    <3> QED BY <3>2, <3>3
  <2> QED BY <1>8, <2>2, <2>3
<1>10. /\ DOMAIN s = 1..n
       /\ \A i \in 1..n : s[i].kind = "escrows" /\ s[i].batch = b(i)
  OBVIOUS
<1> HIDE DEF s
<1> QED BY <1>5, <1>6, <1>7, <1>9, <1>10

\* The steps of Submission, of alpha vault commands.
LEMMA AlphaSteps ==
    ASSUME VA!S!Step
    PROVE  Steps(VA!Accepts, VA!Effect, VA!Resumes, VA!Forgives)
BY DEF VA!S!Step, VA!S!Land, VA!S!Simulate, VA!S!Forgive, VA!S!Refuse, VA!S!Lose,
       VA!S!Unready, VA!S!LandsLate, VA!S!Expires, VA!S!Command, VA!S!After,
       VA!S!Forgiven, VA!S!Busy, Steps, Takes, Stops, Commanded, Late

\* They keep what is pending, and the chain, of their sets.
LEMMA AlphaTyped ==
    ASSUME Typed(AlphaTx, AlphaChain), VA!S!Step
    PROVE  Typed(AlphaTx, AlphaChain)'
<1>0. \A c \in AlphaChain, t \in AlphaTx : VA!Accepts(c, t) => VA!Effect(c, t) \in AlphaChain
  BY AlphaLands
<1>1. AnyStep(AlphaChain)
  BY Zenon, <1>0, AlphaSteps, TypedHead DEF Steps, AnyStep, Typed, Takes
<1> QED BY <1>1, TypedStep

\* Of a command that is alone: everything it still has to send is accepted, whatever of it
\* goes first; but for what its checks leave to the program.
AlphaAll(q) ==
    \A i \in DOMAIN q : /\ VA!Accepts(chain, q[i])
                        /\ \A j \in DOMAIN q : i < j => AlphaApart(q[i], q[j])

AlphaBut(op, arg) == \/ op = "create" /\ arg.exists
                     \/ op = "escrows" /\ arg.again
                     \/ op = "deposit" /\ arg.short

AlphaClaims(op, q) == op = "claim+close" => \A i \in DOMAIN q : q[i].kind = "claim"

AlphaExcept == AlphaBut(cmd.op, cmd.arg)

AlphaLone ==
    /\ status = "running"
       => cmd.moved \/ AlphaExcept \/ (AlphaAll(queue) /\ AlphaClaims(cmd.op, queue))
    /\ status = "resumed" => cmd.moved \/ (cmd.op = "claim+close" => chain.me.open)
    /\ status = "refused" => cmd.moved \/ AlphaExcept

AlphaInv == Typed(AlphaTx, AlphaChain) /\ AlphaLone

\* It holds before the first command.
LEMMA AlphaInit == ASSUME VA!Init PROVE AlphaInv
<1>1. PICK kind \in Kinds :
         VA!S!Begin([vault |-> FALSE, mode |-> kind.mode, whitelist |-> kind.whitelist,
             phase |-> VA!Depositing - 1, served |-> {}, me |-> VA!NoEscrow, total |-> 0,
             filled |-> 0, tokens |-> QuoteTokens])
  BY Zenon DEF VA!Init
<1> DEFINE zero == 0
           false == FALSE
           none == {}
           phase == VA!Depositing - 1
           me == VA!NoEscrow
           m == kind.mode
           w == kind.whitelist
<1>2. chain = [vault |-> false, mode |-> m, whitelist |-> w, phase |-> phase, served |-> none,
               me |-> me, total |-> zero, filled |-> zero, tokens |-> QuoteTokens]
      /\ cmd = VA!S!NoCommand /\ queue = <<>> /\ late = {} /\ status = "idle"
  BY <1>1 DEF VA!S!Begin
<1>3. /\ m \in {"fcfs", "prorata"} /\ w \in {"permissionless", "merkle", "authority"}
      /\ zero \in Int /\ phase \in Int /\ QuoteTokens \in Int /\ false \in BOOLEAN
      /\ none \in SUBSET AlphaListed /\ me \in AlphaEscrow
  BY WhitelistAssumption DEF VA!Depositing, VA!NoEscrow, AlphaEscrow
<1> HIDE DEF zero, false, none, phase, me, m, w
<1>4. chain \in AlphaChain
  BY <1>2, <1>3 DEF AlphaChain
<1> QED BY <1>2, <1>4 DEF VA!S!NoCommand, AlphaInv, Typed, CmdInv, AlphaLone

\* After the first transaction the rest of the command is still accepted.
LEMMA AlphaTakes ==
    ASSUME Typed(AlphaTx, AlphaChain), AlphaLone, Takes(VA!Resumes),
           \/ cmd.dry /\ chain' = chain
           \/ /\ ~cmd.dry /\ VA!Accepts(chain, Head(queue))
              /\ chain' = VA!Effect(chain, Head(queue))
    PROVE  AlphaLone'
<1>1. /\ queue \in Seq(AlphaTx) /\ queue # <<>> /\ queue' = Tail(queue) /\ cmd' = cmd
      /\ chain \in AlphaChain /\ Head(queue) \in AlphaTx
      /\ cmd.moved \/ AlphaExcept \/ (AlphaAll(queue) /\ AlphaClaims(cmd.op, queue))
      /\ status' \in {"running", "resumed", "ok"}
  BY TypedHead DEF Typed, Takes, VA!Resumes, AlphaLone
<1>2. CASE cmd.moved \/ AlphaExcept
  BY <1>1, <1>2 DEF AlphaLone, AlphaExcept, AlphaBut
<1>3. CASE AlphaAll(queue) /\ AlphaClaims(cmd.op, queue)
  <2>1. /\ \A i \in DOMAIN Tail(queue) : Tail(queue)[i] = queue[i + 1] /\ i + 1 \in DOMAIN queue
        /\ Head(queue) = queue[1] /\ 1 \in DOMAIN queue
        /\ \A i \in DOMAIN Tail(queue) : i \in Int /\ 1 < i + 1
        /\ \A i \in DOMAIN queue : queue[i] \in AlphaTx
    BY <1>1, QueueRest
  <2>2. ASSUME NEW i \in DOMAIN Tail(queue)
        PROVE  /\ VA!Accepts(chain', Tail(queue)[i])
               /\ \A j \in DOMAIN Tail(queue) : i < j => AlphaApart(Tail(queue)[i], Tail(queue)[j])
    <3>1. Tail(queue)[i] = queue[i + 1] /\ i + 1 \in DOMAIN queue /\ i \in Int /\ 1 < i + 1
      BY <2>1
    <3>2. VA!Accepts(chain, queue[i + 1]) /\ AlphaApart(queue[1], queue[i + 1])
      BY <1>3, <2>1, <3>1 DEF AlphaAll
    <3>3. VA!Accepts(chain', queue[i + 1])
      BY <1>1, <2>1, <3>1, <3>2, AlphaLands
    <3>4. ASSUME NEW j \in DOMAIN Tail(queue), i < j PROVE AlphaApart(Tail(queue)[i],
       Tail(queue)[j])
      <4>1. Tail(queue)[j] = queue[j + 1] /\ j + 1 \in DOMAIN queue /\ i + 1 < j + 1
        BY <2>1, <3>1, <3>4
      <4> QED BY <1>3, <3>1, <4>1 DEF AlphaAll
    <3> QED BY <3>1, <3>3, <3>4
  <2>3. AlphaAll(queue)'
    BY <1>1, <2>2 DEF AlphaAll
  <2>4. AlphaClaims(cmd.op, queue)'
    BY <1>1, <1>3, <2>1 DEF AlphaClaims
  <2>5. ASSUME cmd.op = "claim+close" PROVE chain'.me.open
    <3>1. Head(queue).kind = "claim" /\ VA!Accepts(chain, Head(queue))
      BY <1>3, <2>1, <2>5 DEF AlphaClaims, AlphaAll
    <3>2. chain.me.open
      BY Zenon, <3>1 DEF VA!Accepts
    <3> QED BY <1>1, <3>1, <3>2, AlphaLands
  <2> QED BY <1>1, <2>3, <2>4, <2>5 DEF AlphaLone
<1> QED BY <1>1, <1>2, <1>3

\* A transaction that is refused met a chain that was moved, or was left to the program.
LEMMA AlphaStops ==
    ASSUME Typed(AlphaTx, AlphaChain), AlphaLone,
           Stops(VA!Accepts(chain, Head(queue)), VA!Forgives)
    PROVE  AlphaLone'
<1>1. /\ queue \in Seq(AlphaTx) /\ queue # <<>> /\ cmd' = cmd
      /\ cmd.moved \/ AlphaExcept \/ AlphaAll(queue)
      /\ status' = "lost" \/ (status' = "refused" /\ ~VA!Accepts(chain, Head(queue)))
  BY DEF Typed, Stops, AlphaLone
<1>2. AlphaAll(queue) => VA!Accepts(chain, Head(queue))
  BY <1>1, QueueRest DEF AlphaAll
<1> QED BY <1>1, <1>2 DEF AlphaLone, AlphaExcept

\* A command whose transactions are all accepted, and do not mind each other.
LEMMA AlphaCommanded ==
    ASSUME AlphaInv, NEW op, NEW arg, NEW ok, NEW txs, Commanded(op, arg, ok, txs),
           ok => /\ txs \in Seq(AlphaTx)
                 /\ AlphaBut(op, arg) \/ (AlphaAll(txs) /\ AlphaClaims(op, txs))
    PROVE  AlphaInv'
<1>1. Typed(AlphaTx, AlphaChain)'
  BY TypedCommanded DEF AlphaInv
<1>2. /\ cmd'.op = op /\ cmd'.arg = arg /\ chain' = chain
      /\ status' \in {"threw", "running", "ok"} /\ (status' = "running" => ok /\ queue' = txs)
  BY DEF Commanded
<1>3. AlphaAll(txs) /\ queue' = txs => AlphaAll(queue)'
  BY <1>2 DEF AlphaAll
<1>4. AlphaClaims(op, txs) /\ queue' = txs => AlphaClaims(cmd.op, queue)'
  BY <1>2 DEF AlphaClaims
<1>5. AlphaBut(op, arg) => AlphaExcept'
  BY <1>2 DEF AlphaExcept
<1> QED BY <1>1, <1>2, <1>3, <1>4, <1>5 DEF AlphaInv, AlphaLone

\* A command that goes on with such transactions.
LEMMA AlphaResumed ==
    ASSUME AlphaInv, NEW op, op # "claim+close", NEW arg, NEW ok, NEW txs,
           Resumed(op, arg, ok, txs),
           ok => /\ txs \in Seq(AlphaTx)
                 /\ cmd.moved \/ AlphaBut(op, arg) \/ AlphaAll(txs)
    PROVE  AlphaInv'
<1>1. Typed(AlphaTx, AlphaChain)'
  BY TypedResumed DEF AlphaInv
<1>2. /\ cmd'.op = op /\ cmd'.arg = arg /\ chain' = chain /\ cmd'.moved = cmd.moved
      /\ status' \in {"threw", "running", "ok"} /\ (status' = "running" => ok /\ queue' = txs)
  BY DEF Resumed, AlphaInv, Typed, CmdInv
<1>3. AlphaAll(txs) /\ queue' = txs => AlphaAll(queue)'
  BY <1>2 DEF AlphaAll
<1>4. AlphaClaims(cmd.op, queue)'
  BY <1>2 DEF AlphaClaims
<1>5. AlphaBut(op, arg) => AlphaExcept'
  BY <1>2 DEF AlphaExcept
<1> QED BY <1>1, <1>2, <1>3, <1>4, <1>5 DEF AlphaInv, AlphaLone

\* What is sent at once, or nothing.
LEMMA AlphaSingle ==
    ASSUME NEW t \in AlphaTx
    PROVE  /\ <<t>> \in Seq(AlphaTx) /\ (VA!Accepts(chain, t) => AlphaAll(<<t>>))
           /\ \A op : op # "claim+close" \/ t.kind = "claim" => AlphaClaims(op, <<t>>)
           /\ <<>> \in Seq(AlphaTx) /\ AlphaAll(<<>>) /\ \A op : AlphaClaims(op, <<>>)
<1>1. DOMAIN <<t>> = {1} /\ <<t>>[1] = t /\ <<t>> \in Seq(AlphaTx) /\ ~(1 < 1)
      /\ DOMAIN <<>> = {} /\ <<>> \in Seq(AlphaTx)
  OBVIOUS
<1> QED BY <1>1 DEF AlphaAll, AlphaClaims

\* A command of one transaction.
LEMMA AlphaOne ==
    ASSUME AlphaInv, NEW op, NEW arg, NEW ok, NEW t \in AlphaTx, Commanded(op, arg, ok, <<t>>),
           op = "claim+close" => t.kind = "claim",
           ok => AlphaBut(op, arg) \/ VA!Accepts(chain, t)
    PROVE  AlphaInv'
BY Zenon, AlphaSingle, AlphaCommanded

\* The batches of escrows of a list of which nobody was served, and nobody is twice.
LEMMA AlphaEscrows ==
    ASSUME chain.vault
    PROVE  /\ VA!Batches(Whitelist) \in Seq(AlphaTx)
           /\ AlphaBut("escrows", VA!Again) \/ AlphaAll(VA!Batches(Whitelist))
           /\ AlphaClaims("escrows", VA!Batches(Whitelist))
<1> DEFINE s == VA!Batches(Whitelist)
           arg == VA!Again
<1>1. /\ s \in Seq(AlphaTx)
      /\ \A i \in DOMAIN s : /\ s[i].kind = "escrows" /\ s[i].batch \subseteq AlphaListed
                             /\ \A j \in DOMAIN s : i < j /\ VA!IsInjective(Whitelist)
                                                    => s[i].batch \intersect s[j].batch = {}
  BY AlphaBatches
<1>2. arg.again <=> AlphaListed \intersect chain.served # {} \/ ~VA!IsInjective(Whitelist)
  BY Zenon DEF VA!Again, AlphaListed
<1> HIDE DEF s, arg
<1>3. ASSUME ~arg.again PROVE AlphaAll(s)
  <2>1. AlphaListed \intersect chain.served = {} /\ VA!IsInjective(Whitelist)
    BY <1>2, <1>3
  <2>2. \A i \in DOMAIN s : VA!Accepts(chain, s[i])
    BY Zenon, <1>1, <2>1 DEF VA!Accepts
  <2>3. \A i \in DOMAIN s : \A j \in DOMAIN s : i < j => AlphaApart(s[i], s[j])
    BY <1>1, <2>1 DEF AlphaApart
  <2> QED BY <2>2, <2>3 DEF AlphaAll
<1>4. AlphaBut("escrows", arg) \/ AlphaAll(s)
  BY <1>3 DEF AlphaBut
<1> QED BY <1>1, <1>4 DEF AlphaClaims, s, arg

\* Every alpha vault command and every step of others keeps it.
LEMMA AlphaStep == ASSUME AlphaInv, VA!Next PROVE AlphaInv'
<1>0. /\ Typed(AlphaTx, AlphaChain) /\ chain \in AlphaChain /\ AlphaLone /\ CmdInv
      /\ chain.phase \in Int /\ chain.total \in Int /\ chain.filled \in Int
      /\ chain.tokens \in Int /\ chain.me.dep \in Int /\ chain.mode \in {"fcfs", "prorata"}
      /\ chain.whitelist \in {"permissionless", "merkle", "authority"}
  BY DEF AlphaInv, Typed, AlphaChain, AlphaEscrow
<1>1. CASE VA!S!Step
  <2>1. Typed(AlphaTx, AlphaChain)'
    BY <1>0, <1>1, AlphaTyped
  <2>2. Steps(VA!Accepts, VA!Effect, VA!Resumes, VA!Forgives)
    BY <1>1, AlphaSteps
  <2>3. CASE Commanded("unready", "none", FALSE, <<>>)
    BY <1>0, <2>1, <2>3 DEF Commanded, AlphaLone, AlphaInv
  <2>4. CASE \E l \in late : Late(l) /\ ((cmd' = [cmd EXCEPT !.moved = TRUE])
                                        \/ (UNCHANGED <<chain, cmd>>))
    BY <1>0, <2>1, <2>4
       DEF Late, AlphaLone, AlphaExcept, AlphaAll, AlphaClaims, CmdInv, AlphaInv
  <2>5. CASE Takes(VA!Resumes) /\ (\/ cmd.dry /\ chain' = chain
                                  \/ /\ ~cmd.dry /\ VA!Accepts(chain, Head(queue))
                                     /\ chain' = VA!Effect(chain, Head(queue)))
    BY <1>0, <2>1, <2>5, AlphaTakes DEF AlphaInv
  <2>6. CASE Stops(VA!Accepts(chain, Head(queue)), VA!Forgives)
    BY <1>0, <2>1, <2>6, AlphaStops DEF AlphaInv
  <2> QED BY Zenon, <2>2, <2>3, <2>4, <2>5, <2>6 DEF Steps
<1>2. CASE VA!PhasePasses \/ VA!OthersCrank \/ VA!OthersDeposit
  <2> DEFINE phase == chain.phase + 1
             filled == chain.filled + 1
             one == 1
             c == [chain EXCEPT !.phase = phase]
             d == [chain EXCEPT !.filled = filled]
             e == [chain EXCEPT !.total = one]
  <2>1. Moved(c) \/ Moved(d) \/ Moved(e)
    BY <1>2 DEF VA!PhasePasses, VA!OthersCrank, VA!OthersDeposit, VA!S!World, Moved
  <2>2. phase \in Int /\ filled \in Int /\ one \in Int
    BY <1>0
  <2> HIDE DEF phase, filled, one
  <2>3. c \in AlphaChain /\ d \in AlphaChain /\ e \in AlphaChain
    BY <1>0, <2>2 DEF AlphaChain
  <2> HIDE DEF c, d, e
  <2>4. Typed(AlphaTx, AlphaChain)' /\ cmd'.moved
    BY <1>0, <2>1, <2>3, TypedMoved
  <2>5. status' = status
    BY <2>1 DEF Moved
  <2> QED BY <1>0, <2>4, <2>5 DEF AlphaInv, AlphaLone
<1>3. CASE VA!AuthorityGoesOn
  <2>1. Resumed("escrows", VA!Again, chain.vault, VA!Batches(Whitelist))
    BY <1>3 DEF VA!AuthorityGoesOn, VA!S!Resume, Resumed
  <2> QED BY <2>1, AlphaEscrows, AlphaResumed
<1>4. ASSUME NEW given \in BOOLEAN, VA!CreateAlphaVault(given) PROVE AlphaInv'
  <2> DEFINE t == [kind |-> "create"]
             arg == [exists |-> chain.vault]
  <2>0. t \in AlphaTx /\ t.kind = "create" /\ (arg.exists <=> chain.vault)
    BY DEF AlphaTx
  <2>1. (\E ok : VA!Create(ok)) \/ VA!CreateWithAuthority(given)
    BY Zenon, <1>0, <1>4
       DEF VA!CreateAlphaVault, VA!CreateFcfsAlphaVault, VA!CreateProrataAlphaVault
  <2>2. ASSUME NEW ok, VA!Create(ok) PROVE AlphaInv'
    <3>1. Commanded("create", arg, ok, <<t>>)
      BY Zenon, <2>2 DEF VA!Create, VA!S!Command, VA!S!Busy, Commanded
    <3>2. ~chain.vault => VA!Accepts(chain, t)
      BY <2>0 DEF VA!Accepts
    <3>3. ASSUME chain.vault PROVE AlphaBut("create", arg)
      <4> HIDE DEF arg
      <4> QED BY <2>0, <3>3 DEF AlphaBut
    <3>4. AlphaBut("create", arg) \/ VA!Accepts(chain, t)
      BY <3>2, <3>3
    <3> HIDE DEF t, arg
    <3> QED BY <2>0, <3>1, <3>4, AlphaOne
  <2>3. CASE VA!CreateWithAuthority(given)
    <3>1. CASE chain.vault
      <4>1. Commanded("escrows", VA!Again, given, VA!Batches(Whitelist))
        BY <2>3, <3>1 DEF VA!CreateWithAuthority, VA!S!Command, VA!S!Busy, Commanded
      <4> QED BY <3>1, <4>1, AlphaEscrows, AlphaCommanded
    <3>2. CASE ~chain.vault
      <4>1. Commanded("authority", "none", given, <<t>>)
        BY <2>3, <3>2 DEF VA!CreateWithAuthority, VA!S!Command, VA!S!Busy, Commanded
      <4>2. VA!Accepts(chain, t)
        BY <3>2 DEF VA!Accepts
      <4> HIDE DEF t
      <4> QED BY <2>0, <4>1, <4>2, AlphaOne
    <3> QED BY <3>1, <3>2
  <2> QED BY <2>1, <2>2, <2>3
<1>5. ASSUME NEW a \in VA!Amounts, VA!Withdraw(a) PROVE AlphaInv'
  <2> DEFINE t == [kind |-> "withdraw", amount |-> a]
             ok == /\ VA!Loaded /\ chain.me.open /\ VA!CanWithdraw(chain) /\ a <= chain.me.dep
  <2>1. Commanded("withdraw", "none", ok, <<t>>)
    BY Zenon, <1>5 DEF VA!Withdraw, VA!S!Command, VA!S!Busy, Commanded
  <2>2. t \in AlphaTx /\ (ok => VA!Accepts(chain, t))
    BY DEF VA!Amounts, AlphaTx, VA!Accepts
  <2> HIDE DEF t, ok
  <2> QED BY <2>1, <2>2, AlphaOne
<1>6. ASSUME NEW a \in VA!Amounts, NEW proof \in BOOLEAN, VA!Deposit(a, proof) PROVE AlphaInv'
  <2> DEFINE t == [kind |-> "deposit", amount |-> a, proof |-> proof]
             arg == [short |-> a > chain.tokens]
             ok == /\ VA!Loaded /\ (chain.whitelist = "merkle" => proof)
                   /\ VA!CanDeposit(chain, proof) /\ a <= VA!Quota(chain)
  <2>1. Commanded("deposit", arg, ok, <<t>>)
    BY Zenon, <1>6 DEF VA!Deposit, VA!S!Command, VA!S!Busy, Commanded
  <2>2. t \in AlphaTx /\ a \in Int
    BY DEF VA!Amounts, AlphaTx
  <2>3. VA!Quota(chain) \in Int
    <3> DEFINE x == Cap - chain.me.dep
               y == MaxCap - chain.total
    <3>1. x \in Int /\ y \in Int /\ QuoteTokens \in Int
      BY <1>0, WhitelistAssumption
    <3>2. VA!Min({x, y}) \in Int
      <4> HIDE DEF x, y
      <4> QED BY <3>1, AlphaMin
    <3> QED BY <3>1, <3>2 DEF VA!Quota
  <2>4. arg.short <=> a > chain.tokens
    BY Zenon
  <2>5. ASSUME ok, ~arg.short PROVE VA!Accepts(chain, t)
    <3> DEFINE q == VA!Quota(chain)
               o == chain.tokens
    <3> HIDE DEF q, o
    <3>1. VA!Min({q, o}) = IF q <= o THEN q ELSE o
      BY <1>0, <2>3, AlphaMin DEF q, o
    <3>2. a <= VA!Min({q, o})
      BY <1>0, <2>2, <2>3, <2>4, <2>5, <3>1 DEF q, o
    <3> QED BY <2>5, <3>2 DEF VA!Accepts, q, o
  <2>6. ok => AlphaBut("deposit", arg) \/ VA!Accepts(chain, t)
    BY <2>5 DEF AlphaBut
  <2> HIDE DEF t, ok, arg
  <2> QED BY <2>1, <2>2, <2>6, AlphaOne
<1>7. ASSUME NEW close \in BOOLEAN, VA!Claim(close) PROVE AlphaInv'
  <2> DEFINE t == [kind |-> "claim"]
             op == IF close THEN "claim+close" ELSE "claim"
             ok == VA!Loaded /\ chain.me.open /\ VA!Claimable(chain) > 0
  <2>1. Commanded(op, "none", ok, <<t>>)
    BY Zenon, <1>7 DEF VA!Claim, VA!S!Command, VA!S!Busy, Commanded
  <2>2. t \in AlphaTx /\ t.kind = "claim"
    BY DEF AlphaTx
  <2>3. ok => VA!Accepts(chain, t)
    BY <1>0 DEF VA!Accepts, VA!Claimable, VA!Vesting
  <2> HIDE DEF t, op, ok
  <2> QED BY <2>1, <2>2, <2>3, AlphaOne
<1>8. CASE VA!CloseEscrowWhenDone
  <2> DEFINE t == [kind |-> "close"]
             txs == IF ~cmd.dry /\ VA!FullyClaimed THEN <<t>> ELSE <<>>
  <2>1. Resumed("closed", "none", TRUE, txs)
    BY <1>8 DEF VA!CloseEscrowWhenDone, VA!S!Resume, Resumed
  <2>2. cmd.moved \/ chain.me.open
    BY <1>0, <1>8 DEF VA!CloseEscrowWhenDone, VA!S!Resume, AlphaLone
  <2>3. t \in AlphaTx
    BY DEF AlphaTx
  <2>4. chain.me.open /\ VA!FullyClaimed => VA!Accepts(chain, t)
    BY DEF VA!Accepts, VA!FullyClaimed
  <2> HIDE DEF t
  <2>5. txs \in Seq(AlphaTx) /\ (cmd.moved \/ AlphaAll(txs))
    BY <2>2, <2>3, <2>4, AlphaSingle
  <2> HIDE DEF txs
  <2> QED BY Zenon, <2>1, <2>5, AlphaResumed
<1>9. CASE VA!WithdrawRemainingQuote
  <2> DEFINE t == [kind |-> "unused"]
             ok == VA!Loaded /\ chain.me.open /\ VA!CanTakeUnused(chain)
  <2>1. Commanded("unused", "none", ok, <<t>>)
    BY Zenon, <1>9 DEF VA!WithdrawRemainingQuote, VA!S!Command, VA!S!Busy, Commanded
  <2>2. t \in AlphaTx /\ (ok => VA!Accepts(chain, t))
    BY DEF AlphaTx, VA!Accepts
  <2> HIDE DEF t, ok
  <2> QED BY <2>1, <2>2, AlphaOne
<1>10. CASE VA!CrankFill \/ VA!CrankGoesOn
  <2> DEFINE t == [kind |-> "fill"]
             fill == VA!FillTxs
             txs == IF cmd.dry THEN <<>> ELSE fill
  <2>1. fill = IF VA!CanFill(chain) THEN <<t>> ELSE <<>>
    BY DEF VA!FillTxs
  <2>2. t \in AlphaTx /\ (VA!CanFill(chain) => VA!Accepts(chain, t)) /\ t.kind = "fill"
    BY DEF AlphaTx, VA!Accepts
  <2>3. Commanded("crank", "none", VA!Loaded, fill) \/ Resumed("crank", "none", TRUE, txs)
    BY <1>10 DEF VA!CrankFill, VA!CrankGoesOn, VA!S!Command, VA!S!Resume, VA!S!Busy,
       Commanded, Resumed
  <2> HIDE DEF t, fill
  <2>4. fill \in Seq(AlphaTx) /\ AlphaAll(fill) /\ AlphaClaims("crank", fill)
    BY <2>1, <2>2, AlphaSingle
  <2>5. txs \in Seq(AlphaTx) /\ AlphaAll(txs)
    BY Zenon, <2>2, <2>4, AlphaSingle
  <2> HIDE DEF txs
  <2>6. CASE Commanded("crank", "none", VA!Loaded, fill)
    BY <2>4, <2>6, AlphaCommanded
  <2>7. CASE Resumed("crank", "none", TRUE, txs)
    BY Zenon, <2>5, <2>7, AlphaResumed
  <2> QED BY Zenon, <2>3, <2>6, <2>7
<1> QED BY <1>1, <1>2, <1>3, <1>4, <1>5, <1>6, <1>7, <1>8, <1>9, <1>10 DEF VA!Next

-----------------------------------------------------------------------------
(* PoolScripts *)

ScriptTx == [kind : {"mint", "account", "supply"}, mint : Int]
            \union [kind : {"pool"}, program : PoolPrograms, mint : Int,
               hasAlphaVault : BOOLEAN]
            \union [kind : {"vault"}, program : PoolPrograms, mint : Int, type : PoolPrograms]

ScriptMints == [key : Int, mine : BOOLEAN, account : BOOLEAN, supplied : BOOLEAN]
ScriptPools == [program : PoolPrograms, mint : Int, hasAlphaVault : BOOLEAN]

ScriptRecord == [mints : SUBSET ScriptMints, pools : SUBSET ScriptPools,
                 vaults : SUBSET (PoolPrograms \X Int)]

\* A token is one account, and a vault stands on a pool.
OneMint(c)     == \A m, o \in c.mints : m.key = o.key => m = o
VaultsStand(c) == \A pr, k : <<pr, k>> \in c.vaults => PC!HasPool(c, pr, k)

ScriptChain == {c \in ScriptRecord : OneMint(c) /\ VaultsStand(c)}

\* The account of a token that is known.
LEMMA ScriptMint ==
    ASSUME NEW c \in ScriptChain, NEW k, PC!Known(c, k)
    PROVE  /\ PC!Mint(c, k) \in c.mints /\ PC!Mint(c, k) \in ScriptMints
           /\ PC!Mint(c, k).key = k
           /\ \A m \in c.mints : m.key = k => m = PC!Mint(c, k)
BY DEF ScriptChain, ScriptRecord, PC!Known, PC!Mint, OneMint

\* A token's account gets another state.
LEMMA ScriptSet ==
    ASSUME NEW c \in ScriptChain, NEW k, PC!Known(c, k), NEW n \in ScriptMints, n.key = k
    PROVE  LET d == PC!SetMint(c, PC!Mint(c, k), n)
           IN  d \in ScriptChain /\ PC!Known(d, k) /\ PC!Mint(d, k) = n
<1> DEFINE m == PC!Mint(c, k)
           ms == (c.mints \ {m}) \union {n}
           d == PC!SetMint(c, m, n)
<1>1. /\ m \in c.mints /\ m.key = k /\ (\A o \in c.mints : o.key = k => o = m)
      /\ c \in ScriptRecord /\ OneMint(c) /\ VaultsStand(c)
  BY ScriptMint DEF ScriptChain
<1>2. d = [c EXCEPT !.mints = ms]
  BY <1>1 DEF PC!SetMint, ScriptRecord
<1> HIDE DEF m
<1>3. ms \in SUBSET ScriptMints /\ n \in ms /\ (\A o, p \in ms : o.key = p.key => o = p)
  BY <1>1 DEF ScriptRecord, OneMint
<1> HIDE DEF ms, d
<1>4. d \in ScriptRecord /\ d.mints = ms /\ d.pools = c.pools /\ d.vaults = c.vaults
  BY <1>1, <1>2, <1>3 DEF ScriptRecord
<1>5. d \in ScriptChain
  BY <1>1, <1>3, <1>4 DEF ScriptChain, OneMint, VaultsStand, PC!HasPool
<1>6. PC!Known(d, k)
  BY <1>3, <1>4 DEF PC!Known
<1>7. PC!Mint(d, k) = n
  BY <1>3, <1>4, <1>5, <1>6, ScriptMint
<1> QED BY <1>5, <1>6, <1>7 DEF d, m

\* What an accepted transaction leaves of the tokens, pools and vaults.
LEMMA ScriptLands ==
    ASSUME NEW c \in ScriptChain, NEW t \in ScriptTx, PC!Accepts(c, t)
    PROVE  LET d == PC!Effect(c, t)
           IN  /\ d \in ScriptChain
               /\ t.kind \in {"mint", "account", "supply"} => PC!Known(d, t.mint)
               /\ t.kind = "mint" => PC!Mint(d, t.mint).mine
               /\ t.kind = "account" /\ PC!Mint(c, t.mint).mine
                  => PC!Mint(d, t.mint).mine /\ PC!Mint(d, t.mint).account
               /\ t.kind = "pool" =>
                  /\ [program |-> t.program, mint |-> t.mint,
                      hasAlphaVault |-> t.hasAlphaVault] \in d.pools
                  /\ d.vaults = c.vaults
<1> DEFINE d == PC!Effect(c, t)
           m == PC!Mint(c, t.mint)
<1>1. c \in ScriptRecord /\ OneMint(c) /\ VaultsStand(c)
  BY DEF ScriptChain
<1>2. CASE t.kind = "mint"
  <2> DEFINE x == [key |-> t.mint, mine |-> TRUE, account |-> FALSE, supplied |-> FALSE]
             ms == c.mints \union {x}
  <2>1. ~PC!Known(c, t.mint) /\ t.mint \in Int
    BY <1>2 DEF PC!Accepts, ScriptTx
  <2>2. x \in ScriptMints /\ x.key = t.mint /\ x.mine
    BY <2>1 DEF ScriptMints
  <2>3. d = [c EXCEPT !.mints = ms]
    BY <1>1, <1>2 DEF PC!Effect, ScriptRecord
  <2> HIDE DEF x, d
  <2>4. ms \in SUBSET ScriptMints /\ x \in ms /\ (\A o, p \in ms : o.key = p.key => o = p)
    BY <1>1, <2>1, <2>2 DEF ScriptRecord, OneMint, PC!Known
  <2> HIDE DEF ms
  <2>5. d \in ScriptRecord /\ d.mints = ms /\ d.pools = c.pools /\ d.vaults = c.vaults
    BY <1>1, <2>3, <2>4 DEF ScriptRecord
  <2>6. d \in ScriptChain
    BY <1>1, <2>4, <2>5 DEF ScriptChain, OneMint, VaultsStand, PC!HasPool
  <2>7. PC!Known(d, t.mint)
    BY <2>2, <2>4, <2>5 DEF PC!Known
  <2>8. PC!Mint(d, t.mint) = x
    BY <2>2, <2>4, <2>5, <2>6, <2>7, ScriptMint
  <2> QED BY <1>2, <2>2, <2>6, <2>7, <2>8 DEF d
<1>3. CASE t.kind = "account"
  <2> DEFINE true == TRUE
             x == [m EXCEPT !.account = true]
  <2>1. PC!Known(c, t.mint) /\ true \in BOOLEAN
    BY <1>3 DEF PC!Accepts
  <2>2. m \in ScriptMints /\ m.key = t.mint
    BY <2>1, ScriptMint
  <2>3. d = PC!SetMint(c, m, x)
    BY <1>3 DEF PC!Effect
  <2> HIDE DEF m, d, true
  <2>4. x \in ScriptMints /\ x.key = t.mint /\ x.mine = m.mine /\ x.account = true
    BY <2>1, <2>2 DEF ScriptMints
  <2> HIDE DEF x
  <2>5. d \in ScriptChain /\ PC!Known(d, t.mint) /\ PC!Mint(d, t.mint) = x
    BY <2>1, <2>3, <2>4, ScriptSet DEF m
  <2> QED BY <1>3, <2>4, <2>5 DEF d, m, true
<1>4. CASE t.kind = "supply"
  <2> DEFINE true == TRUE
             false == FALSE
             x == [m EXCEPT !.supplied = true, !.mine = false]
  <2>1. PC!Known(c, t.mint) /\ true \in BOOLEAN /\ false \in BOOLEAN
    BY <1>4 DEF PC!Accepts
  <2>2. m \in ScriptMints /\ m.key = t.mint
    BY <2>1, ScriptMint
  <2>3. d = PC!SetMint(c, m, x)
    BY <1>4 DEF PC!Effect
  <2> HIDE DEF m, d, true, false
  <2>4. x \in ScriptMints /\ x.key = t.mint
    BY Zenon, <2>1, <2>2 DEF ScriptMints
  <2> HIDE DEF x
  <2>5. d \in ScriptChain /\ PC!Known(d, t.mint)
    BY <2>1, <2>3, <2>4, ScriptSet DEF m
  <2> QED BY <1>4, <2>5 DEF d
<1>5. CASE t.kind = "pool"
  <2> DEFINE x == [program |-> t.program, mint |-> t.mint, hasAlphaVault |-> t.hasAlphaVault]
             ps == c.pools \union {x}
  <2>1. x \in ScriptPools
    BY <1>5 DEF ScriptTx, ScriptPools
  <2>2. d = [c EXCEPT !.pools = ps]
    BY <1>1, <1>5 DEF PC!Effect, ScriptRecord
  <2> HIDE DEF x, d
  <2>3. ps \in SUBSET ScriptPools /\ x \in ps /\ c.pools \subseteq ps
    BY <1>1, <2>1 DEF ScriptRecord
  <2> HIDE DEF ps
  <2>4. d \in ScriptRecord /\ d.mints = c.mints /\ d.pools = ps /\ d.vaults = c.vaults
    BY <1>1, <2>2, <2>3 DEF ScriptRecord
  <2>5. d \in ScriptChain
    BY <1>1, <2>3, <2>4 DEF ScriptChain, OneMint, VaultsStand, PC!HasPool
  <2> QED BY <1>5, <2>3, <2>4, <2>5 DEF d, x
<1>6. CASE t.kind = "vault"
  <2> DEFINE vs == c.vaults \union {<<t.program, t.mint>>}
  <2>1. t.program \in PoolPrograms /\ t.mint \in Int
    BY <1>6 DEF ScriptTx
  <2>2. d = [c EXCEPT !.vaults = vs]
    BY <1>1, <1>6 DEF PC!Effect, ScriptRecord
  <2>3. PC!HasPool(c, t.program, t.mint)
    BY <1>6 DEF PC!Accepts, PC!HasPool
  <2>4. vs \in SUBSET (PoolPrograms \X Int)
    BY <1>1, <2>1 DEF ScriptRecord
  <2>5. \A pr, k : <<pr, k>> \in vs => PC!HasPool(c, pr, k)
    BY <1>1, <2>3 DEF VaultsStand
  <2> HIDE DEF vs, d
  <2>6. d \in ScriptRecord /\ d.mints = c.mints /\ d.pools = c.pools /\ d.vaults = vs
    BY <1>1, <2>2, <2>4 DEF ScriptRecord
  <2>7. d \in ScriptChain
    BY <1>1, <2>5, <2>6 DEF ScriptChain, OneMint, VaultsStand, PC!HasPool
  <2> QED BY <1>6, <2>7 DEF d
<1> QED BY <1>2, <1>3, <1>4, <1>5, <1>6 DEF ScriptTx

\* The steps of Submission, of pool script commands.
LEMMA ScriptSteps ==
    ASSUME PC!S!Step
    PROVE  Steps(PC!Accepts, PC!Effect, PC!Resumes, PC!Forgives)
BY DEF PC!S!Step, PC!S!Land, PC!S!Simulate, PC!S!Forgive, PC!S!Refuse, PC!S!Lose,
       PC!S!Unready, PC!S!LandsLate, PC!S!Expires, PC!S!Command, PC!S!After,
       PC!S!Forgiven, PC!S!Busy, Steps, Takes, Stops, Commanded, Late

\* They keep what is pending, and the chain, of their sets.
LEMMA ScriptTyped ==
    ASSUME Typed(ScriptTx, ScriptChain), PC!S!Step
    PROVE  Typed(ScriptTx, ScriptChain)'
<1>0. \A c \in ScriptChain, t \in ScriptTx : PC!Accepts(c, t) => PC!Effect(c, t) \in ScriptChain
  BY Zenon, ScriptLands
<1>1. AnyStep(ScriptChain)
  BY Zenon, <1>0, ScriptSteps, TypedHead DEF Steps, AnyStep, Typed, Takes
<1> QED BY <1>1, TypedStep

ScriptArg == [program : PoolPrograms, mint : Int, vault : PC!VaultModes, wrong : BOOLEAN]

MintTx(k)    == [kind |-> "mint", mint |-> k]
AccountTx(k) == [kind |-> "account", mint |-> k]
SupplyTx(k)  == [kind |-> "supply", mint |-> k]
PoolTx(a)    == [kind |-> "pool", program |-> a.program, mint |-> a.mint,
                 hasAlphaVault |-> a.vault # "off"]

\* Of a command that is alone: a token that is made is new and the wallet's until it has its
\* supply; a pool is made of a token that is there, and is accepted if nothing was wrong.
ScriptToken(k) ==
    \/ /\ queue = <<MintTx(k), AccountTx(k), SupplyTx(k)>>
       /\ IF cmd.arg.wrong THEN PC!Known(chain, k) ELSE ~PC!Known(chain, k)
    \/ queue = <<AccountTx(k), SupplyTx(k)>> /\ PC!Known(chain, k) /\ PC!Mint(chain, k).mine
    \/ /\ queue = <<SupplyTx(k)>> /\ PC!Known(chain, k)
       /\ PC!Mint(chain, k).mine /\ PC!Mint(chain, k).account

ScriptAlone ==
    \/ cmd.op = "token" /\ ScriptToken(cmd.arg.mint)
    \/ /\ cmd.op = "pool" /\ Len(queue) = 1
       /\ cmd.arg.wrong \/ PC!Accepts(chain, Head(queue))
    \/ /\ cmd.op = "pool+vault" /\ queue = <<PoolTx(cmd.arg)>> /\ cmd.arg.vault = "block"
       /\ cmd.arg.wrong \/ PC!Accepts(chain, Head(queue))
    \/ /\ cmd.op = "vault" /\ Len(queue) = 1
       /\ cmd.arg.wrong \/ PC!Accepts(chain, Head(queue))

\* What the next stage of a script finds.
ScriptReady ==
    \/ cmd.op = "token" /\ PC!Known(chain, cmd.arg.mint)
    \/ /\ cmd.op = "pool+vault"
       /\ cmd.dry \/ /\ [program |-> cmd.arg.program, mint |-> cmd.arg.mint,
                         hasAlphaVault |-> TRUE] \in chain.pools
                     /\ <<cmd.arg.program, cmd.arg.mint>> \notin chain.vaults

ScriptLone ==
    /\ status \in {"running", "resumed"}
       => cmd.arg \in ScriptArg /\ (cmd.op = "token" => ~cmd.dry)
    /\ status = "running" => cmd.moved \/ ScriptAlone
    /\ status = "resumed" => cmd.moved \/ ScriptReady
    /\ status = "refused" => cmd.moved \/ cmd.arg.wrong

ScriptInv == Typed(ScriptTx, ScriptChain) /\ ScriptLone

\* It holds before the first command.
LEMMA ScriptInit == ASSUME PC!Init PROVE ScriptInv
<1> DEFINE m == [key |-> PC!Existing, mine |-> FALSE, account |-> TRUE, supplied |-> TRUE]
<1>1. chain = [mints |-> {m}, pools |-> {}, vaults |-> {}] /\ cmd = PC!S!NoCommand
      /\ queue = <<>> /\ late = {} /\ status = "idle"
  BY DEF PC!Init, PC!S!Begin
<1>2. m \in ScriptMints
  BY BoundAssumption DEF ScriptMints, PC!Existing
<1> HIDE DEF m
<1>3. chain \in ScriptChain
  BY <1>1, <1>2 DEF ScriptChain, ScriptRecord, OneMint, VaultsStand
<1> QED BY <1>1, <1>3 DEF PC!S!NoCommand, ScriptInv, Typed, CmdInv, ScriptLone

\* The fields of what a script sends.
LEMMA ScriptFields ==
    ASSUME NEW k, NEW a
    PROVE  /\ MintTx(k).kind = "mint" /\ MintTx(k).mint = k
           /\ AccountTx(k).kind = "account" /\ AccountTx(k).mint = k
           /\ SupplyTx(k).kind = "supply" /\ SupplyTx(k).mint = k
           /\ PoolTx(a).kind = "pool" /\ PoolTx(a).mint = a.mint
           /\ PoolTx(a).program = a.program /\ (PoolTx(a).hasAlphaVault <=> a.vault # "off")
BY Zenon DEF MintTx, AccountTx, SupplyTx, PoolTx

\* After the first transaction the rest of its stage is still accepted, and the next stage
\* finds the token or the pool.
LEMMA ScriptTakes ==
    ASSUME Typed(ScriptTx, ScriptChain), ScriptLone, Takes(PC!Resumes),
           \/ cmd.dry /\ chain' = chain
           \/ /\ ~cmd.dry /\ PC!Accepts(chain, Head(queue))
              /\ chain' = PC!Effect(chain, Head(queue))
    PROVE  ScriptLone'
<1>1. /\ queue \in Seq(ScriptTx) /\ queue # <<>> /\ queue' = Tail(queue) /\ cmd' = cmd
      /\ status = "running" /\ chain \in ScriptChain /\ Head(queue) \in ScriptTx
      /\ status' = IF Len(queue) > 1 THEN "running"
                   ELSE IF cmd.op \in {"token", "pool+vault"} THEN "resumed" ELSE "ok"
  BY TypedHead DEF Typed, Takes, PC!Resumes
<1>2. /\ cmd.arg \in ScriptArg /\ (cmd.op = "token" => ~cmd.dry)
      /\ cmd.moved \/ ScriptAlone
  BY <1>1 DEF ScriptLone
<1>3. CASE cmd.moved
  BY <1>1, <1>2, <1>3 DEF ScriptLone
<1>4. CASE ~cmd.moved /\ cmd.op = "token"
  <2> DEFINE k == cmd.arg.mint
             t == Head(queue)
             d == PC!Effect(chain, t)
  <2>1. /\ ScriptToken(k) /\ chain' = d /\ PC!Accepts(chain, Head(queue)) /\ d \in ScriptChain
    BY Zenon, <1>1, <1>2, <1>4, ScriptLands DEF ScriptAlone
  <2> HIDE DEF t
  <2>5. /\ t.kind \in {"mint", "account", "supply"} => PC!Known(d, t.mint)
        /\ t.kind = "mint" => PC!Mint(d, t.mint).mine
        /\ t.kind = "account" /\ PC!Mint(chain, t.mint).mine
           => PC!Mint(d, t.mint).mine /\ PC!Mint(d, t.mint).account
    BY Zenon, <1>1, <2>1, ScriptLands DEF t
  <2>2. CASE queue = <<MintTx(k), AccountTx(k), SupplyTx(k)>>
    <3>1. /\ Head(queue) = MintTx(k) /\ Tail(queue) = <<AccountTx(k), SupplyTx(k)>>
          /\ Len(queue) = 3
      BY <2>2
    <3>2. PC!Known(d, k) /\ PC!Mint(d, k).mine
      BY <2>5, <3>1, ScriptFields DEF t
    <3>3. ScriptToken(k)'
      BY <1>1, <2>1, <3>1, <3>2 DEF ScriptToken
    <3> QED BY <1>1, <1>2, <1>4, <3>1, <3>3 DEF ScriptLone, ScriptAlone
  <2>3. CASE queue = <<AccountTx(k), SupplyTx(k)>>
    <3>1. /\ Head(queue) = AccountTx(k) /\ Tail(queue) = <<SupplyTx(k)>> /\ Len(queue) = 2
          /\ queue # <<SupplyTx(k)>> /\ queue # <<MintTx(k), AccountTx(k), SupplyTx(k)>>
      BY <2>3
    <3>2. PC!Mint(chain, k).mine
      BY <2>1, <3>1 DEF ScriptToken
    <3>3. PC!Known(d, k) /\ PC!Mint(d, k).mine /\ PC!Mint(d, k).account
      BY <2>5, <3>1, <3>2, ScriptFields DEF t
    <3>4. ScriptToken(k)'
      BY <1>1, <2>1, <3>1, <3>3 DEF ScriptToken
    <3> QED BY <1>1, <1>2, <1>4, <3>1, <3>4 DEF ScriptLone, ScriptAlone
  <2>4. CASE queue = <<SupplyTx(k)>>
    <3>1. Head(queue) = SupplyTx(k) /\ ~(Len(queue) > 1)
      BY <2>4
    <3>2. PC!Known(d, k)
      BY <2>5, <3>1, ScriptFields DEF t
    <3> QED BY <1>1, <1>2, <1>4, <2>1, <3>1, <3>2 DEF ScriptLone, ScriptReady
  <2> QED BY <2>1, <2>2, <2>3, <2>4 DEF ScriptToken
<1>5. CASE ~cmd.moved /\ cmd.op = "pool+vault"
  <2> DEFINE a == cmd.arg
             d == PC!Effect(chain, Head(queue))
  <2>1. queue = <<PoolTx(a)>> /\ a.vault = "block"
    BY <1>2, <1>5 DEF ScriptAlone
  <2>2. Head(queue) = PoolTx(a) /\ ~(Len(queue) > 1)
    BY <2>1
  <2>3. ASSUME ~cmd.dry
        PROVE  /\ [program |-> a.program, mint |-> a.mint, hasAlphaVault |-> TRUE] \in chain'.pools
               /\ <<a.program, a.mint>> \notin chain'.vaults
    <3>1. PC!Accepts(chain, Head(queue)) /\ chain' = d
      BY <2>3
    <3> DEFINE t == Head(queue)
               x == [program |-> t.program, mint |-> t.mint, hasAlphaVault |-> t.hasAlphaVault]
    <3>0. /\ t.kind = "pool" /\ t.mint = a.mint /\ t.program = a.program
          /\ t.hasAlphaVault = TRUE
      BY <2>1, <2>2, ScriptFields DEF PoolTx
    <3> HIDE DEF t
    <3>2. x \in d.pools /\ d.vaults = chain.vaults
      BY Zenon, <1>1, <3>0, <3>1, ScriptLands DEF t
    <3>5. x = [program |-> a.program, mint |-> a.mint, hasAlphaVault |-> TRUE]
      BY Zenon, <3>0
    <3>3. ~PC!HasPool(chain, a.program, a.mint)
      BY Zenon, <3>0, <3>1 DEF PC!Accepts, t
    <3>4. <<a.program, a.mint>> \notin chain.vaults
      BY <1>1, <3>3 DEF ScriptChain, VaultsStand
    <3> QED BY <3>1, <3>2, <3>4, <3>5
  <2> QED BY <1>1, <1>2, <1>5, <2>2, <2>3 DEF ScriptLone, ScriptReady
<1>6. CASE ~cmd.moved /\ cmd.op \notin {"token", "pool+vault"}
  <2>1. Len(queue) = 1
    BY <1>2, <1>6 DEF ScriptAlone
  <2> QED BY <1>1, <1>6, <2>1 DEF ScriptLone
<1> QED BY <1>3, <1>4, <1>5, <1>6

\* A transaction that is refused met a chain that was moved, or an account of the
\* configuration that was wrong.
LEMMA ScriptStops ==
    ASSUME Typed(ScriptTx, ScriptChain), ScriptLone,
           Stops(PC!Accepts(chain, Head(queue)), PC!Forgives)
    PROVE  ScriptLone'
<1>1. /\ status = "running" /\ cmd' = cmd
      /\ status' = "lost" \/ (status' = "refused" /\ ~PC!Accepts(chain, Head(queue)))
      /\ cmd.arg \in ScriptArg /\ (cmd.moved \/ ScriptAlone)
  BY DEF Stops, ScriptLone
<1>2. ASSUME ScriptToken(cmd.arg.mint) PROVE cmd.arg.wrong \/ PC!Accepts(chain, Head(queue))
  <2> DEFINE k == cmd.arg.mint
  <2>1. CASE queue = <<MintTx(k), AccountTx(k), SupplyTx(k)>>
    <3>1. Head(queue) = MintTx(k) /\ queue # <<AccountTx(k), SupplyTx(k)>>
          /\ queue # <<SupplyTx(k)>>
      BY <2>1
    <3>2. Head(queue).kind = "mint" /\ Head(queue).mint = k
      BY <3>1, ScriptFields
    <3>3. PC!Accepts(chain, Head(queue)) \/ cmd.arg.wrong
      BY Zenon, <1>2, <2>1, <3>1, <3>2 DEF ScriptToken, PC!Accepts
    <3> QED BY <3>3
  <2>2. CASE queue = <<AccountTx(k), SupplyTx(k)>>
    <3>1. Head(queue) = AccountTx(k) /\ queue # <<SupplyTx(k)>>
          /\ queue # <<MintTx(k), AccountTx(k), SupplyTx(k)>>
      BY <2>2
    <3>2. Head(queue).kind = "account" /\ Head(queue).mint = k
      BY <3>1, ScriptFields
    <3>3. PC!Accepts(chain, Head(queue)) \/ cmd.arg.wrong
      BY Zenon, <1>2, <2>2, <3>1, <3>2 DEF ScriptToken, PC!Accepts
    <3> QED BY <3>3
  <2>3. CASE queue = <<SupplyTx(k)>>
    <3>1. Head(queue) = SupplyTx(k) /\ queue # <<AccountTx(k), SupplyTx(k)>>
          /\ queue # <<MintTx(k), AccountTx(k), SupplyTx(k)>>
      BY <2>3
    <3>2. Head(queue).kind = "supply" /\ Head(queue).mint = k
      BY <3>1, ScriptFields
    <3>3. PC!Accepts(chain, Head(queue)) \/ cmd.arg.wrong
      BY Zenon, <1>2, <2>3, <3>1, <3>2 DEF ScriptToken, PC!Accepts
    <3> QED BY <3>3
  <2> QED BY <1>2, <2>1, <2>2, <2>3 DEF ScriptToken
<1>3. ScriptAlone => cmd.arg.wrong \/ PC!Accepts(chain, Head(queue))
  BY <1>2 DEF ScriptAlone
<1> QED BY <1>1, <1>3 DEF ScriptLone

\* The pool of a script, given or after its token.
LEMMA ScriptPool ==
    ASSUME chain \in ScriptChain, NEW a \in ScriptArg
    PROVE  LET arg == PC!Asked(a, PC!PoolWrong(a))
           IN  /\ arg \in ScriptArg /\ arg.program = a.program /\ arg.mint = a.mint
               /\ arg.vault = a.vault
               /\ PC!Known(chain, a.mint) => arg.wrong \/ PC!Accepts(chain, PoolTx(a))
               /\ PoolTx(a) \in ScriptTx /\ PC!PoolTxs(a) = <<PoolTx(a)>>
               /\ PoolTx(arg) = PoolTx(a)
<1> DEFINE w == PC!PoolWrong(a)
           arg == PC!Asked(a, w)
<1>1. w \in BOOLEAN
  BY DEF PC!PoolWrong
<1>2. arg = [a EXCEPT !.wrong = w]
  BY DEF PC!Asked
<1>3. PC!Known(chain, a.mint) => w \/ PC!Accepts(chain, PoolTx(a))
  BY DEF PC!PoolWrong, PC!Accepts, PoolTx
<1> HIDE DEF w, arg
<1>4. arg \in ScriptArg /\ arg.program = a.program /\ arg.mint = a.mint /\ arg.vault = a.vault
      /\ arg.wrong = w
  BY <1>1, <1>2 DEF ScriptArg
<1>5. PoolTx(a) \in ScriptTx
  BY DEF PoolTx, ScriptTx, ScriptArg
<1>6. PoolTx(arg) = PoolTx(a) /\ PC!PoolTxs(a) = <<PoolTx(a)>>
  BY <1>4 DEF PoolTx, PC!PoolTxs
<1> QED BY <1>3, <1>4, <1>5, <1>6 DEF arg, w

\* A script starts a stage whose transactions are accepted.
LEMMA ScriptCommanded ==
    ASSUME ScriptInv, NEW op, NEW arg \in ScriptArg, NEW ok \in BOOLEAN,
       NEW txs \in Seq(ScriptTx),
           Commanded(op, arg, ok, txs),
           status' = "running"
           => /\ ok /\ (op = "token" => ~cmd'.dry) /\ txs # <<>>
              /\ (queue' = txs /\ chain' = chain /\ cmd'.op = op /\ cmd'.arg = arg) => ScriptAlone'
    PROVE  ScriptInv'
<1>1. Typed(ScriptTx, ScriptChain)'
  BY TypedCommanded DEF ScriptInv
<1>2. /\ chain' = chain /\ cmd'.op = op /\ cmd'.arg = arg
      /\ status' = "running" => queue' = txs
      /\ status' \in {"threw", "ok", "running"}
  BY DEF Commanded
<1>3. ScriptLone'
  BY <1>2 DEF ScriptLone
<1> QED BY <1>1, <1>3 DEF ScriptInv

\* A script goes on with a transaction that is accepted.
LEMMA ScriptResumed ==
    ASSUME ScriptInv, NEW op, op # "token", NEW arg \in ScriptArg, NEW ok, NEW t \in ScriptTx,
           Resumed(op, arg, ok, <<t>>),
           cmd.moved
           \/ ((queue' = <<t>> /\ chain' = chain /\ cmd'.op = op /\ cmd'.arg = arg)
               => ScriptAlone')
    PROVE  ScriptInv'
<1>1. <<t>> \in Seq(ScriptTx) /\ <<t>> # <<>>
  OBVIOUS
<1>2. Typed(ScriptTx, ScriptChain)'
  BY Zenon, <1>1, TypedResumed DEF ScriptInv
<1>3. /\ chain' = chain /\ cmd'.op = op /\ cmd'.arg = arg /\ cmd'.moved = cmd.moved
      /\ status' = "running" => queue' = <<t>>
      /\ status' \in {"threw", "running"}
  BY <1>1 DEF Resumed, ScriptInv, Typed, CmdInv
<1>4. ScriptLone'
  BY <1>3 DEF ScriptLone
<1> QED BY <1>2, <1>4 DEF ScriptInv

\* Every pool script command and every step of others keeps it.
LEMMA ScriptStep == ASSUME ScriptInv, PC!Next PROVE ScriptInv'
<1>0. /\ Typed(ScriptTx, ScriptChain) /\ chain \in ScriptChain /\ chain \in ScriptRecord
      /\ ScriptLone /\ CmdInv /\ cmd.n \in Nat /\ OneMint(chain) /\ VaultsStand(chain)
  BY DEF ScriptInv, Typed, ScriptChain, CmdInv
<1>1. CASE PC!S!Step
  <2>1. Typed(ScriptTx, ScriptChain)'
    BY <1>0, <1>1, ScriptTyped
  <2>2. Steps(PC!Accepts, PC!Effect, PC!Resumes, PC!Forgives)
    BY <1>1, ScriptSteps
  <2>3. CASE Commanded("unready", "none", FALSE, <<>>)
    BY <1>0, <2>1, <2>3 DEF Commanded, ScriptLone, ScriptInv
  <2>4. CASE \E l \in late : Late(l) /\ ((cmd' = [cmd EXCEPT !.moved = TRUE])
                                        \/ (UNCHANGED <<chain, cmd>>))
    BY Zenon, <1>0, <2>1, <2>4
       DEF Late, ScriptLone, ScriptAlone, ScriptToken, ScriptReady, CmdInv, ScriptInv
  <2>5. CASE Takes(PC!Resumes) /\ (\/ cmd.dry /\ chain' = chain
                                  \/ /\ ~cmd.dry /\ PC!Accepts(chain, Head(queue))
                                     /\ chain' = PC!Effect(chain, Head(queue)))
    BY <1>0, <2>1, <2>5, ScriptTakes DEF ScriptInv
  <2>6. CASE Stops(PC!Accepts(chain, Head(queue)), PC!Forgives)
    BY <1>0, <2>1, <2>6, ScriptStops DEF ScriptInv
  <2> QED BY Zenon, <2>2, <2>3, <2>4, <2>5, <2>6 DEF Steps
<1>2. CASE PC!OthersCreatePool
  <2>1. PICK pr \in PoolPrograms :
           Moved([chain EXCEPT !.pools = chain.pools \union
                     {[program |-> pr, mint |-> PC!Existing, hasAlphaVault |-> FALSE]}])
    BY Zenon, <1>2 DEF PC!OthersCreatePool, PC!S!World, Moved
  <2> DEFINE x == [program |-> pr, mint |-> PC!Existing, hasAlphaVault |-> FALSE]
             ps == chain.pools \union {x}
             c == [chain EXCEPT !.pools = ps]
  <2>2. x \in ScriptPools
    BY BoundAssumption DEF ScriptPools, PC!Existing
  <2>3. Moved(c)
    BY <2>1
  <2> HIDE DEF x
  <2>4. ps \in SUBSET ScriptPools /\ chain.pools \subseteq ps
    BY <1>0, <2>2 DEF ScriptRecord
  <2> HIDE DEF ps
  <2>5. c \in ScriptRecord /\ c.mints = chain.mints /\ c.pools = ps /\ c.vaults = chain.vaults
    BY <1>0, <2>4 DEF ScriptRecord
  <2> HIDE DEF c
  <2>6. c \in ScriptChain
    BY <1>0, <2>4, <2>5 DEF ScriptChain, OneMint, VaultsStand, PC!HasPool
  <2>7. Typed(ScriptTx, ScriptChain)' /\ cmd'.moved
    BY <1>0, <2>3, <2>6, TypedMoved
  <2> QED BY <1>0, <2>3, <2>7 DEF ScriptInv, ScriptLone, Moved, CmdInv
<1>3. ASSUME NEW given \in BOOLEAN, PC!PoolGoesOn(given) PROVE ScriptInv'
  <2> DEFINE a == cmd.arg
             arg == PC!Asked(a, PC!PoolWrong(a))
             op == PC!PoolOp(a)
  <2>1. /\ status = "resumed" /\ cmd.op = "token" /\ a \in ScriptArg
        /\ cmd.moved \/ PC!Known(chain, a.mint)
    BY <1>0, <1>3 DEF PC!PoolGoesOn, PC!S!Resume, ScriptLone, ScriptReady
  <2>2. Resumed(op, arg, given, PC!PoolTxs(a))
    BY <1>3 DEF PC!PoolGoesOn, PC!S!Resume, Resumed
  <2>3. op = (IF a.vault = "block" THEN "pool+vault" ELSE "pool")
    BY DEF PC!PoolOp
  <2>4. arg \in ScriptArg /\ arg.vault = a.vault /\ PoolTx(arg) = PoolTx(a)
        /\ PoolTx(a) \in ScriptTx /\ PC!PoolTxs(a) = <<PoolTx(a)>>
        /\ (PC!Known(chain, a.mint) => arg.wrong \/ PC!Accepts(chain, PoolTx(a)))
    BY <1>0, <2>1, ScriptPool
  <2> HIDE DEF arg, op, a
  <2>5. cmd.moved
        \/ ((queue' = <<PoolTx(a)>> /\ chain' = chain /\ cmd'.op = op /\ cmd'.arg = arg)
            => ScriptAlone')
    BY <2>1, <2>3, <2>4 DEF ScriptAlone
  <2> QED BY <2>2, <2>3, <2>4, <2>5, ScriptResumed
<1>4. ASSUME NEW type \in PoolPrograms, NEW given \in BOOLEAN, PC!VaultGoesOn(type, given)
      PROVE  ScriptInv'
  <2> DEFINE a == cmd.arg
             w == cmd.dry \/ type # a.program
             arg == PC!Asked(a, w)
             t == [kind |-> "vault", program |-> a.program, mint |-> a.mint, type |-> type]
  <2>1. /\ status = "resumed" /\ cmd.op = "pool+vault" /\ a \in ScriptArg
        /\ cmd.moved \/ ScriptReady
    BY <1>0, <1>4 DEF PC!VaultGoesOn, PC!S!Resume, ScriptLone
  <2>2. Resumed("vault", arg, given, <<t>>)
    BY <1>4 DEF PC!VaultGoesOn, PC!VaultTxs, PC!S!Resume, Resumed
  <2>3. t \in ScriptTx
    BY <2>1 DEF ScriptTx, ScriptArg
  <2>4. w \in BOOLEAN /\ arg = [a EXCEPT !.wrong = w]
    BY DEF PC!Asked
  <2>5. cmd.moved \/ w \/ PC!Accepts(chain, t)
    BY <2>1 DEF ScriptReady, PC!Accepts
  <2> HIDE DEF a, w, arg, t
  <2>6. arg \in ScriptArg /\ arg.wrong = w
    BY <2>1, <2>4 DEF ScriptArg
  <2>7. Len(<<t>>) = 1 /\ Head(<<t>>) = t
    OBVIOUS
  <2>8. cmd.moved
        \/ ((queue' = <<t>> /\ chain' = chain /\ cmd'.op = "vault" /\ cmd'.arg = arg)
            => ScriptAlone')
    BY <2>5, <2>6, <2>7 DEF ScriptAlone
  <2> QED BY <2>2, <2>3, <2>6, <2>8, ScriptResumed
<1>5. ASSUME NEW a \in PC!Blank, NEW filed \in BOOLEAN, NEW given \in BOOLEAN,
             PC!TokenScript(a, filed, given)
      PROVE  ScriptInv'
  <2> DEFINE key == IF filed THEN PC!Filed ELSE cmd.n + 1
             x == [a EXCEPT !.mint = key]
  <2>1. key \in Int
    BY <1>0 DEF PC!Filed
  <2> HIDE DEF key
  <2>2. x \in ScriptArg /\ x.mint = key
    BY Zenon, <2>1 DEF PC!Blank, ScriptArg
  <2>3. PC!CreateTokenMint(x, given) \/ PC!NoDryToken(x)
    BY <1>5 DEF PC!TokenScript, key
  <2> HIDE DEF x
  <2>4. ASSUME NEW w \in BOOLEAN
        PROVE  /\ PC!Asked(x, w) \in ScriptArg /\ PC!Asked(x, w).mint = x.mint
               /\ PC!Asked(x, w).wrong = w
    BY <2>2 DEF PC!Asked, ScriptArg
  <2>5. CASE PC!NoDryToken(x)
    <3> DEFINE arg == PC!Asked(x, FALSE)
    <3>1. Commanded("token", arg, FALSE, <<>>)
      BY Zenon, <2>5 DEF PC!NoDryToken, PC!S!Command, PC!S!Busy, Commanded
    <3>2. status' = "threw"
      BY <3>1 DEF Commanded
    <3>3. Typed(ScriptTx, ScriptChain)'
      BY Zenon, <1>0, <3>1, TypedCommanded
    <3> QED BY <3>2, <3>3 DEF ScriptInv, ScriptLone
  <2>6. CASE PC!CreateTokenMint(x, given)
    <3> DEFINE w == PC!Known(chain, x.mint)
               arg == PC!Asked(x, w)
               txs == <<MintTx(x.mint), AccountTx(x.mint), SupplyTx(x.mint)>>
    <3>1. Commanded("token", arg, given, txs) /\ ~cmd'.dry
      BY Zenon, <2>6 DEF PC!CreateTokenMint, PC!TokenTxs, PC!S!Command, PC!S!Busy, Commanded,
         MintTx, AccountTx, SupplyTx
    <3>2. w \in BOOLEAN
      BY DEF PC!Known
    <3>3. arg \in ScriptArg /\ arg.mint = x.mint /\ (arg.wrong <=> PC!Known(chain, x.mint))
      BY <2>4, <3>2
    <3>4. /\ MintTx(x.mint) \in ScriptTx /\ AccountTx(x.mint) \in ScriptTx
          /\ SupplyTx(x.mint) \in ScriptTx
      BY <2>1, <2>2 DEF MintTx, AccountTx, SupplyTx, ScriptTx
    <3>5. txs \in Seq(ScriptTx) /\ txs # <<>>
      BY <3>4
    <3> HIDE DEF arg, w
    <3>6. ASSUME status' = "running" PROVE given
      BY <3>1, <3>6 DEF Commanded
    <3>7. (queue' = txs /\ chain' = chain /\ cmd'.op = "token" /\ cmd'.arg = arg) => ScriptAlone'
      BY <3>3 DEF ScriptAlone, ScriptToken
    <3> HIDE DEF txs
    <3> QED BY <3>1, <3>3, <3>5, <3>6, <3>7, ScriptCommanded
  <2> QED BY <2>3, <2>5, <2>6
<1>6. ASSUME NEW a \in PC!Blank, NEW k \in PC!MintKeys, NEW given \in BOOLEAN,
             PC!Script(a, k, given)
      PROVE  ScriptInv'
  <2> DEFINE x == [a EXCEPT !.mint = k]
             arg == PC!Asked(x, PC!PoolWrong(x))
             op == PC!PoolOp(x)
             ok == given /\ PC!Known(chain, x.mint)
  <2>1. k \in Int
    BY BoundAssumption DEF PC!MintKeys, PC!Filed, PC!Existing
  <2>2. x \in ScriptArg
    BY Zenon, <2>1 DEF PC!Blank, ScriptArg
  <2>3. Commanded(op, arg, ok, PC!PoolTxs(x))
    BY Zenon, <1>6 DEF PC!Script, PC!CreatePool, PC!S!Command, PC!S!Busy, Commanded
  <2>4. op = (IF x.vault = "block" THEN "pool+vault" ELSE "pool")
    BY DEF PC!PoolOp
  <2>5. ok \in BOOLEAN
    OBVIOUS
  <2> HIDE DEF x
  <2>6. arg \in ScriptArg /\ arg.vault = x.vault /\ PoolTx(arg) = PoolTx(x)
        /\ PoolTx(x) \in ScriptTx /\ PC!PoolTxs(x) = <<PoolTx(x)>>
        /\ (ok => arg.wrong \/ PC!Accepts(chain, PoolTx(x)))
    BY <1>0, <2>2, ScriptPool
  <2> HIDE DEF arg, op, ok
  <2>7. /\ <<PoolTx(x)>> \in Seq(ScriptTx) /\ <<PoolTx(x)>> # <<>>
        /\ Len(<<PoolTx(x)>>) = 1 /\ Head(<<PoolTx(x)>>) = PoolTx(x)
    BY <2>6
  <2>8. ASSUME status' = "running" PROVE ok
    BY <2>3, <2>8 DEF Commanded
  <2>9. ok => ((queue' = <<PoolTx(x)>> /\ chain' = chain /\ cmd'.op = op /\ cmd'.arg = arg)
               => ScriptAlone')
    BY <2>4, <2>6, <2>7 DEF ScriptAlone
  <2>10. op # "token"
    BY <2>4
  <2> QED BY Zenon, <2>3, <2>5, <2>6, <2>7, <2>8, <2>9, <2>10, ScriptCommanded
<1>7. ASSUME NEW program \in PoolPrograms, NEW k \in PC!MintKeys, PC!CreateAlphaVault(program,
   k)
      PROVE  ScriptInv'
  <2> DEFINE a == [program |-> program, mint |-> k, vault |-> "block", wrong |-> FALSE]
             t == [kind |-> "vault", program |-> program, mint |-> k, type |-> program]
             w == ~PC!Accepts(chain, t)
             arg == PC!Asked(a, w)
  <2>1. k \in Int
    BY BoundAssumption DEF PC!MintKeys, PC!Filed, PC!Existing
  <2>2. t \in ScriptTx /\ a \in ScriptArg
    BY <2>1 DEF ScriptTx, ScriptArg, PC!VaultModes
  <2>3. PC!VaultTxs(a, program) = <<t>> /\ <<t>>[1] = t
    BY DEF PC!VaultTxs
  <2>4. Commanded("vault", arg, TRUE, <<t>>)
    BY Zenon, <1>7, <2>3 DEF PC!CreateAlphaVault, PC!S!Command, PC!S!Busy, Commanded
  <2>5. arg = [a EXCEPT !.wrong = w] /\ w \in BOOLEAN /\ (w \/ PC!Accepts(chain, t))
    BY DEF PC!Asked
  <2> HIDE DEF a, t, w, arg
  <2>6. arg \in ScriptArg /\ arg.wrong = w
    BY <2>2, <2>5 DEF ScriptArg
  <2>7. <<t>> \in Seq(ScriptTx) /\ <<t>> # <<>> /\ Len(<<t>>) = 1 /\ Head(<<t>>) = t
    BY <2>2
  <2>8. (queue' = <<t>> /\ chain' = chain /\ cmd'.op = "vault" /\ cmd'.arg = arg) => ScriptAlone'
    BY <2>5, <2>6, <2>7 DEF ScriptAlone
  <2> QED BY Zenon, <2>4, <2>6, <2>7, <2>8, ScriptCommanded
<1> QED BY <1>1, <1>2, <1>3, <1>4, <1>5, <1>6, <1>7 DEF PC!Next

-----------------------------------------------------------------------------
(* Steps that leave the commands alone *)

\* A stuttering step, of trading.
LEMMA SwapStays ==
    ASSUME SwapInv, UNCHANGED <<chain, cmd, queue, late, status>> PROVE SwapInv'
BY DEF SwapInv, Typed, CmdInv, SwapLone

\* A stuttering step, of lock.
LEMMA LockStays ==
    ASSUME LockInv, UNCHANGED <<chain, cmd, queue, late, status>> PROVE LockInv'
BY DEF LockInv, Typed, CmdInv, LockLone, LockExcept

\* A stuttering step, of stake2earn.
LEMMA StakeStays ==
    ASSUME StakeInv, UNCHANGED <<chain, cmd, queue, late, status>> PROVE StakeInv'
BY DEF StakeInv, Typed, CmdInv, StakeLone

\* A stuttering step, of dynamic vault.
LEMMA VaultStays ==
    ASSUME VaultInv, UNCHANGED <<chain, cmd, queue, late, status>> PROVE VaultInv'
BY DEF VaultInv, Typed, CmdInv, VaultLone, VaultExcept

\* A stuttering step, of fee sharing.
LEMMA ShareStays ==
    ASSUME ShareInv, UNCHANGED <<chain, cmd, queue, late, status>> PROVE ShareInv'
BY DEF ShareInv, Typed, CmdInv, ShareExcept

\* A stuttering step, of farming.
LEMMA FarmStays ==
    ASSUME FarmInv, UNCHANGED <<chain, cmd, queue, late, status>> PROVE FarmInv'
BY DEF FarmInv, Typed, CmdInv, FarmLone, FarmExcept, FarmAlone

\* A stuttering step, of DAMM v1.
LEMMA V1Stays ==
    ASSUME V1Inv, UNCHANGED <<chain, cmd, queue, late, status>> PROVE V1Inv'
BY DEF V1Inv, Typed, CmdInv, V1Lone, V1Alone, V1Except, V1Budgeted

\* A stuttering step, of DAMM v2 position.
LEMMA PosStays ==
    ASSUME PosInv, UNCHANGED <<chain, cmd, queue, late, status>> PROVE PosInv'
BY DEF PosInv, Typed, CmdInv, PosLone, PosAlone, PosExcept, PosLeft, PosFresh, OneByKey

\* A stuttering step, of DBC.
LEMMA DbcStays ==
    ASSUME DbcInv, UNCHANGED <<chain, cmd, queue, late, status>> PROVE DbcInv'
BY DEF DbcInv, Typed, CmdInv, DbcLone, DbcAlone, DbcMade

\* A stuttering step, of DLMM.
LEMMA DlmmStays ==
    ASSUME DlmmInv, UNCHANGED <<chain, cmd, queue, late, status>> PROVE DlmmInv'
BY DEF DlmmInv, Typed, CmdInv, DlmmLone, DlmmAlone

\* A stuttering step, of presale.
LEMMA SaleStays ==
    ASSUME SaleInv, UNCHANGED <<chain, cmd, queue, late, status>> PROVE SaleInv'
BY DEF SaleInv, Typed, CmdInv, SaleLone, SaleExcept, SaleAll

\* A stuttering step, of alpha vault.
LEMMA AlphaStays ==
    ASSUME AlphaInv, UNCHANGED <<chain, cmd, queue, late, status>> PROVE AlphaInv'
BY DEF AlphaInv, Typed, CmdInv, AlphaLone, AlphaExcept, AlphaBut, AlphaAll, AlphaClaims

\* A stuttering step, of pool script.
LEMMA ScriptStays ==
    ASSUME ScriptInv, UNCHANGED <<chain, cmd, queue, late, status>> PROVE ScriptInv'
BY DEF ScriptInv, Typed, CmdInv, ScriptLone, ScriptAlone, ScriptToken, ScriptReady

-----------------------------------------------------------------------------
(* The theorems *)

\* The inductive invariant. Of each component: what is pending and what the chain holds are of
\* their sets, and while nobody else moved the chain what is pending is accepted, the first of
\* it now and the others after it.
StudioInv ==
    /\ component = "trading" => SwapInv
    /\ component = "lock" => LockInv
    /\ component = "stake2earn" => StakeInv
    /\ component = "dynamicVault" => VaultInv
    /\ component = "feeSharing" => ShareInv
    /\ component = "farming" => FarmInv
    /\ component = "dammV1" => V1Inv
    /\ component = "dammV2Positions" => PosInv
    /\ component = "dbcPool" => DbcInv
    /\ component = "dlmm" => DlmmInv
    /\ component = "presale" => SaleInv
    /\ component = "alphaVault" => AlphaInv
    /\ component = "poolScripts" => ScriptInv

\* It holds of every component when it starts.
LEMMA StudioInit == Init => StudioInv
<1> SUFFICES ASSUME Init PROVE StudioInv
  OBVIOUS
<1>1. ASSUME component = "trading" PROVE SwapInv
  BY <1>1, SwapInit DEF Init
<1>2. ASSUME component = "lock" PROVE LockInv
  BY <1>2, LockInit DEF Init
<1>3. ASSUME component = "stake2earn" PROVE StakeInv
  BY <1>3, StakeInit DEF Init
<1>4. ASSUME component = "dynamicVault" PROVE VaultInv
  BY <1>4, VaultInit DEF Init
<1>5. ASSUME component = "feeSharing" PROVE ShareInv
  BY <1>5, ShareInit DEF Init
<1>6. ASSUME component = "farming" PROVE FarmInv
  BY <1>6, FarmInit DEF Init
<1>7. ASSUME component = "dammV1" PROVE V1Inv
  BY <1>7, V1Init DEF Init
<1>8. ASSUME component = "dammV2Positions" PROVE PosInv
  BY <1>8, PosInit DEF Init
<1>9. ASSUME component = "dbcPool" PROVE DbcInv
  BY <1>9, DbcInit DEF Init
<1>10. ASSUME component = "dlmm" PROVE DlmmInv
  BY <1>10, DlmmInit DEF Init
<1>11. ASSUME component = "presale" PROVE SaleInv
  BY <1>11, SaleInit DEF Init
<1>12. ASSUME component = "alphaVault" PROVE AlphaInv
  BY <1>12, AlphaInit DEF Init
<1>13. ASSUME component = "poolScripts" PROVE ScriptInv
  BY <1>13, ScriptInit DEF Init
<1> QED BY <1>1, <1>2, <1>3, <1>4, <1>5, <1>6, <1>7, <1>8, <1>9, <1>10, <1>11, <1>12, <1>13
   DEF StudioInv

\* Whatever a component does keeps it.
LEMMA StudioStep == StudioInv /\ [Next]_vars => StudioInv'
<1> SUFFICES ASSUME StudioInv, [Next]_vars PROVE StudioInv'
  OBVIOUS
<1>0. component' = component
  BY DEF Next, vars
<1>1. ASSUME component = "trading" PROVE SwapInv'
  <2>1. SwapInv /\ (SW!Next \/ UNCHANGED <<chain, cmd, queue, late, status>>)
    BY <1>1 DEF StudioInv, Next, vars
  <2> QED BY <2>1, SwapStep, SwapStays
<1>2. ASSUME component = "lock" PROVE LockInv'
  <2>1. LockInv /\ (LO!Next \/ UNCHANGED <<chain, cmd, queue, late, status>>)
    BY <1>2 DEF StudioInv, Next, vars
  <2> QED BY <2>1, LockStep, LockStays
<1>3. ASSUME component = "stake2earn" PROVE StakeInv'
  <2>1. StakeInv /\ (SE!Next \/ UNCHANGED <<chain, cmd, queue, late, status>>)
    BY <1>3 DEF StudioInv, Next, vars
  <2> QED BY <2>1, StakeStep, StakeStays
<1>4. ASSUME component = "dynamicVault" PROVE VaultInv'
  <2>1. VaultInv /\ (DV!Next \/ UNCHANGED <<chain, cmd, queue, late, status>>)
    BY <1>4 DEF StudioInv, Next, vars
  <2> QED BY <2>1, VaultStep, VaultStays
<1>5. ASSUME component = "feeSharing" PROVE ShareInv'
  <2>1. ShareInv /\ (FS!Next \/ UNCHANGED <<chain, cmd, queue, late, status>>)
    BY <1>5 DEF StudioInv, Next, vars
  <2> QED BY <2>1, ShareStep, ShareStays
<1>6. ASSUME component = "farming" PROVE FarmInv'
  <2>1. FarmInv /\ (FA!Next \/ UNCHANGED <<chain, cmd, queue, late, status>>)
    BY <1>6 DEF StudioInv, Next, vars
  <2> QED BY <2>1, FarmStep, FarmStays
<1>7. ASSUME component = "dammV1" PROVE V1Inv'
  <2>1. V1Inv /\ (V1!Next \/ UNCHANGED <<chain, cmd, queue, late, status>>)
    BY <1>7 DEF StudioInv, Next, vars
  <2> QED BY <2>1, V1Step, V1Stays
<1>8. ASSUME component = "dammV2Positions" PROVE PosInv'
  <2>1. PosInv /\ (V2!Next \/ UNCHANGED <<chain, cmd, queue, late, status>>)
    BY <1>8 DEF StudioInv, Next, vars
  <2> QED BY <2>1, PosStep, PosStays
<1>9. ASSUME component = "dbcPool" PROVE DbcInv'
  <2>1. DbcInv /\ (DP!Next \/ UNCHANGED <<chain, cmd, queue, late, status>>)
    BY <1>9 DEF StudioInv, Next, vars
  <2> QED BY <2>1, DbcStep, DbcStays
<1>10. ASSUME component = "dlmm" PROVE DlmmInv'
  <2>1. DlmmInv /\ (DL!Next \/ UNCHANGED <<chain, cmd, queue, late, status>>)
    BY <1>10 DEF StudioInv, Next, vars
  <2> QED BY <2>1, DlmmStep, DlmmStays
<1>11. ASSUME component = "presale" PROVE SaleInv'
  <2>1. SaleInv /\ (PS!Next \/ UNCHANGED <<chain, cmd, queue, late, status>>)
    BY <1>11 DEF StudioInv, Next, vars
  <2> QED BY <2>1, SaleStep, SaleStays
<1>12. ASSUME component = "alphaVault" PROVE AlphaInv'
  <2>1. AlphaInv /\ (VA!Next \/ UNCHANGED <<chain, cmd, queue, late, status>>)
    BY <1>12 DEF StudioInv, Next, vars
  <2> QED BY <2>1, AlphaStep, AlphaStays
<1>13. ASSUME component = "poolScripts" PROVE ScriptInv'
  <2>1. ScriptInv /\ (PC!Next \/ UNCHANGED <<chain, cmd, queue, late, status>>)
    BY <1>13 DEF StudioInv, Next, vars
  <2> QED BY <2>1, ScriptStep, ScriptStays
<1> QED BY <1>0, <1>1, <1>2, <1>3, <1>4, <1>5, <1>6, <1>7, <1>8, <1>9, <1>10, <1>11, <1>12,
   <1>13 DEF StudioInv

\* Whatever the commands, their order, what others do meanwhile and what becomes of lost
\* transactions: of every component what is pending and what the chain holds stays as its
\* part of StudioInv says, for all values of the constants.
THEOREM Runs == Spec => []StudioInv
BY StudioInit, StudioStep, PTL DEF Spec

\* Every swap command asks for its quote less the slippage, and the program gives no less:
\* whatever others trade before it lands, also after it was given up, no swap loses more
\* than the slippage (SwapChain bounds what swaps have lost).
THEOREM Slippages == Spec => []SlippageBounded
<1>1. StudioInv => SlippageBounded
  BY DEF StudioInv, SwapInv, Typed, SwapChain, SlippageBounded, SW!SlippageBounded
<1> QED BY <1>1, Runs, PTL

\* computeVestingAmounts: what the status of an escrow shows as vested is nothing before the
\* cliff, never falls and is everything at the end, or stays as it is once the escrow was
\* cancelled; and it is never less than what the recipient has got, whether the program
\* counts the periods from the start or from the cliff.
THEOREM Vestings == Spec => []VestingSound
<1>1. StudioInv => VestingSound
  <2> SUFFICES ASSUME StudioInv, component = "lock" PROVE LO!VestingSound
    BY DEF VestingSound
  <2>1. /\ chain.escrows \subseteq EscrowSet /\ chain.now \in Nat
        /\ \A e \in chain.escrows : e.claimed <= LO!Vested(e, chain.now)
    BY DEF StudioInv, LockInv, Typed, LockChain, LockRecord, Covered, CoveredEscrow
  <2>2. 0..LockLastTime \subseteq Nat
    OBVIOUS
  <2>3. ASSUME NEW e \in chain.escrows, NEW t \in 0..LockLastTime
        PROVE  /\ t < e.s.cliff => LO!Vested(e, t) = 0
               /\ \A u \in 0..t : LO!Vested(e, u) <= LO!Vested(e, t)
               /\ LO!Vested(e, t) <= LO!Total(e.s)
               /\ e.cancelled = 0 /\ t >= e.s.cliff /\ t >= e.s.start + e.s.freq * e.s.periods
                  => LO!Vested(e, t) = LO!Total(e.s)
               /\ e.cancelled # 0 /\ t >= e.s.cliff /\ t >= e.cancelled
                  => \A u \in t..LockLastTime : LO!Vested(e, u) = LO!Vested(e, t)
    <3>1. /\ t \in Nat /\ e \in EscrowSet
          /\ \A u \in 0..t : u \in Nat /\ u <= t
          /\ \A u \in t..LockLastTime : u \in Nat /\ u >= t
      BY <2>1, <2>2
    <3> QED BY <3>1, VestedFacts
  <2> QED BY Zenon, <2>1, <2>3 DEF LO!VestingSound
<1> QED BY <1>1, Runs, PTL

\* A command while nobody else moved the chain is refused by no program, whatever it sends
\* and however many transactions: its checks, made once before the first, are enough for
\* all of them. Each component names the commands that check less than their program.
THEOREM LoneRuns == Spec => []LoneRunNeverRefused
<1>1. SwapInv => SW!LoneRunNeverRefused
  BY DEF SwapInv, SwapLone, SW!LoneRunNeverRefused
<1>2. LockInv => LO!LoneRunNeverRefused
  BY DEF LockInv, LockLone, LockExcept, LO!LoneRunNeverRefused
<1>3. StakeInv => SE!LoneRunNeverRefused
  BY DEF StakeInv, StakeLone, SE!LoneRunNeverRefused
<1>4. VaultInv => DV!LoneRunNeverRefused
  BY DEF VaultInv, VaultLone, VaultExcept, DV!LoneRunNeverRefused
<1>5. ShareInv => FS!LoneRunNeverRefused
  BY DEF ShareInv, ShareExcept, FS!LoneRunNeverRefused
<1>6. FarmInv => FA!LoneRunNeverRefused
  BY DEF FarmInv, FarmLone, FarmExcept, FarmAlone, FA!LoneRunNeverRefused
<1>7. V1Inv => V1!LoneRunNeverRefused
  BY DEF V1Inv, V1Lone, V1Alone, V1Except, V1Budgeted, V1!LoneRunNeverRefused
<1>8. PosInv => V2!LoneRunNeverRefused
  BY DEF PosInv, PosLone, PosAlone, PosExcept, PosLeft, PosFresh, OneByKey,
     V2!LoneRunNeverRefused
<1>9. DbcInv => DP!LoneRunNeverRefused
  BY DEF DbcInv, DbcLone, DbcAlone, DbcMade, DP!LoneRunNeverRefused
<1>10. DlmmInv => DL!LoneRunNeverRefused
  BY DEF DlmmInv, DlmmLone, DlmmAlone, DL!LoneRunNeverRefused
<1>11. SaleInv => PS!LoneRunNeverRefused
  BY DEF SaleInv, SaleLone, SaleExcept, SaleAll, PS!LoneRunNeverRefused
<1>12. AlphaInv => VA!LoneRunNeverRefused
  BY DEF AlphaInv, AlphaLone, AlphaExcept, AlphaBut, AlphaAll, AlphaClaims,
     VA!LoneRunNeverRefused
<1>13. ScriptInv => PC!LoneRunNeverRefused
  BY DEF ScriptInv, ScriptLone, ScriptAlone, ScriptToken, ScriptReady, PC!LoneRunNeverRefused
<1>14. StudioInv => LoneRunNeverRefused
  BY <1>1, <1>2, <1>3, <1>4, <1>5, <1>6, <1>7, <1>8, <1>9, <1>10, <1>11, <1>12, <1>13
     DEF StudioInv, LoneRunNeverRefused
<1> QED BY <1>14, Runs, PTL

-----------------------------------------------------------------------------
(* Dlmm: the amounts of a limit order *)

\* The amounts of some entries, and nothing of the others.
AmountsOf(asked, entries) ==
    [i \in DOMAIN asked |-> IF i \in entries THEN asked[i].amount ELSE 0]

\* Entries ask for amounts at prices up to that of the last bin.
LEMMA EntriesType ==
    ASSUME NEW asked \in AskedBins
    PROVE  /\ Len(asked) \in Nat /\ DOMAIN asked = 1..Len(asked)
           /\ \A i \in DOMAIN asked : asked[i].amount \in Nat /\ asked[i].price \in 0..(2 * LastBin)
<1> DEFINE Prices == 0..(2 * LastBin)
           Entries == [price : Prices, amount : Nat]
<1>1. asked \in Seq(Entries)
  BY OrderAssumption
<1> HIDE DEF Entries
<1>2. /\ Len(asked) \in Nat /\ DOMAIN asked = 1..Len(asked)
      /\ \A i \in DOMAIN asked : asked[i] \in Entries
  BY <1>1
<1> HIDE DEF Prices
<1>3. \A i \in DOMAIN asked : asked[i].amount \in Nat /\ asked[i].price \in Prices
  BY <1>2 DEF Entries
<1> QED BY <1>2, <1>3 DEF Prices

\* What some entries ask for is the sum of their amounts.
LEMMA AskedSum ==
    ASSUME NEW asked \in AskedBins, NEW entries
    PROVE  LET f == AmountsOf(asked, entries)
           IN  /\ f \in [1..Len(asked) -> Nat] /\ DL!AskedFor(asked, entries) = V1!SumOf(f)
               /\ V1!SumOf(f) \in Nat
<1> DEFINE f == AmountsOf(asked, entries)
<1>1. f \in [1..Len(asked) -> Nat]
  BY EntriesType DEF AmountsOf
<1>2. DL!AskedFor(asked, entries) = DL!SumOf(f)
  BY DEF DL!AskedFor, AmountsOf
<1> HIDE DEF f
<1>3. DL!SumOf(f) = V1!SumOf(f)
  BY DEF DL!SumOf, V1!SumOf
<1>4. Len(asked) \in Nat
  BY EntriesType
<1>5. V1!SumOf(f) \in Nat
  BY Zenon, <1>1, <1>4, SumsOn
<1> QED BY <1>1, <1>2, <1>3, <1>5 DEF f

\* Entries apart ask for the sum of what they ask for.
LEMMA AskedSplit ==
    ASSUME NEW asked \in AskedBins, NEW some, NEW more, some \intersect more = {}
    PROVE  DL!AskedFor(asked, some \union more)
           = DL!AskedFor(asked, some) + DL!AskedFor(asked, more)
<1> DEFINE f == AmountsOf(asked, some)
           g == AmountsOf(asked, more)
           h == AmountsOf(asked, some \union more)
<1>1. \A i \in 1..Len(asked) : h[i] = f[i] + g[i]
  BY EntriesType DEF AmountsOf
<1>2. /\ f \in [1..Len(asked) -> Nat] /\ g \in [1..Len(asked) -> Nat]
      /\ h \in [1..Len(asked) -> Nat] /\ Len(asked) \in Nat
  BY AskedSum, EntriesType
<1>3. V1!SumOf(h) = V1!SumOf(f) + V1!SumOf(g)
  <2> HIDE DEF f, g, h
  <2> QED BY ZenonT(60), <1>1, <1>2, SumPlus
<1> QED BY <1>3, AskedSum

\* More entries do not ask for less.
LEMMA AskedMost ==
    ASSUME NEW asked \in AskedBins, NEW some, NEW more,
           \A i \in DOMAIN asked : i \in some => i \in more
    PROVE  DL!AskedFor(asked, some) <= DL!AskedFor(asked, more)
<1> DEFINE f == AmountsOf(asked, some)
           g == AmountsOf(asked, more)
<1>1. \A i \in 1..Len(asked) : f[i] <= g[i]
  BY EntriesType DEF AmountsOf
<1>2. /\ f \in [1..Len(asked) -> Nat] /\ g \in [1..Len(asked) -> Nat] /\ Len(asked) \in Nat
  BY AskedSum, EntriesType
<1>3. V1!SumOf(f) <= V1!SumOf(g)
  <2> HIDE DEF f, g
  <2> QED BY Zenon, <1>1, <1>2, SumMost
<1> QED BY <1>3, AskedSum

\* No entries ask for nothing.
LEMMA AskedNone == ASSUME NEW asked \in AskedBins PROVE DL!AskedFor(asked, {}) = 0
<1> DEFINE f == AmountsOf(asked, {})
<1>1. \A i \in 1..Len(asked) : f[i] = 0
  BY EntriesType DEF AmountsOf
<1>2. f \in [1..Len(asked) -> Nat] /\ Len(asked) \in Nat
  BY AskedSum, EntriesType
<1>3. V1!SumOf(f) = 0
  <2> HIDE DEF f
  <2> QED BY Zenon, <1>1, <1>2, SumNone
<1> QED BY <1>3, AskedSum

\* The bin that an entry falls into.
BinOf(side, asked, i) == DL!BinId(side, asked[i].price)

EntriesIn(side, asked, some) == {i \in DOMAIN asked : BinOf(side, asked, i) \in some}

\* It is one of the bins, at the price asked for or at a better one.
LEMMA BinBounds ==
    ASSUME NEW side, NEW asked \in AskedBins, NEW i \in DOMAIN asked
    PROVE  /\ BinOf(side, asked, i) \in 0..LastBin
           /\ side = "ask" => 2 * BinOf(side, asked, i) >= asked[i].price
           /\ side # "ask" => 2 * BinOf(side, asked, i) <= asked[i].price
<1> DEFINE p == asked[i].price
<1>1. p \in 0..(2 * LastBin) /\ LastBin \in Nat
  BY EntriesType, OrderAssumption
<1> HIDE DEF p
<1>2. /\ p \div 2 \in 0..LastBin /\ (p + 1) \div 2 \in 0..LastBin
      /\ 2 * (p \div 2) <= p /\ 2 * ((p + 1) \div 2) >= p
  BY <1>1
<1>3. BinOf(side, asked, i) = IF side = "ask" THEN (p + 1) \div 2 ELSE p \div 2
  BY DEF BinOf, DL!BinId, p
<1> QED BY <1>2, <1>3 DEF p

\* A bin of an order holds what its entries ask for.
LEMMA BinHolds ==
    ASSUME NEW side, NEW asked \in AskedBins
    PROVE  LET bins == DL!OrderBins(side, asked)
           IN  /\ DOMAIN bins = {BinOf(side, asked, i) : i \in DOMAIN asked}
               /\ \A b \in DOMAIN bins : bins[b] = DL!AskedFor(asked, EntriesIn(side, asked, {b}))
<1> DEFINE bins == DL!OrderBins(side, asked)
           w(b) == DL!AskedFor(asked, {i \in DOMAIN asked : DL!BinId(side, asked[i].price) = b})
<1>1. bins = [b \in {DL!BinId(side, asked[i].price) : i \in DOMAIN asked} |-> w(b)]
  BY DEF DL!OrderBins
<1>2. \A b : EntriesIn(side, asked, {b})
             = {i \in DOMAIN asked : DL!BinId(side, asked[i].price) = b}
  BY DEF EntriesIn, BinOf
<1>3. \A b : w(b) = DL!AskedFor(asked, EntriesIn(side, asked, {b}))
  BY <1>2
<1> HIDE DEF bins, w
<1>4. DOMAIN bins = {BinOf(side, asked, i) : i \in DOMAIN asked}
  BY <1>1 DEF BinOf
<1>5. \A b \in DOMAIN bins : bins[b] = w(b)
  BY <1>1
<1> QED BY <1>3, <1>4, <1>5 DEF bins

\* What an order holds in some of its bins is what the entries that fall into them ask for.
LEMMA HeldIsAsked ==
    ASSUME NEW side, NEW asked \in AskedBins, NEW some \in SUBSET DOMAIN DL!OrderBins(side, asked)
    PROVE  DL!HeldIn(DL!OrderBins(side, asked), some)
           = DL!AskedFor(asked, EntriesIn(side, asked, some))
<1> DEFINE bins == DL!OrderBins(side, asked)
           m == LastBin + 1
           f == [n \in 1..m |-> IF n - 1 \in some THEN bins[n - 1] ELSE 0]
           F == Sums(f)
           below(k) == {b \in some : b < k}
           S == {k \in 0..m : F[k] = DL!AskedFor(asked, EntriesIn(side, asked, below(k)))}
<1>0. m \in Nat /\ m \in 0..m /\ 0 \in 0..m /\ some \subseteq DOMAIN bins
  BY OrderAssumption
<1>1. \A b \in some : b \in 0..LastBin /\ bins[b] = DL!AskedFor(asked, EntriesIn(side, asked, {b}))
  <2>1. /\ DOMAIN bins = {BinOf(side, asked, i) : i \in DOMAIN asked}
        /\ \A b \in DOMAIN bins : bins[b] = DL!AskedFor(asked, EntriesIn(side, asked, {b}))
    BY Zenon, BinHolds
  <2> HIDE DEF bins
  <2>2. \A b \in some : \E i \in DOMAIN asked : b = BinOf(side, asked, i)
    BY <1>0, <2>1
  <2>3. \A i \in DOMAIN asked : BinOf(side, asked, i) \in 0..LastBin
    BY Zenon, BinBounds
  <2> QED BY Zenon, <1>0, <2>1, <2>2, <2>3
<1>2. \A b \in some : b \in Nat /\ b < m
  <2>1. \A b \in 0..LastBin : b \in Nat /\ b < m
    BY OrderAssumption
  <2> HIDE DEF m
  <2> QED BY Zenon, <1>1, <2>1
<1>3. f \in [1..m -> Nat] /\ DL!HeldIn(bins, some) = DL!SumOf(f)
  <2>1. \A b \in some : bins[b] \in Nat
    BY Zenon, <1>1, AskedSum
  <2> QED BY <2>1 DEF DL!HeldIn
<1>4. \A n \in 1..m : f[n] = IF n - 1 \in some THEN bins[n - 1] ELSE 0
  OBVIOUS
<1> HIDE DEF f, bins, m
<1>5. DL!SumOf(f) = V1!SumOf(f)
  BY DEF DL!SumOf, V1!SumOf
<1>6. /\ V1!SumOf(f) = F[m] /\ F[0] = 0
      /\ \A k \in 0..m : k < m => k + 1 \in 0..m /\ F[k + 1] = F[k] + f[k + 1]
  BY Zenon, <1>0, <1>3, SumsOn
<1> HIDE DEF F
<1>7. 0 \in S
  <2>1. below(0) = {}
    BY <1>2
  <2>2. EntriesIn(side, asked, {}) = {}
    BY DEF EntriesIn
  <2> QED BY Zenon, <1>0, <1>6, <2>1, <2>2, AskedNone
<1>8. ASSUME NEW k \in 0..m, k \in S, k < m PROVE k + 1 \in S
  <2>1. k + 1 \in 1..m /\ k + 1 \in 0..m /\ (k + 1) - 1 = k /\ F[k + 1] = F[k] + f[k + 1]
    BY <1>0, <1>6, <1>8
  <2>2. f[k + 1] = IF k \in some THEN bins[k] ELSE 0
    BY <1>4, <2>1
  <2>3. F[k] = DL!AskedFor(asked, EntriesIn(side, asked, below(k)))
    BY <1>8
  <2>4. CASE k \in some
    <3>1. below(k + 1) = below(k) \union {k} /\ k \notin below(k)
      <4>1. k \in Nat /\ \A b \in some : b \in Nat
        BY <1>2, <1>8
      <4>2. \A b \in Nat : b < k + 1 <=> (b < k \/ b = k)
        BY <4>1
      <4>3. ~(k < k)
        BY <4>1
      <4> QED BY <2>4, <4>1, <4>2, <4>3
    <3> DEFINE P == EntriesIn(side, asked, below(k))
               Q == EntriesIn(side, asked, {k})
    <3>2. EntriesIn(side, asked, below(k + 1)) = P \union Q /\ P \intersect Q = {}
      <4> HIDE DEF below
      <4> QED BY <3>1 DEF EntriesIn
    <3>3. f[k + 1] = DL!AskedFor(asked, Q)
      BY <1>1, <2>2, <2>4
    <3> HIDE DEF P, Q
    <3>4. DL!AskedFor(asked, P \union Q) = DL!AskedFor(asked, P) + DL!AskedFor(asked, Q)
      BY Zenon, <3>2, AskedSplit
    <3>5. F[k + 1] = DL!AskedFor(asked, P) + DL!AskedFor(asked, Q)
      BY <2>1, <2>3, <3>3 DEF P
    <3> QED BY Zenon, <2>1, <3>2, <3>4, <3>5
  <2>5. CASE k \notin some
    <3>1. below(k + 1) = below(k)
      BY <1>2, <1>8, <2>5
    <3>2. F[k] \in Nat
      BY Zenon, <2>3, AskedSum
    <3>3. F[k + 1] = F[k]
      BY <2>1, <2>2, <2>5, <3>2
    <3> QED BY Zenon, <2>1, <2>3, <3>1, <3>3
  <2> QED BY <2>4, <2>5
<1>9. 0..m \subseteq S
  <2> HIDE DEF S
  <2> QED BY Zenon, <1>0, <1>7, <1>8, UpTo
<1>10. below(m) = some
  BY <1>2
<1>11. F[m] = DL!AskedFor(asked, EntriesIn(side, asked, some))
  <2>1. m \in S
    BY <1>0, <1>9
  <2> HIDE DEF below
  <2> QED BY <1>10, <2>1
<1> QED BY <1>3, <1>5, <1>6, <1>11 DEF bins

\* The whole amount, and no part of it at a worse price than asked.
LEMMA OrderAsAsked ==
    ASSUME NEW o, o.asked \in AskedBins, o.bins = DL!OrderBins(o.side, o.asked)
    PROVE  /\ DL!HeldIn(o.bins, DOMAIN o.bins) = DL!AskedFor(o.asked, DOMAIN o.asked)
           /\ \A b \in DOMAIN o.bins :
                 LET atWorst(x, y) == IF o.side = "ask" THEN x <= y ELSE x >= y
                 IN  DL!HeldIn(o.bins, {x \in DOMAIN o.bins : atWorst(x, b)})
                     <= DL!AskedFor(o.asked, {i \in DOMAIN o.asked : atWorst(o.asked[i].price, 2 * b)})
<1> DEFINE side == o.side
           asked == o.asked
           bins == DL!OrderBins(side, asked)
           atWorst(x, y) == IF side = "ask" THEN x <= y ELSE x >= y
<1>0. /\ \A i \in DOMAIN asked : BinOf(side, asked, i) \in DOMAIN bins
      /\ \A b \in DOMAIN bins : b \in Nat
  <2>1. /\ DOMAIN bins = {BinOf(side, asked, i) : i \in DOMAIN asked}
        /\ \A b \in DOMAIN bins : bins[b] = DL!AskedFor(asked, EntriesIn(side, asked, {b}))
    BY Zenon, BinHolds
  <2> HIDE DEF bins
  <2>2. \A i \in DOMAIN asked : BinOf(side, asked, i) \in 0..LastBin
    BY Zenon, BinBounds
  <2>3. \A b \in 0..LastBin : b \in Nat
    OBVIOUS
  <2> QED BY Zenon, <2>1, <2>2, <2>3
<1>1. asked \in AskedBins /\ o.bins = bins
  OBVIOUS
<1> HIDE DEF bins, side, asked
<1>2. DL!HeldIn(bins, DOMAIN bins) = DL!AskedFor(asked, DOMAIN asked)
  <2>1. EntriesIn(side, asked, DOMAIN bins) = DOMAIN asked
    BY <1>0 DEF EntriesIn
  <2>2. DOMAIN bins \in SUBSET DOMAIN bins
    OBVIOUS
  <2>3. DL!HeldIn(bins, DOMAIN bins) = DL!AskedFor(asked, EntriesIn(side, asked, DOMAIN bins))
    BY Zenon, <1>1, <2>2, HeldIsAsked DEF bins
  <2> QED BY Zenon, <2>1, <2>3
<1>3. ASSUME NEW b \in DOMAIN bins
      PROVE  DL!HeldIn(bins, {x \in DOMAIN bins : atWorst(x, b)})
             <= DL!AskedFor(asked, {i \in DOMAIN asked : atWorst(asked[i].price, 2 * b)})
  <2> DEFINE some == {x \in DOMAIN bins : atWorst(x, b)}
             entries == {i \in DOMAIN asked : atWorst(asked[i].price, 2 * b)}
  <2>1. some \in SUBSET DOMAIN bins
    OBVIOUS
  <2>2. \A i \in DOMAIN asked : i \in EntriesIn(side, asked, some) => i \in entries
    <3>1. ASSUME NEW i \in DOMAIN asked, i \in EntriesIn(side, asked, some) PROVE i \in entries
      <4> DEFINE c == BinOf(side, asked, i)
                 p == asked[i].price
      <4>1. c \in Nat /\ atWorst(c, b)
        BY <1>0, <3>1 DEF EntriesIn
      <4>2. p \in Nat /\ b \in Nat
        BY <1>0, <1>1, EntriesType, OrderAssumption
      <4>3. (side = "ask" => 2 * c >= p) /\ (side # "ask" => 2 * c <= p)
        BY <1>1, BinBounds
      <4> HIDE DEF c, p
      <4>4. atWorst(p, 2 * b)
        BY <4>1, <4>2, <4>3
      <4> QED BY <4>4 DEF p
    <3> QED BY <3>1
  <2> HIDE DEF some, entries
  <2>3. DL!HeldIn(bins, some) = DL!AskedFor(asked, EntriesIn(side, asked, some))
    BY Zenon, <1>1, <2>1, HeldIsAsked DEF bins
  <2>4. DL!AskedFor(asked, EntriesIn(side, asked, some)) <= DL!AskedFor(asked, entries)
    BY Zenon, <1>1, <2>2, AskedMost
  <2> QED BY Zenon, <2>3, <2>4 DEF some, entries
<1> HIDE DEF atWorst
<1> QED BY <1>1, <1>2, <1>3 DEF asked, side, atWorst

\* placeLimitOrder: an order on chain holds, over its bins, exactly the amounts of the entries
\* that were asked for, and no part of it stands at a worse price than its entry asked: of
\* every bin and those that are worse, not more than was asked at such prices.  Every order
\* is one of DlmmOrders, whose bins are those of its entries.
THEOREM Orders == Spec => []OrdersAsAsked
<1>1. StudioInv => OrdersAsAsked
  <2> SUFFICES ASSUME StudioInv, component = "dlmm" PROVE DL!OrdersAsAsked
    BY DEF OrdersAsAsked
  <2>1. chain.orders \subseteq DlmmOrders
    BY DEF StudioInv, DlmmInv, Typed, DlmmChain, DlmmRecord
  <2>2. \A o \in chain.orders : o.asked \in AskedBins /\ o.bins = DL!OrderBins(o.side, o.asked)
    BY <2>1 DEF DlmmOrders
  <2>3. ASSUME NEW o \in chain.orders
        PROVE  /\ DL!HeldIn(o.bins, DOMAIN o.bins) = DL!AskedFor(o.asked, DOMAIN o.asked)
               /\ \A b \in DOMAIN o.bins :
                     LET atWorst(x, y) == IF o.side = "ask" THEN x <= y ELSE x >= y
                     IN  DL!HeldIn(o.bins, {x \in DOMAIN o.bins : atWorst(x, b)})
                         <= DL!AskedFor(o.asked, {i \in DOMAIN o.asked :
                                                     atWorst(o.asked[i].price, 2 * b)})
    BY Zenon, <2>2, OrderAsAsked
  <2> QED BY Zenon, <2>3 DEF DL!OrdersAsAsked
<1> QED BY <1>1, Runs, PTL
=============================================================================
