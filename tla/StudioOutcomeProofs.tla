-------------------------- MODULE StudioOutcomeProofs --------------------------
(***************************************************************************)
(* Proofs about the studio's commands of several transactions or of        *)
(* several items: what a command that ends well has done.  The argument is *)
(* the same for every component: while the command runs, what it has still *)
(* to do is done already or is the work of a transaction that is pending;  *)
(* when nothing is pending all of it is done.                              *)
(***************************************************************************)
EXTENDS StudioCommandsProofs

-----------------------------------------------------------------------------
(* What the finished commands leave behind *)

\* Nothing is pending of a command that does not run.
Idle == status # "running" => queue = <<>>

\* The step of a component is one of Submission, a command, the second part of one, or a
\* step of others.
AnyMove ==
    \/ \E resumes : Takes(resumes)
    \/ \E accepted, forgives : Stops(accepted, forgives)
    \/ \E op, arg, ok, txs : Commanded(op, arg, ok, txs) \/ Resumed(op, arg, ok, txs)
    \/ UNCHANGED <<queue, status>>

\* Nothing is ever pending of a command that does not run.
LEMMA IdleStays ==
    ASSUME NEW T, NEW C, Typed(T, C), Idle, AnyMove PROVE Idle'
<1>1. ASSUME NEW resumes, Takes(resumes) PROVE Idle'
  <2>1. queue \in Seq(T) /\ queue # <<>>
    BY <1>1 DEF Typed, Takes
  <2>2. ASSUME ~(Len(queue) > 1) PROVE Tail(queue) = <<>>
    <3>1. Tail(queue) \in Seq(T) /\ Len(Tail(queue)) = Len(queue) - 1 /\ Len(queue) \in Nat
      BY <2>1, HeadTailProperties
    <3>2. Len(queue) # 0
      BY <2>1
    <3> QED BY <2>2, <3>1, <3>2, EmptySeq
  <2> QED BY <1>1, <2>2 DEF Takes, Idle
<1>2. ASSUME NEW accepted, NEW forgives, Stops(accepted, forgives) PROVE Idle'
  BY <1>2 DEF Stops, Idle
<1>3. ASSUME NEW op, NEW arg, NEW ok, NEW txs,
             Commanded(op, arg, ok, txs) \/ Resumed(op, arg, ok, txs)
      PROVE  Idle'
  BY Zenon, <1>3 DEF Commanded, Resumed, Idle
<1> QED BY <1>1, <1>2, <1>3 DEF AnyMove, Idle

\* The transactions of a queue.
Pending(q) == {q[i] : i \in DOMAIN q}

\* They are the first one and those behind it; none are left of an empty queue.
LEMMA PendingTail ==
    ASSUME NEW T, NEW q \in Seq(T), q # <<>>
    PROVE  /\ Pending(q) = {Head(q)} \union Pending(Tail(q)) /\ Pending(q) \subseteq T
           /\ Head(q) \in Pending(q)
<1>1. \A i \in DOMAIN q : i = 1 \/ (i - 1 \in DOMAIN Tail(q) /\ Tail(q)[i - 1] = q[i])
  OBVIOUS
<1>2. /\ \A i \in DOMAIN Tail(q) : Tail(q)[i] = q[i + 1] /\ i + 1 \in DOMAIN q
      /\ Head(q) = q[1] /\ 1 \in DOMAIN q
  BY QueueRest
<1>3. \A i \in DOMAIN q : q[i] \in T
  OBVIOUS
<1> DEFINE p == Tail(q)
<1> HIDE DEF p
<1>4. ASSUME NEW x \in Pending(q) PROVE x \in {Head(q)} \union Pending(p)
  BY <1>1, <1>2 DEF Pending, p
<1>5. ASSUME NEW x \in Pending(p) PROVE x \in Pending(q)
  BY Zenon, <1>2 DEF Pending, p
<1>6. Head(q) \in Pending(q) /\ Pending(q) \subseteq T
  BY Zenon, <1>2, <1>3 DEF Pending
<1> QED BY <1>4, <1>5, <1>6 DEF p

\* Nothing is pending in an empty queue.
LEMMA PendingNone == Pending(<<>>) = {}
BY DEF Pending

\* The members of a finite set, in some order: all of them.
LEMMA OrderOfAll ==
    ASSUME NEW T, IsFiniteSet(T), NEW s \in DL!SetToSeqs(T), NEW x \in T
    PROVE  \E i \in DOMAIN s : s[i] = x
<1> DEFINE n == DL!Cardinality(T)
<1>0. n = Cardinality(T)
  BY DEF DL!Cardinality, Cardinality
<1>1. n \in Nat
  BY <1>0, FS_CardinalityType
<1>2. s \in [1..n -> T] /\ \A i, j \in 1..n : i # j => s[i] # s[j]
  BY DEF DL!SetToSeqs
<1> HIDE DEF n
<1>3. s \in Injection(1..n, T)
  BY <1>2 DEF Injection, IsInjective
<1>4. Cardinality(1..n) = n
  <2>1. n = 0 \/ 1 <= n
    BY <1>1
  <2> QED BY <1>1, <2>1, FS_Interval
<1>5. s \in Surjection(1..n, T)
  BY <1>0, <1>3, <1>4, FS_Injection
<1> QED BY <1>2, <1>5 DEF Surjection

-----------------------------------------------------------------------------
(* Farming *)

\* What the farming commands and the others do: a claimAll, another command, a reward.
FarmClaimsAll(l) ==
    Commanded("claimAll", [farms |-> FA!ToSet(l), user |-> chain.user,
                           reward |-> chain.reward, claims |-> chain.claims],
              l # <<>> /\ \E f \in FA!ToSet(l) : chain.reward[f], FA!Batches(l))

\* What the farming commands and the others do.
LEMMA FarmMoves ==
    ASSUME FA!Next
    PROVE  \/ Steps(FA!Accepts, FA!Effect, FA!Resumes, FA!Forgives)
           \/ \E f \in Farms : Moved([chain EXCEPT !.reward[f] = TRUE])
           \/ \E l \in ClaimLists : FarmClaimsAll(l)
           \/ \E op, arg, ok, txs : op # "claimAll" /\ Commanded(op, arg, ok, txs)
<1> DEFINE Other == \E op, arg, ok, txs : op # "claimAll" /\ Commanded(op, arg, ok, txs)
<1>1. CASE FA!S!Step
  BY <1>1, FarmSteps
<1>2. CASE FA!RewardsAccrue
  BY Zenon, <1>2 DEF FA!RewardsAccrue, FA!S!World, Moved
<1>3. CASE \E l \in ClaimLists : FA!ClaimAll(l)
  BY Zenon, <1>3 DEF FA!ClaimAll, FA!S!Command, FA!S!Busy, Commanded, FarmClaimsAll
<1>4. ASSUME NEW op, op # "claimAll", NEW arg, NEW ok, NEW txs, FA!S!Command(op, arg, ok, txs)
      PROVE  Other
  <2>1. Commanded(op, arg, ok, txs)
    BY Zenon, <1>4 DEF FA!S!Command, FA!S!Busy, Commanded
  <2> QED BY Zenon, <1>4, <2>1
<1> HIDE DEF Other
<1>5. ASSUME NEW f, FA!Claim(f) PROVE Other
  BY <1>4, <1>5 DEF FA!Claim
<1>6. ASSUME NEW f, NEW a, FA!Stake(f, a) PROVE Other
  BY <1>4, <1>6 DEF FA!Stake
<1>7. ASSUME NEW f, NEW a, FA!Unstake(f, a) PROVE Other
  BY <1>4, <1>7 DEF FA!Unstake
<1>8. FA!S!Unready => Other
  BY <1>4 DEF FA!S!Unready
<1>9. ASSUME NEW s \in Farms \union Pools,
             \/ FA!OnFarm(s, FA!Claim)
             \/ \E a \in FA!Amounts : FA!OnFarm(s, LAMBDA f : FA!Stake(f, a))
             \/ \E a \in 0..FarmTokens : FA!OnFarm(s, LAMBDA f : FA!Unstake(f, a))
      PROVE  Other
  <2>1. CASE FA!OnFarm(s, FA!Claim)
    BY <1>5, <1>8, <2>1 DEF FA!OnFarm
  <2>2. ASSUME NEW a \in FA!Amounts, FA!OnFarm(s, LAMBDA f : FA!Stake(f, a)) PROVE Other
    BY <1>6, <1>8, <2>2 DEF FA!OnFarm
  <2>3. ASSUME NEW a \in 0..FarmTokens, FA!OnFarm(s, LAMBDA f : FA!Unstake(f, a)) PROVE Other
    BY <1>7, <1>8, <2>3 DEF FA!OnFarm
  <2> QED BY Zenon, <1>9, <2>1, <2>2, <2>3
<1> QED BY Zenon, <1>1, <1>2, <1>3, <1>9 DEF FA!Next, Other

\* A claimAll that goes on or ended well: what was there to claim of each farm was claimed,
\* or is there still and a batch that has not been sent is about it.
FarmClaimed ==
    /\ cmd.arg.claims \in [Farms -> Int] /\ cmd.arg.farms \subseteq Farms
    /\ \A f \in cmd.arg.farms :
          /\ chain.claims[f] >= cmd.arg.claims[f]
          /\ cmd.arg.reward[f] =>
                \/ chain.claims[f] > cmd.arg.claims[f]
                \/ chain.reward[f] /\ \E t \in Pending(queue) : t.kind = "claim" /\ f \in t.farms

FarmDone == cmd.op = "claimAll" /\ ~cmd.dry /\ status \in {"running", "ok"} => FarmClaimed

\* Each farm of a list is in one of its batches.
LEMMA FarmCovers ==
    ASSUME NEW l \in ClaimLists, NEW f \in FA!ToSet(l)
    PROVE  \E i \in DOMAIN FA!Batches(l) : f \in FA!Batches(l)[i].farms
<1> DEFINE m == MaxClaimAll
           n == (Len(l) + m - 1) \div m
<1>1. l \in Seq(Farms) /\ Len(l) \in Nat /\ m \in Nat \ {0}
  BY FarmAssumption
<1>2. PICK j \in DOMAIN l : l[j] = f
  BY DEF FA!ToSet
<1>3. j \in 1..Len(l)
  BY <1>1, <1>2
<1> DEFINE i == (j - 1) \div m + 1
           lo == (i - 1) * m + 1
           hi == FA!Min({i * m, Len(l)})
           q == SubSeq(l, lo, hi)
<1> HIDE DEF m
<1>4. i \in 1..n /\ lo \in 1..j /\ j <= i * m /\ i * m \in Nat
  <2> DEFINE k == (j - 1) \div m
             L == Len(l)
  <2>1. L \in Nat /\ j \in Nat /\ 1 <= j /\ j <= L /\ m \in Nat /\ m > 0
    BY <1>1, <1>3
  <2> HIDE DEF L
  <2>2. k \in Nat /\ k * m \in Nat /\ k * m <= j - 1 /\ j - 1 < k * m + m
    BY <2>1
  <2>3. k + 1 <= n
    <3> DEFINE x == L + m - 1
               y == (k + 1) * m
    <3>1. y = k * m + m /\ x \in Nat
      BY <2>1, <2>2
    <3>2. y <= x
      BY <2>1, <2>2, <3>1
    <3> HIDE DEF k, x
    <3>3. m * (k + 1) <= x /\ k + 1 \in Nat /\ m \in Nat \ {0}
      BY <2>1, <2>2, <3>1, <3>2
    <3>4. k + 1 <= x \div m
      BY <3>1, <3>3, Quotients
    <3> QED BY <3>4 DEF x, L
  <2> HIDE DEF k, n
  <2>4. i = k + 1 /\ (i - 1) * m = k * m /\ i * m = k * m + m
    BY <2>1, <2>2 DEF k, i
  <2>5. n \in Int
    BY <2>1 DEF n, L
  <2> QED BY <2>1, <2>2, <2>3, <2>4, <2>5 DEF lo
<1>5. hi = IF i * m <= Len(l) THEN i * m ELSE Len(l)
  <2> DEFINE p == i * m
  <2> HIDE DEF p
  <2>1. p \in Int /\ Len(l) \in Int
    BY <1>1, <1>4 DEF p
  <2>2. hi = FA!Min({p, Len(l)})
    BY DEF p
  <2> HIDE DEF hi
  <2>3. hi = IF p <= Len(l) THEN p ELSE Len(l)
    BY <2>1, <2>2, FarmMin
  <2> QED BY <2>3 DEF p
<1> HIDE DEF i, lo, hi
<1>6. j \in lo..hi /\ lo \in 1..Len(l) /\ hi \in lo..Len(l)
  BY <1>1, <1>3, <1>4, <1>5
<1>7. f \in FA!ToSet(q)
  <2>1. q[j - lo + 1] = l[j] /\ j - lo + 1 \in DOMAIN q
    BY <1>1, <1>3, <1>6
  <2> HIDE DEF q
  <2> QED BY Zenon, <1>2, <2>1 DEF FA!ToSet
<1>8. FA!Batches(l) = [x \in 1..n |-> [kind |-> "claim",
                         farms |-> FA!ToSet(SubSeq(l, (x - 1) * m + 1, FA!Min({x * m, Len(l)})))]]
  BY DEF FA!Batches, m
<1> HIDE DEF n, q
<1>10. FA!Batches(l)[i] = [kind |-> "claim", farms |-> FA!ToSet(q)] /\ i \in DOMAIN FA!Batches(l)
  BY Zenon, <1>4, <1>8 DEF lo, hi, q
<1>9. FA!Batches(l)[i].farms = FA!ToSet(q) /\ i \in DOMAIN FA!Batches(l)
  BY <1>10
<1> QED BY <1>7, <1>9

\* It holds before the first command.
LEMMA FarmDoneInit == ASSUME FA!Init PROVE FarmDone
BY DEF FA!Init, FA!S!Begin, FA!S!NoCommand, FarmDone

\* Every farming command and every step of others keeps it.
LEMMA FarmDoneStep == ASSUME FarmInv, Idle, FarmDone, FA!Next PROVE FarmDone'
<1>0. /\ Typed(FarmTx, FarmChain) /\ CmdInv /\ chain \in FarmChain /\ chain' \in FarmChain
      /\ chain.claims \in [Farms -> Int] /\ chain.reward \in [Farms -> BOOLEAN]
      /\ chain'.claims \in [Farms -> Int] /\ chain'.reward \in [Farms -> BOOLEAN]
  <2>1. FarmInv'
    BY FarmStep
  <2> QED BY <2>1 DEF FarmInv, Typed, FarmChain
<1>1. ASSUME NEW t \in FarmTx, chain' = FA!Effect(chain, t)
      PROVE  \A f \in Farms :
                /\ chain'.claims[f] >= chain.claims[f]
                /\ chain.reward[f] => \/ chain'.claims[f] > chain.claims[f]
                                      \/ chain'.reward[f] /\ (t.kind = "claim" => f \notin t.farms)
  <2>1. CASE t.kind = "claim"
    <3>1. /\ chain'.reward = [f \in Farms |-> chain.reward[f] /\ f \notin t.farms]
          /\ chain'.claims = [f \in Farms |-> IF chain.reward[f] /\ f \in t.farms
                                             THEN chain.claims[f] + 1 ELSE chain.claims[f]]
      BY <1>0, <1>1, <2>1 DEF FA!Effect, FarmChain
    <3> QED BY <1>0, <3>1
  <2>2. CASE t.kind # "claim"
    <3>1. chain'.reward = chain.reward /\ chain'.claims = chain.claims
      BY <1>0, <1>1, <2>2 DEF FA!Effect, FarmChain, FarmTx
    <3> QED BY <1>0, <2>2, <3>1
  <2> QED BY <2>1, <2>2
<1>2. CASE Steps(FA!Accepts, FA!Effect, FA!Resumes, FA!Forgives)
  <2>1. ASSUME Takes(FA!Resumes), chain' = FA!Effect(chain, Head(queue)) PROVE FarmDone'
    <3>1. /\ queue \in Seq(FarmTx) /\ queue # <<>> /\ queue' = Tail(queue) /\ cmd' = cmd
          /\ Head(queue) \in FarmTx /\ status = "running"
      BY <1>0, <2>1, TypedHead DEF Takes, Typed
    <3>2. SUFFICES ASSUME FarmClaimed PROVE FarmClaimed'
      BY <3>1 DEF FarmDone
    <3>3. Pending(queue) = {Head(queue)} \union Pending(queue')
      BY <3>1, PendingTail
    <3> QED BY <1>0, <1>1, <2>1, <3>1, <3>2, <3>3 DEF FarmClaimed
  <2>2. ASSUME NEW l \in late, FA!Accepts(chain, l.tx), chain' = FA!Effect(chain, l.tx),
               cmd' = [cmd EXCEPT !.moved = TRUE], Late(l)
        PROVE  FarmDone'
    <3>1. /\ l.tx \in FarmTx /\ queue' = queue /\ status' = status
          /\ cmd'.op = cmd.op /\ cmd'.arg = cmd.arg /\ cmd'.dry = cmd.dry
      BY <1>0, <2>2 DEF Typed, Late, CmdInv
    <3>2. SUFFICES ASSUME FarmClaimed PROVE FarmClaimed'
      BY <3>1 DEF FarmDone
    <3> QED BY <1>0, <1>1, <2>2, <3>1, <3>2 DEF FarmClaimed
  <2>3. ASSUME \/ cmd.dry /\ chain' = chain /\ Takes(FA!Resumes)
               \/ Stops(FA!Accepts(chain, Head(queue)), FA!Forgives)
               \/ Commanded("unready", "none", FALSE, <<>>)
               \/ \E l \in late : Late(l) /\ UNCHANGED <<chain, cmd>>
        PROVE  FarmDone'
    BY <1>0, <2>3 DEF Takes, Stops, Commanded, Late, FarmDone, FarmClaimed
  <2> QED BY Zenon, <1>2, <2>1, <2>2, <2>3 DEF Steps
<1>3. ASSUME NEW f \in Farms, Moved([chain EXCEPT !.reward[f] = TRUE]) PROVE FarmDone'
  <2>1. /\ chain'.claims = chain.claims
        /\ \A g \in Farms : chain.reward[g] => chain'.reward[g]
    BY <1>0, <1>3 DEF Moved, FarmChain
  <2>2. /\ queue' = queue /\ status' = status /\ cmd'.op = cmd.op /\ cmd'.arg = cmd.arg
        /\ cmd'.dry = cmd.dry
    BY <1>0, <1>3 DEF Moved, CmdInv
  <2> QED BY <1>0, <2>1, <2>2 DEF FarmDone, FarmClaimed
<1>4. ASSUME NEW l \in ClaimLists, FarmClaimsAll(l) PROVE FarmDone'
  <2> DEFINE farms == FA!ToSet(l)
             arg == [farms |-> farms, user |-> chain.user, reward |-> chain.reward,
                     claims |-> chain.claims]
             ok == l # <<>> /\ \E f \in farms : chain.reward[f]
             txs == FA!Batches(l)
  <2>1. Commanded("claimAll", arg, ok, txs)
    BY Zenon, <1>4 DEF FarmClaimsAll
  <2>2. /\ txs \in Seq(FarmTx) /\ \A i \in DOMAIN txs : txs[i].kind = "claim"
        /\ \A f \in farms : \E i \in DOMAIN txs : f \in txs[i].farms
    BY FarmBatches, FarmCovers
  <2>3. /\ arg.farms = farms /\ arg.reward = chain.reward /\ arg.claims = chain.claims
        /\ farms \subseteq Farms
    BY FarmAssumption DEF FA!ToSet
  <2> HIDE DEF arg, farms, ok, txs
  <2>4. chain' = chain /\ cmd'.arg = arg /\ (status' \in {"running", "ok"} => queue' = txs)
    BY <2>1 DEF Commanded
  <2>5. \A f \in farms : \E t \in Pending(txs) : t.kind = "claim" /\ f \in t.farms
    BY Zenon, <2>2 DEF Pending
  <2> QED BY <1>0, <2>3, <2>4, <2>5 DEF FarmDone, FarmClaimed
<1>5. ASSUME NEW op, op # "claimAll", NEW arg, NEW ok, NEW txs, Commanded(op, arg, ok, txs)
      PROVE  FarmDone'
  BY <1>5 DEF Commanded, FarmDone
<1> QED BY Zenon, <1>2, <1>3, <1>4, <1>5, FarmMoves

\* What a claimAll was about is claimed when it ends well.
LEMMA FarmDoneEnds == Idle /\ FarmDone => FA!OkMeansDone
BY PendingNone DEF Idle, FarmDone, FarmClaimed, FA!OkMeansDone, FA!S!Succeeded

-----------------------------------------------------------------------------
(* PoolScripts *)

\* A script for a pool without vault, or its part for the vault, that goes on or ended well:
\* the pool, or the vault, is there or its transaction is still to be sent.
ScriptDone ==
    ~cmd.dry /\ status \in {"running", "ok"} =>
        /\ cmd.op = "pool" =>
              /\ cmd.arg.vault # "block"
              /\ \/ PC!HasPool(chain, cmd.arg.program, cmd.arg.mint)
                 \/ \E t \in Pending(queue) : /\ t.kind = "pool" /\ t.mint = cmd.arg.mint
                                              /\ t.program = cmd.arg.program
        /\ cmd.op = "vault" =>
              \/ <<cmd.arg.program, cmd.arg.mint>> \in chain.vaults
              \/ \E t \in Pending(queue) : /\ t.kind = "vault" /\ t.mint = cmd.arg.mint
                                           /\ t.program = cmd.arg.program

\* Pools and vaults are made, never taken away.
LEMMA ScriptAdds ==
    ASSUME NEW c \in ScriptChain, NEW t \in ScriptTx
    PROVE  LET d == PC!Effect(c, t)
           IN  /\ c.pools \subseteq d.pools /\ c.vaults \subseteq d.vaults
               /\ t.kind = "pool" => PC!HasPool(d, t.program, t.mint)
               /\ t.kind = "vault" => <<t.program, t.mint>> \in d.vaults
<1> DEFINE d == PC!Effect(c, t)
<1>1. c \in ScriptRecord
  BY DEF ScriptChain
<1>2. CASE t.kind \in {"mint", "account", "supply"}
  <2>1. \E ms : d = [c EXCEPT !.mints = ms]
    BY <1>1, <1>2 DEF PC!Effect, PC!SetMint, ScriptRecord
  <2> HIDE DEF d
  <2>2. d.pools = c.pools /\ d.vaults = c.vaults
    BY <1>1, <2>1 DEF ScriptRecord
  <2> QED BY <1>2, <2>2 DEF d
<1>3. CASE t.kind = "pool"
  <2> DEFINE x == [program |-> t.program, mint |-> t.mint, hasAlphaVault |-> t.hasAlphaVault]
             ps == c.pools \union {x}
  <2>1. d = [c EXCEPT !.pools = ps]
    BY <1>1, <1>3 DEF PC!Effect, ScriptRecord
  <2>2. x \in ps /\ x.program = t.program /\ x.mint = t.mint /\ c.pools \subseteq ps
    OBVIOUS
  <2> HIDE DEF d, x, ps
  <2>3. d.pools = ps /\ d.vaults = c.vaults
    BY <1>1, <2>1 DEF ScriptRecord
  <2> QED BY <1>3, <2>2, <2>3 DEF d, PC!HasPool
<1>4. CASE t.kind = "vault"
  <2> DEFINE vs == c.vaults \union {<<t.program, t.mint>>}
  <2>1. d = [c EXCEPT !.vaults = vs]
    BY <1>1, <1>4 DEF PC!Effect, ScriptRecord
  <2>2. <<t.program, t.mint>> \in vs /\ c.vaults \subseteq vs
    OBVIOUS
  <2> HIDE DEF d, vs
  <2>3. d.pools = c.pools /\ d.vaults = vs
    BY <1>1, <2>1 DEF ScriptRecord
  <2> QED BY <1>4, <2>2, <2>3 DEF d
<1> QED BY <1>2, <1>3, <1>4 DEF ScriptTx

\* What the scripts send of a stage that makes a pool or a vault.
ScriptMakes(op, arg, txs) ==
    \/ op \in {"pool", "pool+vault"} /\ (op = "pool" <=> arg.vault # "block")
       /\ \E x : txs = <<PoolTx(x)>> /\ x.program = arg.program /\ x.mint = arg.mint
    \/ op = "vault"
       /\ \E t : txs = <<t>> /\ t.kind = "vault" /\ t.mint = arg.mint /\ t.program = arg.program
    \/ op \notin {"pool", "vault"}

\* What the pool scripts and the others do.
LEMMA ScriptMoves ==
    ASSUME PC!Next, ScriptInv
    PROVE  \/ Steps(PC!Accepts, PC!Effect, PC!Resumes, PC!Forgives)
           \/ \E ps : chain.pools \subseteq ps /\ Moved([chain EXCEPT !.pools = ps])
           \/ \E op, arg, ok, txs : /\ ScriptMakes(op, arg, txs)
                                    /\ \/ Commanded(op, arg, ok, txs)
                                       \/ Resumed(op, arg, ok, txs)
<1> DEFINE Made == \E op, arg, ok, txs : /\ ScriptMakes(op, arg, txs)
                                         /\ \/ Commanded(op, arg, ok, txs)
                                            \/ Resumed(op, arg, ok, txs)
<1>0. /\ chain \in ScriptChain /\ ScriptLone
  BY DEF ScriptInv, Typed
<1>1. CASE PC!S!Step
  BY <1>1, ScriptSteps
<1>2. CASE PC!OthersCreatePool
  <2>1. PICK pr \in PoolPrograms :
           Moved([chain EXCEPT !.pools = chain.pools \union
                     {[program |-> pr, mint |-> PC!Existing, hasAlphaVault |-> FALSE]}])
    BY Zenon, <1>2 DEF PC!OthersCreatePool, PC!S!World, Moved
  <2> DEFINE ps == chain.pools \union
                     {[program |-> pr, mint |-> PC!Existing, hasAlphaVault |-> FALSE]}
  <2>2. chain.pools \subseteq ps /\ Moved([chain EXCEPT !.pools = ps])
    BY <2>1
  <2> HIDE DEF ps
  <2> QED BY <2>2
<1> HIDE DEF Made
<1>3. ASSUME NEW a \in ScriptArg, NEW ok,
             \/ Commanded(PC!PoolOp(a), PC!Asked(a, PC!PoolWrong(a)), ok, PC!PoolTxs(a))
             \/ Resumed(PC!PoolOp(a), PC!Asked(a, PC!PoolWrong(a)), ok, PC!PoolTxs(a))
      PROVE  Made
  <2> DEFINE op == PC!PoolOp(a)
             arg == PC!Asked(a, PC!PoolWrong(a))
             txs == PC!PoolTxs(a)
  <2>1. txs = <<PoolTx(a)>> /\ arg.program = a.program /\ arg.mint = a.mint /\ arg.vault = a.vault
    BY <1>0, ScriptPool
  <2>2. op = (IF a.vault = "block" THEN "pool+vault" ELSE "pool")
    BY DEF PC!PoolOp
  <2>3. Commanded(op, arg, ok, txs) \/ Resumed(op, arg, ok, txs)
    BY <1>3
  <2> HIDE DEF op, arg, txs
  <2>4. ScriptMakes(op, arg, txs)
    BY <2>1, <2>2 DEF ScriptMakes
  <2> QED BY Zenon, <2>3, <2>4 DEF Made
<1>4. ASSUME NEW a \in ScriptArg, NEW w, NEW type, NEW ok,
             \/ Commanded("vault", PC!Asked(a, w), ok, PC!VaultTxs(a, type))
             \/ Resumed("vault", PC!Asked(a, w), ok, PC!VaultTxs(a, type))
      PROVE  Made
  <2> DEFINE arg == PC!Asked(a, w)
             t == [kind |-> "vault", program |-> a.program, mint |-> a.mint, type |-> type]
             txs == PC!VaultTxs(a, type)
  <2>1. arg.program = a.program /\ arg.mint = a.mint
    BY DEF PC!Asked, ScriptArg
  <2>2. txs = <<t>> /\ t.kind = "vault" /\ t.mint = a.mint /\ t.program = a.program
    BY DEF PC!VaultTxs
  <2>3. Commanded("vault", arg, ok, txs) \/ Resumed("vault", arg, ok, txs)
    BY <1>4
  <2> HIDE DEF arg, t, txs
  <2>4. ScriptMakes("vault", arg, txs)
    BY <2>1, <2>2 DEF ScriptMakes
  <2> QED BY Zenon, <2>3, <2>4 DEF Made
<1>5. ASSUME NEW given \in BOOLEAN, PC!PoolGoesOn(given) PROVE Made
  <2>1. cmd.arg \in ScriptArg
    BY <1>0, <1>5 DEF PC!PoolGoesOn, PC!S!Resume, ScriptLone
  <2>2. Resumed(PC!PoolOp(cmd.arg), PC!Asked(cmd.arg, PC!PoolWrong(cmd.arg)), given,
                PC!PoolTxs(cmd.arg))
    BY <1>5 DEF PC!PoolGoesOn, PC!S!Resume, Resumed
  <2> QED BY <1>3, <2>1, <2>2
<1>6. ASSUME NEW type \in PoolPrograms, NEW given \in BOOLEAN, PC!VaultGoesOn(type, given)
      PROVE  Made
  <2>1. cmd.arg \in ScriptArg
    BY <1>0, <1>6 DEF PC!VaultGoesOn, PC!S!Resume, ScriptLone
  <2>2. Resumed("vault", PC!Asked(cmd.arg, cmd.dry \/ type # cmd.arg.program), given,
                PC!VaultTxs(cmd.arg, type))
    BY <1>6 DEF PC!VaultGoesOn, PC!S!Resume, Resumed
  <2> QED BY <1>4, <2>1, <2>2
<1>7. ASSUME NEW a \in PC!Blank, NEW filed \in BOOLEAN, NEW given \in BOOLEAN,
             PC!TokenScript(a, filed, given)
      PROVE  Made
  <2>1. \E arg, ok, txs : Commanded("token", arg, ok, txs)
    BY Zenon, <1>7 DEF PC!TokenScript, PC!NoDryToken, PC!CreateTokenMint, PC!S!Command, PC!S!Busy,
                Commanded
  <2> QED BY <2>1 DEF Made, ScriptMakes
<1>8. ASSUME NEW a \in PC!Blank, NEW k \in PC!MintKeys, NEW given \in BOOLEAN,
             PC!Script(a, k, given)
      PROVE  Made
  <2> DEFINE x == [a EXCEPT !.mint = k]
  <2>1. k \in Int
    BY BoundAssumption DEF PC!MintKeys, PC!Filed, PC!Existing
  <2>2. x \in ScriptArg
    BY Zenon, <2>1 DEF PC!Blank, ScriptArg
  <2>3. Commanded(PC!PoolOp(x), PC!Asked(x, PC!PoolWrong(x)), given /\ PC!Known(chain, x.mint),
                  PC!PoolTxs(x))
    BY Zenon, <1>8 DEF PC!Script, PC!CreatePool, PC!S!Command, PC!S!Busy, Commanded
  <2> QED BY <1>3, <2>2, <2>3
<1>9. ASSUME NEW program \in PoolPrograms, NEW k \in PC!MintKeys,
             PC!CreateAlphaVault(program, k)
      PROVE  Made
  <2> DEFINE a == [program |-> program, mint |-> k, vault |-> "block", wrong |-> FALSE]
             w == ~PC!Accepts(chain, PC!VaultTxs(a, program)[1])
  <2>1. k \in Int
    BY BoundAssumption DEF PC!MintKeys, PC!Filed, PC!Existing
  <2>2. a \in ScriptArg
    BY <2>1 DEF ScriptArg, PC!VaultModes
  <2>3. Commanded("vault", PC!Asked(a, w), TRUE, PC!VaultTxs(a, program))
    BY Zenon, <1>9 DEF PC!CreateAlphaVault, PC!S!Command, PC!S!Busy, Commanded
  <2> HIDE DEF a, w
  <2> QED BY <1>4, <2>2, <2>3
<1> QED BY Zenon, <1>1, <1>2, <1>5, <1>6, <1>7, <1>8, <1>9 DEF PC!Next, Made

\* It holds before the first script.
LEMMA ScriptDoneInit == ASSUME PC!Init PROVE ScriptDone
BY DEF PC!Init, PC!S!Begin, PC!S!NoCommand, ScriptDone

\* Every pool script command and every step of others keeps it.
LEMMA ScriptDoneStep == ASSUME ScriptInv, Idle, ScriptDone, PC!Next PROVE ScriptDone'
<1>0. /\ Typed(ScriptTx, ScriptChain) /\ CmdInv /\ chain \in ScriptChain
      /\ chain \in ScriptRecord
  BY DEF ScriptInv, Typed, ScriptChain
<1>1. ASSUME chain.pools \subseteq chain'.pools, chain.vaults \subseteq chain'.vaults,
             cmd'.op = cmd.op, cmd'.arg = cmd.arg, cmd'.dry = cmd.dry,
             status = "running", status' \in {"running", "resumed", "ok"},
             \A t \in Pending(queue) :
                \/ t \in Pending(queue')
                \/ cmd.dry
                \/ /\ t.kind = "pool" => PC!HasPool(chain', t.program, t.mint)
                   /\ t.kind = "vault" => <<t.program, t.mint>> \in chain'.vaults
      PROVE  ScriptDone'
  <2>1. \A pr, k : PC!HasPool(chain, pr, k) => PC!HasPool(chain', pr, k)
    BY <1>1 DEF PC!HasPool
  <2> QED BY <1>1, <2>1 DEF ScriptDone
<1>2. ASSUME chain.pools \subseteq chain'.pools, chain.vaults \subseteq chain'.vaults,
             cmd'.op = cmd.op, cmd'.arg = cmd.arg, cmd'.dry = cmd.dry, status' = status,
             queue' = queue
      PROVE  ScriptDone'
  BY <1>2 DEF ScriptDone, PC!HasPool
<1>3. CASE Steps(PC!Accepts, PC!Effect, PC!Resumes, PC!Forgives)
  <2>1. ASSUME Takes(PC!Resumes), \/ cmd.dry /\ chain' = chain
                                  \/ chain' = PC!Effect(chain, Head(queue))
        PROVE  ScriptDone'
    <3>1. /\ queue \in Seq(ScriptTx) /\ queue # <<>> /\ queue' = Tail(queue) /\ cmd' = cmd
          /\ Head(queue) \in ScriptTx /\ status = "running"
          /\ status' \in {"running", "resumed", "ok"}
      BY <1>0, <2>1, TypedHead DEF Takes, Typed
    <3>2. Pending(queue) = {Head(queue)} \union Pending(queue')
      BY <3>1, PendingTail
    <3>3. CASE cmd.dry /\ chain' = chain
      BY <1>1, <3>1, <3>3
    <3>4. CASE chain' = PC!Effect(chain, Head(queue))
      BY <1>0, <1>1, <3>1, <3>2, <3>4, ScriptAdds
    <3> QED BY <2>1, <3>3, <3>4
  <2>2. ASSUME NEW l \in late, chain' = PC!Effect(chain, l.tx),
               cmd' = [cmd EXCEPT !.moved = TRUE], Late(l)
        PROVE  ScriptDone'
    <3>1. /\ l.tx \in ScriptTx /\ queue' = queue /\ status' = status
          /\ cmd'.op = cmd.op /\ cmd'.arg = cmd.arg /\ cmd'.dry = cmd.dry
      BY <1>0, <2>2 DEF Typed, Late, CmdInv
    <3> QED BY <1>0, <1>2, <2>2, <3>1, ScriptAdds
  <2>3. ASSUME \/ Stops(PC!Accepts(chain, Head(queue)), PC!Forgives)
               \/ Commanded("unready", "none", FALSE, <<>>)
               \/ \E l \in late : Late(l) /\ UNCHANGED <<chain, cmd>>
        PROVE  ScriptDone'
    BY <2>3 DEF Stops, Commanded, Late, ScriptDone
  <2> QED BY Zenon, <1>3, <2>1, <2>2, <2>3 DEF Steps
<1>4. ASSUME NEW ps, chain.pools \subseteq ps, Moved([chain EXCEPT !.pools = ps])
      PROVE  ScriptDone'
  <2>1. chain'.pools = ps /\ chain'.vaults = chain.vaults
    BY <1>0, <1>4 DEF Moved, ScriptRecord
  <2>2. /\ queue' = queue /\ status' = status /\ cmd'.op = cmd.op /\ cmd'.arg = cmd.arg
        /\ cmd'.dry = cmd.dry
    BY <1>0, <1>4 DEF Moved, CmdInv
  <2> QED BY <1>2, <1>4, <2>1, <2>2
<1>5. ASSUME NEW op, NEW arg, NEW ok, NEW txs, ScriptMakes(op, arg, txs),
             Commanded(op, arg, ok, txs) \/ Resumed(op, arg, ok, txs)
      PROVE  ScriptDone'
  <2>1. /\ chain' = chain /\ cmd'.op = op /\ cmd'.arg = arg
        /\ status' \in {"running", "ok"} => queue' = txs
    <3>1. CASE Commanded(op, arg, ok, txs)
      BY <3>1 DEF Commanded
    <3>2. CASE Resumed(op, arg, ok, txs)
      BY <1>0, <3>2 DEF Resumed, CmdInv
    <3> QED BY <1>5, <3>1, <3>2
  <2>2. ASSUME NEW t, txs = <<t>> PROVE t \in Pending(txs)
    BY <2>2 DEF Pending
  <2>3. CASE op \notin {"pool", "vault"}
    BY <2>1, <2>3 DEF ScriptDone
  <2>4. ASSUME op \in {"pool", "pool+vault"}, op = "pool" <=> arg.vault # "block",
               NEW x, txs = <<PoolTx(x)>>, x.program = arg.program, x.mint = arg.mint
        PROVE  ScriptDone'
    <3>1. PoolTx(x) \in Pending(txs)
      BY <2>2, <2>4
    <3> QED BY <2>1, <2>4, <3>1, ScriptFields DEF ScriptDone
  <2>5. ASSUME op = "vault", NEW t, txs = <<t>>, t.kind = "vault", t.mint = arg.mint,
               t.program = arg.program
        PROVE  ScriptDone'
    <3>1. t \in Pending(txs)
      BY <2>2, <2>5
    <3> QED BY <2>1, <2>5, <3>1 DEF ScriptDone
  <2> QED BY Zenon, <1>5, <2>3, <2>4, <2>5 DEF ScriptMakes
<1> QED BY Zenon, <1>3, <1>4, <1>5, ScriptMoves

\* Pool and vault are there when the script ends well.
LEMMA ScriptDoneEnds == ScriptInv /\ Idle /\ ScriptDone => PC!OkMeansDone
BY PendingNone DEF Idle, ScriptDone, ScriptInv, Typed, ScriptChain, VaultsStand,
                   PC!OkMeansDone, PC!S!Succeeded

-----------------------------------------------------------------------------
(* DbcPool *)

\* There is one pool of a mint, and what is due of it is not negative.
DbcPoolsOf(c) ==
    /\ \A p, q \in c.pools : p.mint = q.mint => p = q
    /\ \A p \in c.pools : p.creator >= 0 /\ p.partner >= 0

\* A command for a pool that goes on or ended well: the pool is there or still to be made. A
\* claim alone: of each role nothing is due, or no more than a claim still to be sent takes.
DbcDone ==
    /\ DbcPoolsOf(chain)
    /\ ~cmd.dry /\ status \in {"running", "ok"} =>
          /\ cmd.op = "pool" =>
                \/ \E p \in chain.pools : p.mint = cmd.arg.mint
                \/ \E t \in Pending(queue) : t.kind = "pool" /\ t.mint = cmd.arg.mint
          /\ cmd.op = "fees" /\ ~cmd.moved =>
                /\ \A t \in Pending(queue) : t.kind \in {"creator", "partner"} /\ t.max >= 0
                /\ \A p \in chain.pools, role \in chain.roles :
                      p.mint = cmd.arg =>
                        \/ DP!Fee(p, role) = 0
                        \/ \E t \in Pending(queue) : /\ t.kind = role /\ t.mint = cmd.arg
                                                     /\ t.max >= DP!Fee(p, role)

\* Pools stay; a claim takes what is due of a role up to its maximum and adds nothing.
LEMMA DbcPays ==
    ASSUME NEW n \in Nat, NEW c \in DbcChain(n), DbcPoolsOf(c), NEW t \in DbcTx(n),
           DP!Accepts(c, t)
    PROVE  LET d == DP!Effect(c, t)
           IN  /\ DbcPoolsOf(d) /\ d.roles = c.roles
               /\ \A p \in c.pools : \E q \in d.pools : q.mint = p.mint
               /\ t.kind = "pool" => \E q \in d.pools : q.mint = t.mint
               /\ t.kind \in {"creator", "partner"} /\ t.max >= 0 =>
                  \A q \in d.pools : \E p \in c.pools :
                     /\ p.mint = q.mint
                     /\ \A role \in {"creator", "partner"} :
                           /\ 0 <= DP!Fee(q, role) /\ DP!Fee(q, role) <= DP!Fee(p, role)
                           /\ (role = t.kind /\ t.mint = q.mint /\ t.max >= DP!Fee(p, role))
                              => DP!Fee(q, role) = 0
<1> DEFINE d == DP!Effect(c, t)
<1>1. c.pools \subseteq DbcPools
  BY DEF DbcChain
<1>2. CASE t.kind = "config"
  <2>1. \E ks : d = [c EXCEPT !.configs = ks]
    BY <1>2 DEF DP!Effect, DbcChain
  <2> HIDE DEF d
  <2>2. d.pools = c.pools /\ d.roles = c.roles
    BY <2>1 DEF DbcChain
  <2> QED BY <1>2, <2>2 DEF d, DbcPoolsOf
<1>3. CASE t.kind = "pool"
  <2> DEFINE x == [mint |-> t.mint, config |-> t.config, creator |-> 0, partner |-> 0]
             ps == c.pools \union {x}
  <2>1. d = [c EXCEPT !.pools = ps]
    BY <1>3 DEF DP!Effect, DbcChain
  <2>2. x.mint = t.mint /\ x.creator = 0 /\ x.partner = 0 /\ \A p \in c.pools : p.mint # t.mint
    BY <1>3 DEF DP!Accepts
  <2> HIDE DEF d, x
  <2>3. d.pools = c.pools \union {x} /\ d.roles = c.roles
    BY <2>1 DEF DbcChain
  <2> QED BY <1>3, <2>2, <2>3 DEF d, DbcPoolsOf
<1>4. CASE t.kind \in {"creator", "partner"}
  <2> DEFINE p == CHOOSE x \in c.pools : x.mint = t.mint
             left == IF t.max < DP!Fee(p, t.kind) THEN DP!Fee(p, t.kind) - t.max ELSE 0
             q == IF t.kind = "creator" THEN [p EXCEPT !.creator = left]
                                        ELSE [p EXCEPT !.partner = left]
             ps == (c.pools \ {p}) \union {q}
  <2>1. \E x \in c.pools : x.mint = t.mint
    BY <1>4 DEF DP!Accepts
  <2>2. p \in c.pools /\ p.mint = t.mint
    BY Zenon, <2>1
  <2>3. d = [c EXCEPT !.pools = ps]
    BY <1>4 DEF DP!Effect, DbcChain
  <2> HIDE DEF p, d
  <2>4. p \in DbcPools /\ p.creator >= 0 /\ p.partner >= 0 /\ t.max \in Int
    BY <1>1, <1>4, <2>2 DEF DbcPoolsOf, DbcTx
  <2>5. left \in Int /\ left >= 0
        /\ (t.max >= 0 => left <= DP!Fee(p, t.kind))
        /\ (t.max >= DP!Fee(p, t.kind) => left = 0)
    BY <1>4, <2>4 DEF DP!Fee, DbcPools
  <2> HIDE DEF left
  <2>6. /\ q.mint = p.mint
        /\ t.kind = "creator" => q.creator = left /\ q.partner = p.partner
        /\ t.kind = "partner" => q.partner = left /\ q.creator = p.creator
    BY <1>4, <2>4 DEF DbcPools
  <2> HIDE DEF q
  <2>7. d.pools = (c.pools \ {p}) \union {q} /\ d.roles = c.roles
    BY <2>3 DEF DbcChain
  <2>8. DbcPoolsOf(d)
    BY <1>4, <2>2, <2>4, <2>5, <2>6, <2>7 DEF DbcPoolsOf
  <2>9. \A r \in c.pools : r # p => r.mint # t.mint
    BY <2>2 DEF DbcPoolsOf
  <2>10. ASSUME t.max >= 0, NEW x \in d.pools
         PROVE  \E r \in c.pools :
                  /\ r.mint = x.mint
                  /\ \A role \in {"creator", "partner"} :
                        /\ 0 <= DP!Fee(x, role) /\ DP!Fee(x, role) <= DP!Fee(r, role)
                        /\ (role = t.kind /\ t.mint = x.mint /\ t.max >= DP!Fee(r, role))
                           => DP!Fee(x, role) = 0
    <3>1. CASE x = q
      <4>1. \A role \in {"creator", "partner"} :
               /\ 0 <= DP!Fee(q, role) /\ DP!Fee(q, role) <= DP!Fee(p, role)
               /\ (role = t.kind /\ t.max >= DP!Fee(p, role)) => DP!Fee(q, role) = 0
        BY <1>4, <2>4, <2>5, <2>6, <2>10 DEF DP!Fee, DbcPools
      <4> QED BY <2>2, <2>6, <3>1, <4>1
    <3>2. CASE x \in c.pools /\ x # p
      <4>1. x \in DbcPools /\ x.creator >= 0 /\ x.partner >= 0 /\ x.mint # t.mint
        BY <1>1, <2>9, <3>2 DEF DbcPoolsOf
      <4>2. \A role \in {"creator", "partner"} :
               0 <= DP!Fee(x, role) /\ DP!Fee(x, role) <= DP!Fee(x, role)
        BY <4>1 DEF DP!Fee, DbcPools
      <4> QED BY <3>2, <4>1, <4>2
    <3> QED BY <2>7, <2>10, <3>1, <3>2
  <2>11. \A r \in c.pools : \E x \in d.pools : x.mint = r.mint
    BY <2>6, <2>7
  <2> QED BY Zenon, <1>4, <2>7, <2>8, <2>10, <2>11 DEF d
<1> QED BY <1>2, <1>3, <1>4 DEF DbcTx

\* What the commands for pools and fees send.
DbcMakes(op, arg, ok, txs) ==
    \/ op \notin {"pool", "fees"}
    \/ op = "pool" /\ \E t : txs = <<t>> /\ t.kind = "pool" /\ t.mint = arg.mint
    \/ /\ op = "fees"
       /\ ok => /\ \A t \in Pending(txs) : t.kind \in {"creator", "partner"} /\ t.max >= 0
                /\ \A p \in chain.pools, role \in chain.roles :
                      p.mint = arg => \E t \in Pending(txs) : /\ t.kind = role /\ t.mint = arg
                                                              /\ t.max >= DP!Fee(p, role)

\* A claim of the fees asks for all that is due of each role.
LEMMA DbcClaims ==
    ASSUME NEW n \in Nat, chain \in DbcChain(n), DbcPoolsOf(chain), NEW mint, DP!ClaimTradingFee(mint)
    PROVE  \E ok, txs : DbcMakes("fees", mint, ok, txs) /\ Commanded("fees", mint, ok, txs)
<1> DEFINE found == {p \in chain.pools : p.mint = mint}
           r == DP!Roles
           pool == CHOOSE p \in found : TRUE
           tx(i) == [kind |-> r[i], mint |-> mint, max |-> DP!Fee(pool, r[i])]
           txs == IF found = {} THEN <<>> ELSE [i \in DOMAIN r |-> tx(i)]
<1>1. Commanded("fees", mint, found # {}, txs)
  BY Zenon DEF DP!ClaimTradingFee, DP!S!Command, DP!S!Busy, Commanded
<1>2. /\ \A role \in chain.roles : \E i \in DOMAIN r : r[i] = role
      /\ \A i \in DOMAIN r : r[i] \in {"creator", "partner"}
  <2> DEFINE x == IF "creator" \in chain.roles THEN <<"creator">> ELSE <<>>
             y == IF "partner" \in chain.roles THEN <<"partner">> ELSE <<>>
  <2>1. r = x \o y
    BY DEF DP!Roles
  <2>2. chain.roles \subseteq {"creator", "partner"}
    BY DEF DbcChain
  <2>3. CASE "creator" \in chain.roles /\ "partner" \in chain.roles
    <3>1. r = <<"creator", "partner">>
      BY <2>1, <2>3, Joined
    <3> HIDE DEF r
    <3>2. r[1] = "creator" /\ r[2] = "partner" /\ DOMAIN r = 1..2
      BY <3>1
    <3> QED BY <2>2, <3>2
  <2>4. CASE "creator" \in chain.roles /\ "partner" \notin chain.roles
    <3>1. r = <<"creator">>
      BY <2>1, <2>4
    <3> HIDE DEF r
    <3> QED BY <2>2, <2>4, <3>1
  <2>5. CASE "creator" \notin chain.roles /\ "partner" \in chain.roles
    <3>1. r = <<"partner">>
      BY <2>1, <2>5
    <3> HIDE DEF r
    <3> QED BY <2>2, <2>5, <3>1
  <2>6. CASE chain.roles = {}
    <3>1. r = <<>>
      BY <2>1, <2>6
    <3> HIDE DEF r
    <3> QED BY <2>6, <3>1
  <2> QED BY <2>2, <2>3, <2>4, <2>5, <2>6
<1>3. ASSUME found # {} PROVE DbcMakes("fees", mint, TRUE, txs)
  <2>1. pool \in found
    BY Zenon, <1>3
  <2>2. pool \in chain.pools /\ pool.mint = mint /\ pool \in DbcPools
        /\ pool.creator >= 0 /\ pool.partner >= 0
    BY <2>1 DEF DbcChain, DbcPoolsOf
  <2>3. \A p \in chain.pools : p.mint = mint => p = pool
    BY <2>2 DEF DbcPoolsOf
  <2>4. txs = [i \in DOMAIN r |-> tx(i)]
    BY <1>3
  <2> HIDE DEF pool, r, txs
  <2>5. \A i \in DOMAIN r : tx(i).kind = r[i] /\ tx(i).mint = mint /\ tx(i).max = DP!Fee(pool, r[i])
    OBVIOUS
  <2>6. \A role \in {"creator", "partner"} : DP!Fee(pool, role) \in Nat
    BY <2>2 DEF DP!Fee, DbcPools
  <2> HIDE DEF tx
  <2>7. Pending(txs) = {tx(i) : i \in DOMAIN r}
    BY <2>4 DEF Pending
  <2>8. \A t \in Pending(txs) : t.kind \in {"creator", "partner"} /\ t.max >= 0
    BY <1>2, <2>5, <2>6, <2>7
  <2>9. ASSUME NEW role \in chain.roles
        PROVE  \E t \in Pending(txs) : /\ t.kind = role /\ t.mint = mint
                                       /\ t.max >= DP!Fee(pool, role)
    <3>1. PICK i \in DOMAIN r : r[i] = role
      BY <1>2
    <3>2. tx(i) \in Pending(txs) /\ DP!Fee(pool, r[i]) \in Nat
      BY <1>2, <2>6, <2>7
    <3> QED BY <2>5, <3>1, <3>2
  <2> QED BY <2>3, <2>8, <2>9 DEF DbcMakes
<1>4. DbcMakes("fees", mint, found # {}, txs)
  <2> HIDE DEF txs, found
  <2> QED BY <1>3 DEF DbcMakes
<1> HIDE DEF txs, found
<1> QED BY <1>1, <1>4

\* What the DBC commands and the others do.
LEMMA DbcMoves ==
    ASSUME DP!Next, DbcInv, DbcPoolsOf(chain)
    PROVE  \/ Steps(DP!Accepts, DP!Effect, DP!Resumes, DP!Forgives)
           \/ \E p \in chain.pools :
                 Moved([chain EXCEPT !.pools = (chain.pools \ {p}) \union
                                          {[p EXCEPT !.creator = 1, !.partner = 2]}])
           \/ \E op, arg, ok, txs : /\ DbcMakes(op, arg, ok, txs)
                                    /\ \/ Commanded(op, arg, ok, txs)
                                       \/ Resumed(op, arg, ok, txs)
<1> DEFINE Made == \E op, arg, ok, txs : /\ DbcMakes(op, arg, ok, txs)
                                         /\ \/ Commanded(op, arg, ok, txs)
                                            \/ Resumed(op, arg, ok, txs)
<1>1. CASE DP!S!Step
  BY <1>1, DbcSteps
<1>2. CASE DP!Trades
  BY Zenon, <1>2 DEF DP!Trades, DP!S!World, Moved
<1>3. ASSUME NEW mint \in DP!Filed..MaxScriptRuns, DP!ClaimTradingFee(mint) PROVE Made
  BY Zenon, <1>3, DbcClaims DEF DbcInv, Typed, CmdInv
<1>4. ASSUME NEW op, op \notin {"pool", "fees"}, NEW arg, NEW ok, NEW txs,
             Commanded(op, arg, ok, txs)
      PROVE  Made
  BY Zenon, <1>4 DEF DbcMakes
<1>5. ASSUME NEW t, t.kind = "pool", NEW arg, t.mint = arg.mint, NEW ok,
             Commanded("pool", arg, ok, <<t>>) \/ Resumed("pool", arg, ok, <<t>>)
      PROVE  Made
  <2>1. DbcMakes("pool", arg, ok, <<t>>)
    BY <1>5 DEF DbcMakes
  <2> QED BY Zenon, <1>5, <2>1
<1> HIDE DEF Made
<1>6. ASSUME NEW hook, NEW built, DP!CreateDbcConfig(hook, built) PROVE Made
  <2>1. \E txs : Commanded("config", "none", built, txs)
    BY Zenon, <1>6 DEF DP!CreateDbcConfig, DP!S!Command, DP!S!Busy, Commanded
  <2> QED BY <1>4, <2>1
<1>7. ASSUME NEW given, NEW stated, NEW hook, NEW built, NEW described, NEW filed,
             DP!CreateDbcPool(given, hook, stated, built, described, filed)
      PROVE  Made
  <2> DEFINE mint == IF filed THEN DP!Filed ELSE cmd.n + 1
             own == DP!PoolHook(stated, given, hook)
  <2>1. CASE given = DP!None
    <3>1. \E arg, txs : DP!S!Command("config+pool", arg, built, txs)
      BY <1>7, <2>1 DEF DP!CreateDbcPool
    <3>2. \E arg, txs : Commanded("config+pool", arg, built, txs)
      BY Zenon, <3>1 DEF DP!S!Command, DP!S!Busy, Commanded
    <3> QED BY <1>4, <3>2
  <2>2. CASE given # DP!None
    <3> DEFINE t == [kind |-> "pool", config |-> given, mint |-> mint, hook |-> own]
               arg == [mint |-> mint, wrong |-> DP!Wrong(given, mint, own)]
    <3>1. Commanded("pool", arg, described, <<t>>)
      BY <1>7, <2>2
         DEF DP!CreateDbcPool, DP!PoolTx, DP!S!Command, DP!S!Busy, Commanded
    <3>2. t.kind = "pool" /\ t.mint = arg.mint
      OBVIOUS
    <3> HIDE DEF t, arg
    <3> QED BY <1>5, <3>1, <3>2
  <2> QED BY <2>1, <2>2
<1>8. CASE DP!PoolGoesOn
  <2> DEFINE a == cmd.arg
             t == [kind |-> "pool", config |-> a.key, mint |-> a.mint, hook |-> a.hook]
             arg == [mint |-> a.mint, wrong |-> a.wrong \/ \E p \in chain.pools : p.mint = a.mint]
  <2>1. Resumed("pool", arg, a.described, <<t>>)
    BY <1>8 DEF DP!PoolGoesOn, DP!PoolTx, DP!S!Resume, Resumed
  <2>2. t.kind = "pool" /\ t.mint = arg.mint
    OBVIOUS
  <2> HIDE DEF t, arg
  <2> QED BY <1>5, <2>1, <2>2 DEF Made
<1> QED BY Zenon, <1>1, <1>2, <1>3, <1>6, <1>7, <1>8 DEF DP!Next, Made

\* It holds before the first command.
LEMMA DbcDoneInit == ASSUME DP!Init PROVE DbcDone
<1>1. /\ \E roles : chain = [configs |-> {}, pools |-> {}, roles |-> roles]
      /\ status = "idle"
  BY DEF DP!Init, DP!S!Begin
<1> QED BY <1>1 DEF DbcDone, DbcPoolsOf

\* Every DBC command and every step of others keeps it.
LEMMA DbcDoneStep == ASSUME DbcInv, Idle, DbcDone, DP!Next PROVE DbcDone'
<1>1. PICK n \in Nat : n = cmd.n
  BY DEF DbcInv, Typed, CmdInv
<1>2. /\ Typed(DbcTx(n), DbcChain(n)) /\ CmdInv /\ chain \in DbcChain(n) /\ DbcPoolsOf(chain)
      /\ chain.pools \subseteq DbcPools /\ chain.roles \subseteq {"creator", "partner"}
  BY <1>1 DEF DbcInv, Typed, DbcDone, DbcChain
<1>3. CASE Steps(DP!Accepts, DP!Effect, DP!Resumes, DP!Forgives)
  <2>1. ASSUME Takes(DP!Resumes), cmd.dry, chain' = chain PROVE DbcDone'
    BY <2>1 DEF DbcDone, Takes, DbcPoolsOf
  <2>2. ASSUME Takes(DP!Resumes), DP!Accepts(chain, Head(queue)), ~cmd.dry,
               chain' = DP!Effect(chain, Head(queue))
        PROVE  DbcDone'
    <3> DEFINE t == Head(queue)
    <3>1. /\ queue \in Seq(DbcTx(n)) /\ queue # <<>> /\ queue' = Tail(queue) /\ cmd' = cmd
          /\ t \in DbcTx(n) /\ status = "running"
          /\ status' \in {"running", "resumed", "ok"}
      BY <1>2, <2>2, TypedHead DEF Takes, Typed
    <3>2. Pending(queue) = {t} \union Pending(queue')
      BY <3>1, PendingTail
    <3>3. /\ DbcPoolsOf(chain') /\ chain'.roles = chain.roles
          /\ \A p \in chain.pools : \E q \in chain'.pools : q.mint = p.mint
          /\ t.kind = "pool" => \E q \in chain'.pools : q.mint = t.mint
          /\ t.kind \in {"creator", "partner"} /\ t.max >= 0 =>
               \A q \in chain'.pools : \E p \in chain.pools :
                  /\ p.mint = q.mint
                  /\ \A role \in {"creator", "partner"} :
                        /\ 0 <= DP!Fee(q, role) /\ DP!Fee(q, role) <= DP!Fee(p, role)
                        /\ (role = t.kind /\ t.mint = q.mint /\ t.max >= DP!Fee(p, role))
                           => DP!Fee(q, role) = 0
      BY <1>2, <2>2, <3>1, DbcPays
    <3> HIDE DEF t
    <3>4. CASE cmd.op = "pool"
      BY <3>1, <3>2, <3>3, <3>4 DEF DbcDone
    <3>5. CASE cmd.op = "fees"
      <4> SUFFICES ASSUME ~cmd.moved PROVE DbcDone'
        BY <3>1, <3>3, <3>5 DEF DbcDone
      <4>1. /\ \A u \in Pending(queue) : u.kind \in {"creator", "partner"} /\ u.max >= 0
            /\ \A p \in chain.pools, role \in chain.roles :
                  p.mint = cmd.arg =>
                     \/ DP!Fee(p, role) = 0
                     \/ \E u \in Pending(queue) : /\ u.kind = role /\ u.mint = cmd.arg
                                                  /\ u.max >= DP!Fee(p, role)
        BY <2>2, <3>1, <3>5 DEF DbcDone
      <4>2. ASSUME NEW q \in chain'.pools, NEW role \in chain.roles, q.mint = cmd.arg
            PROVE  \/ DP!Fee(q, role) = 0
                   \/ \E u \in Pending(queue') : /\ u.kind = role /\ u.mint = cmd.arg
                                                 /\ u.max >= DP!Fee(q, role)
        <5>1. PICK p \in chain.pools :
                 /\ p.mint = q.mint
                 /\ \A r \in {"creator", "partner"} :
                       /\ 0 <= DP!Fee(q, r) /\ DP!Fee(q, r) <= DP!Fee(p, r)
                       /\ (r = t.kind /\ t.mint = q.mint /\ t.max >= DP!Fee(p, r))
                          => DP!Fee(q, r) = 0
          BY <3>2, <3>3, <4>1
        <5>2. p \in DbcPools
          BY <1>2
        <5>3. role \in {"creator", "partner"} /\ DP!Fee(p, role) \in Int
          BY <1>2, <5>2 DEF DP!Fee, DbcPools
        <5>4. DP!Fee(q, role) \in Int
          <6>1. q \in DbcPools
            <7>1. DP!Effect(chain, t) \in DbcChain(n)
              BY <1>2, <2>2, <3>1, DbcLands DEF t
            <7> QED BY <2>2, <4>2, <7>1 DEF t, DbcChain
          <6> QED BY <5>3, <6>1 DEF DP!Fee, DbcPools
        <5>5. CASE DP!Fee(p, role) = 0
          BY <5>1, <5>3, <5>4, <5>5
        <5>6. ASSUME NEW u \in Pending(queue), u.kind = role, u.mint = cmd.arg,
                     u.max >= DP!Fee(p, role)
              PROVE  \/ DP!Fee(q, role) = 0
                     \/ \E v \in Pending(queue') : /\ v.kind = role /\ v.mint = cmd.arg
                                                   /\ v.max >= DP!Fee(q, role)
          <6>1. u.max \in Int
            BY <3>1, <4>1, <5>6, PendingTail DEF DbcTx
          <6>2. CASE u = t
            BY <4>2, <5>1, <5>3, <5>6, <6>2
          <6>3. CASE u \in Pending(queue')
            BY <5>1, <5>3, <5>4, <5>6, <6>1, <6>3
          <6> QED BY <3>2, <5>6, <6>2, <6>3
        <5> QED BY <4>1, <4>2, <5>1, <5>5, <5>6
      <4> QED BY <3>1, <3>2, <3>3, <3>5, <4>1, <4>2 DEF DbcDone
    <3>6. CASE cmd.op \notin {"pool", "fees"}
      BY <3>1, <3>3, <3>6 DEF DbcDone
    <3> QED BY <3>4, <3>5, <3>6
  <2>3. ASSUME NEW l \in late, DP!Accepts(chain, l.tx), chain' = DP!Effect(chain, l.tx),
               cmd' = [cmd EXCEPT !.moved = TRUE], Late(l)
        PROVE  DbcDone'
    <3>1. /\ l.tx \in DbcTx(n) /\ queue' = queue /\ status' = status
          /\ cmd'.op = cmd.op /\ cmd'.arg = cmd.arg /\ cmd'.dry = cmd.dry /\ cmd'.moved
      BY <1>2, <2>3 DEF Typed, Late, CmdInv
    <3>2. DbcPoolsOf(chain') /\ \A p \in chain.pools : \E q \in chain'.pools : q.mint = p.mint
      BY <1>2, <2>3, <3>1, DbcPays
    <3> QED BY <3>1, <3>2 DEF DbcDone
  <2>4. ASSUME \/ Stops(DP!Accepts(chain, Head(queue)), DP!Forgives)
               \/ Commanded("unready", "none", FALSE, <<>>)
               \/ \E l \in late : Late(l) /\ UNCHANGED <<chain, cmd>>
        PROVE  DbcDone'
    BY <2>4 DEF Stops, Commanded, Late, DbcDone, DbcPoolsOf
  <2> QED BY Zenon, <1>3, <2>1, <2>2, <2>3, <2>4 DEF Steps
<1>4. ASSUME NEW p \in chain.pools,
             Moved([chain EXCEPT !.pools = (chain.pools \ {p}) \union
                                      {[p EXCEPT !.creator = 1, !.partner = 2]}])
      PROVE  DbcDone'
  <2> DEFINE q == [p EXCEPT !.creator = 1, !.partner = 2]
  <2>1. p \in DbcPools
    BY <1>2
  <2>2. q.mint = p.mint /\ q.creator = 1 /\ q.partner = 2
    BY <2>1 DEF DbcPools
  <2> HIDE DEF q
  <2>3. chain'.pools = (chain.pools \ {p}) \union {q}
    BY <1>2, <1>4 DEF Moved, DbcChain, q
  <2>4. DbcPoolsOf(chain') /\ \A r \in chain.pools : \E x \in chain'.pools : x.mint = r.mint
    BY <1>2, <2>2, <2>3 DEF DbcPoolsOf
  <2>5. /\ queue' = queue /\ status' = status /\ cmd'.op = cmd.op /\ cmd'.arg = cmd.arg
        /\ cmd'.dry = cmd.dry /\ cmd'.moved
    BY <1>2, <1>4 DEF Moved, CmdInv
  <2> QED BY <2>4, <2>5 DEF DbcDone
<1>5. ASSUME NEW op, NEW arg, NEW ok, NEW txs, DbcMakes(op, arg, ok, txs),
             Commanded(op, arg, ok, txs) \/ Resumed(op, arg, ok, txs)
      PROVE  DbcDone'
  <2>1. /\ chain' = chain /\ cmd'.op = op /\ cmd'.arg = arg
        /\ status' \in {"running", "ok"} => queue' = txs /\ ok
    <3>1. CASE Commanded(op, arg, ok, txs)
      BY <3>1 DEF Commanded
    <3>2. CASE Resumed(op, arg, ok, txs)
      BY <1>2, <3>2 DEF Resumed, CmdInv
    <3> QED BY <1>5, <3>1, <3>2
  <2>2. DbcPoolsOf(chain')
    BY <1>2, <2>1
  <2>3. CASE op \notin {"pool", "fees"}
    BY <2>1, <2>2, <2>3 DEF DbcDone
  <2>4. ASSUME op = "pool", NEW t, txs = <<t>>, t.kind = "pool", t.mint = arg.mint
        PROVE  DbcDone'
    <3>1. t \in Pending(txs)
      BY <2>4 DEF Pending
    <3> QED BY <2>1, <2>2, <2>4, <3>1 DEF DbcDone
  <2>5. CASE op = "fees"
    BY <1>5, <2>1, <2>2, <2>5 DEF DbcDone, DbcMakes
  <2> QED BY Zenon, <1>5, <2>3, <2>4, <2>5 DEF DbcMakes
<1> QED BY Zenon, <1>2, <1>3, <1>4, <1>5, DbcMoves

\* An announced pool is there, and nothing is left of the fees, when the command ends well.
LEMMA DbcDoneEnds == Idle /\ DbcDone => DP!OkMeansDone
BY PendingNone DEF Idle, DbcDone, DP!OkMeansDone, DP!S!Succeeded

-----------------------------------------------------------------------------
(* Dlmm *)

\* An order is made under the number of its run, and a run sends one. So no order that may
\* still be made is there, and no order is made twice.
DlmmFresh ==
    /\ \A k \in DL!Keys(chain) : k <= cmd.n
    /\ \A l \in late : /\ l.run \in Nat /\ l.run <= cmd.n /\ (status = "running" => l.run < cmd.n)
                       /\ l.tx.kind = "place" => l.tx.key = l.run /\ l.run \notin DL!Keys(chain)
    /\ \A l, m \in late : l.run = m.run => l = m
    /\ status = "running" =>
          \/ \A t \in Pending(queue) : t.kind # "place"
          \/ \E t : /\ queue = <<t>> /\ t.kind = "place" /\ t.key = cmd.n
                    /\ cmd.n \notin DL!Keys(chain)

\* A cancellation that goes on or ended well: none of its orders can still be made, and those
\* that are there are still to be cancelled. A claim alone: so are the fees.
DlmmDone ==
    ~cmd.dry /\ status \in {"running", "ok"} =>
        /\ cmd.op = "cancel" =>
              /\ \A l \in late : l.tx.kind = "place" => l.run \notin cmd.arg
              /\ \A t \in Pending(queue) : t.kind = "cancel"
              /\ \A k \in DL!Keys(chain) \intersect cmd.arg :
                    \E t \in Pending(queue) : t.kind = "cancel" /\ t.key = k
        /\ cmd.op = "claim" /\ ~cmd.moved /\ ~cmd.arg.hitch =>
              \A p \in chain.fees :
                 \E t \in Pending(queue) : t.kind = "claim" /\ t.position = p

\* What a transaction leaves of the orders and of the fees.
LEMMA DlmmLeaves ==
    ASSUME NEW c \in DlmmChain, NEW t \in DlmmTx
    PROVE  LET d == DL!Effect(c, t)
           IN  /\ t.kind \notin {"place", "cancel"} => DL!Keys(d) = DL!Keys(c)
               /\ t.kind = "cancel" => DL!Keys(d) = DL!Keys(c) \ {t.key}
               /\ t.kind = "place" => DL!Keys(d) = DL!Keys(c) \union {t.key}
               /\ t.kind = "claim" => d.fees = c.fees \ {t.position}
               /\ d.fees \subseteq c.fees
<1> DEFINE d == DL!Effect(c, t)
<1>1. c \in DlmmRecord
  BY DEF DlmmChain
<1>2. CASE t.kind = "create"
  <2>1. \E v : d = [c EXCEPT !.pool = v]
    BY <1>2 DEF DL!Effect
  <2> HIDE DEF d
  <2>2. d.orders = c.orders /\ d.fees = c.fees
    BY <1>1, <2>1 DEF DlmmRecord
  <2> QED BY <1>2, <2>2 DEF d, DL!Keys
<1>3. CASE t.kind = "status"
  <2>1. \E v : d = [c EXCEPT !.enabled = v]
    BY <1>3 DEF DL!Effect
  <2> HIDE DEF d
  <2>2. d.orders = c.orders /\ d.fees = c.fees
    BY <1>1, <2>1 DEF DlmmRecord
  <2> QED BY <1>3, <2>2 DEF d, DL!Keys
<1>4. CASE t.kind = "seed"
  <2>1. \E v : d = [c EXCEPT !.seeded = v]
    BY <1>4 DEF DL!Effect
  <2> HIDE DEF d
  <2>2. d.orders = c.orders /\ d.fees = c.fees
    BY <1>1, <2>1 DEF DlmmRecord
  <2> QED BY <1>4, <2>2 DEF d, DL!Keys
<1>5. CASE t.kind = "place"
  <2> DEFINE x == [key |-> t.key, side |-> t.side, bins |-> t.bins, asked |-> t.asked]
             v == c.orders \union {x}
  <2>1. d = [c EXCEPT !.orders = v]
    BY <1>5 DEF DL!Effect
  <2>2. x.key = t.key
    OBVIOUS
  <2> HIDE DEF d, x
  <2>3. d.orders = c.orders \union {x} /\ d.fees = c.fees
    BY <1>1, <2>1 DEF DlmmRecord
  <2>4. {o.key : o \in d.orders} = {o.key : o \in c.orders} \union {t.key}
    BY <2>2, <2>3
  <2> QED BY <1>5, <2>3, <2>4 DEF d, DL!Keys
<1>6. CASE t.kind = "cancel"
  <2> DEFINE v == {o \in c.orders : o.key # t.key}
  <2>1. d = [c EXCEPT !.orders = v]
    BY <1>6 DEF DL!Effect
  <2>2. {o.key : o \in v} = {o.key : o \in c.orders} \ {t.key}
    OBVIOUS
  <2> HIDE DEF v, d
  <2>3. d.fees = c.fees /\ d.orders = v
    BY <1>1, <2>1 DEF DlmmRecord
  <2> QED BY <1>6, <2>2, <2>3 DEF DL!Keys, d
<1>7. CASE t.kind = "claim"
  <2> DEFINE v == c.fees \ {t.position}
  <2>1. d = [c EXCEPT !.fees = v]
    BY <1>7 DEF DL!Effect
  <2> HIDE DEF v, d
  <2>2. d.fees = v /\ d.orders = c.orders
    BY <1>1, <2>1 DEF DlmmRecord
  <2> QED BY <1>7, <2>2 DEF DL!Keys, d, v
<1> QED BY <1>2, <1>3, <1>4, <1>5, <1>6, <1>7 DEF DlmmTx

\* What the commands for orders and fees send.
DlmmMakes(op, arg, ok, txs) ==
    \/ /\ op \notin {"cancel", "claim"}
       /\ \E t : txs = <<t>> /\ (t.kind = "place" => t.key = cmd.n + 1)
    \/ /\ op = "cancel" /\ \A t \in Pending(txs) : t.kind = "cancel"
       /\ ok => /\ arg \subseteq DL!Keys(chain)
                /\ \A k \in arg : \E t \in Pending(txs) : t.kind = "cancel" /\ t.key = k
    \/ /\ op = "claim" /\ \A t \in Pending(txs) : t.kind = "claim"
       /\ arg.hitch \/ \A p \in chain.fees :
                          \E t \in Pending(txs) : t.kind = "claim" /\ t.position = p

\* The transactions that cancel the orders of a list.
LEMMA CancelsPending ==
    ASSUME NEW keys
    PROVE  /\ \A t \in Pending(DL!Cancels(keys)) : t.kind = "cancel"
           /\ \A i \in DOMAIN keys :
                 \E t \in Pending(DL!Cancels(keys)) : t.kind = "cancel" /\ t.key = keys[i]
<1> DEFINE tx(i) == [kind |-> "cancel", key |-> keys[i]]
<1>1. Pending(DL!Cancels(keys)) = {tx(i) : i \in DOMAIN keys}
  BY DEF Pending, DL!Cancels
<1>2. \A i \in DOMAIN keys : tx(i).kind = "cancel" /\ tx(i).key = keys[i]
  OBVIOUS
<1> HIDE DEF tx
<1> QED BY <1>1, <1>2

\* What the DLMM commands and the others do.
LEMMA DlmmMoves ==
    ASSUME DL!Next, DlmmInv
    PROVE  \/ Steps(DL!Accepts, DL!Effect, DL!Resumes, DL!Forgives)
           \/ \E p : Moved([chain EXCEPT !.held = chain.held \union {p},
                                         !.fees = chain.fees \union {p}])
           \/ \E op, arg, ok, txs : /\ DlmmMakes(op, arg, ok, txs)
                                    /\ Commanded(op, arg, ok, txs)
<1> DEFINE Made == \E op, arg, ok, txs : /\ DlmmMakes(op, arg, ok, txs)
                                         /\ Commanded(op, arg, ok, txs)
<1>0. /\ chain \in DlmmChain /\ CmdInv /\ IsFiniteSet(chain.fees) /\ IsFiniteSet(chain.orders)
  BY DEF DlmmInv, Typed, DlmmChain
<1>1. CASE DL!S!Step
  BY <1>1, DlmmSteps
<1>2. CASE DL!FeesAccrue
  BY Zenon, <1>2 DEF DL!FeesAccrue, DL!S!World, Moved
<1>3. ASSUME NEW op, op \notin {"cancel", "claim"}, NEW arg, NEW ok, NEW t,
             t.kind = "place" => t.key = cmd.n + 1, Commanded(op, arg, ok, <<t>>)
      PROVE  Made
  BY <1>3 DEF DlmmMakes
<1> HIDE DEF Made
<1>4. ASSUME NEW configured \in BOOLEAN, NEW type \in {"limits", "plain"},
             DL!CreatePermissionlessDlmmPool(configured, type)
      PROVE  Made
  <2> DEFINE t == [kind |-> "create", type |-> type]
             arg == [exists |-> chain.pool # "none"]
  <2>1. Commanded("create", arg, configured, <<t>>)
    BY Zenon, <1>4 DEF DL!CreatePermissionlessDlmmPool, DL!S!Command, DL!S!Busy, Commanded
  <2>2. t.kind # "place"
    OBVIOUS
  <2> HIDE DEF t, arg
  <2> QED BY <1>3, <2>1, <2>2
<1>5. ASSUME NEW rounding \in {"up", "down", "other"}, DL!SeedLiquiditySingleBin(rounding)
      PROVE  Made
  <2> DEFINE t == [kind |-> "seed"]
             ok == rounding \in {"up", "down"} /\ chain.pool # "none"
  <2>1. Commanded("seed", "none", ok, <<t>>)
    BY Zenon, <1>5 DEF DL!SeedLiquiditySingleBin, DL!S!Command, DL!S!Busy, Commanded
  <2>2. t.kind # "place"
    OBVIOUS
  <2> HIDE DEF t, ok
  <2> QED BY <1>3, <2>1, <2>2
<1>6. ASSUME NEW side \in {"ask", "bid", "other"}, NEW asked \in AskedBins,
             DL!PlaceLimitOrder(side, asked)
      PROVE  Made
  <2> DEFINE bins == DL!OrderBins(side, asked)
             t == [kind |-> "place", key |-> cmd.n + 1, side |-> side, bins |-> bins,
                   asked |-> asked]
             ok == side \in {"ask", "bid"} /\ Len(asked) \in 1..MaxBins /\ chain.pool = "limits"
  <2>1. Commanded("place", "none", ok, <<t>>)
    BY Zenon, <1>6 DEF DL!PlaceLimitOrder, DL!S!Command, DL!S!Busy, Commanded
  <2> HIDE DEF bins
  <2>2. t.key = cmd.n + 1
    OBVIOUS
  <2> HIDE DEF t, ok
  <2> QED BY <1>3, <2>1, <2>2
<1>7. ASSUME NEW configured \in BOOLEAN, NEW enabled \in BOOLEAN,
             DL!SetPoolStatus(configured, enabled)
      PROVE  Made
  <2> DEFINE t == [kind |-> "status", enabled |-> enabled]
             ok == configured /\ chain.pool # "none"
  <2>1. Commanded("status", "none", ok, <<t>>)
    BY Zenon, <1>7 DEF DL!SetPoolStatus, DL!S!Command, DL!S!Busy, Commanded
  <2>2. t.kind # "place"
    OBVIOUS
  <2> HIDE DEF t, ok
  <2> QED BY <1>3, <2>1, <2>2
<1>8. ASSUME NEW k \in 1..MaxRuns, DL!CancelOne(k) PROVE Made
  <2> DEFINE keys == <<k>>
             ok == k \in DL!Keys(chain)
             arg == {k}
  <2>1. Commanded("cancel", arg, ok, DL!Cancels(keys))
    BY Zenon, <1>8 DEF DL!CancelOne, DL!S!Command, DL!S!Busy, Commanded
  <2>2. 1 \in DOMAIN keys /\ keys[1] = k
    OBVIOUS
  <2>3. ok => arg \subseteq DL!Keys(chain)
    OBVIOUS
  <2>4. \A x \in arg : x = k
    OBVIOUS
  <2> HIDE DEF keys, ok, arg
  <2>5. DlmmMakes("cancel", arg, ok, DL!Cancels(keys))
    BY <2>2, <2>3, <2>4, CancelsPending DEF DlmmMakes
  <2> QED BY <2>1, <2>5 DEF Made
<1>9. ASSUME NEW configured \in BOOLEAN, DL!CancelAll(configured) PROVE Made
  <2>1. PICK keys \in DL!SetToSeqs(DL!Keys(chain)) :
           Commanded("cancel", DL!Keys(chain), configured /\ chain.pool # "none", DL!Cancels(keys))
    BY Zenon, <1>9 DEF DL!CancelAll, DL!S!Command, DL!S!Busy, Commanded
  <2>2. IsFiniteSet(DL!Keys(chain))
    <3> DEFINE f == [o \in chain.orders |-> o.key]
    <3>1. f \in Surjection(chain.orders, DL!Keys(chain))
      BY DEF DL!Keys, Surjection
    <3> HIDE DEF f
    <3> QED BY <1>0, <3>1, FS_Surjection
  <2>3. \A k \in DL!Keys(chain) : \E i \in DOMAIN keys : keys[i] = k
    BY <2>2, OrderOfAll
  <2> DEFINE ok == configured /\ chain.pool # "none"
  <2>4. Commanded("cancel", DL!Keys(chain), ok, DL!Cancels(keys))
    BY <2>1
  <2> HIDE DEF ok
  <2>5. DlmmMakes("cancel", DL!Keys(chain), ok, DL!Cancels(keys))
    BY <2>3, CancelsPending DEF DlmmMakes
  <2> QED BY <2>4, <2>5 DEF Made
<1>10. ASSUME NEW hitch \in BOOLEAN, DL!ClaimAllFees(hitch) PROVE Made
  <2> DEFINE tx(p) == [kind |-> "claim", position |-> p]
  <2>1. PICK ps \in DL!SetToSeqs(chain.fees) :
           Commanded("claim", [hitch |-> hitch], chain.pool # "none",
                     IF hitch THEN <<>>
                     ELSE [i \in DOMAIN ps |-> [kind |-> "claim", position |-> ps[i]]])
    BY Zenon, <1>10 DEF DL!ClaimAllFees, DL!S!Command, DL!S!Busy, Commanded
  <2> DEFINE txs == IF hitch THEN <<>> ELSE [i \in DOMAIN ps |-> tx(ps[i])]
             ok == chain.pool # "none"
             arg == [hitch |-> hitch]
  <2>2. Commanded("claim", arg, ok, txs)
    BY <2>1
  <2>3. arg.hitch = hitch
    OBVIOUS
  <2>4. \A p : tx(p).kind = "claim" /\ tx(p).position = p
    OBVIOUS
  <2>5. \A p \in chain.fees : \E i \in DOMAIN ps : ps[i] = p
    BY <1>0, OrderOfAll
  <2> HIDE DEF tx, ok, arg
  <2>6. CASE hitch
    <3>1. DlmmMakes("claim", arg, ok, txs)
      BY <2>3, <2>6, PendingNone DEF DlmmMakes
    <3> QED BY <2>2, <3>1 DEF Made
  <2>7. CASE ~hitch
    <3>1. Pending(txs) = {tx(ps[i]) : i \in DOMAIN ps}
      BY <2>7 DEF Pending
    <3> HIDE DEF txs
    <3>2. DlmmMakes("claim", arg, ok, txs)
      BY <2>4, <2>5, <3>1 DEF DlmmMakes
    <3> QED BY <2>2, <3>2 DEF Made
  <2> QED BY <1>10, <2>6, <2>7
<1> QED BY Zenon, <1>1, <1>2, <1>4, <1>5, <1>6, <1>7, <1>8, <1>9, <1>10 DEF DL!Next, Made

\* Both hold before the first command.
LEMMA DlmmDoneInit == ASSUME DL!Init PROVE DlmmFresh /\ DlmmDone
<1>1. /\ chain.orders = {} /\ late = {} /\ status = "idle"
  BY DEF DL!Init, DL!S!Begin
<1> QED BY <1>1 DEF DlmmDone, DlmmFresh, DL!Keys

\* Every DLMM command and every step of others keeps them.
LEMMA DlmmDoneStep ==
    ASSUME DlmmInv, Idle, DlmmFresh, DlmmDone, DL!Next PROVE DlmmFresh' /\ DlmmDone'
<1>0. /\ Typed(DlmmTx, DlmmChain) /\ CmdInv /\ chain \in DlmmChain /\ chain \in DlmmRecord
      /\ cmd.n \in Nat /\ \A t \in DlmmTx : t.kind = "place" => t.key \in Int
  BY DEF DlmmInv, Typed, DlmmChain, CmdInv, DlmmTx
<1>1. CASE Steps(DL!Accepts, DL!Effect, DL!Resumes, DL!Forgives)
  <2>1. ASSUME Takes(DL!Resumes), \/ cmd.dry /\ chain' = chain
                                  \/ ~cmd.dry /\ chain' = DL!Effect(chain, Head(queue))
        PROVE  DlmmFresh' /\ DlmmDone'
    <3> DEFINE t == Head(queue)
    <3>1. /\ queue \in Seq(DlmmTx) /\ queue # <<>> /\ queue' = Tail(queue) /\ cmd' = cmd
          /\ t \in DlmmTx /\ status = "running" /\ status' \in {"running", "ok"}
          /\ late' = late
      BY <1>0, <2>1, TypedHead DEF Takes, Typed, DL!Resumes
    <3>2. Pending(queue) = {t} \union Pending(queue')
      BY <3>1, PendingTail
    <3>3. ASSUME NEW u, queue = <<u>> PROVE queue' = <<>> /\ t = u
      BY <3>1, <3>3
    <3>4. CASE cmd.dry /\ chain' = chain
      BY <3>1, <3>2, <3>3, <3>4, PendingNone DEF DlmmFresh, DlmmDone
    <3>5. CASE ~cmd.dry /\ chain' = DL!Effect(chain, t)
      <4>1. /\ t.kind \notin {"place", "cancel"} => DL!Keys(chain') = DL!Keys(chain)
            /\ t.kind = "cancel" => DL!Keys(chain') = DL!Keys(chain) \ {t.key}
            /\ t.kind = "place" => DL!Keys(chain') = DL!Keys(chain) \union {t.key}
            /\ t.kind = "claim" => chain'.fees = chain.fees \ {t.position}
            /\ chain'.fees \subseteq chain.fees
        BY <1>0, <3>1, <3>5, DlmmLeaves
      <4> HIDE DEF t
      <4>2. CASE t.kind # "place"
        <5>1. DL!Keys(chain') \subseteq DL!Keys(chain)
          BY <4>1, <4>2
        <5>2. DlmmFresh'
          BY <3>1, <3>2, <3>3, <5>1, PendingNone DEF DlmmFresh
        <5>3. DlmmDone'
          BY <3>1, <3>2, <3>5, <4>1, <4>2 DEF DlmmDone
        <5> QED BY <5>2, <5>3
      <4>3. CASE t.kind = "place"
        <5>1. queue' = <<>> /\ t.key = cmd.n /\ cmd.n \notin DL!Keys(chain)
          BY <3>1, <3>2, <3>3, <4>3 DEF DlmmFresh
        <5>2. DL!Keys(chain') = DL!Keys(chain) \union {cmd.n}
          BY <4>1, <4>3, <5>1
        <5>3. \A l \in late : l.run \in Nat /\ l.run < cmd.n
          BY <3>1 DEF DlmmFresh
        <5>7. /\ \A k \in DL!Keys(chain') : k <= cmd.n
              /\ \A l \in late : l.run \notin DL!Keys(chain) => l.run \notin DL!Keys(chain')
          BY <1>0, <5>2, <5>3 DEF DlmmFresh
        <5>8. \A u \in Pending(queue') : u.kind # "place"
          BY <5>1, PendingNone
        <5>4. DlmmFresh'
          BY <3>1, <5>3, <5>7, <5>8 DEF DlmmFresh
        <5>5. cmd.op # "cancel"
          BY <3>1, <3>2, <3>5, <4>3 DEF DlmmDone
        <5>6. DlmmDone'
          BY <3>1, <3>2, <3>5, <4>1, <4>3, <5>5 DEF DlmmDone
        <5> QED BY <5>4, <5>6
      <4> QED BY <4>2, <4>3
    <3> QED BY <2>1, <3>4, <3>5
  <2>2. ASSUME Stops(DL!Accepts(chain, Head(queue)), DL!Forgives)
        PROVE  DlmmFresh' /\ DlmmDone'
    <3>1. /\ status = "running" /\ queue' = <<>> /\ UNCHANGED <<chain, cmd>>
          /\ status' \notin {"running", "ok"}
          /\ \/ late' = late
             \/ late' = late \union {[tx |-> Head(queue), run |-> cmd.n]}
      BY <2>2 DEF Stops
    <3>2. DlmmDone'
      BY <3>1 DEF DlmmDone
    <3>3. CASE late' = late
      <4>1. DlmmFresh'
        BY <3>1, <3>3 DEF DlmmFresh
      <4> QED BY <3>2, <4>1
    <3>4. CASE late' = late \union {[tx |-> Head(queue), run |-> cmd.n]}
      <4> DEFINE x == [tx |-> Head(queue), run |-> cmd.n]
      <4>1. x.tx = Head(queue) /\ x.run = cmd.n
        OBVIOUS
      <4>2. Head(queue) \in Pending(queue) /\ \A u : queue = <<u>> => Head(queue) = u
        BY <1>0, <3>1, PendingTail DEF Typed
      <4>3. Head(queue).kind = "place" => Head(queue).key = cmd.n /\ cmd.n \notin DL!Keys(chain)
        BY <3>1, <4>2 DEF DlmmFresh
      <4>4. \A l \in late : l.run \in Nat /\ l.run < cmd.n
        BY <3>1 DEF DlmmFresh
      <4>5. late' = late \union {x}
        BY <3>4
      <4> HIDE DEF x
      <4>6. \A l, m \in late' : l.run = m.run => l = m
        BY <1>0, <4>1, <4>4, <4>5 DEF DlmmFresh
      <4>7. \A l \in late' :
               /\ l.run \in Nat /\ l.run <= cmd.n
               /\ l.tx.kind = "place" => l.tx.key = l.run /\ l.run \notin DL!Keys(chain)
        BY <1>0, <4>1, <4>3, <4>5 DEF DlmmFresh
      <4>8. DlmmFresh'
        BY <3>1, <4>6, <4>7 DEF DlmmFresh
      <4> QED BY <3>2, <4>8
    <3> QED BY <3>1, <3>2, <3>3, <3>4
  <2>3. ASSUME Commanded("unready", "none", FALSE, <<>>) PROVE DlmmFresh' /\ DlmmDone'
    <3>1. chain' = chain /\ late' = late /\ cmd'.n = cmd.n + 1 /\ status' = "threw"
      BY <2>3 DEF Commanded
    <3> QED BY <1>0, <3>1 DEF DlmmFresh, DlmmDone, DL!Keys, DlmmChain, DlmmRecord, DlmmOrders
  <2>4. ASSUME NEW l \in late, DL!Accepts(chain, l.tx), chain' = DL!Effect(chain, l.tx),
               cmd' = [cmd EXCEPT !.moved = TRUE], Late(l)
        PROVE  DlmmFresh' /\ DlmmDone'
    <3>1. /\ l.tx \in DlmmTx /\ queue' = queue /\ status' = status /\ late' = late \ {l}
          /\ cmd'.op = cmd.op /\ cmd'.arg = cmd.arg /\ cmd'.dry = cmd.dry
          /\ cmd'.moved /\ cmd'.n = cmd.n
      BY <1>0, <2>4 DEF Typed, Late, CmdInv
    <3>2. /\ l.tx.kind # "place" => DL!Keys(chain') \subseteq DL!Keys(chain)
          /\ l.tx.kind = "place" => DL!Keys(chain') = DL!Keys(chain) \union {l.tx.key}
      BY <1>0, <2>4, <3>1, DlmmLeaves
    <3>3. CASE l.tx.kind # "place"
      BY <3>1, <3>2, <3>3 DEF DlmmFresh, DlmmDone
    <3>4. CASE l.tx.kind = "place"
      <4>1. /\ l.tx.key = l.run /\ l.run \in Nat /\ l.run <= cmd.n
            /\ status = "running" => l.run < cmd.n
            /\ \A m \in late' : m.run # l.run
        BY <3>1, <3>4 DEF DlmmFresh
      <4>2. DL!Keys(chain') = DL!Keys(chain) \union {l.run}
        BY <3>2, <3>4, <4>1
      <4>3. DlmmFresh'
        BY <1>0, <3>1, <4>1, <4>2 DEF DlmmFresh
      <4>4. DlmmDone'
        BY <3>1, <3>4, <4>1, <4>2 DEF DlmmDone
      <4> QED BY <4>3, <4>4
    <3> QED BY <3>3, <3>4
  <2>5. ASSUME NEW l \in late, Late(l), UNCHANGED <<chain, cmd>> PROVE DlmmFresh' /\ DlmmDone'
    BY <2>5 DEF Late, DlmmFresh, DlmmDone
  <2> QED BY Zenon, <1>1, <2>1, <2>2, <2>3, <2>4, <2>5 DEF Steps
<1>2. ASSUME NEW p, Moved([chain EXCEPT !.held = chain.held \union {p},
                                        !.fees = chain.fees \union {p}])
      PROVE  DlmmFresh' /\ DlmmDone'
  <2>1. DL!Keys(chain') = DL!Keys(chain)
    BY <1>0, <1>2 DEF Moved, DlmmRecord, DL!Keys
  <2>2. /\ queue' = queue /\ status' = status /\ cmd'.op = cmd.op /\ cmd'.arg = cmd.arg
        /\ cmd'.dry = cmd.dry /\ cmd'.moved /\ late' = late /\ cmd'.n = cmd.n
    BY <1>0, <1>2 DEF Moved, CmdInv
  <2> QED BY <2>1, <2>2 DEF DlmmFresh, DlmmDone
<1>3. ASSUME NEW op, NEW arg, NEW ok, NEW txs, DlmmMakes(op, arg, ok, txs),
             Commanded(op, arg, ok, txs)
      PROVE  DlmmFresh' /\ DlmmDone'
  <2>1. /\ chain' = chain /\ cmd'.op = op /\ cmd'.arg = arg /\ late' = late
        /\ cmd'.n = cmd.n + 1
        /\ status' \in {"running", "ok"} => queue' = txs /\ ok
    BY <1>3 DEF Commanded
  <2>2. \A k \in DL!Keys(chain) : k \in Int /\ k <= cmd.n
    BY <1>0 DEF DlmmFresh, DL!Keys, DlmmRecord, DlmmOrders
  <2>3. \A l \in late : l.run \in Nat /\ l.run <= cmd.n
    BY DEF DlmmFresh
  <2>4. \/ \A t \in Pending(txs) : t.kind # "place"
        \/ \E t : txs = <<t>> /\ t.kind = "place" /\ t.key = cmd'.n
    <3>1. ASSUME NEW t, txs = <<t>> PROVE \A u \in Pending(txs) : u = t
      BY <3>1 DEF Pending
    <3> QED BY <1>3, <2>1, <3>1 DEF DlmmMakes
  <2>5. /\ \A k \in DL!Keys(chain) : k <= cmd'.n
        /\ \A l \in late : l.run <= cmd'.n /\ l.run < cmd'.n
        /\ cmd'.n \notin DL!Keys(chain)
    BY <1>0, <2>1, <2>2, <2>3
  <2>6. DlmmFresh'
    BY <2>1, <2>3, <2>4, <2>5 DEF DlmmFresh
  <2>7. DlmmDone'
    BY <1>3, <2>1 DEF DlmmDone, DlmmMakes, DlmmFresh
  <2> QED BY <2>6, <2>7
<1> QED BY Zenon, <1>1, <1>2, <1>3, DlmmMoves

\* No order of a cancellation, and no fee of a claim, is left when the command ends well.
LEMMA DlmmDoneEnds == Idle /\ DlmmDone => DL!OkMeansDone
BY PendingNone DEF Idle, DlmmDone, DL!OkMeansDone, DL!S!Succeeded

-----------------------------------------------------------------------------
(* Alpha Vault *)

\* Each address of the list is in one of the batches.
LEMMA AlphaCovers ==
    ASSUME NEW x \in AlphaListed
    PROVE  \E i \in DOMAIN VA!Batches(Whitelist) :
              /\ VA!Batches(Whitelist)[i].kind = "escrows"
              /\ x \in VA!Batches(Whitelist)[i].batch
<1> DEFINE l == Whitelist
           m == BatchSize
           n == (Len(l) + m - 1) \div m
<1>1. l \in Seq({l[k] : k \in DOMAIN l}) /\ Len(l) \in Nat /\ m \in Nat \ {0}
  BY WhitelistAssumption
<1>2. PICK j \in DOMAIN l : l[j] = x
  BY DEF VA!ToSet, AlphaListed
<1> HIDE DEF l
<1>3. j \in 1..Len(l)
  BY <1>1, <1>2
<1> DEFINE i == (j - 1) \div m + 1
           lo == (i - 1) * m + 1
           hi == VA!Min({i * m, Len(l)})
           q == SubSeq(l, lo, hi)
<1> HIDE DEF m
<1>4. i \in 1..n /\ lo \in 1..j /\ j <= i * m /\ i * m \in Nat
  <2> DEFINE k == (j - 1) \div m
             L == Len(l)
  <2>1. L \in Nat /\ j \in Nat /\ 1 <= j /\ j <= L /\ m \in Nat /\ m > 0
    BY <1>1, <1>3
  <2> HIDE DEF L
  <2>2. k \in Nat /\ k * m \in Nat /\ k * m <= j - 1 /\ j - 1 < k * m + m
    BY <2>1
  <2>3. k + 1 <= n
    <3> DEFINE top == L + m - 1
               most == (k + 1) * m
    <3>1. most = k * m + m /\ top \in Nat
      BY <2>1, <2>2
    <3>2. most <= top
      BY <2>1, <2>2, <3>1
    <3> HIDE DEF k, top
    <3>3. m * (k + 1) <= top /\ k + 1 \in Nat /\ m \in Nat \ {0}
      BY <2>1, <2>2, <3>1, <3>2
    <3>4. k + 1 <= top \div m
      BY <3>1, <3>3, Quotients
    <3> QED BY <3>4 DEF top, L
  <2> HIDE DEF k, n
  <2>4. i = k + 1 /\ (i - 1) * m = k * m /\ i * m = k * m + m
    BY <2>1, <2>2 DEF k, i
  <2>5. n \in Int
    BY <2>1 DEF n, L
  <2> QED BY <2>1, <2>2, <2>3, <2>4, <2>5 DEF lo
<1>5. hi = IF i * m <= Len(l) THEN i * m ELSE Len(l)
  <2> DEFINE p == i * m
  <2> HIDE DEF p
  <2>1. p \in Int /\ Len(l) \in Int
    BY <1>1, <1>4 DEF p
  <2>2. hi = VA!Min({p, Len(l)})
    BY DEF p
  <2> HIDE DEF hi
  <2>3. hi = IF p <= Len(l) THEN p ELSE Len(l)
    BY <2>1, <2>2, AlphaMin
  <2> QED BY <2>3 DEF p
<1> HIDE DEF i, lo, hi
<1>6. j \in lo..hi /\ lo \in 1..Len(l) /\ hi \in lo..Len(l)
  BY <1>1, <1>3, <1>4, <1>5
<1>7. x \in VA!ToSet(q)
  <2>1. q[j - lo + 1] = l[j] /\ j - lo + 1 \in DOMAIN q
    BY <1>1, <1>3, <1>6
  <2> HIDE DEF q
  <2> QED BY Zenon, <1>2, <2>1 DEF VA!ToSet
<1>8. VA!Batches(l) = [k \in 1..n |-> [kind |-> "escrows",
                         batch |-> VA!ToSet(SubSeq(l, (k - 1) * m + 1, VA!Min({k * m, Len(l)})))]]
  BY DEF VA!Batches, m
<1> HIDE DEF n, q
<1>9. VA!Batches(l)[i] = [kind |-> "escrows", batch |-> VA!ToSet(q)] /\ i \in DOMAIN VA!Batches(l)
  BY Zenon, <1>4, <1>8 DEF lo, hi, q
<1>10. /\ VA!Batches(l)[i].kind = "escrows" /\ VA!Batches(l)[i].batch = VA!ToSet(q)
       /\ i \in DOMAIN VA!Batches(l)
  BY <1>9
<1> QED BY <1>7, <1>10 DEF l

\* What the commands of the alpha vault and the others do: those whose end is told of, and
\* those it is not.
AlphaPlain == {"unready", "create", "authority", "deposit", "withdraw", "claim", "claim+close",
               "unused"}

\* What the Alpha Vault commands and the others do.
LEMMA AlphaMoves ==
    ASSUME VA!Next
    PROVE  \/ Steps(VA!Accepts, VA!Effect, VA!Resumes, VA!Forgives)
           \/ \E c : Moved(c) /\ (chain \in AlphaChain => c.served = chain.served)
           \/ \E op \in AlphaPlain : \E arg, ok, txs : Commanded(op, arg, ok, txs)
           \/ \E arg, ok : \/ Commanded("escrows", arg, ok, VA!Batches(Whitelist))
                           \/ Resumed("escrows", arg, ok, VA!Batches(Whitelist))
           \/ Commanded("crank", "none", VA!Loaded, VA!FillTxs)
           \/ Resumed("crank", "none", TRUE, IF cmd.dry THEN <<>> ELSE VA!FillTxs)
           \/ Resumed("closed", "none", TRUE,
                      IF ~cmd.dry /\ VA!FullyClaimed THEN <<[kind |-> "close"]>> ELSE <<>>)
<1> DEFINE Plain == \E op \in AlphaPlain : \E arg, ok, txs : Commanded(op, arg, ok, txs)
           Escrows == \E arg, ok : \/ Commanded("escrows", arg, ok, VA!Batches(Whitelist))
                                   \/ Resumed("escrows", arg, ok, VA!Batches(Whitelist))
           Kept == \E c : Moved(c) /\ (chain \in AlphaChain => c.served = chain.served)
<1>1. CASE VA!S!Step
  BY <1>1, AlphaSteps
<1>2. ASSUME VA!PhasePasses \/ VA!OthersCrank \/ VA!OthersDeposit PROVE Kept
  <2>1. ASSUME NEW c, Moved(c), c \in {[chain EXCEPT !.phase = chain.phase + 1],
                                      [chain EXCEPT !.filled = chain.filled + 1],
                                      [chain EXCEPT !.total = 1]}
        PROVE  Kept
    BY <2>1 DEF AlphaChain
  <2>2. \E c : Moved(c) /\ c \in {[chain EXCEPT !.phase = chain.phase + 1],
                                 [chain EXCEPT !.filled = chain.filled + 1],
                                 [chain EXCEPT !.total = 1]}
    BY Zenon, <1>2 DEF VA!PhasePasses, VA!OthersCrank, VA!OthersDeposit, VA!S!World, Moved
  <2> HIDE DEF Kept
  <2> QED BY <2>1, <2>2
<1>3. ASSUME NEW op \in AlphaPlain, NEW arg, NEW ok, NEW txs, VA!S!Command(op, arg, ok, txs)
      PROVE  Plain
  BY Zenon, <1>3 DEF VA!S!Command, VA!S!Busy, Commanded
<1>4. CASE VA!AuthorityGoesOn
  BY Zenon, <1>4 DEF VA!AuthorityGoesOn, VA!S!Resume, Resumed
<1>5. ASSUME NEW ok, VA!Create(ok) PROVE Plain
  BY <1>3, <1>5 DEF VA!Create, AlphaPlain
<1>6. ASSUME NEW given, VA!CreateWithAuthority(given) PROVE Plain \/ Escrows
  <2>1. CASE chain.vault
    BY Zenon, <1>6, <2>1 DEF VA!CreateWithAuthority, VA!S!Command, VA!S!Busy, Commanded
  <2>2. CASE ~chain.vault
    BY <1>3, <1>6, <2>2 DEF VA!CreateWithAuthority, AlphaPlain
  <2> QED BY <2>1, <2>2
<1>7. ASSUME NEW a, VA!Withdraw(a) PROVE Plain
  BY <1>3, <1>7 DEF VA!Withdraw, AlphaPlain
<1>8. ASSUME NEW a, NEW proof, VA!Deposit(a, proof) PROVE Plain
  BY <1>3, <1>8 DEF VA!Deposit, AlphaPlain
<1>9. ASSUME NEW close, VA!Claim(close) PROVE Plain
  <2> DEFINE op == IF close THEN "claim+close" ELSE "claim"
  <2>1. op \in AlphaPlain /\ \E arg, ok, txs : VA!S!Command(op, arg, ok, txs)
    BY <1>9 DEF VA!Claim, AlphaPlain
  <2> HIDE DEF op
  <2> QED BY <1>3, <2>1
<1>10. CASE VA!WithdrawRemainingQuote
  BY <1>3, <1>10 DEF VA!WithdrawRemainingQuote, AlphaPlain
<1>11. CASE VA!CrankFill
  BY Zenon, <1>11 DEF VA!CrankFill, VA!S!Command, VA!S!Busy, Commanded
<1>12. CASE VA!CrankGoesOn
  BY Zenon, <1>12 DEF VA!CrankGoesOn, VA!S!Resume, Resumed
<1>13. CASE VA!CloseEscrowWhenDone
  BY Zenon, <1>13 DEF VA!CloseEscrowWhenDone, VA!S!Resume, Resumed
<1>14. ASSUME NEW given \in BOOLEAN, VA!CreateAlphaVault(given) PROVE Plain \/ Escrows
  <2>1. (\E ok : VA!Create(ok)) \/ VA!CreateWithAuthority(given)
    <3>1. CASE chain.whitelist = "permissionless"
      BY Zenon, <1>14, <3>1
         DEF VA!CreateAlphaVault, VA!CreateFcfsAlphaVault, VA!CreateProrataAlphaVault
    <3>2. CASE chain.whitelist = "authority"
      BY <1>14, <3>2 DEF VA!CreateAlphaVault
    <3>3. CASE chain.whitelist \notin {"permissionless", "authority"}
      BY <1>14, <3>3 DEF VA!CreateAlphaVault
    <3> QED BY <3>1, <3>2, <3>3
  <2> HIDE DEF Plain, Escrows
  <2> QED BY <1>5, <1>6, <2>1
<1> HIDE DEF Plain, Escrows, Kept
<1> QED BY Zenon, <1>1, <1>2, <1>4, <1>7, <1>8, <1>9, <1>10, <1>11, <1>12, <1>13, <1>14
    DEF VA!Next, Plain, Escrows, Kept

\* An authority's run that goes on or ended well: everybody of the list has an escrow, or
\* is in a batch that has not been sent.  Alone, a crank that ended well left nothing to
\* fill, and a claim that was to close the escrow is about to or had none to close.
AlphaDone ==
    ~cmd.dry /\ status \in {"running", "ok"} =>
      /\ cmd.op = "escrows" =>
           \A x \in AlphaListed :
              \/ x \in chain.served
              \/ \E t \in Pending(queue) : t.kind = "escrows" /\ x \in t.batch
      /\ cmd.op = "crank" /\ ~cmd.moved /\ status = "ok" => ~VA!CanFill(chain)
      /\ cmd.op = "closed" /\ ~cmd.moved =>
           \/ status = "running" /\ queue = <<[kind |-> "close"]>>
           \/ status = "ok" /\ ~(chain.me.open /\ VA!FullyClaimed)

\* It holds before the first command.
LEMMA AlphaDoneInit == ASSUME VA!Init PROVE AlphaDone
BY DEF VA!Init, VA!S!Begin, VA!S!NoCommand, AlphaDone

\* Escrows stay served, those of a batch are; a closed escrow is not open.
LEMMA AlphaServes ==
    ASSUME NEW c \in AlphaChain, NEW t \in AlphaTx
    PROVE  /\ c.served \subseteq VA!Effect(c, t).served
           /\ t.kind = "escrows" => t.batch \subseteq VA!Effect(c, t).served
           /\ t.kind = "close" => VA!Effect(c, t).me.open = FALSE
<1> DEFINE d == VA!Effect(c, t)
<1>1. CASE t.kind = "escrows"
  <2> DEFINE v == c.served \union t.batch
  <2>1. \E x : d = [c EXCEPT !.served = v, !.me = x]
    BY <1>1 DEF VA!Effect, AlphaChain, AlphaEscrow
  <2> HIDE DEF d, v
  <2>2. d.served = v
    BY <2>1 DEF AlphaChain
  <2> QED BY <1>1, <2>2 DEF d, v
<1>2. CASE t.kind = "close"
  <2> DEFINE x == VA!NoEscrow
  <2>1. d = [c EXCEPT !.me = x] /\ x.open = FALSE
    BY <1>2 DEF VA!Effect, VA!NoEscrow
  <2> HIDE DEF d, x
  <2>2. d.served = c.served /\ d.me = x
    BY <2>1 DEF AlphaChain
  <2> QED BY <1>2, <2>1, <2>2 DEF d
<1>3. CASE t.kind \in {"create", "claim", "unused", "fill", "deposit", "withdraw"}
  <2>1. d.served = c.served
    BY <1>3 DEF VA!Effect, AlphaChain
  <2> QED BY <1>3, <2>1
<1> QED BY <1>1, <1>2, <1>3 DEF AlphaTx

\* Every alpha vault command and every step of others keeps it.
LEMMA AlphaDoneStep == ASSUME AlphaInv, Idle, AlphaDone, VA!Next PROVE AlphaDone'
<1>0. Typed(AlphaTx, AlphaChain) /\ CmdInv /\ chain \in AlphaChain
  BY DEF AlphaInv, Typed
<1>1. CASE Steps(VA!Accepts, VA!Effect, VA!Resumes, VA!Forgives)
  <2>1. ASSUME Takes(VA!Resumes), ~cmd.dry, chain' = VA!Effect(chain, Head(queue))
        PROVE  AlphaDone'
    <3>1. /\ queue \in Seq(AlphaTx) /\ queue # <<>> /\ queue' = Tail(queue) /\ cmd' = cmd
          /\ Head(queue) \in AlphaTx /\ status = "running"
          /\ status' \in {"running", "resumed", "ok"}
          /\ cmd.op = "crank" => status' # "ok"
      BY <1>0, <2>1, TypedHead DEF Takes, Typed, VA!Resumes
    <3>2. Pending(queue) = {Head(queue)} \union Pending(queue')
      BY <3>1, PendingTail
    <3>3. /\ chain.served \subseteq chain'.served
          /\ Head(queue).kind = "escrows" => Head(queue).batch \subseteq chain'.served
          /\ Head(queue).kind = "close" => chain'.me.open = FALSE
      BY <1>0, <2>1, <3>1, AlphaServes
    <3>4. CASE cmd.op = "closed" /\ ~cmd.moved
      <4>1. queue = <<[kind |-> "close"]>>
        BY <2>1, <3>1, <3>4 DEF AlphaDone
      <4>2. Head(queue).kind = "close" /\ Len(queue) = 1
        BY <4>1
      <4>3. status' = "ok"
        BY <2>1, <3>4, <4>2 DEF Takes, VA!Resumes
      <4> QED BY <3>1, <3>3, <3>4, <4>2, <4>3 DEF AlphaDone
    <3>5. CASE cmd.op = "escrows"
      <4>1. \A x \in AlphaListed :
               \/ x \in chain.served
               \/ \E t \in Pending(queue) : t.kind = "escrows" /\ x \in t.batch
        BY <2>1, <3>1, <3>5 DEF AlphaDone
      <4> QED BY <3>1, <3>2, <3>3, <3>5, <4>1 DEF AlphaDone
    <3> QED BY <3>1, <3>4, <3>5 DEF AlphaDone
  <2>2. ASSUME NEW l \in late, VA!Accepts(chain, l.tx), chain' = VA!Effect(chain, l.tx),
               cmd' = [cmd EXCEPT !.moved = TRUE], Late(l)
        PROVE  AlphaDone'
    <3>1. /\ l.tx \in AlphaTx /\ queue' = queue /\ status' = status
          /\ cmd'.op = cmd.op /\ cmd'.dry = cmd.dry /\ cmd'.moved
      BY <1>0, <2>2 DEF Typed, Late, CmdInv
    <3>2. chain.served \subseteq chain'.served
      BY <1>0, <2>2, <3>1, AlphaServes
    <3> QED BY <3>1, <3>2 DEF AlphaDone
  <2>3. ASSUME cmd.dry, Takes(VA!Resumes) PROVE AlphaDone'
    BY <2>3 DEF Takes, AlphaDone
  <2>4. ASSUME \/ Stops(VA!Accepts(chain, Head(queue)), VA!Forgives)
               \/ Commanded("unready", "none", FALSE, <<>>)
        PROVE  AlphaDone'
    BY <2>4 DEF Stops, Commanded, AlphaDone
  <2>5. ASSUME NEW l \in late, Late(l), UNCHANGED <<chain, cmd>> PROVE AlphaDone'
    BY <2>5 DEF Late, AlphaDone, VA!CanFill, VA!FullyClaimed
  <2> QED BY Zenon, <1>1, <2>1, <2>2, <2>3, <2>4, <2>5 DEF Steps
<1>2. ASSUME NEW c, Moved(c), chain \in AlphaChain => c.served = chain.served PROVE AlphaDone'
  <2>1. /\ queue' = queue /\ status' = status /\ cmd'.op = cmd.op /\ cmd'.dry = cmd.dry
        /\ cmd'.moved /\ chain'.served = chain.served
    BY <1>0, <1>2 DEF Moved, CmdInv
  <2> QED BY <2>1 DEF AlphaDone
<1>3. ASSUME NEW op \in AlphaPlain, NEW arg, NEW ok, NEW txs, Commanded(op, arg, ok, txs)
      PROVE  AlphaDone'
  BY <1>3 DEF Commanded, AlphaDone, AlphaPlain
<1>4. ASSUME NEW arg, NEW ok, \/ Commanded("escrows", arg, ok, VA!Batches(Whitelist))
                              \/ Resumed("escrows", arg, ok, VA!Batches(Whitelist))
      PROVE  AlphaDone'
  <2> DEFINE txs == VA!Batches(Whitelist)
  <2>1. \A x \in AlphaListed : \E t \in Pending(txs) : t.kind = "escrows" /\ x \in t.batch
    BY Zenon, AlphaCovers DEF Pending
  <2> HIDE DEF txs
  <2>2. chain' = chain /\ cmd'.op = "escrows" /\ (status' \in {"running", "ok"} => queue' = txs)
    <3>1. CASE Commanded("escrows", arg, ok, txs)
      BY <3>1 DEF Commanded
    <3>2. CASE Resumed("escrows", arg, ok, txs)
      BY <1>0, <3>2 DEF Resumed, CmdInv
    <3> QED BY <1>4, <3>1, <3>2 DEF txs
  <2> QED BY <2>1, <2>2 DEF AlphaDone
<1>5. ASSUME \/ Commanded("crank", "none", VA!Loaded, VA!FillTxs)
             \/ Resumed("crank", "none", TRUE, IF cmd.dry THEN <<>> ELSE VA!FillTxs)
      PROVE  AlphaDone'
  <2> DEFINE fill == VA!FillTxs
  <2>1. VA!CanFill(chain) => fill # <<>>
    BY DEF VA!FillTxs
  <2> HIDE DEF fill
  <2>2. /\ chain' = chain /\ cmd'.op = "crank"
        /\ ~cmd'.dry /\ status' = "ok" => fill = <<>>
    <3>1. CASE Commanded("crank", "none", VA!Loaded, fill)
      BY <3>1 DEF Commanded
    <3>2. CASE Resumed("crank", "none", TRUE, IF cmd.dry THEN <<>> ELSE fill)
      BY <1>0, <3>2 DEF Resumed, CmdInv
    <3> QED BY <1>5, <3>1, <3>2 DEF fill
  <2> QED BY <2>1, <2>2 DEF AlphaDone
<1>6. ASSUME Resumed("closed", "none", TRUE,
                     IF ~cmd.dry /\ VA!FullyClaimed THEN <<[kind |-> "close"]>> ELSE <<>>)
      PROVE  AlphaDone'
  <2> DEFINE q == <<[kind |-> "close"]>>
             full == VA!FullyClaimed
  <2>1. q # <<>>
    OBVIOUS
  <2> HIDE DEF q
  <2>2. /\ cmd'.op = "closed" /\ cmd'.dry = cmd.dry /\ (full' <=> full) /\ chain' = chain
        /\ ~cmd.dry => IF full THEN status' = "running" /\ queue' = q ELSE status' = "ok"
    <3>1. chain' = chain /\ cmd'.op = "closed" /\ cmd'.dry = cmd.dry
      BY <1>0, <1>6 DEF Resumed, CmdInv
    <3>2. full' <=> full
      BY <3>1 DEF VA!FullyClaimed
    <3> HIDE DEF full
    <3> QED BY <1>6, <2>1, <3>1, <3>2 DEF Resumed, q, full
  <2> QED BY <2>2 DEF AlphaDone, q
<1> QED BY Zenon, <1>1, <1>2, <1>3, <1>4, <1>5, <1>6, AlphaMoves

\* Nobody is left out, nothing to fill and no escrow to close when the command ends well.
LEMMA AlphaDoneEnds == Idle /\ AlphaDone => VA!OkMeansDone
BY PendingNone DEF Idle, AlphaDone, VA!OkMeansDone, VA!S!Succeeded, AlphaListed

-----------------------------------------------------------------------------
(* FeeSharing *)

ShareLists == {s \in Seq(Nat) : Len(s) \in 2..5 /\ \A i \in DOMAIN s : s[i] > 0}

ShareVaults == [key : Int, pda : BOOLEAN, mine : BOOLEAN, shares : ShareLists, funded : Nat,
                claimed : Nat]

ShareTx == [kind : {"create"}, v : Int, shares : Seq(Nat), pda : BOOLEAN, mine : BOOLEAN]
           \union [kind : {"fund"}, v : Int, amount : Nat]
           \union [kind : {"transfer", "sweep", "dbc", "claim"}, v : Int]
           \union [kind : {"reward"}, v : Int, index : Int]

ShareChain == [vaults : SUBSET ShareVaults, owner : Int, fees : Nat, rewards : SUBSET Int,
               payee : Int, tokens : Int, native : BOOLEAN]

\* What is due to a recipient is a number, and the claims that are noted do not change it.
LEMMA ShareDue ==
    ASSUME NEW x \in ShareVaults
    PROVE  FS!Due(x) \in Nat /\ \A n : FS!Due([x EXCEPT !.claimed = n]) = FS!Due(x)
<1> DEFINE f == x.shares
           n == Len(f)
           s == Sums(f)
           sum == FS!SumOf(f)
           a == x.funded * Head(f)
<1>1. f \in Seq(Nat) /\ n \in 2..5 /\ \A i \in DOMAIN f : f[i] > 0
  BY DEF ShareVaults, ShareLists
<1>2. x.funded \in Nat /\ x.mine \in BOOLEAN
  BY DEF ShareVaults
<1>3. Head(f) \in Nat /\ 1 \in 1..n /\ 1 \in DOMAIN f /\ 0 \in 0..n /\ n \in 0..n /\ 1 \in 0..n
  BY <1>1
<1>4. sum = V1!SumOf(f)
  BY DEF FS!SumOf, V1!SumOf
<1>5. /\ sum = s[n] /\ s[0] = 0 /\ \A i \in 1..n : s[i] = s[i - 1] + f[i]
      /\ \A j \in 0..n : s[j] \in Nat /\ \A i \in 0..j : s[i] <= s[j]
  <2> HIDE DEF s, n, f, sum
  <2> QED BY <1>1, <1>4, SumsFacts DEF s, n
<1>6. sum \in Nat \ {0}
  <2> HIDE DEF s, n, sum
  <2>1. s[1] = f[1] /\ s[1] <= s[n] /\ s[n] \in Nat /\ s[1] \in Nat /\ f[1] > 0
    <3>1. s[1] = s[0] + f[1] /\ f[1] \in Nat
      BY <1>1, <1>3, <1>5
    <3> QED BY <1>1, <1>3, <1>5, <3>1
  <2> QED BY <1>5, <2>1
<1>7. a \in Nat
  <2> HIDE DEF f
  <2> QED BY <1>2, <1>3
<1>8. FS!Due(x) = IF x.mine THEN a \div sum ELSE 0
  BY DEF FS!Due
<1>9. ASSUME NEW k PROVE FS!Due([x EXCEPT !.claimed = k]) = FS!Due(x)
  <2> DEFINE y == [x EXCEPT !.claimed = k]
  <2>1. y.mine = x.mine /\ y.funded = x.funded /\ y.shares = x.shares
    BY DEF ShareVaults
  <2> HIDE DEF y
  <2>2. FS!Due(y) = FS!Due(x)
    BY <2>1 DEF FS!Due
  <2> QED BY <2>2 DEF y
<1> HIDE DEF a, sum
<1>10. a \div sum \in Nat
  BY <1>6, <1>7
<1> QED BY <1>8, <1>9, <1>10

\* The vault of a key is one of the vaults.
LEMMA ShareFound ==
    ASSUME NEW c \in ShareChain, NEW v \in FS!Keys(c)
    PROVE  FS!Vault(c, v) \in c.vaults /\ FS!Vault(c, v) \in ShareVaults /\ FS!Vault(c, v).key = v
<1>1. \E x \in c.vaults : x.key = v
  BY DEF FS!Keys
<1>2. FS!Vault(c, v) \in c.vaults /\ FS!Vault(c, v).key = v
  BY Zenon, <1>1 DEF FS!Vault
<1> QED BY <1>2 DEF ShareChain

\* Funding a vault.
LEMMA ShareFunds ==
    ASSUME NEW c \in ShareChain, NEW v \in FS!Keys(c), NEW n \in Nat
    PROVE  FS!Funded(c, v, n) \in ShareChain
<1> DEFINE x == FS!Vault(c, v)
           k == x.funded + n
           y == [x EXCEPT !.funded = k]
           w == (c.vaults \ {x}) \union {y}
<1>1. x \in ShareVaults
  BY ShareFound
<1> HIDE DEF x
<1>2. k \in Nat
  BY <1>1 DEF ShareVaults
<1>3. FS!Funded(c, v, n) = [c EXCEPT !.vaults = w]
  BY <1>1 DEF FS!Funded, ShareVaults, x
<1> HIDE DEF k
<1>4. y \in ShareVaults
  BY <1>1, <1>2 DEF ShareVaults
<1> HIDE DEF y
<1>5. w \in SUBSET ShareVaults
  BY <1>4 DEF ShareChain
<1> HIDE DEF w
<1> QED BY <1>3, <1>5 DEF ShareChain

\* What an accepted transaction leaves of the vaults.
LEMMA ShareLands ==
    ASSUME NEW c \in ShareChain, NEW t \in ShareTx, FS!Accepts(c, t)
    PROVE  /\ FS!Effect(c, t) \in ShareChain
           /\ t.kind = "claim" =>
                LET x == FS!Vault(c, t.v)
                IN  [x EXCEPT !.claimed = FS!Due(x)] \in FS!Effect(c, t).vaults
<1> DEFINE d == FS!Effect(c, t)
<1>1. c.vaults \in SUBSET ShareVaults /\ c.tokens \in Int /\ c.fees \in Nat /\ c.owner \in Int
  BY DEF ShareChain
<1>2. CASE t.kind = "create"
  <2> DEFINE zero == 0
             y == [key |-> t.v, pda |-> t.pda, mine |-> t.mine, shares |-> t.shares,
                   funded |-> zero, claimed |-> zero]
             w == c.vaults \union {y}
  <2>1. t.v \in Int /\ t.pda \in BOOLEAN /\ t.mine \in BOOLEAN /\ t.shares \in Seq(Nat)
    BY <1>2 DEF ShareTx
  <2>2. t.shares \in ShareLists /\ zero \in Nat
    BY <1>2, <2>1 DEF FS!Accepts, FS!ValidShares, ShareLists
  <2>3. d = [c EXCEPT !.vaults = w]
    BY <1>2 DEF FS!Effect
  <2> HIDE DEF zero, d
  <2>4. y \in ShareVaults
    BY <2>1, <2>2 DEF ShareVaults
  <2> HIDE DEF y
  <2>5. w \in SUBSET ShareVaults
    BY <1>1, <2>4
  <2> HIDE DEF w
  <2>6. d \in ShareChain
    BY <2>3, <2>5 DEF ShareChain
  <2> QED BY <1>2, <2>6 DEF d
<1>3. CASE t.kind = "fund"
  <2> DEFINE n == c.tokens - t.amount
             e == [c EXCEPT !.tokens = n]
  <2>1. n \in Int /\ t.amount \in Nat /\ t.v \in FS!Keys(c)
    BY <1>1, <1>3 DEF ShareTx, FS!Accepts
  <2>2. d = FS!Funded(e, t.v, t.amount)
    BY <1>3 DEF FS!Effect
  <2> HIDE DEF n
  <2>3. e \in ShareChain /\ e.vaults = c.vaults
    BY <2>1 DEF ShareChain
  <2> HIDE DEF e, d
  <2>4. t.v \in FS!Keys(e)
    BY <2>1, <2>3 DEF FS!Keys
  <2> QED BY <1>3, <2>1, <2>2, <2>3, <2>4, ShareFunds DEF d
<1>4. CASE t.kind = "transfer"
  <2> DEFINE v == t.v
  <2>1. v \in Int /\ d = [c EXCEPT !.owner = v]
    BY <1>4 DEF ShareTx, FS!Effect
  <2> HIDE DEF v, d
  <2>2. d \in ShareChain
    BY <2>1 DEF ShareChain
  <2> QED BY <1>4, <2>2 DEF d
<1>5. CASE t.kind \in {"sweep", "reward"}
  <2> DEFINE zero == 0
             e == [c EXCEPT !.fees = zero]
  <2>1. t.v \in FS!Keys(c) /\ zero \in Nat
    BY <1>5 DEF FS!Accepts, FS!Sweepable
  <2>2. d = FS!Funded(e, t.v, c.fees)
    BY <1>5 DEF FS!Effect
  <2> HIDE DEF zero
  <2>3. e \in ShareChain /\ e.vaults = c.vaults
    BY <2>1 DEF ShareChain
  <2> HIDE DEF e, d
  <2>4. t.v \in FS!Keys(e)
    BY <2>1, <2>3 DEF FS!Keys
  <2> QED BY <1>1, <1>5, <2>2, <2>3, <2>4, ShareFunds DEF d
<1>6. CASE t.kind = "dbc"
  <2>1. t.v \in FS!Keys(c) /\ d = FS!Funded(c, t.v, 1)
    BY <1>6 DEF FS!Accepts, FS!Effect
  <2> HIDE DEF d
  <2> QED BY <1>6, <2>1, ShareFunds DEF d
<1>7. CASE t.kind = "claim"
  <2> DEFINE x == FS!Vault(c, t.v)
             k == FS!Due(x)
             y == [x EXCEPT !.claimed = k]
             w == (c.vaults \ {x}) \union {y}
             n == c.tokens + (k - x.claimed)
  <2>1. t.v \in FS!Keys(c)
    BY <1>7 DEF FS!Accepts
  <2>2. x \in ShareVaults
    BY <2>1, ShareFound
  <2>3. k \in Nat
    BY <2>2, ShareDue
  <2>4. d = [c EXCEPT !.tokens = n, !.vaults = w]
    BY Zenon, <1>7 DEF FS!Effect
  <2>5. n \in Int
    <3> HIDE DEF k, x
    <3>1. x.claimed \in Nat
      BY <2>2 DEF ShareVaults
    <3> QED BY <1>1, <2>3, <3>1
  <2> HIDE DEF x, k, n
  <2>6. y \in ShareVaults
    BY <2>2, <2>3 DEF ShareVaults
  <2> HIDE DEF y
  <2>7. w \in SUBSET ShareVaults /\ y \in w
    BY <1>1, <2>6
  <2> HIDE DEF w, d
  <2>8. d \in ShareChain /\ d.vaults = w
    BY <2>4, <2>5, <2>7 DEF ShareChain
  <2> QED BY <2>7, <2>8 DEF d, y, k, x
<1> QED BY <1>2, <1>3, <1>4, <1>5, <1>6, <1>7 DEF ShareTx

\* A wallet that claims, alone: its claim is pending for a vault that owes it something.
ShareClaims(q) ==
    \E v \in FS!Keys(chain) :
       /\ q = <<[kind |-> "claim", v |-> v]>> /\ FS!Vault(chain, v).mine
       /\ FS!Due(FS!Vault(chain, v)) > FS!Vault(chain, v).claimed

ShareMakes(op, ok, t) == ok => t \in ShareTx /\ (op = "claim" => ShareClaims(<<t>>))

\* What the fee sharing commands and the others do.
LEMMA ShareMoves ==
    ASSUME FS!Next, Typed(ShareTx, ShareChain)
    PROVE  \/ Steps(FS!Accepts, FS!Effect, FS!Resumes, FS!Forgives)
           \/ \E c \in ShareChain : Moved(c)
           \/ \E op, arg, ok, t : Commanded(op, arg, ok, <<t>>) /\ ShareMakes(op, ok, t)
<1> DEFINE Made == \E op, arg, ok, t : Commanded(op, arg, ok, <<t>>) /\ ShareMakes(op, ok, t)
           World == \E c \in ShareChain : Moved(c)
<1>0. chain \in ShareChain /\ CmdInv /\ MaxRuns \in Nat
  BY BoundAssumption DEF Typed
<1>1. CASE FS!S!Step
  BY <1>1, ShareSteps
<1>2. ASSUME NEW op, op # "claim", NEW arg, NEW ok, NEW t, Commanded(op, arg, ok, <<t>>),
             ok => t \in ShareTx
      PROVE  Made
  <2>1. ShareMakes(op, ok, t)
    BY <1>2 DEF ShareMakes
  <2> QED BY Zenon, <1>2, <2>1
<1>3. ASSUME FS!FeesAccrue \/ FS!RewardOpens \/ FS!PoolOpens PROVE World
  <2> DEFINE two == 2
             r == {0}
  <2>1. ASSUME NEW c \in ShareChain, Moved(c) PROVE World
    BY <2>1
  <2> HIDE DEF World
  <2>2. CASE FS!FeesAccrue
    <3>1. Moved([chain EXCEPT !.fees = two]) /\ two \in Nat
      BY <2>2 DEF FS!FeesAccrue, FS!S!World, Moved
    <3> HIDE DEF two
    <3>2. [chain EXCEPT !.fees = two] \in ShareChain
      BY <1>0, <3>1 DEF ShareChain
    <3> QED BY <2>1, <3>1, <3>2
  <2>3. CASE FS!RewardOpens
    <3>1. Moved([chain EXCEPT !.rewards = r]) /\ r \in SUBSET Int
      BY <2>3 DEF FS!RewardOpens, FS!S!World, Moved
    <3> HIDE DEF r
    <3>2. [chain EXCEPT !.rewards = r] \in ShareChain
      BY <1>0, <3>1 DEF ShareChain
    <3> QED BY <2>1, <3>1, <3>2
  <2>4. CASE FS!PoolOpens
    <3>1. PICK v \in FS!Keys(chain) \union {0} : Moved([chain EXCEPT !.payee = v])
      BY <2>4 DEF FS!PoolOpens, FS!S!World, Moved
    <3>2. v \in Int
      BY <1>0 DEF FS!Keys, ShareChain, ShareVaults
    <3>3. [chain EXCEPT !.payee = v] \in ShareChain
      BY <1>0, <3>2 DEF ShareChain
    <3> QED BY <2>1, <3>1, <3>3
  <2> QED BY <1>3, <2>2, <2>3, <2>4
<1> HIDE DEF Made, World
<1>4. ASSUME NEW shares \in UserShares, NEW pda \in BOOLEAN, NEW mine \in BOOLEAN,
             FS!CreateVault(shares, pda, mine)
      PROVE  Made
  <2> DEFINE v == cmd.n + 1
             t == [kind |-> "create", v |-> v, shares |-> shares, pda |-> pda, mine |-> mine]
             ok == FS!ValidShares(shares)
  <2>1. Commanded("create", "none", ok, <<t>>)
    BY Zenon, <1>4 DEF FS!CreateVault, FS!S!Command, FS!S!Busy, Commanded
  <2>2. v \in Int /\ shares \in Seq(Nat)
    BY <1>0, ShareAssumption DEF CmdInv
  <2> HIDE DEF v
  <2>3. t \in ShareTx
    BY <2>2 DEF ShareTx
  <2> HIDE DEF t, ok
  <2> QED BY <1>2, <2>1, <2>3
<1>5. ASSUME NEW v \in 1..MaxRuns, NEW a \in 1..ShareTokens, FS!Fund(v, a) PROVE Made
  <2> DEFINE t == [kind |-> "fund", v |-> v, amount |-> a]
             arg == [short |-> chain.native /\ ~(a + TxFee <= chain.tokens)]
             ok == v \in FS!Keys(chain) /\ a <= chain.tokens
  <2>1. Commanded("fund", arg, ok, <<t>>)
    BY Zenon, <1>5 DEF FS!Fund, FS!S!Command, FS!S!Busy, Commanded
  <2>2. t \in ShareTx
    BY <1>0, ShareAssumption DEF ShareTx
  <2> HIDE DEF t, ok
  <2> QED BY <1>2, <2>1, <2>2
<1>6. ASSUME NEW op \in {"transfer", "sweep", "dbc"}, NEW arg, NEW ok, NEW v \in 1..MaxRuns,
             Commanded(op, arg, ok, <<[kind |-> op, v |-> v]>>)
      PROVE  Made
  <2> DEFINE t == [kind |-> op, v |-> v]
  <2>1. t \in ShareTx
    BY <1>0 DEF ShareTx
  <2> HIDE DEF t
  <2>2. Commanded(op, arg, ok, <<t>>)
    BY <1>6 DEF t
  <2> QED BY <1>2, <2>1, <2>2
<1>7. ASSUME NEW v \in 1..MaxRuns, FS!TransferDammV2PositionToVault(v) PROVE Made
  <2>1. \E arg, ok : Commanded("transfer", arg, ok, <<[kind |-> "transfer", v |-> v]>>)
    BY Zenon, <1>7 DEF FS!TransferDammV2PositionToVault, FS!S!Command, FS!S!Busy, Commanded
  <2> QED BY <1>6, <2>1
<1>8. ASSUME NEW v \in 1..MaxRuns, FS!FundFromDammV2(v) PROVE Made
  <2>1. \E arg, ok : Commanded("sweep", arg, ok, <<[kind |-> "sweep", v |-> v]>>)
    BY Zenon, <1>8 DEF FS!FundFromDammV2, FS!S!Command, FS!S!Busy, Commanded
  <2> QED BY <1>6, <2>1
<1>9. ASSUME NEW v \in 1..MaxRuns, NEW index \in 0..2, FS!FundFromDammV2Reward(v, index)
      PROVE  Made
  <2> DEFINE t == [kind |-> "reward", v |-> v, index |-> index]
             ok == FS!CanBridge(v) /\ index \in {0, 1} \intersect chain.rewards
  <2>1. Commanded("reward", "none", ok, <<t>>)
    BY Zenon, <1>9 DEF FS!FundFromDammV2Reward, FS!S!Command, FS!S!Busy, Commanded
  <2>2. t \in ShareTx
    BY <1>0 DEF ShareTx
  <2> HIDE DEF t, ok
  <2> QED BY <1>2, <2>1, <2>2
<1>10. ASSUME NEW v \in 1..MaxRuns, NEW valid \in BOOLEAN, FS!FundFromDbc(v, valid) PROVE Made
  <2>1. \E arg, ok : Commanded("dbc", arg, ok, <<[kind |-> "dbc", v |-> v]>>)
    BY Zenon, <1>10 DEF FS!FundFromDbc, FS!S!Command, FS!S!Busy, Commanded
  <2> QED BY <1>6, <2>1
<1>11. ASSUME NEW v \in 1..MaxRuns, FS!ClaimShare(v) PROVE Made
  <2> DEFINE t == [kind |-> "claim", v |-> v]
             ok == /\ v \in FS!Keys(chain) /\ FS!Vault(chain, v).mine
                   /\ FS!Due(FS!Vault(chain, v)) > FS!Vault(chain, v).claimed
  <2>1. Commanded("claim", "none", ok, <<t>>)
    BY Zenon, <1>11 DEF FS!ClaimShare, FS!S!Command, FS!S!Busy, Commanded
  <2>2. t \in ShareTx
    BY <1>0 DEF ShareTx
  <2>3. ok => ShareClaims(<<t>>)
    BY Zenon DEF ShareClaims
  <2>4. ShareMakes("claim", ok, t)
    BY <2>2, <2>3 DEF ShareMakes
  <2> HIDE DEF t, ok
  <2> QED BY Zenon, <2>1, <2>4 DEF Made
<1> QED BY Zenon, <1>1, <1>3, <1>4, <1>5, <1>7, <1>8, <1>9, <1>10, <1>11 DEF FS!Next, Made, World

\* A claim that is alone is pending with something due, or has been paid what was due.
ShareDone ==
    /\ Typed(ShareTx, ShareChain)
    /\ cmd.op = "claim" /\ ~cmd.dry /\ ~cmd.moved =>
         /\ status = "running" => ShareClaims(queue)
         /\ status = "ok" => \E x \in chain.vaults :
                                x.mine /\ x.claimed = FS!Due(x) /\ FS!Due(x) > 0

\* It holds before the first command.
LEMMA ShareDoneInit == ASSUME FS!Init PROVE ShareDone
<1>0. PICK native \in BOOLEAN :
         FS!S!Begin([vaults |-> {}, owner |-> FS!Wallet, fees |-> 0, rewards |-> {},
                     payee |-> -1, tokens |-> ShareTokens, native |-> native])
  BY DEF FS!Init
<1> DEFINE c == [vaults |-> {}, owner |-> FS!Wallet, fees |-> 0, rewards |-> {}, payee |-> -1,
                 tokens |-> ShareTokens, native |-> native]
<1>1. /\ chain = c /\ queue = <<>> /\ late = {} /\ status = "idle"
      /\ cmd = [op |-> "none", arg |-> "none", dry |-> FALSE, n |-> 0, moved |-> FALSE]
  BY <1>0 DEF FS!S!Begin, FS!S!NoCommand
<1>2. c \in ShareChain
  BY ShareAssumption DEF ShareChain, FS!Wallet
<1> HIDE DEF c
<1> QED BY <1>1, <1>2 DEF ShareDone, Typed, CmdInv

\* Every fee sharing command and every step of others keeps it.
LEMMA ShareDoneStep == ASSUME ShareDone, FS!Next PROVE ShareDone'
<1>0. Typed(ShareTx, ShareChain) /\ CmdInv /\ chain \in ShareChain
  BY DEF ShareDone, Typed
<1>1. CASE Steps(FS!Accepts, FS!Effect, FS!Resumes, FS!Forgives)
  <2>1. ASSUME Takes(FS!Resumes), ~cmd.dry, FS!Accepts(chain, Head(queue)),
               chain' = FS!Effect(chain, Head(queue))
        PROVE  ShareDone'
    <3>1. status = "running" /\ cmd' = cmd /\ Head(queue) \in ShareTx
      BY <1>0, <2>1, TypedHead DEF Takes
    <3>2. chain' \in ShareChain
      BY <1>0, <2>1, <3>1, ShareLands
    <3>3. Typed(ShareTx, ShareChain)'
      BY <1>0, <2>1, <3>2, TypedTakes
    <3>4. CASE cmd.op = "claim" /\ ~cmd.moved
      <4>1. PICK v \in FS!Keys(chain) :
               /\ queue = <<[kind |-> "claim", v |-> v]>> /\ FS!Vault(chain, v).mine
               /\ FS!Due(FS!Vault(chain, v)) > FS!Vault(chain, v).claimed
        BY <2>1, <3>1, <3>4 DEF ShareDone, ShareClaims
      <4>2. Head(queue).kind = "claim" /\ Head(queue).v = v /\ Len(queue) = 1
        BY <4>1
      <4> DEFINE x == FS!Vault(chain, v)
                 k == FS!Due(x)
                 y == [x EXCEPT !.claimed = k]
      <4>3. x \in ShareVaults
        BY <1>0, ShareFound
      <4>4. k \in Nat /\ FS!Due(y) = k
        BY <4>3, ShareDue
      <4>5. y \in chain'.vaults
        BY <1>0, <2>1, <3>1, <4>2, ShareLands
      <4>6. x.mine /\ k > x.claimed
        BY <4>1
      <4> HIDE DEF x, k
      <4>7. y.mine /\ y.claimed = k /\ k > 0
        BY <4>3, <4>4, <4>6 DEF ShareVaults
      <4>8. status' = "ok"
        BY <2>1, <3>4, <4>2 DEF Takes, FS!Resumes
      <4> HIDE DEF y
      <4> QED BY <3>1, <3>3, <4>4, <4>5, <4>7, <4>8 DEF ShareDone
    <3> QED BY <3>1, <3>3, <3>4 DEF ShareDone
  <2>2. ASSUME NEW l \in late, FS!Accepts(chain, l.tx), chain' = FS!Effect(chain, l.tx),
               cmd' = [cmd EXCEPT !.moved = TRUE], Late(l)
        PROVE  ShareDone'
    <3>1. l.tx \in ShareTx /\ cmd'.moved
      BY <1>0, <2>2 DEF Typed, CmdInv
    <3>2. chain' \in ShareChain
      BY <1>0, <2>2, <3>1, ShareLands
    <3>3. Typed(ShareTx, ShareChain)'
      BY <1>0, <2>2, <3>2, TypedLate
    <3> QED BY <3>1, <3>3 DEF ShareDone
  <2>3. ASSUME cmd.dry, chain' = chain, Takes(FS!Resumes) PROVE ShareDone'
    <3>1. Typed(ShareTx, ShareChain)'
      BY <1>0, <2>3, TypedTakes
    <3> QED BY <2>3, <3>1 DEF Takes, ShareDone
  <2>4. ASSUME Stops(FS!Accepts(chain, Head(queue)), FS!Forgives) PROVE ShareDone'
    <3>1. Typed(ShareTx, ShareChain)'
      BY <1>0, <2>4, TypedStops
    <3> QED BY <2>4, <3>1 DEF Stops, ShareDone
  <2>5. ASSUME Commanded("unready", "none", FALSE, <<>>) PROVE ShareDone'
    <3>1. Typed(ShareTx, ShareChain)'
      BY <1>0, <2>5, TypedCommanded
    <3> QED BY <2>5, <3>1 DEF Commanded, ShareDone
  <2>6. ASSUME NEW l \in late, Late(l), UNCHANGED <<chain, cmd>> PROVE ShareDone'
    <3>1. Typed(ShareTx, ShareChain)'
      BY <1>0, <2>6, TypedLate
    <3> QED BY <2>6, <3>1 DEF Late, ShareDone, ShareClaims
  <2> QED BY Zenon, <1>1, <2>1, <2>2, <2>3, <2>4, <2>5, <2>6 DEF Steps
<1>2. ASSUME NEW c \in ShareChain, Moved(c) PROVE ShareDone'
  BY <1>0, <1>2, TypedMoved DEF ShareDone
<1>3. ASSUME NEW op, NEW arg, NEW ok, NEW t, Commanded(op, arg, ok, <<t>>),
             ShareMakes(op, ok, t)
      PROVE  ShareDone'
  <2>1. /\ Typed(ShareTx, ShareChain)' /\ chain' = chain /\ status' \in {"threw", "running"}
        /\ cmd'.op = op
    BY <1>0, <1>3, OneTransaction DEF ShareMakes
  <2>2. status' = "running" => ok /\ queue' = <<t>>
    BY <1>3 DEF Commanded
  <2> QED BY <1>3, <2>1, <2>2 DEF ShareDone, ShareClaims, ShareMakes
<1> QED BY Zenon, <1>0, <1>1, <1>2, <1>3, ShareMoves

\* A claim that was alone and ended well has taken what was due.
LEMMA ShareDoneEnds == ShareDone => FS!OkMeansDone
BY DEF ShareDone, FS!OkMeansDone, FS!S!Succeeded

-----------------------------------------------------------------------------
(* Presale *)

\* Nobody has put in less than nothing.
SaleFull(c) == \A r \in PS!Registries : c.esc[r].dep >= 0

\* Then nobody gets back less than nothing, and nothing who has put in nothing.
LEMMA SaleBack ==
    ASSUME NEW c \in SaleChain, SaleFull(c), NEW r \in PS!Registries
    PROVE  PS!Refundable(c, r) \in Nat /\ (c.esc[r].dep = 0 => PS!Refundable(c, r) = 0)
<1> DEFINE a == c.esc[r].dep
           m == SaleCap
           n == c.total
<1>1. a \in Nat /\ n \in Int /\ m \in Nat
  BY SaleAssumption DEF SaleFull, SaleChain, SaleRecord, SaleEscrows
<1>2. PS!Overflow(c, r) = IF c.mode = "Prorata" /\ n > m THEN a - (a * m) \div n ELSE 0
  BY DEF PS!Overflow
<1> HIDE DEF a, n, m
<1>3. ASSUME n > m PROVE (a * m) \div n \in 0..a /\ (a = 0 => (a * m) \div n = 0)
  <2> DEFINE p == a * m
             q == p \div n
  <2>1. p \in Nat /\ n \in Nat \ {0} /\ (a = 0 => p = 0)
    BY <1>1, <1>3
  <2>2. p <= a * n
    BY <1>1, <1>3
  <2> HIDE DEF p
  <2>3. q \in Nat /\ q * n <= p
    BY <2>1
  <2>4. q * n <= a * n /\ q * n \in Int /\ a * n \in Int
    BY <1>1, <2>1, <2>2, <2>3
  <2> HIDE DEF q
  <2>5. q <= a
    <3>1. ASSUME q > a PROVE FALSE
      <4>1. q >= a + 1
        BY <1>1, <2>3, <3>1
      <4>2. q * n >= (a + 1) * n
        BY <1>1, <2>1, <2>3, <4>1
      <4>3. (a + 1) * n = a * n + n
        BY <1>1, <2>1
      <4> QED BY <1>1, <2>1, <2>4, <4>2, <4>3
    <3> QED BY <1>1, <2>3, <3>1
  <2>6. q \in 0..a /\ (a = 0 => q = 0)
    BY <1>1, <2>3, <2>5
  <2> QED BY <2>6 DEF p, q
<1>4. PS!Overflow(c, r) \in Nat /\ (a = 0 => PS!Overflow(c, r) = 0)
  <2> DEFINE q == (a * m) \div n
  <2>1. n > m => q \in 0..a /\ (a = 0 => q = 0)
    BY <1>3
  <2>2. PS!Overflow(c, r) = IF c.mode = "Prorata" /\ n > m THEN a - q ELSE 0
    BY <1>2
  <2> HIDE DEF q
  <2> QED BY <1>1, <2>1, <2>2
<1> QED BY <1>1, <1>4 DEF PS!Refundable, a

\* What an accepted transaction leaves of what a sweep or the creator is after.
LEMMA SaleLeaves ==
    ASSUME NEW c \in SaleChain, SaleFull(c), NEW t \in SaleTx, PS!Accepts(c, t)
    PROVE  LET d == PS!Effect(c, t)
           IN  /\ SaleFull(d)
               /\ t.kind = "refund" =>
                    \A s \in PS!Registries :
                       PS!Refundable(d, s) = IF s = t.r THEN 0 ELSE PS!Refundable(c, s)
               /\ t.kind = "close" =>
                    \A s \in PS!Registries : PS!CanClose(d, s) => s # t.r /\ PS!CanClose(c, s)
               /\ t.kind = "creator" =>
                    (PS!CanCreatorCollectFee(d) => PS!CanCreatorCollectFee(c))
               /\ t.kind = "fee" => ~PS!CanCreatorCollectFee(d)
<1> DEFINE d == PS!Effect(c, t)
           r == t.r
           e == c.esc[r]
<1>1. /\ c \in SaleRecord /\ c.esc \in [PS!Registries -> SaleEscrows]
      /\ c.quote \in Int /\ c.total \in Int /\ c.now \in Nat /\ c.made \in Int
      /\ \A s \in PS!Registries : c.esc[s].dep \in Nat
      /\ \A s \in PS!Registries : ~c.esc[s].open => c.esc[s].dep = 0
  BY DEF SaleChain, SaleRecord, SaleFull, SaleEscrows
<1>2. ASSUME NEW x \in SaleEscrows, ~x.open => x.dep = 0, NEW q \in Int, NEW n \in Int,
             r \in PS!Registries, x.dep >= 0, d = SaleWith(c, r, x, q, n)
      PROVE  /\ SaleFull(d) /\ d.esc[r] = x /\ d.now = c.now /\ d.mode = c.mode /\ d.total = n
             /\ \A s \in PS!Registries : s # r => d.esc[s] = c.esc[s]
  <2> HIDE DEF d, r
  <2>1. /\ d.esc[r] = x /\ d.now = c.now /\ d.mode = c.mode /\ d.total = n
        /\ \A s \in PS!Registries : s # r => d.esc[s] = c.esc[s]
    BY <1>2, SaleSet
  <2> QED BY <1>1, <1>2, <2>1 DEF SaleFull
<1>3. CASE t.kind = "initialize"
  <2>1. \E v : d = [c EXCEPT !.made = v]
    BY <1>3 DEF PS!Effect
  <2> HIDE DEF d
  <2>2. d.esc = c.esc
    BY <1>1, <2>1 DEF SaleRecord
  <2> QED BY <1>3, <2>2 DEF SaleFull, d
<1>4. CASE t.kind = "deposit"
  <2> DEFINE a == t.amount
             true == TRUE
             dep == e.dep + a
             x == [e EXCEPT !.open = true, !.dep = dep]
             q == c.quote - a
             n == c.total + a
  <2>1. r \in PS!Registries /\ a \in Nat
    BY <1>4 DEF SaleTx
  <2>2. e \in SaleEscrows /\ e.dep \in Nat
    BY <1>1, <2>1
  <2>3. dep \in Nat /\ q \in Int /\ n \in Int /\ true \in BOOLEAN
    BY <1>1, <2>1, <2>2
  <2>4. d = SaleWith(c, r, x, q, n)
    BY ZenonT(60), <1>1, <1>4, <2>1, <2>2 DEF PS!Effect, SaleRecord, SaleEscrows, SaleWith
  <2> HIDE DEF a, dep, q, n, d, r, e
  <2>5. x \in SaleEscrows /\ x.open = true /\ x.dep = dep
    <3>1. dep \in Int
      BY <2>3
    <3> QED BY Zenon, <2>2, <2>3, <3>1 DEF SaleEscrows
  <2> HIDE DEF x
  <2>6. SaleFull(d)
    BY <1>2, <2>1, <2>3, <2>4, <2>5 DEF true
  <2> QED BY <1>4, <2>6 DEF d
<1>5. CASE t.kind = "withdraw"
  <2> DEFINE a == t.amount
             dep == e.dep - a
             x == [e EXCEPT !.dep = dep]
             q == c.quote + a
             n == c.total - a
  <2>1. r \in PS!Registries /\ a \in Nat \ {0}
    BY <1>5 DEF SaleTx
  <2>2. e \in SaleEscrows /\ e.dep \in Nat /\ (~e.open => e.dep = 0)
    BY <1>1, <2>1
  <2>3. a <= e.dep
    BY <1>5 DEF PS!Accepts
  <2>4. dep \in Nat /\ q \in Int /\ n \in Int /\ e.open
    <3> HIDE DEF a, e
    <3> QED BY <1>1, <2>1, <2>2, <2>3
  <2>5. d = SaleWith(c, r, x, q, n)
    BY <1>1, <1>5, <2>1, <2>2 DEF PS!Effect, SaleRecord, SaleEscrows, SaleWith
  <2> HIDE DEF a, dep, q, n, d, r, e
  <2>6. x \in SaleEscrows /\ x.open = e.open /\ x.dep = dep
    <3>1. dep \in Int
      BY <2>4
    <3> QED BY Zenon, <2>2, <3>1 DEF SaleEscrows
  <2> HIDE DEF x
  <2>7. SaleFull(d)
    <3>1. (~x.open => x.dep = 0) /\ x.dep >= 0
      BY <2>4, <2>6
    <3> QED BY Zenon, <1>2, <2>1, <2>4, <2>5, <2>6, <3>1
  <2> QED BY <1>5, <2>7 DEF d
<1>6. CASE t.kind = "claim"
  <2> DEFINE v == c.now - End + 1
             x == [e EXCEPT !.claimed = v]
  <2>1. r \in PS!Registries /\ v \in Int /\ e.open
    BY <1>1, <1>6, SaleAssumption DEF SaleTx, PS!Accepts
  <2>2. e \in SaleEscrows /\ e.dep \in Nat
    BY <1>1, <2>1
  <2>3. d = [c EXCEPT !.esc = [c.esc EXCEPT ![r] = x]]
    BY <1>1, <1>6, <2>1, <2>2 DEF PS!Effect, SaleRecord, SaleEscrows
  <2>4. d = SaleWith(c, r, x, c.quote, c.total)
    BY Zenon, <1>1, <2>3 DEF SaleRecord, SaleWith
  <2> HIDE DEF v, d, r, e
  <2>5. x \in SaleEscrows /\ x.open = e.open /\ x.dep = e.dep
    BY Zenon, <2>1, <2>2 DEF SaleEscrows
  <2> HIDE DEF x
  <2>6. SaleFull(d)
    <3>1. (~x.open => x.dep = 0) /\ x.dep >= 0
      BY <2>1, <2>2, <2>5
    <3> QED BY Zenon, <1>1, <1>2, <2>1, <2>4, <2>5, <3>1
  <2> QED BY <1>6, <2>6 DEF d
<1>7. CASE t.kind = "refund"
  <2> DEFINE b == PS!Refundable(c, r)
             q == c.quote + b
             dep == IF PS!Progress(c) = "Failed" THEN 0 ELSE e.dep
             true == TRUE
             x == [e EXCEPT !.refunded = true, !.dep = dep]
  <2>1. r \in PS!Registries
    BY <1>7 DEF SaleTx
  <2>2. e \in SaleEscrows /\ (~e.open => e.dep = 0) /\ b \in Int /\ e.dep \in Nat
    BY <1>1, <2>1, SaleRefund
  <2>3. d = [c EXCEPT !.esc = [c.esc EXCEPT ![r] = x], !.quote = q]
    BY ZenonT(60), <1>1, <1>7, <2>1, <2>2 DEF PS!Effect, SaleRecord, SaleEscrows
  <2>4. d = SaleWith(c, r, x, q, c.total)
    BY Zenon, <1>1, <2>3 DEF SaleRecord, SaleWith
  <2>5. /\ q \in Int /\ dep \in Int /\ dep \in Nat /\ (~e.open => dep = 0)
        /\ true \in BOOLEAN
    BY <1>1, <2>2 DEF SaleEscrows
  <2> HIDE DEF q, dep, true, d, e, r
  <2>6. x \in SaleEscrows /\ x.open = e.open /\ x.dep = dep /\ x.refunded = true
    BY Zenon, <2>2, <2>5 DEF SaleEscrows
  <2> HIDE DEF x
  <2>7. /\ SaleFull(d) /\ d.esc[r] = x /\ d.now = c.now /\ d.mode = c.mode /\ d.total = c.total
        /\ \A s \in PS!Registries : s # r => d.esc[s] = c.esc[s]
    <3>1. (~x.open => x.dep = 0) /\ x.dep >= 0
      BY <2>5, <2>6
    <3> QED BY <1>1, <1>2, <2>1, <2>4, <2>5, <2>6, <3>1
  <2>8. PS!Progress(d) = PS!Progress(c)
    BY <2>7 DEF PS!Progress
  <2>9. \A s \in PS!Registries : s # r => PS!Refundable(d, s) = PS!Refundable(c, s)
    BY <2>7, <2>8 DEF PS!Refundable, PS!Overflow
  <2>10. PS!Refundable(d, r) = 0
    BY <2>6, <2>7, <2>8 DEF PS!Refundable, dep, true
  <2> QED BY <1>7, <2>7, <2>9, <2>10 DEF d, r
<1>8. CASE t.kind = "close"
  <2> DEFINE x == PS!NoEscrow
  <2>1. r \in PS!Registries
    BY <1>8 DEF SaleTx
  <2>2. x \in SaleEscrows /\ x.dep = 0 /\ x.open = FALSE
    BY DEF SaleEscrows, PS!NoEscrow
  <2>3. d = [c EXCEPT !.esc = [c.esc EXCEPT ![r] = x]]
    BY <1>1, <1>8, <2>1 DEF PS!Effect, SaleRecord
  <2>4. d = SaleWith(c, r, x, c.quote, c.total)
    BY Zenon, <1>1, <2>3 DEF SaleRecord, SaleWith
  <2> HIDE DEF x, d, r
  <2>5. /\ SaleFull(d) /\ d.esc[r] = x /\ d.now = c.now /\ d.mode = c.mode /\ d.total = c.total
        /\ \A s \in PS!Registries : s # r => d.esc[s] = c.esc[s]
    BY <1>1, <1>2, <2>1, <2>2, <2>4
  <2>6. ~PS!CanClose(d, r)
    BY <2>2, <2>5 DEF PS!CanClose
  <2>7. ASSUME NEW s \in PS!Registries, s # r, PS!CanClose(d, s) PROVE PS!CanClose(c, s)
    <3>1. PS!Refundable(d, s) = PS!Refundable(c, s) /\ PS!Progress(d) = PS!Progress(c)
          /\ d.esc[s] = c.esc[s]
      BY <2>5, <2>7 DEF PS!Refundable, PS!Overflow, PS!Progress
    <3> QED BY <2>7, <3>1 DEF PS!CanClose
  <2> QED BY <1>8, <2>5, <2>6, <2>7 DEF d, r
<1>9. CASE t.kind \in {"creator", "fee", "unsold"}
  <2> DEFINE true == TRUE
  <2>1. d = IF t.kind = "creator" THEN [c EXCEPT !.paid = true]
            ELSE IF t.kind = "fee" THEN [c EXCEPT !.feePaid = true] ELSE [c EXCEPT !.unsold = true]
    BY <1>9 DEF PS!Effect
  <2> HIDE DEF true, d
  <2>2. /\ d.esc = c.esc /\ d.now = c.now /\ d.total = c.total
        /\ t.kind = "creator" => d.feePaid = c.feePaid
        /\ t.kind = "fee" => d.feePaid = true
    BY <1>1, <2>1 DEF SaleRecord
  <2>3. SaleFull(d)
    BY <2>2 DEF SaleFull
  <2>4. PS!Progress(d) = PS!Progress(c)
    BY <2>2 DEF PS!Progress
  <2> QED BY <1>9, <2>2, <2>3, <2>4 DEF PS!CanCreatorCollectFee, d, true
<1> QED BY <1>3, <1>4, <1>5, <1>6, <1>7, <1>8, <1>9 DEF SaleTx

\* What a sweep, or the creator, is after is pending or there is nothing of it.
SaleLeft(op, arg, q) ==
    /\ op \in {"refund", "close"} => \A t \in Pending(q) : t.kind = op
    /\ op = "creator" => \A t \in Pending(q) : t.kind \in {"creator", "fee"}
    /\ op = "refund" => \A r \in PS!Registries :
                           PS!Refundable(chain, r) = 0 \/ \E t \in Pending(q) : t.r = r
    /\ op = "close" => \A r \in PS!Registries :
                           PS!CanClose(chain, r) => \E t \in Pending(q) : t.r = r
    /\ op = "creator" /\ arg.collectFee /\ PS!CanCreatorCollectFee(chain) =>
          \E t \in Pending(q) : t.kind = "fee"

SaleDone ==
    /\ SaleFull(chain)
    /\ ~cmd.dry /\ ~cmd.moved /\ status \in {"running", "ok"} =>
          SaleLeft(cmd.op, cmd.arg, queue)

\* Every escrow that qualifies is in a sweep.
SaleSweeps(op, el, txs) == /\ \A t \in Pending(txs) : t.kind = op
                           /\ \A r \in el : \E t \in Pending(txs) : t.r = r

\* A sweep sends one transaction for each of its escrows.
LEMMA SaleSwept ==
    ASSUME NEW op, NEW el \in SUBSET PS!Registries, NEW rs \in PS!SetToSeqs(el)
    PROVE  SaleSweeps(op, el, [i \in DOMAIN rs |-> [kind |-> op, r |-> rs[i]]])
<1>1. IsFiniteSet(el)
  BY SaleAssumption, FS_Subset DEF PS!Registries
<1>2. PS!SetToSeqs(el) = DL!SetToSeqs(el)
  BY DEF PS!SetToSeqs, DL!SetToSeqs, PS!Cardinality, DL!Cardinality
<1>3. \A r \in el : \E i \in DOMAIN rs : rs[i] = r
  BY <1>1, <1>2, OrderOfAll
<1> DEFINE tx(i) == [kind |-> op, r |-> rs[i]]
<1>4. \A i \in DOMAIN rs : tx(i).kind = op /\ tx(i).r = rs[i]
  OBVIOUS
<1> DEFINE txs == [i \in DOMAIN rs |-> tx(i)]
<1>5. SaleSweeps(op, el, txs)
  <2> HIDE DEF tx
  <2>1. Pending(txs) = {tx(i) : i \in DOMAIN rs}
    BY DEF Pending
  <2> QED BY <1>3, <1>4, <2>1 DEF SaleSweeps
<1> QED BY <1>5

\* What the presale commands and the others do.
LEMMA SaleMoves ==
    ASSUME PS!Next, SaleInv, SaleFull(chain)
    PROVE  \/ Steps(PS!Accepts, PS!Effect, PS!Resumes, PS!Forgives)
           \/ \E c : Moved(c) /\ SaleFull(c)
           \/ \E op, arg, ok, txs :
                 Commanded(op, arg, ok, txs) /\ (ok => SaleLeft(op, arg, txs))
<1> DEFINE Made == \E op, arg, ok, txs :
                      Commanded(op, arg, ok, txs) /\ (ok => SaleLeft(op, arg, txs))
           World == \E c : Moved(c) /\ SaleFull(c)
<1>0. chain \in SaleChain /\ chain \in SaleRecord
  BY DEF SaleInv, Typed, SaleChain
<1>1. CASE PS!S!Step
  BY <1>1, SaleSteps
<1>2. ASSUME PS!Tick \/ PS!OthersBuy PROVE World
  <2>1. \E c : Moved(c) /\ c \in {[chain EXCEPT !.now = chain.now + 1],
                                 [chain EXCEPT !.total = chain.total + 1]}
    BY Zenon, <1>2 DEF PS!Tick, PS!OthersBuy, PS!S!World, Moved
  <2>2. ASSUME NEW c, Moved(c), c \in {[chain EXCEPT !.now = chain.now + 1],
                                      [chain EXCEPT !.total = chain.total + 1]}
        PROVE  World
    <3>1. c.esc = chain.esc
      BY <1>0, <2>2 DEF SaleRecord
    <3>2. SaleFull(c)
      BY <3>1 DEF SaleFull
    <3> QED BY Zenon, <2>2, <3>2
  <2> HIDE DEF World
  <2> QED BY <2>1, <2>2
<1>3. ASSUME NEW op, op \notin {"refund", "close", "creator"}, NEW arg, NEW ok, NEW txs,
             Commanded(op, arg, ok, txs)
      PROVE  Made
  <2>1. SaleLeft(op, arg, txs)
    BY <1>3 DEF SaleLeft
  <2> QED BY Zenon, <1>3, <2>1
<1>4. ASSUME NEW op, op \notin {"refund", "close", "creator"}, NEW arg, NEW ok, NEW txs,
             PS!S!Command(op, arg, ok, txs)
      PROVE  Made
  <2>1. Commanded(op, arg, ok, txs)
    BY Zenon, <1>4 DEF PS!S!Command, PS!S!Busy, Commanded
  <2> HIDE DEF Made
  <2> QED BY <1>3, <1>4, <2>1
<1>5. ASSUME NEW op, NEW el \in SUBSET PS!Registries, PS!Sweep(op, el),
             \A txs : SaleSweeps(op, el, txs) => SaleLeft(op, "none", txs)
      PROVE  Made
  <2>1. PICK rs \in PS!SetToSeqs(el) :
           Commanded(op, "none", el # {}, [i \in DOMAIN rs |-> [kind |-> op, r |-> rs[i]]])
    BY Zenon, <1>5 DEF PS!Sweep, PS!S!Command, PS!S!Busy, Commanded
  <2> DEFINE txs == [i \in DOMAIN rs |-> [kind |-> op, r |-> rs[i]]]
  <2>2. SaleSweeps(op, el, txs)
    BY Zenon, <1>5, SaleSwept
  <2> HIDE DEF txs
  <2>3. SaleLeft(op, "none", txs)
    BY Zenon, <1>5, <2>2
  <2>4. Commanded(op, "none", el # {}, txs)
    BY <2>1 DEF txs
  <2> QED BY Zenon, <2>3, <2>4
<1> HIDE DEF Made, World
<1>6. ASSUME NEW start \in 0..End, NEW end \in 0..End, PS!CreatePresaleVault(start, end)
      PROVE  Made
  <2>1. PICK valid : PS!CreateVault(valid, start, end)
    BY <1>6 DEF PS!CreatePresaleVault, PS!CreateProrataPresaleVault,
       PS!CreatePermissionedPresaleVault, PS!CreateFcfsPresaleVault,
       PS!CreateFixedPricePresaleVault
  <2> QED BY <1>4, <2>1 DEF PS!CreateVault
<1>7. ASSUME NEW a, NEW r, NEW proof, PS!Deposit(a, r, proof) PROVE Made
  BY <1>4, <1>7 DEF PS!Deposit
<1>8. ASSUME NEW a, NEW r, PS!Withdraw(a, r) PROVE Made
  BY <1>4, <1>8 DEF PS!Withdraw
<1>9. ASSUME NEW r, PS!Claim(r) PROVE Made
  BY <1>4, <1>9 DEF PS!Claim
<1>10. ASSUME PS!HandleUnsold PROVE Made
  <2>1. \E arg, ok, txs : PS!S!Command("unsold", arg, ok, txs)
    BY Zenon, <1>10 DEF PS!HandleUnsold
  <2>2. "unsold" \notin {"refund", "close", "creator"}
    OBVIOUS
  <2> QED BY Zenon, <1>4, <2>1, <2>2
<1>11. ASSUME PS!WithdrawRemainingQuote PROVE Made
  <2> DEFINE el == {r \in PS!Registries : chain.esc[r].open /\ PS!Refundable(chain, r) > 0}
  <2>1. PS!Sweep("refund", el) /\ el \in SUBSET PS!Registries
    BY <1>11 DEF PS!WithdrawRemainingQuote
  <2>2. \A r \in PS!Registries : r \notin el => PS!Refundable(chain, r) = 0
    <3>1. ASSUME NEW r \in PS!Registries, r \notin el PROVE PS!Refundable(chain, r) = 0
      <4>1. PS!Refundable(chain, r) \in Nat
            /\ (chain.esc[r].dep = 0 => PS!Refundable(chain, r) = 0)
        BY <1>0, SaleBack
      <4>2. chain.esc[r].open \/ chain.esc[r].dep = 0
        BY <1>0 DEF SaleChain
      <4> QED BY <3>1, <4>1, <4>2
    <3> QED BY <3>1
  <2> HIDE DEF el
  <2>3. \A txs : SaleSweeps("refund", el, txs) => SaleLeft("refund", "none", txs)
    BY <2>2 DEF SaleLeft, SaleSweeps
  <2> QED BY Zenon, <1>5, <2>1, <2>3
<1>12. ASSUME PS!CloseEscrow PROVE Made
  <2> DEFINE el == {r \in PS!Registries : PS!CanClose(chain, r)}
  <2>1. PS!Sweep("close", el) /\ el \in SUBSET PS!Registries
    BY <1>12 DEF PS!CloseEscrow
  <2>2. \A r \in PS!Registries : PS!CanClose(chain, r) => r \in el
    OBVIOUS
  <2> HIDE DEF el
  <2>3. \A txs : SaleSweeps("close", el, txs) => SaleLeft("close", "none", txs)
    BY <2>2 DEF SaleLeft, SaleSweeps
  <2> QED BY Zenon, <1>5, <2>1, <2>3
<1>13. ASSUME NEW creator \in BOOLEAN, NEW collectFee \in BOOLEAN,
              PS!CreatorWithdraw(creator, collectFee)
       PROVE  Made
  <2> DEFINE t == [kind |-> "creator"]
             u == [kind |-> "fee"]
             ok == creator /\ PS!CanCreatorWithdraw(chain)
             can == PS!CanCreatorCollectFee(chain)
             both == collectFee /\ can
             txs == IF both THEN <<t, u>> ELSE <<t>>
             arg == [collectFee |-> collectFee]
  <2>1. <<t>> \o <<u>> = <<t, u>> /\ <<t>> \o <<>> = <<t>>
    <3>1. <<t>> \in Seq({t})
      OBVIOUS
    <3>2. <<t>> \o <<u>> = <<t, u>>
      BY Joined
    <3>3. <<t>> \o <<>> = <<t>>
      BY <3>1, ConcatEmptySeq
    <3> QED BY <3>2, <3>3
  <2>2. Commanded("creator", arg, ok, txs)
    BY Zenon, <1>13, <2>1 DEF PS!CreatorWithdraw, PS!S!Command, PS!S!Busy, Commanded
  <2>3. t.kind = "creator" /\ u.kind = "fee" /\ arg.collectFee = collectFee
    OBVIOUS
  <2> HIDE DEF t, u, arg, can
  <2>4. Pending(txs) = IF both THEN {t, u} ELSE {t}
    <3>1. DOMAIN <<t, u>> = {1, 2} /\ <<t, u>>[1] = t /\ <<t, u>>[2] = u
          /\ DOMAIN <<t>> = {1} /\ <<t>>[1] = t
      OBVIOUS
    <3>2. Pending(<<t, u>>) = {t, u} /\ Pending(<<t>>) = {t}
      BY <3>1 DEF Pending
    <3> QED BY <3>2
  <2> HIDE DEF txs
  <2>5. SaleLeft("creator", arg, txs)
    BY <2>3, <2>4 DEF SaleLeft, can
  <2> HIDE DEF ok
  <2> QED BY Zenon, <2>2, <2>5 DEF Made
<1> QED BY Zenon, <1>1, <1>2, <1>6, <1>7, <1>8, <1>9, <1>10, <1>11, <1>12, <1>13
    DEF PS!Next, Made, World

\* It holds before the first command.
LEMMA SaleDoneInit == ASSUME PS!Init PROVE SaleDone
<1>1. /\ status = "idle"
      /\ \E sale, now, q, x : chain = [mode |-> sale.mode, whitelist |-> sale.whitelist,
             disableWithdraw |-> sale.disableWithdraw, now |-> now,
             esc |-> [r \in PS!Registries |-> PS!NoEscrow], total |-> 0, quote |-> q,
             paid |-> FALSE, feePaid |-> FALSE, unsold |-> FALSE, made |-> 0]
  BY DEF PS!Init, PS!S!Begin
<1>2. chain.esc = [r \in PS!Registries |-> PS!NoEscrow]
  BY <1>1
<1> QED BY <1>1, <1>2 DEF SaleDone, SaleFull, PS!NoEscrow

\* Every presale command and every step of others keeps it.
LEMMA SaleDoneStep == ASSUME SaleInv, Idle, SaleDone, PS!Next PROVE SaleDone'
<1>0. Typed(SaleTx, SaleChain) /\ CmdInv /\ chain \in SaleChain /\ SaleFull(chain)
  BY DEF SaleInv, Typed, SaleDone
<1>1. CASE Steps(PS!Accepts, PS!Effect, PS!Resumes, PS!Forgives)
  <2>1. ASSUME Takes(PS!Resumes), PS!Accepts(chain, Head(queue)), ~cmd.dry,
               chain' = PS!Effect(chain, Head(queue))
        PROVE  SaleDone'
    <3> DEFINE t == Head(queue)
    <3>1. /\ queue \in Seq(SaleTx) /\ queue # <<>> /\ queue' = Tail(queue) /\ cmd' = cmd
          /\ t \in SaleTx /\ status = "running"
      BY <1>0, <2>1, TypedHead DEF Takes, Typed
    <3>2. Pending(queue) = {t} \union Pending(queue')
      BY <3>1, PendingTail
    <3>3. /\ SaleFull(chain')
          /\ t.kind = "refund" =>
               \A s \in PS!Registries :
                  PS!Refundable(chain', s) = IF s = t.r THEN 0 ELSE PS!Refundable(chain, s)
          /\ t.kind = "close" =>
               \A s \in PS!Registries :
                  PS!CanClose(chain', s) => s # t.r /\ PS!CanClose(chain, s)
          /\ t.kind = "creator" =>
               (PS!CanCreatorCollectFee(chain') => PS!CanCreatorCollectFee(chain))
          /\ t.kind = "fee" => ~PS!CanCreatorCollectFee(chain')
      BY <1>0, <2>1, <3>1, SaleLeaves
    <3> HIDE DEF t
    <3>4. ASSUME ~cmd.moved PROVE SaleLeft(cmd.op, cmd.arg, queue)'
      <4>1. SaleLeft(cmd.op, cmd.arg, queue)
        BY <2>1, <3>1, <3>4 DEF SaleDone
      <4>2. CASE cmd.op = "refund"
        <5>1. t.kind = "refund"
          BY <3>2, <4>1, <4>2 DEF SaleLeft
        <5> QED BY <3>1, <3>2, <3>3, <4>1, <4>2, <5>1 DEF SaleLeft
      <4>3. CASE cmd.op = "close"
        <5>1. t.kind = "close"
          BY <3>2, <4>1, <4>3 DEF SaleLeft
        <5> QED BY <3>1, <3>2, <3>3, <4>1, <4>3, <5>1 DEF SaleLeft
      <4>4. CASE cmd.op = "creator"
        <5>1. t.kind \in {"creator", "fee"}
          BY <3>2, <4>1, <4>4 DEF SaleLeft
        <5> QED BY <3>1, <3>2, <3>3, <4>1, <4>4, <5>1 DEF SaleLeft
      <4>5. CASE cmd.op \notin {"refund", "close", "creator"}
        BY <3>1, <4>5 DEF SaleLeft
      <4> QED BY <4>2, <4>3, <4>4, <4>5
    <3> QED BY <3>1, <3>3, <3>4 DEF SaleDone
  <2>2. ASSUME NEW l \in late, PS!Accepts(chain, l.tx), chain' = PS!Effect(chain, l.tx),
               cmd' = [cmd EXCEPT !.moved = TRUE], Late(l)
        PROVE  SaleDone'
    <3>1. l.tx \in SaleTx /\ cmd'.moved
      BY <1>0, <2>2 DEF Typed, CmdInv
    <3>2. SaleFull(chain')
      BY <1>0, <2>2, <3>1, SaleLeaves
    <3> QED BY <3>1, <3>2 DEF SaleDone
  <2>3. ASSUME cmd.dry, chain' = chain, Takes(PS!Resumes) PROVE SaleDone'
    BY <2>3 DEF Takes, SaleDone, SaleFull
  <2>4. ASSUME \/ Stops(PS!Accepts(chain, Head(queue)), PS!Forgives)
               \/ Commanded("unready", "none", FALSE, <<>>)
        PROVE  SaleDone'
    BY <2>4 DEF Stops, Commanded, SaleDone, SaleFull
  <2>5. ASSUME NEW l \in late, Late(l), UNCHANGED <<chain, cmd>> PROVE SaleDone'
    BY <2>5 DEF Late, SaleDone, SaleFull, SaleLeft
  <2> QED BY Zenon, <1>1, <2>1, <2>2, <2>3, <2>4, <2>5 DEF Steps
<1>2. ASSUME NEW c, Moved(c), SaleFull(c) PROVE SaleDone'
  BY <1>0, <1>2 DEF Moved, SaleDone, SaleFull, CmdInv
<1>3. ASSUME NEW op, NEW arg, NEW ok, NEW txs, Commanded(op, arg, ok, txs),
             ok => SaleLeft(op, arg, txs)
      PROVE  SaleDone'
  <2>1. /\ chain' = chain /\ cmd'.op = op /\ cmd'.arg = arg
        /\ status' \in {"running", "ok"} => queue' = txs /\ ok
    BY <1>3 DEF Commanded
  <2>2. status' \in {"running", "ok"} => SaleLeft(op, arg, txs)'
    BY <1>3, <2>1 DEF SaleLeft
  <2> QED BY <1>0, <2>1, <2>2 DEF SaleDone, SaleFull, SaleLeft
<1> QED BY Zenon, <1>0, <1>1, <1>2, <1>3, SaleMoves

\* No refund, no escrow to close, no fee is left when the command ends well.
LEMMA SaleDoneEnds == Idle /\ SaleDone => PS!OkMeansDone
BY PendingNone DEF Idle, SaleDone, SaleLeft, PS!OkMeansDone, PS!S!Succeeded

-----------------------------------------------------------------------------
(* DammV2Positions *)

\* The transaction asks for all the position has that is not locked for good.
PosAsks(c, k, t) ==
    /\ k \in V2!Keys(c) /\ t.kind = "remove" /\ t.key = k
    /\ t.amount = V2!Pos(c, k).unl + V2!Pos(c, k).vest

PosDrained(c, k) == k \in V2!Keys(c) => V2!Pos(c, k).unl = 0 /\ V2!Pos(c, k).vest = 0

PosGone(c, k) == k \in V2!Keys(c) => V2!Pos(c, k).perm > 0

\* Of a removal that is sent, with nobody else about: it asks for everything, then nothing is
\* left that is not locked, then the position is closed at last, if nothing is locked in it.
PosDone ==
    ~cmd.dry /\ ~cmd.moved =>
        /\ status = "running" /\ cmd.op = "remove" => PosAsks(chain, cmd.arg.key, Head(queue))
        /\ status = "resumed" /\ cmd.op = "remove" => PosDrained(chain, cmd.arg.key)
        /\ status = "running" /\ cmd.op = "removed" =>
              \E t \in Pending(queue) : t = [kind |-> "close", key |-> cmd.arg.key]
        /\ status = "ok" /\ cmd.op = "removed" => PosGone(chain, cmd.arg.key)

\* A removal of everything that is accepted leaves nothing that is not locked.
LEMMA PosRemoved ==
    ASSUME NEW n \in Nat, NEW c \in PosRecord(n), OneByKey(c), NEW t \in PosTx(n), NEW k,
           PosAsks(c, k, t), V2!Accepts(c, t)
    PROVE  PosDrained(V2!Effect(c, t), k)
<1> DEFINE p == V2!Pos(c, k)
           all == p.unl + (IF c.ripe THEN p.vest ELSE 0)
           unl == all - t.amount
           vest == IF c.ripe THEN 0 ELSE p.vest
           q == [p EXCEPT !.unl = unl, !.vest = vest]
           tokens == c.tokens + t.amount
           e == [c EXCEPT !.tokens = tokens]
           d == V2!Change(e, p, {q})
<1>1. p \in c.pos /\ p \in PosSet(n) /\ p.key = k /\ p.unl \in Nat /\ p.vest \in Nat
  BY PosOf DEF PosAsks, PosSet
<1>2. t.amount = p.unl + p.vest /\ t.amount <= all /\ t.kind = "remove" /\ t.key = k
  BY DEF PosAsks, V2!Accepts
<1>3. V2!Effect(c, t) = d
  BY Zenon, <1>1, <1>2 DEF V2!Effect, PosSet
<1>4. unl = 0 /\ vest = 0 /\ tokens \in Nat
  <2>1. c.tokens \in Nat
    BY DEF PosRecord
  <2> HIDE DEF p
  <2> QED BY <1>1, <1>2, <2>1
<1> HIDE DEF p, all, tokens
<1>5. e \in PosRecord(n) /\ e.pos = c.pos
  <2>1. tokens \in Nat
    BY <1>4
  <2> QED BY <2>1 DEF PosRecord
<1> HIDE DEF unl, vest
<1>6. q \in PosSet(n) /\ q.key = k /\ q.unl = unl /\ q.vest = vest
  BY <1>1, <1>4 DEF PosSet
<1> HIDE DEF q, e
<1>7. OneByKey(e)
  BY <1>5 DEF OneByKey
<1>8. d \in PosRecord(n) /\ OneByKey(d) /\ d.pos = (e.pos \ {p}) \union {q}
  BY <1>1, <1>5, <1>6, <1>7, PosReplace
<1> HIDE DEF d
<1>9. ASSUME k \in V2!Keys(d) PROVE V2!Pos(d, k) = q
  <2>1. q \in d.pos /\ q.key = k
    BY <1>6, <1>8
  <2> QED BY <1>8, <1>9, <2>1, PosOf
<1> QED BY <1>3, <1>4, <1>6, <1>9 DEF PosDrained

\* A position that is closed is gone.
LEMMA PosClosed ==
    ASSUME NEW n \in Nat, NEW c \in PosRecord(n), OneByKey(c), NEW k,
           V2!Accepts(c, [kind |-> "close", key |-> k])
    PROVE  k \notin V2!Keys(V2!Effect(c, [kind |-> "close", key |-> k]))
<1> DEFINE p == V2!Pos(c, k)
           d == V2!Change(c, p, {})
<1>1. k \in V2!Keys(c)
  BY DEF V2!Accepts
<1>2. p \in c.pos /\ \A q \in c.pos : q.key = k => q = p
  BY <1>1, PosOf
<1>3. V2!Effect(c, [kind |-> "close", key |-> k]) = d
  BY DEF V2!Effect
<1> HIDE DEF p
<1>4. d.pos = c.pos \ {p}
  BY DEF V2!Change, PosRecord
<1> HIDE DEF d
<1> QED BY <1>2, <1>3, <1>4 DEF V2!Keys

\* What goes on after a removal closes the position last, unless something is left in it.
LEMMA PosGoesOn ==
    ASSUME NEW k
    PROVE  \E t \in Pending(V2!CloseTxs(k)) : t = [kind |-> "close", key |-> k]
<1> DEFINE t == [kind |-> "claim", key |-> k]
           u == [kind |-> "close", key |-> k]
<1>1. V2!CloseTxs(k) \in {<<t>> \o <<u>>, <<>> \o <<u>>}
  BY DEF V2!CloseTxs
<1> HIDE DEF t
<1>2. u = [kind |-> "close", key |-> k]
  OBVIOUS
<1> HIDE DEF u
<1>3. <<t>> \o <<u>> = <<t, u>> /\ <<>> \o <<u>> = <<u>>
  <2>1. <<u>> \in Seq({u})
    OBVIOUS
  <2> QED BY <2>1, Joined, ConcatEmptySeq
<1>4. u \in Pending(<<t, u>>) /\ u \in Pending(<<u>>)
  <2>1. 2 \in DOMAIN <<t, u>> /\ <<t, u>>[2] = u /\ 1 \in DOMAIN <<u>> /\ <<u>>[1] = u
    OBVIOUS
  <2> QED BY <2>1 DEF Pending
<1> QED BY <1>1, <1>2, <1>3, <1>4

\* A removal goes on: its position was read, or the run ends.
PosMore(ok) == Resumed("removed", cmd.arg, ok,
                       IF cmd.arg.key \in V2!Keys(chain) /\ V2!Empty(V2!Pos(chain, cmd.arg.key))
                       THEN V2!CloseTxs(cmd.arg.key) ELSE <<>>)

\* What the position commands and the others do.
LEMMA PosMoves ==
    ASSUME PosInv, V2!Next
    PROVE  \/ Steps(V2!Accepts, V2!Effect, V2!Resumes, V2!Forgives)
           \/ \E c : Moved(c)
           \/ \E op, arg, ok, txs :
                 /\ Commanded(op, arg, ok, txs) /\ op # "removed"
                 /\ op = "remove" /\ ok /\ txs # <<>> => PosAsks(chain, arg.key, Head(txs))
           \/ \E ok \in BOOLEAN : Resumed("added", cmd.arg, ok, <<>>)
           \/ \E ok \in BOOLEAN : cmd.op = "remove" /\ PosMore(ok)
<1> DEFINE Made == \E op, arg, ok, txs :
                      /\ Commanded(op, arg, ok, txs) /\ op # "removed"
                      /\ op = "remove" /\ ok /\ txs # <<>> => PosAsks(chain, arg.key, Head(txs))
           World == \E c : Moved(c)
           More == \E ok \in BOOLEAN : cmd.op = "remove" /\ PosMore(ok)
           Ends == \E ok \in BOOLEAN : Resumed("added", cmd.arg, ok, <<>>)
<1>1. CASE V2!S!Step
  BY <1>1, PosSteps
<1>2. ASSUME V2!PriceMoves \/ V2!Ripens \/ V2!FeesAccrue PROVE World
  BY Zenon, <1>2 DEF V2!PriceMoves, V2!Ripens, V2!FeesAccrue, V2!S!World, Moved
<1>3. ASSUME V2!RemoveGoesOn PROVE More
  BY Zenon, <1>3 DEF V2!RemoveGoesOn, V2!S!Resume, Resumed, PosMore
<1>3a. ASSUME V2!AddGoesOn PROVE Ends
  BY Zenon, <1>3a DEF V2!AddGoesOn, V2!S!Resume, Resumed
<1>4. ASSUME NEW op, op \notin {"remove", "removed"}, NEW arg, NEW ok, NEW txs,
             V2!S!Command(op, arg, ok, txs)
      PROVE  Made
  <2>1. Commanded(op, arg, ok, txs) /\ op # "removed" /\ op # "remove"
    BY Zenon, <1>4 DEF V2!S!Command, V2!S!Busy, Commanded
  <2> QED BY Zenon, <2>1
<1> HIDE DEF Made, World, More, Ends
<1>5. ASSUME NEW ok, NEW d \in Deposits, V2!CreatePool(ok, d) PROVE Made
  BY <1>4, <1>5 DEF V2!CreatePool
<1>6. ASSUME NEW k, NEW parts, NEW own, V2!SplitPosition(k, parts, own) PROVE Made
  <2>1. \E arg, ok, txs : V2!S!Command("split", arg, ok, txs)
    BY Zenon, <1>6 DEF V2!SplitPosition, V2!OnPosition
  <2>2. "split" \notin {"remove", "removed"}
    OBVIOUS
  <2> QED BY Zenon, <1>4, <2>1, <2>2
<1>7. ASSUME NEW k, V2!ClaimPositionFee(k) PROVE Made
  BY <1>4, <1>7 DEF V2!ClaimPositionFee, V2!OnPosition
<1>8. ASSUME NEW k, V2!RefreshVesting(k) PROVE Made
  BY <1>4, <1>8 DEF V2!RefreshVesting, V2!OnPosition
<1>9. ASSUME NEW k, V2!AddLiquidity(k) PROVE Made
  BY <1>4, <1>9 DEF V2!AddLiquidity, V2!OnPosition
<1>10. ASSUME NEW k, V2!ClosePosition(k) PROVE Made
  BY <1>4, <1>10 DEF V2!ClosePosition, V2!OnPosition
<1>11. ASSUME NEW k \in 1..MaxRuns, NEW configured \in BOOLEAN,
              V2!RemoveLiquidity(k, configured)
       PROVE  Made
  <2> DEFINE r == V2!Removable(k)
             t == [kind |-> "remove", key |-> k, amount |-> r, price |-> chain.price]
             arg == [key |-> k, some |-> k \in V2!Keys(chain) /\ r > 0,
                     unripe |-> k \in V2!Keys(chain) /\ ~chain.ripe
                                /\ V2!Pos(chain, k).vest > 0]
             due == k \in V2!Keys(chain) /\ r > 0
             txs == IF k \in V2!Keys(chain) THEN (IF due THEN <<t>> ELSE <<>>) ELSE <<>>
             ok == chain.pool /\ configured
  <2>1. Commanded("remove", arg, ok, txs)
    BY Zenon, <1>11 DEF V2!RemoveLiquidity, V2!OnPosition, V2!S!Command, V2!S!Busy, Commanded
  <2>2. arg.key = k
    OBVIOUS
  <2>3. k \in V2!Keys(chain) => PosAsks(chain, k, t)
    BY DEF PosAsks, V2!Removable
  <2>4. txs \in {<<>>, <<t>>} /\ (txs # <<>> => k \in V2!Keys(chain))
    OBVIOUS
  <2> HIDE DEF t, arg, txs, ok, due
  <2>5. txs # <<>> => PosAsks(chain, arg.key, Head(txs))
    BY <2>2, <2>3, <2>4
  <2>6. "remove" # "removed"
    OBVIOUS
  <2> QED BY Zenon, <2>1, <2>5, <2>6 DEF Made
<1>12. ASSUME NEW configured, NEW d \in Deposits, NEW compounding,
              V2!CreateDammV2OneSidedPool(configured, compounding, d)
       PROVE  Made
  BY Zenon, <1>5, <1>12 DEF V2!CreateDammV2OneSidedPool
<1>13. ASSUME NEW configured, NEW d \in Deposits, V2!CreateDammV2BalancedPool(configured, d)
       PROVE  Made
  BY Zenon, <1>5, <1>13 DEF V2!CreateDammV2BalancedPool
<1> QED BY Zenon, <1>1, <1>2, <1>3, <1>3a, <1>6, <1>7, <1>8, <1>9, <1>10, <1>11, <1>12, <1>13
    DEF V2!Next, Made, World, More, Ends

\* It holds before the first command.
LEMMA PosDoneInit == ASSUME V2!Init PROVE PosDone
BY DEF V2!Init, V2!S!Begin, PosDone

\* Every position command and every step of others keeps it.
LEMMA PosDoneStep == ASSUME PosInv, PosDone, V2!Next PROVE PosDone'
<1>0. PICK n \in Nat : n = cmd.n
  BY DEF PosInv, Typed, CmdInv
<1>1. /\ Typed(PosTx(n), PosRecord(n)) /\ CmdInv /\ chain \in PosRecord(n) /\ OneByKey(chain)
      /\ PosLone
  BY <1>0 DEF PosInv, PosFresh, Typed
<1>2. CASE Steps(V2!Accepts, V2!Effect, V2!Resumes, V2!Forgives)
  <2>1. ASSUME Takes(V2!Resumes), V2!Accepts(chain, Head(queue)), ~cmd.dry,
               chain' = V2!Effect(chain, Head(queue)), ~cmd.moved
        PROVE  PosDone'
    <3> DEFINE t == Head(queue)
               k == cmd.arg.key
    <3>1. /\ queue \in Seq(PosTx(n)) /\ queue # <<>> /\ queue' = Tail(queue) /\ cmd' = cmd
          /\ t \in PosTx(n) /\ status = "running"
          /\ status' = IF Len(queue) > 1 THEN "running"
                       ELSE IF cmd.op \in {"add", "remove"} THEN "resumed" ELSE "ok"
      BY <1>1, <2>1, TypedHead DEF Takes, Typed, V2!Resumes
    <3>2. PosAlone
      BY <1>1, <2>1, <3>1 DEF PosLone
    <3>3. CASE cmd.op = "remove"
      <4>1. Len(queue) = 1
        BY <3>2, <3>3 DEF PosAlone
      <4>2. PosAsks(chain, k, t)
        BY <2>1, <3>1, <3>3 DEF PosDone
      <4> HIDE DEF t, k
      <4>3. PosDrained(chain', k)
        BY <1>1, <2>1, <3>1, <4>2, PosRemoved DEF t
      <4> QED BY <3>1, <3>3, <4>1, <4>3 DEF PosDone, k
    <3>4. CASE cmd.op = "removed"
      <4> DEFINE u == [kind |-> "close", key |-> k]
      <4>1. u \in Pending(queue)
        BY <2>1, <3>1, <3>4 DEF PosDone
      <4>2. CASE Len(queue) > 1
        <5>1. queue[1] = [kind |-> "claim", key |-> k]
          <6>1. Len(queue) # 1
            BY <3>1, <4>2
          <6> QED BY <3>2, <6>1, Zenon DEF PosAlone
        <5>2. t = queue[1]
          BY <3>1, QueueRest, Zenon
        <5>3. u \in Pending(queue')
          <6>1. t # u
            BY <5>1, <5>2
          <6> HIDE DEF u
          <6>2. Pending(queue) = {t} \union Pending(Tail(queue))
            BY <3>1, PendingTail
          <6> QED BY <3>1, <4>1, <6>1, <6>2
        <5> QED BY <3>1, <3>4, <4>2, <5>3 DEF PosDone
      <4>3. CASE ~(Len(queue) > 1)
        <5>1. Len(queue) = 1 /\ DOMAIN queue = {1} /\ queue[1] = t
          <6>1. Len(queue) \in Nat /\ DOMAIN queue = 1..Len(queue) /\ Len(queue) # 0
                /\ t = queue[1]
            BY <3>1
          <6> QED BY <4>3, <6>1
        <5>2. t = u
          BY <4>1, <5>1 DEF Pending
        <5> HIDE DEF t, k
        <5>3. k \notin V2!Keys(chain')
          BY <1>1, <2>1, <3>1, <5>2, PosClosed DEF t
        <5> QED BY <3>1, <3>4, <5>1, <5>3 DEF PosDone, PosGone, k
      <4> QED BY <4>2, <4>3
    <3>5. CASE cmd.op \notin {"remove", "removed"}
      BY <3>1, <3>5 DEF PosDone
    <3> QED BY <3>3, <3>4, <3>5
  <2>2. ASSUME NEW l \in late, cmd' = [cmd EXCEPT !.moved = TRUE] PROVE PosDone'
    BY <1>1, <2>2 DEF PosDone, CmdInv
  <2>3. ASSUME cmd.dry \/ cmd.moved, Takes(V2!Resumes) PROVE PosDone'
    BY <2>3 DEF Takes, PosDone
  <2>4. ASSUME \/ Stops(V2!Accepts(chain, Head(queue)), V2!Forgives)
               \/ Commanded("unready", "none", FALSE, <<>>)
        PROVE  PosDone'
    BY <2>4 DEF Stops, Commanded, PosDone
  <2>5. ASSUME NEW l \in late, Late(l), UNCHANGED <<chain, cmd>> PROVE PosDone'
    BY <2>5 DEF Late, PosDone
  <2> QED BY Zenon, <1>2, <2>1, <2>2, <2>3, <2>4, <2>5 DEF Steps
<1>3. ASSUME NEW c, Moved(c) PROVE PosDone'
  BY <1>1, <1>3 DEF Moved, PosDone, CmdInv
<1>4. ASSUME NEW op, NEW arg, NEW ok, NEW txs, Commanded(op, arg, ok, txs), op # "removed",
             op = "remove" /\ ok /\ txs # <<>> => PosAsks(chain, arg.key, Head(txs))
      PROVE  PosDone'
  <2>1. /\ chain' = chain /\ cmd'.op = op /\ cmd'.arg = arg
        /\ status' \in {"threw", "ok", "running"}
        /\ status' = "running" => queue' = txs /\ ok /\ txs # <<>>
    BY <1>4 DEF Commanded
  <2> QED BY <1>4, <2>1 DEF PosDone
<1>5. ASSUME NEW txs, NEW ok \in BOOLEAN, Resumed("removed", cmd.arg, ok, txs),
             cmd.op = "remove",
             txs = IF cmd.arg.key \in V2!Keys(chain) /\ V2!Empty(V2!Pos(chain, cmd.arg.key))
                   THEN V2!CloseTxs(cmd.arg.key) ELSE <<>>
      PROVE  PosDone'
  <2> DEFINE k == cmd.arg.key
             p == V2!Pos(chain, k)
  <2>1. /\ chain' = chain /\ cmd'.op = "removed" /\ cmd'.arg = cmd.arg /\ cmd'.dry = cmd.dry
        /\ cmd'.moved = cmd.moved /\ status = "resumed" /\ cmd.op = "remove"
        /\ status' \in {"threw", "ok", "running"}
        /\ status' = "running" => queue' = txs /\ txs # <<>>
        /\ status' = "ok" => txs = <<>>
    BY <1>1, <1>5 DEF Resumed, CmdInv
  <2>2. ASSUME ~cmd.dry, ~cmd.moved PROVE PosDrained(chain, k)
    BY <2>1, <2>2 DEF PosDone
  <2>3. CASE k \in V2!Keys(chain) /\ V2!Empty(p)
    <3>1. \E t \in Pending(txs) : t = [kind |-> "close", key |-> k]
      BY <1>5, <2>3, PosGoesOn
    <3>2. txs # <<>>
      BY <3>1, PendingNone
    <3> QED BY <2>1, <3>1, <3>2 DEF PosDone
  <2>4. CASE ~(k \in V2!Keys(chain) /\ V2!Empty(p))
    <3>1. txs = <<>>
      BY <1>5, <2>4
    <3>2. ASSUME ~cmd.dry, ~cmd.moved, k \in V2!Keys(chain) PROVE p.perm > 0
      <4>1. p.unl = 0 /\ p.vest = 0 /\ ~V2!Empty(p)
        BY <2>2, <2>4, <3>2 DEF PosDrained
      <4>2. p.perm \in Nat
        BY <1>1, <3>2, PosOf DEF PosSet
      <4> QED BY <4>1, <4>2 DEF V2!Empty
    <3> QED BY <2>1, <3>1, <3>2 DEF PosDone, PosGone
  <2> QED BY <2>3, <2>4
<1>6. PICK txs : txs = IF cmd.arg.key \in V2!Keys(chain) /\ V2!Empty(V2!Pos(chain, cmd.arg.key))
                   THEN V2!CloseTxs(cmd.arg.key) ELSE <<>>
  OBVIOUS
<1>7. ASSUME NEW ok \in BOOLEAN, Resumed("added", cmd.arg, ok, <<>>) PROVE PosDone'
  <2>1. cmd'.op = "added" /\ status' \in {"threw", "ok"}
    BY <1>1, <1>7 DEF Resumed, CmdInv
  <2> QED BY <2>1 DEF PosDone
<1> QED BY Zenon, <1>2, <1>3, <1>4, <1>5, <1>6, <1>7, PosMoves DEF PosMore

\* A removal that ends well leaves no position, or one that is locked for good.
LEMMA PosDoneEnds == PosDone => V2!OkMeansDone
BY DEF PosDone, PosGone, V2!OkMeansDone, V2!S!Succeeded

-----------------------------------------------------------------------------
(* DammV1: what the locks of a list have locked *)

\* The amount that fromAllocationsToAmount has for the wallet, by entry.
AmountsFor(lp, a, w) == PartOf(V1!FromAllocationsToAmount(lp, a), EntriesFor(a, w))

\* After the first k locks of a list the queue holds the others, and every wallet has, beside
\* what it had, its part of the k amounts.
LocksSent(a, lp, was, q, now, k) ==
    /\ k \in 0..Len(a) /\ Len(q) = Len(a) - k
    /\ \A i \in DOMAIN q : /\ q[i].kind = "lock" /\ q[i].to = a[i + k].to
                           /\ q[i].amount = V1!FromAllocationsToAmount(lp, a)[i + k]
    /\ \A w \in Wallets : now[w] = was[w] + Sums(AmountsFor(lp, a, w))[k]

\* A list that is not refused.
LockList(a, lp) == a \in Allocations /\ a # <<>> /\ V1!Splits(a) /\ lp \in Nat

\* g lists the amounts f of the entries for the wallet, and zero for the others.
IsPart(g, f, a, w) == /\ g \in [1..Len(a) -> Nat]
                      /\ \A i \in 1..Len(a) : g[i] = IF a[i].to = w THEN f[i] ELSE 0

\* What is for one wallet, as a list of numbers.
LEMMA AmountsType ==
    ASSUME NEW a, NEW lp, LockList(a, lp), NEW w
    PROVE  /\ Len(a) \in Nat \ {0} /\ DOMAIN a = 1..Len(a)
           /\ V1!FromAllocationsToAmount(lp, a) \in [1..Len(a) -> Nat]
           /\ IsPart(AmountsFor(lp, a, w), V1!FromAllocationsToAmount(lp, a), a, w)
<1> DEFINE f == V1!FromAllocationsToAmount(lp, a)
           n == Len(a)
<1>1. n \in Nat \ {0} /\ DOMAIN a = 1..n
  BY AllocationsType DEF LockList
<1>2. f \in [DOMAIN a -> Nat]
  BY Zenon, V1Amounts DEF LockList
<1> HIDE DEF f, n
<1>3. f \in [1..n -> Nat]
  BY <1>1, <1>2
<1>4. PartOf(f, EntriesFor(a, w)) \in [1..n -> Nat]
      /\ \A i \in 1..n : PartOf(f, EntriesFor(a, w))[i] = IF a[i].to = w THEN f[i] ELSE 0
  BY <1>1, <1>3 DEF PartOf, EntriesFor
<1> QED BY <1>1, <1>3, <1>4 DEF AmountsFor, IsPart, f, n

\* What a lock leaves of an account of the locked.
Added(f, t, w) == IF w = t.to THEN f[w] + t.amount ELSE f[w]

\* One more lock.
LEMMA LockTaken ==
    ASSUME NEW a, NEW lp, LockList(a, lp), NEW was \in [Wallets -> Int],
           NEW now \in [Wallets -> Int], NEW q \in Seq(V1Tx), q # <<>>,
           NEW k, LocksSent(a, lp, was, q, now, k),
           NEW then, \A w \in Wallets : then[w] = Added(now, Head(q), w)
    PROVE  LocksSent(a, lp, was, Tail(q), then, k + 1)
<1> DEFINE f == V1!FromAllocationsToAmount(lp, a)
           n == Len(a)
           p == Tail(q)
<1>1. /\ n \in Nat \ {0} /\ f \in [1..n -> Nat]
      /\ \A w : IsPart(AmountsFor(lp, a, w), f, a, w)
  BY Zenon, AmountsType
<1>2. /\ k \in 0..n /\ Len(q) = n - k
      /\ \A i \in DOMAIN q : /\ q[i].kind = "lock" /\ q[i].to = a[i + k].to
                             /\ q[i].amount = f[i + k]
      /\ \A w \in Wallets : now[w] = was[w] + Sums(AmountsFor(lp, a, w))[k]
  BY DEF LocksSent
<1>3. /\ \A i \in DOMAIN p : p[i] = q[i + 1] /\ i + 1 \in DOMAIN q
      /\ Head(q) = q[1] /\ 1 \in DOMAIN q
  BY QueueRest
<1>4. Len(p) = Len(q) - 1 /\ DOMAIN p = 1..Len(p) /\ Len(p) \in Nat /\ Len(q) \in Nat
  <2>1. p \in Seq(V1Tx) /\ Len(p) = Len(q) - 1 /\ Len(q) \in Nat
    BY HeadTailProperties
  <2> HIDE DEF p
  <2> QED BY <2>1
<1> HIDE DEF f, n, p
<1>5. /\ k \in 0..n /\ k < n /\ k + 1 \in 0..n /\ k + 1 \in 1..n /\ Len(p) = n - (k + 1)
      /\ 1 + k = k + 1
  BY <1>1, <1>2, <1>4
<1>6. \A i \in DOMAIN p : (i + 1) + k = i + (k + 1)
  BY <1>4, <1>5
<1>7. \A i \in DOMAIN p : /\ p[i].kind = "lock" /\ p[i].to = a[i + (k + 1)].to
                          /\ p[i].amount = f[i + (k + 1)]
  <2>1. ASSUME NEW i \in DOMAIN p
        PROVE  /\ p[i].kind = "lock" /\ p[i].to = a[i + (k + 1)].to
               /\ p[i].amount = f[i + (k + 1)]
    <3>1. i + 1 \in DOMAIN q /\ p[i] = q[i + 1] /\ (i + 1) + k = i + (k + 1)
      BY Zenon, <1>3, <1>6, <2>1
    <3>2. /\ q[i + 1].kind = "lock" /\ q[i + 1].to = a[(i + 1) + k].to
          /\ q[i + 1].amount = f[(i + 1) + k]
      BY Zenon, <1>2, <3>1
    <3> QED BY Zenon, <3>1, <3>2
  <2> QED BY Zenon, <2>1
<1>8. Head(q).to = a[k + 1].to /\ Head(q).amount = f[k + 1]
  <2>1. q[1].to = a[1 + k].to /\ q[1].amount = f[1 + k]
    BY Zenon, <1>2, <1>3
  <2> QED BY Zenon, <1>3, <1>5, <2>1
<1>9. ASSUME NEW w \in Wallets
      PROVE  then[w] = was[w] + Sums(AmountsFor(lp, a, w))[k + 1]
  <2> DEFINE g == AmountsFor(lp, a, w)
             before == Sums(g)[k]
             after == Sums(g)[k + 1]
             one == g[k + 1]
  <2>1. /\ g \in [1..n -> Nat]
        /\ \A i \in 1..n : g[i] = IF a[i].to = w THEN f[i] ELSE 0
    BY <1>1 DEF IsPart, n
  <2>2. one = IF a[k + 1].to = w THEN f[k + 1] ELSE 0
    BY Zenon, <1>5, <2>1
  <2> HIDE DEF g
  <2>3. after = before + one /\ before \in Nat /\ one \in Nat
    <3>1. /\ \A i \in 0..n : Sums(g)[i] \in Nat
          /\ \A i \in 0..n : i < n => i + 1 \in 0..n /\ Sums(g)[i + 1] = Sums(g)[i] + g[i + 1]
      BY Zenon, <1>1, <2>1, SumsOn
    <3>2. one \in Nat
      BY <1>5, <2>1
    <3> QED BY <1>5, <3>1, <3>2
  <2>4. now[w] = was[w] + before /\ was[w] \in Int /\ now[w] \in Int
    BY <1>2 DEF g
  <2>5. then[w] = IF w = a[k + 1].to THEN now[w] + f[k + 1] ELSE now[w]
    BY <1>8 DEF Added
  <2>6. then[w] = now[w] + one
    BY <2>2, <2>4, <2>5
  <2> DEFINE x == was[w]
  <2> HIDE DEF before, after, one, x
  <2>7. now[w] = x + before /\ x \in Int
    BY Zenon, <2>4 DEF x
  <2>8. (x + before) + one = x + (before + one)
    BY <2>3, <2>7
  <2> QED BY Zenon, <2>3, <2>6, <2>7, <2>8 DEF after, x, g
<1> QED BY Zenon, <1>5, <1>7, <1>9 DEF LocksSent, f, n, p

\* The transactions of a list, before the first of them.
LEMMA LocksBegin ==
    ASSUME NEW a, NEW lp, LockList(a, lp), NEW was \in [Wallets -> Int]
    PROVE  LocksSent(a, lp, was, V1!LockTxs(lp, a), was, 0)
<1> DEFINE f == V1!FromAllocationsToAmount(lp, a)
           n == Len(a)
           tx(i) == [kind |-> "lock", to |-> a[i].to, amount |-> f[i]]
           q == V1!LockTxs(lp, a)
<1>1. n \in Nat /\ DOMAIN a = 1..n
  BY AmountsType
<1>2. q = [i \in DOMAIN a |-> tx(i)]
  BY DEF V1!LockTxs
<1>3. \A i : tx(i).kind = "lock" /\ tx(i).to = a[i].to /\ tx(i).amount = f[i]
  OBVIOUS
<1> HIDE DEF tx, q, n
<1>4. DOMAIN q = 1..n /\ Len(q) = n /\ \A i \in DOMAIN q : q[i] = tx(i)
  BY <1>1, <1>2
<1>5. n - 0 = n /\ 0 \in 0..n /\ \A i \in DOMAIN q : i + 0 = i
  BY <1>1, <1>4
<1>6. ASSUME NEW w \in Wallets PROVE was[w] = was[w] + Sums(AmountsFor(lp, a, w))[0]
  <2>1. Sums(AmountsFor(lp, a, w))[0] = 0
    <3>1. AmountsFor(lp, a, w) \in [1..n -> Nat]
      BY Zenon, AmountsType DEF IsPart, n
    <3> QED BY Zenon, <1>1, <3>1, SumsOn
  <2>2. was[w] \in Int
    OBVIOUS
  <2> QED BY <2>1, <2>2
<1>7. \A i \in DOMAIN q : q[i].kind = "lock" /\ q[i].to = a[i + 0].to /\ q[i].amount = f[i + 0]
  BY <1>3, <1>4, <1>5
<1> HIDE DEF f
<1> QED BY <1>4, <1>5, <1>6, <1>7 DEF LocksSent, f, q, n

\* A lock that goes on or ended well: its list was not refused, and unless others changed the
\* chain, some number of its transactions has been sent.
LockDone ==
    cmd.op = "lock" /\ ~cmd.dry /\ status \in {"running", "ok"} =>
        /\ LockList(cmd.arg.list, cmd.arg.lp) /\ cmd.arg.locked \in [Wallets -> Int]
        /\ \/ cmd.moved
           \/ \E k : LocksSent(cmd.arg.list, cmd.arg.lp, cmd.arg.locked, queue, chain.locked, k)

\* A lock command, of a list that passes its checks.
LocksList(a) ==
    \E ok : /\ ok => a # <<>> /\ V1!Splits(a)
            /\ Commanded("lock", V1!Memory(a), ok, V1!LockTxs(chain.lp, a))

\* What the DAMM v1 commands and the others do.
LEMMA LockMoves ==
    ASSUME V1!Next
    PROVE  \/ Steps(V1!Accepts, V1!Effect, V1!Resumes, V1!Forgives)
           \/ \E c : Moved(c)
           \/ \E a \in Allocations : LocksList(a)
           \/ \E op, arg, ok, txs : op # "lock" /\ Commanded(op, arg, ok, txs)
<1>1. CASE V1!S!Step
  BY <1>1, V1Steps
<1>2. CASE V1!Tick
  BY Zenon, <1>2 DEF V1!Tick, V1!S!World, Moved
<1>3. CASE V1!CreateDammV1Pool \/ V1!CreateFarm
  <2>1. PICK op, arg, ok, txs : op # "lock" /\ V1!S!Command(op, arg, ok, txs)
    BY <1>3 DEF V1!CreateDammV1Pool, V1!CreateFarm
  <2>2. Commanded(op, arg, ok, txs)
    BY Zenon, <2>1 DEF V1!S!Command, V1!S!Busy, Commanded
  <2> QED BY Zenon, <2>1, <2>2
<1>4. ASSUME NEW a \in Allocations, V1!LockLiquidity(a) \/ V1!LockLiquidityStake2Earn(a)
      PROVE  LocksList(a)
  <2>1. PICK ok : /\ ok => a # <<>> /\ V1!Splits(a)
                  /\ V1!S!Command("lock", V1!Memory(a), ok, V1!LockTxs(chain.lp, a))
    BY Zenon, <1>4 DEF V1!LockLiquidity, V1!LockLiquidityStake2Earn
  <2>2. Commanded("lock", V1!Memory(a), ok, V1!LockTxs(chain.lp, a))
    BY Zenon, <2>1 DEF V1!S!Command, V1!S!Busy, Commanded
  <2> QED BY Zenon, <2>1, <2>2 DEF LocksList
<1> QED BY Zenon, <1>1, <1>2, <1>3, <1>4 DEF V1!Next

\* What a lock adds, by wallet.
LEMMA SplitLands ==
    ASSUME NEW c \in V1Chain, NEW t \in V1Tx, t.kind = "lock", NEW w \in Wallets
    PROVE  V1!Effect(c, t).locked[w] = Added(c.locked, t, w)
<1> DEFINE v == c.lp - t.amount
           l == [c.locked EXCEPT ![t.to] = c.locked[t.to] + t.amount]
           d == V1!Effect(c, t)
<1>1. c.locked \in [Wallets -> Int]
  BY DEF V1Chain
<1>2. d = [c EXCEPT !.lp = v, !.locked = l]
  BY DEF V1!Effect
<1>3. l[w] = Added(c.locked, t, w)
  BY <1>1 DEF Added
<1> HIDE DEF d, v, l
<1>4. d.locked = l
  BY <1>2 DEF V1Chain
<1> QED BY Zenon, <1>3, <1>4 DEF d

\* It holds before the first command.
LEMMA LockDoneInit == ASSUME V1!Init PROVE LockDone
BY DEF V1!Init, V1!S!Begin, V1!S!NoCommand, LockDone

\* Every DAMM v1 command and every step of others keeps it.
LEMMA LockDoneStep == ASSUME V1Inv, LockDone, V1!Next PROVE LockDone'
<1>0. /\ Typed(V1Tx, V1Chain) /\ CmdInv /\ chain \in V1Chain
      /\ chain.locked \in [Wallets -> Int] /\ chain.lp \in Nat
  BY DEF V1Inv, Typed, V1Chain
<1>1. CASE Steps(V1!Accepts, V1!Effect, V1!Resumes, V1!Forgives)
  <2>1. ASSUME Takes(V1!Resumes), chain' = V1!Effect(chain, Head(queue)) PROVE LockDone'
    <3>1. /\ queue \in Seq(V1Tx) /\ queue # <<>> /\ queue' = Tail(queue) /\ cmd' = cmd
          /\ Head(queue) \in V1Tx /\ status = "running"
      BY <1>0, <2>1, TypedHead DEF Takes, Typed
    <3>2. SUFFICES ASSUME LockList(cmd.arg.list, cmd.arg.lp),
                          cmd.arg.locked \in [Wallets -> Int],
                          NEW k,
                          LocksSent(cmd.arg.list, cmd.arg.lp, cmd.arg.locked, queue,
                                    chain.locked, k)
                   PROVE  LocksSent(cmd.arg.list, cmd.arg.lp, cmd.arg.locked, queue',
                                    chain'.locked, k + 1)
      BY Zenon, <3>1 DEF LockDone
    <3>3. Head(queue).kind = "lock"
      <4>1. Head(queue) = queue[1] /\ 1 \in DOMAIN queue
        BY <3>1, QueueRest
      <4> QED BY <4>1, <3>2 DEF LocksSent
    <3>4. \A w \in Wallets : chain'.locked[w] = Added(chain.locked, Head(queue), w)
      <4> TAKE w \in Wallets
      <4> DEFINE d == V1!Effect(chain, Head(queue))
      <4>1. d.locked[w] = Added(chain.locked, Head(queue), w)
        BY Zenon, <1>0, <3>1, <3>3, SplitLands
      <4> QED BY Zenon, <2>1, <4>1
    <3> QED BY <1>0, <3>1, <3>2, <3>4, LockTaken
  <2>2. ASSUME NEW l \in late, cmd' = [cmd EXCEPT !.moved = TRUE], Late(l) PROVE LockDone'
    BY <1>0, <2>2 DEF Late, CmdInv, LockDone
  <2>3. ASSUME \/ cmd.dry /\ chain' = chain /\ Takes(V1!Resumes)
               \/ Stops(V1!Accepts(chain, Head(queue)), V1!Forgives)
               \/ Commanded("unready", "none", FALSE, <<>>)
               \/ \E l \in late : Late(l) /\ UNCHANGED <<chain, cmd>>
        PROVE  LockDone'
    BY <1>0, <2>3 DEF Takes, Stops, Commanded, Late, LockDone
  <2> QED BY Zenon, <1>1, <2>1, <2>2, <2>3 DEF Steps
<1>2. ASSUME NEW c, Moved(c) PROVE LockDone'
  BY <1>0, <1>2 DEF Moved, CmdInv, LockDone
<1>3. ASSUME NEW a \in Allocations, LocksList(a) PROVE LockDone'
  <2> DEFINE arg == V1!Memory(a)
             txs == V1!LockTxs(chain.lp, a)
  <2>1. PICK ok : (ok => a # <<>> /\ V1!Splits(a)) /\ Commanded("lock", arg, ok, txs)
    BY Zenon, <1>3 DEF LocksList
  <2>2. arg.list = a /\ arg.lp = chain.lp /\ arg.locked = chain.locked
    BY DEF V1!Memory
  <2> HIDE DEF arg
  <2>3. SUFFICES ASSUME ok
                 PROVE  LockList(a, chain.lp) /\ LocksSent(a, chain.lp, chain.locked, txs,
                                                           chain.locked, 0)
    BY <1>0, <2>1, <2>2 DEF Commanded, LockDone
  <2>4. LockList(a, chain.lp)
    BY <1>0, <2>1, <2>3 DEF LockList
  <2> QED BY <1>0, <2>4, LocksBegin
<1>4. ASSUME NEW op, op # "lock", NEW arg, NEW ok, NEW txs, Commanded(op, arg, ok, txs)
      PROVE  LockDone'
  BY <1>4 DEF Commanded, LockDone
<1> QED BY Zenon, <1>1, <1>2, <1>3, <1>4, LockMoves

\* Nothing is pending of a DAMM v1 command that has ended.
LEMMA LockIdle ==
    ASSUME V1Inv, Idle, V1!Next PROVE Idle'
<1>1. AnyMove
  BY Zenon, LockMoves DEF Steps, AnyMove, Late, Moved, LocksList
<1>2. Typed(V1Tx, V1Chain)
  BY DEF V1Inv
<1> QED BY <1>1, <1>2, IdleStays

\* A stuttering step.
LEMMA LockDoneStays ==
    ASSUME LockDone, UNCHANGED <<chain, cmd, queue, late, status>> PROVE LockDone'
BY DEF LockDone

\* What all locks of a list add is each wallet's part of the LP tokens.
LEMMA LocksEnd ==
    ASSUME NEW a, NEW lp, LockList(a, lp), NEW was \in [Wallets -> Int], NEW now, NEW k,
           LocksSent(a, lp, was, <<>>, now, k), NEW w \in Wallets,
           \A i \in DOMAIN a : a[i].tenths % 10 = 0
    PROVE  LET sum == V1!SumTenths(a)
               n   == Len(a) * sum
           IN  (now[w] - was[w]) * sum - lp * V1!SumOf(PartOf(TenthsIn(a), EntriesFor(a, w)))
                  \in (-n)..n
<1> DEFINE sum == V1!SumTenths(a)
           n == Len(a)
           g == AmountsFor(lp, a, w)
           X == V1!SumOf(g)
           T == V1!SumOf(PartOf(TenthsIn(a), EntriesFor(a, w)))
<1>1. n \in Nat /\ g \in [1..n -> Nat]
  BY AmountsType DEF IsPart
<1>2. k = n
  <2>1. Len(<<>>) = 0
    OBVIOUS
  <2>2. k \in 0..n /\ 0 = n - k
    BY <2>1 DEF LocksSent
  <2> HIDE DEF n, g
  <2> QED BY <1>1, <2>2
<1> HIDE DEF g, n
<1>3. X = Sums(g)[n] /\ X \in Nat
  <2>1. V1!SumOf(g) = Sums(g)[n] /\ \A i \in 0..n : Sums(g)[i] \in Nat
    BY Zenon, <1>1, SumsOn
  <2>2. n \in 0..n
    BY <1>1
  <2> QED BY Zenon, <2>1, <2>2
<1>4. now[w] = was[w] + X /\ was[w] \in Int
  BY <1>2, <1>3 DEF LocksSent, g
<1>5. Off(lp, sum, X, T) \in (-(n * sum))..(n * sum)
  BY SplitIsFair DEF LockList, g, n, AmountsFor
<1> DEFINE x == was[w]
           y == now[w]
<1>6. y = x + X /\ x \in Int
  BY <1>4
<1> HIDE DEF X, T, sum, x, y
<1>7. y - x = X
  BY <1>3, <1>6
<1> QED BY Zenon, <1>5, <1>7 DEF Off, sum, n, T, x, y

\* A lock that ends well has sent all of its list.
LEMMA LockDoneEnds == ASSUME V1Inv, Idle, LockDone PROVE V1!LockedByShare
<1> SUFFICES ASSUME V1!S!Succeeded("lock"), V1!WholePercents
             PROVE  /\ V1!SumOf(V1!FromAllocationsToAmount(cmd.arg.lp, cmd.arg.list)) = cmd.arg.lp
                    /\ \A w \in Wallets :
                          LET sum == V1!SumTenths(cmd.arg.list)
                              n   == Len(cmd.arg.list) * sum
                          IN  \/ cmd.moved
                              \/ V1!Gained(w) * sum - cmd.arg.lp * V1!TenthsOf(w) \in (-n)..n
  BY Zenon DEF V1!LockedByShare
<1> DEFINE a == cmd.arg.list
           lp == cmd.arg.lp
           was == cmd.arg.locked
           now == chain.locked
<1>1. /\ LockList(a, lp) /\ was \in [Wallets -> Int]
      /\ cmd.moved \/ \E k : LocksSent(a, lp, was, <<>>, now, k)
      /\ \A i \in DOMAIN a : a[i].tenths % 10 = 0
  BY DEF V1!S!Succeeded, V1!WholePercents, LockDone, Idle
<1>2. \A w : V1!TenthsOf(w) = V1!SumOf(PartOf(TenthsIn(a), EntriesFor(a, w)))
             /\ V1!Gained(w) = now[w] - was[w]
  <2>1. ASSUME NEW w PROVE /\ V1!TenthsOf(w) = V1!SumOf(PartOf(TenthsIn(a), EntriesFor(a, w)))
                           /\ V1!Gained(w) = now[w] - was[w]
    <3> DEFINE p == PartOf(TenthsIn(a), EntriesFor(a, w))
               q == [i \in DOMAIN a |-> IF a[i].to = w THEN a[i].tenths ELSE 0]
    <3>1. p = q
      BY DEF PartOf, TenthsIn, EntriesFor
    <3>2. V1!TenthsOf(w) = V1!SumOf(q)
      BY Zenon DEF V1!TenthsOf
    <3> HIDE DEF p, q
    <3>3. V1!TenthsOf(w) = V1!SumOf(p)
      BY Zenon, <3>1, <3>2
    <3> QED BY Zenon, <3>3 DEF V1!Gained, p
  <2> QED BY Zenon, <2>1
<1> HIDE DEF a, lp, was, now
<1>3. V1!SumOf(V1!FromAllocationsToAmount(lp, a)) = lp
  BY Zenon, <1>1, SplitIsWhole DEF LockList
<1>4. ASSUME NEW w \in Wallets, ~cmd.moved
      PROVE  LET sum == V1!SumTenths(a)
                 n   == Len(a) * sum
             IN  V1!Gained(w) * sum - lp * V1!TenthsOf(w) \in (-n)..n
  <2>1. PICK k : LocksSent(a, lp, was, <<>>, now, k)
    BY Zenon, <1>1, <1>4
  <2>2. LET sum == V1!SumTenths(a)
            n   == Len(a) * sum
        IN  (now[w] - was[w]) * sum - lp * V1!SumOf(PartOf(TenthsIn(a), EntriesFor(a, w)))
               \in (-n)..n
    BY Zenon, <1>1, <1>4, <2>1, LocksEnd
  <2> QED BY Zenon, <1>2, <2>2
<1> QED BY Zenon, <1>3, <1>4 DEF a, lp

-----------------------------------------------------------------------------
(* The theorem *)

\* Nothing is pending of a farming command that has ended.
LEMMA FarmIdle ==
    ASSUME FarmInv, Idle, FA!Next PROVE Idle'
<1>1. AnyMove
  BY Zenon, FarmMoves DEF Steps, AnyMove, Late, Moved, FarmClaimsAll
<1>2. Typed(FarmTx, FarmChain)
  BY DEF FarmInv
<1> QED BY <1>1, <1>2, IdleStays

\* Nothing is pending of a presale command that has ended.
LEMMA SaleIdle ==
    ASSUME SaleInv, Idle, PS!Next, SaleFull(chain) PROVE Idle'
<1>1. AnyMove
  BY Zenon, SaleMoves DEF Steps, AnyMove, Late, Moved
<1>2. Typed(SaleTx, SaleChain)
  BY DEF SaleInv
<1> QED BY <1>1, <1>2, IdleStays

\* Nothing is pending of a Alpha Vault command that has ended.
LEMMA AlphaIdle ==
    ASSUME AlphaInv, Idle, VA!Next PROVE Idle'
<1>1. AnyMove
  BY Zenon, AlphaMoves DEF Steps, AnyMove, Late, Moved
<1>2. Typed(AlphaTx, AlphaChain)
  BY DEF AlphaInv
<1> QED BY <1>1, <1>2, IdleStays

\* Nothing is pending of a DBC command that has ended.
LEMMA DbcIdle ==
    ASSUME DbcInv, Idle, DP!Next, DbcPoolsOf(chain) PROVE Idle'
<1>1. AnyMove
  BY Zenon, DbcMoves DEF Steps, AnyMove, Late, Moved
<1>2. Typed(DbcTx(cmd.n), DbcChain(cmd.n))
  BY DEF DbcInv
<1> QED BY <1>1, <1>2, IdleStays

\* Nothing is pending of a DLMM command that has ended.
LEMMA DlmmIdle ==
    ASSUME DlmmInv, Idle, DL!Next PROVE Idle'
<1>1. AnyMove
  BY Zenon, DlmmMoves DEF Steps, AnyMove, Late, Moved
<1>2. Typed(DlmmTx, DlmmChain)
  BY DEF DlmmInv
<1> QED BY <1>1, <1>2, IdleStays

\* Nothing is pending of a pool script command that has ended.
LEMMA ScriptIdle ==
    ASSUME ScriptInv, Idle, PC!Next PROVE Idle'
<1>1. AnyMove
  BY Zenon, ScriptMoves DEF Steps, AnyMove, Late, Moved
<1>2. Typed(ScriptTx, ScriptChain)
  BY DEF ScriptInv
<1> QED BY <1>1, <1>2, IdleStays

\* A stuttering step.
LEMMA FarmDoneStays ==
    ASSUME FarmDone, UNCHANGED <<chain, cmd, queue, late, status>>
    PROVE  FarmDone'
BY DEF FarmDone, FarmClaimed, Pending

\* A stuttering step.
LEMMA SaleDoneStays ==
    ASSUME SaleDone, UNCHANGED <<chain, cmd, queue, late, status>>
    PROVE  SaleDone'
BY DEF SaleDone, SaleFull, SaleLeft

\* A stuttering step.
LEMMA PosDoneStays ==
    ASSUME PosDone, UNCHANGED <<chain, cmd, queue, late, status>>
    PROVE  PosDone'
BY DEF PosDone, PosAsks, PosDrained, PosGone

\* A stuttering step.
LEMMA ShareDoneStays ==
    ASSUME ShareDone, UNCHANGED <<chain, cmd, queue, late, status>>
    PROVE  ShareDone'
BY DEF ShareDone, Typed, CmdInv, ShareClaims

\* A stuttering step.
LEMMA AlphaDoneStays ==
    ASSUME AlphaDone, UNCHANGED <<chain, cmd, queue, late, status>>
    PROVE  AlphaDone'
BY DEF AlphaDone, VA!FullyClaimed

\* A stuttering step.
LEMMA DbcDoneStays ==
    ASSUME DbcDone, UNCHANGED <<chain, cmd, queue, late, status>>
    PROVE  DbcDone'
BY DEF DbcDone, DbcPoolsOf

\* A stuttering step.
LEMMA DlmmDoneStays ==
    ASSUME DlmmDone, DlmmFresh, UNCHANGED <<chain, cmd, queue, late, status>>
    PROVE  DlmmDone' /\ DlmmFresh'
BY DEF DlmmDone, DlmmFresh

\* A stuttering step.
LEMMA ScriptDoneStays ==
    ASSUME ScriptDone, UNCHANGED <<chain, cmd, queue, late, status>>
    PROVE  ScriptDone'
BY DEF ScriptDone

\* The inductive invariant, beside StudioInv: of each component, what a command has still to
\* do is pending.
StudioDone ==
    /\ component = "farming" => Idle /\ FarmDone
    /\ component = "presale" => Idle /\ SaleDone
    /\ component = "dammV2Positions" => PosDone
    /\ component = "feeSharing" => ShareDone
    /\ component = "alphaVault" => Idle /\ AlphaDone
    /\ component = "dbcPool" => Idle /\ DbcDone
    /\ component = "dlmm" => Idle /\ DlmmFresh /\ DlmmDone
    /\ component = "poolScripts" => Idle /\ ScriptDone
    /\ component = "dammV1" => Idle /\ LockDone

\* It holds of every component when it starts.
LEMMA StudioDoneInit == Init => StudioDone
<1> SUFFICES ASSUME Init PROVE StudioDone
  OBVIOUS
<1>1. ASSUME component = "farming" PROVE Idle /\ FarmDone
  <2>1. FA!Init
    BY <1>1 DEF Init
  <2>2. Idle
    BY <2>1 DEF FA!Init, FA!S!Begin, Idle
  <2> QED BY <2>1, <2>2, FarmDoneInit
<1>2. ASSUME component = "presale" PROVE Idle /\ SaleDone
  <2>1. PS!Init
    BY <1>2 DEF Init
  <2>2. Idle
    BY <2>1 DEF PS!Init, PS!S!Begin, Idle
  <2> QED BY <2>1, <2>2, SaleDoneInit
<1>3. ASSUME component = "dammV2Positions" PROVE PosDone
  <2>1. V2!Init
    BY <1>3 DEF Init
  <2> QED BY <2>1, PosDoneInit
<1>4. ASSUME component = "feeSharing" PROVE ShareDone
  <2>1. FS!Init
    BY <1>4 DEF Init
  <2> QED BY <2>1, ShareDoneInit
<1>5. ASSUME component = "alphaVault" PROVE Idle /\ AlphaDone
  <2>1. VA!Init
    BY <1>5 DEF Init
  <2>2. Idle
    BY <2>1 DEF VA!Init, VA!S!Begin, Idle
  <2> QED BY <2>1, <2>2, AlphaDoneInit
<1>6. ASSUME component = "dbcPool" PROVE Idle /\ DbcDone
  <2>1. DP!Init
    BY <1>6 DEF Init
  <2>2. Idle
    BY <2>1 DEF DP!Init, DP!S!Begin, Idle
  <2> QED BY <2>1, <2>2, DbcDoneInit
<1>7. ASSUME component = "dlmm" PROVE Idle /\ DlmmFresh /\ DlmmDone
  <2>1. DL!Init
    BY <1>7 DEF Init
  <2>2. Idle
    BY <2>1 DEF DL!Init, DL!S!Begin, Idle
  <2> QED BY <2>1, <2>2, DlmmDoneInit
<1>8. ASSUME component = "poolScripts" PROVE Idle /\ ScriptDone
  <2>1. PC!Init
    BY <1>8 DEF Init
  <2>2. Idle
    BY <2>1 DEF PC!Init, PC!S!Begin, Idle
  <2> QED BY <2>1, <2>2, ScriptDoneInit
<1>9. ASSUME component = "dammV1" PROVE Idle /\ LockDone
  <2>1. V1!Init
    BY <1>9 DEF Init
  <2>2. Idle
    BY <2>1 DEF V1!Init, V1!S!Begin, Idle
  <2> QED BY <2>1, <2>2, LockDoneInit
<1> QED BY <1>1, <1>2, <1>3, <1>4, <1>5, <1>6, <1>7, <1>8, <1>9 DEF StudioDone

\* Whatever a component does keeps it.
LEMMA StudioDoneStep == StudioInv /\ StudioDone /\ [Next]_vars => StudioDone'
<1> SUFFICES ASSUME StudioInv, StudioDone, [Next]_vars PROVE StudioDone'
  OBVIOUS
<1>0. component' = component
  BY DEF Next, vars
<1>1. ASSUME component = "farming" PROVE (Idle /\ FarmDone)'
  <2>1. FarmInv /\ Idle /\ FarmDone
    BY <1>1 DEF StudioInv, StudioDone
  <2>2. FA!Next \/ UNCHANGED <<chain, cmd, queue, late, status>>
    BY <1>1 DEF Next, vars
  <2>3. CASE FA!Next
    BY <2>1, <2>3, FarmDoneStep, FarmIdle
  <2>4. CASE UNCHANGED <<chain, cmd, queue, late, status>>
    BY <2>1, <2>4, FarmDoneStays DEF Idle
  <2> QED BY <2>2, <2>3, <2>4
<1>2. ASSUME component = "presale" PROVE (Idle /\ SaleDone)'
  <2>1. SaleInv /\ Idle /\ SaleDone
    BY <1>2 DEF StudioInv, StudioDone
  <2>2. PS!Next \/ UNCHANGED <<chain, cmd, queue, late, status>>
    BY <1>2 DEF Next, vars
  <2>3. CASE PS!Next
    BY <2>1, <2>3, SaleDoneStep, SaleIdle DEF SaleDone
  <2>4. CASE UNCHANGED <<chain, cmd, queue, late, status>>
    BY <2>1, <2>4, SaleDoneStays DEF Idle
  <2> QED BY <2>2, <2>3, <2>4
<1>3. ASSUME component = "dammV2Positions" PROVE PosDone'
  <2>1. PosInv /\ PosDone
    BY <1>3 DEF StudioInv, StudioDone
  <2>2. V2!Next \/ UNCHANGED <<chain, cmd, queue, late, status>>
    BY <1>3 DEF Next, vars
  <2> QED BY <2>1, <2>2, PosDoneStep, PosDoneStays
<1>4. ASSUME component = "feeSharing" PROVE ShareDone'
  <2>1. ShareDone
    BY <1>4 DEF StudioInv, StudioDone
  <2>2. FS!Next \/ UNCHANGED <<chain, cmd, queue, late, status>>
    BY <1>4 DEF Next, vars
  <2> QED BY <2>1, <2>2, ShareDoneStep, ShareDoneStays
<1>5. ASSUME component = "alphaVault" PROVE (Idle /\ AlphaDone)'
  <2>1. AlphaInv /\ Idle /\ AlphaDone
    BY <1>5 DEF StudioInv, StudioDone
  <2>2. VA!Next \/ UNCHANGED <<chain, cmd, queue, late, status>>
    BY <1>5 DEF Next, vars
  <2>3. CASE VA!Next
    BY <2>1, <2>3, AlphaDoneStep, AlphaIdle
  <2>4. CASE UNCHANGED <<chain, cmd, queue, late, status>>
    BY <2>1, <2>4, AlphaDoneStays DEF Idle
  <2> QED BY <2>2, <2>3, <2>4
<1>6. ASSUME component = "dbcPool" PROVE (Idle /\ DbcDone)'
  <2>1. DbcInv /\ Idle /\ DbcDone
    BY <1>6 DEF StudioInv, StudioDone
  <2>2. DP!Next \/ UNCHANGED <<chain, cmd, queue, late, status>>
    BY <1>6 DEF Next, vars
  <2>3. CASE DP!Next
    BY <2>1, <2>3, DbcDoneStep, DbcIdle DEF DbcDone
  <2>4. CASE UNCHANGED <<chain, cmd, queue, late, status>>
    BY <2>1, <2>4, DbcDoneStays DEF Idle
  <2> QED BY <2>2, <2>3, <2>4
<1>7. ASSUME component = "dlmm" PROVE (Idle /\ DlmmFresh /\ DlmmDone)'
  <2>1. DlmmInv /\ Idle /\ DlmmFresh /\ DlmmDone
    BY <1>7 DEF StudioInv, StudioDone
  <2>2. DL!Next \/ UNCHANGED <<chain, cmd, queue, late, status>>
    BY <1>7 DEF Next, vars
  <2>3. CASE DL!Next
    BY <2>1, <2>3, DlmmDoneStep, DlmmIdle
  <2>4. CASE UNCHANGED <<chain, cmd, queue, late, status>>
    BY <2>1, <2>4, DlmmDoneStays DEF Idle
  <2> QED BY <2>2, <2>3, <2>4
<1>8. ASSUME component = "poolScripts" PROVE (Idle /\ ScriptDone)'
  <2>1. ScriptInv /\ Idle /\ ScriptDone
    BY <1>8 DEF StudioInv, StudioDone
  <2>2. PC!Next \/ UNCHANGED <<chain, cmd, queue, late, status>>
    BY <1>8 DEF Next, vars
  <2>3. CASE PC!Next
    BY <2>1, <2>3, ScriptDoneStep, ScriptIdle
  <2>4. CASE UNCHANGED <<chain, cmd, queue, late, status>>
    BY <2>1, <2>4, ScriptDoneStays DEF Idle
  <2> QED BY <2>2, <2>3, <2>4
<1>9. ASSUME component = "dammV1" PROVE (Idle /\ LockDone)'
  <2>1. V1Inv /\ Idle /\ LockDone
    BY <1>9 DEF StudioInv, StudioDone
  <2>2. V1!Next \/ UNCHANGED <<chain, cmd, queue, late, status>>
    BY <1>9 DEF Next, vars
  <2>3. CASE V1!Next
    BY <2>1, <2>3, LockDoneStep, LockIdle
  <2>4. CASE UNCHANGED <<chain, cmd, queue, late, status>>
    BY <2>1, <2>4, LockDoneStays DEF Idle
  <2> QED BY <2>2, <2>3, <2>4
<1> QED BY <1>0, <1>1, <1>2, <1>3, <1>4, <1>5, <1>6, <1>7, <1>8, <1>9 DEF StudioDone

\* With nothing pending, all is done.
LEMMA StudioDoneEnds == StudioInv /\ StudioDone => OkMeansDone
BY FarmDoneEnds, SaleDoneEnds, PosDoneEnds, ShareDoneEnds, AlphaDoneEnds, DbcDoneEnds, DlmmDoneEnds, ScriptDoneEnds
   DEF StudioInv, StudioDone, OkMeansDone

\* A command of several transactions or of several items that reports success has done all of
\* it, whatever others did meanwhile where the component does not say "alone": claimAllFarms
\* has claimed every reward of its list, the presale sweeps leave no escrow that qualifies,
\* removeLiquidity closes what it emptied, a fee claim takes all that is due, every wallet of
\* a whitelist has its escrow and a crank fills the vault, no order of a cancellation and no
\* fee of a claim is left, a script has its pool and its Alpha Vault.
THEOREM Outcomes == Spec => []OkMeansDone
<1>1. Init => StudioDone
  BY StudioDoneInit
<1>2. StudioInv /\ StudioDone /\ [Next]_vars => StudioDone'
  BY StudioDoneStep
<1>3. StudioInv /\ StudioDone => OkMeansDone
  BY StudioDoneEnds
<1> QED BY <1>1, <1>2, <1>3, Runs, PTL DEF Spec

\* lockLiquidity and lockLiquidityStake2Earn: a lock that ends well while nothing else of the
\* wallet's landed has locked all LP tokens that it read, and, for percentages without a
\* fraction, for each wallet of the list its percentage of them, up to one token for each of
\* the list's entries.
THEOREM Locks == Spec => []LockedByShare
<1>1. Init => StudioDone
  BY StudioDoneInit
<1>2. StudioInv /\ StudioDone /\ [Next]_vars => StudioDone'
  BY StudioDoneStep
<1>3. StudioInv /\ StudioDone => LockedByShare
  BY LockDoneEnds DEF StudioInv, StudioDone, LockedByShare
<1> QED BY <1>1, <1>2, <1>3, Runs, PTL DEF Spec
=============================================================================
