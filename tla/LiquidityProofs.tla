---------------------------- MODULE LiquidityProofs ----------------------------
(***************************************************************************)
(* The theorems of the three liquidity commands, for any number of runs,   *)
(* swaps, removals, positions and transactions, amounts and price moves.   *)
(* Zap-in: the bundles the three builders make all end the same way, and   *)
(* that is what the deposit, the ledger account and the clean-up rest on.  *)
(* Zap-out: an account of the tokens that leave the position, and of the   *)
(* balances the swap was planned with.  The seeding of a DLMM pool: what   *)
(* holds of a transaction once it was handed to the RPC.                   *)
(***************************************************************************)
EXTENDS Liquidity, FiniteSetTheorems, SequenceTheorems, TLAPS

-----------------------------------------------------------------------------
(* ZapIn *)

\* Transaction ops holds instruction op.
Has(ops, op) == \E k \in DOMAIN ops : ops[k] = op

\* The instructions of a zap-in bundle.
Op == {"create", "setup", "swap", "ledger", "zapIn", "cleanUp"}

\* The bundles of the three zap-in commands: whatever comes before, the last three
\* transactions are the one with the ledger account, the one with the deposit and the one
\* that closes the temporary accounts.
Shape(s) ==
    /\ s \in Seq(Seq(Op)) /\ Len(s) \in 3..MaxSteps
    /\ \A i \in 1..Len(s) : /\ Has(s[i], "cleanUp") <=> i = Len(s)
                            /\ Has(s[i], "zapIn") <=> i = Len(s) - 1
                            /\ Has(s[i], "ledger") <=> i = Len(s) - 2
                            /\ Has(s[i], "create") => i = Len(s) - 2

\* Where the command is, and that what runs is such a bundle for a known position.
ControlInv ==
    /\ run = 0 => /\ phase = "choose" /\ verdict = "stopped" /\ ~late /\ landed = {} /\ work = {}
                  /\ positions \subseteq {In!Old} /\ deposits = {} /\ open = {}
                  /\ ghosts = {} /\ reported = In!NoPosition
    /\ run > 0 => /\ Shape(steps) /\ target \in In!Position
                  /\ protocol = "dlmm" => ~Has(steps[Len(steps) - 2], "create")
    /\ phase # "choose" => run > 0
    /\ run > 0 /\ phase \in {"inspect", "choose"} => reported = target
    /\ verdict = "running" <=> phase = "sent"
    /\ late => verdict = "stopped"
    /\ verdict = "complete" => landed = work

\* What landed is a beginning of the bundle, and the deposit that landed is recorded for
\* this run.
OrderInv ==
    /\ \A i \in landed, j \in work : j < i => j \in landed
    /\ \A i \in landed : Has(steps[i], "zapIn") => <<run, target, i>> \in deposits

\* A transaction that an earlier run left in flight is never a clean-up: the operator who
\* finds a deposit on chain does not run the command again, so that a bundle run again has
\* not landed its deposit, and its clean-up was not sent.
GhostInv ==
    /\ \A g \in ghosts : /\ g.target \in In!Position /\ g.run \in In!Runs /\ g.step \in 1..MaxSteps
                         /\ ~Has(g.ops, "cleanUp")
    /\ phase = "choose" /\ late => \A i \in landed : ~Has(steps[i], "zapIn")

\* The ledger account is open from its transaction to the clean-up, and the position is there
\* or is created by the transaction before the deposit.
ReadyInv ==
    /\ (\E i \in landed : Has(steps[i], "ledger")) /\ (\A i \in landed : ~Has(steps[i], "cleanUp"))
         => "ledger" \in open
    /\ protocol = "dammV2" /\ run > 0 =>
         target \in positions \/ (Has(steps[Len(steps) - 2], "create") /\ Len(steps) - 2 \notin landed)

\* A patient operator, who looks at the chain before running the command again, leaves
\* nothing in flight behind: the only deposit there can be is this run's, and so is the
\* only new position.
PatientInv ==
    patient =>
        /\ ghosts = {}
        /\ phase = "choose" => ~late /\ deposits = {}
        /\ deposits \subseteq {<<run, target, Len(steps) - 1>>}
        /\ positions \ {In!Old} \subseteq {target}
        /\ protocol = "dlmm" /\ deposits = {} => positions \subseteq {In!Old}
        /\ (\E i \in landed : Has(steps[i], "cleanUp")) => open = {}

\* The inductive invariant of ZapIn.
InInv == In!TypeOK /\ ControlInv /\ OrderInv /\ GhostInv /\ ReadyInv /\ PatientInv

-----------------------------------------------------------------------------
\* A sequence of one.
LEMMA One == ASSUME NEW S, NEW a \in S PROVE <<a>> \in Seq(S) /\ Len(<<a>>) = 1 /\ <<a>>[1] = a
OBVIOUS

\* A transaction of one instruction.
LEMMA HasOne == ASSUME NEW a, NEW op PROVE Has(<<a>>, op) <=> a = op
BY DEF Has

\* The empty transaction, and one made of two.
LEMMA HasNone == ASSUME NEW op PROVE ~Has(<<>>, op)
BY DEF Has

\* A transaction of the instructions of two.
LEMMA HasEither ==
    ASSUME NEW s \in Seq(Op), NEW t \in Seq(Op), NEW op
    PROVE  /\ s \o t \in Seq(Op)
           /\ Has(s \o t, op) <=> Has(s, op) \/ Has(t, op)
<1>1. s \o t \in Seq(Op) /\ DOMAIN (s \o t) = 1..(Len(s) + Len(t))
      /\ DOMAIN s = 1..Len(s) /\ DOMAIN t = 1..Len(t) /\ Len(s) \in Nat /\ Len(t) \in Nat
  OBVIOUS
<1>2. ASSUME NEW k \in DOMAIN (s \o t)
      PROVE  (s \o t)[k] = IF k <= Len(s) THEN s[k] ELSE t[k - Len(s)]
  BY <1>1
<1>3. Has(s \o t, op) => Has(s, op) \/ Has(t, op)
  BY <1>1, <1>2 DEF Has
<1>4. Has(s, op) => Has(s \o t, op)
  BY <1>1, <1>2 DEF Has
<1>5. ASSUME NEW k \in DOMAIN t, t[k] = op PROVE Has(s \o t, op)
  <2>1. k + Len(s) \in DOMAIN (s \o t) /\ k + Len(s) > Len(s) /\ k + Len(s) - Len(s) = k
    BY <1>1
  <2>2. (s \o t)[k + Len(s)] = op
    BY <1>2, <1>5, <2>1
  <2>3. QED
    BY <2>1, <2>2 DEF Has
<1>6. QED
  BY <1>1, <1>3, <1>4, <1>5 DEF Has

\* A transaction before the last three: it sets up or swaps.
Filler(ops) == \A op \in {"cleanUp", "zapIn", "ledger", "create"} : ~Has(ops, op)

\* Any number of set-up and swap transactions, then the three that every bundle ends with,
\* is a bundle.
LEMMA TailShape ==
    ASSUME NEW p \in Seq(Seq(Op)), NEW l \in Seq(Op), Len(p) + 3 <= MaxSteps, MaxSteps \in Nat,
           \A i \in 1..Len(p) : Filler(p[i]),
           Has(l, "ledger"), ~Has(l, "zapIn"), ~Has(l, "cleanUp"),
           NEW s, s = p \o <<l, <<"zapIn">>, <<"cleanUp">>>>
    PROVE  Shape(s) /\ s[Len(s) - 2] = l
<1>1. /\ s \in Seq(Seq(Op)) /\ Len(s) = Len(p) + 3 /\ Len(p) \in Nat
      /\ \A i \in 1..Len(p) : s[i] = p[i]
      /\ s[Len(p) + 1] = l /\ s[Len(p) + 2] = <<"zapIn">> /\ s[Len(p) + 3] = <<"cleanUp">>
  <2> DEFINE t == <<l, <<"zapIn">>, <<"cleanUp">>>>
  <2>1. <<"zapIn">> \in Seq(Op) /\ <<"cleanUp">> \in Seq(Op)
    BY One DEF Op
  <2>2. t \in Seq(Seq(Op)) /\ Len(t) = 3 /\ t[1] = l /\ t[2] = <<"zapIn">> /\ t[3] = <<"cleanUp">>
    BY <2>1
  <2> HIDE DEF t
  <2>3. p \o t \in Seq(Seq(Op)) /\ Len(p \o t) = Len(p) + 3 /\ Len(p) \in Nat
        /\ \A i \in 1..Len(p) : (p \o t)[i] = p[i]
        /\ (p \o t)[Len(p) + 1] = t[1] /\ (p \o t)[Len(p) + 2] = t[2] /\ (p \o t)[Len(p) + 3] = t[3]
    <3>1. p \o t \in Seq(Seq(Op)) /\ Len(p \o t) = Len(p) + Len(t)
          /\ \A i \in 1..(Len(p) + Len(t)) : (p \o t)[i] = IF i <= Len(p) THEN p[i] ELSE t[i - Len(p)]
      BY <2>2, ConcatProperties
    <3>2. Len(p) \in Nat
      OBVIOUS
    <3>3. QED
      BY <2>2, <3>1, <3>2
  <2>4. s = p \o t
    BY DEF t
  <2>5. QED
    <3>1. (p \o t)[Len(p) + 1] = l /\ (p \o t)[Len(p) + 2] = <<"zapIn">>
          /\ (p \o t)[Len(p) + 3] = <<"cleanUp">>
      BY <2>2, <2>3
    <3>2. s[Len(p) + 1] = l /\ s[Len(p) + 2] = <<"zapIn">> /\ s[Len(p) + 3] = <<"cleanUp">>
      BY <2>4, <3>1
    <3>3. s \in Seq(Seq(Op)) /\ Len(s) = Len(p) + 3 /\ Len(p) \in Nat
          /\ \A i \in 1..Len(p) : s[i] = p[i]
      BY <2>3, <2>4, Zenon
    <3>4. QED
      BY <3>2, <3>3, Zenon
<1>2. ASSUME NEW i \in 1..Len(s)
      PROVE  /\ Has(s[i], "cleanUp") <=> i = Len(s)
             /\ Has(s[i], "zapIn") <=> i = Len(s) - 1
             /\ Has(s[i], "ledger") <=> i = Len(s) - 2
             /\ Has(s[i], "create") => i = Len(s) - 2
  <2>1. CASE i \in 1..Len(p)
    BY <1>1, <2>1 DEF Filler
  <2>2. CASE i = Len(p) + 1
    BY <1>1, <2>2
  <2>3. CASE i = Len(p) + 2
    <3>1. s[i] = <<"zapIn">>
      BY <1>1, <2>3
    <3>2. \A o : Has(s[i], o) <=> o = "zapIn"
      <4>1. \A o : Has(<<"zapIn">>, o) <=> o = "zapIn"
        BY HasOne
      <4>2. QED
        BY <3>1, <4>1
    <3>3. QED
      BY <1>1, <2>3, <3>2
  <2>4. CASE i = Len(p) + 3
    <3>1. s[i] = <<"cleanUp">>
      BY <1>1, <2>4
    <3>2. \A o : Has(s[i], o) <=> o = "cleanUp"
      <4>1. \A o : Has(<<"cleanUp">>, o) <=> o = "cleanUp"
        BY HasOne
      <4>2. QED
        BY <3>1, <4>1
    <3>3. QED
      BY <1>1, <2>4, <3>2
  <2>5. i \in 1..Len(p) \/ i = Len(p) + 1 \/ i = Len(p) + 2 \/ i = Len(p) + 3
    BY <1>1
  <2>6. QED
    BY <2>1, <2>2, <2>3, <2>4, <2>5, Zenon
<1>3. Len(s) \in 3..MaxSteps /\ s[Len(s) - 2] = l
  BY <1>1
<1>4. QED
  BY <1>1, <1>2, <1>3, Zenon DEF Shape

\* An optional instruction is there exactly when it is asked for.
LEMMA OptionalOps ==
    ASSUME NEW has \in BOOLEAN, NEW op \in Op
    PROVE  /\ In!Optional(has, op) \in Seq(Op)
           /\ \A o : Has(In!Optional(has, op), o) <=> has /\ o = op
<1>1. CASE has
  BY <1>1, One, HasOne DEF In!Optional
<1>2. CASE ~has
  BY <1>2, HasNone DEF In!Optional
<1>3. QED
  BY <1>1, <1>2

\* What zapInDammV2 builds is a bundle, and with a new position the transaction before the
\* deposit creates it.
LEMMA DammV2Shape ==
    ASSUME In!ZapInConstants, NEW new \in BOOLEAN, NEW hasSetup \in BOOLEAN
    PROVE  /\ Shape(In!DammV2Steps(new, hasSetup))
           /\ new => LET s == In!DammV2Steps(new, hasSetup) IN Has(s[Len(s) - 2], "create")
<1> DEFINE c == In!Optional(new, "create")
           u == In!Optional(hasSetup, "setup")
           l == c \o u \o <<"ledger">>
           s == <<l, <<"zapIn">>, <<"cleanUp">>>>
<1>1. c \in Seq(Op) /\ \A o : Has(c, o) <=> new /\ o = "create"
  BY OptionalOps DEF Op
<1>2. u \in Seq(Op) /\ \A o : Has(u, o) <=> hasSetup /\ o = "setup"
  BY OptionalOps DEF Op
<1>3. <<"ledger">> \in Seq(Op) /\ \A o : Has(<<"ledger">>, o) <=> o = "ledger"
  BY One, HasOne DEF Op
<1> HIDE DEF c, u
<1>4. l \in Seq(Op) /\ \A o : Has(l, o) <=> (new /\ o = "create") \/ (hasSetup /\ o = "setup") \/ o = "ledger"
  <2>1. c \o u \in Seq(Op) /\ \A o : Has(c \o u, o) <=> Has(c, o) \/ Has(u, o)
    BY <1>1, <1>2, HasEither
  <2>2. l \in Seq(Op) /\ \A o : Has(l, o) <=> Has(c \o u, o) \/ Has(<<"ledger">>, o)
    BY <1>3, <2>1, HasEither
  <2>3. QED
    BY <1>1, <1>2, <1>3, <2>1, <2>2
<1> HIDE DEF l
<1>5. s = <<>> \o s /\ <<>> \in Seq(Seq(Op)) /\ Len(<<>>) = 0
  BY <1>4
<1>6. MaxSteps \in Nat /\ Len(<<>>) + 3 <= MaxSteps
  BY <1>5 DEF In!ZapInConstants
<1>7. Shape(s) /\ s[Len(s) - 2] = l
  <2>1. Has(l, "ledger") /\ ~Has(l, "zapIn") /\ ~Has(l, "cleanUp")
    BY <1>4
  <2>2. \A i \in 1..Len(<<>>) : Filler((<<>>)[i])
    BY <1>5
  <2>3. QED
    BY <1>4, <1>5, <1>6, <2>1, <2>2, TailShape
<1>8. In!DammV2Steps(new, hasSetup) = s
  BY DEF In!DammV2Steps, s, l, c, u
<1>9. QED
  BY <1>4, <1>7, <1>8

\* What zapInDlmm builds is a bundle; its deposit opens the position itself.
LEMMA DlmmShape ==
    ASSUME In!ZapInConstants, NEW hasSetup \in BOOLEAN, NEW n \in 0..MaxSwaps
    PROVE  LET s == In!DlmmSteps(hasSetup, n) IN Shape(s) /\ ~Has(s[Len(s) - 2], "create")
<1>1. MaxSteps \in Nat /\ MaxSwaps \in Nat /\ MaxSteps >= MaxSwaps + 4
  BY DEF In!ZapInConstants
<1>2. CASE n = 0
  <2> DEFINE u == In!Optional(hasSetup, "setup")
             l == u \o <<"ledger">>
             s == <<l, <<"zapIn">>, <<"cleanUp">>>>
  <2>1. u \in Seq(Op) /\ \A o : Has(u, o) <=> hasSetup /\ o = "setup"
    BY OptionalOps DEF Op
  <2>2. <<"ledger">> \in Seq(Op) /\ \A o : Has(<<"ledger">>, o) <=> o = "ledger"
    BY One, HasOne DEF Op
  <2>3. l \in Seq(Op) /\ \A o : Has(l, o) <=> Has(u, o) \/ Has(<<"ledger">>, o)
    BY <2>1, <2>2, HasEither
  <2>4. In!DlmmSteps(hasSetup, n) = s
    BY <1>2 DEF In!DlmmSteps
  <2> HIDE DEF l
  <2>5. s = <<>> \o s /\ <<>> \in Seq(Seq(Op)) /\ Len(<<>>) = 0
    BY <2>3
  <2>6. Shape(s) /\ s[Len(s) - 2] = l
    <3>1. Has(l, "ledger") /\ ~Has(l, "zapIn") /\ ~Has(l, "cleanUp")
      BY <2>1, <2>2, <2>3
    <3>2. \A i \in 1..Len(<<>>) : Filler((<<>>)[i])
      BY <2>5
    <3>3. Len(<<>>) + 3 <= MaxSteps
      BY <1>1, <2>5
    <3>4. QED
      BY <1>1, <2>3, <2>5, <3>1, <3>2, <3>3, TailShape
  <2>7. ~Has(l, "create")
    BY <2>1, <2>2, <2>3
  <2>8. QED
    BY <2>4, <2>6, <2>7
<1>3. CASE n # 0
  <2> DEFINE u == In!Optional(hasSetup, <<"setup">>)
             w == In!Swaps(n)
             p == u \o w
  <2>1. u \in Seq(Seq(Op)) /\ Len(u) <= 1 /\ \A i \in 1..Len(u) : u[i] = <<"setup">>
    <3>1. <<"setup">> \in Seq(Op)
      BY One DEF Op
    <3>2. CASE hasSetup
      <4>1. u = <<<<"setup">>>>
        BY <3>2 DEF In!Optional
      <4>2. Len(u) = 1 /\ u[1] = <<"setup">> /\ u \in Seq(Seq(Op))
        BY <3>1, <4>1, One, Zenon
      <4> HIDE DEF u
      <4>3. \A i \in 1..Len(u) : i = 1
        BY <4>2
      <4>4. Len(u) <= 1
        BY <4>2
      <4>5. QED
        BY <4>2, <4>3, <4>4, Zenon
    <3>3. CASE ~hasSetup
      <4>1. u = <<>>
        BY <3>3 DEF In!Optional
      <4>2. QED
        BY <4>1
    <3>4. QED
      BY <3>2, <3>3
  <2>2. w \in Seq(Seq(Op)) /\ Len(w) = n /\ \A i \in 1..Len(w) : w[i] = <<"swap">>
    <3>1. <<"swap">> \in Seq(Op)
      BY One DEF Op
    <3>2. w = [i \in 1..n |-> <<"swap">>] /\ n \in Nat
      BY <1>1 DEF In!Swaps
    <3>3. QED
      BY <3>1, <3>2
  <2> HIDE DEF u, w
  <2>3. p \in Seq(Seq(Op)) /\ Len(p) = Len(u) + n
        /\ \A i \in 1..Len(p) : p[i] \in {<<"setup">>, <<"swap">>}
    <3>1. p \in Seq(Seq(Op)) /\ Len(p) = Len(u) + Len(w)
          /\ \A i \in 1..(Len(u) + Len(w)) : p[i] = IF i <= Len(u) THEN u[i] ELSE w[i - Len(u)]
      BY <2>1, <2>2, ConcatProperties
    <3>2. Len(u) \in Nat /\ n \in Nat
      BY <2>1
    <3>3. ASSUME NEW i \in 1..Len(p) PROVE p[i] \in {<<"setup">>, <<"swap">>}
      <4>1. i \in 1..(Len(u) + Len(w)) /\ (i <= Len(u) => i \in 1..Len(u))
            /\ (~(i <= Len(u)) => i - Len(u) \in 1..Len(w))
        BY <2>2, <3>1, <3>2
      <4>2. CASE i <= Len(u)
        BY <2>1, <3>1, <4>1, <4>2
      <4>3. CASE ~(i <= Len(u))
        BY <2>2, <3>1, <4>1, <4>3
      <4>4. QED
        BY <4>2, <4>3
    <3>4. QED
      BY <2>2, <3>1, <3>3
  <2>4. \A i \in 1..Len(p) : Filler(p[i])
    BY <2>3, HasOne DEF Filler
  <2>5. <<"ledger">> \in Seq(Op) /\ \A o : Has(<<"ledger">>, o) <=> o = "ledger"
    BY One, HasOne DEF Op
  <2>6. In!DlmmSteps(hasSetup, n) = p \o <<<<"ledger">>, <<"zapIn">>, <<"cleanUp">>>>
    BY <1>3 DEF In!DlmmSteps, In!Tail3, u, w
  <2>7. Len(p) + 3 <= MaxSteps
    BY <1>1, <2>1, <2>3
  <2> HIDE DEF p
  <2>8. Shape(In!DlmmSteps(hasSetup, n))
        /\ LET s == In!DlmmSteps(hasSetup, n) IN s[Len(s) - 2] = <<"ledger">>
    BY <1>1, <2>3, <2>4, <2>5, <2>6, <2>7, TailShape
  <2>9. ~Has(<<"ledger">>, "create")
    BY <2>5
  <2>10. QED
    BY <2>8, <2>9
<1>4. QED
  BY <1>2, <1>3

USE DEF In!bundleVars, In!setting, In!chainVars

-----------------------------------------------------------------------------
\* The positions of the last three transactions.
LEMMA ShapeFacts ==
    ASSUME NEW s, Shape(s), MaxSteps \in Nat
    PROVE  /\ DOMAIN s = 1..Len(s) /\ Len(s) \in Nat /\ Len(s) >= 3
           /\ DOMAIN s \subseteq 1..MaxSteps /\ In!Deferred(s) \subseteq DOMAIN s
           /\ Len(s) \in DOMAIN s /\ Len(s) - 1 \in DOMAIN s /\ Len(s) - 2 \in DOMAIN s
<1>1. DOMAIN s = 1..Len(s) /\ Len(s) \in 3..MaxSteps
  BY DEF Shape
<1>2. In!Deferred(s) \subseteq DOMAIN s
  BY DEF In!Deferred
<1>3. QED
  BY <1>1, <1>2

\* Where the instructions of a bundle are.
LEMMA ShapeHas ==
    ASSUME NEW s, Shape(s), NEW i \in DOMAIN s
    PROVE  /\ Has(s[i], "cleanUp") <=> i = Len(s)
           /\ Has(s[i], "zapIn") <=> i = Len(s) - 1
           /\ Has(s[i], "ledger") <=> i = Len(s) - 2
           /\ Has(s[i], "create") => i = Len(s) - 2
<1>1. i \in 1..Len(s)
  BY DEF Shape
<1>2. QED
  BY <1>1, Zenon DEF Shape

\* What a transaction does to the chain, instruction order aside.
LEMMA TxEffect ==
    ASSUME NEW ops, NEW t, NEW r, NEW i, In!Tx(ops, t, r, i)
    PROVE  /\ positions' = IF Has(ops, "create") \/ (protocol = "dlmm" /\ Has(ops, "zapIn"))
                           THEN positions \union {t} ELSE positions
           /\ deposits' = IF Has(ops, "zapIn") THEN deposits \union {<<r, t, i>>} ELSE deposits
           /\ Has(ops, "cleanUp") => open' = {}
           /\ ~Has(ops, "cleanUp") => /\ open \subseteq open'
                                      /\ open' \subseteq open \union {"setup", "ledger"}
                                      /\ Has(ops, "ledger") => "ledger" \in open'
BY DEF In!Tx, Has

\* What an aborted bundle leaves in flight is the transaction it was waiting for.
LEMMA InLeftover ==
    \A g \in In!Leftover :
        /\ late
        /\ \E i \in work \ landed :
              /\ \A r \in work : r < i => r \in landed
              /\ g = [ops |-> steps[i], target |-> target, run |-> run, step |-> i]
BY DEF In!Leftover

\* A transaction of the present bundle lands in its turn.
LEMMA InLandsHere ==
    ASSUME NEW i, In!LandNow(i)
    PROVE  /\ i \in work /\ i \notin landed /\ \A r \in work : r < i => r \in landed
           /\ landed' = landed \union {i} /\ late' = FALSE
           /\ verdict = "running" \/ (verdict = "stopped" /\ late)
           /\ UNCHANGED <<work, verdict, steps, deferred, target, protocol, patient, phase, run,
                          ghosts, reported>>
           /\ In!Tx(steps[i], target, run, i)
<1>1. PICK s \in work \ landed :
        (\A r \in work : r < s => r \in landed) /\ landed' = landed \union {s}
  BY DEF In!LandNow, In!B!Land
<1>2. s = i
  BY <1>1 DEF In!LandNow
<1>3. QED
  BY <1>1, <1>2 DEF In!LandNow, In!B!Land

-----------------------------------------------------------------------------
\* A new run.  A patient operator starts one only when the last has left neither a deposit
\* nor a transaction in flight, which is what keeps the deposits to one.
LEMMA InStarted ==
    ASSUME In!ZapInConstants, InInv, NEW s, Shape(s), NEW t \in In!Position, In!Start(s, t),
           protocol = "dammV2" => t \in positions \/ Has(s[Len(s) - 2], "create"),
           protocol = "dlmm" => ~Has(s[Len(s) - 2], "create"),
           patient => positions \ {In!Old} \subseteq {t}
    PROVE  InInv'
<1>1. /\ In!TypeOK /\ ControlInv /\ OrderInv /\ GhostInv /\ ReadyInv /\ PatientInv
      /\ MaxSteps \in Nat /\ MaxRuns \in Nat
  BY DEF InInv, In!ZapInConstants
<1>2. /\ phase = "choose" /\ run < MaxRuns /\ run' = run + 1 /\ steps' = s
      /\ deferred' = In!Deferred(s) /\ target' = t /\ work' = DOMAIN s /\ landed' = {}
      /\ verdict' = "running" /\ late' = FALSE /\ ghosts' = ghosts \union In!Leftover
      /\ phase' = "sent" /\ UNCHANGED <<protocol, patient, positions, deposits, open, reported>>
  BY DEF In!Start
<1>3. /\ DOMAIN s = 1..Len(s) /\ DOMAIN s \subseteq 1..MaxSteps /\ In!Deferred(s) \subseteq DOMAIN s
      /\ Len(s) - 2 \in DOMAIN s
  BY <1>1, ShapeFacts
<1>4. run \in Nat /\ run' \in 1..MaxRuns /\ run' > 0
  BY <1>1, <1>2 DEF In!TypeOK
<1>5. In!TypeOK'
  <2>1. /\ work' \subseteq 1..MaxSteps /\ landed' \subseteq work' /\ DOMAIN steps' = work'
        /\ deferred' \subseteq work' /\ target' \in In!Position /\ run' \in 0..MaxRuns
    BY <1>2, <1>3, <1>4
  <2>2. verdict' = "running" /\ late' = FALSE /\ phase' = "sent"
    BY <1>2
  <2>3. QED
    BY <1>1, <1>2, <2>1, <2>2 DEF In!TypeOK
<1>6. ControlInv'
  BY <1>2, <1>4 DEF ControlInv
<1>7. OrderInv'
  BY <1>2 DEF OrderInv
<1>8. GhostInv'
  <2>1. ASSUME NEW g \in In!Leftover
        PROVE  /\ g.target \in In!Position /\ g.run \in In!Runs /\ g.step \in 1..MaxSteps
               /\ ~Has(g.ops, "cleanUp")
    <3>1. PICK i \in work \ landed :
            /\ \A r \in work : r < i => r \in landed
            /\ g = [ops |-> steps[i], target |-> target, run |-> run, step |-> i]
      BY InLeftover
    <3>2. late
      BY InLeftover
    <3>3. g.ops = steps[i] /\ g.target = target /\ g.run = run /\ g.step = i
      BY <3>1
    <3>4. run # 0 /\ run \in In!Runs /\ Shape(steps) /\ target \in In!Position
      BY <1>1, <3>2 DEF ControlInv, In!TypeOK, In!Runs
    <3>5. i \in DOMAIN steps /\ i \in 1..MaxSteps /\ DOMAIN steps = work
      BY <1>1, <3>1 DEF In!TypeOK
    <3>6. ~Has(steps[i], "cleanUp")
      <4>1. SUFFICES ASSUME i = Len(steps) PROVE FALSE
        BY <3>4, <3>5, ShapeHas
      <4>2. Len(steps) - 1 \in work /\ Len(steps) - 1 < i
        BY <1>1, <3>4, <3>5, <4>1, ShapeFacts
      <4>3. Has(steps[Len(steps) - 1], "zapIn") /\ Len(steps) - 1 \in landed
        BY <3>1, <3>4, <3>5, <4>2, ShapeHas
      <4>4. QED
        BY <1>1, <1>2, <3>2, <4>3 DEF GhostInv
    <3>7. QED
      BY <3>3, <3>4, <3>5, <3>6
  <2>2. QED
    BY <1>1, <1>2, <2>1 DEF GhostInv
<1>9. ReadyInv'
  BY <1>2, <1>3 DEF ReadyInv
<1>10. PatientInv'
  <2>1. patient => ~late /\ In!Leftover = {} /\ ghosts = {} /\ deposits = {}
    BY <1>1, <1>2 DEF PatientInv, In!Leftover
  <2>2. patient /\ protocol = "dlmm" => positions \subseteq {In!Old}
    BY <1>1, <2>1 DEF PatientInv
  <2>3. QED
    BY <1>2, <2>1, <2>2 DEF PatientInv
<1>11. QED
  BY <1>5, <1>6, <1>7, <1>8, <1>9, <1>10 DEF InInv

\* The three ways to start a run.
LEMMA InStarts ==
    ASSUME In!ZapInConstants, InInv,
           In!ZapInDammV2New \/ In!ZapInDammV2Existing \/ In!ZapInDlmm
    PROVE  InInv'
<1>1. /\ In!TypeOK /\ ControlInv /\ PatientInv /\ MaxRuns \in Nat
  BY DEF InInv, In!ZapInConstants
<1>2. run \in 0..MaxRuns /\ run \in Nat /\ positions \subseteq In!Position
  BY <1>1 DEF In!TypeOK
<1>3. ASSUME NEW s, NEW t, In!Start(s, t) PROVE phase = "choose" /\ run + 1 \in In!Position
  BY <1>1, <1>2, <1>3 DEF In!Start, In!Position, In!Runs
<1>4. CASE In!ZapInDammV2New
  <2>1. PICK setup \in BOOLEAN : In!Start(In!DammV2Steps(TRUE, setup), run + 1)
    BY <1>4 DEF In!ZapInDammV2New
  <2>2. protocol = "dammV2" /\ reported \notin positions
    BY <1>4 DEF In!ZapInDammV2New
  <2>3. phase = "choose" /\ run + 1 \in In!Position
    BY <1>3, <2>1
  <2>4. patient => positions \ {In!Old} \subseteq {run + 1}
    <3>1. CASE run = 0
      BY <1>1, <3>1 DEF ControlInv
    <3>2. CASE run # 0
      <4>1. reported = target
        BY <1>1, <1>2, <2>3, <3>2 DEF ControlInv
      <4>2. QED
        BY <1>1, <2>2, <4>1 DEF PatientInv
    <3>3. QED
      BY <3>1, <3>2
  <2>5. LET s == In!DammV2Steps(TRUE, setup) IN Shape(s) /\ Has(s[Len(s) - 2], "create")
    BY DammV2Shape
  <2>6. QED
    BY <2>1, <2>2, <2>3, <2>4, <2>5, InStarted
<1>5. CASE In!ZapInDammV2Existing
  <2>1. PICK t \in positions, setup \in BOOLEAN :
          In!Start(In!DammV2Steps(FALSE, setup), t) /\ (run > 0 => t = reported)
    BY <1>5 DEF In!ZapInDammV2Existing
  <2>2. phase = "choose" /\ t \in In!Position
    BY <1>2, <1>3, <2>1
  <2>3. patient => positions \ {In!Old} \subseteq {t}
    <3>1. CASE run = 0
      BY <1>1, <3>1 DEF ControlInv
    <3>2. CASE run # 0
      <4>1. reported = target /\ t = reported
        BY <1>1, <1>2, <2>1, <2>2, <3>2 DEF ControlInv
      <4>2. QED
        BY <1>1, <4>1 DEF PatientInv
    <3>3. QED
      BY <3>1, <3>2
  <2>4. Shape(In!DammV2Steps(FALSE, setup)) /\ protocol = "dammV2"
    BY <1>5, DammV2Shape DEF In!ZapInDammV2Existing
  <2>5. QED
    BY <2>1, <2>2, <2>3, <2>4, InStarted
<1>6. CASE In!ZapInDlmm
  <2>1. PICK setup \in BOOLEAN, n \in 0..MaxSwaps : In!Start(In!DlmmSteps(setup, n), run + 1)
    BY <1>6 DEF In!ZapInDlmm
  <2>2. protocol = "dlmm" /\ phase = "choose" /\ run + 1 \in In!Position
    BY <1>3, <1>6, <2>1 DEF In!ZapInDlmm
  <2>3. patient => positions \ {In!Old} \subseteq {run + 1}
    BY <1>1, <2>2 DEF PatientInv
  <2>4. LET s == In!DlmmSteps(setup, n) IN Shape(s) /\ ~Has(s[Len(s) - 2], "create")
    BY DlmmShape
  <2>5. QED
    BY <2>1, <2>2, <2>3, <2>4, InStarted
<1>7. QED
  BY <1>4, <1>5, <1>6

\* A transaction of the present bundle lands.  The deposit is the only one that adds a
\* deposit, and it lands once.
LEMMA InLands ==
    ASSUME In!ZapInConstants, InInv, NEW i, In!LandNow(i)
    PROVE  InInv'
<1>1. /\ In!TypeOK /\ ControlInv /\ OrderInv /\ GhostInv /\ ReadyInv /\ PatientInv /\ MaxSteps \in Nat
  BY DEF InInv, In!ZapInConstants
<1>2. /\ i \in work /\ i \notin landed /\ \A r \in work : r < i => r \in landed
      /\ landed' = landed \union {i} /\ late' = FALSE
      /\ verdict = "running" \/ (verdict = "stopped" /\ late)
      /\ UNCHANGED <<work, verdict, steps, deferred, target, protocol, patient, phase, run,
                     ghosts, reported>>
  BY InLandsHere
<1>3. /\ DOMAIN steps = work /\ landed \subseteq work /\ run \in 0..MaxRuns /\ work \subseteq 1..MaxSteps
      /\ landed' \subseteq work
  BY <1>1, <1>2 DEF In!TypeOK
<1>4. /\ run # 0 /\ run > 0 /\ Shape(steps) /\ target \in In!Position /\ run \in In!Runs
      /\ protocol = "dlmm" => ~Has(steps[Len(steps) - 2], "create")
  BY <1>1, <1>2, <1>3 DEF ControlInv, In!Runs
<1>5. DOMAIN steps = 1..Len(steps) /\ Len(steps) \in Nat /\ i \in 1..Len(steps) /\ i \in Int
  BY <1>1, <1>2, <1>3, <1>4, ShapeFacts
<1>6. /\ positions' = IF Has(steps[i], "create") \/ (protocol = "dlmm" /\ Has(steps[i], "zapIn"))
                      THEN positions \union {target} ELSE positions
      /\ deposits' = IF Has(steps[i], "zapIn") THEN deposits \union {<<run, target, i>>} ELSE deposits
      /\ Has(steps[i], "cleanUp") => open' = {}
      /\ ~Has(steps[i], "cleanUp") => /\ open \subseteq open'
                                      /\ open' \subseteq open \union {"setup", "ledger"}
                                      /\ Has(steps[i], "ledger") => "ledger" \in open'
  BY InLandsHere, TxEffect
<1>7. \A k \in work : /\ Has(steps[k], "cleanUp") <=> k = Len(steps)
                      /\ Has(steps[k], "zapIn") <=> k = Len(steps) - 1
                      /\ Has(steps[k], "ledger") <=> k = Len(steps) - 2
                      /\ Has(steps[k], "create") => k = Len(steps) - 2
  BY <1>3, <1>4, ShapeHas
<1>8. Has(steps[i], "cleanUp") \/ \A k \in landed : ~Has(steps[k], "cleanUp")
  <2>1. SUFFICES ASSUME NEW k \in landed, Has(steps[k], "cleanUp"), i # Len(steps) PROVE FALSE
    BY <1>2, <1>7
  <2>2. k = Len(steps) /\ k \in work
    BY <1>3, <1>7, <2>1
  <2>3. i < k
    <3>1. i <= Len(steps) /\ i \in Int /\ Len(steps) \in Int
      BY <1>5
    <3>2. i # Len(steps)
      BY <2>1
    <3>3. QED
      BY <2>2, <3>1, <3>2
  <2>4. QED
    BY <1>1, <1>2, <2>3 DEF OrderInv
<1>9. In!TypeOK'
  <2>1. positions' \subseteq In!Position /\ open' \subseteq {"setup", "ledger"}
    BY <1>1, <1>4, <1>6 DEF In!TypeOK
  <2>2. deposits' \subseteq In!Runs \X In!Position \X (1..MaxSteps)
    BY <1>1, <1>2, <1>3, <1>4, <1>6 DEF In!TypeOK
  <2>3. QED
    BY <1>1, <1>2, <1>3, <2>1, <2>2 DEF In!TypeOK
<1>10. ControlInv'
  BY <1>1, <1>2, <1>4 DEF ControlInv
<1>11. OrderInv'
  <2>1. ASSUME NEW j \in landed', NEW k \in work, k < j PROVE k \in landed'
    BY <1>1, <1>2, <2>1 DEF OrderInv
  <2>2. ASSUME NEW j \in landed', Has(steps[j], "zapIn") PROVE <<run, target, j>> \in deposits'
    BY <1>1, <1>2, <1>6, <2>2 DEF OrderInv
  <2>3. QED
    BY <1>2, <2>1, <2>2 DEF OrderInv
<1>12. GhostInv'
  BY <1>1, <1>2 DEF GhostInv
<1>13. ReadyInv'
  <2>1. ASSUME NEW j \in landed', Has(steps[j], "ledger"), \A k \in landed' : ~Has(steps[k], "cleanUp")
        PROVE  "ledger" \in open'
    <3>1. ~Has(steps[i], "cleanUp") /\ \A k \in landed : ~Has(steps[k], "cleanUp")
      BY <1>2, <2>1
    <3>2. CASE j = i
      BY <1>6, <2>1, <3>1, <3>2
    <3>3. CASE j # i
      BY <1>1, <1>2, <1>6, <2>1, <3>1, <3>3 DEF ReadyInv
    <3>4. QED
      BY <3>2, <3>3
  <2>2. protocol = "dammV2" => \/ target \in positions'
                               \/ Has(steps[Len(steps) - 2], "create") /\ Len(steps) - 2 \notin landed'
    BY <1>1, <1>2, <1>4, <1>6 DEF ReadyInv
  <2>3. QED
    BY <1>2, <2>1, <2>2 DEF ReadyInv
<1>14. PatientInv'
  <2> SUFFICES ASSUME patient PROVE PatientInv'
    BY <1>2 DEF PatientInv
  <2>1. /\ ghosts = {} /\ (phase = "choose" => ~late)
        /\ deposits \subseteq {<<run, target, Len(steps) - 1>>}
        /\ positions \ {In!Old} \subseteq {target}
        /\ protocol = "dlmm" /\ deposits = {} => positions \subseteq {In!Old}
        /\ (\E k \in landed : Has(steps[k], "cleanUp")) => open = {}
    BY <1>1 DEF PatientInv
  <2>2. phase # "choose"
    BY <1>1, <1>2, <2>1 DEF ControlInv
  <2>3. deposits' \subseteq {<<run, target, Len(steps) - 1>>}
    BY <1>2, <1>6, <1>7, <2>1
  <2>4. positions' \ {In!Old} \subseteq {target}
    BY <1>6, <2>1
  <2>5. protocol = "dlmm" /\ deposits' = {} => positions' \subseteq {In!Old}
    BY <1>2, <1>4, <1>6, <1>7, <2>1
  <2>6. (\E k \in landed' : Has(steps[k], "cleanUp")) => open' = {}
    BY <1>2, <1>6, <1>8
  <2>7. QED
    BY <1>2, <2>1, <2>2, <2>3, <2>4, <2>5, <2>6 DEF PatientInv
<1>15. QED
  BY <1>9, <1>10, <1>11, <1>12, <1>13, <1>14 DEF InInv

\* A transaction of an earlier bundle lands, which a patient operator never meets.
LEMMA InGhostLands ==
    ASSUME In!ZapInConstants, InInv, NEW g \in ghosts, In!LandGhost(g)
    PROVE  InInv'
<1>1. /\ In!TypeOK /\ ControlInv /\ OrderInv /\ GhostInv /\ ReadyInv /\ PatientInv
  BY DEF InInv
<1>2. /\ ghosts' = ghosts \ {g}
      /\ UNCHANGED <<work, landed, verdict, late, steps, deferred, target, protocol, patient, phase, run,
                     reported>>
  BY DEF In!LandGhost
<1>3. /\ g.target \in In!Position /\ g.run \in In!Runs /\ g.step \in 1..MaxSteps
      /\ ~Has(g.ops, "cleanUp") /\ ~patient
  BY <1>1 DEF GhostInv, PatientInv
<1>4. In!Tx(g.ops, g.target, g.run, g.step)
  BY DEF In!LandGhost
<1>5. /\ positions \subseteq positions' /\ positions' \subseteq positions \union {g.target}
      /\ deposits \subseteq deposits' /\ deposits' \subseteq deposits \union {<<g.run, g.target, g.step>>}
      /\ open \subseteq open' /\ open' \subseteq open \union {"setup", "ledger"}
  BY <1>3, <1>4, TxEffect
<1>6. In!TypeOK'
  <2>1. positions' \subseteq In!Position /\ open' \subseteq {"setup", "ledger"}
    BY <1>1, <1>3, <1>5 DEF In!TypeOK
  <2>2. deposits' \subseteq In!Runs \X In!Position \X (1..MaxSteps)
    <3>1. <<g.run, g.target, g.step>> \in In!Runs \X In!Position \X (1..MaxSteps)
      BY <1>3
    <3>2. QED
      BY <1>1, <1>5, <3>1 DEF In!TypeOK
  <2>3. QED
    BY <1>1, <1>2, <2>1, <2>2 DEF In!TypeOK
<1>7. ControlInv'
  BY <1>1, <1>2 DEF ControlInv
<1>8. OrderInv' /\ GhostInv'
  BY <1>1, <1>2, <1>5 DEF OrderInv, GhostInv
<1>9. ReadyInv'
  BY <1>1, <1>2, <1>5 DEF ReadyInv
<1>10. PatientInv'
  BY <1>2, <1>3 DEF PatientInv
<1>11. QED
  BY <1>6, <1>7, <1>8, <1>9, <1>10 DEF InInv

\* The steps that change neither the chain nor the bundle's transactions.
LEMMA InTalks ==
    ASSUME In!ZapInConstants, InInv,
           In!Settle \/ In!Finish \/ In!Abort \/ In!Inspect \/ (\E g \in ghosts : In!ExpireGhost(g))
    PROVE  InInv'
<1>1. /\ In!TypeOK /\ ControlInv /\ OrderInv /\ GhostInv /\ ReadyInv /\ PatientInv
  BY DEF InInv
<1>2. UNCHANGED <<work, landed, steps, deferred, target, protocol, patient, run, positions, deposits, open>>
  BY
     DEF In!Settle, In!Finish, In!Abort, In!Inspect, In!ExpireGhost, In!B!Settle,
         In!B!Complete, In!B!Stop
<1>3. OrderInv' /\ ReadyInv'
  BY <1>1, <1>2 DEF OrderInv, ReadyInv
<1>4. CASE In!Settle
  <2>1. late' = FALSE /\ UNCHANGED <<verdict, phase, ghosts, reported>>
    BY <1>4 DEF In!Settle, In!B!Settle
  <2>2. In!TypeOK'
    BY <1>1, <1>2, <2>1 DEF In!TypeOK
  <2>3. ControlInv'
    BY <1>1, <1>2, <2>1 DEF ControlInv
  <2>4. GhostInv' /\ PatientInv'
    BY <1>1, <1>2, <2>1 DEF GhostInv, PatientInv
  <2>5. QED
    BY <1>3, <2>2, <2>3, <2>4 DEF InInv
<1>5. CASE In!Finish
  <2>1. /\ phase = "sent" /\ phase' = "satisfied" /\ verdict = "running" /\ verdict' = "complete"
        /\ landed = work /\ UNCHANGED <<late, ghosts, reported>>
    BY <1>5 DEF In!Finish, In!B!Complete
  <2>2. In!TypeOK'
    BY <1>1, <1>2, <2>1 DEF In!TypeOK
  <2>3. ControlInv'
    BY <1>1, <1>2, <2>1 DEF ControlInv
  <2>4. GhostInv' /\ PatientInv'
    BY <1>1, <1>2, <2>1 DEF GhostInv, PatientInv
  <2>5. QED
    BY <1>3, <2>2, <2>3, <2>4 DEF InInv
<1>6. CASE In!Abort
  <2>1. /\ phase = "sent" /\ phase' = "inspect" /\ verdict = "running" /\ verdict' = "stopped"
        /\ late' \in BOOLEAN /\ reported' = target /\ UNCHANGED ghosts
    BY <1>6 DEF In!Abort, In!B!Stop
  <2>2. In!TypeOK'
    BY <1>1, <1>2, <2>1 DEF In!TypeOK
  <2>3. ControlInv'
    BY <1>1, <1>2, <2>1 DEF ControlInv
  <2>4. GhostInv' /\ PatientInv'
    BY <1>1, <1>2, <2>1 DEF GhostInv, PatientInv
  <2>5. QED
    BY <1>3, <2>2, <2>3, <2>4 DEF InInv
<1>7. CASE In!Inspect
  <2>1. /\ phase = "inspect" /\ (patient => ~late /\ ghosts = {})
        /\ phase' = IF deposits # {} THEN "satisfied" ELSE "choose"
        /\ UNCHANGED <<verdict, late, ghosts, reported>>
    BY <1>7 DEF In!Inspect
  <2>2. In!TypeOK'
    BY <1>1, <1>2, <2>1 DEF In!TypeOK
  <2>3. ControlInv'
    BY <1>1, <1>2, <2>1 DEF ControlInv
  <2>4. GhostInv'
    BY <1>1, <1>2, <2>1 DEF GhostInv, OrderInv
  <2>5. PatientInv'
    BY <1>1, <1>2, <2>1 DEF PatientInv
  <2>6. QED
    BY <1>3, <2>2, <2>3, <2>4, <2>5 DEF InInv
<1>8. ASSUME NEW g \in ghosts, In!ExpireGhost(g) PROVE InInv'
  <2>1. /\ ghosts' = ghosts \ {g} /\ UNCHANGED <<verdict, late, phase, reported>>
    BY <1>8 DEF In!ExpireGhost
  <2>2. In!TypeOK'
    BY <1>1, <1>2, <2>1 DEF In!TypeOK
  <2>3. ControlInv'
    BY <1>1, <1>2, <2>1 DEF ControlInv
  <2>4. GhostInv' /\ PatientInv'
    BY <1>1, <1>2, <2>1 DEF GhostInv, PatientInv
  <2>5. QED
    BY <1>3, <2>2, <2>3, <2>4 DEF InInv
<1>9. QED
  BY <1>4, <1>5, <1>6, <1>7, <1>8

\* The inductive step.
LEMMA InStep ==
    ASSUME In!ZapInConstants, InInv, [In!Next]_In!vars
    PROVE  InInv'
<1>1. CASE UNCHANGED In!vars
  <2>1. UNCHANGED <<work, landed, verdict, late, steps, deferred, target, protocol, patient, phase, run,
                    positions, deposits, open, ghosts, reported>>
    BY <1>1 DEF In!vars
  <2>2. In!TypeOK' /\ ControlInv'
    BY <2>1 DEF InInv, In!TypeOK, ControlInv
  <2>3. OrderInv' /\ GhostInv' /\ ReadyInv' /\ PatientInv'
    BY <2>1 DEF InInv, OrderInv, GhostInv, ReadyInv, PatientInv
  <2>4. QED
    BY <2>2, <2>3 DEF InInv
<1>2. CASE In!Next
  BY <1>2, InStarts, InLands, InGhostLands, InTalks DEF In!Next
<1>3. QED
  BY <1>1, <1>2

\* The initial states satisfy the invariant.
LEMMA InStart ==
    ASSUME In!ZapInConstants, In!Init
    PROVE  InInv
<1>1. In!TypeOK
  <2>1. /\ protocol \in {"dammV2", "dlmm"} /\ patient \in Patience /\ work = {} /\ landed = {}
        /\ verdict = "stopped" /\ late = FALSE /\ steps = <<>> /\ deferred = {} /\ target = In!NoPosition
        /\ phase = "choose" /\ run = 0 /\ positions \subseteq {In!Old} /\ deposits = {} /\ open = {}
        /\ reported = In!NoPosition
    BY DEF In!Init
  <2>2. run \in 0..MaxRuns /\ positions \subseteq In!Position /\ DOMAIN steps = work
    BY <2>1 DEF In!Position, In!ZapInConstants
  <2>3. QED
    BY <2>1, <2>2 DEF In!TypeOK
<1>2. ControlInv
  BY DEF In!Init, ControlInv
<1>3. OrderInv /\ GhostInv /\ ReadyInv
  BY DEF In!Init, OrderInv, GhostInv, ReadyInv
<1>4. PatientInv
  BY DEF In!Init, PatientInv
<1>5. QED
  BY <1>1, <1>2, <1>3, <1>4 DEF InInv

\* A set with no two elements has at most one.
LEMMA AtMostOne ==
    ASSUME NEW S, NEW x, S \subseteq {x}
    PROVE  In!Cardinality(S) <= 1
<1>1. In!Cardinality(S) = Cardinality(S)
  BY Zenon DEF In!Cardinality, Cardinality
<1>2. S = {} \/ S = {x}
  OBVIOUS
<1>3. QED
  BY <1>1, <1>2, FS_EmptySet, FS_Singleton

\* The invariant implies the properties of ZapIn.
LEMMA InSound ==
    ASSUME In!ZapInConstants, InInv
    PROVE  In!TypeOK /\ In!OneDeposit /\ In!DepositReady /\ In!CompleteIsClean
<1>1. /\ In!TypeOK /\ ControlInv /\ OrderInv /\ GhostInv /\ ReadyInv /\ PatientInv /\ MaxSteps \in Nat
  BY DEF InInv, In!ZapInConstants
<1>2. In!OneDeposit
  BY <1>1, AtMostOne DEF PatientInv, In!OneDeposit
<1>3. In!DepositReady
  <2> SUFFICES ASSUME NEW i \in work, i \notin landed, verdict = "running", "zapIn" \in In!OpsOf(steps, i),
                      \A j \in work : j < i => j \in landed
               PROVE  "ledger" \in open /\ (protocol = "dammV2" => target \in positions)
    BY DEF In!DepositReady
  <2>1. Has(steps[i], "zapIn")
    BY DEF In!OpsOf, Has
  <2>2. run > 0 /\ Shape(steps) /\ DOMAIN steps = work /\ landed \subseteq work
    BY <1>1 DEF ControlInv, In!TypeOK
  <2>3. i = Len(steps) - 1 /\ Len(steps) \in Nat /\ Len(steps) - 2 \in work /\ Len(steps) - 2 < i
    BY <1>1, <2>1, <2>2, ShapeHas, ShapeFacts
  <2>4. Len(steps) - 2 \in landed /\ Has(steps[Len(steps) - 2], "ledger")
    BY <2>2, <2>3, ShapeHas
  <2>5. ASSUME NEW k \in landed, Has(steps[k], "cleanUp") PROVE FALSE
    <3>1. k = Len(steps)
      BY <2>2, <2>5, ShapeHas
    <3>2. i < k
      BY <2>3, <3>1
    <3>3. QED
      BY <1>1, <3>2 DEF OrderInv
  <2>6. "ledger" \in open
    BY <1>1, <2>4, <2>5 DEF ReadyInv
  <2>7. protocol = "dammV2" => target \in positions
    BY <1>1, <2>2, <2>4 DEF ReadyInv
  <2>8. QED
    BY <2>6, <2>7
<1>4. In!CompleteIsClean
  <2> SUFFICES ASSUME patient, verdict = "complete" PROVE open = {}
    BY DEF In!CompleteIsClean
  <2>1. landed = work
    BY <1>1 DEF ControlInv
  <2>2. run > 0 /\ Shape(steps) /\ DOMAIN steps = work
    BY <1>1 DEF ControlInv, In!TypeOK
  <2>3. Len(steps) \in landed /\ Has(steps[Len(steps)], "cleanUp")
    BY <1>1, <2>1, <2>2, ShapeHas, ShapeFacts
  <2>4. QED
    BY <1>1, <2>3 DEF PatientInv
<1>5. QED
  BY <1>1, <1>2, <1>3, <1>4

-----------------------------------------------------------------------------
(* ZapOut *)

\* The removal a plan has put in its transactions, and the swap it added, are those of a
\* position that holds sum tokens.
Estimates(p, sum) == p.max = sum /\ p.swap = (sum # 0)
\* The balance a swap leaves in the wallet is what the wallet held before the command.
Snapshot(p)  == p.swap => p.pre = Held

\* Where the bundle is: it runs in phase sent, and only a stopped one has a late transaction.
BundleInv ==
    /\ late => phase = "idle" /\ verdict = "stopped"
    /\ verdict = "running" <=> phase = "sent"

\* Every plan that can still act, that of a transaction in flight included, was made when
\* the wallet held at least its own tokens: the swap of zapOut never reaches below them.
PlanInv ==
    /\ wallet >= Held
    /\ (phase = "sent" \/ late) /\ plan.swap => plan.pre >= Held
    /\ \A g \in ghosts : g.plan.swap => g.plan.pre >= Held

\* A position that one transaction empties, while its price does not move: each plan,
\* whichever invocation made it, asks for exactly what the position holds.
SingleInv ==
    Out!Last = 1 /\ shifts = 0 =>
        /\ wallet = Held
        /\ ~closed => /\ phase # "idle" \/ late => Estimates(plan, position[1].x)
                      /\ phase = "sent" \/ late => Snapshot(plan)
                      /\ \A g \in ghosts : Estimates(g.plan, position[1].x) /\ Snapshot(g.plan)

\* A command whose transactions all land and whose price does not move: what the wallet
\* holds above its own tokens is what the landed removals took out of the position.
FirstInv ==
    faults = 0 /\ shifts = 0 =>
        /\ ghosts = {}
        /\ closed => wallet = Held
        /\ ~closed /\ phase = "idle" => verdict = "stopped" /\ ~late /\ wallet = Held
        /\ ~closed /\ phase = "read" => verdict = "stopped" /\ wallet = Held /\ Estimates(plan, Out!SumX(position))
        /\ ~closed /\ phase = "sent" => /\ wallet + Out!SumX(position) = Held + plan.max
                                        /\ plan.swap = (plan.max # 0) /\ Snapshot(plan)
                                        /\ Out!Last \notin landed
                                        /\ \A c \in landed : position[c] = Out!Emptied

\* The inductive invariant of ZapOut.
OutInv == Out!TypeOK /\ BundleInv /\ PlanInv /\ SingleInv /\ FirstInv

-----------------------------------------------------------------------------
\* Cardinality in the instance ZapOut is the Cardinality the theorems are about.
LEMMA SameCardinality == \A S : Out!Cardinality(S) = Cardinality(S)
BY Zenon DEF Out!Cardinality, Cardinality

\* An interval of numbers is finite.
LEMMA Numbers ==
    ASSUME NEW n \in Nat
    PROVE  IsFiniteSet(1..n) /\ Cardinality(1..n) = n
BY FS_Interval

\* There are finitely many removal transactions, numbered from one.
LEMMA WorkFinite ==
    ASSUME Out!ZapOutConstants, Out!TypeOK
    PROVE  /\ IsFiniteSet(work) /\ Out!Last \in work /\ work = 1..Out!Last
           /\ Out!Last \in Nat
BY FS_Interval DEF Out!ZapOutConstants, Out!TypeOK, Out!Last

\* What a position can hold, chunk by chunk.
Contents == [work -> [x : Nat, y : Nat]]

\* A position holds finitely many tokens.
LEMMA TokensFinite ==
    ASSUME IsFiniteSet(work), NEW p \in Contents
    PROVE  IsFiniteSet(Out!Tokens(p))
<1> DEFINE f == [c \in work |-> {c} \X (1..p[c].x)]
           T == {{c} \X (1..p[c].x) : c \in work}
<1>1. f \in Surjection(work, T)
  BY DEF Surjection
<1>2. IsFiniteSet(T)
  BY <1>1, FS_Surjection
<1>3. \A S \in T : IsFiniteSet(S)
  <2>1. ASSUME NEW c \in work
        PROVE  IsFiniteSet({c} \X (1..p[c].x))
    <3>1. p[c].x \in Nat
      BY DEF Contents
    <3>2. IsFiniteSet(1..p[c].x)
      BY <3>1, FS_Interval
    <3>3. QED
      BY <3>2, FS_Singleton, FS_Product
  <2>2. QED
    BY <2>1
<1>4. QED
  BY <1>2, <1>3, FS_UNION DEF Out!Tokens, Out!Chunk

\* A token belongs to the chunk that holds it.
LEMMA TokensMember ==
    ASSUME NEW p, NEW t
    PROVE  t \in Out!Tokens(p) <=> \E c \in work : t \in {c} \X (1..p[c].x)
BY Zenon DEF Out!Tokens, Out!Chunk

\* A position's content is a number.
LEMMA SumType ==
    ASSUME IsFiniteSet(work), NEW p \in Contents
    PROVE  Out!SumX(p) \in Nat
BY TokensFinite, SameCardinality, FS_CardinalityType DEF Out!SumX

\* Emptying a chunk takes its tokens, and only them, out of the sum.
LEMMA SumRemove ==
    ASSUME IsFiniteSet(work), NEW p \in Contents, NEW c \in work
    PROVE  Out!SumX([p EXCEPT ![c] = Out!Emptied]) = Out!SumX(p) - p[c].x
<1> DEFINE q == [p EXCEPT ![c] = Out!Emptied]
           C == {c} \X (1..p[c].x)
<1>1. p[c].x \in Nat
  BY DEF Contents
<1>2. IsFiniteSet(C) /\ Cardinality(C) = p[c].x
  <2>1. IsFiniteSet(1..p[c].x) /\ Cardinality(1..p[c].x) = p[c].x
    BY <1>1, Numbers
  <2>2. IsFiniteSet({c}) /\ Cardinality({c}) = 1
    BY FS_Singleton
  <2>3. IsFiniteSet(C) /\ Cardinality(C) = Cardinality({c}) * Cardinality(1..p[c].x)
    BY <2>1, <2>2, FS_Product
  <2>4. QED
    BY <1>1, <2>1, <2>2, <2>3
<1>3. C \subseteq Out!Tokens(p)
  BY TokensMember
<1>4. Out!Tokens(q) = Out!Tokens(p) \ C
  <2>1. ASSUME NEW d \in work
        PROVE  {d} \X (1..q[d].x) = ({d} \X (1..p[d].x)) \ C
    <3>1. CASE d = c
      BY <3>1, <1>1 DEF Out!Emptied, Contents
    <3>2. CASE d # c
      BY <3>2 DEF Contents
    <3>3. QED
      BY <3>1, <3>2
  <2>2. ASSUME NEW t
        PROVE  t \in Out!Tokens(q) <=> t \in Out!Tokens(p) \ C
    <3>1. t \in Out!Tokens(q) <=> \E d \in work : t \in ({d} \X (1..p[d].x)) \ C
      BY <2>1, TokensMember, Zenon
    <3>2. QED
      BY <3>1, TokensMember, Zenon
  <2>3. QED
    BY <2>2
<1>5. Cardinality(Out!Tokens(p) \ C) = Cardinality(Out!Tokens(p)) - Cardinality(C)
  <2>1. Out!Tokens(p) \cap C = C
    BY <1>3
  <2>2. IsFiniteSet(Out!Tokens(p))
    BY TokensFinite
  <2>3. Cardinality(Out!Tokens(p) \ C) =
          Cardinality(Out!Tokens(p)) - Cardinality(Out!Tokens(p) \cap C)
    BY <2>2, FS_Difference
  <2>4. QED
    BY <2>1, <2>3
<1>6. QED
  BY <1>2, <1>4, <1>5, SameCardinality DEF Out!SumX

\* If all other chunks are empty, the sum is what the chunk holds.
LEMMA SumLast ==
    ASSUME IsFiniteSet(work), NEW p \in Contents, NEW c \in work,
           \A d \in work \ {c} : p[d] = Out!Emptied
    PROVE  Out!SumX(p) = p[c].x
<1> DEFINE q == [p EXCEPT ![c] = Out!Emptied]
<1>1. \A d \in work : q[d].x = 0
  BY DEF Out!Emptied, Contents
<1>2. Out!Tokens(q) = {}
  <2>1. ASSUME NEW t \in Out!Tokens(q) PROVE FALSE
    <3>1. PICK d \in work : t \in {d} \X (1..q[d].x)
      BY TokensMember
    <3>2. 1..q[d].x = {}
      BY <1>1
    <3>3. QED
      BY <3>1, <3>2
  <2>2. QED
    BY <2>1
<1>3. Out!SumX(q) = 0
  BY <1>2, FS_EmptySet, SameCardinality DEF Out!SumX
<1>4. Out!SumX(p) \in Nat /\ p[c].x \in Nat
  BY SumType DEF Contents
<1>5. QED
  BY <1>3, <1>4, SumRemove

USE DEF Out!bundleVars, Out!chainVars

-----------------------------------------------------------------------------
\* The numbers a transaction computes with are numbers.
LEMMA TxFacts ==
    ASSUME Out!ZapOutConstants, Out!TypeOK, NEW c \in work, NEW p \in Out!Plans
    PROVE  /\ position[c].x \in Nat /\ wallet \in Nat /\ converted \in Nat /\ Held \in Nat
           /\ p.pre \in Nat /\ p.max \in Nat /\ p.swap \in BOOLEAN
BY DEF Out!TypeOK, Out!Chunk, Out!Plans, Out!ZapOutConstants

\* A transaction that only removes credits the wallet with what its chunk held.
LEMMA TxPlain ==
    ASSUME Out!ZapOutConstants, Out!TypeOK, NEW c \in work, NEW p \in Out!Plans, Out!Tx(c, p),
           ~(c = Out!Last /\ p.swap)
    PROVE  wallet' = wallet + position[c].x /\ converted' = converted
BY TxFacts DEF Out!Tx

\* The last transaction also swaps, down to the balance read when the command started and
\* by no more than the amount the plan asked for.
LEMMA TxSwaps ==
    ASSUME Out!ZapOutConstants, Out!TypeOK, NEW c \in work, NEW p \in Out!Plans, Out!Tx(c, p),
           c = Out!Last, p.swap
    PROVE  /\ wallet' \in Nat /\ converted' \in Nat /\ wallet' >= p.pre
           /\ wallet + position[c].x - p.pre <= p.max => wallet' = p.pre
           /\ wallet + position[c].x - p.pre > p.max => wallet' = wallet + position[c].x - p.max
BY TxFacts DEF Out!Tx, Out!Lesser

\* A transaction leaves the chain in a state of the model.
LEMMA TxType ==
    ASSUME Out!ZapOutConstants, Out!TypeOK, NEW c \in work, NEW p \in Out!Plans, Out!Tx(c, p)
    PROVE  /\ position' \in Contents /\ closed' \in BOOLEAN
           /\ wallet' \in Nat /\ converted' \in Nat
<1>1. position' \in Contents /\ closed' \in BOOLEAN
  BY DEF Out!Tx, Out!TypeOK, Contents, Out!Emptied, Out!Chunk
<1>2. CASE c = Out!Last /\ p.swap
  BY <1>1, <1>2, TxSwaps
<1>3. CASE ~(c = Out!Last /\ p.swap)
  BY <1>1, <1>3, TxPlain, TxFacts
<1>4. QED
  BY <1>2, <1>3

\* A transaction whose plan saw the wallet's own tokens leaves them there.
LEMMA TxSafe ==
    ASSUME Out!ZapOutConstants, Out!TypeOK, NEW c \in work, NEW p \in Out!Plans, Out!Tx(c, p),
           wallet >= Held, p.swap => p.pre >= Held
    PROVE  wallet' >= Held
<1>1. position[c].x \in Nat /\ wallet \in Nat /\ wallet' \in Nat /\ Held \in Nat /\ p.pre \in Nat
  BY TxType, TxFacts
<1>2. CASE c = Out!Last /\ p.swap
  <2>1. wallet' >= p.pre
    BY <1>2, TxSwaps
  <2>2. QED
    BY <1>1, <1>2, <2>1
<1>3. CASE ~(c = Out!Last /\ p.swap)
  <2>1. wallet' = wallet + position[c].x
    BY <1>3, TxPlain
  <2>2. QED
    BY <1>1, <2>1
<1>4. QED
  BY <1>2, <1>3

\* What an aborted bundle leaves in flight is a transaction of that bundle.
LEMMA LeftoverType ==
    ASSUME Out!TypeOK
    PROVE  \A g \in Out!Leftover : late /\ g.chunk \in work /\ g.plan = plan
BY DEF Out!Leftover, Out!Chunk, Out!TypeOK

\* A transaction of the present bundle lands in its turn, with the bundle's plan.
LEMMA LandsHere ==
    ASSUME Out!TypeOK, NEW c \in work, Out!LandNow(c)
    PROVE  /\ c \notin landed /\ \A r \in work : r < c => r \in landed
           /\ landed' = landed \union {c} /\ late' = FALSE
           /\ verdict = "running" \/ (verdict = "stopped" /\ late)
           /\ UNCHANGED <<work, verdict, phase, plan, ghosts, faults, shifts>>
           /\ Out!Tx(c, plan)
BY DEF Out!LandNow, Out!B!Land, Out!TypeOK

\* The number of transactions never changes; faults and price moves are never forgotten.
LEMMA NextFixes ==
    ASSUME [Out!Next]_Out!vars, shifts \in Nat, faults \in Nat
    PROVE  work' = work /\ (shifts' = 0 => shifts = 0) /\ (faults' = 0 => faults = 0)
<1>1. CASE \E c \in work : Out!Shift(c)
  BY <1>1 DEF Out!Shift
<1>2. CASE ~\E c \in work : Out!Shift(c)
  BY <1>2
     DEF Out!Next, Out!Run, Out!vars, Out!ReadPosition, Out!Build, Out!Finish, Out!Fail,
     Out!LandNow, Out!LandGhost, Out!ExpireGhost, Out!Settle, Out!Chunk,
     Out!B!Complete, Out!B!Stop, Out!B!Settle, Out!B!Land
<1>3. QED
  BY <1>1, <1>2

-----------------------------------------------------------------------------
\* Every step keeps the state in the model.
LEMMA OutType ==
    ASSUME Out!ZapOutConstants, OutInv, [Out!Next]_Out!vars
    PROVE  Out!TypeOK'
<1> USE DEF OutInv, Out!Chunk, Out!Plans
<1>1. IsFiniteSet(work) /\ Out!Last \in Nat
  BY WorkFinite
<1>2. Out!Last' = Out!Last /\ work' = work
  BY DEF Out!Next, Out!Run, Out!vars, Out!ReadPosition, Out!Build, Out!Finish, Out!Fail,
  Out!LandNow, Out!LandGhost, Out!ExpireGhost, Out!Settle, Out!Shift, Out!Last,
  Out!B!Complete, Out!B!Stop, Out!B!Settle, Out!B!Land
<1> USE <1>1, <1>2
<1>3. CASE Out!ReadPosition
  <2>1. position \in Contents
    BY DEF Out!TypeOK, Contents
  <2>2. Out!SumX(position) \in Nat
    BY <2>1, SumType
  <2>3. QED
    BY <1>3, <2>2, LeftoverType DEF Out!ReadPosition, Out!TypeOK, Out!NoPlan
<1>4. CASE Out!Build
  BY <1>4 DEF Out!Build, Out!TypeOK
<1>5. CASE Out!Finish \/ Out!Fail \/ Out!Settle
  <2>1. CASE Out!Finish
    BY <2>1 DEF Out!Finish, Out!TypeOK, Out!B!Complete
  <2>2. CASE Out!Fail
    <3>1. faults' \in 0..Faults
      BY <2>2 DEF Out!Fail, Out!TypeOK, Out!ZapOutConstants
    <3>2. QED
      BY <2>2, <3>1 DEF Out!Fail, Out!TypeOK, Out!B!Stop
  <2>3. CASE Out!Settle
    BY <2>3 DEF Out!Settle, Out!TypeOK, Out!B!Settle
  <2>4. QED
    BY <1>5, <2>1, <2>2, <2>3
<1>6. ASSUME NEW c \in work, Out!LandNow(c) PROVE Out!TypeOK'
  BY <1>6, LandsHere, TxType DEF Out!TypeOK, Contents
<1>7. ASSUME NEW g \in ghosts, Out!LandGhost(g) \/ Out!ExpireGhost(g) PROVE Out!TypeOK'
  <2>1. CASE Out!LandGhost(g)
    BY <2>1, TxType DEF Out!TypeOK, Contents, Out!LandGhost
  <2>2. CASE Out!ExpireGhost(g)
    BY <2>2 DEF Out!TypeOK, Out!ExpireGhost
  <2>3. QED
    BY <1>7, <2>1, <2>2
<1>8. ASSUME NEW c \in work, Out!Shift(c) PROVE Out!TypeOK'
  <2>1. position' \in [work -> [x : Nat, y : Nat]]
    <3>1. position[c] \in [x : Nat, y : Nat] /\ position \in [work -> [x : Nat, y : Nat]]
      BY DEF Out!TypeOK
    <3>2. CASE position[c].x > 0 /\ position' = [position EXCEPT ![c] = [x |-> @.x - 1, y |-> @.y + 1]]
      BY <3>1, <3>2
    <3>3. CASE position[c].y > 0 /\ position' = [position EXCEPT ![c] = [x |-> @.x + 1, y |-> @.y - 1]]
      BY <3>1, <3>3
    <3>4. QED
      BY <1>8, <3>2, <3>3 DEF Out!Shift
  <2>2. shifts' \in 0..Shifts
    <3>1. shifts \in 0..Shifts /\ shifts < Shifts /\ shifts' = shifts + 1 /\ Shifts \in Nat
      BY Zenon, <1>8 DEF Out!Shift, Out!TypeOK, Out!ZapOutConstants
    <3>2. QED
      BY <3>1
  <2>3. UNCHANGED <<work, landed, verdict, late, closed, wallet, converted, phase, plan, ghosts, faults>>
    BY <1>8 DEF Out!Shift, Out!bundleVars
  <2>4. QED
    BY <2>1, <2>2, <2>3, SMTT(60) DEF Out!TypeOK
<1>9. CASE UNCHANGED Out!vars
  BY <1>9 DEF Out!vars, Out!TypeOK
<1>10. QED
  BY <1>3, <1>4, <1>5, <1>6, <1>7, <1>8, <1>9 DEF Out!Next, Out!Run

\* Every step keeps the wallet's own tokens out of reach of every plan.
LEMMA OutSafe ==
    ASSUME Out!ZapOutConstants, OutInv, [Out!Next]_Out!vars
    PROVE  BundleInv' /\ PlanInv'
<1> USE DEF OutInv, BundleInv, PlanInv, Out!Chunk
<1>1. Held \in Nat /\ wallet \in Nat /\ plan \in Out!Plans
      /\ \A g \in ghosts : g.chunk \in work /\ g.plan \in Out!Plans
      /\ \A c \in work : position[c].x \in Nat
      /\ verdict \in {"running", "complete", "stopped"} /\ phase \in {"idle", "read", "sent"}
  BY DEF Out!TypeOK, Out!ZapOutConstants
<1>2. CASE Out!ReadPosition
  BY <1>1, <1>2, LeftoverType DEF Out!ReadPosition, Out!NoPlan
<1>3. CASE Out!Build
  BY <1>1, <1>3 DEF Out!Build, Out!Plans
<1>4. CASE Out!Finish
  BY <1>1, <1>4 DEF Out!Finish, Out!B!Complete
<1>5. CASE Out!Fail
  BY <1>1, <1>5 DEF Out!Fail, Out!B!Stop
<1>6. CASE Out!Settle
  BY <1>1, <1>6 DEF Out!Settle, Out!B!Settle
<1>7. ASSUME NEW c \in work, Out!LandNow(c) PROVE BundleInv' /\ PlanInv'
  <2>1. UNCHANGED <<verdict, phase, plan, ghosts>> /\ late' = FALSE /\ Out!Tx(c, plan)
    BY <1>7, LandsHere
  <2>2. plan.swap => plan.pre >= Held
    BY <1>1, <1>7, LandsHere
  <2>3. wallet' >= Held
    BY <1>1, <2>1, <2>2, TxSafe
  <2>4. QED
    BY <2>1, <2>2, <2>3
<1>8. ASSUME NEW g \in ghosts, Out!LandGhost(g) PROVE BundleInv' /\ PlanInv'
  <2>1. Out!Tx(g.chunk, g.plan)
    BY <1>8 DEF Out!LandGhost
  <2>2. wallet' >= Held
    BY <1>1, <2>1, TxSafe
  <2>3. QED
    BY <1>8, <2>2 DEF Out!LandGhost
<1>9. ASSUME NEW g \in ghosts, Out!ExpireGhost(g) PROVE BundleInv' /\ PlanInv'
  BY <1>9 DEF Out!ExpireGhost
<1>10. ASSUME NEW c \in work, Out!Shift(c) PROVE BundleInv' /\ PlanInv'
  BY <1>10 DEF Out!Shift
<1>11. CASE UNCHANGED Out!vars
  BY <1>11 DEF Out!vars
<1>12. QED
  BY <1>2, <1>3, <1>4, <1>5, <1>6, <1>7, <1>8, <1>9, <1>10, <1>11 DEF Out!Next, Out!Run

\* A position that stays holds what it held.
LEMMA SameSum == ASSUME UNCHANGED <<work, position>>
                PROVE Out!SumX(position') = Out!SumX(position) /\ Out!SumX(position)' = Out!SumX(position)
BY DEF Out!SumX, Out!Tokens, Out!Chunk, Out!Cardinality

\* The parts of the type invariant that the arithmetic needs.
LEMMA OutTypes ==
    ASSUME Out!ZapOutConstants, Out!TypeOK
    PROVE  /\ Held \in Nat /\ wallet \in Nat /\ plan \in Out!Plans /\ shifts \in Nat /\ faults \in Nat
           /\ \A g \in ghosts : g.chunk \in work /\ g.plan \in Out!Plans
           /\ \A c \in work : position[c].x \in Nat
           /\ position \in Contents /\ IsFiniteSet(work)
BY WorkFinite DEF Out!TypeOK, Out!ZapOutConstants, Out!Chunk, Contents

\* Every step keeps the plans of a one-transaction position exact: whatever lands empties the
\* position, so that a plan of another invocation finds it closed.
LEMMA OutSingle ==
    ASSUME Out!ZapOutConstants, OutInv, [Out!Next]_Out!vars
    PROVE  SingleInv'
<1> USE DEF Out!Chunk
<1>1. Out!TypeOK /\ BundleInv /\ SingleInv
  BY DEF OutInv
<1>2. Held \in Nat /\ wallet \in Nat /\ shifts \in Nat /\ faults \in Nat /\ plan \in Out!Plans
  BY <1>1, OutTypes
<1>3. work' = work /\ (shifts' = 0 => shifts = 0)
  BY <1>2, NextFixes
<1>4. CASE ~(Out!Last' = 1 /\ shifts' = 0)
  BY <1>4 DEF SingleInv
<1>5. CASE Out!Last' = 1 /\ shifts' = 0
  <2>1. Out!Last = 1 /\ shifts = 0
    BY <1>3, <1>5 DEF Out!Last, Out!Cardinality
  <2>2. work = {1}
    BY <1>1, <2>1, WorkFinite
  <2>3. position \in Contents /\ IsFiniteSet(work) /\ position[1].x \in Nat
    BY <1>1, <2>2, OutTypes
  <2>4. Out!SumX(position) = position[1].x
    BY <2>2, <2>3, SumLast
  <2>5. wallet = Held
    BY <1>1, <2>1 DEF SingleInv
  <2>6. /\ ~closed /\ (phase # "idle" \/ late) => Estimates(plan, position[1].x)
        /\ ~closed /\ (phase = "sent" \/ late) => Snapshot(plan)
        /\ ~closed => \A g \in ghosts : Estimates(g.plan, position[1].x) /\ Snapshot(g.plan)
    BY <1>1, <2>1 DEF SingleInv
  <2>7. ASSUME NEW c \in work, NEW p \in Out!Plans, Out!Tx(c, p),
               Estimates(p, position[1].x), Snapshot(p)
        PROVE  wallet' = Held /\ closed' = TRUE
    <3>1. c = Out!Last /\ c = 1 /\ closed' = TRUE
      BY <2>1, <2>2, <2>7 DEF Out!Tx
    <3>2. p.max = position[c].x /\ p.max \in Nat /\ p.swap = (p.max # 0)
      BY <2>3, <2>7, <3>1 DEF Estimates
    <3>3. CASE p.swap
      <4>1. p.pre = Held
        BY <2>7, <3>3 DEF Snapshot
      <4>2. wallet + position[c].x - p.pre <= p.max
        BY <1>2, <2>5, <3>2, <4>1
      <4>3. wallet' = p.pre
        BY <1>1, <2>7, <3>1, <3>3, <4>2, TxSwaps
      <4>4. QED
        BY <3>1, <4>1, <4>3
    <3>4. CASE ~p.swap
      <4>1. wallet' = wallet + position[c].x
        BY <1>1, <2>7, <3>4, TxPlain
      <4>2. p.max = 0
        BY <3>2, <3>4, Zenon
      <4>3. QED
        BY <1>2, <2>5, <3>1, <3>2, <4>1, <4>2
    <3>5. QED
      BY <3>3, <3>4
  <2>8. CASE Out!ReadPosition
    <3>1. \A g \in Out!Leftover : late /\ g.plan = plan
      BY <1>1, LeftoverType
    <3>2. wallet' = Held /\ position' = position /\ closed' = closed /\ late' = FALSE /\ phase' = "read"
          /\ ghosts' = ghosts \union Out!Leftover
          /\ Estimates(plan', Out!SumX(position))
      BY <2>5, <2>8 DEF Out!ReadPosition, Estimates, Out!NoPlan
    <3>3. ~closed => \A g \in ghosts' : Estimates(g.plan, position[1].x) /\ Snapshot(g.plan)
      BY <2>6, <3>1, <3>2
    <3>4. QED
      BY <2>4, <3>2, <3>3 DEF SingleInv
  <2>9. CASE Out!Build
    <3>1. Snapshot(plan') /\ \A x : Estimates(plan, x) => Estimates(plan', x)
      BY <1>2, <2>5, <2>9 DEF Out!Build, Snapshot, Out!Plans, Estimates
    <3>2. QED
      BY <2>5, <2>6, <2>9, <3>1 DEF Out!Build, SingleInv
  <2>10. CASE Out!Finish
    BY <2>5, <2>6, <2>10 DEF Out!Finish, Out!B!Complete, SingleInv
  <2>11. CASE Out!Fail
    BY <2>5, <2>6, <2>11 DEF Out!Fail, Out!B!Stop, SingleInv
  <2>12. CASE Out!Settle
    BY <2>5, <2>6, <2>12 DEF Out!Settle, Out!B!Settle, SingleInv
  <2>13. ASSUME NEW c \in work, Out!LandNow(c) PROVE wallet' = Held /\ closed' = TRUE
    <3>1. Out!Tx(c, plan) /\ (verdict = "running" \/ late)
      BY <1>1, <2>13, LandsHere
    <3>2. (phase = "sent" \/ late) /\ ~closed
      BY <1>1, <3>1 DEF BundleInv, Out!Tx
    <3>3. Estimates(plan, position[1].x) /\ Snapshot(plan)
      BY <2>6, <3>2
    <3>4. QED
      BY <1>2, <2>7, <3>1, <3>3
  <2>14. ASSUME NEW g \in ghosts, Out!LandGhost(g) PROVE wallet' = Held /\ closed' = TRUE
    <3>1. Out!Tx(g.chunk, g.plan) /\ ~closed
      BY <2>14 DEF Out!LandGhost, Out!Tx
    <3>2. g.chunk \in work /\ g.plan \in Out!Plans
      BY <1>1, OutTypes
    <3>3. Estimates(g.plan, position[1].x) /\ Snapshot(g.plan)
      BY <2>6, <3>1
    <3>4. QED
      BY <2>7, <3>1, <3>2, <3>3
  <2>15. ASSUME NEW g \in ghosts, Out!ExpireGhost(g) PROVE SingleInv'
    BY <2>5, <2>6, <2>15 DEF Out!ExpireGhost, SingleInv
  <2>16. ASSUME NEW c \in work PROVE ~Out!Shift(c)
    BY <1>2, <1>5, <2>1 DEF Out!Shift
  <2>17. CASE UNCHANGED Out!vars
    BY <2>5, <2>6, <2>17 DEF Out!vars, SingleInv
  <2>18. wallet' = Held /\ closed' = TRUE => SingleInv'
    BY DEF SingleInv
  <2>19. QED
    BY <2>8, <2>9, <2>10, <2>11, <2>12, <2>13, <2>14, <2>15, <2>16, <2>17, <2>18
       DEF Out!Next, Out!Run
<1>6. QED
  BY <1>4, <1>5

\* Every step keeps the account of a command without faults: what has left the position is
\* in the wallet, and the last transaction converts all of it.
LEMMA OutFirst ==
    ASSUME Out!ZapOutConstants, OutInv, [Out!Next]_Out!vars
    PROVE  FirstInv'
<1> USE DEF Out!Chunk
<1>1. Out!TypeOK /\ BundleInv /\ FirstInv
  BY DEF OutInv
<1>2. /\ Held \in Nat /\ wallet \in Nat /\ shifts \in Nat /\ faults \in Nat /\ plan \in Out!Plans
      /\ position \in Contents /\ IsFiniteSet(work)
  BY <1>1, OutTypes
<1>3. work' = work /\ (shifts' = 0 => shifts = 0) /\ (faults' = 0 => faults = 0)
  BY <1>2, NextFixes
<1>4. CASE ~(faults' = 0 /\ shifts' = 0)
  BY <1>4 DEF FirstInv
<1>5. CASE faults' = 0 /\ shifts' = 0
  <2>1. faults = 0 /\ shifts = 0
    BY <1>3, <1>5
  <2>2. Out!Last' = Out!Last /\ Out!Last \in work
    BY <1>1, <1>3, WorkFinite DEF Out!Last, Out!Cardinality
  <2>3. UNCHANGED position => Out!SumX(position)' = Out!SumX(position)
    BY <1>3, SameSum
  <2>4. /\ ghosts = {} /\ (closed => wallet = Held)
        /\ ~closed /\ phase = "idle" => verdict = "stopped" /\ ~late /\ wallet = Held
        /\ ~closed /\ phase = "read" => verdict = "stopped" /\ wallet = Held /\ Estimates(plan, Out!SumX(position))
    BY <1>1, <2>1 DEF FirstInv
  <2>5. ~closed /\ phase = "sent" => /\ wallet + Out!SumX(position) = Held + plan.max
                                     /\ plan.swap = (plan.max # 0) /\ Snapshot(plan)
                                     /\ Out!Last \notin landed
                                     /\ \A c \in landed : position[c] = Out!Emptied
    BY <1>1, <2>1 DEF FirstInv
  <2> USE <2>2, <2>3
  <2>6. CASE Out!ReadPosition
    <3>1. late = FALSE /\ ghosts' = {}
      <4>1. ~closed /\ phase = "idle"
        BY <2>6 DEF Out!ReadPosition, Out!HasLiquidity
      <4>2. QED
        BY <2>4, <2>6, <4>1 DEF Out!ReadPosition, Out!Leftover
    <3>2. Estimates(plan', Out!SumX(position))
      BY <2>6 DEF Out!ReadPosition, Estimates, Out!NoPlan
    <3>3. phase' = "read" /\ verdict' = "stopped" /\ wallet' = Held /\ position' = position
      BY <2>4, <2>6 DEF Out!ReadPosition, Out!HasLiquidity
    <3>4. QED
      BY <3>1, <3>2, <3>3 DEF FirstInv
  <2>7. CASE Out!Build
    <3>1. ghosts' = {} /\ wallet' = wallet /\ position' = position /\ closed' = closed /\ phase' = "sent"
          /\ landed' = {}
      BY <2>4, <2>7 DEF Out!Build
    <3>2. plan'.max = plan.max /\ plan'.swap = plan.swap
          /\ (plan.swap => plan'.pre = wallet)
      BY <1>2, <2>7 DEF Out!Build, Out!Plans
    <3>3. ~closed => wallet = Held /\ Estimates(plan, Out!SumX(position))
      BY <2>4, <2>7 DEF Out!Build
    <3>4. Out!SumX(position) \in Nat
      BY <1>2, SumType
    <3>5. ~closed => wallet' + Out!SumX(position)' = Held + plan'.max
      BY <1>2, <3>1, <3>2, <3>3, <3>4 DEF Estimates
    <3>6. ~closed => plan'.swap = (plan'.max # 0) /\ Snapshot(plan')
      BY <3>2, <3>3 DEF Estimates, Snapshot
    <3>7. QED
      BY <2>4, <3>1, <3>5, <3>6 DEF FirstInv
  <2>8. CASE Out!Finish
    <3>1. closed
      BY <2>5, <2>8 DEF Out!Finish, Out!B!Complete
    <3>2. QED
      BY <2>4, <2>8, <3>1 DEF Out!Finish, Out!B!Complete, FirstInv
  <2>9. CASE Out!Fail
    <3>1. closed
      BY <1>2, <1>5, <2>1, <2>9 DEF Out!Fail
    <3>2. QED
      BY <2>4, <2>9, <3>1 DEF Out!Fail, Out!B!Stop, FirstInv
  <2>10. CASE Out!Settle
    BY <2>4, <2>5, <2>10 DEF Out!Settle, Out!B!Settle, FirstInv
  <2>11. ASSUME NEW c \in work, Out!LandNow(c) PROVE FirstInv'
    <3>1. /\ c \notin landed /\ \A r \in work : r < c => r \in landed
          /\ landed' = landed \union {c} /\ Out!Tx(c, plan)
          /\ verdict = "running" \/ late
          /\ phase' = phase /\ plan' = plan /\ ghosts' = ghosts
      BY <1>1, <2>11, LandsHere
    <3>2. ~closed /\ position' = [position EXCEPT ![c] = Out!Emptied] /\ closed' = (c = Out!Last)
      BY <3>1 DEF Out!Tx
    <3>3. phase = "sent"
      BY <1>1, <2>4, <3>1, <3>2 DEF BundleInv, Out!TypeOK
    <3>4. position[c].x \in Nat /\ Out!SumX(position) \in Nat /\ plan.max \in Nat
      BY <1>2, SumType DEF Contents, Out!Plans
    <3>5. CASE c = Out!Last
      <4>1. \A d \in work \ {c} : d \in landed
        BY <1>1, <3>1, <3>5, WorkFinite
      <4>2. Out!SumX(position) = position[c].x
        BY <1>2, <2>5, <3>2, <3>3, <4>1, SumLast
      <4>3. wallet + position[c].x = Held + plan.max
        BY <2>5, <3>2, <3>3, <4>2
      <4>4. wallet' = Held
        <5>1. CASE plan.swap
          <6>1. plan.pre = Held
            BY <2>5, <3>2, <3>3, <5>1 DEF Snapshot
          <6>2. wallet + position[c].x - plan.pre <= plan.max
            BY <1>2, <3>4, <4>3, <6>1
          <6>3. QED
            BY <1>1, <1>2, <3>1, <3>5, <5>1, <6>1, <6>2, TxSwaps
        <5>2. CASE ~plan.swap
          <6>1. plan.max = 0
            BY <2>5, <3>2, <3>3, <5>2, Zenon
          <6>2. wallet' = wallet + position[c].x
            BY <1>1, <1>2, <3>1, <5>2, TxPlain
          <6>3. QED
            BY <1>2, <3>4, <4>3, <6>1, <6>2
        <5>3. QED
          BY <5>1, <5>2
      <4>5. QED
        BY <2>4, <3>1, <3>2, <3>5, <4>4 DEF FirstInv
    <3>6. CASE c # Out!Last
      <4>1. wallet' = wallet + position[c].x
        BY <1>1, <1>2, <3>1, <3>6, TxPlain
      <4>2. Out!SumX([position EXCEPT ![c] = Out!Emptied]) = Out!SumX(position) - position[c].x
        BY <1>2, SumRemove
      <4>3. Out!SumX(position)' = Out!SumX(position) - position[c].x
        BY <1>3, <3>2, <4>2 DEF Out!SumX, Out!Tokens, Out!Cardinality
      <4>4. wallet' + Out!SumX(position)' = Held + plan'.max
        BY <1>2, <2>5, <3>1, <3>2, <3>3, <3>4, <4>1, <4>3
      <4>5. Out!Last \notin landed' /\ \A d \in landed' : position'[d] = Out!Emptied
        BY <1>2, <2>5, <3>1, <3>2, <3>3, <3>6 DEF Contents, Out!Emptied
      <4>6. QED
        BY <2>4, <2>5, <3>1, <3>2, <3>3, <3>6, <4>4, <4>5 DEF FirstInv, Snapshot
    <3>7. QED
      BY <3>5, <3>6
  <2>12. ASSUME NEW g \in ghosts PROVE FALSE
    BY <2>4, <2>12
  <2>13. ASSUME NEW c \in work PROVE ~Out!Shift(c)
    BY <1>2, <1>5, <2>1 DEF Out!Shift
  <2>14. CASE UNCHANGED Out!vars
    BY <2>4, <2>5, <2>14 DEF Out!vars, FirstInv, Estimates, Snapshot
  <2>15. QED
    BY <2>6, <2>7, <2>8, <2>9, <2>10, <2>11, <2>12, <2>13, <2>14 DEF Out!Next, Out!Run
<1>6. QED
  BY <1>4, <1>5

\* The initial states satisfy the invariant.
LEMMA OutStart ==
    ASSUME Out!ZapOutConstants, Out!Init
    PROVE  OutInv
<1>1. PICK n \in 1..MaxChunks : work = 1..n
  BY DEF Out!Init
<1>2. Out!Last = n
  BY <1>1, Numbers, SameCardinality DEF Out!ZapOutConstants, Out!Last
<1>3. position \in [work -> [x : Nat, y : Nat]]
  BY DEF Out!Init, Out!Chunk, Out!ZapOutConstants
<1>4. Out!TypeOK
  <2>1. work = 1..Out!Last /\ Out!Last \in 1..MaxChunks
    BY <1>1, <1>2
  <2>2. Out!NoPlan \in Out!Plans
    BY DEF Out!NoPlan, Out!Plans
  <2>3. faults \in 0..Faults /\ shifts \in 0..Shifts /\ wallet \in Nat /\ converted \in Nat
    BY DEF Out!Init, Out!ZapOutConstants
  <2>4. landed = {} /\ ghosts = {} /\ plan = Out!NoPlan /\ closed = FALSE /\ late = FALSE
        /\ verdict = "stopped" /\ phase = "idle"
    BY DEF Out!Init
  <2>5. QED
    BY <1>3, <2>1, <2>2, <2>3, <2>4 DEF Out!TypeOK, Out!Chunk
<1>5. wallet = Held /\ wallet \in Nat
  BY DEF Out!Init, Out!ZapOutConstants
<1>6. BundleInv /\ PlanInv /\ SingleInv /\ FirstInv
  BY <1>5 DEF Out!Init, BundleInv, PlanInv, SingleInv, FirstInv
<1>7. QED
  BY <1>4, <1>6 DEF OutInv

\* The invariant implies the properties of ZapOut.
LEMMA OutSound ==
    ASSUME Out!ZapOutConstants, OutInv
    PROVE  Out!TypeOK /\ Out!OwnTokensKept /\ Out!FreedIsConverted
<1>1. Out!TypeOK /\ Out!OwnTokensKept
  BY DEF OutInv, PlanInv, Out!OwnTokensKept
<1>2. Out!Last = 1 /\ shifts = 0 => wallet = Held
  BY DEF OutInv, SingleInv
<1>3. verdict = "complete" /\ faults = 0 /\ shifts = 0 => wallet = Held
  BY DEF OutInv, FirstInv, BundleInv, Out!TypeOK
<1>4. QED
  BY <1>1, <1>2, <1>3 DEF Out!FreedIsConverted

-----------------------------------------------------------------------------
(* SeedLiquidity *)

\* What has to hold of a transaction of a seeding run once it was handed to the RPC, landed,
\* in flight or lost: nothing of a later stage is sent before its stage is reached, a
\* deposit only after all positions exist and after every deposit before it.
InOrder(t) ==
    /\ t.run <= run
    /\ t.run = run /\ t.kind = "init" => pc \in {"add", "done", "threw"}
    /\ t.run = run /\ t.kind = "add"  => pc \in {"add", "done", "threw"} /\ t.n < next
    /\ t.kind # "prove" => (seedOwner => proved)
    /\ t.kind = "add"   => /\ Seed!Inited = Seed!InitGroup
                           /\ \A n \in 1..(t.n - 1) : Seed!AddTx(n, t.run) \in landed

SentInv == \A t \in sent : InOrder(t)

\* Where the run is: nothing is awaited outside the stages that wait, the proof of ownership
\* precedes the positions, and the positions still to create cover the missing ones.
StageInv ==
    /\ pc \notin {"idle", "threw"} => run > 0
    /\ awaited # {} => pc \in {"prove", "add"}
    /\ \A t \in landed : t.kind = "prove" => proved
    /\ pc = "prove" /\ Seed!Prove(run) \in sent => Seed!Prove(run) \in awaited \union landed
    /\ pc \in {"prove", "init"} => next = 1
    /\ pc \in {"init", "add"} => (seedOwner => proved)
    /\ pc \in {"prove", "init", "add"} => Seed!InitGroup \subseteq todo \union Seed!Inited

\* What a stage leaves behind: every deposit up to the present one was sent and is awaited
\* or on chain, and a finished run has all of them on chain.
AddInv ==
    /\ pc = "add" => /\ \A n \in todo : Seed!InitTx(n, run) \in awaited \union landed
                     /\ \A n \in 1..(next - 1) : Seed!AddTx(n, run) \in awaited \union landed
    /\ pc = "done" => \A n \in Seed!AddGroup : Seed!AddTx(n, run) \in landed

\* The inductive invariant of SeedLiquidity.
SeedInv == Seed!TypeOK /\ SentInv /\ StageInv /\ AddInv

USE DEF Seed!chainVars

-----------------------------------------------------------------------------
\* The fields of the transactions.
LEMMA TxFields ==
    \A n, r : /\ Seed!Prove(r).kind = "prove" /\ Seed!Prove(r).run = r
              /\ Seed!InitTx(n, r).kind = "init" /\ Seed!InitTx(n, r).run = r /\ Seed!InitTx(n, r).n = n
              /\ Seed!AddTx(n, r).kind = "add" /\ Seed!AddTx(n, r).run = r /\ Seed!AddTx(n, r).n = n
BY DEF Seed!Prove, Seed!InitTx, Seed!AddTx

\* A transaction of the model is one of the three kinds, with the number that kind has.
LEMMA TxTypes ==
    ASSUME NEW t \in Seed!AllTxs
    PROVE  /\ t.run \in 1..SeedRuns /\ t.kind \in {"prove", "init", "add"}
           /\ t.kind = "prove" => t = Seed!Prove(t.run)
           /\ t.kind = "init" => t.n \in Seed!InitGroup /\ t = Seed!InitTx(t.n, t.run)
           /\ t.kind = "add" => t.n \in Seed!AddGroup /\ t = Seed!AddTx(t.n, t.run)
<1>1. PICK r \in 1..SeedRuns : t \in Seed!Txs(r)
  BY Zenon DEF Seed!AllTxs
<1>2. \/ t = Seed!Prove(r)
      \/ t \in {Seed!InitTx(n, r) : n \in Seed!InitGroup}
      \/ t \in {Seed!AddTx(n, r) : n \in Seed!AddGroup}
  BY <1>1 DEF Seed!Txs
<1>3. CASE t = Seed!Prove(r)
  BY <1>3, TxFields
<1>4. CASE t \in {Seed!InitTx(n, r) : n \in Seed!InitGroup}
  BY <1>4, TxFields
<1>5. CASE t \in {Seed!AddTx(n, r) : n \in Seed!AddGroup}
  BY <1>5, TxFields
<1>6. QED
  BY <1>2, <1>3, <1>4, <1>5

\* The transactions a run can send are transactions of the model.
LEMMA TxsMember ==
    ASSUME NEW r \in 1..SeedRuns
    PROVE  /\ Seed!Prove(r) \in Seed!AllTxs
           /\ \A n \in Seed!InitGroup : Seed!InitTx(n, r) \in Seed!AllTxs
           /\ \A n \in Seed!AddGroup : Seed!AddTx(n, r) \in Seed!AllTxs
<1>1. /\ Seed!Prove(r) \in Seed!Txs(r)
      /\ \A n \in Seed!InitGroup : Seed!InitTx(n, r) \in Seed!Txs(r)
      /\ \A n \in Seed!AddGroup : Seed!AddTx(n, r) \in Seed!Txs(r)
  BY DEF Seed!Txs
<1>2. QED
  BY <1>1, Zenon DEF Seed!AllTxs

\* The positions that exist are those whose transaction landed.
LEMMA InitedMember ==
    /\ \A t \in landed : t.kind = "init" => t.n \in Seed!Inited
    /\ \A n \in Seed!Inited : \E t \in landed : t.kind = "init" /\ t.n = n
BY DEF Seed!Inited

\* A position that exists stays.
LEMMA InitedMono ==
    ASSUME Seed!SeedLiquidityConstants, landed \subseteq landed', landed' \subseteq Seed!AllTxs
    PROVE  Seed!Inited \subseteq Seed!Inited' /\ Seed!Inited' \subseteq Seed!InitGroup
<1>1. Seed!Inited \subseteq Seed!Inited'
  BY DEF Seed!Inited
<1>2. \A n \in Seed!Inited' : \E t \in landed' : t.kind = "init" /\ t.n = n
  BY DEF Seed!Inited
<1>3. Seed!Inited' \subseteq Seed!InitGroup
  BY <1>2, TxTypes
<1>4. QED BY <1>1, <1>3

\* Positions appear with what lands.
LEMMA InitedSame ==
    ASSUME landed' = landed
    PROVE  Seed!Inited' = Seed!Inited
BY DEF Seed!Inited

\* The inductive step.  The client is sequential, so a later stage starts only when nothing
\* of the earlier one is awaited; what the chain still does can only add to what landed.
LEMMA SeedStep ==
    ASSUME Seed!SeedLiquidityConstants, SeedInv, [Seed!Next]_Seed!vars
    PROVE  SeedInv'
<1> USE DEF SeedInv
<1>1. CASE Seed!Build
  <2> USE <1>1 DEF Seed!Build
  <2>1. Seed!Inited' = Seed!Inited
    BY InitedSame
  <2>2. Seed!TypeOK'
    BY TxTypes, TxsMember, TxFields
       DEF Seed!TypeOK, StageInv, SentInv, InOrder, Seed!SeedLiquidityConstants
  <2>3. SentInv'
    BY <2>1, <2>2, TxTypes, TxFields
       DEF SentInv, InOrder, StageInv, AddInv, Seed!TypeOK, Seed!SeedLiquidityConstants
  <2>4. StageInv'
    BY <2>1, <2>2, TxTypes, TxFields
       DEF SentInv, InOrder, StageInv, AddInv, Seed!TypeOK, Seed!SeedLiquidityConstants
  <2>5. AddInv'
    BY <2>1, <2>2, TxTypes, TxFields
       DEF SentInv, InOrder, StageInv, AddInv, Seed!TypeOK, Seed!SeedLiquidityConstants,
           Seed!AddGroup
  <2>6. QED
    BY <2>2, <2>3, <2>4, <2>5
<1>2. CASE Seed!DryRunRefused
  <2> USE <1>2 DEF Seed!DryRunRefused, Seed!Throw
  <2>1. Seed!Inited' = Seed!Inited
    BY InitedSame
  <2>2. Seed!TypeOK'
    BY TxTypes, TxsMember, TxFields
       DEF Seed!TypeOK, StageInv, SentInv, InOrder, Seed!SeedLiquidityConstants
  <2>3. SentInv'
    BY <2>1, <2>2, TxTypes, TxFields
       DEF SentInv, InOrder, StageInv, AddInv, Seed!TypeOK, Seed!SeedLiquidityConstants
  <2>4. StageInv'
    BY <2>1, <2>2, TxTypes, TxFields
       DEF SentInv, InOrder, StageInv, AddInv, Seed!TypeOK, Seed!SeedLiquidityConstants
  <2>5. AddInv'
    BY <2>1, <2>2, TxTypes, TxFields
       DEF SentInv, InOrder, StageInv, AddInv, Seed!TypeOK, Seed!SeedLiquidityConstants,
           Seed!AddGroup
  <2>6. QED
    BY <2>2, <2>3, <2>4, <2>5
<1>3. CASE Seed!Finish
  <2> USE <1>3 DEF Seed!Finish
  <2>1. Seed!Inited' = Seed!Inited
    BY InitedSame
  <2>2. Seed!TypeOK'
    BY TxTypes, TxsMember, TxFields
       DEF Seed!TypeOK, StageInv, SentInv, InOrder, Seed!SeedLiquidityConstants
  <2>3. SentInv'
    BY <2>1, <2>2, TxTypes, TxFields
       DEF SentInv, InOrder, StageInv, AddInv, Seed!TypeOK, Seed!SeedLiquidityConstants
  <2>4. StageInv'
    BY <2>1, <2>2, TxTypes, TxFields
       DEF SentInv, InOrder, StageInv, AddInv, Seed!TypeOK, Seed!SeedLiquidityConstants
  <2>5. AddInv'
    BY <2>1, <2>2, TxTypes, TxFields
       DEF SentInv, InOrder, StageInv, AddInv, Seed!TypeOK, Seed!SeedLiquidityConstants,
           Seed!AddGroup
  <2>6. QED
    BY <2>2, <2>3, <2>4, <2>5
<1>4. CASE Seed!RpcError
  <2> USE <1>4 DEF Seed!RpcError, Seed!Throw
  <2>1. Seed!Inited' = Seed!Inited
    BY InitedSame
  <2>2. Seed!TypeOK'
    BY TxTypes, TxsMember, TxFields
       DEF Seed!TypeOK, StageInv, SentInv, InOrder, Seed!SeedLiquidityConstants
  <2>3. SentInv'
    BY <2>1, <2>2, TxTypes, TxFields
       DEF SentInv, InOrder, StageInv, AddInv, Seed!TypeOK, Seed!SeedLiquidityConstants
  <2>4. StageInv'
    BY <2>1, <2>2, TxTypes, TxFields
       DEF SentInv, InOrder, StageInv, AddInv, Seed!TypeOK, Seed!SeedLiquidityConstants
  <2>5. AddInv'
    BY <2>1, <2>2, TxTypes, TxFields
       DEF SentInv, InOrder, StageInv, AddInv, Seed!TypeOK, Seed!SeedLiquidityConstants,
           Seed!AddGroup
  <2>6. QED
    BY <2>2, <2>3, <2>4, <2>5
<1>5. CASE Seed!SendProve
  <2> USE <1>5 DEF Seed!SendProve, Seed!Submit
  <2>1. Seed!Inited' = Seed!Inited
    BY InitedSame
  <2>2. Seed!TypeOK'
    BY TxTypes, TxsMember, TxFields
       DEF Seed!TypeOK, StageInv, SentInv, InOrder, Seed!SeedLiquidityConstants
  <2>3. SentInv'
    BY <2>1, <2>2, TxTypes, TxFields
       DEF SentInv, InOrder, StageInv, AddInv, Seed!TypeOK, Seed!SeedLiquidityConstants
  <2>4. StageInv'
    BY <2>1, <2>2, TxTypes, TxFields
       DEF SentInv, InOrder, StageInv, AddInv, Seed!TypeOK, Seed!SeedLiquidityConstants
  <2>5. AddInv'
    BY <2>1, <2>2, TxTypes, TxFields
       DEF SentInv, InOrder, StageInv, AddInv, Seed!TypeOK, Seed!SeedLiquidityConstants,
           Seed!AddGroup
  <2>6. QED
    BY <2>2, <2>3, <2>4, <2>5
<1>6. CASE Seed!SendInits
  <2> USE <1>6 DEF Seed!SendInits, Seed!Submit
  <2>1. Seed!Inited' = Seed!Inited
    BY InitedSame
  <2>2. Seed!TypeOK'
    BY TxTypes, TxsMember, TxFields
       DEF Seed!TypeOK, StageInv, SentInv, InOrder, Seed!SeedLiquidityConstants
  <2>3. SentInv'
    BY <2>1, <2>2, TxTypes, TxFields
       DEF SentInv, InOrder, StageInv, AddInv, Seed!TypeOK, Seed!SeedLiquidityConstants
  <2>4. StageInv'
    BY <2>1, <2>2, TxTypes, TxFields
       DEF SentInv, InOrder, StageInv, AddInv, Seed!TypeOK, Seed!SeedLiquidityConstants
  <2>5. AddInv'
    BY <2>1, <2>2, TxTypes, TxFields
       DEF SentInv, InOrder, StageInv, AddInv, Seed!TypeOK, Seed!SeedLiquidityConstants,
           Seed!AddGroup
  <2>6. QED
    BY <2>2, <2>3, <2>4, <2>5
<1>7. CASE Seed!SendAdd
  <2> USE <1>7 DEF Seed!SendAdd, Seed!Submit
  <2>1. Seed!Inited' = Seed!Inited
    BY InitedSame
  <2>2. Seed!AddTx(next, run) \in Seed!AllTxs \ sent
    BY TxFields, TxsMember
       DEF Seed!TypeOK, StageInv, SentInv, InOrder, Seed!SeedLiquidityConstants,
           Seed!AddGroup
  <2>3. Seed!TypeOK'
    BY <2>2 DEF Seed!TypeOK, Seed!SeedLiquidityConstants
  <2>4. Seed!Inited = Seed!InitGroup
    <3>1. Seed!Inited \subseteq Seed!InitGroup
      BY InitedMember, TxTypes DEF Seed!TypeOK
    <3>2. \A n \in todo : n \in Seed!Inited
      BY InitedMember, TxFields DEF AddInv
    <3>3. QED
      BY <3>1, <3>2 DEF StageInv
  <2>5. SentInv'
    <3> SUFFICES ASSUME NEW t \in sent' PROVE InOrder(t)'
      BY DEF SentInv
    <3>1. CASE t \in sent
      BY <3>1, <2>1, <2>4, TxTypes
         DEF Seed!AddGroup, SentInv, InOrder, Seed!TypeOK, Seed!SeedLiquidityConstants
    <3>2. CASE t = Seed!AddTx(next, run)
      BY <3>2, <2>1, <2>4, TxFields
         DEF SentInv, InOrder, StageInv, AddInv, Seed!TypeOK,
             Seed!SeedLiquidityConstants
    <3>3. QED
      BY <3>1, <3>2
  <2>6. StageInv'
    BY <2>1, <2>3, TxTypes, TxFields
       DEF SentInv, InOrder, StageInv, AddInv, Seed!TypeOK, Seed!SeedLiquidityConstants
  <2>7. AddInv'
    BY <2>1, <2>3, TxTypes, TxFields
       DEF SentInv, InOrder, StageInv, AddInv, Seed!TypeOK, Seed!SeedLiquidityConstants,
           Seed!AddGroup
  <2>8. QED
    BY <2>3, <2>5, <2>6, <2>7
<1>8. CASE UNCHANGED Seed!vars
  <2> USE <1>8 DEF Seed!vars
  <2>1. Seed!Inited' = Seed!Inited
    BY InitedSame
  <2>2. Seed!TypeOK'
    BY TxTypes, TxsMember, TxFields
       DEF Seed!TypeOK, StageInv, SentInv, InOrder, Seed!SeedLiquidityConstants
  <2>3. SentInv'
    BY <2>1, <2>2, TxTypes, TxFields
       DEF SentInv, InOrder, StageInv, AddInv, Seed!TypeOK, Seed!SeedLiquidityConstants
  <2>4. StageInv'
    BY <2>1, <2>2, TxTypes, TxFields
       DEF SentInv, InOrder, StageInv, AddInv, Seed!TypeOK, Seed!SeedLiquidityConstants
  <2>5. AddInv'
    BY <2>1, <2>2, TxTypes, TxFields
       DEF SentInv, InOrder, StageInv, AddInv, Seed!TypeOK, Seed!SeedLiquidityConstants,
           Seed!AddGroup
  <2>6. QED
    BY <2>2, <2>3, <2>4, <2>5
<1>9. CASE \E t \in awaited : Seed!Confirmed(t)
  <2> PICK t \in awaited : Seed!Confirmed(t)
    BY <1>9
  <2> USE DEF Seed!Confirmed
  <2>2. Seed!TypeOK'
    BY TxTypes DEF Seed!TypeOK
  <2>1. Seed!Inited' = Seed!Inited
    BY InitedSame
  <2>3. SentInv'
    BY <2>1, <2>2, TxTypes, TxFields
       DEF SentInv, InOrder, StageInv, AddInv, Seed!TypeOK, Seed!SeedLiquidityConstants
  <2>4. StageInv'
    BY <2>1, <2>2, TxTypes, TxFields
       DEF SentInv, InOrder, StageInv, AddInv, Seed!TypeOK, Seed!SeedLiquidityConstants
  <2>5. AddInv'
    BY <2>1, <2>2, TxTypes, TxFields
       DEF SentInv, InOrder, StageInv, AddInv, Seed!TypeOK, Seed!SeedLiquidityConstants
  <2>6. QED
    BY <2>2, <2>3, <2>4, <2>5
<1>10. CASE \E t \in awaited : Seed!Failed(t)
  <2> PICK t \in awaited : Seed!Failed(t)
    BY <1>10
  <2> USE DEF Seed!Failed, Seed!Throw
  <2>2. Seed!TypeOK'
    BY TxTypes DEF Seed!TypeOK
  <2>1. Seed!Inited' = Seed!Inited
    BY InitedSame
  <2>3. SentInv'
    BY <2>1, <2>2, TxTypes, TxFields
       DEF SentInv, InOrder, StageInv, AddInv, Seed!TypeOK, Seed!SeedLiquidityConstants
  <2>4. StageInv'
    BY <2>1, <2>2, TxTypes, TxFields
       DEF SentInv, InOrder, StageInv, AddInv, Seed!TypeOK, Seed!SeedLiquidityConstants
  <2>5. AddInv'
    BY <2>1, <2>2, TxTypes, TxFields
       DEF SentInv, InOrder, StageInv, AddInv, Seed!TypeOK, Seed!SeedLiquidityConstants
  <2>6. QED
    BY <2>2, <2>3, <2>4, <2>5
<1>11. CASE \E t \in flying : Seed!Land(t)
  <2> PICK t \in flying : Seed!Land(t)
    BY <1>11
  <2> USE DEF Seed!Land
  <2>2. Seed!TypeOK'
    BY TxTypes DEF Seed!TypeOK
  <2>1. Seed!Inited \subseteq Seed!Inited' /\ Seed!Inited' \subseteq Seed!InitGroup
    BY <2>2, InitedMono DEF Seed!TypeOK
  <2>3. SentInv'
    <3> SUFFICES ASSUME NEW u \in sent' PROVE InOrder(u)'
      BY DEF SentInv
    <3>1. InOrder(u)
      BY DEF SentInv
    <3>2. QED
      BY <3>1, <2>1 DEF InOrder, Seed!TypeOK
  <2>4. StageInv'
    BY <2>1, <2>2, TxTypes, TxFields
       DEF SentInv, InOrder, StageInv, AddInv, Seed!TypeOK, Seed!SeedLiquidityConstants
  <2>5. AddInv'
    BY <2>1, <2>2, TxTypes, TxFields
       DEF SentInv, InOrder, StageInv, AddInv, Seed!TypeOK, Seed!SeedLiquidityConstants
  <2>6. QED
    BY <2>2, <2>3, <2>4, <2>5
<1>12. CASE \E t \in flying : Seed!Drop(t)
  <2> PICK t \in flying : Seed!Drop(t)
    BY <1>12
  <2> USE DEF Seed!Drop
  <2>2. Seed!TypeOK'
    BY TxTypes DEF Seed!TypeOK
  <2>1. Seed!Inited' = Seed!Inited
    BY InitedSame
  <2>3. SentInv'
    BY <2>1, <2>2, TxTypes, TxFields
       DEF SentInv, InOrder, StageInv, AddInv, Seed!TypeOK, Seed!SeedLiquidityConstants
  <2>4. StageInv'
    BY <2>1, <2>2, TxTypes, TxFields
       DEF SentInv, InOrder, StageInv, AddInv, Seed!TypeOK, Seed!SeedLiquidityConstants
  <2>5. AddInv'
    BY <2>1, <2>2, TxTypes, TxFields
       DEF SentInv, InOrder, StageInv, AddInv, Seed!TypeOK, Seed!SeedLiquidityConstants
  <2>6. QED
    BY <2>2, <2>3, <2>4, <2>5
<1>13. QED
  BY <1>1, <1>2, <1>3, <1>4, <1>5, <1>6, <1>7, <1>8, <1>9, <1>10, <1>11, <1>12
     DEF Seed!Next, Seed!Client, Seed!Chain

\* The initial states satisfy the invariant: no run has begun and nothing was sent.
LEMMA SeedStart ==
    ASSUME Seed!SeedLiquidityConstants, Seed!Init
    PROVE  SeedInv
<1>1. Seed!TypeOK
  <2>1. run \in 0..SeedRuns /\ faults \in 0..Faults /\ next \in 1..(Adds + 1)
    BY DEF Seed!Init, Seed!SeedLiquidityConstants
  <2>2. QED
    BY <2>1 DEF Seed!Init, Seed!TypeOK
<1>2. SentInv /\ StageInv /\ AddInv
  BY DEF Seed!Init, SentInv, StageInv, AddInv
<1>3. QED
  BY <1>1, <1>2 DEF SeedInv

\* The invariant implies the properties of SeedLiquidity.
LEMMA SeedSound ==
    ASSUME SeedInv
    PROVE  Seed!TypeOK /\ Seed!StagesInOrder /\ Seed!DepositsInOrder /\ Seed!DoneMeansSeeded
<1>1. Seed!TypeOK /\ SentInv /\ StageInv /\ AddInv
  BY DEF SeedInv
<1>2. Seed!StagesInOrder
  BY <1>1 DEF Seed!StagesInOrder, Seed!TypeOK, SentInv, InOrder
<1>3. \A n, r : Seed!AddTx(n, r) \in landed => <<r, n>> \in Seed!Deposits
  <2>1. SUFFICES ASSUME NEW n, NEW r, Seed!AddTx(n, r) \in landed PROVE <<r, n>> \in Seed!Deposits
    OBVIOUS
  <2>2. Seed!AddTx(n, r).kind = "add" /\ <<r, n>> = <<Seed!AddTx(n, r).run, Seed!AddTx(n, r).n>>
    BY TxFields
  <2>3. QED
    BY <2>1, <2>2 DEF Seed!Deposits
<1>4. Seed!DepositsInOrder
  <2> SUFFICES ASSUME NEW d \in Seed!Deposits, NEW n \in Seed!AddGroup, n < d[2]
               PROVE  <<d[1], n>> \in Seed!Deposits
    BY DEF Seed!DepositsInOrder
  <2>1. PICK t \in landed : t.kind = "add" /\ d = <<t.run, t.n>>
    BY DEF Seed!Deposits
  <2>2. t \in sent /\ t \in Seed!AllTxs
    BY <1>1 DEF Seed!TypeOK
  <2>3. d[1] = t.run /\ d[2] = t.n /\ t.n \in Seed!AddGroup
    BY <2>1, <2>2, TxTypes
  <2>4. n \in 1..(t.n - 1)
    BY <2>3 DEF Seed!AddGroup
  <2>5. Seed!AddTx(n, t.run) \in landed
    BY <1>1, <2>1, <2>2, <2>4 DEF SentInv, InOrder
  <2>6. QED
    BY <1>3, <2>3, <2>5
<1>5. Seed!DoneMeansSeeded
  BY <1>1, <1>3 DEF Seed!DoneMeansSeeded, AddInv
<1>6. QED
  BY <1>1, <1>2, <1>4, <1>5

\* The inductive invariant of the composition: the one of the command that runs.
IInv ==
    /\ command \in {"zapIn", "zapOut", "seed"}
    /\ command = "zapIn" => InInv
    /\ command = "zapOut" => OutInv
    /\ command = "seed" => SeedInv

\* The initial states satisfy the invariant.
LEMMA IInvInit == Init => IInv
BY Constants, InStart, OutStart, SeedStart DEF Init, IInv

\* A step is a step of the command that runs, or changes nothing.
LEMMA IInvNext == IInv /\ [Next]_vars => IInv'
<1> SUFFICES ASSUME IInv, [Next]_vars PROVE IInv'
  OBVIOUS
<1>1. CASE ZapIn(In!Next)
  <2>1. command = "zapIn" /\ command' = "zapIn" /\ In!Next
    BY <1>1 DEF ZapIn
  <2>2. InInv'
    BY <2>1, Constants, InStep DEF IInv
  <2>3. QED
    BY <2>1, <2>2 DEF IInv
<1>2. CASE ZapOut(Out!Next)
  <2>1. command = "zapOut" /\ command' = "zapOut" /\ Out!Next
    BY <1>2 DEF ZapOut
  <2>2. Out!TypeOK' /\ BundleInv' /\ PlanInv' /\ SingleInv' /\ FirstInv'
    BY <2>1, Constants, OutType, OutSafe, OutSingle, OutFirst DEF IInv
  <2>3. QED
    BY <2>1, <2>2 DEF IInv, OutInv
<1>3. CASE Seeding(Seed!Next)
  <2>1. command = "seed" /\ command' = "seed" /\ Seed!Next
    BY <1>3 DEF Seeding
  <2>2. SeedInv'
    BY <2>1, Constants, SeedStep DEF IInv
  <2>3. QED
    BY <2>1, <2>2 DEF IInv
<1>4. CASE UNCHANGED vars
  <2>1. UNCHANGED command /\ UNCHANGED In!vars /\ UNCHANGED Out!vars /\ UNCHANGED Seed!vars
    BY <1>4
       DEF vars, bundle, ofIn, ofOut, ofSeed, In!vars, In!bundleVars, In!setting,
           In!chainVars,
       Out!vars, Out!bundleVars, Out!chainVars, Seed!vars, Seed!chainVars
  <2>2. command = "zapIn" => InInv'
    BY <2>1, Constants, InStep DEF IInv
  <2>3. command = "zapOut" => OutInv'
    BY <2>1, Constants, OutType, OutSafe, OutSingle, OutFirst DEF IInv, OutInv
  <2>4. command = "seed" => SeedInv'
    BY <2>1, Constants, SeedStep DEF IInv
  <2>5. QED
    BY <2>1, <2>2, <2>3, <2>4 DEF IInv
<1>5. QED
  BY <1>1, <1>2, <1>3, <1>4 DEF Next

\* The invariant implies every safety property of the three commands.
LEMMA IInvSound ==
    ASSUME IInv
    PROVE  /\ TypeOK /\ OneDeposit /\ DepositReady /\ CompleteIsClean
           /\ OwnTokensKept /\ FreedIsConverted /\ SeedInOrder /\ DoneMeansSeeded
BY Constants, InSound, OutSound, SeedSound
   DEF IInv, TypeOK, OneDeposit, DepositReady, CompleteIsClean, OwnTokensKept,
       FreedIsConverted,
       SeedInOrder, DoneMeansSeeded

\* The invariant holds in every reachable state.
LEMMA Always == Spec => []IInv
BY IInvInit, IInvNext, PTL DEF Spec

-----------------------------------------------------------------------------
\* Every reachable state of the three commands has its type, for any number of runs,
\* chunks, positions and faults.
THEOREM LiquidityTypeCorrect == Spec => []TypeOK
BY Always, IInvSound, PTL

\* A zap-in deposits at most once and opens at most one position, however often the operator
\* who checks the chain first runs the command again, and whatever is lost or late.
THEOREM ZapInOneDeposit == Spec => []OneDeposit
BY Always, IInvSound, PTL

\* When the deposit's turn comes, the ledger account and the position it deposits into
\* exist: no zap-in builder can put its transactions in an order that fails.
THEOREM ZapInDepositReady == Spec => []DepositReady
BY Always, IInvSound, PTL

\* The zap-in of an operator who checks the chain first leaves, once it completes, no temporary
\* account behind: neither its own nor that of a run that was aborted.
THEOREM ZapInCompleteIsClean == Spec => []CompleteIsClean
BY Always, IInvSound, PTL

\* zapOut never swaps the tokens the wallet held before it, although it computes the swap
\* from balances that other transactions change before it lands.
THEOREM ZapOutOwnTokensKept == Spec => []OwnTokensKept
BY Always, IInvSound, PTL

\* What a completed zapOut took out of the position it has converted: when nothing fails and
\* the price stays, and, for a one-transaction position, whatever fails.
THEOREM ZapOutFreedIsConverted == Spec => []FreedIsConverted
BY Always, IInvSound, PTL

\* A deposit is in flight only when every position exists, nothing is before the proof of
\* ownership has landed, and deposits land without a gap, also those of a run that has ended.
THEOREM SeedingInOrder == Spec => []SeedInOrder
BY Always, IInvSound, PTL

\* A seeding that reports success has every deposit on chain.
THEOREM SeedingDoneMeansSeeded == Spec => []DoneMeansSeeded
BY Always, IInvSound, PTL
=============================================================================
