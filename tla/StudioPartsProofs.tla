------------------------- MODULE StudioPartsProofs --------------------------
(***************************************************************************)
(* About the single commands of the studio, for every value of their       *)
(* constants: what all of them have in common, and what DAMM v1, DAMM v2   *)
(* positions, stake2earn, farming, the dynamic vault, fee sharing, the     *)
(* lock and the trading commands keep true.                                *)
(***************************************************************************)
EXTENDS StudioCommands, Integers, SequenceTheorems, FiniteSetTheorems, TLAPS

\* The record of a command has its fields.
CmdInv == /\ cmd = [op |-> cmd.op, arg |-> cmd.arg, dry |-> cmd.dry, n |-> cmd.n,
                    moved |-> cmd.moved]
          /\ cmd.n \in Nat

-----------------------------------------------------------------------------
(* What the commands and the steps of Submission do, whatever the component *)

Commanded(op, arg, ok, txs) ==
    /\ ~(status \in {"running", "resumed"})
    /\ \E d : cmd' = [op |-> op, arg |-> arg, dry |-> d, n |-> cmd.n + 1, moved |-> FALSE]
    /\ queue' = IF ok THEN txs ELSE <<>>
    /\ status' = IF ~ok THEN "threw" ELSE IF txs = <<>> THEN "ok" ELSE "running"
    /\ UNCHANGED <<chain, late>>

Resumed(op, arg, ok, txs) ==
    /\ status = "resumed"
    /\ cmd' = [cmd EXCEPT !.op = op, !.arg = arg]
    /\ queue' = IF ok THEN txs ELSE <<>>
    /\ status' = IF ~ok THEN "threw" ELSE IF txs = <<>> THEN "ok" ELSE "running"
    /\ UNCHANGED <<chain, late>>

Moved(c) == /\ chain' = c /\ cmd' = [cmd EXCEPT !.moved = TRUE]
            /\ UNCHANGED <<queue, late, status>>

Takes(resumes) ==
    /\ status = "running" /\ queue' = Tail(queue) /\ UNCHANGED <<cmd, late>>
    /\ status' = IF Len(queue) > 1 THEN "running"
                 ELSE IF cmd.op \in resumes THEN "resumed" ELSE "ok"

Stops(accepted, forgives) ==
    /\ status = "running" /\ queue' = <<>> /\ UNCHANGED <<chain, cmd>>
    /\ \/ status' = "refused" /\ late' = late /\ ~accepted /\ ~(cmd.dry /\ cmd.op \in forgives)
       \/ status' = "lost" /\ late' = late \union {[tx |-> Head(queue), run |-> cmd.n]}

Late(l) == late' = late \ {l} /\ UNCHANGED <<queue, status>>

Steps(Acc(_, _), Eff(_, _), resumes, forgives) ==
    \/ /\ Acc(chain, Head(queue)) /\ ~cmd.dry
       /\ chain' = Eff(chain, Head(queue)) /\ Takes(resumes)
    \/ cmd.dry /\ chain' = chain /\ Takes(resumes)
    \/ Stops(Acc(chain, Head(queue)), forgives)
    \/ Commanded("unready", "none", FALSE, <<>>)
    \/ \E l \in late : /\ Acc(chain, l.tx) /\ chain' = Eff(chain, l.tx)
                       /\ cmd' = [cmd EXCEPT !.moved = TRUE] /\ Late(l)
    \/ \E l \in late : Late(l) /\ UNCHANGED <<chain, cmd>>

\* Pending transactions are of a set, the chain is in another one.
Typed(T, C) == /\ CmdInv
               /\ queue \in Seq(T) /\ (\A l \in late : l.tx \in T)
               /\ status = "running" => queue # <<>>
               /\ chain \in C

\* Taking the first of a queue of transactions.
LEMMA QueueTail ==
    ASSUME NEW T, NEW q \in Seq(T), q # <<>>
    PROVE  Head(q) \in T /\ Tail(q) \in Seq(T) /\ (Len(q) > 1 => Tail(q) # <<>>)
<1>1. Head(q) \in T /\ Tail(q) \in Seq(T) /\ Len(Tail(q)) = Len(q) - 1
  BY HeadTailProperties
<1>2. Len(<<>>) = 0 /\ Len(q) \in Nat
  OBVIOUS
<1>3. ASSUME Len(q) > 1 PROVE Tail(q) # <<>>
  <2>1. Len(Tail(q)) # 0
    BY <1>1, <1>2, <1>3
  <2> QED BY Zenon, <2>1, <1>2
<1> QED BY <1>1, <1>3

\* What stays of a queue is what stood behind its first transaction.
LEMMA QueueRest ==
    ASSUME NEW T, NEW q \in Seq(T), q # <<>>
    PROVE  /\ \A i \in DOMAIN Tail(q) : Tail(q)[i] = q[i + 1] /\ i + 1 \in DOMAIN q
           /\ Head(q) = q[1] /\ 1 \in DOMAIN q
OBVIOUS

\* Two transactions queued one after the other.
LEMMA Joined == ASSUME NEW t1, NEW t2 PROVE <<t1>> \o <<t2>> = <<t1, t2>>
<1> DEFINE s == <<t1>> \o <<t2>>
           r == <<t1, t2>>
<1>1. <<t1>> \in Seq({t1, t2}) /\ <<t2>> \in Seq({t1, t2})
  OBVIOUS
<1>2. s \in Seq({t1, t2}) /\ Len(s) = 2 /\ s[1] = t1 /\ s[2] = t2
  BY <1>1, ConcatProperties
<1>3. r \in Seq({t1, t2}) /\ Len(r) = 2 /\ r[1] = t1 /\ r[2] = t2
  OBVIOUS
<1> HIDE DEF s, r
<1>4. \A i \in 1..Len(s) : s[i] = r[i]
  BY <1>2, <1>3
<1>5. s = r
  BY <1>2, <1>3, <1>4, SeqEqual
<1> QED BY <1>5 DEF s, r

\* Taking the first transaction keeps the queue of its set.
LEMMA TypedTakes ==
    ASSUME NEW T, NEW C, NEW resumes, Typed(T, C), Takes(resumes), chain' \in C
    PROVE  Typed(T, C)' /\ Head(queue) \in T
<1>1. queue \in Seq(T) /\ queue # <<>> /\ queue' = Tail(queue) /\ cmd' = cmd /\ late' = late
      /\ (status' = "running" => Len(queue) > 1)
  BY DEF Typed, Takes
<1>2. Head(queue) \in T /\ Tail(queue) \in Seq(T) /\ (Len(queue) > 1 => Tail(queue) # <<>>)
  BY <1>1, QueueTail
<1> QED BY <1>1, <1>2 DEF Typed, CmdInv

\* The first of the pending transactions is of their set.
LEMMA TypedHead ==
    ASSUME NEW T, NEW C, Typed(T, C), status = "running" PROVE Head(queue) \in T
BY QueueTail DEF Typed

\* A refused transaction is dropped with the rest; a lost one may still land.
LEMMA TypedStops ==
    ASSUME NEW T, NEW C, NEW accepted, NEW forgives, Typed(T, C), Stops(accepted, forgives)
    PROVE  Typed(T, C)'
<1>1. Head(queue) \in T
  BY TypedHead DEF Stops
<1>2. queue' = <<>> /\ chain' = chain /\ cmd' = cmd /\ status' # "running"
      /\ (late' = late \/ late' = late \union {[tx |-> Head(queue), run |-> cmd.n]})
  BY DEF Stops
<1>3. \A l \in late' : l.tx \in T
  BY <1>1, <1>2 DEF Typed
<1> QED BY <1>2, <1>3 DEF Typed, CmdInv

\* A command queues what it built, or nothing.
LEMMA TypedCommanded ==
    ASSUME NEW T, NEW C, NEW op, NEW arg, NEW ok, NEW txs, Typed(T, C),
           ok => txs \in Seq(T), Commanded(op, arg, ok, txs)
    PROVE  Typed(T, C)'
BY DEF Typed, CmdInv, Commanded

\* So does a command that goes on once its transactions are sent.
LEMMA TypedResumed ==
    ASSUME NEW T, NEW C, NEW op, NEW arg, NEW ok, NEW txs, Typed(T, C),
           ok => txs \in Seq(T), Resumed(op, arg, ok, txs)
    PROVE  Typed(T, C)'
<1>1. cmd' = [op |-> op, arg |-> arg, dry |-> cmd.dry, n |-> cmd.n, moved |-> cmd.moved]
  BY Zenon DEF Typed, CmdInv, Resumed
<1>2. CmdInv'
  BY <1>1 DEF Typed, CmdInv
<1> QED BY <1>2 DEF Typed, Resumed

\* When others move the chain, what is pending stays and the command is no longer alone.
LEMMA TypedMoved ==
    ASSUME NEW T, NEW C, NEW c \in C, Typed(T, C), Moved(c)
    PROVE  Typed(T, C)' /\ cmd'.moved
BY Zenon DEF Typed, CmdInv, Moved

\* A late transaction lands or expires.
LEMMA TypedLate ==
    ASSUME NEW T, NEW C, NEW l \in late, Typed(T, C), Late(l), chain' \in C,
           cmd' = cmd \/ cmd' = [cmd EXCEPT !.moved = TRUE]
    PROVE  Typed(T, C)'
BY DEF Typed, CmdInv, Late

AnyStep(C) ==
    \/ (\E resumes : Takes(resumes)) /\ chain' \in C
    \/ \E accepted, forgives : Stops(accepted, forgives)
    \/ Commanded("unready", "none", FALSE, <<>>)
    \/ \E l \in late : /\ Late(l) /\ chain' \in C
                       /\ cmd' = cmd \/ cmd' = [cmd EXCEPT !.moved = TRUE]

\* What is of a set is of a larger one.
LEMMA TypedGrows ==
    ASSUME NEW T, NEW C, NEW T2, NEW C2, T \subseteq T2, C \subseteq C2
    PROVE  (Typed(T, C) => Typed(T2, C2)) /\ (Typed(T, C)' => Typed(T2, C2)')
<1>1. Seq(T) \subseteq Seq(T2)
  OBVIOUS
<1> QED BY <1>1 DEF Typed

\* A command of one transaction.
LEMMA OneTransaction ==
    ASSUME NEW T, NEW C, NEW op, NEW arg, NEW ok, NEW t, Typed(T, C), ok => t \in T,
           Commanded(op, arg, ok, <<t>>)
    PROVE  /\ Typed(T, C)' /\ chain' = chain /\ status' \in {"threw", "running"}
           /\ status' = "running" => ok /\ Len(queue') = 1 /\ Head(queue') = t
           /\ cmd'.op = op /\ cmd'.arg = arg /\ ~cmd'.moved /\ cmd'.n = cmd.n + 1
BY DEF Commanded, Typed, CmdInv

\* Every step of Submission keeps what is pending, and the chain, of their sets.
LEMMA TypedStep ==
    ASSUME NEW T, NEW C, Typed(T, C), AnyStep(C)
    PROVE  Typed(T, C)'
<1>1. CASE (\E resumes : Takes(resumes)) /\ chain' \in C
  BY <1>1, TypedTakes
<1>2. CASE \E accepted, forgives : Stops(accepted, forgives)
  BY <1>2, TypedStops
<1>3. CASE Commanded("unready", "none", FALSE, <<>>)
  BY Zenon, <1>3, TypedCommanded
<1>4. ASSUME NEW l \in late, Late(l), chain' \in C,
             cmd' = cmd \/ cmd' = [cmd EXCEPT !.moved = TRUE]
      PROVE  Typed(T, C)'
  BY <1>4, TypedLate
<1> QED BY Zenon, <1>1, <1>2, <1>3, <1>4 DEF AnyStep

-----------------------------------------------------------------------------
(* Trading *)

\* A transaction asks for its quote less the slippage, or for more.
SwapTx == {t \in [min : Nat, quoted : Nat] : t.quoted <= t.min + Slippage}

SwapRecord == [program : Programs, pool : BOOLEAN, complete : BOOLEAN, rate : Nat,
               funds : Nat, sol : BOOLEAN, slip : Int]
SwapChain  == {c \in SwapRecord : c.slip <= Slippage}

\* A swap that the program accepts pays at least its minimum, so that no more is lost than
\* the slippage.
LEMMA SwapLands ==
    ASSUME NEW c \in SwapChain, NEW t \in SwapTx, SW!Accepts(c, t)
    PROVE  SW!Effect(c, t) \in SwapChain
<1>1. /\ t.quoted \in Int /\ t.min \in Int /\ t.quoted <= t.min + Slippage
      /\ c.rate \in Int /\ t.min <= c.rate /\ c.slip \in Int
      /\ c.slip <= Slippage /\ Slippage \in Int /\ c \in SwapRecord
  BY TradingAssumption DEF SwapChain, SwapRecord, SwapTx, SW!Accepts
<1> DEFINE e == SW!Effect(c, t)
           slip == IF t.quoted - c.rate > c.slip THEN t.quoted - c.rate ELSE c.slip
           funds == c.funds - 1
           rate == c.rate - 1
<1>2. slip \in Int /\ slip <= Slippage
  BY <1>1
<1>3. e = [c EXCEPT !.funds = funds, !.rate = rate, !.slip = slip]
  BY <1>1 DEF SW!Effect, SwapRecord
<1>4. funds \in Nat /\ rate \in Nat
  BY <1>1 DEF SwapRecord, SW!Accepts
<1> SUFFICES e \in SwapChain
  OBVIOUS
<1> HIDE DEF e, slip, funds, rate
<1>5. e.slip = slip /\ e \in SwapRecord
  BY Zenon, <1>1, <1>2, <1>3, <1>4 DEF SwapRecord
<1> QED BY <1>2, <1>5 DEF SwapChain

\* The steps of Submission, of trading commands.
LEMMA SwapSteps ==
    ASSUME SW!S!Step
    PROVE  Steps(SW!Accepts, SW!Effect, SW!Resumes, SW!Forgives)
BY DEF SW!S!Step, SW!S!Land, SW!S!Simulate, SW!S!Forgive, SW!S!Refuse, SW!S!Lose,
       SW!S!Unready, SW!S!LandsLate, SW!S!Expires, SW!S!Command, SW!S!After,
       SW!S!Forgiven, SW!S!Busy, Steps, Takes, Stops, Commanded, Late

\* They keep what is pending, and the chain, of their sets.
LEMMA SwapTyped ==
    ASSUME Typed(SwapTx, SwapChain), SW!S!Step
    PROVE  Typed(SwapTx, SwapChain)'
<1>1. AnyStep(SwapChain)
  BY Zenon, SwapSteps, SwapLands, TypedHead DEF Steps, AnyStep, Typed, Takes
<1> QED BY <1>1, TypedStep

SwapLone ==
    /\ status = "running" => Len(queue) = 1
    /\ status = "running" => cmd.moved \/ cmd.arg.short \/ SW!Accepts(chain, Head(queue))
    /\ status = "refused" => cmd.moved \/ cmd.arg.short

SwapInv == Typed(SwapTx, SwapChain) /\ SwapLone

\* It holds before the first command.
LEMMA SwapInit == ASSUME SW!Init PROVE SwapInv
BY TradingAssumption DEF SW!Init, SW!S!Begin, SW!S!NoCommand, SwapInv, Typed, CmdInv, SwapLone,
   SwapChain, SwapRecord

\* Every trading command and every step of others keeps it.
LEMMA SwapStep == ASSUME SwapInv, SW!Next PROVE SwapInv'
<1>0. Typed(SwapTx, SwapChain) /\ chain \in SwapChain /\ chain \in SwapRecord /\ SwapLone
  BY DEF SwapInv, Typed, SwapChain
<1>1. CASE SW!S!Step
  <2>1. Typed(SwapTx, SwapChain)'
    BY <1>0, <1>1, SwapTyped
  <2>2. SwapLone'
    BY <1>0, <1>1, SwapSteps DEF Steps, Takes, Stops, Commanded, Late, SwapLone, Typed, CmdInv,
       SW!Resumes
  <2> QED BY <2>1, <2>2 DEF SwapInv
<1>2. ASSUME NEW c \in SwapChain, Moved(c) PROVE SwapInv'
  BY <1>0, <1>2, TypedMoved DEF SwapInv, SwapLone, Moved
<1>3. CASE SW!PoolOpens \/ SW!Completes
  BY Zenon, <1>0, <1>2, <1>3 DEF SW!PoolOpens, SW!Completes, SW!S!World, Moved, SwapRecord,
     SwapChain
<1>4. CASE SW!OthersTrade
  BY <1>0, <1>2, <1>4, TradingAssumption
     DEF SW!OthersTrade, SW!S!World, Moved, SwapRecord, SwapChain
<1>5. ASSUME NEW configured \in BOOLEAN, NEW member \in BOOLEAN, SW!Swap(configured, member)
      PROVE  SwapInv'
  <2> DEFINE t == [min |-> SW!Minimum(chain.rate), quoted |-> chain.rate]
             arg == [short |-> chain.funds = 0 \/ ~chain.sol]
             ok == /\ configured /\ chain.pool /\ SW!Quoted
                   /\ chain.program # "dbc" => chain.sol
                   /\ chain.program \in {"dammV1", "dammV2"} => member
  <2>1. Commanded("swap", arg, ok, <<t>>)
    BY Zenon, <1>5 DEF SW!Swap, SW!S!Command, SW!S!Busy, Commanded
  <2>2. ok => t \in SwapTx /\ (arg.short \/ SW!Accepts(chain, t))
    BY <1>0, TradingAssumption
       DEF SW!Quoted, SW!Minimum, SwapRecord, SwapChain, SwapTx, SW!Accepts
  <2> HIDE DEF t, ok, arg
  <2> QED BY <1>0, <2>1, <2>2, OneTransaction DEF SwapInv, SwapLone
<1> QED BY <1>1, <1>3, <1>4, <1>5 DEF SW!Next

-----------------------------------------------------------------------------
(* Lock *)

\* The smaller of two numbers.
LEMMA MinOfTwo ==
    ASSUME NEW a \in Int, NEW b \in Int
    PROVE  LO!Min({a, b}) = IF a <= b THEN a ELSE b
<1> DEFINE m == IF a <= b THEN a ELSE b
<1>1. m \in {a, b} /\ \A y \in {a, b} : m <= y
  OBVIOUS
<1>2. \A x \in {a, b} : (\A y \in {a, b} : x <= y) => x = m
  OBVIOUS
<1> QED BY <1>1, <1>2 DEF LO!Min

\* The larger of two numbers.
LEMMA MaxOfTwo ==
    ASSUME NEW a \in Int, NEW b \in Int
    PROVE  LO!Max({a, b}) = IF a >= b THEN a ELSE b
<1> DEFINE m == IF a >= b THEN a ELSE b
<1>1. m \in {a, b} /\ \A y \in {a, b} : m >= y
  OBVIOUS
<1>2. \A x \in {a, b} : (\A y \in {a, b} : x >= y) => x = m
  OBVIOUS
<1> QED BY <1>1, <1>2 DEF LO!Max

\* Quotients grow with the dividend, and reach n when it reaches n times the divisor.
LEMMA Quotients ==
    ASSUME NEW a \in Nat, NEW b \in Nat, NEW d \in Nat \ {0}, NEW n \in Nat
    PROVE  /\ a \div d \in Nat
           /\ a <= b => a \div d <= b \div d
           /\ d * n <= a => n <= a \div d
<1> DEFINE q == a \div d
           p == b \div d
<1>1. q \in Nat /\ p \in Nat /\ d * q <= a /\ a < d * (q + 1) /\ d * p <= b /\ b < d * (p + 1)
  OBVIOUS
<1> HIDE DEF q, p
<1>2. \A x, y \in Nat : x >= y + 1 => d * x >= d * (y + 1)
  OBVIOUS
<1>3. a <= b => q <= p
  BY <1>1, <1>2
<1>4. d * n <= a => n <= q
  BY <1>1, <1>2
<1> QED BY <1>1, <1>3, <1>4 DEF q, p

\* The periods of a schedule that are over at a time.
Elapsed(s, t) == IF t >= s.start THEN t - s.start ELSE 0
Passed(s, t)  == IF Elapsed(s, t) \div s.freq <= s.periods THEN Elapsed(s, t) \div s.freq
                                                           ELSE s.periods

EscrowSet == [key : Nat, s : Schedules, mine : BOOLEAN, claimed : Nat, meta : BOOLEAN,
              cancelled : Nat]

\* The fields of a schedule.
LEMMA ScheduleFields ==
    ASSUME NEW s \in Schedules
    PROVE  /\ s.start \in Nat /\ s.cliff \in Nat /\ s.freq \in Nat /\ s.atCliff \in Nat
           /\ s.per \in Nat /\ s.periods \in Nat /\ s.per * s.periods \in Nat
           /\ LO!Total(s) = s.atCliff + s.per * s.periods /\ LO!Total(s) \in Nat
<1>1. /\ s.start \in Nat /\ s.cliff \in Nat /\ s.freq \in Nat /\ s.atCliff \in Nat
      /\ s.per \in Nat /\ s.periods \in Nat
  BY LockAssumption
<1>2. s.per * s.periods \in Nat
  BY <1>1
<1> QED BY <1>1, <1>2 DEF LO!Total

\* They are never more than the schedule has, and never fewer than before.
LEMMA PassedFacts ==
    ASSUME NEW s \in Schedules, s.freq # 0, NEW t \in Nat, NEW u \in Nat
    PROVE  /\ Elapsed(s, t) \in Nat
           /\ LO!Min({LO!Max({t - s.start, 0}) \div s.freq, s.periods}) = Passed(s, t)
           /\ Passed(s, t) \in Nat /\ Passed(s, t) <= s.periods
           /\ s.per * Passed(s, t) \in Nat /\ s.per * Passed(s, t) <= s.per * s.periods
           /\ u <= t => s.per * Passed(s, u) <= s.per * Passed(s, t)
           /\ t >= s.start + s.freq * s.periods => Passed(s, t) = s.periods
<1>1. /\ s.start \in Nat /\ s.freq \in Nat \ {0} /\ s.per \in Nat /\ s.periods \in Nat
  BY ScheduleFields
<1>2. /\ LO!Max({t - s.start, 0}) = Elapsed(s, t)
      /\ Elapsed(s, t) \in Nat /\ Elapsed(s, u) \in Nat
  BY <1>1, MaxOfTwo DEF Elapsed
<1>3. Elapsed(s, t) \div s.freq \in Nat /\ Elapsed(s, u) \div s.freq \in Nat
  BY <1>1, <1>2, Quotients
<1>4. /\ LO!Min({Elapsed(s, t) \div s.freq, s.periods}) = Passed(s, t)
      /\ Passed(s, t) \in Nat /\ Passed(s, t) <= s.periods /\ Passed(s, u) \in Nat
  BY <1>1, <1>3, MinOfTwo DEF Passed
<1>5. \A n, m \in Nat : n <= m => s.per * n <= s.per * m /\ s.per * n \in Nat
  BY <1>1
<1>6. ASSUME u <= t PROVE Passed(s, u) <= Passed(s, t)
  <2>1. Elapsed(s, u) <= Elapsed(s, t)
    BY <1>1, <1>6 DEF Elapsed
  <2>2. Elapsed(s, u) \div s.freq <= Elapsed(s, t) \div s.freq
    BY Zenon, <1>1, <1>2, <2>1, Quotients
  <2> QED BY <1>1, <1>3, <2>2 DEF Passed
<1>7. ASSUME t >= s.start + s.freq * s.periods PROVE Passed(s, t) = s.periods
  <2> DEFINE last == s.freq * s.periods
  <2>1. last \in Nat
    BY <1>1
  <2>2. last <= Elapsed(s, t)
    <3> HIDE DEF last
    <3> QED BY <1>1, <1>7, <2>1 DEF Elapsed, last
  <2>3. s.periods <= Elapsed(s, t) \div s.freq
    BY Zenon, <1>1, <1>2, <2>2, Quotients
  <2> QED BY <1>1, <1>3, <2>3 DEF Passed
<1> QED BY <1>1, <1>2, <1>4, <1>5, <1>6, <1>7

\* A cancelled escrow's time ends with the cancellation.
LEMMA EndTimes ==
    ASSUME NEW e \in EscrowSet, NEW t \in Nat, NEW u \in Nat
    PROVE  /\ LO!EndTime(e, t) \in Nat
           /\ u <= t => LO!EndTime(e, u) <= LO!EndTime(e, t)
           /\ e.cancelled = 0 => LO!EndTime(e, t) = t
           /\ e.cancelled # 0 /\ t >= e.cancelled => LO!EndTime(e, t) = e.cancelled
<1>1. e.cancelled \in Nat
  BY DEF EscrowSet
<1>2. /\ LO!Min({t, e.cancelled}) = IF t <= e.cancelled THEN t ELSE e.cancelled
      /\ LO!Min({u, e.cancelled}) = IF u <= e.cancelled THEN u ELSE e.cancelled
  BY <1>1, MinOfTwo
<1> QED BY <1>1, <1>2 DEF LO!EndTime

\* What is vested at a time, without Min and Max.
LEMMA VestedIs ==
    ASSUME NEW e \in EscrowSet, NEW t \in Nat
    PROVE  LO!Vested(e, t) = IF t < e.s.cliff THEN 0
                             ELSE IF e.s.freq = 0 THEN LO!Total(e.s)
                             ELSE e.s.atCliff + e.s.per * Passed(e.s, LO!EndTime(e, t))
<1> DEFINE s == e.s
           end == LO!EndTime(e, t)
<1>1. s \in Schedules
  BY DEF EscrowSet
<1>2. end \in Nat
  BY EndTimes
<1>3. CASE t < s.cliff
  BY Zenon, <1>3 DEF LO!Vested
<1>4. CASE ~(t < s.cliff) /\ s.freq = 0
  BY Zenon, <1>4 DEF LO!Vested
<1>5. CASE ~(t < s.cliff) /\ s.freq # 0
  <2> DEFINE p == s.per * Passed(s, end)
             q == s.per * s.periods
  <2> HIDE DEF s, end
  <2>1. LO!Min({LO!Max({end - s.start, 0}) \div s.freq, s.periods}) = Passed(s, end)
    BY <1>1, <1>2, <1>5, PassedFacts
  <2>2. LO!Vested(e, t) = LO!Min({s.atCliff + p, LO!Total(s)})
    BY Zenon, <1>5, <2>1 DEF LO!Vested, s, end
  <2>3. p \in Nat /\ p <= q
    BY <1>1, <1>2, <1>5, PassedFacts
  <2>4. q \in Nat /\ s.atCliff \in Nat /\ LO!Total(s) = s.atCliff + q
    BY <1>1, ScheduleFields
  <2> HIDE DEF p, q
  <2>5. LO!Min({s.atCliff + p, s.atCliff + q}) = s.atCliff + p
    BY <2>3, <2>4, MinOfTwo
  <2>6. LO!Vested(e, t) = s.atCliff + p
    BY <2>2, <2>4, <2>5
  <2> QED BY Zenon, <1>5, <2>6 DEF p, s, end
<1> QED BY <1>3, <1>4, <1>5

\* What a status shows as vested: nothing before the cliff, never less than before, all of it
\* when the cliff and the last period are over, never more, and nothing more after a
\* cancellation.
LEMMA VestedFacts ==
    ASSUME NEW e \in EscrowSet, NEW t \in Nat, NEW u \in Nat
    PROVE  /\ LO!Vested(e, t) \in Nat /\ LO!Total(e.s) \in Nat
           /\ LO!Vested(e, t) <= LO!Total(e.s)
           /\ t < e.s.cliff => LO!Vested(e, t) = 0
           /\ u <= t => LO!Vested(e, u) <= LO!Vested(e, t)
           /\ e.cancelled = 0 /\ t >= e.s.cliff /\ t >= e.s.start + e.s.freq * e.s.periods
              => LO!Vested(e, t) = LO!Total(e.s)
           /\ e.cancelled # 0 /\ t >= e.s.cliff /\ t >= e.cancelled /\ u >= t
              => LO!Vested(e, u) = LO!Vested(e, t)
<1> DEFINE s == e.s
           end == LO!EndTime(e, t)
           then == LO!EndTime(e, u)
           all == s.per * s.periods
           p == s.per * Passed(s, end)
           q == s.per * Passed(s, then)
           last == s.start + s.freq * s.periods
<1>1. s \in Schedules /\ e.cancelled \in Nat
  BY DEF EscrowSet
<1>2. /\ s.cliff \in Nat /\ s.atCliff \in Nat /\ all \in Nat /\ LO!Total(s) = s.atCliff + all
  BY <1>1, ScheduleFields
<1>3. /\ end \in Nat /\ then \in Nat
      /\ u <= t => then <= end
      /\ e.cancelled = 0 => end = t
      /\ e.cancelled # 0 /\ t >= e.cancelled /\ u >= t => end = then
  BY <1>1, EndTimes
<1>4. /\ LO!Vested(e, t) = IF t < s.cliff THEN 0
                           ELSE IF s.freq = 0 THEN LO!Total(s) ELSE s.atCliff + p
      /\ LO!Vested(e, u) = IF u < s.cliff THEN 0
                           ELSE IF s.freq = 0 THEN LO!Total(s) ELSE s.atCliff + q
  BY VestedIs
<1> HIDE DEF s, end, then
<1>5. s.freq # 0 => /\ p \in Nat /\ q \in Nat /\ p <= all /\ q <= all
                    /\ then <= end => q <= p
                    /\ then = end => q = p
                    /\ end >= last => p = all
  BY <1>1, <1>3, PassedFacts
<1> HIDE DEF p, q, all, last
<1>6. /\ LO!Vested(e, t) \in Nat /\ LO!Total(s) \in Nat /\ LO!Vested(e, t) <= LO!Total(s)
      /\ t < s.cliff => LO!Vested(e, t) = 0
      /\ u <= t => LO!Vested(e, u) <= LO!Vested(e, t)
  BY <1>2, <1>3, <1>4, <1>5
<1>7. e.cancelled = 0 /\ t >= s.cliff /\ t >= last => LO!Vested(e, t) = LO!Total(s)
  BY <1>2, <1>3, <1>4, <1>5
<1>8. e.cancelled # 0 /\ t >= s.cliff /\ t >= e.cancelled /\ u >= t
      => LO!Vested(e, u) = LO!Vested(e, t)
  BY <1>1, <1>2, <1>3, <1>4, <1>5
<1> QED BY <1>6, <1>7, <1>8 DEF s, last

\* The program lets go of no more than a status shows, whichever way it counts, and of no
\* less than before.
LEMMA ReleasedFacts ==
    ASSUME NEW c, c.now \in Nat, c.fromCliff \in BOOLEAN, NEW e \in EscrowSet,
           e.s.start <= e.s.cliff
    PROVE  /\ LO!Released(c, e.s) \in Nat
           /\ e.cancelled = 0 => LO!Released(c, e.s) <= LO!Vested(e, c.now)
           /\ \A d : d.now \in Nat /\ c.now <= d.now /\ d.fromCliff = c.fromCliff
                     => LO!Released(c, e.s) <= LO!Released(d, e.s)
<1> DEFINE s == e.s
           now == c.now
           over == LO!Over(c, s)
           n == Cardinality(over)
           m == IF s.freq = 0 THEN s.periods ELSE Passed(s, now)
<1>1. s \in Schedules /\ now \in Nat
  BY DEF EscrowSet
<1>2. /\ s.start \in Nat /\ s.cliff \in Nat /\ s.freq \in Nat /\ s.atCliff \in Nat
      /\ s.per \in Nat /\ s.periods \in Nat /\ LO!Total(s) = s.atCliff + s.per * s.periods
  BY <1>1, ScheduleFields
<1>3. LO!Origin(c, s) \in Nat /\ s.start <= LO!Origin(c, s)
  BY <1>2 DEF LO!Origin
<1> HIDE DEF s, now
<1>10. ASSUME NEW T PROVE LO!Cardinality(T) = Cardinality(T)
  BY DEF LO!Cardinality, Cardinality
<1>4. \A x : LO!Over(x, s) \subseteq 1..s.periods /\ IsFiniteSet(LO!Over(x, s))
             /\ Cardinality(LO!Over(x, s)) \in Nat
  <2>1. ASSUME NEW x PROVE LO!Over(x, s) \subseteq 1..s.periods
    BY DEF LO!Over
  <2>2. IsFiniteSet(1..s.periods)
    <3>1. 1 \in Int /\ s.periods \in Int
      BY <1>2
    <3> QED BY Zenon, <3>1, FS_Interval
  <2> QED BY <2>1, <2>2, FS_Subset, FS_CardinalityType
<1>5. \A a, b \in Nat : a <= b => s.per * a <= s.per * b /\ s.per * a \in Nat
                                /\ s.per * b \in Nat
  BY <1>2
<1>6. LO!Released(c, s) \in Nat
  <2>1. s.per * n \in Nat
    BY <1>4, <1>5
  <2> HIDE DEF n
  <2>2. LO!Released(c, s) = IF now < s.cliff THEN 0 ELSE s.atCliff + s.per * n
    BY Zenon, <1>10 DEF LO!Released, n, now
  <2> QED BY <1>2, <2>1, <2>2
<1>7. ASSUME NEW d, d.now \in Nat, now <= d.now, d.fromCliff = c.fromCliff
      PROVE  LO!Released(c, s) <= LO!Released(d, s)
  <2> DEFINE k == Cardinality(LO!Over(d, s))
             then == d.now
  <2>1. LO!Origin(d, s) = LO!Origin(c, s)
    BY <1>7 DEF LO!Origin
  <2>2. LO!Over(c, s) \subseteq LO!Over(d, s)
    <3> SUFFICES ASSUME NEW i \in 1..s.periods, LO!Origin(c, s) + i * s.freq <= now
                 PROVE  LO!Origin(c, s) + i * s.freq <= then
      BY <2>1 DEF LO!Over, now
    <3>1. LO!Origin(c, s) + i * s.freq \in Int
      BY <1>2, <1>3
    <3> QED BY <1>1, <1>7, <3>1
  <2>3. n <= k /\ n \in Nat /\ k \in Nat
    BY <1>4, <2>2, FS_Subset
  <2> HIDE DEF n, k
  <2>4. s.per * n <= s.per * k /\ s.per * n \in Nat /\ s.per * k \in Nat
    BY <1>5, <2>3
  <2>5. /\ LO!Released(c, s) = IF now < s.cliff THEN 0 ELSE s.atCliff + s.per * n
        /\ LO!Released(d, s) = IF then < s.cliff THEN 0 ELSE s.atCliff + s.per * k
    BY Zenon, <1>10 DEF LO!Released, n, k, now
  <2>6. then \in Nat /\ now <= then
    BY <1>7
  <2> HIDE DEF then
  <2> QED BY <1>1, <1>2, <2>4, <2>5, <2>6
<1>8. ASSUME e.cancelled = 0, now >= s.cliff PROVE n <= m /\ n \in Nat /\ m \in Nat
  <2>1. m \in Nat
    BY <1>1, <1>2, PassedFacts
  <2>2. ASSUME NEW k \in over PROVE k \in 1..m
    <3>1. k \in 1..s.periods /\ LO!Origin(c, s) + k * s.freq <= now
      BY <2>2 DEF LO!Over, now
    <3>2. CASE s.freq = 0
      BY <3>1, <3>2
    <3>3. CASE s.freq # 0
      <4>1. k \in Nat /\ k >= 1 /\ k <= s.periods
        BY <1>2, <3>1
      <4>2. s.freq * k <= Elapsed(s, now)
        <5> DEFINE w == s.freq * k
        <5>1. w \in Nat /\ w = k * s.freq
          BY <1>2, <4>1
        <5>2. LO!Origin(c, s) + w <= now
          BY <3>1, <5>1
        <5> HIDE DEF w
        <5>3. w <= now - s.start /\ now >= s.start
          BY <1>1, <1>2, <1>3, <5>1, <5>2
        <5> QED BY <1>1, <1>2, <5>3 DEF Elapsed, w
      <4>3. k <= Elapsed(s, now) \div s.freq /\ Elapsed(s, now) \div s.freq \in Nat
        BY Zenon, <1>1, <1>2, <3>3, <4>1, <4>2, PassedFacts, Quotients
      <4>4. k <= Passed(s, now)
        BY <1>2, <4>1, <4>3 DEF Passed
      <4> QED BY <2>1, <3>3, <4>1, <4>4
    <3> QED BY <3>2, <3>3
  <2> HIDE DEF m, over
  <2>3. over \subseteq 1..m
    BY <2>2
  <2>4. IsFiniteSet(1..m) /\ Cardinality(1..m) = m
    <3>1. 0 + 1 = 1 /\ 1 \in Int /\ m \in Int
      BY <2>1
    <3>2. Cardinality(1..m) = IF 1 > m THEN 0 ELSE m - 1 + 1
      BY <3>1, FS_Interval
    <3> QED BY <2>1, <3>1, <3>2, FS_Interval
  <2> QED BY <1>4, <2>1, <2>3, <2>4, FS_Subset DEF over
<1>9. ASSUME e.cancelled = 0 PROVE LO!Released(c, s) <= LO!Vested(e, now)
  <2>1. LO!EndTime(e, now) = now
    BY <1>1, <1>9, EndTimes
  <2>2. LO!Vested(e, now) = IF now < s.cliff THEN 0 ELSE s.atCliff + s.per * m
    BY <1>1, <1>2, <2>1, VestedIs DEF s
  <2> HIDE DEF n, m
  <2>3. LO!Released(c, s) = IF now < s.cliff THEN 0 ELSE s.atCliff + s.per * n
    BY Zenon, <1>10 DEF LO!Released, n, now
  <2>4. CASE now < s.cliff
    BY <2>2, <2>3, <2>4
  <2>5. CASE ~(now < s.cliff)
    <3>1. n <= m /\ n \in Nat /\ m \in Nat
      BY <1>1, <1>2, <1>8, <1>9, <2>5
    <3>2. s.per * n <= s.per * m /\ s.per * n \in Nat /\ s.per * m \in Nat
      BY <1>5, <3>1
    <3> QED BY <1>2, <2>2, <2>3, <2>5, <3>2
  <2> QED BY <2>4, <2>5
<1> QED BY <1>6, <1>7, <1>9 DEF s, now

LockTx == [kind : {"create"}, s : Schedules, mine : BOOLEAN, key : Nat]
          \union [kind : {"metadata"}, key : Nat] \union [kind : {"claim"}, key : Nat,
             max : Nat]

\* What was claimed was let go, and a status shows it.
CoveredEscrow(e, c) == /\ e.s.start <= e.s.cliff /\ e.claimed <= LO!Released(c, e.s)
                       /\ e.claimed <= LO!Vested(e, c.now)
Covered(c) == \A e \in c.escrows : CoveredEscrow(e, c)

LockRecord == [tokens : Int, escrows : SUBSET EscrowSet, now : Nat, fromCliff : BOOLEAN]
LockChain  == {c \in LockRecord : Covered(c)}

\* The schedule, the way of counting and the time are all that it depends on.
LEMMA CoveredSame ==
    ASSUME NEW e, NEW c, NEW d, d.now = c.now, d.fromCliff = c.fromCliff, CoveredEscrow(e, c)
    PROVE  CoveredEscrow(e, d)
BY DEF CoveredEscrow, LO!Released, LO!Over, LO!Origin

\* One of the escrows is made or changed.
LockPut(c, n, rest, x) == [c EXCEPT !.tokens = n, !.escrows = rest \union {x}]

\* A change of one of the escrows, whatever happens to the tokens.
LEMMA LockChanged ==
    ASSUME NEW c \in LockChain, NEW x \in EscrowSet, CoveredEscrow(x, c), NEW n \in Int,
           NEW rest, rest \subseteq c.escrows
    PROVE  LockPut(c, n, rest, x) \in LockChain
<1> DEFINE es == rest \union {x}
           d == [c EXCEPT !.tokens = n, !.escrows = es]
<1>1. c \in LockRecord /\ Covered(c) /\ c.escrows \subseteq EscrowSet
  BY DEF LockChain, LockRecord
<1>2. es \in SUBSET EscrowSet
  BY <1>1
<1>3. \A y \in es : CoveredEscrow(y, c)
  BY <1>1 DEF Covered
<1> HIDE DEF es
<1>4. d.escrows = es /\ d.now = c.now /\ d.fromCliff = c.fromCliff /\ d \in LockRecord
  BY Zenon, <1>1, <1>2 DEF LockRecord
<1> HIDE DEF d
<1>5. Covered(d)
  BY <1>3, <1>4, CoveredSame DEF Covered
<1>6. d \in LockChain
  BY <1>4, <1>5 DEF LockChain
<1> QED BY Zenon, <1>6 DEF LockPut, d, es

\* An escrow gives no more than its program lets go of; none is given when it is made.
LEMMA LockLands ==
    ASSUME NEW c \in LockChain, NEW t \in LockTx, LO!Accepts(c, t)
    PROVE  LO!Effect(c, t) \in LockChain
<1> DEFINE d == LO!Effect(c, t)
           e == LO!Escrow(c, t.key)
<1>1. /\ c.tokens \in Int /\ c.escrows \subseteq EscrowSet /\ c.now \in Nat
      /\ c.fromCliff \in BOOLEAN /\ \A x \in c.escrows : CoveredEscrow(x, c)
  BY DEF LockChain, LockRecord, Covered
<1>2. t.key \in LO!Keys(c) => e \in c.escrows /\ e \in EscrowSet
  BY <1>1 DEF LO!Keys, LO!Escrow
<1> HIDE DEF e
<1>3. CASE t.kind = "create"
  <2> DEFINE zero == 0
             x == [key |-> t.key, s |-> t.s, mine |-> t.mine, claimed |-> zero, meta |-> FALSE,
                   cancelled |-> zero]
             n == c.tokens - LO!Total(t.s)
  <2>1. t.s \in Schedules /\ t.key \in Nat /\ t.mine \in BOOLEAN /\ t.s.start <= t.s.cliff
    BY <1>3 DEF LockTx, LO!Accepts
  <2>2. d = LockPut(c, n, c.escrows, x)
    BY <1>3 DEF LO!Effect, LockChain, LockRecord, LockPut
  <2>3. LO!Total(t.s) \in Nat
    BY <2>1, ScheduleFields
  <2>4. n \in Int /\ zero \in Nat
    BY <1>1, <2>3
  <2> HIDE DEF zero, n, d
  <2>5. x \in EscrowSet /\ x.s = t.s /\ x.claimed = zero
    BY <2>1, <2>4 DEF EscrowSet
  <2> HIDE DEF x
  <2>6. CoveredEscrow(x, c)
    <3>1. LO!Released(c, x.s) \in Nat /\ LO!Vested(x, c.now) \in Nat
      BY <1>1, <2>1, <2>5, ReleasedFacts, VestedFacts
    <3> QED BY <2>1, <2>5, <3>1 DEF CoveredEscrow, zero
  <2>7. c.escrows \subseteq c.escrows
    OBVIOUS
  <2> QED BY Zenon, <2>2, <2>4, <2>5, <2>6, <2>7, LockChanged DEF d
<1>4. CASE t.kind = "metadata"
  <2> DEFINE x == [e EXCEPT !.meta = TRUE]
             rest == c.escrows \ {e}
  <2>1. /\ e \in c.escrows /\ x \in EscrowSet /\ x.s = e.s /\ x.claimed = e.claimed
        /\ x.cancelled = e.cancelled
    BY Zenon, <1>2, <1>4 DEF LO!Accepts, EscrowSet
  <2>2. d = LockPut(c, c.tokens, rest, x)
    BY Zenon, <1>4 DEF LO!Effect, LockChain, LockRecord, e, LockPut
  <2> HIDE DEF x, d
  <2>3. LO!Vested(x, c.now) = LO!Vested(e, c.now)
    BY <2>1 DEF LO!Vested, LO!EndTime
  <2>4. CoveredEscrow(x, c)
    BY <1>1, <2>1, <2>3 DEF CoveredEscrow
  <2>5. rest \subseteq c.escrows
    OBVIOUS
  <2> HIDE DEF rest
  <2> QED BY Zenon, <1>1, <2>1, <2>2, <2>4, <2>5, LockChanged DEF d
<1>5. CASE t.kind = "claim"
  <2> DEFINE v == LO!Released(c, e.s)
             a == LO!Min({t.max, v - e.claimed})
             k == e.claimed + a
             x == [e EXCEPT !.claimed = k]
             rest == c.escrows \ {e}
             n == c.tokens + a
  <2>1. e \in c.escrows /\ e \in EscrowSet /\ t.max \in Nat /\ e.cancelled = 0
    BY <1>2, <1>5 DEF LO!Accepts, LockTx, e
  <2>2. /\ v \in Nat /\ e.claimed \in Nat /\ e.claimed <= v /\ v <= LO!Vested(e, c.now)
        /\ LO!Vested(e, c.now) \in Nat
    BY <1>1, <2>1, ReleasedFacts, VestedFacts DEF EscrowSet, CoveredEscrow
  <2>3. d = LockPut(c, n, rest, x)
    BY <1>5, <2>1 DEF LO!Effect, LockChain, LockRecord, e, EscrowSet, LockPut
  <2> HIDE DEF v, d
  <2>4. a = IF t.max <= v - e.claimed THEN t.max ELSE v - e.claimed
    BY <2>1, <2>2, MinOfTwo
  <2> HIDE DEF a
  <2>5. a \in Nat /\ k <= v /\ k \in Nat /\ k <= LO!Vested(e, c.now) /\ n \in Int
    <3>1. \A m, i, w \in Nat : i <= w =>
             LET b == IF m <= w - i THEN m ELSE w - i
             IN  b \in Nat /\ i + b <= w /\ i + b \in Nat
      OBVIOUS
    <3>2. a \in Nat /\ k <= v /\ k \in Nat
      BY <2>1, <2>2, <2>4, <3>1
    <3> HIDE DEF k
    <3> QED BY <1>1, <2>2, <3>2
  <2> HIDE DEF k, n
  <2>6. x \in EscrowSet /\ x.s = e.s /\ x.claimed = k /\ x.cancelled = e.cancelled
    BY <2>1, <2>5 DEF EscrowSet
  <2> HIDE DEF x
  <2>7. LO!Vested(x, c.now) = LO!Vested(e, c.now)
    BY <2>6 DEF LO!Vested, LO!EndTime
  <2>8. CoveredEscrow(x, c)
    BY <1>1, <2>1, <2>5, <2>6, <2>7 DEF CoveredEscrow, v
  <2>9. rest \subseteq c.escrows
    OBVIOUS
  <2> HIDE DEF rest
  <2> QED BY Zenon, <2>3, <2>5, <2>6, <2>8, <2>9, LockChanged DEF d
<1> QED BY <1>3, <1>4, <1>5 DEF LockTx

\* The steps of Submission, of lock commands.
LEMMA LockSteps ==
    ASSUME LO!S!Step
    PROVE  Steps(LO!Accepts, LO!Effect, LO!Resumes, LO!Forgives)
BY DEF LO!S!Step, LO!S!Land, LO!S!Simulate, LO!S!Forgive, LO!S!Refuse, LO!S!Lose,
       LO!S!Unready, LO!S!LandsLate, LO!S!Expires, LO!S!Command, LO!S!After,
       LO!S!Forgiven, LO!S!Busy, Steps, Takes, Stops, Commanded, Late

\* They keep what is pending, and the chain, of their sets.
LEMMA LockTyped ==
    ASSUME Typed(LockTx, LockChain), LO!S!Step
    PROVE  Typed(LockTx, LockChain)'
<1>1. AnyStep(LockChain)
  BY Zenon, LockSteps, LockLands, TypedHead DEF Steps, AnyStep, Typed, Takes
<1> QED BY <1>1, TypedStep

LockExcept == \/ cmd.op = "metadata" /\ cmd.arg.had
              \/ cmd.op = "claim" /\ cmd.arg.ended

LockLone ==
    /\ status = "running" => Len(queue) = 1
    /\ status = "running" => cmd.moved \/ LockExcept \/ LO!Accepts(chain, Head(queue))
    /\ status = "refused" => cmd.moved \/ LockExcept

LockInv == Typed(LockTx, LockChain) /\ LockLone

\* It holds before the first command.
LEMMA LockInit == ASSUME LO!Init PROVE LockInv
<1>1. /\ \E b \in BOOLEAN :
            chain = [tokens |-> LockTokens, escrows |-> {}, now |-> 0, fromCliff |-> b]
      /\ cmd = LO!S!NoCommand /\ queue = <<>> /\ late = {} /\ status = "idle"
  BY DEF LO!Init, LO!S!Begin
<1>2. chain \in LockChain
  BY <1>1, LockAssumption DEF LockChain, LockRecord, Covered
<1> QED BY <1>1, <1>2 DEF LO!S!NoCommand, LockInv, Typed, CmdInv, LockLone

\* Every lock command and every step of others keeps it.
LEMMA LockStep == ASSUME LockInv, LO!Next PROVE LockInv'
<1>0. /\ Typed(LockTx, LockChain) /\ chain \in LockChain /\ chain \in LockRecord
      /\ Covered(chain) /\ LockLone /\ cmd.n \in Nat /\ chain.tokens \in Int
      /\ chain.escrows \subseteq EscrowSet /\ chain.now \in Nat /\ chain.fromCliff \in BOOLEAN
  BY DEF LockInv, Typed, LockChain, LockRecord, CmdInv
<1>1. CASE LO!S!Step
  <2>1. Typed(LockTx, LockChain)'
    BY <1>0, <1>1, LockTyped
  <2>2. LockLone'
    BY <1>0, <1>1, LockSteps DEF Steps, Takes, Stops, Commanded, Late, LockLone, LockExcept,
       Typed, CmdInv, LO!Resumes
  <2> QED BY <2>1, <2>2 DEF LockInv
<1>2. ASSUME NEW c \in LockChain, Moved(c) PROVE LockInv'
  BY <1>0, <1>2, TypedMoved DEF LockInv, LockLone, Moved
<1>6. CASE LO!Tick
  <2> DEFINE now == chain.now + 1
             c == [chain EXCEPT !.now = now]
  <2>1. Moved(c)
    BY <1>6 DEF LO!Tick, LO!S!World, Moved
  <2>2. /\ c \in LockRecord /\ c.escrows = chain.escrows /\ c.now = now /\ now \in Nat
        /\ c.fromCliff = chain.fromCliff /\ chain.now <= now
    BY <1>0 DEF LockRecord
  <2> HIDE DEF c, now
  <2>3. ASSUME NEW e \in chain.escrows PROVE CoveredEscrow(e, c)
    <3>1. e \in EscrowSet /\ CoveredEscrow(e, chain) /\ e.claimed \in Nat
      BY <1>0, <2>3 DEF Covered, EscrowSet
    <3>2. /\ LO!Vested(e, chain.now) <= LO!Vested(e, now)
          /\ LO!Vested(e, chain.now) \in Nat /\ LO!Vested(e, now) \in Nat
      BY <1>0, <2>2, <3>1, VestedFacts
    <3>3. /\ LO!Released(chain, e.s) <= LO!Released(c, e.s)
          /\ LO!Released(chain, e.s) \in Nat /\ LO!Released(c, e.s) \in Nat
      <4>1. e.s.start <= e.s.cliff
        BY <3>1 DEF CoveredEscrow
      <4>2. LO!Released(chain, e.s) \in Nat /\ LO!Released(c, e.s) \in Nat
        BY Zenon, <1>0, <2>2, <3>1, <4>1, ReleasedFacts
      <4>3. LO!Released(chain, e.s) <= LO!Released(c, e.s)
        BY Zenon, <1>0, <2>2, <3>1, <4>1, ReleasedFacts
      <4> QED BY <4>2, <4>3
    <3> QED BY <2>2, <3>1, <3>2, <3>3 DEF CoveredEscrow
  <2>4. c \in LockChain
    BY <2>2, <2>3 DEF LockChain, Covered
  <2> QED BY <1>2, <2>1, <2>4
<1>7. CASE LO!Cancelled
  <2>1. PICK e \in chain.escrows :
           /\ e.cancelled = 0
           /\ Moved([chain EXCEPT !.escrows = (chain.escrows \ {e}) \union
                                               {[e EXCEPT !.cancelled = chain.now]}])
    BY <1>7 DEF LO!Cancelled, LO!S!World, Moved
  <2> DEFINE now == chain.now
             x == [e EXCEPT !.cancelled = now]
             rest == chain.escrows \ {e}
             c == LockPut(chain, chain.tokens, rest, x)
  <2>2. Moved(c)
    BY <1>0, <2>1 DEF LockRecord, LockPut
  <2>3. now \in Nat /\ e \in EscrowSet /\ CoveredEscrow(e, chain)
    BY <1>0 DEF Covered
  <2> HIDE DEF c
  <2>4. x \in EscrowSet /\ x.s = e.s /\ x.claimed = e.claimed /\ x.cancelled = now
    BY <2>3 DEF EscrowSet
  <2> HIDE DEF x
  <2>5. LO!EndTime(x, now) = now /\ LO!EndTime(e, now) = now
    BY <2>1, <2>3, <2>4, EndTimes
  <2>6. LO!Vested(x, now) = LO!Vested(e, now)
    BY <2>4, <2>5 DEF LO!Vested
  <2>7. CoveredEscrow(x, chain)
    BY <2>3, <2>4, <2>6 DEF CoveredEscrow
  <2>8. rest \subseteq chain.escrows
    OBVIOUS
  <2> HIDE DEF rest
  <2>9. c \in LockChain
    BY <1>0, <2>4, <2>7, <2>8, LockChanged DEF c
  <2> QED BY <1>2, <2>2, <2>9
<1>3. ASSUME NEW s \in Schedules, NEW mine \in BOOLEAN, LO!CreateVestingEscrow(s, mine)
      PROVE  LockInv'
  <2> DEFINE t == [kind |-> "create", s |-> s, mine |-> mine, key |-> cmd.n + 1]
             total == LO!Total(s)
             ok == s.start <= s.cliff /\ total > 0 /\ total <= chain.tokens
  <2>1. Commanded("create", "none", ok, <<t>>)
    BY Zenon, <1>3 DEF LO!CreateVestingEscrow, LO!S!Command, LO!S!Busy, Commanded
  <2>2. total \in Nat
    BY ScheduleFields
  <2>3. t \in LockTx
    BY <1>0 DEF LockTx
  <2>4. LO!Accepts(chain, t) = (s.start <= s.cliff /\ total \in 1..chain.tokens)
    BY DEF LO!Accepts
  <2> HIDE DEF t, total
  <2>5. ASSUME ok PROVE LO!Accepts(chain, t)
    <3>1. s.start <= s.cliff /\ total > 0 /\ total <= chain.tokens
      BY <2>5
    <3>2. total \in 1..chain.tokens
      BY <1>0, <2>2, <3>1
    <3> QED BY Zenon, <2>4, <3>1, <3>2
  <2> HIDE DEF ok
  <2> QED BY <1>0, <2>1, <2>3, <2>5, OneTransaction DEF LockInv, LockLone
<1>4. ASSUME NEW k \in 1..cmd.n, LO!CreateEscrowMetadata(k) PROVE LockInv'
  <2> DEFINE t == [kind |-> "metadata", key |-> k]
             arg == [had |-> \E e \in chain.escrows : e.key = k /\ e.meta]
             ok == k \in LO!Keys(chain)
  <2>1. Commanded("metadata", arg, ok, <<t>>)
    BY Zenon, <1>4 DEF LO!CreateEscrowMetadata, LO!S!Command, LO!S!Busy, Commanded
  <2>2. t \in LockTx
    BY <1>0 DEF LockTx
  <2>3. ok => LO!Escrow(chain, k) \in chain.escrows /\ LO!Escrow(chain, k).key = k
    BY DEF LO!Keys, LO!Escrow
  <2>4. ok => arg.had \/ LO!Accepts(chain, t)
    BY <2>3 DEF LO!Accepts
  <2> HIDE DEF t, ok, arg
  <2> QED BY <1>0, <2>1, <2>2, <2>4, OneTransaction DEF LockInv, LockLone, LockExcept
<1>5. ASSUME NEW k \in 1..cmd.n, NEW max \in 0..1, LO!Claim(k, max) PROVE LockInv'
  <2> DEFINE t == [kind |-> "claim", key |-> k, max |-> IF max = 0 THEN LO!U64Max ELSE max]
             arg == [ended |-> \E e \in chain.escrows : e.key = k /\ e.cancelled # 0]
             ok == k \in LO!Keys(chain) /\ LO!Escrow(chain, k).mine
  <2>1. Commanded("claim", arg, ok, <<t>>)
    BY Zenon, <1>5 DEF LO!Claim, LO!S!Command, LO!S!Busy, Commanded
  <2>2. t \in LockTx
    BY <1>0, LockAssumption DEF LockTx, LO!U64Max
  <2>3. ok => LO!Escrow(chain, k) \in chain.escrows /\ LO!Escrow(chain, k).key = k
    BY DEF LO!Keys, LO!Escrow
  <2>4. ok => arg.ended \/ LO!Accepts(chain, t)
    BY <2>3 DEF LO!Accepts
  <2> HIDE DEF t, ok, arg
  <2> QED BY <1>0, <2>1, <2>2, <2>4, OneTransaction DEF LockInv, LockLone, LockExcept
<1> QED BY <1>1, <1>3, <1>4, <1>5, <1>6, <1>7 DEF LO!Next

-----------------------------------------------------------------------------
(* Stake2Earn *)

\* Requests have the numbers of runs that were made, n so far.
StakeTx(n) == [kind : {"claim"}] \union [kind : {"stake"}, amount : Int]
              \union [kind : {"unstake"}, amount : Int, key : 1..n]
              \union [kind : {"cancel", "withdraw"}, key : Int]

StakeRequests(n) == [key : 1..n, amount : Int, at : Int]

StakeChain(n) == [farm : BOOLEAN, tokens : Int, escrow : BOOLEAN, staked : Int, fees : Int,
                  requests : SUBSET StakeRequests(n), now : Int]

\* What an accepted transaction leaves of a stake, and its requests.
LEMMA StakeLands ==
    ASSUME NEW n \in Nat, NEW c \in StakeChain(n), NEW t \in StakeTx(n), SE!Accepts(c, t)
    PROVE  SE!Effect(c, t) \in StakeChain(n)
<1> DEFINE d == SE!Effect(c, t)
           u == SE!Request(c, t.key)
<1>1. /\ c.farm \in BOOLEAN /\ c.tokens \in Int /\ c.escrow \in BOOLEAN /\ c.staked \in Int
      /\ c.fees \in Int /\ c.requests \subseteq StakeRequests(n) /\ c.now \in Int
  BY DEF StakeChain
<1> SUFFICES d \in StakeChain(n)
  OBVIOUS
<1>2. CASE t.kind = "stake"
  <2>1. t.amount \in Int
    BY <1>2 DEF StakeTx
  <2>2. c.tokens - t.amount \in Int /\ c.staked + t.amount \in Int
    BY <1>1, <2>1
  <2> DEFINE tokens == c.tokens - t.amount
             staked == c.staked + t.amount
  <2>3. d = [c EXCEPT !.tokens = tokens, !.staked = staked, !.escrow = TRUE]
    BY <1>2 DEF SE!Effect, StakeChain
  <2> HIDE DEF d, tokens, staked
  <2> QED BY Zenon, <1>1, <2>2, <2>3 DEF StakeChain, tokens, staked
<1>3. CASE t.kind = "claim"
  BY <1>1, <1>3 DEF SE!Effect, StakeChain
<1>4. CASE t.kind = "unstake"
  <2> DEFINE r == [key |-> t.key, amount |-> t.amount, at |-> c.now + UnstakeLock]
             staked == c.staked - t.amount
  <2>1. r \in StakeRequests(n) /\ staked \in Int
    BY <1>1, <1>4, StakeAssumption DEF StakeTx, StakeRequests
  <2>2. d = [c EXCEPT !.staked = staked, !.requests = c.requests \union {r}]
    BY <1>4 DEF SE!Effect, StakeChain
  <2> HIDE DEF d, r, staked
  <2> QED BY Zenon, <1>1, <2>1, <2>2 DEF StakeChain
<1>5. t.kind \in {"cancel", "withdraw"} => u \in c.requests /\ u.amount \in Int
  <2>1. t.kind \in {"cancel", "withdraw"} => t.key \in SE!Keys(c)
    BY Zenon DEF SE!Accepts
  <2> QED BY <1>1, <2>1 DEF SE!Keys, SE!Request, StakeRequests
<1>6. CASE t.kind = "cancel"
  <2> DEFINE staked == c.staked + u.amount
  <2>1. d = [c EXCEPT !.staked = staked, !.requests = c.requests \ {u}]
    BY <1>6 DEF SE!Effect, StakeChain
  <2>2. staked \in Int
    BY <1>1, <1>5, <1>6
  <2> HIDE DEF d, staked, u
  <2> QED BY Zenon, <1>1, <2>1, <2>2 DEF StakeChain
<1>7. CASE t.kind = "withdraw"
  <2> DEFINE tokens == c.tokens + u.amount
  <2>1. d = [c EXCEPT !.tokens = tokens, !.requests = c.requests \ {u}]
    BY <1>7 DEF SE!Effect, StakeChain
  <2>2. tokens \in Int
    BY <1>1, <1>5, <1>7
  <2> HIDE DEF d, tokens, u
  <2> QED BY Zenon, <1>1, <2>1, <2>2 DEF StakeChain
<1> QED BY <1>2, <1>3, <1>4, <1>6, <1>7 DEF StakeTx

\* The steps of Submission, of stake2earn commands.
LEMMA StakeSteps ==
    ASSUME SE!S!Step
    PROVE  Steps(SE!Accepts, SE!Effect, SE!Resumes, SE!Forgives)
BY DEF SE!S!Step, SE!S!Land, SE!S!Simulate, SE!S!Forgive, SE!S!Refuse, SE!S!Lose,
       SE!S!Unready, SE!S!LandsLate, SE!S!Expires, SE!S!Command, SE!S!After,
       SE!S!Forgiven, SE!S!Busy, Steps, Takes, Stops, Commanded, Late

\* They keep what is pending, and the chain, of their sets.
LEMMA StakeTyped ==
    ASSUME NEW n \in Nat, Typed(StakeTx(n), StakeChain(n)), SE!S!Step
    PROVE  Typed(StakeTx(n), StakeChain(n))'
<1>1. AnyStep(StakeChain(n))
  BY Zenon, StakeSteps, StakeLands, TypedHead DEF Steps, AnyStep, Typed, Takes
<1> QED BY <1>1, TypedStep

\* Another run has another number for its request.
LEMMA StakeGrows ==
    ASSUME NEW n \in Nat
    PROVE  /\ StakeTx(n) \subseteq StakeTx(n + 1) /\ StakeChain(n) \subseteq StakeChain(n + 1)
           /\ Typed(StakeTx(n), StakeChain(n)) => Typed(StakeTx(n + 1), StakeChain(n + 1))
           /\ Typed(StakeTx(n), StakeChain(n))' => Typed(StakeTx(n + 1), StakeChain(n + 1))'
<1>1. 1..n \subseteq 1..(n + 1)
  OBVIOUS
<1>2. StakeTx(n) \subseteq StakeTx(n + 1)
  BY <1>1 DEF StakeTx
<1>3. StakeRequests(n) \subseteq StakeRequests(n + 1)
  BY <1>1 DEF StakeRequests
<1>4. StakeChain(n) \subseteq StakeChain(n + 1)
  BY <1>3 DEF StakeChain
<1> QED BY <1>2, <1>4, TypedGrows

StakeLone ==
    /\ status = "running" => Len(queue) = 1
    /\ status = "running" => cmd.moved \/ SE!Accepts(chain, Head(queue))
    /\ status = "refused" => cmd.moved

StakeInv == Typed(StakeTx(cmd.n), StakeChain(cmd.n)) /\ StakeLone

\* It holds before the first command.
LEMMA StakeInit == ASSUME SE!Init PROVE StakeInv
BY StakeAssumption
   DEF SE!Init, SE!S!Begin, SE!S!NoCommand, StakeInv, Typed, CmdInv, StakeLone, StakeChain

\* Every stake2earn command and every step of others keeps it.
LEMMA StakeStep == ASSUME StakeInv, SE!Next PROVE StakeInv'
<1>1. PICK n \in Nat : n = cmd.n
  BY DEF StakeInv, Typed, CmdInv
<1>2. /\ Typed(StakeTx(n), StakeChain(n)) /\ StakeLone /\ chain \in StakeChain(n)
      /\ Typed(StakeTx(n + 1), StakeChain(n + 1)) /\ CmdInv /\ n + 1 \in Nat
  BY SMTT(30), <1>1, StakeGrows DEF StakeInv, Typed
<1>3. ASSUME Typed(StakeTx(n), StakeChain(n))', cmd'.n \in {n, n + 1},
   StakeLone' PROVE StakeInv'
  BY <1>3, StakeGrows DEF StakeInv
<1>4. ASSUME Typed(StakeTx(n + 1), StakeChain(n + 1))', cmd'.n = n + 1,
   StakeLone' PROVE StakeInv'
  BY <1>4 DEF StakeInv
<1>5. CASE SE!S!Step
  <2>1. Typed(StakeTx(n), StakeChain(n))'
    BY <1>2, <1>5, StakeTyped
  <2>2. StakeLone' /\ cmd'.n \in {n, n + 1}
    BY <1>1, <1>2, <1>5, StakeSteps DEF Steps, Takes, Stops, Commanded, Late, StakeLone, CmdInv,
       SE!Resumes
  <2> QED BY <1>3, <2>1, <2>2
<1>6. ASSUME NEW c \in StakeChain(n), Moved(c) PROVE StakeInv'
  BY <1>1, <1>2, <1>3, <1>6, TypedMoved DEF StakeLone, Moved, CmdInv
<1>7. CASE SE!Tick \/ SE!FeesAccrue \/ SE!FarmOpens
  <2> DEFINE now == chain.now + 1
  <2>1. now \in Int
    BY <1>2 DEF StakeChain
  <2>2. \/ Moved([chain EXCEPT !.now = now])
        \/ Moved([chain EXCEPT !.fees = 1]) \/ Moved([chain EXCEPT !.farm = TRUE])
    BY <1>7 DEF SE!Tick, SE!FeesAccrue, SE!FarmOpens, SE!S!World, Moved
  <2> HIDE DEF now
  <2>3. [chain EXCEPT !.now = now] \in StakeChain(n)
    BY <1>2, <2>1 DEF StakeChain
  <2>4. [chain EXCEPT !.fees = 1] \in StakeChain(n)
    BY <1>2 DEF StakeChain
  <2>5. [chain EXCEPT !.farm = TRUE] \in StakeChain(n)
    BY Zenon, <1>2 DEF StakeChain
  <2> QED BY <1>6, <2>2, <2>3, <2>4, <2>5
<1>8. ASSUME NEW op, NEW ok, NEW t, Commanded(op, "none", ok, <<t>>),
             ok => t \in StakeTx(n + 1) /\ SE!Accepts(chain, t)
      PROVE  StakeInv'
  <2>1. Typed(StakeTx(n + 1), StakeChain(n + 1))' /\ cmd'.n = n + 1 /\ StakeLone'
    BY <1>1, <1>2, <1>8, OneTransaction DEF StakeLone
  <2> QED BY <1>4, <2>1
<1>9. CASE SE!ClaimFee
  <2> DEFINE t == [kind |-> "claim"]
             ok == SE!Loaded /\ chain.escrow /\ chain.fees > 0
  <2>1. Commanded("claim", "none", ok, <<t>>)
    BY Zenon, <1>9 DEF SE!ClaimFee, SE!S!Command, SE!S!Busy, Commanded
  <2>2. ok => t \in StakeTx(n + 1) /\ SE!Accepts(chain, t)
    BY DEF StakeTx, SE!Accepts
  <2> HIDE DEF t, ok
  <2> QED BY <1>8, <2>1, <2>2
<1>10. ASSUME NEW a \in SE!Amounts, SE!Stake(a) PROVE StakeInv'
  <2> DEFINE t == [kind |-> "stake", amount |-> a]
             ok == SE!Loaded /\ chain.tokens >= a
  <2>1. Commanded("stake", "none", ok, <<t>>)
    BY Zenon, <1>10 DEF SE!Stake, SE!S!Command, SE!S!Busy, Commanded
  <2>2. ok => t \in StakeTx(n + 1) /\ SE!Accepts(chain, t)
    BY <1>2 DEF StakeTx, StakeChain, SE!Accepts, SE!Loaded, SE!Amounts
  <2> HIDE DEF t, ok
  <2> QED BY <1>8, <2>1, <2>2
<1>11. ASSUME NEW a \in SE!Amounts, SE!UnstakeStart(a) PROVE StakeInv'
  <2> DEFINE t == [kind |-> "unstake", amount |-> a, key |-> n + 1]
             ok == SE!Loaded /\ chain.escrow /\ a <= chain.staked
  <2>1. Commanded("unstake", "none", ok, <<t>>)
    BY Zenon, <1>1, <1>11 DEF SE!UnstakeStart, SE!S!Command, SE!S!Busy, Commanded
  <2>2. n + 1 \notin SE!Keys(chain)
    BY <1>2 DEF StakeChain, StakeRequests, SE!Keys
  <2>3. ok => t \in StakeTx(n + 1) /\ SE!Accepts(chain, t)
    BY <1>2, <2>2 DEF StakeTx, SE!Accepts, SE!Amounts
  <2> HIDE DEF t, ok
  <2> QED BY <1>8, <2>1, <2>3
<1>12. ASSUME NEW k \in 0..cmd.n, SE!CancelUnstake(k) PROVE StakeInv'
  <2> DEFINE t == [kind |-> "cancel", key |-> k]
             ok == SE!Loaded /\ SE!ResolveUnstakeKey(k)
  <2>1. Commanded("cancel", "none", ok, <<t>>)
    BY Zenon, <1>12 DEF SE!CancelUnstake, SE!S!Command, SE!S!Busy, Commanded
  <2>2. ok => t \in StakeTx(n + 1) /\ SE!Accepts(chain, t)
    BY <1>1 DEF StakeTx, SE!Accepts, SE!ResolveUnstakeKey
  <2> HIDE DEF t, ok
  <2> QED BY <1>8, <2>1, <2>2
<1>13. ASSUME NEW k \in 0..cmd.n, SE!WithdrawUnstake(k) PROVE StakeInv'
  <2> DEFINE t == [kind |-> "withdraw", key |-> k]
             ok == /\ SE!Loaded /\ SE!ResolveUnstakeKey(k)
                   /\ SE!Request(chain, k).at <= chain.now
  <2>1. Commanded("withdraw", "none", ok, <<t>>)
    BY Zenon, <1>13 DEF SE!WithdrawUnstake, SE!S!Command, SE!S!Busy, Commanded
  <2>2. ok => t \in StakeTx(n + 1) /\ SE!Accepts(chain, t)
    BY <1>1 DEF StakeTx, SE!Accepts, SE!ResolveUnstakeKey
  <2> HIDE DEF t, ok
  <2> QED BY <1>8, <2>1, <2>2
<1> QED BY <1>5, <1>7, <1>9, <1>10, <1>11, <1>12, <1>13 DEF SE!Next

-----------------------------------------------------------------------------
(* DynamicVault *)

VaultTx == [kind : {"deposit"}, amount : Nat] \union [kind : {"withdraw"}, lp : Nat]

VaultChain == [vault : BOOLEAN, native : BOOLEAN, tokens : Int, lp : Int, price : Nat \ {0}]

\* What an accepted deposit or withdrawal leaves.
LEMMA VaultLands ==
    ASSUME NEW c \in VaultChain, NEW t \in VaultTx, DV!Accepts(c, t)
    PROVE  DV!Effect(c, t) \in VaultChain
<1> DEFINE d == DV!Effect(c, t)
<1>1. /\ c.tokens \in Int /\ c.lp \in Int /\ c.price \in Nat /\ c.price > 0
  BY DEF VaultChain
<1> SUFFICES d \in VaultChain
  OBVIOUS
<1>2. CASE t.kind = "deposit"
  <2> DEFINE tokens == c.tokens - t.amount
             lp == c.lp + t.amount \div c.price
  <2>1. d = [c EXCEPT !.tokens = tokens, !.lp = lp]
    BY <1>2 DEF DV!Effect, VaultChain
  <2>2. t.amount \in Nat
    BY <1>2 DEF VaultTx
  <2>3. t.amount \div c.price \in Int
    BY <1>1, <2>2
  <2>4. tokens \in Int /\ lp \in Int
    BY <1>1, <2>2, <2>3
  <2> HIDE DEF d, tokens, lp
  <2> QED BY Zenon, <2>1, <2>4 DEF VaultChain
<1>3. CASE t.kind = "withdraw"
  <2> DEFINE tokens == c.tokens + t.lp * c.price
             lp == c.lp - t.lp
  <2>1. d = [c EXCEPT !.tokens = tokens, !.lp = lp]
    BY <1>3 DEF DV!Effect, VaultChain
  <2>2. t.lp \in Nat
    BY <1>3 DEF VaultTx
  <2>3. t.lp * c.price \in Int
    BY <1>1, <2>2
  <2>4. tokens \in Int /\ lp \in Int
    BY <1>1, <2>2, <2>3
  <2> HIDE DEF d, tokens, lp
  <2> QED BY Zenon, <2>1, <2>4 DEF VaultChain
<1> QED BY <1>2, <1>3 DEF VaultTx

\* The steps of Submission, of dynamic vault commands.
LEMMA VaultSteps ==
    ASSUME DV!S!Step
    PROVE  Steps(DV!Accepts, DV!Effect, DV!Resumes, DV!Forgives)
BY DEF DV!S!Step, DV!S!Land, DV!S!Simulate, DV!S!Forgive, DV!S!Refuse, DV!S!Lose,
       DV!S!Unready, DV!S!LandsLate, DV!S!Expires, DV!S!Command, DV!S!After,
       DV!S!Forgiven, DV!S!Busy, Steps, Takes, Stops, Commanded, Late

\* They keep what is pending, and the chain, of their sets.
LEMMA VaultTyped ==
    ASSUME Typed(VaultTx, VaultChain), DV!S!Step
    PROVE  Typed(VaultTx, VaultChain)'
<1>1. AnyStep(VaultChain)
  BY Zenon, VaultSteps, VaultLands, TypedHead DEF Steps, AnyStep, Typed, Takes
<1> QED BY <1>1, TypedStep

VaultExcept == cmd.op = "deposit" /\ cmd.arg.native /\ cmd.arg.left \in 0..(TxFee - 1)

VaultLone ==
    /\ status = "running" => Len(queue) = 1
    /\ status = "running" => cmd.moved \/ VaultExcept \/ DV!Accepts(chain, Head(queue))
    /\ status = "refused" => cmd.moved \/ VaultExcept

VaultInv == Typed(VaultTx, VaultChain) /\ VaultLone

\* It holds before the first command.
LEMMA VaultInit == ASSUME DV!Init PROVE VaultInv
BY VaultAssumption
   DEF DV!Init, DV!S!Begin, DV!S!NoCommand, VaultInv, Typed, CmdInv, VaultLone, VaultChain

\* Every dynamic vault command and every step of others keeps it.
LEMMA VaultStep == ASSUME VaultInv, DV!Next PROVE VaultInv'
<1>0. /\ Typed(VaultTx, VaultChain) /\ VaultLone /\ chain \in VaultChain
      /\ chain.price \in Nat /\ chain.price # 0 /\ chain.tokens \in Int /\ TxFee \in Nat
  BY VaultAssumption DEF VaultInv, Typed, VaultChain
<1>1. CASE DV!S!Step
  <2>1. Typed(VaultTx, VaultChain)'
    BY <1>0, <1>1, VaultTyped
  <2>2. VaultLone'
    BY <1>0, <1>1, VaultSteps DEF Steps, Takes, Stops, Commanded, Late, VaultLone, VaultExcept,
       Typed, CmdInv, DV!Resumes
  <2> QED BY <2>1, <2>2 DEF VaultInv
<1>2. CASE DV!VaultEarns
  <2> DEFINE c == [chain EXCEPT !.price = chain.price + 1]
  <2>1. Moved(c)
    BY <1>2 DEF DV!VaultEarns, DV!S!World, Moved
  <2>2. chain.price + 1 \in Nat \ {0}
    BY <1>0
  <2>3. c \in VaultChain
    BY <1>0, <2>2 DEF VaultChain
  <2> QED BY <1>0, <2>1, <2>3, TypedMoved DEF VaultInv, VaultLone, Moved
<1>3. ASSUME NEW a \in DV!Amounts, DV!Deposit(a) PROVE VaultInv'
  <2> DEFINE t == [kind |-> "deposit", amount |-> a]
             arg == [native |-> chain.native, left |-> chain.tokens - a]
             ok == chain.vault /\ a <= chain.tokens
  <2>1. Commanded("deposit", arg, ok, <<t>>)
    BY Zenon, <1>3 DEF DV!Deposit, DV!S!Command, DV!S!Busy, Commanded
  <2>2. t \in VaultTx /\ a \in Nat
    BY DEF VaultTx, DV!Amounts
  <2>3. ASSUME ok, ~(arg.native /\ arg.left \in 0..(TxFee - 1)) PROVE DV!Accepts(chain, t)
    <3>1. chain.native \in BOOLEAN
      BY <1>0 DEF VaultChain
    <3>2. a + (IF chain.native THEN TxFee ELSE 0) <= chain.tokens
      BY <1>0, <2>2, <2>3, <3>1
    <3> QED BY <3>2 DEF DV!Accepts
  <2> HIDE DEF t, ok, arg
  <2> QED BY <1>0, <2>1, <2>2, <2>3, OneTransaction DEF VaultInv, VaultLone, VaultExcept
<1>4. ASSUME NEW a \in DV!Amounts, DV!Withdraw(a) PROVE VaultInv'
  <2> DEFINE t == [kind |-> "withdraw", lp |-> a]
             ok == chain.vault /\ a <= chain.lp
  <2>1. Commanded("withdraw", "none", ok, <<t>>)
    BY Zenon, <1>4 DEF DV!Withdraw, DV!S!Command, DV!S!Busy, Commanded
  <2>2. t \in VaultTx
    BY DEF VaultTx, DV!Amounts
  <2>3. ok => DV!Accepts(chain, t)
    BY DEF DV!Accepts
  <2> HIDE DEF t, ok
  <2> QED BY <1>0, <2>1, <2>2, <2>3, OneTransaction DEF VaultInv, VaultLone
<1> QED BY <1>1, <1>2, <1>3, <1>4 DEF DV!Next

-----------------------------------------------------------------------------
(* FeeSharing *)

\* The steps of Submission, of fee sharing commands.
LEMMA ShareSteps ==
    ASSUME FS!S!Step
    PROVE  Steps(FS!Accepts, FS!Effect, FS!Resumes, FS!Forgives)
BY DEF FS!S!Step, FS!S!Land, FS!S!Simulate, FS!S!Forgive, FS!S!Refuse, FS!S!Lose,
       FS!S!Unready, FS!S!LandsLate, FS!S!Expires, FS!S!Command, FS!S!After,
       FS!S!Forgiven, FS!S!Busy, Steps, Takes, Stops, Commanded, Late

ShareExcept == \/ cmd.op = "dbc" /\ cmd.arg.barred
               \/ cmd.op = "fund" /\ cmd.arg.short

ShareInv ==
    /\ CmdInv
    /\ status = "running" => Len(queue) = 1
    /\ status = "running" => cmd.moved \/ ShareExcept \/ FS!Accepts(chain, Head(queue))
    /\ status = "refused" => cmd.moved \/ ShareExcept

\* It holds before the first command.
LEMMA ShareInit == ASSUME FS!Init PROVE ShareInv
BY DEF FS!Init, FS!S!Begin, FS!S!NoCommand, ShareInv, CmdInv

\* Every fee sharing command and every step of others keeps it.
LEMMA ShareStep == ASSUME ShareInv, FS!Next PROVE ShareInv'
<1>1. CASE FS!S!Step
  <2>1. CmdInv'
    BY <1>1, ShareSteps DEF Steps, Takes, Stops, Commanded, Late, ShareInv, CmdInv
  <2>2. /\ (status = "running" => Len(queue) = 1)'
        /\ (status = "running" => cmd.moved \/ ShareExcept \/ FS!Accepts(chain, Head(queue)))'
        /\ (status = "refused" => cmd.moved \/ ShareExcept)'
    <3>1. CASE Takes(FS!Resumes)
      BY <3>1 DEF Takes, ShareInv, FS!Resumes
    <3>2. CASE Stops(FS!Accepts(chain, Head(queue)), FS!Forgives)
      BY <3>2 DEF Stops, ShareInv, ShareExcept
    <3>3. CASE Commanded("unready", "none", FALSE, <<>>)
      BY <3>3 DEF Commanded
    <3>4. CASE \E l \in late : Late(l) /\ (cmd' = [cmd EXCEPT !.moved = TRUE]
                                          \/ UNCHANGED <<chain, cmd>>)
      BY <3>4 DEF Late, ShareInv, ShareExcept, CmdInv
    <3> QED BY Zenon, <1>1, <3>1, <3>2, <3>3, <3>4, ShareSteps DEF Steps
  <2> QED BY <2>1, <2>2 DEF ShareInv
<1>2. ASSUME NEW op, NEW arg, NEW ok, NEW t, Commanded(op, arg, ok, <<t>>),
             ok => \/ op = "dbc" /\ arg.barred
                   \/ op = "fund" /\ arg.short
                   \/ FS!Accepts(chain, t)
      PROVE  ShareInv'
  BY <1>2 DEF ShareInv, ShareExcept, CmdInv, Commanded
<1>3. CASE FS!FeesAccrue \/ FS!RewardOpens \/ FS!PoolOpens
  <2>1. PICK c : Moved(c)
    BY <1>3 DEF FS!FeesAccrue, FS!RewardOpens, FS!PoolOpens, FS!S!World, Moved
  <2> QED BY Zenon, <2>1 DEF Moved, ShareInv, CmdInv
<1>4. ASSUME NEW shares \in UserShares, NEW pda \in BOOLEAN, NEW mine \in BOOLEAN,
             FS!CreateVault(shares, pda, mine)
      PROVE ShareInv'
  <2> DEFINE t == [kind |-> "create", v |-> cmd.n + 1, shares |-> shares, pda |-> pda,
                   mine |-> mine]
             ok == FS!ValidShares(shares)
  <2>1. Commanded("create", "none", ok, <<t>>)
    BY Zenon, <1>4 DEF FS!CreateVault, FS!S!Command, FS!S!Busy, Commanded
  <2>2. ok => FS!Accepts(chain, t)
    BY DEF FS!Accepts
  <2> HIDE DEF t, ok
  <2> QED BY <1>2, <2>1, <2>2
<1>5. ASSUME NEW v \in 1..MaxRuns, NEW a \in 1..ShareTokens, FS!Fund(v, a) PROVE ShareInv'
  <2> DEFINE t == [kind |-> "fund", v |-> v, amount |-> a]
             arg == [short |-> chain.native /\ ~(a + TxFee <= chain.tokens)]
             ok == v \in FS!Keys(chain) /\ a <= chain.tokens
  <2>1. Commanded("fund", arg, ok, <<t>>)
    BY Zenon, <1>5 DEF FS!Fund, FS!S!Command, FS!S!Busy, Commanded
  <2>2. a + 0 = a
    BY ShareAssumption
  <2>3. ok => arg.short \/ FS!Accepts(chain, t)
    BY Zenon, <2>2 DEF FS!Accepts
  <2> HIDE DEF t, ok, arg
  <2> QED BY <1>2, <2>1, <2>3
<1>6. ASSUME NEW v \in 1..MaxRuns, FS!TransferDammV2PositionToVault(v) PROVE ShareInv'
  <2> DEFINE t == [kind |-> "transfer", v |-> v]
             arg == [owned |-> v \in FS!Keys(chain) /\ chain.owner = v]
             ok == v \in FS!Keys(chain) /\ chain.owner = FS!Wallet
  <2>1. Commanded("transfer", arg, ok, <<t>>)
    BY Zenon, <1>6 DEF FS!TransferDammV2PositionToVault, FS!S!Command, FS!S!Busy, Commanded
  <2>2. ok => FS!Accepts(chain, t)
    BY DEF FS!Accepts
  <2> HIDE DEF t, ok, arg
  <2> QED BY <1>2, <2>1, <2>2
<1>7. ASSUME NEW v \in 1..MaxRuns, FS!FundFromDammV2(v) PROVE ShareInv'
  <2> DEFINE t == [kind |-> "sweep", v |-> v]
             ok == FS!CanBridge(v)
  <2>1. Commanded("sweep", "none", ok, <<t>>)
    BY Zenon, <1>7 DEF FS!FundFromDammV2, FS!S!Command, FS!S!Busy, Commanded
  <2>2. ok => FS!Accepts(chain, t)
    BY DEF FS!Accepts, FS!CanBridge
  <2> HIDE DEF t, ok
  <2> QED BY <1>2, <2>1, <2>2
<1>8. ASSUME NEW v \in 1..MaxRuns, NEW index \in 0..2, FS!FundFromDammV2Reward(v, index)
      PROVE ShareInv'
  <2> DEFINE t == [kind |-> "reward", v |-> v, index |-> index]
             ok == FS!CanBridge(v) /\ index \in {0, 1} \intersect chain.rewards
  <2>1. Commanded("reward", "none", ok, <<t>>)
    BY Zenon, <1>8 DEF FS!FundFromDammV2Reward, FS!S!Command, FS!S!Busy, Commanded
  <2>2. ok => FS!Accepts(chain, t)
    BY DEF FS!Accepts, FS!CanBridge
  <2> HIDE DEF t, ok
  <2> QED BY <1>2, <2>1, <2>2
<1>9. ASSUME NEW v \in 1..MaxRuns, NEW valid \in BOOLEAN, FS!FundFromDbc(v,
   valid) PROVE ShareInv'
  <2> DEFINE t == [kind |-> "dbc", v |-> v]
             arg == [barred |-> chain.payee # v]
             ok == valid /\ v \in FS!Keys(chain) /\ chain.payee # -1
  <2>1. Commanded("dbc", arg, ok, <<t>>)
    BY Zenon, <1>9 DEF FS!FundFromDbc, FS!S!Command, FS!S!Busy, Commanded
  <2>2. ok => arg.barred \/ FS!Accepts(chain, t)
    BY Zenon DEF FS!Accepts
  <2> HIDE DEF t, ok, arg
  <2> QED BY <1>2, <2>1, <2>2
<1>10. ASSUME NEW v \in 1..MaxRuns, FS!ClaimShare(v) PROVE ShareInv'
  <2> DEFINE t == [kind |-> "claim", v |-> v]
             ok == /\ v \in FS!Keys(chain) /\ FS!Vault(chain, v).mine
                   /\ FS!Due(FS!Vault(chain, v)) > FS!Vault(chain, v).claimed
  <2>1. Commanded("claim", "none", ok, <<t>>)
    BY Zenon, <1>10 DEF FS!ClaimShare, FS!S!Command, FS!S!Busy, Commanded
  <2>2. ok => FS!Accepts(chain, t)
    BY DEF FS!Accepts
  <2> HIDE DEF t, ok
  <2> QED BY <1>2, <2>1, <2>2
<1> QED BY <1>1, <1>3, <1>4, <1>5, <1>6, <1>7, <1>8, <1>9, <1>10 DEF FS!Next

-----------------------------------------------------------------------------
(* Farming *)

FarmTx == [kind : {"stake", "unstake"}, farm : Farms, amount : Int]
          \union [kind : {"claim"}, farms : SUBSET Farms]

FarmChain == [tokens : Int, user : [Farms -> BOOLEAN], staked : [Farms -> Int],
              reward : [Farms -> BOOLEAN], claims : [Farms -> Int]]

\* What an accepted stake, unstake or claim leaves of the farms.
LEMMA FarmLands ==
    ASSUME NEW c \in FarmChain, NEW t \in FarmTx, FA!Accepts(c, t)
    PROVE  FA!Effect(c, t) \in FarmChain
<1> DEFINE d == FA!Effect(c, t)
<1>1. /\ c.tokens \in Int /\ c.user \in [Farms -> BOOLEAN] /\ c.staked \in [Farms -> Int]
      /\ c.reward \in [Farms -> BOOLEAN] /\ c.claims \in [Farms -> Int]
  BY DEF FarmChain
<1> SUFFICES d \in FarmChain
  OBVIOUS
<1>2. ASSUME t.kind \in {"stake", "unstake"}
      PROVE  /\ t.farm \in Farms /\ c.tokens - t.amount \in Int /\ c.tokens + t.amount \in Int
             /\ c.staked[t.farm] + t.amount \in Int /\ c.staked[t.farm] - t.amount \in Int
  BY <1>1, <1>2 DEF FarmTx
<1>3. CASE t.kind = "stake"
  <2> DEFINE tokens == c.tokens - t.amount
             user == [c.user EXCEPT ![t.farm] = TRUE]
             staked == [c.staked EXCEPT ![t.farm] = c.staked[t.farm] + t.amount]
  <2>1. d = [c EXCEPT !.tokens = tokens, !.user = user, !.staked = staked]
    BY <1>1, <1>2, <1>3 DEF FA!Effect, FarmChain
  <2>2. tokens \in Int /\ user \in [Farms -> BOOLEAN] /\ staked \in [Farms -> Int]
    BY <1>1, <1>2, <1>3
  <2> HIDE DEF d, tokens, user, staked
  <2> QED BY Zenon, <2>1, <2>2 DEF FarmChain
<1>4. CASE t.kind = "unstake"
  <2> DEFINE tokens == c.tokens + t.amount
             staked == [c.staked EXCEPT ![t.farm] = c.staked[t.farm] - t.amount]
  <2>1. d = [c EXCEPT !.tokens = tokens, !.staked = staked]
    BY <1>1, <1>2, <1>4 DEF FA!Effect, FarmChain
  <2>2. tokens \in Int /\ staked \in [Farms -> Int]
    BY <1>1, <1>2, <1>4
  <2> HIDE DEF d, tokens, staked
  <2> QED BY Zenon, <2>1, <2>2 DEF FarmChain
<1>5. CASE t.kind = "claim"
  <2> DEFINE reward == [f \in Farms |-> c.reward[f] /\ f \notin t.farms]
             claims == [f \in Farms |-> IF c.reward[f] /\ f \in t.farms
                                        THEN c.claims[f] + 1 ELSE c.claims[f]]
  <2>1. d = [c EXCEPT !.reward = reward, !.claims = claims]
    BY <1>5 DEF FA!Effect, FarmChain
  <2>2. reward \in [Farms -> BOOLEAN] /\ claims \in [Farms -> Int]
    BY <1>1
  <2> HIDE DEF d, reward, claims
  <2> QED BY Zenon, <2>1, <2>2 DEF FarmChain
<1> QED BY <1>3, <1>4, <1>5 DEF FarmTx

\* The steps of Submission, of farming commands.
LEMMA FarmSteps ==
    ASSUME FA!S!Step
    PROVE  Steps(FA!Accepts, FA!Effect, FA!Resumes, FA!Forgives)
BY DEF FA!S!Step, FA!S!Land, FA!S!Simulate, FA!S!Forgive, FA!S!Refuse, FA!S!Lose,
       FA!S!Unready, FA!S!LandsLate, FA!S!Expires, FA!S!Command, FA!S!After,
       FA!S!Forgiven, FA!S!Busy, Steps, Takes, Stops, Commanded, Late

\* They keep what is pending, and the chain, of their sets.
LEMMA FarmTyped ==
    ASSUME Typed(FarmTx, FarmChain), FA!S!Step
    PROVE  Typed(FarmTx, FarmChain)'
<1>1. AnyStep(FarmChain)
  BY Zenon, FarmSteps, FarmLands, TypedHead DEF Steps, AnyStep, Typed, Takes
<1> QED BY <1>1, TypedStep

FarmExcept == cmd.op = "claimAll" /\ \E f \in cmd.arg.farms : ~cmd.arg.user[f]

\* Of a claimAll the farms of all batches that are still to be sent have the wallet's account.
FarmAlone ==
    \/ Len(queue) = 1 /\ FA!Accepts(chain, Head(queue))
    \/ \A i \in DOMAIN queue : queue[i].kind = "claim" /\ \A f \in queue[i].farms : chain.user[f]

FarmLone ==
    /\ status = "running" => cmd.moved \/ FarmExcept \/ FarmAlone
    /\ status = "refused" => cmd.moved \/ FarmExcept

FarmInv == Typed(FarmTx, FarmChain) /\ FarmLone

\* It holds before the first command.
LEMMA FarmInit == ASSUME FA!Init PROVE FarmInv
<1>1. /\ chain = [tokens |-> FarmTokens, user |-> [f \in Farms |-> FALSE],
                 staked |-> [f \in Farms |-> 0], reward |-> [f \in Farms |-> FALSE],
                 claims |-> [f \in Farms |-> 0]]
      /\ cmd = FA!S!NoCommand /\ queue = <<>> /\ late = {} /\ status = "idle"
  BY DEF FA!Init, FA!S!Begin
<1>2. chain \in FarmChain
  BY <1>1, FarmAssumption DEF FarmChain
<1> QED BY <1>1, <1>2 DEF FA!S!NoCommand, FarmInv, Typed, CmdInv, FarmLone

\* The smaller of two numbers, of Farming.
LEMMA FarmMin ==
    ASSUME NEW a \in Int, NEW b \in Int
    PROVE  FA!Min({a, b}) = IF a <= b THEN a ELSE b
<1> DEFINE m == IF a <= b THEN a ELSE b
<1>1. m \in {a, b} /\ \A y \in {a, b} : m <= y
  OBVIOUS
<1>2. \A x \in {a, b} : (\A y \in {a, b} : x <= y) => x = m
  OBVIOUS
<1> QED BY <1>1, <1>2 DEF FA!Min

\* The batches are claims of farms of the list.
LEMMA FarmBatches ==
    ASSUME NEW l \in ClaimLists
    PROVE  /\ FA!Batches(l) \in Seq(FarmTx)
           /\ \A i \in DOMAIN FA!Batches(l) :
                 /\ FA!Batches(l)[i].kind = "claim"
                 /\ FA!Batches(l)[i].farms \subseteq FA!ToSet(l)
<1> DEFINE n == (Len(l) + MaxClaimAll - 1) \div MaxClaimAll
           lo(i) == (i - 1) * MaxClaimAll + 1
           hi(i) == FA!Min({i * MaxClaimAll, Len(l)})
           b(i) == FA!ToSet(SubSeq(l, lo(i), hi(i)))
<1>1. l \in Seq(Farms) /\ Len(l) \in Nat /\ MaxClaimAll \in Nat \ {0}
  BY FarmAssumption
<1>2. n \in Int
  BY <1>1
<1>3. ASSUME NEW i \in 1..n
      PROVE  lo(i) \in Nat \ {0} /\ hi(i) \in Int /\ hi(i) <= Len(l)
  <2>1. i \in Nat /\ i >= 1
    BY <1>2
  <2>2. i * MaxClaimAll \in Nat /\ (i - 1) * MaxClaimAll \in Nat
    BY <1>1, <2>1
  <2> DEFINE m == i * MaxClaimAll
  <2> HIDE DEF m
  <2>3. FA!Min({m, Len(l)}) = IF m <= Len(l) THEN m ELSE Len(l)
    BY <1>1, <2>2, FarmMin DEF m
  <2> QED BY <1>1, <2>2, <2>3 DEF m
<1>4. ASSUME NEW i \in 1..n PROVE b(i) \subseteq FA!ToSet(l)
  <2> DEFINE q == SubSeq(l, lo(i), hi(i))
  <2>1. \A j \in DOMAIN q : q[j] = l[lo(i) + j - 1] /\ lo(i) + j - 1 \in DOMAIN l
    <3> HIDE DEF lo, hi
    <3> QED BY <1>1, <1>3
  <2> HIDE DEF q, lo
  <2> QED BY Zenon, <2>1 DEF FA!ToSet, q
<1>5. FA!ToSet(l) \subseteq Farms
  BY <1>1 DEF FA!ToSet
<1> DEFINE s == [i \in 1..n |-> [kind |-> "claim", farms |-> b(i)]]
<1>6. FA!Batches(l) = s
  BY DEF FA!Batches
<1> HIDE DEF n, b
<1>7. n \in Nat \/ 1..n = {}
  BY <1>2
<1>8. s \in Seq(FarmTx)
  <2>1. \A i \in 1..n : s[i] \in FarmTx
    BY <1>4, <1>5 DEF FarmTx
  <2>2. CASE n \in Nat
    BY <2>1, <2>2
  <2>3. CASE 1..n = {}
    <3>1. s = [i \in 1..0 |-> [kind |-> "claim", farms |-> b(i)]]
      BY <2>3
    <3>2. s = <<>>
      BY <3>1
    <3>3. <<>> \in Seq(FarmTx)
      OBVIOUS
    <3> HIDE DEF s
    <3> QED BY <3>2, <3>3
  <2> QED BY <1>7, <2>2, <2>3
<1> QED BY <1>4, <1>6, <1>8

\* Every farming command and every step of others keeps it.
LEMMA FarmStep == ASSUME FarmInv, FA!Next PROVE FarmInv'
<1>0. /\ Typed(FarmTx, FarmChain) /\ FarmLone /\ chain \in FarmChain
      /\ chain.staked \in [Farms -> Int] /\ chain.user \in [Farms -> BOOLEAN]
      /\ chain.tokens \in Int /\ chain.reward \in [Farms -> BOOLEAN]
  BY DEF FarmInv, Typed, FarmChain
<1>1. CASE FA!S!Step
  <2>1. Typed(FarmTx, FarmChain)'
    BY <1>0, <1>1, FarmTyped
  <2>2. Steps(FA!Accepts, FA!Effect, FA!Resumes, FA!Forgives)
    BY <1>1, FarmSteps
  <2>3. ASSUME Takes(FA!Resumes),
               \/ chain' = chain
               \/ FA!Accepts(chain, Head(queue)) /\ chain' = FA!Effect(chain, Head(queue))
        PROVE  FarmLone'
    <3>1. /\ queue \in Seq(FarmTx) /\ queue # <<>> /\ queue' = Tail(queue) /\ cmd' = cmd
          /\ status' = "running" => Len(queue) > 1
          /\ status' # "refused" /\ status = "running"
      BY <1>0, <2>3 DEF Takes, Typed
    <3>2. /\ \A i \in DOMAIN queue' : queue'[i] = queue[i + 1] /\ i + 1 \in DOMAIN queue
          /\ Head(queue) = queue[1] /\ 1 \in DOMAIN queue
      BY <3>1, QueueRest
    <3>3. ASSUME Head(queue).kind = "claim" PROVE chain'.user = chain.user
      BY Zenon, <1>0, <2>3, <3>3 DEF FA!Effect, FarmChain
    <3>4. FarmExcept' = FarmExcept /\ cmd'.moved = cmd.moved
      BY <3>1 DEF FarmExcept
    <3>5. SUFFICES ASSUME status' = "running", ~cmd.moved, ~FarmExcept PROVE FarmAlone'
      BY <3>1, <3>4 DEF FarmLone
    <3>6. \A i \in DOMAIN queue : queue[i].kind = "claim" /\ \A f \in queue[i].farms : chain.user[f]
      BY <1>0, <3>1, <3>5 DEF FarmLone, FarmAlone
    <3> QED BY <3>2, <3>3, <3>6 DEF FarmAlone
  <2>4. ASSUME Stops(FA!Accepts(chain, Head(queue)), FA!Forgives) PROVE FarmLone'
    <3>1. FarmAlone => FA!Accepts(chain, Head(queue))
      <4>1. queue \in Seq(FarmTx) /\ queue # <<>>
        BY <1>0, <2>4 DEF Stops, Typed
      <4>2. Head(queue) = queue[1] /\ 1 \in DOMAIN queue
        BY <4>1, QueueRest
      <4> QED BY Zenon, <4>2 DEF FarmAlone, FA!Accepts
    <3> QED BY <1>0, <2>4, <3>1 DEF Stops, FarmLone, FarmExcept
  <2>5. ASSUME \/ Commanded("unready", "none", FALSE, <<>>)
               \/ \E l \in late : Late(l) /\ UNCHANGED <<chain, cmd>>
               \/ \E l \in late : Late(l) /\ cmd' = [cmd EXCEPT !.moved = TRUE]
        PROVE  FarmLone'
    BY <1>0, <2>5 DEF Commanded, Late, FarmLone, FarmAlone, FarmExcept, Typed, CmdInv
  <2>6. FarmLone'
    BY Zenon, <2>2, <2>3, <2>4, <2>5 DEF Steps
  <2> QED BY <2>1, <2>6 DEF FarmInv
<1>2. ASSUME NEW op, NEW ok, NEW t, Commanded(op, "none", ok, <<t>>),
             ok => t \in FarmTx /\ FA!Accepts(chain, t)
      PROVE  FarmInv'
  BY <1>0, <1>2, OneTransaction DEF FarmInv, FarmLone, FarmAlone
<1>3. CASE FA!RewardsAccrue
  <2>1. PICK f \in Farms : Moved([chain EXCEPT !.reward[f] = TRUE])
    BY Zenon, <1>3 DEF FA!RewardsAccrue, FA!S!World, Moved
  <2>2. [chain EXCEPT !.reward[f] = TRUE] \in FarmChain
    <3> DEFINE reward == [chain.reward EXCEPT ![f] = TRUE]
    <3>1. reward \in [Farms -> BOOLEAN]
      BY <1>0
    <3>2. [chain EXCEPT !.reward[f] = TRUE] = [chain EXCEPT !.reward = reward]
      BY <1>0 DEF FarmChain
    <3> HIDE DEF reward
    <3> QED BY Zenon, <1>0, <3>1, <3>2 DEF FarmChain
  <2>3. Typed(FarmTx, FarmChain)' /\ cmd'.moved
    BY <1>0, <2>1, <2>2, TypedMoved
  <2> QED BY <2>3 DEF FarmInv, FarmLone
<1>4. ASSUME NEW l \in ClaimLists, FA!ClaimAll(l) PROVE FarmInv'
  <2> DEFINE arg == [farms |-> FA!ToSet(l), user |-> chain.user, reward |-> chain.reward,
                     claims |-> chain.claims]
             ok == l # <<>> /\ \E f \in FA!ToSet(l) : chain.reward[f]
             txs == FA!Batches(l)
  <2>1. Commanded("claimAll", arg, ok, txs)
    BY Zenon, <1>4 DEF FA!ClaimAll, FA!S!Command, FA!S!Busy, Commanded
  <2>2. /\ txs \in Seq(FarmTx)
        /\ \A i \in DOMAIN txs : txs[i].kind = "claim" /\ txs[i].farms \subseteq arg.farms
    BY FarmBatches
  <2>3. arg.user = chain.user
    OBVIOUS
  <2> HIDE DEF arg, ok, txs
  <2>4. Typed(FarmTx, FarmChain)'
    BY <1>0, <2>1, <2>2, TypedCommanded
  <2>5. /\ cmd'.op = "claimAll" /\ cmd'.arg = arg /\ chain' = chain /\ status' # "refused"
        /\ status' = "running" => queue' = txs
    BY <2>1 DEF Commanded
  <2>6. FarmExcept' \/ FarmAlone' \/ status' # "running"
    BY <2>2, <2>3, <2>5 DEF FarmExcept, FarmAlone
  <2> QED BY <2>4, <2>5, <2>6 DEF FarmInv, FarmLone
<1>5. ASSUME NEW f \in Farms, FA!Claim(f) PROVE FarmInv'
  <2> DEFINE t == [kind |-> "claim", farms |-> {f}]
             ok == chain.user[f] /\ chain.reward[f]
  <2>1. Commanded("claim", "none", ok, <<t>>)
    BY Zenon, <1>5 DEF FA!Claim, FA!S!Command, FA!S!Busy, Commanded
  <2>2. ok => t \in FarmTx /\ FA!Accepts(chain, t)
    BY DEF FarmTx, FA!Accepts
  <2> HIDE DEF t, ok
  <2> QED BY <1>2, <2>1, <2>2
<1>6. ASSUME NEW f \in Farms, NEW a \in FA!Amounts, FA!Stake(f, a) PROVE FarmInv'
  <2> DEFINE t == [kind |-> "stake", farm |-> f, amount |-> a]
             ok == chain.tokens >= a
  <2>1. Commanded("stake", "none", ok, <<t>>)
    BY Zenon, <1>6 DEF FA!Stake, FA!S!Command, FA!S!Busy, Commanded
  <2>2. ok => t \in FarmTx /\ FA!Accepts(chain, t)
    BY <1>0 DEF FarmTx, FA!Accepts, FA!Amounts
  <2> HIDE DEF t, ok
  <2> QED BY <1>2, <2>1, <2>2
<1>7. ASSUME NEW f \in Farms, NEW a \in 0..FarmTokens, FA!Unstake(f, a) PROVE FarmInv'
  <2> DEFINE t == [kind |-> "unstake", farm |-> f,
                   amount |-> IF a = 0 THEN chain.staked[f] ELSE a]
             ok == chain.user[f] /\ chain.staked[f] > 0 /\ a <= chain.staked[f]
  <2>1. Commanded("unstake", "none", ok, <<t>>)
    BY Zenon, <1>7 DEF FA!Unstake, FA!S!Command, FA!S!Busy, Commanded
  <2>2. ok => t \in FarmTx /\ FA!Accepts(chain, t)
    BY <1>0 DEF FarmTx, FA!Accepts
  <2> HIDE DEF t, ok
  <2> QED BY <1>2, <2>1, <2>2
<1>8. CASE FA!S!Unready
  BY <1>1, <1>8 DEF FA!S!Step
<1>9. \A s \in Farms \union Pools : FA!ResolveFarmAddress(s) \subseteq Farms
  BY FarmAssumption DEF FA!ResolveFarmAddress
<1>10. ASSUME NEW s \in Farms \union Pools,
              \/ FA!OnFarm(s, FA!Claim)
              \/ \E a \in FA!Amounts : FA!OnFarm(s, LAMBDA f : FA!Stake(f, a))
              \/ \E a \in 0..FarmTokens : FA!OnFarm(s, LAMBDA f : FA!Unstake(f, a))
       PROVE  FarmInv'
  <2>1. CASE FA!OnFarm(s, FA!Claim)
    BY <1>5, <1>8, <1>9, <2>1 DEF FA!OnFarm
  <2>2. ASSUME NEW a \in FA!Amounts, FA!OnFarm(s, LAMBDA f : FA!Stake(f, a)) PROVE FarmInv'
    BY <1>6, <1>8, <1>9, <2>2 DEF FA!OnFarm
  <2>3. ASSUME NEW a \in 0..FarmTokens, FA!OnFarm(s, LAMBDA f : FA!Unstake(f, a)) PROVE FarmInv'
    BY <1>7, <1>8, <1>9, <2>3 DEF FA!OnFarm
  <2> QED BY Zenon, <1>10, <2>1, <2>2, <2>3
<1> QED BY Zenon, <1>1, <1>3, <1>4, <1>10 DEF FA!Next

-----------------------------------------------------------------------------
(* DammV1 *)

\* What holds of 0 and of the successor of what it holds of, up to n.
LEMMA UpTo ==
    ASSUME NEW n \in Nat, NEW S, 0 \in S, \A k \in 0..n : k \in S /\ k < n => k + 1 \in S
    PROVE  0..n \subseteq S
<1> DEFINE T == {k \in 0..n : k \notin S}
           R == {p \in Nat \X Nat : p[1] < p[2]}
<1>1. IsWellFoundedOn(R, Nat)
  BY NatLessThanWellFounded DEF OpToRel
<1>2. ASSUME T # {} PROVE FALSE
  <2>1. T \subseteq Nat
    OBVIOUS
  <2> HIDE DEF T, R
  <2>2. PICK x \in T : \A y \in T : ~(<<y, x>> \in R)
    BY Zenon, <1>1, <1>2, <2>1, WFMin
  <2>3. x \in 0..n /\ x \notin S /\ x # 0 /\ x - 1 \in 0..n /\ x - 1 < n
    BY <2>2 DEF T
  <2>4. x - 1 \notin S
    BY <2>3
  <2>5. x - 1 \in T /\ <<x - 1, x>> \in R
    BY <2>3, <2>4 DEF T, R
  <2> QED BY <2>2, <2>5
<1> QED BY <1>2

\* The sums of a list's beginnings.
SumsTo(f, s, n) == s = [i \in 0..n |-> IF i = 0 THEN 0 ELSE s[i - 1] + f[i]]

Sums(f) == CHOOSE s : SumsTo(f, s, Len(f))

\* Partial sums go on by one.
LEMMA SumsStep ==
    ASSUME NEW f, NEW n \in Nat, NEW s, SumsTo(f, s, n)
    PROVE  \E r : SumsTo(f, r, n + 1)
<1> DEFINE r == [i \in 0..(n + 1) |-> IF i \in 0..n THEN s[i] ELSE s[n] + f[i]]
           w(i) == IF i = 0 THEN 0 ELSE r[i - 1] + f[i]
<1>1. ASSUME NEW i \in 0..(n + 1) PROVE r[i] = w(i)
  <2>1. CASE i = 0
    <3>1. 0 \in 0..n
      OBVIOUS
    <3> QED BY <2>1, <3>1 DEF SumsTo
  <2>2. CASE i \in 1..n
    <3>1. i \in 0..n /\ i - 1 \in 0..n /\ i - 1 \in 0..(n + 1) /\ i # 0
      BY <2>2
    <3>2. s[i] = s[i - 1] + f[i]
      BY <3>1 DEF SumsTo
    <3> QED BY <3>1, <3>2
  <2>3. CASE i = n + 1
    <3>1. i \notin 0..n /\ i - 1 = n /\ n \in 0..n /\ n \in 0..(n + 1) /\ i # 0
      BY <2>3
    <3> QED BY <3>1
  <2> QED BY <2>1, <2>2, <2>3
<1>2. r = [i \in 0..(n + 1) |-> w(i)]
  <2> HIDE DEF w
  <2> QED BY <1>1
<1>3. SumsTo(f, r, n + 1)
  BY <1>2 DEF SumsTo
<1> QED BY <1>3

\* The partial sums of a list of naturals: they grow, and the last one is SumOf.
LEMMA SumsFacts ==
    ASSUME NEW f \in Seq(Nat)
    PROVE  LET s == Sums(f)
           IN  /\ V1!SumOf(f) = s[Len(f)] /\ s[0] = 0
               /\ \A i \in 1..Len(f) : s[i] = s[i - 1] + f[i]
               /\ \A j \in 0..Len(f) : s[j] \in Nat /\ \A i \in 0..j : s[i] <= s[j]
<1> DEFINE s == Sums(f)
           n == Len(f)
           S == {k \in 0..n : \E r : SumsTo(f, r, k)}
<1>0. n \in Nat /\ \A i \in 1..n : f[i] \in Nat
  OBVIOUS
<1>1. 0 \in S
  <2> DEFINE r == [i \in 0..0 |-> 0]
  <2>1. SumsTo(f, r, 0)
    BY DEF SumsTo
  <2> HIDE DEF r
  <2> QED BY <1>0, <2>1
<1>2. ASSUME NEW k \in 0..n, k \in S, k < n PROVE k + 1 \in S
  <2>1. k + 1 \in 0..n /\ k \in Nat
    BY <1>0, <1>2
  <2>2. PICK r : SumsTo(f, r, k)
    BY <1>2
  <2> QED BY <2>1, <2>2, SumsStep
<1>3. 0..n \subseteq S
  <2> HIDE DEF S
  <2> QED BY Zenon, <1>0, <1>1, <1>2, UpTo
<1>4. n \in 0..n
  BY <1>0
<1>5. SumsTo(f, s, n)
  BY <1>3, <1>4 DEF Sums
<1>6. V1!SumOf(f) = s[Len(f)]
  BY DEF V1!SumOf, Sums, SumsTo
<1> HIDE DEF s, n
<1>7. s[0] = 0 /\ \A i \in 1..n : s[i] = s[i - 1] + f[i]
  <2>1. 0 \in 0..n /\ \A i \in 1..n : i \in 0..n /\ i # 0
    BY <1>0
  <2> QED BY Zenon, <1>5, <2>1 DEF SumsTo
<1> DEFINE N == {k \in 0..n : s[k] \in Nat}
<1>8. 0..n \subseteq N
  <2>1. 0 \in N
    BY <1>0, <1>7
  <2>2. ASSUME NEW k \in 0..n, k \in N, k < n PROVE k + 1 \in N
    <3>1. k + 1 \in 1..n /\ (k + 1) - 1 = k /\ k + 1 \in 0..n
      BY <1>0, <2>2
    <3>2. s[k + 1] = s[k] + f[k + 1] /\ f[k + 1] \in Nat
      BY <1>0, <1>7, <3>1
    <3> QED BY <2>2, <3>1, <3>2
  <2> HIDE DEF N
  <2> QED BY Zenon, <1>0, <2>1, <2>2, UpTo
<1>9. \A i \in 0..n : s[i] \in Nat
  BY <1>8
<1>10. ASSUME NEW j \in 0..n PROVE \A i \in 0..j : s[i] <= s[j]
  <2> DEFINE M == {k \in 0..j : s[j - k] <= s[j]}
  <2>1. 0 \in M
    <3>1. j - 0 = j /\ j \in Nat /\ 0 \in 0..j
      BY <1>0
    <3> QED BY <1>9, <3>1
  <2>2. ASSUME NEW k \in 0..j, k \in M, k < j PROVE k + 1 \in M
    <3>1. j - k \in 1..n /\ j - (k + 1) = (j - k) - 1 /\ j - (k + 1) \in 0..n /\ j - k \in 0..n
          /\ k + 1 \in 0..j
      BY <1>0, <2>2
    <3>2. s[j - k] = s[j - (k + 1)] + f[j - k] /\ f[j - k] \in Nat
      BY <1>0, <1>7, <3>1
    <3>3. s[j - k] \in Nat /\ s[j - (k + 1)] \in Nat /\ s[j] \in Nat /\ s[j - k] <= s[j]
      BY <1>9, <2>2, <3>1
    <3>4. s[j - (k + 1)] <= s[j]
      BY <3>2, <3>3
    <3> QED BY <3>1, <3>4
  <2>3. j \in Nat
    BY <1>0
  <2>4. 0..j \subseteq M
    <3> HIDE DEF M
    <3> QED BY Zenon, <2>1, <2>2, <2>3, UpTo
  <2>5. ASSUME NEW i \in 0..j PROVE s[i] <= s[j]
    <3>1. j - i \in 0..j /\ j - (j - i) = i
      BY <2>3
    <3>2. s[j - (j - i)] <= s[j]
      BY Zenon, <2>4, <3>1
    <3> QED BY <3>1, <3>2
  <2> QED BY <2>5
<1> QED BY <1>6, <1>7, <1>9, <1>10 DEF s, n

\* Whoever is not the last of the list gets a share; together they get no more than there is.
V1First(lp, a) == [i \in 1..(Len(a) - 1) |-> V1!ShareOf(lp, a, i)]

\* The rounded shares of all but the last wallet of a list that calculateAllocation does not
\* refuse are no more than the LP tokens that were read.
LEMMA V1Shares ==
    ASSUME NEW lp \in Nat, NEW a \in Allocations, a # <<>>, V1!Splits(a)
    PROVE  LET f == V1First(lp, a)
           IN  f \in Seq(Nat) /\ Len(f) = Len(a) - 1 /\ Sums(f)[Len(f)] <= lp
<1> DEFINE n == Len(a)
           f == V1First(lp, a)
           tenths == [i \in DOMAIN a |-> a[i].tenths]
           whole == [i \in DOMAIN a |-> V1!Floor10(a[i].tenths)]
           G == V1!Floor10(V1!SumTenths(a))
           P == Sums(f)
           Q == Sums(whole)
           T == Sums(tenths)
<1>1. /\ n \in Nat /\ n >= 1 /\ DOMAIN a = 1..n
      /\ \A i \in 1..n : a[i] \in [to : Wallets, tenths : Nat]
  <2> DEFINE R == [to : Wallets, tenths : Nat]
  <2>1. a \in Seq(R)
    BY Zenon, SplitAssumption
  <2> HIDE DEF R
  <2>2. n \in Nat /\ DOMAIN a = 1..n /\ \A i \in 1..n : a[i] \in R
    BY <2>1
  <2>3. n # 0
    BY <2>1
  <2> HIDE DEF n
  <2> QED BY <2>2, <2>3 DEF R
<1>2. /\ tenths \in Seq(Nat) /\ Len(tenths) = n
      /\ \A i \in 1..n : tenths[i] \in Nat /\ tenths[i] = a[i].tenths
  BY <1>1
<1>3. /\ whole \in Seq(Nat) /\ Len(whole) = n
      /\ \A i \in 1..n : whole[i] \in Nat /\ 10 * whole[i] <= tenths[i]
                         /\ whole[i] = V1!Floor10(a[i].tenths)
  BY <1>1, <1>2 DEF V1!Floor10
<1>4. /\ V1!SumTenths(a) = T[n] /\ T[n] \in Nat /\ T[0] = 0
      /\ \A i \in 1..n : T[i] = T[i - 1] + tenths[i]
      /\ \A i \in 0..n : T[i] \in Nat /\ T[i] <= T[n]
  <2>1. /\ V1!SumOf(tenths) = T[n] /\ T[0] = 0 /\ \A i \in 1..n : T[i] = T[i - 1] + tenths[i]
        /\ \A j \in 0..n : T[j] \in Nat /\ \A i \in 0..j : T[i] <= T[j]
    <3> HIDE DEF tenths
    <3> QED BY <1>2, SumsFacts
  <2>2. n \in 0..n /\ 0..n \subseteq 0..n
    BY <1>1
  <2>3. V1!SumTenths(a) = V1!SumOf(tenths)
    BY DEF V1!SumTenths
  <2> HIDE DEF tenths, T, n
  <2> QED BY <2>1, <2>2, <2>3
<1>5. /\ Q[0] = 0 /\ \A i \in 1..n : Q[i] = Q[i - 1] + whole[i]
      /\ \A i \in 0..n : Q[i] \in Nat /\ Q[i] <= Q[n]
  <2>1. /\ Q[0] = 0 /\ \A i \in 1..n : Q[i] = Q[i - 1] + whole[i]
        /\ \A j \in 0..n : Q[j] \in Nat /\ \A i \in 0..j : Q[i] <= Q[j]
    <3> HIDE DEF whole
    <3> QED BY <1>3, SumsFacts
  <2>2. n \in 0..n
    BY <1>1
  <2> HIDE DEF whole, Q, n
  <2> QED BY <2>1, <2>2
<1> DEFINE M == {k \in 0..n : 10 * Q[k] <= T[k]}
<1> HIDE DEF n, T, Q, tenths, whole
<1>6. 0..n \subseteq M
  <2>1. 0 \in M
    BY <1>1, <1>4, <1>5
  <2>2. ASSUME NEW k \in 0..n, k \in M, k < n PROVE k + 1 \in M
    <3>1. k + 1 \in 1..n /\ (k + 1) - 1 = k /\ k + 1 \in 0..n
      BY <1>1, <2>2
    <3>2. /\ Q[k + 1] = Q[k] + whole[k + 1] /\ T[k + 1] = T[k] + tenths[k + 1]
          /\ 10 * whole[k + 1] <= tenths[k + 1] /\ whole[k + 1] \in Nat /\ tenths[k + 1] \in Nat
          /\ Q[k] \in Nat /\ T[k] \in Nat /\ 10 * Q[k] <= T[k]
      BY Zenon, <1>2, <1>3, <1>4, <1>5, <2>2, <3>1
    <3>3. 10 * Q[k + 1] <= T[k + 1]
      BY <3>2
    <3> QED BY <3>1, <3>3
  <2> HIDE DEF M
  <2> QED BY Zenon, <1>1, <2>1, <2>2, UpTo
<1>7. G \in Nat /\ \A k \in 0..n : Q[k] <= G
  <2>1. n \in 0..n
    BY <1>1
  <2>2. 10 * Q[n] <= T[n] /\ Q[n] \in Nat /\ T[n] \in Nat
    BY <1>4, <1>5, <1>6, <2>1
  <2>3. Q[n] <= T[n] \div 10 /\ T[n] \div 10 \in Nat
    BY <2>2
  <2>4. G = T[n] \div 10
    BY <1>4 DEF V1!Floor10
  <2> HIDE DEF G
  <2> QED BY <1>5, <2>2, <2>3, <2>4
<1> HIDE DEF G
<1>8. CASE n = 1
  <2>1. f = <<>>
    BY <1>8 DEF V1First, n
  <2>2. <<>> \in Seq(Nat) /\ Len(<<>>) = 0
    OBVIOUS
  <2>3. P[0] = 0
    BY Zenon, <2>1, <2>2, SumsFacts
  <2> QED BY <1>8, <2>1, <2>2, <2>3 DEF n
<1>9. CASE n # 1
  <2>1. G > 0
    BY <1>9 DEF V1!Splits, G, n
  <2>2. ASSUME NEW i \in 1..(n - 1)
        PROVE  V1!ShareOf(lp, a, i) \in Nat /\ G * V1!ShareOf(lp, a, i) <= lp * whole[i]
    <3>1. i \in 1..n /\ whole[i] \in Nat
      BY <1>1, <1>3
    <3>2. PICK x \in Nat : x = lp * whole[i]
      BY <3>1
    <3>3. V1!ShareOf(lp, a, i) = x \div G
      BY <1>3, <3>1, <3>2 DEF V1!ShareOf, G
    <3>4. x \div G \in Nat /\ G * (x \div G) <= x
      BY <1>7, <2>1, <3>2
    <3> QED BY <3>2, <3>3, <3>4
  <2>3. /\ f \in Seq(Nat) /\ Len(f) = n - 1
        /\ \A i \in 1..(n - 1) : f[i] = V1!ShareOf(lp, a, i)
    BY <1>1, <1>9, <2>2 DEF V1First, n
  <2> HIDE DEF f
  <2>4. /\ P[0] = 0 /\ \A i \in 1..(n - 1) : P[i] = P[i - 1] + f[i]
        /\ \A i \in 0..(n - 1) : P[i] \in Nat
    BY Zenon, <2>3, SumsFacts
  <2> HIDE DEF P
  <2> DEFINE B == {k \in 0..(n - 1) : G * P[k] <= lp * Q[k]}
  <2>5. 0..(n - 1) \subseteq B
    <3>1. 0 \in B
      BY <1>1, <1>5, <1>7, <2>4
    <3>2. ASSUME NEW k \in 0..(n - 1), k \in B, k < n - 1 PROVE k + 1 \in B
      <4>1. /\ k + 1 \in 1..(n - 1) /\ (k + 1) - 1 = k /\ k + 1 \in 1..n /\ k \in 0..n
            /\ k + 1 \in 0..(n - 1)
        BY <1>1, <3>2
      <4>2. /\ P[k + 1] = P[k] + f[k + 1] /\ Q[k + 1] = Q[k] + whole[k + 1]
            /\ G * f[k + 1] <= lp * whole[k + 1] /\ G * P[k] <= lp * Q[k]
            /\ P[k] \in Nat /\ Q[k] \in Nat /\ f[k + 1] \in Nat /\ whole[k + 1] \in Nat
        BY Zenon, <1>3, <1>5, <2>2, <2>3, <2>4, <3>2, <4>1
      <4>3. /\ G * (P[k] + f[k + 1]) = G * P[k] + G * f[k + 1]
            /\ lp * (Q[k] + whole[k + 1]) = lp * Q[k] + lp * whole[k + 1]
        BY SMTT(30), <1>7, <4>2
      <4>4. /\ G * P[k] \in Nat /\ G * f[k + 1] \in Nat /\ lp * Q[k] \in Nat
            /\ lp * whole[k + 1] \in Nat
        <5> DEFINE p == P[k]
                   q == Q[k]
                   x == f[k + 1]
                   y == whole[k + 1]
        <5>1. G \in Nat /\ p \in Nat /\ q \in Nat /\ x \in Nat /\ y \in Nat
          BY <1>7, <4>2
        <5> HIDE DEF p, q, x, y
        <5>2. G * p \in Nat /\ G * x \in Nat
          BY <5>1
        <5>3. lp * q \in Nat /\ lp * y \in Nat
          BY <5>1
        <5> QED BY <5>2, <5>3 DEF p, q, x, y
      <4>5. G * (P[k] + f[k + 1]) <= lp * (Q[k] + whole[k + 1])
        <5> DEFINE b1 == G * P[k]
                   b2 == G * f[k + 1]
                   b3 == lp * Q[k]
                   b4 == lp * whole[k + 1]
        <5>1. b1 \in Nat /\ b2 \in Nat /\ b3 \in Nat /\ b4 \in Nat /\ b1 <= b3 /\ b2 <= b4
          BY <4>2, <4>4
        <5> HIDE DEF b1, b2, b3, b4
        <5>2. b1 + b2 <= b3 + b4
          BY <5>1
        <5> QED BY <4>3, <5>2 DEF b1, b2, b3, b4
      <4>6. G * P[k + 1] <= lp * Q[k + 1]
        BY <4>2, <4>5
      <4> QED BY <4>1, <4>6
    <3>3. n - 1 \in Nat
      BY <1>1
    <3> HIDE DEF B
    <3> QED BY Zenon, <3>1, <3>2, <3>3, UpTo
  <2>6. n - 1 \in 0..(n - 1) /\ n - 1 \in 0..n
    BY <1>1
  <2>7. G * P[n - 1] <= lp * Q[n - 1] /\ Q[n - 1] <= G /\ Q[n - 1] \in Nat /\ P[n - 1] \in Nat
    BY <1>5, <1>7, <2>4, <2>5, <2>6
  <2>8. P[n - 1] <= lp
    <3> DEFINE p == P[n - 1]
               q == Q[n - 1]
    <3> HIDE DEF p, q
    <3>1. p \in Nat /\ q \in Nat /\ q <= G /\ G * p <= lp * q /\ G \in Nat /\ G > 0
      BY <1>7, <2>1, <2>7 DEF p, q
    <3>2. lp * q <= lp * G
      BY <3>1
    <3>3. ASSUME p >= lp + 1 PROVE FALSE
      <4>1. G * p >= G * (lp + 1)
        BY <3>1, <3>3
      <4>2. G * (lp + 1) = lp * G + G
        BY <3>1
      <4>3. G * p \in Nat /\ lp * q \in Nat /\ lp * G \in Nat
        BY <3>1
      <4> QED BY <3>1, <3>2, <4>1, <4>2, <4>3
    <3> QED BY <3>1, <3>3 DEF p
  <2> QED BY <2>3, <2>8 DEF n, P, f
<1> QED BY <1>8, <1>9

\* What a list's locks take from an amount: r is what each finds left.
V1Within(f, lp) ==
    \E r \in [DOMAIN f -> Nat] :
        /\ \A i \in DOMAIN f : f[i] <= r[i] /\ r[i] <= lp
        /\ \A i, j \in DOMAIN f : i < j => f[i] + r[j] <= r[i]

\* The amounts of such a list are naturals that add up to the LP tokens, and each is there
\* when its lock is sent.
LEMMA V1Amounts ==
    ASSUME NEW lp \in Nat, NEW a \in Allocations, a # <<>>, V1!Splits(a)
    PROVE  LET f == V1!FromAllocationsToAmount(lp, a)
           IN  f \in [DOMAIN a -> Nat] /\ V1Within(f, lp) /\ V1!SumOf(f) = lp
<1> DEFINE n == Len(a)
           g == V1First(lp, a)
           P == Sums(g)
           last == lp - P[n - 1]
           f == V1!FromAllocationsToAmount(lp, a)
<1>1. n \in Nat \ {0} /\ DOMAIN a = 1..n
  <2>1. a \in Seq([to : Wallets, tenths : Nat])
    BY Zenon, SplitAssumption
  <2>2. n \in Nat /\ DOMAIN a = 1..n
    BY <2>1
  <2>3. n # 0
    BY <2>1
  <2> QED BY <2>2, <2>3
<1>2. g \in Seq(Nat) /\ Len(g) = n - 1 /\ P[n - 1] <= lp
  <2>1. g \in Seq(Nat) /\ Len(g) = n - 1 /\ P[Len(g)] <= lp
    BY V1Shares
  <2> HIDE DEF g, P, n
  <2> QED BY <2>1
<1>3. f = Append(g, lp - V1!SumOf(g))
  BY DEF V1!FromAllocationsToAmount, V1First
<1> HIDE DEF g
<1>4. /\ V1!SumOf(g) = P[n - 1] /\ P[0] = 0
      /\ \A i \in 1..(n - 1) : P[i] = P[i - 1] + g[i]
      /\ \A j \in 0..(n - 1) : P[j] \in Nat /\ \A i \in 0..j : P[i] <= P[j]
  BY <1>2, SumsFacts
<1> HIDE DEF n, f, P
<1>5. n - 1 \in 0..(n - 1) /\ P[n - 1] \in Nat /\ last \in Nat
  BY <1>1, <1>2, <1>4
<1> HIDE DEF last
<1>6. f = Append(g, last)
  BY <1>3, <1>4 DEF last
<1>7. /\ DOMAIN f = 1..n /\ f[n] = last
      /\ \A i \in 1..(n - 1) : f[i] = g[i] /\ g[i] \in Nat
  <2>1. DOMAIN f = 1..(Len(g) + 1) /\ f[Len(g) + 1] = last
        /\ \A i \in 1..Len(g) : f[i] = g[i] /\ g[i] \in Nat
    BY <1>2, <1>5, <1>6
  <2>2. Len(g) + 1 = n
    BY <1>1, <1>2
  <2> QED BY <1>2, <2>1, <2>2
<1>8. \A i \in 1..n : f[i] \in Nat
  BY <1>1, <1>5, <1>7
<1>9. f \in [DOMAIN a -> Nat] /\ f \in Seq(Nat) /\ Len(f) = n
  <2>1. f \in Seq(Nat) /\ Len(f) = Len(g) + 1
    BY <1>2, <1>5, <1>6, AppendProperties
  <2>2. f \in [DOMAIN f -> Nat]
    BY <2>1
  <2>3. Len(g) + 1 = n
    BY <1>1, <1>2
  <2> QED BY <1>1, <1>7, <2>1, <2>2, <2>3
<1> DEFINE r == [i \in 1..n |-> lp - P[i - 1]]
<1>10. ASSUME NEW i \in 1..n
       PROVE  /\ i - 1 \in 0..(n - 1) /\ P[i - 1] \in Nat /\ P[i - 1] <= P[n - 1]
              /\ r[i] \in Nat /\ r[i] <= lp /\ r[i] = lp - P[i - 1]
  <2>1. i - 1 \in 0..(n - 1)
    BY <1>1
  <2>2. P[i - 1] \in Nat /\ P[i - 1] <= P[n - 1]
    BY <1>4, <1>5, <2>1
  <2> QED BY <1>2, <1>5, <2>1, <2>2
<1>11. r \in [1..n -> Nat]
  BY <1>10
<1> HIDE DEF r
<1>12. ASSUME NEW i \in 1..n, NEW j \in 1..n, i < j PROVE f[i] + r[j] <= r[i]
  <2>1. i \in 1..(n - 1) /\ i \in 0..(j - 1) /\ j - 1 \in 0..(n - 1) /\ i \in 0..(n - 1)
    BY <1>1, <1>12
  <2>2. P[i] = P[i - 1] + f[i] /\ P[i] <= P[j - 1] /\ P[i] \in Nat /\ P[j - 1] \in Nat
        /\ f[i] \in Nat /\ P[i - 1] \in Nat
    BY Zenon, <1>4, <1>7, <1>10, <2>1
  <2>3. r[i] = lp - P[i - 1] /\ r[j] = lp - P[j - 1]
    BY <1>10
  <2> QED BY <2>2, <2>3
<1>13. ASSUME NEW i \in 1..n PROVE f[i] <= r[i]
  <2>1. CASE i = n
    <3>1. r[i] = lp - P[n - 1]
      BY <1>10, <2>1
    <3> QED BY <1>5, <1>7, <2>1, <3>1 DEF last
  <2>2. CASE i # n
    <3>1. n \in 1..n /\ i < n
      BY <1>1, <2>2
    <3>2. f[i] + r[n] <= r[i]
      BY <1>12, <3>1
    <3>3. f[i] \in Nat /\ r[n] \in Nat /\ r[i] \in Nat
      BY <1>8, <1>10, <3>1
    <3> QED BY <3>2, <3>3
  <2> QED BY <2>1, <2>2
<1>14. V1Within(f, lp)
  BY Zenon, <1>7, <1>10, <1>11, <1>12, <1>13 DEF V1Within
<1>15. V1!SumOf(f) = lp
  <2> DEFINE F == Sums(f)
             A == {k \in 0..(n - 1) : F[k] = P[k]}
  <2>1. /\ V1!SumOf(f) = F[n] /\ F[0] = 0 /\ \A i \in 1..n : F[i] = F[i - 1] + f[i]
    BY Zenon, <1>9, SumsFacts
  <2> HIDE DEF F
  <2>2. 0 \in A
    BY <1>1, <1>4, <2>1
  <2>3. ASSUME NEW k \in 0..(n - 1), k \in A, k < n - 1 PROVE k + 1 \in A
    <3>1. /\ k + 1 \in 1..n /\ k + 1 \in 1..(n - 1) /\ k + 1 \in 0..(n - 1) /\ (k + 1) - 1 = k
      BY <1>1, <2>3
    <3>2. F[k + 1] = F[k] + f[k + 1] /\ P[k + 1] = P[k] + g[k + 1] /\ f[k + 1] = g[k + 1]
      BY <1>4, <1>7, <2>1, <3>1
    <3> QED BY <2>3, <3>1, <3>2
  <2>4. n - 1 \in A
    <3>1. n - 1 \in Nat
      BY <1>1
    <3> HIDE DEF A
    <3> QED BY Zenon, <1>5, <2>2, <2>3, <3>1, UpTo
  <2>5. n \in 1..n /\ F[n - 1] = P[n - 1]
    BY <1>1, <2>4
  <2>6. F[n] = P[n - 1] + last
    BY <1>7, <2>1, <2>5
  <2> QED BY <1>5, <2>1, <2>6 DEF last
<1> QED BY <1>9, <1>14, <1>15 DEF f

\* fromAllocationsToAmount: the last wallet gets what the shares leave, so that the amounts
\* of a list that is not refused add up to the LP tokens that were read.
THEOREM SplitIsWhole ==
    ASSUME NEW lp \in Nat, NEW a \in Allocations, a # <<>>, V1!Splits(a)
    PROVE  V1!SumOf(V1!FromAllocationsToAmount(lp, a)) = lp
BY V1Amounts

V1Tx == [kind : {"createPool", "createFarm"}]
        \union [kind : {"lock"}, to : Wallets, amount : Nat]

V1Chain == [pool : BOOLEAN, lp : Nat, locked : [Wallets -> Int], farm : BOOLEAN, now : Nat]

\* What an accepted transaction leaves; a lock takes its amount.
LEMMA V1Lands ==
    ASSUME NEW c \in V1Chain, NEW t \in V1Tx, V1!Accepts(c, t)
    PROVE  LET d == V1!Effect(c, t)
           IN  /\ d \in V1Chain
               /\ t.kind = "lock" => d.pool = c.pool /\ d.lp = c.lp - t.amount
<1> DEFINE d == V1!Effect(c, t)
           true == TRUE
<1>1. c.lp \in Nat /\ c.locked \in [Wallets -> Int]
  BY DEF V1Chain
<1>2. CASE t.kind = "createPool"
  <2>1. d = [c EXCEPT !.pool = true, !.lp = MintedLp]
    BY <1>2 DEF V1!Effect
  <2>2. true \in BOOLEAN /\ MintedLp \in Nat
    BY SplitAssumption
  <2> HIDE DEF d, true
  <2>3. d \in V1Chain
    BY Zenon, <2>1, <2>2 DEF V1Chain
  <2> QED BY <1>2, <2>3 DEF d
<1>3. CASE t.kind = "createFarm"
  <2>1. d = [c EXCEPT !.farm = true]
    BY <1>3 DEF V1!Effect
  <2>2. true \in BOOLEAN
    OBVIOUS
  <2> HIDE DEF d, true
  <2>3. d \in V1Chain
    BY <2>1, <2>2 DEF V1Chain
  <2> QED BY <1>3, <2>3 DEF d
<1>4. CASE t.kind = "lock"
  <2> DEFINE v == c.lp - t.amount
             l == [c.locked EXCEPT ![t.to] = c.locked[t.to] + t.amount]
  <2>1. t.to \in Wallets /\ t.amount \in Nat /\ t.amount <= c.lp
    BY <1>4 DEF V1Tx, V1!Accepts
  <2>2. v \in Nat /\ l \in [Wallets -> Int]
    BY <1>1, <2>1
  <2>3. d = [c EXCEPT !.lp = v, !.locked = l]
    BY <1>4 DEF V1!Effect
  <2> HIDE DEF d, v, l
  <2>4. d \in V1Chain /\ d.pool = c.pool /\ d.lp = v
    BY Zenon, <2>2, <2>3 DEF V1Chain
  <2> QED BY <2>4 DEF d, v
<1> QED BY <1>2, <1>3, <1>4 DEF V1Tx

\* The steps of Submission, of DAMM v1 commands.
LEMMA V1Steps ==
    ASSUME V1!S!Step
    PROVE  Steps(V1!Accepts, V1!Effect, V1!Resumes, V1!Forgives)
BY DEF V1!S!Step, V1!S!Land, V1!S!Simulate, V1!S!Forgive, V1!S!Refuse, V1!S!Lose,
       V1!S!Unready, V1!S!LandsLate, V1!S!Expires, V1!S!Command, V1!S!After,
       V1!S!Forgiven, V1!S!Busy, Steps, Takes, Stops, Commanded, Late

\* They keep what is pending, and the chain, of their sets.
LEMMA V1Typed ==
    ASSUME Typed(V1Tx, V1Chain), V1!S!Step
    PROVE  Typed(V1Tx, V1Chain)'
<1>1. AnyStep(V1Chain)
  BY Zenon, V1Steps, V1Lands, TypedHead DEF Steps, AnyStep, Typed, Takes
<1> QED BY <1>1, TypedStep

\* Of a command that is alone: what its locks take is there, whatever of it went first.
V1Budgeted ==
    /\ chain.pool
    /\ \A i \in DOMAIN queue : queue[i].kind = "lock"
    /\ V1Within([i \in DOMAIN queue |-> queue[i].amount], chain.lp)

V1Except == \/ cmd.op = "createPool"
            \/ cmd.op = "createFarm" /\ ~cmd.arg.pool

V1Alone ==
    \/ cmd.op = "lock" /\ V1Budgeted
    \/ cmd.op # "lock" /\ Len(queue) = 1 /\ (V1Except \/ V1!Accepts(chain, Head(queue)))

V1Lone ==
    /\ status = "running" => cmd.moved \/ V1Alone
    /\ status = "refused" => cmd.moved \/ V1Except

V1Inv == Typed(V1Tx, V1Chain) /\ V1Lone

\* It holds before the first command.
LEMMA V1Init == ASSUME V1!Init PROVE V1Inv
<1> DEFINE zero == 0
           false == FALSE
           none == [w \in Wallets |-> 0]
<1>1. chain = [pool |-> false, lp |-> zero, locked |-> none, farm |-> false, now |-> zero]
      /\ cmd = V1!S!NoCommand /\ queue = <<>> /\ late = {} /\ status = "idle"
  BY DEF V1!Init, V1!S!Begin
<1>2. zero \in Nat /\ false \in BOOLEAN /\ none \in [Wallets -> Int]
  OBVIOUS
<1> HIDE DEF zero, false, none
<1>3. chain \in V1Chain
  BY <1>1, <1>2 DEF V1Chain
<1> QED BY <1>1, <1>3 DEF V1!S!NoCommand, V1Inv, Typed, CmdInv, V1Lone

\* The first lock finds what it takes; after it, in a run that sends, the rest does.
LEMMA V1WithinTail ==
    ASSUME NEW q \in Seq(V1Tx), q # <<>>, NEW lp \in Nat, q[1].amount \in Nat,
           \A i \in DOMAIN q : q[i].amount \in Nat,
           V1Within([i \in DOMAIN q |-> q[i].amount], lp)
    PROVE  LET f == [i \in DOMAIN Tail(q) |-> Tail(q)[i].amount]
           IN  /\ q[1].amount <= lp /\ V1Within(f, lp)
               /\ V1Within(f, lp - q[1].amount)
<1> DEFINE e == [i \in DOMAIN q |-> q[i].amount]
           p == Tail(q)
           f == [i \in DOMAIN p |-> p[i].amount]
           left == lp - q[1].amount
<1>1. /\ \A i \in DOMAIN p : p[i] = q[i + 1] /\ i + 1 \in DOMAIN q /\ i \in Int /\ 1 < i + 1
      /\ 1 \in DOMAIN q
  BY QueueRest
<1>2. PICK r \in [DOMAIN q -> Nat] :
         /\ \A i \in DOMAIN q : e[i] <= r[i] /\ r[i] <= lp
         /\ \A i, j \in DOMAIN q : i < j => e[i] + r[j] <= r[i]
  BY Zenon DEF V1Within
<1>3. \A i \in DOMAIN q : e[i] = q[i].amount
  OBVIOUS
<1> HIDE DEF p, e
<1> DEFINE s == [i \in DOMAIN p |-> r[i + 1]]
<1>4. s \in [DOMAIN p -> Nat] /\ DOMAIN f = DOMAIN p
      /\ \A i \in DOMAIN p : /\ s[i] = r[i + 1] /\ f[i] = q[i + 1].amount
                            /\ f[i] <= s[i] /\ s[i] <= lp /\ q[1].amount + s[i] <= r[1]
  BY Zenon, <1>1, <1>2, <1>3
<1>5. \A i, j \in DOMAIN p : i < j => f[i] + s[j] <= s[i]
  <2>1. ASSUME NEW i \in DOMAIN p, NEW j \in DOMAIN p, i < j PROVE f[i] + s[j] <= s[i]
    <3>1. i + 1 < j + 1
      BY <1>1, <2>1
    <3>2. e[i + 1] + r[j + 1] <= r[i + 1]
      BY Zenon, <1>1, <1>2, <3>1
    <3> QED BY <1>1, <1>3, <1>4, <3>2
  <2> QED BY <2>1
<1>6. q[1].amount <= r[1] /\ r[1] <= lp /\ r[1] \in Nat
  BY <1>1, <1>2, <1>3
<1>7. \A i \in DOMAIN p : s[i] <= left
  <2>1. ASSUME NEW i \in DOMAIN p PROVE s[i] <= left
    <3>1. q[1].amount + s[i] <= r[1] /\ s[i] \in Nat
      BY <1>4
    <3> QED BY <1>6, <3>1
  <2> QED BY <2>1
<1> HIDE DEF s, f, left
<1>8. V1Within(f, lp)
  BY <1>4, <1>5 DEF V1Within
<1>9. V1Within(f, left)
  BY <1>4, <1>5, <1>7 DEF V1Within
<1>10. q[1].amount <= lp
  BY <1>6
<1> QED BY Zenon, <1>8, <1>9, <1>10 DEF f, left, p

\* After the first transaction the locks that are left still find what they take.
LEMMA V1Takes ==
    ASSUME Typed(V1Tx, V1Chain), V1Lone, Takes(V1!Resumes),
           \/ cmd.dry /\ chain' = chain
           \/ /\ ~cmd.dry /\ V1!Accepts(chain, Head(queue))
              /\ chain' = V1!Effect(chain, Head(queue))
    PROVE  V1Lone'
<1>1. /\ queue \in Seq(V1Tx) /\ queue # <<>> /\ queue' = Tail(queue) /\ cmd' = cmd
      /\ chain \in V1Chain /\ Head(queue) \in V1Tx /\ (cmd.moved \/ V1Alone)
      /\ status' = IF Len(queue) > 1 THEN "running" ELSE "ok"
  BY TypedHead DEF Typed, Takes, V1!Resumes, V1Lone
<1>2. CASE cmd.moved \/ ~(Len(queue) > 1)
  BY <1>1, <1>2 DEF V1Lone
<1>3. CASE ~cmd.moved /\ Len(queue) > 1
  <2>1. cmd.op = "lock" /\ V1Budgeted
    BY <1>1, <1>3 DEF V1Alone
  <2>2. /\ \A i \in DOMAIN Tail(queue) : Tail(queue)[i] = queue[i + 1] /\ i + 1 \in DOMAIN queue
        /\ Head(queue) = queue[1] /\ 1 \in DOMAIN queue
    BY <1>1, QueueRest
  <2>3. /\ \A i \in DOMAIN queue : queue[i].kind = "lock" /\ queue[i] \in V1Tx
        /\ chain.pool /\ chain.lp \in Nat
    BY <1>1, <2>1 DEF V1Budgeted, V1Chain
  <2>4. \A i \in DOMAIN queue : queue[i].amount \in Nat
    BY <2>3 DEF V1Tx
  <2>5. LET f == [i \in DOMAIN Tail(queue) |-> Tail(queue)[i].amount]
        IN  V1Within(f, chain.lp) /\ V1Within(f, chain.lp - queue[1].amount)
    BY Zenon, <1>1, <2>1, <2>2, <2>3, <2>4, V1WithinTail DEF V1Budgeted
  <2>6. chain'.pool /\ (chain'.lp = chain.lp \/ chain'.lp = chain.lp - queue[1].amount)
    BY <1>1, <2>2, <2>3, V1Lands
  <2>7. V1Budgeted'
    BY Zenon, <1>1, <2>2, <2>3, <2>5, <2>6 DEF V1Budgeted
  <2> QED BY <1>1, <1>3, <2>1, <2>7 DEF V1Lone, V1Alone
<1> QED BY <1>2, <1>3

\* A transaction that is refused met a chain that was moved, or was left to the program.
LEMMA V1Stops ==
    ASSUME Typed(V1Tx, V1Chain), V1Lone, Stops(V1!Accepts(chain, Head(queue)), V1!Forgives)
    PROVE  V1Lone'
<1>1. /\ queue \in Seq(V1Tx) /\ queue # <<>> /\ cmd' = cmd /\ (cmd.moved \/ V1Alone)
      /\ status' = "lost" \/ (status' = "refused" /\ ~V1!Accepts(chain, Head(queue)))
      /\ chain \in V1Chain
  BY DEF Typed, Stops, V1Lone
<1>2. V1Alone => V1Except \/ V1!Accepts(chain, Head(queue))
  <2>1. ASSUME V1Budgeted PROVE V1!Accepts(chain, Head(queue))
    <3>1. queue[1] = Head(queue) /\ 1 \in DOMAIN queue
      BY <1>1, QueueRest
    <3>2. /\ \A i \in DOMAIN queue : queue[i].kind = "lock" /\ queue[i] \in V1Tx
          /\ chain.pool /\ chain.lp \in Nat
      BY <1>1, <2>1 DEF V1Budgeted, V1Chain
    <3>3. \A i \in DOMAIN queue : queue[i].amount \in Nat
      BY <3>2 DEF V1Tx
    <3>4. queue[1].amount <= chain.lp
      BY Zenon, <1>1, <2>1, <3>1, <3>2, <3>3, V1WithinTail DEF V1Budgeted
    <3> QED BY Zenon, <3>1, <3>2, <3>4 DEF V1!Accepts
  <2> QED BY <2>1 DEF V1Alone
<1>3. V1Except' <=> V1Except
  BY <1>1 DEF V1Except
<1> QED BY <1>1, <1>2, <1>3 DEF V1Lone

\* The locks of a list are covered by the LP tokens when the command starts.
LEMMA V1Locks ==
    ASSUME V1Inv, NEW a \in Allocations, NEW arg, NEW ok,
           ok => a # <<>> /\ chain.pool /\ V1!Splits(a),
           Commanded("lock", arg, ok, V1!LockTxs(chain.lp, a))
    PROVE  V1Inv'
<1> DEFINE txs == V1!LockTxs(chain.lp, a)
           amounts == V1!FromAllocationsToAmount(chain.lp, a)
           R == [to : Wallets, tenths : Nat]
<1>1. chain \in V1Chain /\ chain.lp \in Nat /\ Typed(V1Tx, V1Chain)
  BY DEF V1Inv, Typed, V1Chain
<1>2. CASE ok
  <2>1. amounts \in [DOMAIN a -> Nat] /\ V1Within(amounts, chain.lp)
    BY <1>1, <1>2, V1Amounts
  <2>2. txs = [i \in DOMAIN a |-> [kind |-> "lock", to |-> a[i].to, amount |-> amounts[i]]]
    BY DEF V1!LockTxs
  <2>3. a \in Seq(R)
    BY Zenon, SplitAssumption
  <2>4. DOMAIN a = 1..Len(a) /\ Len(a) \in Nat /\ \A i \in DOMAIN a : a[i].to \in Wallets
    <3>1. \A x \in R : x.to \in Wallets
      OBVIOUS
    <3> HIDE DEF R
    <3> QED BY <2>3, <3>1
  <2> HIDE DEF txs, amounts, R
  <2>5. \A i \in DOMAIN a : [kind |-> "lock", to |-> a[i].to, amount |-> amounts[i]] \in V1Tx
    BY <2>1, <2>4 DEF V1Tx
  <2>6. txs \in Seq(V1Tx)
    BY <2>2, <2>4, <2>5
  <2>7. DOMAIN txs = DOMAIN a
        /\ \A i \in DOMAIN txs : txs[i].kind = "lock" /\ txs[i].amount = amounts[i]
    BY <2>2
  <2>8. [i \in DOMAIN txs |-> txs[i].amount] = amounts
    BY <2>1, <2>7
  <2>9. Typed(V1Tx, V1Chain)'
    BY <1>1, <2>6, TypedCommanded DEF txs
  <2>10. /\ cmd'.op = "lock" /\ chain' = chain /\ status' \in {"running", "ok"} /\ queue' = txs
    BY <1>2 DEF Commanded, txs
  <2>11. V1Budgeted'
    BY <1>2, <2>1, <2>7, <2>8, <2>10 DEF V1Budgeted
  <2> QED BY <2>9, <2>10, <2>11 DEF V1Inv, V1Lone, V1Alone
<1>3. CASE ~ok
  <2>1. status' = "threw" /\ Typed(V1Tx, V1Chain)'
    BY Zenon, <1>1, <1>3, TypedCommanded DEF Commanded
  <2> QED BY <2>1 DEF V1Inv, V1Lone
<1> QED BY <1>2, <1>3

\* A command of one transaction that its checks leave to be accepted.
LEMMA V1One ==
    ASSUME V1Inv, NEW op, op # "lock", NEW arg, NEW ok, NEW t \in V1Tx,
           Commanded(op, arg, ok, <<t>>),
           ok => \/ op = "createPool"
                 \/ op = "createFarm" /\ ~arg.pool
                 \/ V1!Accepts(chain, t)
    PROVE  V1Inv'
<1>1. /\ Typed(V1Tx, V1Chain)' /\ chain' = chain /\ status' \in {"threw", "running"}
      /\ status' = "running" => ok /\ Len(queue') = 1 /\ Head(queue') = t
      /\ cmd'.op = op /\ cmd'.arg = arg
  BY OneTransaction DEF V1Inv
<1> QED BY <1>1 DEF V1Inv, V1Lone, V1Alone, V1Except

\* Every DAMM v1 command and every step of others keeps it.
LEMMA V1Step == ASSUME V1Inv, V1!Next PROVE V1Inv'
<1>0. /\ Typed(V1Tx, V1Chain) /\ chain \in V1Chain /\ V1Lone /\ CmdInv
      /\ chain.now \in Nat
  BY DEF V1Inv, Typed, V1Chain
<1>1. CASE V1!S!Step
  <2>1. Typed(V1Tx, V1Chain)'
    BY <1>0, <1>1, V1Typed
  <2>2. Steps(V1!Accepts, V1!Effect, V1!Resumes, V1!Forgives)
    BY <1>1, V1Steps
  <2>3. CASE Commanded("unready", "none", FALSE, <<>>)
    BY <1>0, <2>1, <2>3 DEF Commanded, V1Lone, V1Inv
  <2>4. CASE \E l \in late : Late(l) /\ ((cmd' = [cmd EXCEPT !.moved = TRUE])
                                        \/ (UNCHANGED <<chain, cmd>>))
    BY <1>0, <2>1, <2>4 DEF Late, V1Lone, V1Alone, V1Except, V1Budgeted, CmdInv, V1Inv
  <2>5. CASE Takes(V1!Resumes) /\ (\/ cmd.dry /\ chain' = chain
                                  \/ /\ ~cmd.dry /\ V1!Accepts(chain, Head(queue))
                                     /\ chain' = V1!Effect(chain, Head(queue)))
    BY <1>0, <2>1, <2>5, V1Takes DEF V1Inv
  <2>6. CASE Stops(V1!Accepts(chain, Head(queue)), V1!Forgives)
    BY <1>0, <2>1, <2>6, V1Stops DEF V1Inv
  <2> QED BY Zenon, <2>2, <2>3, <2>4, <2>5, <2>6 DEF Steps
<1>2. CASE V1!Tick
  <2> DEFINE now == chain.now + 1
             c == [chain EXCEPT !.now = now]
  <2>1. Moved(c)
    BY <1>2 DEF V1!Tick, V1!S!World, Moved
  <2>2. now \in Nat
    BY <1>0
  <2> HIDE DEF now
  <2>3. c \in V1Chain
    BY <1>0, <2>2 DEF V1Chain
  <2> HIDE DEF c
  <2>4. Typed(V1Tx, V1Chain)' /\ cmd'.moved
    BY <1>0, <2>1, <2>3, TypedMoved
  <2> QED BY <1>0, <2>1, <2>4 DEF V1Inv, V1Lone, Moved, CmdInv
<1>3. CASE V1!CreateDammV1Pool
  <2> DEFINE t == [kind |-> "createPool"]
  <2>1. Commanded("createPool", "none", TRUE, <<t>>)
    BY Zenon, <1>3 DEF V1!CreateDammV1Pool, V1!S!Command, V1!S!Busy, Commanded
  <2>2. t \in V1Tx
    BY DEF V1Tx
  <2> HIDE DEF t
  <2> QED BY Zenon, <2>1, <2>2, V1One
<1>4. CASE V1!CreateFarm
  <2> DEFINE t == [kind |-> "createFarm"]
             arg == [pool |-> chain.pool]
             ok == chain.farm \/ chain.now <= FarmStart
  <2>1. t \in V1Tx
    BY DEF V1Tx
  <2>2. Commanded("createFarm", arg, ok, IF chain.farm THEN <<>> ELSE <<t>>)
    BY Zenon, <1>4 DEF V1!CreateFarm, V1!S!Command, V1!S!Busy, Commanded
  <2>3. CASE chain.farm
    <3>1. Commanded("createFarm", arg, ok, <<>>)
      BY <2>2, <2>3
    <3>2. <<>> \in Seq(V1Tx)
      OBVIOUS
    <3> HIDE DEF arg, ok
    <3>3. Typed(V1Tx, V1Chain)'
      BY Zenon, <1>0, <3>1, <3>2, TypedCommanded
    <3>4. status' \in {"threw", "ok"}
      BY <3>1 DEF Commanded
    <3> QED BY <3>3, <3>4 DEF V1Inv, V1Lone
  <2>4. CASE ~chain.farm
    <3>1. Commanded("createFarm", arg, ok, <<t>>)
      BY <2>2, <2>4
    <3>2. ok => chain.now <= FarmStart
      BY <2>4
    <3>3. chain.pool /\ ok => V1!Accepts(chain, t)
      BY <2>4, <3>2 DEF V1!Accepts
    <3>4. arg.pool <=> chain.pool
      OBVIOUS
    <3> HIDE DEF t, arg, ok
    <3> QED BY <2>1, <3>1, <3>3, <3>4, V1One
  <2> QED BY <2>3, <2>4
<1>5. ASSUME NEW a \in Allocations, V1!LockLiquidity(a) \/ V1!LockLiquidityStake2Earn(a)
      PROVE  V1Inv'
  <2> DEFINE arg == V1!Memory(a)
             txs == V1!LockTxs(chain.lp, a)
  <2>1. CASE V1!LockLiquidity(a)
    <3> DEFINE ok == a # <<>> /\ chain.pool /\ V1!Splits(a)
    <3>1. Commanded("lock", arg, ok, txs)
      BY Zenon, <2>1 DEF V1!LockLiquidity, V1!S!Command, V1!S!Busy, Commanded
    <3> HIDE DEF arg
    <3> QED BY Zenon, <3>1, V1Locks
  <2>2. CASE V1!LockLiquidityStake2Earn(a)
    <3> DEFINE ok == /\ a # <<>> /\ \E i \in DOMAIN a : a[i].to = FarmVault
                     /\ chain.pool /\ V1!Splits(a)
    <3>1. Commanded("lock", arg, ok, txs)
      BY Zenon, <2>2 DEF V1!LockLiquidityStake2Earn, V1!S!Command, V1!S!Busy, Commanded
    <3>2. ok => a # <<>> /\ chain.pool /\ V1!Splits(a)
      OBVIOUS
    <3> HIDE DEF arg, ok
    <3> QED BY <3>1, <3>2, V1Locks
  <2> QED BY <1>5, <2>1, <2>2
<1> QED BY <1>1, <1>2, <1>3, <1>4, <1>5 DEF V1!Next

-----------------------------------------------------------------------------
(* Sums of amounts *)

\* A list of numbers, given as a function.
LEMMA NumberList ==
    ASSUME NEW n \in Nat, NEW f \in [1..n -> Nat]
    PROVE  f \in Seq(Nat) /\ Len(f) = n
OBVIOUS

\* The sum of a list of numbers is a number. Partial sums start at 0 and go on by one entry.
LEMMA SumsOn ==
    ASSUME NEW n \in Nat, NEW f \in [1..n -> Nat]
    PROVE  /\ V1!SumOf(f) = Sums(f)[n] /\ Sums(f)[0] = 0 /\ V1!SumOf(f) \in Nat
           /\ \A k \in 0..n : Sums(f)[k] \in Nat
           /\ \A k \in 0..n : k < n => k + 1 \in 0..n /\ Sums(f)[k + 1] = Sums(f)[k] + f[k + 1]
<1>1. f \in Seq(Nat) /\ Len(f) = n
  BY NumberList
<1> DEFINE s == Sums(f)
<1>2. /\ V1!SumOf(f) = s[n] /\ s[0] = 0
      /\ \A i \in 1..n : s[i] = s[i - 1] + f[i]
      /\ \A k \in 0..n : s[k] \in Nat
  BY <1>1, SumsFacts
<1> HIDE DEF s
<1>3. ASSUME NEW k \in 0..n, k < n PROVE k + 1 \in 0..n /\ s[k + 1] = s[k] + f[k + 1]
  <2>1. k + 1 \in 1..n /\ (k + 1) - 1 = k
    BY <1>3
  <2>2. s[k + 1] = s[(k + 1) - 1] + f[k + 1]
    BY Zenon, <1>2, <2>1
  <2> QED BY <2>1, <2>2
<1>4. n \in 0..n
  OBVIOUS
<1> QED BY <1>2, <1>3, <1>4 DEF s

\* Sums add up entry by entry.
LEMMA SumPlus ==
    ASSUME NEW n \in Nat, NEW f \in [1..n -> Nat], NEW g \in [1..n -> Nat],
           NEW h \in [1..n -> Nat], \A i \in 1..n : h[i] = f[i] + g[i]
    PROVE  V1!SumOf(h) = V1!SumOf(f) + V1!SumOf(g)
<1> DEFINE F == Sums(f)
           G == Sums(g)
           H == Sums(h)
           S == {k \in 0..n : H[k] = F[k] + G[k]}
<1>1. /\ V1!SumOf(f) = F[n] /\ F[0] = 0 /\ \A k \in 0..n : F[k] \in Nat
      /\ \A k \in 0..n : k < n => k + 1 \in 0..n /\ F[k + 1] = F[k] + f[k + 1]
  BY Zenon, SumsOn
<1>2. /\ V1!SumOf(g) = G[n] /\ G[0] = 0 /\ \A k \in 0..n : G[k] \in Nat
      /\ \A k \in 0..n : k < n => k + 1 \in 0..n /\ G[k + 1] = G[k] + g[k + 1]
  BY Zenon, SumsOn
<1>3. /\ V1!SumOf(h) = H[n] /\ H[0] = 0 /\ \A k \in 0..n : H[k] \in Nat
      /\ \A k \in 0..n : k < n => k + 1 \in 0..n /\ H[k + 1] = H[k] + h[k + 1]
  BY Zenon, SumsOn
<1> HIDE DEF F, G, H
<1>4. n \in 0..n /\ 0 \in 0..n
  OBVIOUS
<1>5. 0 \in S
  BY <1>1, <1>2, <1>3, <1>4
<1>6. ASSUME NEW k \in 0..n, k \in S, k < n PROVE k + 1 \in S
  <2>1. k + 1 \in 1..n /\ k + 1 \in 0..n
    BY <1>6
  <2>2. h[k + 1] = f[k + 1] + g[k + 1] /\ f[k + 1] \in Nat /\ g[k + 1] \in Nat
    BY <2>1
  <2>3. /\ H[k] = F[k] + G[k] /\ H[k + 1] = H[k] + h[k + 1]
        /\ F[k + 1] = F[k] + f[k + 1] /\ G[k + 1] = G[k] + g[k + 1]
        /\ F[k] \in Nat /\ G[k] \in Nat
    BY <1>1, <1>2, <1>3, <1>6
  <2> DEFINE a == F[k]
             b == G[k]
             x == f[k + 1]
             y == g[k + 1]
  <2>4. /\ a \in Nat /\ b \in Nat /\ x \in Nat /\ y \in Nat
        /\ F[k + 1] = a + x /\ G[k + 1] = b + y /\ H[k + 1] = (a + b) + (x + y)
    BY Zenon, <2>2, <2>3
  <2> HIDE DEF a, b, x, y
  <2>5. (a + b) + (x + y) = (a + x) + (b + y)
    BY <2>4
  <2>6. H[k + 1] = F[k + 1] + G[k + 1]
    BY Zenon, <2>4, <2>5
  <2> QED BY <2>1, <2>6
<1>7. 0..n \subseteq S
  <2> HIDE DEF S
  <2> QED BY Zenon, <1>5, <1>6, UpTo
<1> QED BY <1>1, <1>2, <1>3, <1>4, <1>7

\* The sums of a list none of whose entries is above that of another list are no more.
LEMMA SumMost ==
    ASSUME NEW n \in Nat, NEW f \in [1..n -> Nat], NEW g \in [1..n -> Nat],
           \A i \in 1..n : f[i] <= g[i]
    PROVE  V1!SumOf(f) <= V1!SumOf(g)
<1> DEFINE d == [i \in 1..n |-> g[i] - f[i]]
<1>1. d \in [1..n -> Nat] /\ \A i \in 1..n : g[i] = f[i] + d[i]
  OBVIOUS
<1> HIDE DEF d
<1>2. V1!SumOf(g) = V1!SumOf(f) + V1!SumOf(d)
  BY Zenon, <1>1, SumPlus
<1>3. V1!SumOf(f) \in Nat /\ V1!SumOf(d) \in Nat
  BY Zenon, <1>1, SumsOn
<1> QED BY <1>2, <1>3

\* A list of zeros sums to zero.
LEMMA SumNone ==
    ASSUME NEW n \in Nat, NEW f \in [1..n -> Nat], \A i \in 1..n : f[i] = 0
    PROVE  V1!SumOf(f) = 0
<1>1. \A i \in 1..n : f[i] = f[i] + f[i]
  OBVIOUS
<1>2. V1!SumOf(f) = V1!SumOf(f) + V1!SumOf(f)
  BY Zenon, <1>1, SumPlus
<1>3. V1!SumOf(f) \in Nat
  BY Zenon, SumsOn
<1> QED BY <1>2, <1>3

-----------------------------------------------------------------------------
(* DammV1: the split of the LP tokens *)

\* The last entry comes on top of the others' sum.
LEMMA SumAppended ==
    ASSUME NEW n \in Nat, NEW f \in [1..(n + 1) -> Nat], NEW g \in [1..n -> Nat],
           \A i \in 1..n : f[i] = g[i]
    PROVE  V1!SumOf(f) = V1!SumOf(g) + f[n + 1]
<1> DEFINE F == Sums(f)
           G == Sums(g)
           S == {k \in 0..n : F[k] = G[k]}
<1>1. /\ V1!SumOf(g) = G[n] /\ G[0] = 0
      /\ \A k \in 0..n : k < n => k + 1 \in 0..n /\ G[k + 1] = G[k] + g[k + 1]
  BY Zenon, SumsOn
<1>2. /\ V1!SumOf(f) = F[n + 1] /\ F[0] = 0
      /\ \A k \in 0..(n + 1) : k < n + 1 => k + 1 \in 0..(n + 1) /\ F[k + 1] = F[k] + f[k + 1]
  <2>1. n + 1 \in Nat
    OBVIOUS
  <2> QED BY Zenon, <2>1, SumsOn
<1> HIDE DEF F, G
<1>3. 0 \in S
  BY <1>1, <1>2
<1>4. ASSUME NEW k \in 0..n, k \in S, k < n PROVE k + 1 \in S
  <2>1. k + 1 \in 1..n /\ k + 1 \in 0..n /\ k \in 0..(n + 1) /\ k < n + 1
    BY <1>4
  <2>2. F[k] = G[k] /\ F[k + 1] = F[k] + f[k + 1] /\ G[k + 1] = G[k] + g[k + 1]
        /\ f[k + 1] = g[k + 1]
    BY <1>1, <1>2, <1>4, <2>1
  <2> QED BY Zenon, <2>1, <2>2
<1>5. 0..n \subseteq S
  <2> HIDE DEF S
  <2> QED BY Zenon, <1>3, <1>4, UpTo
<1>6. n \in 0..n /\ n \in 0..(n + 1) /\ n < n + 1
  OBVIOUS
<1>7. F[n] = G[n] /\ F[n + 1] = F[n] + f[n + 1]
  BY <1>2, <1>5, <1>6
<1> QED BY Zenon, <1>1, <1>2, <1>7

\* A sum of whole percentages is one.
LEMMA SumTens ==
    ASSUME NEW n \in Nat, NEW f \in [1..n -> Nat], \A i \in 1..n : f[i] % 10 = 0
    PROVE  V1!SumOf(f) % 10 = 0
<1> DEFINE F == Sums(f)
           S == {k \in 0..n : F[k] % 10 = 0}
<1>1. /\ V1!SumOf(f) = F[n] /\ F[0] = 0 /\ \A k \in 0..n : F[k] \in Nat
      /\ \A k \in 0..n : k < n => k + 1 \in 0..n /\ F[k + 1] = F[k] + f[k + 1]
  BY Zenon, SumsOn
<1> HIDE DEF F
<1>2. 0 \in S
  BY <1>1
<1>3. ASSUME NEW k \in 0..n, k \in S, k < n PROVE k + 1 \in S
  <2>1. k + 1 \in 1..n /\ k + 1 \in 0..n
    BY <1>3
  <2> DEFINE a == F[k]
             x == f[k + 1]
  <2>2. a \in Nat /\ x \in Nat /\ a % 10 = 0 /\ x % 10 = 0 /\ F[k + 1] = a + x
    BY <1>1, <1>3, <2>1
  <2> HIDE DEF a, x
  <2>3. (a + x) % 10 = 0
    BY <2>2
  <2> QED BY Zenon, <2>1, <2>2, <2>3
<1>4. 0..n \subseteq S
  <2> HIDE DEF S
  <2> QED BY Zenon, <1>2, <1>3, UpTo
<1>5. n \in 0..n
  OBVIOUS
<1> QED BY <1>1, <1>4, <1>5

\* By how much amounts X of lp tokens that should be T parts of sum are off, sum times.
Off(lp, sum, X, T) == X * sum - lp * T

\* What two parts are off adds up.
LEMMA OffStep ==
    ASSUME NEW lp \in Nat, NEW sum \in Nat, NEW had \in Nat, NEW due \in Nat,
           NEW more \in Nat, NEW part \in Nat
    PROVE  /\ Off(lp, sum, had, due) \in Int
           /\ Off(lp, sum, had + more, due + part) = Off(lp, sum, had, due) + Off(lp, sum, more, part)
<1>1. (had + more) * sum = had * sum + more * sum
  OBVIOUS
<1>2. lp * (due + part) = lp * due + lp * part
  OBVIOUS
<1>3. had * sum \in Int /\ more * sum \in Int /\ lp * due \in Int /\ lp * part \in Int
  OBVIOUS
<1> DEFINE a == had * sum
           b == more * sum
           c == lp * due
           d == lp * part
<1>4. Off(lp, sum, had + more, due + part) = (a + b) - (c + d) /\ Off(lp, sum, had, due) = a - c
      /\ Off(lp, sum, more, part) = b - d
  BY Zenon, <1>1, <1>2 DEF Off
<1>5. a \in Int /\ b \in Int /\ c \in Int /\ d \in Int
  BY <1>3
<1> HIDE DEF a, b, c, d
<1> QED BY <1>4, <1>5

\* n numbers; parts of sum, each of them rounded down by less than a token.
Numbers(f, n) == f \in [1..n -> Nat]

OffLess(lp, sum, x, t, n) == \A i \in 1..n : Off(lp, sum, x[i], t[i]) \in (-sum)..0

\* Parts that are rounded down, each by less than a token, together by no more than their
\* number.
LEMMA OffSum ==
    ASSUME NEW n \in Nat, NEW lp \in Nat, NEW sum \in Nat, NEW x, NEW t,
           Numbers(x, n), Numbers(t, n), OffLess(lp, sum, x, t, n)
    PROVE  Off(lp, sum, V1!SumOf(x), V1!SumOf(t)) \in (-(n * sum))..0
<1> DEFINE X == Sums(x)
           T == Sums(t)
           S == {k \in 0..n : Off(lp, sum, X[k], T[k]) \in (-(k * sum))..0}
<1>1. /\ V1!SumOf(x) = X[n] /\ X[0] = 0 /\ \A k \in 0..n : X[k] \in Nat
      /\ \A k \in 0..n : k < n => k + 1 \in 0..n /\ X[k + 1] = X[k] + x[k + 1]
  BY Zenon, SumsOn DEF Numbers
<1>2. /\ V1!SumOf(t) = T[n] /\ T[0] = 0 /\ \A k \in 0..n : T[k] \in Nat
      /\ \A k \in 0..n : k < n => k + 1 \in 0..n /\ T[k + 1] = T[k] + t[k + 1]
  BY Zenon, SumsOn DEF Numbers
<1> HIDE DEF X, T
<1>3. 0 \in S
  <2>1. Off(lp, sum, 0, 0) = 0 /\ 0 * sum = 0
    BY DEF Off
  <2> QED BY <1>1, <1>2, <2>1
<1>4. ASSUME NEW k \in 0..n, k \in S, k < n PROVE k + 1 \in S
  <2>1. k + 1 \in 1..n /\ k + 1 \in 0..n
    BY <1>4
  <2> DEFINE before == Off(lp, sum, X[k], T[k])
             one == Off(lp, sum, x[k + 1], t[k + 1])
             after == Off(lp, sum, X[k + 1], T[k + 1])
             p == k * sum
             q == (k + 1) * sum
  <2>2. /\ X[k] \in Nat /\ T[k] \in Nat /\ x[k + 1] \in Nat /\ t[k + 1] \in Nat
        /\ X[k + 1] = X[k] + x[k + 1] /\ T[k + 1] = T[k] + t[k + 1]
    BY <1>1, <1>2, <1>4, <2>1 DEF Numbers
  <2>3. after = before + one
    <3> DEFINE a == X[k]
               b == T[k]
               c == x[k + 1]
               d == t[k + 1]
    <3>1. a \in Nat /\ b \in Nat /\ c \in Nat /\ d \in Nat
      BY <2>2
    <3>2. after = Off(lp, sum, a + c, b + d)
      BY <2>2
    <3> HIDE DEF a, b, c, d, after
    <3>3. Off(lp, sum, a + c, b + d) = Off(lp, sum, a, b) + Off(lp, sum, c, d)
      BY SMTT(60), <3>1, OffStep
    <3> QED BY <3>2, <3>3 DEF a, b, c, d
  <2>4. before \in (-p)..0 /\ one \in (-sum)..0
    BY <1>4, <2>1 DEF OffLess
  <2>5. q = p + sum /\ p \in Int
    <3>1. k \in Nat
      OBVIOUS
    <3> QED BY <3>1
  <2> HIDE DEF before, one, after, p, q
  <2>6. after \in (-q)..0
    BY <2>3, <2>4, <2>5
  <2> QED BY <2>1, <2>6 DEF after, q
<1>5. 0..n \subseteq S
  <2> HIDE DEF S
  <2> QED BY Zenon, <1>3, <1>4, UpTo
<1>6. n \in 0..n
  OBVIOUS
<1> QED BY <1>1, <1>2, <1>5, <1>6

\* The entries of a list that are for one wallet, and what stands against them.
EntriesFor(a, w) == {i \in DOMAIN a : a[i].to = w}

PartOf(f, some) == [i \in DOMAIN f |-> IF i \in some THEN f[i] ELSE 0]

TenthsIn(a) == [i \in DOMAIN a |-> a[i].tenths]

\* A list of allocations.
LEMMA AllocationsType ==
    ASSUME NEW a \in Allocations, a # <<>>
    PROVE  /\ Len(a) \in Nat \ {0} /\ DOMAIN a = 1..Len(a)
           /\ \A i \in DOMAIN a : a[i].to \in Wallets /\ a[i].tenths \in Nat
<1> DEFINE R == [to : Wallets, tenths : Nat]
<1>1. a \in Seq(R)
  BY Zenon, SplitAssumption
<1> HIDE DEF R
<1>2. /\ Len(a) \in Nat /\ DOMAIN a = 1..Len(a) /\ Len(a) # 0
      /\ \A i \in DOMAIN a : a[i] \in R
  BY <1>1
<1> QED BY <1>2 DEF R

\* The rounded share of a wallet is off by less than a token, for whole percentages.
LEMMA ShareOff ==
    ASSUME NEW lp \in Nat, NEW t \in Nat, NEW sum \in Nat, t % 10 = 0, sum % 10 = 0, sum # 0
    PROVE  Off(lp, sum, (lp * V1!Floor10(t)) \div V1!Floor10(sum), t) \in (-sum)..0
<1> DEFINE u == t \div 10
           d == sum \div 10
           p == lp * u
           x == p \div d
           y == x * d
<1>1. u \in Nat /\ d \in Nat \ {0} /\ t = 10 * u /\ sum = 10 * d
  OBVIOUS
<1> HIDE DEF u, d
<1>2. p \in Nat
  BY <1>1
<1> HIDE DEF p
<1>3. x \in Nat /\ y \in Int /\ y <= p /\ p < y + d
  BY <1>1, <1>2
<1> HIDE DEF x
<1>4. x * sum = 10 * y /\ lp * t = 10 * p
  BY <1>1, <1>3 DEF p
<1> HIDE DEF y
<1>5. x * sum - lp * t \in (-sum)..0
  BY <1>1, <1>2, <1>3, <1>4
<1> QED BY <1>5 DEF Off, V1!Floor10, x, p, u, d

\* fromAllocationsToAmount: what is for one wallet is its share, off by no more than one token
\* for each entry of the list.
LEMMA SplitIsFair ==
    ASSUME NEW lp \in Nat, NEW a \in Allocations, a # <<>>, V1!Splits(a), NEW w,
           \A i \in DOMAIN a : a[i].tenths % 10 = 0
    PROVE  LET sum == V1!SumTenths(a)
               f   == PartOf(V1!FromAllocationsToAmount(lp, a), EntriesFor(a, w))
               t   == PartOf(TenthsIn(a), EntriesFor(a, w))
           IN  /\ Off(lp, sum, V1!SumOf(f), V1!SumOf(t)) \in (-(Len(a) * sum))..(Len(a) * sum)
               /\ sum \in Nat
<1> DEFINE n == Len(a) - 1
           m == Len(a)
           sum == V1!SumTenths(a)
           amounts == V1!FromAllocationsToAmount(lp, a)
           tenths == TenthsIn(a)
           some == EntriesFor(a, w)
           f == PartOf(amounts, some)
           t == PartOf(tenths, some)
           g == V1First(lp, a)         \* all but the last
           s == [i \in 1..n |-> tenths[i]]
           gw == PartOf(g, some)
           sw == PartOf(s, some)
<1>1. /\ m \in Nat \ {0} /\ DOMAIN a = 1..m /\ \A i \in DOMAIN a : a[i].tenths \in Nat
      /\ n \in Nat /\ m = n + 1
  BY AllocationsType
<1>2. /\ tenths \in [1..m -> Nat] /\ \A i \in 1..m : tenths[i] = a[i].tenths /\ tenths[i] % 10 = 0
  BY <1>1 DEF TenthsIn
<1>3. sum = V1!SumOf(tenths) /\ sum \in 1..1000
  BY DEF V1!SumTenths, TenthsIn, V1!Splits
<1>4. sum % 10 = 0 /\ sum \in Nat /\ sum # 0
  <2>1. V1!SumOf(tenths) % 10 = 0
    <3> HIDE DEF tenths, m
    <3> QED BY <1>1, <1>2, SumTens
  <2> HIDE DEF sum
  <2>2. \A x \in 1..1000 : x \in Nat /\ x # 0
    OBVIOUS
  <2> QED BY Zenon, <1>3, <2>1, <2>2
<1>5. /\ g \in [1..n -> Nat]
      /\ \A i \in 1..n : g[i] = (lp * V1!Floor10(tenths[i])) \div V1!Floor10(sum)
  <2>1. g \in Seq(Nat) /\ Len(g) = n
    BY Zenon, V1Shares
  <2>2. \A i \in 1..n : g[i] = (lp * V1!Floor10(a[i].tenths)) \div V1!Floor10(sum)
    BY DEF V1First, V1!ShareOf
  <2> HIDE DEF g, n, sum, tenths
  <2>3. g \in [1..n -> Nat]
    BY <2>1
  <2>4. \A i \in 1..n : i \in 1..m
    BY <1>1
  <2> QED BY Zenon, <1>2, <2>2, <2>3, <2>4
<1>6. /\ amounts \in [1..m -> Nat] /\ V1!SumOf(amounts) = lp
      /\ \A i \in 1..n : amounts[i] = g[i]
  <2>1. amounts = Append(g, lp - V1!SumOf(g))
    BY DEF V1!FromAllocationsToAmount, V1First
  <2>2. g \in Seq(Nat) /\ Len(g) = n
    BY Zenon, V1Shares
  <2>3. amounts \in [DOMAIN a -> Nat] /\ V1!SumOf(amounts) = lp
    BY Zenon, V1Amounts
  <2> HIDE DEF amounts, g, n, m
  <2>4. \A i \in 1..n : amounts[i] = g[i]
    BY <2>1, <2>2
  <2> QED BY <1>1, <2>3, <2>4
<1> HIDE DEF amounts, g, tenths, sum, n, m, some
<1>7. \A i \in 1..n : i \in 1..m /\ i \in DOMAIN g /\ i \in DOMAIN amounts /\ i \in DOMAIN tenths
  BY <1>1, <1>2, <1>5, <1>6
<1>8. m \in 1..m /\ n + 1 = m /\ m \in Nat
  BY <1>1
<1>9. /\ s \in [1..n -> Nat] /\ \A i \in 1..n : s[i] = tenths[i]
  BY <1>2, <1>7
<1> HIDE DEF s
<1>10. /\ f \in [1..m -> Nat] /\ t \in [1..m -> Nat]
       /\ gw \in [1..n -> Nat] /\ sw \in [1..n -> Nat]
       /\ \A i \in 1..n : f[i] = gw[i] /\ t[i] = sw[i]
       /\ \A i \in 1..n : \/ gw[i] = g[i] /\ sw[i] = tenths[i]
                          \/ gw[i] = 0 /\ sw[i] = 0
       /\ \/ f[m] = amounts[m] /\ t[m] = tenths[m]
          \/ f[m] = 0 /\ t[m] = 0
  <2>1. \A k, h : h \in [1..k -> Nat] =>
           /\ PartOf(h, some) \in [1..k -> Nat]
           /\ \A i \in 1..k : PartOf(h, some)[i] = IF i \in some THEN h[i] ELSE 0
    BY DEF PartOf
  <2> HIDE DEF f, t, gw, sw
  <2>2. /\ f \in [1..m -> Nat] /\ \A i \in 1..m : f[i] = IF i \in some THEN amounts[i] ELSE 0
    BY Zenon, <1>6, <2>1 DEF f
  <2>3. /\ t \in [1..m -> Nat] /\ \A i \in 1..m : t[i] = IF i \in some THEN tenths[i] ELSE 0
    BY Zenon, <1>2, <2>1 DEF t
  <2>4. /\ gw \in [1..n -> Nat] /\ \A i \in 1..n : gw[i] = IF i \in some THEN g[i] ELSE 0
    BY Zenon, <1>5, <2>1 DEF gw
  <2>5. /\ sw \in [1..n -> Nat] /\ \A i \in 1..n : sw[i] = IF i \in some THEN s[i] ELSE 0
    BY Zenon, <1>9, <2>1 DEF sw
  <2>6. \A i \in 1..n : i \in 1..m
    BY <1>7
  <2>7. \A i \in 1..n : f[i] = gw[i] /\ t[i] = sw[i]
    BY Zenon, <1>6, <1>9, <2>2, <2>3, <2>4, <2>5, <2>6
  <2>8. \A i \in 1..n : \/ gw[i] = g[i] /\ sw[i] = tenths[i]
                        \/ gw[i] = 0 /\ sw[i] = 0
    <3>1. ASSUME NEW i \in 1..n, i \in some PROVE gw[i] = g[i] /\ sw[i] = tenths[i]
      <4>1. gw[i] = g[i] /\ sw[i] = s[i] /\ s[i] = tenths[i]
        BY Zenon, <1>9, <2>4, <2>5, <3>1
      <4> QED BY Zenon, <4>1
    <3>2. ASSUME NEW i \in 1..n, i \notin some PROVE gw[i] = 0 /\ sw[i] = 0
      BY Zenon, <2>4, <2>5, <3>2
    <3> HIDE DEF gw, sw, some
    <3> QED BY <3>1, <3>2
  <2>9. \/ f[m] = amounts[m] /\ t[m] = tenths[m]
        \/ f[m] = 0 /\ t[m] = 0
    BY Zenon, <1>8, <2>2, <2>3
  <2> QED BY Zenon, <2>2, <2>3, <2>4, <2>5, <2>7, <2>8, <2>9
<1> HIDE DEF f, t, gw, sw
\* The shares of the others, of all wallets and of this one.
<1>11. OffLess(lp, sum, g, s, n)
  <2>1. \A i \in 1..n : Off(lp, sum, g[i], tenths[i]) \in (-sum)..0
    BY <1>2, <1>4, <1>5, <1>7, ShareOff
  <2> QED BY Zenon, <1>9, <2>1 DEF OffLess
<1> DEFINE all == Off(lp, sum, V1!SumOf(g), V1!SumOf(s))
           mine == Off(lp, sum, V1!SumOf(gw), V1!SumOf(sw))
           last == Off(lp, sum, amounts[m], tenths[m])
           own == Off(lp, sum, f[m], t[m])
           total == Off(lp, sum, V1!SumOf(f), V1!SumOf(t))
<1>12. all \in (-(n * sum))..0
  BY Zenon, <1>1, <1>4, <1>5, <1>9, <1>11, OffSum DEF Numbers
<1>13. mine \in (-(n * sum))..0
  <2>1. Off(lp, sum, 0, 0) = 0
    BY <1>4 DEF Off
  <2>2. OffLess(lp, sum, gw, sw, n)
    <3>1. \A i \in 1..n : Off(lp, sum, gw[i], sw[i]) \in (-sum)..0
      BY <1>4, <1>9, <1>10, <1>11, <2>1 DEF OffLess
    <3> QED BY Zenon, <3>1 DEF OffLess
  <2> QED BY Zenon, <1>1, <1>4, <1>10, <2>2, OffSum DEF Numbers
\* Of all together nothing is left, so the last wallet has what the others lack.
<1>14. all + last = 0
  <2>1. V1!SumOf(amounts) = V1!SumOf(g) + amounts[m] /\ V1!SumOf(tenths) = V1!SumOf(s) + tenths[m]
    <3>1. \A i \in 1..n : tenths[i] = s[i]
      BY <1>9
    <3>2. amounts \in [1..(n + 1) -> Nat] /\ tenths \in [1..(n + 1) -> Nat]
      BY <1>2, <1>6, <1>8
    <3>3. V1!SumOf(amounts) = V1!SumOf(g) + amounts[n + 1]
      BY Zenon, <1>1, <1>5, <1>6, <3>2, SumAppended
    <3>4. V1!SumOf(tenths) = V1!SumOf(s) + tenths[n + 1]
      BY Zenon, <1>1, <1>9, <3>1, <3>2, SumAppended
    <3> QED BY <1>8, <3>3, <3>4
  <2>2. Off(lp, sum, lp, sum) = 0
    BY <1>4 DEF Off
  <2>3. /\ V1!SumOf(g) \in Nat /\ V1!SumOf(s) \in Nat /\ amounts[m] \in Nat /\ tenths[m] \in Nat
    BY <1>1, <1>2, <1>5, <1>6, <1>8, <1>9, SumsOn
  <2> DEFINE e == V1!SumOf(g)
             b == V1!SumOf(s)
             c == amounts[m]
             d == tenths[m]
  <2> HIDE DEF e, b, c, d
  <2>5. e \in Nat /\ b \in Nat /\ c \in Nat /\ d \in Nat
    BY <2>3 DEF e, b, c, d
  <2>4. Off(lp, sum, e + c, b + d) = Off(lp, sum, e, b) + Off(lp, sum, c, d)
    BY SMTT(60), <1>4, <2>5, OffStep
  <2> QED BY <1>3, <1>6, <2>1, <2>2, <2>4 DEF e, b, c, d
<1>15. total = mine + own
  <2>1. V1!SumOf(f) = V1!SumOf(gw) + f[m] /\ V1!SumOf(t) = V1!SumOf(sw) + t[m]
    <3>1. f \in [1..(n + 1) -> Nat] /\ t \in [1..(n + 1) -> Nat]
      BY <1>8, <1>10
    <3>2. V1!SumOf(f) = V1!SumOf(gw) + f[n + 1]
      BY Zenon, <1>1, <1>10, <3>1, SumAppended
    <3>3. V1!SumOf(t) = V1!SumOf(sw) + t[n + 1]
      BY Zenon, <1>1, <1>10, <3>1, SumAppended
    <3> QED BY <1>8, <3>2, <3>3
  <2>2. V1!SumOf(gw) \in Nat /\ V1!SumOf(sw) \in Nat /\ f[m] \in Nat /\ t[m] \in Nat
    BY <1>1, <1>8, <1>10, SumsOn
  <2> DEFINE e == V1!SumOf(gw)
             b == V1!SumOf(sw)
             c == f[m]
             d == t[m]
  <2> HIDE DEF e, b, c, d
  <2>3. e \in Nat /\ b \in Nat /\ c \in Nat /\ d \in Nat
    BY <2>2 DEF e, b, c, d
  <2>4. Off(lp, sum, e + c, b + d) = Off(lp, sum, e, b) + Off(lp, sum, c, d)
    BY SMTT(60), <1>4, <2>3, OffStep
  <2> QED BY <2>1, <2>4 DEF e, b, c, d
<1>16. own = last \/ own = 0
  BY <1>4, <1>10 DEF Off
<1>17. n * sum \in Nat /\ m * sum \in Nat /\ n * sum <= m * sum
  <2>1. m * sum = n * sum + sum /\ n * sum \in Nat
    BY <1>1, <1>4
  <2> QED BY <1>4, <2>1
<1> DEFINE p == n * sum
           q == m * sum
<1> HIDE DEF all, mine, last, own, total, p, q
<1>18. last \in Int
  <2>1. amounts[m] \in Nat /\ tenths[m] \in Nat
    BY <1>2, <1>6, <1>8
  <2> QED BY Zenon, <1>4, <2>1, OffStep DEF last
<1>19. total \in (-q)..q
  <2>1. /\ p \in Nat /\ q \in Nat /\ p <= q /\ all \in (-p)..0 /\ mine \in (-p)..0
    BY <1>12, <1>13, <1>17 DEF p, q
  <2> QED BY <1>14, <1>15, <1>16, <1>18, <2>1
<1> QED BY <1>4, <1>19 DEF total, q, m, f, t, sum, amounts, tenths, some

-----------------------------------------------------------------------------
(* DammV2Positions *)

\* Positions have the numbers of runs that were made, n so far.
PosSet(n) == [key : 1..n, unl : Nat, vest : Nat, perm : Nat, fee : Nat]

PosTx(n) == [kind : {"create"}, key : 1..n, d : Deposits]
            \union [kind : {"split"}, key : Int, new : 1..n, parts : SplitParts, own : BOOLEAN]
            \union [kind : {"add"}, key : Int, price : Int]
            \union [kind : {"remove"}, key : Int, amount : Nat, price : Int]
            \union [kind : {"claim", "refresh", "close"}, key : Int]

PosRecord(n) == [pool : BOOLEAN, pos : SUBSET PosSet(n), price : Int, ripe : BOOLEAN,
                 tokens : Nat]

OneByKey(c) == \A p, q \in c.pos : p.key = q.key => p = q

\* The key of the position that a transaction makes, or 0.
NewKey(t) == IF t.kind = "create" THEN t.key ELSE IF t.kind = "split" THEN t.new ELSE 0

\* The position of a key.
LEMMA PosOf ==
    ASSUME NEW n \in Nat, NEW c \in PosRecord(n), NEW k \in V2!Keys(c)
    PROVE  /\ V2!Pos(c, k) \in c.pos /\ V2!Pos(c, k) \in PosSet(n) /\ V2!Pos(c, k).key = k
           /\ OneByKey(c) => \A p \in c.pos : p.key = k => p = V2!Pos(c, k)
BY DEF PosRecord, V2!Keys, V2!Pos, OneByKey

\* A position is changed, or closed, or another one made beside it.
LEMMA PosChange ==
    ASSUME NEW n \in Nat, NEW c \in PosRecord(n), NEW p \in c.pos, NEW qs \in SUBSET PosSet(n),
           NEW new, \A q \in qs : q.key = p.key \/ (q.key = new /\ q.key \notin V2!Keys(c)),
           \A q, r \in qs : q.key = r.key => q = r
    PROVE  /\ V2!Change(c, p, qs) \in PosRecord(n)
           /\ V2!Keys(V2!Change(c, p, qs)) \subseteq V2!Keys(c) \union {new}
           /\ OneByKey(c) => OneByKey(V2!Change(c, p, qs))
           /\ V2!Change(c, p, qs).pos = (c.pos \ {p}) \union qs
<1> DEFINE ps == (c.pos \ {p}) \union qs
           d == V2!Change(c, p, qs)
<1>1. c.pos \subseteq PosSet(n)
  BY DEF PosRecord
<1>2. d = [c EXCEPT !.pos = ps]
  BY DEF V2!Change, PosRecord
<1>3. ps \in SUBSET PosSet(n)
  BY <1>1
<1>4. \A q \in ps : q.key \in V2!Keys(c) \union {new}
  BY DEF V2!Keys
<1>5. ASSUME OneByKey(c), NEW q \in ps, NEW r \in ps, q.key = r.key PROVE q = r
  BY <1>5 DEF OneByKey, V2!Keys
<1> HIDE DEF ps, d
<1>6. d \in PosRecord(n) /\ d.pos = ps
  BY <1>2, <1>3 DEF PosRecord
<1> QED BY <1>4, <1>5, <1>6 DEF V2!Keys, OneByKey, d, ps

\* What an accepted transaction leaves: no key but the one of its new position is added, and
\* no two positions share one.
LEMMA PosLands ==
    ASSUME NEW n \in Nat, NEW c \in PosRecord(n), NEW t \in PosTx(n), V2!Accepts(c, t),
           NewKey(t) \notin V2!Keys(c)
    PROVE  /\ V2!Effect(c, t) \in PosRecord(n)
           /\ V2!Keys(V2!Effect(c, t)) \subseteq V2!Keys(c) \union {NewKey(t)}
           /\ OneByKey(c) => OneByKey(V2!Effect(c, t))
<1> DEFINE d == V2!Effect(c, t)
           p == V2!Pos(c, t.key)
<1>1. t.kind # "create" => t.key \in V2!Keys(c)
  BY Zenon DEF V2!Accepts, PosTx
<1>2. t.kind # "create" => /\ p \in c.pos /\ p \in PosSet(n) /\ p.key = t.key
                           /\ p.key \in 1..n /\ p.unl \in Nat /\ p.vest \in Nat
                           /\ p.perm \in Nat /\ p.fee \in Nat
  BY <1>1, PosOf DEF PosSet
<1>3. c.tokens \in Nat /\ c.ripe \in BOOLEAN /\ c.pos \subseteq PosSet(n)
  BY DEF PosRecord
<1>4. CASE t.kind = "create"
  <2> DEFINE x == [key |-> t.key, unl |-> t.d.unl, vest |-> t.d.vest, perm |-> t.d.perm,
                   fee |-> 0]
  <2>1. t.key \in 1..n /\ t.d.unl \in Nat /\ t.d.vest \in Nat /\ t.d.perm \in Nat
    BY <1>4, PositionAssumption DEF PosTx
  <2>2. x \in PosSet(n) /\ x.key = NewKey(t)
    BY <1>4, <2>1 DEF PosSet, NewKey
  <2>3. d = [c EXCEPT !.pool = TRUE, !.pos = {x}]
    BY <1>4 DEF V2!Effect
  <2> HIDE DEF d, x
  <2>4. d \in PosRecord(n) /\ d.pos = {x}
    BY Zenon, <2>2, <2>3 DEF PosRecord
  <2> QED BY <2>2, <2>4 DEF V2!Keys, OneByKey, d
<1>5. CASE t.kind = "split"
  <2> DEFINE h(name) == V2!Half(t.parts, name, p[name])
             half == [name \in V2!Parts |-> h(name)]
             x == [key |-> t.new, unl |-> half["unl"], vest |-> half["vest"],
                   perm |-> half["perm"], fee |-> half["fee"]]
             y == [p EXCEPT !.unl = p.unl - half["unl"], !.vest = p.vest - half["vest"],
                            !.perm = p.perm - half["perm"], !.fee = p.fee - half["fee"]]
             qs == {y} \union IF t.own THEN {x} ELSE {}
  <2>1. d = V2!Change(c, p, qs)
    BY <1>2, <1>5 DEF V2!Effect, PosSet
  <2>2. /\ half["unl"] \in Nat /\ half["vest"] \in Nat /\ half["perm"] \in Nat
        /\ half["fee"] \in Nat /\ p.fee - half["fee"] \in Nat
        /\ p.unl - half["unl"] \in Nat /\ p.vest - half["vest"] \in Nat
        /\ p.perm - half["perm"] \in Nat
    <3>1. \A m \in Nat : m \div 2 \in Nat /\ m - (m \div 2) \in Nat
      OBVIOUS
    <3>2. ASSUME NEW name \in V2!Parts, p[name] \in Nat
          PROVE  half[name] \in Nat /\ p[name] - half[name] \in Nat
      <4> DEFINE all == p[name]
      <4>1. half[name] = IF name \in t.parts THEN all \div 2 ELSE 0
        BY <3>2 DEF V2!Half
      <4>2. all \in Nat
        BY <3>2
      <4> HIDE DEF half, all
      <4>3. half[name] \in Nat /\ all - half[name] \in Nat
        BY <3>1, <4>1, <4>2
      <4> QED BY <4>3 DEF all
    <3> HIDE DEF half, p
    <3> QED BY <1>2, <1>5, <3>2 DEF V2!Parts
  <2>3. t.new \in 1..n /\ NewKey(t) = t.new
    BY <1>5 DEF PosTx, NewKey
  <2> HIDE DEF half
  <2>4. x \in PosSet(n) /\ x.key = t.new
    BY <2>2, <2>3 DEF PosSet
  <2>5. y \in PosSet(n) /\ y.key = p.key
    <3> DEFINE a == p.unl - half["unl"]
               b == p.vest - half["vest"]
               e == p.perm - half["perm"]
               f == p.fee - half["fee"]
    <3>1. a \in Nat /\ b \in Nat /\ e \in Nat /\ f \in Nat
      BY <1>2, <1>5, <2>2
    <3>2. y = [p EXCEPT !.unl = a, !.vest = b, !.perm = e, !.fee = f]
      OBVIOUS
    <3> HIDE DEF a, b, e, f, y
    <3> QED BY Zenon, <1>2, <1>5, <3>1, <3>2 DEF PosSet
  <2>6. p.key \in V2!Keys(c) /\ t.new \notin V2!Keys(c)
    BY <1>1, <1>2, <1>5, <2>3
  <2> HIDE DEF x, y, p, d
  <2>7. /\ qs \in SUBSET PosSet(n) /\ \A q, r \in qs : q.key = r.key => q = r
        /\ \A q \in qs : q.key = p.key \/ (q.key = t.new /\ q.key \notin V2!Keys(c))
    BY <2>4, <2>5, <2>6
  <2>8. p \in c.pos
    BY <1>2, <1>5
  <2> HIDE DEF qs
  <2>9. LET e == V2!Change(c, p, qs)
        IN  e \in PosRecord(n) /\ V2!Keys(e) \subseteq V2!Keys(c) \union {t.new}
            /\ (OneByKey(c) => OneByKey(e))
    BY Zenon, <2>7, <2>8, PosChange
  <2> QED BY <2>1, <2>3, <2>9 DEF d
<1>6. ASSUME NEW b \in PosRecord(n), b.pos = c.pos, NEW q \in PosSet(n), q.key = p.key,
             d = V2!Change(b, p, {q}), t.kind \notin {"create", "split"}
      PROVE  /\ d \in PosRecord(n) /\ V2!Keys(d) \subseteq V2!Keys(c) \union {NewKey(t)}
             /\ OneByKey(c) => OneByKey(d)
  <2>1. p \in b.pos /\ V2!Keys(b) = V2!Keys(c) /\ OneByKey(b) = OneByKey(c)
    BY <1>2, <1>6 DEF V2!Keys, OneByKey
  <2> HIDE DEF d, p
  <2>2. {q} \in SUBSET PosSet(n) /\ \A r \in {q} : r.key = p.key
    BY <1>6
  <2> QED BY Zenon, <1>6, <2>1, <2>2, PosChange
<1>7. CASE t.kind = "add"
  <2> DEFINE tokens == c.tokens - 1
             unl == p.unl + 1
             b == [c EXCEPT !.tokens = tokens]
             q == [p EXCEPT !.unl = unl]
  <2>1. tokens \in Nat /\ unl \in Nat
    BY <1>2, <1>3, <1>7 DEF V2!Accepts
  <2>2. d = V2!Change(b, p, {q})
    BY <1>2, <1>7 DEF V2!Effect, PosSet, PosRecord
  <2> HIDE DEF tokens, unl, d
  <2>3. b \in PosRecord(n) /\ b.pos = c.pos
    BY <2>1 DEF PosRecord
  <2>4. q \in PosSet(n) /\ q.key = p.key
    BY <1>2, <1>7, <2>1 DEF PosSet
  <2> QED BY Zenon, <1>6, <1>7, <2>2, <2>3, <2>4 DEF d
<1>8. CASE t.kind = "remove"
  <2> DEFINE tokens == c.tokens + t.amount
             unl == (p.unl + (IF c.ripe THEN p.vest ELSE 0)) - t.amount
             vest == IF c.ripe THEN 0 ELSE p.vest
             b == [c EXCEPT !.tokens = tokens]
             q == [p EXCEPT !.unl = unl, !.vest = vest]
  <2>1. tokens \in Nat /\ unl \in Nat /\ vest \in Nat
    <3>1. t.amount \in Nat
      BY <1>8 DEF PosTx
    <3>2. t.amount <= p.unl + (IF c.ripe THEN p.vest ELSE 0)
      BY <1>8 DEF V2!Accepts
    <3> QED BY <1>2, <1>3, <1>8, <3>1, <3>2
  <2>2. d = V2!Change(b, p, {q})
    <3> DEFINE vests == [p EXCEPT !.unl = unl, !.vest = IF c.ripe THEN 0 ELSE @]
    <3>1. d = V2!Change([c EXCEPT !.tokens = @ + t.amount], p, {vests})
      <4>1. d = LET r   == V2!Pos(c, t.key)
                    all == r.unl + (IF c.ripe THEN r.vest ELSE 0)
                IN  V2!Change([c EXCEPT !.tokens = @ + t.amount], r,
                       {[r EXCEPT !.unl = all - t.amount, !.vest = IF c.ripe THEN 0 ELSE @]})
        BY <1>8 DEF V2!Effect
      <4> QED BY <4>1
    <3>2. vests = q
      BY <1>2, <1>8 DEF PosSet
    <3>3. [c EXCEPT !.tokens = @ + t.amount] = b
      BY DEF PosRecord
    <3> HIDE DEF vests, b, q, d
    <3> QED BY <3>1, <3>2, <3>3
  <2> HIDE DEF tokens, unl, vest, d
  <2>3. b \in PosRecord(n) /\ b.pos = c.pos
    BY <2>1 DEF PosRecord
  <2>4. q \in PosSet(n) /\ q.key = p.key
    BY Zenon, <1>2, <1>8, <2>1 DEF PosSet
  <2> QED BY Zenon, <1>6, <1>8, <2>2, <2>3, <2>4 DEF d
<1>9. CASE t.kind = "claim"
  <2> DEFINE zero == 0
             q == [p EXCEPT !.fee = zero]
  <2>1. d = V2!Change(c, p, {q})
    BY <1>9 DEF V2!Effect
  <2>2. zero \in Nat
    OBVIOUS
  <2> HIDE DEF zero, d
  <2>3. q \in PosSet(n) /\ q.key = p.key
    BY <1>2, <1>9, <2>2 DEF PosSet
  <2> QED BY Zenon, <1>6, <1>9, <2>1, <2>3 DEF d
<1>10. CASE t.kind = "refresh"
  <2> DEFINE unl == p.unl + p.vest
             zero == 0
             q == IF c.ripe THEN [p EXCEPT !.unl = unl, !.vest = zero] ELSE p
  <2>1. d = V2!Change(c, p, {q})
    BY <1>2, <1>10 DEF V2!Effect, PosSet
  <2>2. unl \in Nat /\ zero \in Nat
    BY <1>2, <1>10
  <2> HIDE DEF unl, zero, d
  <2>3. q \in PosSet(n) /\ q.key = p.key
    BY Zenon, <1>2, <1>10, <2>2 DEF PosSet
  <2> QED BY Zenon, <1>6, <1>10, <2>1, <2>3 DEF d
<1>11. CASE t.kind = "close"
  <2>1. d = V2!Change(c, p, {})
    BY <1>11 DEF V2!Effect
  <2> HIDE DEF d, p
  <2>2. p \in c.pos /\ {} \in SUBSET PosSet(n)
    BY <1>2, <1>11 DEF p
  <2>3. LET e == V2!Change(c, p, {})
        IN  e \in PosRecord(n) /\ V2!Keys(e) \subseteq V2!Keys(c) \union {0}
            /\ (OneByKey(c) => OneByKey(e))
    BY Zenon, <2>2, PosChange
  <2> QED BY <1>11, <2>1, <2>3 DEF d, NewKey
<1> QED BY <1>4, <1>5, <1>7, <1>8, <1>9, <1>10, <1>11 DEF PosTx

\* The steps of Submission, of DAMM v2 position commands.
LEMMA PosSteps ==
    ASSUME V2!S!Step
    PROVE  Steps(V2!Accepts, V2!Effect, V2!Resumes, V2!Forgives)
BY DEF V2!S!Step, V2!S!Land, V2!S!Simulate, V2!S!Forgive, V2!S!Refuse, V2!S!Lose,
       V2!S!Unready, V2!S!LandsLate, V2!S!Expires, V2!S!Command, V2!S!After,
       V2!S!Forgiven, V2!S!Busy, Steps, Takes, Stops, Commanded, Late

\* Nobody else makes a position under the key of one.
PosFresh ==
    /\ OneByKey(chain)
    /\ \A l \in late : NewKey(l.tx) \notin V2!Keys(chain)
    /\ \A l, m \in late : NewKey(l.tx) = NewKey(m.tx) => l = m \/ NewKey(l.tx) = 0
    /\ \A i \in DOMAIN queue : NewKey(queue[i]) # 0 =>
          /\ Len(queue) = 1 /\ NewKey(queue[i]) \notin V2!Keys(chain)
          /\ \A l \in late : NewKey(l.tx) # NewKey(queue[i])

PosExcept ==
    \/ cmd.op = "create" /\ cmd.arg.exists
    \/ cmd.op = "split" /\ cmd.arg.void
    \/ cmd.op = "add" /\ cmd.arg.short
    \/ cmd.op = "remove" /\ cmd.arg.unripe

\* Of a command that is alone: what it sends is accepted; after a removal the fees of the
\* position are claimed, and it is closed, only when nothing is left in it.
PosAlone ==
    \/ Len(queue) = 1 /\ (PosExcept \/ V2!Accepts(chain, Head(queue)))
    \/ /\ cmd.op = "removed" /\ ~cmd.dry /\ Len(queue) = 2
       /\ queue[1] = [kind |-> "claim", key |-> cmd.arg.key]
       /\ queue[2] = [kind |-> "close", key |-> cmd.arg.key]
       /\ cmd.arg.key \in V2!Keys(chain) /\ V2!Empty(V2!Pos(chain, cmd.arg.key))

PosLeft == ~V2!Empty(V2!Pos(chain, cmd.arg.key))

PosLone ==
    /\ status = "running" => cmd.moved \/ PosAlone
    /\ status = "running" /\ cmd.op = "remove" => cmd.moved \/ PosLeft
    /\ status = "resumed" /\ cmd.op = "remove" => cmd.moved \/ ~cmd.dry \/ PosLeft
    /\ status \in {"running", "resumed"} /\ cmd.op = "remove" => cmd.arg.key \in Int
    /\ status = "refused" => cmd.moved \/ PosExcept

PosInv == Typed(PosTx(cmd.n), PosRecord(cmd.n)) /\ PosFresh /\ PosLone

\* It holds before the first command.
LEMMA PosInit == ASSUME V2!Init PROVE PosInv
<1>1. chain = [pool |-> FALSE, pos |-> {}, price |-> 0, ripe |-> FALSE, tokens |-> LpTokens]
      /\ cmd = V2!S!NoCommand /\ queue = <<>> /\ late = {} /\ status = "idle"
  BY DEF V2!Init, V2!S!Begin
<1>2. chain \in PosRecord(0) /\ cmd.n = 0
  BY <1>1, PositionAssumption DEF PosRecord, V2!S!NoCommand
<1> QED BY <1>1, <1>2 DEF V2!S!NoCommand, PosInv, Typed, CmdInv, PosFresh, OneByKey, PosLone

\* Another run has another key.
LEMMA PosGrows ==
    ASSUME NEW n \in Nat
    PROVE  /\ PosTx(n) \subseteq PosTx(n + 1) /\ PosRecord(n) \subseteq PosRecord(n + 1)
           /\ Typed(PosTx(n), PosRecord(n)) => Typed(PosTx(n + 1), PosRecord(n + 1))
           /\ Typed(PosTx(n), PosRecord(n))' => Typed(PosTx(n + 1), PosRecord(n + 1))'
<1>1. 1..n \subseteq 1..(n + 1)
  OBVIOUS
<1>2. PosTx(n) \subseteq PosTx(n + 1)
  BY <1>1 DEF PosTx
<1>3. PosSet(n) \subseteq PosSet(n + 1)
  BY <1>1 DEF PosSet
<1>4. PosRecord(n) \subseteq PosRecord(n + 1)
  BY <1>3 DEF PosRecord
<1> QED BY <1>2, <1>4, TypedGrows

\* The key of the next run is new, and 0 is none.
LEMMA PosKeys ==
    ASSUME NEW n \in Nat, NEW c \in PosRecord(n)
    PROVE  V2!Keys(c) \subseteq 1..n /\ 0 \notin V2!Keys(c) /\ n + 1 \notin V2!Keys(c)
<1>1. \A p \in c.pos : p.key \in 1..n
  BY DEF PosRecord, PosSet
<1> QED BY <1>1 DEF V2!Keys

\* The keys stay new whatever a step of Submission does.
LEMMA PosSteps2 ==
    ASSUME NEW n \in Nat, Typed(PosTx(n), PosRecord(n)), PosFresh,
           Steps(V2!Accepts, V2!Effect, V2!Resumes, V2!Forgives)
    PROVE  Typed(PosTx(n), PosRecord(n))' /\ PosFresh'
<1>1. /\ queue \in Seq(PosTx(n)) /\ chain \in PosRecord(n) /\ \A l \in late : l.tx \in PosTx(n)
      /\ 0 \notin V2!Keys(chain)
  BY PosKeys DEF Typed
<1>2. status = "running" => /\ queue # <<>> /\ Head(queue) \in PosTx(n)
                            /\ Head(queue) = queue[1] /\ 1 \in DOMAIN queue
                            /\ NewKey(Head(queue)) \notin V2!Keys(chain)
  BY <1>1, TypedHead, QueueRest DEF Typed, PosFresh
<1>3. CASE /\ V2!Accepts(chain, Head(queue)) /\ ~cmd.dry
           /\ chain' = V2!Effect(chain, Head(queue)) /\ Takes(V2!Resumes)
  <2> DEFINE k == NewKey(Head(queue))
  <2>1. /\ chain' \in PosRecord(n) /\ V2!Keys(chain') \subseteq V2!Keys(chain) \union {k}
        /\ OneByKey(chain') /\ queue' = Tail(queue) /\ late' = late
    BY <1>1, <1>2, <1>3, PosLands DEF Takes, PosFresh
  <2>2. \A l \in late : NewKey(l.tx) = k => k = 0
    BY <1>2, <1>3 DEF PosFresh, Takes
  <2>3. 0 \notin V2!Keys(chain')
    BY <2>1, PosKeys
  <2>4. \A l \in late : NewKey(l.tx) \notin V2!Keys(chain')
    BY <2>1, <2>2, <2>3 DEF PosFresh
  <2>5. \A i \in DOMAIN Tail(queue) : NewKey(Tail(queue)[i]) = 0
    <3>1. \A i \in DOMAIN Tail(queue) : /\ Tail(queue)[i] = queue[i + 1]
                                        /\ i + 1 \in DOMAIN queue /\ i \in Nat \ {0}
      BY <1>1, <1>2, <1>3, QueueRest DEF Takes
    <3>2. DOMAIN queue = 1..Len(queue) /\ Len(queue) \in Nat
      BY <1>1
    <3> QED BY <3>1, <3>2 DEF PosFresh
  <2>6. Typed(PosTx(n), PosRecord(n))'
    BY <1>3, <2>1, TypedTakes
  <2> QED BY <2>1, <2>4, <2>5, <2>6 DEF PosFresh
<1>4. CASE cmd.dry /\ chain' = chain /\ Takes(V2!Resumes)
  <2>1. Typed(PosTx(n), PosRecord(n))' /\ queue' = Tail(queue) /\ late' = late
    BY Zenon, <1>1, <1>4, TypedTakes DEF Takes
  <2>2. \A i \in DOMAIN Tail(queue) : NewKey(Tail(queue)[i]) = 0
    <3>1. \A i \in DOMAIN Tail(queue) : /\ Tail(queue)[i] = queue[i + 1]
                                        /\ i + 1 \in DOMAIN queue /\ i \in Nat \ {0}
      BY <1>1, <1>2, <1>4, QueueRest DEF Takes
    <3>2. DOMAIN queue = 1..Len(queue) /\ Len(queue) \in Nat
      BY <1>1
    <3> QED BY <3>1, <3>2 DEF PosFresh
  <2> QED BY <1>4, <2>1, <2>2 DEF PosFresh
<1>5. CASE Stops(V2!Accepts(chain, Head(queue)), V2!Forgives)
  <2>1. Typed(PosTx(n), PosRecord(n))' /\ queue' = <<>> /\ chain' = chain /\ status = "running"
    BY <1>5, TypedStops DEF Stops
  <2>2. CASE late' = late
    BY <2>1, <2>2 DEF PosFresh
  <2>3. CASE late' = late \union {[tx |-> Head(queue), run |-> cmd.n]}
    <3> DEFINE x == [tx |-> Head(queue), run |-> cmd.n]
    <3>1. NewKey(x.tx) \notin V2!Keys(chain)
          /\ \A l \in late : NewKey(l.tx) = NewKey(x.tx) => NewKey(l.tx) = 0
      BY <1>2, <2>1 DEF PosFresh
    <3> HIDE DEF x
    <3> QED BY <2>1, <2>3, <3>1 DEF PosFresh, x
  <2> QED BY <1>5, <2>2, <2>3 DEF Stops
<1>6. CASE Commanded("unready", "none", FALSE, <<>>)
  <2>1. Typed(PosTx(n), PosRecord(n))' /\ queue' = <<>> /\ chain' = chain /\ late' = late
    BY Zenon, <1>6, TypedCommanded DEF Commanded
  <2> QED BY <2>1 DEF PosFresh
<1>7. ASSUME NEW l \in late, V2!Accepts(chain, l.tx), chain' = V2!Effect(chain, l.tx),
             cmd' = [cmd EXCEPT !.moved = TRUE], Late(l)
      PROVE  Typed(PosTx(n), PosRecord(n))' /\ PosFresh'
  <2> DEFINE k == NewKey(l.tx)
  <2>1. k \notin V2!Keys(chain) /\ l.tx \in PosTx(n)
    BY <1>1 DEF PosFresh
  <2>2. /\ chain' \in PosRecord(n) /\ V2!Keys(chain') \subseteq V2!Keys(chain) \union {k}
        /\ OneByKey(chain') /\ queue' = queue /\ late' = late \ {l}
    BY <1>1, <1>7, <2>1, PosLands DEF Late, PosFresh
  <2>3. Typed(PosTx(n), PosRecord(n))'
    BY <1>7, <2>2, TypedLate
  <2>4. 0 \notin V2!Keys(chain')
    BY <2>2, PosKeys
  <2>5. \A m \in late' : NewKey(m.tx) \notin V2!Keys(chain')
    BY <2>2, <2>4 DEF PosFresh
  <2>6. \A i \in DOMAIN queue : NewKey(queue[i]) # 0 => NewKey(queue[i]) \notin V2!Keys(chain')
    BY <2>2 DEF PosFresh
  <2> QED BY <2>2, <2>3, <2>5, <2>6 DEF PosFresh
<1>8. ASSUME NEW l \in late, Late(l), UNCHANGED <<chain, cmd>>
      PROVE  Typed(PosTx(n), PosRecord(n))' /\ PosFresh'
  <2>1. Typed(PosTx(n), PosRecord(n))'
    BY <1>1, <1>8, TypedLate
  <2> QED BY <1>8, <2>1 DEF PosFresh, Late
<1> QED BY Zenon, <1>3, <1>4, <1>5, <1>6, <1>7, <1>8 DEF Steps

\* A position gets another state under its key.
LEMMA PosReplace ==
    ASSUME NEW n \in Nat, NEW c \in PosRecord(n), OneByKey(c), NEW p \in c.pos,
           NEW q \in PosSet(n), q.key = p.key
    PROVE  LET d == V2!Change(c, p, {q})
           IN  /\ d \in PosRecord(n) /\ OneByKey(d) /\ d.pos = (c.pos \ {p}) \union {q}
               /\ V2!Keys(d) = V2!Keys(c)
<1> DEFINE ps == (c.pos \ {p}) \union {q}
           d == V2!Change(c, p, {q})
<1>1. d = [c EXCEPT !.pos = ps] /\ c.pos \subseteq PosSet(n)
  BY DEF V2!Change, PosRecord
<1>2. ps \in SUBSET PosSet(n)
  BY <1>1
<1>3. \A r, s \in ps : r.key = s.key => r = s
  BY DEF OneByKey
<1> HIDE DEF ps, d
<1>4. d \in PosRecord(n) /\ d.pos = ps
  BY <1>1, <1>2 DEF PosRecord
<1>5. OneByKey(d) /\ V2!Keys(d) = V2!Keys(c)
  BY <1>3, <1>4 DEF V2!Keys, OneByKey, ps
<1> QED BY <1>4, <1>5 DEF d, ps

\* After the fees of an empty position are claimed it can be closed.
LEMMA PosClaimed ==
    ASSUME NEW n \in Nat, NEW c \in PosRecord(n), OneByKey(c), NEW k \in V2!Keys(c),
           V2!Empty(V2!Pos(c, k))
    PROVE  V2!Accepts(V2!Effect(c, [kind |-> "claim", key |-> k]), [kind |-> "close", key |-> k])
<1> DEFINE p == V2!Pos(c, k)
           zero == 0
           q == [p EXCEPT !.fee = zero]
           d == V2!Change(c, p, {q})
<1>1. V2!Effect(c, [kind |-> "claim", key |-> k]) = d
  BY DEF V2!Effect
<1>2. p \in c.pos /\ p \in PosSet(n) /\ p.key = k /\ p.unl = 0 /\ p.vest = 0 /\ p.perm = 0
  BY PosOf DEF V2!Empty
<1> HIDE DEF p, zero
<1>3. q \in PosSet(n) /\ q.key = k /\ q.unl = 0 /\ q.vest = 0 /\ q.perm = 0 /\ q.fee = zero
  BY <1>2 DEF PosSet, zero
<1> HIDE DEF q
<1>5. d \in PosRecord(n) /\ OneByKey(d) /\ d.pos = (c.pos \ {p}) \union {q}
  BY <1>2, <1>3, PosReplace
<1> HIDE DEF d
<1>6. k \in V2!Keys(d)
  BY <1>3, <1>5 DEF V2!Keys
<1>7. V2!Pos(d, k) = q
  BY <1>3, <1>5, <1>6, PosOf
<1> QED BY <1>1, <1>3, <1>6, <1>7 DEF V2!Accepts, V2!Empty, zero

\* After the first transaction the rest of the command is still accepted; a removal that is
\* sent and leaves something in the position does not go on to close it.
LEMMA PosTakes ==
    ASSUME NEW n \in Nat, Typed(PosTx(n), PosRecord(n)), OneByKey(chain), PosLone,
           Takes(V2!Resumes),
           \/ cmd.dry /\ chain' = chain
           \/ /\ ~cmd.dry /\ V2!Accepts(chain, Head(queue))
              /\ chain' = V2!Effect(chain, Head(queue))
    PROVE  PosLone'
<1>1. /\ queue \in Seq(PosTx(n)) /\ queue # <<>> /\ queue' = Tail(queue) /\ cmd' = cmd
      /\ status = "running" /\ chain \in PosRecord(n)
      /\ status' = IF Len(queue) > 1 THEN "running"
                   ELSE IF cmd.op \in {"add", "remove"} THEN "resumed" ELSE "ok"
  BY DEF Typed, Takes, V2!Resumes
<1>2. CASE cmd.moved
  BY <1>1, <1>2 DEF PosLone
<1>3. CASE ~cmd.moved /\ Len(queue) > 1
  <2>1. /\ cmd.op = "removed" /\ ~cmd.dry /\ Len(queue) = 2
        /\ queue[1] = [kind |-> "claim", key |-> cmd.arg.key]
        /\ queue[2] = [kind |-> "close", key |-> cmd.arg.key]
        /\ cmd.arg.key \in V2!Keys(chain) /\ V2!Empty(V2!Pos(chain, cmd.arg.key))
    BY <1>1, <1>3 DEF PosLone, PosAlone
  <2>2. Len(queue') = 1 /\ Head(queue') = queue[2] /\ Head(queue) = queue[1]
    BY <1>1, <2>1
  <2>3. V2!Accepts(chain', Head(queue'))
    BY <1>1, <2>1, <2>2, PosClaimed
  <2>4. PosAlone'
    BY <2>2, <2>3 DEF PosAlone
  <2> QED BY <1>1, <1>3, <2>1, <2>4 DEF PosLone
<1>4. CASE ~cmd.moved /\ ~(Len(queue) > 1)
  BY <1>1, <1>4 DEF PosLone, PosLeft
<1> QED BY <1>2, <1>3, <1>4

\* A transaction that is refused met a chain that was moved, or was left to the program.
LEMMA PosStops ==
    ASSUME NEW n \in Nat, Typed(PosTx(n), PosRecord(n)), PosLone,
           Stops(V2!Accepts(chain, Head(queue)), V2!Forgives)
    PROVE  PosLone'
<1>1. /\ queue \in Seq(PosTx(n)) /\ queue # <<>> /\ cmd' = cmd /\ chain' = chain
      /\ status = "running"
      /\ status' = "lost" \/ (status' = "refused" /\ ~V2!Accepts(chain, Head(queue)))
  BY DEF Typed, Stops
<1>2. PosAlone => PosExcept \/ V2!Accepts(chain, Head(queue))
  <2>1. queue[1] = Head(queue)
    BY <1>1, QueueRest
  <2>2. \A k \in V2!Keys(chain) : V2!Accepts(chain, [kind |-> "claim", key |-> k])
    BY DEF V2!Accepts
  <2> QED BY <2>1, <2>2 DEF PosAlone
<1> QED BY <1>1, <1>2 DEF PosLone, PosExcept

\* Every DAMM v2 position command and every step of others keeps it.
LEMMA PosStep == ASSUME PosInv, V2!Next PROVE PosInv'
<1>1. PICK n \in Nat : n = cmd.n
  BY DEF PosInv, Typed, CmdInv
<1>2. /\ Typed(PosTx(n), PosRecord(n)) /\ PosFresh /\ PosLone /\ chain \in PosRecord(n)
      /\ Typed(PosTx(n + 1), PosRecord(n + 1)) /\ CmdInv /\ n + 1 \in Nat
      /\ V2!Keys(chain) \subseteq 1..n /\ n + 1 \notin V2!Keys(chain)
  BY SMTT(30), <1>1, PosGrows, PosKeys DEF PosInv, Typed
<1>3. ASSUME Typed(PosTx(n), PosRecord(n))', cmd'.n \in {n, n + 1}, PosFresh', PosLone'
      PROVE  PosInv'
  BY <1>3, PosGrows DEF PosInv
<1>4. ASSUME Typed(PosTx(n + 1), PosRecord(n + 1))', cmd'.n = n + 1, PosFresh', PosLone'
      PROVE  PosInv'
  BY <1>4 DEF PosInv
<1>5. CASE V2!S!Step
  <2>1. Steps(V2!Accepts, V2!Effect, V2!Resumes, V2!Forgives)
    BY <1>5, PosSteps
  <2>2. Typed(PosTx(n), PosRecord(n))' /\ PosFresh'
    BY <1>2, <2>1, PosSteps2
  <2>3. cmd'.n \in {n, n + 1}
    BY <1>1, <1>2, <2>1 DEF Steps, Takes, Stops, Commanded, Late, CmdInv
  <2>4. CASE Commanded("unready", "none", FALSE, <<>>)
    BY <1>2, <1>3, <2>2, <2>3, <2>4 DEF Commanded, PosLone
  <2>5. CASE \E l \in late : Late(l) /\ (cmd' = [cmd EXCEPT !.moved = TRUE]
                                        \/ UNCHANGED <<chain, cmd>>)
    BY <1>2, <1>3, <2>2, <2>3, <2>5 DEF Late, PosLone, PosAlone, PosExcept, PosLeft, CmdInv
  <2>6. CASE Takes(V2!Resumes) /\ (\/ cmd.dry /\ chain' = chain
                                  \/ /\ ~cmd.dry /\ V2!Accepts(chain, Head(queue))
                                     /\ chain' = V2!Effect(chain, Head(queue)))
    BY <1>2, <1>3, <2>2, <2>3, <2>6, PosTakes DEF PosFresh
  <2>7. CASE Stops(V2!Accepts(chain, Head(queue)), V2!Forgives)
    BY <1>2, <1>3, <2>2, <2>3, <2>7, PosStops
  <2> QED BY Zenon, <2>1, <2>4, <2>5, <2>6, <2>7 DEF Steps
<1>6. ASSUME NEW c \in PosRecord(n), V2!Keys(c) = V2!Keys(chain), OneByKey(c), Moved(c)
      PROVE  PosInv'
  <2>1. Typed(PosTx(n), PosRecord(n))' /\ cmd'.moved /\ cmd'.n = n /\ cmd'.op = cmd.op
        /\ cmd'.arg = cmd.arg
    BY <1>1, <1>2, <1>6, TypedMoved DEF Moved, CmdInv
  <2>2. PosFresh' /\ PosLone'
    BY <1>2, <1>6, <2>1 DEF PosFresh, PosLone, Moved
  <2> QED BY <1>3, <2>1, <2>2
<1>7. CASE V2!PriceMoves \/ V2!Ripens
  <2> DEFINE price == chain.price + 1
             ripe == TRUE
  <2>1. Moved([chain EXCEPT !.price = price]) \/ Moved([chain EXCEPT !.ripe = ripe])
    BY <1>7 DEF V2!PriceMoves, V2!Ripens, V2!S!World, Moved
  <2>2. price \in Int /\ ripe \in BOOLEAN
    BY <1>2 DEF PosRecord
  <2> HIDE DEF price, ripe
  <2>3. /\ [chain EXCEPT !.price = price] \in PosRecord(n)
        /\ [chain EXCEPT !.price = price].pos = chain.pos
    BY <1>2, <2>2 DEF PosRecord
  <2>4. /\ [chain EXCEPT !.ripe = ripe] \in PosRecord(n)
        /\ [chain EXCEPT !.ripe = ripe].pos = chain.pos
    BY <1>2, <2>2 DEF PosRecord
  <2>5. OneByKey(chain)
    BY <1>2 DEF PosFresh
  <2> QED BY Zenon, <1>6, <2>1, <2>3, <2>4, <2>5 DEF V2!Keys, OneByKey
<1>8. CASE V2!FeesAccrue
  <2>1. PICK p \in chain.pos : Moved(V2!Change(chain, p, {[p EXCEPT !.fee = 2]}))
    BY Zenon, <1>8 DEF V2!FeesAccrue, V2!S!World, Moved
  <2> DEFINE two == 2
             q == [p EXCEPT !.fee = two]
  <2>2. two \in Nat /\ p \in PosSet(n)
    BY <1>2 DEF PosRecord
  <2>3. Moved(V2!Change(chain, p, {q}))
    BY <2>1
  <2> HIDE DEF two
  <2>4. q \in PosSet(n) /\ q.key = p.key
    BY <2>2 DEF PosSet
  <2> HIDE DEF q
  <2> DEFINE c == V2!Change(chain, p, {q})
  <2>5. c \in PosRecord(n) /\ OneByKey(c) /\ V2!Keys(c) = V2!Keys(chain)
    BY <1>2, <2>4, PosReplace DEF PosFresh
  <2> HIDE DEF c
  <2> QED BY <1>6, <2>3, <2>5 DEF c
<1>9. ASSUME NEW op, NEW arg, NEW ok, NEW t, NEW txs \in {<<>>, <<t>>}, Commanded(op, arg, ok,
   txs),
             op = "remove" => arg.key \in Int,
             op = "remove" /\ ok /\ txs # <<>> => ~V2!Empty(V2!Pos(chain, arg.key)),
             ok /\ txs # <<>> =>
                /\ t \in PosTx(n + 1) /\ NewKey(t) \in {0, n + 1}
                /\ \/ V2!Accepts(chain, t)
                   \/ op = "create" /\ arg.exists
                   \/ op = "split" /\ arg.void
                   \/ op = "add" /\ arg.short
                   \/ op = "remove" /\ arg.unripe
      PROVE  PosInv'
  <2>1. ok => txs \in Seq(PosTx(n + 1))
    <3>1. CASE txs = <<>>
      BY <3>1
    <3>2. CASE ok /\ txs # <<>>
      <4>1. t \in PosTx(n + 1) /\ txs = <<t>>
        BY <1>9, <3>2
      <4> QED BY <4>1
    <3> QED BY <3>1, <3>2
  <2>2. Typed(PosTx(n + 1), PosRecord(n + 1))'
    BY <1>2, <1>9, <2>1, TypedCommanded
  <2>3. /\ cmd'.op = op /\ cmd'.arg = arg /\ cmd'.n = n + 1 /\ chain' = chain /\ late' = late
        /\ status' \in {"threw", "running", "ok"}
        /\ status' = "running" => ok /\ txs # <<>> /\ txs = <<t>> /\ queue' = txs
        /\ status' # "running" => queue' = <<>>
    BY <1>1, <1>9 DEF Commanded
  <2>4. status' = "running" => Len(queue') = 1 /\ Head(queue') = t /\ queue'[1] = t
                               /\ DOMAIN queue' = {1}
    BY <2>3
  <2>5. \A l \in late : NewKey(l.tx) # n + 1
    <3>1. \A l \in late : l.tx \in PosTx(n)
      BY <1>2 DEF Typed
    <3>2. \A x \in PosTx(n) : NewKey(x) \in 0..n
      BY DEF PosTx, NewKey
    <3> QED BY <3>1, <3>2
  <2>6. PosFresh'
    <3>1. CASE status' # "running"
      BY <1>2, <2>3, <3>1 DEF PosFresh
    <3>2. CASE status' = "running"
      <4>1. NewKey(t) # 0 => NewKey(t) \notin V2!Keys(chain)
                             /\ \A l \in late : NewKey(l.tx) # NewKey(t)
        BY <1>2, <1>9, <2>3, <2>5, <3>2
      <4> QED BY <1>2, <2>3, <2>4, <3>2, <4>1 DEF PosFresh
    <3> QED BY <3>1, <3>2
  <2>7. PosLone'
    BY <1>9, <2>3, <2>4 DEF PosLone, PosAlone, PosExcept, PosLeft
  <2> QED BY <1>4, <2>2, <2>3, <2>6, <2>7
<1>10. ASSUME NEW ok, NEW d \in Deposits, V2!CreatePool(ok, d) PROVE PosInv'
  <2> DEFINE t == [kind |-> "create", key |-> n + 1, d |-> d]
             arg == [exists |-> chain.pool]
             txs == <<t>>
  <2>1. Commanded("create", arg, ok, txs)
    BY Zenon, <1>1, <1>10 DEF V2!CreatePool, V2!S!Command, V2!S!Busy, Commanded
  <2>2. t \in PosTx(n + 1) /\ NewKey(t) = n + 1 /\ (V2!Accepts(chain, t) \/ arg.exists)
    BY DEF PosTx, NewKey, V2!Accepts
  <2>3. txs \in {<<>>, <<t>>}
    OBVIOUS
  <2> HIDE DEF t, arg, txs
  <2> QED BY Zenon, <1>9, <2>1, <2>2, <2>3
<1>11. ASSUME NEW k \in 1..MaxRuns, NEW parts \in SplitParts, NEW own \in BOOLEAN,
              V2!SplitPosition(k, parts, own)
       PROVE  PosInv'
  <2> DEFINE t == [kind |-> "split", key |-> k, new |-> n + 1, parts |-> parts, own |-> own]
             void == k \in V2!Keys(chain) /\ \A name \in parts \ {"fee"} :
                        V2!Half(parts, name, V2!Pos(chain, k)[name]) = 0
             arg == [void |-> void]
             txs == IF k \in V2!Keys(chain) THEN <<t>> ELSE <<>>
             ok == chain.pool /\ TRUE
  <2>1. Commanded("split", arg, ok, txs)
    BY Zenon, <1>1, <1>11 DEF V2!SplitPosition, V2!OnPosition, V2!S!Command, V2!S!Busy,
       Commanded
  <2>2. t \in PosTx(n + 1) /\ NewKey(t) = n + 1
    BY BoundAssumption DEF PosTx, NewKey
  <2>3. ASSUME k \in V2!Keys(chain), ~void PROVE V2!Accepts(chain, t)
    <3>1. PICK name \in parts \ {"fee"} : V2!Half(parts, name, V2!Pos(chain, k)[name]) # 0
      BY <2>3
    <3>2. V2!Half(parts, name, V2!Pos(chain, k)[name]) > 0
      <4>1. name \in {"unl", "vest", "perm"}
        BY PositionAssumption
      <4>2. V2!Pos(chain, k)[name] \in Nat
        BY <1>2, <2>3, <4>1, PosOf DEF PosSet
      <4> QED BY <3>1, <4>2 DEF V2!Half
    <3> QED BY <2>3, <3>2 DEF V2!Accepts
  <2>4. txs \in {<<>>, <<t>>} /\ (txs # <<>> => k \in V2!Keys(chain))
    OBVIOUS
  <2>5. arg.void = void
    OBVIOUS
  <2> HIDE DEF t, arg, txs, ok, void
  <2> QED BY Zenon, <1>9, <2>1, <2>2, <2>3, <2>4, <2>5
<1>12. ASSUME NEW k \in 1..MaxRuns, V2!ClaimPositionFee(k) PROVE PosInv'
  <2> DEFINE t == [kind |-> "claim", key |-> k]
             txs == IF k \in V2!Keys(chain) THEN <<t>> ELSE <<>>
             ok == chain.pool /\ TRUE
  <2>1. Commanded("claim", "none", ok, txs)
    BY Zenon, <1>1, <1>12 DEF V2!ClaimPositionFee, V2!OnPosition, V2!S!Command, V2!S!Busy,
       Commanded
  <2>2. t \in PosTx(n + 1) /\ NewKey(t) = 0
    BY BoundAssumption DEF PosTx, NewKey
  <2>3. txs # <<>> => V2!Accepts(chain, t)
    BY DEF V2!Accepts
  <2>4. txs \in {<<>>, <<t>>}
    OBVIOUS
  <2> HIDE DEF t, txs, ok
  <2> QED BY Zenon, <1>9, <2>1, <2>2, <2>3, <2>4
<1>13. ASSUME NEW k \in 1..MaxRuns, V2!RefreshVesting(k) PROVE PosInv'
  <2> DEFINE t == [kind |-> "refresh", key |-> k]
             due == k \in V2!Keys(chain) /\ V2!Pos(chain, k).vest > 0
             txs == IF k \in V2!Keys(chain) THEN (IF due THEN <<t>> ELSE <<>>) ELSE <<>>
             ok == chain.pool /\ TRUE
  <2>1. Commanded("refresh", "none", ok, txs)
    BY Zenon, <1>1, <1>13 DEF V2!RefreshVesting, V2!OnPosition, V2!S!Command, V2!S!Busy,
       Commanded
  <2>2. t \in PosTx(n + 1) /\ NewKey(t) = 0
    BY BoundAssumption DEF PosTx, NewKey
  <2>3. txs # <<>> => V2!Accepts(chain, t)
    BY DEF V2!Accepts
  <2>4. txs \in {<<>>, <<t>>}
    OBVIOUS
  <2> HIDE DEF t, txs, ok
  <2> QED BY Zenon, <1>9, <2>1, <2>2, <2>3, <2>4
<1>14. ASSUME NEW k \in 1..MaxRuns, V2!AddLiquidity(k) PROVE PosInv'
  <2> DEFINE t == [kind |-> "add", key |-> k, price |-> chain.price]
             arg == [short |-> chain.tokens = 0]
             txs == IF k \in V2!Keys(chain) THEN <<t>> ELSE <<>>
             ok == chain.pool /\ TRUE
  <2>1. Commanded("add", arg, ok, txs)
    BY Zenon, <1>1, <1>14 DEF V2!AddLiquidity, V2!OnPosition, V2!S!Command, V2!S!Busy, Commanded
  <2>2. t \in PosTx(n + 1) /\ NewKey(t) = 0
    BY <1>2, BoundAssumption DEF PosTx, NewKey, PosRecord
  <2>3. txs # <<>> => V2!Accepts(chain, t) \/ arg.short
    <3>1. chain.tokens \in Nat
      BY <1>2 DEF PosRecord
    <3>2. V2!Accepts(chain, t) <=> (k \in V2!Keys(chain) /\ chain.tokens > 0)
      BY DEF V2!Accepts
    <3>3. arg.short <=> (chain.tokens = 0)
      BY Zenon
    <3>4. txs # <<>> => k \in V2!Keys(chain)
      OBVIOUS
    <3> HIDE DEF t, txs, arg
    <3> QED BY <3>1, <3>2, <3>3, <3>4
  <2>4. txs \in {<<>>, <<t>>}
    OBVIOUS
  <2> HIDE DEF t, arg, txs, ok
  <2> QED BY Zenon, <1>9, <2>1, <2>2, <2>3, <2>4
<1>15. ASSUME NEW k \in 1..MaxRuns, V2!ClosePosition(k) PROVE PosInv'
  <2> DEFINE t == [kind |-> "close", key |-> k]
             due == /\ k \in V2!Keys(chain) /\ V2!Empty(V2!Pos(chain, k))
                    /\ V2!Pos(chain, k).fee = 0
             txs == IF k \in V2!Keys(chain) THEN (IF due THEN <<t>> ELSE <<>>) ELSE <<>>
             ok == chain.pool /\ TRUE
  <2>1. Commanded("close", "none", ok, txs)
    BY Zenon, <1>1, <1>15 DEF V2!ClosePosition, V2!OnPosition, V2!S!Command, V2!S!Busy,
       Commanded
  <2>2. t \in PosTx(n + 1) /\ NewKey(t) = 0
    BY BoundAssumption DEF PosTx, NewKey
  <2>3. txs # <<>> => V2!Accepts(chain, t)
    BY DEF V2!Accepts
  <2>4. txs \in {<<>>, <<t>>}
    OBVIOUS
  <2> HIDE DEF t, txs, ok
  <2> QED BY Zenon, <1>9, <2>1, <2>2, <2>3, <2>4
<1>16. ASSUME NEW k \in 1..MaxRuns, NEW configured \in BOOLEAN,
              V2!RemoveLiquidity(k, configured)
       PROVE  PosInv'
  <2> DEFINE r == V2!Removable(k)
             t == [kind |-> "remove", key |-> k, amount |-> r, price |-> chain.price]
             arg == [key |-> k, some |-> k \in V2!Keys(chain) /\ r > 0,
                     unripe |-> k \in V2!Keys(chain) /\ ~chain.ripe
                                /\ V2!Pos(chain, k).vest > 0]
             due == k \in V2!Keys(chain) /\ r > 0
             txs == IF k \in V2!Keys(chain) THEN (IF due THEN <<t>> ELSE <<>>) ELSE <<>>
             ok == chain.pool /\ configured
  <2>1. Commanded("remove", arg, ok, txs)
    BY Zenon, <1>1, <1>16 DEF V2!RemoveLiquidity, V2!OnPosition, V2!S!Command, V2!S!Busy,
       Commanded
  <2>2. arg.key = k /\ k \in Int
    BY BoundAssumption
  <2>3. txs \in {<<>>, <<t>>} /\ (txs # <<>> => due)
    OBVIOUS
  <2>4. ASSUME due
        PROVE  /\ t \in PosTx(n + 1) /\ NewKey(t) = 0 /\ ~V2!Empty(V2!Pos(chain, k))
               /\ V2!Accepts(chain, t) \/ arg.unripe
    <3> DEFINE p == V2!Pos(chain, k)
    <3>1. p.unl \in Nat /\ p.vest \in Nat
      BY <1>2, <2>4, PosOf DEF PosSet
    <3>2. r = p.unl + p.vest
      BY DEF V2!Removable
    <3> HIDE DEF r
    <3>3. t \in PosTx(n + 1) /\ NewKey(t) = 0
      BY <1>2, <2>2, <3>1, <3>2 DEF PosTx, NewKey, PosRecord
    <3>4. ~V2!Empty(p)
      BY <2>4, <3>1, <3>2 DEF V2!Empty
    <3>5. V2!Accepts(chain, t) \/ arg.unripe
      <4>1. chain.ripe \in BOOLEAN
        BY <1>2 DEF PosRecord
      <4>2. V2!Accepts(chain, t) <=> (/\ k \in V2!Keys(chain)
                                      /\ r <= p.unl + (IF chain.ripe THEN p.vest ELSE 0))
        BY DEF V2!Accepts
      <4> HIDE DEF t
      <4>3. CASE chain.ripe
        BY <2>4, <3>1, <3>2, <4>2, <4>3
      <4>4. CASE ~chain.ripe
        <5>1. arg.unripe <=> (k \in V2!Keys(chain) /\ p.vest > 0)
          BY Zenon, <4>4
        <5>2. V2!Accepts(chain, t) <=> (k \in V2!Keys(chain) /\ r <= p.unl)
          <6>1. p.unl + 0 = p.unl
            BY <3>1
          <6> QED BY <4>2, <4>4, <6>1
        <5> HIDE DEF arg, p
        <5> QED BY <2>4, <3>1, <3>2, <5>1, <5>2
      <4> QED BY <4>3, <4>4
    <3> QED BY <3>3, <3>4, <3>5
  <2> HIDE DEF t, arg, txs, ok, due
  <2> QED BY Zenon, <1>9, <2>1, <2>2, <2>3, <2>4
<1>16a. ASSUME V2!AddGoesOn PROVE PosInv'
  <2>1. PICK answered \in BOOLEAN : Resumed("added", cmd.arg, answered, <<>>)
    BY <1>16a DEF V2!AddGoesOn, V2!S!Resume, Resumed
  <2>2. <<>> \in Seq(PosTx(n))
    OBVIOUS
  <2>3. Typed(PosTx(n), PosRecord(n))'
    BY Zenon, <1>2, <2>1, <2>2, TypedResumed
  <2>4. /\ cmd'.n = n /\ chain' = chain /\ late' = late /\ queue' = <<>>
        /\ status' \in {"threw", "ok"}
    BY <1>1, <1>2, <2>1 DEF Resumed, CmdInv
  <2>5. PosFresh' /\ PosLone'
    BY <1>2, <2>4 DEF PosFresh, PosLone
  <2> QED BY <1>3, <2>3, <2>4, <2>5
<1>17. ASSUME V2!RemoveGoesOn PROVE PosInv'
  <2> DEFINE k == cmd.arg.key
             p == V2!Pos(chain, k)
             t1 == [kind |-> "claim", key |-> k]
             t2 == [kind |-> "close", key |-> k]
             txs == IF k \in V2!Keys(chain) /\ V2!Empty(p) THEN V2!CloseTxs(k) ELSE <<>>
  <2>0. PICK answered \in BOOLEAN : Resumed("removed", cmd.arg, answered, txs)
    BY Zenon, <1>17 DEF V2!RemoveGoesOn, V2!S!Resume, Resumed
  <2>1. /\ Resumed("removed", cmd.arg, answered, txs) /\ status = "resumed" /\ cmd.op = "remove"
        /\ k \in Int
    BY <1>2, <1>17, <2>0 DEF V2!RemoveGoesOn, Resumed, PosLone
  <2>2. t1 \in PosTx(n) /\ t2 \in PosTx(n) /\ NewKey(t1) = 0 /\ NewKey(t2) = 0
    BY <2>1 DEF PosTx, NewKey
  <2>3. \/ txs = <<>>
        \/ /\ k \in V2!Keys(chain) /\ V2!Empty(p)
           /\ txs = <<t1, t2>> \/ (txs = <<t2>> /\ V2!Accepts(chain, t2))
    <3>1. k \in V2!Keys(chain) => p.fee \in Nat
      BY <1>2, PosOf DEF PosSet
    <3>2. k \in V2!Keys(chain) /\ V2!Empty(p) /\ ~(p.fee > 0) => V2!Accepts(chain, t2)
      BY <3>1 DEF V2!Accepts
    <3>3. V2!CloseTxs(k) = IF p.fee > 0 THEN <<t1, t2>> ELSE <<t2>>
      <4>1. V2!CloseTxs(k) = (IF p.fee > 0 THEN <<t1>> ELSE <<>>) \o <<t2>>
        BY DEF V2!CloseTxs
      <4> HIDE DEF t1, t2
      <4>2. <<t1>> \o <<t2>> = <<t1, t2>>
        BY Joined
      <4>3. <<>> \o <<t2>> = <<t2>>
        <5>1. <<t2>> \in Seq({t2})
          OBVIOUS
        <5> QED BY <5>1, ConcatEmptySeq
      <4> QED BY Zenon, <4>1, <4>2, <4>3
    <3> HIDE DEF t1, t2, p
    <3> QED BY <3>2, <3>3
  <2> HIDE DEF txs
  <2>4. txs \in Seq(PosTx(n)) /\ \A i \in DOMAIN txs : txs[i] \in {t1, t2}
    <3> HIDE DEF t1, t2
    <3>1. /\ <<>> \in Seq(PosTx(n)) /\ <<t2>> \in Seq(PosTx(n)) /\ <<t1, t2>> \in Seq(PosTx(n))
          /\ \A i \in DOMAIN <<t2>> : <<t2>>[i] = t2
          /\ \A i \in DOMAIN <<t1, t2>> : <<t1, t2>>[i] \in {t1, t2}
          /\ DOMAIN <<>> = {}
      BY <2>2
    <3> QED BY Zenon, <2>3, <3>1
  <2>5. Typed(PosTx(n), PosRecord(n))'
    BY Zenon, <1>2, <2>1, <2>4, TypedResumed
  <2>6. /\ cmd'.op = "removed" /\ cmd'.arg = cmd.arg /\ cmd'.n = n /\ cmd'.dry = cmd.dry
        /\ cmd'.moved = cmd.moved /\ chain' = chain /\ late' = late
        /\ queue' = txs \/ queue' = <<>>
        /\ status' \in {"threw", "ok", "running"}
        /\ status' = "running" => queue' = txs /\ txs # <<>>
    BY <1>1, <1>2, <2>1 DEF Resumed, CmdInv
  <2>7. PosFresh'
    BY <1>2, <2>2, <2>4, <2>6 DEF PosFresh
  <2>8. cmd.moved \/ ~cmd.dry \/ txs = <<>>
    BY <1>2, <2>1, <2>3 DEF PosLone, PosLeft
  <2>9. status' = "running" => cmd'.moved \/ PosAlone'
    <3> SUFFICES ASSUME status' = "running", ~cmd.moved PROVE PosAlone'
      BY <2>6
    <3>1. CASE txs = <<t1, t2>> /\ k \in V2!Keys(chain) /\ V2!Empty(p)
      <4>1. Len(txs) = 2 /\ txs[1] = t1 /\ txs[2] = t2 /\ ~cmd.dry
        BY <2>6, <2>8, <3>1
      <4> QED BY <2>6, <3>1, <4>1 DEF PosAlone
    <3>2. CASE txs = <<t2>> /\ V2!Accepts(chain, t2)
      <4>1. Len(txs) = 1 /\ Head(txs) = t2
        BY <3>2
      <4> QED BY <2>6, <3>2, <4>1 DEF PosAlone
    <3> QED BY <2>3, <2>6, <3>1, <3>2
  <2>10. PosLone'
    BY <2>6, <2>9 DEF PosLone
  <2> QED BY <1>3, <2>5, <2>6, <2>7, <2>10
<1>18. ASSUME NEW configured \in BOOLEAN, NEW d \in Deposits,
              \/ V2!CreateDammV2BalancedPool(configured, d)
              \/ \E compounding \in BOOLEAN : V2!CreateDammV2OneSidedPool(configured,
                 compounding, d)
       PROVE  PosInv'
  BY <1>10, <1>18 DEF V2!CreateDammV2BalancedPool, V2!CreateDammV2OneSidedPool
<1>19. ASSUME NEW k \in 1..MaxRuns,
              \/ V2!ClaimPositionFee(k) \/ V2!RefreshVesting(k) \/ V2!AddLiquidity(k)
              \/ V2!ClosePosition(k)
              \/ \E parts \in SplitParts, own \in BOOLEAN : V2!SplitPosition(k, parts, own)
              \/ \E configured \in BOOLEAN : V2!RemoveLiquidity(k, configured)
       PROVE  PosInv'
  BY <1>11, <1>12, <1>13, <1>14, <1>15, <1>16, <1>19
<1> QED BY <1>5, <1>7, <1>8, <1>16a, <1>17, <1>18, <1>19 DEF V2!Next

=============================================================================
