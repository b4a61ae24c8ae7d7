---------------------------------- MODULE Lock ----------------------------------
(***************************************************************************)
(* studio/src/lib/lock: lock tokens in a vesting escrow, attach metadata,  *)
(* claim what has vested, and look an escrow up.  The key of an escrow is  *)
(* derived from a keypair the run generates (the number of that run).  The *)
(* wallet is the creator of what it locks and may be the recipient.  An    *)
(* escrow can be cancelled by other means than the studio's.               *)
(*                                                                         *)
(* What a status shows as vested is computed here; what the recipient gets *)
(* is the lock program's affair.  From when the program counts periods the *)
(* repository says both ways: "reference point vesting periods are counted *)
(* from" (config/lock_config.jsonc:22, of the start), "seconds between     *)
(* unlock periods after the cliff" (24).  The model has both programs.     *)
(***************************************************************************)
EXTENDS Integers, Sequences, FiniteSets, FiniteSetsExt

CONSTANTS
    Schedules,          \* lockCreateEscrow: [start, cliff, freq, atCliff, per, periods]
    Tokens,             \* what the wallet owns at first
    LastTime,           \* the clock's bound
    MaxRuns, MaxLate

VARIABLES chain, cmd, queue, late, status

U64Max == Tokens        \* more than can ever vest

-----------------------------------------------------------------------------
(* Vesting *)

\* calculateTotalLockedVestingAmount, of the lock program's SDK.
Total(s) == s.atCliff + s.per * s.periods

\* Variant: an escrow that was cancelled goes on vesting.
VestedRunsOn(e, now) ==
    LET s == e.s
        periods == Min({Max({now - s.start, 0}) \div s.freq, s.periods})
    IN  IF now < s.cliff THEN 0
        ELSE IF s.freq = 0 THEN Total(s)
        ELSE Min({s.atCliff + s.per * periods, Total(s)})

\* cancelledAt is 0 for an escrow that is not cancelled.
EndTime(e, now) == IF e.cancelled = 0 THEN now ELSE Min({now, e.cancelled})

\* computeVestingAmounts: what the status of an escrow takes as vested.
Vested(e, now) ==
    LET s == e.s
        periods == Min({Max({EndTime(e, now) - s.start, 0}) \div s.freq, s.periods})
    IN  IF now < s.cliff THEN 0
        ELSE IF s.freq = 0 THEN Total(s)
        ELSE Min({s.atCliff + s.per * periods, Total(s)})

\* The program lets go of the cliff's amount and of an instalment for each period that is over,
\* and of nothing before the cliff.
Origin(c, s)   == IF c.fromCliff THEN s.cliff ELSE s.start
Over(c, s)     == {k \in 1..s.periods : Origin(c, s) + k * s.freq <= c.now}
Released(c, s) == IF c.now < s.cliff THEN 0 ELSE s.atCliff + s.per * Cardinality(Over(c, s))

-----------------------------------------------------------------------------
Escrow(c, k) == CHOOSE e \in c.escrows : e.key = k
Keys(c)      == {e.key : e \in c.escrows}

Accepts(c, t) ==
    CASE t.kind = "create"   -> t.s.start <= t.s.cliff /\ Total(t.s) \in 1..c.tokens
      [] t.kind = "metadata" -> t.key \in Keys(c) /\ ~Escrow(c, t.key).meta
      [] t.kind = "claim"    -> t.key \in Keys(c) /\ Escrow(c, t.key).mine
                                /\ Escrow(c, t.key).cancelled = 0

Effect(c, t) ==
    CASE t.kind = "create" ->
           [c EXCEPT !.tokens = @ - Total(t.s),
                     !.escrows = @ \union {[key |-> t.key, s |-> t.s, mine |-> t.mine,
                                            claimed |-> 0, meta |-> FALSE,
                                            cancelled |-> 0]}]
      [] t.kind = "metadata" ->
           LET e == Escrow(c, t.key)
           IN  [c EXCEPT !.escrows = (@ \ {e}) \union {[e EXCEPT !.meta = TRUE]}]
      [] t.kind = "claim" ->
           LET e == Escrow(c, t.key)
               a == Min({t.max, Released(c, e.s) - e.claimed})
           IN  [c EXCEPT !.tokens = @ + a,
                         !.escrows = (@ \ {e}) \union {[e EXCEPT !.claimed = @ + a]}]

Resumes == {}
Forgives == {}
S == INSTANCE Submission

-----------------------------------------------------------------------------
Init == \E fromCliff \in BOOLEAN :
    S!Begin([tokens |-> Tokens, escrows |-> {}, now |-> 0, fromCliff |-> fromCliff])

\* Variant: the sender's balance is not compared with the total.
CreateUnchecked(s, mine) ==
    S!Command("create", "none", s.start <= s.cliff /\ Total(s) > 0,
              <<[kind |-> "create", s |-> s, mine |-> mine, key |-> cmd.n + 1]>>)

CreateVestingEscrow(s, mine) ==
    S!Command("create", "none",
              s.start <= s.cliff /\ Total(s) > 0 /\ Total(s) <= chain.tokens,
              <<[kind |-> "create", s |-> s, mine |-> mine, key |-> cmd.n + 1]>>)

\* The escrow must be there and be the wallet's; whether it has metadata is not looked at.
CreateEscrowMetadata(k) ==
    S!Command("metadata", [had |-> \E e \in chain.escrows : e.key = k /\ e.meta],
              k \in Keys(chain), <<[kind |-> "metadata", key |-> k]>>)

\* No maximum (0) is sent as the largest one; what is claimable, and whether the escrow was
\* cancelled, is left to the program.
Claim(k, max) ==
    S!Command("claim", [ended |-> \E e \in chain.escrows : e.key = k /\ e.cancelled # 0],
              k \in Keys(chain) /\ Escrow(chain, k).mine,
              <<[kind |-> "claim", key |-> k, max |-> IF max = 0 THEN U64Max ELSE max]>>)

Tick == chain.now < LastTime /\ S!World([chain EXCEPT !.now = @ + 1])

\* The creator or the recipient, as cancelMode allows; what the escrow still holds goes to
\* accounts the commands do not read.
Cancelled == \E e \in chain.escrows :
                 /\ e.cancelled = 0 /\ chain.now > 0
                 /\ S!World([chain EXCEPT !.escrows = (@ \ {e}) \union
                                                 {[e EXCEPT !.cancelled = chain.now]}])

Next ==
    \/ Tick \/ Cancelled \/ S!Step
    \/ \E s \in Schedules, mine \in BOOLEAN : CreateVestingEscrow(s, mine)
    \/ \E k \in 1..cmd.n : CreateEscrowMetadata(k) \/ \E max \in 0..1 : Claim(k, max)

Spec == Init /\ [][Next]_S!vars

-----------------------------------------------------------------------------
Txs == [kind : {"create"}, s : Schedules, mine : BOOLEAN, key : 1..MaxRuns]
       \union [kind : {"metadata"}, key : 1..MaxRuns]
       \union [kind : {"claim"}, key : 1..MaxRuns, max : 1..U64Max]

TypeOK ==
    /\ S!TypeOK({"create", "metadata", "claim"}, Txs)
    /\ chain.tokens \in 0..Tokens /\ chain.now \in 0..LastTime /\ chain.fromCliff \in BOOLEAN
    /\ chain.escrows \subseteq [key : 1..MaxRuns, s : Schedules, mine : BOOLEAN,
                                claimed : 0..Tokens, meta : BOOLEAN, cancelled : 0..LastTime]

\* The checks cover what the program asks for, two cases apart: a second set of metadata, and
\* a claim of an escrow that was cancelled; neither is looked for.
LoneRunNeverRefused ==
    status = "refused" =>
        \/ cmd.moved
        \/ cmd.op = "metadata" /\ cmd.arg.had
        \/ cmd.op = "claim" /\ cmd.arg.ended

\* What a status shows as vested: nothing before the cliff, never less than before, never
\* more than was locked, all of it once the cliff and the last period are over, and nothing
\* more after a cancellation; and it never shows less than the recipient has got already,
\* whichever of the two ways the program counts.
VestingSound ==
    \A e \in chain.escrows :
        LET s == e.s IN
        /\ \A t \in 0..LastTime :
             /\ t < s.cliff => Vested(e, t) = 0
             /\ \A u \in 0..t : Vested(e, u) <= Vested(e, t)
             /\ Vested(e, t) <= Total(s)
             /\ e.cancelled = 0 /\ t >= s.cliff /\ t >= s.start + s.freq * s.periods
                => Vested(e, t) = Total(s)
             /\ e.cancelled # 0 /\ t >= s.cliff /\ t >= e.cancelled
                => \A u \in t..LastTime : Vested(e, u) = Vested(e, t)
        /\ e.claimed <= Vested(e, chain.now)

\* "human token units unlocked every `frequency` seconds after the cliff"
\* (config/lock_config.jsonc:26): beyond the cliff's own amount a status shows an instalment
\* for every period that has passed since the cliff, and none before.  This does not hold where
\* the cliff is a period or more after the start.
PeriodsAfterCliff ==
    \A e \in chain.escrows : LET s == e.s IN
        s.freq > 0 => \A t \in s.cliff..LastTime :
            Vested(e, t) <= s.atCliff + s.per * ((t - s.cliff) \div s.freq)
=============================================================================
