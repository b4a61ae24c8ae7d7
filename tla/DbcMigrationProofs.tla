-------------------------- MODULE DbcMigrationProofs ---------------------------
(***************************************************************************)
(* Any number of migration runs of one DBC pool, dry and live, with late   *)
(* transactions, a keeper and a creator that changes: a run loses nothing  *)
(* it has to bring about, and a run left alone is never refused.           *)
(***************************************************************************)
EXTENDS DbcMigration, SequenceTheorems, TLAPS

\* Transaction t is in queue q.
InQueue(q, t) == \E i \in DOMAIN q : q[i] = t

\* What a run that reads the pool now sees.
Now == [migrated |-> migrated, same |-> same]

\* A run's queue holds transactions of the model.
QueueInv == queue \in [Operators -> Seq(Txs)]

\* What a run has read against what is so now: migration is never undone, and who the
\* creator is changes only with a transfer.  The shares of one owner are taken together.
SnapshotInv ==
    /\ pool.v1 \/ (pool.claimable = {} /\ pool.lockable = {})
    /\ transfers = 0 /\ same => claimed \in {{}, Role} /\ locked \in {{}, Role}
    /\ \A o \in Operators : seen[o].migrated => migrated
    /\ \A o \in Operators : pc[o] # "idle" /\ transfers = 0 => seen[o].same = same

\* The share of role r has been claimed, or a transaction that claims it is still to be
\* sent by run o; the same for a share to lock.
ClaimHeading(o, r) ==
    r \in claimed \/ \E b \in Role : r \in Beneficiaries(b) /\ InQueue(queue[o], Claim(b))

LockHeading(o, r) ==
    r \in locked \/ \E b \in Role : r \in Beneficiaries(b) /\ InQueue(queue[o], Lock(b))

\* A live run loses nothing: what its bundle has to bring about is so already or is still in
\* its queue, and a run that reports success found it so.
Live(o) ==
    ~dry[o] =>
        /\ pc[o] = "setup" => /\ migrated \/ InQueue(queue[o], Op("migrate"))
                              /\ pool.vesting => locker \/ InQueue(queue[o], Op("locker"))
        /\ pc[o] = "lp" => Graduated
        /\ pc[o] = "lp" /\ transfers = 0 => /\ \A r \in pool.claimable : ClaimHeading(o, r)
                                            /\ \A r \in pool.lockable : LockHeading(o, r)
        /\ report[o] = "done" => Graduated /\ (transfers = 0 => Complete)

LiveInv == \A o \in Operators : Live(o)

\* While no other run, no late transaction and no keeper interferes, a run's queue is exactly
\* what a run that started now would send.
Lone(o) ==
    pc[o] # "idle" =>
        /\ ready
        /\ pc[o] = "plan" => seen[o].migrated = migrated
        /\ pc[o] = "setup" /\ ~dry[o] => queue[o] = SetupTxs(Now)
        /\ pc[o] = "lp" /\ ~dry[o] => queue[o] = LpTxs(Now)

AloneInv == alone => ghosts = {} /\ transfers = 0 /\ \A o \in Operators : Lone(o)

\* The inductive invariant of DbcMigration.
DbcInv == TypeOK /\ QueueInv /\ SnapshotInv /\ LiveInv /\ AloneInv

-----------------------------------------------------------------------------
\* What a concatenation holds.
LEMMA Concat ==
    ASSUME NEW S, NEW s \in Seq(S), NEW t \in Seq(S)
    PROVE  /\ s \o t \in Seq(S) /\ Len(s \o t) = Len(s) + Len(t)
           /\ \A u : InQueue(s \o t, u) <=> InQueue(s, u) \/ InQueue(t, u)
<1>1. s \o t \in Seq(S) /\ Len(s \o t) = Len(s) + Len(t) /\ Len(s) \in Nat /\ Len(t) \in Nat
      /\ DOMAIN (s \o t) = 1..(Len(s) + Len(t)) /\ DOMAIN s = 1..Len(s) /\ DOMAIN t = 1..Len(t)
  BY ConcatProperties, LenProperties
<1>2. \A k \in 1..(Len(s) + Len(t)) : (s \o t)[k] = IF k <= Len(s) THEN s[k] ELSE t[k - Len(s)]
  BY ConcatProperties
<1>3. ASSUME NEW u PROVE InQueue(s \o t, u) => InQueue(s, u) \/ InQueue(t, u)
  BY <1>1, <1>2 DEF InQueue
<1>4. ASSUME NEW u PROVE InQueue(s, u) => InQueue(s \o t, u)
  BY <1>1, <1>2 DEF InQueue
<1>5. ASSUME NEW u, NEW k \in DOMAIN t, t[k] = u PROVE InQueue(s \o t, u)
  <2>1. k + Len(s) \in 1..(Len(s) + Len(t)) /\ ~(k + Len(s) <= Len(s)) /\ k + Len(s) - Len(s) = k
    BY <1>1
  <2>2. (s \o t)[k + Len(s)] = u
    BY <1>2, <1>5, <2>1
  <2>3. QED
    BY <1>1, <2>1, <2>2 DEF InQueue
<1>6. QED
  BY <1>1, <1>3, <1>4, <1>5 DEF InQueue

\* What a sequence holds is its head or in its tail.
LEMMA HeadOrTail ==
    ASSUME NEW S, NEW q \in Seq(S), q # <<>>
    PROVE  /\ Head(q) \in S /\ Tail(q) \in Seq(S) /\ Len(Tail(q)) = Len(q) - 1 /\ Len(q) \in Nat /\ Len(q) > 0
           /\ \A u : InQueue(q, u) => u = Head(q) \/ InQueue(Tail(q), u)
<1>1. /\ Head(q) \in S /\ Tail(q) \in Seq(S) /\ Len(Tail(q)) = Len(q) - 1
      /\ \A i \in 1..Len(Tail(q)) : Tail(q)[i] = q[i + 1]
  BY HeadTailProperties
<1>2. Len(q) \in Nat /\ Len(q) > 0 /\ DOMAIN q = 1..Len(q) /\ DOMAIN Tail(q) = 1..(Len(q) - 1)
  BY <1>1, LenProperties, EmptySeq
<1>3. Head(q) = q[1]
  OBVIOUS
<1>4. ASSUME NEW u, NEW k \in DOMAIN q, q[k] = u, u # Head(q) PROVE InQueue(Tail(q), u)
  <2>1. k # 1 /\ k - 1 \in DOMAIN Tail(q) /\ k - 1 \in 1..Len(Tail(q)) /\ (k - 1) + 1 = k
    BY <1>1, <1>2, <1>3, <1>4
  <2>2. Tail(q)[k - 1] = u
    BY <1>1, <1>4, <2>1
  <2>3. QED
    BY <2>1, <2>2 DEF InQueue
<1>5. QED
  BY <1>1, <1>2, <1>4 DEF InQueue

\* The head and the tail of a concatenation.
LEMMA HeadThenTail ==
    ASSUME NEW S, NEW s \in Seq(S), NEW t \in Seq(S)
    PROVE  /\ s = <<>> => s \o t = t
           /\ s # <<>> => s \o t # <<>> /\ Head(s \o t) = Head(s) /\ Tail(s \o t) = Tail(s) \o t
<1>1. s = <<>> => s \o t = t
  BY ConcatEmptySeq
<1>2. ASSUME s # <<>> PROVE s \o t # <<>> /\ Head(s \o t) = Head(s) /\ Tail(s \o t) = Tail(s) \o t
  <2>1. /\ s \o t \in Seq(S) /\ Len(s \o t) = Len(s) + Len(t) /\ Len(s) \in Nat /\ Len(s) > 0 /\ Len(t) \in Nat
        /\ Tail(s) \in Seq(S) /\ Len(Tail(s)) = Len(s) - 1
        /\ \A i \in 1..Len(Tail(s)) : Tail(s)[i] = s[i + 1]
    BY <1>2, Concat, HeadOrTail, HeadTailProperties, LenProperties
  <2>2. \A k \in 1..(Len(s) + Len(t)) : (s \o t)[k] = IF k <= Len(s) THEN s[k] ELSE t[k - Len(s)]
    BY ConcatProperties
  <2>3. s \o t # <<>>
    BY <2>1, EmptySeq
  <2>4. Head(s \o t) = Head(s)
    <3>1. (s \o t)[1] = s[1]
      BY <2>1, <2>2
    <3>2. \A q \in Seq(S) : Head(q) = q[1]
      OBVIOUS
    <3>3. QED
      BY <2>1, <3>1, <3>2
  <2>5. /\ Tail(s \o t) \in Seq(S) /\ Len(Tail(s \o t)) = Len(s) + Len(t) - 1
        /\ \A i \in 1..(Len(s) + Len(t) - 1) : Tail(s \o t)[i] = (s \o t)[i + 1]
    BY <2>1, <2>3, HeadTailProperties
  <2>6. /\ Tail(s) \o t \in Seq(S) /\ Len(Tail(s) \o t) = Len(s) - 1 + Len(t)
        /\ \A i \in 1..(Len(s) - 1 + Len(t)) :
              (Tail(s) \o t)[i] = IF i <= Len(s) - 1 THEN Tail(s)[i] ELSE t[i - (Len(s) - 1)]
    BY <2>1, ConcatProperties
  <2>7. ASSUME NEW i \in 1..(Len(s) + Len(t) - 1)
        PROVE  Tail(s \o t)[i] = (Tail(s) \o t)[i]
    <3>1. i + 1 \in 1..(Len(s) + Len(t)) /\ i \in 1..(Len(s) - 1 + Len(t)) /\ i \in Int
      BY <2>1
    <3>2. CASE i <= Len(s) - 1
      <4>1. (s \o t)[i + 1] = s[i + 1]
        BY <2>1, <2>2, <3>1, <3>2
      <4>2. Tail(s)[i] = s[i + 1]
        BY <2>1, <3>1, <3>2
      <4>3. QED
        BY <2>5, <2>6, <3>1, <3>2, <4>1, <4>2
    <3>3. CASE ~(i <= Len(s) - 1)
      <4>1. ~(i + 1 <= Len(s)) /\ i + 1 - Len(s) = i - (Len(s) - 1)
        BY <2>1, <3>1, <3>3
      <4>2. (s \o t)[i + 1] = t[i - (Len(s) - 1)]
        BY <2>2, <3>1, <4>1
      <4>3. QED
        BY <2>5, <2>6, <3>1, <3>3, <4>2
    <3>4. QED
      BY <3>2, <3>3
  <2>8. Tail(s \o t) = Tail(s) \o t
    BY <2>1, <2>5, <2>6, <2>7, SeqEqual
  <2>9. QED
    BY <2>3, <2>4, <2>8
<1>3. QED
  BY <1>1, <1>2

\* Sequence q is h followed by sequence t.
Starts(q, h, t) == q # <<>> /\ Head(q) = h /\ Tail(q) = t

\* A transaction that is sent on a condition.
LEMMA WhenFacts ==
    ASSUME NEW S, NEW t \in S, NEW c
    PROVE  /\ When(c, t) \in Seq(S) /\ Len(When(c, t)) \in 0..1
           /\ \A u : InQueue(When(c, t), u) <=> c /\ u = t
           /\ ~c => When(c, t) = <<>>
           /\ c => Starts(When(c, t), t, <<>>)
<1>1. CASE c
  BY <1>1 DEF When, InQueue, Starts
<1>2. CASE ~c
  BY <1>2 DEF When, InQueue
<1>3. QED
  BY <1>1, <1>2

\* The transactions of the model.
LEMMA TxsHave ==
    /\ Op("metadata") \in Txs /\ Op("locker") \in Txs /\ Op("migrate") \in Txs
    /\ \A r \in Role : Claim(r) \in Txs /\ Lock(r) \in Txs
BY DEF Txs

\* The bundle of set-up transactions contains the migration, and the locker account, unless
\* they are there.
LEMMA SetupFacts ==
    ASSUME TypeOK, NEW s, s.migrated \in BOOLEAN
    PROVE  /\ SetupTxs(s) \in Seq(Txs) /\ Len(SetupTxs(s)) <= 3
           /\ ~s.migrated => InQueue(SetupTxs(s), Op("migrate"))
           /\ pool.vesting /\ ~locker => InQueue(SetupTxs(s), Op("locker"))
<1> DEFINE a == When(pool.v1 /\ ~metadata, Op("metadata"))
           b == When(pool.vesting /\ ~locker, Op("locker"))
           c == When(~s.migrated, Op("migrate"))
<1>1. pool.v1 \in BOOLEAN /\ pool.vesting \in BOOLEAN /\ metadata \in BOOLEAN /\ locker \in BOOLEAN
  BY DEF TypeOK, Pools
<1>2. a \in Seq(Txs) /\ Len(a) \in 0..1
  BY <1>1, TxsHave, WhenFacts
<1>3. b \in Seq(Txs) /\ Len(b) \in 0..1 /\ (pool.vesting /\ ~locker => InQueue(b, Op("locker")))
  BY <1>1, TxsHave, WhenFacts
<1>4. c \in Seq(Txs) /\ Len(c) \in 0..1 /\ (~s.migrated => InQueue(c, Op("migrate")))
  BY TxsHave, WhenFacts
<1> HIDE DEF a, b, c
<1>5. a \o b \in Seq(Txs) /\ Len(a \o b) = Len(a) + Len(b)
      /\ (InQueue(b, Op("locker")) => InQueue(a \o b, Op("locker")))
  BY <1>2, <1>3, Concat
<1>6. (a \o b) \o c \in Seq(Txs) /\ Len((a \o b) \o c) = Len(a \o b) + Len(c)
      /\ (InQueue(a \o b, Op("locker")) => InQueue((a \o b) \o c, Op("locker")))
      /\ (InQueue(c, Op("migrate")) => InQueue((a \o b) \o c, Op("migrate")))
  BY <1>4, <1>5, Concat
<1>7. SetupTxs(s) = (a \o b) \o c
  BY DEF SetupTxs, a, b, c
<1>8. QED
  BY <1>2, <1>3, <1>4, <1>5, <1>6, <1>7

\* A transaction for each role of a sequence.
Map(f, q) == [i \in 1..Len(q) |-> f[q[i]]]

\* The transactions of a sequence of roles, one for each.
LEMMA MapFacts ==
    ASSUME NEW f \in [Role -> Txs], NEW q \in Seq(Role)
    PROVE  /\ Map(f, q) \in Seq(Txs) /\ Len(Map(f, q)) = Len(q)
           /\ \A i \in 1..Len(q) : Map(f, q)[i] = f[q[i]]
<1>1. \A i \in 1..Len(q) : f[q[i]] \in Txs
  BY ElementOfSeq
<1>2. QED
  BY <1>1 DEF Map

\* Those of two sequences joined are theirs joined.
LEMMA MapConcat ==
    ASSUME NEW f \in [Role -> Txs], NEW s \in Seq(Role), NEW t \in Seq(Role)
    PROVE  Map(f, s \o t) = Map(f, s) \o Map(f, t)
<1>1. /\ s \o t \in Seq(Role) /\ Len(s \o t) = Len(s) + Len(t) /\ Len(s) \in Nat /\ Len(t) \in Nat
      /\ \A i \in 1..(Len(s) + Len(t)) : (s \o t)[i] = IF i <= Len(s) THEN s[i] ELSE t[i - Len(s)]
  BY ConcatProperties, LenProperties
<1>2. /\ Map(f, s \o t) \in Seq(Txs) /\ Len(Map(f, s \o t)) = Len(s) + Len(t)
      /\ \A i \in 1..(Len(s) + Len(t)) : Map(f, s \o t)[i] = f[(s \o t)[i]]
  <2>1. /\ Map(f, s \o t) \in Seq(Txs) /\ Len(Map(f, s \o t)) = Len(s \o t)
        /\ \A i \in 1..Len(s \o t) : Map(f, s \o t)[i] = f[(s \o t)[i]]
    BY <1>1, MapFacts, Zenon
  <2>2. QED
    BY <1>1, <2>1
<1>3. /\ Map(f, s) \in Seq(Txs) /\ Len(Map(f, s)) = Len(s) /\ \A i \in 1..Len(s) : Map(f, s)[i] = f[s[i]]
      /\ Map(f, t) \in Seq(Txs) /\ Len(Map(f, t)) = Len(t) /\ \A i \in 1..Len(t) : Map(f, t)[i] = f[t[i]]
  BY MapFacts, Zenon
<1>4. /\ Map(f, s) \o Map(f, t) \in Seq(Txs) /\ Len(Map(f, s) \o Map(f, t)) = Len(s) + Len(t)
      /\ \A i \in 1..(Len(s) + Len(t)) :
            (Map(f, s) \o Map(f, t))[i] = IF i <= Len(s) THEN Map(f, s)[i] ELSE Map(f, t)[i - Len(s)]
  <2>1. /\ Map(f, s) \o Map(f, t) \in Seq(Txs)
        /\ Len(Map(f, s) \o Map(f, t)) = Len(Map(f, s)) + Len(Map(f, t))
        /\ \A i \in 1..(Len(Map(f, s)) + Len(Map(f, t))) :
              (Map(f, s) \o Map(f, t))[i] =
                IF i <= Len(Map(f, s)) THEN Map(f, s)[i] ELSE Map(f, t)[i - Len(Map(f, s))]
    BY <1>3, ConcatProperties, Zenon
  <2>2. QED
    BY <1>3, <2>1
<1>5. ASSUME NEW i \in 1..(Len(s) + Len(t)) PROVE Map(f, s \o t)[i] = (Map(f, s) \o Map(f, t))[i]
  <2>1. CASE i <= Len(s)
    <3>1. i \in 1..Len(s)
      BY <1>1, <2>1
    <3>2. QED
      BY <1>1, <1>2, <1>3, <1>4, <2>1, <3>1
  <2>2. CASE ~(i <= Len(s))
    <3>1. i - Len(s) \in 1..Len(t)
      BY <1>1, <2>2
    <3>2. (Map(f, s) \o Map(f, t))[i] = Map(f, t)[i - Len(s)]
      BY <1>4, <2>2
    <3>3. Map(f, t)[i - Len(s)] = f[t[i - Len(s)]]
      BY <1>3, <3>1
    <3>4. Map(f, s \o t)[i] = f[t[i - Len(s)]]
      BY <1>1, <1>2, <2>2
    <3>5. QED
      BY <3>2, <3>3, <3>4
  <2>3. QED
    BY <2>1, <2>2
<1>6. QED
  BY <1>2, <1>4, <1>5, SeqEqual

\* Those of a role that there is only under a condition.
LEMMA MapWhen ==
    ASSUME NEW f \in [Role -> Txs], NEW t \in Role, NEW c
    PROVE  Map(f, When(c, t)) = When(c, f[t])
<1>1. CASE c
  <2>1. Map(f, <<t>>) = <<f[t]>>
    <3>1. <<t>> \in Seq(Role) /\ <<f[t]>> \in Seq(Txs) /\ Len(<<t>>) = 1 /\ Len(<<f[t]>>) = 1
          /\ <<t>>[1] = t /\ <<f[t]>>[1] = f[t]
      OBVIOUS
    <3>2. Map(f, <<t>>) \in Seq(Txs) /\ Len(Map(f, <<t>>)) = 1 /\ Map(f, <<t>>)[1] = f[t]
      <4>1. /\ Map(f, <<t>>) \in Seq(Txs) /\ Len(Map(f, <<t>>)) = Len(<<t>>)
            /\ \A i \in 1..Len(<<t>>) : Map(f, <<t>>)[i] = f[<<t>>[i]]
        BY <3>1, MapFacts, Zenon
      <4>2. QED
        BY <3>1, <4>1
    <3>3. \A i \in 1..1 : Map(f, <<t>>)[i] = <<f[t]>>[i]
      BY <3>1, <3>2
    <3>4. QED
      BY <3>1, <3>2, <3>3, SeqEqual
  <2>2. QED
    BY <1>1, <2>1 DEF When
<1>2. CASE ~c
  <2>1. Map(f, <<>>) = <<>>
    <3>1. <<>> \in Seq(Role) /\ Len(<<>>) = 0
      BY EmptySeq
    <3>2. Map(f, <<>>) \in Seq(Txs) /\ Len(Map(f, <<>>)) = 0
      BY <3>1, MapFacts, Zenon
    <3>3. QED
      BY <3>2, EmptySeq
  <2>2. QED
    BY <1>2, <2>1 DEF When
<1>3. QED
  BY <1>1, <1>2

\* Role r gets a transaction for its share: for one owner of both, the creator gets one for
\* the two of them.
Takes(s, shares, settled, r) ==
    IF s.same THEN r = "creator" /\ shares # {} /\ settled = {} ELSE r \in shares \ settled

\* The transactions for the shares of the two roles, the creator's first.
Both(s, shares, settled, t, u) ==
    When(Takes(s, shares, settled, "creator"), t) \o When(Takes(s, shares, settled, "partner"), u)

\* Those are the ones the code builds,
LEMMA DueIs ==
    ASSUME NEW s, NEW shares, NEW settled
    PROVE  /\ Due(s, shares, settled) = Both(s, shares, settled, "creator", "partner")
           /\ Due(s, shares, settled) \in Seq(Role)
<1>1. \A c : When(c, "creator") \in Seq(Role) /\ When(c, "partner") \in Seq(Role)
  BY WhenFacts DEF Role
<1>2. CASE s.same
  <2>1. When(Takes(s, shares, settled, "creator"), "creator") = When(shares # {} /\ settled = {}, "creator")
        /\ When(Takes(s, shares, settled, "partner"), "partner") = <<>>
    BY <1>2 DEF When, Takes
  <2>2. When(shares # {} /\ settled = {}, "creator") \o <<>> = When(shares # {} /\ settled = {}, "creator")
    BY <1>1, ConcatEmptySeq
  <2>3. QED
    BY <1>1, <1>2, <2>1, <2>2 DEF Due, Both
<1>3. CASE ~s.same
  <2>1. Takes(s, shares, settled, "creator") = ("creator" \in shares \ settled)
        /\ Takes(s, shares, settled, "partner") = ("partner" \in shares \ settled)
    BY <1>3 DEF Takes
  <2>2. Due(s, shares, settled) = Both(s, shares, settled, "creator", "partner")
    BY <1>3, <2>1 DEF Due, Both
  <2>3. Both(s, shares, settled, "creator", "partner") \in Seq(Role)
    BY <1>1, ConcatProperties DEF Both
  <2>4. QED
    BY <2>2, <2>3
<1>4. QED
  BY <1>2, <1>3

\* also when a transaction is made of each.
LEMMA MapDue ==
    ASSUME NEW f \in [Role -> Txs], NEW s, NEW shares, NEW settled
    PROVE  Map(f, Due(s, shares, settled)) = Both(s, shares, settled, f["creator"], f["partner"])
<1> DEFINE c == Takes(s, shares, settled, "creator")
           d == Takes(s, shares, settled, "partner")
<1>1. "creator" \in Role /\ "partner" \in Role
  BY DEF Role
<1>2. When(c, "creator") \in Seq(Role) /\ When(d, "partner") \in Seq(Role)
  BY <1>1, EmptySeq DEF When
<1>3. Map(f, When(c, "creator") \o When(d, "partner")) = Map(f, When(c, "creator")) \o Map(f, When(d, "partner"))
  BY <1>2, MapConcat
<1>4. Map(f, When(c, "creator")) = When(c, f["creator"]) /\ Map(f, When(d, "partner")) = When(d, f["partner"])
  BY <1>1, MapWhen
<1>5. QED
  BY <1>3, <1>4, DueIs DEF Both

\* The LP bundle is the claims and then the locks.
LEMMA LpIs ==
    ASSUME NEW s
    PROVE  LpTxs(s) = Both(s, pool.claimable, claimed, Claim("creator"), Claim("partner"))
                        \o Both(s, pool.lockable, locked, Lock("creator"), Lock("partner"))
<1> DEFINE claims == Due(s, pool.claimable, claimed)
           locks  == Due(s, pool.lockable, locked)
           f == [r \in Role |-> Claim(r)]
           g == [r \in Role |-> Lock(r)]
<1>1. f \in [Role -> Txs] /\ g \in [Role -> Txs] /\ "creator" \in Role /\ "partner" \in Role
  BY TxsHave DEF Role
<1>2. claims \in Seq(Role) /\ locks \in Seq(Role)
  BY DueIs
<1> HIDE DEF claims, locks
<1>3. [i \in 1..Len(claims) |-> Claim(claims[i])] = Map(f, claims)
  <2>1. \A i \in 1..Len(claims) : claims[i] \in Role
    BY <1>2, ElementOfSeq
  <2>2. QED
    BY <2>1 DEF Map
<1>4. [i \in 1..Len(locks) |-> Lock(locks[i])] = Map(g, locks)
  <2>1. \A i \in 1..Len(locks) : locks[i] \in Role
    BY <1>2, ElementOfSeq
  <2>2. QED
    BY <2>1 DEF Map
<1>5. LpTxs(s) = Map(f, claims) \o Map(g, locks)
  BY <1>3, <1>4 DEF LpTxs, claims, locks
<1> HIDE DEF f, g
<1>6. Map(f, claims) = Both(s, pool.claimable, claimed, f["creator"], f["partner"])
      /\ Map(g, locks) = Both(s, pool.lockable, locked, g["creator"], g["partner"])
  BY <1>1, MapDue DEF claims, locks
<1>7. f["creator"] = Claim("creator") /\ f["partner"] = Claim("partner")
      /\ g["creator"] = Lock("creator") /\ g["partner"] = Lock("partner")
  BY <1>1 DEF f, g
<1>8. QED
  BY <1>5, <1>6, <1>7

\* Four short sequences in a row.
Four(a, b, c, d) == (a \o b) \o (c \o d)

\* What they hold,
LEMMA FourParts ==
    ASSUME NEW S, NEW a \in Seq(S), NEW b \in Seq(S), NEW c \in Seq(S), NEW d \in Seq(S)
    PROVE  /\ Four(a, b, c, d) \in Seq(S) /\ Len(Four(a, b, c, d)) = Len(a) + Len(b) + Len(c) + Len(d)
           /\ \A u : InQueue(Four(a, b, c, d), u)
                       <=> InQueue(a, u) \/ InQueue(b, u) \/ InQueue(c, u) \/ InQueue(d, u)
<1>1. /\ a \o b \in Seq(S) /\ Len(a \o b) = Len(a) + Len(b)
      /\ \A u : InQueue(a \o b, u) <=> InQueue(a, u) \/ InQueue(b, u)
  BY Concat
<1>2. /\ c \o d \in Seq(S) /\ Len(c \o d) = Len(c) + Len(d)
      /\ \A u : InQueue(c \o d, u) <=> InQueue(c, u) \/ InQueue(d, u)
  BY Concat
<1>3. /\ Four(a, b, c, d) \in Seq(S) /\ Len(Four(a, b, c, d)) = Len(a \o b) + Len(c \o d)
      /\ \A u : InQueue(Four(a, b, c, d), u) <=> InQueue(a \o b, u) \/ InQueue(c \o d, u)
  <2>1. /\ (a \o b) \o (c \o d) \in Seq(S) /\ Len((a \o b) \o (c \o d)) = Len(a \o b) + Len(c \o d)
        /\ \A u : InQueue((a \o b) \o (c \o d), u) <=> InQueue(a \o b, u) \/ InQueue(c \o d, u)
    <3> DEFINE x == a \o b
               y == c \o d
    <3>1. x \in Seq(S) /\ y \in Seq(S)
      BY <1>1, <1>2
    <3> HIDE DEF x, y
    <3>2. /\ x \o y \in Seq(S) /\ Len(x \o y) = Len(x) + Len(y)
          /\ \A u : InQueue(x \o y, u) <=> InQueue(x, u) \/ InQueue(y, u)
      BY <3>1, Concat
    <3>3. QED
      BY <3>2 DEF x, y
  <2>2. QED
    BY <2>1, Zenon DEF Four
<1>4. Len(a) \in Nat /\ Len(b) \in Nat /\ Len(c) \in Nat /\ Len(d) \in Nat
  BY LenProperties
<1>5. Len(Four(a, b, c, d)) = Len(a) + Len(b) + Len(c) + Len(d)
  <2>1. Len(Four(a, b, c, d)) = (Len(a) + Len(b)) + (Len(c) + Len(d))
    BY <1>1, <1>2, <1>3
  <2>2. QED
    BY <1>4, <2>1
<1>6. QED
  BY <1>1, <1>2, <1>3, <1>5, Zenon

\* and what they begin with: the first that is not empty gives the head.
LEMMA FourOrder ==
    ASSUME NEW S, NEW a \in Seq(S), NEW b \in Seq(S), NEW c \in Seq(S), NEW d \in Seq(S), NEW h, NEW t
    PROVE  /\ Starts(a, h, t) => Starts(Four(a, b, c, d), h, Four(t, b, c, d))
           /\ a = <<>> /\ Starts(b, h, t) => Starts(Four(a, b, c, d), h, Four(a, t, c, d))
           /\ a = <<>> /\ b = <<>> /\ Starts(c, h, t) => Starts(Four(a, b, c, d), h, Four(a, b, t, d))
           /\ a = <<>> /\ b = <<>> /\ c = <<>> /\ Starts(d, h, t) =>
                Starts(Four(a, b, c, d), h, Four(a, b, c, t))
           /\ a = <<>> /\ b = <<>> /\ c = <<>> /\ d = <<>> => Four(a, b, c, d) = <<>>
<1> DEFINE x == a \o b
           y == c \o d
           q == Four(a, b, c, d)
<1>1. /\ x \in Seq(S) /\ (a = <<>> => x = b)
      /\ a # <<>> => x # <<>> /\ Head(x) = Head(a) /\ Tail(x) = Tail(a) \o b
  BY Concat, HeadThenTail
<1>2. /\ y \in Seq(S) /\ (c = <<>> => y = d)
      /\ c # <<>> => y # <<>> /\ Head(y) = Head(c) /\ Tail(y) = Tail(c) \o d
  BY Concat, HeadThenTail
<1>3. q = x \o y
  BY DEF Four
<1> HIDE DEF x, y, q
<1>4. /\ x = <<>> => q = y
      /\ x # <<>> => q # <<>> /\ Head(q) = Head(x) /\ Tail(q) = Tail(x) \o y
  <2>1. /\ x = <<>> => x \o y = y
        /\ x # <<>> => x \o y # <<>> /\ Head(x \o y) = Head(x) /\ Tail(x \o y) = Tail(x) \o y
    BY <1>1, <1>2, HeadThenTail, Zenon
  <2>2. QED
    BY <1>3, <2>1, Zenon
<1>5. \A s \in Seq(S) : <<>> \o s = s
  BY ConcatEmptySeq
<1>6. ASSUME Starts(a, h, t) PROVE Starts(q, h, Four(t, b, c, d))
  BY <1>1, <1>4, <1>6 DEF Four, Starts, y
<1>7. ASSUME a = <<>>, Starts(b, h, t) PROVE Starts(q, h, Four(a, t, c, d))
  <2>1. t \in Seq(S) /\ a \o t = t
    BY <1>5, <1>7, HeadOrTail DEF Starts
  <2>2. QED
    BY <1>1, <1>4, <1>7, <2>1 DEF Four, Starts, y
<1>8. ASSUME a = <<>>, b = <<>> PROVE x = <<>> /\ q = y /\ \A s \in Seq(S) : (a \o b) \o s = s
  <2>1. x = <<>>
    BY <1>1, <1>8
  <2>2. QED
    BY <1>4, <1>5, <2>1 DEF x
<1>9. ASSUME a = <<>>, b = <<>>, Starts(c, h, t) PROVE Starts(q, h, Four(a, b, t, d))
  <2>1. t \in Seq(S)
    BY <1>9, HeadOrTail DEF Starts
  <2>2. t \o d \in Seq(S)
    BY <2>1, Concat
  <2>3. QED
    BY <1>2, <1>8, <1>9, <2>1, <2>2 DEF Four, Starts
<1>10. ASSUME a = <<>>, b = <<>>, c = <<>>, Starts(d, h, t) PROVE Starts(q, h, Four(a, b, c, t))
  <2>1. t \in Seq(S) /\ c \o t = t
    BY <1>5, <1>10, HeadOrTail DEF Starts
  <2>2. QED
    BY <1>2, <1>8, <1>10, <2>1 DEF Four, Starts
<1>11. ASSUME a = <<>>, b = <<>>, c = <<>>, d = <<>> PROVE q = <<>>
  BY <1>2, <1>8, <1>11
<1>12. QED
  BY <1>6, <1>7, <1>9, <1>10, <1>11 DEF q

\* What the LP bundle holds.
LEMMA LpFacts ==
    ASSUME NEW s
    PROVE  /\ LpTxs(s) \in Seq(Txs) /\ Len(LpTxs(s)) <= 4
           /\ \A r \in Role : /\ Takes(s, pool.claimable, claimed, r) => InQueue(LpTxs(s), Claim(r))
                              /\ Takes(s, pool.lockable, locked, r) => InQueue(LpTxs(s), Lock(r))
<1> DEFINE a == When(Takes(s, pool.claimable, claimed, "creator"), Claim("creator"))
           b == When(Takes(s, pool.claimable, claimed, "partner"), Claim("partner"))
           c == When(Takes(s, pool.lockable, locked, "creator"), Lock("creator"))
           d == When(Takes(s, pool.lockable, locked, "partner"), Lock("partner"))
<1>1. Claim("creator") \in Txs /\ Claim("partner") \in Txs /\ Lock("creator") \in Txs /\ Lock("partner") \in Txs
  BY TxsHave DEF Role
<1>2. /\ a \in Seq(Txs) /\ Len(a) \in 0..1
      /\ Takes(s, pool.claimable, claimed, "creator") => InQueue(a, Claim("creator"))
  BY <1>1, WhenFacts
<1>3. /\ b \in Seq(Txs) /\ Len(b) \in 0..1
      /\ Takes(s, pool.claimable, claimed, "partner") => InQueue(b, Claim("partner"))
  BY <1>1, WhenFacts
<1>4. /\ c \in Seq(Txs) /\ Len(c) \in 0..1
      /\ Takes(s, pool.lockable, locked, "creator") => InQueue(c, Lock("creator"))
  BY <1>1, WhenFacts
<1>5. /\ d \in Seq(Txs) /\ Len(d) \in 0..1
      /\ Takes(s, pool.lockable, locked, "partner") => InQueue(d, Lock("partner"))
  BY <1>1, WhenFacts
<1>6. LpTxs(s) = Four(a, b, c, d)
  BY LpIs DEF Both, Four
<1> HIDE DEF a, b, c, d
<1>7. /\ LpTxs(s) \in Seq(Txs) /\ Len(LpTxs(s)) = Len(a) + Len(b) + Len(c) + Len(d)
      /\ \A u : InQueue(LpTxs(s), u) <=> InQueue(a, u) \/ InQueue(b, u) \/ InQueue(c, u) \/ InQueue(d, u)
  <2>1. /\ Four(a, b, c, d) \in Seq(Txs) /\ Len(Four(a, b, c, d)) = Len(a) + Len(b) + Len(c) + Len(d)
        /\ \A u : InQueue(Four(a, b, c, d), u)
                    <=> InQueue(a, u) \/ InQueue(b, u) \/ InQueue(c, u) \/ InQueue(d, u)
    BY <1>2, <1>3, <1>4, <1>5, FourParts
  <2>2. QED
    BY <1>6, <2>1, Zenon
<1>8. Len(LpTxs(s)) <= 4
  <2>1. \A i \in 0..1, j \in 0..1, k \in 0..1, l \in 0..1 : i + j + k + l <= 4
    OBVIOUS
  <2>2. QED
    BY <1>2, <1>3, <1>4, <1>5, <1>7, <2>1, Zenon
<1>9. QED
  BY <1>2, <1>3, <1>4, <1>5, <1>7, <1>8 DEF Role

-----------------------------------------------------------------------------
\* A lone run's next set-up transaction is one the chain accepts, and once it has landed what
\* remains of the queue is what a new run would send.
LEMMA SetupOrder ==
    ASSUME TypeOK, ready, SetupTxs(Now) # <<>>
    PROVE  /\ Applicable(Head(SetupTxs(Now)))
           /\ Apply(Head(SetupTxs(Now))) /\ UNCHANGED setup => SetupTxs(Now)' = Tail(SetupTxs(Now))
<1> DEFINE a == When(pool.v1 /\ ~metadata, Op("metadata"))
           b == When(pool.vesting /\ ~locker, Op("locker"))
           c == When(~migrated, Op("migrate"))
           d == <<>>
           q == SetupTxs(Now)
<1>1. /\ a \in Seq(Txs) /\ (~(pool.v1 /\ ~metadata) => a = <<>>)
      /\ pool.v1 /\ ~metadata => Starts(a, Op("metadata"), <<>>)
  BY TxsHave, WhenFacts
<1>2. /\ b \in Seq(Txs) /\ (~(pool.vesting /\ ~locker) => b = <<>>)
      /\ pool.vesting /\ ~locker => Starts(b, Op("locker"), <<>>)
  BY TxsHave, WhenFacts
<1>3. /\ c \in Seq(Txs) /\ (migrated => c = <<>>)
      /\ ~migrated => Starts(c, Op("migrate"), <<>>)
  BY TxsHave, WhenFacts
<1>4. d \in Seq(Txs)
  BY EmptySeq
<1>5. q = Four(a, b, c, d)
  <2>1. q = (a \o b) \o c
    BY DEF SetupTxs, Now
  <2>2. c \o d = c
    BY <1>3, ConcatEmptySeq
  <2>3. QED
    BY <2>1, <2>2 DEF Four
<1>6. SetupTxs(Now)' = Four(a', b', c', d)
  <2>1. c' \in Seq(Txs)
    BY TxsHave, WhenFacts
  <2>2. c' \o d = c'
    BY <2>1, ConcatEmptySeq
  <2>3. QED
    BY <2>2 DEF SetupTxs, Now, Four
<1>7. pool' = pool /\ metadata' = metadata => a' = a
  OBVIOUS
<1>8. pool' = pool /\ locker' = locker => b' = b
  OBVIOUS
<1>9. migrated' = migrated => c' = c
  OBVIOUS
<1>10. (metadata' = TRUE => a' = <<>>) /\ (locker' = TRUE => b' = <<>>) /\ (migrated' = TRUE => c' = <<>>)
  BY DEF When
<1>11. /\ pool.v1 \in BOOLEAN /\ pool.vesting \in BOOLEAN
       /\ metadata \in BOOLEAN /\ locker \in BOOLEAN /\ migrated \in BOOLEAN
  BY DEF TypeOK, Pools
<1>12. d = <<>> /\ q # <<>>
  OBVIOUS
<1> HIDE DEF a, b, c, d, q
<1>13. CASE pool.v1 /\ ~metadata
  <2>1. Starts(q, Op("metadata"), Four(<<>>, b, c, d))
    BY <1>1, <1>2, <1>3, <1>4, <1>5, <1>13, FourOrder
  <2>2. Applicable(Op("metadata"))
    BY <1>13 DEF Applicable, Op
  <2>3. ASSUME Apply(Op("metadata")), UNCHANGED setup PROVE SetupTxs(Now)' = Four(<<>>, b, c, d)
    <3>1. metadata' = TRUE /\ locker' = locker /\ migrated' = migrated /\ pool' = pool
      BY <1>11, <2>3 DEF Apply, Op, setup
    <3>2. QED
      BY <1>6, <1>8, <1>9, <1>10, <3>1, Zenon
  <2>4. QED
    BY <2>1, <2>2, <2>3, Zenon DEF Starts, q
<1>14. CASE ~(pool.v1 /\ ~metadata) /\ pool.vesting /\ ~locker
  <2>1. Starts(q, Op("locker"), Four(a, <<>>, c, d))
    BY <1>1, <1>2, <1>3, <1>4, <1>5, <1>14, FourOrder
  <2>2. Applicable(Op("locker"))
    BY <1>14 DEF Applicable, Op
  <2>3. ASSUME Apply(Op("locker")), UNCHANGED setup PROVE SetupTxs(Now)' = Four(a, <<>>, c, d)
    <3>1. metadata' = metadata /\ locker' = TRUE /\ migrated' = migrated /\ pool' = pool
      BY <1>11, <2>3 DEF Apply, Op, setup
    <3>2. QED
      BY <1>6, <1>7, <1>9, <1>10, <3>1, Zenon
  <2>4. QED
    BY <2>1, <2>2, <2>3, Zenon DEF Starts, q
<1>15. CASE ~(pool.v1 /\ ~metadata) /\ ~(pool.vesting /\ ~locker) /\ ~migrated
  <2>1. Starts(q, Op("migrate"), Four(a, b, <<>>, d))
    BY <1>1, <1>2, <1>3, <1>4, <1>5, <1>15, FourOrder
  <2>2. Applicable(Op("migrate"))
    BY <1>15 DEF Applicable, Op
  <2>3. ASSUME Apply(Op("migrate")), UNCHANGED setup PROVE SetupTxs(Now)' = Four(a, b, <<>>, d)
    <3>1. metadata' = metadata /\ locker' = locker /\ migrated' = TRUE /\ pool' = pool
      BY <1>11, <2>3 DEF Apply, Op, setup
    <3>2. QED
      BY <1>6, <1>7, <1>8, <1>10, <3>1, Zenon
  <2>4. QED
    BY <2>1, <2>2, <2>3, Zenon DEF Starts, q
<1>16. ~(~(pool.v1 /\ ~metadata) /\ ~(pool.vesting /\ ~locker) /\ migrated)
  BY <1>1, <1>2, <1>3, <1>4, <1>5, <1>12, FourOrder
<1>17. QED
  BY <1>11, <1>13, <1>14, <1>15, <1>16

\* A claim that is due is applicable, and settles itself and nothing else that was due;
LEMMA ClaimDue ==
    ASSUME TypeOK, ready, migrated, NEW r \in Role, Takes(Now, pool.claimable, claimed, r)
    PROVE  /\ Applicable(Claim(r))
           /\ Apply(Claim(r)) /\ UNCHANGED setup =>
                /\ \A p \in Role : Takes(Now, pool.claimable, claimed, p)'
                                    <=> p # r /\ Takes(Now, pool.claimable, claimed, p)
                /\ \A p \in Role : Takes(Now, pool.lockable, locked, p)' <=> Takes(Now, pool.lockable, locked, p)
<1>1. pool.claimable \subseteq Role /\ same \in BOOLEAN /\ claimed \subseteq Role
  BY DEF TypeOK, Pools
<1>2. CASE same
  <2>1. r = "creator" /\ pool.claimable # {} /\ claimed = {}
    BY <1>2 DEF Takes, Now
  <2>2. Applicable(Claim(r))
    BY <1>1, <1>2, <2>1 DEF Applicable, Claim, Beneficiaries
  <2>3. ASSUME Apply(Claim(r)), UNCHANGED setup PROVE claimed' = Role /\ locked' = locked /\ pool' = pool /\ same' = same
    BY <1>1, <1>2, <2>1, <2>3 DEF Apply, Claim, Beneficiaries, setup
  <2>4. QED
    BY <1>2, <2>1, <2>2, <2>3 DEF Takes, Now, Role
<1>3. CASE ~same
  <2>1. r \in pool.claimable \ claimed
    BY <1>3 DEF Takes, Now
  <2>2. Applicable(Claim(r))
    BY <1>1, <1>3, <2>1 DEF Applicable, Claim, Beneficiaries
  <2>3. ASSUME Apply(Claim(r)), UNCHANGED setup
        PROVE  claimed' = claimed \union {r} /\ locked' = locked /\ pool' = pool /\ same' = same
    BY <1>1, <1>3, <2>1, <2>3 DEF Apply, Claim, Beneficiaries, setup
  <2>4. QED
    BY <1>3, <2>1, <2>2, <2>3 DEF Takes, Now
<1>4. QED
  BY <1>2, <1>3

\* the same for a lock.
LEMMA LockDue ==
    ASSUME TypeOK, ready, migrated, NEW r \in Role, Takes(Now, pool.lockable, locked, r)
    PROVE  /\ Applicable(Lock(r))
           /\ Apply(Lock(r)) /\ UNCHANGED setup =>
                /\ \A p \in Role : Takes(Now, pool.lockable, locked, p)'
                                    <=> p # r /\ Takes(Now, pool.lockable, locked, p)
                /\ \A p \in Role : Takes(Now, pool.claimable, claimed, p)' <=> Takes(Now, pool.claimable, claimed, p)
<1>1. pool.lockable \subseteq Role /\ same \in BOOLEAN /\ locked \subseteq Role
  BY DEF TypeOK, Pools
<1>2. CASE same
  <2>1. r = "creator" /\ pool.lockable # {} /\ locked = {}
    BY <1>2 DEF Takes, Now
  <2>2. Applicable(Lock(r))
    BY <1>1, <1>2, <2>1 DEF Applicable, Lock, Beneficiaries
  <2>3. ASSUME Apply(Lock(r)), UNCHANGED setup PROVE locked' = Role /\ claimed' = claimed /\ pool' = pool /\ same' = same
    BY <1>1, <1>2, <2>1, <2>3 DEF Apply, Lock, Beneficiaries, setup
  <2>4. QED
    BY <1>2, <2>1, <2>2, <2>3 DEF Takes, Now, Role
<1>3. CASE ~same
  <2>1. r \in pool.lockable \ locked
    BY <1>3 DEF Takes, Now
  <2>2. Applicable(Lock(r))
    BY <1>1, <1>3, <2>1 DEF Applicable, Lock, Beneficiaries
  <2>3. ASSUME Apply(Lock(r)), UNCHANGED setup
        PROVE  locked' = locked \union {r} /\ claimed' = claimed /\ pool' = pool /\ same' = same
    BY <1>1, <1>3, <2>1, <2>3 DEF Apply, Lock, Beneficiaries, setup
  <2>4. QED
    BY <1>3, <2>1, <2>2, <2>3 DEF Takes, Now
<1>4. QED
  BY <1>2, <1>3

\* The LP bundle that is due now, transaction by transaction.
LpParts ==
    Four(When(Takes(Now, pool.claimable, claimed, "creator"), Claim("creator")),
         When(Takes(Now, pool.claimable, claimed, "partner"), Claim("partner")),
         When(Takes(Now, pool.lockable, locked, "creator"), Lock("creator")),
         When(Takes(Now, pool.lockable, locked, "partner"), Lock("partner")))

\* It is what a new run would send for the pool.
LEMMA LpNow == LpTxs(Now) = LpParts
BY LpIs DEF Both, Four, LpParts

\* A lone run's next LP transaction is one the chain accepts, and once it has landed what
\* remains of the queue is what a new run would send.
LEMMA LpOrder ==
    ASSUME TypeOK, ready, migrated, LpTxs(Now) # <<>>
    PROVE  /\ Applicable(Head(LpTxs(Now)))
           /\ Apply(Head(LpTxs(Now))) /\ UNCHANGED setup => LpTxs(Now)' = Tail(LpTxs(Now))
<1> DEFINE A == Takes(Now, pool.claimable, claimed, "creator")
           B == Takes(Now, pool.claimable, claimed, "partner")
           C == Takes(Now, pool.lockable, locked, "creator")
           D == Takes(Now, pool.lockable, locked, "partner")
           a == When(A, Claim("creator"))
           b == When(B, Claim("partner"))
           c == When(C, Lock("creator"))
           d == When(D, Lock("partner"))
           q == LpTxs(Now)
<1>1. /\ Claim("creator") \in Txs /\ Claim("partner") \in Txs /\ Lock("creator") \in Txs /\ Lock("partner") \in Txs
      /\ "creator" \in Role /\ "partner" \in Role /\ "creator" # "partner"
  BY TxsHave DEF Role
<1>2. a \in Seq(Txs) /\ (~A => a = <<>>) /\ (A => Starts(a, Claim("creator"), <<>>))
  BY <1>1, WhenFacts
<1>3. b \in Seq(Txs) /\ (~B => b = <<>>) /\ (B => Starts(b, Claim("partner"), <<>>))
  BY <1>1, WhenFacts
<1>4. c \in Seq(Txs) /\ (~C => c = <<>>) /\ (C => Starts(c, Lock("creator"), <<>>))
  BY <1>1, WhenFacts
<1>5. d \in Seq(Txs) /\ (~D => d = <<>>) /\ (D => Starts(d, Lock("partner"), <<>>))
  BY <1>1, WhenFacts
<1>6. q = Four(a, b, c, d) /\ LpTxs(Now)' = Four(a', b', c', d')
  <2>1. q = Four(a, b, c, d)
    BY LpNow DEF LpParts
  <2>2. (LpTxs(Now) = LpParts)'
    BY LpNow, PTL
  <2>3. LpTxs(Now)' = Four(a', b', c', d')
    BY <2>2 DEF LpParts
  <2>4. QED
    BY <2>1, <2>3
<1>7. /\ (~A' => a' = <<>>) /\ ((A' <=> A) => a' = a)
      /\ (~B' => b' = <<>>) /\ ((B' <=> B) => b' = b)
      /\ (~C' => c' = <<>>) /\ ((C' <=> C) => c' = c)
      /\ (~D' => d' = <<>>) /\ ((D' <=> D) => d' = d)
  BY DEF When, Claim, Lock
<1>8. q # <<>>
  OBVIOUS
<1>9. CASE A
  <2>1. /\ Applicable(Claim("creator"))
        /\ Apply(Claim("creator")) /\ UNCHANGED setup => ~A' /\ (B' <=> B) /\ (C' <=> C) /\ (D' <=> D)
    BY <1>1, <1>9, ClaimDue
  <2> HIDE DEF a, b, c, d, q, A, B, C, D
  <2>2. Starts(q, Claim("creator"), Four(<<>>, b, c, d))
    BY <1>2, <1>3, <1>4, <1>5, <1>6, <1>9, FourOrder
  <2>3. ASSUME Apply(Claim("creator")), UNCHANGED setup PROVE LpTxs(Now)' = Four(<<>>, b, c, d)
    BY <1>6, <1>7, <2>1, <2>3, Zenon
  <2>4. QED
    BY <2>1, <2>2, <2>3, Zenon DEF Starts, q
<1>10. CASE ~A /\ B
  <2>1. /\ Applicable(Claim("partner"))
        /\ Apply(Claim("partner")) /\ UNCHANGED setup => (A' <=> A) /\ ~B' /\ (C' <=> C) /\ (D' <=> D)
    BY <1>1, <1>10, ClaimDue
  <2> HIDE DEF a, b, c, d, q, A, B, C, D
  <2>2. Starts(q, Claim("partner"), Four(a, <<>>, c, d))
    BY <1>2, <1>3, <1>4, <1>5, <1>6, <1>10, FourOrder
  <2>3. ASSUME Apply(Claim("partner")), UNCHANGED setup PROVE LpTxs(Now)' = Four(a, <<>>, c, d)
    BY <1>6, <1>7, <2>1, <2>3, Zenon
  <2>4. QED
    BY <2>1, <2>2, <2>3, Zenon DEF Starts, q
<1>11. CASE ~A /\ ~B /\ C
  <2>1. /\ Applicable(Lock("creator"))
        /\ Apply(Lock("creator")) /\ UNCHANGED setup => (A' <=> A) /\ (B' <=> B) /\ ~C' /\ (D' <=> D)
    BY <1>1, <1>11, LockDue
  <2> HIDE DEF a, b, c, d, q, A, B, C, D
  <2>2. Starts(q, Lock("creator"), Four(a, b, <<>>, d))
    BY <1>2, <1>3, <1>4, <1>5, <1>6, <1>11, FourOrder
  <2>3. ASSUME Apply(Lock("creator")), UNCHANGED setup PROVE LpTxs(Now)' = Four(a, b, <<>>, d)
    BY <1>6, <1>7, <2>1, <2>3, Zenon
  <2>4. QED
    BY <2>1, <2>2, <2>3, Zenon DEF Starts, q
<1>12. CASE ~A /\ ~B /\ ~C /\ D
  <2>1. /\ Applicable(Lock("partner"))
        /\ Apply(Lock("partner")) /\ UNCHANGED setup => (A' <=> A) /\ (B' <=> B) /\ (C' <=> C) /\ ~D'
    BY <1>1, <1>12, LockDue
  <2> HIDE DEF a, b, c, d, q, A, B, C, D
  <2>2. Starts(q, Lock("partner"), Four(a, b, c, <<>>))
    BY <1>2, <1>3, <1>4, <1>5, <1>6, <1>12, FourOrder
  <2>3. ASSUME Apply(Lock("partner")), UNCHANGED setup PROVE LpTxs(Now)' = Four(a, b, c, <<>>)
    BY <1>6, <1>7, <2>1, <2>3, Zenon
  <2>4. QED
    BY <2>1, <2>2, <2>3, Zenon DEF Starts, q
<1> HIDE DEF a, b, c, d, q, A, B, C, D
<1>13. ~(~A /\ ~B /\ ~C /\ ~D)
  BY <1>2, <1>3, <1>4, <1>5, <1>6, <1>8, FourOrder
<1>14. QED
  BY <1>9, <1>10, <1>11, <1>12, <1>13

-----------------------------------------------------------------------------
\* The type invariant in the three parts that different steps disturb.
Phases   == {"idle", "plan", "setup", "lp"}
Outcomes == {"none", "done", "threw", "skipped"}

WorldOK ==
    /\ pool \in Pools /\ ready \in BOOLEAN /\ same \in BOOLEAN
    /\ metadata \in BOOLEAN /\ locker \in BOOLEAN /\ migrated \in BOOLEAN
    /\ claimed \subseteq Role /\ locked \subseteq Role
    /\ ghosts \subseteq Txs /\ alone \in BOOLEAN
    /\ faults \in 0..Faults /\ transfers \in 0..Transfers

LocalOK ==
    /\ pc \in [Operators -> Phases] /\ report \in [Operators -> Outcomes]
    /\ dry \in [Operators -> BOOLEAN]
    /\ seen \in [Operators -> [migrated : BOOLEAN, same : BOOLEAN]]

QueueOK ==
    /\ QueueInv
    /\ \A o \in Operators : Len(queue[o]) <= 4 /\ (pc[o] = "idle" => queue[o] = <<>>)

\* The parts are the type invariant.
LEMMA TypeParts == TypeOK /\ QueueInv => WorldOK /\ LocalOK /\ QueueOK
BY DEF TypeOK, QueueInv, WorldOK, LocalOK, QueueOK, Phases, Outcomes

\* The parts of the invariant give the type of every variable.
LEMMA TypeWhole == WorldOK /\ LocalOK /\ QueueOK => TypeOK /\ QueueInv
<1>1. SUFFICES ASSUME WorldOK, LocalOK, QueueOK PROVE TypeOK /\ QueueInv
  OBVIOUS
<1>2. QueueInv /\ \A o \in Operators : Len(queue[o]) <= 4 /\ (pc[o] = "idle" => queue[o] = <<>>)
  BY <1>1 DEF QueueOK
<1>3. \A o \in Operators : \A i \in DOMAIN queue[o] : queue[o][i] \in Txs
  BY <1>2 DEF QueueInv
<1>4. QED
  BY <1>1, <1>2, <1>3 DEF TypeOK, WorldOK, LocalOK, Phases, Outcomes

\* The other runs stay where they are.
OthersKept(o) ==
    \A p \in Operators \ {o} :
        /\ pc'[p] = pc[p] /\ dry'[p] = dry[p] /\ seen'[p] = seen[p]
        /\ queue'[p] = queue[p] /\ report'[p] = report[p]

-----------------------------------------------------------------------------
\* A run that ends empties its queue and touches no other run.
LEMMA EndEffect ==
    ASSUME LocalOK, QueueOK, NEW o \in Operators, NEW outcome \in Outcomes, End(o, outcome)
    PROVE  /\ pc' \in [Operators -> Phases] /\ report' \in [Operators -> Outcomes]
           /\ QueueOK'
           /\ pc'[o] = "idle" /\ report'[o] = outcome /\ queue'[o] = <<>>
           /\ \A p \in Operators \ {o} : pc'[p] = pc[p] /\ report'[p] = report[p] /\ queue'[p] = queue[p]
<1>1. /\ pc \in [Operators -> Phases] /\ report \in [Operators -> Outcomes]
      /\ queue \in [Operators -> Seq(Txs)]
      /\ \A p \in Operators : Len(queue[p]) <= 4 /\ (pc[p] = "idle" => queue[p] = <<>>)
  BY DEF LocalOK, QueueOK, QueueInv
<1>2. <<>> \in Seq(Txs) /\ Len(<<>>) <= 4
  BY EmptySeq
<1>3. /\ pc' = [pc EXCEPT ![o] = "idle"] /\ report' = [report EXCEPT ![o] = outcome]
      /\ queue' = [queue EXCEPT ![o] = <<>>]
  BY DEF End
<1>4. /\ pc'[o] = "idle" /\ report'[o] = outcome /\ queue'[o] = <<>>
      /\ \A p \in Operators \ {o} : pc'[p] = pc[p] /\ report'[p] = report[p] /\ queue'[p] = queue[p]
  BY <1>1, <1>3
<1>5. pc' \in [Operators -> Phases] /\ report' \in [Operators -> Outcomes]
  BY <1>1, <1>3 DEF Phases
<1>6. queue' \in [Operators -> Seq(Txs)]
  BY <1>1, <1>2, <1>3
<1>7. \A p \in Operators : Len(queue'[p]) <= 4 /\ (pc'[p] = "idle" => queue'[p] = <<>>)
  BY <1>1, <1>2, <1>4
<1>8. QED
  BY <1>4, <1>5, <1>6, <1>7 DEF QueueOK, QueueInv

\* A run whose transaction landed takes it off its queue and ends with the last one.
LEMMA PopEffect ==
    ASSUME LocalOK, QueueOK, NEW o \in Operators, pc[o] \in {"setup", "lp"}, queue[o] # <<>>, Pop(o)
    PROVE  /\ pc' \in [Operators -> Phases] /\ report' \in [Operators -> Outcomes]
           /\ QueueOK'
           /\ queue'[o] = Tail(queue[o])
           /\ \/ pc[o] = "lp" /\ pc'[o] = "idle" /\ report'[o] = "done" /\ queue'[o] = <<>>
              \/ pc'[o] = pc[o] /\ report'[o] = report[o]
           /\ \A p \in Operators \ {o} : pc'[p] = pc[p] /\ report'[p] = report[p] /\ queue'[p] = queue[p]
<1>1. /\ pc \in [Operators -> Phases] /\ report \in [Operators -> Outcomes]
      /\ queue \in [Operators -> Seq(Txs)]
      /\ \A p \in Operators : Len(queue[p]) <= 4 /\ (pc[p] = "idle" => queue[p] = <<>>)
  BY DEF LocalOK, QueueOK, QueueInv
<1>2. /\ Tail(queue[o]) \in Seq(Txs) /\ Len(Tail(queue[o])) = Len(queue[o]) - 1
      /\ Len(queue[o]) \in Nat /\ Len(queue[o]) > 0
  BY <1>1, HeadOrTail
<1>3. CASE pc[o] = "lp" /\ Len(queue[o]) = 1
  <2>1. End(o, "done")
    BY <1>3 DEF Pop
  <2>2. Tail(queue[o]) = <<>>
    <3>1. Len(Tail(queue[o])) = 0
      BY <1>2, <1>3
    <3>2. QED
      BY <1>2, <3>1, EmptySeq
  <2>3. QED
    BY <1>3, <2>1, <2>2, EndEffect DEF Outcomes
<1>4. CASE ~(pc[o] = "lp" /\ Len(queue[o]) = 1)
  <2>1. queue' = [queue EXCEPT ![o] = Tail(queue[o])] /\ pc' = pc /\ report' = report
    BY <1>4 DEF Pop
  <2>2. queue' \in [Operators -> Seq(Txs)] /\ queue'[o] = Tail(queue[o])
        /\ \A p \in Operators \ {o} : queue'[p] = queue[p]
    BY <1>1, <1>2, <2>1
  <2>3. \A p \in Operators : Len(queue'[p]) <= 4 /\ (pc'[p] = "idle" => queue'[p] = <<>>)
    BY <1>1, <1>2, <2>1, <2>2
  <2>4. QED
    BY <1>1, <2>1, <2>2, <2>3 DEF QueueOK, QueueInv
<1>5. QED
  BY <1>3, <1>4

\* Nothing on chain is undone.
Grows ==
    /\ metadata => metadata'
    /\ locker => locker'
    /\ migrated => migrated'
    /\ claimed \subseteq claimed' /\ locked \subseteq locked'

\* The type of the chain.
ChainOK ==
    /\ metadata \in BOOLEAN /\ locker \in BOOLEAN /\ migrated \in BOOLEAN
    /\ claimed \subseteq Role /\ locked \subseteq Role

\* The shares of one owner are claimed together and locked together.
Paired == same => claimed \in {{}, Role} /\ locked \in {{}, Role}

\* A transaction that lands undoes nothing and takes the shares of one owner together.
LEMMA ApplyEffect ==
    ASSUME WorldOK, NEW t \in Txs, Apply(t), UNCHANGED setup
    PROVE  ChainOK' /\ Grows /\ (Paired => Paired')
<1>1. /\ metadata \in BOOLEAN /\ locker \in BOOLEAN /\ migrated \in BOOLEAN
      /\ claimed \subseteq Role /\ locked \subseteq Role
  BY DEF WorldOK
<1>2. t.role \in Role \/ t.op \in {"metadata", "locker", "migrate"}
  BY DEF Txs, Claim, Lock, Op
<1>3. /\ metadata' = (metadata \/ t.op = "metadata")
      /\ locker' = (locker \/ t.op = "locker")
      /\ migrated' = (migrated \/ t.op = "migrate")
      /\ claimed' = claimed \union (IF t.op = "claim" THEN Beneficiaries(t.role) ELSE {})
      /\ locked' = locked \union (IF t.op = "lock" THEN Beneficiaries(t.role) ELSE {})
      /\ same' = same
  BY DEF Apply, setup
<1>4. /\ t.op = "claim" \/ t.op = "lock" => Beneficiaries(t.role) \subseteq Role
      /\ same => Beneficiaries(t.role) = Role
  BY <1>2 DEF Beneficiaries
<1>5. ChainOK'
  BY <1>1, <1>3, <1>4 DEF ChainOK
<1>6. Grows
  BY <1>3 DEF Grows
<1>7. Paired => Paired'
  BY <1>3, <1>4 DEF Paired
<1>8. QED
  BY <1>5, <1>6, <1>7

\* So does a step that leaves the chain as it is.
LEMMA IdleGrows == WorldOK /\ UNCHANGED chain /\ same' = same => ChainOK' /\ Grows /\ (Paired => Paired')
BY DEF WorldOK, chain, ChainOK, Grows, Paired

\* What a step leaves of a run it does not advance: it stays a run that loses nothing,
LEMMA LiveKept ==
    ASSUME NEW o \in Operators, Live(o), Grows, pool' = pool,
           transfers' = 0 => transfers = 0 /\ same' = same,
           pc'[o] = pc[o], dry'[o] = dry[o], queue'[o] = queue[o], report'[o] = report[o]
    PROVE  Live(o)'
<1>1. SUFFICES ASSUME ~dry[o] PROVE Live(o)'
  BY DEF Live
<1>2. /\ pc[o] = "setup" => /\ migrated \/ InQueue(queue[o], Op("migrate"))
                            /\ pool.vesting => locker \/ InQueue(queue[o], Op("locker"))
      /\ pc[o] = "lp" => Graduated
      /\ pc[o] = "lp" /\ transfers = 0 => /\ \A r \in pool.claimable : ClaimHeading(o, r)
                                          /\ \A r \in pool.lockable : LockHeading(o, r)
      /\ report[o] = "done" => Graduated /\ (transfers = 0 => Complete)
  BY <1>1 DEF Live
<1>3. (Graduated => Graduated') /\ (Complete => Complete')
  BY DEF Graduated, Complete, Grows
<1>4. \A t : InQueue(queue[o], t) <=> InQueue(queue'[o], t)
  OBVIOUS
<1>5. pc'[o] = "setup" => /\ migrated' \/ InQueue(queue'[o], Op("migrate"))
                          /\ pool'.vesting => locker' \/ InQueue(queue'[o], Op("locker"))
  BY <1>2 DEF Grows
<1>6. ASSUME transfers' = 0, NEW r
      PROVE  (ClaimHeading(o, r) => ClaimHeading(o, r)') /\ (LockHeading(o, r) => LockHeading(o, r)')
  <2>1. \A b : Beneficiaries(b)' = Beneficiaries(b)
    BY <1>6 DEF Beneficiaries
  <2>2. (r \in claimed => r \in claimed') /\ (r \in locked => r \in locked')
    BY DEF Grows
  <2>3. QED
    BY <1>4, <2>1, <2>2 DEF ClaimHeading, LockHeading
<1>7. pc'[o] = "lp" /\ transfers' = 0 => /\ \A r \in pool'.claimable : ClaimHeading(o, r)'
                                         /\ \A r \in pool'.lockable : LockHeading(o, r)'
  BY <1>2, <1>6
<1>8. (pc'[o] = "lp" => Graduated') /\ (report'[o] = "done" => Graduated' /\ (transfers' = 0 => Complete'))
  BY <1>2, <1>3
<1>9. QED
  BY <1>5, <1>7, <1>8 DEF Live

\* and the bundles it would build depend on the chain and the pool alone.
LEMMA PlansKept ==
    /\ pool' = pool /\ metadata' = metadata /\ locker' = locker /\ migrated' = migrated
         => SetupTxs(Now)' = SetupTxs(Now)
    /\ pool' = pool /\ claimed' = claimed /\ locked' = locked /\ same' = same
         => LpTxs(Now)' = LpTxs(Now)
    /\ \A s : s.migrated = migrated => SetupTxs(s) = SetupTxs(Now)
    /\ \A s : s.same = same => LpTxs(s) = LpTxs(Now)
<1>1. pool' = pool /\ metadata' = metadata /\ locker' = locker /\ migrated' = migrated
         => SetupTxs(Now)' = SetupTxs(Now)
  BY DEF SetupTxs, Now
<1>2. ASSUME pool' = pool, claimed' = claimed, locked' = locked, same' = same
      PROVE  LpTxs(Now)' = LpTxs(Now)
  <2>1. Due(Now, pool.claimable, claimed)' = Due(Now, pool.claimable, claimed)
        /\ Due(Now, pool.lockable, locked)' = Due(Now, pool.lockable, locked)
    BY <1>2 DEF Due, Now
  <2>2. QED
    BY <2>1, Zenon DEF LpTxs
<1>3. \A s : s.migrated = migrated => SetupTxs(s) = SetupTxs(Now)
  BY DEF SetupTxs, Now
<1>4. ASSUME NEW s, s.same = same PROVE LpTxs(s) = LpTxs(Now)
  <2>1. Due(s, pool.claimable, claimed) = Due(Now, pool.claimable, claimed)
        /\ Due(s, pool.lockable, locked) = Due(Now, pool.lockable, locked)
    BY <1>4 DEF Due, Now
  <2>2. QED
    BY <2>1, Zenon DEF LpTxs
<1>5. QED
  BY <1>1, <1>2, <1>3, <1>4

\* A lone run's queue stays the right one while the chain does not change.
LEMMA LoneKept ==
    ASSUME NEW o \in Operators, Lone(o), UNCHANGED chain, pool' = pool, same' = same, ready => ready',
           pc'[o] = pc[o], dry'[o] = dry[o], queue'[o] = queue[o], seen'[o] = seen[o]
    PROVE  Lone(o)'
BY PlansKept DEF Lone, chain

-----------------------------------------------------------------------------
\* The invariant, in the parts that the steps are checked against.
Whole ==
    /\ WorldOK /\ LocalOK /\ QueueOK
    /\ pool.v1 \/ (pool.claimable = {} /\ pool.lockable = {})
    /\ transfers = 0 => Paired
    /\ \A o \in Operators : seen[o].migrated => migrated
    /\ \A o \in Operators : pc[o] # "idle" /\ transfers = 0 => seen[o].same = same
    /\ \A o \in Operators : Live(o)
    /\ alone => ghosts = {} /\ transfers = 0 /\ \A o \in Operators : Lone(o)

\* The conjunction by parts is the invariant.
LEMMA WholeIs == Whole <=> DbcInv
<1>1. Whole => DbcInv
  BY TypeWhole DEF Whole, SnapshotInv, Paired, LiveInv, AloneInv, DbcInv
<1>2. DbcInv => Whole
  <2>1. DbcInv => TypeOK /\ QueueInv /\ SnapshotInv /\ LiveInv /\ AloneInv
    BY DEF DbcInv
  <2>2. QED
    BY <2>1, TypeParts DEF Whole, SnapshotInv, LiveInv, AloneInv, Paired
<1>3. QED
  BY <1>1, <1>2

\* A step of one operator: what has to be shown of it.
Advance(o) ==
    /\ WorldOK' /\ LocalOK' /\ QueueOK' /\ OthersKept(o) /\ Grows
    /\ pool' = pool /\ ready' = ready /\ same' = same /\ transfers' = transfers
    /\ Paired => Paired'
    /\ seen'[o].migrated => migrated'
    /\ pc'[o] # "idle" /\ transfers = 0 => seen'[o].same = same
    /\ Live(o)'
    /\ alone' => /\ alone /\ ghosts' = ghosts /\ Lone(o)'
                 /\ UNCHANGED chain \/ \A p \in Operators \ {o} : pc[p] = "idle"

\* That is enough: the other runs lose nothing by it.
LEMMA AdvanceKeeps ==
    ASSUME Whole, NEW o \in Operators, Advance(o)
    PROVE  Whole'
<1>1. /\ pool.v1 \/ (pool.claimable = {} /\ pool.lockable = {})
      /\ transfers = 0 => Paired
      /\ \A p \in Operators : seen[p].migrated => migrated
      /\ \A p \in Operators : pc[p] # "idle" /\ transfers = 0 => seen[p].same = same
      /\ \A p \in Operators : Live(p)
      /\ alone => ghosts = {} /\ transfers = 0 /\ \A p \in Operators : Lone(p)
  BY DEF Whole
<1>2. /\ WorldOK' /\ LocalOK' /\ QueueOK' /\ OthersKept(o) /\ Grows
      /\ pool' = pool /\ ready' = ready /\ same' = same /\ transfers' = transfers
      /\ Paired => Paired'
      /\ seen'[o].migrated => migrated'
      /\ pc'[o] # "idle" /\ transfers = 0 => seen'[o].same = same
      /\ Live(o)'
      /\ alone' => /\ alone /\ ghosts' = ghosts /\ Lone(o)'
                   /\ UNCHANGED chain \/ \A p \in Operators \ {o} : pc[p] = "idle"
  BY DEF Advance
<1>3. ASSUME NEW p \in Operators \ {o}
      PROVE  /\ pc'[p] = pc[p] /\ dry'[p] = dry[p] /\ seen'[p] = seen[p]
             /\ queue'[p] = queue[p] /\ report'[p] = report[p]
  BY <1>2 DEF OthersKept
<1>4. \A p \in Operators : seen'[p].migrated => migrated'
  BY <1>1, <1>2, <1>3 DEF Grows
<1>5. \A p \in Operators : pc'[p] # "idle" /\ transfers' = 0 => seen'[p].same = same'
  BY <1>1, <1>2, <1>3
<1>6. ASSUME NEW p \in Operators PROVE Live(p)'
  <2>1. CASE p = o
    BY <1>2, <2>1
  <2>2. CASE p # o
    <3>1. Live(p) /\ pc'[p] = pc[p] /\ dry'[p] = dry[p] /\ queue'[p] = queue[p] /\ report'[p] = report[p]
      BY <1>1, <1>3, <2>2
    <3>2. QED
      BY <1>2, <3>1, LiveKept
  <2>3. QED
    BY <2>1, <2>2
<1>7. ASSUME alone', NEW p \in Operators PROVE Lone(p)'
  <2>1. CASE p = o
    BY <1>2, <1>7, <2>1
  <2>2. CASE p # o /\ UNCHANGED chain
    <3>1. /\ Lone(p)
          /\ pc'[p] = pc[p] /\ dry'[p] = dry[p] /\ queue'[p] = queue[p] /\ seen'[p] = seen[p]
      BY <1>1, <1>2, <1>3, <1>7, <2>2
    <3>2. QED
      BY <1>2, <2>2, <3>1, LoneKept
  <2>3. CASE p # o /\ pc[p] = "idle"
    BY <1>3, <2>3 DEF Lone
  <2>4. QED
    BY <1>2, <1>7, <2>1, <2>2, <2>3
<1>8. QED
  <2>1. pool'.v1 \/ (pool'.claimable = {} /\ pool'.lockable = {})
    BY <1>1, <1>2
  <2>2. transfers' = 0 => Paired'
    BY <1>1, <1>2
  <2>3. alone' => ghosts' = {} /\ transfers' = 0 /\ \A p \in Operators : Lone(p)'
    BY <1>1, <1>2, <1>7
  <2>4. QED
    BY <1>2, <1>4, <1>5, <1>6, <2>1, <2>2, <2>3 DEF Whole

\* A step that changes no chain and no pool keeps their type.
LEMMA WorldSame ==
    ASSUME WorldOK, UNCHANGED <<setup, chain>>, ghosts' \subseteq Txs, alone' \in BOOLEAN,
           faults' \in 0..Faults, transfers' = transfers
    PROVE  WorldOK'
BY DEF WorldOK, setup, chain

-----------------------------------------------------------------------------
\* The steps of a run, one lemma for each: reading the pool,
LEMMA ReadPoolAdvances == ASSUME Whole, NEW o \in Operators, ReadPool(o) PROVE Advance(o)
<1>1. /\ WorldOK /\ LocalOK /\ QueueOK /\ Live(o)
      /\ pc \in [Operators -> Phases] /\ report \in [Operators -> Outcomes]
      /\ dry \in [Operators -> BOOLEAN]
      /\ seen \in [Operators -> [migrated : BOOLEAN, same : BOOLEAN]]
  BY DEF Whole, LocalOK
<1>2. /\ pc[o] = "idle" /\ UNCHANGED <<setup, chain, ghosts, alone, budget>>
      /\ seen' = [seen EXCEPT ![o] = Now]
  BY DEF ReadPool, Now
<1>3. PICK d \in DryRun : dry' = [dry EXCEPT ![o] = d]
  BY DEF ReadPool
<1>4. WorldOK'
  BY <1>1, <1>2, WorldSame DEF WorldOK, budget
<1>5. Now \in [migrated : BOOLEAN, same : BOOLEAN] /\ Now.migrated = migrated /\ Now.same = same
  BY <1>1 DEF WorldOK, Now
<1>6. /\ seen' \in [Operators -> [migrated : BOOLEAN, same : BOOLEAN]] /\ seen'[o] = Now
      /\ \A p \in Operators \ {o} : seen'[p] = seen[p]
  BY <1>1, <1>2, <1>5
<1>7. dry' \in [Operators -> BOOLEAN] /\ \A p \in Operators \ {o} : dry'[p] = dry[p]
  BY <1>1, <1>3, DbcMigrationAssumption
<1>8. /\ pc' \in [Operators -> Phases] /\ report' \in [Operators -> Outcomes] /\ QueueOK'
      /\ pc'[o] \in {"idle", "plan"} /\ report'[o] \in {"none", "threw"} /\ (pc'[o] = "plan" => ready)
      /\ \A p \in Operators \ {o} : pc'[p] = pc[p] /\ report'[p] = report[p] /\ queue'[p] = queue[p]
  <2>1. CASE ready
    <3>1. pc' = [pc EXCEPT ![o] = "plan"] /\ report' = [report EXCEPT ![o] = "none"] /\ queue' = queue
      BY <2>1 DEF ReadPool
    <3>2. /\ pc' \in [Operators -> Phases] /\ report' \in [Operators -> Outcomes]
          /\ pc'[o] = "plan" /\ report'[o] = "none"
          /\ \A p \in Operators \ {o} : pc'[p] = pc[p] /\ report'[p] = report[p]
      BY <1>1, <3>1 DEF Phases, Outcomes
    <3>3. QueueOK'
      BY <1>1, <3>1, <3>2 DEF QueueOK, QueueInv
    <3>4. QED
      BY <2>1, <3>1, <3>2, <3>3
  <2>2. CASE ~ready
    <3>1. End(o, "threw") /\ "threw" \in Outcomes
      BY <2>2 DEF ReadPool, Outcomes
    <3>2. QED
      BY <1>1, <3>1, EndEffect
  <2>3. QED
    BY <2>1, <2>2
<1>9. LocalOK' /\ OthersKept(o)
  BY <1>6, <1>7, <1>8 DEF LocalOK, OthersKept
<1>10. Live(o)'
  BY <1>8 DEF Live
<1>11. Lone(o)'
  BY <1>2, <1>5, <1>6, <1>8 DEF Lone, setup, chain
<1>12. Grows /\ (Paired => Paired') /\ pool' = pool /\ ready' = ready /\ same' = same /\ transfers' = transfers
       /\ migrated' = migrated /\ ghosts' = ghosts /\ alone' = alone
  BY <1>1, <1>2, IdleGrows DEF setup, budget, chain
<1>13. QED
  BY <1>2, <1>4, <1>5, <1>6, <1>8, <1>9, <1>10, <1>11, <1>12 DEF Advance

\* building the set-up bundle,
LEMMA PlanAdvances == ASSUME Whole, NEW o \in Operators, Plan(o) PROVE Advance(o)
<1>1. /\ WorldOK /\ LocalOK /\ QueueOK /\ Live(o) /\ TypeOK
      /\ seen[o].migrated => migrated
      /\ pc[o] # "idle" /\ transfers = 0 => seen[o].same = same
      /\ alone => Lone(o)
      /\ pc \in [Operators -> Phases] /\ seen \in [Operators -> [migrated : BOOLEAN, same : BOOLEAN]]
      /\ queue \in [Operators -> Seq(Txs)]
      /\ \A p \in Operators : Len(queue[p]) <= 4 /\ (pc[p] = "idle" => queue[p] = <<>>)
  BY WholeIs DEF Whole, LocalOK, QueueOK, QueueInv, DbcInv
<1>2. /\ pc[o] = "plan" /\ pc' = [pc EXCEPT ![o] = "setup"]
      /\ queue' = [queue EXCEPT ![o] = SetupTxs(seen[o])]
      /\ UNCHANGED <<setup, chain, dry, seen, report, ghosts, alone, budget>>
  BY DEF Plan
<1>3. /\ SetupTxs(seen[o]) \in Seq(Txs) /\ Len(SetupTxs(seen[o])) <= 3
      /\ ~seen[o].migrated => InQueue(SetupTxs(seen[o]), Op("migrate"))
      /\ pool.vesting /\ ~locker => InQueue(SetupTxs(seen[o]), Op("locker"))
  <2>1. seen[o].migrated \in BOOLEAN
    BY <1>1
  <2>2. QED
    BY <1>1, <2>1, SetupFacts
<1>4. /\ pc' \in [Operators -> Phases] /\ pc'[o] = "setup"
      /\ \A p \in Operators \ {o} : pc'[p] = pc[p]
  BY <1>1, <1>2 DEF Phases
<1>5. /\ queue' \in [Operators -> Seq(Txs)] /\ queue'[o] = SetupTxs(seen[o])
      /\ \A p \in Operators \ {o} : queue'[p] = queue[p]
  BY <1>1, <1>2, <1>3
<1>6. QueueOK'
  <2>1. Len(queue'[o]) <= 4
    <3>1. Len(SetupTxs(seen[o])) \in Nat
      BY <1>3, LenProperties
    <3>2. QED
      BY <1>3, <1>5, <3>1
  <2>2. QED
    BY <1>1, <1>4, <1>5, <2>1 DEF QueueOK, QueueInv
<1>7. LocalOK' /\ OthersKept(o)
  BY <1>1, <1>2, <1>4, <1>5 DEF LocalOK, OthersKept
<1>8. WorldOK'
  BY <1>1, <1>2, WorldSame DEF WorldOK, budget
<1>9. Grows /\ (Paired => Paired') /\ pool' = pool /\ ready' = ready /\ same' = same /\ transfers' = transfers
      /\ migrated' = migrated /\ locker' = locker /\ ghosts' = ghosts /\ alone' = alone
      /\ claimed' = claimed /\ locked' = locked
  BY <1>1, <1>2, IdleGrows DEF setup, budget, chain
<1>10. Live(o)'
  <2>1. report'[o] = "done" /\ ~dry'[o] => Graduated' /\ (transfers' = 0 => Complete')
    BY <1>1, <1>2, <1>9 DEF Live, Graduated, Complete
  <2>2. /\ migrated' \/ InQueue(queue'[o], Op("migrate"))
        /\ pool'.vesting => locker' \/ InQueue(queue'[o], Op("locker"))
    BY <1>1, <1>3, <1>5, <1>9
  <2>3. QED
    BY <1>4, <2>1, <2>2 DEF Live
<1>11. alone => Lone(o)'
  <2>1. alone => ready /\ seen[o].migrated = migrated
    BY <1>1, <1>2 DEF Lone
  <2>2. alone => queue'[o] = SetupTxs(Now)'
    <3>1. pool' = pool /\ metadata' = metadata /\ locker' = locker /\ migrated' = migrated
      BY <1>2 DEF setup, chain
    <3>2. QED
      BY <1>5, <2>1, <3>1, PlansKept
  <2>3. QED
    BY <1>4, <1>9, <2>1, <2>2 DEF Lone
<1>12. QED
  BY <1>1, <1>2, <1>6, <1>7, <1>8, <1>9, <1>10, <1>11 DEF Advance

\* ending, where the chain stays as it is,
LEMMA EndAdvances ==
    ASSUME Whole, NEW o \in Operators, NEW outcome \in Outcomes, End(o, outcome),
           UNCHANGED <<setup, chain, dry, seen, transfers>>,
           ghosts' \subseteq Txs, faults' \in 0..Faults, alone' \in BOOLEAN,
           alone' => alone /\ ghosts' = ghosts,
           outcome = "done" /\ ~dry[o] => Graduated /\ (transfers = 0 => Complete)
    PROVE  Advance(o)
<1>1. /\ WorldOK /\ LocalOK /\ QueueOK /\ (seen[o].migrated => migrated)
      /\ dry \in [Operators -> BOOLEAN]
      /\ seen \in [Operators -> [migrated : BOOLEAN, same : BOOLEAN]]
  BY DEF Whole, LocalOK
<1>2. /\ pc' \in [Operators -> Phases] /\ report' \in [Operators -> Outcomes] /\ QueueOK'
      /\ pc'[o] = "idle" /\ report'[o] = outcome
      /\ \A p \in Operators \ {o} : pc'[p] = pc[p] /\ report'[p] = report[p] /\ queue'[p] = queue[p]
  BY <1>1, EndEffect
<1>3. WorldOK'
  BY <1>1, WorldSame
<1>4. LocalOK' /\ OthersKept(o)
  BY <1>1, <1>2 DEF LocalOK, OthersKept
<1>5. Grows /\ (Paired => Paired') /\ pool' = pool /\ ready' = ready /\ same' = same /\ transfers' = transfers
      /\ migrated' = migrated /\ locker' = locker /\ claimed' = claimed /\ locked' = locked
      /\ UNCHANGED chain /\ dry' = dry /\ seen' = seen
  BY <1>1, IdleGrows DEF setup, chain
<1>6. Live(o)' /\ Lone(o)'
  BY <1>2, <1>5 DEF Live, Lone, Graduated, Complete
<1>7. QED
  BY <1>1, <1>2, <1>3, <1>4, <1>5, <1>6 DEF Advance

\* having a transaction refused,
LEMMA RefusedAdvances == ASSUME Whole, NEW o \in Operators, Refused(o) PROVE Advance(o)
<1>1. WorldOK
  BY DEF Whole
<1>2. End(o, "threw") /\ UNCHANGED <<setup, chain, dry, seen, ghosts, alone, budget>>
  BY DEF Refused
<1>3. /\ ghosts' \subseteq Txs /\ faults' \in 0..Faults /\ alone' \in BOOLEAN
      /\ alone' = alone /\ ghosts' = ghosts /\ "threw" \in Outcomes
      /\ UNCHANGED <<setup, chain, dry, seen, transfers>>
  BY <1>1, <1>2 DEF WorldOK, budget, Outcomes
<1>4. QED
  BY <1>2, <1>3, EndAdvances

\* losing sight of one,
LEMMA UnconfirmedAdvances == ASSUME Whole, NEW o \in Operators, Unconfirmed(o) PROVE Advance(o)
<1>1. WorldOK /\ queue[o] \in Seq(Txs) /\ queue[o] # <<>>
  BY DEF Whole, QueueOK, QueueInv, Unconfirmed
<1>2. /\ End(o, "threw") /\ UNCHANGED <<setup, chain, dry, seen, transfers>>
      /\ faults < Faults /\ faults' = faults + 1 /\ alone' = FALSE
      /\ ghosts' = ghosts \union {Head(queue[o])}
  BY DEF Unconfirmed
<1>3. ghosts' \subseteq Txs
  <2>1. Head(queue[o]) \in Txs
    BY <1>1, HeadOrTail
  <2>2. QED
    BY <1>1, <1>2, <2>1 DEF WorldOK
<1>4. faults' \in 0..Faults
  BY <1>1, <1>2, DbcMigrationAssumption DEF WorldOK
<1>5. QED
  BY <1>2, <1>3, <1>4, EndAdvances DEF Outcomes

\* being stopped,
LEMMA KillAdvances == ASSUME Whole, NEW o \in Operators, Kill(o) PROVE Advance(o)
<1>1. WorldOK
  BY DEF Whole
<1>2. /\ End(o, "none") /\ UNCHANGED <<setup, chain, dry, seen, ghosts, alone, transfers>>
      /\ faults < Faults /\ faults' = faults + 1
  BY DEF Kill
<1>3. /\ ghosts' \subseteq Txs /\ alone' \in BOOLEAN /\ ghosts' = ghosts /\ alone' = alone
      /\ faults' \in 0..Faults /\ "none" \in Outcomes
  BY <1>1, <1>2, DbcMigrationAssumption DEF WorldOK, Outcomes
<1>4. QED
  BY <1>2, <1>3, EndAdvances

\* The LP bundle covers every share that has not been taken, by the role's own transaction or
\* by the combined one.
LEMMA LpCovers ==
    ASSUME WorldOK, Paired, NEW s, s.same = same, NEW r \in Role
    PROVE  /\ r \in pool.claimable \ claimed =>
                 \E b \in Role : r \in Beneficiaries(b) /\ InQueue(LpTxs(s), Claim(b))
           /\ r \in pool.lockable \ locked =>
                 \E b \in Role : r \in Beneficiaries(b) /\ InQueue(LpTxs(s), Lock(b))
<1> DEFINE first == IF same THEN "creator" ELSE r
<1>1. first \in Role /\ r \in Beneficiaries(first)
  BY DEF Role, Beneficiaries
<1>2. same => (r \notin claimed => claimed = {}) /\ (r \notin locked => locked = {})
  BY DEF Paired
<1>3. /\ r \in pool.claimable \ claimed => Takes(s, pool.claimable, claimed, first)
      /\ r \in pool.lockable \ locked => Takes(s, pool.lockable, locked, first)
  BY <1>2 DEF Takes
<1>4. /\ Takes(s, pool.claimable, claimed, first) => InQueue(LpTxs(s), Claim(first))
      /\ Takes(s, pool.lockable, locked, first) => InQueue(LpTxs(s), Lock(first))
  BY <1>1, LpFacts
<1> HIDE DEF first
<1>5. QED
  BY <1>1, <1>3, <1>4

\* building the LP bundle: it covers what is claimable and lockable,
LEMMA PlanLpAdvances == ASSUME Whole, NEW o \in Operators, PlanLp(o) PROVE Advance(o)
<1>1. /\ WorldOK /\ LocalOK /\ QueueOK /\ Live(o)
      /\ pool.v1 \/ (pool.claimable = {} /\ pool.lockable = {})
      /\ transfers = 0 => Paired
      /\ seen[o].migrated => migrated
      /\ pc[o] # "idle" /\ transfers = 0 => seen[o].same = same
      /\ alone => transfers = 0 /\ Lone(o)
      /\ pool.claimable \subseteq Role /\ pool.lockable \subseteq Role
      /\ dry \in [Operators -> BOOLEAN]
  BY DEF Whole, LocalOK, WorldOK, Pools
<1>2. /\ pc[o] = "setup" /\ queue[o] = <<>>
      /\ UNCHANGED <<setup, chain, dry, seen, ghosts, alone, budget>>
  BY DEF PlanLp
<1>3. ~dry[o] => Graduated
  <2>1. \A t : ~InQueue(queue[o], t)
    BY <1>2 DEF InQueue
  <2>2. QED
    BY <1>1, <1>2, <2>1 DEF Live, Graduated
<1>4. ASSUME NEW outcome \in Outcomes, End(o, outcome),
             outcome = "done" /\ ~dry[o] => Graduated /\ (transfers = 0 => Complete)
      PROVE  Advance(o)
  <2>1. /\ UNCHANGED <<setup, chain, dry, seen, transfers>> /\ ghosts' = ghosts /\ alone' = alone
        /\ ghosts' \subseteq Txs /\ faults' \in 0..Faults /\ alone' \in BOOLEAN
    BY <1>1, <1>2 DEF WorldOK, budget
  <2>2. QED
    BY <1>4, <2>1, EndAdvances
<1>5. transfers = 0 =>
        \A r \in Role :
           /\ r \in pool.claimable \ claimed =>
                 \E b \in Role : r \in Beneficiaries(b) /\ InQueue(LpTxs(seen[o]), Claim(b))
           /\ r \in pool.lockable \ locked =>
                 \E b \in Role : r \in Beneficiaries(b) /\ InQueue(LpTxs(seen[o]), Lock(b))
  BY <1>1, <1>2, LpCovers
<1>6. CASE ~pool.v1 /\ End(o, "done")
  BY <1>1, <1>3, <1>4, <1>6 DEF Outcomes, Complete
<1>7. CASE End(o, "skipped") \/ End(o, "threw")
  BY <1>4, <1>7 DEF Outcomes
<1>8. CASE LpTxs(seen[o]) = <<>> /\ End(o, "done")
  <2>1. \A t : ~InQueue(LpTxs(seen[o]), t)
    BY <1>8 DEF InQueue
  <2>2. transfers = 0 => pool.claimable \subseteq claimed /\ pool.lockable \subseteq locked
    BY <1>1, <1>5, <2>1
  <2>3. QED
    BY <1>3, <1>4, <1>8, <2>2 DEF Outcomes, Complete
<1>9. CASE /\ queue' = [queue EXCEPT ![o] = LpTxs(seen[o])]
           /\ pc' = [pc EXCEPT ![o] = "lp"] /\ report' = report
  <2>1. /\ pc \in [Operators -> Phases] /\ queue \in [Operators -> Seq(Txs)]
        /\ \A p \in Operators : Len(queue[p]) <= 4 /\ (pc[p] = "idle" => queue[p] = <<>>)
    BY <1>1 DEF LocalOK, QueueOK, QueueInv
  <2>2. LpTxs(seen[o]) \in Seq(Txs) /\ Len(LpTxs(seen[o])) <= 4
    BY LpFacts
  <2>3. pc' \in [Operators -> Phases] /\ pc'[o] = "lp" /\ \A p \in Operators \ {o} : pc'[p] = pc[p]
    BY <1>9, <2>1 DEF Phases
  <2>4. /\ queue' \in [Operators -> Seq(Txs)] /\ queue'[o] = LpTxs(seen[o])
        /\ \A p \in Operators \ {o} : queue'[p] = queue[p]
    BY <1>9, <2>1, <2>2
  <2>5. QueueOK'
    BY <2>1, <2>2, <2>3, <2>4 DEF QueueOK, QueueInv
  <2>6. LocalOK' /\ OthersKept(o)
    BY <1>1, <1>2, <1>9, <2>3, <2>4 DEF LocalOK, OthersKept
  <2>7. WorldOK'
    BY <1>1, <1>2, WorldSame DEF WorldOK, budget
  <2>8. Grows /\ (Paired => Paired') /\ pool' = pool /\ ready' = ready /\ same' = same
        /\ transfers' = transfers /\ migrated' = migrated /\ locker' = locker /\ ghosts' = ghosts
        /\ alone' = alone /\ claimed' = claimed /\ locked' = locked /\ dry' = dry /\ seen' = seen
        /\ UNCHANGED chain
    BY <1>1, <1>2, IdleGrows DEF setup, budget, chain
  <2>9. Live(o)'
    <3>1. (Graduated <=> Graduated') /\ (Complete <=> Complete')
      BY <2>8 DEF Graduated, Complete
    <3>2. ~dry[o] /\ report'[o] = "done" => Graduated' /\ (transfers' = 0 => Complete')
      BY <1>1, <1>9, <2>8, <3>1 DEF Live
    <3>3. \A b : Beneficiaries(b)' = Beneficiaries(b)
      BY <2>8 DEF Beneficiaries
    <3>4. transfers' = 0 => /\ \A r \in pool'.claimable : ClaimHeading(o, r)'
                            /\ \A r \in pool'.lockable : LockHeading(o, r)'
      BY <1>1, <1>5, <2>4, <2>8, <3>3 DEF ClaimHeading, LockHeading
    <3>5. QED
      BY <1>3, <2>3, <2>8, <3>1, <3>2, <3>4 DEF Live
  <2>10. alone => Lone(o)'
    <3>1. alone => ready /\ seen[o].same = same
      BY <1>1, <1>2 DEF Lone
    <3>2. alone => queue'[o] = LpTxs(Now)'
      BY <2>4, <2>8, <3>1, PlansKept
    <3>3. QED
      BY <2>3, <2>8, <3>1, <3>2 DEF Lone
  <2>11. QED
    BY <1>1, <1>2, <2>3, <2>5, <2>6, <2>7, <2>8, <2>9, <2>10 DEF Advance
<1>10. QED
  BY <1>6, <1>7, <1>8, <1>9 DEF PlanLp

\* simulating, in a dry run,
LEMMA SimulateAdvances == ASSUME Whole, NEW o \in Operators, Simulate(o) PROVE Advance(o)
<1>1. /\ WorldOK /\ LocalOK /\ QueueOK
      /\ seen[o].migrated => migrated
      /\ pc[o] # "idle" /\ transfers = 0 => seen[o].same = same
      /\ alone => Lone(o)
  BY DEF Whole
<1>2. /\ pc[o] \in {"setup", "lp"} /\ queue[o] # <<>> /\ dry[o] /\ Pop(o)
      /\ UNCHANGED <<setup, chain, dry, seen, ghosts, alone, budget>>
  BY DEF Simulate
<1>3. /\ pc' \in [Operators -> Phases] /\ report' \in [Operators -> Outcomes] /\ QueueOK'
      /\ pc'[o] = pc[o] \/ pc'[o] = "idle"
      /\ \A p \in Operators \ {o} : pc'[p] = pc[p] /\ report'[p] = report[p] /\ queue'[p] = queue[p]
  BY <1>1, <1>2, PopEffect
<1>4. LocalOK' /\ OthersKept(o)
  BY <1>1, <1>2, <1>3 DEF LocalOK, OthersKept
<1>5. WorldOK'
  BY <1>1, <1>2, WorldSame DEF WorldOK, budget
<1>6. Grows /\ (Paired => Paired') /\ pool' = pool /\ ready' = ready /\ same' = same
      /\ transfers' = transfers /\ migrated' = migrated /\ ghosts' = ghosts
      /\ alone' = alone /\ dry' = dry /\ seen' = seen /\ UNCHANGED chain
  BY <1>1, <1>2, IdleGrows DEF setup, budget, chain
<1>7. Live(o)' /\ (alone => Lone(o)')
  BY <1>1, <1>2, <1>3, <1>6 DEF Live, Lone
<1>8. QED
  BY <1>1, <1>2, <1>3, <1>4, <1>5, <1>6, <1>7 DEF Advance

\* and landing a transaction: what it brings about leaves the queue and is on chain; a lone
\* run is never refused.
LEMMA SendAdvances == ASSUME Whole, NEW o \in Operators, Send(o) PROVE Advance(o)
<1>1. /\ WorldOK /\ LocalOK /\ QueueOK /\ Live(o) /\ TypeOK
      /\ seen[o].migrated => migrated
      /\ pc[o] # "idle" /\ transfers = 0 => seen[o].same = same
      /\ alone => Lone(o)
      /\ pool.claimable \subseteq Role /\ pool.lockable \subseteq Role
  BY WholeIs DEF Whole, WorldOK, Pools, DbcInv
<1>2. /\ pc[o] \in {"setup", "lp"} /\ queue[o] # <<>> /\ ~dry[o]
      /\ Apply(Head(queue[o])) /\ Pop(o)
      /\ alone' = (alone /\ \A p \in Operators \ {o} : pc[p] = "idle")
      /\ UNCHANGED <<setup, dry, seen, ghosts, budget>>
  BY DEF Send
<1> DEFINE t == Head(queue[o])
           rest == Tail(queue[o])
<1>3. t \in Txs /\ \A u : InQueue(queue[o], u) => u = t \/ InQueue(rest, u)
  <2>1. queue[o] \in Seq(Txs)
    BY <1>1 DEF QueueOK, QueueInv
  <2>2. QED
    BY <1>2, <2>1, HeadOrTail
<1>4. /\ pc' \in [Operators -> Phases] /\ report' \in [Operators -> Outcomes] /\ QueueOK'
      /\ queue'[o] = rest
      /\ \/ pc[o] = "lp" /\ pc'[o] = "idle" /\ report'[o] = "done" /\ queue'[o] = <<>>
         \/ pc'[o] = pc[o] /\ report'[o] = report[o]
      /\ \A p \in Operators \ {o} : pc'[p] = pc[p] /\ report'[p] = report[p] /\ queue'[p] = queue[p]
  BY <1>1, <1>2, PopEffect
<1> HIDE DEF t, rest
<1>5. ChainOK' /\ Grows /\ (Paired => Paired')
  BY <1>1, <1>2, <1>3, ApplyEffect DEF t
<1>6. /\ pool' = pool /\ ready' = ready /\ same' = same /\ transfers' = transfers /\ faults' = faults
      /\ ghosts' = ghosts /\ dry' = dry /\ seen' = seen
  BY <1>2 DEF setup, budget
<1>7. WorldOK'
  BY <1>1, <1>2, <1>5, <1>6 DEF WorldOK, ChainOK
<1>8. LocalOK' /\ OthersKept(o)
  BY <1>1, <1>4, <1>6 DEF LocalOK, OthersKept
<1>9. /\ t = Op("migrate") => migrated'
      /\ t = Op("locker") => locker'
      /\ \A b \in Role : (t = Claim(b) => Beneficiaries(b) \subseteq claimed')
                        /\ (t = Lock(b) => Beneficiaries(b) \subseteq locked')
  <2>1. /\ migrated' = (migrated \/ t.op = "migrate") /\ locker' = (locker \/ t.op = "locker")
        /\ claimed' = claimed \union (IF t.op = "claim" THEN Beneficiaries(t.role) ELSE {})
        /\ locked' = locked \union (IF t.op = "lock" THEN Beneficiaries(t.role) ELSE {})
    BY <1>2 DEF Apply, t
  <2>2. /\ t = Op("migrate") => t.op = "migrate"
        /\ t = Op("locker") => t.op = "locker"
        /\ \A b \in Role : (t = Claim(b) => t.op = "claim" /\ t.role = b)
                          /\ (t = Lock(b) => t.op = "lock" /\ t.role = b)
    BY DEF Op, Claim, Lock
  <2>3. QED
    BY <2>1, <2>2
<1>10. Live(o)'
  <2>1. /\ pc[o] = "setup" => /\ migrated \/ InQueue(queue[o], Op("migrate"))
                              /\ pool.vesting => locker \/ InQueue(queue[o], Op("locker"))
        /\ pc[o] = "lp" => Graduated
        /\ pc[o] = "lp" /\ transfers = 0 => /\ \A r \in pool.claimable : ClaimHeading(o, r)
                                            /\ \A r \in pool.lockable : LockHeading(o, r)
        /\ report[o] = "done" => Graduated /\ (transfers = 0 => Complete)
    BY <1>1, <1>2 DEF Live
  <2>2. (Graduated => Graduated') /\ (Complete => Complete')
    BY <1>5, <1>6 DEF Graduated, Complete, Grows
  <2>3. \A b : Beneficiaries(b)' = Beneficiaries(b)
    BY <1>6 DEF Beneficiaries
  <2>4. \A r : (ClaimHeading(o, r) => ClaimHeading(o, r)') /\ (LockHeading(o, r) => LockHeading(o, r)')
    BY <1>3, <1>4, <1>5, <1>9, <2>3 DEF ClaimHeading, LockHeading, Grows
  <2>5. CASE pc'[o] = pc[o] /\ report'[o] = report[o]
    <3>1. pc'[o] = "setup" => /\ migrated' \/ InQueue(queue'[o], Op("migrate"))
                              /\ pool'.vesting => locker' \/ InQueue(queue'[o], Op("locker"))
      BY <1>3, <1>4, <1>5, <1>6, <1>9, <2>1, <2>5 DEF Grows
    <3>2. QED
      <4>1. (pc'[o] = "lp" => Graduated') /\ (report'[o] = "done" => Graduated' /\ (transfers' = 0 => Complete'))
        BY <1>6, <2>1, <2>2, <2>5
      <4>2. pc'[o] = "lp" /\ transfers' = 0 => /\ \A r \in pool'.claimable : ClaimHeading(o, r)'
                                               /\ \A r \in pool'.lockable : LockHeading(o, r)'
        BY <1>6, <2>1, <2>4, <2>5
      <4>3. QED
        BY <2>5, <3>1, <4>1, <4>2 DEF Live
  <2>6. CASE pc[o] = "lp" /\ pc'[o] = "idle" /\ report'[o] = "done" /\ queue'[o] = <<>>
    <3>1. \A u : ~InQueue(queue'[o], u)
      BY <2>6 DEF InQueue
    <3>2. \A r : (ClaimHeading(o, r)' => r \in claimed') /\ (LockHeading(o, r)' => r \in locked')
      BY <3>1 DEF ClaimHeading, LockHeading
    <3>3. transfers = 0 => pool.claimable \subseteq claimed' /\ pool.lockable \subseteq locked'
      BY <2>1, <2>4, <2>6, <3>2
    <3>4. Graduated' /\ (transfers' = 0 => Complete')
      BY <1>6, <2>1, <2>2, <2>6, <3>3 DEF Complete
    <3>5. QED
      BY <2>6, <3>4 DEF Live
  <2>7. QED
    BY <1>4, <2>5, <2>6
<1>11. alone => Lone(o)'
  <2>1. SUFFICES ASSUME alone, pc'[o] = pc[o] PROVE Lone(o)'
    BY <1>4 DEF Lone
  <2>2. /\ ready /\ (pc[o] = "setup" => queue[o] = SetupTxs(Now))
        /\ pc[o] = "lp" => queue[o] = LpTxs(Now)
    BY <1>1, <1>2, <2>1 DEF Lone
  <2>3. UNCHANGED setup
    BY <1>2
  <2>4. CASE pc[o] = "setup"
    <3>1. SetupTxs(Now)' = Tail(SetupTxs(Now))
      BY <1>1, <1>2, <2>2, <2>3, <2>4, SetupOrder
    <3>2. queue'[o] = SetupTxs(Now)'
      BY <1>4, <2>2, <2>4, <3>1 DEF rest
    <3>3. QED
      BY <1>6, <2>1, <2>2, <2>4, <3>2 DEF Lone
  <2>5. CASE pc[o] = "lp"
    <3>1. migrated
      BY <1>1, <1>2, <2>5 DEF Live, Graduated
    <3>2. LpTxs(Now)' = Tail(LpTxs(Now))
      BY <1>1, <1>2, <2>2, <2>3, <2>5, <3>1, LpOrder
    <3>3. queue'[o] = LpTxs(Now)'
      BY <1>4, <2>2, <2>5, <3>2 DEF rest
    <3>4. QED
      BY <1>6, <2>1, <2>2, <2>5, <3>3 DEF Lone
  <2>6. QED
    BY <1>2, <2>4, <2>5
<1>12. seen'[o].migrated => migrated'
  BY <1>1, <1>5, <1>6 DEF Grows
<1>13. pc'[o] # "idle" /\ transfers = 0 => seen'[o].same = same
  BY <1>1, <1>2, <1>6
<1>14. QED
  BY <1>2, <1>4, <1>5, <1>6, <1>7, <1>8, <1>10, <1>11, <1>12, <1>13 DEF Advance

-----------------------------------------------------------------------------
\* Everybody else: the runs stay where they are.
Stay ==
    /\ WorldOK' /\ Grows /\ UNCHANGED local /\ pool' = pool /\ (ready => ready')
    /\ transfers' = 0 => transfers = 0 /\ same' = same /\ (Paired => Paired')
    /\ alone' => alone /\ UNCHANGED chain /\ ghosts' \subseteq ghosts /\ same' = same /\ transfers' = transfers

\* That keeps the invariant.
LEMMA StayKeeps == ASSUME Whole, Stay PROVE Whole'
<1>1. /\ WorldOK /\ LocalOK /\ QueueOK
      /\ pool.v1 \/ (pool.claimable = {} /\ pool.lockable = {})
      /\ transfers = 0 => Paired
      /\ \A p \in Operators : seen[p].migrated => migrated
      /\ \A p \in Operators : pc[p] # "idle" /\ transfers = 0 => seen[p].same = same
      /\ \A p \in Operators : Live(p)
      /\ alone => ghosts = {} /\ transfers = 0 /\ \A p \in Operators : Lone(p)
  BY DEF Whole
<1>2. /\ WorldOK' /\ Grows /\ pool' = pool /\ (ready => ready')
      /\ transfers' = 0 => transfers = 0 /\ same' = same /\ (Paired => Paired')
      /\ alone' => alone /\ UNCHANGED chain /\ ghosts' \subseteq ghosts /\ same' = same
                   /\ transfers' = transfers
      /\ pc' = pc /\ dry' = dry /\ seen' = seen /\ queue' = queue /\ report' = report
  BY DEF Stay, local
<1>3. LocalOK' /\ QueueOK'
  BY <1>1, <1>2 DEF LocalOK, QueueOK, QueueInv
<1>4. \A p \in Operators : seen'[p].migrated => migrated'
  BY <1>1, <1>2 DEF Grows
<1>5. \A p \in Operators : pc'[p] # "idle" /\ transfers' = 0 => seen'[p].same = same'
  BY <1>1, <1>2
<1>6. ASSUME NEW p \in Operators PROVE Live(p)'
  BY <1>1, <1>2, LiveKept
<1>7. ASSUME alone', NEW p \in Operators PROVE Lone(p)'
  BY <1>1, <1>2, <1>7, LoneKept
<1>8. alone' => ghosts' = {} /\ transfers' = 0 /\ \A p \in Operators : Lone(p)'
  BY <1>1, <1>2, <1>7
<1>9. (transfers' = 0 => Paired') /\ (pool'.v1 \/ (pool'.claimable = {} /\ pool'.lockable = {}))
  BY <1>1, <1>2
<1>10. QED
  BY <1>2, <1>3, <1>4, <1>5, <1>6, <1>8, <1>9 DEF Whole

\* A transaction of a run that gave it up lands.
LEMMA LandLateStays == ASSUME Whole, NEW t \in Txs, LandLate(t) PROVE Stay
<1>1. WorldOK /\ (alone => ghosts = {})
  BY DEF Whole
<1>2. /\ t \in ghosts /\ ghosts' = ghosts \ {t} /\ (Apply(t) \/ UNCHANGED chain)
      /\ UNCHANGED <<setup, local, alone, budget>>
  BY DEF LandLate
<1>3. pool' = pool /\ ready' = ready /\ same' = same /\ alone' = alone /\ faults' = faults /\ transfers' = transfers
  BY <1>2 DEF setup, budget
<1>4. ChainOK' /\ Grows /\ (Paired => Paired')
  BY <1>1, <1>2, <1>3, ApplyEffect, IdleGrows
<1>5. WorldOK'
  BY <1>1, <1>2, <1>3, <1>4 DEF WorldOK, ChainOK
<1>6. ~alone
  BY <1>1, <1>2
<1>7. QED
  BY <1>2, <1>3, <1>4, <1>5, <1>6 DEF Stay

\* The migration keeper sends a transaction of its own.
LEMMA KeeperStays == ASSUME Whole, NEW t \in Txs, Keeper(t) PROVE Stay
<1>1. WorldOK
  BY DEF Whole
<1>2. Apply(t) /\ alone' = FALSE /\ UNCHANGED <<setup, local, ghosts, budget>>
  BY DEF Keeper
<1>3. pool' = pool /\ ready' = ready /\ same' = same /\ ghosts' = ghosts /\ faults' = faults /\ transfers' = transfers
  BY <1>2 DEF setup, budget
<1>4. ChainOK' /\ Grows /\ (Paired => Paired')
  BY <1>1, <1>2, ApplyEffect
<1>5. WorldOK'
  BY <1>1, <1>2, <1>3, <1>4 DEF WorldOK, ChainOK
<1>6. QED
  BY <1>2, <1>3, <1>4, <1>5 DEF Stay

\* The curve fills up.
LEMMA GraduateStays == ASSUME Whole, Graduate PROVE Stay
<1>1. WorldOK
  BY DEF Whole
<1>2. ready' = TRUE /\ UNCHANGED <<pool, same, chain, local, ghosts, alone, budget>>
  BY DEF Graduate
<1>3. WorldOK' /\ Grows /\ (Paired => Paired')
  BY <1>1, <1>2, IdleGrows DEF WorldOK, chain, budget
<1>4. QED
  BY <1>2, <1>3 DEF Stay, budget

\* The pool gets another creator.
LEMMA TransferStays == ASSUME Whole, TransferPoolCreator PROVE Stay
<1>1. WorldOK
  BY DEF Whole
<1>2. /\ transfers < Transfers /\ transfers' = transfers + 1 /\ same' \in BOOLEAN /\ alone' = FALSE
      /\ UNCHANGED <<pool, ready, chain, local, ghosts, faults>>
  BY DEF TransferPoolCreator
<1>3. transfers' \in 0..Transfers /\ transfers' # 0
  BY <1>1, <1>2, DbcMigrationAssumption DEF WorldOK
<1>4. WorldOK' /\ Grows
  BY <1>1, <1>2, <1>3 DEF WorldOK, chain, Grows
<1>5. QED
  BY <1>2, <1>3, <1>4 DEF Stay

\* A stuttering step.
LEMMA StutterStays == ASSUME Whole, UNCHANGED vars PROVE Stay
<1>1. WorldOK
  BY DEF Whole
<1>2. UNCHANGED <<setup, chain, local, ghosts, alone, budget>>
  BY DEF vars
<1>3. WorldOK' /\ Grows /\ (Paired => Paired')
  BY <1>1, <1>2, IdleGrows, WorldSame DEF WorldOK, setup, budget
<1>4. QED
  BY <1>2, <1>3 DEF Stay, setup, budget

-----------------------------------------------------------------------------
\* The inductive step, action by action.
LEMMA DbcStep == DbcInv /\ [Next]_vars => DbcInv'
<1>1. SUFFICES ASSUME Whole, [Next]_vars PROVE Whole'
  <2>1. Whole' => DbcInv'
    BY WholeIs, PTL
  <2>2. QED
    BY <2>1, WholeIs
<1>2. ASSUME NEW o \in Operators, Step(o) \/ Unconfirmed(o) \/ Kill(o) PROVE Whole'
  <2>1. Advance(o)
    BY <1>1, <1>2, ReadPoolAdvances, PlanAdvances, PlanLpAdvances, SendAdvances,
       SimulateAdvances,
       RefusedAdvances, UnconfirmedAdvances, KillAdvances DEF Step
  <2>2. QED
    BY <1>1, <2>1, AdvanceKeeps
<1>3. ASSUME NEW t \in Txs, LandLate(t) \/ Keeper(t) PROVE Whole'
  BY <1>1, <1>3, LandLateStays, KeeperStays, StayKeeps
<1>4. CASE Graduate \/ TransferPoolCreator \/ UNCHANGED vars
  BY <1>1, <1>4, GraduateStays, TransferStays, StutterStays, StayKeeps
<1>5. QED
  BY <1>1, <1>2, <1>3, <1>4 DEF Next

\* The initial states satisfy the invariant.
LEMMA DbcStart == Init => DbcInv
<1>1. SUFFICES ASSUME Init PROVE Whole
  BY WholeIs
<1>2. /\ pool \in Pools /\ (pool.v1 \/ (pool.claimable = {} /\ pool.lockable = {}))
      /\ ready = FALSE /\ same \in BOOLEAN
      /\ metadata = FALSE /\ locker = FALSE /\ migrated = FALSE /\ claimed = {} /\ locked = {}
      /\ pc = [o \in Operators |-> "idle"] /\ dry = [o \in Operators |-> FALSE]
      /\ seen = [o \in Operators |-> [migrated |-> FALSE, same |-> FALSE]]
      /\ queue = [o \in Operators |-> <<>>] /\ report = [o \in Operators |-> "none"]
      /\ ghosts = {} /\ alone = TRUE /\ faults = 0 /\ transfers = 0
  BY <1>1 DEF Init
<1>3. WorldOK
  <2>1. 0 \in 0..Faults /\ 0 \in 0..Transfers
    BY DbcMigrationAssumption
  <2>2. QED
    BY <1>2, <2>1 DEF WorldOK
<1>4. LocalOK
  BY <1>2 DEF LocalOK, Phases, Outcomes
<1>5. QueueOK
  <2>1. <<>> \in Seq(Txs) /\ Len(<<>>) <= 4
    BY EmptySeq
  <2>2. QED
    BY <1>2, <2>1 DEF QueueOK, QueueInv
<1>6. Paired /\ \A o \in Operators : Live(o) /\ Lone(o)
  BY <1>2 DEF Paired, Live, Lone
<1>7. QED
  BY <1>2, <1>3, <1>4, <1>5, <1>6 DEF Whole

\* The invariant holds in every reachable state.
LEMMA DbcAlways == Spec => []DbcInv
BY DbcStart, DbcStep, PTL DEF Spec

\* The invariant implies the properties of DbcMigration.
LEMMA DbcSound == DbcInv => TypeOK /\ DoneMeansComplete /\ LoneRunNeverRefused
<1>1. SUFFICES ASSUME DbcInv PROVE TypeOK /\ DoneMeansComplete /\ LoneRunNeverRefused
  OBVIOUS
<1>2. /\ TypeOK /\ \A o \in Operators : Live(o)
      /\ alone => \A o \in Operators : Lone(o)
  BY <1>1, WholeIs DEF Whole, DbcInv
<1>3. DoneMeansComplete
  BY <1>2 DEF DoneMeansComplete, Live
<1>4. ASSUME NEW o \in Operators, alone, ~dry[o], pc[o] \in {"setup", "lp"}, queue[o] # <<>>
      PROVE  Applicable(Head(queue[o]))
  <2>1. Lone(o) /\ Live(o)
    BY <1>2, <1>4
  <2>2. CASE pc[o] = "setup"
    <3>1. ready /\ queue[o] = SetupTxs(Now)
      BY <1>4, <2>1, <2>2 DEF Lone
    <3>2. QED
      BY <1>2, <1>4, <3>1, SetupOrder
  <2>3. CASE pc[o] = "lp"
    <3>1. ready /\ migrated /\ queue[o] = LpTxs(Now)
      BY <1>4, <2>1, <2>3 DEF Lone, Live, Graduated
    <3>2. QED
      BY <1>2, <1>4, <3>1, LpOrder
  <2>4. QED
    BY <1>4, <2>2, <2>3
<1>5. QED
  BY <1>2, <1>3, <1>4 DEF LoneRunNeverRefused

-----------------------------------------------------------------------------
\* Every reachable state of any number of migration runs has its type; no bundle exceeds the
\* transactions the code can put in it.
THEOREM DbcTypeCorrect == Spec => []TypeOK
BY DbcAlways, DbcSound, PTL

\* A live migration that reports success leaves the pool migrated and, unless the pool's
\* creator was changed meanwhile, every share claimed and locked, although other runs, the
\* keeper and late transactions act on the same pool between its reads and its sends.
THEOREM DbcDoneMeansComplete == Spec => []DoneMeansComplete
BY DbcAlways, DbcSound, PTL

\* A migration that nobody interferes with never has a transaction refused: from whatever
\* state of a graduated pool it starts, the order of its transactions is one the chain accepts.
THEOREM DbcLoneRunNeverRefused == Spec => []LoneRunNeverRefused
BY DbcAlways, DbcSound, PTL
=============================================================================
