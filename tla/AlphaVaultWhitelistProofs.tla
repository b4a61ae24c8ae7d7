----------------------- MODULE AlphaVaultWhitelistProofs -----------------------
(***************************************************************************)
(* The command that creates a permissioned Alpha Vault, for whitelists of  *)
(* any length cut into chunks of any size: folder, chain and store agree.  *)
(***************************************************************************)
EXTENDS AlphaVaultWhitelist, SequenceTheorems, WellFoundedInduction, TLAPS

\* Division with remainder, for a positive divisor.
LEMMA Division ==
    ASSUME NEW d \in Nat \ {0}, NEW n \in Nat
    PROVE  n = d * (n \div d) + (n % d)
BY SMTT(60)

\* Quotient and remainder are what they should be.
LEMMA Remainder ==
    ASSUME NEW d \in Nat \ {0}, NEW n \in Nat
    PROVE  n \div d \in Nat /\ n % d \in 0..(d - 1)
OBVIOUS

\* Products of natural numbers.
LEMMA Product ==
    ASSUME NEW d \in Nat, NEW m \in Nat
    PROVE  d * m \in Nat /\ d * m = m * d /\ (m + 1) * d = m * d + d
OBVIOUS

\* One factor more.
LEMMA NextProduct ==
    ASSUME NEW d \in Nat, NEW m \in Nat
    PROVE  d * (m + 1) = d * m + d
OBVIOUS

\* Multiplying keeps the order.
LEMMA Monotone ==
    ASSUME NEW d \in Nat, NEW m \in Nat, NEW n \in Nat, m <= n
    PROVE  d * m <= d * n
<1>1. n = m + (n - m) /\ n - m \in Nat
  OBVIOUS
<1>2. d * n = d * m + d * (n - m)
  BY <1>1
<1>3. QED
  BY <1>1, <1>2, Product

\* A set of natural numbers that is not empty has a least element.
LEMMA Least ==
    ASSUME NEW T \in SUBSET Nat, T # {}
    PROVE  \E t \in T : \A u \in T : t <= u
<1>1. \E t \in T : \A u \in T : <<u, t>> \notin OpToRel(<, Nat)
  BY NatLessThanWellFounded, WFMin, Zenon
<1>2. \A t, u \in Nat : <<u, t>> \in OpToRel(<, Nat) <=> u < t
  BY Zenon DEF OpToRel
<1>3. PICK t \in T : \A u \in T : <<u, t>> \notin OpToRel(<, Nat)
  BY <1>1
<1>4. \A u \in T : ~(u < t)
  BY <1>2, <1>3, Zenon
<1>5. QED
  BY <1>4

-----------------------------------------------------------------------------
\* A whitelist is a sequence of entries with at most MaxChunks chunks, and version v is one
\* of its chunks iff the list goes on after the v chunks before it.
LEMMA Counts ==
    ASSUME NEW l \in Whitelists
    PROVE  /\ l \in Seq(Nat) /\ l \in Seq(Entries) /\ Len(l) \in Nat
           /\ ChunkCount(l) \in 0..MaxChunks
           /\ \A v \in Nat : v < ChunkCount(l) <=> ChunkSize * v < Len(l)
<1> USE AlphaVaultWhitelistAssumption
<1> DEFINE q == Len(l) \div ChunkSize
           r == Len(l) % ChunkSize
<1>1. l \in Seq(Nat) /\ Len(l) \in Nat /\ Len(l) <= ChunkSize * MaxChunks /\ EntriesOf(l) \subseteq Entries
  BY DEF Entries
<1>2. l \in Seq(Entries)
  BY <1>1, SeqDef DEF EntriesOf
<1>3. q \in Nat /\ r \in 0..(ChunkSize - 1) /\ Len(l) = ChunkSize * q + r /\ ChunkSize * q \in Nat
  BY <1>1, Division, Remainder, Product
<1>4. ChunkCount(l) = q + (IF r # 0 THEN 1 ELSE 0)
  BY DEF ChunkCount
<1>5. ASSUME NEW v \in Nat PROVE v < ChunkCount(l) <=> ChunkSize * v < Len(l)
  <2>1. v <= q => ChunkSize * v <= ChunkSize * q
    BY <1>3, Monotone
  <2>2. v < q => ChunkSize * v < ChunkSize * q
    <3>1. v < q => v + 1 \in Nat /\ v + 1 <= q
      BY <1>3
    <3>2. v < q => ChunkSize * (v + 1) <= ChunkSize * q
      BY <1>3, <3>1, Monotone
    <3>3. ChunkSize * (v + 1) = ChunkSize * v + ChunkSize /\ ChunkSize * v \in Nat
      BY Product, NextProduct
    <3>4. QED
      BY <1>3, <3>2, <3>3
  <2>3. q < v => ChunkSize * (q + 1) <= ChunkSize * v
    <3>1. q < v => q + 1 \in Nat /\ q + 1 <= v
      BY <1>3
    <3>2. QED
      BY <3>1, Monotone
  <2>4. ChunkSize * (q + 1) = ChunkSize * q + ChunkSize /\ ChunkSize * v \in Nat
    BY <1>3, Product, NextProduct
  <2>5. q = v => ChunkSize * q = ChunkSize * v
    OBVIOUS
  <2> HIDE DEF q, r
  <2>6. QED
    BY <1>3, <1>4, <2>1, <2>2, <2>3, <2>4, <2>5
<1>6. ChunkCount(l) <= MaxChunks
  <2>1. ~(MaxChunks < ChunkCount(l))
    BY <1>1, <1>5
  <2>2. QED
    BY <1>3, <1>4, <2>1
<1>7. ChunkCount(l) \in Nat
  BY <1>3, <1>4
<1>8. QED
  BY <1>1, <1>2, <1>5, <1>6, <1>7

\* The chunk of a version is a sequence of the list's entries, and not empty.
LEMMA ChunkIs ==
    ASSUME NEW l \in Whitelists, NEW v \in Nat, v < ChunkCount(l)
    PROVE  /\ v \in Versions
           /\ Chunk(l, v) \in Seq(Entries) /\ EntriesOf(Chunk(l, v)) # {}
           /\ EntriesOf(Chunk(l, v)) \subseteq EntriesOf(l)
           /\ EntriesOf(Chunk(l, v)) \subseteq Entries
<1> USE AlphaVaultWhitelistAssumption
<1> DEFINE m == v * ChunkSize + 1
           n == Lesser((v + 1) * ChunkSize, Len(l))
<1>1. /\ l \in Seq(Entries) /\ Len(l) \in Nat /\ ChunkCount(l) \in 0..MaxChunks
      /\ ChunkSize * v < Len(l)
  BY Counts
<1>2. v * ChunkSize \in Nat /\ v * ChunkSize = ChunkSize * v /\ (v + 1) * ChunkSize = v * ChunkSize + ChunkSize
  BY Product
<1>3. m \in Nat /\ n \in Nat /\ 1 <= m /\ m <= n /\ n <= Len(l)
  <2> HIDE DEF m
  <2>1. m = v * ChunkSize + 1
    BY DEF m
  <2>2. QED
    BY <1>1, <1>2, <2>1 DEF Lesser
<1> HIDE DEF m, n
<1>4. \A k \in m..n : l[k] \in Entries /\ l[k] \in EntriesOf(l)
  BY <1>1, <1>3 DEF EntriesOf
<1>5. /\ SubSeq(l, m, n) \in Seq(Entries) /\ Len(SubSeq(l, m, n)) = n - m + 1
      /\ \A k \in 1..(n - m + 1) : SubSeq(l, m, n)[k] = l[m + k - 1]
  <2>1. m \in Int /\ n \in Int /\ \A k \in m..n : l[k] \in Entries
    BY <1>3, <1>4
  <2>2. /\ SubSeq(l, m, n) \in Seq(Entries)
        /\ Len(SubSeq(l, m, n)) = IF m <= n THEN n - m + 1 ELSE 0
        /\ \A k \in 1..(n - m + 1) : SubSeq(l, m, n)[k] = l[m + k - 1]
    BY <2>1, SubSeqProperties
  <2>3. QED
    BY <1>3, <2>2
<1>6. Chunk(l, v) = SubSeq(l, m, n)
  BY DEF Chunk, m, n
<1>7. DOMAIN Chunk(l, v) = 1..(n - m + 1) /\ 1 \in DOMAIN Chunk(l, v)
  BY <1>3, <1>5, <1>6
<1>8. \A k \in DOMAIN Chunk(l, v) : Chunk(l, v)[k] \in EntriesOf(l) /\ Chunk(l, v)[k] \in Entries
  BY <1>3, <1>4, <1>5, <1>6, <1>7
<1>9. EntriesOf(Chunk(l, v)) = {Chunk(l, v)[k] : k \in DOMAIN Chunk(l, v)}
  BY DEF EntriesOf
<1>10. v \in Versions
  BY <1>1 DEF Versions
<1>11. /\ EntriesOf(Chunk(l, v)) # {} /\ EntriesOf(Chunk(l, v)) \subseteq EntriesOf(l)
       /\ EntriesOf(Chunk(l, v)) \subseteq Entries
  BY <1>7, <1>8, <1>9
<1>12. QED
  BY <1>5, <1>6, <1>10, <1>11

\* Every entry of a list is in one of its chunks: the last one, too, that is not full.
LEMMA ChunksCover ==
    ASSUME NEW l \in Whitelists, NEW e \in EntriesOf(l)
    PROVE  \E v \in Nat : v < ChunkCount(l) /\ e \in EntriesOf(Chunk(l, v))
<1> USE AlphaVaultWhitelistAssumption
<1>1. /\ l \in Seq(Entries) /\ Len(l) \in Nat
      /\ \A v \in Nat : v < ChunkCount(l) <=> ChunkSize * v < Len(l)
  BY Counts
<1>2. PICK k \in 1..Len(l) : l[k] = e
  BY <1>1 DEF EntriesOf
<1> DEFINE v == (k - 1) \div ChunkSize
           r == (k - 1) % ChunkSize
           m == v * ChunkSize + 1
           n == Lesser((v + 1) * ChunkSize, Len(l))
<1>3. v \in Nat /\ r \in 0..(ChunkSize - 1) /\ k - 1 = ChunkSize * v + r /\ ChunkSize * v \in Nat
  <2>1. k - 1 \in Nat
    BY <1>1
  <2>2. QED
    BY <2>1, Division, Remainder, Product
<1> HIDE DEF v, r
<1>4. v * ChunkSize = ChunkSize * v /\ (v + 1) * ChunkSize = v * ChunkSize + ChunkSize
  BY <1>3, Product
<1>5. m \in Nat /\ n \in Nat /\ 1 <= m /\ m <= k /\ k <= n /\ n <= Len(l)
  <2>1. PICK a \in Nat : a = ChunkSize * v
    BY <1>3
  <2>2. m = a + 1
    BY <1>4, <2>1
  <2>3. n = IF a + ChunkSize < Len(l) THEN a + ChunkSize ELSE Len(l)
    BY <1>4, <2>1 DEF Lesser
  <2>4. k \in Nat /\ k <= Len(l) /\ k - 1 = a + r /\ r \in Nat /\ r < ChunkSize /\ ChunkSize \in Nat
    BY <1>1, <1>3, <2>1
  <2>5. Len(l) \in Nat
    BY <1>1
  <2> HIDE AlphaVaultWhitelistAssumption DEF m, n
  <2>6. m \in Nat /\ n \in Nat /\ 1 <= m /\ m <= k /\ n <= Len(l)
    BY <2>2, <2>3, <2>4, <2>5
  <2>7. k <= n
    BY <2>2, <2>3, <2>4, <2>5
  <2>8. QED
    BY <2>6, <2>7
<1>6. v < ChunkCount(l)
  BY <1>1, <1>3
<1> HIDE DEF m, n
<1>7. \A j \in m..n : l[j] \in Entries
  <2>1. \A j \in m..n : j \in 1..Len(l)
    BY <1>1, <1>5
  <2>2. QED
    BY <1>1, <2>1
<1>8. /\ SubSeq(l, m, n) \in Seq(Entries) /\ Len(SubSeq(l, m, n)) = n - m + 1
      /\ \A j \in 1..(n - m + 1) : SubSeq(l, m, n)[j] = l[m + j - 1]
  <2>1. m \in Int /\ n \in Int
    BY <1>5
  <2>2. /\ SubSeq(l, m, n) \in Seq(Entries)
        /\ Len(SubSeq(l, m, n)) = IF m <= n THEN n - m + 1 ELSE 0
        /\ \A j \in 1..(n - m + 1) : SubSeq(l, m, n)[j] = l[m + j - 1]
    BY <1>7, <2>1, SubSeqProperties
  <2>3. m <= n
    BY <1>5
  <2>4. QED
    BY <2>2, <2>3
<1>9. Chunk(l, v) = SubSeq(l, m, n)
  BY DEF Chunk, m, n
<1>10. k - m + 1 \in 1..(n - m + 1) /\ m + (k - m + 1) - 1 = k
  BY <1>5
<1>11. k - m + 1 \in DOMAIN Chunk(l, v) /\ Chunk(l, v)[k - m + 1] = e
  BY <1>2, <1>5, <1>8, <1>9, <1>10
<1>12. QED
  BY <1>3, <1>6, <1>11 DEF EntriesOf

\* The proofs written for a chunk are of its entries and for its tree, one for each wallet
\* listed in it: of a wallet listed twice, the last entry's.
LEMMA ProofsAre ==
    ASSUME NEW S, NEW c \in Seq(S), NEW v
    PROVE  /\ \A p \in ProofsOf(c, v) :
                 p.entry \in EntriesOf(c) /\ p.version = v /\ p.tree = EntriesOf(c)
           /\ \A p, q \in ProofsOf(c, v) : Wallet(p.entry) = Wallet(q.entry) => p = q
           /\ \A e \in EntriesOf(c) : \E p \in ProofsOf(c, v) : Wallet(p.entry) = Wallet(e)
<1> DEFINE Last(k) == \A m \in DOMAIN c : m > k => Wallet(c[m]) # Wallet(c[k])
           P(k) == [entry |-> c[k], version |-> v, tree |-> EntriesOf(c)]
<1> HIDE DEF P, Last
<1>1. ProofsOf(c, v) = {P(k) : k \in {n \in DOMAIN c : Last(n)}}
  BY DEF ProofsOf, P, Last
<1>2. \A k : P(k).entry = c[k] /\ P(k).version = v /\ P(k).tree = EntriesOf(c)
  BY DEF P
<1>3. \A k \in DOMAIN c : c[k] \in EntriesOf(c)
  BY DEF EntriesOf
<1>4. \A p \in ProofsOf(c, v) : \E k \in DOMAIN c : Last(k) /\ p = P(k)
  BY <1>1
<1>5. ASSUME NEW p \in ProofsOf(c, v), NEW q \in ProofsOf(c, v), Wallet(p.entry) = Wallet(q.entry)
      PROVE  p = q
  <2>1. PICK k \in DOMAIN c : Last(k) /\ p = P(k)
    BY <1>4
  <2>2. PICK n \in DOMAIN c : Last(n) /\ q = P(n)
    BY <1>4
  <2>3. ~(k > n) /\ ~(n > k)
    BY <1>2, <1>5, <2>1, <2>2, Zenon DEF Last
  <2>4. QED
    BY <2>1, <2>2, <2>3
<1>6. ASSUME NEW e \in EntriesOf(c) PROVE \E p \in ProofsOf(c, v) : Wallet(p.entry) = Wallet(e)
  <2>1. PICK n \in DOMAIN c : c[n] = e
    BY DEF EntriesOf
  <2>2. n \in 1..Len(c) /\ Len(c) \in Nat /\ DOMAIN c = 1..Len(c)
    OBVIOUS
  <2> DEFINE T == {Len(c) - k : k \in {k \in DOMAIN c : Wallet(c[k]) = Wallet(e)}}
  <2>3. T \in SUBSET Nat /\ Len(c) - n \in T
    BY <2>1, <2>2
  <2>4. PICK t \in T : \A u \in T : t <= u
    <3> HIDE DEF T
    <3>1. QED
      BY <2>3, Least
  <2>5. PICK k \in DOMAIN c : t = Len(c) - k /\ Wallet(c[k]) = Wallet(e)
    OBVIOUS
  <2>6. ASSUME NEW m \in DOMAIN c, m > k PROVE Wallet(c[m]) # Wallet(c[k])
    <3>1. Len(c) - m < t
      BY <2>2, <2>5, <2>6
    <3>2. Len(c) - m \notin T
      <4>1. Len(c) - m \in T => t <= Len(c) - m
        <5> HIDE DEF T
        <5>1. QED
          BY <2>4
      <4>2. QED
        BY <2>2, <2>3, <3>1, <4>1
    <3>3. QED
      BY <2>5, <3>2
  <2>7. P(k) \in ProofsOf(c, v)
    BY <1>1, <2>6 DEF Last
  <2>8. QED
    BY <1>2, <2>5, <2>7
<1>7. QED
  BY <1>2, <1>3, <1>4, <1>5, <1>6

-----------------------------------------------------------------------------
\* What is said of version v was made from list l: one the file has held, and while the
\* file was never edited the one that it holds.
Made(l, v) == v \in Nat /\ v < ChunkCount(l) /\ (edits = 0 => l = file)

\* A file of the folder holds the proofs of a chunk of such a list, for that chunk's version.
FolderInv ==
    /\ DOMAIN proofs = Versions
    /\ \A v \in Versions :
          proofs[v] = {} \/ \E l \in Whitelists : Made(l, v) /\ proofs[v] = ProofsOf(Chunk(l, v), v)

\* A root on chain is the tree of a chunk of such a list.
RootInv ==
    /\ roots \in [Versions -> SUBSET Entries]
    /\ \A v \in Versions :
          roots[v] = {} \/ \E l \in Whitelists : Made(l, v) /\ roots[v] = EntriesOf(Chunk(l, v))

\* So is the root that a late transaction carries,
LateInv ==
    \A t \in ghosts : t.kind = "root" =>
        \E l \in Whitelists : Made(l, t.version) /\ t.root = EntriesOf(Chunk(l, t.version))

\* and a proof that is served was made for a chunk of such a list.
StoreInv ==
    \A p \in served :
        \E l \in Whitelists : Made(l, p.version) /\ p \in ProofsOf(Chunk(l, p.version), p.version)

\* The wallets that are served something.
Known == {Wallet(p.entry) : p \in served}

\* The file of version v belongs to this run's list and, of a live run, a root of v exists.
Written(v) == /\ proofs[v] = ProofsOf(Chunk(list, v), v)
              /\ ~dry => roots[v] # {}

\* Every wallet of the chunk is served.
Given(v) == \A e \in EntriesOf(Chunk(list, v)) : Wallet(e) \in Known

\* This run: it has its list from the file; the versions it has been through are written, and
\* once it uploads all are; those already uploaded are served to everybody in them.
RunInv ==
    /\ pc # "idle" \/ outcome = "done" => list \in Whitelists /\ (edits = 0 => list = file)
    /\ pc # "idle" => outcome = "none"
    /\ pc \in {"chunk", "root", "send"} =>
          i <= ChunkCount(list) /\ \A v \in Versions : v < i => Written(v)
    /\ pc \in {"root", "send"} => i < ChunkCount(list) /\ proofs[i] = ProofsOf(Chunk(list, i), i)
    /\ pc = "metadata" => \A v \in Versions : v < ChunkCount(list) => Written(v)
    /\ pc = "upload" => \A v \in Versions : v < ChunkCount(list) => Written(v) /\ (v < i => Given(v))
    /\ outcome = "done" => \A v \in Versions : v < ChunkCount(list) => Written(v) /\ Given(v)

\* The ranges of the scalar variables.
Types ==
    /\ file \in Whitelists /\ list \in Whitelists \union {<<>>}
    /\ pc \in {"idle", "vault", "create", "load", "chunk", "root", "send", "metadata", "upload"}
    /\ dry \in BOOLEAN /\ i \in 0..MaxChunks /\ outcome \in {"none", "done", "threw"}
    /\ vault \in BOOLEAN /\ metadata \in BOOLEAN
    /\ dryRuns \in 0..DryRuns /\ edits \in 0..Edits /\ faults \in 0..Faults

\* No wallet is served two proofs.
Single == \A p, q \in served : Wallet(p.entry) = Wallet(q.entry) => p = q

\* The inductive invariant.
WhInv == Types /\ FolderInv /\ RootInv /\ LateInv /\ StoreInv /\ Single /\ RunInv

-----------------------------------------------------------------------------
\* The facts above about the chunk of a version of a list.
LEMMA MadeIs ==
    ASSUME NEW l \in Whitelists, NEW v \in Nat, v < ChunkCount(l)
    PROVE  /\ v \in Versions
           /\ EntriesOf(Chunk(l, v)) # {} /\ EntriesOf(Chunk(l, v)) \subseteq Entries
           /\ EntriesOf(Chunk(l, v)) \subseteq EntriesOf(l)
           /\ \A p \in ProofsOf(Chunk(l, v), v) :
                 p.entry \in EntriesOf(Chunk(l, v)) /\ p.version = v /\ p.tree = EntriesOf(Chunk(l, v))
           /\ \A p, q \in ProofsOf(Chunk(l, v), v) : Wallet(p.entry) = Wallet(q.entry) => p = q
           /\ \A e \in EntriesOf(Chunk(l, v)) :
                 \E p \in ProofsOf(Chunk(l, v), v) : Wallet(p.entry) = Wallet(e)
<1>1. /\ v \in Versions /\ Chunk(l, v) \in Seq(Entries) /\ EntriesOf(Chunk(l, v)) # {}
      /\ EntriesOf(Chunk(l, v)) \subseteq Entries /\ EntriesOf(Chunk(l, v)) \subseteq EntriesOf(l)
  BY ChunkIs
<1>2. QED
  BY <1>1, ProofsAre

\* The constants and the versions are natural numbers.
LEMMA Numbers ==
    /\ ChunkSize \in Nat \ {0} /\ MaxChunks \in Nat
    /\ DryRuns \in Nat /\ Edits \in Nat /\ Faults \in Nat
    /\ Versions \subseteq Nat /\ \A v \in Nat : v \in Versions <=> v < MaxChunks
    /\ \A l \in Whitelists : ChunkCount(l) \in 0..MaxChunks
BY AlphaVaultWhitelistAssumption, Counts DEF Versions

\* What a step leaves alone stays as it is: the folder,
LEMMA FolderKept ==
    ASSUME FolderInv, UNCHANGED <<file, edits, proofs>>
    PROVE  FolderInv'
BY DEF FolderInv, Made

\* the roots,
LEMMA RootKept ==
    ASSUME RootInv, UNCHANGED <<file, edits, roots>>
    PROVE  RootInv'
BY DEF RootInv, Made

\* the late transactions, if some of them are gone,
LEMMA LateKept ==
    ASSUME LateInv, UNCHANGED <<file, edits>>, ghosts' \subseteq ghosts
    PROVE  LateInv'
BY DEF LateInv, Made

\* the store.
LEMMA StoreKept ==
    ASSUME StoreInv, Single, UNCHANGED <<file, edits, served>>
    PROVE  StoreInv' /\ Single'
BY DEF StoreInv, Single, Made

\* A run that threw has nothing more to keep to.
LEMMA EndedRun ==
    ASSUME End("threw")
    PROVE  RunInv'
BY DEF End, RunInv

\* A step of a run that writes no file, no root and no store keeps the invariant.
LEMMA TurnKeeps ==
    ASSUME WhInv, UNCHANGED <<file, edits, roots, disk>>, ghosts' \subseteq ghosts, Types', RunInv'
    PROVE  WhInv'
BY FolderKept, RootKept, LateKept, StoreKept DEF WhInv, disk

\* Whether a version is written depends on the list, the folder and the roots,
LEMMA WrittenSame ==
    ASSUME UNCHANGED <<list, dry, proofs, roots>>, NEW v
    PROVE  Written(v)' <=> Written(v)
BY DEF Written

\* and whether it is served on the list and the store.
LEMMA GivenSame ==
    ASSUME UNCHANGED <<list, served>>, NEW v
    PROVE  Given(v)' <=> Given(v)
BY DEF Given, Known

-----------------------------------------------------------------------------
\* Each action keeps the invariant.  A run begins with the list in the file.
LEMMA StartKeeps == ASSUME WhInv, Start PROVE WhInv'
<1>1. Types'
  <2>1. dry' \in BOOLEAN /\ (dry' => dryRuns < DryRuns)
    <3>1. dry' = FALSE \/ dry' = (dryRuns < DryRuns)
      BY Zenon DEF Start
    <3>2. (dryRuns < DryRuns) \in BOOLEAN
      OBVIOUS
    <3>3. QED
      BY <3>1, <3>2, Zenon
  <2>2. dryRuns' \in 0..DryRuns
    BY <2>1, Numbers DEF WhInv, Types, Start
  <2>3. file' \in Whitelists /\ list' \in Whitelists \union {<<>>} /\ i' \in 0..MaxChunks
    BY Numbers DEF WhInv, Types, Start
  <2>4. QED
    BY <2>1, <2>2, <2>3 DEF WhInv, Types, Start, chain, disk
<1>2. RunInv'
  BY DEF WhInv, Types, RunInv, Start, chain, disk
<1>3. QED
  BY <1>1, <1>2, TurnKeeps DEF Start, chain, disk

\* The vault is looked up, created and loaded.
LEMMA VaultKeeps == ASSUME WhInv, CheckVault \/ CreateVault \/ LoadVault PROVE WhInv'
<1>1. /\ pc' \in {"idle", "create", "load", "chunk"} /\ i' = 0 /\ outcome' \in {outcome, "threw"}
      /\ UNCHANGED <<file, list, dry, metadata, dryRuns, edits, faults>>
  BY DEF CheckVault, CreateVault, LoadVault, Go, End, chain, disk, spent
<1>2. vault' \in BOOLEAN
  BY Zenon DEF CheckVault, CreateVault, LoadVault, chain, WhInv, Types
<1>3. Types'
  BY <1>1, <1>2, Numbers DEF WhInv, Types
<1>4. RunInv'
  BY Numbers
     DEF WhInv, Types, RunInv, CheckVault, CreateVault, LoadVault, Go, End, chain, disk,
         spent
<1>5. QED
  BY <1>3, <1>4, TurnKeeps DEF CheckVault, CreateVault, LoadVault, chain, disk, spent

\* The proofs of the chunk are written: this version's file is of this list.
LEMMA WriteKeeps == ASSUME WhInv, WriteChunk PROVE WhInv'
<1>1. /\ pc = "chunk" /\ list \in Whitelists /\ (edits = 0 => list = file) /\ i \in Nat
      /\ i < ChunkCount(list) /\ i \in Versions /\ outcome = "none"
      /\ \A v \in Versions : v < i => Written(v)
  BY Numbers, MadeIs DEF WhInv, Types, RunInv, WriteChunk
<1>2. /\ proofs' = [proofs EXCEPT ![i] = ProofsOf(Chunk(list, i), i)] /\ DOMAIN proofs = Versions
      /\ pc' = "root" /\ i' = i
      /\ UNCHANGED <<file, dry, list, outcome, vault, roots, metadata, served, ghosts, dryRuns, edits, faults>>
  BY DEF WriteChunk, Go, chain, spent, WhInv, FolderInv
<1>3. Types'
  BY <1>2 DEF WhInv, Types
<1>4. FolderInv'
  <2>1. Made(list, i)
    BY <1>1 DEF Made
  <2>2. \A l, v : Made(l, v)' <=> Made(l, v)
    BY <1>2 DEF Made
  <2>3. proofs'[i] = ProofsOf(Chunk(list, i), i) /\ \A v \in Versions \ {i} : proofs'[v] = proofs[v]
    BY <1>1, <1>2
  <2>4. QED
    BY <1>1, <1>2, <2>1, <2>2, <2>3 DEF WhInv, FolderInv
<1>5. RunInv'
  <2>1. proofs'[i] = ProofsOf(Chunk(list, i), i) /\ \A v \in Versions \ {i} : proofs'[v] = proofs[v]
    BY <1>1, <1>2
  <2>2. \A v \in Versions : v < i => Written(v)'
    BY <1>1, <1>2, <2>1, Numbers DEF Written
  <2>3. QED
    BY <1>1, <1>2, <2>1, <2>2, Numbers DEF RunInv
<1>6. RootInv' /\ LateInv' /\ StoreInv' /\ Single'
  BY <1>2, RootKept, LateKept, StoreKept DEF WhInv
<1>7. QED
  BY <1>3, <1>4, <1>5, <1>6 DEF WhInv

\* A root of the version exists, so the version is written.
LEMMA SkipKeeps == ASSUME WhInv, SkipRoot PROVE WhInv'
<1>1. /\ pc = "root" /\ list \in Whitelists /\ (edits = 0 => list = file) /\ i \in Nat
      /\ i < ChunkCount(list) /\ outcome = "none" /\ roots[i] # {}
      /\ proofs[i] = ProofsOf(Chunk(list, i), i)
      /\ \A v \in Versions : v < i => Written(v)
  BY Numbers DEF WhInv, Types, RunInv, SkipRoot
<1>2. /\ pc' = "chunk" /\ i' = i + 1
      /\ UNCHANGED <<file, dry, list, outcome, vault, roots, metadata, proofs, served, ghosts, dryRuns, edits, faults>>
  BY DEF SkipRoot, Go, chain, disk, spent
<1>3. Types'
  BY <1>1, <1>2, Numbers DEF WhInv, Types
<1>4. RunInv'
  <2>1. Written(i)
    BY <1>1 DEF Written
  <2>2. \A v \in Versions : v < i + 1 => Written(v)
    BY <1>1, <2>1, Numbers
  <2>3. \A v \in Versions : v < i + 1 => Written(v)'
    BY <1>2, <2>2, WrittenSame
  <2>4. QED
    BY <1>1, <1>2, <2>3, Numbers DEF RunInv
<1>5. QED
  BY <1>2, <1>3, <1>4, TurnKeeps DEF disk

\* A missing root is noticed.
LEMMA NoRootKeeps == ASSUME WhInv, NoRoot PROVE WhInv'
<1>1. /\ pc = "root" /\ pc' = "send" /\ i' = i
      /\ UNCHANGED <<file, dry, list, outcome, vault, roots, metadata, proofs, served, ghosts, dryRuns, edits, faults>>
  BY DEF NoRoot, Go, chain, disk, spent
<1>2. Types'
  BY <1>1 DEF WhInv, Types
<1>3. RunInv'
  <2>1. \A v : Written(v)' <=> Written(v)
    BY <1>1, WrittenSame
  <2>2. QED
    BY <1>1, <2>1 DEF WhInv, RunInv
<1>4. QED
  BY <1>1, <1>2, <1>3, TurnKeeps DEF disk

\* The root is that of the chunk whose proofs were just written.
LEMMA CreateRootKeeps == ASSUME WhInv, CreateRoot PROVE WhInv'
<1>1. /\ pc = "send" /\ list \in Whitelists /\ (edits = 0 => list = file) /\ i \in Nat
      /\ i < ChunkCount(list) /\ outcome = "none" /\ i \in Versions
      /\ proofs[i] = ProofsOf(Chunk(list, i), i)
      /\ \A v \in Versions : v < i => Written(v)
      /\ roots \in [Versions -> SUBSET Entries] /\ dry \in BOOLEAN
      /\ EntriesOf(Chunk(list, i)) \subseteq Entries /\ EntriesOf(Chunk(list, i)) # {}
  BY Numbers, MadeIs DEF WhInv, Types, RunInv, RootInv, CreateRoot
<1>9. CASE roots[i] # {}
  <2>1. /\ pc' = "idle" /\ i' = 0 /\ outcome' = "threw" /\ End("threw")
        /\ UNCHANGED <<file, dry, list, vault, roots, metadata, proofs, served, ghosts, dryRuns, edits, faults>>
    BY <1>9 DEF CreateRoot, End, disk, spent
  <2>2. Types'
    BY <2>1, Numbers DEF WhInv, Types
  <2>3. QED
    BY <2>1, <2>2, EndedRun, TurnKeeps DEF disk
<1>10. SUFFICES ASSUME roots[i] = {} PROVE WhInv'
  BY <1>9
<1>2. /\ pc' = "chunk" /\ i' = i + 1
      /\ roots' = IF dry THEN roots ELSE [roots EXCEPT ![i] = EntriesOf(Chunk(list, i))]
      /\ UNCHANGED <<file, dry, list, outcome, vault, metadata, proofs, served, ghosts, dryRuns, edits, faults>>
  BY <1>10 DEF CreateRoot, Go, disk, spent
<1>3. /\ roots' \in [Versions -> SUBSET Entries]
      /\ \A v \in Versions \ {i} : roots'[v] = roots[v]
      /\ dry => roots'[i] = roots[i]
      /\ ~dry => roots'[i] = EntriesOf(Chunk(list, i))
  BY <1>1, <1>2
<1>4. Types'
  BY <1>1, <1>2, Numbers DEF WhInv, Types
<1>5. RootInv'
  <2>1. Made(list, i)
    BY <1>1 DEF Made
  <2>2. \A l, v : Made(l, v)' <=> Made(l, v)
    BY <1>2 DEF Made
  <2>3. QED
    BY <1>1, <1>3, <2>1, <2>2 DEF WhInv, RootInv
<1>6. RunInv'
  <2>1. \A v \in Versions : v = i => Written(v)'
    BY <1>1, <1>2, <1>3 DEF Written
  <2>2. \A v \in Versions : v < i => Written(v)'
    BY <1>1, <1>2, <1>3, Numbers DEF Written
  <2>3. \A v \in Versions : v < i + 1 => v = i \/ v < i
    BY <1>1, Numbers
  <2>4. QED
    BY <1>1, <1>2, <2>1, <2>2, <2>3, Numbers DEF RunInv
<1>7. FolderInv' /\ LateInv' /\ StoreInv' /\ Single'
  BY <1>2, FolderKept, LateKept, StoreKept DEF WhInv
<1>8. QED
  BY <1>4, <1>5, <1>6, <1>7 DEF WhInv

\* All chunks are written when the metadata account is made.
LEMMA MetadataKeeps == ASSUME WhInv, CheckMetadata \/ CreateMetadata PROVE WhInv'
<1>1. /\ pc \in {"chunk", "metadata"} /\ list \in Whitelists /\ (edits = 0 => list = file)
      /\ outcome = "none"
      /\ \A v \in Versions : v < ChunkCount(list) => Written(v)
  <2>1. pc \in {"chunk", "metadata"} /\ (pc = "chunk" => i = ChunkCount(list))
    BY DEF CheckMetadata, CreateMetadata
  <2>2. QED
    BY <2>1 DEF WhInv, RunInv
<1>2. /\ pc' \in {"idle", "metadata", "upload"} /\ i' = 0 /\ metadata' \in BOOLEAN
      /\ pc' = "idle" => outcome' = "threw"
      /\ pc' # "idle" => outcome' = outcome
      /\ UNCHANGED <<file, dry, list, vault, roots, proofs, served, ghosts, dryRuns, edits, faults>>
  BY DEF CheckMetadata, CreateMetadata, Go, End, chain, disk, spent, WhInv, Types
<1>3. Types'
  BY <1>1, <1>2, Numbers DEF WhInv, Types
<1>4. RunInv'
  <2>1. \A v \in Versions : v < ChunkCount(list) => Written(v)'
    BY <1>1, <1>2, WrittenSame
  <2>2. \A v \in Versions : ~(v < 0)
    BY Numbers
  <2>3. QED
    BY <1>1, <1>2, <2>1, <2>2 DEF RunInv
<1>5. QED
  BY <1>2, <1>3, <1>4, TurnKeeps DEF disk

\* An upload serves the wallets of one file: it replaces what they were served and takes
\* nobody out of the store.
LEMMA UploadKeeps == ASSUME WhInv, Upload PROVE WhInv'
<1>1. /\ pc = "upload" /\ list \in Whitelists /\ (edits = 0 => list = file) /\ outcome = "none"
      /\ i \in Versions /\ i \in Nat /\ i < MaxChunks
      /\ \A v \in Versions : v < ChunkCount(list) => Written(v) /\ (v < i => Given(v))
  BY Numbers DEF WhInv, Types, RunInv, Upload
<1>2. /\ served' = {q \in served : \A p \in proofs[i] : Wallet(p.entry) # Wallet(q.entry)} \union proofs[i]
      /\ pc' = "upload" /\ i' = i + 1
      /\ UNCHANGED <<file, dry, list, outcome, vault, roots, metadata, proofs, ghosts, dryRuns, edits, faults>>
  BY DEF Upload, Go, chain, spent
<1>3. \/ proofs[i] = {}
      \/ \E l \in Whitelists : Made(l, i) /\ proofs[i] = ProofsOf(Chunk(l, i), i)
  BY <1>1 DEF WhInv, FolderInv
<1>4. /\ \A p \in proofs[i] : p.version = i
      /\ \A p, q \in proofs[i] : Wallet(p.entry) = Wallet(q.entry) => p = q
  BY <1>3, MadeIs DEF Made
<1>5. Types'
  BY <1>1, <1>2, Numbers DEF WhInv, Types
<1>6. StoreInv'
  <2>1. \A l, v : Made(l, v)' <=> Made(l, v)
    BY <1>2 DEF Made
  <2>2. \A p \in proofs[i] : \E l \in Whitelists :
            Made(l, p.version) /\ p \in ProofsOf(Chunk(l, p.version), p.version)
    BY <1>3, <1>4
  <2>3. \A p \in served : \E l \in Whitelists :
            Made(l, p.version) /\ p \in ProofsOf(Chunk(l, p.version), p.version)
    BY DEF WhInv, StoreInv
  <2>4. \A p \in served' : p \in served \/ p \in proofs[i]
    BY <1>2
  <2>5. QED
    BY <2>1, <2>2, <2>3, <2>4, Zenon DEF StoreInv
<1>7. Single'
  BY <1>2, <1>4 DEF WhInv, Single
<1>8. Known \subseteq Known' /\ \A p \in proofs[i] : Wallet(p.entry) \in Known'
  BY <1>2 DEF Known
<1>9. RunInv'
  <2>1. \A v \in Versions : v < ChunkCount(list) => Written(v)'
    BY <1>1, <1>2, WrittenSame
  <2>2. \A v \in Versions : v < ChunkCount(list) /\ v < i => Given(v)'
    BY <1>1, <1>2, <1>8 DEF Given
  <2>3. \A v \in Versions : v = i /\ v < ChunkCount(list) => Given(v)'
    <3>1. SUFFICES ASSUME i < ChunkCount(list), NEW e \in EntriesOf(Chunk(list, i))
                   PROVE  Wallet(e) \in Known'
      BY <1>2 DEF Given
    <3>2. proofs[i] = ProofsOf(Chunk(list, i), i)
      BY <1>1, <3>1 DEF Written
    <3>3. \E p \in proofs[i] : Wallet(p.entry) = Wallet(e)
      BY <1>1, <3>1, <3>2, MadeIs
    <3>4. QED
      BY <1>8, <3>3
  <2>4. \A v \in Versions : v < i + 1 => v = i \/ v < i
    BY <1>1, Numbers
  <2>5. QED
    BY <1>1, <1>2, <2>1, <2>2, <2>3, <2>4 DEF RunInv
<1>10. FolderInv' /\ RootInv' /\ LateInv'
  BY <1>2, FolderKept, RootKept, LateKept DEF WhInv
<1>11. QED
  BY <1>5, <1>6, <1>7, <1>9, <1>10 DEF WhInv

\* A run that is through has uploaded every version.
LEMMA FinishKeeps == ASSUME WhInv, Finish PROVE WhInv'
<1>1. /\ pc = "upload" /\ list \in Whitelists /\ (edits = 0 => list = file) /\ i = MaxChunks
      /\ \A v \in Versions : v < ChunkCount(list) => Written(v) /\ (v < i => Given(v))
  BY DEF WhInv, RunInv, Finish
<1>2. /\ pc' = "idle" /\ i' = 0 /\ outcome' = "done"
      /\ UNCHANGED <<file, dry, list, vault, roots, metadata, proofs, served, ghosts, dryRuns, edits, faults>>
  BY DEF Finish, End, chain, disk, spent
<1>3. Types'
  BY <1>2, Numbers DEF WhInv, Types
<1>4. RunInv'
  <2>1. \A v \in Versions : v < i
    BY <1>1, Numbers
  <2>2. \A v \in Versions : v < ChunkCount(list) => Written(v)' /\ Given(v)'
    BY <1>1, <1>2, <2>1, WrittenSame, GivenSame
  <2>3. QED
    BY <1>1, <1>2, <2>2 DEF RunInv
<1>5. QED
  BY <1>2, <1>3, <1>4, TurnKeeps DEF disk

\* A transaction whose confirmation is lost carries the root of this run's chunk.
LEMMA UnconfirmedKeeps == ASSUME WhInv, Unconfirmed PROVE WhInv'
<1>1. /\ pc' = "idle" /\ i' = 0 /\ outcome' = "threw" /\ faults' = faults + 1 /\ faults < Faults
      /\ ghosts' = ghosts \union {Current} /\ End("threw") /\ pc \in {"create", "send", "metadata"}
      /\ UNCHANGED <<file, dry, list, vault, roots, metadata, proofs, served, dryRuns, edits>>
  BY DEF Unconfirmed, Fault, End, chain, disk
<1>2. Types'
  BY <1>1, Numbers DEF WhInv, Types
<1>3. LateInv'
  <2>1. SUFFICES ASSUME Current.kind = "root"
                 PROVE  \E l \in Whitelists :
                           Made(l, Current.version) /\ Current.root = EntriesOf(Chunk(l, Current.version))
    <3>1. \A l, v : Made(l, v)' <=> Made(l, v)
      BY <1>1 DEF Made
    <3>2. \A t \in ghosts' : t \in ghosts \/ t = Current
      BY <1>1
    <3>3. QED
      BY <2>1, <3>1, <3>2, Zenon DEF WhInv, LateInv
  <2>2. pc = "send"
    BY <1>1, <2>1 DEF Current
  <2>3. Current.version = i /\ Current.root = EntriesOf(Chunk(list, i))
    BY <2>2 DEF Current
  <2>4. list \in Whitelists /\ (edits = 0 => list = file) /\ i \in Nat /\ i < ChunkCount(list)
    BY <2>2, Numbers DEF WhInv, Types, RunInv
  <2>5. QED
    BY <2>3, <2>4 DEF Made
<1>4. FolderInv' /\ RootInv' /\ StoreInv' /\ Single' /\ RunInv'
  BY <1>1, FolderKept, RootKept, StoreKept, EndedRun DEF WhInv
<1>5. QED
  BY <1>2, <1>3, <1>4 DEF WhInv

\* An interrupted run leaves folder, store and chain behind.
LEMMA InterruptedKeeps == ASSUME WhInv, Interrupted PROVE WhInv'
<1>1. /\ pc' = "idle" /\ i' = 0 /\ outcome' = "threw" /\ faults' = faults + 1 /\ faults < Faults
      /\ End("threw")
      /\ UNCHANGED <<file, dry, list, vault, roots, metadata, proofs, served, ghosts, dryRuns, edits>>
  BY DEF Interrupted, Fault, End, chain, disk
<1>2. Types'
  BY <1>1, Numbers DEF WhInv, Types
<1>3. QED
  BY <1>1, <1>2, EndedRun, TurnKeeps DEF disk

\* A late root fills a version that has none, and takes none away.
LEMMA LandLateKeeps == ASSUME WhInv, NEW t \in ghosts, LandLate(t) PROVE WhInv'
<1>1. /\ ghosts' = ghosts \ {t} /\ vault' \in BOOLEAN /\ metadata' \in BOOLEAN
      /\ roots' = IF t.kind = "root" /\ roots[t.version] = {}
                  THEN [roots EXCEPT ![t.version] = t.root] ELSE roots
      /\ UNCHANGED <<file, pc, dry, list, i, outcome, proofs, served, dryRuns, edits, faults>>
  BY DEF LandLate, run, disk, spent, WhInv, Types
<1>2. Types'
  BY <1>1 DEF WhInv, Types
<1>3. /\ roots \in [Versions -> SUBSET Entries]
      /\ \A l, v : Made(l, v)' <=> Made(l, v)
  BY <1>1 DEF WhInv, RootInv, Made
<1>4. RootInv' /\ \A v \in Versions : roots[v] # {} => roots'[v] # {}
  <2>1. CASE roots' = roots
    BY <1>1, <2>1, RootKept DEF WhInv
  <2>2. CASE roots' # roots
    <3>1. PICK l \in Whitelists : Made(l, t.version) /\ t.root = EntriesOf(Chunk(l, t.version))
      BY <1>1, <2>2 DEF WhInv, LateInv
    <3>2. t.version \in Versions /\ t.root \subseteq Entries /\ t.root # {}
      BY <3>1, MadeIs DEF Made
    <3>3. /\ roots' \in [Versions -> SUBSET Entries] /\ roots'[t.version] = t.root
          /\ \A v \in Versions \ {t.version} : roots'[v] = roots[v]
      BY <1>1, <1>3, <2>2, <3>2
    <3>4. RootInv'
      BY <1>3, <3>1, <3>2, <3>3 DEF WhInv, RootInv
    <3>5. QED
      BY <3>2, <3>3, <3>4
  <2>3. QED
    BY <2>1, <2>2
<1>5. RunInv'
  <2>1. \A v \in Versions : Written(v) => Written(v)'
    BY <1>1, <1>4 DEF Written
  <2>2. \A v \in Versions : Given(v) => Given(v)'
    BY <1>1, GivenSame
  <2>3. QED
    BY <1>1, <2>1, <2>2 DEF WhInv, RunInv
<1>6. FolderInv' /\ LateInv' /\ StoreInv' /\ Single'
  BY <1>1, FolderKept, LateKept, StoreKept DEF WhInv
<1>7. QED
  BY <1>2, <1>4, <1>5, <1>6 DEF WhInv

\* This run is not affected by what leaves its variables, the folder and the chain alone.
LEMMA RunKept ==
    ASSUME RunInv, UNCHANGED <<pc, dry, list, i, outcome, roots, proofs, served>>,
           edits' = 0 => edits = 0 /\ file' = file
    PROVE  RunInv'
<1>1. \A v : (Written(v)' <=> Written(v)) /\ (Given(v)' <=> Given(v))
  BY WrittenSame, GivenSame
<1>2. QED
  BY <1>1 DEF RunInv

\* A late transaction expires.
LEMMA ExpireKeeps == ASSUME WhInv, NEW t \in ghosts, Expire(t) PROVE WhInv'
<1>1. /\ ghosts' = ghosts \ {t}
      /\ UNCHANGED <<file, pc, dry, list, i, outcome, vault, roots, metadata, proofs, served, dryRuns, edits, faults>>
  BY DEF Expire, run, chain, disk, spent
<1>2. Types' /\ RunInv'
  BY <1>1, RunKept DEF WhInv, Types
<1>3. QED
  BY <1>1, <1>2, TurnKeeps DEF disk

\* After an edit, nothing is claimed about the list that things were made from.
LEMMA EditKeeps == ASSUME WhInv, Edit PROVE WhInv'
<1>1. /\ edits < Edits /\ edits' = edits + 1 /\ file' \in Whitelists
      /\ UNCHANGED <<pc, dry, list, i, outcome, vault, roots, metadata, proofs, served, ghosts, dryRuns, faults>>
  BY DEF Edit, run, chain, disk
<1>2. edits \in Nat /\ edits' # 0
  BY <1>1, Numbers DEF WhInv, Types
<1>3. Types' /\ RunInv'
  BY <1>1, <1>2, RunKept, Numbers DEF WhInv, Types
<1>4. \A l, v : Made(l, v) => Made(l, v)'
  BY <1>2 DEF Made
<1>5. FolderInv' /\ RootInv'
  BY <1>1, <1>4 DEF WhInv, FolderInv, RootInv
<1>6. LateInv' /\ StoreInv' /\ Single'
  BY <1>1, <1>4 DEF WhInv, LateInv, StoreInv, Single
<1>7. QED
  BY <1>3, <1>5, <1>6 DEF WhInv

-----------------------------------------------------------------------------
\* The invariant is inductive: every step keeps it,
LEMMA WhStep == WhInv /\ [Next]_vars => WhInv'
<1> SUFFICES ASSUME WhInv, [Next]_vars PROVE WhInv'
  OBVIOUS
<1>1. CASE UNCHANGED vars
  <2>1. UNCHANGED <<file, pc, dry, list, i, outcome, vault, roots, metadata, proofs, served, ghosts, dryRuns, edits, faults>>
    BY <1>1 DEF vars, chain, run, disk, spent
  <2>2. Types' /\ RunInv'
    BY <2>1, RunKept DEF WhInv, Types
  <2>3. QED
    BY <2>1, <2>2, TurnKeeps DEF disk
<1>2. CASE Step
  BY <1>2, StartKeeps, VaultKeeps, WriteKeeps, SkipKeeps, NoRootKeeps, CreateRootKeeps,
     MetadataKeeps, UploadKeeps, FinishKeeps
     DEF Step
<1>3. CASE Unconfirmed \/ Interrupted \/ Edit
  BY <1>3, UnconfirmedKeeps, InterruptedKeeps, EditKeeps
<1>4. CASE \E t \in ghosts : LandLate(t) \/ Expire(t)
  BY <1>4, LandLateKeeps, ExpireKeeps
<1>5. QED
  BY <1>1, <1>2, <1>3, <1>4 DEF Next

\* the initial states satisfy it,
LEMMA WhStart == Init => WhInv
<1> SUFFICES ASSUME Init PROVE WhInv
  OBVIOUS
<1>1. Types
  <2>1. file \in Whitelists /\ list \in Whitelists \union {<<>>}
    BY DEF Init
  <2>2. i \in 0..MaxChunks /\ dryRuns \in 0..DryRuns /\ edits \in 0..Edits /\ faults \in 0..Faults
    BY Numbers DEF Init
  <2>3. QED
    BY <2>1, <2>2 DEF Init, Types
<1>2. FolderInv /\ RootInv /\ LateInv /\ StoreInv /\ Single
  BY DEF Init, FolderInv, RootInv, LateInv, StoreInv, Single
<1>3. RunInv
  BY DEF Init, RunInv
<1>4. QED
  BY <1>1, <1>2, <1>3 DEF WhInv

\* so it holds in every reachable state.
LEMMA WhAlways == Spec => []WhInv
BY WhStart, WhStep, PTL DEF Spec

\* It implies the three invariants.
LEMMA WhSound == WhInv => TypeOK /\ ServedNotContradicted /\ DoneServesAll
<1> SUFFICES ASSUME WhInv PROVE TypeOK /\ ServedNotContradicted /\ DoneServesAll
  OBVIOUS
<1>1. \A p \in served : \E l \in Whitelists :
          /\ Made(l, p.version) /\ p.version \in Versions
          /\ p.tree = EntriesOf(Chunk(l, p.version))
  BY MadeIs DEF WhInv, StoreInv, Made
<1>2. \A v \in Versions :
          roots[v] = {} \/ \E l \in Whitelists : Made(l, v) /\ roots[v] = EntriesOf(Chunk(l, v))
  BY DEF WhInv, RootInv
<1>3. ASSUME edits = 0, NEW p \in served, roots[p.version] # {}
      PROVE  Accepted(p)
  <2>1. PICK l \in Whitelists :
            Made(l, p.version) /\ p.version \in Versions /\ p.tree = EntriesOf(Chunk(l, p.version))
    BY <1>1
  <2>2. PICK m \in Whitelists : Made(m, p.version) /\ roots[p.version] = EntriesOf(Chunk(m, p.version))
    BY <1>2, <1>3, <2>1
  <2>3. l = file /\ m = file
    BY <1>3, <2>1, <2>2 DEF Made
  <2>4. QED
    BY <2>1, <2>2, <2>3 DEF Accepted
<1>4. ServedNotContradicted
  BY <1>3 DEF ServedNotContradicted
<1>5. TypeOK
  <2>1. \A v \in Versions : \A p \in proofs[v] : p.entry \in Entries /\ p.version = v
    <3>1. SUFFICES ASSUME NEW v \in Versions, NEW p \in proofs[v] PROVE p.entry \in Entries /\ p.version = v
      OBVIOUS
    <3>2. PICK l \in Whitelists : Made(l, v) /\ proofs[v] = ProofsOf(Chunk(l, v), v)
      BY <3>1 DEF WhInv, FolderInv
    <3>3. QED
      BY <3>1, <3>2, MadeIs DEF Made
  <2>2. DOMAIN roots = Versions /\ DOMAIN proofs = Versions
    BY DEF WhInv, RootInv, FolderInv
  <2>3. QED
    BY <2>1, <2>2 DEF WhInv, Types, Single, RunInv, TypeOK
<1>6. DoneServesAll
  <2>1. SUFFICES ASSUME outcome = "done", ~dry, edits = 0, NEW e \in EntriesOf(list)
                 PROVE  \E p \in served : Wallet(p.entry) = Wallet(e) /\ Accepted(p)
    BY DEF DoneServesAll, AllServed
  <2>2. /\ list \in Whitelists /\ list = file
        /\ \A v \in Versions : v < ChunkCount(list) => Written(v) /\ Given(v)
    BY <2>1 DEF WhInv, RunInv
  <2>3. PICK v \in Nat : v < ChunkCount(list) /\ e \in EntriesOf(Chunk(list, v))
    BY <2>2, ChunksCover
  <2>4. v \in Versions /\ Given(v)
    BY <2>2, <2>3, MadeIs
  <2>5. PICK p \in served : Wallet(p.entry) = Wallet(e)
    BY <2>3, <2>4 DEF Given, Known
  <2>6. PICK l \in Whitelists : Made(l, p.version) /\ p.version \in Versions
    BY <1>1
  <2>7. l = list /\ p.version < ChunkCount(list)
    BY <2>1, <2>2, <2>6 DEF Made
  <2>8. roots[p.version] # {}
    BY <2>1, <2>2, <2>6, <2>7 DEF Written
  <2>9. QED
    BY <1>3, <2>1, <2>5, <2>8
<1>7. QED
  BY <1>4, <1>5, <1>6

\* A root appears under a running command in CreateRoot only, and then the folder holds the
\* proofs of the same chunk.
LEMMA RootStep ==
    ASSUME WhInv, [Next]_vars, NEW v \in Versions,
           pc = "send", i = v, pc' = "chunk", roots'[v] # roots[v]
    PROVE  /\ {p.entry : p \in proofs[v]} \subseteq EntriesOf(list) /\ proofs[v] # {}
           /\ \A p \in proofs[v] : p.tree = roots'[v]
<1>1. CreateRoot
  <2>1. ~(\E t \in ghosts : LandLate(t) \/ Expire(t))
    BY DEF LandLate, Expire, run
  <2>2. ~UNCHANGED vars
    BY DEF vars, run
  <2>3. ~Unconfirmed /\ ~Interrupted /\ ~Edit
    BY DEF Unconfirmed, Interrupted, Edit, End, run
  <2>4. Step
    BY <2>1, <2>2, <2>3 DEF Next
  <2>5. QED
    BY <2>4
       DEF Step, Start, CheckVault, CreateVault, LoadVault, WriteChunk, SkipRoot,
           NoRoot, CheckMetadata, CreateMetadata, Upload, Finish, chain
<1>2. /\ list \in Whitelists /\ i \in Nat /\ i < ChunkCount(list) /\ i \in Versions
      /\ proofs[i] = ProofsOf(Chunk(list, i), i) /\ roots \in [Versions -> SUBSET Entries]
  BY Numbers DEF WhInv, Types, RunInv, RootInv
<1>3. roots'[i] = EntriesOf(Chunk(list, i))
  BY <1>1, <1>2 DEF CreateRoot, End
<1>4. /\ EntriesOf(Chunk(list, i)) # {} /\ EntriesOf(Chunk(list, i)) \subseteq EntriesOf(list)
      /\ \A p \in proofs[i] : p.entry \in EntriesOf(Chunk(list, i)) /\ p.tree = EntriesOf(Chunk(list, i))
      /\ \A e \in EntriesOf(Chunk(list, i)) : \E p \in proofs[i] : Wallet(p.entry) = Wallet(e)
  BY <1>2, MadeIs
<1>5. QED
  BY <1>3, <1>4

-----------------------------------------------------------------------------
\* createPermissionedAlphaVaultWithMerkleProof keeps its variables in range for whitelists and
\* chunks of every length, and uploadProof leaves one proof for each wallet.
THEOREM WhitelistTypeCorrect == Spec => []TypeOK
BY WhAlways, WhSound, PTL

\* A whitelist that is never edited is served as the chain has it: no participant is handed a
\* proof that the root on chain contradicts, through dry runs, kills and roots that land late.
THEOREM WhitelistServedNotContradicted == Spec => []ServedNotContradicted
BY WhAlways, WhSound, PTL

\* When a live run is through, every wallet of the list is served a proof that the root on
\* chain accepts, also when roots or files are left over from runs that failed.
THEOREM WhitelistDoneServesAll == Spec => []DoneServesAll
BY WhAlways, WhSound, PTL

\* A run that creates a root leaves in the folder the proofs that go with it, however often the
\* whitelist was edited before.
THEOREM WhitelistRootMatchesFolder == Spec => RootMatchesFolder
<1>1. WhInv /\ [Next]_vars =>
        [\A v \in Versions :
          pc = "send" /\ i = v /\ pc' = "chunk" /\ roots'[v] # roots[v]
            => /\ {p.entry : p \in proofs[v]} \subseteq EntriesOf(list) /\ proofs[v] # {}
               /\ \A p \in proofs[v] : p.tree = roots'[v]]_vars
  BY RootStep
<1>2. QED
  BY <1>1, WhAlways, PTL DEF Spec, RootMatchesFolder
=============================================================================
