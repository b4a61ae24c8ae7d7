-------------------------- MODULE AlphaVaultWhitelist --------------------------
(***************************************************************************)
(* studio/src/lib/alpha_vault/index.ts, a vault permissioned with a Merkle *)
(* proof: createPermissionedAlphaVaultWithMerkleProof creates the vault if *)
(* it is missing, cuts the whitelist into chunks, writes each chunk's      *)
(* proofs to a file and its root to the chain, unless a root of that       *)
(* version is there already; createMerkleProofMetadata then uploads every  *)
(* file of the folder, from where participants fetch their proof.          *)
(*                                                                         *)
(* An entry is a number that stands for a wallet with its cap.  A root is  *)
(* the set of entries it commits to and a proof names the tree it was made *)
(* from, which is what MerkleTree computes: roots are equal iff the sets   *)
(* are, and a proof is accepted for its own entry against its own root.    *)
(* The operator may edit the whitelist between two runs, and may run the   *)
(* command again after any failure.  The chain and the KV store are        *)
(* external.                                                               *)
(***************************************************************************)
EXTENDS Integers, Sequences, FiniteSets

CONSTANTS
    Whitelists,         \* what the whitelist file may hold: sequences of entries
    ChunkSize,          \* params.chunkSize
    MaxChunks,          \* chunks of the longest whitelist
    DryRuns,            \* dry runs, at most
    Edits, Faults       \* edits of the file; lost confirmations, kills, upload errors

ASSUME AlphaVaultWhitelistAssumption ==
    /\ ChunkSize \in Nat \ {0} /\ MaxChunks \in Nat /\ DryRuns \in Nat
    /\ Edits \in Nat /\ Faults \in Nat
    /\ \A w \in Whitelists : w \in Seq(Nat) /\ Len(w) <= ChunkSize * MaxChunks

VARIABLES
    file,               \* the whitelist file
    pc, dry, list, i,   \* this run: where it is, dryRun, whitelistList, the tree version
    outcome,            \* how the last run ended: "none", "done", "threw"
    vault, roots, metadata,     \* on chain; roots by version, {} where there is none
    proofs,             \* the folder: by version, the proofs written, {} if no file
    served,             \* the KV store: what a wallet's owner will present
    ghosts,             \* transactions whose confirmation was lost
    dryRuns, edits, faults      \* budgets spent

chain == <<vault, roots, metadata>>
run   == <<pc, dry, list, i, outcome>>
disk  == <<proofs, served>>
spent == <<dryRuns, edits, faults>>
vars  == <<file, run, chain, disk, ghosts, spent>>

Versions == 0..(MaxChunks - 1)
EntriesOf(l) == {l[k] : k \in DOMAIN l}
Entries  == UNION {EntriesOf(w) : w \in Whitelists}
Wallet(e) == (e + 1) \div 2             \* entries 1 and 2 are two caps of one wallet
Lesser(a, b) == IF a < b THEN a ELSE b

\* Variant: a last chunk that is not full is left out.
ChunkCountFull(l) == Len(l) \div ChunkSize

ChunkCount(l) == (Len(l) \div ChunkSize) + (IF Len(l) % ChunkSize # 0 THEN 1 ELSE 0)

Chunk(l, v) == SubSeq(l, v * ChunkSize + 1, Lesser((v + 1) * ChunkSize, Len(l)))

\* The proofs written for a chunk; a wallet listed twice in it keeps the last.
ProofsOf(c, v) ==
    {[entry |-> c[k], version |-> v, tree |-> EntriesOf(c)] :
        k \in {n \in DOMAIN c : \A m \in DOMAIN c : m > n => Wallet(c[m]) # Wallet(c[n])}}

\* The program checks the proof p against the root on chain.
Accepted(p) == p.tree = roots[p.version]

-----------------------------------------------------------------------------
Init ==
    /\ file \in Whitelists
    /\ pc = "idle" /\ dry = FALSE /\ list = <<>> /\ i = 0 /\ outcome = "none"
    /\ vault = FALSE /\ roots = [v \in Versions |-> {}] /\ metadata = FALSE
    /\ proofs = [v \in Versions |-> {}] /\ served = {}
    /\ ghosts = {} /\ dryRuns = 0 /\ edits = 0 /\ faults = 0

Go(place, version) == pc' = place /\ i' = version /\ UNCHANGED <<dry, list, outcome>>
End(how) == pc' = "idle" /\ i' = 0 /\ outcome' = how /\ UNCHANGED <<dry, list>>

\* createAlphaVault reads the file; once a live run is through it is not run again.
Start ==
    /\ pc = "idle" /\ (outcome = "done" => dry \/ file # list)
    /\ pc' = "vault" /\ list' = file /\ i' = 0 /\ outcome' = "none"
    /\ dry' \in {FALSE, dryRuns < DryRuns}
    /\ dryRuns' = IF dry' THEN dryRuns + 1 ELSE dryRuns
    /\ UNCHANGED <<file, chain, disk, ghosts, edits, faults>>

\* getAccountInfo(alphaVaultPubkey).
CheckVault ==
    /\ pc = "vault"
    /\ Go(IF vault THEN "load" ELSE "create", 0)
    /\ UNCHANGED <<file, chain, disk, ghosts, spent>>

\* createFcfsAlphaVault, createProrataAlphaVault: simulated, sent or refused.
CreateVault ==
    /\ pc = "create"
    /\ IF vault THEN End("threw") ELSE Go("load", 0)
    /\ vault' = (vault \/ ~dry)
    /\ UNCHANGED <<file, roots, metadata, disk, ghosts, spent>>

\* AlphaVault.create throws when there is no such account.
LoadVault ==
    /\ pc = "load"
    /\ IF vault THEN Go("chunk", 0) ELSE End("threw")
    /\ UNCHANGED <<file, chain, disk, ghosts, spent>>

\* Variant: the file is written under the next version.
WriteChunkNext ==
    /\ pc = "chunk" /\ i < ChunkCount(list)
    /\ proofs' = [proofs EXCEPT ![Lesser(i + 1, MaxChunks - 1)] = ProofsOf(Chunk(list, i), i)]
    /\ Go("root", i)
    /\ UNCHANGED <<file, chain, served, ghosts, spent>>

\* Written before the root is looked at, in a dry run too.
WriteChunk ==
    /\ pc = "chunk" /\ i < ChunkCount(list)
    /\ proofs' = [proofs EXCEPT ![i] = ProofsOf(Chunk(list, i), i)]
    /\ Go("root", i)
    /\ UNCHANGED <<file, chain, served, ghosts, spent>>

\* A root of this version exists: continue with the next.
SkipRoot ==
    /\ pc = "root" /\ roots[i] # {}
    /\ Go("chunk", i + 1)
    /\ UNCHANGED <<file, chain, disk, ghosts, spent>>

\* There is none: the transaction is built, and sent with a new blockhash.
NoRoot ==
    /\ pc = "root" /\ roots[i] = {}
    /\ Go("send", i)
    /\ UNCHANGED <<file, chain, disk, ghosts, spent>>

\* Variant: every root commits to the whole whitelist.
CreateRootWhole ==
    /\ pc = "send"
    /\ IF roots[i] = {} THEN Go("chunk", i + 1) ELSE End("threw")
    /\ roots' = IF dry \/ roots[i] # {} THEN roots ELSE [roots EXCEPT ![i] = EntriesOf(list)]
    /\ UNCHANGED <<file, vault, metadata, disk, ghosts, spent>>

\* createMerkleRootConfig: simulated, sent, or refused if a root has landed meanwhile.
CreateRoot ==
    /\ pc = "send"
    /\ IF roots[i] = {} THEN Go("chunk", i + 1) ELSE End("threw")
    /\ roots' = IF dry \/ roots[i] # {} THEN roots
                ELSE [roots EXCEPT ![i] = EntriesOf(Chunk(list, i))]
    /\ UNCHANGED <<file, vault, metadata, disk, ghosts, spent>>

\* createMerkleProofMetadata: is there an account that tells where proofs are served?
CheckMetadata ==
    /\ pc = "chunk" /\ i = ChunkCount(list)
    /\ Go(IF metadata THEN "upload" ELSE "metadata", 0)
    /\ UNCHANGED <<file, chain, disk, ghosts, spent>>

CreateMetadata ==
    /\ pc = "metadata"
    /\ IF metadata THEN End("threw") ELSE Go("upload", 0)
    /\ metadata' = (metadata \/ ~dry)
    /\ UNCHANGED <<file, vault, roots, disk, ghosts, spent>>

\* Variant: a key that exists keeps its old value as well.
UploadAppends ==
    /\ pc = "upload" /\ i \in Versions
    /\ served' = served \union proofs[i]
    /\ Go("upload", i + 1)
    /\ UNCHANGED <<file, chain, proofs, ghosts, spent>>

\* uploadProof, one file at a time, whatever files the folder holds; in a dry run too.  The
\* folder is read in the order of its names, which is that of the versions up to ten of them.
Upload ==
    /\ pc = "upload" /\ i \in Versions
    /\ served' = {q \in served : \A p \in proofs[i] : Wallet(p.entry) # Wallet(q.entry)} \union proofs[i]
    /\ Go("upload", i + 1)
    /\ UNCHANGED <<file, chain, proofs, ghosts, spent>>

Finish ==
    /\ pc = "upload" /\ i = MaxChunks
    /\ End("done")
    /\ UNCHANGED <<file, chain, disk, ghosts, spent>>

-----------------------------------------------------------------------------
Fault == faults < Faults /\ faults' = faults + 1 /\ UNCHANGED <<dryRuns, edits>>

\* The transaction that the run would send now.
Current == CASE pc = "create" -> [kind |-> "vault", version |-> 0, root |-> {}]
             [] pc = "metadata" -> [kind |-> "metadata", version |-> 0, root |-> {}]
             [] pc = "send"   -> [kind |-> "root", version |-> i, root |-> EntriesOf(Chunk(list, i))]

Unconfirmed ==
    /\ pc \in {"create", "send", "metadata"} /\ ~dry /\ Fault
    /\ ghosts' = ghosts \union {Current}
    /\ End("threw")
    /\ UNCHANGED <<file, chain, disk>>

\* An RPC or upload request fails, or the operator kills the process.
Interrupted ==
    /\ pc # "idle" /\ Fault
    /\ End("threw")
    /\ UNCHANGED <<file, chain, disk, ghosts>>

\* Late, and without effect if the account exists by then.
LandLate(t) ==
    /\ t \in ghosts /\ ghosts' = ghosts \ {t}
    /\ vault' = (vault \/ t.kind = "vault")
    /\ metadata' = (metadata \/ t.kind = "metadata")
    /\ roots' = IF t.kind = "root" /\ roots[t.version] = {}
                THEN [roots EXCEPT ![t.version] = t.root] ELSE roots
    /\ UNCHANGED <<file, run, disk, spent>>

Expire(t) ==
    /\ t \in ghosts /\ ghosts' = ghosts \ {t}
    /\ UNCHANGED <<file, run, chain, disk, spent>>

Edit ==
    /\ pc = "idle" /\ edits < Edits /\ edits' = edits + 1
    /\ file' \in Whitelists \ {file}
    /\ UNCHANGED <<run, chain, disk, ghosts, dryRuns, faults>>

Step == \/ Start \/ CheckVault \/ CreateVault \/ LoadVault \/ WriteChunk \/ SkipRoot
        \/ NoRoot \/ CreateRoot \/ CheckMetadata \/ CreateMetadata \/ Upload \/ Finish

Next == \/ Step \/ Unconfirmed \/ Interrupted \/ Edit
        \/ \E t \in ghosts : LandLate(t) \/ Expire(t)

Spec == Init /\ [][Next]_vars

\* The operator runs the command until it succeeds.
FairSpec == Spec /\ WF_vars(Step)

-----------------------------------------------------------------------------
TypeOK ==
    /\ file \in Whitelists /\ list \in Whitelists \union {<<>>}
    /\ pc \in {"idle", "vault", "create", "load", "chunk", "root", "send", "metadata", "upload"}
    /\ dry \in BOOLEAN /\ i \in 0..MaxChunks /\ outcome \in {"none", "done", "threw"}
    /\ pc \in {"root", "send"} => i < ChunkCount(list)
    /\ vault \in BOOLEAN /\ metadata \in BOOLEAN
    /\ DOMAIN roots = Versions /\ DOMAIN proofs = Versions
    /\ \A v \in Versions : \A p \in proofs[v] : p.entry \in Entries /\ p.version = v
    /\ \A p, q \in served : Wallet(p.entry) = Wallet(q.entry) => p = q
    /\ dryRuns \in 0..DryRuns /\ edits \in 0..Edits /\ faults \in 0..Faults

\* A whitelist that is never edited is served as the chain has it: no participant is
\* ever given a proof that the root on chain contradicts, through dry runs, kills,
\* re-runs and roots that land late.
ServedNotContradicted ==
    edits = 0 => \A p \in served : Accepted(p) \/ roots[p.version] = {}

\* The wallets of a list can all deposit: each is served a proof that is accepted.
AllServed(l) ==
    \A e \in EntriesOf(l) : \E p \in served : Wallet(p.entry) = Wallet(e) /\ Accepted(p)

\* When a live run is through, everybody listed is served a proof that is accepted.
DoneServesAll == outcome = "done" /\ ~dry /\ edits = 0 => AllServed(list)

\* A run that creates a root leaves in the folder the proofs that go with it, however
\* often the whitelist was edited before.
RootMatchesFolder ==
    [][\A v \in Versions :
          pc = "send" /\ i = v /\ pc' = "chunk" /\ roots'[v] # roots[v]
            => /\ {p.entry : p \in proofs[v]} \subseteq EntriesOf(list) /\ proofs[v] # {}
               /\ \A p \in proofs[v] : p.tree = roots'[v]]_vars

\* An operator who re-runs the command, dry runs aside, gets there.
EverybodyServed == [](edits = 0) => <>AllServed(file)

\* "When your simulation passes, set dryRun: false to go live": the dry run of a launch
\* that has not begun can pass.  This does not hold.
DryRunCanPass == outcome = "threw" => ~dry \/ faults > 0
=============================================================================
