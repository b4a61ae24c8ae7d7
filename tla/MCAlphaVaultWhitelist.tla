------------------------- MODULE MCAlphaVaultWhitelist -------------------------
EXTENDS AlphaVaultWhitelist, MerkleTree

\* One chunk, two chunks, a wallet listed twice in a chunk (3 and 4), a wallet listed
\* in two chunks (1 and 2), and one that a later whitelist drops.
Lists == {<<1, 3, 5>>, <<1, 3, 4, 5>>, <<3, 5, 1, 2>>, <<4, 1>>}

\* Every list of up to four of three entries, and one of every set of up to six.
Trees == (SeqOf(1..3, 4) \ {<<>>}) \union {SortSeq(SetToSeq(s), <) : s \in SUBSET (1..6) \ {{}}}

\* The proof written for an entry is accepted against the root, wherever the entry
\* stands and whatever the number of entries, and no other entry is accepted with it.
ProofsDecide(l) ==
    LET root == Root(l)
    IN  \A e \in EntriesOf(l) :
            LET proof == GetProof(l, e)
            IN  \A f \in 1..6 : VerifyProof(f, proof, root) <=> f = e

\* The root tells who is listed, and not in which order or how often.
RootDecides ==
    LET rooted == {<<EntriesOf(l), Root(l)>> : l \in Trees}
    IN  \A r, s \in rooted : r[1] = s[1] <=> r[2] = s[2]

\* The proofs and the root of every list decide who is listed.  (A fact about every list:
\* evaluated in the initial states only.)
TreesDecide == Init => RootDecides /\ \A l \in Trees : ProofsDecide(l)
=============================================================================
