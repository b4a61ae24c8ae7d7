------------------------------- MODULE MerkleTree -------------------------------
(***************************************************************************)
(* studio/src/lib/alpha_vault/merkle_tree: the whitelist of an alpha vault *)
(* as a Merkle tree (MerkleTree), over the nodes of its entries            *)
(* (BalanceTree), with the proofs that participants present.               *)
(*                                                                         *)
(* sha256 is taken to be injective, so a hash is what was hashed: the leaf *)
(* of an entry is a record of the entry, the hash of a pair is a record of *)
(* the unordered pair (sortAndConcat sorts the two, and its prefix byte    *)
(* keeps pairs apart from leaves).  An entry, an account and its maxCap,   *)
(* is numbered in the byte order of its leaf's hash.                       *)
(***************************************************************************)
EXTENDS Integers, Sequences, FiniteSets, SequencesExt

\* Variant: the cap is not hashed; entries 2k - 1 and 2k are of one account.
ToNodeAccountOnly(entry) == [entry |-> (entry + 1) \div 2, pair |-> {}]

\* BalanceTree.toNode: the leaf says who, and up to what cap.
ToNode(entry) == [entry |-> entry, pair |-> {}]

None == [entry |-> -1, pair |-> {}]

\* combinedHash: a node without a sibling moves up as it is.
CombinedHash(first, second) ==
    IF second = None THEN first ELSE [entry |-> 0, pair |-> {first, second}]

\* Element i (from 0) of a layer, or nothing: layer[i] in the code.
At(layer, i) == IF i \in 0..(Len(layer) - 1) THEN layer[i + 1] ELSE None

\* The constructor: sorted by hash, equal neighbours dropped.
Elements(list) ==
    LET entries == {list[i] : i \in DOMAIN list}
        Nth(k)  == CHOOSE e \in entries : Cardinality({f \in entries : f <= e}) = k
    IN  [k \in 1..Cardinality(entries) |-> ToNode(Nth(k))]

\* getNextLayer.
NextLayer(layer) ==
    [k \in 1..((Len(layer) + 1) \div 2) |->
        CombinedHash(At(layer, 2 * k - 2), At(layer, 2 * k - 1))]

\* getLayers: layer d of the tree, layer 0 being the elements.
Layers(list) ==
    LET layer[d \in 0..Len(list)] ==
            IF d = 0 THEN Elements(list) ELSE NextLayer(layer[d - 1])
        height == CHOOSE h \in 0..Len(list) :
                      Len(layer[h]) = 1 /\ \A d \in 0..(h - 1) : Len(layer[d]) > 1
    IN  [d \in 0..height |-> layer[d]]

Height(layers) == Cardinality(DOMAIN layers) - 1

Root(list) == LET layers == Layers(list) IN layers[Height(layers)][1]

\* Variant: the sibling is always the next element.
GetPairElementNext(idx, layer) == At(layer, idx + 1)

\* getPairElement: the sibling of element idx (from 0), if it has one.
GetPairElement(idx, layer) == At(layer, IF idx % 2 = 0 THEN idx + 1 ELSE idx - 1)

\* The element's place in each layer: idx = floor(idx / 2).
Index(first, d) == first \div (2 ^ d)

\* getProof: the siblings on the way up.
GetProof(list, entry) ==
    LET layers == Layers(list)
        first  == SelectInSeq(layers[0], LAMBDA e : e = ToNode(entry)) - 1
        pairs  == [d \in 1..(Height(layers) + 1) |->
                      GetPairElement(Index(first, d - 1), layers[d - 1])]
    IN  SelectSeq(pairs, LAMBDA e : e # None)

\* BalanceTree.verifyProof.
VerifyProof(entry, proof, root) ==
    LET climb[k \in 0..Len(proof)] ==
            IF k = 0 THEN ToNode(entry) ELSE CombinedHash(climb[k - 1], proof[k])
    IN  climb[Len(proof)] = root
=============================================================================
