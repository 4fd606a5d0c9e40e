------------------------------- MODULE Merkle -------------------------------
(***************************************************************************)
(* The Merkle trees of certificate batches: built by the backend           *)
(* (services/certificate_export.py), verified by the Solana program        *)
(* (programs/contest_nft/src/lib.rs).                                      *)
(*                                                                         *)
(* SHA-256 is taken to be injective: a hash is the term that was hashed.   *)
(* Both sides hash a pair in ascending order, so the hash of a pair is that*)
(* of a set.                                                               *)
(***************************************************************************)
EXTENDS Naturals, SequencesExt

LeafHash(data) == <<"leaf", data>>
HashPair(l, r) == <<"node", {l, r}>>

\* One level up: an odd level repeats its last hash; slip: the last hash is
\* carried up unhashed.
NextLevelCarried(level) ==
    [i \in 1..((Len(level) + 1) \div 2) |->
        IF 2 * i > Len(level) THEN level[2 * i - 1] ELSE HashPair(level[2 * i - 1], level[2 * i])]
NextLevel(level) ==
    [i \in 1..((Len(level) + 1) \div 2) |->
        HashPair(level[2 * i - 1], IF 2 * i > Len(level) THEN level[2 * i - 1] ELSE level[2 * i])]

\* The levels of the tree, from the leaves to the root and on.
Level(leaves) ==
    LET level[h \in 0..Len(leaves)] ==
            IF h = 0 THEN leaves ELSE NextLevel(level[h - 1])
    IN  level

\* How often the leaves are halved: until a single hash is left.
Height(leaves) == Min({h \in 0..Len(leaves) : Len(Level(leaves)[h]) = 1})

\* merkle_root, of at least one leaf
MerkleRoot(leaves) == Level(leaves)[Height(leaves)][1]

\* The places, counted from 0, of leaf i's ancestors.
Cursor(leaves, i) ==
    LET cursor[h \in 0..Len(leaves)] == IF h = 0 THEN i - 1 ELSE cursor[h - 1] \div 2
    IN  cursor

\* The hash next to the one at a place of a level; an odd level's last is its own.
Beside(level, cursor) ==
    LET sibling == IF cursor % 2 = 0 THEN cursor + 1 ELSE cursor - 1
    IN  IF sibling < Len(level) THEN level[sibling + 1] ELSE level[cursor + 1]

\* merkle_proof: the sibling of every ancestor of leaf i.
MerkleProof(leaves, i) ==
    [h \in 1..Height(leaves) |-> Beside(Level(leaves)[h - 1], Cursor(leaves, i)[h - 1])]

\* merkle_root_from_proof
RootFromProof(leaf, proof) ==
    LET computed[h \in 0..Len(proof)] ==
            IF h = 0 THEN leaf ELSE HashPair(computed[h - 1], proof[h])
    IN  computed[Len(proof)]

=============================================================================
