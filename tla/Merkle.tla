------------------------------- MODULE Merkle -------------------------------
(***************************************************************************)
(* The tree a period's rows are committed under (digest.js, and its twin   *)
(* in Digest.daml).  A digest is the term it is of: a leaf of a row, a     *)
(* node of two digests, or the empty root.  Their schemas differ, so no    *)
(* term of one kind is ever one of another.                                *)
(***************************************************************************)
EXTENDS Integers, Sequences

PeriodLeaf(row) == <<"cycle-audit-row", row>>
MerkleNode(l, r) == <<"merkle-node", l, r>>
MerkleEmpty == <<"merkle-empty">>

\* Variant for mutation: the odd one out is paired with itself.
MerklePairUpDuplicating(level) ==
  [i \in 1..((Len(level) + 1) \div 2) |->
     MerkleNode(level[2*i - 1], IF 2*i <= Len(level) THEN level[2*i] ELSE level[2*i - 1])]

\* One level up; the odd one out is promoted as it is.
MerklePairUp(level) ==
  [i \in 1..((Len(level) + 1) \div 2) |->
     IF 2*i <= Len(level) THEN MerkleNode(level[2*i - 1], level[2*i]) ELSE level[2*i - 1]]

\* The levels of the tree over these leaves, from the leaves up; n times one
\* level up is enough for n leaves.
MerkleLevels(leaves) ==
  LET level[n \in 0..Len(leaves)] == IF n = 0 THEN leaves ELSE MerklePairUp(level[n-1])
  IN  level

MerkleRoot(leaves) ==
  IF leaves = <<>> THEN MerkleEmpty ELSE MerkleLevels(leaves)[Len(leaves)][1]

\* One round on the way up from the node numbered at, from 0: its sibling is a
\* step of the proof; a node that is promoted has none on its level.
MerkleClimb(way) ==
  LET sibling == IF way.at % 2 = 0 THEN way.at + 1 ELSE way.at - 1
      step == [siblingOnLeft |-> way.at % 2 = 1, sibling |-> way.level[sibling + 1]]
  IN  [level |-> MerklePairUp(way.level), at |-> way.at \div 2,
       steps |-> IF sibling < Len(way.level) THEN Append(way.steps, step) ELSE way.steps]

MerkleProof(ix, leaves) ==
  IF ix < 0 \/ ix >= Len(leaves) THEN <<>> ELSE
  LET way[n \in 0..Len(leaves)] ==
        IF n = 0 THEN [level |-> leaves, at |-> ix, steps |-> <<>>] ELSE MerkleClimb(way[n-1])
  IN  way[Len(leaves)].steps

MerkleFold(leaf, steps) ==
  LET acc[n \in 0..Len(steps)] ==
        IF n = 0 THEN leaf
        ELSE IF steps[n].siblingOnLeft THEN MerkleNode(steps[n].sibling, acc[n-1])
        ELSE MerkleNode(acc[n-1], steps[n].sibling)
  IN  acc[Len(steps)]

MerkleVerify(leaf, steps, root) == MerkleFold(leaf, steps) = root

\* Always from the row: a bare digest could be an inner node.
PeriodRowVerify(row, steps, root) == MerkleVerify(PeriodLeaf(row), steps, root)
=============================================================================
