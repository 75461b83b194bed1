------------------------------ MODULE TreeClaims ------------------------------
(***************************************************************************)
(* Every claim about a small tree, its proof grown one sibling at a time:  *)
(* any record (also the bytes of two hashes, which is what an inner node   *)
(* is made of), any position, and any sequence of the hashes in the tree.  *)
(***************************************************************************)
EXTENDS MerkleTree

CONSTANTS
  Sizes,      \* sizes of the trees
  WholeSizes, \* sizes whose genuine proofs are checked
  MaxProof    \* bound: siblings in a claimed proof

VARIABLES size, index, record, path

CONSTANTS r1, r2, r3, r4, r5, r6

ASSUME TreeClaimsAssumption == Sizes \subseteq 1 .. 6 /\ WholeSizes \subseteq Nat \ {0}

Export(n) == SubSeq(<<r1, r2, r3, r4, r5, r6>>, 1, n)

Trees == [n \in Sizes |-> Tree(Export(n))]

\* The hashes in a tree, each on the path of some leaf.
Hashes == [n \in Sizes |->
  {Leaf(r) : r \in ToSet(Export(n))} \cup {Trees[n].root} \cup
  UNION {ToSet(Trees[n].paths[i]) : i \in 0 .. n - 1}]

ClaimInit ==
  /\ size \in Sizes
  /\ index \in 0 .. size - 1
  /\ record \in ToSet(Export(size)) \cup {h[2] : h \in {x \in Hashes[size] : x[1] = 1}}
  /\ path = <<>>

ClaimNext ==
  /\ Len(path) < MaxProof
  /\ \E h \in Hashes[size] : path' = Append(path, h)
  /\ UNCHANGED <<size, index, record>>

-------------------------------------------------------------------------------
\* A proof is accepted for exactly one record at exactly one position of the
\* tree, and only as _tree wrote it: not cut short, not extended, not for
\* another position of an uneven tree, and not with an inner node as a record.
InclusionExact ==
  Included(record, index, size, path, Trees[size].root)
    => record = Export(size)[index + 1] /\ path = Trees[size].paths[index]

\* Every proof _tree writes is accepted, whatever the size, and is at most
\* ceil(log2(size)) long (MAX_PROOF_NODES for MAX_BATCH records).
GenuineProofsAccepted ==
  index = 0 /\ record = r1 /\ path = <<>> /\ size = 1 =>
    \A n \in WholeSizes : LET tree == Tree([i \in 1 .. n |-> i]) IN
      \A i \in 0 .. n - 1 :
        /\ Included(i + 1, i, n, tree.paths[i], tree.root)
        /\ Len(tree.paths[i]) <= BitLength(n - 1)
===============================================================================
