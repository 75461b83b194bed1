------------------------------ MODULE MerkleTree ------------------------------
(***************************************************************************)
(* The tree over the records of an export and the check of an inclusion    *)
(* proof (_tree and _included in src/python/batchcrypto/receipts.py).      *)
(* SHA-256 is a constructor: hashes are equal when what was hashed is      *)
(* equal, which is what its collision resistance is relied on for.         *)
(***************************************************************************)
EXTENDS Naturals, SequencesExt

Leaf(record) == <<0, record>>

\* Mutant: the two hashes of a node are sorted.
Node_Sorted(left, right) == <<1, {left, right}>>

Node(left, right) == <<1, <<left, right>>>>

BitLength(n) == CHOOSE b \in 0 .. n : n < 2 ^ b /\ \A a \in 0 .. b - 1 : n >= 2 ^ a

\* The largest power of two strictly below the size.
Split(size) == 2 ^ (BitLength(size - 1) - 1)

\* build of one record, and of two neighbouring segments: the root, and for each
\* position the siblings from the leaf up.
Single(records, start) == [root |-> Leaf(records[start + 1]), paths |-> [i \in {start} |-> <<>>]]

Joined(left, right) ==
  [root  |-> Node(left.root, right.root),
   paths |-> [i \in DOMAIN left.paths \cup DOMAIN right.paths |->
                IF i \in DOMAIN left.paths THEN Append(left.paths[i], right.root)
                ELSE Append(right.paths[i], left.root)]]

Tree(records) ==
  LET build[size \in 1 .. Len(records)] == [start \in Nat |->
        IF size = 1 THEN Single(records, start)
        ELSE LET split == Split(size)
             IN Joined(build[split][start], build[size - split][start + split])]
  IN build[Len(records)][0]

\* Mutant: a last node without a right neighbour is not lifted to its sibling's
\* level.
Lifted_Not(fn, sn) == <<fn, sn>>

\* The inner loop: a right edge skips the levels where it has no sibling.
Lifted(fn, sn) ==
  LET up[edge \in Nat \X Nat] ==
        IF edge[1] = 0 \/ edge[1] % 2 = 1 THEN edge
        ELSE up[<<edge[1] \div 2, edge[2] \div 2>>]
  IN up[<<fn, sn>>]

\* One round of the loop: a position fn among 0 .. sn on its level.
Climb(at, sibling) ==
  IF at.sn = 0 THEN [at EXCEPT !.failed = TRUE]
  ELSE LET right == at.fn % 2 = 1 \/ at.fn = at.sn
           edge  == IF right THEN Lifted(at.fn, at.sn) ELSE <<at.fn, at.sn>>
       IN [at EXCEPT !.fn = edge[1] \div 2, !.sn = edge[2] \div 2,
                     !.value = IF right THEN Node(sibling, @) ELSE Node(@, sibling)]

Included(record, index, size, path, root) ==
  LET start == [fn |-> index, sn |-> size - 1, value |-> Leaf(record), failed |-> FALSE]
      at[n \in 0 .. Len(path)] == IF n = 0 THEN start ELSE Climb(at[n - 1], path[n])
      end   == at[Len(path)]
  IN ~end.failed /\ end.sn = 0 /\ end.value = root
===============================================================================
