------------------------------- MODULE Merkle -------------------------------
(***************************************************************************)
(* The RFC 6962 tree over the entry hashes (ski_schemas.merkle) and the    *)
(* walk up an inclusion proof that merkle.verify_inclusion and             *)
(* scitt.receipt_root share.  Digests are free terms: a digest equals      *)
(* another only if it was computed in the same way from the same inputs.   *)
(***************************************************************************)
EXTENDS Integers, SequencesExt

Leaf(hash) == <<"leaf", hash>>

Node(left, right) == <<"node", left, right>>

TwoTo[i \in Nat] == IF i = 0 THEN 1 ELSE 2 * TwoTo[i - 1]

\* The largest power of two below n; n > 1.
Split(n) == CHOOSE k \in {TwoTo[i] : i \in 0..n} : k < n /\ n <= 2 * k

\* [n][lo] is the root of the n leaves from lo + 1 on of a list of entry
\* hashes.
SubtreeRoots(hashes) ==
  LET root[n \in Nat] ==
        [lo \in Nat |-> IF n <= 1 THEN Leaf(hashes[lo + 1])
                        ELSE Node(root[Split(n)][lo], root[n - Split(n)][lo + Split(n)])]
  IN  root

MerkleRoot(hashes) ==
  IF hashes = <<>> THEN <<"empty">> ELSE SubtreeRoots(hashes)[Len(hashes)][0]

\* [n][lo] holds the siblings from the leaf at the zero-based index up to the
\* root of the n leaves from lo + 1 on.
AuditPaths(hashes, index) ==
  LET root == SubtreeRoots(hashes)
      path[n \in Nat] ==
        [lo \in Nat |-> IF n <= 1 THEN <<>>
                        ELSE IF index < lo + Split(n)
                        THEN Append(path[Split(n)][lo], root[n - Split(n)][lo + Split(n)])
                        ELSE Append(path[n - Split(n)][lo + Split(n)], root[Split(n)][lo])]
  IN  path

InclusionProof(hashes, index) == AuditPaths(hashes, index)[Len(hashes)][0]

\* The inner loop divides by this power of two, until fn is odd.
LowestBit[fn \in Nat] ==
  IF fn = 0 \/ fn % 2 = 1 THEN 1 ELSE 2 * LowestBit[fn \div 2]

\* One turn of the loop of RFC 9162, 2.1.3.2: fn is the node's index in its
\* level, sn that of the level's last node.
Absorb(walk, digest) ==
  IF ~walk.ok \/ walk.sn = 0 THEN [walk EXCEPT !.ok = FALSE]
  ELSE IF walk.fn % 2 = 1 \/ walk.fn = walk.sn
    THEN LET up == 2 * LowestBit[walk.fn] IN
         [ok |-> TRUE, fn |-> walk.fn \div up, sn |-> walk.sn \div up,
          r |-> Node(digest, walk.r)]
  ELSE [ok |-> TRUE, fn |-> walk.fn \div 2, sn |-> walk.sn \div 2,
        r |-> Node(walk.r, digest)]

\* The end of the walk; it counts when ok holds and sn is 0.
WalkUp(hash, index, size, path) ==
  LET walk[k \in Nat] ==
        IF k = 0 THEN [ok |-> 0 <= index /\ index < size, fn |-> index, sn |-> size - 1,
                       r |-> Leaf(hash)]
        ELSE Absorb(walk[k - 1], path[k])
  IN  walk[Len(path)]
=============================================================================
