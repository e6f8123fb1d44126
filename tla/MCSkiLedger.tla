---------------------------- MODULE MCSkiLedger ----------------------------
(***************************************************************************)
(* SkiLedger for the model checker: a collision-free hash and Merkle root, *)
(* and the symmetry of calls and bodies.                                   *)
(***************************************************************************)
EXTENDS SkiLedger, TLC

\* Interned payloads are their own digests: injective, and never Genesis.
MCHash(payload) == payload

MCRoot(hashes) == hashes

\* Sound for the runs without liveness properties.
Symmetry == Permutations(Writers) \cup Permutations(Body)
=============================================================================
