---------------------------- MODULE MCLiveAudit ----------------------------
(***************************************************************************)
(* LiveAudit for the model checker, with collision-free hashes.            *)
(***************************************************************************)
EXTENDS LiveAudit, TLC

MCHash(payload) == payload

MCRoot(hashes) == hashes

\* What the tool has found changes nothing that follows: one session of it
\* in a behaviour is enough.
OneSession == session.pc # "done"

Symmetry == Permutations(Keys) \cup Permutations(Body)
=============================================================================
