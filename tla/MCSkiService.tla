---------------------------- MODULE MCSkiService ----------------------------
(***************************************************************************)
(* SkiService for the model checker: two graphs, of which only the second  *)
(* rejects the measurement "odd", and collision-free hashes and roots:     *)
(* interned payloads are their own digests.                                *)
(***************************************************************************)
EXTENDS SkiService

CONSTANTS kg1, kg2

MCKGs == {kg1, kg2}
MCMeasurements == {"odd", "skewed"}
MCRejects(m, k) == m = "odd" /\ k = kg2

MCHash(payload) == payload
MCRoot(hashes) == hashes
=============================================================================
