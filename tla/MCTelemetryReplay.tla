-------------------------- MODULE MCTelemetryReplay --------------------------
(***************************************************************************)
(* TelemetryReplay for the model checker: one producer that sends in order *)
(* and one that does not.                                                  *)
(***************************************************************************)
EXTENDS TelemetryReplay, TLC

CONSTANTS r1, r2, s1, s2

MCRequests == {r1, r2}
MCSubjects == {s1, s2}
MCReadings == {0, 3}

\* A mean of two samples is in [1, 2] only when it is of both readings.
MCObligations ==
  {[predicate |-> "must_average_within", lo |-> 1, hi |-> 2, window |-> 2],
   [predicate |-> "must_not_exceed_in_window", lo |-> 0, hi |-> 2, window |-> 2]}

\* Rows of time 1 go to the DEFAULT partition, between the two others.
MCPartitions == {0, 2}

MCOrdered == {s1}

Symmetry == Permutations(MCRequests)
=============================================================================
