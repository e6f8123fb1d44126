---------------------------- MODULE MCSkiStartup ----------------------------
(***************************************************************************)
(* SkiStartup for the model checker: a sovereign environment, a demo       *)
(* environment, and each with some settings changed.                       *)
(***************************************************************************)
EXTENDS SkiStartup, TLC

CONSTANTS k1, k2, k3

MCKeys == {k1, k2, k3}
MCGenerated == {k1, k2}

Production ==
  [mode |-> "strict", anchors |-> "pinned", unanchored |-> FALSE,
   requireSignature |-> TRUE, allowFlat |-> FALSE,
   backend |-> "ollama", fakeAllowed |-> FALSE, pin |-> "set",
   weightsFile |-> FALSE, modelSignature |-> FALSE, outside |-> {},
   tls |-> TRUE, oneWorker |-> TRUE, hotLoad |-> "off",
   automigrate |-> TRUE, keyGeneration |-> TRUE]

Demo ==
  [Production EXCEPT !.mode = "advisory", !.anchors = "none", !.unanchored = TRUE,
     !.requireSignature = FALSE, !.allowFlat = TRUE, !.backend = "fake",
     !.fakeAllowed = TRUE, !.pin = "unset", !.hotLoad = "on"]

\* The settings of e changed, mostly one at a time.
Changed(e) ==
  {[e EXCEPT !.mode = x] : x \in {"strict", "advisory", "other"}}
    \cup {[e EXCEPT !.anchors = x] : x \in {"none", "pinned", "bad"}}
    \cup {[e EXCEPT !.unanchored = x, !.hotLoad = y] : x \in BOOLEAN, y \in {"off", "on", "unusable"}}
    \cup {[e EXCEPT !.backend = x] : x \in {"fake", "ollama", "vllm", "ambiguous"}}
    \cup {[e EXCEPT !.pin = x] : x \in {"unset", "set", "malformed"}}
    \cup {[e EXCEPT !.backend = "vllm", !.weightsFile = TRUE]}
    \cup {[e EXCEPT !.modelSignature = TRUE]}
    \cup {[e EXCEPT !.outside = x] : x \in {{"ledger"}, {"model"}, {"tsa"}}}
    \cup {[e EXCEPT !.tls = FALSE], [e EXCEPT !.oneWorker = FALSE]}
    \cup {[e EXCEPT !.automigrate = FALSE], [e EXCEPT !.keyGeneration = FALSE]}

MCEnvs ==
  Changed(Production)
    \cup {[Demo EXCEPT !.mode = x] : x \in {"strict", "advisory"}}
    \cup {[Demo EXCEPT !.unanchored = FALSE], [Demo EXCEPT !.fakeAllowed = FALSE]}

Symmetry == Permutations(MCGenerated)
=============================================================================
