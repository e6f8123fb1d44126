-------------------------- MODULE SymbolicVerifier --------------------------
(***************************************************************************)
(* averify_report: the cross-check of what the model asserts, and the      *)
(* verifier's own evaluation of every obligation of the scoped KG slice    *)
(* that maps to the measurement.                                           *)
(*                                                                         *)
(* obs is the slice, a sequence of obligations                             *)
(*   [id, metric, predicate, value, unit, window, recent, tier],           *)
(* m the measurement, a function from the metrics that resolve in it to    *)
(* readings [value, unit], and an assertion is a record                    *)
(*   [obligation, metric, predicate, value, observed, satisfied, window].  *)
(* window: window_seconds is given (a positive int); recent: whether        *)
(* requires_recent_within_seconds is "none", "valid" or "invalid".         *)
(* Divergence texts are left out; their order does not affect the result,  *)
(* so the tally is a set of conditions.                                    *)
(***************************************************************************)
EXTENDS Predicates

CONSTANTS
  Dotted,    \* metrics that only resolve as a dotted path into nested objects
  NoMetric,  \* an obligation without a metric
  NoId,      \* an obligation without a string id
  NoUnit     \* no unit recorded

Verdicts == {"CLEAR", "FLAG", "NULL_UNMAPPED", "NULL_STALE", "DISCRETIONARY"}

Statuses == {"AGREED", "LLM_CONTRADICTION", "NEURO_SYMBOLIC_DIVERGENCE", "UNVERIFIABLE"}

\* metric in measurement: a top-level key
IsKey(metric, m) == metric \in DOMAIN m \ Dotted

-----------------------------------------------------------------------------
\* The positions index_obligations keeps: the last one of each string id.
Index(obs) ==
  {i \in DOMAIN obs : obs[i].id # NoId /\ \A j \in DOMAIN obs : j > i => obs[j].id # obs[i].id}

\* The verifier can evaluate ob itself.
Enumerable(ob, m) == ob.predicate \in Formalizable /\ ob.metric \in DOMAIN m

\* Mutant: an obligation the index hides is nobody's problem.
SliceViolationsIgnored(obs, m) == {}

\* What the index hides although the verifier would have evaluated it.
SliceViolations(obs, m) == {i \in DOMAIN obs \ Index(obs) : Enumerable(obs[i], m)}

\* The observation the assertion rests on was never made.
GroundingViolation(a, m) ==
  /\ ~a.window /\ a.observed # None
  /\ \/ ~IsKey(a.metric, m)
     \/ LET actual == m[a.metric].value IN
        IF "bool" \in {actual.kind, a.observed.kind}
        THEN actual # a.observed
        ELSE ~PyEqual(actual, a.observed)

\* The KG slice does not say what the assertion says it does.
ObligationGroundingViolation(a, obs) ==
  LET cited == {i \in Index(obs) : obs[i].id = a.obligation} IN
  \/ cited = {}
  \/ \E i \in cited :
       \/ obs[i].metric # NoMetric /\ a.metric # obs[i].metric
       \/ a.predicate # obs[i].predicate
       \/ obs[i].value # None /\ a.value # None /\ ~PyEqual(obs[i].value, a.value)

Grounded(a, obs, m) == ~GroundingViolation(a, m) /\ ~ObligationGroundingViolation(a, obs)

\* normalize_satisfied: the verifier's arithmetic replaces the model's.
NormalizeSatisfied(a, obs, m) ==
  LET outcome == CheckStateless(a.predicate, a.observed, a.value) IN
  IF Grounded(a, obs, m) /\ outcome # "unknown"
  THEN [a EXCEPT !.satisfied = (outcome = "satisfied")]
  ELSE a

\* A unit conversion is never attempted.
UnitMismatch(ob, m) ==
  LET unit == m[ob.metric].unit IN unit # NoUnit /\ ob.unit # NoUnit /\ unit # ob.unit

\* The obligations the verifier probes: mapped, and stated in the unit read.
Probed(obs, m) ==
  {i \in Index(obs) : Enumerable(obs[i], m) /\ ~UnitMismatch(obs[i], m)}

\* Verdicts that a breach contradicts outright.
Unflagged(verdict) == verdict \in {"CLEAR", "NULL_UNMAPPED"}

-----------------------------------------------------------------------------
\* One assertion contradicts the verifier: ungrounded, wrong, or a breach the
\* verdict does not admit.  out is its mechanical outcome.
AssertionContradicts(a, out, verdict, obs, m) ==
  /\ a.predicate \in KnownPredicates
  /\ \/ ~Grounded(a, obs, m)
     \/ out = "unknown" /\ ~a.satisfied /\ Unflagged(verdict)
     \/ out # "unknown" /\ (out = "satisfied") # a.satisfied
     \/ out = "breached" /\ Unflagged(verdict)

AssertionUnverifiable(a, out, obs, m) ==
  \/ a.predicate \notin KnownPredicates
  \/ Grounded(a, obs, m) /\ out = "unknown"

Asserted(ob, claims) == \E a \in claims : a.obligation = ob.id

\* A breach the model left out, or asserted under a verdict that denies it.
ObligationContradicts(ob, out, verdict, claims) ==
  out = "breached" /\ (Asserted(ob, claims) => Unflagged(verdict))

UnitMismatches(obs, m) ==
  {i \in Index(obs) : Enumerable(obs[i], m) /\ UnitMismatch(obs[i], m)}

SchemaViolations(claims) == {a \in claims : a.predicate \notin KnownPredicates}

\* _Tally.report: LLM_CONTRADICTION > UNVERIFIABLE > NSD > AGREED.  outs gives
\* the outcome of each claim, probes of each probed obligation.
Status(claims, outs, verdict, probes, obs, m) ==
  IF \/ \E a \in claims : AssertionContradicts(a, outs[a], verdict, obs, m)
     \/ \E i \in Probed(obs, m) : ObligationContradicts(obs[i], probes[i], verdict, claims)
  THEN "LLM_CONTRADICTION"
  ELSE IF \/ claims = {}
          \/ \E a \in claims : AssertionUnverifiable(a, outs[a], obs, m)
          \/ UnitMismatches(obs, m) # {}
          \/ \E i \in Probed(obs, m) : ~Asserted(obs[i], claims) /\ probes[i] = "unknown"
  THEN "UNVERIFIABLE"
  ELSE IF verdict = "FLAG" /\ \A a \in claims : a.satisfied
  THEN "NEURO_SYMBOLIC_DIVERGENCE"
  ELSE "AGREED"

\* VerificationReport, with the slice violations added (with_fail_closed).
VerificationReport(claims, outs, verdict, probes, obs, m) ==
  LET status == Status(claims, outs, verdict, probes, obs, m) IN
  [status |-> IF SliceViolations(obs, m) # {} /\ status # "LLM_CONTRADICTION"
              THEN "UNVERIFIABLE" ELSE status,
   breached |-> \E i \in Probed(obs, m) : probes[i] = "breached",
   failClosed |-> \/ SchemaViolations(claims) # {}
                  \/ UnitMismatches(obs, m) # {}
                  \/ SliceViolations(obs, m) # {}]
=============================================================================
