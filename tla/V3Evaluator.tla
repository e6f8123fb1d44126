---------------------------- MODULE V3Evaluator ----------------------------
(***************************************************************************)
(* One call of V3Evaluator.aevaluate_with_transcript: from the scoped KG   *)
(* slice and the measurement, through whatever the language model answers, *)
(* to the verdict envelope.                                                *)
(*                                                                         *)
(* The model backend and the telemetry buffer are awaited.  Nothing is     *)
(* assumed of the first, and other requests write to the second between    *)
(* any two queries: every answer is a free choice.  Notes, reasoning and   *)
(* transcript are left out.                                                *)
(***************************************************************************)
EXTENDS SymbolicVerifier, FiniteSets

CONSTANTS
  Snapshots,     \* what scope_to may return, as sequences of obligations
  Measurements,  \* accepted measurements
  Responses,     \* [wellFormed, citations, verdict, assertions]; citations is
                 \* "none", "valid", "invalid" (a cited node is not in the slice)
                 \* or "malformed" (a citation is not an object)
  Windows,       \* answers to a window query
  ForceDiscretionary  \* SKI_FORCE_DISCRETIONARY_ON_UNVERIFIABLE

ASSUME ForceAssumption == ForceDiscretionary \in BOOLEAN

\* V3Verdict(raw["verdict"]) accepts nothing else in a well-formed answer.
ASSUME ResponseAssumption == \A r \in Responses : r.verdict \in Verdicts

VARIABLES
  stage,    \* where the call is
  obs,      \* kg_snapshot["obligations"]
  meas,     \* measurement
  raw,      \* the model's answer
  fresh,    \* what _freshness_gate returned
  verdict,  \* llm_verdict
  claims,   \* assertions
  outs,     \* the outcome of each assertion
  probes,   \* the outcome of each probed obligation
  report,   \* VerificationReport
  envelope

vars == <<stage, obs, meas, raw, fresh, verdict, claims, outs, probes, report, envelope>>

NoResponse == [wellFormed |-> FALSE, citations |-> "none", verdict |-> "CLEAR", assertions |-> {}]
NoReport == [status |-> "UNVERIFIABLE", breached |-> FALSE, failClosed |-> FALSE]

\* attested: human_attestation is set (required, not fulfilled)
Envelope(v, s, attested) == [verdict |-> v, status |-> s, attested |-> attested]

Init ==
  /\ stage = "asking"
  /\ obs \in Snapshots
  /\ meas \in Measurements
  /\ raw = NoResponse
  /\ fresh = "none"
  /\ verdict = "DISCRETIONARY"
  /\ claims = {}
  /\ outs = <<>>
  /\ probes = <<>>
  /\ report = NoReport
  /\ envelope = Envelope("DISCRETIONARY", "UNVERIFIABLE", FALSE)

-----------------------------------------------------------------------------
\* RiskTierGovernor: aliases, and the strictest tier for anything unknown.
Rank(tier) ==
  CASE tier \in {"tier-2", "tier2", "standard", "default", "medium"} -> 2
    [] tier \in {"tier-3", "tier3", "low", "low-risk"} -> 3
    [] OTHER -> 1

\* tier_for_snapshot
Tier(slice) ==
  IF \E i \in DOMAIN slice : Rank(slice[i].tier) = 1 THEN 1
  ELSE IF \E i \in DOMAIN slice : Rank(slice[i].tier) = 2 THEN 2
  ELSE IF DOMAIN slice = {} THEN 1
  ELSE 3

\* Mutant: the columns of tier 2 and tier 3 are swapped.
RiskPolicySwapped(env, tier) ==
  LET downgraded == Envelope("DISCRETIONARY", env.status, TRUE) IN
  CASE env.status = "AGREED" -> env
    [] env.status # "AGREED" /\ tier = 1 -> downgraded
    [] env.status \in {"LLM_CONTRADICTION", "NEURO_SYMBOLIC_DIVERGENCE"} /\ tier = 3 -> downgraded
    [] env.status = "LLM_CONTRADICTION" /\ tier = 2 -> [env EXCEPT !.verdict = "DISCRETIONARY"]
    [] OTHER -> env

\* apply_risk_policy; no envelope carries an attestation before it.
RiskPolicy(env, tier) ==
  LET downgraded == Envelope("DISCRETIONARY", env.status, TRUE) IN
  CASE env.status = "AGREED" -> env
    [] env.status = "UNVERIFIABLE" /\ ForceDiscretionary -> downgraded
    [] env.status # "AGREED" /\ tier = 1 -> downgraded
    [] env.status \in {"LLM_CONTRADICTION", "NEURO_SYMBOLIC_DIVERGENCE"} /\ tier = 2 -> downgraded
    [] env.status = "LLM_CONTRADICTION" /\ tier = 3 -> [env EXCEPT !.verdict = "DISCRETIONARY"]
    [] OTHER -> env

\* _enforce_fail_closed
FailClosed(env, rep) ==
  IF \/ rep.failClosed /\ env.verdict \notin {"DISCRETIONARY", "NULL_STALE"}
     \/ rep.breached /\ env.verdict \in {"CLEAR", "NULL_UNMAPPED"}
  THEN Envelope("DISCRETIONARY", env.status, TRUE)
  ELSE env

\* _apply_freshness
ApplyFreshness(env, gate) ==
  CASE gate = "stale" -> [env EXCEPT !.verdict = "NULL_STALE"]
    [] gate = "undecidable" /\ env.verdict # "NULL_STALE" ->
         Envelope("DISCRETIONARY", env.status, TRUE)
    [] OTHER -> env

-----------------------------------------------------------------------------
\* The backend returns.
ModelAnswers(r) ==
  /\ stage = "asking"
  /\ raw' = r
  /\ stage' = "gating"
  /\ UNCHANGED <<obs, meas, fresh, verdict, claims, outs, probes, report, envelope>>

\* Obligations with requires_recent_within_seconds whose metric is a key of
\* the measurement.
Gated(slice, m) ==
  {i \in DOMAIN slice : slice[i].recent # "none" /\ IsKey(slice[i].metric, m)}

\* _freshness_gate: a stale obligation wins over an undecidable one.  The
\* buffer has a fresh sample, has none, or cannot be asked.
FreshnessGate(answer) ==
  /\ stage = "gating"
  /\ LET asked == {i \in Gated(obs, meas) : obs[i].recent = "valid"} IN
     fresh' = IF \E i \in asked : answer[i] = "stale" THEN "stale"
              ELSE IF \E i \in Gated(obs, meas) : i \in asked => answer[i] = "error"
              THEN "undecidable"
              ELSE "none"
  /\ stage' = "parsing"
  /\ UNCHANGED <<obs, meas, raw, verdict, claims, outs, probes, report, envelope>>

\* Citation enforcement: a cited node is not in the snapshot.  The model's
\* output is dropped, the verifier's own enumeration still runs.
RejectCitations ==
  /\ stage = "parsing"
  /\ raw.citations = "invalid"
  /\ verdict' = "NULL_UNMAPPED"
  /\ claims' = {}
  /\ stage' = "checking"
  /\ UNCHANGED <<obs, meas, raw, fresh, outs, probes, report, envelope>>

\* c.get("node_id") is evaluated outside the output-contract guard: it raises,
\* and the request fails without a verdict.
RaiseOnCitations ==
  /\ stage = "parsing"
  /\ raw.citations = "malformed"
  /\ stage' = "raised"
  /\ UNCHANGED <<obs, meas, raw, fresh, verdict, claims, outs, probes, report, envelope>>

\* Mutant: this return path forgets the freshness gate.
RejectContractUngated ==
  /\ stage = "parsing"
  /\ raw.citations \in {"none", "valid"}
  /\ ~raw.wellFormed
  /\ envelope' = Envelope("DISCRETIONARY", "UNVERIFIABLE", FALSE)
  /\ stage' = "done"
  /\ UNCHANGED <<obs, meas, raw, fresh, verdict, claims, outs, probes, report>>

\* Output-contract guard: the answer does not fit the envelope schema.
RejectContract ==
  /\ stage = "parsing"
  /\ raw.citations \in {"none", "valid"}
  /\ ~raw.wellFormed
  /\ envelope' = ApplyFreshness(Envelope("DISCRETIONARY", "UNVERIFIABLE", FALSE), fresh)
  /\ stage' = "done"
  /\ UNCHANGED <<obs, meas, raw, fresh, verdict, claims, outs, probes, report>>

\* _is_missing_reading
MissingReading(v, predicate) ==
  \/ v = None
  \/ /\ predicate \in {"must_not_exceed", "must_be_at_least", "must_be_below",
                       "must_be_above", "must_be_within"}
     /\ ~IsReal(v)

\* _missing_telemetry: windowed obligations are left to the buffer.
MissingTelemetry(slice, m, assertions) ==
  \/ \E i \in DOMAIN slice :
       /\ slice[i].predicate \notin Stateful /\ ~slice[i].window
       /\ IsKey(slice[i].metric, m)
       /\ MissingReading(m[slice[i].metric].value, slice[i].predicate)
  \/ \E a \in assertions :
       /\ a.predicate \notin Stateful /\ ~a.window
       /\ MissingReading(a.observed, a.predicate)

\* Mutant: no guard against a silent sensor.
TaxonomyGuardNotStale(v, slice, m, assertions, citations) ==
  IF v = "CLEAR" /\ assertions = {}
  THEN IF citations = "none" THEN "NULL_UNMAPPED" ELSE "DISCRETIONARY"
  ELSE v

\* Mutant: a CLEAR that asserts nothing passes.
TaxonomyGuardUnasserted(v, slice, m, assertions, citations) ==
  IF v = "CLEAR" /\ MissingTelemetry(slice, m, assertions) THEN "NULL_STALE" ELSE v

\* A CLEAR rests neither on missing telemetry nor on no assertion at all.
TaxonomyGuard(v, slice, m, assertions, citations) ==
  IF v # "CLEAR" THEN v
  ELSE IF MissingTelemetry(slice, m, assertions) THEN "NULL_STALE"
  ELSE IF assertions # {} THEN v
  ELSE IF citations = "none" THEN "NULL_UNMAPPED" ELSE "DISCRETIONARY"

\* The answer is taken: taxonomy guards, then normalize_satisfied.
Parse ==
  /\ stage = "parsing"
  /\ raw.citations \in {"none", "valid"}
  /\ raw.wellFormed
  /\ verdict' = TaxonomyGuard(raw.verdict, obs, meas, raw.assertions, raw.citations)
  /\ claims' = {NormalizeSatisfied(a, obs, meas) : a \in raw.assertions}
  /\ stage' = "checking"
  /\ UNCHANGED <<obs, meas, raw, fresh, outs, probes, report, envelope>>

\* averify_report, first loop: one window query per stateful assertion.
CheckAssertions(window) ==
  /\ stage = "checking"
  /\ outs' = [a \in claims |-> Check(a.predicate, a.observed, a.value, a.window, window[a])]
  /\ stage' = "probing"
  /\ UNCHANGED <<obs, meas, raw, fresh, verdict, claims, probes, report, envelope>>

\* Second loop and the report: the verifier's own evaluation.
ProbeObligations(window) ==
  /\ stage = "probing"
  /\ probes' = [i \in Probed(obs, meas) |->
       Check(obs[i].predicate, meas[obs[i].metric].value, obs[i].value, obs[i].window, window[i])]
  /\ report' = VerificationReport(claims, outs, verdict, probes', obs, meas)
  /\ stage' = "deciding"
  /\ UNCHANGED <<obs, meas, raw, fresh, verdict, claims, outs, envelope>>

\* The envelope at a tier: freshness is final, otherwise the policy and then
\* the floors have the last word.
Decision(tier) ==
  LET checked == Envelope(verdict, report.status, FALSE) IN
  IF raw.citations = "invalid" THEN ApplyFreshness(FailClosed(checked, report), fresh)
  ELSE IF fresh # "none" THEN ApplyFreshness(checked, fresh)
  ELSE FailClosed(RiskPolicy(checked, tier), report)

Return ==
  /\ stage = "deciding"
  /\ envelope' = Decision(Tier(obs))
  /\ stage' = "done"
  /\ UNCHANGED <<obs, meas, raw, fresh, verdict, claims, outs, probes, report>>

-----------------------------------------------------------------------------
Next ==
  \/ \E r \in Responses : ModelAnswers(r)
  \/ \E answer \in [DOMAIN obs -> {"fresh", "stale", "error"}] : FreshnessGate(answer)
  \/ RejectCitations
  \/ RaiseOnCitations
  \/ RejectContract
  \/ Parse
  \/ \E window \in [claims -> Windows] : CheckAssertions(window)
  \/ \E window \in [Probed(obs, meas) -> Windows] : ProbeObligations(window)
  \/ Return

Spec == Init /\ [][Next]_vars

-----------------------------------------------------------------------------
\* Type correctness.
TypeOK ==
  /\ stage \in {"asking", "gating", "parsing", "checking", "probing", "deciding", "done", "raised"}
  /\ obs \in Snapshots /\ meas \in Measurements
  /\ raw \in Responses \cup {NoResponse}
  /\ fresh \in {"none", "stale", "undecidable"}
  /\ verdict \in Verdicts
  /\ outs \in [DOMAIN outs -> Outcomes]
  /\ probes \in [DOMAIN probes -> Outcomes]
  /\ report \in [status : Statuses, breached : BOOLEAN, failClosed : BOOLEAN]
  /\ envelope \in [verdict : Verdicts, status : Statuses, attested : BOOLEAN]

\* The measurement itself breaches the obligation, whatever its id, its
\* position in the slice, and whether the model mentions it.
PlainBreach(i) ==
  /\ obs[i].predicate \in Stateless
  /\ obs[i].metric \in DOMAIN meas
  /\ CheckStateless(obs[i].predicate, meas[obs[i].metric].value, obs[i].value) = "breached"

\* A breach is never hidden: no answer of the model, no tier, no duplicate id
\* and no unit makes a slice with a breached obligation CLEAR or
\* NULL_UNMAPPED; nor does a window query that reports a breach.
BreachNeverHidden ==
  stage = "done" /\ envelope.verdict \in {"CLEAR", "NULL_UNMAPPED"} =>
    /\ \A i \in DOMAIN obs : ~PlainBreach(i)
    /\ \A i \in DOMAIN probes : probes[i] # "breached"

\* CLEAR is earned: the model asserted something, every assertion is known,
\* grounded and satisfied, the verifier found no contradiction, and at tier 1
\* nothing was left unverified.
ClearIsEarned ==
  stage = "done" /\ envelope.verdict = "CLEAR" =>
    /\ claims # {}
    /\ \A a \in claims : a.predicate \in KnownPredicates /\ Grounded(a, obs, meas) /\ a.satisfied
    /\ envelope.status \in IF Tier(obs) = 1 THEN {"AGREED"} ELSE {"AGREED", "UNVERIFIABLE"}

\* The freshness gate overrides the model on every path: stale is NULL_STALE,
\* undecidable goes to a human unless staleness is established otherwise.
FreshnessWins ==
  stage = "done" =>
    /\ fresh = "stale" => envelope.verdict = "NULL_STALE"
    /\ fresh = "undecidable" =>
         \/ envelope.verdict = "NULL_STALE"
         \/ envelope.verdict = "DISCRETIONARY" /\ envelope.attested

\* A laxer tier never turns a verdict that a stricter one let through.
TierOnlyRestricts ==
  stage = "deciding" =>
    \A s, t \in 1..3 :
      s < t /\ Decision(s).verdict # "DISCRETIONARY" => Decision(t) = Decision(s)

\* No CLEAR while a mapped obligation, found by its key, has no usable reading.
SilentKeyNeverClear ==
  stage = "done" /\ envelope.verdict = "CLEAR" =>
    \A i \in DOMAIN obs :
      IsKey(obs[i].metric, meas) /\ obs[i].predicate \in Stateless /\ ~obs[i].window =>
        ~MissingReading(meas[obs[i].metric].value, obs[i].predicate)

\* What each stage hands to the next: a CLEAR that survives parsing has its
\* grounds, every claim and every probed obligation has an outcome, and the
\* report is the verifier's.
ClearHasGrounds ==
  stage \in {"checking", "probing", "deciding"} /\ verdict = "CLEAR" =>
    /\ claims # {}
    /\ raw.citations \in {"none", "valid"}
    /\ ~MissingTelemetry(obs, meas, raw.assertions)

ClaimsChecked ==
  stage \in {"probing", "deciding"} => outs \in [claims -> Outcomes]

ReportIsVerifiers ==
  stage = "deciding" =>
    /\ probes \in [Probed(obs, meas) -> Outcomes]
    /\ \A i \in Probed(obs, meas) : obs[i].predicate \in Stateless =>
         probes[i] = CheckStateless(obs[i].predicate, meas[obs[i].metric].value, obs[i].value)
    /\ report = VerificationReport(claims, outs, verdict, probes, obs, meas)

\* The inductive invariant behind the four properties of a finished call.
EvaluatorInv ==
  /\ TypeOK
  /\ ClearHasGrounds
  /\ ClaimsChecked
  /\ ReportIsVerifiers
  /\ BreachNeverHidden
  /\ ClearIsEarned
  /\ FreshnessWins
  /\ SilentKeyNeverClear

\* "No silent CLEAR on a silent sensor. A CLEAR whose mapped obligation has a
\* null reading ... is now remapped" (CHANGELOG), for every mapped obligation.
SilentSensorNeverClear ==
  stage = "done" /\ envelope.verdict = "CLEAR" =>
    \A i \in DOMAIN obs :
      obs[i].metric \in DOMAIN meas /\ obs[i].predicate \in Stateless /\ ~obs[i].window =>
        ~MissingReading(meas[obs[i].metric].value, obs[i].predicate)
=============================================================================
