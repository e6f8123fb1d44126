------------------------- MODULE V3EvaluatorProofs -------------------------
(***************************************************************************)
(* What holds of every evaluation, for every slice, measurement, answer of *)
(* the language model and answer of the telemetry buffer.                  *)
(***************************************************************************)
EXTENDS V3Evaluator, TLAPS

\* Every predicate handler returns one of the three outcomes.
LEMMA StatelessOutcome ==
  ASSUME NEW p, NEW o, NEW v
  PROVE  CheckStateless(p, o, v) \in Outcomes
BY DEF CheckStateless, Outcomes, Decide, MustNotExceed, MustBeAtLeast, MustBeBelow, MustBeAbove,
       MustBeWithin, MustEqual, MustNotEqual, MustBeOneOf, MustNotBeOneOf

\* The stateful handlers return an outcome too.
LEMMA CheckOutcome ==
  ASSUME NEW p, NEW o, NEW v, NEW windowed, NEW w
  PROVE  Check(p, o, v, windowed, w) \in Outcomes
BY StatelessOutcome DEF Check, Outcomes, Decide, MustAverageWithin, MustNotExceedInWindow

\* A stateless predicate never looks at the telemetry buffer.
LEMMA StatelessCheck ==
  ASSUME NEW p \in Stateless, NEW o, NEW v, NEW windowed, NEW w
  PROVE  Check(p, o, v, windowed, w) = CheckStateless(p, o, v)
<1>1. p \notin Stateful /\ p # "must_average_within" /\ p # "must_not_exceed_in_window"
  BY DEF Stateless, Stateful
<1> QED BY <1>1 DEF Check

\* The verifier's report is well formed.
LEMMA ReportType ==
  ASSUME NEW cs, NEW os, NEW v, NEW ps, NEW slice, NEW m
  PROVE  VerificationReport(cs, os, v, ps, slice, m)
           \in [status : Statuses, breached : BOOLEAN, failClosed : BOOLEAN]
<1>1. Status(cs, os, v, ps, slice, m) \in Statuses
  BY DEF Status, Statuses
<1>2. (IF SliceViolations(slice, m) # {} /\ Status(cs, os, v, ps, slice, m) # "LLM_CONTRADICTION"
       THEN "UNVERIFIABLE" ELSE Status(cs, os, v, ps, slice, m)) \in Statuses
  BY <1>1 DEF Statuses
<1> QED BY <1>2 DEF VerificationReport

\* The three rules that edit an envelope keep it well formed.
LEMMA EnvelopeRules ==
  ASSUME NEW env \in [verdict : Verdicts, status : Statuses, attested : BOOLEAN],
         NEW tier, NEW rep, NEW gate
  PROVE  /\ RiskPolicy(env, tier) \in [verdict : Verdicts, status : Statuses, attested : BOOLEAN]
         /\ FailClosed(env, rep) \in [verdict : Verdicts, status : Statuses, attested : BOOLEAN]
         /\ ApplyFreshness(env, gate) \in [verdict : Verdicts, status : Statuses, attested : BOOLEAN]
<1>1. RiskPolicy(env, tier) \in [verdict : Verdicts, status : Statuses, attested : BOOLEAN]
  BY DEF RiskPolicy, Envelope, Verdicts
<1>2. FailClosed(env, rep) \in [verdict : Verdicts, status : Statuses, attested : BOOLEAN]
  BY DEF FailClosed, Envelope, Verdicts
<1>3. ApplyFreshness(env, gate) \in [verdict : Verdicts, status : Statuses, attested : BOOLEAN]
  BY DEF ApplyFreshness, Envelope, Verdicts
<1> QED BY <1>1, <1>2, <1>3

\* The envelope handed back is well formed at every tier.
LEMMA DecisionType ==
  ASSUME TypeOK, NEW tier
  PROVE  Decision(tier) \in [verdict : Verdicts, status : Statuses, attested : BOOLEAN]
<1> DEFINE checked == Envelope(verdict, report.status, FALSE)
<1>1. checked \in [verdict : Verdicts, status : Statuses, attested : BOOLEAN]
  BY DEF TypeOK, Envelope
<1> HIDE DEF checked
<1>2. Decision(tier) = IF raw.citations = "invalid" THEN ApplyFreshness(FailClosed(checked, report), fresh)
                       ELSE IF fresh # "none" THEN ApplyFreshness(checked, fresh)
                       ELSE FailClosed(RiskPolicy(checked, tier), report)
  BY DEF Decision, checked
<1> QED BY <1>1, <1>2, EnvelopeRules

-----------------------------------------------------------------------------
\* A verdict that says nothing is wrong got past both floors: no obligation of
\* the slice is hidden, in another unit, or probed as breached.
LEMMA UnflaggedPassesFloors ==
  ASSUME TypeOK, NEW tier, Decision(tier).verdict \in {"CLEAR", "NULL_UNMAPPED"}
  PROVE  /\ fresh = "none"
         /\ ~report.failClosed
         /\ ~report.breached
         /\ Decision(tier).verdict = verdict
<1> DEFINE checked == Envelope(verdict, report.status, FALSE)
<1> DEFINE policed == RiskPolicy(checked, tier)
<1>1. checked \in [verdict : Verdicts, status : Statuses, attested : BOOLEAN] /\ checked.verdict = verdict
  BY DEF TypeOK, Envelope
<1>2. policed.verdict \in {verdict, "DISCRETIONARY"}
  BY <1>1 DEF RiskPolicy, Envelope
<1>3. fresh = "none"
  <2>1. ASSUME fresh # "none", NEW env \in [verdict : Verdicts, status : Statuses, attested : BOOLEAN]
        PROVE  ApplyFreshness(env, fresh).verdict \notin {"CLEAR", "NULL_UNMAPPED"}
    BY <2>1 DEF TypeOK, ApplyFreshness, Envelope
  <2>2. FailClosed(checked, report) \in [verdict : Verdicts, status : Statuses, attested : BOOLEAN]
    BY <1>1, EnvelopeRules
  <2> QED BY <1>1, <2>1, <2>2 DEF Decision
<1>4. \A env : ApplyFreshness(env, fresh) = env
  BY <1>3 DEF ApplyFreshness
<1>5. \E env : /\ Decision(tier) = FailClosed(env, report)
               /\ env.verdict \in {verdict, "DISCRETIONARY"}
  BY <1>1, <1>2, <1>3, <1>4 DEF Decision
<1>6. PICK env : /\ Decision(tier) = FailClosed(env, report)
                 /\ env.verdict \in {verdict, "DISCRETIONARY"}
  BY <1>5
<1>7. /\ ~report.failClosed
      /\ ~report.breached
      /\ Decision(tier) = env
  BY <1>6 DEF FailClosed, Envelope
<1> QED BY <1>3, <1>6, <1>7

\* The independent enumeration leaves no breach out.
LEMMA NoBreachBehindUnflagged ==
  ASSUME TypeOK, ReportIsVerifiers, stage = "deciding", NEW tier,
         Decision(tier).verdict \in {"CLEAR", "NULL_UNMAPPED"}
  PROVE  /\ \A i \in DOMAIN obs : ~PlainBreach(i)
         /\ \A i \in DOMAIN probes : probes[i] # "breached"
<1>1. ~report.failClosed /\ ~report.breached
  BY UnflaggedPassesFloors
<1>2. /\ SliceViolations(obs, meas) = {}
      /\ UnitMismatches(obs, meas) = {}
      /\ \A i \in Probed(obs, meas) : probes[i] # "breached"
  BY <1>1 DEF ReportIsVerifiers, VerificationReport
<1>3. DOMAIN probes = Probed(obs, meas)
  BY DEF ReportIsVerifiers
<1>4. ASSUME NEW i \in DOMAIN obs, PlainBreach(i) PROVE FALSE
  <2>1. Enumerable(obs[i], meas)
    BY <1>4 DEF PlainBreach, Enumerable, Formalizable
  <2>2. i \in Index(obs)
    BY <1>2, <2>1 DEF SliceViolations
  <2>3. i \in Probed(obs, meas)
    BY <1>2, <2>1, <2>2 DEF UnitMismatches, Probed
  <2> QED BY <1>2, <1>4, <2>3 DEF ReportIsVerifiers, PlainBreach
<1> QED BY <1>2, <1>3, <1>4

\* A CLEAR decision means the report was not a contradiction.
LEMMA ClearDecision ==
  ASSUME TypeOK, ClearHasGrounds, stage = "deciding", NEW tier \in 1..3, Decision(tier).verdict = "CLEAR"
  PROVE  /\ verdict = "CLEAR"
         /\ Decision(tier).status = report.status
         /\ report.status # "LLM_CONTRADICTION"
         /\ tier = 1 => report.status = "AGREED"
<1>1. verdict = "CLEAR" /\ fresh = "none" /\ ~report.failClosed /\ ~report.breached
  BY UnflaggedPassesFloors
<1>2. raw.citations # "invalid"
  BY <1>1 DEF ClearHasGrounds
<1> DEFINE checked == Envelope(verdict, report.status, FALSE)
<1>3. Decision(tier) = FailClosed(RiskPolicy(checked, tier), report)
  BY <1>1, <1>2 DEF Decision
<1>4. Decision(tier) = RiskPolicy(checked, tier)
  BY <1>1, <1>3 DEF FailClosed
<1>5. RiskPolicy(checked, tier).verdict = "CLEAR"
  BY <1>4
<1>6. report.status \in Statuses
  BY DEF TypeOK
<1>7. /\ RiskPolicy(checked, tier).status = report.status
      /\ report.status # "LLM_CONTRADICTION"
      /\ tier = 1 => report.status = "AGREED"
  BY <1>5, <1>6 DEF RiskPolicy, Envelope, Statuses
<1> QED BY <1>1, <1>4, <1>7


\* The assertions behind a CLEAR decision: asserted, known, grounded, satisfied.
LEMMA EarnedClear ==
  ASSUME TypeOK, ClearHasGrounds, ClaimsChecked, ReportIsVerifiers, stage = "deciding",
         NEW tier \in 1..3, Decision(tier).verdict = "CLEAR"
  PROVE  /\ claims # {}
         /\ \A a \in claims : a.predicate \in KnownPredicates /\ Grounded(a, obs, meas) /\ a.satisfied
         /\ Decision(tier).status \in IF tier = 1 THEN {"AGREED"} ELSE {"AGREED", "UNVERIFIABLE"}
<1> DEFINE status == Status(claims, outs, verdict, probes, obs, meas)
<1>1. /\ verdict = "CLEAR"
      /\ Decision(tier).status = report.status
      /\ report.status # "LLM_CONTRADICTION"
      /\ tier = 1 => report.status = "AGREED"
  BY ClearDecision
<1>2. ~report.failClosed /\ report = VerificationReport(claims, outs, verdict, probes, obs, meas)
  BY UnflaggedPassesFloors DEF ReportIsVerifiers
<1>3. SliceViolations(obs, meas) = {} /\ SchemaViolations(claims) = {} /\ report.status = status
  BY <1>2 DEF VerificationReport
<1>4. status # "LLM_CONTRADICTION" /\ status # "NEURO_SYMBOLIC_DIVERGENCE"
  BY <1>1, <1>3 DEF Status
<1>5. \A a \in claims : ~AssertionContradicts(a, outs[a], verdict, obs, meas)
  BY <1>4 DEF Status
<1>6. status \in {"AGREED", "UNVERIFIABLE"}
  BY <1>4 DEF Status
<1>7. ASSUME NEW a \in claims
      PROVE  a.predicate \in KnownPredicates /\ Grounded(a, obs, meas) /\ a.satisfied
  <2>1. a.predicate \in KnownPredicates
    BY <1>3 DEF SchemaViolations
  <2>2. Grounded(a, obs, meas)
    BY <1>5, <2>1 DEF AssertionContradicts
  <2>3. outs[a] \in Outcomes
    BY DEF ClaimsChecked
  <2>4. Unflagged(verdict)
    BY <1>1 DEF Unflagged
  <2>5. CASE outs[a] = "unknown"
    BY <1>5, <2>1, <2>4, <2>5 DEF AssertionContradicts
  <2>6. CASE outs[a] = "satisfied"
    BY <1>5, <2>1, <2>6 DEF AssertionContradicts
  <2>7. outs[a] # "breached"
    BY <1>5, <2>1, <2>4 DEF AssertionContradicts
  <2> QED BY <2>1, <2>2, <2>3, <2>5, <2>6, <2>7 DEF Outcomes
<1> QED BY <1>1, <1>3, <1>6, <1>7 DEF ClearHasGrounds

\* The governor always names one of the three tiers.
LEMMA TierType == Tier(obs) \in 1..3
BY DEF Tier

-----------------------------------------------------------------------------
\* A call starts in the invariant.
LEMMA InitInv == Init => EvaluatorInv
<1> SUFFICES ASSUME Init PROVE EvaluatorInv
  OBVIOUS
<1>1. TypeOK
  BY DEF Init, TypeOK, NoReport, Envelope, Verdicts, Statuses
<1> QED BY <1>1 DEF Init, EvaluatorInv, ClearHasGrounds, ClaimsChecked, ReportIsVerifiers,
                   BreachNeverHidden, ClearIsEarned, FreshnessWins, SilentKeyNeverClear

\* Every action hands on what the next stage relies on.
LEMMA StepInv == EvaluatorInv /\ [Next]_vars => EvaluatorInv'
<1> SUFFICES ASSUME EvaluatorInv, [Next]_vars PROVE EvaluatorInv'
  OBVIOUS
<1> USE DEF EvaluatorInv
<1> DEFINE Open == stage' \notin {"checking", "probing", "deciding", "done"}
<1>0. ASSUME Open, TypeOK' PROVE EvaluatorInv'
  BY <1>0 DEF ClearHasGrounds, ClaimsChecked, ReportIsVerifiers, BreachNeverHidden, ClearIsEarned,
              FreshnessWins, SilentKeyNeverClear
<1>1. ASSUME NEW r \in Responses, ModelAnswers(r) PROVE EvaluatorInv'
  <2>1. TypeOK' BY <1>1 DEF ModelAnswers, TypeOK
  <2> QED BY <1>0, <1>1, <2>1 DEF ModelAnswers
<1>2. ASSUME NEW answer, FreshnessGate(answer) PROVE EvaluatorInv'
  <2>1. TypeOK' BY <1>2 DEF FreshnessGate, TypeOK
  <2> QED BY <1>0, <1>2, <2>1 DEF FreshnessGate
<1>3. ASSUME RejectCitations PROVE EvaluatorInv'
  <2>1. TypeOK' BY <1>3 DEF RejectCitations, TypeOK, Verdicts
  <2> QED BY <1>3, <2>1 DEF RejectCitations, ClearHasGrounds, ClaimsChecked, ReportIsVerifiers,
             BreachNeverHidden, ClearIsEarned, FreshnessWins, SilentKeyNeverClear
<1>4. ASSUME RaiseOnCitations PROVE EvaluatorInv'
  <2>1. TypeOK' BY <1>4 DEF RaiseOnCitations, TypeOK
  <2> QED BY <1>0, <1>4, <2>1 DEF RaiseOnCitations
<1>5. ASSUME RejectContract PROVE EvaluatorInv'
  <2> DEFINE env == Envelope("DISCRETIONARY", "UNVERIFIABLE", FALSE)
  <2>1. env \in [verdict : Verdicts, status : Statuses, attested : BOOLEAN]
    BY DEF Envelope, Verdicts, Statuses
  <2>2. TypeOK' BY <1>5, <2>1, EnvelopeRules DEF RejectContract, TypeOK
  <2>3. /\ envelope'.verdict \in {"DISCRETIONARY", "NULL_STALE"}
        /\ fresh = "stale" => envelope'.verdict = "NULL_STALE"
        /\ fresh = "undecidable" => envelope'.verdict = "DISCRETIONARY" /\ envelope'.attested
    BY <1>5 DEF RejectContract, ApplyFreshness, Envelope
  <2> QED BY <1>5, <2>2, <2>3 DEF RejectContract, ClearHasGrounds, ClaimsChecked, ReportIsVerifiers,
             BreachNeverHidden, ClearIsEarned, FreshnessWins, SilentKeyNeverClear
<1>6. ASSUME Parse PROVE EvaluatorInv'
  <2>1. TaxonomyGuard(raw.verdict, obs, meas, raw.assertions, raw.citations) \in Verdicts
    <3>1. raw.verdict \in Verdicts
      BY ResponseAssumption DEF TypeOK, NoResponse, Verdicts
    <3> QED BY <3>1 DEF TaxonomyGuard, Verdicts
  <2>2. TypeOK' BY <1>6, <2>1 DEF Parse, TypeOK
  <2>3. ClearHasGrounds'
    <3> SUFFICES ASSUME verdict' = "CLEAR"
                 PROVE  claims' # {} /\ ~MissingTelemetry(obs, meas, raw.assertions)
      BY <1>6 DEF Parse, ClearHasGrounds
    <3>1. raw.assertions # {} /\ ~MissingTelemetry(obs, meas, raw.assertions)
      BY <1>6 DEF Parse, TaxonomyGuard
    <3> QED BY <1>6, <3>1 DEF Parse
  <2> QED BY <1>6, <2>2, <2>3 DEF Parse, ClaimsChecked, ReportIsVerifiers,
             BreachNeverHidden, ClearIsEarned, FreshnessWins, SilentKeyNeverClear
<1>7. ASSUME NEW window, CheckAssertions(window) PROVE EvaluatorInv'
  <2>1. outs' \in [claims -> Outcomes] BY <1>7, CheckOutcome DEF CheckAssertions
  <2>2. TypeOK' BY <1>7, <2>1 DEF CheckAssertions, TypeOK
  <2> QED BY <1>7, <2>1, <2>2 DEF CheckAssertions, ClearHasGrounds, ClaimsChecked, ReportIsVerifiers,
             BreachNeverHidden, ClearIsEarned, FreshnessWins, SilentKeyNeverClear
<1>8. ASSUME NEW window, ProbeObligations(window) PROVE EvaluatorInv'
  <2>1. probes' \in [Probed(obs, meas) -> Outcomes] BY <1>8, CheckOutcome DEF ProbeObligations
  <2>2. ASSUME NEW i \in Probed(obs, meas), obs[i].predicate \in Stateless
        PROVE  probes'[i] = CheckStateless(obs[i].predicate, meas[obs[i].metric].value, obs[i].value)
    BY <1>8, <2>2, StatelessCheck DEF ProbeObligations
  <2>3. report' = VerificationReport(claims, outs, verdict, probes', obs, meas)
    BY <1>8 DEF ProbeObligations
  <2>4. report' \in [status : Statuses, breached : BOOLEAN, failClosed : BOOLEAN]
    BY <2>3, ReportType
  <2>5. TypeOK' BY <1>8, <2>1, <2>4 DEF ProbeObligations, TypeOK
  <2>6. ReportIsVerifiers' BY <1>8, <2>1, <2>2, <2>3 DEF ProbeObligations, ReportIsVerifiers
  <2> QED BY <1>8, <2>5, <2>6 DEF ProbeObligations, ClearHasGrounds, ClaimsChecked,
             BreachNeverHidden, ClearIsEarned, FreshnessWins, SilentKeyNeverClear
<1>9. ASSUME Return PROVE EvaluatorInv'
  <2>1. envelope' = Decision(Tier(obs)) /\ stage = "deciding" /\ Tier(obs) \in 1..3
    BY <1>9, TierType DEF Return
  <2>2. UNCHANGED <<obs, meas, raw, fresh, verdict, claims, outs, probes, report>> /\ stage' = "done"
    BY <1>9 DEF Return
  <2>3. TypeOK'
    <3>1. envelope' \in [verdict : Verdicts, status : Statuses, attested : BOOLEAN]
      BY <2>1, DecisionType
    <3> QED BY <2>2, <3>1 DEF TypeOK
  <2>4. BreachNeverHidden'
    BY <2>1, <2>2, NoBreachBehindUnflagged DEF BreachNeverHidden, PlainBreach
  <2>5. ClearIsEarned'
    BY <2>1, <2>2, EarnedClear DEF ClearIsEarned
  <2>6. FreshnessWins'
    <3>1. ASSUME NEW env \in [verdict : Verdicts, status : Statuses, attested : BOOLEAN],
                 envelope' = ApplyFreshness(env, fresh)
          PROVE  /\ fresh = "stale" => envelope'.verdict = "NULL_STALE"
                 /\ fresh = "undecidable" =>
                      \/ envelope'.verdict = "NULL_STALE"
                      \/ envelope'.verdict = "DISCRETIONARY" /\ envelope'.attested
      BY <3>1 DEF ApplyFreshness, Envelope
    <3>2. Envelope(verdict, report.status, FALSE) \in [verdict : Verdicts, status : Statuses, attested : BOOLEAN]
      BY DEF TypeOK, Envelope
    <3>3. FailClosed(Envelope(verdict, report.status, FALSE), report)
            \in [verdict : Verdicts, status : Statuses, attested : BOOLEAN]
      BY <3>2, EnvelopeRules
    <3>4. fresh # "none" => \E env \in [verdict : Verdicts, status : Statuses, attested : BOOLEAN] :
                              envelope' = ApplyFreshness(env, fresh)
      BY <2>1, <3>2, <3>3 DEF Decision
    <3> QED BY <2>2, <3>1, <3>4 DEF FreshnessWins
  <2>7. SilentKeyNeverClear'
    <3> SUFFICES ASSUME envelope'.verdict = "CLEAR", NEW i \in DOMAIN obs,
                        IsKey(obs[i].metric, meas), obs[i].predicate \in Stateless, ~obs[i].window
                 PROVE  ~MissingReading(meas[obs[i].metric].value, obs[i].predicate)
      BY <2>2 DEF SilentKeyNeverClear
    <3>1. verdict = "CLEAR"
      BY <2>1, UnflaggedPassesFloors
    <3>2. obs[i].predicate \notin Stateful
      BY DEF Stateless, Stateful
    <3> QED BY <2>1, <3>1, <3>2 DEF ClearHasGrounds, MissingTelemetry
  <2> QED BY <2>2, <2>3, <2>4, <2>5, <2>6, <2>7 DEF ClearHasGrounds, ClaimsChecked, ReportIsVerifiers
<1>10. ASSUME UNCHANGED vars PROVE EvaluatorInv'
  BY <1>10 DEF vars, TypeOK, ClearHasGrounds, ClaimsChecked, ReportIsVerifiers, BreachNeverHidden,
               PlainBreach, ClearIsEarned, FreshnessWins, SilentKeyNeverClear
<1> QED BY <1>1, <1>2, <1>3, <1>4, <1>5, <1>6, <1>7, <1>8, <1>9, <1>10 DEF Next

\* The inductive invariant holds of every evaluation.
THEOREM EvaluatorInvariant == Spec => []EvaluatorInv
BY InitInv, StepInv, PTL DEF Spec

\* No answer of the model and no tier hides a breach (the fail-closed floor and
\* the independent enumeration of the verifier).
THEOREM BreachesAreNeverHidden == Spec => []BreachNeverHidden
<1>1. EvaluatorInv => BreachNeverHidden BY DEF EvaluatorInv
<1> QED BY <1>1, EvaluatorInvariant, PTL

\* CLEAR rests on known, grounded, satisfied assertions, at every tier.
THEOREM ClearIsAlwaysEarned == Spec => []ClearIsEarned
<1>1. EvaluatorInv => ClearIsEarned BY DEF EvaluatorInv
<1> QED BY <1>1, EvaluatorInvariant, PTL

\* The freshness gate has the last word on every return path.
THEOREM FreshnessAlwaysWins == Spec => []FreshnessWins
<1>1. EvaluatorInv => FreshnessWins BY DEF EvaluatorInv
<1> QED BY <1>1, EvaluatorInvariant, PTL

\* No CLEAR over a top-level key without a usable reading.
THEOREM SilentKeysAreNeverClear == Spec => []SilentKeyNeverClear
<1>1. EvaluatorInv => SilentKeyNeverClear BY DEF EvaluatorInv
<1> QED BY <1>1, EvaluatorInvariant, PTL

\* The tier policy is monotone: what a stricter tier lets through, a laxer one
\* returns unchanged.
THEOREM LaxerTiersRestrictLess == Spec => []TierOnlyRestricts
<1>1. EvaluatorInv => TierOnlyRestricts
  <2> SUFFICES ASSUME TypeOK, NEW s \in 1..3, NEW t \in 1..3, s < t,
                      Decision(s).verdict # "DISCRETIONARY"
               PROVE  Decision(t) = Decision(s)
    BY DEF EvaluatorInv, TierOnlyRestricts
  <2> DEFINE checked == Envelope(verdict, report.status, FALSE)
  <2>1. CASE raw.citations = "invalid" \/ fresh # "none"
    BY <2>1 DEF Decision
  <2>2. CASE ~(raw.citations = "invalid" \/ fresh # "none")
    <3>1. /\ Decision(s) = FailClosed(RiskPolicy(checked, s), report)
          /\ Decision(t) = FailClosed(RiskPolicy(checked, t), report)
      BY <2>2 DEF Decision
    <3>2. RiskPolicy(checked, s).verdict # "DISCRETIONARY"
      BY <3>1 DEF FailClosed, Envelope
    <3>3. s \in {1, 2} /\ t \in {2, 3} /\ report.status \in Statuses
      BY DEF TypeOK
    <3>4. RiskPolicy(checked, t) = RiskPolicy(checked, s)
      BY <3>2, <3>3, ForceAssumption DEF RiskPolicy, Envelope, Statuses
    <3> QED BY <3>1, <3>4
  <2> QED BY <2>1, <2>2
<1> QED BY <1>1, EvaluatorInvariant, PTL

=============================================================================
