--------------------------- MODULE MCV3Evaluator ---------------------------
(***************************************************************************)
(* The slices, measurements, answers and windows that tell the evaluator's *)
(* branches apart: the cap on "top" is 1, so a reading of 0 satisfies and  *)
(* of 2 breaches it; "nested" only resolves as a dotted path.              *)
(***************************************************************************)
EXTENDS V3Evaluator

Ob(id, metric, predicate, value) ==
  [id |-> id, metric |-> metric, predicate |-> predicate, value |-> value, unit |-> NoUnit,
   window |-> FALSE, recent |-> "none", tier |-> "low"]

Cap(id) == Ob(id, "top", "must_not_exceed", Num(1))
Floor(id) == Ob(id, "top", "must_be_at_least", Num(0))
NestedCap == Ob("n", "nested", "must_not_exceed", Num(1))
Peak == [Ob("w", "top", "must_not_exceed_in_window", Num(1)) EXCEPT !.window = TRUE]
Mean == [Ob("w", "top", "must_average_within", List(<<Num(0), Num(1)>>)) EXCEPT !.window = TRUE]
Judgement == Ob("q", NoMetric, "should", None)

Slices ==
  {<<>>,
   <<Cap("a")>>,
   <<Cap("a"), NestedCap>>,
   <<Cap("a"), Floor("a")>>,
   <<Cap(NoId), Floor("b")>>,
   <<Cap("a"), Judgement>>,
   <<Cap("a"), Peak>>,
   <<Mean>>,
   <<[Cap("a") EXCEPT !.unit = "ppm"]>>,
   <<[Cap("a") EXCEPT !.recent = "valid"], [NestedCap EXCEPT !.recent = "valid"]>>,
   <<[Cap("a") EXCEPT !.recent = "invalid"], [Floor("b") EXCEPT !.recent = "valid"]>>,
   <<Ob("a", "top", "must_be_one_of", List(<<Num(0), Str(1)>>))>>}

MCSnapshots ==
  {[i \in DOMAIN s |-> [s[i] EXCEPT !.tier = t]] : s \in Slices, t \in {"typo", "medium", "low"}}

Reading(v) == [value |-> v, unit |-> NoUnit]
TopReadings == {Reading(None), Reading(Num(0)), Reading(Num(2)), [value |-> Num(2), unit |-> "ppb"]}
NestedReadings == {Reading(None), Reading(Num(0)), Reading(Num(2))}

MCMeasurements ==
  UNION {[{"top"} -> TopReadings], [{"nested"} -> NestedReadings],
         [{"top", "nested"} -> TopReadings \cap NestedReadings]}

Claim(ob, observed, satisfied) ==
  [obligation |-> ob.id, metric |-> ob.metric, predicate |-> ob.predicate, value |-> ob.value,
   observed |-> observed, satisfied |-> satisfied, window |-> ob.window]

\* Honest, mistaken, fabricated, and outside the closed enumeration.
Claims ==
  {Claim(Cap("a"), Num(0), TRUE),
   Claim(Cap("a"), Num(2), TRUE),
   Claim(Cap("a"), None, TRUE),
   [Claim(Cap("a"), Num(2), TRUE) EXCEPT !.value = Num(9)],
   Claim(NestedCap, None, TRUE),
   Claim(Peak, None, TRUE),
   Claim(Judgement, Num(0), TRUE),
   [Claim(Cap("a"), Num(0), TRUE) EXCEPT !.predicate = "must_be_nice"]}

Assertions ==
  {{}} \cup {{a} : a \in Claims} \cup
  {{Claim(Cap("a"), Num(0), TRUE), Claim(Peak, None, TRUE)},
   {Claim(Cap("a"), Num(0), TRUE), Claim(Judgement, None, FALSE)},
   {Claim(Floor("b"), Num(2), TRUE), Claim(Floor("a"), Num(2), TRUE)}}

Response(c, v, as) == [wellFormed |-> TRUE, citations |-> c, verdict |-> v, assertions |-> as]

MCResponses ==
  {Response("valid", v, as) : v \in Verdicts, as \in Assertions} \cup
  {Response(c, "CLEAR", {Claim(Cap("a"), Num(0), TRUE)}) : c \in {"invalid", "malformed"}} \cup
  {Response("none", "CLEAR", {}), NoResponse}

\* A failed query, an empty window, a compliant and a breaching one.
MCWindows ==
  {[failed |-> TRUE, avg |-> None, peak |-> None],
   [failed |-> FALSE, avg |-> None, peak |-> None],
   [failed |-> FALSE, avg |-> Num(0), peak |-> Num(1)],
   [failed |-> FALSE, avg |-> Num(2), peak |-> Num(2)]}
=============================================================================
