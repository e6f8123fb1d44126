----------------------------- MODULE Predicates -----------------------------
(***************************************************************************)
(* The predicate handlers of the Symbolic Verifier.  A JSON value is a     *)
(* record: its kind, a number that tells values of one kind apart, and the *)
(* items of a list.  "nonfinite" is NaN or an infinity, and the kind       *)
(* "num" an int or a finite float, which Python compares exactly.          *)
(***************************************************************************)
EXTENDS Integers, Sequences

Scalar(kind, n) == [kind |-> kind, n |-> n, items |-> <<>>]
None == Scalar("none", 0)
NonFinite == Scalar("nonfinite", 0)
Num(n) == Scalar("num", n)
Bool(n) == Scalar("bool", n)
Str(n) == Scalar("str", n)
List(items) == [kind |-> "list", n |-> 0, items |-> items]

\* _CheckOutcome.mechanically_satisfied: True, False, None
Outcomes == {"satisfied", "breached", "unknown"}

Decide(b) == IF b THEN "satisfied" ELSE "breached"

IsReal(v) == v.kind = "num"

\* a == b would be decided by bool/number punning or a non-finite float.
AmbiguousEquality(a, b) ==
  \/ "nonfinite" \in {a.kind, b.kind}
  \/ {a.kind, b.kind} = {"num", "bool"}

\* Python's == on scalars, punning included; lists compare item by item.
ScalarEqual(a, b) ==
  IF {a.kind, b.kind} = {"num", "bool"} THEN a.n = b.n ELSE a.kind = b.kind /\ a.n = b.n

PyEqual(a, b) ==
  IF a.kind = "list" /\ b.kind = "list"
  THEN /\ Len(a.items) = Len(b.items)
       /\ \A i \in 1..Len(a.items) : ScalarEqual(a.items[i], b.items[i])
  ELSE ScalarEqual(a, b)

\* value=[lo, hi] of two finite numbers
IsRange(v) ==
  /\ v.kind = "list"
  /\ Len(v.items) = 2
  /\ IsReal(v.items[1]) /\ IsReal(v.items[2])

InRange(x, v) == v.items[1].n <= x.n /\ x.n <= v.items[2].n

-----------------------------------------------------------------------------
\* The stateless handlers.
MustNotExceed(o, v) ==
  IF IsReal(o) /\ IsReal(v) THEN Decide(o.n <= v.n) ELSE "unknown"

MustBeAtLeast(o, v) ==
  IF IsReal(o) /\ IsReal(v) THEN Decide(o.n >= v.n) ELSE "unknown"

MustBeBelow(o, v) ==
  IF IsReal(o) /\ IsReal(v) THEN Decide(o.n < v.n) ELSE "unknown"

MustBeAbove(o, v) ==
  IF IsReal(o) /\ IsReal(v) THEN Decide(o.n > v.n) ELSE "unknown"

MustBeWithin(o, v) ==
  IF IsReal(o) /\ IsRange(v) THEN Decide(InRange(o, v)) ELSE "unknown"

MustEqual(o, v) ==
  IF AmbiguousEquality(o, v) THEN "unknown" ELSE Decide(PyEqual(o, v))

MustNotEqual(o, v) ==
  IF AmbiguousEquality(o, v) THEN "unknown" ELSE Decide(~PyEqual(o, v))

\* The list is empty or some member cannot be compared with o.
Incomparable(o, v) ==
  \/ v.kind # "list"
  \/ v.items = <<>>
  \/ \E i \in 1..Len(v.items) : AmbiguousEquality(o, v.items[i])

Contains(v, o) == \E i \in 1..Len(v.items) : PyEqual(o, v.items[i])

MustBeOneOf(o, v) == IF Incomparable(o, v) THEN "unknown" ELSE Decide(Contains(v, o))

MustNotBeOneOf(o, v) == IF Incomparable(o, v) THEN "unknown" ELSE Decide(~Contains(v, o))

Stateless ==
  {"must_not_exceed", "must_be_at_least", "must_be_below", "must_be_above",
   "must_be_within", "must_equal", "must_not_equal", "must_be_one_of",
   "must_not_be_one_of"}

CheckStateless(p, o, v) ==
  CASE p = "must_not_exceed" -> MustNotExceed(o, v)
    [] p = "must_be_at_least" -> MustBeAtLeast(o, v)
    [] p = "must_be_below" -> MustBeBelow(o, v)
    [] p = "must_be_above" -> MustBeAbove(o, v)
    [] p = "must_be_within" -> MustBeWithin(o, v)
    [] p = "must_equal" -> MustEqual(o, v)
    [] p = "must_not_equal" -> MustNotEqual(o, v)
    [] p = "must_be_one_of" -> MustBeOneOf(o, v)
    [] p = "must_not_be_one_of" -> MustNotBeOneOf(o, v)
    [] OTHER -> "unknown"

-----------------------------------------------------------------------------
\* The stateful handlers work on the answer w to a window query: avg and peak,
\* None without a numeric sample in the window.  failed: there is no buffer,
\* or the query raised.
Stateful == {"must_average_within", "must_not_exceed_in_window"}

MustAverageWithin(v, w) ==
  IF ~w.failed /\ IsRange(v) /\ IsReal(w.avg) THEN Decide(InRange(w.avg, v)) ELSE "unknown"

MustNotExceedInWindow(v, w) ==
  IF ~w.failed /\ IsReal(v) /\ IsReal(w.peak) THEN Decide(w.peak.n <= v.n) ELSE "unknown"

\* acheck_assertion
Check(p, o, v, windowed, w) ==
  CASE p = "must_average_within" /\ windowed -> MustAverageWithin(v, w)
    [] p = "must_not_exceed_in_window" /\ windowed -> MustNotExceedInWindow(v, w)
    [] p \in Stateful /\ ~windowed -> "unknown"
    [] OTHER -> CheckStateless(p, o, v)

Formalizable == Stateless \cup Stateful

\* Spec 3.3's closed enumeration plus the evaluable predicates.
KnownPredicates ==
  Formalizable \cup {"must", "must_not", "must_be_recorded_within", "should", "discretionary"}
=============================================================================
