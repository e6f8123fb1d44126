--------------------------- MODULE TelemetryReplay ---------------------------
(***************************************************************************)
(* The telemetry buffer, the evaluations that query it, and the replay of  *)
(* their ledger entries against what the buffer holds later.               *)
(*                                                                         *)
(* Requests of one process overlap at every await, producers may send late *)
(* or twice, every database call may fail, and retention drops rows.  One  *)
(* obligation over one metric is in scope, at tier 1, and the model        *)
(* asserts it with its verdict (V3Evaluator has the other answers); the    *)
(* auditor has the right KG, keys and transcripts.                         *)
(***************************************************************************)
EXTENDS Integers, FiniteSets, Functions

CONSTANTS
  Requests,     \* calls of /api/evaluate, each used once
  Subjects,
  Ordered,      \* subjects whose producer sends one record at a time, in order
  Readings,     \* integers; NoReading is anything that is not a number
  NoReading,
  Obligations,  \* [predicate, lo, hi, window]
  RecentWithin, \* requires_recent_within_seconds
  Partitions,   \* the times the operator has made a partition for
  Default,      \* the DEFAULT partition
  MaxTime,      \* bound on the timestamps
  NoRecord

Records == [subject : Subjects, ts : 0..MaxTime, reading : Readings \cup {NoReading}]

ASSUME ReplayAssumption ==
  /\ Ordered \subseteq Subjects
  /\ Readings \subseteq Int /\ NoReading \notin Readings
  /\ \A ob \in Obligations :
       /\ ob.predicate \in {"must_average_within", "must_not_exceed_in_window"}
       /\ ob.lo \in Int /\ ob.hi \in Int
       /\ ob.window \in Nat \ {0}
  /\ RecentWithin \in Nat \ {0}
  /\ MaxTime \in Nat /\ Partitions \subseteq 0..MaxTime /\ Default \notin Partitions
  /\ NoRecord \notin Records

VARIABLES
  ob,          \* the obligation in scope
  buffer,      \* rows of telemetry_buffer: [by, record, partition]
  partitions,  \* those of Partitions not dropped yet
  call,        \* what each request has got to
  ledger       \* entries with a transcript: [by, record, answer, result, intact]

vars == <<ob, buffer, partitions, call, ledger>>

Idle ==
  [pc |-> "idle", record |-> NoRecord, answer |-> "CLEAR", gate |-> "none",
   asserted |-> "unknown", probed |-> "unknown", intact |-> TRUE]

Init ==
  /\ ob \in Obligations
  /\ buffer = {} /\ partitions = Partitions
  /\ call = [r \in Requests |-> Idle]
  /\ ledger = {}

-----------------------------------------------------------------------------
\* Mutant: the window has no upper end.
WindowOpenEnded(rows, record, seconds) ==
  {row \in rows : /\ row.record.subject = record.subject
                  /\ row.record.ts > record.ts - seconds}

\* The rows of window_query: (as_of - window_seconds, as_of].
Window(rows, record, seconds) ==
  {row \in rows : /\ row.record.subject = record.subject
                  /\ row.record.ts > record.ts - seconds
                  /\ row.record.ts <= record.ts}

Numeric(rows) == {row \in rows : row.record.reading # NoReading}

Total(rows) == SumFunction([row \in rows |-> row.record.reading])

\* The outcome of the windowed predicate over the rows.
Outcome(rows, record) ==
  LET samples == Numeric(Window(rows, record, ob.window))
      n == Cardinality(samples)
  IN
  IF samples = {} THEN "unknown"
  ELSE IF ob.predicate = "must_not_exceed_in_window"
  THEN IF \E row \in samples : row.record.reading > ob.hi THEN "breached" ELSE "satisfied"
  ELSE IF ob.lo * n <= Total(samples) /\ Total(samples) <= ob.hi * n
       THEN "satisfied" ELSE "breached"

\* has_fresh_sample looks at the last row up to as_of, both ends included.
HasFreshSample(rows, record) ==
  \E row \in rows : /\ row.record.subject = record.subject
                    /\ row.record.ts <= record.ts
                    /\ record.ts - row.record.ts <= RecentWithin

Gate(rows, record) == IF HasFreshSample(rows, record) THEN "none" ELSE "stale"

\* The verifier's status and the verdict at tier 1, for a model that asserts
\* the obligation satisfied with CLEAR or unsatisfied with FLAG.
Status(answer, asserted, probed) ==
  LET claimed == IF answer = "CLEAR" THEN "satisfied" ELSE "breached" IN
  IF \/ asserted \notin {claimed, "unknown"}
     \/ answer = "CLEAR" /\ probed = "breached"
  THEN "LLM_CONTRADICTION"
  ELSE IF asserted = "unknown" THEN "UNVERIFIABLE" ELSE "AGREED"

Result(answer, gate, asserted, probed) ==
  LET status == Status(answer, asserted, probed) IN
  [status |-> status,
   verdict |-> CASE gate = "stale" -> "NULL_STALE"
                 [] gate = "undecidable" -> "DISCRETIONARY"
                 [] gate = "none" -> IF status = "AGREED" THEN answer ELSE "DISCRETIONARY"]

-----------------------------------------------------------------------------
\* The producer of an ordered subject: strictly increasing timestamps, and the
\* next record after the answer to the last.
MaySend(record) ==
  record.subject \in Ordered =>
    \A q \in Requests : call[q].pc # "idle" /\ call[q].record.subject = record.subject =>
      call[q].pc = "done" /\ call[q].record.ts < record.ts

Receive(r, record) ==
  /\ call[r].pc = "idle"
  /\ MaySend(record)
  /\ call' = [call EXCEPT ![r].pc = "buffering", ![r].record = record]
  /\ UNCHANGED <<ob, buffer, partitions, ledger>>

\* The DEFAULT partition takes the rows that no other covers.
Stored(r, record) ==
  [by |-> r, record |-> record,
   partition |-> IF record.ts \in partitions THEN record.ts ELSE Default]

BufferAppend(r) ==
  /\ call[r].pc = "buffering"
  /\ buffer' = buffer \cup {Stored(r, call[r].record)}
  /\ call' = [call EXCEPT ![r].pc = "gating"]
  /\ UNCHANGED <<ob, partitions, ledger>>

\* The exception is logged, and the evaluation goes on.
BufferFails(r) ==
  /\ call[r].pc = "buffering"
  /\ call' = [call EXCEPT ![r].pc = "gating"]
  /\ UNCHANGED <<ob, buffer, partitions, ledger>>

\* The model has answered; the freshness gate asks the buffer.
FreshnessGate(r, answer, queried) ==
  /\ call[r].pc = "gating"
  /\ call' = [call EXCEPT ![r] =
       [@ EXCEPT !.pc = "checking", !.answer = answer,
                 !.gate = IF queried THEN Gate(buffer, call[r].record) ELSE "undecidable",
                 !.intact = queried]]
  /\ UNCHANGED <<ob, buffer, partitions, ledger>>

\* The model's assertion is checked, and then the obligation itself.
CheckAssertion(r, queried) ==
  /\ call[r].pc = "checking"
  /\ call' = [call EXCEPT ![r] =
       [@ EXCEPT !.pc = "probing",
                 !.asserted = IF queried THEN Outcome(buffer, call[r].record) ELSE "unknown",
                 !.intact = call[r].intact /\ queried]]
  /\ UNCHANGED <<ob, buffer, partitions, ledger>>

ProbeObligation(r, queried) ==
  /\ call[r].pc = "probing"
  /\ call' = [call EXCEPT ![r] =
       [@ EXCEPT !.pc = "recording",
                 !.probed = IF queried THEN Outcome(buffer, call[r].record) ELSE "unknown",
                 !.intact = call[r].intact /\ queried]]
  /\ UNCHANGED <<ob, buffer, partitions, ledger>>

\* The call returns: its locals are gone.
Returned(r) == [Idle EXCEPT !.pc = "done", !.record = call[r].record]

Record(r) ==
  /\ call[r].pc = "recording"
  /\ ledger' = ledger \cup
       {[by |-> r, record |-> call[r].record, answer |-> call[r].answer, intact |-> call[r].intact,
         result |-> Result(call[r].answer, call[r].gate, call[r].asserted, call[r].probed)]}
  /\ call' = [call EXCEPT ![r] = Returned(r)]
  /\ UNCHANGED <<ob, buffer, partitions>>

\* The process dies, the call raises to its caller, or the clock-skew guard
\* refuses the record or ledgers it without a transcript for replay to use.
Lose(r) ==
  /\ call[r].pc \notin {"idle", "done"}
  /\ call' = [call EXCEPT ![r] = Returned(r)]
  /\ UNCHANGED <<ob, buffer, partitions, ledger>>

\* Mutant: rows of the DEFAULT partition go too.
DropPartitionsAndDefault(cutoff) ==
  /\ \E t \in partitions : t + 1 <= cutoff
  /\ partitions' = {t \in partitions : t + 1 > cutoff}
  /\ buffer' = {row \in buffer : row.record.ts >= cutoff}
  /\ UNCHANGED <<ob, call, ledger>>

\* drop_buffer_partitions_older_than: the partition [t, t + 1) goes with its
\* rows when its upper bound is not after the cutoff; the DEFAULT one stays.
DropPartitions(cutoff) ==
  /\ \E t \in partitions : t + 1 <= cutoff
  /\ partitions' = {t \in partitions : t + 1 > cutoff}
  /\ buffer' = {row \in buffer : row.partition \in partitions' \cup {Default}}
  /\ UNCHANGED <<ob, call, ledger>>

Next ==
  \/ \E r \in Requests, record \in Records : Receive(r, record)
  \/ \E r \in Requests : BufferAppend(r) \/ BufferFails(r)
  \/ \E r \in Requests, answer \in {"CLEAR", "FLAG"}, queried \in BOOLEAN :
       FreshnessGate(r, answer, queried)
  \/ \E r \in Requests, queried \in BOOLEAN : CheckAssertion(r, queried)
  \/ \E r \in Requests, queried \in BOOLEAN : ProbeObligation(r, queried)
  \/ \E r \in Requests : Record(r) \/ Lose(r)
  \/ \E cutoff \in 1..MaxTime : DropPartitions(cutoff)

Spec == Init /\ [][Next]_vars

-----------------------------------------------------------------------------
\* What the recorded answer gives over the rows the buffer has now.
Replayed(entry) ==
  LET outcome == Outcome(buffer, entry.record) IN
  Result(entry.answer, Gate(buffer, entry.record), outcome, outcome)

\* audit-ledger replay, for one entry.
Replay(entry) ==
  IF ~\E row \in buffer : row.record = entry.record THEN "buffer_row_missing"
  ELSE IF Replayed(entry) = entry.result THEN "matched"
  ELSE "verdict_divergence"

\* Retention has dropped no partition of the record's window.
Retained(record) ==
  \A t \in Partitions \ partitions : t <= record.ts - ob.window \/ t > record.ts

-----------------------------------------------------------------------------
\* "write-before-evaluate guarantees replay determinism" (server.py): when a
\* producer sends in order and one at a time, every entry whose queries were
\* answered replays as recorded, or retention or a failed write has taken its
\* own row, whatever other subjects do.
OrderedReplays ==
  \A entry \in ledger :
    entry.record.subject \in Ordered /\ entry.intact /\ Retained(entry.record) =>
      Replay(entry) \in {"matched", "buffer_row_missing"}

\* Late, repeated and overlapping records may change a replay, but they never
\* explain a window peak away: a breach that the verifier recorded is one on
\* every replay.
PeakBreachSurvives ==
  \A entry \in ledger :
    LET breach == IF entry.answer = "CLEAR" THEN "LLM_CONTRADICTION" ELSE "AGREED" IN
    ( /\ ob.predicate = "must_not_exceed_in_window"
      /\ entry.result.status = breach
      /\ Retained(entry.record) ) =>
        Replayed(entry).status = breach
=============================================================================
