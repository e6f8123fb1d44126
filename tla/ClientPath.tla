----------------------------- MODULE ClientPath -----------------------------
(***************************************************************************)
(* The way of a record from its producer to the ledger and back: the SDK,  *)
(* the sidecar and the test-verdict script post to POST /api/evaluate of   *)
(* the service, which asks the model backend, appends the verdict and      *)
(* feeds the agreement monitor; an SDK reader pages through                *)
(* GET /api/verdicts.  Connections are refused, answers are late or lost,  *)
(* the service crashes and restarts, the sidecar too, and the egress guard *)
(* trips.                                                                  *)
(*                                                                         *)
(* A call is one HTTP request of a client.  SkiLedger has the steps of     *)
(* append_v3 and SkiService those of Knowledge Graph loading.              *)
(***************************************************************************)
EXTENDS Integers, Sequences, FiniteSets

CONSTANTS
  Calls,       \* POSTs, each made once
  Clients,     \* the clients in use, of "sdk", "sidecar" and "script"
  Statuses,    \* VerifierStatus
  Backend,     \* SKI_LLM_BACKEND: "ollama" or "vllm"
  SkewMode,    \* SKI_CLOCK_SKEW_MODE
  Strict,      \* SKI_SOVEREIGNTY=strict
  Reconnects,  \* AsyncHTTPTransport(retries=...) of the sidecar
  MaxRetries,  \* max_retries of the SDK client
  Limit,       \* page size of the reader
  WindowSize,  \* SKI_AGREEMENT_WINDOW
  Percent,     \* SKI_AGREEMENT_THRESHOLD, in hundredths
  MaxEpoch     \* bound on the service's starts

Kinds == {"good", "malformed", "skewed", "wrong_key"}

ASSUME ClientPathAssumption ==
  /\ Clients \subseteq {"sdk", "sidecar", "script"}
  /\ {"AGREED", "UNVERIFIABLE"} \subseteq Statuses /\ "none" \notin Statuses
  /\ MaxRetries \in Nat /\ Reconnects \in Nat /\ MaxEpoch \in Nat
  /\ Limit \in Nat \ {0} /\ WindowSize \in Nat \ {0}
  /\ Percent \in 0..100 /\ Strict \in BOOLEAN

VARIABLES
  call,      \* call[c]: the client's side
  req,       \* req[c]: the service's side
  rows,      \* ledger_entries
  up,        \* the service is running
  epoch,     \* how often it was started
  tripped,   \* state.egress_guard.tripped
  atTrip,    \* requests in flight when the guard tripped (history)
  window,    \* state.agreement_monitor._statuses
  pager      \* the reader's loop over GET /api/verdicts

service == <<req, rows, up, epoch, tripped, atTrip, window>>
vars == <<call, service, pager>>

NewCall == [pc |-> "idle", client |-> "sdk", kind |-> "good", tries |-> 0, outcome |-> "none"]
NewRequest == [pc |-> "none", track |-> "none", status |-> "none", code |-> "none", epoch |-> 0]

Init ==
  /\ call = [c \in Calls |-> NewCall]
  /\ req = [c \in Calls |-> NewRequest]
  /\ rows = <<>> /\ window = <<>>
  /\ up = TRUE /\ epoch = 1
  /\ tripped = FALSE /\ atTrip = {}
  /\ pager = [pc |-> "reading", attempt |-> 0, got |-> <<>>]

Busy(c) == req[c].pc \in {"asking", "append", "committed"}

-----------------------------------------------------------------------------
(* The clients.                                                            *)

\* The fields of the JSON body each client builds.
Fields(client) ==
  {"timestamp", "subject", "measurement"} \cup
    (IF client = "sdk" THEN {"measurement_id"} ELSE {"telemetry_id"})

\* MeasurementRecord: what pydantic insists on; other fields are ignored.
Required == {"measurement_id", "timestamp", "subject"}

\* Failed connections are tried again by the sidecar's transport only.
ConnectRetries(client) == IF client = "sidecar" THEN Reconnects ELSE 0

\* What the client makes of a status code: _raise_for_status of the SDK, the
\* sidecar's own answer, the script's printed line.
Outcome(client, code) ==
  IF code = "200" THEN "verdict"
  ELSE IF client = "sidecar" THEN "502"
  ELSE IF client = "script" THEN "HTTP error"
  ELSE CASE code = "401" -> "SKIAuthError"
         [] code = "503" -> "SKIServiceUnavailable"
         [] code = "422" -> "SKIValidationError"
         [] OTHER -> "SKIResponseError"

\* What it makes of an httpx.RequestError.
NoAnswer(client) ==
  CASE client = "sidecar" -> "502" [] client = "script" -> "HTTP error"
    [] OTHER -> "SKITransportError"

\* The call returns or raises; what it had in hand is gone.
Return(c, outcome) ==
  call' = [call EXCEPT ![c] = [NewCall EXCEPT !.pc = "done", !.outcome = outcome]]

\* The record is posted: evaluate of the SDK, receive_telemetry, the script.
Send(c, client, kind) ==
  /\ call[c].pc = "idle"
  /\ call' = [call EXCEPT ![c] = [NewCall EXCEPT !.pc = "connecting", !.client = client,
                                                 !.kind = kind]]
  /\ UNCHANGED <<service, pager>>

ConnectFails(c) ==
  /\ call[c].pc = "connecting"
  /\ \/ /\ call[c].tries < ConnectRetries(call[c].client)
        /\ call' = [call EXCEPT ![c].tries = @ + 1]
     \/ /\ call[c].tries >= ConnectRetries(call[c].client)
        /\ Return(c, NoAnswer(call[c].client))
  /\ UNCHANGED <<service, pager>>

Receive(c) ==
  /\ call[c].pc = "waiting" /\ req[c].pc = "answered"
  /\ Return(c, Outcome(call[c].client, req[c].code))
  /\ UNCHANGED <<service, pager>>

\* Mutant: the POST is repeated, as _get repeats its GET.
GiveUpAndRepeat(c) ==
  /\ call[c].pc = "waiting"
  /\ \/ /\ call[c].tries < MaxRetries
        /\ call' = [call EXCEPT ![c].pc = "connecting", ![c].tries = @ + 1]
     \/ /\ call[c].tries >= MaxRetries
        /\ Return(c, NoAnswer(call[c].client))
  /\ UNCHANGED <<service, pager>>

\* The read times out or the connection breaks; the service goes on with what
\* it has.
GiveUp(c) ==
  /\ call[c].pc = "waiting"
  /\ Return(c, NoAnswer(call[c].client))
  /\ UNCHANGED <<service, pager>>

Forwarding(c) == call[c].client = "sidecar" /\ call[c].pc \in {"connecting", "waiting"}

\* The sidecar stops: whom it was forwarding for gets no answer.
SidecarRestart ==
  /\ \E c \in Calls : Forwarding(c)
  /\ call' = [c \in Calls |->
                IF Forwarding(c) THEN [NewCall EXCEPT !.pc = "done", !.outcome = "lost"]
                ELSE call[c]]
  /\ UNCHANGED <<service, pager>>

-----------------------------------------------------------------------------
(* The model backends: what evaluate makes of what came over the wire.     *)

Transmissions ==
  {"http_error", "unreadable", "no_choices", "not_json", "not_object", "keys_missing",
   "unknown_verdict"} \cup Statuses

\* A transport error or an answer outside the grammar becomes DISCRETIONARY
\* with nothing to check, which the verifier calls UNVERIFIABLE; a body that is
\* no JSON object, or holds no text, raises.  "no_choices" is vLLM's.  The
\* verifier's statuses for an answer in the grammar are inputs here.
BackendAnswer(wire) ==
  IF wire = "unreadable" THEN "raises"
  ELSE IF wire \in Statuses THEN wire ELSE "UNVERIFIABLE"

OnTheWire == IF Backend = "vllm" THEN Transmissions ELSE Transmissions \ {"no_choices"}

-----------------------------------------------------------------------------
(* The agreement monitor.                                                  *)

\* Mutant: a deque without maxlen.
RecordUnbounded(statuses, status) == Append(statuses, status)

\* deque(maxlen=window_size).append
Record(statuses, status) ==
  LET appended == Append(statuses, status) IN
  IF Len(appended) > WindowSize THEN Tail(appended) ELSE appended

Count(statuses, status) == Cardinality({i \in DOMAIN statuses : statuses[i] = status})

\* is_healthy: agreed / total >= threshold; an empty window is healthy.
IsHealthy(statuses) ==
  statuses = <<>> \/ 100 * Count(statuses, "AGREED") >= Percent * Len(statuses)

-----------------------------------------------------------------------------
(* The service.                                                            *)

\* Mutant: the egress guard is not asked.
RefusalUnguarded(c) ==
  IF call[c].kind = "wrong_key" THEN "401"
  ELSE IF ~(Required \subseteq Fields(call[c].client)) THEN "422"
  ELSE IF \/ call[c].kind = "malformed"
          \/ call[c].kind = "skewed" /\ SkewMode = "reject" THEN "422"
  ELSE "none"

\* require_api_key, the body model, the egress guard, the input checks and the
\* clock-skew guard, all before the first await.
Refusal(c) ==
  IF call[c].kind = "wrong_key" THEN "401"
  ELSE IF ~(Required \subseteq Fields(call[c].client)) THEN "422"
  ELSE IF tripped THEN "503"
  ELSE IF \/ call[c].kind = "malformed"
          \/ call[c].kind = "skewed" /\ SkewMode = "reject" THEN "422"
  ELSE "none"

\* _build_clock_skew_envelope: DISCRETIONARY without an evaluation.
SkewRequest ==
  [NewRequest EXCEPT !.pc = "append", !.track = "v3-clock-skew-guard",
                     !.status = "UNVERIFIABLE", !.epoch = epoch]

\* A refusal is answered at once; a skewed record is ledgered unevaluated;
\* otherwise the record is buffered and the model is asked.
Arrive(c) ==
  /\ call[c].pc = "connecting" /\ up
  /\ req' = [req EXCEPT ![c] =
       CASE Refusal(c) # "none" ->
              [NewRequest EXCEPT !.pc = "answered", !.code = Refusal(c), !.epoch = epoch]
         [] Refusal(c) = "none" /\ call[c].kind = "skewed" -> SkewRequest
         [] OTHER ->
              [NewRequest EXCEPT !.pc = "asking", !.track = "v3-evaluator", !.epoch = epoch]]
  /\ call' = [call EXCEPT ![c].pc = "waiting"]
  /\ UNCHANGED <<rows, up, epoch, tripped, atTrip, window, pager>>

Reply(c, code) == req' = [req EXCEPT ![c].pc = "answered", ![c].code = code]

\* Mutant: the status is recorded when it is known, before append_v3.
BackendReturnsRecorded(c, wire) ==
  /\ req[c].pc = "asking"
  /\ IF BackendAnswer(wire) = "raises" THEN Reply(c, "500") /\ UNCHANGED window
     ELSE /\ req' = [req EXCEPT ![c].pc = "append", ![c].status = BackendAnswer(wire)]
          /\ window' = Record(window, BackendAnswer(wire))
  /\ UNCHANGED <<call, rows, up, epoch, tripped, atTrip, pager>>

BackendReturns(c, wire) ==
  /\ req[c].pc = "asking"
  /\ IF BackendAnswer(wire) = "raises" THEN Reply(c, "500")
     ELSE req' = [req EXCEPT ![c].pc = "append", ![c].status = BackendAnswer(wire)]
  /\ UNCHANGED <<call, rows, up, epoch, tripped, atTrip, window, pager>>

Row(c) == [call |-> c, track |-> req[c].track, status |-> req[c].status, epoch |-> req[c].epoch]

\* append_v3 commits its row.
Commit(c) ==
  /\ req[c].pc = "append"
  /\ rows' = Append(rows, Row(c))
  /\ req' = [req EXCEPT ![c].pc = "committed"]
  /\ UNCHANGED <<call, up, epoch, tripped, atTrip, window, pager>>

\* append_v3 raises, before its commit or because the commit's acknowledgement
\* was lost.
AppendRaises(c) ==
  /\ req[c].pc \in {"append", "committed"}
  /\ Reply(c, "500")
  /\ UNCHANGED <<call, rows, up, epoch, tripped, atTrip, window, pager>>

\* append_v3 has returned: agreement_monitor.record on the evaluator's path,
\* then the envelope.  The clock-skew path returns its envelope without it,
\* although the monitor's docstring speaks of every envelope.
Finish(c) ==
  /\ req[c].pc = "committed"
  /\ window' = IF req[c].track = "v3-evaluator" THEN Record(window, req[c].status) ELSE window
  /\ Reply(c, "200")
  /\ UNCHANGED <<call, rows, up, epoch, tripped, atTrip, pager>>

\* EgressGuard counts a call outside the allowlist.
EgressAttempt ==
  /\ Strict /\ up /\ ~tripped
  /\ tripped' = TRUE
  /\ atTrip' = {c \in Calls : Busy(c)}
  /\ UNCHANGED <<call, req, rows, up, epoch, window, pager>>

ServiceCrash ==
  /\ up /\ up' = FALSE
  /\ req' = [c \in Calls |-> IF Busy(c) THEN [req[c] EXCEPT !.pc = "lost"] ELSE req[c]]
  /\ UNCHANGED <<call, rows, epoch, tripped, atTrip, window, pager>>

\* lifespan: a new guard and a new monitor.
ServiceStart ==
  /\ ~up /\ epoch < MaxEpoch
  /\ up' = TRUE /\ epoch' = epoch + 1
  /\ tripped' = FALSE /\ atTrip' = {}
  /\ window' = <<>>
  /\ UNCHANGED <<call, req, rows, pager>>

-----------------------------------------------------------------------------
(* The reader: list_verdicts of the SDK, page after page.                  *)

\* Mutant: newest entries first.
PageNewestFirst(offset) ==
  LET newest == [i \in 1..Len(rows) |-> rows[Len(rows) + 1 - i]] IN
  SubSeq(newest, offset + 1, IF offset + Limit < Len(rows) THEN offset + Limit ELSE Len(rows))

\* LedgerClient.list: ORDER BY sequence_number ASC LIMIT .. OFFSET ..
Page(offset) ==
  SubSeq(rows, offset + 1, IF offset + Limit < Len(rows) THEN offset + Limit ELSE Len(rows))

\* A page arrives; a short one is the last.
PageArrives ==
  /\ pager.pc = "reading" /\ up
  /\ LET page == Page(Len(pager.got)) IN
     pager' = [pager EXCEPT !.attempt = 0, !.got = @ \o page,
                            !.pc = IF Len(page) < Limit THEN "done" ELSE "reading"]
  /\ UNCHANGED <<call, service>>

\* Mutant: the attempt is not counted.
PageFailsUncounted ==
  /\ pager.pc = "reading"
  /\ pager' = IF pager.attempt < MaxRetries THEN pager ELSE [pager EXCEPT !.pc = "failed"]
  /\ UNCHANGED <<call, service>>

\* httpx.RequestError or a 5xx: again, or give up.
PageFails ==
  /\ pager.pc = "reading"
  /\ pager' = IF pager.attempt < MaxRetries THEN [pager EXCEPT !.attempt = @ + 1]
              ELSE [pager EXCEPT !.pc = "failed"]
  /\ UNCHANGED <<call, service>>

-----------------------------------------------------------------------------
ClientStep(c) == ConnectFails(c) \/ Arrive(c) \/ Receive(c) \/ GiveUp(c)

ServiceStep(c) ==
  \/ \E wire \in OnTheWire : BackendReturns(c, wire)
  \/ Commit(c)
  \/ AppendRaises(c)
  \/ Finish(c)

ReaderStep == PageArrives \/ PageFails

Next ==
  \/ \E c \in Calls, client \in Clients, kind \in Kinds : Send(c, client, kind)
  \/ \E c \in Calls : ClientStep(c) \/ ServiceStep(c)
  \/ SidecarRestart
  \/ EgressAttempt
  \/ ServiceCrash
  \/ ServiceStart
  \/ ReaderStep

Spec == Init /\ [][Next]_vars

\* Every call has a timeout (30 s) and every retry a fixed delay; the event
\* loop resumes a request when its await ends, which the backend's and the
\* database's timeouts see to.  Nobody has to send, crash or restart.
FairSpec ==
  /\ Spec
  /\ \A c \in Calls : WF_vars(ClientStep(c)) /\ WF_vars(ServiceStep(c))
  /\ WF_vars(ReaderStep)

-----------------------------------------------------------------------------
(* Properties.                                                             *)

Outcomes == {"none", "verdict", "lost", "502", "HTTP error", "SKIAuthError",
             "SKIServiceUnavailable", "SKIValidationError", "SKIResponseError",
             "SKITransportError"}

LedgerRows == [call : Calls, track : {"v3-evaluator", "v3-clock-skew-guard"},
               status : Statuses, epoch : Nat]

\* The two sides of a call, the monitor's window and the reader are where the
\* code can have them.
TypeOK ==
  /\ call \in [Calls -> [pc : {"idle", "connecting", "waiting", "done"},
                         client : {"sdk", "sidecar", "script"}, kind : Kinds,
                         tries : Nat, outcome : Outcomes]]
  /\ req \in [Calls -> [pc : {"none", "asking", "append", "committed", "answered", "lost"},
                        track : {"none", "v3-evaluator", "v3-clock-skew-guard"},
                        status : Statuses \cup {"none"},
                        code : {"none", "200", "401", "422", "500", "503"}, epoch : Nat]]
  /\ rows \in Seq(LedgerRows)
  /\ up \in BOOLEAN /\ epoch \in Nat /\ tripped \in BOOLEAN /\ atTrip \subseteq Calls
  /\ window \in Seq(Statuses) /\ Len(window) <= WindowSize
  /\ pager \in [pc : {"reading", "done", "failed"}, attempt : 0..MaxRetries,
                got : Seq(LedgerRows)]

RowsOf(c) == {i \in DOMAIN rows : rows[i].call = c}

Definite == {"SKIAuthError", "SKIServiceUnavailable", "SKIValidationError"}

\* What a caller may conclude.  With a verdict in hand its one row is in the
\* ledger, with the status of the answer.  SKIAuthError, SKIServiceUnavailable
\* and SKIValidationError mean that there is no row and none will come.  After
\* a timeout, a broken connection, a 500 or the sidecar's 502 there may be a
\* row, now or later, and never two: no layer repeats a POST.
OutcomeTellsLedger ==
  \A c \in Calls :
    /\ Cardinality(RowsOf(c)) <= 1
    /\ call[c].outcome = "verdict" => \E i \in DOMAIN rows : rows[i] = Row(c)
    /\ call[c].outcome \in Definite => RowsOf(c) = {} /\ ~Busy(c)

\* Once the egress guard has tripped, only requests that were in flight are
\* still being evaluated or reach the ledger, until the service is restarted
\* ("stops all further evaluation", docstring of evaluate).
TripStopsEvaluation ==
  tripped =>
    \A c \in Calls : Busy(c) => c \in atTrip

\* The rows of this process whose envelope was returned, those of them that
\* an evaluation produced, and those with a status.
AnsweredRows == {i \in DOMAIN rows : rows[i].epoch = epoch /\ req[rows[i].call].code = "200"}
EvaluatedRows == {i \in AnsweredRows : rows[i].track = "v3-evaluator"}
WithStatus(s) == {i \in AnsweredRows : rows[i].status = s}

\* What a window keeps of n statuses.
Kept(n) == IF n < WindowSize THEN n ELSE WindowSize

\* The monitor and the ledger tell the same story of this process: the window
\* holds a status for every answered evaluation, up to its size, none without
\* an answered row and none more often than the ledger has it, so that
\* /api/health reports a degraded model only when rows of this process show a
\* disagreement.  Whether the clock-skew guard's envelopes are among the
\* statuses, on which the code and its docstring differ, is left open.
MonitorMatchesLedger ==
  up => /\ Kept(Cardinality(EvaluatedRows)) <= Len(window)
        /\ Len(window) <= Kept(Cardinality(AnsweredRows))
        /\ \A s \in Statuses : Count(window, s) <= Cardinality(WithStatus(s))
        /\ ~IsHealthy(window) => Cardinality(WithStatus("AGREED")) < Cardinality(AnsweredRows)

\* What the reader has collected is the beginning of the ledger: no entry is
\* missing or repeated although entries are appended between its pages and
\* pages are asked for again.
PagesAreAPrefix ==
  /\ Len(pager.got) <= Len(rows)
  /\ pager.got = SubSeq(rows, 1, Len(pager.got))

\* The two sides of a call move in step: nothing reaches the service before
\* the connection, an answer has a code, and the outcome follows from it.
SidesInStep ==
  \A c \in Calls :
    /\ call[c].pc \in {"idle", "connecting"} => req[c] = NewRequest
    /\ call[c].outcome # "none" <=> call[c].pc = "done"
    /\ req[c].code # "none" <=> req[c].pc = "answered"
    /\ call[c].outcome = "verdict" => req[c].code = "200"
    /\ call[c].outcome \in Definite => req[c].code \in {"401", "422", "503"}

\* A row is what its request was when it was committed; a request that is past
\* its commit has its row, a refused one has none.
RowsInStep ==
  /\ \A i \in DOMAIN rows :
       /\ rows[i] = Row(rows[i].call)
       /\ req[rows[i].call].pc \in {"committed", "answered", "lost"}
       /\ req[rows[i].call].code \in {"none", "200", "500"}
  /\ \A i, j \in DOMAIN rows : rows[i].call = rows[j].call => i = j
  /\ \A c \in Calls : req[c].pc = "committed" \/ req[c].code = "200"
       => \E i \in DOMAIN rows : rows[i].call = c

\* A request that is being served is one of the running process.
RequestsOfEpoch ==
  \A c \in Calls :
    /\ req[c].epoch <= epoch
    /\ Busy(c) => up /\ req[c].epoch = epoch /\ req[c].track # "none"
    /\ req[c].pc \in {"append", "committed"} => req[c].status # "none"

\* The inductive invariant of a call's two sides, the ledger, the guard, the
\* monitor and the reader.
ClientInv ==
  /\ TypeOK /\ SidesInStep /\ RowsInStep /\ RequestsOfEpoch
  /\ TripStopsEvaluation /\ MonitorMatchesLedger /\ PagesAreAPrefix

\* In the end every POST that was made has its outcome and the reader has its
\* pages or an error, whatever the service does, be it down for good.
EverybodyAnswered ==
  <>[](pager.pc # "reading" /\ \A c \in Calls : call[c].pc \in {"idle", "done"})

\* "normalises it, and forwards each record to the SKI Model" (sidecar): a
\* good record sent with the right key is not refused as malformed.
NormalisedIsAccepted ==
  \A c \in Calls :
    call[c].client = "sidecar" /\ call[c].kind = "good" => req[c].code # "422"
=============================================================================
