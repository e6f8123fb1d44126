----------------------------- MODULE SkiService -----------------------------
(***************************************************************************)
(* The request path of the SKI Model service, POST /api/evaluate and       *)
(* POST /api/kg/load, composed with the ledger writer: request r is the    *)
(* call r of append_v3.                                                    *)
(*                                                                         *)
(* An action is the code between two awaits, so a hot-load of the          *)
(* Knowledge Graph may fall into any await of a request.  A KG stands for  *)
(* itself and for its kg_version_hash; the verdict is left to the          *)
(* evaluator's own model.                                                  *)
(***************************************************************************)
EXTENDS SkiLedger

CONSTANTS
  KGs,            \* graphs that verify against the trust anchors
  NoKG,           \* state.knowledge_graph is None
  FileKG,         \* what KG_PATH holds: one of KGs, or NoKG
  Measurements,
  Rejects(_, _),  \* measurement_input_errors(m, kg.rules) is not empty
  Skewed,         \* measurements beyond max_clock_skew_seconds
  SkewMode,       \* _clock_skew_mode(): "reject" or "discretionary"
  HotLoad,        \* SKI_ENABLE_KG_HOT_LOAD
  MaxLoads,       \* bound on the hot-loads
  Strict          \* SKI_SOVEREIGNTY=strict

\* What a row records of its request: the track, the KG snapshot in the signed
\* prompt, the envelope's provenance hash and the graph its columns name (the
\* kg_version, and in format 5 the kg_version_hash).
VerdictLines ==
  [req : Writers, track : {"v3-evaluator", "v3-clock-skew-guard"},
   snapshot : KGs, provenance : KGs, column : KGs]

ASSUME BodyIsVerdictLine == VerdictLines \subseteq Body
ASSUME KGAssumption == NoKG \notin KGs /\ FileKG \in KGs \cup {NoKG}
ASSUME SkewAssumption == SkewMode \in {"reject", "discretionary"}
ASSUME LoadsAssumption == MaxLoads \in Nat

VARIABLES
  kg,       \* state.knowledge_graph, with state.kg_version_hash
  evalKg,   \* state.evaluator.kg_version_hash
  loads,    \* how many graphs were hot-loaded
  swapped,  \* requests whose graph was replaced before their verdict (history)
  phase,    \* phase[r]: the await request r is at
  meas,     \* meas[r]: its measurement
  snap,     \* snap[r]: the graph it was scoped to
  reply     \* reply[r]: the status it was answered with

graphVars == <<kg, evalKg, loads, swapped>>
requestVars == <<phase, meas, snap, reply>>
serviceVars == <<ledgerVars, graphVars, requestVars>>

Active(r) == phase[r] \in {"buffering", "asking", "verifying", "ledgering"}

ServiceInit ==
  /\ LedgerInit
  /\ kg = NoKG
  /\ evalKg = NoKG
  /\ loads = 0
  /\ swapped = {}
  /\ phase = [r \in Writers |-> "new"]
  /\ meas \in [Writers -> Measurements]
  /\ snap = [r \in Writers |-> NoKG]
  /\ reply = [r \in Writers |-> "none"]

\* The request is answered with code.
Reply(r, code) ==
  /\ phase' = [phase EXCEPT ![r] = "answered"]
  /\ reply' = [reply EXCEPT ![r] = code]

-----------------------------------------------------------------------------
\* The checks of evaluate and _evaluate before the first await.
Refusal(m) ==
  IF kg = NoKG THEN "503"
  ELSE IF Rejects(m, kg) \/ (m \in Skewed /\ SkewMode = "reject") THEN "422"
  ELSE "none"

\* ClientPath has the egress guard's state; in a strict deployment it may have
\* tripped by now, which comes before all other checks.
Refuse(r, tripped) ==
  /\ proc = "up" /\ phase[r] = "new"
  /\ tripped \/ Refusal(meas[r]) # "none"
  /\ Reply(r, IF tripped THEN "503" ELSE Refusal(meas[r]))
  /\ UNCHANGED <<ledgerVars, graphVars, meas, snap>>

\* A skewed record is ledgered as DISCRETIONARY without buffer or model.
SkewVerdict(r) ==
  /\ phase[r] = "new"
  /\ Refusal(meas[r]) = "none" /\ meas[r] \in Skewed
  /\ BeginAppend(r, [req |-> r, track |-> "v3-clock-skew-guard",
                     snapshot |-> kg, provenance |-> kg, column |-> kg])
  /\ phase' = [phase EXCEPT ![r] = "ledgering"]
  /\ UNCHANGED <<graphVars, meas, snap, reply>>

\* The buffer append is awaited.
Accept(r) ==
  /\ proc = "up" /\ phase[r] = "new"
  /\ Refusal(meas[r]) = "none" /\ meas[r] \notin Skewed
  /\ phase' = [phase EXCEPT ![r] = "buffering"]
  /\ UNCHANGED <<ledgerVars, graphVars, meas, snap, reply>>

\* Mutant: the request is scoped to the graph the process was started with.
BufferedStartupGraph(r) ==
  /\ phase[r] = "buffering"
  /\ snap' = [snap EXCEPT ![r] = FileKG]
  /\ phase' = [phase EXCEPT ![r] = "asking"]
  /\ UNCHANGED <<ledgerVars, graphVars, meas, reply>>

\* The buffer append returns, or raises, which is only logged (TelemetryReplay
\* has the buffer); the graph is scoped and the model is asked.
Buffered(r) ==
  /\ phase[r] = "buffering"
  /\ snap' = [snap EXCEPT ![r] = kg]
  /\ phase' = [phase EXCEPT ![r] = "asking"]
  /\ UNCHANGED <<ledgerVars, graphVars, meas, reply>>

\* The model answers; freshness gate and verifier query the buffer.
ModelAnswers(r) ==
  /\ phase[r] = "asking"
  /\ phase' = [phase EXCEPT ![r] = "verifying"]
  /\ UNCHANGED <<ledgerVars, graphVars, meas, snap, reply>>

\* Mutant: the whole evaluation is retried, without a limit.
ModelFailsRetried(r) ==
  /\ phase[r] = "asking"
  /\ phase' = [phase EXCEPT ![r] = "buffering"]
  /\ UNCHANGED <<ledgerVars, graphVars, meas, snap, reply>>

\* The backend raises or times out, or the evaluator raises on what it answered.
ModelFails(r) ==
  /\ phase[r] \in {"asking", "verifying"}
  /\ Reply(r, "500")
  /\ UNCHANGED <<ledgerVars, graphVars, meas, snap>>

\* The envelope gets its provenance and append_v3 is called.
Verdict(r) ==
  /\ phase[r] = "verifying"
  /\ BeginAppend(r, [req |-> r, track |-> "v3-evaluator",
                     snapshot |-> snap[r], provenance |-> evalKg, column |-> kg])
  /\ phase' = [phase EXCEPT ![r] = "ledgering"]
  /\ UNCHANGED <<graphVars, meas, snap, reply>>

\* append_v3 moves on inside its transaction.
LedgerWorks(r) ==
  /\ SelectHead(r) \/ Insert(r) \/ Commit(r)
  /\ UNCHANGED <<graphVars, requestVars>>

\* append_v3 returned: checkpoint scheduling, metrics, and the envelope.
Answer(r) ==
  /\ AppendReturns(r)
  /\ Reply(r, "200")
  /\ UNCHANGED <<graphVars, meas, snap>>

\* Mutant: the exception is only logged, as the buffer's is.
LedgerErrorLogged(r) ==
  /\ InsertConflict(r) \/ AppendFails(r)
  /\ Reply(r, "200")
  /\ UNCHANGED <<graphVars, meas, snap>>

\* Mutant: the append is retried, also when only its acknowledgement was lost.
LedgerErrorRetried(r) ==
  /\ pc[r] = "committed"
  /\ pc' = [pc EXCEPT ![r] = "begin"]
  /\ UNCHANGED <<table, args, draft, now, checkpoints, task, proc, schema5, format5>>
  /\ UNCHANGED <<graphVars, requestVars>>

\* append_v3 raised.
LedgerError(r) ==
  /\ InsertConflict(r) \/ AppendFails(r)
  /\ Reply(r, "500")
  /\ UNCHANGED <<graphVars, meas, snap>>

-----------------------------------------------------------------------------
\* Requests that were scoped to another graph than k and have no verdict yet.
ScopedElsewhere(k) ==
  {r \in Writers : phase[r] \in {"asking", "verifying"} /\ snap[r] # k}

\* Mutant: the evaluator keeps the hash it was built with.
LoadKGStaleEvaluator(k) ==
  /\ HotLoad /\ proc = "up" /\ loads < MaxLoads
  /\ kg' = k
  /\ loads' = loads + 1
  /\ swapped' = swapped \cup ScopedElsewhere(k)
  /\ UNCHANGED <<ledgerVars, evalKg, requestVars>>

\* load_kg of a graph that verifies; any other is answered 400.
LoadKG(k) ==
  /\ HotLoad /\ proc = "up" /\ loads < MaxLoads
  /\ kg' = k
  /\ evalKg' = k
  /\ loads' = loads + 1
  /\ swapped' = swapped \cup ScopedElsewhere(k)
  /\ UNCHANGED <<ledgerVars, requestVars>>

ServiceStart ==
  /\ Start
  /\ kg' = FileKG
  /\ evalKg' = FileKG
  /\ UNCHANGED <<loads, swapped, requestVars>>

\* uvicorn drains the requests before lifespan goes on.
ServiceShutdown ==
  /\ \A r \in Writers : ~Active(r)
  /\ Shutdown
  /\ UNCHANGED <<graphVars, requestVars>>

\* Mutant: a request survives the process it ran in.
ServiceCrashKeepsRequests ==
  /\ Crash
  /\ UNCHANGED <<graphVars, requestVars>>

ServiceCrash ==
  /\ Crash
  /\ phase' = [r \in Writers |-> IF Active(r) THEN "answered" ELSE phase[r]]
  /\ reply' = [r \in Writers |-> IF Active(r) THEN "lost" ELSE reply[r]]
  /\ UNCHANGED <<graphVars, meas, snap>>

LedgerBackground ==
  /\ TaskStep \/ TaskStampFails \/ TaskFails \/ OwnerMigrates
  /\ UNCHANGED <<graphVars, requestVars>>

-----------------------------------------------------------------------------
RequestStep(r) ==
  \/ Buffered(r)
  \/ ModelAnswers(r)
  \/ ModelFails(r)
  \/ Verdict(r)
  \/ LedgerWorks(r)
  \/ Answer(r)
  \/ LedgerError(r)

ServiceNext ==
  \/ \E r \in Writers, tripped \in {FALSE, Strict} : Refuse(r, tripped)
  \/ \E r \in Writers : SkewVerdict(r) \/ Accept(r) \/ RequestStep(r)
  \/ \E k \in KGs : LoadKG(k)
  \/ ServiceStart
  \/ ServiceShutdown
  \/ ServiceCrash
  \/ LedgerBackground

ServiceSpec == ServiceInit /\ [][ServiceNext]_serviceVars

\* The checkpoint task runs inside the same event loop.
TaskMoves ==
  /\ TaskCounts \/ TaskReads \/ TaskInserts
  /\ UNCHANGED <<graphVars, requestVars>>

StampEnds ==
  /\ TaskStamped \/ TaskStampFails
  /\ UNCHANGED <<graphVars, requestVars>>

\* Every await ends: the database, the model backend and the time-stamp
\* authority answer, raise or time out, and the event loop resumes whoever
\* awaited them.  New requests, restarts, hot-loads and the clock owe nothing.
FairServiceSpec ==
  /\ ServiceSpec
  /\ \A r \in Writers : WF_serviceVars(RequestStep(r))
  /\ WF_serviceVars(TaskMoves)
  /\ WF_serviceVars(StampEnds)

-----------------------------------------------------------------------------
\* Type correctness of the request path.
ServiceTypeOK ==
  /\ kg \in KGs \cup {NoKG} /\ evalKg \in KGs \cup {NoKG}
  /\ loads \in Nat /\ swapped \subseteq Writers
  /\ phase \in [Writers -> {"new", "buffering", "asking", "verifying", "ledgering", "answered"}]
  /\ meas \in [Writers -> Measurements]
  /\ snap \in [Writers -> KGs \cup {NoKG}]
  /\ reply \in [Writers -> {"none", "200", "422", "500", "503", "lost"}]

RowsOf(r) == {row \in table : row.body.req = r}

\* A verdict reaches the caller only with its one row in the ledger; a refused
\* request leaves no row; no request, answered or lost, leaves two.
OneRowPerVerdict ==
  \A r \in Writers :
    /\ \A s, t \in RowsOf(r) : s = t
    /\ reply[r] = "200" => RowsOf(r) # {}
    /\ reply[r] \in {"422", "503"} => RowsOf(r) = {}

\* The provenance hash inside the envelope and the kg_version_hash column of
\* its row agree, also when graphs are loaded while requests are in flight.
ProvenanceMatchesRow == \A row \in table : row.body.provenance = row.body.column

\* The graph a verdict was reached under is the one its row names, so that it
\* can be replayed from the ledger, unless a graph was hot-loaded between the
\* scoping of that very request and its verdict: neither a restart nor a load
\* during another request, the buffer append or append_v3 parts the two.
Replayable ==
  \A row \in table :
    row.body.snapshot = row.body.column \/ row.body.req \in swapped

\* The service drives the ledger writer only as SkiLedger allows.
ServiceUsesLedger == LedgerSpec

\* Every request that was let in is answered, or lost with the process: each is
\* made once, so in the end none is left at an await.
RequestsAnswered == <>[](\A r \in Writers : ~Active(r))

-----------------------------------------------------------------------------
\* The inductive invariant of the composition, together with LedgerInv.

\* The evaluator's hash follows the graph, and a request runs only in a
\* process that has one.
GraphInStep ==
  /\ evalKg = kg
  /\ \A r \in Writers :
       /\ Active(r) => proc = "up" /\ kg # NoKG
       /\ phase[r] \in {"asking", "verifying"} => snap[r] # NoKG

\* A request and its call of append_v3 end together.
LedgeringInStep ==
  \A r \in Writers : InFlight(r) <=> phase[r] = "ledgering"

\* Where a request is says where its call of append_v3 is.
CallsInStep ==
  \A r \in Writers :
    /\ phase[r] \in {"new", "buffering", "asking", "verifying"} => pc[r] = "idle"
    /\ reply[r] \in {"422", "503"} => pc[r] = "idle"
    /\ reply[r] = "200" => pc[r] = "ok"
    /\ reply[r] # "none" <=> phase[r] = "answered"

\* Each row is the one its request drafted.
LinesInStep ==
  /\ \A r \in Writers :
       /\ pc[r] # "idle" =>
            /\ args[r] \in VerdictLines
            /\ args[r].req = r
            /\ args[r].provenance = args[r].column
            /\ args[r].snapshot = args[r].column \/ r \in swapped
       /\ pc[r] \in {"committed", "ok"} => draft[r].body = args[r]
  /\ \A row \in table : \E r \in Writers :
       row = draft[r] /\ row.body = args[r] /\ pc[r] \in {"committed", "ok", "error"}

\* A request that was not overtaken by a hot-load has the process's graph;
\* without hot-load there is no other.
GraphFixed ==
  /\ \A r \in Writers :
       phase[r] \in {"asking", "verifying"} => snap[r] = kg \/ r \in swapped
  /\ ~HotLoad => swapped = {}

ServiceInv ==
  /\ LedgerInv
  /\ ServiceTypeOK
  /\ GraphInStep
  /\ LedgeringInStep
  /\ CallsInStep
  /\ LinesInStep
  /\ GraphFixed
=============================================================================
