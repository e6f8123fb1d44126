# SKI Framework: TLA+ models

TLA+ models of the SKI Framework (v3.3.0): the runtime that asks a language
model for a compliance verdict on a telemetry record, checks the answer
symbolically, and writes verdict and evidence to an append-only ledger an
auditor verifies later. TLC checks the models on small instances; TLAPS proves
the main invariants for every value of the constants.

Paths are relative to the repository root. `RI` stands for
`reference-implementation/src`, `AL` for `tools/audit-ledger/src/audit_ledger`.

## 1. The system

### Components, their state and operations

| Component | Code | State | Operations |
|---|---|---|---|
| Evaluation service | `RI/ski_model/server.py` | `_State`: graph, evaluator, ledger client, buffer, checkpoint task | `evaluate`, `load_kg`, `lifespan`, read-only endpoints |
| Ledger writer | `RI/ski_model/ledger_client.py`, `RI/ledger/schema.sql` | `ledger_entries` (UNIQUE sequence number and hash) | `append_v3` |
| Checkpoints | `ledger_client.py`, `server.py` | `ledger_checkpoints`, one background task | `_maybe_checkpoint`, `checkpoint`, `evidence` |
| Schema migration | `RI/ski_model/ledger_migrations.py` | columns of the ledger tables | `ensure_v5_ledger_schema` |
| Verdict evaluator | `RI/ski_model/v3/evaluator.py` | none between calls | `aevaluate_with_transcript` |
| Symbolic verifier | `RI/ski_model/v3/verifier.py` | none | predicates, grounding, `averify_report` |
| Risk tiers | `v3/policies/risk_tier.py`, `RI/tag_registry/registry.py` | none | `tier_for_snapshot`, `apply_risk_policy` |
| Telemetry buffer | `RI/telemetry_buffer/buffer.py`, `RI/ledger/telemetry_buffer.sql` | rows, partitions | `append`, `window_query`, `has_fresh_sample`, retention |
| Sovereignty checks, egress guard | `RI/ski_model/sovereignty.py` | the report, `tripped` | staged start-up checks, socket audit hook |
| Transcript signing | `v3/signing.py` | key file, `.pub`, `ledger_signing_keys` | `auto_provision`, `register_signing_key` |
| KG loader | `RI/ski_model/kg_loader.py` | trust anchors | `from_dict`, `_verify_signature`, `scope_to` |
| Model backends | `v3/backends/*` | weights hash | `build_backend`, the model call |
| Evidence | `RI/ski_model/evidence.py`, `tools/ski-schemas/.../{merkle,cose,scitt,trace}.py` | none: reads ledger and checkpoints | `entry_evidence`, `make_receipt`, `verify_transparent_statement` |
| Audit verifier | `AL/ledger.py`, `AL/evidence.py`, `AL/cli.py` | exported checkpoint files, backups | `verify_integrity`, `verify_checkpoints`, `export_checkpoints`, `backup_database` |
| Replay tool | `AL/replay.py` | none | `replay` |
| Agreement monitor | `v3/agreement_monitor.py` | a bounded window of outcomes | `record`, `is_healthy` |
| Sidecar, SDK | `RI/sidecar/main.py`, `tools/ski-sdk` | requests in hand | `receive_telemetry`; `evaluate`, `list_verdicts` with retries |
| KG extractor, validator, conversion | `tools/kg-extractor`, `tools/kg-validator`, `ski_schemas/kg_graph.py` | the graph file | `extract`, `validate --strict`, `flat_to_graph` |
| Model deployer | `tools/ski-model-deploy` | deployment configuration | `sign_kg`, `load_knowledge_graph` |

### How they interact

A producer posts a record to the sidecar, which forwards it to the service.
The service checks the record against the graph, writes it to the telemetry
buffer, scopes the graph, calls the model, lets the evaluator run the freshness
gate and the verifier (both query the buffer), appends envelope and transcript
to the ledger, and answers. After an append it may start the one background
checkpoint task. All this shares one event loop and one process: requests
interleave at every `await`, and nothing else orders them. The administrator
may replace the graph at any `await`. PostgreSQL, the model backend and the
time-stamp authority are reached over the network and may fail. The process
may die anywhere. Beside this path stand readers: an SDK client pages through
the verdicts, a relying party asks for evidence of one entry, and the auditor's
tool reads entries, keys and checkpoints of a ledger in use, in one statement
each. The graph comes from a file that extractor, authors, validator and
deployer handle one after the other, each reading it anew.

### What is hard

* Several requests read the ledger head before any of them inserts.
* State is read before an `await` and used after it: graph, head, window.
* A checkpoint task that is past its read while entries are acknowledged.
* Crashes between a commit and its answer, and between the steps that make,
  store and register a signing key.
* A schema that is migrated by its owner under a running process.
* Rows that arrive late, twice or during an evaluation, and retention.
* A model that omits, fabricates, mistypes or contradicts.
* Time-outs and lost answers in front of a service that goes on by itself.
* Readers that need several statements while the tables change.
* A ledger that was restored from a backup, or rewritten by whoever owns it.
* A signed file that is edited with its signature block left in place.

`PROJECT.json` lists these hazards at their lines.

### What makes each component correct

Ledger: what is there always passes the auditor; an acknowledged verdict is
there once. Checkpoints: they describe prefixes, receipts are stable, shutdown
leaves no tail. Service: one row per verdict and none per refusal, each
naming the graph it was reached under; every request is answered. Evaluator
and verifier: nothing the model says hides a breach or earns an undeserved
CLEAR. Start-up: strict mode calls nothing it has not cleared; every signature
finds its key. Buffer and replay: an honest entry replays as recorded.
Clients: an outcome tells its caller what may be in the ledger. Evidence and
audit: what verifies is what the runtime wrote, and a ledger nobody touched
raises no unexplained alarm. Graph pipeline: the runtime judges by what was
signed, where and when its author wrote it to apply.

## 2. Modules

| Module | Models |
|---|---|
| `LedgerFormat` | entry payload and hash, head of a ledger, checkpoint rows; `Hash` and `Root` are operator constants |
| `AuditLedger` | the auditor: one operator per check of `verify_integrity` and `verify_checkpoints`, and the checkpoint `evidence()` picks |
| `AppendOnlyLog` | abstract specification: a log of bodies, the progress of each call, the sealed prefixes |
| `SkiLedger` | `append_v3` statement by statement, the checkpoint task, shutdown, crash, restart, migration |
| `SkiService` | the request path and hot-load, composed with `SkiLedger` by sharing its variables and actions |
| `Predicates` | the predicates of the verifier over Python-like values |
| `SymbolicVerifier` | grounding, enumeration of obligations, tally, report |
| `V3Evaluator` | one evaluation, stage by stage, with every return path |
| `SkiStartup` | `lifespan` stage by stage, key lifecycle, rows signed under each key |
| `TelemetryReplay` | buffer rows, overlapping evaluations that query them, retention, replay of a ledger entry |
| `LiveAudit` | the auditor's tool, read by read, on a ledger that is appended to, checkpointed, re-keyed, restored or rewritten; signatures, key ring, pins, exported checkpoint files |
| `Merkle` | the RFC 6962 tree, inclusion proofs and the walk up a proof |
| `Receipts` | the evidence endpoint, read by read, statements, receipts and TRACE records, and the relying party who verifies them |
| `ClientPath` | SDK, sidecar and script in front of the service, model backends on the wire, egress guard, agreement monitor, a paging reader |
| `KnowledgeGraphs` | pure operators: validator checks, flat conversion, compilation, `scope_to`, extraction |
| `KGPipeline` | the graph file through extraction, edits, conversion, validation, signing, registration and loading |
| `MC*` | constants for TLC |
| `*Proofs` | theorems of `V3Evaluator`, `SkiStartup`, `KGPipeline`, `ClientPath`, `TelemetryReplay`, `LiveAudit`, `Receipts` with `Merkle`, and, in `SkiServiceProofs`, of `SkiLedger` and `SkiService` |

### State and actions against the code

**SkiLedger.** `table` and `checkpoints` are the committed rows. `pc[w]`,
`args[w]` and `draft[w]` are one call of `append_v3`: `BeginAppend` enters it,
`SelectHead` reads the head and the wall clock (which may have moved on) and
builds the row in the process's format, `Insert` takes the uncommitted row (the UNIQUE index makes
any other insert of the same number wait), `Commit` publishes it,
`InsertConflict` is the `IntegrityError` of the loser, `AppendFails` any other
database error, before or after the commit took effect, and `AppendReturns` the
acknowledgement with `_maybe_checkpoint` in the same step, as there is no
`await` between. `task` is the background task: `TaskCounts`, `TaskReads`,
`TaskStamped` or `TaskStampFails` (one retry without the authority),
`TaskInserts`, `TaskFails`. `Shutdown` awaits the task and runs the final
checkpoint; `Crash` rolls back open transactions; `Start` chooses format 4 or
5; `OwnerMigrates` changes the schema under a running process.

**SkiService.** `phase[r]` is the `await` a request is at; `snap[r]` the graph
it was scoped to. `Refuse`, `SkewVerdict` and `Accept` are everything before
the first `await`. `Verdict` calls `append_v3`; from there the ledger's own
actions move it (`LedgerWorks`), and `Answer` or `LedgerError` end it.
`LoadKG` replaces graph and evaluator at any `await`; `swapped` keeps the requests
whose graph it replaced between their scoping and their verdict. The egress guard
and the buffer have their state in `ClientPath` and `TelemetryReplay`: here a
request may find the guard tripped, and the buffer append may return or raise.

**V3Evaluator.** Stages `asking`, `gating`, `parsing`, `checking`, `probing`,
`deciding`. `RejectCitations`, `RaiseOnCitations` and `RejectContract` are the
early returns, `Parse` the taxonomy guard and normalisation, `CheckAssertions`
and `ProbeObligations` the two passes of `averify_report`, each with window
answers of its own, `Return` the decision: freshness, risk policy, floors.

**SkiStartup.** `stage` follows `lifespan`; `contacted` records which
dependency has been called; `keyFile`, `pubFile`, `ring`, `rows` are durable.
Generating a key takes four steps (decide, create, write, public) before
registration, and `Stop` may fall between any two.

**TelemetryReplay.** `buffer` holds rows with the partition they went to.
`call[r]` is an evaluation between its queries. `DropPartitions` is the
retention helper; `Replay(entry)` is what the replay tool would say now, so
every state is also a moment at which the auditor may come. Skewed records end
in `Lose`: they are neither buffered nor replayed.

**LiveAudit.** `ReadEntries`, `ReadKeys` and `ReadCheckpoints` are the three
statements of `audit-ledger verify`; `session` keeps what was read.
`EntryIssues` and `CheckOne` have one case per issue type. `Append`,
`Checkpoint` and `Restart` are the runtime, one step each; the timestamp of an
entry is any value of the wall clock, which may have been set back.
`RestoreBackup(n, m)` brings back the ledger as a dump at length `n` with `m`
entries covered has it. `Rewrite` is what the owner of the tables can do with a
key of his own. `files` are checkpoints exported to write-once storage.

**Receipts.** `SelectEntry`, `SelectTreeSize` and `Answer` are the three reads
of `evidence()`, the last with the signing. `Rewrite` is the owner of the
database: he may put back the row as written, or change it and store in its hash
column the hash of the changed row, the old hash, or that of another entry
(`RowsAt`). `Delivered` has the forms in which an answer may reach a relying
party: the proof in a receipt is covered by no signature.

**ClientPath.** `call[c]` is the client's side of a POST and `req[c]` the
service's. `Refusal` is everything before the first `await`, in its order;
`BackendReturns` what a backend makes of the answer on the wire; `Commit`,
`AppendRaises`, `Finish` the ledger call and the monitor's `record`. `GiveUp`
is the time-out of the client, after which the service goes on. `PageArrives`
and `PageFails` are `list_verdicts` with its retries.

**KGPipeline.** One action per tool and one per kind of edit. `Validate`,
`Convert`, `SignKG`, `LoadKnowledgeGraph` and `LoadKG` read the file as it is
when they run; the graph operators are those of `KnowledgeGraphs`.
`LoadKnowledgeGraph` notes a path, a version and that the signature verified;
`registered` keeps that this was done, not the content, which may change after it.

### Abstractions

* PostgreSQL is external: READ COMMITTED, UNIQUE indexes that block and then
  raise, atomic commits. A connection lost at commit may or may not have
  committed.
* Hash and Merkle root are operators; the proofs assume nothing of them, except
  `SealedAlwaysSurvive`, which states that they have no collisions as its
  hypothesis. TLC uses injective ones. `Merkle` builds digests as free terms, so that
  distinct leaves and nodes have distinct digests. A signature is the pair of
  key and message; in `SkiStartup` it is reduced to "whose key".
* The wall clock never steps back in `SkiLedger`, as the code has no defence
  against that; in `LiveAudit` it may, and the auditor's alarm is accounted for.
* `LiveAudit`, `Receipts` and `ClientPath` append and checkpoint in one step;
  `SkiLedger` shows that these transactions can be seen so.
* One process per ledger, as the Helm chart deploys it (`replicas: 1`,
  `Recreate`) and `config_checks` demands (`SKI_MODEL_WORKERS=1`).
* Looking for the key file and loading it is one step.
* Names, notes, reasons, metrics and log lines are left out.
* `TelemetryReplay` has one obligation in scope, at tier 1, and a model that
  asserts it with the verdict; `V3Evaluator` has all other answers.

## 3. What TLC checks

Runs expected to pass:

| Run | Bounds | Shows |
|---|---|---|
| `service` | 2 requests, 2 graphs, of which one rejects a measurement, 1 hot-load, discretionary skew mode, strict, clock 0..1, a checkpoint after every entry, authority on | `AuditPasses`: the ledger passes the auditor in every state. `ImplementsLog`: it implements `AppendOnlyLog`. `ReceiptStable`: the checkpoint behind a receipt never changes. `ShutdownCoversTail`. `LedgerInv`: the inductive invariant of the ledger, which has the types, that an acknowledged call has its own committed row and that one row at most is uncommitted among its parts. `OneRowPerVerdict`, `ProvenanceMatchesRow`. `Replayable`: a verdict is recorded under the graph it was reached under, unless a load fell between the scoping of that request and its verdict. `ServiceInv`, and `ServiceUsesLedger`: the composition refines `SkiLedger`. Under fairness `RequestsAnswered` and `TaskTerminates` |
| `evaluator_safety` | 12 slices at 3 tiers, readings missing, compliant, breaching and in another unit, honest and dishonest answers, 4 window answers | `BreachNeverHidden`, `ClearIsEarned`, `FreshnessWins`, `TierOnlyRestricts`, `SilentKeyNeverClear`, `EvaluatorInv` |
| `startup_safety` | 3 keys, a production and a demo environment with their settings varied, any number of restarts | `StrictIsSovereign`, `SignaturesVerify`, `NoSilentIdentity`, `StartupInv` |
| `replay_ordered` | 2 requests, 2 subjects, timestamps 0..2, readings low, high and not a number, both windowed predicates | `OrderedReplays`: entries of a producer that sends in order and one at a time replay as recorded, or their row is gone. `PeakBreachSurvives`: a recorded window-peak breach is one on every replay |
| `audit_live` | 2 entries, 2 keys, both pinned, 2 bodies, clock 0..1, one restore or any rewrites of the tail, one session of the tool | `ValidIsGenuine`: if the tool passes with every signature verified, every entry it read was committed by the runtime at that place. `SealedEntriesSurvive`: with exported checkpoints it cannot pass over a lost or altered entry they cover. `AlarmsExplained`: on an untouched ledger the only alarms are a clock that was set back and a checkpoint signed between the tool's reads |
| `receipts` | ledgers up to 4 entries, 2 keys, 2 answers, 1 rewritten row | `AnswersVerify`: every answer verifies and its root is that of an exported checkpoint. `AcceptedIsOriginal`: what a relying party with such a checkpoint accepts, through any moved or altered receipt, names the hash of an entry the checkpoint covers, and if the statement hashes to it, it is what was appended |
| `client_path` | 2 POSTs by SDK or sidecar, 2 starts of the service, one retry, pages and monitor window of 1 | `OutcomeTellsLedger`: what each outcome says of the ledger. `TripStopsEvaluation`, `MonitorMatchesLedger`, `PagesAreAPrefix`, `ClientInv`: the inductive invariant of the proofs, types included; and under fairness `EverybodyAnswered` |
| `kg_pipeline` | one graph with 2 edits out of 20, 360 flat documents, extraction answers of two chunks, 2 signatures, 2 keys of which one is anchored | `RunsWhatWasSigned`; `QualitativeAtTierOne`: after strict validation what nothing can check is governed at tier 1; `AppliesWhereWritten`: an obligation that a rule owns is in the slice of a measurement exactly where the graph puts it; `ConversionKeepsRules`; `ExtractionIsWhole`: no obligation the model found is lost or doubled |

Why the bounds are enough. In the ledger a conflict needs two calls, and so do a
checkpoint task that misses an entry and two checkpoints over one entry; clock
values 0..1 allow equal and different timestamps. In the service an
interleaving with hot-load needs one request and one load. A start without a
graph file, hot-load off, more requests and other checkpoint intervals are left
to the proofs, which cover them all. The evaluator's slices contain each feature
that selects a branch: duplicate and missing ids, dotted paths, units, windows,
gates, predicates that cannot be formalised. Start-up has no bound besides its
settings; three keys allow a rotation and a restore. In replay, two requests of one subject give a row before,
between or after the other's queries; timestamps 0..2 with a window of 2 have a
row outside the window; the partition in between is the DEFAULT one. A mean of
three samples is not reached. For the auditor's tool two entries have a head and a
predecessor, a checkpoint that covers one of them and one that covers both; a
rewritten tail may be longer than the original. Trees of up to four
leaves include the unbalanced one of three and proofs of every leaf, the last
one included. Two POSTs can meet in the service, and
either can be the one the guard or a crash falls upon. Two edits of the graph
reach an obligation shared by two rules, a cycle of jurisdictions, an id used
twice, and any of these after a signature.

The largest runs have 1,130,192 (`client_path`), 352,939 (`receipts`), 336,093
(`service`) and 111,709 (`kg_pipeline`) distinct states.

Deadlock is checked in the service, start-up and receipts runs. It is
off in the others, whose calls, sessions and edits are finite and end.

Fairness (`FairServiceSpec`, and `FairSpec` of `ClientPath`) is weak fairness
of the steps of a request that was let in, of the checkpoint task, of the end
of a time-stamp request, of a client's call and of the reader's loop. The event
loop resumes ready continuations; the database client, the model backend, the
authority and the HTTP clients answer, raise or time out. Requests, crashes,
restarts, hot-loads, failures and the clock owe nothing; in `ClientPath` the
service may stay down for good.

Runs expected to be violated; each states what a document or comment says:

| Run | Says | Code |
|---|---|---|
| `evaluator_silent_sensor` | "No silent CLEAR on a silent sensor" (`CHANGELOG.md`) | `_missing_telemetry` looks up top-level keys only; a null reading behind a dotted path is UNVERIFIABLE, which tiers 2 and 3 accept |
| `client_sidecar` | "normalises it, and forwards each record to the SKI Model" (`RI/sidecar/main.py:3`) | the body it posts has `telemetry_id`, the service requires `measurement_id`: a good record is answered with 422, and its producer with 502 |
| `ledger_evidence` | "the entry hashes of the latest checkpoint covering it" (`RI/ski_model/ledger_client.py:474`), stated as `ReceiptFromLatest` | `evidence()` takes the smallest tree size (`:506`), so a second checkpoint over an entry leaves its receipt as it was. That is what makes `ReceiptStable` hold |
| `kg_extraction` | "Refuses to emit rules with `confidence: "IMPLIED"`" (`extractor.py:8-11`), "Drop the rule" (`:153`), "Refuses to emit `IMPLIED` rules" (`tools/README.md:16`), stated as `ImpliedIsDropped` | the item is kept with its confidence rewritten, and `emit_v3_kg` makes an obligation of it |

Every property of a passing run has a mutant: a plausible slip in one mapped
definition (an operator marked "Mutant" before it) with which TLC finds the
property violated under the same configuration.

## 4. What is proved

All theorems hold for every value of the constants that meets the named
assumptions: `BodyAssumption`, `CheckpointAssumption`, `TimeAssumption`
(ledger), `BodyIsVerdictLine`, `KGAssumption`, `SkewAssumption`,
`LoadsAssumption` (service),
`ForceAssumption`, `ResponseAssumption` (evaluator), `EnvAssumption`,
`KeyAssumption` (start-up), `PipelineAssumption`, `PlacesAssumption`,
`NamesAssumption` (graph file), `ClientPathAssumption`, `ReplayAssumption`,
`AuditAssumption`, `ReceiptsAssumption`. `PlacesAssumption` says that a place is
not named like a node the extractor makes up (`rule.`, `ob.`, ...), which its
command line does not check; with such a name two emitted ids might
coincide, and the runtime would refuse the graph. TLC evaluates them in every
run of a module that declares them. What types a proof needs are conjuncts of
its inductive invariant.

**SkiServiceProofs, the ledger.** `AuditPasses` is not inductive: it says nothing of rows
not yet committed. `LedgerInv` adds that sequence numbers are exactly `1..n`
(`RowsNumbered`), that each row is hashed as written and linked to its
predecessor and that format 5 is never left (`RowsChained`), that a prepared
row continues a prefix, and the whole ledger when nobody has committed since
(`DraftsFit`), that one row at most is uncommitted, and that checkpoints,
including the one being made, describe prefixes (`CheckpointsFit`). The step
that matters is `Commit` (`CommitFacts`, `InvCommit`): an inserted row has
number `n + 1`, so its `prev` is the head's hash, and appending it changes the
predecessor of no other row. From `LedgerInv` follow `AuditAlwaysPasses`,
`AcknowledgedRowsCommitted`, `WritersSerialised`, `ReceiptsAreStable` (new
checkpoints are larger than all before), `ShutdownCovers`, and the refinement
`LedgerImplementsLog`.

**SkiServiceProofs, the service.** Every step of the service is a ledger step or leaves the
ledger alone (`ServiceStepsLedger`), hence `ServiceImplementsLedger` and
`ServiceLedgerAudits`. `ServiceInv` adds that a request and its call move in
step (`LedgeringInStep`, `CallsInStep`), that every row is the one its request
drafted (`LinesInStep`), that evaluator and graph agree, that a request between
its scoping and its verdict has the present graph or is in `swapped`, which
stays empty without hot-load (`GraphFixed`). From it:
`VerdictsHaveOneRow`, `ProvenanceAlwaysMatches`, `AlwaysReplayable`, and
`ReplayableWithoutHotLoad` without the exception.

**V3EvaluatorProofs.** `EvaluatorInv` carries across the stages what a CLEAR
that survived parsing rests on (`ClearHasGrounds`), that every claim has an
outcome, and that the report is the verifier's over the slice. A breached
obligation is either probed, and then contradicts an unflagged verdict, or its
slice is indexed wrongly, and then fails closed
(`NoBreachBehindUnflagged`). From it: `BreachesAreNeverHidden`,
`ClearIsAlwaysEarned`, `FreshnessAlwaysWins`, `SilentKeysAreNeverClear`,
`LaxerTiersRestrictLess`.

**SkiStartupProofs.** `StartupInv` says what each stage rests on
(`StrictStages`), in which order dependencies are called (`StagesInOrder`),
and that between the question to the ledger and the generated key no signed
transcript appears (`KeysInOrder`). From it: `StrictAlwaysSovereign`,
`SignaturesAlwaysVerify`, `IdentityIsNeverSilent`.

**KGPipelineProofs.** `RunsWhatWasSigned` says nothing of the file on disk.
`SignatureWasMade` adds that the signature block in it, if there is one, was
made by somebody, although perhaps over another content: edits keep the block
and change the content. A file the loader accepts has an anchored key's block
over its present content (`AcceptedWasSigned`), hence
`RuntimeRunsWhatWasSigned`. `QualitativeAlwaysAtTierOne` goes through the
graph operators: in a graph that passes the strict validation every rule that
owns an obligation without a check function is of tier high, so the obligation
is compiled to high, or to no tier when nothing owns it (`QualitativeIsHigh`);
the governor takes both for tier 1 (`CanonicalFacts`, from `NamesAssumption`:
the names of the tiers are in lower case), and tier 1 is the least of a slice
(`MinIsOne`). `ValidatedInv` adds that what passed is without an under-tiered
rule and that the runtime's rules are compiled from the content it loaded.

`AlwaysAppliesWhereWritten` compares two readings of the jurisdictions: the
runtime goes down from the scopes of an obligation (`WithDescendants`), the
property goes up from the measurement's place (`Ancestors`). Both are least
closed sets, not walks, and separate the same pairs (`BelowIffOnTheWayUp`: the
complement of what lies below a root is closed upwards), whatever cycles,
broken parents or shared obligations the graph has.

`ConversionAlwaysKeepsRules` rests on `FlatInv`, by which a file of flat shape
is a flat document, and goes rule by rule (`FlatRuleInSlice`): `RuleId` is
injective and the compilation refuses a document with an id used twice, so every
obligation has one owner, and with it the tier (`FlatTier`, over all aliases),
the place (`FlatPlace`) and the subjects (`FlatSpoken`) of its flat rule.

`ExtractionIsAlwaysWhole` rests on `ExtractedInv`, by which an unedited extracted
file is what the emitter made of the answers it came from. Of the rules with one
triple the first in the document's order survives (`OneRulePerTriple`), so rules
and triples are equally many; with unique ids so are rules and obligations
(`ObligationPerRule`). Where the model gave no ids, the positions make them
unique (`UnnamedAreDistinct`), the first part of an id tells its array
(`EmittedUnique`, `KindOfId`), and the graph validates (`EmittedIsClean`).

**ReceiptsProofs.** Both properties speak of finished answers only.
`ReceiptsInv` adds that a row holds what was written or what its owner put there
under the same number, with its own hash or that of any entry (`LedgerOK`), that while nobody rewrites
rows a checkpoint has the root of the prefix as written (`CheckpointsOK`), that
between its reads a request holds a row of the ledger and, once it has picked a
tree, the size of a checkpoint that covers the row (`RequestOK`), and that an
answer is made of one row, one tree and one key (`AnswerOK`). The rest is about
`Merkle`. `WalkIsSound`: what walks up to the root of a tree, by any index, size
and path, is the hash of one of its leaves; by induction along the path, as
digests are free terms. `WalkIsComplete`: the proof `inclusion_proof` makes of any leaf
walks up to the root, in trees of every size; by strong induction on the size,
with the levels of the two halves told apart by powers of two (`SplitFacts`,
`LevelFacts`, `AbsorbLeft`, `AbsorbRight`). The inductions are over sets of
numbers (`NatSetInduction`, `NatSetStrongInduction`), and that the recursive
functions satisfy their equations is proved for each (`TwoToDef`, `WalkDef`,
`SubtreeRootsDef`, `AuditPathsDef`, `LowestBitDef`). Hence `AnswersAlwaysVerify`
and `AcceptedIsAlwaysOriginal`, for ledgers of any length: the leaf is the hash
of a covered entry, and a statement with that hash as its own is that entry, as
digests of different entries differ.

**ClientPathProofs.** Neither `OutcomeTellsLedger` nor `MonitorMatchesLedger`
is inductive: a client's outcome says nothing of a request that is still being
served, and the monitor nothing of a row whose answer is not yet sent.
`ClientInv` adds that the two sides of a call move in step (`SidesInStep`: no
code without an answer, and the outcome follows from the code), that a row is
what its request was when it committed and that no request has two
(`RowsInStep`), and that whatever is being served is of the running process
(`RequestsOfEpoch`). The step that matters is `Finish`: the monitor's `record`
and the 200 happen together, so a full window drops its oldest status while
the rows keep theirs (`CountAppend`, `CountTail`, `RecordFacts`), and an
unhealthy window contains a status that some row of this process shows
(`HealthFollows`). Hence `OutcomesTellLedger`, `TripAlwaysStops`,
`MonitorAlwaysMatches` and `PagesAlwaysAPrefix`, for any number of calls,
retries, restarts, page size, window and threshold.

**TelemetryReplayProofs.** A replay evaluates an entry against a buffer that
has changed since. `ReplayInv` says what may have changed: a row is of a request
that is past its write, and lies in a partition that still exists
(`RowsWritten`); of two records of an ordered subject the earlier was answered
before the later was received (`SentInOrder`). So a row that is added while a
request of an ordered subject is under way, or later, is above every record
evaluated before, and outside its window; and a dropped partition either misses
the window or makes it no longer retained. Therefore what an evaluation has
learnt is what the buffer would still say (`SettledCall`, `SettledEntry`). For a
window peak no order is needed: rows are only added to a retained window, and
one row above the limit is enough (`PeakCall`, `PeakEntry`). Hence
`OrderedAlwaysReplays` and `PeakBreachAlwaysSurvives`.

**LiveAuditProofs.** The properties speak of a finished verification only.
`AuditInv` has two layers. `TablesSound` holds whatever happens to the tables:
rows are numbered without a gap, hashed under their format, and committed by
the runtime or signed with the foreign key; and every checkpoint, stored,
exported or read, is over the rows it was signed for. It survives a restore
(the first rows of a gap-free ledger are one, `FirstRows`) and a rewrite
(`AddRow`). The second layer holds while nobody touched the tables: every row
and checkpoint is signed by a registered key, rows are linked, in order of time
unless the clock was set back, checkpoints describe prefixes (`RowsGenuine`,
`CheckpointsGenuine`), and what the tool holds between its reads is a prefix of
the present ledger with a ring that has its keys, and with no checkpoint beyond
it unless one was signed since (`ReadsGenuine`). From the first layer follow
`ValidAlwaysGenuine` (a pinned key is not the foreign one) and
`SealedAlwaysSurvive`: equal roots over two gap-free sets of rows mean equal
hashes, and so equal contents (`SameHashesSameContents`). The second gives
`AlarmsAlwaysExplained`. Only `SealedAlwaysSurvive` needs `CollisionFree`, its
hypothesis: two payloads with one hash are the same, and so are two lists of
hashes with one root. It is the usual idealisation of SHA-256 and RFC 6962, and
the operators TLC runs with satisfy it.

`ReplayInv` and `AuditInv` hold in every reachable state of the instances of
`replay_ordered` and `audit_live`, and `ReceiptsInv` in every one of the
instance of `receipts` with ledgers of up to three entries.

Only model-checked: `RequestsAnswered`, `TaskTerminates` and `EverybodyAnswered`.
Liveness under fairness is out of the prover's reach. Every invariant and every
action property of a passing run is a theorem.

## 5. Not modelled

* Canonical JSON and the CBOR bytes of COSE messages: character-level
  encodings; what is hashed or signed is a term here.
* RFC 3161 tokens: made and checked by an external library; the runtime's side
  (request, failure, retry) is in `SkiLedger`.
* `audit-ledger report` and the exports of entries and of OSCAL, metrics, health
  and status endpoints, the sidecar's heartbeat: they count or copy rows and
  change nothing.
* The SDK's `verify.py`: pure functions of one transcript or attestation.
* Documents, prompts and the division into chunks of the extractor; starting and
  stopping containers in the deployer.
* The v2 evaluator, which no v3 path calls, and the DDL of the migration.
* Conformance suite, evaluations, benchmarks, quickstart and Helm chart:
  harnesses and deployment.

## 6. Observations without a run

* A repeated record gets a second buffer row and a second ledger row. The
  comment in `buffer.py:103` leaves it to the entry hash, which covers the
  sequence number and so never repeats.
* Inputs are checked against the graph before the buffer `await`
  (`server.py:739`) and scoped after it; with hot-load these may differ.
* The egress guard is looked at on entry only (`server.py:717`): requests in
  flight go on to a verdict.
* The citation and contract returns of the evaluator (`evaluator.py:884`,
  `:929`) do not pass `apply_risk_policy`. The first is NULL_UNMAPPED also at
  tier 1, where `risk_tier.py:21` says that anything but AGREED is forced to
  DISCRETIONARY with human attestation. It reports a coverage gap, and
  `BreachNeverHidden` covers it too.
* A lost key over a ledger with clock-skew rows only is taken for a first
  boot, as these have no transcript.
* A crash between the private key and its `.pub` (`signing.py:168`, `:172`)
  leaves a key without a `.pub`, which no later start writes.
* The key file is opened with `O_TRUNC` and without `O_EXCL` after `exists()`.
* With a working buffer the current record is itself a fresh sample, so the
  freshness gate reports stale only when the buffer write failed.
* Two requests of the one worker read the same ledger head; the loser's verdict
  is lost with a 500. `docs/CONCURRENCY.md:18` says "We instead serialise
  writes in a single worker". `LedgerInv` and `ImplementsLog` hold all the same.
* `_maybe_checkpoint` does nothing while a task runs, and nothing looks again
  when it ends (`server.py:909-912`): an entry acknowledged after the task's
  read stays uncovered until the next request or shutdown.
* A hot-load during the model's `await` records the verdict under the new graph
  (`server.py:866`), against `docs/CONCURRENCY.md:22-23`. `Replayable` excepts
  these requests and no others.
* A citation that is not an object raises (`evaluator.py:824`) before the guard
  that says "A misbehaving model must NEVER crash the evaluator"
  (`evaluator.py:895-896`).
* Rows committed after an evaluation but at or before its timestamp are in the
  replay's window (`buffer.py:186`), so a `verdict_divergence` need not mean what
  `docs/replay.md:85` says. `OrderedReplays` has the producers for which it does.
* `verify_integrity` calls an empty ledger valid before it looks at any
  checkpoint or exported file, hence the premise of `SealedEntriesSurvive`.
* A checkpoint inserted between the reads of the auditor's tool is reported as
  CHECKPOINT_BEYOND_LEDGER, and a clock that was set back as TIMESTAMP_ORDER, on
  a ledger nobody touched.
* The entry hash does not cover the key of the verdict signature: a row may be
  re-signed with another pinned key unnoticed. Its content may not.
* Index and tree size of a receipt are not authenticated; the root is.
  `verify_transparent_statement` says it raises ReceiptError on any failure; a
  malformed receipt raises CborError.
* Graph version and image in a TRACE record are those of the process that
  answers, not of the one that reached the verdict.
* In the audit tool's `cli.py` the `if __name__` block comes before the
  `export-oscal` and checkpoint commands, which `python -m` then does not know.
* `total` of `/api/verdicts` counts the verdicts of the process, not of the ledger.
* The sidecar notes the time of its last record before it is forwarded, and its
  `tel_n` ids start again at a restart. `scripts/test-verdict.py` posts
  `telemetry_id` as well.
* The validator's check for an id used in two arrays can never fire
  (`validator.py:131-147`), while `compile_graph` refuses such a graph. An empty
  graph validates clean and is refused by the runtime.
* `agreement_monitor.py:3-5` says a status is recorded "Every time the runtime
  produces a `V3VerdictEnvelope`". The clock-skew guard makes an envelope and
  ledgers it (`server.py:782-804`) without recording it. `MonitorMatchesLedger`
  asks that every answered evaluation is recorded and nothing without an answered
  row; it leaves open whether the guard's envelopes are.
* An obligation that no rule consists of is "unreachable from the runtime"
  according to the validator (`validator.py:257-258`), with severity MEDIUM.
  `compile_graph` keeps it for every subject, as `kg_graph.py:27-31` says, and
  without a tier, which the governor takes for tier 1. `AppliesWhereWritten` speaks of obligations that a
  rule owns.
* `evidence.py:32` says of a statement's columns "with entry_hash, which binds
  them". Neither `ledger_evidence` nor `verify_transparent_statement` computes
  the hash again: a row whose verdict or envelope was altered, with its
  `entry_hash` left alone, gets a signed statement and a receipt that verify
  against a checkpoint sealed before. What such a receipt proves is that the hash
  is in the ledger, not, as `docs/standards.md:14` has it, the verdict; a relying
  party has to recompute the hash, as `audit-ledger verify` does.
  `AcceptedIsOriginal` says what holds without and with that step.
* A flat rule for "global" and "EU" is narrowed to EU by the conversion.
* An obligation shared by a rule of tier low and one without a tier is low.
* A date-time without an offset raises TypeError when compared; an unparsable
  date means no date.
* `chunk_text` moves backwards when the overlap exceeds half the chunk, which the
  defaults do not.

## 7. Plan

Done: ledger, auditor and abstract log; service; evaluator and verifier;
start-up and keys; buffer and replay; the audit of a live ledger; evidence and
receipts; clients, backends and monitor; the graph pipeline. Proofs of the safety
properties of all of them.

Next: the replay tool's checks of transcript, key, graph and prompt, composed with
hot-load and key rotation.
