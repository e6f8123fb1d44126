------------------------------ MODULE SkiLedger ------------------------------
(***************************************************************************)
(* The ledger writer of the SKI Model service: LedgerClient.append_v3, the *)
(* background checkpoint task and the parts of the process lifecycle that  *)
(* touch the ledger.                                                       *)
(*                                                                         *)
(* The service is one asyncio process without locks, so every await is a   *)
(* point where another request may run.  One action is the code between    *)
(* two awaits.  PostgreSQL is external: READ COMMITTED, a uniqueness       *)
(* constraint that blocks on an uncommitted duplicate and fails on a       *)
(* committed one, and append-only tables.                                  *)
(***************************************************************************)
EXTENDS AuditLedger

CONSTANTS
  Writers,          \* calls of append_v3; each is made at most once
  CheckpointEvery,  \* SKI_LEDGER_CHECKPOINT_EVERY, 0 = off
  TSA,              \* a time-stamp authority is configured
  MaxTime           \* bound on the wall clock

ASSUME CheckpointAssumption == CheckpointEvery \in Nat /\ TSA \in BOOLEAN
ASSUME TimeAssumption == MaxTime \in Nat

VARIABLES
  table,        \* committed rows of ledger_entries
  pc,           \* pc[w]: where call w of append_v3 is
  args,         \* args[w]: the body it was called with
  draft,        \* draft[w]: the row its transaction built
  now,          \* the wall clock when it was last read
  checkpoints,  \* committed rows of ledger_checkpoints
  task,         \* state.checkpoint_task, or the final _checkpoint() of lifespan
  proc,         \* the process
  schema5,      \* migration 0003 has been applied to the database
  format5       \* LedgerClient.format5 of the running process

ledgerVars == <<table, pc, args, draft, now, checkpoints, task, proc, schema5, format5>>

-----------------------------------------------------------------------------
Pcs == {"idle", "begin", "head", "inserted", "committed", "ok", "error"}

\* Calls whose transaction or whose continuation the process still holds.
InFlight(w) == pc[w] \in {"begin", "head", "inserted", "committed"}

NoTask == [pc |-> "none", size |-> 0, root |-> Genesis, last |-> Genesis, tsa |-> FALSE]

TaskPcs == {"none", "count", "read", "stamp", "insert"}

LedgerHead == HeadOf(table)

Covered == CoveredBy(checkpoints)

LedgerInit ==
  /\ table = {}
  /\ pc = [w \in Writers |-> "idle"]
  /\ args = [w \in Writers |-> NoBody]
  /\ draft = [w \in Writers |-> GenesisRow]
  /\ now = 0
  /\ checkpoints = {}
  /\ task = NoTask
  /\ proc = "stopped"
  /\ schema5 \in BOOLEAN
  /\ format5 = FALSE

-----------------------------------------------------------------------------
\* append_v3 is called: the evidence is hashed and the session opened.
BeginAppend(w, b) ==
  /\ proc = "up"
  /\ pc[w] = "idle"
  /\ pc' = [pc EXCEPT ![w] = "begin"]
  /\ args' = [args EXCEPT ![w] = b]
  /\ UNCHANGED <<table, draft, now, checkpoints, task, proc, schema5, format5>>

\* The head SELECT returns; sequence number, previous hash, timestamp and
\* entry hash are computed before the INSERT is awaited.  The clock shows the
\* time of the last reading or a later one.
SelectHead(w) ==
  /\ pc[w] = "begin"
  /\ pc' = [pc EXCEPT ![w] = "head"]
  /\ now' \in now..MaxTime
  /\ draft' = [draft EXCEPT ![w] =
       EntryRow(LedgerHead.seq + 1, LedgerHead.hash, now', args[w], IF format5 THEN 5 ELSE 4)]
  /\ UNCHANGED <<table, args, checkpoints, task, proc, schema5, format5>>

\* UNIQUE (sequence_number) and UNIQUE (entry_hash)
Duplicates(r, s) == r.seq = s.seq \/ r.hash = s.hash

\* Mutant: uniqueness is checked against committed rows only.
InsertUnserialised(w) ==
  /\ pc[w] = "head"
  /\ \A r \in table : ~Duplicates(r, draft[w])
  /\ pc' = [pc EXCEPT ![w] = "inserted"]
  /\ UNCHANGED <<table, args, draft, now, checkpoints, task, proc, schema5, format5>>

\* The INSERT succeeds: no committed duplicate, and no other transaction
\* holds an uncommitted one (PostgreSQL would wait for it).
Insert(w) ==
  /\ pc[w] = "head"
  /\ \A r \in table : ~Duplicates(r, draft[w])
  /\ \A v \in Writers : pc[v] = "inserted" => ~Duplicates(draft[v], draft[w])
  /\ pc' = [pc EXCEPT ![w] = "inserted"]
  /\ UNCHANGED <<table, args, draft, now, checkpoints, task, proc, schema5, format5>>

\* The INSERT violates a uniqueness constraint: the transaction rolls back
\* with its row and the exception leaves append_v3.  Nothing retries it.
InsertConflict(w) ==
  /\ pc[w] = "head"
  /\ \E r \in table : Duplicates(r, draft[w])
  /\ pc' = [pc EXCEPT ![w] = "error"]
  /\ draft' = [draft EXCEPT ![w] = GenesisRow]
  /\ UNCHANGED <<table, args, now, checkpoints, task, proc, schema5, format5>>

\* session.begin() commits on exit; the row becomes visible.
Commit(w) ==
  /\ pc[w] = "inserted"
  /\ table' = table \cup {draft[w]}
  /\ pc' = [pc EXCEPT ![w] = "committed"]
  /\ UNCHANGED <<args, draft, now, checkpoints, task, proc, schema5, format5>>

\* _maybe_checkpoint: start the background task unless one is running.
MaybeCheckpoint ==
  task' = IF format5 /\ CheckpointEvery > 0 /\ task.pc = "none"
          THEN [NoTask EXCEPT !.pc = "count"]
          ELSE task

\* append_v3 returns to the handler, which calls _maybe_checkpoint.
AppendReturns(w) ==
  /\ pc[w] = "committed"
  /\ pc' = [pc EXCEPT ![w] = "ok"]
  /\ MaybeCheckpoint
  /\ UNCHANGED <<table, args, draft, now, checkpoints, proc, schema5, format5>>

\* Mutant: a failed call is retried, also when it had committed.
AppendFailsRetried(w) ==
  /\ InFlight(w)
  /\ pc' = [pc EXCEPT ![w] = "begin"]
  /\ UNCHANGED <<table, args, draft, now, checkpoints, task, proc, schema5, format5>>

\* The database fails under the call: before the commit the transaction is
\* rolled back, after it the row stays although the caller sees an error.
AppendFails(w) ==
  /\ InFlight(w)
  /\ pc' = [pc EXCEPT ![w] = "error"]
  /\ draft' = [draft EXCEPT ![w] = IF pc[w] = "committed" THEN @ ELSE GenesisRow]
  /\ UNCHANGED <<table, args, now, checkpoints, task, proc, schema5, format5>>

-----------------------------------------------------------------------------
\* A task or final checkpoint ends; when it was the final one of lifespan
\* the process stops.
TaskEnds ==
  /\ task' = NoTask
  /\ proc' = IF proc = "stopping" THEN "stopped" ELSE proc

\* run(): entries_since_checkpoint() >= checkpoint_every
TaskCounts ==
  /\ task.pc = "count"
  /\ IF LedgerHead.seq - Covered >= CheckpointEvery
     THEN task' = [task EXCEPT !.pc = "read", !.tsa = TSA] /\ UNCHANGED proc
     ELSE TaskEnds
  /\ UNCHANGED <<table, pc, args, draft, now, checkpoints, schema5, format5>>

\* LedgerClient.checkpoint up to the time-stamp request or the INSERT.
TaskReads ==
  /\ task.pc = "read"
  /\ IF table = {} \/ Cardinality(table) <= Covered
     THEN TaskEnds
     ELSE /\ task' = [pc |-> IF task.tsa THEN "stamp" ELSE "insert",
                      size |-> Cardinality(table),
                      root |-> Root(HashList(table)),
                      last |-> LedgerHead.hash,
                      tsa |-> task.tsa]
          /\ UNCHANGED proc
  /\ UNCHANGED <<table, pc, args, draft, now, checkpoints, schema5, format5>>

\* The authority answers.
TaskStamped ==
  /\ task.pc = "stamp"
  /\ task' = [task EXCEPT !.pc = "insert"]
  /\ UNCHANGED <<table, pc, args, draft, now, checkpoints, proc, schema5, format5>>

\* Mutant: the retry asks the authority again.
TaskStampFailsForever ==
  /\ task.pc = "stamp"
  /\ task' = [task EXCEPT !.pc = "read"]
  /\ UNCHANGED <<table, pc, args, draft, now, checkpoints, proc, schema5, format5>>

\* TimestampError or httpx.HTTPError: _checkpoint retries without the
\* authority, reading the ledger again.
TaskStampFails ==
  /\ task.pc = "stamp"
  /\ task' = [task EXCEPT !.pc = "read", !.tsa = FALSE]
  /\ UNCHANGED <<table, pc, args, draft, now, checkpoints, proc, schema5, format5>>

\* INSERT ... ON CONFLICT (tenant_id, tree_size) DO NOTHING, committed.
TaskInserts ==
  /\ task.pc = "insert"
  /\ checkpoints' =
       IF \E c \in checkpoints : c.size = task.size THEN checkpoints
       ELSE checkpoints \cup {CheckpointRow(task.size, task.root, task.last, task.tsa)}
  /\ TaskEnds
  /\ UNCHANGED <<table, pc, args, draft, now, schema5, format5>>

\* Any other exception: logged by _checkpoint, or the end of run().
TaskFails ==
  /\ task.pc # "none"
  /\ TaskEnds
  /\ UNCHANGED <<table, pc, args, draft, now, checkpoints, schema5, format5>>

-----------------------------------------------------------------------------
\* Mutant: SKI_AUTOMIGRATE=false is looked at before the schema is.
StartUnmigrated ==
  /\ proc = "stopped"
  /\ schema5' \in IF schema5 THEN {TRUE} ELSE BOOLEAN
  /\ format5' \in {schema5', FALSE}
  /\ proc' = "up"
  /\ UNCHANGED <<table, pc, args, draft, now, checkpoints, task>>

\* lifespan up to yield, as far as the ledger is concerned:
\* ensure_v5_ledger_schema finds the schema, migrates it, or may not.
Start ==
  /\ proc = "stopped"
  /\ schema5' \in IF schema5 THEN {TRUE} ELSE BOOLEAN
  /\ format5' = schema5'
  /\ proc' = "up"
  /\ UNCHANGED <<table, pc, args, draft, now, checkpoints, task>>

\* The schema owner applies 0003 by hand; a running process keeps format 4.
OwnerMigrates ==
  /\ ~schema5
  /\ schema5' = TRUE
  /\ UNCHANGED <<table, pc, args, draft, now, checkpoints, task, proc, format5>>

\* Mutant: a checkpoint task that is running is taken for the last checkpoint.
ShutdownJoinsTask ==
  /\ proc = "up"
  /\ \A w \in Writers : ~InFlight(w)
  /\ IF format5 /\ CheckpointEvery > 0
     THEN /\ proc' = "stopping"
          /\ task' = IF task.pc = "none" THEN [NoTask EXCEPT !.pc = "read", !.tsa = TSA]
                     ELSE task
     ELSE proc' = "stopped" /\ UNCHANGED task
  /\ UNCHANGED <<table, pc, args, draft, now, checkpoints, schema5, format5>>

\* lifespan after yield: requests have drained, the running task is awaited,
\* then a last checkpoint covers the tail of the run.
Shutdown ==
  /\ proc = "up"
  /\ \A w \in Writers : ~InFlight(w)
  /\ task.pc = "none"
  /\ IF format5 /\ CheckpointEvery > 0
     THEN proc' = "stopping" /\ task' = [NoTask EXCEPT !.pc = "read", !.tsa = TSA]
     ELSE proc' = "stopped" /\ UNCHANGED task
  /\ UNCHANGED <<table, pc, args, draft, now, checkpoints, schema5, format5>>

\* The process dies: open transactions roll back, committed rows stay.
Crash ==
  /\ proc \in {"up", "stopping"}
  /\ proc' = "stopped"
  /\ pc' = [w \in Writers |-> IF InFlight(w) THEN "error" ELSE pc[w]]
  /\ task' = NoTask
  /\ draft' = [w \in Writers |->
                 IF InFlight(w) /\ pc[w] # "committed" THEN GenesisRow ELSE draft[w]]
  /\ UNCHANGED <<table, args, now, checkpoints, schema5, format5>>

-----------------------------------------------------------------------------
AppendStep(w) ==
  \/ SelectHead(w)
  \/ Insert(w)
  \/ InsertConflict(w)
  \/ Commit(w)
  \/ AppendReturns(w)

TaskStep == TaskCounts \/ TaskReads \/ TaskStamped \/ TaskInserts

LifecycleStep == Start \/ OwnerMigrates \/ Shutdown

FailureStep ==
  \/ \E w \in Writers : AppendFails(w)
  \/ TaskStampFails
  \/ TaskFails
  \/ Crash

ReliableNext ==
  \/ \E w \in Writers : AppendStep(w) \/ \E b \in Body : BeginAppend(w, b)
  \/ TaskStep
  \/ LifecycleStep

LedgerNext == ReliableNext \/ FailureStep

LedgerSpec == LedgerInit /\ [][LedgerNext]_ledgerVars

-----------------------------------------------------------------------------
\* Type correctness.  Hash values are opaque, so rows are typed by the
\* fields that are not hashes.
RowOK(r) == r.seq \in Nat /\ r.ts \in Nat /\ r.fmt \in Formats

TypeOK ==
  /\ \A r \in table : RowOK(r) /\ r.seq > 0 /\ r.body \in Body
  /\ pc \in [Writers -> Pcs]
  /\ args \in [Writers -> Body \cup {NoBody}]
  /\ DOMAIN draft = Writers
  /\ \A w \in Writers : RowOK(draft[w])
  /\ now \in Nat
  /\ \A c \in checkpoints : c.size \in Nat /\ c.stamped \in BOOLEAN
  /\ task = [pc |-> task.pc, size |-> task.size, root |-> task.root,
              last |-> task.last, tsa |-> task.tsa]
  /\ task.pc \in TaskPcs /\ task.size \in Nat /\ task.tsa \in BOOLEAN
  /\ proc \in {"up", "stopping", "stopped"}
  /\ schema5 \in BOOLEAN
  /\ format5 \in BOOLEAN

\* Whatever the interleaving of requests, checkpoints, database failures,
\* crashes and restarts, the ledger the runtime leaves behind passes the
\* auditor's verify_integrity at every moment.
AuditPasses == VerifyIntegrity(table, checkpoints)

\* append_v3 returns only when its own row is committed: every acknowledged
\* call has a row in the ledger, and no two of them share one.
AcknowledgedOnce ==
  \A v, w \in Writers :
    pc[v] \in {"committed", "ok"} /\ pc[w] \in {"committed", "ok"} =>
      /\ draft[v] \in table
      /\ draft[v].seq = draft[w].seq => v = w

\* At most one transaction holds an uncommitted row, and it extends the
\* committed head: the UNIQUE constraint serialises the writers.
OnePendingRow ==
  \A v, w \in Writers :
    pc[v] = "inserted" /\ pc[w] = "inserted" => v = w

\* The ledger as its callers see it: the bodies in sequence order, the
\* progress of each call, and the sizes of the checkpointed prefixes.
LogOf(rows) == [i \in 1..Cardinality(rows) |-> (CHOOSE r \in rows : r.seq = i).body]

StatusOf(p) ==
  CASE p = "idle" -> "new"
    [] p \in {"begin", "head", "inserted"} -> "pending"
    [] p = "committed" -> "written"
    [] p = "ok" -> "done"
    [] OTHER -> "failed"

Log == INSTANCE AppendOnlyLog WITH
  log <- LogOf(table),
  status <- [w \in Writers |-> StatusOf(pc[w])],
  asked <- args,
  seals <- {c.size : c \in checkpoints}

\* The writer implements the append-only log: committed rows and checkpoints
\* are never changed, every body is written once and in the order of the
\* commits, and checkpoints grow.
ImplementsLog == Log!Spec

\* A receipt, once it can be cut for an entry, is always cut from the same
\* checkpoint, whatever is appended and checkpointed later.
ReceiptStable ==
  [][\A r \in table : LET n == EvidenceTreeSize(checkpoints, r.seq) IN
       n # 0 => EvidenceTreeSize(checkpoints', r.seq) = n]_ledgerVars

\* "the latest checkpoint covering it" (docstring of LedgerClient.evidence): the
\* receipt of an entry is cut from the largest tree that was checkpointed, as
\* soon as there is one that holds the entry.
ReceiptFromLatest ==
  \A r \in table :
    Covered >= r.seq => EvidenceTreeSize(checkpoints, r.seq) = Covered

\* "cover the tail of this run": a shutdown whose final checkpoint did not
\* fail leaves no entry uncovered.
ShutdownCoversTail ==
  [][proc = "stopping" /\ proc' = "stopped" /\ (TaskReads \/ TaskInserts) =>
       CoveredBy(checkpoints') = HeadOf(table').seq]_ledgerVars

\* The background task ends, also when the authority keeps failing, so it
\* cannot block the checkpoints after it nor the shutdown that awaits it.
TaskTerminates == (task.pc # "none") ~> (task.pc = "none")

-----------------------------------------------------------------------------
\* The inductive invariant behind the properties above.

\* Sequence numbers are 1..n without duplicates.
RowsNumbered ==
  /\ IsFiniteSet(table)
  /\ {r.seq : r \in table} = 1..Cardinality(table)
  /\ \A r, s \in table : r.seq = s.seq => r = s

\* Every row is linked, in order, hashed as written and no older than the
\* clock; format 5 is never left once entered.
RowsChained ==
  \A r \in table :
    /\ r = EntryRow(r.seq, r.prev, r.ts, r.body, r.fmt)
    /\ r.prev = Previous(table, r).hash
    /\ Previous(table, r).ts <= r.ts
    /\ r.ts <= now
    /\ r.fmt = 5 => schema5 /\ (proc # "stopped" => format5)
    /\ \A s \in table : r.seq < s.seq => r.fmt <= s.fmt

FormatKnown == format5 => schema5

\* A prepared row continues a prefix of the ledger; if nobody has committed
\* since its head was read, it continues the whole ledger.
DraftsFit ==
  \A w \in Writers :
    /\ InFlight(w) => proc = "up" /\ args[w] \in Body
    /\ pc[w] \in {"head", "inserted"} =>
         /\ draft[w] = EntryRow(draft[w].seq, draft[w].prev, draft[w].ts,
                                args[w], IF format5 THEN 5 ELSE 4)
         /\ draft[w].seq \in 1..(Cardinality(table) + 1)
         /\ draft[w].ts <= now
         /\ draft[w].seq = Cardinality(table) + 1 =>
              draft[w].prev = LedgerHead.hash /\ LedgerHead.ts <= draft[w].ts
    /\ pc[w] = "inserted" => draft[w].seq = Cardinality(table) + 1

\* Checkpoints describe prefixes, the largest of them is known, and the one
\* being made is larger still; the last one of a run describes everything.
CheckpointsFit ==
  /\ \A c \in checkpoints : CheckpointMatches(table, c)
  /\ checkpoints # {} => \E c \in checkpoints : \A d \in checkpoints : d.size <= c.size
  /\ task.pc \in {"stamp", "insert"} =>
       /\ CheckpointMatches(table, task)
       /\ task.size > 0
       /\ \A c \in checkpoints : c.size < task.size
  /\ proc = "stopping" /\ task.pc \in {"stamp", "insert"} => task.size = Cardinality(table)

LedgerInv ==
  /\ TypeOK
  /\ RowsNumbered
  /\ RowsChained
  /\ FormatKnown
  /\ DraftsFit
  /\ OnePendingRow
  /\ AcknowledgedOnce
  /\ CheckpointsFit
=============================================================================
