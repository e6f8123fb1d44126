------------------------------ MODULE LiveAudit ------------------------------
(***************************************************************************)
(* The auditor's tool on a ledger that is in use, and on one that was      *)
(* restored from a backup or rewritten in place.                           *)
(*                                                                         *)
(* audit-ledger verify reads the entries, the key table and the            *)
(* checkpoints in three statements, each with its own snapshot, while the  *)
(* runtime appends, checkpoints, restarts with a new key and reads a wall  *)
(* clock that may step back.  A signature is the pair of its key and its   *)
(* message; whoever rewrites the table can sign with the key Foreign only. *)
(*                                                                         *)
(* Appending and checkpointing are one step each: SkiLedger shows that     *)
(* their transactions can be seen so.                                      *)
(***************************************************************************)
EXTENDS AuditLedger

CONSTANTS
  Keys,      \* the keys the runtime may sign with
  Foreign,   \* a key the runtime never held
  Pins,      \* --trusted-key-id; {} when nothing is pinned
  MaxRows,   \* bound on the length of the ledger
  MaxTime    \* bound on the wall clock

ASSUME AuditAssumption ==
  /\ Foreign \notin Keys \cup Pins
  /\ MaxRows \in Nat /\ MaxTime \in Nat

VARIABLES
  rows,         \* ledger_entries
  keyTable,     \* ledger_signing_keys
  checkpoints,  \* ledger_checkpoints
  files,        \* checkpoint files on write-once storage
  signer,       \* the key of the running process
  session,      \* what the tool has read so far
  written,      \* history: every row the runtime ever committed
  faults        \* history: what has happened to the tables and to the clock

ledgerVars == <<rows, keyTable, checkpoints>>
vars == <<ledgerVars, files, signer, session, written, faults>>

----------------------------------------------------------------------------
(* Signed rows and checkpoints.                                            *)

Signature(key, message) == [by |-> key, over |-> message]

\* verdict_signing_bytes; telemetry and transcript id are part of the body.
VerdictMessage(seq, hash, body) == <<seq, hash, body>>

SignedRow(prev, ts, body, fmt, key) ==
  LET row == EntryRow(prev.seq + 1, prev.hash, ts, body, fmt) IN
  [seq |-> row.seq, prev |-> row.prev, ts |-> row.ts, body |-> row.body,
   fmt |-> row.fmt, hash |-> row.hash, key |-> key,
   sig |-> Signature(key, VerdictMessage(row.seq, row.hash, body))]

\* covers is history: the rows that were read when the checkpoint was signed.
SignedCheckpoint(covered, key) ==
  LET root == Root(HashList(covered))
      last == HeadOf(covered)
  IN  [size |-> last.seq, root |-> root, last |-> last.hash, key |-> key,
       sig |-> Signature(key, <<last.seq, root, last.hash>>), covers |-> covered]

----------------------------------------------------------------------------
(* What the tool finds.                                                    *)

\* KeyRing.get and signature_valid: a key outside the ring verifies nothing.
SignatureValid(ring, key, message, sig) ==
  key \in ring /\ sig = Signature(key, message)

\* Mutant: the pins are ignored.
IsTrustedUnpinned(key) == TRUE

\* KeyRing.is_trusted
IsTrusted(key) == Pins = {} \/ key \in Pins

VerdictSignatureValid(ring, r) ==
  SignatureValid(ring, r.key, VerdictMessage(r.seq, r.hash, r.body), r.sig)

\* verdict_signatures_verified counts these.
SignatureVerified(ring, r) ==
  EntryFormat(r) = 5 /\ VerdictSignatureValid(ring, r) /\ IsTrusted(r.key)

\* The CRITICAL issue types verify_integrity raises on the entries.
EntryIssues(entries, ring) ==
  {kind \in {"SEQUENCE_GAP", "HASH_MISMATCH", "ENTRY_HASH_MISMATCH",
             "FORMAT_DOWNGRADE", "VERDICT_SIGNATURE_INVALID",
             "UNTRUSTED_SIGNING_KEY", "TIMESTAMP_ORDER"} :
     CASE kind = "SEQUENCE_GAP" -> ~SequenceContinuity(entries)
       [] kind = "HASH_MISMATCH" -> ~ChainLinkage(entries)
       [] kind = "ENTRY_HASH_MISMATCH" -> ~HashRecomputation(entries)
       [] kind = "FORMAT_DOWNGRADE" -> ~NoFormatDowngrade(entries)
       [] kind = "VERDICT_SIGNATURE_INVALID" ->
            \E r \in entries : EntryFormat(r) = 5 /\ ~VerdictSignatureValid(ring, r)
       [] kind = "UNTRUSTED_SIGNING_KEY" ->
            \E r \in entries : /\ EntryFormat(r) = 5 /\ VerdictSignatureValid(ring, r)
                               /\ ~IsTrusted(r.key)
       [] kind = "TIMESTAMP_ORDER" -> ~TimestampOrdering(entries)}

\* Mutant: the root is compared with that of all entries, not of the covered.
CheckOneUnsliced(c, entries, ring) ==
  IF ~SignatureValid(ring, c.key, <<c.size, c.root, c.last>>, c.sig)
    THEN "CHECKPOINT_SIGNATURE_INVALID"
  ELSE IF ~IsTrusted(c.key) THEN "UNTRUSTED_SIGNING_KEY"
  ELSE IF c.size > Cardinality(entries) THEN "CHECKPOINT_BEYOND_LEDGER"
  ELSE IF c.root # Root(HashList(entries)) THEN "CHECKPOINT_MISMATCH"
  ELSE "OK"

\* Mutant: a checkpoint beyond the entries is not looked at.
CheckOneUnbounded(c, entries, ring) ==
  IF ~SignatureValid(ring, c.key, <<c.size, c.root, c.last>>, c.sig)
    THEN "CHECKPOINT_SIGNATURE_INVALID"
  ELSE IF ~IsTrusted(c.key) THEN "UNTRUSTED_SIGNING_KEY"
  ELSE IF c.size <= Cardinality(entries) /\ ~CheckpointMatches(entries, c)
    THEN "CHECKPOINT_MISMATCH"
  ELSE "OK"

\* _check_one: the first check that fails decides.
CheckOne(c, entries, ring) ==
  IF ~SignatureValid(ring, c.key, <<c.size, c.root, c.last>>, c.sig)
    THEN "CHECKPOINT_SIGNATURE_INVALID"
  ELSE IF ~IsTrusted(c.key) THEN "UNTRUSTED_SIGNING_KEY"
  ELSE IF c.size > Cardinality(entries) THEN "CHECKPOINT_BEYOND_LEDGER"
  ELSE IF ~CheckpointMatches(entries, c) THEN "CHECKPOINT_MISMATCH"
  ELSE "OK"

\* verify_checkpoints: the rows of the ledger under the ring, the files each
\* under the key the file itself carries.
CheckpointIssues(stored, exported, entries, ring) ==
  ({CheckOne(c, entries, ring) : c \in stored}
     \cup {CheckOne(f, entries, {f.key}) : f \in exported}) \ {"OK"}

----------------------------------------------------------------------------
(* The runtime.                                                            *)

Idle == [pc |-> "idle", entries |-> {}, ring |-> {}, files |-> {},
         issues |-> {}, moved |-> FALSE]

Init ==
  /\ signer \in Keys /\ keyTable = {signer}
  /\ rows = {} /\ checkpoints = {} /\ files = {} /\ written = {} /\ faults = {}
  /\ session = Idle

\* history: a checkpoint was added while the tool was between two reads.
Moved == IF session.pc \in {"rows", "ring"} THEN [session EXCEPT !.moved = TRUE]
         ELSE session

\* The entry carries the time the wall clock shows; a time before that of the
\* head means that the clock was set back.
Append(body, now) ==
  /\ Cardinality(rows) < MaxRows
  /\ LET row == SignedRow(HeadOf(rows), now, body, 5, signer) IN
     /\ rows' = rows \cup {row}
     /\ written' = written \cup {row}
  /\ faults' = IF now < HeadOf(rows).ts THEN faults \cup {"clock"} ELSE faults
  /\ UNCHANGED <<keyTable, checkpoints, files, signer, session>>

\* ON CONFLICT (tenant_id, tree_size) DO NOTHING cannot happen: nothing is
\* inserted unless more than the covered entries were read.
Checkpoint ==
  /\ rows # {} /\ HeadOf(rows).seq > CoveredBy(checkpoints)
  /\ checkpoints' = checkpoints \cup {SignedCheckpoint(rows, signer)}
  /\ session' = Moved
  /\ UNCHANGED <<rows, keyTable, files, signer, written, faults>>

\* A restart with a new key registers it before anything is signed.
Restart(key) ==
  /\ key \notin keyTable
  /\ signer' = key /\ keyTable' = keyTable \cup {key}
  /\ UNCHANGED <<rows, checkpoints, files, session, written, faults>>

----------------------------------------------------------------------------
(* The operator's tools: backups, exports, and what may happen to tables.  *)

\* backup_database and pg_restore (one such fault in a behaviour): pg_dump
\* reads one snapshot of all tables, so a dump is the ledger as it was at
\* length n with m of its entries covered.  The runtime is stopped, and
\* registers its key when it starts again.
RestoreBackup(n, m) ==
  /\ session.pc = "idle" /\ faults \cap {"restored", "rewritten"} = {}
  /\ m <= n /\ n < Cardinality(rows)
  /\ rows' = UpTo(rows, n)
  /\ checkpoints' = {c \in checkpoints : c.size <= m}
  /\ keyTable' = {r.key : r \in rows'} \cup {c.key : c \in checkpoints'} \cup {signer}
  /\ faults' = faults \cup {"restored"}
  /\ UNCHANGED <<files, signer, session, written>>

\* A fault of the database: its owner replaces the entries from sequence
\* number i on by one of another body, in format fmt and signed with the
\* foreign key, and the checkpoints over them by none or by one of that key.
\* Repeated at the end of the ledger it replaces any number of them.
Rewrite(i, body, fmt, resign) ==
  /\ session.pc = "idle" /\ "restored" \notin faults
  /\ IF "rewritten" \in faults THEN i = Cardinality(rows) + 1 ELSE i <= Cardinality(rows)
  /\ LET kept == UpTo(rows, i - 1)
         altered == kept \cup {SignedRow(HeadOf(kept), HeadOf(kept).ts, body, fmt, Foreign)}
     IN  /\ rows' = altered
         /\ checkpoints' = {c \in checkpoints : c.size < i} \cup
              (IF resign THEN {SignedCheckpoint(altered, Foreign)} ELSE {})
  /\ keyTable' = keyTable \cup {Foreign}
  /\ faults' = faults \cup {"rewritten"}
  /\ UNCHANGED <<files, signer, session, written>>

\* export_checkpoints: an existing file is never overwritten.
ExportCheckpoints ==
  /\ files' = files \cup {c \in checkpoints : \A f \in files : f.size # c.size}
  /\ UNCHANGED <<ledgerVars, signer, session, written, faults>>

----------------------------------------------------------------------------
(* audit-ledger verify.                                                    *)

\* SELECT ... FROM ledger_entries; the files are given on the command line.
ReadEntries ==
  /\ session.pc = "idle"
  /\ session' = [Idle EXCEPT !.pc = "rows", !.entries = rows, !.files = files]
  /\ UNCHANGED <<ledgerVars, files, signer, written, faults>>

\* KeyRing.load.  An empty ledger is valid at once, whatever else was given.
ReadKeys ==
  /\ session.pc = "rows"
  /\ session' = [session EXCEPT !.pc = IF session.entries = {} THEN "done" ELSE "ring",
                                !.ring = keyTable]
  /\ UNCHANGED <<ledgerVars, files, signer, written, faults>>

\* The entries are checked, then the checkpoints are read and checked.
ReadCheckpoints ==
  /\ session.pc = "ring"
  /\ session' = [session EXCEPT !.pc = "done",
       !.issues = EntryIssues(session.entries, session.ring) \cup
                  CheckpointIssues(checkpoints, session.files, session.entries, session.ring)]
  /\ UNCHANGED <<ledgerVars, files, signer, written, faults>>

Next ==
  \/ \E body \in Body, now \in 0..MaxTime : Append(body, now)
  \/ Checkpoint
  \/ \E key \in Keys : Restart(key)
  \/ \E n, m \in 0..MaxRows : RestoreBackup(n, m)
  \/ \E i \in 1..MaxRows, body \in Body, fmt \in Formats, resign \in BOOLEAN :
       Rewrite(i, body, fmt, resign)
  \/ ExportCheckpoints
  \/ ReadEntries
  \/ ReadKeys
  \/ ReadCheckpoints

Spec == Init /\ [][Next]_vars

----------------------------------------------------------------------------
(* Properties.                                                             *)

\* VerificationResult.is_valid of a finished verification.
Passed == session.pc = "done" /\ session.issues = {}

\* verify_integrity with pinned keys: if it passes and reports a verified
\* signature for every entry, then every entry it read is one the runtime
\* committed, at that place of the ledger and after those entries.  No
\* restore, rewrite, key change or concurrent append can make it pass on
\* anything else.
ValidIsGenuine ==
  Passed /\ Pins # {} /\ (\A r \in session.entries : SignatureVerified(session.ring, r))
    => /\ session.entries \subseteq written
       /\ \A r \in session.entries :
            r.seq > 1 => \E s \in session.entries : s.seq = r.seq - 1 /\ r.prev = s.hash

\* What the entry hash commits to; the key that signed the row is not in it.
Contents(entries) == {<<r.seq, r.ts, r.body, r.prev>> : r \in entries}

\* verify_integrity with exported checkpoint files: if it passes on a ledger
\* that still has entries, every entry that was there when an exported
\* checkpoint was signed is still there, unchanged: a restored backup or a
\* rewrite that lost one is found although the checkpoint rows went with it.
SealedEntriesSurvive ==
  Passed /\ session.entries # {}
    => \A f \in session.files : Contents(f.covers) \subseteq Contents(session.entries)

\* verify_integrity on a ledger nobody touched: the only alarms are a time
\* stamp order the clock of the runtime is to blame for, and a checkpoint that
\* was signed while the tool was between its reads.  An audit of a ledger at
\* rest passes.
AlarmsExplained ==
  session.pc = "done" /\ faults \cap {"restored", "rewritten"} = {} /\ Pins \in {{}, Keys}
    => \A issue \in session.issues :
         \/ issue = "TIMESTAMP_ORDER" /\ "clock" \in faults
         \/ /\ issue \in {"CHECKPOINT_BEYOND_LEDGER", "CHECKPOINT_SIGNATURE_INVALID"}
            /\ session.moved
=============================================================================
