----------------------------- MODULE AuditLedger -----------------------------
(***************************************************************************)
(* The auditor's side: audit_ledger.Ledger.verify_integrity and            *)
(* verify_checkpoints, as predicates over the stored rows.  Each conjunct  *)
(* of VerifyIntegrity is one of the CRITICAL issue types of the tool;      *)
(* signatures and the key ring are left to the key-lifecycle model.        *)
(***************************************************************************)
EXTENDS LedgerFormat

\* The row the loop visited before r: prev_hash, prev_timestamp and
\* expected_seq are its hash, its timestamp and its sequence number plus one.
Previous(rows, r) == HeadOf({s \in rows : s.seq < r.seq})

\* SEQUENCE_GAP
SequenceContinuity(rows) == \A r \in rows : r.seq = Previous(rows, r).seq + 1

\* HASH_MISMATCH
ChainLinkage(rows) == \A r \in rows : r.prev = Previous(rows, r).hash

\* The format under which the stored hash recomputes, 0 if under none.
EntryFormat(r) ==
  IF r.fmt = 5 /\ r.hash = EntryHash(r.seq, r.prev, r.ts, r.body, 5) THEN 5
  ELSE IF r.hash = EntryHash(r.seq, r.prev, r.ts, r.body, 4) THEN 4
  ELSE 0

\* ENTRY_HASH_MISMATCH
HashRecomputation(rows) == \A r \in rows : EntryFormat(r) # 0

\* FORMAT_DOWNGRADE: max_format is the highest format verified so far.
NoFormatDowngrade(rows) ==
  \A r, s \in rows :
    r.seq < s.seq /\ EntryFormat(s) # 0 => EntryFormat(r) <= EntryFormat(s)

\* TIMESTAMP_ORDER
TimestampOrdering(rows) == \A r \in rows : Previous(rows, r).ts <= r.ts

\* CHECKPOINT_BEYOND_LEDGER and CHECKPOINT_MISMATCH.  The tool slices the
\* first tree_size hashes by position; a position is a sequence number in
\* every ledger that passes SequenceContinuity.
CheckpointMatches(rows, c) ==
  /\ c.size <= Cardinality(rows)
  /\ c.root = Root(HashList(UpTo(rows, c.size)))
  /\ c.last = HeadOf(UpTo(rows, c.size)).hash

VerifyCheckpoints(rows, cps) == \A c \in cps : CheckpointMatches(rows, c)

\* VerificationResult.is_valid
VerifyIntegrity(rows, cps) ==
  /\ SequenceContinuity(rows)
  /\ ChainLinkage(rows)
  /\ HashRecomputation(rows)
  /\ NoFormatDowngrade(rows)
  /\ TimestampOrdering(rows)
  /\ VerifyCheckpoints(rows, cps)

\* Mutant: a checkpoint with a time-stamp is preferred.
EvidenceTreeSizeStamped(cps, seq) ==
  LET covering == {d \in cps : d.size >= seq}
      stamped == {d \in covering : d.stamped}
      sizes == {d.size : d \in IF stamped = {} THEN covering ELSE stamped}
  IN  IF sizes = {} THEN 0 ELSE CHOOSE n \in sizes : \A m \in sizes : n <= m

\* LedgerClient.evidence: the checkpoint a receipt is built on, by tree size;
\* 0 when no checkpoint covers the entry yet.
EvidenceTreeSize(cps, seq) ==
  LET covering == {c.size : c \in {d \in cps : d.size >= seq}} IN
  IF covering = {} THEN 0
  ELSE CHOOSE n \in covering : \A m \in covering : n <= m
=============================================================================
