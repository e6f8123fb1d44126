-------------------------- MODULE SkiServiceProofs --------------------------
(***************************************************************************)
(* Proofs about SkiLedger and SkiService.  First the ledger writer, for    *)
(* any number of calls, any bodies, any checkpoint interval and any hash:  *)
(* LedgerInv is inductive and implies what the model checker checks on a   *)
(* small instance.  Then the composition with the request path: every      *)
(* step of the service is a step of SkiLedger, so what is proved of the    *)
(* ledger holds of the service, and ServiceInv is inductive.               *)
(***************************************************************************)
EXTENDS SkiService, SequenceTheorems, FiniteSetTheorems, TLAPS

-----------------------------------------------------------------------------
\* What the operators on rows return.

\* In a gap-free table the head is the row with the highest number.
LEMMA HeadFacts ==
  ASSUME NEW rows, IsFiniteSet(rows), {r.seq : r \in rows} = 1..Cardinality(rows)
  PROVE  /\ Cardinality(rows) \in Nat
         /\ HeadOf(rows).seq = Cardinality(rows)
         /\ rows = {} => HeadOf(rows) = GenesisRow
         /\ rows # {} => HeadOf(rows) \in rows
<1>1. Cardinality(rows) \in Nat
  BY FS_CardinalityType
<1>2. CASE rows = {}
  BY <1>2, FS_EmptySet DEF HeadOf, GenesisRow
<1>3. CASE rows # {}
  <2>1. Cardinality(rows) \in 1..Cardinality(rows)
    BY <1>1, <1>3
  <2>2. PICK h \in rows : h.seq = Cardinality(rows)
    BY <2>1
  <2>3. \A s \in rows : s.seq \in 1..Cardinality(rows)
    OBVIOUS
  <2>4. \A s \in rows : s.seq <= h.seq
    BY <2>2, <2>3, <1>1
  <2>5. HeadOf(rows) \in rows /\ \A s \in rows : s.seq <= HeadOf(rows).seq
    BY <2>4, <1>3 DEF HeadOf
  <2>6. HeadOf(rows).seq = Cardinality(rows)
    BY <2>2, <2>3, <2>5, <1>1
  <2> QED BY <1>1, <1>3, <2>5, <2>6
<1> QED BY <1>2, <1>3

\* A later row does not change what precedes an earlier one.
LEMMA PreviousStable ==
  ASSUME NEW rows, NEW d, NEW r, ~(d.seq < r.seq)
  PROVE  Previous(rows \cup {d}, r) = Previous(rows, r)
<1>1. {s \in rows \cup {d} : s.seq < r.seq} = {s \in rows : s.seq < r.seq}
  OBVIOUS
<1> QED BY <1>1 DEF Previous

\* The old head precedes the new one.
LEMMA PreviousOfNew ==
  ASSUME NEW rows, NEW d, d.seq \in Nat, \A s \in rows : s.seq < d.seq
  PROVE  Previous(rows \cup {d}, d) = HeadOf(rows)
<1>1. {s \in rows \cup {d} : s.seq < d.seq} = rows
  OBVIOUS
<1> QED BY <1>1 DEF Previous

\* The row before row k + 1 of a gap-free table is row k.
LEMMA PreviousSeq ==
  ASSUME NEW rows, IsFiniteSet(rows), {r.seq : r \in rows} = 1..Cardinality(rows),
         NEW r \in rows
  PROVE  Previous(rows, r).seq + 1 = r.seq
<1> DEFINE before == {s \in rows : s.seq < r.seq}
<1>1. Cardinality(rows) \in Nat
  BY FS_CardinalityType
<1>2. \A s \in rows : s.seq \in 1..Cardinality(rows)
  OBVIOUS
<1>3. CASE r.seq = 1
  <2>1. before = {}
    BY <1>1, <1>2, <1>3
  <2> QED BY <2>1, <1>3 DEF Previous, HeadOf, GenesisRow
<1>4. CASE r.seq # 1
  <2>1. r.seq - 1 \in 1..Cardinality(rows)
    BY <1>1, <1>2, <1>4
  <2>2. PICK h \in rows : h.seq = r.seq - 1
    BY <2>1
  <2>3. h \in before /\ \A s \in before : s.seq <= h.seq
    BY <1>1, <1>2, <2>2
  <2>4. HeadOf(before) \in before /\ \A s \in before : s.seq <= HeadOf(before).seq
    BY <2>3 DEF HeadOf
  <2>5. HeadOf(before).seq = r.seq - 1
    BY <1>1, <1>2, <2>2, <2>3, <2>4
  <2> QED BY <2>5, <1>1, <1>2 DEF Previous
<1> QED BY <1>3, <1>4

\* A row hashed as it was written verifies under the format it was written in.
LEMMA FormatOf ==
  ASSUME NEW r, r = EntryRow(r.seq, r.prev, r.ts, r.body, r.fmt), r.fmt \in Formats
  PROVE  EntryFormat(r) = r.fmt
<1>1. r.hash = EntryHash(r.seq, r.prev, r.ts, r.body, r.fmt)
  <2>1. EntryRow(r.seq, r.prev, r.ts, r.body, r.fmt).hash
          = EntryHash(r.seq, r.prev, r.ts, r.body, r.fmt)
    BY DEF EntryRow
  <2> QED BY <2>1
<1>2. CASE r.fmt = 5
  BY <1>1, <1>2 DEF EntryFormat
<1>3. CASE r.fmt = 4
  BY <1>1, <1>3 DEF EntryFormat
<1> QED BY <1>2, <1>3 DEF Formats

-----------------------------------------------------------------------------
\* The invariant implies what the auditor checks.
LEMMA InvAudit == LedgerInv => AuditPasses
<1> SUFFICES ASSUME LedgerInv PROVE AuditPasses
  OBVIOUS
<1>1. SequenceContinuity(table)
  <2> SUFFICES ASSUME NEW r \in table PROVE r.seq = Previous(table, r).seq + 1
    BY DEF SequenceContinuity
  <2> QED BY PreviousSeq DEF LedgerInv, RowsNumbered
<1>2. ChainLinkage(table)
  BY DEF LedgerInv, RowsChained, ChainLinkage
<1>3. \A r \in table : EntryFormat(r) = r.fmt
  <2> SUFFICES ASSUME NEW r \in table PROVE EntryFormat(r) = r.fmt
    OBVIOUS
  <2>1. r = EntryRow(r.seq, r.prev, r.ts, r.body, r.fmt)
    BY DEF LedgerInv, RowsChained
  <2>2. r.fmt \in Formats
    BY DEF LedgerInv, TypeOK, RowOK
  <2> QED BY <2>1, <2>2, FormatOf
<1>4. HashRecomputation(table)
  BY <1>3 DEF HashRecomputation, LedgerInv, TypeOK, RowOK, Formats
<1>5. NoFormatDowngrade(table)
  BY <1>3 DEF NoFormatDowngrade, LedgerInv, RowsChained
<1>6. TimestampOrdering(table)
  BY DEF LedgerInv, RowsChained, TimestampOrdering
<1>7. VerifyCheckpoints(table, checkpoints)
  BY DEF LedgerInv, CheckpointsFit, VerifyCheckpoints
<1> QED BY <1>1, <1>2, <1>4, <1>5, <1>6, <1>7 DEF AuditPasses, VerifyIntegrity

-----------------------------------------------------------------------------
\* The invariant holds initially.
LEMMA InvInit == LedgerInit => LedgerInv
<1> SUFFICES ASSUME LedgerInit PROVE LedgerInv
  OBVIOUS
<1>1. TypeOK
  BY DEF LedgerInit, TypeOK, RowOK, GenesisRow, Formats, NoTask, TaskPcs, Pcs
<1>2. RowsNumbered
  BY FS_EmptySet DEF LedgerInit, RowsNumbered
<1>3. RowsChained /\ FormatKnown
  BY DEF LedgerInit, RowsChained, FormatKnown
<1>4. DraftsFit /\ OnePendingRow /\ AcknowledgedOnce
  BY DEF LedgerInit, DraftsFit, OnePendingRow, AcknowledgedOnce, InFlight
<1>5. CheckpointsFit
  BY DEF LedgerInit, CheckpointsFit, NoTask
<1> QED BY <1>1, <1>2, <1>3, <1>4, <1>5 DEF LedgerInv

\* A call begins: only its own progress changes.
LEMMA InvBeginAppend ==
  ASSUME LedgerInv, NEW w \in Writers, NEW b \in Body, BeginAppend(w, b)
  PROVE  LedgerInv'
<1>1. TypeOK'
  BY DEF LedgerInv, TypeOK, BeginAppend, Pcs, RowOK
<1>2. RowsNumbered' /\ RowsChained' /\ FormatKnown'
  BY DEF LedgerInv, RowsNumbered, RowsChained, FormatKnown, BeginAppend
<1>3. DraftsFit'
  BY DEF LedgerInv, TypeOK, DraftsFit, BeginAppend, InFlight, LedgerHead
<1>4. OnePendingRow' /\ AcknowledgedOnce'
  BY DEF LedgerInv, TypeOK, OnePendingRow, AcknowledgedOnce, BeginAppend
<1>5. CheckpointsFit'
  BY DEF LedgerInv, CheckpointsFit, BeginAppend
<1> QED BY <1>1, <1>2, <1>3, <1>4, <1>5 DEF LedgerInv

\* The head is read: the draft continues the ledger as it is now.
LEMMA InvSelectHead ==
  ASSUME LedgerInv, NEW w \in Writers, SelectHead(w)
  PROVE  LedgerInv'
<1> DEFINE fmt == IF format5 THEN 5 ELSE 4
           row == EntryRow(LedgerHead.seq + 1, LedgerHead.hash, now', args[w], fmt)
<1>0. /\ Cardinality(table) \in Nat
      /\ LedgerHead.seq = Cardinality(table)
      /\ table = {} => LedgerHead = GenesisRow
      /\ table # {} => LedgerHead \in table
  BY HeadFacts DEF LedgerInv, RowsNumbered, LedgerHead
<1>1. /\ LedgerHead.ts \in Nat /\ LedgerHead.ts <= now'
      /\ now \in Nat /\ now' \in Nat /\ now <= now'
  <2>1. LedgerHead.ts \in Nat /\ LedgerHead.ts <= now /\ now \in Nat
    BY <1>0 DEF LedgerInv, TypeOK, RowsChained, RowOK, GenesisRow
  <2>2. now' \in now..MaxTime
    BY DEF SelectHead
  <2> QED BY <2>1, <2>2, TimeAssumption
<1>2. /\ row.seq = Cardinality(table) + 1 /\ row.prev = LedgerHead.hash /\ row.ts = now'
      /\ row.fmt = fmt /\ row = EntryRow(row.seq, row.prev, row.ts, args[w], fmt)
  BY <1>0 DEF EntryRow
<1>3. /\ draft'[w] = row
      /\ \A v \in Writers : v # w => draft'[v] = draft[v] /\ pc'[v] = pc[v]
      /\ pc[w] = "begin" /\ pc'[w] = "head" /\ args' = args
      /\ DOMAIN draft' = Writers
  BY DEF LedgerInv, TypeOK, SelectHead
<1>4. TypeOK'
  <2>1. \A v \in Writers : RowOK(draft'[v])
    <3>1. RowOK(row)
      BY <1>0, <1>1, <1>2 DEF RowOK, Formats
    <3> QED BY <1>3, <3>1 DEF LedgerInv, TypeOK
  <2>2. pc' \in [Writers -> Pcs]
    BY DEF LedgerInv, TypeOK, SelectHead, Pcs
  <2> QED BY <1>1, <1>3, <2>1, <2>2 DEF LedgerInv, TypeOK, SelectHead, RowOK
<1>5. RowsNumbered' /\ RowsChained' /\ FormatKnown'
  BY <1>1 DEF LedgerInv, TypeOK, RowOK, RowsNumbered, RowsChained, FormatKnown, SelectHead
<1>6. DraftsFit'
  <2> SUFFICES ASSUME NEW v \in Writers
      PROVE  /\ InFlight(v)' => proc' = "up" /\ args'[v] \in Body
             /\ pc'[v] \in {"head", "inserted"} =>
                  /\ draft'[v] = EntryRow(draft'[v].seq, draft'[v].prev, draft'[v].ts,
                                          args'[v], IF format5' THEN 5 ELSE 4)
                  /\ draft'[v].seq \in 1..(Cardinality(table') + 1)
                  /\ draft'[v].ts <= now'
                  /\ draft'[v].seq = Cardinality(table') + 1 =>
                       draft'[v].prev = LedgerHead'.hash /\ LedgerHead'.ts <= draft'[v].ts
             /\ pc'[v] = "inserted" => draft'[v].seq = Cardinality(table') + 1
    BY DEF DraftsFit
  <2>1. table' = table /\ format5' = format5 /\ proc' = proc /\ LedgerHead' = LedgerHead
    BY DEF SelectHead, LedgerHead
  <2>2. CASE v = w
    BY <1>0, <1>1, <1>2, <1>3, <2>1, <2>2 DEF LedgerInv, DraftsFit, InFlight
  <2>3. CASE v # w
    BY <1>1, <1>3, <2>1, <2>3 DEF LedgerInv, TypeOK, RowOK, DraftsFit, InFlight
  <2> QED BY <2>2, <2>3
<1>7. OnePendingRow' /\ AcknowledgedOnce'
  BY <1>3 DEF LedgerInv, OnePendingRow, AcknowledgedOnce, SelectHead
<1>8. CheckpointsFit'
  BY DEF LedgerInv, CheckpointsFit, SelectHead
<1> QED BY <1>4, <1>5, <1>6, <1>7, <1>8 DEF LedgerInv

\* The INSERT went through: the draft continues the whole ledger, and no
\* other transaction holds a row.
LEMMA InvInsert ==
  ASSUME LedgerInv, NEW w \in Writers, Insert(w)
  PROVE  LedgerInv'
<1>1. draft[w].seq = Cardinality(table) + 1
  <2>1. draft[w].seq \in 1..(Cardinality(table) + 1)
    BY DEF LedgerInv, DraftsFit, Insert
  <2>2. Cardinality(table) \in Nat
    BY FS_CardinalityType DEF LedgerInv, RowsNumbered
  <2>3. draft[w].seq \notin {r.seq : r \in table}
    BY DEF Insert, Duplicates
  <2> QED BY <2>1, <2>2, <2>3 DEF LedgerInv, RowsNumbered
<1>2. \A v \in Writers : pc[v] # "inserted"
  BY <1>1 DEF LedgerInv, DraftsFit, Insert, Duplicates
<1>3. TypeOK'
  BY DEF LedgerInv, TypeOK, Insert, Pcs, RowOK
<1>4. RowsNumbered' /\ RowsChained' /\ FormatKnown'
  BY DEF LedgerInv, RowsNumbered, RowsChained, FormatKnown, Insert
<1>5. DraftsFit'
  BY <1>1 DEF LedgerInv, TypeOK, DraftsFit, Insert, InFlight, LedgerHead
<1>6. OnePendingRow' /\ AcknowledgedOnce'
  BY <1>2 DEF LedgerInv, TypeOK, OnePendingRow, AcknowledgedOnce, Insert
<1>7. CheckpointsFit'
  BY DEF LedgerInv, CheckpointsFit, Insert
<1> QED BY <1>3, <1>4, <1>5, <1>6, <1>7 DEF LedgerInv

\* A call fails: it holds no row any more, and what it committed stays.
LEMMA InvAppendEnds ==
  ASSUME LedgerInv, NEW w \in Writers, InsertConflict(w) \/ AppendFails(w)
  PROVE  LedgerInv'
<1>1. /\ pc' = [pc EXCEPT ![w] = "error"]
      /\ \A v \in Writers : v # w => draft'[v] = draft[v]
      /\ draft'[w] \in {draft[w], GenesisRow} /\ DOMAIN draft' = Writers
      /\ UNCHANGED <<table, args, now, checkpoints, task, proc, schema5, format5>>
  BY DEF InsertConflict, AppendFails, LedgerInv, TypeOK
<1>2. TypeOK'
  <2>1. \A v \in Writers : RowOK(draft'[v])
    BY <1>1 DEF LedgerInv, TypeOK, RowOK, GenesisRow, Formats
  <2> QED BY <1>1, <2>1 DEF LedgerInv, TypeOK, Pcs, RowOK
<1>3. RowsNumbered' /\ RowsChained' /\ FormatKnown'
  BY <1>1 DEF LedgerInv, RowsNumbered, RowsChained, FormatKnown
<1>4. DraftsFit'
  BY <1>1 DEF LedgerInv, TypeOK, DraftsFit, InFlight, LedgerHead
<1>5. OnePendingRow' /\ AcknowledgedOnce'
  BY <1>1 DEF LedgerInv, TypeOK, OnePendingRow, AcknowledgedOnce
<1>6. CheckpointsFit'
  BY <1>1 DEF LedgerInv, CheckpointsFit
<1> QED BY <1>2, <1>3, <1>4, <1>5, <1>6 DEF LedgerInv

\* What a commit adds: one row, numbered and linked after the old head.
LEMMA CommitFacts ==
  ASSUME LedgerInv, NEW w \in Writers, Commit(w)
  PROVE  /\ Cardinality(table) \in Nat /\ Cardinality(table') = Cardinality(table) + 1
         /\ draft[w].seq = Cardinality(table) + 1
         /\ draft[w] = EntryRow(draft[w].seq, draft[w].prev, draft[w].ts,
                                args[w], IF format5 THEN 5 ELSE 4)
         /\ draft[w].body = args[w] /\ draft[w].fmt = (IF format5 THEN 5 ELSE 4)
         /\ args[w] \in Body
         /\ \A r \in table : r.seq \in 1..Cardinality(table)
         /\ Previous(table', draft[w]) = LedgerHead
         /\ \A r \in table : Previous(table', r) = Previous(table, r)
         /\ RowsNumbered'
<1>1. Cardinality(table) \in Nat
  BY FS_CardinalityType DEF LedgerInv, RowsNumbered
<1>2. draft[w].seq = Cardinality(table) + 1 /\ args[w] \in Body
  BY DEF LedgerInv, DraftsFit, Commit, InFlight
<1>3. draft[w] = EntryRow(draft[w].seq, draft[w].prev, draft[w].ts,
                          args[w], IF format5 THEN 5 ELSE 4)
  BY DEF LedgerInv, DraftsFit, Commit
<1>4. draft[w].body = args[w] /\ draft[w].fmt = (IF format5 THEN 5 ELSE 4)
  <2> DEFINE f == IF format5 THEN 5 ELSE 4
  <2>1. \A x, y, z, u, v : EntryRow(x, y, z, u, v).body = u /\ EntryRow(x, y, z, u, v).fmt = v
    BY DEF EntryRow
  <2>2. draft[w] = EntryRow(draft[w].seq, draft[w].prev, draft[w].ts, args[w], f)
    BY <1>3
  <2> HIDE DEF f
  <2>3. draft[w].body = args[w] /\ draft[w].fmt = f
    BY <2>1, <2>2
  <2> QED BY <2>3 DEF f
<1>5. \A r \in table : r.seq \in 1..Cardinality(table)
  BY DEF LedgerInv, RowsNumbered
<1>6. \A r \in table : r.seq < draft[w].seq
  BY <1>1, <1>2, <1>5
<1>7. draft[w] \notin table
  BY <1>1, <1>2, <1>6
<1>8. table' = table \cup {draft[w]}
  BY DEF Commit
<1>9. Previous(table', draft[w]) = LedgerHead
  BY <1>1, <1>2, <1>6, <1>8, PreviousOfNew DEF LedgerHead
<1>10. \A r \in table : Previous(table', r) = Previous(table, r)
  <2> SUFFICES ASSUME NEW r \in table PROVE Previous(table', r) = Previous(table, r)
    OBVIOUS
  <2>1. ~(draft[w].seq < r.seq)
    BY <1>1, <1>2, <1>5
  <2> QED BY <1>8, <2>1, PreviousStable
<1>11. IsFiniteSet(table') /\ Cardinality(table') = Cardinality(table) + 1
  BY <1>7, <1>8, FS_AddElement DEF LedgerInv, RowsNumbered
<1>12. RowsNumbered'
  <2>1. {r.seq : r \in table'} = {r.seq : r \in table} \cup {draft[w].seq}
    BY <1>8
  <2>2. {r.seq : r \in table'} = 1..Cardinality(table')
    BY <1>1, <1>2, <1>11, <2>1 DEF LedgerInv, RowsNumbered
  <2>3. \A r, s \in table' : r.seq = s.seq => r = s
    BY <1>1, <1>2, <1>5, <1>8 DEF LedgerInv, RowsNumbered
  <2> QED BY <1>11, <2>2, <2>3 DEF RowsNumbered
<1> QED BY <1>1, <1>2, <1>3, <1>4, <1>5, <1>9, <1>10, <1>11, <1>12

\* The commit preserves the invariant.
LEMMA InvCommit ==
  ASSUME LedgerInv, NEW w \in Writers, Commit(w)
  PROVE  LedgerInv'
<1> DEFINE d == draft[w]
           n == Cardinality(table)
<1>0. /\ n \in Nat /\ Cardinality(table') = n + 1 /\ d.seq = n + 1
      /\ d = EntryRow(d.seq, d.prev, d.ts, d.body, d.fmt)
      /\ d.body = args[w] /\ d.fmt = (IF format5 THEN 5 ELSE 4) /\ args[w] \in Body
      /\ \A r \in table : r.seq \in 1..n
      /\ Previous(table', d) = LedgerHead
      /\ \A r \in table : Previous(table', r) = Previous(table, r)
      /\ RowsNumbered'
      /\ table' = table \cup {d}
  BY CommitFacts DEF Commit
<1>1. d.prev = LedgerHead.hash /\ LedgerHead.ts <= d.ts /\ d.ts <= now /\ d.ts \in Nat /\ proc = "up"
  BY <1>0 DEF LedgerInv, DraftsFit, TypeOK, RowOK, Commit, InFlight
<1>2. /\ \A v \in Writers : v # w => pc'[v] = pc[v]
      /\ pc[w] = "inserted" /\ pc'[w] = "committed"
      /\ draft' = draft /\ args' = args /\ now' = now /\ proc' = proc
      /\ format5' = format5 /\ schema5' = schema5
  BY DEF LedgerInv, TypeOK, Commit
<1>3. TypeOK'
  <2>1. RowOK(d) /\ d.seq > 0 /\ d.body \in Body
    BY <1>0 DEF LedgerInv, TypeOK
  <2> QED BY <1>0, <2>1 DEF LedgerInv, TypeOK, Commit, Pcs, RowOK
<1>4. RowsChained'
  <2> SUFFICES ASSUME NEW r \in table'
      PROVE  /\ r = EntryRow(r.seq, r.prev, r.ts, r.body, r.fmt)
             /\ r.prev = Previous(table', r).hash
             /\ Previous(table', r).ts <= r.ts
             /\ r.ts <= now'
             /\ r.fmt = 5 => schema5' /\ (proc' # "stopped" => format5')
             /\ \A s \in table' : r.seq < s.seq => r.fmt <= s.fmt
    BY DEF RowsChained
  <2>1. CASE r \in table
    <3>1. r.fmt \in {4, 5} /\ (r.fmt = 5 => format5)
      BY <1>1, <2>1 DEF LedgerInv, TypeOK, RowOK, Formats, RowsChained
    <3>2. \A s \in table' : r.seq < s.seq => r.fmt <= s.fmt
      BY <1>0, <2>1, <3>1 DEF LedgerInv, RowsChained
    <3> QED BY <1>0, <1>2, <2>1, <3>2 DEF LedgerInv, RowsChained
  <2>2. CASE r = d
    <3>1. \A s \in table' : ~(r.seq < s.seq)
      BY <1>0, <2>2
    <3>2. r.fmt = 5 => schema5' /\ format5'
      BY <1>0, <1>2, <2>2 DEF LedgerInv, FormatKnown
    <3> QED BY <1>0, <1>1, <1>2, <2>2, <3>1, <3>2
  <2> QED BY <1>0, <2>1, <2>2
<1>5. FormatKnown'
  BY <1>2 DEF LedgerInv, FormatKnown
<1>6. DraftsFit'
  <2> SUFFICES ASSUME NEW v \in Writers
      PROVE  /\ InFlight(v)' => proc' = "up" /\ args'[v] \in Body
             /\ pc'[v] \in {"head", "inserted"} =>
                  /\ draft'[v] = EntryRow(draft'[v].seq, draft'[v].prev, draft'[v].ts,
                                          args'[v], IF format5' THEN 5 ELSE 4)
                  /\ draft'[v].seq \in 1..(Cardinality(table') + 1)
                  /\ draft'[v].ts <= now'
                  /\ draft'[v].seq = Cardinality(table') + 1 =>
                       draft'[v].prev = LedgerHead'.hash /\ LedgerHead'.ts <= draft'[v].ts
             /\ pc'[v] = "inserted" => draft'[v].seq = Cardinality(table') + 1
    BY DEF DraftsFit
  <2>1. CASE v = w
    BY <1>0, <1>1, <1>2, <2>1 DEF InFlight
  <2>2. CASE v # w
    <3>1. pc[v] # "inserted" /\ pc'[v] = pc[v]
      BY <1>2, <2>2 DEF LedgerInv, OnePendingRow
    <3>2. pc[v] = "head" => draft[v].seq \in 1..(n + 1)
      BY DEF LedgerInv, DraftsFit
    <3> QED BY <1>0, <1>2, <2>2, <3>1, <3>2 DEF LedgerInv, DraftsFit, InFlight
  <2> QED BY <2>1, <2>2
<1>7. OnePendingRow'
  BY <1>2 DEF LedgerInv, OnePendingRow
<1>8. AcknowledgedOnce'
  <2> SUFFICES ASSUME NEW u \in Writers, NEW v \in Writers,
                      pc'[u] \in {"committed", "ok"}, pc'[v] \in {"committed", "ok"}
               PROVE  draft'[u] \in table' /\ (draft'[u].seq = draft'[v].seq => u = v)
    BY DEF AcknowledgedOnce
  <2>1. \A x \in Writers : x # w /\ pc'[x] \in {"committed", "ok"} => draft[x] \in table
    BY <1>2 DEF LedgerInv, AcknowledgedOnce
  <2>2. \A x \in Writers : x # w /\ pc'[x] \in {"committed", "ok"} => draft[x].seq # d.seq
    BY <1>0, <2>1
  <2>3. CASE u # w /\ v # w
    BY <1>0, <1>2, <2>3 DEF LedgerInv, AcknowledgedOnce
  <2>4. CASE u = w \/ v = w
    BY <1>0, <1>2, <2>1, <2>2, <2>4
  <2> QED BY <2>3, <2>4
<1>9. CheckpointsFit'
  <2>1. ASSUME NEW c, c.size \in Nat, CheckpointMatches(table, c)
        PROVE  CheckpointMatches(table', c)
    <3>1. c.size <= n
      BY <2>1 DEF CheckpointMatches
    <3>2. UpTo(table', c.size) = UpTo(table, c.size)
      <4>1. d.seq \in Nat /\ c.size < d.seq /\ table' = table \cup {d}
        BY <1>0, <2>1, <3>1
      <4> HIDE DEF d
      <4> QED BY <2>1, <4>1 DEF UpTo
    <3> QED BY <1>0, <2>1, <3>1, <3>2 DEF CheckpointMatches
  <2>2. \A c \in checkpoints : c.size \in Nat
    BY DEF LedgerInv, TypeOK
  <2>3. task.size \in Nat /\ checkpoints' = checkpoints /\ task' = task
    BY DEF LedgerInv, TypeOK, Commit
  <2> QED BY <1>1, <1>2, <2>1, <2>2, <2>3 DEF LedgerInv, CheckpointsFit
<1> QED BY <1>0, <1>3, <1>4, <1>5, <1>6, <1>7, <1>8, <1>9 DEF LedgerInv

\* The acknowledgement: the row is in the table already.
LEMMA InvAppendReturns ==
  ASSUME LedgerInv, NEW w \in Writers, AppendReturns(w)
  PROVE  LedgerInv'
<1>1. task' = task \/ (task.pc = "none" /\ task' = [NoTask EXCEPT !.pc = "count"])
  BY DEF AppendReturns, MaybeCheckpoint
<1>2. TypeOK'
  <2>1. /\ task' = [pc |-> task'.pc, size |-> task'.size, root |-> task'.root,
                    last |-> task'.last, tsa |-> task'.tsa]
        /\ task'.pc \in TaskPcs /\ task'.size \in Nat /\ task'.tsa \in BOOLEAN
    <3>1. CASE task' = task
      BY <3>1 DEF LedgerInv, TypeOK
    <3>2. CASE task' = [NoTask EXCEPT !.pc = "count"]
      BY <3>2 DEF NoTask, TaskPcs
    <3> QED BY <1>1, <3>1, <3>2
  <2> QED BY <2>1 DEF LedgerInv, TypeOK, AppendReturns, Pcs, RowOK
<1>3. RowsNumbered' /\ RowsChained' /\ FormatKnown'
  BY DEF LedgerInv, RowsNumbered, RowsChained, FormatKnown, AppendReturns
<1>4. DraftsFit'
  BY DEF LedgerInv, TypeOK, DraftsFit, AppendReturns, InFlight, LedgerHead
<1>5. OnePendingRow' /\ AcknowledgedOnce'
  BY DEF LedgerInv, TypeOK, OnePendingRow, AcknowledgedOnce, AppendReturns
<1>6. CheckpointsFit'
  <2>1. task' = task \/ task'.pc = "count"
    BY <1>1 DEF NoTask
  <2> QED BY <2>1 DEF LedgerInv, CheckpointsFit, AppendReturns
<1> QED BY <1>2, <1>3, <1>4, <1>5, <1>6 DEF LedgerInv

-----------------------------------------------------------------------------
\* A step that leaves rows and calls alone, and stops the process at most
\* when no call is in flight, keeps what the invariant says of them.
LEMMA InvRowsFrame ==
  ASSUME LedgerInv, UNCHANGED <<table, pc, args, draft, now, schema5, format5>>,
         proc' = proc \/ (proc = "stopping" /\ proc' = "stopped")
  PROVE  RowsNumbered' /\ RowsChained' /\ FormatKnown' /\ DraftsFit'
           /\ OnePendingRow' /\ AcknowledgedOnce'
<1>1. RowsNumbered' /\ FormatKnown' /\ OnePendingRow' /\ AcknowledgedOnce'
  BY DEF LedgerInv, RowsNumbered, FormatKnown, OnePendingRow, AcknowledgedOnce
<1>2. DraftsFit'
  BY DEF LedgerInv, DraftsFit, InFlight, LedgerHead
<1>3. RowsChained'
  BY DEF LedgerInv, RowsChained
<1> QED BY <1>1, <1>2, <1>3

\* The largest checkpoint is CoveredBy, and it lies within the ledger.
LEMMA CoveredFacts ==
  ASSUME LedgerInv
  PROVE  /\ Covered \in Nat /\ Cardinality(table) \in Nat
         /\ Covered <= Cardinality(table)
         /\ \A c \in checkpoints : c.size <= Covered
<1>1. Cardinality(table) \in Nat
  BY FS_CardinalityType DEF LedgerInv, RowsNumbered
<1>2. CASE checkpoints = {}
  BY <1>1, <1>2 DEF Covered, CoveredBy
<1>3. CASE checkpoints # {}
  <2>1. PICK c \in checkpoints : \A d \in checkpoints : d.size <= c.size
    BY <1>3 DEF LedgerInv, CheckpointsFit
  <2> DEFINE m == CHOOSE e \in checkpoints : \A d \in checkpoints : d.size <= e.size
  <2>2. m \in checkpoints /\ (\A d \in checkpoints : d.size <= m.size) /\ Covered = m.size
    BY <1>3, <2>1 DEF Covered, CoveredBy
  <2>3. m.size \in Nat /\ m.size <= Cardinality(table)
    BY <2>2 DEF LedgerInv, TypeOK, CheckpointsFit, CheckpointMatches
  <2> QED BY <1>1, <2>2, <2>3
<1> QED BY <1>2, <1>3

\* The end of a task, whatever it came to, keeps the invariant.
LEMMA InvTaskEnds ==
  ASSUME LedgerInv, TaskEnds, UNCHANGED <<table, pc, args, draft, now, checkpoints, schema5, format5>>
  PROVE  LedgerInv'
<1>1. proc' = proc \/ (proc = "stopping" /\ proc' = "stopped")
  BY DEF TaskEnds
<1>2. TypeOK'
  <2>1. /\ task' = [pc |-> task'.pc, size |-> task'.size, root |-> task'.root,
                    last |-> task'.last, tsa |-> task'.tsa]
        /\ task'.pc \in TaskPcs /\ task'.size \in Nat /\ task'.tsa \in BOOLEAN
    BY DEF TaskEnds, NoTask, TaskPcs
  <2> QED BY <1>1, <2>1 DEF LedgerInv, TypeOK, RowOK
<1>3. CheckpointsFit'
  <2>1. task'.pc = "none"
    BY DEF TaskEnds, NoTask
  <2> QED BY <2>1 DEF LedgerInv, CheckpointsFit
<1> QED BY <1>1, <1>2, <1>3, InvRowsFrame DEF LedgerInv

\* The task counts, is stamped, or is refused a stamp: it holds no snapshot
\* afterwards, or the one it held.
LEMMA InvTaskMoves ==
  ASSUME LedgerInv, TaskCounts \/ TaskStamped \/ TaskStampFails \/ TaskFails
  PROVE  LedgerInv'
<1>1. CASE TaskEnds /\ (TaskCounts \/ TaskFails)
  BY <1>1, InvTaskEnds DEF TaskCounts, TaskFails
<1>2. CASE /\ UNCHANGED <<table, pc, args, draft, now, checkpoints, proc, schema5, format5>>
           /\ \/ \E b \in BOOLEAN : task' = [task EXCEPT !.pc = "read", !.tsa = b]
              \/ task.pc = "stamp" /\ task' = [task EXCEPT !.pc = "insert"]
  <2>1. TypeOK'
    <3>1. /\ task' = [pc |-> task'.pc, size |-> task'.size, root |-> task'.root,
                      last |-> task'.last, tsa |-> task'.tsa]
          /\ task'.pc \in TaskPcs /\ task'.size \in Nat /\ task'.tsa \in BOOLEAN
      BY <1>2 DEF LedgerInv, TypeOK, TaskPcs
    <3> QED BY <1>2, <3>1 DEF LedgerInv, TypeOK, RowOK
  <2>2. \/ task'.pc = "read"
        \/ /\ task.pc = "stamp" /\ task'.size = task.size
           /\ task'.root = task.root /\ task'.last = task.last
    BY <1>2 DEF LedgerInv, TypeOK
  <2>3. CheckpointsFit'
    BY <1>2, <2>2 DEF LedgerInv, CheckpointsFit, CheckpointMatches
  <2> QED BY <1>2, <2>1, <2>3, InvRowsFrame DEF LedgerInv
<1> QED BY <1>1, <1>2, CheckpointAssumption DEF TaskCounts, TaskStamped, TaskStampFails, TaskFails

\* The task reads the ledger: its snapshot is the whole ledger, and more than
\* every checkpoint so far.
LEMMA InvTaskReads ==
  ASSUME LedgerInv, TaskReads
  PROVE  LedgerInv'
<1>1. CASE table = {} \/ Cardinality(table) <= Covered
  BY <1>1, InvTaskEnds DEF TaskReads
<1>2. CASE ~(table = {} \/ Cardinality(table) <= Covered)
  <2>1. /\ task' = [pc |-> IF task.tsa THEN "stamp" ELSE "insert",
                    size |-> Cardinality(table), root |-> Root(HashList(table)),
                    last |-> LedgerHead.hash, tsa |-> task.tsa]
        /\ UNCHANGED <<table, pc, args, draft, now, checkpoints, proc, schema5, format5>>
    BY <1>2 DEF TaskReads
  <2>2. /\ task'.size = Cardinality(table) /\ task'.root = Root(HashList(table))
        /\ task'.last = LedgerHead.hash /\ task'.pc \in {"stamp", "insert"} /\ task'.tsa = task.tsa
    BY <2>1
  <2>3. /\ Covered \in Nat /\ Cardinality(table) \in Nat
        /\ \A c \in checkpoints : c.size <= Covered
    BY CoveredFacts
  <2>4. \A c \in checkpoints : c.size \in Nat /\ c.size < Cardinality(table)
    BY <1>2, <2>3 DEF LedgerInv, TypeOK
  <2>5. UpTo(table, Cardinality(table)) = table
    <3>1. \A r \in table : r.seq \in 1..Cardinality(table)
      BY DEF LedgerInv, RowsNumbered
    <3> QED BY <2>3, <3>1 DEF UpTo
  <2>6. CheckpointMatches(table, task')
    BY <2>2, <2>3, <2>5 DEF CheckpointMatches, LedgerHead
  <2>7. CheckpointsFit'
    BY <1>2, <2>1, <2>2, <2>3, <2>4, <2>6 DEF LedgerInv, CheckpointsFit
  <2>8. TypeOK'
    <3>1. /\ task' = [pc |-> task'.pc, size |-> task'.size, root |-> task'.root,
                      last |-> task'.last, tsa |-> task'.tsa]
          /\ task'.pc \in TaskPcs /\ task'.size \in Nat /\ task'.tsa \in BOOLEAN
      BY <2>1, <2>2, <2>3 DEF LedgerInv, TypeOK, TaskPcs
    <3> QED BY <2>1, <3>1 DEF LedgerInv, TypeOK, RowOK
  <2> QED BY <2>1, <2>7, <2>8, InvRowsFrame DEF LedgerInv
<1> QED BY <1>1, <1>2

\* What the INSERT of a checkpoint adds: a row larger than all before it.
LEMMA InsertFacts ==
  ASSUME LedgerInv, TaskInserts
  PROVE  /\ checkpoints' = checkpoints
                \cup {CheckpointRow(task.size, task.root, task.last, task.tsa)}
         /\ \A c \in checkpoints : c.size \in Nat /\ c.size < task.size
         /\ task.size \in Nat /\ task.size > 0
         /\ CheckpointMatches(table, task)
<1>1. \A c \in checkpoints : c.size \in Nat /\ c.size < task.size
  BY DEF LedgerInv, TypeOK, CheckpointsFit, TaskInserts
<1> QED BY <1>1 DEF LedgerInv, TypeOK, CheckpointsFit, TaskInserts

\* The checkpoint INSERT preserves the invariant: it describes a larger prefix.
LEMMA InvTaskInserts ==
  ASSUME LedgerInv, TaskInserts
  PROVE  LedgerInv'
<1> DEFINE k == CheckpointRow(task.size, task.root, task.last, task.tsa)
<1>1. /\ k.size = task.size /\ k.root = task.root /\ k.last = task.last
      /\ k.stamped = task.tsa
  BY DEF CheckpointRow
<1>2. /\ checkpoints' = checkpoints \cup {k}
      /\ \A c \in checkpoints : c.size \in Nat /\ c.size < k.size
      /\ k.size \in Nat /\ CheckpointMatches(table, task)
  BY <1>1, InsertFacts
<1>3. /\ proc' = proc \/ (proc = "stopping" /\ proc' = "stopped")
      /\ task' = NoTask
      /\ UNCHANGED <<table, pc, args, draft, now, schema5, format5>>
  BY DEF TaskInserts, TaskEnds
<1>4. CheckpointsFit'
  <2>1. CheckpointMatches(table, k)
    BY <1>1, <1>2 DEF CheckpointMatches
  <2>2. \A c \in checkpoints' : CheckpointMatches(table', c)
    BY <1>2, <1>3, <2>1 DEF LedgerInv, CheckpointsFit
  <2>3. k \in checkpoints' /\ \A d \in checkpoints' : d.size <= k.size
    BY <1>2
  <2>4. task'.pc = "none"
    BY <1>3 DEF NoTask
  <2> QED BY <2>2, <2>3, <2>4 DEF CheckpointsFit
<1>5. TypeOK'
  <2>1. /\ task' = [pc |-> task'.pc, size |-> task'.size, root |-> task'.root,
                    last |-> task'.last, tsa |-> task'.tsa]
        /\ task'.pc \in TaskPcs /\ task'.size \in Nat /\ task'.tsa \in BOOLEAN
    BY <1>3 DEF NoTask, TaskPcs
  <2>2. \A c \in checkpoints' : c.size \in Nat /\ c.stamped \in BOOLEAN
    BY <1>1, <1>2 DEF LedgerInv, TypeOK
  <2> QED BY <1>3, <2>1, <2>2 DEF LedgerInv, TypeOK, RowOK
<1> QED BY <1>3, <1>4, <1>5, InvRowsFrame DEF LedgerInv

-----------------------------------------------------------------------------
\* The process starts: if a format-5 row exists the schema is found, so the
\* runtime goes on in format 5.
LEMMA InvStart ==
  ASSUME LedgerInv, Start
  PROVE  LedgerInv'
<1>1. \A w \in Writers : ~InFlight(w)
  BY DEF LedgerInv, DraftsFit, Start
<1>2. schema5' \in BOOLEAN /\ format5' = schema5' /\ (schema5 => schema5')
  BY DEF Start
<1>3. TypeOK'
  BY <1>2 DEF LedgerInv, TypeOK, RowOK, Start
<1>4. RowsNumbered' /\ OnePendingRow' /\ AcknowledgedOnce' /\ FormatKnown'
  BY <1>2 DEF LedgerInv, RowsNumbered, OnePendingRow, AcknowledgedOnce, FormatKnown, Start
<1>5. RowsChained'
  BY <1>2 DEF LedgerInv, RowsChained, Start
<1>6. DraftsFit'
  BY <1>1 DEF DraftsFit, InFlight, Start
<1>7. CheckpointsFit'
  BY DEF LedgerInv, CheckpointsFit, Start
<1> QED BY <1>3, <1>4, <1>5, <1>6, <1>7 DEF LedgerInv

\* Migrating the schema under a running process changes no row.
LEMMA InvOwnerMigrates ==
  ASSUME LedgerInv, OwnerMigrates
  PROVE  LedgerInv'
<1> USE DEF OwnerMigrates
<1>1. TypeOK'
  BY DEF LedgerInv, TypeOK, RowOK
<1>2. RowsNumbered' /\ OnePendingRow' /\ AcknowledgedOnce' /\ FormatKnown'
  BY DEF LedgerInv, RowsNumbered, OnePendingRow, AcknowledgedOnce, FormatKnown
<1>3. RowsChained'
  BY DEF LedgerInv, RowsChained
<1>4. DraftsFit'
  BY DEF LedgerInv, DraftsFit, InFlight, LedgerHead
<1>5. CheckpointsFit'
  BY DEF LedgerInv, CheckpointsFit
<1> QED BY <1>1, <1>2, <1>3, <1>4, <1>5 DEF LedgerInv

\* Shutdown begins when no call is in flight.
LEMMA InvShutdown ==
  ASSUME LedgerInv, Shutdown
  PROVE  LedgerInv'
<1>1. /\ \A w \in Writers : ~InFlight(w)
      /\ UNCHANGED <<table, pc, args, draft, now, checkpoints, schema5, format5>>
      /\ proc = "up" /\ proc' \in {"stopping", "stopped"}
      /\ task' = task \/ task' = [NoTask EXCEPT !.pc = "read", !.tsa = TSA]
      /\ task.pc = "none"
  BY DEF Shutdown
<1>2. TypeOK'
  <2>1. /\ task' = [pc |-> task'.pc, size |-> task'.size, root |-> task'.root,
                    last |-> task'.last, tsa |-> task'.tsa]
        /\ task'.pc \in TaskPcs /\ task'.size \in Nat /\ task'.tsa \in BOOLEAN
    <3>1. CASE task' = task
      BY <3>1 DEF LedgerInv, TypeOK
    <3>2. CASE task' = [NoTask EXCEPT !.pc = "read", !.tsa = TSA]
      BY <3>2, CheckpointAssumption DEF NoTask, TaskPcs
    <3> QED BY <1>1, <3>1, <3>2
  <2> QED BY <1>1, <2>1 DEF LedgerInv, TypeOK, RowOK
<1>3. RowsNumbered' /\ OnePendingRow' /\ AcknowledgedOnce' /\ FormatKnown'
  BY <1>1 DEF LedgerInv, RowsNumbered, OnePendingRow, AcknowledgedOnce, FormatKnown
<1>4. RowsChained'
  BY <1>1 DEF LedgerInv, RowsChained
<1>5. DraftsFit'
  BY <1>1 DEF DraftsFit, InFlight
<1>6. CheckpointsFit'
  <2>1. task'.pc \in {"none", "read"}
    BY <1>1 DEF NoTask
  <2> QED BY <1>1, <2>1 DEF LedgerInv, CheckpointsFit
<1> QED BY <1>2, <1>3, <1>4, <1>5, <1>6 DEF LedgerInv

\* A crash ends every call in flight and drops the task.
LEMMA InvCrash ==
  ASSUME LedgerInv, Crash
  PROVE  LedgerInv'
<1>1. /\ \A w \in Writers : pc'[w] = (IF InFlight(w) THEN "error" ELSE pc[w])
      /\ \A w \in Writers : draft'[w] \in {draft[w], GenesisRow}
      /\ \A w \in Writers : ~InFlight(w) => draft'[w] = draft[w]
      /\ DOMAIN draft' = Writers
      /\ UNCHANGED <<table, args, now, checkpoints, schema5, format5>>
      /\ proc' = "stopped" /\ task' = NoTask
  BY DEF Crash
<1>2. \A w \in Writers : pc'[w] \in Pcs \ {"begin", "head", "inserted", "committed"}
  BY <1>1 DEF LedgerInv, TypeOK, InFlight, Pcs
<1>3. TypeOK'
  <2>1. pc' \in [Writers -> Pcs]
    BY <1>2 DEF Crash
  <2>2. /\ task' = [pc |-> task'.pc, size |-> task'.size, root |-> task'.root,
                    last |-> task'.last, tsa |-> task'.tsa]
        /\ task'.pc \in TaskPcs /\ task'.size \in Nat /\ task'.tsa \in BOOLEAN
    BY <1>1 DEF NoTask, TaskPcs
  <2>3. \A w \in Writers : RowOK(draft'[w])
    BY <1>1 DEF LedgerInv, TypeOK, RowOK, GenesisRow, Formats
  <2> QED BY <1>1, <2>1, <2>2, <2>3 DEF LedgerInv, TypeOK, RowOK
<1>4. RowsNumbered' /\ FormatKnown'
  BY <1>1 DEF LedgerInv, RowsNumbered, FormatKnown
<1>5. OnePendingRow' /\ AcknowledgedOnce'
  <2>1. \A w \in Writers : pc'[w] \in {"committed", "ok"} => pc[w] = "ok" /\ draft'[w] = draft[w]
    BY <1>1, <1>2 DEF InFlight
  <2> QED BY <1>1, <1>2, <2>1 DEF LedgerInv, OnePendingRow, AcknowledgedOnce
<1>6. RowsChained'
  BY <1>1 DEF LedgerInv, RowsChained
<1>7. DraftsFit'
  BY <1>2 DEF DraftsFit, InFlight
<1>8. CheckpointsFit'
  <2>1. task'.pc = "none"
    BY <1>1 DEF NoTask
  <2> QED BY <1>1, <2>1 DEF LedgerInv, CheckpointsFit
<1> QED BY <1>3, <1>4, <1>5, <1>6, <1>7, <1>8 DEF LedgerInv

\* Steps that leave the ledger alone.
LEMMA InvStutter ==
  ASSUME LedgerInv, UNCHANGED ledgerVars
  PROVE  LedgerInv'
<1> USE DEF ledgerVars
<1>1. TypeOK'
  BY DEF LedgerInv, TypeOK, RowOK
<1>2. CheckpointsFit'
  BY DEF LedgerInv, CheckpointsFit
<1> QED BY <1>1, <1>2, InvRowsFrame DEF LedgerInv

-----------------------------------------------------------------------------
\* Every step preserves the invariant.
LEMMA InvNext == LedgerInv /\ [LedgerNext]_ledgerVars => LedgerInv'
<1> SUFFICES ASSUME LedgerInv, [LedgerNext]_ledgerVars PROVE LedgerInv'
  OBVIOUS
<1>1. CASE \E w \in Writers : AppendStep(w) \/ AppendFails(w)
  BY <1>1, InvSelectHead, InvInsert, InvAppendEnds, InvCommit, InvAppendReturns DEF AppendStep
<1>2. CASE \E w \in Writers : \E b \in Body : BeginAppend(w, b)
  BY <1>2, InvBeginAppend
<1>3. CASE TaskStep \/ TaskStampFails \/ TaskFails
  BY <1>3, InvTaskMoves, InvTaskReads, InvTaskInserts DEF TaskStep
<1>4. CASE LifecycleStep \/ Crash
  BY <1>4, InvStart, InvOwnerMigrates, InvShutdown, InvCrash DEF LifecycleStep
<1>5. CASE UNCHANGED ledgerVars
  BY <1>5, InvStutter
<1> QED BY <1>1, <1>2, <1>3, <1>4, <1>5 DEF LedgerNext, ReliableNext, FailureStep

\* The invariant holds in every reachable state of the ledger writer.
THEOREM LedgerInvariant == LedgerSpec => []LedgerInv
BY InvInit, InvNext, PTL DEF LedgerSpec

\* Type correctness of the ledger writer.
THEOREM TypeCorrect == LedgerSpec => []TypeOK
<1>1. LedgerInv => TypeOK
  BY DEF LedgerInv
<1> QED BY <1>1, LedgerInvariant, PTL

\* verify_integrity passes at every moment, however many requests are in
\* flight, whatever fails and however often the process restarts.
THEOREM AuditAlwaysPasses == LedgerSpec => []AuditPasses
BY InvAudit, LedgerInvariant, PTL

\* UNIQUE (sequence_number) alone serialises the writers.
THEOREM WritersSerialised == LedgerSpec => []OnePendingRow
<1>1. LedgerInv => OnePendingRow
  BY DEF LedgerInv
<1> QED BY <1>1, LedgerInvariant, PTL

\* append_v3 acknowledges only rows that are committed, one per call.
THEOREM AcknowledgedRowsCommitted == LedgerSpec => []AcknowledgedOnce
<1>1. LedgerInv => AcknowledgedOnce
  BY DEF LedgerInv
<1> QED BY <1>1, LedgerInvariant, PTL

-----------------------------------------------------------------------------
\* The step of the invariant, for properties of steps.
LEMMA InvStep == LedgerSpec => [][LedgerInv /\ LedgerInv' /\ LedgerNext]_ledgerVars
<1>1. LedgerInv /\ [LedgerNext]_ledgerVars
        => [LedgerInv /\ LedgerInv' /\ LedgerNext]_ledgerVars
  BY InvNext
<1> QED BY <1>1, LedgerInvariant, PTL DEF LedgerSpec

\* The final checkpoint of a shutdown covers the whole ledger: nothing can be
\* appended between its read and its INSERT.
THEOREM ShutdownCovers == LedgerSpec => ShutdownCoversTail
<1> DEFINE A == proc = "stopping" /\ proc' = "stopped" /\ (TaskReads \/ TaskInserts) =>
                  CoveredBy(checkpoints') = HeadOf(table').seq
<1>1. LedgerInv /\ LedgerInv' /\ LedgerNext => A
  <2> SUFFICES ASSUME LedgerInv, LedgerInv', proc = "stopping", proc' = "stopped",
                      TaskReads \/ TaskInserts
               PROVE  CoveredBy(checkpoints') = HeadOf(table').seq
    OBVIOUS
  <2>1. HeadOf(table).seq = Cardinality(table) /\ Cardinality(table) \in Nat
    BY HeadFacts DEF LedgerInv, RowsNumbered
  <2>2. CASE TaskReads
    <3>1. table = {} \/ Cardinality(table) <= Covered
      BY <2>2 DEF TaskReads
    <3>2. Covered \in Nat /\ Covered <= Cardinality(table)
      BY CoveredFacts
    <3>3. Covered = Cardinality(table)
      BY <2>1, <3>1, <3>2, FS_EmptySet
    <3>4. table' = table /\ checkpoints' = checkpoints
      BY <2>2 DEF TaskReads
    <3> QED BY <2>1, <3>3, <3>4 DEF Covered
  <2>3. CASE TaskInserts
    <3> DEFINE k == CheckpointRow(task.size, task.root, task.last, task.tsa)
    <3>1. /\ checkpoints' = checkpoints \cup {k} /\ k.size = task.size /\ task.size \in Nat
          /\ \A c \in checkpoints : c.size \in Nat /\ c.size < task.size
      BY <2>3, InsertFacts DEF CheckpointRow
    <3>2. task.size = Cardinality(table) /\ table' = table
      BY <2>3 DEF LedgerInv, CheckpointsFit, TaskInserts
    <3> DEFINE m == CHOOSE c \in checkpoints' : \A d \in checkpoints' : d.size <= c.size
    <3> HIDE DEF k
    <3>3. k \in checkpoints' /\ \A d \in checkpoints' : d.size <= k.size
      BY <3>1
    <3>4. m \in checkpoints' /\ \A d \in checkpoints' : d.size <= m.size
      BY <3>3
    <3>5. m.size = task.size
      BY <3>1, <3>3, <3>4
    <3>6. CoveredBy(checkpoints') = m.size
      BY <3>3 DEF CoveredBy
    <3> QED BY <2>1, <3>2, <3>5, <3>6
  <2> QED BY <2>2, <2>3
<1> QED BY <1>1, InvStep, PTL DEF ShutdownCoversTail

\* A non-empty set of naturals has a least element.
LEMMA LeastNat ==
  ASSUME NEW T, T \subseteq Nat, T # {}
  PROVE  \E x \in T : \A y \in T : x <= y
<1>1. PICK x \in T : \A y \in T : ~(<<y, x>> \in OpToRel(<, Nat))
  BY NatLessThanWellFounded, WFMin
<1>2. \A y \in T : ~(y < x)
  BY <1>1 DEF OpToRel
<1> QED BY <1>2

\* The least element is unique.
LEMMA LeastIs ==
  ASSUME NEW T, \A y \in T : y \in Nat, NEW x \in T, \A y \in T : x <= y
  PROVE  (CHOOSE n \in T : \A m \in T : n <= m) = x
<1> DEFINE z == CHOOSE n \in T : \A m \in T : n <= m
<1>1. z \in T /\ \A m \in T : z <= m
  OBVIOUS
<1> HIDE DEF z
<1>2. z = x
  BY <1>1
<1> QED BY <1>2 DEF z

\* A receipt stays on the checkpoint it was first cut from.
THEOREM ReceiptsAreStable == LedgerSpec => ReceiptStable
<1> DEFINE A == \A r \in table : LET n == EvidenceTreeSize(checkpoints, r.seq) IN
                  n # 0 => EvidenceTreeSize(checkpoints', r.seq) = n
<1>1. LedgerInv /\ LedgerInv' /\ LedgerNext => A
  <2> SUFFICES ASSUME LedgerInv, LedgerNext, NEW r \in table,
                      EvidenceTreeSize(checkpoints, r.seq) # 0
               PROVE  EvidenceTreeSize(checkpoints', r.seq) = EvidenceTreeSize(checkpoints, r.seq)
    OBVIOUS
  <2>1. CASE checkpoints' = checkpoints
    BY <2>1
  <2>2. CASE TaskInserts
    <3> DEFINE k == CheckpointRow(task.size, task.root, task.last, task.tsa)
               old == {c.size : c \in {d \in checkpoints : d.size >= r.seq}}
               new == {c.size : c \in {d \in checkpoints' : d.size >= r.seq}}
    <3>1. /\ checkpoints' = checkpoints \cup {k} /\ k.size = task.size /\ task.size \in Nat
          /\ \A c \in checkpoints : c.size \in Nat /\ c.size < task.size
      BY <2>2, InsertFacts DEF CheckpointRow
    <3>2. old # {} /\ old \subseteq Nat
      BY <3>1 DEF EvidenceTreeSize
    <3>3. PICK x \in old : \A y \in old : x <= y
      BY <3>2, LeastNat
    <3> HIDE DEF k
    <3>4. x \in new /\ \A y \in new : x <= y
      BY <3>1, <3>2, <3>3
    <3>5. \A y \in new : y \in Nat
      BY <3>1
    <3> HIDE DEF old, new
    <3>6. (CHOOSE n \in old : \A m \in old : n <= m) = x
      BY <3>2, <3>3, LeastIs
    <3>7. (CHOOSE n \in new : \A m \in new : n <= m) = x
      BY <3>4, <3>5, LeastIs
    <3>8. EvidenceTreeSize(checkpoints, r.seq) = x
      BY <3>2, <3>6 DEF EvidenceTreeSize, old
    <3>9. EvidenceTreeSize(checkpoints', r.seq) = x
      BY <3>4, <3>7 DEF EvidenceTreeSize, new
    <3> QED BY <3>8, <3>9
  <2>3. checkpoints' = checkpoints \/ TaskInserts
    BY DEF LedgerNext, ReliableNext, FailureStep, LifecycleStep, TaskStep, AppendStep,
           BeginAppend, SelectHead, Insert, InsertConflict, Commit, AppendReturns, AppendFails,
           TaskCounts, TaskReads, TaskStamped, TaskStampFails, TaskFails,
           Start, OwnerMigrates, Shutdown, Crash
  <2> QED BY <2>1, <2>2, <2>3
<1> QED BY <1>1, InvStep, PTL DEF ReceiptStable

-----------------------------------------------------------------------------
\* The ledger writer implements AppendOnlyLog.

\* A commit appends one body to the log.
LEMMA CommitAppends ==
  ASSUME LedgerInv, NEW w \in Writers, Commit(w)
  PROVE  LogOf(table') = Append(LogOf(table), args[w])
<1> DEFINE n == Cardinality(table)
           old == [i \in 1..n |-> (CHOOSE r \in table : r.seq = i).body]
           new == [i \in 1..(n + 1) |-> (CHOOSE r \in table' : r.seq = i).body]
<1>1. /\ n \in Nat /\ Cardinality(table') = n + 1 /\ draft[w].seq = n + 1
      /\ draft[w].body = args[w] /\ args[w] \in Body
      /\ \A r \in table : r.seq \in 1..n
      /\ table' = table \cup {draft[w]}
      /\ \A r, s \in table' : r.seq = s.seq => r = s
  BY CommitFacts DEF Commit, RowsNumbered
<1>2. LogOf(table) = old /\ LogOf(table') = new
  BY <1>1 DEF LogOf
<1>3. new[n + 1] = args[w]
  <2>1. (CHOOSE r \in table' : r.seq = n + 1) = draft[w]
    BY <1>1
  <2> QED BY <1>1, <2>1
<1>4. ASSUME NEW i \in 1..n PROVE new[i] = old[i] /\ old[i] \in Body
  <2> DEFINE x == CHOOSE r \in table : r.seq = i
             y == CHOOSE r \in table' : r.seq = i
  <2>1. PICK r \in table : r.seq = i
    BY DEF LedgerInv, RowsNumbered
  <2>2. x \in table /\ x.seq = i
    BY <2>1
  <2>3. y \in table' /\ y.seq = i
    BY <1>1, <2>1
  <2>4. new[i] = y.body /\ old[i] = x.body
    BY <1>1
  <2> HIDE DEF x, y, old, new
  <2>5. x = y
    BY <1>1, <2>2, <2>3
  <2> QED BY <2>2, <2>4, <2>5 DEF LedgerInv, TypeOK
<1>5. old \in Seq(Body) /\ Len(old) = n
  <2>1. old \in [1..n -> Body]
    BY <1>4
  <2> HIDE DEF old
  <2> QED BY <1>1, <2>1
<1>6. DOMAIN new = 1..(n + 1) /\ new = [i \in 1..(n + 1) |-> new[i]]
  OBVIOUS
<1> HIDE DEF old, new
<1> DEFINE app == Append(old, args[w])
<1>7. /\ app \in Seq(Body) /\ Len(app) = n + 1
      /\ \A i \in 1..n : app[i] = old[i]
      /\ app[n + 1] = args[w]
  BY <1>1, <1>5, AppendProperties
<1> HIDE DEF app
<1>8. app = [i \in 1..(n + 1) |-> app[i]]
  BY <1>1, <1>7
<1>9. \A i \in 1..(n + 1) : app[i] = new[i]
  <2> SUFFICES ASSUME NEW i \in 1..(n + 1) PROVE app[i] = new[i]
    OBVIOUS
  <2>1. CASE i = n + 1
    BY <1>3, <1>7, <2>1
  <2>2. CASE i \in 1..n
    BY <1>4, <1>7, <2>2
  <2> QED BY <1>1, <2>1, <2>2
<1>10. app = new
  BY <1>6, <1>8, <1>9
<1> QED BY <1>2, <1>10 DEF app

\* What the mapping makes of the progress of the calls.
LEMMA StatusFacts ==
  /\ StatusOf("idle") = "new" /\ StatusOf("begin") = "pending" /\ StatusOf("head") = "pending"
  /\ StatusOf("inserted") = "pending" /\ StatusOf("committed") = "written"
  /\ StatusOf("ok") = "done" /\ StatusOf("error") = "failed"
BY DEF StatusOf

\* An empty ledger is an empty log.
LEMMA RefinesInit == LedgerInit => Log!Init
<1> SUFFICES ASSUME LedgerInit PROVE Log!Init
  OBVIOUS
<1>1. LogOf(table) = <<>>
  <2>1. Cardinality(table) = 0
    BY FS_EmptySet DEF LedgerInit
  <2>2. LogOf(table) = [i \in 1..0 |-> (CHOOSE r \in table : r.seq = i).body]
    BY <2>1 DEF LogOf
  <2> QED BY <2>2
<1>2. [w \in Writers |-> StatusOf(pc[w])] = [w \in Writers |-> "new"]
  BY StatusFacts DEF LedgerInit
<1> QED BY <1>1, <1>2 DEF LedgerInit, Log!Init

\* Every step of the writer is a step of the log or leaves it alone.
LEMMA RefinesNext ==
  ASSUME LedgerInv, [LedgerNext]_ledgerVars
  PROVE  [Log!Next]_(Log!logVars)
<1> DEFINE st == [w \in Writers |-> StatusOf(pc[w])]
           sizes == {c.size : c \in checkpoints}
<1>0. pc \in [Writers -> Pcs]
  BY DEF LedgerInv, TypeOK
<1>1. ASSUME NEW w \in Writers, NEW b \in Body, BeginAppend(w, b)
      PROVE  Log!Ask(w, b)
  <2>1. st[w] = "new" /\ st' = [st EXCEPT ![w] = "pending"]
    BY <1>0, <1>1, StatusFacts DEF BeginAppend
  <2> QED BY <1>1, <2>1 DEF Log!Ask, BeginAppend
<1>2. ASSUME NEW w \in Writers, SelectHead(w) \/ Insert(w)
      PROVE  UNCHANGED Log!logVars
  <2>1. st' = st
    BY <1>0, <1>2, StatusFacts DEF SelectHead, Insert
  <2> QED BY <1>2, <2>1 DEF Log!logVars, SelectHead, Insert
<1>3. ASSUME NEW w \in Writers, Commit(w)
      PROVE  Log!Write(w)
  <2>1. st[w] = "pending" /\ st' = [st EXCEPT ![w] = "written"]
    BY <1>0, <1>3, StatusFacts DEF Commit
  <2>2. LogOf(table') = Append(LogOf(table), args[w])
    BY <1>3, CommitAppends
  <2> QED BY <1>3, <2>1, <2>2 DEF Log!Write, Commit
<1>4. ASSUME NEW w \in Writers, AppendReturns(w)
      PROVE  Log!Acknowledge(w)
  <2>1. st[w] = "written" /\ st' = [st EXCEPT ![w] = "done"]
    BY <1>0, <1>4, StatusFacts DEF AppendReturns
  <2> QED BY <1>4, <2>1 DEF Log!Acknowledge, AppendReturns
<1>5. ASSUME NEW w \in Writers, InsertConflict(w) \/ AppendFails(w)
      PROVE  Log!Fail({w})
  <2>1. st[w] \in {"pending", "written"}
    BY <1>0, <1>5, StatusFacts DEF InsertConflict, AppendFails, InFlight
  <2>2. st' = [v \in Writers |-> IF v \in {w} THEN "failed" ELSE st[v]]
    BY <1>0, <1>5, StatusFacts DEF InsertConflict, AppendFails
  <2> QED BY <1>5, <2>1, <2>2 DEF Log!Fail, InsertConflict, AppendFails
<1>6. CASE Crash
  <2> DEFINE S == {w \in Writers : InFlight(w)}
  <2>1. \A w \in S : st[w] \in {"pending", "written"}
    BY <1>0, StatusFacts DEF InFlight
  <2>2. st' = [v \in Writers |-> IF v \in S THEN "failed" ELSE st[v]]
    BY <1>0, <1>6, StatusFacts DEF Crash
  <2>3. Log!Fail(S)
    BY <1>6, <2>1, <2>2 DEF Log!Fail, Crash
  <2> QED BY <2>3 DEF Log!Next
<1>7. CASE TaskInserts
  <2> DEFINE k == CheckpointRow(task.size, task.root, task.last, task.tsa)
  <2>1. /\ checkpoints' = checkpoints \cup {k} /\ k.size = task.size
        /\ \A c \in checkpoints : c.size < task.size
        /\ task.size \in Nat /\ task.size > 0 /\ task.size <= Cardinality(table)
    BY <1>7, InsertFacts DEF CheckpointRow, CheckpointMatches
  <2>2. sizes' = sizes \cup {task.size} /\ \A m \in sizes : m < task.size
    <3> HIDE DEF k
    <3> QED BY <2>1
  <2>3. task.size \in 1..Len(LogOf(table))
    <3>1. Cardinality(table) \in Nat
      BY FS_CardinalityType DEF LedgerInv, RowsNumbered
    <3>2. Len(LogOf(table)) = Cardinality(table)
      BY <3>1 DEF LogOf
    <3> QED BY <2>1, <3>1, <3>2
  <2>4. UNCHANGED <<table, pc, args>> /\ st' = st
    BY <1>7 DEF TaskInserts
  <2>5. \E m \in 1..Len(LogOf(table)) : Log!Seal(m)
    BY <2>2, <2>3, <2>4 DEF Log!Seal
  <2> QED BY <2>5 DEF Log!Next
<1>8. CASE TaskCounts \/ TaskReads \/ TaskStamped \/ TaskStampFails \/ TaskFails
  BY <1>8 DEF Log!logVars, TaskCounts, TaskReads, TaskStamped, TaskStampFails, TaskFails
<1>9. CASE LifecycleStep
  BY <1>9 DEF Log!logVars, LifecycleStep, Start, OwnerMigrates, Shutdown
<1>10. CASE UNCHANGED ledgerVars
  BY <1>10 DEF Log!logVars, ledgerVars
<1>11. CASE \E w \in Writers : AppendStep(w) \/ AppendFails(w) \/ \E b \in Body : BeginAppend(w, b)
  BY <1>1, <1>2, <1>3, <1>4, <1>5, <1>11 DEF AppendStep, Log!Next
<1> QED BY <1>6, <1>7, <1>8, <1>9, <1>10, <1>11
       DEF LedgerNext, ReliableNext, FailureStep, TaskStep

\* The ledger writer implements the append-only log of AppendOnlyLog.
THEOREM LedgerImplementsLog == LedgerSpec => ImplementsLog
<1>1. LedgerInv /\ [LedgerNext]_ledgerVars => [Log!Next]_(Log!logVars)
  BY RefinesNext
<1> QED BY <1>1, RefinesInit, LedgerInvariant, PTL DEF ImplementsLog, Log!Spec, LedgerSpec

-----------------------------------------------------------------------------
\* The composition with the request path.

\* What a step of the service does to the ledger.
LEMMA ServiceStepsLedger ==
  ASSUME ServiceInv, [ServiceNext]_serviceVars
  PROVE  [LedgerNext]_ledgerVars
<1>1. ASSUME NEW r \in Writers, SkewVerdict(r) \/ Verdict(r)
      PROVE  \E b \in Body : BeginAppend(r, b)
  <2>1. kg \in KGs /\ evalKg = kg
    <3>1. CASE SkewVerdict(r)
      BY <3>1 DEF SkewVerdict, Refusal, ServiceInv, ServiceTypeOK, GraphInStep
    <3>2. CASE Verdict(r)
      BY <3>2 DEF Verdict, Active, ServiceInv, ServiceTypeOK, GraphInStep
    <3> QED BY <1>1, <3>1, <3>2
  <2>2. CASE SkewVerdict(r)
    <3> DEFINE b == [req |-> r, track |-> "v3-clock-skew-guard",
                     snapshot |-> kg, provenance |-> kg, column |-> kg]
    <3>1. b \in Body
      BY <2>1, BodyIsVerdictLine DEF VerdictLines
    <3>2. BeginAppend(r, b)
      BY <2>2 DEF SkewVerdict
    <3> HIDE DEF b
    <3> QED BY <3>1, <3>2
  <2>3. CASE Verdict(r)
    <3> DEFINE b == [req |-> r, track |-> "v3-evaluator",
                     snapshot |-> snap[r], provenance |-> evalKg, column |-> kg]
    <3>1. snap[r] \in KGs
      BY <2>3 DEF Verdict, ServiceInv, ServiceTypeOK, GraphInStep
    <3>2. b \in Body
      BY <2>1, <3>1, BodyIsVerdictLine DEF VerdictLines
    <3>3. BeginAppend(r, b)
      BY <2>3 DEF Verdict
    <3> HIDE DEF b
    <3> QED BY <3>2, <3>3
  <2> QED BY <1>1, <2>2, <2>3
<1>2. CASE \E r \in Writers : SkewVerdict(r) \/ Verdict(r)
  BY <1>1, <1>2 DEF LedgerNext, ReliableNext
<1>3. CASE \E r \in Writers : LedgerWorks(r) \/ Answer(r) \/ LedgerError(r)
  BY <1>3 DEF LedgerWorks, Answer, LedgerError, LedgerNext, ReliableNext, FailureStep, AppendStep
<1>4. CASE \E r \in Writers :
             \/ \E tripped \in {FALSE, Strict} : Refuse(r, tripped)
             \/ Accept(r) \/ Buffered(r) \/ ModelAnswers(r) \/ ModelFails(r)
  BY <1>4 DEF Refuse, Accept, ModelAnswers, ModelFails, Buffered
<1>5. CASE \E k \in KGs : LoadKG(k)
  BY <1>5 DEF LoadKG
<1>6. CASE ServiceStart \/ ServiceShutdown \/ ServiceCrash \/ LedgerBackground
  BY <1>6 DEF ServiceStart, ServiceShutdown, ServiceCrash, LedgerBackground,
              LedgerNext, ReliableNext, FailureStep, LifecycleStep
<1>7. CASE UNCHANGED serviceVars
  BY <1>7 DEF serviceVars
<1> QED BY <1>2, <1>3, <1>4, <1>5, <1>6, <1>7 DEF ServiceNext, RequestStep

\* The service starts in its invariant.
LEMMA ServiceInvInit == ServiceInit => ServiceInv
<1> SUFFICES ASSUME ServiceInit PROVE ServiceInv
  OBVIOUS
<1>1. LedgerInv
  BY InvInit DEF ServiceInit
<1>2. ServiceTypeOK /\ GraphInStep /\ GraphFixed
  BY DEF ServiceInit, ServiceTypeOK, GraphInStep, GraphFixed, Active, LedgerInit
<1>3. LedgeringInStep /\ CallsInStep /\ LinesInStep
  BY DEF ServiceInit, LedgerInit, LedgeringInStep, CallsInStep, LinesInStep, InFlight
<1> QED BY <1>1, <1>2, <1>3 DEF ServiceInv

-----------------------------------------------------------------------------
\* A request moves between awaits before its ledger call: the ledger, the
\* graph and the other requests are left alone.
LEMMA InvBeforeLedger ==
  ASSUME ServiceInv, NEW r \in Writers,
         \/ \E tripped \in {FALSE, Strict} : Refuse(r, tripped)
         \/ Accept(r) \/ Buffered(r) \/ ModelAnswers(r) \/ ModelFails(r)
  PROVE  ServiceTypeOK' /\ GraphInStep' /\ LedgeringInStep' /\ CallsInStep'
           /\ LinesInStep' /\ GraphFixed'
<1> USE DEF ServiceInv
<1>1. /\ UNCHANGED <<table, pc, args, draft, proc, kg, evalKg, loads, swapped, meas>>
      /\ pc[r] = "idle" /\ ~InFlight(r)
  BY DEF graphVars, Refuse, Accept, ModelAnswers, ModelFails, Buffered, ledgerVars, CallsInStep, InFlight
<1>2. /\ kg # NoKG \/ (phase'[r] = "answered")
      /\ proc = "up"
  BY DEF Refuse, Accept, ModelAnswers, ModelFails, Buffered, Reply, Refusal, GraphInStep, Active,
         ServiceTypeOK
<1>3. \/ /\ phase' = [phase EXCEPT ![r] = "answered"]
         /\ \E c \in {"422", "500", "503"} : reply' = [reply EXCEPT ![r] = c]
         /\ snap' = snap
      \/ /\ phase[r] = "new" /\ phase' = [phase EXCEPT ![r] = "buffering"]
         /\ reply' = reply /\ snap' = snap
      \/ /\ phase[r] = "buffering" /\ phase' = [phase EXCEPT ![r] = "asking"]
         /\ reply' = reply /\ snap' = [snap EXCEPT ![r] = kg]
      \/ /\ phase[r] = "asking" /\ phase' = [phase EXCEPT ![r] = "verifying"]
         /\ reply' = reply /\ snap' = snap
  BY DEF Refuse, Accept, ModelAnswers, ModelFails, Buffered, Reply, Refusal
<1>5. ServiceTypeOK'
  BY <1>1, <1>3 DEF ServiceTypeOK
<1>6. GraphInStep'
  BY <1>1, <1>2, <1>3 DEF GraphInStep, Active, ServiceTypeOK
<1>7. LedgeringInStep'
  BY <1>1, <1>3 DEF LedgeringInStep, InFlight, ServiceTypeOK
<1>8. CallsInStep'
  BY <1>1, <1>3 DEF CallsInStep, ServiceTypeOK
<1>9. LinesInStep'
  BY <1>1 DEF LinesInStep
<1>10. GraphFixed'
  BY <1>1, <1>2, <1>3 DEF GraphFixed, ServiceTypeOK
<1> QED BY <1>5, <1>6, <1>7, <1>8, <1>9, <1>10

\* The verdict is handed to append_v3: the line is the request's own.
LEMMA InvVerdict ==
  ASSUME ServiceInv, NEW r \in Writers, SkewVerdict(r) \/ Verdict(r)
  PROVE  ServiceTypeOK' /\ GraphInStep' /\ LedgeringInStep' /\ CallsInStep'
           /\ LinesInStep' /\ GraphFixed'
<1> USE DEF ServiceInv
<1>1. PICK b \in VerdictLines :
         /\ BeginAppend(r, b)
         /\ b.req = r /\ b.provenance = b.column
         /\ b.snapshot = b.column \/ r \in swapped
  <2>1. kg \in KGs /\ evalKg = kg /\ proc = "up"
    <3>1. CASE SkewVerdict(r)
      BY <3>1 DEF SkewVerdict, BeginAppend, Refusal, ServiceTypeOK, GraphInStep
    <3>2. CASE Verdict(r)
      BY <3>2 DEF Verdict, BeginAppend, Active, ServiceTypeOK, GraphInStep
    <3> QED BY <3>1, <3>2
  <2>2. CASE SkewVerdict(r)
    <3> DEFINE b == [req |-> r, track |-> "v3-clock-skew-guard",
                     snapshot |-> kg, provenance |-> kg, column |-> kg]
    <3>1. b \in VerdictLines /\ b.req = r /\ b.provenance = b.column /\ b.snapshot = b.column
      BY <2>1 DEF VerdictLines
    <3>2. BeginAppend(r, b)
      BY <2>2 DEF SkewVerdict
    <3> HIDE DEF b
    <3> QED BY <3>1, <3>2
  <2>3. CASE Verdict(r)
    <3> DEFINE b == [req |-> r, track |-> "v3-evaluator",
                     snapshot |-> snap[r], provenance |-> evalKg, column |-> kg]
    <3>1. snap[r] \in KGs /\ (snap[r] = kg \/ r \in swapped)
      BY <2>1, <2>3 DEF Verdict, ServiceTypeOK, GraphInStep, GraphFixed
    <3>2. /\ b \in VerdictLines /\ b.req = r /\ b.provenance = b.column
          /\ b.snapshot = b.column \/ r \in swapped
      BY <2>1, <3>1 DEF VerdictLines
    <3>3. BeginAppend(r, b)
      BY <2>3 DEF Verdict
    <3> HIDE DEF b
    <3> QED BY <3>2, <3>3
  <2> QED BY <2>2, <2>3
<1>2. /\ pc[r] = "idle" /\ proc = "up" /\ pc' = [pc EXCEPT ![r] = "begin"]
      /\ args' = [args EXCEPT ![r] = b]
      /\ UNCHANGED <<table, draft, proc>>
      /\ pc \in [Writers -> Pcs] /\ args \in [Writers -> Body \cup {NoBody}]
  BY <1>1 DEF BeginAppend, LedgerInv, TypeOK
<1>3. /\ phase[r] \in {"new", "verifying"} /\ phase' = [phase EXCEPT ![r] = "ledgering"]
      /\ UNCHANGED <<kg, evalKg, loads, swapped, meas, snap, reply>>
      /\ kg # NoKG
  BY DEF graphVars, SkewVerdict, Verdict, Refusal, GraphInStep, Active
<1>4. ServiceTypeOK'
  BY <1>3 DEF ServiceTypeOK
<1>5. GraphInStep' /\ GraphFixed'
  BY <1>2, <1>3 DEF GraphInStep, GraphFixed, Active, ServiceTypeOK
<1>6. LedgeringInStep'
  BY <1>2, <1>3 DEF LedgeringInStep, InFlight, ServiceTypeOK
<1>7. CallsInStep'
  BY <1>2, <1>3 DEF CallsInStep, ServiceTypeOK
<1>8. LinesInStep'
  <2>1. \A q \in Writers :
          /\ pc'[q] # "idle" =>
               /\ args'[q] \in VerdictLines /\ args'[q].req = q
               /\ args'[q].provenance = args'[q].column
               /\ args'[q].snapshot = args'[q].column \/ q \in swapped
          /\ pc'[q] \in {"committed", "ok"} => draft'[q].body = args'[q]
    BY <1>1, <1>2 DEF LinesInStep
  <2>2. ASSUME NEW row \in table
        PROVE  \E q \in Writers : row = draft'[q] /\ row.body = args'[q]
                                  /\ pc'[q] \in {"committed", "ok", "error"}
    <3>1. PICK q \in Writers : row = draft[q] /\ row.body = args[q]
                                /\ pc[q] \in {"committed", "ok", "error"}
      BY DEF LinesInStep
    <3>2. q # r /\ pc'[q] = pc[q] /\ args'[q] = args[q]
      BY <1>2, <3>1
    <3> QED BY <1>2, <3>1, <3>2
  <2> QED BY <1>2, <1>3, <2>1, <2>2 DEF LinesInStep
<1> QED BY <1>4, <1>5, <1>6, <1>7, <1>8

\* append_v3 works: a row appears only by its commit.
LEMMA InvLedgerWorks ==
  ASSUME ServiceInv, NEW r \in Writers, LedgerWorks(r)
  PROVE  ServiceTypeOK' /\ GraphInStep' /\ LedgeringInStep' /\ CallsInStep'
           /\ LinesInStep' /\ GraphFixed'
<1> USE DEF ServiceInv
<1>1. UNCHANGED <<kg, evalKg, loads, swapped, phase, meas, snap, reply>>
  BY DEF LedgerWorks, graphVars, requestVars
<1>2. /\ InFlight(r) /\ InFlight(r)' /\ args' = args /\ proc' = proc
      /\ \A q \in Writers : q # r => pc'[q] = pc[q] /\ draft'[q] = draft[q]
      /\ pc[r] \notin {"committed", "ok", "error", "idle"} /\ pc'[r] # "idle"
  BY DEF LedgerWorks, SelectHead, Insert, Commit, InFlight, LedgerInv, TypeOK
<1>3. ServiceTypeOK' /\ GraphInStep' /\ GraphFixed'
  BY <1>1, <1>2 DEF ServiceTypeOK, GraphInStep, GraphFixed, Active
<1>4. LedgeringInStep'
  BY <1>1, <1>2 DEF LedgeringInStep, InFlight
<1>5. CallsInStep'
  BY <1>1, <1>2 DEF CallsInStep, LedgeringInStep
<1>6. LinesInStep'
  <2>1. /\ pc'[r] \in {"committed", "ok"} => draft'[r].body = args[r]
        /\ \A row \in table' :
             \/ row \in table
             \/ row = draft'[r] /\ row.body = args[r] /\ pc'[r] = "committed"
    <3>0. pc \in [Writers -> Pcs]
      BY DEF LedgerInv, TypeOK
    <3>1. CASE Commit(r)
      <4>1. draft[r].body = args[r]
        BY <3>1, CommitFacts
      <4>2. table' = table \cup {draft[r]} /\ pc'[r] = "committed" /\ draft' = draft
        BY <3>0, <3>1 DEF Commit
      <4> QED BY <4>1, <4>2
    <3>2. CASE SelectHead(r) \/ Insert(r)
      <4>1. table' = table /\ pc'[r] \in {"head", "inserted"}
        BY <3>0, <3>2 DEF SelectHead, Insert
      <4> QED BY <4>1
    <3> QED BY <3>1, <3>2 DEF LedgerWorks
  <2>2. ASSUME NEW row \in table
        PROVE  \E q \in Writers : row = draft'[q] /\ row.body = args'[q]
                                  /\ pc'[q] \in {"committed", "ok", "error"}
    <3>1. PICK q \in Writers : row = draft[q] /\ row.body = args[q]
                                /\ pc[q] \in {"committed", "ok", "error"}
      BY DEF LinesInStep
    <3>2. q # r
      BY <1>2, <3>1
    <3> QED BY <1>2, <3>1, <3>2
  <2> QED BY <1>1, <1>2, <2>1, <2>2 DEF LinesInStep
<1> QED BY <1>3, <1>4, <1>5, <1>6

\* append_v3 returns or raises, and the request is answered.
LEMMA InvAnswer ==
  ASSUME ServiceInv, NEW r \in Writers, Answer(r) \/ LedgerError(r)
  PROVE  ServiceTypeOK' /\ GraphInStep' /\ LedgeringInStep' /\ CallsInStep'
           /\ LinesInStep' /\ GraphFixed'
<1> USE DEF ServiceInv
<1>1. /\ UNCHANGED <<table, args, proc, kg, evalKg, loads, swapped, meas, snap>>
      /\ \A q \in Writers : q # r \/ pc[q] = "committed" => draft'[q] = draft[q]
      /\ phase' = [phase EXCEPT ![r] = "answered"]
      /\ InFlight(r) /\ pc \in [Writers -> Pcs]
      /\ \/ /\ pc[r] = "committed" /\ pc' = [pc EXCEPT ![r] = "ok"]
            /\ reply' = [reply EXCEPT ![r] = "200"]
         \/ /\ pc' = [pc EXCEPT ![r] = "error"]
            /\ reply' = [reply EXCEPT ![r] = "500"]
  BY DEF Answer, LedgerError, AppendReturns, InsertConflict, AppendFails, InFlight, Reply,
         graphVars, LedgerInv, TypeOK
<1>2. ServiceTypeOK' /\ GraphInStep' /\ GraphFixed'
  BY <1>1 DEF ServiceTypeOK, GraphInStep, GraphFixed, Active
<1>3. LedgeringInStep' /\ CallsInStep'
  BY <1>1 DEF LedgeringInStep, CallsInStep, InFlight, ServiceTypeOK
<1>4. LinesInStep'
  <2>1. \A q \in Writers :
          /\ pc'[q] # "idle" => pc[q] # "idle"
          /\ pc[q] \in {"committed", "ok", "error"} => pc'[q] \in {"committed", "ok", "error"}
          /\ pc'[q] \in {"committed", "ok"} => pc[q] \in {"committed", "ok"}
          /\ pc[q] \in {"committed", "ok", "error"} => draft'[q] = draft[q]
    BY <1>1 DEF InFlight
  <2> QED BY <1>1, <2>1 DEF LinesInStep
<1> QED BY <1>2, <1>3, <1>4

\* The graph changes, the process starts or begins to stop,
\* or the ledger works in the background: no request moves.
LEMMA InvBackground ==
  ASSUME ServiceInv,
         \/ \E k \in KGs : LoadKG(k)
         \/ ServiceStart \/ ServiceShutdown \/ LedgerBackground
         \/ UNCHANGED serviceVars
  PROVE  ServiceTypeOK' /\ GraphInStep' /\ LedgeringInStep' /\ CallsInStep'
           /\ LinesInStep' /\ GraphFixed'
<1> USE DEF ServiceInv
<1>1. UNCHANGED <<table, pc, args, draft, phase, meas, snap, reply>>
  <2>1. CASE (\E k \in KGs : LoadKG(k)) \/ UNCHANGED serviceVars
    BY <2>1 DEF LoadKG, serviceVars, ledgerVars, requestVars
  <2>2. CASE ServiceStart \/ ServiceShutdown
    BY <2>2 DEF ServiceStart, Start, ServiceShutdown, Shutdown, requestVars
  <2>3. CASE LedgerBackground
    BY <2>3 DEF LedgerBackground, TaskStep, TaskCounts, TaskReads, TaskStamped, TaskInserts,
                TaskStampFails, TaskFails, OwnerMigrates, requestVars
  <2> QED BY <2>1, <2>2, <2>3
<1>2. LedgeringInStep' /\ CallsInStep'
  BY <1>1 DEF LedgeringInStep, CallsInStep, InFlight
<1>3. \/ /\ HotLoad /\ proc = "up" /\ kg' \in KGs /\ evalKg' = kg' /\ proc' = proc
         /\ swapped' = swapped \cup ScopedElsewhere(kg') /\ loads' = loads + 1
      \/ /\ UNCHANGED <<kg, evalKg, loads, swapped>>
         /\ proc' = proc \/ (proc = "stopping" /\ proc' = "stopped")
      \/ /\ proc = "stopped" /\ kg' = FileKG /\ evalKg' = FileKG
         /\ UNCHANGED <<loads, swapped>>
      \/ /\ UNCHANGED <<kg, evalKg, loads, swapped>>
         /\ proc = "up" /\ \A r \in Writers : ~Active(r)
  <2>1. CASE (\E k \in KGs : LoadKG(k)) \/ UNCHANGED serviceVars
    BY <2>1 DEF LoadKG, serviceVars, ledgerVars, graphVars
  <2>2. CASE ServiceStart \/ ServiceShutdown
    BY <2>2 DEF ServiceStart, Start, ServiceShutdown, Shutdown, graphVars
  <2>3. CASE LedgerBackground
    BY <2>3 DEF LedgerBackground, TaskStep, TaskCounts, TaskReads, TaskStamped, TaskInserts,
                TaskStampFails, TaskFails, TaskEnds, OwnerMigrates, graphVars
  <2> QED BY <2>1, <2>2, <2>3
<1>4. ServiceTypeOK'
  BY <1>1, <1>3, KGAssumption DEF ServiceTypeOK, ScopedElsewhere
<1>5. GraphInStep'
  BY <1>1, <1>3, KGAssumption DEF GraphInStep, Active
<1>6. GraphFixed'
  <2>1. CASE HotLoad /\ kg' \in KGs /\ swapped' = swapped \cup ScopedElsewhere(kg')
    BY <1>1, <2>1 DEF GraphFixed, ScopedElsewhere
  <2>2. CASE proc = "stopped" /\ swapped' = swapped
    BY <1>1, <2>2 DEF GraphFixed, GraphInStep, Active
  <2>3. CASE UNCHANGED <<kg, swapped>>
    BY <1>1, <2>3 DEF GraphFixed
  <2> QED BY <1>3, <2>1, <2>2, <2>3
<1>7. LinesInStep'
  <2>1. swapped \subseteq swapped'
    BY <1>3
  <2> QED BY <1>1, <2>1 DEF LinesInStep
<1> QED BY <1>2, <1>4, <1>5, <1>6, <1>7

\* The process dies with its requests.
LEMMA InvServiceCrash ==
  ASSUME ServiceInv, ServiceCrash
  PROVE  ServiceTypeOK' /\ GraphInStep' /\ LedgeringInStep' /\ CallsInStep'
           /\ LinesInStep' /\ GraphFixed'
<1> USE DEF ServiceInv
<1>1. /\ UNCHANGED <<table, args, kg, evalKg, loads, swapped, meas, snap>>
      /\ \A q \in Writers : ~InFlight(q) \/ pc[q] = "committed" => draft'[q] = draft[q]
      /\ phase' = [r \in Writers |-> IF Active(r) THEN "answered" ELSE phase[r]]
      /\ reply' = [r \in Writers |-> IF Active(r) THEN "lost" ELSE reply[r]]
      /\ pc' = [r \in Writers |-> IF InFlight(r) THEN "error" ELSE pc[r]]
      /\ proc' = "stopped" /\ pc \in [Writers -> Pcs]
  BY DEF ServiceCrash, Crash, graphVars, LedgerInv, TypeOK
<1>2. ServiceTypeOK'
  BY <1>1 DEF ServiceTypeOK
<1>3. \A r \in Writers : phase'[r] \in {"new", "answered"}
  BY <1>1 DEF Active, ServiceTypeOK
<1>4. GraphInStep' /\ GraphFixed'
  BY <1>1, <1>3 DEF GraphInStep, GraphFixed, Active
<1>5. \A r \in Writers : InFlight(r) => Active(r)
  BY DEF LedgeringInStep, Active
<1>6. LedgeringInStep'
  BY <1>1, <1>3 DEF LedgeringInStep, InFlight
<1>7. CallsInStep'
  BY <1>1, <1>3, <1>5 DEF CallsInStep, Active, InFlight
<1>8. LinesInStep'
  <2>1. \A q \in Writers :
          /\ pc'[q] # "idle" => pc[q] # "idle"
          /\ pc[q] \in {"committed", "ok", "error"} => pc'[q] \in {"committed", "ok", "error"}
          /\ pc'[q] \in {"committed", "ok"} => pc[q] \in {"committed", "ok"}
          /\ pc[q] \in {"committed", "ok", "error"} => draft'[q] = draft[q]
    BY <1>1 DEF InFlight
  <2> QED BY <1>1, <2>1 DEF LinesInStep
<1> QED BY <1>2, <1>4, <1>6, <1>7, <1>8

-----------------------------------------------------------------------------
\* Every step of the service preserves its invariant.
LEMMA ServiceInvNext == ServiceInv /\ [ServiceNext]_serviceVars => ServiceInv'
<1> SUFFICES ASSUME ServiceInv, [ServiceNext]_serviceVars PROVE ServiceInv'
  OBVIOUS
<1>1. LedgerInv'
  BY ServiceStepsLedger, InvNext DEF ServiceInv
<1>2. ServiceTypeOK' /\ GraphInStep' /\ LedgeringInStep' /\ CallsInStep'
           /\ LinesInStep' /\ GraphFixed'
  BY InvBeforeLedger, InvVerdict, InvLedgerWorks, InvAnswer, InvBackground, InvServiceCrash
     DEF ServiceNext, RequestStep
<1> QED BY <1>1, <1>2 DEF ServiceInv

\* ServiceInv holds in every reachable state of the service.
THEOREM ServiceInvariant == ServiceSpec => []ServiceInv
BY ServiceInvInit, ServiceInvNext, PTL DEF ServiceSpec

\* The service drives the ledger writer only as SkiLedger allows.
THEOREM ServiceImplementsLedger == ServiceSpec => ServiceUsesLedger
<1>1. ServiceInit => LedgerInit
  BY DEF ServiceInit
<1>2. ServiceInv /\ [ServiceNext]_serviceVars => [LedgerNext]_ledgerVars
  BY ServiceStepsLedger
<1> QED BY <1>1, <1>2, ServiceInvariant, PTL DEF ServiceSpec, ServiceUsesLedger, LedgerSpec

\* So the ledger a running service leaves behind passes the audit.
THEOREM ServiceLedgerAudits == ServiceSpec => []AuditPasses
BY ServiceImplementsLedger, AuditAlwaysPasses DEF ServiceUsesLedger

\* A 200 has its one row in the ledger, a refused request has none.
THEOREM VerdictsHaveOneRow == ServiceSpec => []OneRowPerVerdict
<1>1. ServiceInv => OneRowPerVerdict
  <2> SUFFICES ASSUME ServiceInv, NEW r \in Writers
               PROVE  /\ \A s, t \in RowsOf(r) : s = t
                      /\ reply[r] = "200" => RowsOf(r) # {}
                      /\ reply[r] \in {"422", "503"} => RowsOf(r) = {}
    BY DEF OneRowPerVerdict
  <2>1. \A row \in RowsOf(r) : row = draft[r] /\ pc[r] # "idle"
    <3> SUFFICES ASSUME NEW row \in table, row.body.req = r
                 PROVE  row = draft[r] /\ pc[r] # "idle"
      BY DEF RowsOf
    <3>1. PICK q \in Writers : row = draft[q] /\ row.body = args[q]
                                /\ pc[q] \in {"committed", "ok", "error"}
      BY DEF ServiceInv, LinesInStep
    <3>2. args[q].req = q
      BY <3>1 DEF ServiceInv, LinesInStep
    <3> QED BY <3>1, <3>2
  <2>2. ASSUME reply[r] = "200" PROVE draft[r] \in RowsOf(r)
    <3>1. pc[r] = "ok"
      BY <2>2 DEF ServiceInv, CallsInStep
    <3>2. draft[r] \in table
      BY <3>1 DEF ServiceInv, LedgerInv, AcknowledgedOnce
    <3>3. draft[r].body.req = r
      BY <3>1 DEF ServiceInv, LinesInStep
    <3> QED BY <3>2, <3>3 DEF RowsOf
  <2>3. reply[r] \in {"422", "503"} => pc[r] = "idle"
    BY DEF ServiceInv, CallsInStep
  <2> QED BY <2>1, <2>2, <2>3
<1> QED BY <1>1, ServiceInvariant, PTL

\* Envelope and row name the same graph, hot-load or not.
THEOREM ProvenanceAlwaysMatches == ServiceSpec => []ProvenanceMatchesRow
<1>1. ServiceInv => ProvenanceMatchesRow
  <2> SUFFICES ASSUME ServiceInv, NEW row \in table
               PROVE  row.body.provenance = row.body.column
    BY DEF ProvenanceMatchesRow
  <2>1. PICK q \in Writers : row.body = args[q] /\ pc[q] # "idle"
    BY DEF ServiceInv, LinesInStep
  <2> QED BY <2>1 DEF ServiceInv, LinesInStep
<1> QED BY <1>1, ServiceInvariant, PTL

\* Every verdict replays against the graph its row names, unless a hot-load
\* overtook its request.
THEOREM AlwaysReplayable == ServiceSpec => []Replayable
<1>1. ServiceInv => Replayable
  <2> SUFFICES ASSUME ServiceInv, NEW row \in table
               PROVE  row.body.snapshot = row.body.column \/ row.body.req \in swapped
    BY DEF Replayable
  <2>1. PICK q \in Writers : row.body = args[q] /\ pc[q] # "idle"
    BY DEF ServiceInv, LinesInStep
  <2> QED BY <2>1 DEF ServiceInv, LinesInStep
<1> QED BY <1>1, ServiceInvariant, PTL

\* With hot-load off, the default, that is every verdict.
THEOREM ReplayableWithoutHotLoad ==
  ASSUME ~HotLoad
  PROVE  ServiceSpec => [](\A row \in table : row.body.snapshot = row.body.column)
<1>1. ServiceInv /\ Replayable => \A row \in table : row.body.snapshot = row.body.column
  BY DEF ServiceInv, GraphFixed, Replayable
<1> QED BY <1>1, ServiceInvariant, AlwaysReplayable, PTL
=============================================================================
