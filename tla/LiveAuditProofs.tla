--------------------------- MODULE LiveAuditProofs ---------------------------
(***************************************************************************)
(* What a passed verification shows and what an alarm means, for any       *)
(* bodies, keys, pins and lengths of the ledger, and any interleaving of   *)
(* the auditor's reads with the runtime and the operator.                  *)
(***************************************************************************)
EXTENDS LiveAudit, FiniteSetTheorems, TLAPS

\* Rows numbered without a gap, and each hashed as one of the formats.
GapFree(R) ==
  /\ IsFiniteSet(R)
  /\ {r.seq : r \in R} = 1..Cardinality(R)
  /\ \A r, s \in R : r.seq = s.seq => r = s

Hashed(R) ==
  \A r \in R : /\ r.fmt \in Formats /\ r.ts \in Nat
               /\ r.hash = EntryHash(r.seq, r.prev, r.ts, r.body, r.fmt)

\* A checkpoint is over the rows it was signed for, whoever signed it.
Sealed(c) ==
  /\ GapFree(c.covers) /\ Hashed(c.covers) /\ c.covers # {}
  /\ c.size = Cardinality(c.covers)
  /\ c.root = Root(HashList(c.covers))
  /\ c.last = HeadOf(c.covers).hash

Clean == faults \cap {"restored", "rewritten"} = {}

SessionShape ==
  /\ session = [pc |-> session.pc, entries |-> session.entries, ring |-> session.ring,
                files |-> session.files, issues |-> session.issues, moved |-> session.moved]
  /\ session.pc \in {"idle", "rows", "ring", "done"}
  /\ session.pc = "idle" => session = Idle
  /\ session.pc = "ring" => session.entries # {}
  /\ session.pc # "done" \/ session.entries = {} => session.issues = {}

\* What a finished session says about the entries and the files it was given.
Reported ==
  session.pc = "done" /\ session.entries # {} =>
    /\ EntryIssues(session.entries, session.ring) \subseteq session.issues
    /\ \A f \in session.files :
         CheckOne(f, session.entries, {f.key}) \in session.issues \cup {"OK"}

TablesSound ==
  /\ GapFree(rows) /\ Hashed(rows)
  /\ GapFree(session.entries) /\ Hashed(session.entries)
  /\ \A r \in rows \cup session.entries : r \in written \/ r.key = Foreign
  /\ \A c \in checkpoints \cup files \cup session.files : Sealed(c)

\* A ledger nobody touched: signed by registered keys, linked, and sealed by
\* its checkpoints.
RowsGenuine ==
  /\ signer \in keyTable /\ keyTable \subseteq Keys
  /\ \A r \in rows : /\ r.fmt = 5 /\ r.key \in keyTable
                     /\ r.sig = Signature(r.key, VerdictMessage(r.seq, r.hash, r.body))
  /\ ChainLinkage(rows)
  /\ "clock" \notin faults => TimestampOrdering(rows)

CheckpointsGenuine ==
  /\ \A c \in checkpoints :
       /\ c.size <= Cardinality(rows) /\ c.covers = UpTo(rows, c.size)
       /\ c.key \in keyTable
       /\ c.sig = Signature(c.key, <<c.size, c.root, c.last>>)
  /\ files \subseteq checkpoints

\* What the tool holds of it: an earlier state of the entries, a ring with
\* their keys, and the checkpoints of that state unless the ledger moved on.
ReadsGenuine ==
  session.pc # "idle" =>
    /\ session.entries = UpTo(rows, Cardinality(session.entries))
    /\ Cardinality(session.entries) <= Cardinality(rows)
    /\ session.ring \subseteq Keys
    /\ session.pc = "ring" => \A r \in session.entries : r.key \in session.ring
    /\ \A f \in session.files : f \in checkpoints /\ f.size <= Cardinality(session.entries)
    /\ session.pc # "done" /\ ~session.moved =>
         \A c \in checkpoints : /\ c.size <= Cardinality(session.entries)
                                /\ session.pc = "ring" => c.key \in session.ring

AuditInv ==
  /\ SessionShape /\ Reported /\ TablesSound
  /\ Clean => RowsGenuine /\ CheckpointsGenuine /\ ReadsGenuine
  /\ AlarmsExplained

-----------------------------------------------------------------------------
\* What the operators on rows return on a gap-free set of them.

\* The numbers of the rows, and the head: the row of the highest number.
LEMMA HeadFacts ==
  ASSUME NEW R, GapFree(R)
  PROVE  /\ Cardinality(R) \in Nat
         /\ \A r \in R : r.seq \in 1..Cardinality(R)
         /\ HeadOf(R).seq = Cardinality(R)
         /\ R = {} => HeadOf(R) = GenesisRow
         /\ R # {} => HeadOf(R) \in R /\ Cardinality(R) > 0
<1>1. Cardinality(R) \in Nat
  BY FS_CardinalityType DEF GapFree
<1>2. \A r \in R : r.seq \in 1..Cardinality(R)
  BY DEF GapFree
<1>3. CASE R = {}
  BY <1>1, <1>3, FS_EmptySet DEF HeadOf, GenesisRow
<1>4. CASE R # {}
  <2>1. Cardinality(R) \in 1..Cardinality(R)
    BY <1>1, <1>2, <1>4
  <2>2. PICK h \in R : h.seq = Cardinality(R)
    BY <2>1 DEF GapFree
  <2>3. \A s \in R : s.seq <= h.seq
    BY <1>1, <1>2, <2>2
  <2>4. HeadOf(R) \in R /\ \A s \in R : s.seq <= HeadOf(R).seq
    BY <2>3, <1>4 DEF HeadOf
  <2>5. HeadOf(R).seq = Cardinality(R)
    BY <1>1, <1>2, <2>2, <2>4
  <2> QED BY <1>1, <1>2, <1>4, <2>1, <2>4, <2>5
<1> QED BY <1>3, <1>4

\* The row before row k + 1 is row k.
LEMMA PreviousFacts ==
  ASSUME NEW R, GapFree(R), NEW r \in R
  PROVE  /\ Previous(R, r).seq + 1 = r.seq
         /\ r.seq > 1 => Previous(R, r) \in R
<1> DEFINE before == {s \in R : s.seq < r.seq}
<1>1. Cardinality(R) \in Nat /\ \A s \in R : s.seq \in 1..Cardinality(R)
  BY HeadFacts
<1>2. CASE r.seq = 1
  <2>1. before = {}
    BY <1>1, <1>2
  <2> QED BY <2>1, <1>2 DEF Previous, HeadOf, GenesisRow
<1>3. CASE r.seq # 1
  <2>1. r.seq - 1 \in 1..Cardinality(R)
    BY <1>1, <1>3
  <2>2. PICK h \in R : h.seq = r.seq - 1
    BY <2>1 DEF GapFree
  <2>3. h \in before /\ \A s \in before : s.seq <= h.seq
    BY <1>1, <2>2
  <2>4. HeadOf(before) \in before /\ \A s \in before : s.seq <= HeadOf(before).seq
    BY <2>3 DEF HeadOf
  <2>5. HeadOf(before).seq = r.seq - 1
    BY <1>1, <2>2, <2>3, <2>4
  <2> QED BY <2>4, <2>5, <1>1 DEF Previous
<1> QED BY <1>2, <1>3

\* The next row keeps the set gap-free and changes nothing before it.
LEMMA AddRow ==
  ASSUME NEW R, GapFree(R), NEW d, d.seq = Cardinality(R) + 1
  PROVE  /\ GapFree(R \cup {d})
         /\ Cardinality(R \cup {d}) = Cardinality(R) + 1
         /\ \A r \in R : Previous(R \cup {d}, r) = Previous(R, r)
         /\ Previous(R \cup {d}, d) = HeadOf(R)
         /\ \A n \in 0..Cardinality(R) : UpTo(R \cup {d}, n) = UpTo(R, n)
<1>1. Cardinality(R) \in Nat /\ \A s \in R : s.seq \in 1..Cardinality(R)
  BY HeadFacts
<1>2. \A s \in R : s.seq < d.seq
  BY <1>1
<1>3. d \notin R
  BY <1>1, <1>2
<1>4. Cardinality(R \cup {d}) = Cardinality(R) + 1 /\ IsFiniteSet(R \cup {d})
  BY <1>3, FS_AddElement DEF GapFree
<1>5. {r.seq : r \in R \cup {d}} = 1..(Cardinality(R) + 1)
  <2>1. {r.seq : r \in R \cup {d}} = {r.seq : r \in R} \cup {d.seq}
    OBVIOUS
  <2>2. {r.seq : r \in R} = 1..Cardinality(R)
    BY DEF GapFree
  <2> QED BY <1>1, <2>1, <2>2
<1>6. \A r, s \in R \cup {d} : r.seq = s.seq => r = s
  <2>1. \A r, s \in R : r.seq = s.seq => r = s
    BY DEF GapFree
  <2>2. \A r \in R : r.seq # d.seq
    BY <1>1
  <2> QED BY <2>1, <2>2
<1>7. GapFree(R \cup {d})
  BY <1>4, <1>5, <1>6 DEF GapFree
<1>8. \A r \in R : Previous(R \cup {d}, r) = Previous(R, r)
  <2> SUFFICES ASSUME NEW r \in R PROVE Previous(R \cup {d}, r) = Previous(R, r)
    OBVIOUS
  <2>1. ~(d.seq < r.seq)
    BY <1>1
  <2>2. {s \in R \cup {d} : s.seq < r.seq} = {s \in R : s.seq < r.seq}
    BY <2>1
  <2> QED BY <2>2 DEF Previous
<1>9. Previous(R \cup {d}, d) = HeadOf(R)
  <2>1. {s \in R \cup {d} : s.seq < d.seq} = R
    BY <1>1, <1>2
  <2> QED BY <2>1 DEF Previous
<1>10. \A n \in 0..Cardinality(R) : UpTo(R \cup {d}, n) = UpTo(R, n)
  <2> SUFFICES ASSUME NEW n \in 0..Cardinality(R) PROVE UpTo(R \cup {d}, n) = UpTo(R, n)
    OBVIOUS
  <2>1. ~(d.seq <= n)
    BY <1>1
  <2> QED BY <2>1 DEF UpTo
<1> QED BY <1>4, <1>7, <1>8, <1>9, <1>10

\* The first n rows.
LEMMA FirstRows ==
  ASSUME NEW R, GapFree(R), NEW n \in 0..Cardinality(R)
  PROVE  /\ UpTo(R, n) \subseteq R
         /\ GapFree(UpTo(R, n))
         /\ Cardinality(UpTo(R, n)) = n
         /\ \A r \in UpTo(R, n) : Previous(UpTo(R, n), r) = Previous(R, r)
         /\ \A m \in 0..n : UpTo(UpTo(R, n), m) = UpTo(R, m)
<1> DEFINE first == UpTo(R, n)
<1>1. Cardinality(R) \in Nat /\ n \in Nat /\ \A s \in R : s.seq \in 1..Cardinality(R)
  BY HeadFacts
<1>2. first \subseteq R /\ \A r \in first : r \in R /\ r.seq <= n
  BY DEF UpTo
<1>3. {r.seq : r \in first} = 1..n
  <2>1. \A r \in first : r.seq \in 1..n
    BY <1>1, <1>2
  <2>2. ASSUME NEW i \in 1..n PROVE \E r \in first : r.seq = i
    <3>1. i \in 1..Cardinality(R)
      BY <1>1
    <3>2. PICK r \in R : r.seq = i
      BY <3>1 DEF GapFree
    <3>3. r \in first
      BY <3>2 DEF UpTo
    <3> QED BY <3>2, <3>3
  <2> QED BY <2>1, <2>2
<1>4. \A r, s \in first : r.seq = s.seq => r = s
  BY <1>2 DEF GapFree
<1>5. IsFiniteSet(first)
  BY <1>2, FS_Subset DEF GapFree
<1>6. Cardinality(first) = n
  <2> DEFINE number == [r \in first |-> r.seq]
  <2>1. number \in [first -> 1..n]
    BY <1>3
  <2>2. \A r, s \in first : number[r] = number[s] => r = s
    BY <1>4
  <2>3. \A i \in 1..n : \E r \in first : number[r] = i
    BY <1>3
  <2>4. number \in Bijection(first, 1..n)
    BY <2>1, <2>2, <2>3 DEF Bijection, Injection, Surjection, IsInjective
  <2>5. Cardinality(1..n) = n
    BY <1>1, FS_Interval
  <2>6. ExistsBijection(first, 1..n)
    BY <2>4 DEF ExistsBijection
  <2> QED BY <2>5, <2>6, <1>5, FS_Bijection
<1>7. GapFree(first)
  BY <1>3, <1>4, <1>5, <1>6 DEF GapFree
<1>8. \A r \in first : Previous(first, r) = Previous(R, r)
  <2> SUFFICES ASSUME NEW r \in first PROVE Previous(first, r) = Previous(R, r)
    OBVIOUS
  <2>1. {s \in first : s.seq < r.seq} = {s \in R : s.seq < r.seq}
    <3>1. \A s \in R : s.seq < r.seq => s \in first
      BY <1>1, <1>2 DEF UpTo
    <3> QED BY <3>1, <1>2
  <2> QED BY <2>1 DEF Previous
<1>9. \A m \in 0..n : UpTo(first, m) = UpTo(R, m)
  <2> SUFFICES ASSUME NEW m \in 0..n PROVE UpTo(first, m) = UpTo(R, m)
    OBVIOUS
  <2>1. \A s \in R : s.seq <= m => s.seq <= n
    BY <1>1
  <2> QED BY <2>1 DEF UpTo
<1> HIDE DEF first
<1> QED BY <1>2, <1>6, <1>7, <1>8, <1>9 DEF first

\* All rows are the first so many.
LEMMA AllRows ==
  ASSUME NEW R, GapFree(R)
  PROVE  UpTo(R, Cardinality(R)) = R
<1>1. Cardinality(R) \in Nat /\ \A s \in R : s.seq \in 1..Cardinality(R)
  BY HeadFacts
<1>2. \A s \in R : s.seq <= Cardinality(R)
  BY <1>1
<1> QED BY <1>2 DEF UpTo

-----------------------------------------------------------------------------
\* What is signed, and what the tool makes of it.

LEMMA NewRowHashed ==
  ASSUME NEW prev, NEW ts \in Nat, NEW body, NEW fmt \in Formats, NEW key
  PROVE  Hashed({SignedRow(prev, ts, body, fmt, key)})
BY DEF SignedRow, EntryRow, Hashed

LEMMA SignedCheckpointFacts ==
  ASSUME NEW R, GapFree(R), Hashed(R), R # {}, NEW key,
         NEW c, c = SignedCheckpoint(R, key)
  PROVE  /\ Sealed(c)
         /\ c.size = Cardinality(R) /\ c.covers = R /\ c.key = key
         /\ c.sig = Signature(key, <<c.size, c.root, c.last>>)
<1>1. HeadOf(R).seq = Cardinality(R)
  BY HeadFacts
<1> QED BY <1>1 DEF SignedCheckpoint, Sealed

\* A hashed row verifies under the format it was written in.
LEMMA FormatOf ==
  ASSUME NEW R, Hashed(R), NEW r \in R
  PROVE  EntryFormat(r) = r.fmt
<1>1. r.fmt \in Formats /\ r.hash = EntryHash(r.seq, r.prev, r.ts, r.body, r.fmt)
  BY DEF Hashed
<1>2. CASE r.fmt = 5
  BY <1>1, <1>2 DEF EntryFormat
<1>3. CASE r.fmt = 4
  BY <1>1, <1>3 DEF EntryFormat
<1> QED BY <1>1, <1>2, <1>3 DEF Formats

\* The entries of a ledger nobody touched raise no alarm but that of the clock.
LEMMA CleanEntries ==
  ASSUME NEW E, NEW ring, GapFree(E), Hashed(E), ChainLinkage(E),
         \A r \in E : /\ r.fmt = 5 /\ r.key \in ring
                      /\ r.sig = Signature(r.key, VerdictMessage(r.seq, r.hash, r.body)),
         ring \subseteq Keys, Pins \in {{}, Keys}
  PROVE  \A kind \in EntryIssues(E, ring) : kind = "TIMESTAMP_ORDER" /\ ~TimestampOrdering(E)
<1>1. SequenceContinuity(E)
  <2> SUFFICES ASSUME NEW r \in E PROVE r.seq = Previous(E, r).seq + 1
    BY DEF SequenceContinuity
  <2> QED BY PreviousFacts
<1>2. \A r \in E : EntryFormat(r) = 5
  BY FormatOf
<1>3. HashRecomputation(E) /\ NoFormatDowngrade(E)
  BY <1>2 DEF HashRecomputation, NoFormatDowngrade
<1>4. \A r \in E : VerdictSignatureValid(ring, r)
  BY DEF VerdictSignatureValid, SignatureValid
<1>5. \A r \in E : IsTrusted(r.key)
  BY DEF IsTrusted
<1> SUFFICES ASSUME NEW kind \in EntryIssues(E, ring)
             PROVE  kind = "TIMESTAMP_ORDER" /\ ~TimestampOrdering(E)
  OBVIOUS
<1>6. kind \in {"SEQUENCE_GAP", "HASH_MISMATCH", "ENTRY_HASH_MISMATCH",
                "FORMAT_DOWNGRADE", "VERDICT_SIGNATURE_INVALID",
                "UNTRUSTED_SIGNING_KEY", "TIMESTAMP_ORDER"}
  BY DEF EntryIssues
<1>7. kind # "SEQUENCE_GAP"
  BY <1>1 DEF EntryIssues
<1>8. kind # "HASH_MISMATCH"
  BY DEF EntryIssues
<1>9. kind # "ENTRY_HASH_MISMATCH"
  BY <1>3 DEF EntryIssues
<1>10. kind # "FORMAT_DOWNGRADE"
  BY <1>3 DEF EntryIssues
<1>11. kind # "VERDICT_SIGNATURE_INVALID"
  BY <1>4 DEF EntryIssues
<1>12. kind # "UNTRUSTED_SIGNING_KEY"
  BY <1>5 DEF EntryIssues
<1>13. kind = "TIMESTAMP_ORDER"
  BY <1>6, <1>7, <1>8, <1>9, <1>10, <1>11, <1>12
<1>14. ~TimestampOrdering(E)
  BY <1>13 DEF EntryIssues
<1> QED BY <1>13, <1>14

\* No alarm on the entries means that they are numbered and linked.
LEMMA NoEntryIssue ==
  ASSUME NEW E, NEW ring, EntryIssues(E, ring) = {}
  PROVE  ChainLinkage(E)
<1>1. "HASH_MISMATCH" \notin EntryIssues(E, ring)
  OBVIOUS
<1> QED BY <1>1 DEF EntryIssues

\* A checkpoint of a ledger nobody touched, on the first n entries of it.
LEMMA CleanCheckpoint ==
  ASSUME NEW R, GapFree(R), NEW n \in 0..Cardinality(R), NEW c, NEW ring,
         Sealed(c), c.size <= Cardinality(R), c.covers = UpTo(R, c.size),
         c.sig = Signature(c.key, <<c.size, c.root, c.last>>),
         c.key \in Keys, Pins \in {{}, Keys}
  PROVE  LET found == CheckOne(c, UpTo(R, n), ring) IN
         /\ found \in {"OK", "CHECKPOINT_BEYOND_LEDGER", "CHECKPOINT_SIGNATURE_INVALID"}
         /\ c.size <= n /\ c.key \in ring => found = "OK"
<1>1. IsTrusted(c.key)
  BY DEF IsTrusted
<1>2. c.key \in ring <=> SignatureValid(ring, c.key, <<c.size, c.root, c.last>>, c.sig)
  BY DEF SignatureValid
<1>3. Cardinality(UpTo(R, n)) = n
  BY FirstRows
<1>4. Cardinality(R) \in Nat /\ n \in Nat
  BY HeadFacts
<1>5. c.size \in Nat
  BY HeadFacts DEF Sealed
<1>6. ASSUME c.size <= n
      PROVE  CheckpointMatches(UpTo(R, n), c)
  <2>1. c.size \in 0..n
    BY <1>4, <1>5, <1>6
  <2>2. UpTo(UpTo(R, n), c.size) = c.covers
    BY <2>1, FirstRows
  <2> QED BY <1>3, <1>6, <2>2 DEF CheckpointMatches, Sealed
<1>7. CASE c.key \notin ring
  BY <1>2, <1>7 DEF CheckOne
<1>8. CASE c.key \in ring /\ c.size <= n
  <2>1. ~(c.size > Cardinality(UpTo(R, n)))
    BY <1>3, <1>4, <1>5, <1>8
  <2> QED BY <1>1, <1>2, <1>6, <1>8, <2>1 DEF CheckOne
<1>9. CASE c.key \in ring /\ ~(c.size <= n)
  <2>1. c.size > Cardinality(UpTo(R, n))
    BY <1>3, <1>4, <1>5, <1>9
  <2> QED BY <1>1, <1>2, <1>9, <2>1 DEF CheckOne
<1> QED BY <1>7, <1>8, <1>9

-----------------------------------------------------------------------------
\* The invariant holds initially.
LEMMA InvInit == Init => AuditInv
<1> SUFFICES ASSUME Init PROVE AuditInv
  OBVIOUS
<1>1. session = Idle /\ session.pc = "idle" /\ session.entries = {} /\ session.files = {}
      /\ session.issues = {}
  BY DEF Init, Idle
<1>2. SessionShape
  BY <1>1 DEF Init, SessionShape, Idle
<1>3. GapFree({}) /\ Hashed({})
  BY FS_EmptySet DEF GapFree, Hashed
<1>4. TablesSound
  BY <1>1, <1>3 DEF Init, TablesSound
<1>5. RowsGenuine /\ CheckpointsGenuine
  BY DEF Init, RowsGenuine, CheckpointsGenuine, ChainLinkage, TimestampOrdering
<1>6. Reported /\ ReadsGenuine /\ AlarmsExplained
  BY <1>1 DEF Reported, ReadsGenuine, AlarmsExplained
<1> QED BY <1>2, <1>4, <1>5, <1>6 DEF AuditInv

\* The time of the head, and so of what continues it.
LEMMA HeadTime ==
  ASSUME NEW R, GapFree(R), Hashed(R)
  PROVE  HeadOf(R).ts \in Nat
<1>1. CASE R = {}
  BY <1>1, HeadFacts DEF GenesisRow
<1>2. CASE R # {}
  BY <1>2, HeadFacts DEF Hashed
<1> QED BY <1>1, <1>2

\* An entry is appended: it continues the head and is signed with a
\* registered key.
LEMMA InvAppend ==
  ASSUME AuditInv, NEW body \in Body, NEW now \in 0..MaxTime, Append(body, now)
  PROVE  AuditInv'
<1>1. PICK d : d = SignedRow(HeadOf(rows), now, body, 5, signer)
  OBVIOUS
<1>2. /\ rows' = rows \cup {d} /\ written' = written \cup {d}
      /\ faults' = IF now < HeadOf(rows).ts THEN faults \cup {"clock"} ELSE faults
      /\ UNCHANGED <<keyTable, checkpoints, files, signer, session>>
  BY <1>1 DEF Append
<1>3. /\ GapFree(rows) /\ Hashed(rows)
      /\ GapFree(session.entries) /\ Hashed(session.entries)
  BY DEF AuditInv, TablesSound
<1>4. now \in Nat
  BY AuditAssumption
<1>5. /\ d.seq = HeadOf(rows).seq + 1 /\ d.prev = HeadOf(rows).hash /\ d.ts = now
      /\ d.fmt = 5 /\ d.key = signer
      /\ d.sig = Signature(d.key, VerdictMessage(d.seq, d.hash, d.body))
      /\ Hashed({d})
  BY <1>1, <1>4, NewRowHashed DEF SignedRow, EntryRow, Formats
<1>6. d.seq = Cardinality(rows) + 1 /\ Cardinality(rows) \in Nat
  BY <1>3, <1>5, HeadFacts
<1>7. /\ GapFree(rows \cup {d})
      /\ Cardinality(rows \cup {d}) = Cardinality(rows) + 1
      /\ \A r \in rows : Previous(rows \cup {d}, r) = Previous(rows, r)
      /\ Previous(rows \cup {d}, d) = HeadOf(rows)
      /\ \A n \in 0..Cardinality(rows) : UpTo(rows \cup {d}, n) = UpTo(rows, n)
  BY <1>3, <1>6, AddRow
<1>8. SessionShape' /\ Reported'
  BY <1>2 DEF AuditInv, SessionShape, Reported
<1>9. TablesSound'
  <2>1. Hashed(rows \cup {d})
    BY <1>3, <1>5 DEF Hashed
  <2> QED BY <1>2, <1>7, <2>1 DEF AuditInv, TablesSound
<1>10. Clean' <=> Clean
  BY <1>2 DEF Clean
<1>11. ASSUME Clean PROVE RowsGenuine'
  <2>1. RowsGenuine
    BY <1>11 DEF AuditInv
  <2>2. \A r \in rows \cup {d} : /\ r.fmt = 5 /\ r.key \in keyTable
          /\ r.sig = Signature(r.key, VerdictMessage(r.seq, r.hash, r.body))
    BY <1>5, <2>1 DEF RowsGenuine
  <2>3. ChainLinkage(rows \cup {d})
    BY <1>5, <1>7, <2>1 DEF RowsGenuine, ChainLinkage
  <2>4. "clock" \notin faults' => TimestampOrdering(rows \cup {d})
    <3> SUFFICES ASSUME "clock" \notin faults' PROVE TimestampOrdering(rows \cup {d})
      OBVIOUS
    <3>1. "clock" \notin faults /\ ~(now < HeadOf(rows).ts)
      BY <1>2
    <3>2. HeadOf(rows).ts <= now
      BY <1>3, <1>4, <3>1, HeadTime
    <3> QED BY <1>5, <1>7, <2>1, <3>1, <3>2 DEF RowsGenuine, TimestampOrdering
  <2> QED BY <1>2, <2>1, <2>2, <2>3, <2>4 DEF RowsGenuine
<1>12. ASSUME Clean PROVE CheckpointsGenuine'
  <2>1. CheckpointsGenuine
    BY <1>12 DEF AuditInv
  <2>2. \A c \in checkpoints : Sealed(c)
    BY DEF AuditInv, TablesSound
  <2>3. ASSUME NEW c \in checkpoints
        PROVE  c.size <= Cardinality(rows \cup {d}) /\ c.covers = UpTo(rows \cup {d}, c.size)
    <3>1. c.size \in Nat
      BY <2>2, HeadFacts DEF Sealed
    <3>2. c.size <= Cardinality(rows) /\ c.covers = UpTo(rows, c.size)
      BY <2>1 DEF CheckpointsGenuine
    <3>3. c.size \in 0..Cardinality(rows) /\ c.size <= Cardinality(rows) + 1
      BY <1>6, <3>1, <3>2
    <3> QED BY <1>7, <3>2, <3>3
  <2> QED BY <1>2, <2>1, <2>3 DEF CheckpointsGenuine
<1>13. ASSUME Clean PROVE ReadsGenuine'
  <2>1. ReadsGenuine
    BY <1>13 DEF AuditInv
  <2>2. Cardinality(session.entries) \in Nat
    BY <1>3, HeadFacts
  <2>3. Cardinality(session.entries) <= Cardinality(rows) =>
          /\ Cardinality(session.entries) <= Cardinality(rows \cup {d})
          /\ UpTo(rows \cup {d}, Cardinality(session.entries))
               = UpTo(rows, Cardinality(session.entries))
    BY <1>6, <1>7, <2>2
  <2> QED BY <1>2, <2>1, <2>3 DEF ReadsGenuine
<1>14. AlarmsExplained'
  BY <1>2 DEF AuditInv, AlarmsExplained
<1> QED BY <1>8, <1>9, <1>10, <1>11, <1>12, <1>13, <1>14 DEF AuditInv

\* A checkpoint is signed over all rows; a tool between two reads is marked.
LEMMA InvCheckpoint ==
  ASSUME AuditInv, Checkpoint
  PROVE  AuditInv'
<1>1. PICK c : c = SignedCheckpoint(rows, signer)
  OBVIOUS
<1>2. /\ rows # {} /\ checkpoints' = checkpoints \cup {c} /\ session' = Moved
      /\ UNCHANGED <<rows, keyTable, files, signer, written, faults>>
  BY <1>1 DEF Checkpoint
<1>3. GapFree(rows) /\ Hashed(rows)
  BY DEF AuditInv, TablesSound
<1>4. /\ Sealed(c) /\ c.size = Cardinality(rows) /\ c.covers = rows /\ c.key = signer
      /\ c.sig = Signature(c.key, <<c.size, c.root, c.last>>)
  BY <1>1, <1>2, <1>3, SignedCheckpointFacts
<1>5. /\ session'.pc = session.pc /\ session'.entries = session.entries
      /\ session'.ring = session.ring /\ session'.files = session.files
      /\ session'.issues = session.issues
      /\ session.pc \in {"rows", "ring"} => session'.moved
      /\ session.pc \notin {"rows", "ring"} => session' = session
      /\ session' = [pc |-> session'.pc, entries |-> session'.entries, ring |-> session'.ring,
                     files |-> session'.files, issues |-> session'.issues,
                     moved |-> session'.moved]
  BY <1>2 DEF Moved, AuditInv, SessionShape
<1>6. SessionShape' /\ Reported' /\ AlarmsExplained'
  <2>1. SessionShape'
    BY <1>5 DEF AuditInv, SessionShape
  <2>2. Reported'
    BY <1>5 DEF AuditInv, Reported
  <2>3. AlarmsExplained'
    BY <1>2, <1>5 DEF AuditInv, AlarmsExplained
  <2> QED BY <2>1, <2>2, <2>3
<1>7. TablesSound'
  BY <1>2, <1>4, <1>5 DEF AuditInv, TablesSound
<1>8. ASSUME Clean PROVE RowsGenuine' /\ CheckpointsGenuine'
  <2>1. RowsGenuine /\ CheckpointsGenuine
    BY <1>8 DEF AuditInv
  <2>2. RowsGenuine'
    BY <1>2, <2>1 DEF RowsGenuine
  <2>3. c.size <= Cardinality(rows) /\ c.covers = UpTo(rows, c.size)
    BY <1>3, <1>4, AllRows, HeadFacts
  <2>4. CheckpointsGenuine'
    BY <1>2, <1>4, <2>1, <2>3 DEF RowsGenuine, CheckpointsGenuine
  <2> QED BY <2>2, <2>4
<1>9. ASSUME Clean PROVE ReadsGenuine'
  <2>1. ReadsGenuine
    BY <1>9 DEF AuditInv
  <2>2. session'.pc # "idle" /\ session'.pc # "done" => session'.moved
    BY <1>5 DEF AuditInv, SessionShape
  <2> QED BY <1>2, <1>5, <2>1, <2>2 DEF ReadsGenuine
<1>10. Clean' <=> Clean
  BY <1>2 DEF Clean
<1> QED BY <1>6, <1>7, <1>8, <1>9, <1>10 DEF AuditInv

\* A restart registers the new key before it is used.
LEMMA InvRestart ==
  ASSUME AuditInv, NEW key \in Keys, Restart(key)
  PROVE  AuditInv'
<1>1. /\ signer' = key /\ keyTable' = keyTable \cup {key}
      /\ UNCHANGED <<rows, checkpoints, files, session, written, faults>>
  BY DEF Restart
<1>2. SessionShape' /\ Reported' /\ TablesSound' /\ AlarmsExplained'
  BY <1>1 DEF AuditInv, SessionShape, Reported, TablesSound, AlarmsExplained
<1>3. ASSUME Clean PROVE RowsGenuine' /\ CheckpointsGenuine' /\ ReadsGenuine'
  <2>1. RowsGenuine /\ CheckpointsGenuine /\ ReadsGenuine
    BY <1>3 DEF AuditInv
  <2>2. RowsGenuine'
    BY <1>1, <2>1 DEF RowsGenuine
  <2>3. CheckpointsGenuine'
    BY <1>1, <2>1 DEF CheckpointsGenuine
  <2>4. ReadsGenuine'
    BY <1>1, <2>1 DEF ReadsGenuine
  <2> QED BY <2>2, <2>3, <2>4
<1>4. Clean' <=> Clean
  BY <1>1 DEF Clean
<1> QED BY <1>2, <1>3, <1>4 DEF AuditInv

\* An idle tool has reported nothing.
LEMMA IdleSession ==
  ASSUME AuditInv, session.pc = "idle", session' = session
  PROVE  SessionShape' /\ Reported' /\ AlarmsExplained' /\ session.entries = {} /\ session.files = {}
<1>1. SessionShape'
  BY DEF AuditInv, SessionShape
<1>2. Reported' /\ AlarmsExplained'
  BY DEF Reported, AlarmsExplained
<1>3. session.entries = {} /\ session.files = {}
  BY DEF AuditInv, SessionShape, Idle
<1> QED BY <1>1, <1>2, <1>3

\* A restored ledger is the first n rows of the one that was there.
LEMMA InvRestoreBackup ==
  ASSUME AuditInv, NEW n \in 0..MaxRows, NEW m \in 0..MaxRows, RestoreBackup(n, m)
  PROVE  AuditInv'
<1>1. /\ session.pc = "idle" /\ n < Cardinality(rows)
      /\ rows' = UpTo(rows, n) /\ checkpoints' \subseteq checkpoints
      /\ "restored" \in faults'
      /\ UNCHANGED <<files, session, written>>
  BY DEF RestoreBackup
<1>2. GapFree(rows) /\ Hashed(rows)
  BY DEF AuditInv, TablesSound
<1>3. n \in 0..Cardinality(rows)
  BY <1>1, <1>2, HeadFacts, AuditAssumption
<1>4. GapFree(UpTo(rows, n)) /\ UpTo(rows, n) \subseteq rows
  BY <1>2, <1>3, FirstRows
<1>5. Hashed(UpTo(rows, n))
  BY <1>2, <1>4 DEF Hashed
<1>6. TablesSound'
  BY <1>1, <1>4, <1>5 DEF AuditInv, TablesSound
<1>7. ~Clean'
  BY <1>1 DEF Clean
<1> QED BY <1>1, <1>6, <1>7, IdleSession DEF AuditInv

\* A rewritten ledger is still numbered and hashed, but its new rows carry the
\* foreign key.
LEMMA InvRewrite ==
  ASSUME AuditInv, NEW i \in 1..MaxRows, NEW body \in Body, NEW fmt \in Formats,
         NEW resign \in BOOLEAN, Rewrite(i, body, fmt, resign)
  PROVE  AuditInv'
<1>1. PICK kept : kept = UpTo(rows, i - 1)
  OBVIOUS
<1>2. PICK d : d = SignedRow(HeadOf(kept), HeadOf(kept).ts, body, fmt, Foreign)
  OBVIOUS
<1>3. PICK c : c = SignedCheckpoint(kept \cup {d}, Foreign)
  OBVIOUS
<1>4. /\ session.pc = "idle" /\ (i = Cardinality(rows) + 1 \/ i <= Cardinality(rows))
      /\ rows' = kept \cup {d} /\ checkpoints' \subseteq checkpoints \cup {c}
      /\ "rewritten" \in faults'
      /\ UNCHANGED <<files, session, written>>
  BY <1>1, <1>2, <1>3 DEF Rewrite
<1>5. GapFree(rows) /\ Hashed(rows)
  BY DEF AuditInv, TablesSound
<1>6. i - 1 \in 0..Cardinality(rows) /\ i \in Nat
  BY <1>4, <1>5, HeadFacts, AuditAssumption
<1>7. GapFree(kept) /\ kept \subseteq rows /\ Cardinality(kept) = i - 1
  BY <1>1, <1>5, <1>6, FirstRows
<1>8. Hashed(kept)
  BY <1>5, <1>7 DEF Hashed
<1>9. HeadOf(kept).ts \in Nat /\ HeadOf(kept).seq = Cardinality(kept)
  BY <1>7, <1>8, HeadFacts, HeadTime
<1>10. d.seq = Cardinality(kept) + 1 /\ d.key = Foreign /\ Hashed({d})
  BY <1>2, <1>9, NewRowHashed DEF SignedRow, EntryRow
<1>11. GapFree(kept \cup {d}) /\ Hashed(kept \cup {d})
  <2>1. Hashed(kept \cup {d})
    BY <1>8, <1>10 DEF Hashed
  <2> QED BY <1>7, <1>10, <2>1, AddRow
<1>12. Sealed(c)
  <2>1. kept \cup {d} # {}
    OBVIOUS
  <2> QED BY <1>3, <1>11, <2>1, SignedCheckpointFacts
<1>13. TablesSound'
  BY <1>4, <1>7, <1>10, <1>11, <1>12 DEF AuditInv, TablesSound
<1>14. ~Clean'
  BY <1>4 DEF Clean
<1> QED BY <1>4, <1>13, <1>14, IdleSession DEF AuditInv

\* An exported file is a checkpoint of the table.
LEMMA InvExportCheckpoints ==
  ASSUME AuditInv, ExportCheckpoints
  PROVE  AuditInv'
<1>1. /\ files' \subseteq files \cup checkpoints
      /\ UNCHANGED <<rows, keyTable, checkpoints, signer, session, written, faults>>
  BY DEF ExportCheckpoints, ledgerVars
<1>2. SessionShape' /\ Reported' /\ TablesSound' /\ AlarmsExplained'
  BY <1>1 DEF AuditInv, SessionShape, Reported, TablesSound, AlarmsExplained
<1>3. ASSUME Clean PROVE RowsGenuine' /\ CheckpointsGenuine' /\ ReadsGenuine'
  BY <1>1, <1>3 DEF AuditInv, RowsGenuine, CheckpointsGenuine, ReadsGenuine
<1>4. Clean' <=> Clean
  BY <1>1 DEF Clean
<1> QED BY <1>2, <1>3, <1>4 DEF AuditInv

\* The tables and the clock are the same after a read.
LEMMA TablesRead ==
  ASSUME AuditInv, UNCHANGED <<ledgerVars, files, signer, written, faults>>
  PROVE  /\ Clean' <=> Clean
         /\ Clean => RowsGenuine' /\ CheckpointsGenuine'
<1>1. UNCHANGED <<rows, keyTable, checkpoints, files, signer, faults>>
  BY DEF ledgerVars
<1>2. Clean' <=> Clean
  BY <1>1 DEF Clean
<1>3. Clean => RowsGenuine' /\ CheckpointsGenuine'
  BY <1>1 DEF AuditInv, RowsGenuine, CheckpointsGenuine
<1> QED BY <1>2, <1>3

\* The entries are read: all rows, and the files that are given.
LEMMA InvReadEntries ==
  ASSUME AuditInv, ReadEntries
  PROVE  AuditInv'
<1>1. /\ session' = [pc |-> "rows", entries |-> rows, ring |-> {}, files |-> files,
                     issues |-> {}, moved |-> FALSE]
      /\ UNCHANGED <<rows, keyTable, checkpoints, files, signer, written, faults>>
      /\ UNCHANGED <<ledgerVars, files, signer, written, faults>>
  BY DEF ReadEntries, Idle, ledgerVars
<1>2. /\ session'.pc = "rows" /\ session'.entries = rows /\ session'.ring = {}
      /\ session'.files = files /\ session'.issues = {}
  BY <1>1
<1>3. SessionShape' /\ Reported' /\ AlarmsExplained'
  BY <1>1, <1>2 DEF SessionShape, Reported, AlarmsExplained
<1>4. TablesSound'
  BY <1>1, <1>2 DEF AuditInv, TablesSound
<1>5. ASSUME Clean PROVE ReadsGenuine'
  <2>1. CheckpointsGenuine
    BY <1>5 DEF AuditInv
  <2>2. UpTo(rows, Cardinality(rows)) = rows /\ Cardinality(rows) \in Nat
    BY AllRows, HeadFacts DEF AuditInv, TablesSound
  <2>3. /\ \A f \in files : f \in checkpoints
        /\ \A c \in checkpoints : c.size <= Cardinality(rows)
    BY <2>1 DEF CheckpointsGenuine
  <2> QED BY <1>1, <1>2, <2>2, <2>3 DEF ReadsGenuine
<1> QED BY <1>1, <1>3, <1>4, <1>5, TablesRead DEF AuditInv

\* The ring is read: it holds the keys of all rows and checkpoints of now.
LEMMA InvReadKeys ==
  ASSUME AuditInv, ReadKeys
  PROVE  AuditInv'
<1>1. /\ session.pc = "rows"
      /\ session' = [session EXCEPT !.pc = IF session.entries = {} THEN "done" ELSE "ring",
                                    !.ring = keyTable]
      /\ UNCHANGED <<rows, keyTable, checkpoints, files, signer, written, faults>>
      /\ UNCHANGED <<ledgerVars, files, signer, written, faults>>
  BY DEF ReadKeys, ledgerVars
<1>2. session = [pc |-> session.pc, entries |-> session.entries, ring |-> session.ring,
                 files |-> session.files, issues |-> session.issues, moved |-> session.moved]
  BY DEF AuditInv, SessionShape
<1>3. session' = [pc |-> IF session.entries = {} THEN "done" ELSE "ring",
                  entries |-> session.entries, ring |-> keyTable, files |-> session.files,
                  issues |-> session.issues, moved |-> session.moved]
  BY <1>1, <1>2
<1>4. /\ session'.pc \in {"ring", "done"} /\ (session'.pc = "done" <=> session.entries = {})
      /\ session'.entries = session.entries /\ session'.ring = keyTable
      /\ session'.files = session.files /\ session'.issues = session.issues
      /\ session'.moved = session.moved
  BY <1>3
<1>5. session.issues = {}
  BY <1>1 DEF AuditInv, SessionShape
<1>6. SessionShape' /\ Reported' /\ AlarmsExplained'
  BY <1>3, <1>4, <1>5 DEF SessionShape, Reported, AlarmsExplained
<1>7. TablesSound'
  BY <1>1, <1>4 DEF AuditInv, TablesSound
<1>8. ASSUME Clean PROVE ReadsGenuine'
  <2>1. RowsGenuine /\ CheckpointsGenuine /\ ReadsGenuine
    BY <1>8 DEF AuditInv
  <2>2. session.entries \subseteq rows
    BY <1>1, <2>1 DEF ReadsGenuine, UpTo
  <2>3. \A r \in session.entries : r.key \in keyTable
    BY <2>1, <2>2 DEF RowsGenuine
  <2>4. \A c \in checkpoints : c.key \in keyTable
    BY <2>1 DEF CheckpointsGenuine
  <2>5. keyTable \subseteq Keys
    BY <2>1 DEF RowsGenuine
  <2> QED BY <1>1, <1>4, <2>1, <2>3, <2>4, <2>5 DEF ReadsGenuine
<1> QED BY <1>1, <1>6, <1>7, <1>8, TablesRead DEF AuditInv

\* On a ledger nobody touched, what the last step reports is explained.
LEMMA ReportExplained ==
  ASSUME AuditInv, Clean, session.pc = "ring", Pins \in {{}, Keys},
         NEW issue \in EntryIssues(session.entries, session.ring) \cup
                       CheckpointIssues(checkpoints, session.files, session.entries,
                                        session.ring)
  PROVE  \/ issue = "TIMESTAMP_ORDER" /\ "clock" \in faults
         \/ /\ issue \in {"CHECKPOINT_BEYOND_LEDGER", "CHECKPOINT_SIGNATURE_INVALID"}
            /\ session.moved
<1>1. RowsGenuine /\ CheckpointsGenuine /\ ReadsGenuine
  BY DEF AuditInv
<1>2. PICK n : n = Cardinality(session.entries)
  OBVIOUS
<1>3. /\ GapFree(rows) /\ GapFree(session.entries) /\ Hashed(session.entries)
      /\ \A c \in checkpoints : Sealed(c)
  BY DEF AuditInv, TablesSound
<1>4. session.entries = UpTo(rows, n) /\ n <= Cardinality(rows)
  BY <1>1, <1>2 DEF ReadsGenuine
<1>5. n \in 0..Cardinality(rows)
  BY <1>2, <1>3, <1>4, HeadFacts
<1>6. /\ session.entries \subseteq rows
      /\ \A r \in session.entries : Previous(session.entries, r) = Previous(rows, r)
  BY <1>3, <1>4, <1>5, FirstRows
<1>7. CASE issue \in EntryIssues(session.entries, session.ring)
  <2>1. ChainLinkage(session.entries)
    BY <1>1, <1>6 DEF RowsGenuine, ChainLinkage
  <2>2. "clock" \notin faults => TimestampOrdering(session.entries)
    BY <1>1, <1>6 DEF RowsGenuine, TimestampOrdering
  <2>3. \A r \in session.entries : /\ r.fmt = 5 /\ r.key \in session.ring
          /\ r.sig = Signature(r.key, VerdictMessage(r.seq, r.hash, r.body))
    BY <1>1, <1>6 DEF RowsGenuine, ReadsGenuine
  <2>4. session.ring \subseteq Keys
    BY <1>1 DEF ReadsGenuine
  <2>5. issue = "TIMESTAMP_ORDER" /\ ~TimestampOrdering(session.entries)
    BY <1>3, <1>7, <2>1, <2>3, <2>4, CleanEntries
  <2> QED BY <2>2, <2>5
<1>8. ASSUME NEW c \in checkpoints, NEW ring
      PROVE  /\ CheckOne(c, session.entries, ring) \in
                  {"OK", "CHECKPOINT_BEYOND_LEDGER", "CHECKPOINT_SIGNATURE_INVALID"}
             /\ c.size <= n /\ c.key \in ring => CheckOne(c, session.entries, ring) = "OK"
  <2>1. /\ Sealed(c) /\ c.size <= Cardinality(rows) /\ c.covers = UpTo(rows, c.size)
        /\ c.sig = Signature(c.key, <<c.size, c.root, c.last>>) /\ c.key \in keyTable
    BY <1>1, <1>3 DEF CheckpointsGenuine
  <2>2. c.key \in Keys
    BY <1>1, <2>1 DEF RowsGenuine
  <2> QED BY <1>3, <1>4, <1>5, <2>1, <2>2, CleanCheckpoint
<1>9. CASE issue \in CheckpointIssues(checkpoints, session.files, session.entries, session.ring)
  <2>1. issue # "OK"
    BY <1>9 DEF CheckpointIssues
  <2>2. CASE \E c \in checkpoints : issue = CheckOne(c, session.entries, session.ring)
    <3>1. PICK c \in checkpoints : issue = CheckOne(c, session.entries, session.ring)
      BY <2>2
    <3>2. issue \in {"CHECKPOINT_BEYOND_LEDGER", "CHECKPOINT_SIGNATURE_INVALID"}
      BY <1>8, <2>1, <3>1
    <3>3. ~(c.size <= n /\ c.key \in session.ring)
      BY <1>8, <2>1, <3>1
    <3>4. session.moved
      BY <1>1, <1>2, <3>3 DEF ReadsGenuine
    <3> QED BY <3>2, <3>4
  <2>3. CASE \E f \in session.files : issue = CheckOne(f, session.entries, {f.key})
    <3>1. PICK f \in session.files : issue = CheckOne(f, session.entries, {f.key})
      BY <2>3
    <3>2. f \in checkpoints /\ f.size <= n
      BY <1>1, <1>2 DEF ReadsGenuine
    <3>3. f.key \in {f.key}
      OBVIOUS
    <3>4. issue = "OK"
      BY <1>8, <3>1, <3>2, <3>3
    <3> QED BY <2>1, <3>4
  <2> QED BY <1>9, <2>2, <2>3 DEF CheckpointIssues
<1> QED BY <1>7, <1>9

\* The checkpoints are read and the report is made.
LEMMA InvReadCheckpoints ==
  ASSUME AuditInv, ReadCheckpoints
  PROVE  AuditInv'
<1>1. PICK found : found = EntryIssues(session.entries, session.ring) \cup
          CheckpointIssues(checkpoints, session.files, session.entries, session.ring)
  OBVIOUS
<1>2. /\ session.pc = "ring"
      /\ session' = [session EXCEPT !.pc = "done", !.issues = found]
      /\ UNCHANGED <<rows, keyTable, checkpoints, files, signer, written, faults>>
      /\ UNCHANGED <<ledgerVars, files, signer, written, faults>>
  BY <1>1 DEF ReadCheckpoints, ledgerVars
<1>3. session = [pc |-> session.pc, entries |-> session.entries, ring |-> session.ring,
                 files |-> session.files, issues |-> session.issues, moved |-> session.moved]
  BY DEF AuditInv, SessionShape
<1>4. session' = [pc |-> "done", entries |-> session.entries, ring |-> session.ring,
                  files |-> session.files, issues |-> found, moved |-> session.moved]
  BY <1>2, <1>3
<1>5. /\ session'.pc = "done" /\ session'.issues = found
      /\ session'.entries = session.entries /\ session'.ring = session.ring
      /\ session'.files = session.files /\ session'.moved = session.moved
  BY <1>4
<1>6. Reported'
  <2>1. EntryIssues(session.entries, session.ring) \subseteq found
    BY <1>1
  <2>2. \A f \in session.files : CheckOne(f, session.entries, {f.key}) \in found \cup {"OK"}
    BY <1>1 DEF CheckpointIssues
  <2> QED BY <1>5, <2>1, <2>2 DEF Reported
<1>7. TablesSound'
  BY <1>2, <1>5 DEF AuditInv, TablesSound
<1>8. ASSUME Clean PROVE ReadsGenuine'
  BY <1>2, <1>5, <1>8 DEF AuditInv, ReadsGenuine
<1>9. AlarmsExplained'
  <2> SUFFICES ASSUME Clean, Pins \in {{}, Keys}, NEW issue \in found
               PROVE  \/ issue = "TIMESTAMP_ORDER" /\ "clock" \in faults
                      \/ /\ issue \in {"CHECKPOINT_BEYOND_LEDGER",
                                       "CHECKPOINT_SIGNATURE_INVALID"}
                         /\ session.moved
    BY <1>2, <1>5 DEF AlarmsExplained, Clean
  <2> QED BY <1>1, <1>2, ReportExplained
<1>10. SessionShape'
  <2>1. session.entries # {}
    BY <1>2 DEF AuditInv, SessionShape
  <2> QED BY <1>4, <1>5, <2>1 DEF SessionShape
<1> QED BY <1>2, <1>6, <1>7, <1>8, <1>9, <1>10, TablesRead DEF AuditInv

-----------------------------------------------------------------------------
\* Every step keeps the invariant.
LEMMA InvNext == AuditInv /\ [Next]_vars => AuditInv'
<1> SUFFICES ASSUME AuditInv, [Next]_vars PROVE AuditInv'
  OBVIOUS
<1>1. ASSUME NEW body \in Body, NEW now \in 0..MaxTime, Append(body, now) PROVE AuditInv'
  BY <1>1, InvAppend
<1>2. CASE Checkpoint
  BY <1>2, InvCheckpoint
<1>3. ASSUME NEW key \in Keys, Restart(key) PROVE AuditInv'
  BY <1>3, InvRestart
<1>4. ASSUME NEW n \in 0..MaxRows, NEW m \in 0..MaxRows, RestoreBackup(n, m) PROVE AuditInv'
  BY <1>4, InvRestoreBackup
<1>5. ASSUME NEW i \in 1..MaxRows, NEW body \in Body, NEW fmt \in Formats,
             NEW resign \in BOOLEAN, Rewrite(i, body, fmt, resign)
      PROVE  AuditInv'
  BY <1>5, InvRewrite
<1>6. CASE ExportCheckpoints
  BY <1>6, InvExportCheckpoints
<1>7. CASE ReadEntries
  BY <1>7, InvReadEntries
<1>8. CASE ReadKeys
  BY <1>8, InvReadKeys
<1>9. CASE ReadCheckpoints
  BY <1>9, InvReadCheckpoints
<1>10. CASE UNCHANGED vars
  <2>1. UNCHANGED <<rows, keyTable, checkpoints, files, signer, session, written, faults>>
    BY <1>10 DEF vars, ledgerVars
  <2>2. SessionShape' /\ Reported' /\ TablesSound' /\ AlarmsExplained'
    BY <2>1 DEF AuditInv, SessionShape, Reported, TablesSound, AlarmsExplained
  <2>3. (Clean => RowsGenuine /\ CheckpointsGenuine /\ ReadsGenuine)'
    BY <2>1 DEF AuditInv, Clean, RowsGenuine, CheckpointsGenuine, ReadsGenuine
  <2> QED BY <2>2, <2>3 DEF AuditInv
<1> QED BY <1>1, <1>2, <1>3, <1>4, <1>5, <1>6, <1>7, <1>8, <1>9, <1>10 DEF Next

\* The inductive invariant, for every pinning, every length of the ledger and
\* every hash: the tables stay numbered and hashed under appends, checkpoints,
\* restarts, restored backups and rewrites, and what verify_integrity holds
\* between its three reads is an earlier state of a ledger nobody touched.
THEOREM AuditInvariant == Spec => []AuditInv
<1> QED BY InvInit, InvNext, PTL DEF Spec

\* verify_integrity with pinned keys never passes on, and reports verified
\* signatures for, an entry the runtime did not commit, and what it passes is
\* linked without a gap.
THEOREM ValidAlwaysGenuine == Spec => []ValidIsGenuine
<1>1. AuditInv => ValidIsGenuine
  <2> SUFFICES ASSUME AuditInv, Passed, Pins # {},
                      \A r \in session.entries : SignatureVerified(session.ring, r)
               PROVE  /\ session.entries \subseteq written
                      /\ \A r \in session.entries :
                           r.seq > 1 => \E s \in session.entries :
                                          s.seq = r.seq - 1 /\ r.prev = s.hash
    BY DEF ValidIsGenuine
  <2>1. GapFree(session.entries)
    BY DEF AuditInv, TablesSound
  <2>2. \A r \in session.entries : r \in written \/ r.key = Foreign
    BY DEF AuditInv, TablesSound
  <2>3. \A r \in session.entries : r.key \in Pins
    BY DEF SignatureVerified, IsTrusted
  <2>4. session.entries \subseteq written
    BY <2>2, <2>3, AuditAssumption
  <2>5. ASSUME NEW r \in session.entries, r.seq > 1
        PROVE  \E s \in session.entries : s.seq = r.seq - 1 /\ r.prev = s.hash
    <3>1. EntryIssues(session.entries, session.ring) = {}
      BY <2>5 DEF AuditInv, Reported, Passed
    <3>2. r.prev = Previous(session.entries, r).hash
      BY <2>5, <3>1, NoEntryIssue DEF ChainLinkage
    <3>3. /\ Previous(session.entries, r) \in session.entries
          /\ Previous(session.entries, r).seq + 1 = r.seq
      BY <2>1, <2>5, PreviousFacts
    <3>4. Previous(session.entries, r).seq \in Nat
      BY <2>1, <3>3, HeadFacts
    <3>5. Previous(session.entries, r).seq = r.seq - 1
      BY <3>3, <3>4
    <3> QED BY <3>2, <3>3, <3>5
  <2> QED BY <2>4, <2>5
<1> QED BY <1>1, AuditInvariant, PTL

\* An alarm of verify_integrity on a ledger nobody touched is the time stamp
\* order of a clock that was set back, or a checkpoint signed between the
\* three reads: an audit of a ledger at rest passes.
THEOREM AlarmsAlwaysExplained == Spec => []AlarmsExplained
<1>1. AuditInv => AlarmsExplained
  BY DEF AuditInv
<1> QED BY <1>1, AuditInvariant, PTL

-----------------------------------------------------------------------------
\* SHA-256 tells entry payloads apart, and the Merkle root lists of hashes.
CollisionFree ==
  /\ \A seq1, prev1, ts1, body1, fmt1, seq2, prev2, ts2, body2, fmt2 :
       EntryHash(seq1, prev1, ts1, body1, fmt1) = EntryHash(seq2, prev2, ts2, body2, fmt2)
         => EntryPayload(seq1, prev1, ts1, body1, fmt1)
              = EntryPayload(seq2, prev2, ts2, body2, fmt2)
  /\ \A A, B : Root(HashList(A)) = Root(HashList(B)) => HashList(A) = HashList(B)

\* Rows with the same hashes have the same contents.
LEMMA SameHashesSameContents ==
  ASSUME NEW A, NEW B, GapFree(A), GapFree(B), Hashed(A), Hashed(B), CollisionFree,
         Root(HashList(A)) = Root(HashList(B))
  PROVE  Contents(A) \subseteq Contents(B)
<1>1. HashList(A) = HashList(B)
  BY DEF CollisionFree
<1>2. {r.seq : r \in A} = {r.seq : r \in B}
  <2>1. DOMAIN HashList(A) = {r.seq : r \in A} /\ DOMAIN HashList(B) = {r.seq : r \in B}
    BY DEF HashList
  <2> QED BY <1>1, <2>1
<1>3. ASSUME NEW R, GapFree(R), NEW r \in R PROVE HashList(R)[r.seq] = r.hash
  <2>1. r.seq \in {s.seq : s \in R}
    OBVIOUS
  <2>2. HashList(R)[r.seq] = (CHOOSE s \in R : s.seq = r.seq).hash
    BY <2>1 DEF HashList
  <2>3. (CHOOSE s \in R : s.seq = r.seq) = r
    BY <1>3 DEF GapFree
  <2> QED BY <2>2, <2>3
<1>4. ASSUME NEW a \in A
      PROVE  \E b \in B : <<a.seq, a.ts, a.body, a.prev>> = <<b.seq, b.ts, b.body, b.prev>>
  <2>1. PICK b \in B : b.seq = a.seq
    BY <1>2
  <2>2. a.hash = b.hash
    BY <1>1, <1>3, <2>1
  <2>3. EntryHash(a.seq, a.prev, a.ts, a.body, a.fmt)
          = EntryHash(b.seq, b.prev, b.ts, b.body, b.fmt)
    BY <2>2 DEF Hashed
  <2>4. EntryPayload(a.seq, a.prev, a.ts, a.body, a.fmt)
          = EntryPayload(b.seq, b.prev, b.ts, b.body, b.fmt)
    BY <2>3 DEF CollisionFree
  <2>5. a.seq = b.seq /\ a.ts = b.ts /\ a.body = b.body /\ a.prev = b.prev
    BY <2>4 DEF EntryPayload
  <2> QED BY <2>5
<1> QED BY <1>4 DEF Contents

\* verify_integrity given exported checkpoint files never passes on a ledger
\* that lost or altered an entry one of those checkpoints covers, whoever
\* signed it and whatever was restored or rewritten, as long as the hashes
\* have no collisions.
THEOREM SealedAlwaysSurvive ==
  ASSUME CollisionFree
  PROVE  Spec => []SealedEntriesSurvive
<1>1. AuditInv => SealedEntriesSurvive
  <2> SUFFICES ASSUME AuditInv, Passed, session.entries # {},
                      NEW f \in session.files
               PROVE  Contents(f.covers) \subseteq Contents(session.entries)
    BY DEF SealedEntriesSurvive
  <2>1. GapFree(session.entries) /\ Hashed(session.entries) /\ Sealed(f)
    BY DEF AuditInv, TablesSound
  <2>2. CheckOne(f, session.entries, {f.key}) = "OK"
    BY DEF AuditInv, Reported, Passed
  <2>3. CheckpointMatches(session.entries, f)
    BY <2>2 DEF CheckOne
  <2>4. PICK kept : kept = UpTo(session.entries, f.size)
    OBVIOUS
  <2>5. Root(HashList(f.covers)) = Root(HashList(kept)) /\ f.size <= Cardinality(session.entries)
    BY <2>1, <2>3, <2>4 DEF CheckpointMatches, Sealed
  <2>6. f.size \in 0..Cardinality(session.entries)
    <3>1. f.size \in Nat /\ Cardinality(session.entries) \in Nat
      BY <2>1, HeadFacts DEF Sealed
    <3> QED BY <2>5, <3>1
  <2>7. GapFree(kept) /\ kept \subseteq session.entries
    BY <2>1, <2>4, <2>6, FirstRows
  <2>8. Hashed(kept)
    BY <2>1, <2>7 DEF Hashed
  <2>9. Contents(f.covers) \subseteq Contents(kept)
    BY <2>1, <2>5, <2>7, <2>8, SameHashesSameContents DEF Sealed
  <2>10. Contents(kept) \subseteq Contents(session.entries)
    BY <2>7 DEF Contents
  <2> QED BY <2>9, <2>10
<1> QED BY <1>1, AuditInvariant, PTL
=============================================================================
