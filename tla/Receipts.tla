------------------------------ MODULE Receipts ------------------------------
(***************************************************************************)
(* Evidence for one ledger entry: GET /api/ledger/{sequence}/evidence      *)
(* reads the row, picks a checkpoint and reads the entry hashes, each in   *)
(* a statement of its own, and signs a SCITT statement with a COSE receipt *)
(* and a TRACE record, while entries and checkpoints are added and the     *)
(* service restarts with another key, and while the owner of the database  *)
(* rewrites a row.  A relying party verifies what reaches it, in whatever  *)
(* form, with the runtime's key and a checkpoint that was exported.        *)
(*                                                                         *)
(* A COSE_Sign1 message is a record of its protected header, its           *)
(* unprotected header, its payload and its signature; a signature is the   *)
(* pair of its key and the structure it covers.  The CBOR bytes are left   *)
(* out.                                                                    *)
(***************************************************************************)
EXTENDS Merkle, FiniteSets

CONSTANTS
  Keys,        \* deployment keys
  MaxLen,      \* bound on the ledger
  MaxIssued,   \* bound on the statements handed out
  MaxRewrites  \* bound on the rows the database owner rewrites

ASSUME ReceiptsAssumption == {MaxLen, MaxIssued, MaxRewrites} \subseteq Nat

VARIABLES
  ledger,       \* ledger_entries, in sequence order
  checkpoints,  \* ledger_checkpoints, which are also exported
  signer,       \* state.transcript_signer
  request,      \* an evidence request between its reads
  issued        \* the answers handed out

vars == <<ledger, checkpoints, signer, request, issued>>

None == "none"

NoRequest == [pc |-> "idle", seq |-> 0, entry |-> None, size |-> 0]

----------------------------------------------------------------------------
(* Statements and receipts.                                                *)

\* CoseSign1: sign1 signs the Sig_structure, the protected header and the
\* payload; a detached payload is not carried along.
Sign1(key, protected, unprotected, payload, detached) ==
  [protected |-> protected, unprotected |-> unprotected,
   payload |-> IF detached THEN None ELSE payload,
   signature |-> <<key, protected, payload>>]

\* CoseSign1.verify with the public key of key.
CoseVerify(message, key, payload) ==
  message.protected.alg = "EdDSA" /\ message.signature = <<key, message.protected, payload>>

EntryHashes == [i \in 1..Len(ledger) |-> ledger[i].hash]

\* Mutant: a hash that leaves out a column.
EntryUnbound(seq, text) == [seq |-> seq, text |-> text, hash |-> <<"entry", seq>>]

\* The entry hash commits to the sequence number and the rest of the row.
Entry(seq, text) == [seq |-> seq, text |-> text, hash |-> <<"entry", seq, text>>]

\* The entry as append_v3 wrote it.
Written(seq) == Entry(seq, "written")

\* What the owner of the database can leave in a row: another text, and in
\* the hash column the hash that goes with it, the one that was there, or that
\* of another entry.
RowsAt(seq) ==
  {Written(seq), Entry(seq, "rewritten")}
    \cup {[Entry(seq, "rewritten") EXCEPT !.hash = Written(of).hash] : of \in 1..MaxLen}

\* make_signed_statement: the payload is the verdict line with its envelope.
MakeSignedStatement(entry, key) ==
  Sign1(key, [alg |-> "EdDSA", kid |-> key, content_type |-> "ledger-entry"], <<>>, entry, FALSE)

\* make_receipt: the root is signed but not carried, the proof is carried but
\* not signed.
MakeReceipt(hashes, seq, key) ==
  Sign1(key, [alg |-> "EdDSA", kid |-> key, vds |-> "RFC9162_SHA256"],
        <<[size |-> Len(hashes), index |-> seq - 1,
           path |-> InclusionProof(hashes, seq - 1)]>>,
        MerkleRoot(hashes), TRUE)

\* trust_record.  The version of the graph and the build, which are those of
\* the process that answers, are left out.
TrustRecord(entry, receipts) ==
  [subject |-> entry.hash, receipt |-> receipts # <<>>, key |-> signer]

----------------------------------------------------------------------------
(* The relying party.                                                      *)

\* receipt_root, and what verify_transparent_statement asks of the receipt.
ReceiptHolds(receipt, entry, key) ==
  LET proof == receipt.unprotected[1]
      top == WalkUp(entry.hash, proof.index, proof.size, proof.path)
  IN  /\ receipt.protected.vds = "RFC9162_SHA256"
      /\ top.ok /\ top.sn = 0
      /\ proof.index = entry.seq - 1
      /\ CoseVerify(receipt, key, top.r)

\* verify_transparent_statement: everything on the statement must verify.
VerifyTransparentStatement(statement, receipts, key) ==
  /\ CoseVerify(statement, key, statement.payload)
  /\ statement.protected.content_type = "ledger-entry"
  /\ \A i \in DOMAIN receipts : ReceiptHolds(receipts[i], statement.payload, key)

\* The (root, tree_size) pairs it returns.
Roots(statement, receipts) ==
  {<<WalkUp(statement.payload.hash, r.unprotected[1].index, r.unprotected[1].size,
            r.unprotected[1].path).r, r.unprotected[1].size>> : r \in Range(receipts)}

----------------------------------------------------------------------------
(* The service.                                                            *)

Init ==
  /\ ledger = <<>> /\ checkpoints = {} /\ issued = {}
  /\ signer \in Keys
  /\ request = NoRequest

\* append_v3; SkiLedger has its steps.
AppendEntry ==
  /\ Len(ledger) < MaxLen
  /\ ledger' = Append(ledger, Written(Len(ledger) + 1))
  /\ UNCHANGED <<checkpoints, signer, request, issued>>

\* The owner of the database rewrites an entry: what it says, its hash column
\* or both.  Nothing between the table and the signature recomputes the hash.
Rewrite(seq, row) ==
  /\ seq <= Len(ledger) /\ ledger[seq] = Written(seq) /\ row # Written(seq)
  /\ Cardinality({i \in DOMAIN ledger : ledger[i] # Written(i)}) < MaxRewrites
  /\ ledger' = [ledger EXCEPT ![seq] = row]
  /\ UNCHANGED <<checkpoints, signer, request, issued>>

\* LedgerClient.checkpoint; SkiLedger has its steps.
Checkpoint ==
  /\ ledger # <<>> /\ \A c \in checkpoints : c.size < Len(ledger)
  /\ checkpoints' = checkpoints \cup {[size |-> Len(ledger), root |-> MerkleRoot(EntryHashes)]}
  /\ UNCHANGED <<ledger, signer, request, issued>>

\* A restart, with another key.
Restart(key) ==
  /\ key # signer
  /\ signer' = key
  /\ request' = NoRequest
  /\ UNCHANGED <<ledger, checkpoints, issued>>

\* entry_evidence, LedgerClient.evidence: the row; 404 when there is none.
SelectEntry(seq) ==
  /\ request.pc = "idle" /\ Cardinality(issued) < MaxIssued
  /\ seq <= Len(ledger)
  /\ request' = [NoRequest EXCEPT !.pc = "size", !.seq = seq, !.entry = ledger[seq]]
  /\ UNCHANGED <<ledger, checkpoints, signer, issued>>

\* SELECT MIN(tree_size) ... WHERE tree_size >= :seq; 0 stands for NULL.
SelectTreeSize ==
  /\ request.pc = "size"
  /\ LET covering == {c.size : c \in {d \in checkpoints : d.size >= request.seq}} IN
     request' = [request EXCEPT !.pc = "hashes",
                   !.size = IF covering = {} THEN 0
                            ELSE CHOOSE n \in covering : \A m \in covering : n <= m]
  /\ UNCHANGED <<ledger, checkpoints, signer, issued>>

\* Mutant: the hashes of all entries instead of those of the tree.
AnswerUnbounded ==
  /\ request.pc = "hashes"
  /\ LET receipts == IF request.size = 0 THEN <<>>
                     ELSE <<MakeReceipt(EntryHashes, request.seq, signer)>>
     IN  issued' = issued \cup
           {[statement |-> MakeSignedStatement(request.entry, signer),
             receipts |-> receipts, trace |-> TrustRecord(request.entry, receipts)]}
  /\ request' = NoRequest
  /\ UNCHANGED <<ledger, checkpoints, signer>>

\* SELECT entry_hash ... WHERE sequence_number <= :n, then ledger_evidence
\* signs with the key of the process.
Answer ==
  /\ request.pc = "hashes"
  /\ LET receipts == IF request.size = 0 THEN <<>>
                     ELSE <<MakeReceipt(SubSeq(EntryHashes, 1, request.size),
                                        request.seq, signer)>>
     IN  issued' = issued \cup
           {[statement |-> MakeSignedStatement(request.entry, signer),
             receipts |-> receipts, trace |-> TrustRecord(request.entry, receipts)]}
  /\ request' = NoRequest
  /\ UNCHANGED <<ledger, checkpoints, signer>>

Next ==
  \/ AppendEntry
  \/ \E seq \in 1..MaxLen : \E row \in RowsAt(seq) : Rewrite(seq, row)
  \/ Checkpoint
  \/ \E key \in Keys : Restart(key)
  \/ \E seq \in 1..MaxLen : SelectEntry(seq)
  \/ SelectTreeSize
  \/ Answer

Spec == Init /\ [][Next]_vars

----------------------------------------------------------------------------
(* Properties.                                                             *)

NobodyRewrote == \A i \in DOMAIN ledger : ledger[i] = Written(i)

\* The hashes of the first n entries as they were written.
WrittenHashes(n) == [i \in 1..n |-> Written(i).hash]

\* While nobody rewrites rows, every answer of entry_evidence verifies with
\* the key it names, whatever was appended, checkpointed or restarted between
\* and after its reads; its receipt's root is the root of the checkpoint of
\* that size, so that a relying party who holds the exported checkpoint can
\* match it; and its TRACE record is about the same entry, under the same key.
AnswersVerify ==
  NobodyRewrote =>
    \A a \in issued :
      /\ VerifyTransparentStatement(a.statement, a.receipts, a.statement.protected.kid)
      /\ Roots(a.statement, a.receipts) \subseteq {<<c.root, c.size>> : c \in checkpoints}
      /\ a.trace = [subject |-> a.statement.payload.hash, receipt |-> a.receipts # <<>>,
                    key |-> a.statement.protected.kid]

\* The forms in which an answer may reach a relying party: a receipt moved
\* from another answer, and a proof, which no signature covers, with another
\* index, another size or a path cut short.
Delivered(receipts) ==
  LET paths == UNION {{SubSeq(p, i, Len(p) - j) : i \in 1..2, j \in 0..1} :
                        p \in {r.unprotected[1].path : r \in receipts}}
  IN  {[r EXCEPT !.unprotected = <<[size |-> n, index |-> i, path |-> path]>>] :
         r \in receipts, n \in 1..MaxLen, i \in 0..MaxLen - 1, path \in paths}

\* The checkpoints signed over the ledger as it was written.
Sealed == {c \in checkpoints : c.root = MerkleRoot(WrittenHashes(c.size))}

\* verify_transparent_statement accepts a statement with a receipt, in any of
\* these forms, and the root it returns is one of an exported checkpoint that
\* was signed over the ledger as it was written.  Then the hash the statement
\* names is that of an entry the checkpoint covers.  The receipt speaks of
\* that hash and of nothing else: only when the rest of the statement hashes
\* to it, which ledger_evidence and verify_transparent_statement leave to the
\* relying party, does the statement say what was appended, whatever the owner
\* of the database did to the row before it was signed.
AcceptedIsOriginal ==
  LET receipts == UNION {Range(a.receipts) : a \in issued} IN
  \A a \in issued, r \in Delivered(receipts), key \in Keys :
    VerifyTransparentStatement(a.statement, <<r>>, key)
      => \A c \in Sealed :
           c.root \in {pair[1] : pair \in Roots(a.statement, <<r>>)}
             => LET entry == a.statement.payload IN
                /\ \E i \in 1..c.size : entry.hash = Written(i).hash
                /\ entry = Entry(entry.seq, entry.text)
                     => entry.seq \in 1..c.size /\ entry = Written(entry.seq)

----------------------------------------------------------------------------
(* The inductive invariant behind both.                                    *)

Rows == UNION {RowsAt(i) : i \in 1..MaxLen}

HashLists == UNION {[1..n -> {e.hash : e \in Rows}] : n \in 1..MaxLen}

LedgerOK ==
  /\ ledger \in Seq(Rows) /\ Len(ledger) <= MaxLen
  /\ \A i \in 1..Len(ledger) : ledger[i] \in RowsAt(i)

CheckpointsOK ==
  \A c \in checkpoints :
    /\ c.size \in 1..Len(ledger)
    /\ NobodyRewrote => c.root = MerkleRoot(WrittenHashes(c.size))

\* The row a request holds, and the tree it picked.
RequestOK ==
  /\ request = [pc |-> request.pc, seq |-> request.seq,
                entry |-> request.entry, size |-> request.size]
  /\ request.pc \in {"idle", "size", "hashes"}
  /\ request.pc # "idle" =>
       /\ request.seq \in 1..Len(ledger) /\ request.entry \in RowsAt(request.seq)
       /\ NobodyRewrote => request.entry = Written(request.seq)
  /\ request.pc = "hashes" /\ request.size # 0 =>
       \E c \in checkpoints : c.size = request.size /\ request.seq <= c.size

\* An answer is the statement of a row, the receipt, if there is one, of a
\* tree, and the record of both, under one key; the tree is one that was
\* checkpointed, and while nobody rewrites rows it holds the row.
AnswerOK(a) ==
  LET key == a.statement.protected.kid
      entry == a.statement.payload
  IN  /\ a.statement = MakeSignedStatement(entry, key)
      /\ \E i \in 1..MaxLen : entry \in RowsAt(i)
      /\ a.trace = [subject |-> entry.hash, receipt |-> a.receipts # <<>>, key |-> key]
      /\ \/ a.receipts = <<>>
         \/ \E hashes \in HashLists : a.receipts = <<MakeReceipt(hashes, entry.seq, key)>>
      /\ NobodyRewrote =>
           /\ entry = Written(entry.seq)
           /\ \/ a.receipts = <<>>
              \/ \E c \in checkpoints :
                   /\ entry.seq <= c.size
                   /\ a.receipts = <<MakeReceipt(WrittenHashes(c.size), entry.seq, key)>>

ReceiptsInv ==
  LedgerOK /\ CheckpointsOK /\ RequestOK /\ \A a \in issued : AnswerOK(a)
=============================================================================
