---------------------------- MODULE LedgerFormat ----------------------------
(***************************************************************************)
(* The rows of the audit ledger: what append_v3 writes, what the entry     *)
(* hash commits to, and what a checkpoint signs.                           *)
(*                                                                         *)
(* SHA-256 over the canonical payload is the constant operator Hash, the   *)
(* Merkle root over an ordered list of entry hashes the constant operator  *)
(* Root.  Nothing here or in the proofs needs more of them than that they  *)
(* are functions; the model checker runs with collision-free ones.         *)
(***************************************************************************)
EXTENDS Integers, FiniteSets

CONSTANTS
  Body,       \* what a caller hands to append_v3: verdict line, envelope, transcript
  NoBody,     \* the absence of a body
  Genesis,    \* GENESIS_HASH, "0" * 64
  Hash(_),    \* SHA-256 of a canonical entry payload
  Root(_)     \* Merkle root of a list of entry hashes

ASSUME BodyAssumption == NoBody \notin Body

\* The two formats the runtime writes: 4 on an unmigrated schema, 5 after
\* migration 0003.  The number is part of the hashed payload.
Formats == {4, 5}

EntryPayload(seq, prev, ts, body, fmt) ==
  [ledger_format |-> fmt, sequence_number |-> seq, previous_hash |-> prev,
   timestamp |-> ts, line |-> body]

EntryHash(seq, prev, ts, body, fmt) == Hash(EntryPayload(seq, prev, ts, body, fmt))

\* One row of ledger_entries.  fmt = 5 stands for the format-5 columns
\* (tenant_id, schema_version, ...) being present.
EntryRow(seq, prev, ts, body, fmt) ==
  [seq |-> seq, prev |-> prev, ts |-> ts, body |-> body, fmt |-> fmt,
   hash |-> EntryHash(seq, prev, ts, body, fmt)]

\* What an empty ledger is continued from: sequence 1, previous_hash zeros.
GenesisRow ==
  [seq |-> 0, prev |-> Genesis, ts |-> 0, body |-> NoBody, fmt |-> 4, hash |-> Genesis]

\* SELECT ... ORDER BY sequence_number DESC LIMIT 1
HeadOf(rows) ==
  IF rows = {} THEN GenesisRow
  ELSE CHOOSE r \in rows : \A s \in rows : s.seq <= r.seq

\* SELECT entry_hash ... ORDER BY sequence_number: the hashes in sequence
\* order, indexed by sequence number.
HashList(rows) ==
  [i \in {r.seq : r \in rows} |-> (CHOOSE r \in rows : r.seq = i).hash]

\* The rows with sequence numbers 1..n: entry_hashes[:n].
UpTo(rows, n) == {r \in rows : r.seq <= n}

\* One row of ledger_checkpoints.  stamped: an RFC 3161 response is stored.
CheckpointRow(size, root, last, stamped) ==
  [size |-> size, root |-> root, last |-> last, stamped |-> stamped]

\* SELECT COALESCE(MAX(tree_size), 0) FROM ledger_checkpoints
CoveredBy(cps) ==
  IF cps = {} THEN 0
  ELSE (CHOOSE c \in cps : \A d \in cps : d.size <= c.size).size
=============================================================================
