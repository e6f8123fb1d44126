---------------------------- MODULE AppendOnlyLog ----------------------------
(***************************************************************************)
(* What the ledger promises its callers: a log that only grows at its end, *)
(* in which every call of append_v3 writes its body at most once and is    *)
(* acknowledged only after it has, and whose prefixes are sealed by        *)
(* checkpoints of ever larger size.                                        *)
(***************************************************************************)
EXTENDS Integers, Sequences

CONSTANTS Writers, Body, NoBody

VARIABLES
  log,     \* the bodies, in ledger order
  status,  \* status[w]: "new", "pending", "written", "done" or "failed"
  asked,   \* asked[w]: the body w asked to write
  seals    \* the sizes of the sealed prefixes

logVars == <<log, status, asked, seals>>

Init ==
  /\ log = <<>>
  /\ status = [w \in Writers |-> "new"]
  /\ asked = [w \in Writers |-> NoBody]
  /\ seals = {}

Ask(w, b) ==
  /\ status[w] = "new"
  /\ status' = [status EXCEPT ![w] = "pending"]
  /\ asked' = [asked EXCEPT ![w] = b]
  /\ UNCHANGED <<log, seals>>

Write(w) ==
  /\ status[w] = "pending"
  /\ status' = [status EXCEPT ![w] = "written"]
  /\ log' = Append(log, asked[w])
  /\ UNCHANGED <<asked, seals>>

Acknowledge(w) ==
  /\ status[w] = "written"
  /\ status' = [status EXCEPT ![w] = "done"]
  /\ UNCHANGED <<log, asked, seals>>

\* Calls in progress fail, together when the process dies.  One that has
\* written stays written: its caller cannot tell.
Fail(S) ==
  /\ \A w \in S : status[w] \in {"pending", "written"}
  /\ status' = [w \in Writers |-> IF w \in S THEN "failed" ELSE status[w]]
  /\ UNCHANGED <<log, asked, seals>>

Seal(n) ==
  /\ \A m \in seals : m < n
  /\ seals' = seals \cup {n}
  /\ UNCHANGED <<log, status, asked>>

Next ==
  \/ \E w \in Writers, b \in Body : Ask(w, b)
  \/ \E w \in Writers : Write(w) \/ Acknowledge(w)
  \/ \E S \in SUBSET Writers : Fail(S)
  \/ \E n \in 1..Len(log) : Seal(n)

Spec == Init /\ [][Next]_logVars
=============================================================================
