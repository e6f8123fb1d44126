------------------------ MODULE TelemetryReplayProofs ------------------------
(***************************************************************************)
(* Replay of ledger entries against the telemetry buffer, for any number   *)
(* of requests, subjects, readings, partitions and any obligation with a   *)
(* window.                                                                 *)
(*                                                                         *)
(* The argument: rows of a window leave the buffer only with a partition   *)
(* of that window, and rows of an ordered subject enter it only above the  *)
(* records that were evaluated before.                                     *)
(***************************************************************************)
EXTENDS TelemetryReplay, TLAPS

Outcomes == {"unknown", "satisfied", "breached"}

CallType ==
  [pc : {"idle", "buffering", "gating", "checking", "probing", "recording", "done"},
   record : Records \cup {NoRecord}, answer : {"CLEAR", "FLAG"},
   gate : {"none", "stale", "undecidable"}, asserted : Outcomes, probed : Outcomes,
   intact : BOOLEAN]

Peak == ob.predicate = "must_not_exceed_in_window"

\* The row of the record that was evaluated is still there.
RowThere(record) == \E row \in buffer : row.record = record

\* A row was written by its request before the request went on, into the
\* partition of its time or the DEFAULT one, and that partition is still there.
RowsWritten ==
  \A row \in buffer :
    /\ row.by \in Requests
    /\ row.record = call[row.by].record
    /\ call[row.by].pc \notin {"idle", "buffering"}
    /\ row.partition \in partitions \cup {Default}
    /\ row.partition # Default => row.partition = row.record.ts

\* Of two records of an ordered subject the earlier one was answered first.
SentInOrder ==
  \A p, q \in Requests :
    ( /\ p # q /\ call[p].pc # "idle" /\ call[q].pc # "idle"
      /\ call[p].record.subject = call[q].record.subject
      /\ call[p].record.subject \in Ordered ) =>
        \/ call[p].pc = "done" /\ call[p].record.ts < call[q].record.ts
        \/ call[q].pc = "done" /\ call[q].record.ts < call[p].record.ts

\* What an evaluation under way has learnt of an ordered subject is what the
\* buffer would still say.
SettledCall(c) ==
  c.pc \in {"checking", "probing", "recording"} /\ c.record.subject \in Ordered /\ c.intact =>
    /\ RowThere(c.record) => c.gate = "none"
    /\ Retained(c.record) /\ c.pc # "checking" => c.asserted = Outcome(buffer, c.record)
    /\ Retained(c.record) /\ c.pc = "recording" => c.probed = Outcome(buffer, c.record)

SettledEntry(e) ==
  e.record.subject \in Ordered /\ e.intact /\ Retained(e.record) /\ RowThere(e.record) =>
    e.result = Result(e.answer, "none", Outcome(buffer, e.record), Outcome(buffer, e.record))

\* A window peak that was seen is still one.
PeakCall(c) ==
  Peak /\ (c.asserted = "breached" \/ c.probed = "breached") /\ Retained(c.record) =>
    Outcome(buffer, c.record) = "breached"

Breach(e) == IF e.answer = "CLEAR" THEN "LLM_CONTRADICTION" ELSE "AGREED"

PeakEntry(e) ==
  Peak /\ Retained(e.record) /\ e.result.status = Breach(e) => Outcome(buffer, e.record) = "breached"

ReplayTypes ==
  /\ ob \in Obligations
  /\ call \in [Requests -> CallType]
  /\ partitions \subseteq Partitions
  /\ \A r \in Requests : IF call[r].pc = "idle" THEN call[r] = Idle ELSE call[r].record \in Records
  /\ \A e \in ledger :
       /\ e.answer \in {"CLEAR", "FLAG"}
       /\ \E r \in Requests : call[r].pc = "done" /\ call[r].record = e.record

ReplayInv ==
  /\ ReplayTypes /\ RowsWritten /\ SentInOrder
  /\ \A r \in Requests : SettledCall(call[r]) /\ PeakCall(call[r])
  /\ \A e \in ledger : SettledEntry(e) /\ PeakEntry(e)

-----------------------------------------------------------------------------
(* What the buffer says of a record.                                       *)

\* The outcome depends on the rows of the window only.
LEMMA OutcomeOfWindow ==
  ASSUME NEW A, NEW B, NEW record, Window(A, record, ob.window) = Window(B, record, ob.window)
  PROVE  Outcome(A, record) = Outcome(B, record)
BY DEF Outcome

LEMMA OutcomeType ==
  ASSUME NEW A, NEW record
  PROVE  Outcome(A, record) \in Outcomes
BY DEF Outcome, Outcomes

\* must_not_exceed_in_window is breached by one row above the limit.
LEMMA OutcomeOfPeak ==
  ASSUME Peak, NEW A, NEW record
  PROVE  Outcome(A, record) = "breached" <=>
           \E row \in Window(A, record, ob.window) :
             row.record.reading # NoReading /\ row.record.reading > ob.hi
BY DEF Peak, Outcome, Numeric

\* A step that leaves the buffer alone changes nothing of what it says.
LEMMA BufferUntouched ==
  ASSUME UNCHANGED <<ob, buffer, partitions>>
  PROVE  /\ \A c : SettledCall(c)' <=> SettledCall(c)
         /\ \A c : PeakCall(c)' <=> PeakCall(c)
         /\ \A e : SettledEntry(e)' <=> SettledEntry(e)
         /\ \A e : PeakEntry(e)' <=> PeakEntry(e)
<1>1. /\ \A x : Retained(x)' <=> Retained(x)
      /\ \A x : RowThere(x)' <=> RowThere(x)
      /\ \A x : Outcome(buffer, x)' = Outcome(buffer, x)
      /\ Peak' <=> Peak
  BY DEF Retained, RowThere, Outcome, Peak
<1>2. \A c : SettledCall(c)' <=> SettledCall(c)
  BY <1>1 DEF SettledCall
<1>3. \A c : PeakCall(c)' <=> PeakCall(c)
  BY <1>1 DEF PeakCall
<1>4. \A e : SettledEntry(e)' <=> SettledEntry(e)
  BY <1>1 DEF SettledEntry, Result, Status
<1>5. \A e : PeakEntry(e)' <=> PeakEntry(e)
  BY <1>1 DEF PeakEntry, Breach
<1> QED BY <1>2, <1>3, <1>4, <1>5

-----------------------------------------------------------------------------
(* Steps of a request that leave the buffer alone.                         *)

\* A request goes on with its record, and may ledger its entry.
LEMMA InvOneCall ==
  ASSUME ReplayInv, NEW r \in Requests, NEW n \in CallType,
         call' = [call EXCEPT ![r] = n], UNCHANGED <<ob, buffer, partitions>>,
         call[r].pc \notin {"idle", "done"}, n.record = call[r].record,
         n.pc \notin {"idle", "buffering"},
         SettledCall(n), PeakCall(n),
         \A e \in ledger' \ ledger :
           /\ n.pc = "done" /\ e.record = n.record /\ e.answer \in {"CLEAR", "FLAG"}
           /\ SettledEntry(e) /\ PeakEntry(e)
  PROVE  ReplayInv'
<1> USE DEF ReplayInv
<1>1. call \in [Requests -> CallType]
  BY DEF ReplayTypes
<1>2. ReplayTypes'
  <2>1. call' \in [Requests -> CallType]
    BY <1>1
  <2>2. ASSUME NEW q \in Requests
        PROVE  IF call'[q].pc = "idle" THEN call'[q] = Idle ELSE call'[q].record \in Records
    BY <1>1 DEF ReplayTypes
  <2>3. ASSUME NEW e \in ledger'
        PROVE  /\ e.answer \in {"CLEAR", "FLAG"}
               /\ \E q \in Requests : call'[q].pc = "done" /\ call'[q].record = e.record
    <3>1. CASE e \notin ledger
      BY <3>1, <1>1
    <3>2. CASE e \in ledger
      <4>1. PICK q \in Requests : call[q].pc = "done" /\ call[q].record = e.record
        BY <3>2 DEF ReplayTypes
      <4>2. call'[q] = call[q]
        BY <4>1, <1>1
      <4> QED BY <3>2, <4>1, <4>2 DEF ReplayTypes
    <3> QED BY <3>1, <3>2
  <2> QED BY <2>1, <2>2, <2>3 DEF ReplayTypes
<1>3. RowsWritten'
  BY <1>1 DEF RowsWritten
<1>4. SentInOrder'
  BY <1>1 DEF SentInOrder
<1>5. \A q \in Requests : SettledCall(call'[q]) /\ PeakCall(call'[q])
  BY <1>1
<1>6. \A q \in Requests : SettledCall(call[q])' /\ PeakCall(call[q])'
  <2>1. \A c : SettledCall(c)' <=> SettledCall(c)
    BY BufferUntouched
  <2>2. \A c : PeakCall(c)' <=> PeakCall(c)
    BY BufferUntouched
  <2> QED BY <1>5, <2>1, <2>2
<1>7. \A e \in ledger' : SettledEntry(e)' /\ PeakEntry(e)'
  BY BufferUntouched
<1> QED BY <1>2, <1>3, <1>4, <1>6, <1>7

LEMMA InvReceive ==
  ASSUME ReplayInv, NEW r \in Requests, NEW record \in Records, Receive(r, record)
  PROVE  ReplayInv'
<1> USE DEF ReplayInv
<1> DEFINE n == [Idle EXCEPT !.pc = "buffering", !.record = record]
<1>1. /\ call \in [Requests -> CallType] /\ call[r].pc = "idle" /\ call[r] = Idle
      /\ UNCHANGED <<ob, buffer, partitions, ledger>>
  BY DEF Receive, ReplayTypes
<1>2. /\ call' = [call EXCEPT ![r] = n] /\ n \in CallType
      /\ n.pc = "buffering" /\ n.record = record /\ n.asserted = "unknown" /\ n.probed = "unknown"
  BY <1>1 DEF Receive, Idle, CallType, Outcomes
<1> HIDE DEF n
<1>3. ReplayTypes'
  <2>1. call' \in [Requests -> CallType]
    BY <1>1, <1>2
  <2>2. ASSUME NEW q \in Requests
        PROVE  IF call'[q].pc = "idle" THEN call'[q] = Idle ELSE call'[q].record \in Records
    BY <1>1, <1>2 DEF ReplayTypes
  <2>3. ASSUME NEW e \in ledger
        PROVE  \E q \in Requests : call'[q].pc = "done" /\ call'[q].record = e.record
    <3>1. PICK q \in Requests : call[q].pc = "done" /\ call[q].record = e.record
      BY DEF ReplayTypes
    <3>2. call'[q] = call[q]
      BY <3>1, <1>1, <1>2
    <3> QED BY <3>1, <3>2
  <2> QED BY <2>1, <2>2, <2>3, <1>1 DEF ReplayTypes
<1>4. RowsWritten'
  <2>1. \A row \in buffer : row.by \in Requests /\ call'[row.by] = call[row.by]
    BY <1>1, <1>2 DEF RowsWritten
  <2> QED BY <2>1, <1>1 DEF RowsWritten
<1>5. SentInOrder'
  <2>1. MaySend(record)
    BY DEF Receive
  <2>2. ASSUME NEW q \in Requests, q # r, call[q].pc # "idle",
               call[q].record.subject = record.subject, record.subject \in Ordered
        PROVE  call[q].pc = "done" /\ call[q].record.ts < record.ts
    BY <2>1, <2>2 DEF MaySend
  <2>3. \A q \in Requests : q # r => call'[q] = call[q]
    BY <1>1, <1>2
  <2>4. call'[r] = n
    BY <1>1, <1>2
  <2> QED BY <2>2, <2>3, <2>4, <1>2 DEF SentInOrder
<1>6. \A q \in Requests : SettledCall(call'[q]) /\ PeakCall(call'[q])
  <2>1. SettledCall(n) /\ PeakCall(n)
    BY <1>2 DEF SettledCall, PeakCall
  <2> QED BY <2>1, <1>1, <1>2
<1>7. \A q \in Requests : SettledCall(call[q])' /\ PeakCall(call[q])'
  <2>1. \A c : SettledCall(c)' <=> SettledCall(c)
    BY <1>1, BufferUntouched
  <2>2. \A c : PeakCall(c)' <=> PeakCall(c)
    BY <1>1, BufferUntouched
  <2> QED BY <1>6, <2>1, <2>2
<1>8. \A e \in ledger' : SettledEntry(e)' /\ PeakEntry(e)'
  BY <1>1, BufferUntouched
<1> QED BY <1>3, <1>4, <1>5, <1>7, <1>8

\* BufferFails and Lose: nothing was learnt.
LEMMA InvGoesOn ==
  ASSUME ReplayInv, NEW r \in Requests, BufferFails(r) \/ Lose(r)
  PROVE  ReplayInv'
<1>1. call \in [Requests -> CallType] /\ PeakCall(call[r])
  BY DEF ReplayInv, ReplayTypes
<1>2. CASE BufferFails(r)
  <2> DEFINE n == [call[r] EXCEPT !.pc = "gating"]
  <2>1. /\ call' = [call EXCEPT ![r] = n] /\ n \in CallType /\ n.pc = "gating"
        /\ n.record = call[r].record /\ n.asserted = call[r].asserted /\ n.probed = call[r].probed
        /\ call[r].pc = "buffering" /\ UNCHANGED <<ob, buffer, partitions, ledger>>
    BY <1>1, <1>2 DEF BufferFails, CallType
  <2> HIDE DEF n
  <2>2. SettledCall(n) /\ PeakCall(n)
    BY <2>1, <1>1 DEF SettledCall, PeakCall
  <2> QED BY <2>1, <2>2, InvOneCall
<1>3. CASE Lose(r)
  <2> DEFINE n == Returned(r)
  <2>1. /\ call' = [call EXCEPT ![r] = n] /\ n \in CallType /\ n.pc = "done"
        /\ n.record = call[r].record /\ n.asserted = "unknown" /\ n.probed = "unknown"
        /\ call[r].pc \notin {"idle", "done"} /\ UNCHANGED <<ob, buffer, partitions, ledger>>
    BY <1>1, <1>3 DEF Lose, CallType, Returned, Idle, Outcomes
  <2> HIDE DEF n
  <2>2. SettledCall(n) /\ PeakCall(n)
    BY <2>1 DEF SettledCall, PeakCall
  <2> QED BY <2>1, <2>2, InvOneCall
<1> QED BY <1>2, <1>3

\* has_fresh_sample counts the record's own row.
LEMMA OwnRowIsFresh ==
  ASSUME NEW record \in Records, RowThere(record)
  PROVE  Gate(buffer, record) = "none"
<1>1. PICK row \in buffer : row.record = record
  BY DEF RowThere
<1>2. record.ts \in Int /\ record.ts - record.ts <= RecentWithin
  BY ReplayAssumption DEF Records
<1> QED BY <1>1, <1>2 DEF Gate, HasFreshSample

LEMMA InvFreshnessGate ==
  ASSUME ReplayInv, NEW r \in Requests, NEW answer \in {"CLEAR", "FLAG"}, NEW queried \in BOOLEAN,
         FreshnessGate(r, answer, queried)
  PROVE  ReplayInv'
<1> DEFINE gate == IF queried THEN Gate(buffer, call[r].record) ELSE "undecidable"
           n == [call[r] EXCEPT !.pc = "checking", !.answer = answer, !.gate = gate, !.intact = queried]
<1>1. /\ call \in [Requests -> CallType] /\ PeakCall(call[r])
      /\ call[r].pc = "gating" /\ call[r].record \in Records
  BY DEF ReplayInv, ReplayTypes, FreshnessGate
<1>2. gate \in {"none", "stale", "undecidable"}
  BY DEF Gate
<1>3. RowThere(call[r].record) /\ queried => gate = "none"
  BY <1>1, OwnRowIsFresh
<1>4. call' = [call EXCEPT ![r] = n]
  BY <1>1 DEF FreshnessGate
<1> HIDE DEF gate
<1>5. /\ n \in CallType /\ n.pc = "checking" /\ n.gate = gate /\ n.intact = queried
      /\ n.record = call[r].record /\ n.asserted = call[r].asserted /\ n.probed = call[r].probed
  BY <1>1, <1>2 DEF CallType
<1> HIDE DEF n
<1>6. SettledCall(n) /\ PeakCall(n)
  BY <1>1, <1>3, <1>5 DEF SettledCall, PeakCall
<1>7. UNCHANGED <<ob, buffer, partitions, ledger>>
  BY DEF FreshnessGate
<1> QED BY <1>1, <1>4, <1>5, <1>6, <1>7, InvOneCall

LEMMA InvCheckAssertion ==
  ASSUME ReplayInv, NEW r \in Requests, NEW queried \in BOOLEAN, CheckAssertion(r, queried)
  PROVE  ReplayInv'
<1> DEFINE asserted == IF queried THEN Outcome(buffer, call[r].record) ELSE "unknown"
           intact == call[r].intact /\ queried
           n == [call[r] EXCEPT !.pc = "probing", !.asserted = asserted, !.intact = intact]
<1>1. /\ call \in [Requests -> CallType] /\ PeakCall(call[r]) /\ SettledCall(call[r])
      /\ call[r].pc = "checking"
  BY DEF ReplayInv, ReplayTypes, CheckAssertion
<1>2. asserted \in Outcomes /\ intact \in BOOLEAN
  BY OutcomeType DEF Outcomes
<1>3. call' = [call EXCEPT ![r] = n]
  BY <1>1 DEF CheckAssertion
<1>4. /\ queried => asserted = Outcome(buffer, call[r].record)
      /\ ~queried => asserted = "unknown"
      /\ intact => call[r].intact /\ queried
  OBVIOUS
<1> HIDE DEF asserted, intact
<1>5. /\ n \in CallType /\ n.pc = "probing" /\ n.gate = call[r].gate /\ n.intact = intact
      /\ n.record = call[r].record /\ n.asserted = asserted /\ n.probed = call[r].probed
  BY <1>1, <1>2 DEF CallType
<1> HIDE DEF n
<1>6. SettledCall(n)
  BY <1>1, <1>4, <1>5 DEF SettledCall
<1>7. PeakCall(n)
  BY <1>1, <1>4, <1>5 DEF PeakCall
<1>8. UNCHANGED <<ob, buffer, partitions, ledger>>
  BY DEF CheckAssertion
<1> QED BY <1>1, <1>3, <1>5, <1>6, <1>7, <1>8, InvOneCall

LEMMA InvProbeObligation ==
  ASSUME ReplayInv, NEW r \in Requests, NEW queried \in BOOLEAN, ProbeObligation(r, queried)
  PROVE  ReplayInv'
<1> DEFINE probed == IF queried THEN Outcome(buffer, call[r].record) ELSE "unknown"
           intact == call[r].intact /\ queried
           n == [call[r] EXCEPT !.pc = "recording", !.probed = probed, !.intact = intact]
<1>1. /\ call \in [Requests -> CallType] /\ PeakCall(call[r]) /\ SettledCall(call[r])
      /\ call[r].pc = "probing"
  BY DEF ReplayInv, ReplayTypes, ProbeObligation
<1>2. probed \in Outcomes /\ intact \in BOOLEAN
  BY OutcomeType DEF Outcomes
<1>3. call' = [call EXCEPT ![r] = n]
  BY <1>1 DEF ProbeObligation
<1>4. /\ queried => probed = Outcome(buffer, call[r].record)
      /\ ~queried => probed = "unknown"
      /\ intact => call[r].intact /\ queried
  OBVIOUS
<1> HIDE DEF probed, intact
<1>5. /\ n \in CallType /\ n.pc = "recording" /\ n.gate = call[r].gate /\ n.intact = intact
      /\ n.record = call[r].record /\ n.asserted = call[r].asserted /\ n.probed = probed
  BY <1>1, <1>2 DEF CallType
<1> HIDE DEF n
<1>6. SettledCall(n)
  BY <1>1, <1>4, <1>5 DEF SettledCall
<1>7. PeakCall(n)
  BY <1>1, <1>4, <1>5 DEF PeakCall
<1>8. UNCHANGED <<ob, buffer, partitions, ledger>>
  BY DEF ProbeObligation
<1> QED BY <1>1, <1>3, <1>5, <1>6, <1>7, <1>8, InvOneCall

\* What a recorded status says of the two checks, and conversely.
LEMMA StatusFacts ==
  ASSUME NEW answer \in {"CLEAR", "FLAG"}, NEW gate, NEW asserted \in Outcomes, NEW probed \in Outcomes,
         NEW breach, breach = IF answer = "CLEAR" THEN "LLM_CONTRADICTION" ELSE "AGREED"
  PROVE  /\ Result(answer, gate, asserted, probed).status = breach
              => asserted = "breached" \/ probed = "breached"
         /\ asserted = "breached" => Result(answer, gate, asserted, probed).status = breach
BY DEF Result, Status, Outcomes

LEMMA InvRecord ==
  ASSUME ReplayInv, NEW r \in Requests, Record(r)
  PROVE  ReplayInv'
<1> DEFINE n == Returned(r)
           c == call[r]
           e == [by |-> r, record |-> c.record, answer |-> c.answer, intact |-> c.intact,
                 result |-> Result(c.answer, c.gate, c.asserted, c.probed)]
<1>1. /\ call \in [Requests -> CallType] /\ PeakCall(c) /\ SettledCall(c) /\ c.pc = "recording"
      /\ UNCHANGED <<ob, buffer, partitions>>
  BY DEF ReplayInv, ReplayTypes, Record
<1>2. c.answer \in {"CLEAR", "FLAG"} /\ c.asserted \in Outcomes /\ c.probed \in Outcomes
  BY <1>1 DEF CallType
<1>3. call' = [call EXCEPT ![r] = n] /\ ledger' = ledger \cup {e}
  BY <1>1 DEF Record
<1>4. n \in CallType /\ n.pc = "done" /\ n.record = c.record /\ n.asserted = "unknown" /\ n.probed = "unknown"
  BY <1>1 DEF CallType, Returned, Idle, Outcomes
<1> HIDE DEF n
<1>5. SettledCall(n) /\ PeakCall(n)
  BY <1>4 DEF SettledCall, PeakCall
<1>6. /\ e.record = c.record /\ e.answer = c.answer /\ e.intact = c.intact
      /\ e.result = Result(c.answer, c.gate, c.asserted, c.probed)
  OBVIOUS
<1> HIDE DEF e
<1>7. SettledEntry(e)
  BY <1>1, <1>6 DEF SettledEntry, SettledCall
<1>8. PeakEntry(e)
  <2> SUFFICES ASSUME Peak, Retained(e.record), e.result.status = Breach(e)
               PROVE  Outcome(buffer, e.record) = "breached"
    BY DEF PeakEntry
  <2>1. c.asserted = "breached" \/ c.probed = "breached"
    BY <1>2, <1>6, StatusFacts DEF Breach
  <2> QED BY <2>1, <1>1, <1>6 DEF PeakCall
<1>9. \A x \in ledger' \ ledger :
        /\ n.pc = "done" /\ x.record = n.record /\ x.answer \in {"CLEAR", "FLAG"}
        /\ SettledEntry(x) /\ PeakEntry(x)
  BY <1>2, <1>3, <1>4, <1>6, <1>7, <1>8
<1>10. call[r].pc \notin {"idle", "done"} /\ n.record = call[r].record /\ n.pc \notin {"idle", "buffering"}
  BY <1>1, <1>4
<1> QED BY <1>1, <1>3, <1>4, <1>5, <1>9, <1>10, InvOneCall

-----------------------------------------------------------------------------
(* Rows come and go.                                                       *)

LEMMA InvBufferAppend ==
  ASSUME ReplayInv, NEW r \in Requests, BufferAppend(r)
  PROVE  ReplayInv'
<1> USE DEF ReplayInv
<1> DEFINE x == Stored(r, call[r].record)
           n == [call[r] EXCEPT !.pc = "gating"]
<1>1. /\ call \in [Requests -> CallType] /\ call[r].pc = "buffering" /\ call[r].record \in Records
      /\ UNCHANGED <<ob, partitions, ledger>> /\ buffer' = buffer \cup {x}
  BY DEF ReplayTypes, BufferAppend
<1>2. x.by = r /\ x.record = call[r].record /\ x.partition \in partitions \cup {Default}
      /\ (x.partition # Default => x.partition = x.record.ts)
  BY DEF Stored
<1>3. /\ call' = [call EXCEPT ![r] = n] /\ n \in CallType /\ n.pc = "gating"
      /\ n.record = call[r].record /\ n.asserted = call[r].asserted /\ n.probed = call[r].probed
  BY <1>1 DEF BufferAppend, CallType
<1> HIDE DEF x, n
<1>4. ReplayTypes'
  <2>1. call' \in [Requests -> CallType]
    BY <1>1, <1>3
  <2>2. ASSUME NEW q \in Requests
        PROVE  IF call'[q].pc = "idle" THEN call'[q] = Idle ELSE call'[q].record \in Records
    BY <1>1, <1>3 DEF ReplayTypes
  <2>3. ASSUME NEW e \in ledger
        PROVE  \E q \in Requests : call'[q].pc = "done" /\ call'[q].record = e.record
    <3>1. PICK q \in Requests : call[q].pc = "done" /\ call[q].record = e.record
      BY DEF ReplayTypes
    <3>2. call'[q] = call[q]
      BY <3>1, <1>1, <1>3
    <3> QED BY <3>1, <3>2
  <2> QED BY <2>1, <2>2, <2>3, <1>1 DEF ReplayTypes
<1>5. RowsWritten'
  BY <1>1, <1>2, <1>3 DEF RowsWritten
<1>6. SentInOrder'
  BY <1>1, <1>3 DEF SentInOrder
<1>7. ASSUME NEW record \in Records,
             record.subject \in Ordered => record.subject # x.record.subject \/ record.ts < x.record.ts
      PROVE  record.subject \in Ordered =>
               /\ RowThere(record)' <=> RowThere(record)
               /\ Outcome(buffer, record)' = Outcome(buffer, record)
  <2> SUFFICES ASSUME record.subject \in Ordered
               PROVE  /\ RowThere(record)' <=> RowThere(record)
                      /\ Outcome(buffer, record)' = Outcome(buffer, record)
    OBVIOUS
  <2>1. record.ts \in Int /\ x.record.ts \in Int
    BY <1>1, <1>2, ReplayAssumption DEF Records
  <2>2. x.record # record
    BY <1>7, <2>1
  <2>3. RowThere(record)' <=> RowThere(record)
    BY <2>2, <1>1 DEF RowThere
  <2>4. Window(buffer', record, ob.window) = Window(buffer, record, ob.window)
    BY <1>7, <2>1, <1>1 DEF Window
  <2>5. Outcome(buffer, record)' = Outcome(buffer', record)
    BY <1>1 DEF Outcome
  <2> QED BY <2>3, <2>4, <2>5, OutcomeOfWindow
<1>8. ASSUME NEW q \in Requests, q # r, call[q].pc # "idle",
             call[q].record.subject \in Ordered, call[q].record.subject = x.record.subject
      PROVE  call[q].pc = "done" /\ call[q].record.ts < x.record.ts
  BY <1>1, <1>2, <1>8 DEF SentInOrder
<1>9. \A y : Retained(y)' <=> Retained(y)
  BY <1>1 DEF Retained
<1>10. ASSUME Peak, NEW y, Outcome(buffer, y) = "breached"
       PROVE  Outcome(buffer, y)' = "breached"
  <2>1. Window(buffer, y, ob.window) \subseteq Window(buffer', y, ob.window)
    BY <1>1 DEF Window
  <2>2. Outcome(buffer', y) = "breached"
    BY <1>10, <2>1, OutcomeOfPeak
  <2> QED BY <2>2, <1>1 DEF Outcome
<1>11. Peak' <=> Peak
  BY <1>1 DEF Peak
<1>12. ASSUME NEW q \in Requests PROVE SettledCall(call[q])' /\ PeakCall(call[q])'
  <2>1. CASE q = r
    <3>1. call'[q] = n /\ PeakCall(call[r])
      BY <2>1, <1>1, <1>3
    <3>2. SettledCall(call[q])'
      BY <3>1, <1>3 DEF SettledCall
    <3> QED BY <3>1, <3>2, <1>3, <1>9, <1>10, <1>11 DEF PeakCall
  <2>2. CASE q # r
    <3> DEFINE c == call[q]
    <3>1. call'[q] = c /\ SettledCall(c) /\ PeakCall(c)
      BY <2>2, <1>1, <1>3
    <3>2. ASSUME c.pc \in {"checking", "probing", "recording"}, c.record.subject \in Ordered
          PROVE  /\ RowThere(c.record)' <=> RowThere(c.record)
                 /\ Outcome(buffer, c.record)' = Outcome(buffer, c.record)
      <4>1. c.record \in Records /\ c.record.subject # x.record.subject
        BY <2>2, <3>2, <1>8 DEF ReplayTypes
      <4>2. PICK y \in Records : y = c.record
        BY <4>1
      <4>3. /\ RowThere(y)' <=> RowThere(y)
            /\ Outcome(buffer, y)' = Outcome(buffer, y)
        BY <4>1, <4>2, <3>2, <1>7
      <4> QED BY <4>2, <4>3, <3>1
    <3>3. SettledCall(call[q])'
      BY <3>1, <3>2, <1>9 DEF SettledCall
    <3>4. PeakCall(call[q])'
      BY <3>1, <1>9, <1>10, <1>11 DEF PeakCall
    <3> QED BY <3>3, <3>4
  <2> QED BY <2>1, <2>2
<1>13. ASSUME NEW e \in ledger PROVE SettledEntry(e)' /\ PeakEntry(e)'
  <2>1. PICK q \in Requests : call[q].pc = "done" /\ call[q].record = e.record
    BY DEF ReplayTypes
  <2>2. e.record \in Records
    BY <2>1 DEF ReplayTypes
  <2>3. e.record.subject \in Ordered => e.record.subject # x.record.subject \/ e.record.ts < x.record.ts
    BY <2>1, <1>1, <1>8
  <2>4. SettledEntry(e)'
    <3>1. SettledEntry(e)
      OBVIOUS
    <3>2. e.record.subject \in Ordered =>
               /\ RowThere(e.record)' <=> RowThere(e.record)
               /\ Outcome(buffer, e.record)' = Outcome(buffer, e.record)
      BY <2>2, <2>3, <1>7
    <3> QED BY <3>1, <3>2, <1>9 DEF SettledEntry, Result, Status
  <2>5. PeakEntry(e)'
    BY <1>9, <1>10, <1>11 DEF PeakEntry, Breach
  <2> QED BY <2>4, <2>5
<1> QED BY <1>1, <1>4, <1>5, <1>6, <1>12, <1>13

\* drop_buffer_partitions_older_than takes rows of dropped partitions only: a
\* window that is still retained has all its rows.
LEMMA InvDropPartitions ==
  ASSUME ReplayInv, NEW cutoff \in 1..MaxTime, DropPartitions(cutoff)
  PROVE  ReplayInv'
<1> USE DEF ReplayInv
<1>1. /\ UNCHANGED <<ob, call, ledger>> /\ partitions' \subseteq partitions
      /\ buffer' = {row \in buffer : row.partition \in partitions' \cup {Default}}
      /\ partitions \subseteq Partitions
  BY DEF DropPartitions, ReplayTypes
<1>2. ReplayTypes' /\ SentInOrder'
  BY <1>1 DEF ReplayTypes, SentInOrder
<1>3. RowsWritten'
  BY <1>1 DEF RowsWritten
<1>4. \A y : Retained(y)' => Retained(y)
  BY <1>1 DEF Retained
<1>5. \A y : RowThere(y)' => RowThere(y)
  BY <1>1 DEF RowThere
<1>6. Peak' <=> Peak
  BY <1>1 DEF Peak
<1>7. ASSUME NEW y \in Records, Retained(y)'
      PROVE  Outcome(buffer, y)' = Outcome(buffer, y)
  <2>1. ASSUME NEW row \in buffer, row \notin buffer'
        PROVE  row \notin Window(buffer, y, ob.window)
    <3>1. row.partition \in partitions \ partitions' /\ row.record.ts = row.partition
      BY <1>1, <2>1 DEF RowsWritten
    <3>2. row.record.ts \in Partitions \ partitions'
      BY <1>1, <3>1
    <3>3. \A t \in Partitions \ partitions' : t <= y.ts - ob.window \/ t > y.ts
      BY <1>1, <1>7 DEF Retained
    <3>4. row.record.ts \in Int /\ y.ts \in Int
      <4>1. Partitions \subseteq 0..MaxTime /\ MaxTime \in Nat
        BY ReplayAssumption
      <4>2. y.ts \in 0..MaxTime
        BY DEF Records
      <4>3. \A t \in 0..MaxTime : t \in Int
        BY <4>1
      <4>4. row.record.ts \in 0..MaxTime
        BY <3>2, <4>1
      <4> QED BY <4>2, <4>3, <4>4
    <3>5. ob.window \in Int
      BY ReplayAssumption DEF ReplayTypes
    <3> QED BY <3>2, <3>3, <3>4, <3>5 DEF Window
  <2>2. Window(buffer', y, ob.window) = Window(buffer, y, ob.window)
    BY <1>1, <2>1 DEF Window
  <2>3. Outcome(buffer, y)' = Outcome(buffer', y)
    BY <1>1 DEF Outcome
  <2> QED BY <2>2, <2>3, OutcomeOfWindow
<1>8. ASSUME NEW q \in Requests PROVE SettledCall(call[q])' /\ PeakCall(call[q])'
  <2>1. PICK c : c = call[q]
    OBVIOUS
  <2>2. call'[q] = c /\ SettledCall(c) /\ PeakCall(c)
    BY <2>1, <1>1
  <2>3. CASE c.pc = "idle"
    <3>1. c.asserted = "unknown" /\ c.probed = "unknown"
      BY <2>1, <2>3 DEF ReplayTypes, Idle
    <3> QED BY <2>2, <2>3, <3>1 DEF SettledCall, PeakCall
  <2>4. CASE c.pc # "idle"
    <3>1. c.record \in Records
      BY <2>1, <2>4 DEF ReplayTypes
    <3>2. SettledCall(c)' /\ PeakCall(c)'
      BY <2>2, <3>1, <1>4, <1>5, <1>6, <1>7 DEF SettledCall, PeakCall
    <3> QED BY <2>2, <3>2
  <2> QED BY <2>3, <2>4
<1>9. ASSUME NEW e \in ledger PROVE SettledEntry(e)' /\ PeakEntry(e)'
  <2>1. e.record \in Records /\ SettledEntry(e) /\ PeakEntry(e)
    BY DEF ReplayTypes
  <2>2. SettledEntry(e)'
    BY <2>1, <1>4, <1>5, <1>7 DEF SettledEntry, Result, Status
  <2>3. PeakEntry(e)'
    BY <2>1, <1>4, <1>6, <1>7 DEF PeakEntry, Breach
  <2> QED BY <2>2, <2>3
<1> QED BY <1>1, <1>2, <1>3, <1>8, <1>9

-----------------------------------------------------------------------------
(* The theorems.                                                           *)

LEMMA ReplayInit == Init => ReplayInv
<1> SUFFICES ASSUME Init PROVE ReplayInv
  OBVIOUS
<1>1. Idle \in CallType
  BY DEF Idle, CallType, Outcomes
<1>2. ReplayTypes
  BY <1>1 DEF Init, ReplayTypes, Idle
<1>3. RowsWritten /\ SentInOrder
  BY DEF Init, RowsWritten, SentInOrder, Idle
<1>4. \A r \in Requests : SettledCall(call[r]) /\ PeakCall(call[r])
  BY DEF Init, SettledCall, PeakCall, Idle
<1> QED BY <1>2, <1>3, <1>4 DEF ReplayInv, Init

LEMMA ReplayNext == ReplayInv /\ [Next]_vars => ReplayInv'
<1> SUFFICES ASSUME ReplayInv, [Next]_vars PROVE ReplayInv'
  OBVIOUS
<1>1. CASE \E r \in Requests, record \in Records : Receive(r, record)
  BY <1>1, InvReceive
<1>2. CASE \E r \in Requests : BufferAppend(r) \/ BufferFails(r)
  BY <1>2, InvBufferAppend, InvGoesOn
<1>3. CASE \E r \in Requests, answer \in {"CLEAR", "FLAG"}, queried \in BOOLEAN :
             FreshnessGate(r, answer, queried)
  BY <1>3, InvFreshnessGate
<1>4. CASE \E r \in Requests, queried \in BOOLEAN : CheckAssertion(r, queried)
  BY <1>4, InvCheckAssertion
<1>5. CASE \E r \in Requests, queried \in BOOLEAN : ProbeObligation(r, queried)
  BY <1>5, InvProbeObligation
<1>6. CASE \E r \in Requests : Record(r) \/ Lose(r)
  BY <1>6, InvRecord, InvGoesOn
<1>7. CASE \E cutoff \in 1..MaxTime : DropPartitions(cutoff)
  BY <1>7, InvDropPartitions
<1>8. CASE UNCHANGED vars
  <2>1. UNCHANGED <<ob, buffer, partitions, call, ledger>>
    BY <1>8 DEF vars
  <2>2. ReplayTypes' /\ RowsWritten' /\ SentInOrder'
    BY <2>1 DEF ReplayInv, ReplayTypes, RowsWritten, SentInOrder
  <2>3. \A c : (SettledCall(c) => SettledCall(c)') /\ (PeakCall(c) => PeakCall(c)')
    BY <2>1, BufferUntouched
  <2>4. \A e : (SettledEntry(e) => SettledEntry(e)') /\ (PeakEntry(e) => PeakEntry(e)')
    BY <2>1, BufferUntouched
  <2>5. \A q \in Requests : SettledCall(call[q])' /\ PeakCall(call[q])'
    BY <2>1, <2>3 DEF ReplayInv
  <2>6. \A e \in ledger' : SettledEntry(e)' /\ PeakEntry(e)'
    BY <2>1, <2>4 DEF ReplayInv
  <2> QED BY <2>2, <2>5, <2>6 DEF ReplayInv
<1> QED BY <1>1, <1>2, <1>3, <1>4, <1>5, <1>6, <1>7, <1>8 DEF Next

\* In every reachable state, rows are where their requests wrote them, ordered
\* subjects were served in order, and what was learnt of a retained window of
\* an ordered subject, or of a peak, is what the buffer still says.
THEOREM ReplayInvariant == Spec => []ReplayInv
<1>1. Init => ReplayInv
  BY ReplayInit
<1>2. ReplayInv /\ [Next]_vars => ReplayInv'
  BY ReplayNext
<1> QED BY <1>1, <1>2, PTL DEF Spec

\* "write-before-evaluate guarantees replay determinism" (server.py), for every
\* number of requests, readings, windows and partitions: entries of a producer
\* that sends in order replay as recorded, or their row is gone.
THEOREM OrderedAlwaysReplays == Spec => []OrderedReplays
<1>1. ReplayInv => OrderedReplays
  <2> SUFFICES ASSUME ReplayInv, NEW e \in ledger,
                      e.record.subject \in Ordered, e.intact, Retained(e.record),
                      RowThere(e.record)
               PROVE  Replayed(e) = e.result
    BY DEF OrderedReplays, Replay, RowThere
  <2>1. e.record \in Records
    BY DEF ReplayInv, ReplayTypes
  <2>2. Gate(buffer, e.record) = "none"
    BY <2>1, OwnRowIsFresh
  <2>3. SettledEntry(e)
    BY DEF ReplayInv
  <2> QED BY <2>2, <2>3 DEF SettledEntry, Replayed
<1> QED BY <1>1, ReplayInvariant, PTL

\* No record that arrives later, twice or in between explains away a window
\* peak the verifier recorded (must_not_exceed_in_window), whoever sends it.
THEOREM PeakBreachAlwaysSurvives == Spec => []PeakBreachSurvives
<1>1. ReplayInv => PeakBreachSurvives
  <2> SUFFICES ASSUME ReplayInv, NEW e \in ledger, Peak, e.result.status = Breach(e),
                      Retained(e.record)
               PROVE  Replayed(e).status = Breach(e)
    BY DEF PeakBreachSurvives, Peak, Breach
  <2>1. e.answer \in {"CLEAR", "FLAG"} /\ PeakEntry(e)
    BY DEF ReplayInv, ReplayTypes
  <2>2. Outcome(buffer, e.record) = "breached" /\ "breached" \in Outcomes
    BY <2>1 DEF PeakEntry, Outcomes
  <2> QED BY <2>1, <2>2, StatusFacts DEF Replayed, Breach
<1> QED BY <1>1, ReplayInvariant, PTL
=============================================================================
