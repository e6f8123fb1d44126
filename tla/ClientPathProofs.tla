-------------------------- MODULE ClientPathProofs --------------------------
(***************************************************************************)
(* Proofs about ClientPath for any number of calls, clients, statuses,     *)
(* restarts and any sizes of pages and windows: ClientInv is inductive.    *)
(***************************************************************************)
EXTENDS ClientPath, SequenceTheorems, FiniteSetTheorems, TLAPS

CallStep(c) == ConnectFails(c) \/ Receive(c) \/ GiveUp(c)

-----------------------------------------------------------------------------
(* The invariant holds initially.                                          *)

LEMMA ClientInit == Init => ClientInv
<1> SUFFICES ASSUME Init PROVE ClientInv
  OBVIOUS
<1> USE DEF Init
<1>1. TypeOK
  <2>1. call \in [Calls -> [pc : {"idle", "connecting", "waiting", "done"},
                            client : {"sdk", "sidecar", "script"}, kind : Kinds,
                            tries : Nat, outcome : Outcomes]]
    BY DEF NewCall, Outcomes, Kinds
  <2>2. rows \in Seq(LedgerRows) /\ window \in Seq(Statuses) /\ Len(window) = 0
    BY EmptySeq
  <2>3. 0 <= WindowSize /\ MaxRetries \in Nat
    BY ClientPathAssumption
  <2>4. pager \in [pc : {"reading", "done", "failed"}, attempt : 0..MaxRetries,
                  got : Seq(LedgerRows)]
    BY <2>3, EmptySeq
  <2> QED BY <2>1, <2>2, <2>3, <2>4 DEF TypeOK, NewRequest
<1>2. SidesInStep /\ RequestsOfEpoch /\ TripStopsEvaluation
  BY DEF SidesInStep, RequestsOfEpoch, TripStopsEvaluation, Busy, NewCall, NewRequest, Definite
<1>3. RowsInStep
  BY DEF RowsInStep, NewRequest
<1>4. /\ AnsweredRows = {} /\ EvaluatedRows = {}
      /\ \A s : WithStatus(s) = {} /\ Count(window, s) = 0
  BY FS_EmptySet DEF AnsweredRows, EvaluatedRows, WithStatus, Count
<1>5. MonitorMatchesLedger
  <2>1. WindowSize \in Nat \ {0}
    BY ClientPathAssumption
  <2>2. /\ Len(window) = 0 /\ Cardinality(AnsweredRows) = 0 /\ Cardinality(EvaluatedRows) = 0
        /\ \A s : Cardinality(WithStatus(s)) = 0
    BY <1>4, FS_EmptySet, EmptySeq
  <2> QED BY <1>4, <2>1, <2>2 DEF MonitorMatchesLedger, Kept, IsHealthy
<1>6. PagesAreAPrefix
  BY DEF PagesAreAPrefix
<1> QED BY <1>1, <1>2, <1>3, <1>5, <1>6 DEF ClientInv

-----------------------------------------------------------------------------
(* Steps of the clients, which leave the service alone.                    *)

LEMMA ServiceUntouched ==
  ASSUME UNCHANGED <<service, pager>>, ClientInv
  PROVE  RequestsOfEpoch' /\ TripStopsEvaluation' /\ MonitorMatchesLedger' /\ PagesAreAPrefix' /\ RowsInStep'
<1> USE DEF ClientInv, service
<1>1. RequestsOfEpoch' /\ TripStopsEvaluation'
  BY DEF RequestsOfEpoch, TripStopsEvaluation, Busy
<1>2. RowsInStep'
  BY DEF RowsInStep, Row
<1>3. MonitorMatchesLedger'
  BY DEF MonitorMatchesLedger, AnsweredRows, EvaluatedRows, WithStatus, Count, IsHealthy
<1>4. PagesAreAPrefix'
  BY DEF PagesAreAPrefix
<1> QED BY <1>1, <1>2, <1>3, <1>4

LEMMA InvSend ==
  ASSUME ClientInv, NEW c \in Calls, NEW client \in Clients, NEW kind \in Kinds,
         Send(c, client, kind)
  PROVE  ClientInv'
<1>1. TypeOK'
  BY ClientPathAssumption DEF ClientInv, TypeOK, Send, NewCall, service, Outcomes
<1>2. SidesInStep'
  BY DEF ClientInv, SidesInStep, Send, NewCall, service, TypeOK, Definite
<1> QED BY <1>1, <1>2, ServiceUntouched DEF ClientInv, Send

LEMMA OutcomeFacts ==
  ASSUME NEW client \in {"sdk", "sidecar", "script"},
         NEW code \in {"200", "401", "422", "500", "503"}
  PROVE  /\ Outcome(client, code) \in Outcomes \ {"none"}
         /\ Outcome(client, code) = "verdict" => code = "200"
         /\ Outcome(client, code) \in Definite => code \in {"401", "422", "503"}
         /\ NoAnswer(client) \in Outcomes \ ({"none", "verdict"} \cup Definite)
BY DEF Outcome, NoAnswer, Outcomes, Definite

LEMMA InvCallStep ==
  ASSUME ClientInv, NEW c \in Calls, CallStep(c)
  PROVE  ClientInv'
<1> USE DEF CallStep
<1>1. UNCHANGED <<service, pager>>
  BY DEF ConnectFails, Receive, GiveUp
<1>2. ASSUME NEW outcome \in Outcomes \ {"none"}, Return(c, outcome),
             call[c].pc \notin {"idle", "done"},
             outcome = "verdict" => req[c].code = "200",
             outcome \in Definite => req[c].code \in {"401", "422", "503"}
      PROVE  TypeOK' /\ SidesInStep'
  <2>1. TypeOK'
    BY <1>1, <1>2 DEF ClientInv, TypeOK, Return, NewCall, service, Kinds
  <2>2. SidesInStep'
    BY <1>1, <1>2 DEF ClientInv, TypeOK, SidesInStep, Return, NewCall, service, Definite
  <2> QED BY <2>1, <2>2
<1>3. call[c].client \in {"sdk", "sidecar", "script"}
  BY DEF ClientInv, TypeOK
<1>4. CASE ConnectFails(c)
  <2>1. CASE call' = [call EXCEPT ![c].tries = @ + 1]
    <3> DEFINE Sides == [pc : {"idle", "connecting", "waiting", "done"},
                         client : {"sdk", "sidecar", "script"}, kind : Kinds,
                         tries : Nat, outcome : Outcomes]
               again == [call[c] EXCEPT !.tries = call[c].tries + 1]
    <3>0. call \in [Calls -> Sides] /\ call' = [call EXCEPT ![c] = again]
      BY <2>1 DEF ClientInv, TypeOK
    <3>1. TypeOK'
      <4>1. again \in Sides
        BY <3>0
      <4>2. call' \in [Calls -> Sides]
        BY <3>0, <4>1
      <4> QED BY <1>1, <4>2 DEF ClientInv, TypeOK, service
    <3>2. SidesInStep'
      BY <1>1, <2>1 DEF ClientInv, TypeOK, SidesInStep, service
    <3> QED BY <3>1, <3>2, <1>1, ServiceUntouched DEF ClientInv
  <2>2. CASE Return(c, NoAnswer(call[c].client))
    <3>1. NoAnswer(call[c].client) \in Outcomes \ ({"none", "verdict"} \cup Definite)
      BY <1>3, OutcomeFacts
    <3>2. TypeOK' /\ SidesInStep'
      BY <1>4, <2>2, <3>1, <1>2 DEF ConnectFails
    <3> QED BY <3>2, <1>1, ServiceUntouched DEF ClientInv
  <2> QED BY <1>4, <2>1, <2>2 DEF ConnectFails
<1>5. CASE Receive(c)
  <2>1. req[c].code \in {"200", "401", "422", "500", "503"}
    BY <1>5 DEF Receive, ClientInv, TypeOK, SidesInStep
  <2>2. TypeOK' /\ SidesInStep'
    BY <1>5, <2>1, <1>3, <1>2, OutcomeFacts DEF Receive
  <2> QED BY <2>2, <1>1, ServiceUntouched DEF ClientInv
<1>6. CASE GiveUp(c)
  <2>1. NoAnswer(call[c].client) \in Outcomes \ ({"none", "verdict"} \cup Definite)
    BY <1>3, OutcomeFacts
  <2>2. TypeOK' /\ SidesInStep'
    BY <1>6, <2>1, <1>2 DEF GiveUp
  <2> QED BY <2>2, <1>1, ServiceUntouched DEF ClientInv
<1> QED BY <1>4, <1>5, <1>6

LEMMA InvSidecarRestart ==
  ASSUME ClientInv, SidecarRestart
  PROVE  ClientInv'
<1>1. TypeOK'
  BY DEF ClientInv, TypeOK, SidecarRestart, NewCall, Forwarding, service, Kinds, Outcomes
<1>2. SidesInStep'
  BY DEF ClientInv, TypeOK, SidesInStep, SidecarRestart, NewCall, Forwarding, service, Definite
<1> QED BY <1>1, <1>2, ServiceUntouched DEF ClientInv, SidecarRestart

-----------------------------------------------------------------------------
(* Counting statuses in the window and rows in the ledger.                 *)

LEMMA CountType ==
  ASSUME NEW w \in Seq(Statuses), NEW s
  PROVE  /\ IsFiniteSet({i \in DOMAIN w : w[i] = s})
         /\ Count(w, s) \in Nat
<1>1. IsFiniteSet(DOMAIN w)
  <2>1. Len(w) \in Nat /\ DOMAIN w = 1..Len(w)
    BY LenProperties
  <2> QED BY <2>1, FS_Interval
<1>2. {i \in DOMAIN w : w[i] = s} \in SUBSET DOMAIN w
  OBVIOUS
<1> QED BY <1>1, <1>2, FS_Subset, FS_CardinalityType DEF Count

LEMMA CountAppend ==
  ASSUME NEW w \in Seq(Statuses), NEW x \in Statuses, NEW s
  PROVE  Count(Append(w, x), s) = IF s = x THEN Count(w, s) + 1 ELSE Count(w, s)
<1> DEFINE old == {i \in DOMAIN w : w[i] = s}
           new == {i \in DOMAIN Append(w, x) : Append(w, x)[i] = s}
<1>1. /\ Len(w) \in Nat /\ DOMAIN w = 1..Len(w) /\ DOMAIN Append(w, x) = 1..(Len(w) + 1)
      /\ \A i \in 1..Len(w) : Append(w, x)[i] = w[i]
      /\ Append(w, x)[Len(w) + 1] = x
  BY LenProperties, AppendProperties
<1>2. IsFiniteSet(old) /\ Len(w) + 1 \notin old
  <2>1. IsFiniteSet(old)
    BY CountType
  <2>2. Len(w) + 1 \notin DOMAIN w
    BY <1>1
  <2> QED BY <2>1, <2>2
<1>3. CASE s = x
  <2>1. new = old \cup {Len(w) + 1}
    BY <1>1, <1>3
  <2> QED BY <2>1, <1>2, <1>3, FS_AddElement DEF Count
<1>4. CASE s # x
  <2>1. new = old
    BY <1>1, <1>4
  <2> QED BY <2>1, <1>4 DEF Count
<1> QED BY <1>3, <1>4

LEMMA CountTail ==
  ASSUME NEW w \in Seq(Statuses), w # <<>>, NEW s
  PROVE  Count(Tail(w), s) <= Count(w, s)
<1> DEFINE old == {i \in DOMAIN w : w[i] = s}
           new == {i \in DOMAIN Tail(w) : Tail(w)[i] = s}
           f == [i \in new |-> i + 1]
<1>1. /\ Len(w) \in Nat \ {0} /\ DOMAIN w = 1..Len(w) /\ DOMAIN Tail(w) = 1..(Len(w) - 1)
      /\ \A i \in 1..(Len(w) - 1) : Tail(w)[i] = w[i + 1]
  BY LenProperties, HeadTailProperties, EmptySeq
<1>2. f \in [new -> old] /\ \A i, j \in new : f[i] = f[j] => i = j
  BY <1>1
<1>3. f \in Injection(new, old)
  BY <1>2 DEF Injection, IsInjective
<1> HIDE DEF f, new, old
<1>4. IsFiniteSet(old)
  BY CountType DEF old
<1>5. Cardinality(new) <= Cardinality(old)
  BY <1>3, <1>4, FS_Injection
<1> QED BY <1>5 DEF Count, new, old

LEMMA RecordFacts ==
  ASSUME NEW w \in Seq(Statuses), Len(w) <= WindowSize, NEW x \in Statuses
  PROVE  /\ Record(w, x) \in Seq(Statuses)
         /\ Len(Record(w, x)) = IF Len(w) < WindowSize THEN Len(w) + 1 ELSE WindowSize
         /\ \A s : Count(Record(w, x), s) <= IF s = x THEN Count(w, s) + 1 ELSE Count(w, s)
<1> DEFINE appended == Append(w, x)
<1>1. WindowSize \in Nat \ {0} /\ Len(w) \in Nat
  BY ClientPathAssumption, LenProperties
<1>2. appended \in Seq(Statuses) /\ appended # <<>> /\ Len(appended) = Len(w) + 1
  BY AppendProperties
<1>3. Tail(appended) \in Seq(Statuses) /\ Len(Tail(appended)) = Len(w)
  BY <1>1, <1>2, HeadTailProperties
<1>4. ASSUME NEW s
      PROVE  Count(Record(w, x), s) <= IF s = x THEN Count(w, s) + 1 ELSE Count(w, s)
  <2>1. Count(appended, s) = IF s = x THEN Count(w, s) + 1 ELSE Count(w, s)
    BY CountAppend
  <2>2. Count(Tail(appended), s) <= Count(appended, s)
    BY <1>2, CountTail
  <2>3. Count(appended, s) \in Nat /\ Count(Tail(appended), s) \in Nat
    BY <1>2, <1>3, CountType
  <2> QED BY <2>1, <2>2, <2>3 DEF Record
<1> QED BY <1>1, <1>2, <1>3, <1>4 DEF Record

LEMMA AnsweredFinite ==
  ASSUME rows \in Seq(LedgerRows)
  PROVE  /\ IsFiniteSet(AnsweredRows) /\ Cardinality(AnsweredRows) \in Nat
         /\ IsFiniteSet(EvaluatedRows) /\ Cardinality(EvaluatedRows) \in Nat
         /\ Cardinality(EvaluatedRows) <= Cardinality(AnsweredRows)
         /\ \A s : IsFiniteSet(WithStatus(s)) /\ Cardinality(WithStatus(s)) \in Nat
<1>1. IsFiniteSet(DOMAIN rows)
  BY LenProperties, FS_Interval
<1>2. /\ AnsweredRows \in SUBSET DOMAIN rows /\ EvaluatedRows \in SUBSET AnsweredRows
      /\ \A s : WithStatus(s) \in SUBSET DOMAIN rows
  BY DEF AnsweredRows, EvaluatedRows, WithStatus
<1>3. IsFiniteSet(AnsweredRows)
  BY <1>1, <1>2, FS_Subset
<1> QED BY <1>1, <1>2, <1>3, FS_Subset, FS_CardinalityType

\* Statuses that are not in the window more often than among the answered rows
\* suffice for the health report: a degraded window holds a disagreement.
LEMMA HealthFollows ==
  ASSUME NEW R \in Seq(LedgerRows), NEW A \in SUBSET DOMAIN R, NEW w \in Seq(Statuses),
         \A s \in Statuses : Count(w, s) <= Cardinality({i \in A : R[i].status = s}),
         ~IsHealthy(w)
  PROVE  Cardinality({i \in A : R[i].status = "AGREED"}) < Cardinality(A)
<1> DEFINE Agreed == {i \in A : R[i].status = "AGREED"}
<1>1. IsFiniteSet(A) /\ Cardinality(A) \in Nat /\ Cardinality(Agreed) \in Nat
  <2>1. Len(R) \in Nat /\ DOMAIN R = 1..Len(R)
    BY LenProperties
  <2>2. IsFiniteSet(DOMAIN R)
    BY <2>1, FS_Interval
  <2>3. IsFiniteSet(A) /\ Agreed \in SUBSET A
    BY <2>2, FS_Subset
  <2> QED BY <2>3, FS_Subset, FS_CardinalityType
<1>2. Agreed \in SUBSET A
  OBVIOUS
<1>3. Cardinality(Agreed) <= Cardinality(A)
  BY <1>1, <1>2, FS_Subset
<1>4. ASSUME Cardinality(Agreed) = Cardinality(A)
      PROVE  FALSE
  <2>1. Agreed = A
    BY <1>1, <1>2, <1>4, FS_Subset
  <2>2. ASSUME NEW i \in DOMAIN w, w[i] # "AGREED"
        PROVE  FALSE
    <3> DEFINE s == w[i]
               here == {j \in DOMAIN w : w[j] = s}
    <3>1. s \in Statuses
      BY LenProperties, ElementOfSeq
    <3>2. {j \in A : R[j].status = s} = {}
      BY <2>1, <2>2
    <3>3. Cardinality({j \in A : R[j].status = s}) = 0
      BY <3>2, FS_EmptySet
    <3>4. IsFiniteSet(here) /\ Cardinality(here) = Count(w, s) /\ Count(w, s) \in Nat
      BY CountType DEF Count
    <3>5. Cardinality(here) = 0
      BY <3>1, <3>3, <3>4
    <3>6. here = {}
      BY <3>4, <3>5, FS_EmptySet
    <3> QED BY <3>6
  <2>3. {i \in DOMAIN w : w[i] = "AGREED"} = 1..Len(w) /\ Len(w) \in Nat
    BY <2>2, LenProperties
  <2>4. Count(w, "AGREED") = Len(w)
    <3>1. Len(w) \in Nat /\ \A n \in Nat : Cardinality(1..n) = n
      BY <2>3, FS_Interval
    <3> QED BY <2>3, <3>1 DEF Count
  <2>5. Percent \in 0..100
    BY ClientPathAssumption
  <2>6. ASSUME NEW n \in Nat PROVE 100 * n >= Percent * n
    <3>1. 100 * n - Percent * n = (100 - Percent) * n /\ (100 - Percent) \in Nat
      BY <2>5
    <3>2. (100 - Percent) * n \in Nat /\ Percent * n \in Int
      BY <2>5, <3>1
    <3> QED BY <3>1, <3>2
  <2> QED BY <2>3, <2>4, <2>6 DEF IsHealthy
<1> QED BY <1>1, <1>3, <1>4

-----------------------------------------------------------------------------
(* Steps of the service.                                                   *)

RequestType == [pc : {"none", "asking", "append", "committed", "answered", "lost"},
                track : {"none", "v3-evaluator", "v3-clock-skew-guard"},
                status : Statuses \cup {"none"},
                code : {"none", "200", "401", "422", "500", "503"}, epoch : Nat]

\* Whatever leaves the set of answered rows alone leaves the monitor in step
\* with the ledger.
LEMMA MonitorKept ==
  ASSUME MonitorMatchesLedger, UNCHANGED window, up' => up,
         AnsweredRows' = AnsweredRows,
         \A i \in AnsweredRows : rows'[i] = rows[i]
  PROVE  MonitorMatchesLedger'
<1>1. EvaluatedRows' = EvaluatedRows /\ \A s : WithStatus(s)' = WithStatus(s)
  BY DEF EvaluatedRows, WithStatus
<1>2. \A s : Count(window', s) = Count(window, s)
  OBVIOUS
<1> QED BY <1>1, <1>2 DEF MonitorMatchesLedger, Count, IsHealthy

LEMMA RefusalFacts ==
  ASSUME NEW c \in Calls
  PROVE  /\ Refusal(c) \in {"none", "401", "422", "503"}
         /\ tripped => Refusal(c) # "none"
BY DEF Refusal

LEMMA InvArrive ==
  ASSUME ClientInv, NEW c \in Calls, Arrive(c)
  PROVE  ClientInv'
<1> USE DEF ClientInv
<1>0. UNCHANGED <<rows, up, epoch, tripped, atTrip, window, pager>> /\ up
  BY DEF Arrive
<1> DEFINE r == req'[c]
<1>1. /\ call[c].pc = "connecting" /\ req[c] = NewRequest
      /\ call \in [Calls -> [pc : {"idle", "connecting", "waiting", "done"},
                             client : {"sdk", "sidecar", "script"}, kind : Kinds,
                             tries : Nat, outcome : Outcomes]]
      /\ req \in [Calls -> RequestType] /\ epoch \in Nat
  BY DEF Arrive, SidesInStep, TypeOK, RequestType
<1>2. /\ r \in RequestType
      /\ r.code \in {"none", "401", "422", "503"}
      /\ r.code # "none" <=> r.pc = "answered"
      /\ r.pc \in {"asking", "append", "answered"}
      /\ r.epoch = epoch
      /\ r.pc # "answered" => r.track # "none" /\ ~tripped
      /\ r.pc = "append" => r.status # "none"
  <2>1. "UNVERIFIABLE" \in Statuses
    BY ClientPathAssumption
  <2>2. CASE Refusal(c) # "none"
    <3>1. r = [NewRequest EXCEPT !.pc = "answered", !.code = Refusal(c), !.epoch = epoch]
      BY <2>2, <1>1 DEF Arrive
    <3> QED BY <3>1, <2>2, <1>1, RefusalFacts DEF NewRequest, RequestType
  <2>3. CASE Refusal(c) = "none" /\ call[c].kind = "skewed"
    <3>1. r = SkewRequest
      BY <2>3, <1>1 DEF Arrive
    <3> QED BY <3>1, <2>1, <2>3, <1>1, RefusalFacts DEF NewRequest, RequestType, SkewRequest
  <2>4. CASE Refusal(c) = "none" /\ call[c].kind # "skewed"
    <3>1. r = [NewRequest EXCEPT !.pc = "asking", !.track = "v3-evaluator", !.epoch = epoch]
      BY <2>4, <1>1 DEF Arrive
    <3> QED BY <3>1, <2>4, <1>1, RefusalFacts DEF NewRequest, RequestType
  <2> QED BY <2>2, <2>3, <2>4
<1>3. req' = [req EXCEPT ![c] = r] /\ r = req'[c]
  BY <1>1 DEF Arrive
<1>4. call' = [call EXCEPT ![c] = [call[c] EXCEPT !.pc = "waiting"]]
  BY <1>1 DEF Arrive
<1> HIDE DEF r
<1>5. TypeOK'
  <2>1. req' \in [Calls -> RequestType]
    BY <1>1, <1>2, <1>3
  <2>2. call' \in [Calls -> [pc : {"idle", "connecting", "waiting", "done"},
                             client : {"sdk", "sidecar", "script"}, kind : Kinds,
                             tries : Nat, outcome : Outcomes]]
    BY <1>1, <1>4
  <2> QED BY <2>1, <2>2, <1>0 DEF TypeOK, RequestType
<1>6. SidesInStep'
  BY <1>1, <1>2, <1>3, <1>4 DEF SidesInStep, Definite, NewRequest
<1>7. \A i \in DOMAIN rows : rows[i].call \in Calls /\ rows[i].call # c
  <2>1. req[c].pc = "none"
    BY <1>1 DEF NewRequest
  <2>2. \A i \in DOMAIN rows : rows[i] \in LedgerRows
    BY LenProperties, ElementOfSeq DEF TypeOK
  <2> QED BY <2>1, <2>2 DEF RowsInStep, LedgerRows
<1>8. \A i \in DOMAIN rows : req'[rows[i].call] = req[rows[i].call]
  BY <1>1, <1>3, <1>7
<1>9. RowsInStep'
  <2>1. \A d \in Calls : req'[d].pc = "committed" \/ req'[d].code = "200"
          => req[d].pc = "committed" \/ req[d].code = "200"
    BY <1>1, <1>2, <1>3
  <2> QED BY <2>1, <1>0, <1>8 DEF RowsInStep, Row
<1>10. RequestsOfEpoch'
  BY <1>0, <1>1, <1>2, <1>3 DEF RequestsOfEpoch, Busy
<1>11. TripStopsEvaluation'
  BY <1>0, <1>1, <1>2, <1>3 DEF TripStopsEvaluation, Busy
<1>12. MonitorMatchesLedger'
  <2>1. AnsweredRows' = AnsweredRows
    BY <1>0, <1>8 DEF AnsweredRows
  <2> QED BY <2>1, <1>0, MonitorKept
<1>13. PagesAreAPrefix'
  BY <1>0 DEF PagesAreAPrefix
<1> QED BY <1>5, <1>6, <1>9, <1>10, <1>11, <1>12, <1>13

\* The facts about the rows and requests that the steps of a request use.
LEMMA RowFacts ==
  ASSUME ClientInv
  PROVE  /\ Len(rows) \in Nat /\ DOMAIN rows = 1..Len(rows)
         /\ \A i \in DOMAIN rows : rows[i] \in LedgerRows /\ rows[i].call \in Calls
         /\ req \in [Calls -> RequestType]
         /\ rows \in Seq(LedgerRows)
<1>1. rows \in Seq(LedgerRows) /\ req \in [Calls -> RequestType]
  BY DEF ClientInv, TypeOK, RequestType
<1>2. Len(rows) \in Nat /\ DOMAIN rows = 1..Len(rows) /\ \A i \in DOMAIN rows : rows[i] \in LedgerRows
  BY <1>1, LenProperties, ElementOfSeq
<1> QED BY <1>1, <1>2 DEF LedgerRows

\* A request in the making is answered with an error, or has its verdict.
LEMMA InvRequestMoves ==
  ASSUME ClientInv, NEW c \in Calls, Busy(c), NEW r \in RequestType,
         req' = [req EXCEPT ![c] = r],
         r.epoch = req[c].epoch, r.track = req[c].track,
         \/ r.pc = "answered" /\ r.code = "500" /\ r.status = req[c].status
         \/ r.pc = "append" /\ r.code = "none" /\ r.status # "none" /\ req[c].pc = "asking",
         UNCHANGED <<call, rows, up, epoch, tripped, atTrip, window, pager>>
  PROVE  ClientInv'
<1> USE DEF ClientInv
<1>1. req \in [Calls -> RequestType] /\ req[c].code = "none"
  BY RowFacts DEF SidesInStep, Busy
<1>2. TypeOK'
  <2>1. req' \in [Calls -> RequestType]
    BY <1>1
  <2> QED BY <2>1 DEF TypeOK, RequestType
<1>3. SidesInStep'
  BY <1>1 DEF SidesInStep, Definite, NewRequest, Busy
<1>4. RowsInStep'
  <2>1. ASSUME NEW i \in DOMAIN rows
        PROVE  /\ rows[i] = Row(rows[i].call)'
               /\ req'[rows[i].call].pc \in {"committed", "answered", "lost"}
               /\ req'[rows[i].call].code \in {"none", "200", "500"}
    <3>1. rows[i].call \in Calls
      BY RowFacts
    <3>2. CASE rows[i].call = c
      <4>1. r.pc = "answered" /\ r.code = "500" /\ r.status = req[c].status
        BY <3>2 DEF RowsInStep
      <4> QED BY <1>1, <3>2, <4>1 DEF RowsInStep, Row
    <3>3. CASE rows[i].call # c
      BY <1>1, <3>1, <3>3 DEF RowsInStep, Row
    <3> QED BY <3>2, <3>3
  <2>2. \A d \in Calls : req'[d].pc = "committed" \/ req'[d].code = "200"
          => req[d].pc = "committed" \/ req[d].code = "200"
    BY <1>1
  <2> QED BY <2>1, <2>2 DEF RowsInStep
<1>5. RequestsOfEpoch'
  BY <1>1 DEF RequestsOfEpoch, Busy
<1>6. TripStopsEvaluation'
  BY <1>1 DEF TripStopsEvaluation, Busy
<1>7. MonitorMatchesLedger'
  <2>1. \A d \in Calls : req'[d].code = "200" <=> req[d].code = "200"
    BY <1>1
  <2>2. AnsweredRows' = AnsweredRows
    BY <2>1, RowFacts DEF AnsweredRows
  <2> QED BY <2>2, MonitorKept
<1>8. PagesAreAPrefix'
  BY DEF PagesAreAPrefix
<1> QED BY <1>2, <1>3, <1>4, <1>5, <1>6, <1>7, <1>8

LEMMA InvBackendReturns ==
  ASSUME ClientInv, NEW c \in Calls, NEW wire \in OnTheWire, BackendReturns(c, wire)
  PROVE  ClientInv'
<1>1. req \in [Calls -> RequestType] /\ req[c].pc = "asking" /\ req[c].code = "none" /\ Busy(c)
  BY RowFacts DEF BackendReturns, ClientInv, SidesInStep, Busy
<1>2. UNCHANGED <<call, rows, up, epoch, tripped, atTrip, window, pager>>
  BY DEF BackendReturns
<1>3. CASE BackendAnswer(wire) = "raises"
  <2> DEFINE r == [req[c] EXCEPT !.pc = "answered", !.code = "500"]
  <2>1. req' = [req EXCEPT ![c] = r]
    BY <1>1, <1>3 DEF BackendReturns, Reply
  <2>2. r \in RequestType
    BY <1>1 DEF RequestType
  <2>3. r.pc = "answered" /\ r.code = "500" /\ r.status = req[c].status
        /\ r.epoch = req[c].epoch /\ r.track = req[c].track
    BY <1>1 DEF RequestType
  <2> HIDE DEF r
  <2> QED BY <2>1, <2>2, <2>3, <1>1, <1>2, InvRequestMoves
<1>4. CASE BackendAnswer(wire) # "raises"
  <2> DEFINE r == [req[c] EXCEPT !.pc = "append", !.status = BackendAnswer(wire)]
  <2>0. BackendAnswer(wire) \in Statuses
    BY <1>4, ClientPathAssumption DEF BackendAnswer
  <2>1. req' = [req EXCEPT ![c] = r]
    BY <1>1, <1>4 DEF BackendReturns, Reply
  <2>2. r \in RequestType
    BY <1>1, <2>0 DEF RequestType
  <2>3. r.pc = "append" /\ r.code = "none" /\ r.status # "none"
        /\ r.epoch = req[c].epoch /\ r.track = req[c].track
    BY <1>1, <2>0, ClientPathAssumption DEF RequestType
  <2> HIDE DEF r
  <2> QED BY <2>1, <2>2, <2>3, <1>1, <1>2, InvRequestMoves
<1> QED BY <1>3, <1>4

LEMMA InvAppendRaises ==
  ASSUME ClientInv, NEW c \in Calls, AppendRaises(c)
  PROVE  ClientInv'
<1> DEFINE r == [req[c] EXCEPT !.pc = "answered", !.code = "500"]
<1>1. req \in [Calls -> RequestType] /\ Busy(c)
      /\ UNCHANGED <<call, rows, up, epoch, tripped, atTrip, window, pager>>
  BY RowFacts DEF AppendRaises, Busy
<1>2. req' = [req EXCEPT ![c] = r]
  BY <1>1 DEF AppendRaises, Reply
<1>3. r \in RequestType /\ r.pc = "answered" /\ r.code = "500" /\ r.status = req[c].status
      /\ r.epoch = req[c].epoch /\ r.track = req[c].track
  BY <1>1 DEF RequestType
<1> HIDE DEF r
<1> QED BY <1>1, <1>2, <1>3, InvRequestMoves

LEMMA InvCommit ==
  ASSUME ClientInv, NEW c \in Calls, Commit(c)
  PROVE  ClientInv'
<1> USE DEF ClientInv
<1> DEFINE r == [req[c] EXCEPT !.pc = "committed"]
           n == Len(rows)
<1>1. /\ req[c].pc = "append" /\ req[c].code = "none" /\ req[c].epoch = epoch
      /\ req[c].track # "none" /\ req[c].status # "none" /\ up
      /\ req \in [Calls -> RequestType]
      /\ UNCHANGED <<call, up, epoch, tripped, atTrip, window, pager>>
      /\ rows' = Append(rows, Row(c))
  BY RowFacts DEF Commit, SidesInStep, RequestsOfEpoch, Busy
<1>2. req' = [req EXCEPT ![c] = r] /\ r \in RequestType
      /\ r.pc = "committed" /\ r.code = "none" /\ r.epoch = epoch
      /\ r.track = req[c].track /\ r.status = req[c].status
  BY <1>1 DEF Commit, RequestType
<1> HIDE DEF r
<1>3. Row(c) \in LedgerRows
  BY <1>1 DEF Row, LedgerRows, RequestType
<1>4. /\ rows' \in Seq(LedgerRows) /\ Len(rows') = n + 1 /\ n \in Nat
      /\ DOMAIN rows = 1..n /\ DOMAIN rows' = 1..(n + 1)
      /\ \A i \in 1..n : rows'[i] = rows[i]
      /\ rows'[n + 1] = Row(c)
  BY <1>1, <1>3, RowFacts, AppendProperties, LenProperties
<1>5. TypeOK'
  <2>1. req' \in [Calls -> RequestType]
    BY <1>1, <1>2
  <2> QED BY <2>1, <1>1, <1>4 DEF TypeOK, RequestType
<1>6. SidesInStep'
  BY <1>1, <1>2 DEF SidesInStep, Definite, NewRequest
<1>7. \A i \in 1..n : rows[i].call \in Calls /\ rows[i].call # c
  BY <1>1, <1>4, RowFacts DEF RowsInStep
<1>8. Row(c)' = Row(c) /\ Row(c).call = c
  BY <1>1, <1>2 DEF Row
<1>9. RowsInStep'
  <2>1. ASSUME NEW i \in DOMAIN rows'
        PROVE  /\ (rows[i] = Row(rows[i].call))'
               /\ req'[rows'[i].call].pc \in {"committed", "answered", "lost"}
               /\ req'[rows'[i].call].code \in {"none", "200", "500"}
    <3>1. CASE i = n + 1
      BY <3>1, <1>1, <1>2, <1>4, <1>8
    <3>2. CASE i \in 1..n
      <4>1. rows'[i] = rows[i] /\ req'[rows[i].call] = req[rows[i].call]
        BY <3>2, <1>1, <1>2, <1>4, <1>7
      <4> QED BY <4>1, <3>2, <1>4 DEF RowsInStep, Row
    <3> QED BY <3>1, <3>2, <1>4
  <2>2. \A i, j \in DOMAIN rows' : rows'[i].call = rows'[j].call => i = j
    BY <1>4, <1>7, <1>8 DEF RowsInStep
  <2>3. ASSUME NEW d \in Calls, req'[d].pc = "committed" \/ req'[d].code = "200"
        PROVE  \E i \in DOMAIN rows' : rows'[i].call = d
    <3>1. CASE d = c
      BY <3>1, <1>4, <1>8
    <3>2. CASE d # c
      <4>1. PICK i \in DOMAIN rows : rows[i].call = d
        BY <2>3, <3>2, <1>1, <1>2 DEF RowsInStep
      <4> QED BY <4>1, <1>4
    <3> QED BY <3>1, <3>2
  <2> QED BY <2>1, <2>2, <2>3 DEF RowsInStep
<1>10. RequestsOfEpoch'
  BY <1>1, <1>2 DEF RequestsOfEpoch, Busy
<1>11. TripStopsEvaluation'
  BY <1>1, <1>2 DEF TripStopsEvaluation, Busy
<1>12. MonitorMatchesLedger'
  <2>1. req'[c].code # "200" /\ \A i \in 1..n : req'[rows[i].call] = req[rows[i].call]
    BY <1>1, <1>2, <1>7
  <2>2. AnsweredRows' = AnsweredRows
    BY <2>1, <1>1, <1>4, <1>8 DEF AnsweredRows
  <2>3. \A i \in AnsweredRows : rows'[i] = rows[i]
    BY <1>4 DEF AnsweredRows
  <2> QED BY <2>2, <2>3, <1>1, MonitorKept
<1>13. PagesAreAPrefix'
  <2> DEFINE k == Len(pager.got)
  <2>1. k \in Nat /\ k <= n /\ pager.got \in Seq(LedgerRows) /\ pager.got = SubSeq(rows, 1, k)
    BY LenProperties DEF PagesAreAPrefix, TypeOK
  <2>2. /\ \A i \in 1..k : rows[i] \in LedgerRows /\ rows'[i] \in LedgerRows /\ rows'[i] = rows[i]
        /\ rows' \in Seq(LedgerRows)
    BY <2>1, <1>4, RowFacts
  <2>3. /\ SubSeq(rows', 1, k) \in Seq(LedgerRows) /\ Len(SubSeq(rows', 1, k)) = k
        /\ \A i \in 1..k : SubSeq(rows', 1, k)[i] = rows'[i]
    BY <2>1, <2>2, SubSeqProperties
  <2>4. \A i \in 1..k : SubSeq(rows, 1, k)[i] = rows[i]
    BY <2>1, <2>2, SubSeqProperties
  <2>5. \A i \in 1..k : pager.got[i] = SubSeq(rows', 1, k)[i]
    BY <2>1, <2>2, <2>3, <2>4
  <2>6. pager.got = SubSeq(rows', 1, k)
    BY <2>1, <2>3, <2>5, SeqEqual
  <2> QED BY <2>1, <2>6, <1>1, <1>4 DEF PagesAreAPrefix
<1> QED BY <1>5, <1>6, <1>9, <1>10, <1>11, <1>12, <1>13

LEMMA InvFinish ==
  ASSUME ClientInv, NEW c \in Calls, Finish(c)
  PROVE  ClientInv'
<1> USE DEF ClientInv
<1> DEFINE r == [req[c] EXCEPT !.pc = "answered", !.code = "200"]
<1>1. /\ req[c].pc = "committed" /\ req[c].code = "none" /\ req[c].epoch = epoch
      /\ req[c].track # "none" /\ req[c].status \in Statuses /\ up
      /\ req \in [Calls -> RequestType]
      /\ UNCHANGED <<call, rows, up, epoch, tripped, atTrip, pager>>
  BY RowFacts DEF Finish, SidesInStep, RequestsOfEpoch, Busy, RequestType
<1>2. req' = [req EXCEPT ![c] = r] /\ r \in RequestType
      /\ r.pc = "answered" /\ r.code = "200" /\ r.epoch = epoch
      /\ r.track = req[c].track /\ r.status = req[c].status
  BY <1>1 DEF Finish, Reply, RequestType
<1> HIDE DEF r
<1>3. PICK k \in DOMAIN rows : rows[k].call = c
  BY <1>1 DEF RowsInStep
<1>4. rows[k].epoch = epoch /\ rows[k].track = req[c].track /\ rows[k].status = req[c].status
  BY <1>1, <1>3 DEF RowsInStep, Row
<1>5. \A i \in DOMAIN rows : i # k => rows[i].call \in Calls \ {c}
  BY <1>3, RowFacts DEF RowsInStep
<1>6. \A i \in DOMAIN rows : i # k => req'[rows[i].call] = req[rows[i].call]
  BY <1>1, <1>2, <1>5
<1>7. window \in Seq(Statuses) /\ Len(window) <= WindowSize
  BY DEF TypeOK
<1>8. window' \in Seq(Statuses) /\ Len(window') <= WindowSize
  <2>1. WindowSize \in Nat /\ Len(window) \in Nat
    BY ClientPathAssumption, <1>7, LenProperties
  <2>2. Record(window, req[c].status) \in Seq(Statuses) /\ Len(Record(window, req[c].status)) <= WindowSize
    BY <2>1, <1>1, <1>7, RecordFacts
  <2> QED BY <2>2, <1>7 DEF Finish
<1>9. TypeOK'
  <2>1. req' \in [Calls -> RequestType]
    BY <1>1, <1>2
  <2> QED BY <2>1, <1>1, <1>8 DEF TypeOK, RequestType
<1>10. SidesInStep'
  BY <1>1, <1>2 DEF SidesInStep, Definite, NewRequest
<1>11. RowsInStep'
  <2>1. ASSUME NEW i \in DOMAIN rows
        PROVE  /\ rows[i] = Row(rows[i].call)'
               /\ req'[rows[i].call].pc \in {"committed", "answered", "lost"}
               /\ req'[rows[i].call].code \in {"none", "200", "500"}
    <3>1. CASE i = k
      BY <3>1, <1>1, <1>2, <1>3 DEF RowsInStep, Row
    <3>2. CASE i # k
      BY <3>2, <1>1, <1>6 DEF RowsInStep, Row
    <3> QED BY <3>1, <3>2
  <2>2. ASSUME NEW d \in Calls, req'[d].pc = "committed" \/ req'[d].code = "200"
        PROVE  \E i \in DOMAIN rows : rows[i].call = d
    BY <2>2, <1>1, <1>2, <1>3 DEF RowsInStep
  <2> QED BY <2>1, <2>2, <1>1 DEF RowsInStep
<1>12. RequestsOfEpoch'
  BY <1>1, <1>2 DEF RequestsOfEpoch, Busy
<1>13. TripStopsEvaluation'
  BY <1>1, <1>2 DEF TripStopsEvaluation, Busy
<1>14. MonitorMatchesLedger'
  <2> DEFINE answered == Cardinality(AnsweredRows)
             evaluated == Cardinality(EvaluatedRows)
  <2>0. PICK st \in Statuses : st = req[c].status
    BY <1>1
  <2>1. k \notin AnsweredRows /\ k \notin EvaluatedRows
    BY <1>1, <1>3 DEF AnsweredRows, EvaluatedRows
  <2>2. AnsweredRows' = AnsweredRows \cup {k}
    <3>1. req'[rows[k].call].code = "200"
      BY <1>1, <1>2, <1>3
    <3> QED BY <3>1, <1>1, <1>3, <1>4, <1>6 DEF AnsweredRows
  <2>3. EvaluatedRows' = IF req[c].track = "v3-evaluator" THEN EvaluatedRows \cup {k}
                         ELSE EvaluatedRows
    BY <2>2, <1>1, <1>4 DEF EvaluatedRows
  <2>4. WithStatus(st)' = WithStatus(st) \cup {k} /\ k \notin WithStatus(st)
    BY <2>0, <2>1, <2>2, <1>1, <1>4 DEF WithStatus
  <2>5. \A s : s # st => WithStatus(s)' = WithStatus(s)
    BY <2>0, <2>2, <1>1, <1>4 DEF WithStatus
  <2>6. /\ IsFiniteSet(AnsweredRows) /\ answered \in Nat
        /\ IsFiniteSet(EvaluatedRows) /\ evaluated \in Nat /\ evaluated <= answered
        /\ \A s : IsFiniteSet(WithStatus(s)) /\ Cardinality(WithStatus(s)) \in Nat
    BY AnsweredFinite, RowFacts
  <2>7. /\ Cardinality(AnsweredRows') = answered + 1
        /\ Cardinality(EvaluatedRows') =
             IF req[c].track = "v3-evaluator" THEN evaluated + 1 ELSE evaluated
        /\ Cardinality(WithStatus(st)') = Cardinality(WithStatus(st)) + 1
    BY <2>1, <2>2, <2>3, <2>4, <2>6, FS_AddElement
  <2>8. window' = IF req[c].track = "v3-evaluator" THEN Record(window, st) ELSE window
    BY <2>0 DEF Finish
  <2>9. /\ Kept(evaluated) <= Len(window) /\ Len(window) <= Kept(answered)
        /\ \A s \in Statuses : Count(window, s) <= Cardinality(WithStatus(s))
    BY <1>1 DEF MonitorMatchesLedger
  <2>10. WindowSize \in Nat \ {0} /\ Len(window) \in Nat
    BY <1>7, LenProperties, ClientPathAssumption
  <2>11. /\ Kept(Cardinality(EvaluatedRows')) <= Len(window')
         /\ Len(window') <= Kept(Cardinality(AnsweredRows'))
    <3>1. CASE req[c].track = "v3-evaluator"
      <4>1. Len(window') = IF Len(window) < WindowSize THEN Len(window) + 1 ELSE WindowSize
        BY <3>1, <2>8, <1>7, RecordFacts
      <4> HIDE DEF answered, evaluated
      <4> QED BY <3>1, <4>1, <2>6, <2>7, <2>9, <2>10 DEF Kept
    <3>2. CASE req[c].track # "v3-evaluator"
      <4> HIDE DEF answered, evaluated
      <4> QED BY <3>2, <2>6, <2>7, <2>8, <2>9, <2>10 DEF Kept
    <3> QED BY <3>1, <3>2
  <2>12. ASSUME NEW s \in Statuses PROVE Count(window', s) <= Cardinality(WithStatus(s)')
    <3>1. Count(window', s) <= IF s = st THEN Count(window, s) + 1 ELSE Count(window, s)
      <4>1. Count(window, s) \in Nat
        BY <1>7, CountType
      <4> QED BY <4>1, <2>8, <1>7, RecordFacts
    <3>2. Count(window, s) <= Cardinality(WithStatus(s))
      BY <2>9
    <3>3. Count(window', s) \in Nat /\ Count(window, s) \in Nat /\ Cardinality(WithStatus(s)) \in Nat
      BY <1>7, <1>8, <2>6, CountType
    <3>4. CASE s = st
      BY <3>1, <3>2, <3>3, <3>4, <2>7
    <3>5. CASE s # st
      BY <3>1, <3>2, <3>3, <3>5, <2>5
    <3> QED BY <3>4, <3>5
  <2>13. ~IsHealthy(window') => Cardinality(WithStatus("AGREED")') < Cardinality(AnsweredRows')
    <3>1. rows' \in Seq(LedgerRows) /\ AnsweredRows' \in SUBSET DOMAIN rows'
      BY <1>9 DEF TypeOK, AnsweredRows
    <3>2. \A s : WithStatus(s)' = {i \in AnsweredRows' : rows'[i].status = s}
      BY DEF WithStatus
    <3> QED BY <2>12, <3>1, <3>2, <1>8, HealthFollows
  <2> QED BY <2>11, <2>12, <2>13 DEF MonitorMatchesLedger
<1>15. PagesAreAPrefix'
  BY <1>1 DEF PagesAreAPrefix
<1> QED BY <1>9, <1>10, <1>11, <1>12, <1>13, <1>14, <1>15

LEMMA InvEgressAttempt ==
  ASSUME ClientInv, EgressAttempt
  PROVE  ClientInv'
<1> USE DEF ClientInv
<1>1. UNCHANGED <<call, req, rows, up, epoch, window, pager>>
      /\ tripped' = TRUE /\ atTrip' = {c \in Calls : Busy(c)}
  BY DEF EgressAttempt
<1>2. TypeOK'
  BY <1>1 DEF TypeOK
<1>3. SidesInStep' /\ RequestsOfEpoch' /\ PagesAreAPrefix'
  BY <1>1 DEF SidesInStep, RequestsOfEpoch, PagesAreAPrefix, Busy
<1>4. RowsInStep'
  BY <1>1 DEF RowsInStep, Row
<1>5. TripStopsEvaluation'
  BY <1>1 DEF TripStopsEvaluation, Busy
<1>6. MonitorMatchesLedger'
  <2>1. AnsweredRows' = AnsweredRows
    BY <1>1 DEF AnsweredRows
  <2> QED BY <2>1, <1>1, MonitorKept
<1> QED BY <1>2, <1>3, <1>4, <1>5, <1>6

LEMMA InvServiceCrash ==
  ASSUME ClientInv, ServiceCrash
  PROVE  ClientInv'
<1> USE DEF ClientInv
<1>1. UNCHANGED <<call, rows, epoch, tripped, atTrip, window, pager>> /\ up' = FALSE
      /\ req' = [c \in Calls |-> IF Busy(c) THEN [req[c] EXCEPT !.pc = "lost"] ELSE req[c]]
      /\ req \in [Calls -> RequestType]
  BY RowFacts DEF ServiceCrash
<1>2. ASSUME NEW c \in Calls
      PROVE  /\ req'[c] \in RequestType
             /\ req'[c].track = req[c].track /\ req'[c].status = req[c].status
             /\ req'[c].code = req[c].code /\ req'[c].epoch = req[c].epoch
             /\ req'[c].pc = IF Busy(c) THEN "lost" ELSE req[c].pc
  BY <1>1 DEF RequestType
<1>3. TypeOK'
  <2>1. req' \in [Calls -> RequestType]
    BY <1>1, <1>2
  <2> QED BY <2>1, <1>1 DEF TypeOK, RequestType
<1>4. \A c \in Calls : ~Busy(c)'
  BY <1>2 DEF Busy
<1>5. SidesInStep'
  <2>1. \A c \in Calls : call[c].pc \in {"idle", "connecting"} => req'[c] = req[c]
    BY <1>1 DEF SidesInStep, NewRequest, Busy
  <2> QED BY <2>1, <1>1, <1>2 DEF SidesInStep, Busy
<1>6. RowsInStep'
  <2>1. ASSUME NEW i \in DOMAIN rows
        PROVE  /\ rows[i] = Row(rows[i].call)'
               /\ req'[rows[i].call].pc \in {"committed", "answered", "lost"}
               /\ req'[rows[i].call].code \in {"none", "200", "500"}
    BY <1>1, <1>2, RowFacts DEF RowsInStep, Row
  <2>2. \A c \in Calls : req'[c].pc = "committed" \/ req'[c].code = "200"
          => req[c].pc = "committed" \/ req[c].code = "200"
    BY <1>2
  <2> QED BY <2>1, <2>2, <1>1 DEF RowsInStep
<1>7. RequestsOfEpoch'
  BY <1>1, <1>2, <1>4 DEF RequestsOfEpoch, Busy
<1>8. TripStopsEvaluation' /\ MonitorMatchesLedger' /\ PagesAreAPrefix'
  BY <1>1, <1>4 DEF TripStopsEvaluation, MonitorMatchesLedger, PagesAreAPrefix
<1> QED BY <1>3, <1>5, <1>6, <1>7, <1>8

LEMMA InvServiceStart ==
  ASSUME ClientInv, ServiceStart
  PROVE  ClientInv'
<1> USE DEF ClientInv
<1>1. UNCHANGED <<call, req, rows, pager>> /\ ~up /\ epoch' = epoch + 1 /\ epoch \in Nat
      /\ up' = TRUE /\ tripped' = FALSE /\ atTrip' = {} /\ window' = <<>>
  BY DEF ServiceStart, TypeOK
<1>2. window' \in Seq(Statuses) /\ Len(window') = 0 /\ WindowSize \in Nat \ {0}
  BY <1>1, EmptySeq, ClientPathAssumption
<1>3. TypeOK'
  <2>1. up' \in BOOLEAN /\ tripped' \in BOOLEAN /\ atTrip' \subseteq Calls
    BY <1>1
  <2>2. epoch' \in Nat
    BY <1>1
  <2>3. Len(window') <= WindowSize
    BY <1>2
  <2> QED BY <2>1, <2>2, <2>3, <1>1, <1>2 DEF TypeOK
<1>4. SidesInStep' /\ PagesAreAPrefix' /\ TripStopsEvaluation'
  BY <1>1 DEF SidesInStep, PagesAreAPrefix, TripStopsEvaluation
<1>5. RowsInStep'
  BY <1>1 DEF RowsInStep, Row
<1>6. RequestsOfEpoch'
  <2>1. \A c \in Calls : ~Busy(c) /\ req[c].epoch \in Nat /\ req[c].epoch <= epoch
    BY <1>1, RowFacts DEF RequestsOfEpoch, RequestType
  <2>2. \A c \in Calls : req'[c] = req[c] /\ req[c].epoch <= epoch'
    BY <1>1, <2>1
  <2> QED BY <1>1, <2>1, <2>2 DEF RequestsOfEpoch, Busy
<1>7. AnsweredRows' = {}
  <2>1. \A i \in DOMAIN rows : rows[i].epoch <= epoch /\ rows[i].epoch \in Nat
    BY RowFacts DEF RowsInStep, RequestsOfEpoch, Row, LedgerRows
  <2> QED BY <2>1, <1>1 DEF AnsweredRows
<1>8. MonitorMatchesLedger'
  <2>1. /\ Cardinality(AnsweredRows') = 0 /\ Cardinality(EvaluatedRows') = 0
        /\ \A s : WithStatus(s)' = {} /\ Cardinality(WithStatus(s)') = 0 /\ Count(window', s) = 0
    BY <1>1, <1>7, FS_EmptySet DEF EvaluatedRows, WithStatus, Count
  <2> QED BY <2>1, <1>1, <1>2, ClientPathAssumption DEF MonitorMatchesLedger, Kept, IsHealthy
<1> QED BY <1>3, <1>4, <1>5, <1>6, <1>8

-----------------------------------------------------------------------------
(* Steps of the reader.                                                    *)

LEMMA InvReader ==
  ASSUME ClientInv, ReaderStep
  PROVE  ClientInv'
<1> USE DEF ClientInv
<1> DEFINE k == Len(pager.got)
<1>1. UNCHANGED <<call, req, rows, up, epoch, tripped, atTrip, window>>
  BY DEF ReaderStep, PageArrives, PageFails, service
<1>2. /\ k \in Nat /\ k <= Len(rows) /\ pager.got \in Seq(LedgerRows)
      /\ pager.got = SubSeq(rows, 1, k) /\ pager.attempt \in 0..MaxRetries /\ MaxRetries \in Nat
      /\ pager \in [pc : {"reading", "done", "failed"}, attempt : 0..MaxRetries,
                    got : Seq(LedgerRows)]
  BY LenProperties, ClientPathAssumption DEF PagesAreAPrefix, TypeOK
<1>3. SidesInStep' /\ RequestsOfEpoch' /\ TripStopsEvaluation'
  BY <1>1 DEF SidesInStep, RequestsOfEpoch, TripStopsEvaluation, Busy
<1>4. RowsInStep'
  BY <1>1 DEF RowsInStep, Row
<1>5. MonitorMatchesLedger'
  <2>1. AnsweredRows' = AnsweredRows
    BY <1>1 DEF AnsweredRows
  <2> QED BY <2>1, <1>1, MonitorKept
<1>6. CASE PageArrives
  <2> DEFINE n == IF k + Limit < Len(rows) THEN k + Limit ELSE Len(rows)
  <2>1. n \in k..Len(rows) /\ Len(rows) \in Nat
    BY <1>2, RowFacts, ClientPathAssumption
  <2>2. Page(k) = SubSeq(rows, k + 1, n)
    BY DEF Page
  <2> HIDE DEF n
  <2>3. /\ \A i \in 1..n : rows[i] \in LedgerRows
        /\ \A i \in (k + 1)..n : rows[i] \in LedgerRows
    BY <1>2, <2>1, RowFacts
  <2>4. Page(k) \in Seq(LedgerRows) /\ Len(Page(k)) \in Nat
    BY <1>2, <2>1, <2>2, <2>3, SubSeqProperties
  <2>5. pager.got \o Page(k) = SubSeq(rows, 1, n)
    <3>1. SubSeq(rows, 1, k) \o SubSeq(rows, k + 1, n) = SubSeq(rows, 1, n)
      <4>1. /\ rows \in Seq(LedgerRows) /\ 1 \in 1..Len(rows) + 1
            /\ k \in 1 - 1..Len(rows) /\ n \in k..Len(rows)
        BY <1>2, <2>1, RowFacts
      <4> HIDE DEF k
      <4> QED BY <4>1, ConcatAdjacentSubSeq
    <3> QED BY <3>1, <1>2, <2>2
  <2>6. Len(SubSeq(rows, 1, n)) = n
    BY <1>2, <2>1, <2>3, SubSeqProperties
  <2>7. /\ pager'.got = pager.got \o Page(k) /\ pager'.attempt = 0
        /\ pager' \in [pc : {"reading", "done", "failed"}, attempt : 0..MaxRetries,
                       got : Seq(LedgerRows)]
    <3>1. pager.got \o Page(k) \in Seq(LedgerRows)
      BY <1>2, <2>4, ConcatProperties
    <3>2. pager' = [pager EXCEPT !.attempt = 0, !.got = pager.got \o Page(k),
                                 !.pc = IF Len(Page(k)) < Limit THEN "done" ELSE "reading"]
      BY <1>6, <1>2 DEF PageArrives
    <3>3. 0 \in 0..MaxRetries
      BY <1>2
    <3> HIDE DEF k
    <3> QED BY <3>1, <3>2, <3>3, <1>2
  <2>8. TypeOK'
    BY <1>1, <2>7 DEF TypeOK
  <2>9. PagesAreAPrefix'
    BY <1>1, <2>1, <2>5, <2>6, <2>7 DEF PagesAreAPrefix
  <2> QED BY <1>3, <1>4, <1>5, <2>8, <2>9
<1>7. CASE PageFails
  <2>1. /\ pager'.got = pager.got
        /\ pager' \in [pc : {"reading", "done", "failed"}, attempt : 0..MaxRetries,
                       got : Seq(LedgerRows)]
    BY <1>7, <1>2 DEF PageFails
  <2>2. TypeOK'
    BY <1>1, <2>1 DEF TypeOK
  <2>3. PagesAreAPrefix'
    BY <1>1, <1>2, <2>1 DEF PagesAreAPrefix
  <2> QED BY <1>3, <1>4, <1>5, <2>2, <2>3
<1> QED BY <1>6, <1>7 DEF ReaderStep

-----------------------------------------------------------------------------
(* The theorems.                                                           *)

LEMMA ClientStutter ==
  ASSUME ClientInv, UNCHANGED vars
  PROVE  ClientInv'
<1>1. UNCHANGED <<service, pager, call>>
  BY DEF vars, service
<1>2. TypeOK' /\ SidesInStep'
  BY <1>1 DEF ClientInv, TypeOK, SidesInStep, service
<1> QED BY <1>1, <1>2, ServiceUntouched DEF ClientInv

LEMMA ClientNext == ClientInv /\ [Next]_vars => ClientInv'
<1> SUFFICES ASSUME ClientInv, [Next]_vars PROVE ClientInv'
  OBVIOUS
<1>1. CASE \E c \in Calls, client \in Clients, kind \in Kinds : Send(c, client, kind)
  BY <1>1, InvSend
<1>2. ASSUME NEW c \in Calls, ClientStep(c) PROVE ClientInv'
  BY <1>2, InvCallStep, InvArrive DEF ClientStep, CallStep
<1>3. ASSUME NEW c \in Calls, ServiceStep(c) PROVE ClientInv'
  BY <1>3, InvBackendReturns, InvCommit, InvAppendRaises, InvFinish DEF ServiceStep
<1>4. CASE SidecarRestart
  BY <1>4, InvSidecarRestart
<1>5. CASE EgressAttempt
  BY <1>5, InvEgressAttempt
<1>6. CASE ServiceCrash
  BY <1>6, InvServiceCrash
<1>7. CASE ServiceStart
  BY <1>7, InvServiceStart
<1>8. CASE ReaderStep
  BY <1>8, InvReader
<1>9. CASE UNCHANGED vars
  BY <1>9, ClientStutter
<1> QED BY <1>1, <1>2, <1>3, <1>4, <1>5, <1>6, <1>7, <1>8, <1>9 DEF Next

\* In every state of the clients, the service and the reader the two sides of
\* a call are in step, rows are what their requests were when append_v3
\* committed them, and guard, monitor and pages agree with the ledger.
THEOREM ClientInvariant == Spec => []ClientInv
<1>1. Init => ClientInv
  BY ClientInit
<1>2. ClientInv /\ [Next]_vars => ClientInv'
  BY ClientNext
<1> QED BY <1>1, <1>2, PTL DEF Spec

\* What a caller may conclude from the outcome of evaluate, receive_telemetry
\* or the script about the ledger: a verdict has its one row, a definite refusal
\* has none and gets none, and no POST has two, whatever crashes or times out.
THEOREM OutcomesTellLedger == Spec => []OutcomeTellsLedger
<1>1. ClientInv => OutcomeTellsLedger
  <2> SUFFICES ASSUME ClientInv, NEW c \in Calls
               PROVE  /\ Cardinality(RowsOf(c)) <= 1
                      /\ call[c].outcome = "verdict" => \E i \in DOMAIN rows : rows[i] = Row(c)
                      /\ call[c].outcome \in Definite => RowsOf(c) = {} /\ ~Busy(c)
    BY DEF OutcomeTellsLedger
  <2> USE DEF ClientInv
  <2>1. Cardinality(RowsOf(c)) <= 1
    <3>1. CASE RowsOf(c) = {}
      BY <3>1, FS_EmptySet
    <3>2. CASE RowsOf(c) # {}
      <4>1. PICK i \in DOMAIN rows : rows[i].call = c
        BY <3>2 DEF RowsOf
      <4>2. RowsOf(c) = {i}
        BY <4>1 DEF RowsOf, RowsInStep
      <4> QED BY <4>2, FS_Singleton
    <3> QED BY <3>1, <3>2
  <2>2. ASSUME call[c].outcome = "verdict" PROVE \E i \in DOMAIN rows : rows[i] = Row(c)
    <3>1. req[c].code = "200"
      BY <2>2 DEF SidesInStep
    <3>2. PICK i \in DOMAIN rows : rows[i].call = c
      BY <3>1 DEF RowsInStep
    <3> QED BY <3>2 DEF RowsInStep
  <2>3. ASSUME call[c].outcome \in Definite PROVE RowsOf(c) = {} /\ ~Busy(c)
    <3>1. req[c].code \in {"401", "422", "503"} /\ req[c].pc = "answered"
      BY <2>3 DEF SidesInStep
    <3> QED BY <3>1 DEF RowsOf, RowsInStep, Busy
  <2> QED BY <2>1, <2>2, <2>3
<1> QED BY <1>1, ClientInvariant, PTL

\* Once the egress guard has tripped, evaluate turns every new record away until
\* the service is restarted: only what was in flight then is still in the making.
THEOREM TripAlwaysStops == Spec => []TripStopsEvaluation
<1>1. ClientInv => TripStopsEvaluation
  BY DEF ClientInv
<1> QED BY <1>1, ClientInvariant, PTL

\* The agreement monitor's window has a status for every answered evaluation of
\* the running process, up to its size, none that no answered row has, and
\* reports no disagreement that the ledger does not show.
THEOREM MonitorAlwaysMatches == Spec => []MonitorMatchesLedger
<1>1. ClientInv => MonitorMatchesLedger
  BY DEF ClientInv
<1> QED BY <1>1, ClientInvariant, PTL

\* list_verdicts, page after page with retries, collects a prefix of the ledger
\* for every page size, however many entries are appended meanwhile.
THEOREM PagesAlwaysAPrefix == Spec => []PagesAreAPrefix
<1>1. ClientInv => PagesAreAPrefix
  BY DEF ClientInv
<1> QED BY <1>1, ClientInvariant, PTL
=============================================================================
