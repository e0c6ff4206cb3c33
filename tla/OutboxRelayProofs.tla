------------------------- MODULE OutboxRelayProofs -------------------------
(***************************************************************************)
(* Proofs about OutboxRelay, for any number of replicas, rows and faults.  *)
(***************************************************************************)
EXTENDS OutboxRelay, FiniteSetTheorems, TLAPS

(* The log grows at its end.                                               *)
LEMMA LogGrows ==
    ASSUME NEW S, NEW s \in Seq(S), NEW e \in S
    PROVE  /\ Append(s, e) \in Seq(S) /\ Len(Append(s, e)) = Len(s) + 1
           /\ \A i \in 1..Len(s) : Append(s, e)[i] = s[i]
           /\ Append(s, e)[Len(s) + 1] = e
           /\ Range(Append(s, e)) = Range(s) \cup {e}
<1>1. /\ Append(s, e) \in Seq(S) /\ Len(Append(s, e)) = Len(s) + 1
      /\ \A i \in 1..Len(s) : Append(s, e)[i] = s[i]
      /\ Append(s, e)[Len(s) + 1] = e
    OBVIOUS
<1>2. DOMAIN s = 1..Len(s) /\ DOMAIN Append(s, e) = 1..(Len(s) + 1) /\ Len(s) \in Nat
    OBVIOUS
<1>3. Range(Append(s, e)) \subseteq Range(s) \cup {e}
    BY <1>1, <1>2 DEF Range
<1>4. Range(s) \subseteq Range(Append(s, e))
    BY <1>1, <1>2 DEF Range
<1>5. e \in Range(Append(s, e))
    BY <1>1, <1>2 DEF Range
<1> QED BY <1>1, <1>3, <1>4, <1>5

(* A send adds one row to what was sent.                                   *)
LEMMA SentGrows ==
    ASSUME TypeOK, NEW r \in Rows, log' = Append(log, r)
    PROVE  log' \in Seq(Rows) /\ Sent' = Sent \cup {r}
BY LogGrows DEF TypeOK, Sent

-----------------------------------------------------------------------------
(* Types.                                                                  *)

LEMMA InitTyped == Init => TypeOK
BY RelayAssumption DEF Init, TypeOK

LEMMA EndBatchTyped ==
    ASSUME TypeOK, NEW p \in Replicas, NEW done, EndBatch(p, done),
           inFlight' \in [Replicas -> SUBSET Rows], \A q \in Replicas \ running : inFlight'[q] = {},
           running' = running, ahead' = ahead, log' = log, faultCount' \in 0..MaxFaults
    PROVE  TypeOK'
<1>1. \A q \in Replicas \ running : claimed'[q] = {} /\ inFlight'[q] = {}
    BY DEF TypeOK, EndBatch
<1>2. \A q \in Replicas : claimed'[q] \in {claimed[q], {}} /\ marked'[q] \in {marked[q], {}}
                         /\ marked'[q] \subseteq claimed'[q]
    BY DEF TypeOK, EndBatch
<1>3. /\ table' \in [Rows -> {"absent", "unpublished", "published", "purged"}]
      /\ claimed' \in [Replicas -> SUBSET Rows] /\ marked' \in [Replicas -> SUBSET Rows]
    BY DEF TypeOK, EndBatch
<1>4. \A q, t \in Replicas : q # t => claimed'[q] \cap claimed'[t] = {}
    BY <1>2 DEF TypeOK
<1> QED BY <1>1, <1>2, <1>3, <1>4 DEF TypeOK

LEMMA StepTyped == ASSUME TypeOK, [Next]_vars PROVE TypeOK'
<1>1. ASSUME NEW r \in Rows, Write(r) \/ Purge(r) PROVE TypeOK'
  <2>1. table' \in [Rows -> {"absent", "unpublished", "published", "purged"}]
    <3>1. table \in [Rows -> {"absent", "unpublished", "published", "purged"}]
      BY DEF TypeOK
    <3> QED BY <1>1, <3>1 DEF Write, Purge
  <2>2. ahead' \in [Rows -> SUBSET Rows]
    <3>1. ahead \in [Rows -> SUBSET Rows]
      BY DEF TypeOK
    <3>2. ahead' = ahead \/ \E A \in SUBSET Rows : ahead' = [ahead EXCEPT ![r] = A]
      BY <1>1 DEF Write, Purge
    <3> QED BY <3>1, <3>2
  <2>3. UNCHANGED <<running, claimed, marked, inFlight, log, faultCount>>
    BY <1>1 DEF Write, Purge
  <2> QED BY <2>1, <2>2, <2>3 DEF TypeOK
<1>2. ASSUME NEW p \in Replicas, Claim(p) PROVE TypeOK'
  <2>1. PICK S \in SUBSET FreeRows : claimed' = [claimed EXCEPT ![p] = S]
    BY <1>2 DEF Claim
  <2>2. S \subseteq Rows /\ \A q \in Replicas : S \cap claimed[q] = {}
    BY DEF FreeRows
  <2>3. marked[p] \subseteq S
    BY <1>2 DEF Claim, TypeOK
  <2> QED BY <1>2, <2>1, <2>2, <2>3 DEF Claim, TypeOK
<1>3. ASSUME NEW p \in Replicas, NEW r \in Rows, Publish(p, r) PROVE TypeOK'
  <2>1. log' \in Seq(Rows)
    BY <1>3, SentGrows DEF Publish
  <2>2. marked' \in [Replicas -> SUBSET Rows] /\ \A q \in Replicas : marked'[q] \subseteq claimed[q]
    BY <1>3 DEF Publish, IsNext, TypeOK
  <2> QED BY <1>3, <2>1, <2>2 DEF Publish, TypeOK
<1>4. ASSUME NEW p \in Replicas, Commit(p) \/ Rollback(p) \/ Crash(p) PROVE TypeOK'
  <2>1. /\ inFlight' \in [Replicas -> SUBSET Rows] /\ log' = log /\ faultCount' \in 0..MaxFaults
        /\ running' = running /\ \A q \in Replicas \ running : inFlight'[q] = {}
    BY <1>4, RelayAssumption DEF Commit, Rollback, Crash, Fault, TypeOK
  <2> QED BY <1>4, <2>1, EndBatchTyped DEF Commit, Rollback, Crash
<1>5. ASSUME NEW p \in Replicas, NEW r \in Rows, SendFails(p, r) \/ SendTimesOut(p, r) PROVE TypeOK'
  <2>1. /\ inFlight' \in [Replicas -> SUBSET Rows] /\ log' = log /\ faultCount' \in 0..MaxFaults
        /\ running' = running /\ \A q \in Replicas \ running : inFlight'[q] = {}
    BY <1>5, RelayAssumption DEF SendFails, SendTimesOut, IsNext, Fault, TypeOK
  <2> QED BY <1>5, <2>1, EndBatchTyped DEF SendFails, SendTimesOut, StopAt
<1>6. ASSUME NEW p \in Replicas, NEW r \in Rows, Settle(p, r) PROVE TypeOK'
  <2>1. log' \in Seq(Rows)
    BY <1>6, SentGrows DEF Settle, LateAccept, Drop, TypeOK
  <2>2. /\ inFlight' \in [Replicas -> SUBSET Rows]
        /\ \A q \in Replicas \ running : inFlight'[q] = {}
    <3>1. inFlight' = [inFlight EXCEPT ![p] = @ \ {r}]
      BY <1>6 DEF Settle, LateAccept, Drop
    <3> QED BY <3>1 DEF TypeOK
  <2>3. UNCHANGED <<running, table, ahead, claimed, marked, faultCount>>
    BY <1>6 DEF Settle, LateAccept, Drop
  <2> QED BY <2>1, <2>2, <2>3 DEF TypeOK
<1>7. CASE UNCHANGED vars
    BY <1>7 DEF vars, TypeOK
<1> QED BY <1>1, <1>2, <1>3, <1>4, <1>5, <1>6, <1>7 DEF Next, RelayFails, Relay

(* The outbox keeps its types, and the replicas' claims stay disjoint.     *)
THEOREM TypeCorrect == Spec => []TypeOK
BY InitTyped, StepTyped, PTL DEF Spec

-----------------------------------------------------------------------------
(* Nothing is lost: what a transaction has marked was accepted.            *)

MarkedSent == \A p \in Replicas : marked[p] \subseteq Sent
LostInv == NeverLost /\ MarkedSent

LEMMA StepKeeps ==
    ASSUME TypeOK, LostInv, [Next]_vars
    PROVE  LostInv' /\ Sent \subseteq Sent'
<1> USE DEF LostInv
<1>1. ASSUME NEW p \in Replicas, NEW done, EndBatch(p, done), done \subseteq Sent, log' = log
      PROVE  LostInv' /\ Sent \subseteq Sent'
    BY <1>1 DEF EndBatch, NeverLost, MarkedSent, TypeOK, Sent
<1>2. ASSUME NEW r \in Rows, Write(r) \/ Purge(r) PROVE LostInv' /\ Sent \subseteq Sent'
    BY <1>2 DEF Write, Purge, NeverLost, MarkedSent, TypeOK, Sent
<1>3. ASSUME NEW p \in Replicas, Claim(p) PROVE LostInv' /\ Sent \subseteq Sent'
    BY <1>3 DEF Claim, NeverLost, MarkedSent, Sent
<1>4. ASSUME NEW p \in Replicas, NEW r \in Rows, Publish(p, r) PROVE LostInv' /\ Sent \subseteq Sent'
  <2>1. Sent' = Sent \cup {r}
    BY <1>4, SentGrows DEF Publish
  <2> QED BY <1>4, <2>1 DEF Publish, NeverLost, MarkedSent, TypeOK
<1>5. ASSUME NEW p \in Replicas, Commit(p) \/ Rollback(p) \/ Crash(p)
      PROVE  LostInv' /\ Sent \subseteq Sent'
    BY <1>1, <1>5 DEF Commit, Rollback, Crash, MarkedSent
<1>6. ASSUME NEW p \in Replicas, NEW r \in Rows, SendFails(p, r) \/ SendTimesOut(p, r)
      PROVE  LostInv' /\ Sent \subseteq Sent'
    BY <1>1, <1>6 DEF SendFails, SendTimesOut, StopAt, MarkedSent
<1>7. ASSUME NEW p \in Replicas, NEW r \in Rows, Settle(p, r) PROVE LostInv' /\ Sent \subseteq Sent'
  <2>1. Sent' = Sent \cup {r} \/ Sent' = Sent
    BY <1>7, SentGrows DEF Settle, LateAccept, Drop, Sent
  <2> QED BY <1>7, <2>1 DEF Settle, LateAccept, Drop, NeverLost, MarkedSent
<1>8. CASE UNCHANGED vars
    BY <1>8 DEF vars, NeverLost, MarkedSent, Sent
<1> QED BY <1>2, <1>3, <1>4, <1>5, <1>6, <1>7, <1>8 DEF Next, RelayFails, Relay

LEMMA LostInvariance == Spec => [](TypeOK /\ LostInv)
<1>1. Init => LostInv
    BY DEF Init, LostInv, NeverLost, MarkedSent
<1> QED BY <1>1, TypeCorrect, StepKeeps, PTL DEF Spec

(* However many replicas poll, and whatever fails, a row of the outbox is  *)
(* published or purged only after the broker has accepted it.              *)
THEOREM NothingLost == Spec => []NeverLost
BY LostInvariance, PTL DEF LostInv

-----------------------------------------------------------------------------
(* One relay keeps the order of each key.                                  *)

Written == {r \in Rows : table[r] # "absent"}
EarlierSent(r) == ahead[r] \subseteq Sent

(* The rows a row may not overtake were created and committed before it,   *)
(* a page takes those that have not been sent with it, and what is in      *)
(* flight waits for nothing.  What is claimed or sent is in the table, so  *)
(* the commit of another row adds nothing to what it has to wait for.      *)
AheadWritten == \A r \in Rows : \A q \in ahead[r] : q < r /\ q \in Written
PageClosed ==
    \A p \in Replicas : \A r \in claimed[p] :
        r \in Written /\ ahead[r] \subseteq claimed[p] \cup Sent
FlightReady == \A p \in Replicas : \A r \in inFlight[p] : r \in Written /\ EarlierSent(r)
SentWritten == Sent \subseteq Written
OrderInv == AheadWritten /\ PageClosed /\ FlightReady /\ SentWritten /\ LogOrdered

LEMMA NextIsReady ==
    ASSUME TypeOK, LostInv, OrderInv, NEW p \in Replicas, NEW r \in Rows, IsNext(p, r)
    PROVE  r \in Written /\ EarlierSent(r)
<1>1. r \in claimed[p]
    BY DEF IsNext
<1>2. r \in Written /\ ahead[r] \subseteq claimed[p] \cup Sent
    BY <1>1 DEF OrderInv, PageClosed
<1>3. ASSUME NEW q \in ahead[r], q \in claimed[p] PROVE q \in Sent
  <2>1. q < r /\ q \in Rows
    BY DEF OrderInv, AheadWritten, TypeOK
  <2>2. q \in marked[p]
    BY <1>3, <2>1 DEF IsNext, Rows
  <2> QED BY <2>2 DEF LostInv, MarkedSent
<1> QED BY <1>2, <1>3 DEF EarlierSent

(* Appending a row whose predecessors were sent keeps the log ordered.     *)
LEMMA OrderedGrows ==
    ASSUME TypeOK, LogOrdered, NEW r \in Rows, EarlierSent(r), log' = Append(log, r),
           ahead' = ahead
    PROVE  LogOrdered'
<1>1. /\ Len(log') = Len(log) + 1 /\ log'[Len(log) + 1] = r /\ Len(log) \in Nat
      /\ \A i \in 1..Len(log) : log'[i] = log[i]
    BY LogGrows DEF TypeOK
<1> SUFFICES ASSUME NEW i \in 1..Len(log'), NEW q \in ahead[log'[i]]
             PROVE  \E j \in 1..(i - 1) : log'[j] = q
    BY DEF LogOrdered
<1>2. CASE i \in 1..Len(log)
  <2>1. PICK j \in 1..(i - 1) : log[j] = q
    BY <1>1, <1>2 DEF LogOrdered
  <2> QED BY <1>1, <1>2, <2>1
<1>3. CASE i = Len(log) + 1
  <2>1. q \in Sent
    BY <1>1, <1>3 DEF EarlierSent
  <2>2. PICK j \in 1..Len(log) : log[j] = q
    BY <2>1 DEF Sent, Range, TypeOK
  <2> QED BY <1>1, <1>3, <2>2
<1> QED BY <1>1, <1>2, <1>3

(* A commit changes what one row waits for, one that is nowhere yet.       *)
LEMMA WriteOrdered ==
    ASSUME TypeOK, OrderInv, NEW w \in Rows, Write(w)
    PROVE  OrderInv'
<1> USE DEF OrderInv
<1>1. /\ w \notin Written /\ Written' = Written \cup {w}
      /\ UNCHANGED <<claimed, inFlight, log, Sent>>
    BY DEF Write, Written, TypeOK, Sent
<1>2. \A r \in Rows : r \in Written => ahead'[r] = ahead[r]
    BY <1>1 DEF Write, TypeOK
<1>3. AheadWritten'
  <2> SUFFICES ASSUME NEW r \in Rows, NEW q \in ahead'[r] PROVE q < r /\ q \in Written'
    BY DEF AheadWritten
  <2>1. CASE r = w
    BY <1>1, <2>1 DEF Write, Written, Precedes, TypeOK
  <2>2. CASE r # w
    <3>1. q \in ahead[r]
      BY <2>2 DEF Write, TypeOK
    <3> QED BY <1>1, <3>1 DEF AheadWritten
  <2> QED BY <2>1, <2>2
<1>4. PageClosed' /\ FlightReady' /\ SentWritten'
  <2>1. PageClosed'
    BY <1>1, <1>2 DEF PageClosed, TypeOK
  <2>2. FlightReady'
    BY <1>1, <1>2 DEF FlightReady, EarlierSent, TypeOK
  <2> QED BY <1>1, <2>1, <2>2 DEF SentWritten
<1>5. LogOrdered'
  <2>1. \A i \in 1..Len(log) : log[i] \in Rows /\ log[i] \in Written
    BY DEF SentWritten, Sent, Range, TypeOK
  <2>2. log' = log
    BY <1>1
  <2>3. \A i \in 1..Len(log) : ahead'[log[i]] = ahead[log[i]]
    BY <1>2, <2>1
  <2> SUFFICES ASSUME NEW i \in 1..Len(log), NEW q \in ahead'[log[i]]
               PROVE  \E j \in 1..(i - 1) : log[j] = q
    BY <2>2 DEF LogOrdered
  <2>4. q \in ahead[log[i]]
    BY <2>3
  <2> QED BY <2>4 DEF LogOrdered
<1> QED BY <1>3, <1>4, <1>5

LEMMA StepOrdered ==
    ASSUME Alone, TypeOK, LostInv, OrderInv, [Next]_vars
    PROVE  OrderInv'
<1> USE DEF OrderInv
<1>0. Sent \subseteq Sent'
    BY StepKeeps
<1>1. ASSUME NEW p \in Replicas, NEW done \in SUBSET marked[p], EndBatch(p, done), log' = log,
             ahead' = ahead, \A q \in Replicas : \A r \in inFlight'[q] :
                                   r \in inFlight[q] \/ (r \in Written /\ EarlierSent(r))
      PROVE  OrderInv'
  <2>1. Written' = Written /\ Sent' = Sent
    <3>1. \A r \in done : r \in Written
      BY DEF PageClosed, TypeOK
    <3> QED BY <1>1, <3>1 DEF EndBatch, Written, TypeOK, Sent
  <2>2. PageClosed'
    BY <1>1, <2>1 DEF EndBatch, PageClosed, TypeOK
  <2>3. FlightReady'
    BY <1>1, <2>1 DEF FlightReady, EarlierSent
  <2>4. AheadWritten' /\ SentWritten'
    BY <1>1, <2>1 DEF AheadWritten, SentWritten
  <2>5. LogOrdered'
    <3> HIDE DEF OrderInv
    <3>1. LogOrdered
      BY DEF OrderInv
    <3> QED BY <1>1, <3>1 DEF LogOrdered
  <2> QED BY <2>2, <2>3, <2>4, <2>5
<1>2. ASSUME NEW r \in Rows, Write(r) PROVE OrderInv'
    BY <1>2, WriteOrdered
<1>3. ASSUME NEW r \in Rows, Purge(r) PROVE OrderInv'
  <2>1. Written' = Written
    BY <1>3 DEF Purge, Written, TypeOK
  <2> QED BY <1>3, <2>1
    DEF Purge, AheadWritten, PageClosed, FlightReady, EarlierSent, SentWritten, LogOrdered, Sent
<1>4. ASSUME NEW p \in Replicas, Claim(p) PROVE OrderInv'
  <2>1. PICK S \in SUBSET FreeRows : IsPage(S) /\ claimed' = [claimed EXCEPT ![p] = S]
    BY <1>4 DEF Claim
  <2>2. ASSUME NEW r \in S, NEW q \in ahead[r] PROVE q \in S \cup Sent
    <3>1. r \in Rows /\ q \in Rows
      BY DEF FreeRows, TypeOK
    <3>2. q < r /\ table[q] # "absent"
      BY <3>1 DEF AheadWritten, Written
    <3>3. table[q] = "unpublished" => q \in FreeRows
      BY <1>4, <3>1 DEF FreeRows, Claim, Alone, TypeOK
    <3>4. q \in FreeRows => q \in S
      BY <2>1, <3>1, <3>2 DEF IsPage, Rows
    <3> QED BY <3>1, <3>2, <3>3, <3>4 DEF LostInv, NeverLost, TypeOK
  <2>3. UNCHANGED <<ahead, inFlight, log, Written, Sent>>
    BY <1>4 DEF Claim, Written, Sent
  <2>4. PageClosed'
    <3>1. claimed'[p] = S /\ S \subseteq Written
      BY <2>1 DEF FreeRows, Written, TypeOK
    <3>2. \A q \in Replicas : q # p => claimed'[q] = {}
      BY <1>4, <2>1 DEF Claim, Alone, TypeOK
    <3> QED BY <2>2, <2>3, <3>1, <3>2 DEF PageClosed
  <2> QED BY <2>3, <2>4 DEF AheadWritten, FlightReady, EarlierSent, SentWritten, LogOrdered
<1>5. ASSUME NEW p \in Replicas, NEW r \in Rows, Publish(p, r) PROVE OrderInv'
  <2>1. r \in Written /\ EarlierSent(r) /\ Sent' = Sent \cup {r}
    BY <1>5, NextIsReady, SentGrows DEF Publish
  <2>2. UNCHANGED <<ahead, claimed, inFlight, Written>>
    BY <1>5 DEF Publish, Written
  <2>3. LogOrdered'
    BY <1>5, <2>1, <2>2, OrderedGrows DEF Publish
  <2> QED BY <2>1, <2>2, <2>3 DEF AheadWritten, PageClosed, FlightReady, EarlierSent, SentWritten
<1>6. ASSUME NEW p \in Replicas, Commit(p) \/ Rollback(p) \/ Crash(p) PROVE OrderInv'
  <2>1. \A q \in Replicas : inFlight'[q] \subseteq inFlight[q]
    BY <1>6 DEF Commit, Rollback, Crash, TypeOK
  <2> QED BY <1>1, <1>6, <2>1 DEF Commit, Rollback, Crash
<1>7. ASSUME NEW p \in Replicas, NEW r \in Rows, SendFails(p, r) \/ SendTimesOut(p, r) PROVE OrderInv'
  <2>1. r \in Written /\ EarlierSent(r)
    BY <1>7, NextIsReady DEF SendFails, SendTimesOut
  <2>2. \A q \in Replicas : inFlight'[q] \subseteq inFlight[q] \cup {r}
    BY <1>7 DEF SendFails, SendTimesOut, TypeOK
  <2> QED BY <1>1, <1>7, <2>1, <2>2 DEF SendFails, SendTimesOut, StopAt
<1>8. ASSUME NEW p \in Replicas, NEW r \in Rows, Settle(p, r) PROVE OrderInv'
  <2>1. r \in Written /\ EarlierSent(r)
    BY <1>8 DEF Settle, LateAccept, Drop, FlightReady
  <2>2. UNCHANGED <<ahead, claimed, Written>> /\ Sent' \subseteq Sent \cup {r}
    BY <1>8, SentGrows DEF Settle, LateAccept, Drop, Written, Sent
  <2>3. LogOrdered'
    BY <1>8, <2>1, <2>2, OrderedGrows DEF Settle, LateAccept, Drop, LogOrdered
  <2>4. \A q \in Replicas : inFlight'[q] \subseteq inFlight[q]
    BY <1>8 DEF Settle, LateAccept, Drop, TypeOK
  <2> QED BY <1>0, <2>1, <2>2, <2>3, <2>4
    DEF AheadWritten, PageClosed, FlightReady, EarlierSent, SentWritten
<1>9. CASE UNCHANGED vars
    BY <1>9 DEF vars, AheadWritten, PageClosed, FlightReady, EarlierSent, SentWritten, LogOrdered,
       Written, Sent
<1> QED BY <1>2, <1>3, <1>4, <1>5, <1>6, <1>7, <1>8, <1>9 DEF Next, RelayFails, Relay

(* Where one relay is deployed, an event reaches Kafka after every event of*)
(* its key that was created and committed before it, in spite of failed and*)
(* late sends, rolled back pages and crashes.  The commits themselves may  *)
(* come in any order.                                                      *)
THEOREM OneRelayKeepsOrder == Spec => []KeyOrdered
<1>1. Init => (Alone => OrderInv)
    BY DEF Init, OrderInv, AheadWritten, PageClosed, FlightReady, SentWritten, LogOrdered, Sent, Range
<1>2. TypeOK /\ LostInv /\ (Alone => OrderInv) /\ [Next]_vars => (Alone => OrderInv)'
  <2>1. [Next]_vars => running' = running
    BY DEF Next, RelayFails, Relay, Settle, Write, Purge, Claim, Publish, Commit, Rollback, Crash,
           SendFails, SendTimesOut, LateAccept, Drop, vars
  <2>2. [Next]_vars => (Alone' <=> Alone)
    BY <2>1 DEF Alone
  <2> QED BY <2>2, StepOrdered
<1> QED BY <1>1, <1>2, LostInvariance, PTL DEF Spec, OrderInv, KeyOrdered

-----------------------------------------------------------------------------
(* Repeats.  The acceptances to come without a fault: one for each row that*)
(* waits to be sent, one for each record in flight.                        *)

ToSend == {r \in Rows : table[r] = "unpublished" /\ \A p \in Replicas : r \notin marked[p]}
Late == {f \in Replicas \X Rows : f[2] \in inFlight[f[1]]}

(* A transaction has at most a page, of rows that are not published.       *)
PageBounded ==
    \A p \in Replicas :
        /\ Cardinality(claimed[p]) <= BatchSize
        /\ \A r \in claimed[p] : table[r] = "unpublished"

(* A page of repeats for each fault.                                       *)
Allowance == BatchSize * faultCount

(* The acceptances, those to come among them, are the rows and what faults *)
(* allow.                                                                  *)
RepeatInv ==
    /\ PageBounded /\ IsFiniteSet(Late)
    /\ Len(log) + Cardinality(ToSend) + Cardinality(Late)
            <= Cardinality(Written) + Allowance

(* Rows are finite, and so is every set of them.                           *)
LEMMA RowsFinite ==
    \A S \in SUBSET Rows : IsFiniteSet(S) /\ Cardinality(S) \in Nat
<1>1. IsFiniteSet(Rows)
    BY RelayAssumption, FS_Interval DEF Rows
<1> QED BY <1>1, FS_Subset, FS_CardinalityType

LEMMA Fewer ==
    ASSUME NEW S, NEW T, IsFiniteSet(S), T \subseteq S
    PROVE  /\ IsFiniteSet(T) /\ Cardinality(T) <= Cardinality(S)
           /\ Cardinality(S) \in Nat /\ Cardinality(T) \in Nat
BY FS_Subset, FS_CardinalityType

LEMMA OneMore ==
    ASSUME NEW S, NEW T, NEW x, IsFiniteSet(S), T \subseteq S \cup {x}
    PROVE  /\ IsFiniteSet(T) /\ Cardinality(T) <= Cardinality(S) + 1
           /\ Cardinality(S) \in Nat /\ Cardinality(T) \in Nat
<1>1. /\ IsFiniteSet(S \cup {x}) /\ Cardinality(S) \in Nat
      /\ Cardinality(S \cup {x}) <= Cardinality(S) + 1
  <2>1. Cardinality(S) \in Nat
    BY FS_CardinalityType
  <2> QED BY <2>1, FS_AddElement
<1>2. IsFiniteSet(T) /\ Cardinality(T) <= Cardinality(S \cup {x})
    BY <1>1, FS_Subset
<1>3. Cardinality(T) \in Nat /\ Cardinality(S \cup {x}) \in Nat
    BY <1>1, <1>2, FS_CardinalityType
<1> QED BY <1>1, <1>2, <1>3

LEMMA OneGone ==
    ASSUME NEW S, NEW T, NEW x \in S, IsFiniteSet(S), T \subseteq S \ {x}
    PROVE  /\ IsFiniteSet(T) /\ Cardinality(T) + 1 <= Cardinality(S)
           /\ Cardinality(S) \in Nat /\ Cardinality(T) \in Nat
<1>1. /\ IsFiniteSet(S \ {x}) /\ Cardinality(S) \in Nat
      /\ Cardinality(S \ {x}) = Cardinality(S) - 1
    BY FS_CardinalityType, FS_RemoveElement
<1>2. IsFiniteSet(T) /\ Cardinality(T) <= Cardinality(S \ {x})
    BY <1>1, FS_Subset
<1>3. Cardinality(T) \in Nat
    BY <1>2, FS_CardinalityType
<1> QED BY <1>1, <1>2, <1>3

LEMMA Joined ==
    ASSUME NEW S, NEW T, NEW U, IsFiniteSet(S), IsFiniteSet(T), U \subseteq S \cup T
    PROVE  /\ IsFiniteSet(U) /\ Cardinality(U) <= Cardinality(S) + Cardinality(T)
           /\ Cardinality(S) \in Nat /\ Cardinality(T) \in Nat /\ Cardinality(U) \in Nat
<1>1. /\ IsFiniteSet(S \cup T)
      /\ Cardinality(S \cup T) = Cardinality(S) + Cardinality(T) - Cardinality(S \cap T)
    BY FS_Union
<1>2. /\ Cardinality(S) \in Nat /\ Cardinality(T) \in Nat /\ Cardinality(S \cap T) \in Nat
  <2>1. IsFiniteSet(S \cap T)
    BY FS_Subset
  <2> QED BY <2>1, FS_CardinalityType
<1>3. /\ IsFiniteSet(U) /\ Cardinality(U) <= Cardinality(S \cup T)
      /\ Cardinality(U) \in Nat /\ Cardinality(S \cup T) \in Nat
    BY <1>1, Fewer
<1> QED BY <1>1, <1>2, <1>3

LEMMA AllowanceGrows ==
    ASSUME TypeOK
    PROVE  /\ BatchSize \in Nat \ {0} /\ faultCount \in Nat /\ Allowance \in Nat
           /\ faultCount' = faultCount => Allowance' = Allowance
           /\ faultCount' = faultCount + 1 => Allowance' = Allowance + BatchSize
<1>1. BatchSize \in Nat \ {0} /\ faultCount \in Nat
    BY RelayAssumption DEF TypeOK
<1>2. \A f \in Nat : BatchSize * f \in Nat /\ BatchSize * (f + 1) = BatchSize * f + BatchSize
    BY <1>1
<1> QED BY <1>1, <1>2 DEF Allowance

LEMMA RepeatNumbers ==
    ASSUME TypeOK, RepeatInv
    PROVE  /\ Len(log) \in Nat /\ Allowance \in Nat /\ BatchSize \in Nat \ {0}
           /\ IsFiniteSet(ToSend) /\ IsFiniteSet(Written) /\ IsFiniteSet(Late)
           /\ Cardinality(ToSend) \in Nat /\ Cardinality(Written) \in Nat
           /\ Cardinality(Late) \in Nat
<1>1. Len(log) \in Nat
    BY DEF TypeOK
<1>2. ToSend \subseteq Rows /\ Written \subseteq Rows
    BY DEF ToSend, Written
<1> QED BY <1>1, <1>2, RowsFinite, AllowanceGrows, FS_CardinalityType DEF RepeatInv

-----------------------------------------------------------------------------
(* What is marked and not committed waits again.                           *)
LEMMA EndBatchSends ==
    ASSUME TypeOK, PageBounded, NEW p \in Replicas, NEW done \in SUBSET marked[p],
           EndBatch(p, done)
    PROVE  PageBounded' /\ Written' = Written /\ ToSend' \subseteq ToSend \cup (marked[p] \ done)
<1>1. /\ \A r \in Rows : table'[r] = IF r \in done THEN "published" ELSE table[r]
      /\ \A q \in Replicas : claimed'[q] = IF q = p THEN {} ELSE claimed[q]
      /\ \A q \in Replicas : marked'[q] = IF q = p THEN {} ELSE marked[q]
      /\ done \subseteq claimed[p] /\ claimed[p] \subseteq Rows
    BY DEF EndBatch, TypeOK
<1>2. PageBounded'
  <2> SUFFICES ASSUME NEW q \in Replicas
               PROVE  /\ Cardinality(claimed'[q]) <= BatchSize
                      /\ \A r \in claimed'[q] : table'[r] = "unpublished"
    BY DEF PageBounded
  <2>1. CASE q = p
    BY <1>1, <2>1, FS_EmptySet, AllowanceGrows
  <2>2. CASE q # p
    <3>1. claimed'[q] = claimed[q] /\ claimed[q] \cap done = {} /\ claimed[q] \subseteq Rows
      BY <1>1, <2>2 DEF TypeOK
    <3> QED BY <1>1, <3>1 DEF PageBounded
  <2> QED BY <2>1, <2>2
<1>3. Written' = Written
    BY <1>1 DEF Written, PageBounded
<1>4. ToSend' \subseteq ToSend \cup (marked[p] \ done)
    BY <1>1 DEF ToSend
<1> QED BY <1>2, <1>3, <1>4

(* The records in flight after one joins them, or the replica dies.        *)
LEMMA FlightChanges ==
    ASSUME TypeOK, NEW p \in Replicas, NEW x, NEW F \in SUBSET Rows,
           inFlight' = [inFlight EXCEPT ![p] = F], F \subseteq inFlight[p] \cup {x}
    PROVE  Late' \subseteq Late \cup {<<p, x>>}
<1>0. inFlight \in [Replicas -> SUBSET Rows]
    BY DEF TypeOK
<1>1. \A q \in Replicas : inFlight'[q] = IF q = p THEN F ELSE inFlight[q]
    BY <1>0
<1> SUFFICES ASSUME NEW f \in Late' PROVE f \in Late \cup {<<p, x>>}
    OBVIOUS
<1>2. PICK q \in Replicas, r \in Rows : f = <<q, r>> /\ r \in inFlight'[q]
    BY DEF Late
<1>3. r \in inFlight[q] \/ (q = p /\ r = x)
    BY <1>1, <1>2
<1>4. CASE r \in inFlight[q]
  <2>1. <<q, r>> \in Late
    BY <1>4 DEF Late
  <2> QED BY <1>2, <2>1
<1>5. CASE q = p /\ r = x
    BY <1>2, <1>5
<1> QED BY <1>3, <1>4, <1>5

LEMMA FlightSettled ==
    ASSUME TypeOK, NEW p \in Replicas, NEW r \in inFlight[p],
           inFlight' = [inFlight EXCEPT ![p] = @ \ {r}]
    PROVE  <<p, r>> \in Late /\ Late' \subseteq Late \ {<<p, r>>}
<1>1. inFlight \in [Replicas -> SUBSET Rows]
    BY DEF TypeOK
<1>2. /\ r \in Rows
      /\ \A q \in Replicas : inFlight'[q] = IF q = p THEN inFlight[q] \ {r} ELSE inFlight[q]
    BY <1>1
<1> QED BY <1>1, <1>2 DEF Late

LEMMA WritePays == ASSUME TypeOK, RepeatInv, NEW r \in Rows, Write(r) PROVE RepeatInv'
<1>1. /\ table[r] = "absent" /\ UNCHANGED <<claimed, marked, inFlight, log, faultCount>>
      /\ \A q \in Rows : table'[q] = IF q = r THEN "unpublished" ELSE table[q]
    BY DEF Write, TypeOK
<1>2. Written' = Written \cup {r} /\ r \notin Written
    BY <1>1 DEF Written
<1>3. ToSend' \subseteq ToSend \cup {r}
    BY <1>1 DEF ToSend
<1>4. PageBounded' /\ Late' = Late
    BY <1>1 DEF RepeatInv, PageBounded, TypeOK, Late
<1>5. Cardinality(Written') = Cardinality(Written) + 1
    BY <1>2, RepeatNumbers, FS_AddElement
<1>6. Cardinality(ToSend') <= Cardinality(ToSend) + 1 /\ Cardinality(ToSend') \in Nat
    BY <1>3, RepeatNumbers, OneMore
<1>7. Len(log') = Len(log) /\ Allowance' = Allowance
    BY <1>1, AllowanceGrows
<1>8. Len(log) + Cardinality(ToSend) + Cardinality(Late) <= Cardinality(Written) + Allowance
    BY DEF RepeatInv
<1>9. Len(log') + Cardinality(ToSend') + Cardinality(Late) <= Cardinality(Written') + Allowance'
    BY <1>5, <1>6, <1>7, <1>8, RepeatNumbers
<1> QED BY <1>4, <1>9, RepeatNumbers DEF RepeatInv

LEMMA PurgePays == ASSUME TypeOK, RepeatInv, NEW r \in Rows, Purge(r) PROVE RepeatInv'
<1>1. /\ table[r] = "published" /\ UNCHANGED <<claimed, marked, inFlight, log, faultCount>>
      /\ \A q \in Rows : table'[q] = IF q = r THEN "purged" ELSE table[q]
    BY DEF Purge, TypeOK
<1>2. Written' = Written /\ ToSend' = ToSend /\ Late' = Late
    BY <1>1 DEF Written, ToSend, Late
<1>3. PageBounded'
    BY <1>1 DEF RepeatInv, PageBounded, TypeOK
<1> QED BY <1>1, <1>2, <1>3, AllowanceGrows DEF RepeatInv

LEMMA ClaimPays == ASSUME TypeOK, RepeatInv, NEW p \in Replicas, Claim(p) PROVE RepeatInv'
<1>1. PICK S \in SUBSET FreeRows : IsPage(S) /\ claimed' = [claimed EXCEPT ![p] = S]
    BY DEF Claim
<1>2. Cardinality(S) <= BatchSize /\ \A r \in S : table[r] = "unpublished"
    BY <1>1 DEF IsPage, FreeRows
<1>3. UNCHANGED <<table, marked, inFlight, log, faultCount>>
    BY DEF Claim
<1>4. PageBounded'
    BY <1>1, <1>2, <1>3 DEF RepeatInv, PageBounded, TypeOK
<1>5. Written' = Written /\ ToSend' = ToSend /\ Late' = Late
    BY <1>3 DEF Written, ToSend, Late
<1> QED BY <1>3, <1>4, <1>5, AllowanceGrows DEF RepeatInv

LEMMA PublishPays ==
    ASSUME TypeOK, RepeatInv, NEW p \in Replicas, NEW r \in Rows, Publish(p, r)
    PROVE  RepeatInv'
<1>1. /\ r \in claimed[p] /\ r \notin marked[p]
      /\ marked' = [marked EXCEPT ![p] = marked[p] \cup {r}]
      /\ UNCHANGED <<table, claimed, inFlight, faultCount>>
    BY DEF Publish, IsNext
<1>2. \A q \in Replicas : r \notin marked[q]
    BY <1>1 DEF TypeOK
<1>3. r \in ToSend
    BY <1>1, <1>2 DEF RepeatInv, PageBounded, ToSend
<1>4. ToSend' \subseteq ToSend \ {r}
  <2>1. \A q \in Replicas : marked[q] \subseteq marked'[q]
    BY <1>1 DEF TypeOK
  <2>2. r \in marked'[p]
    BY <1>1 DEF TypeOK
  <2> QED BY <1>1, <2>1, <2>2 DEF ToSend
<1>5. Cardinality(ToSend') + 1 <= Cardinality(ToSend) /\ Cardinality(ToSend') \in Nat
    BY <1>3, <1>4, RepeatNumbers, OneGone
<1>6. PageBounded' /\ Written' = Written /\ Late' = Late
    BY <1>1 DEF RepeatInv, PageBounded, Written, Late
<1>7. Len(log') = Len(log) + 1 /\ Allowance' = Allowance
    BY <1>1, LogGrows, AllowanceGrows DEF Publish, TypeOK
<1> QED BY <1>5, <1>6, <1>7, RepeatNumbers DEF RepeatInv

(* What a fault adds to the acceptances to come: no more than it pays.     *)
LEMMA FaultPays ==
    ASSUME TypeOK, RepeatInv, NEW m \in Nat, NEW n \in Nat, m + n <= BatchSize,
           PageBounded', Written' = Written, log' = log, faultCount' = faultCount + 1,
           IsFiniteSet(Late'), Cardinality(ToSend') \in Nat, Cardinality(Late') \in Nat,
           Cardinality(ToSend') <= Cardinality(ToSend) + m,
           Cardinality(Late') <= Cardinality(Late) + n
    PROVE  RepeatInv'
<1>1. Len(log') = Len(log) /\ Allowance' = Allowance + BatchSize
    BY AllowanceGrows
<1>2. Len(log) + Cardinality(ToSend) + Cardinality(Late) <= Cardinality(Written) + Allowance
    BY DEF RepeatInv
<1>3. PICK l, s, f, w, a, t, g \in Nat :
            /\ l = Len(log) /\ s = Cardinality(ToSend) /\ f = Cardinality(Late)
            /\ w = Cardinality(Written) /\ a = Allowance
            /\ t = Cardinality(ToSend') /\ g = Cardinality(Late')
    BY RepeatNumbers
<1>4. l + s + f <= w + a /\ t <= s + m /\ g <= f + n /\ BatchSize \in Nat
    BY <1>2, <1>3, RepeatNumbers
<1>5. l + t + g <= w + (a + BatchSize)
    BY <1>4
<1>6. Len(log') + Cardinality(ToSend') + Cardinality(Late') <= Cardinality(Written') + Allowance'
    BY <1>1, <1>3, <1>5
<1> QED BY <1>6 DEF RepeatInv

(* The transaction ends with all that it has marked.                       *)
LEMMA CommitPays ==
    ASSUME TypeOK, RepeatInv, NEW p \in Replicas, EndBatch(p, marked[p]), log' = log,
           \/ inFlight' = inFlight /\ (faultCount' = faultCount \/ faultCount' = faultCount + 1)
           \/ /\ faultCount' = faultCount + 1
              /\ \E r \in Rows : inFlight' = [inFlight EXCEPT ![p] = @ \cup {r}]
    PROVE  RepeatInv'
<1>1. PageBounded' /\ Written' = Written /\ ToSend' \subseteq ToSend
    BY EndBatchSends DEF RepeatInv
<1>2. Cardinality(ToSend') <= Cardinality(ToSend) /\ Cardinality(ToSend') \in Nat
    BY <1>1, RepeatNumbers, Fewer
<1>3. CASE inFlight' = inFlight /\ (faultCount' = faultCount \/ faultCount' = faultCount + 1)
  <2>1. Late' = Late
    BY <1>3 DEF Late
  <2>2. Len(log') = Len(log) /\ (Allowance' = Allowance \/ Allowance' = Allowance + BatchSize)
    BY <1>3, AllowanceGrows
  <2> QED BY <1>1, <1>2, <2>1, <2>2, RepeatNumbers DEF RepeatInv
<1>4. ASSUME NEW r \in Rows, inFlight' = [inFlight EXCEPT ![p] = @ \cup {r}],
             faultCount' = faultCount + 1
      PROVE  RepeatInv'
  <2>1. Late' \subseteq Late \cup {<<p, r>>}
    <3>1. inFlight[p] \cup {r} \in SUBSET Rows
      BY DEF TypeOK
    <3> QED BY <1>4, <3>1, FlightChanges
  <2>2. /\ IsFiniteSet(Late') /\ Cardinality(Late') <= Cardinality(Late) + 1
        /\ Cardinality(Late') \in Nat
    BY <2>1, RepeatNumbers, OneMore
  <2>3. Cardinality(ToSend') <= Cardinality(ToSend) + 0 /\ 0 + 1 <= BatchSize
    BY <1>2, RepeatNumbers
  <2> QED BY <1>1, <1>2, <1>4, <2>2, <2>3, FaultPays
<1> QED BY <1>3, <1>4

(* A page is rolled back: every row of it that was sent will be again.     *)
LEMMA RollbackPays ==
    ASSUME TypeOK, RepeatInv, NEW p \in Replicas, EndBatch(p, {}), log' = log,
           faultCount' = faultCount + 1,
           inFlight' = inFlight \/ inFlight' = [inFlight EXCEPT ![p] = {}]
    PROVE  RepeatInv'
<1>1. PageBounded' /\ Written' = Written /\ ToSend' \subseteq ToSend \cup marked[p]
    BY EndBatchSends DEF RepeatInv
<1>2. /\ IsFiniteSet(marked[p]) /\ Cardinality(marked[p]) <= BatchSize
      /\ Cardinality(marked[p]) \in Nat
  <2>1. IsFiniteSet(claimed[p]) /\ marked[p] \subseteq claimed[p]
    BY RowsFinite DEF TypeOK
  <2>2. Cardinality(claimed[p]) <= BatchSize
    BY DEF RepeatInv, PageBounded
  <2>3. /\ IsFiniteSet(marked[p]) /\ Cardinality(marked[p]) <= Cardinality(claimed[p])
        /\ Cardinality(claimed[p]) \in Nat /\ Cardinality(marked[p]) \in Nat
    BY <2>1, Fewer
  <2> QED BY <2>2, <2>3, AllowanceGrows
<1>3. /\ Cardinality(ToSend') <= Cardinality(ToSend) + Cardinality(marked[p])
      /\ Cardinality(ToSend') \in Nat
    BY <1>1, <1>2, RepeatNumbers, Joined
<1>4. Late' \subseteq Late
    BY DEF Late, TypeOK
<1>5. IsFiniteSet(Late') /\ Cardinality(Late') <= Cardinality(Late) /\ Cardinality(Late') \in Nat
    BY <1>4, RepeatNumbers, Fewer
<1>6. Cardinality(Late') <= Cardinality(Late) + 0 /\ Cardinality(marked[p]) + 0 <= BatchSize
    BY <1>2, <1>5, RepeatNumbers
<1> QED BY <1>1, <1>2, <1>3, <1>5, <1>6, FaultPays

LEMMA SettlePays ==
    ASSUME TypeOK, RepeatInv, NEW p \in Replicas, NEW r \in Rows, Settle(p, r)
    PROVE  RepeatInv'
<1>1. /\ r \in inFlight[p] /\ inFlight' = [inFlight EXCEPT ![p] = @ \ {r}]
      /\ UNCHANGED <<table, claimed, marked, faultCount>>
      /\ log' = log \/ log' = Append(log, r)
    BY DEF Settle, LateAccept, Drop
<1>2. Len(log') = Len(log) \/ Len(log') = Len(log) + 1
    BY <1>1, LogGrows DEF TypeOK
<1>3. /\ IsFiniteSet(Late') /\ Cardinality(Late') + 1 <= Cardinality(Late)
      /\ Cardinality(Late') \in Nat
  <2>1. <<p, r>> \in Late /\ Late' \subseteq Late \ {<<p, r>>}
    BY <1>1, FlightSettled
  <2> QED BY <2>1, RepeatNumbers, OneGone
<1>4. PageBounded' /\ Written' = Written /\ ToSend' = ToSend
    BY <1>1 DEF RepeatInv, PageBounded, Written, ToSend
<1>5. Allowance' = Allowance
    BY <1>1, AllowanceGrows
<1>6. Len(log) + Cardinality(ToSend) + Cardinality(Late) <= Cardinality(Written) + Allowance
    BY DEF RepeatInv
<1>7. PICK l, s, f, w, a, k, g \in Nat :
            /\ l = Len(log) /\ s = Cardinality(ToSend) /\ f = Cardinality(Late)
            /\ w = Cardinality(Written) /\ a = Allowance
            /\ k = Len(log') /\ g = Cardinality(Late')
  <2>1. Len(log') \in Nat
    BY <1>2, RepeatNumbers
  <2> QED BY <1>3, <2>1, RepeatNumbers
<1>8. l + s + f <= w + a /\ g + 1 <= f /\ (k = l \/ k = l + 1)
  <2>1. l + s + f <= w + a
    BY <1>6, <1>7
  <2>2. g + 1 <= f /\ (k = l \/ k = l + 1)
    BY <1>2, <1>3, <1>7
  <2> QED BY <2>1, <2>2
<1>9. k + s + g <= w + a
    BY <1>8
<1> QED BY <1>3, <1>4, <1>5, <1>7, <1>9 DEF RepeatInv

LEMMA StepPays == ASSUME TypeOK, RepeatInv, [Next]_vars PROVE RepeatInv'
<1>1. ASSUME NEW r \in Rows, Write(r) \/ Purge(r) PROVE RepeatInv'
    BY <1>1, WritePays, PurgePays
<1>2. ASSUME NEW p \in Replicas, Claim(p) PROVE RepeatInv'
    BY <1>2, ClaimPays
<1>3. ASSUME NEW p \in Replicas, NEW r \in Rows, Publish(p, r) PROVE RepeatInv'
    BY <1>3, PublishPays
<1>4. ASSUME NEW p \in Replicas, Commit(p) PROVE RepeatInv'
    BY <1>4, CommitPays DEF Commit
<1>5. ASSUME NEW p \in Replicas, NEW r \in Rows, SendFails(p, r) \/ SendTimesOut(p, r)
      PROVE  RepeatInv'
    BY <1>5, CommitPays DEF SendFails, SendTimesOut, StopAt, Fault
<1>6. ASSUME NEW p \in Replicas, Rollback(p) \/ Crash(p) PROVE RepeatInv'
    BY <1>6, RollbackPays DEF Rollback, Crash, Fault
<1>7. ASSUME NEW p \in Replicas, NEW r \in Rows, Settle(p, r) PROVE RepeatInv'
    BY <1>7, SettlePays
<1>8. CASE UNCHANGED vars
    BY <1>8 DEF vars, RepeatInv, PageBounded, Written, ToSend, Late, Allowance
<1> QED BY <1>1, <1>2, <1>3, <1>4, <1>5, <1>6, <1>7, <1>8 DEF Next, RelayFails, Relay

(* A row that was written and never accepted waits to be sent.             *)
LEMMA RepeatsBounded == ASSUME TypeOK, LostInv, RepeatInv PROVE DuplicatesBounded
<1>1. Sent \subseteq Rows
    BY DEF Sent, Range, TypeOK
<1>2. Written \subseteq Sent \cup ToSend
    BY DEF Written, ToSend, LostInv, NeverLost, MarkedSent, TypeOK
<1>3. Cardinality(Written) <= Cardinality(Sent) + Cardinality(ToSend) /\ Cardinality(Sent) \in Nat
    BY <1>1, <1>2, RowsFinite, RepeatNumbers, Joined
<1> QED BY <1>3, RepeatNumbers DEF RepeatInv, Allowance, DuplicatesBounded

(* However many replicas poll, a message repeats only after a fault, a page*)
(* of them at most for each.                                               *)
THEOREM RepeatsTakeFaults == Spec => []DuplicatesBounded
<1>1. Init => RepeatInv
  <2> SUFFICES ASSUME Init PROVE RepeatInv
    OBVIOUS
  <2>1. Written = {} /\ ToSend = {} /\ Late = {}
    BY DEF Init, Written, ToSend, Late
  <2>2. PageBounded
    BY FS_EmptySet, RelayAssumption DEF Init, PageBounded
  <2>3. Len(log) = 0 /\ Allowance \in Nat
    BY InitTyped, AllowanceGrows DEF Init
  <2> QED BY <2>1, <2>2, <2>3, FS_EmptySet DEF RepeatInv
<1> QED BY <1>1, StepPays, RepeatsBounded, LostInvariance, PTL DEF Spec
=============================================================================
