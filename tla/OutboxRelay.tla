---------------------------- MODULE OutboxRelay ----------------------------
(***************************************************************************)
(* The transactional outbox of the order-service and the payment-service:  *)
(* every replica polls one table, claims a page of unpublished rows with   *)
(* FOR UPDATE SKIP LOCKED, sends them to Kafka one after the other, and    *)
(* commits what it has marked.  A cleanup job deletes published rows.      *)
(*                                                                         *)
(* A row is a number, its place in created_at order; Key is its partition  *)
(* key.  The log holds what Kafka has accepted, over all partitions.       *)
(***************************************************************************)
EXTENDS Integers, Sequences, FiniteSets, Functions

CONSTANTS
    Replicas,
    N,              \* rows written in a behaviour
    Key,            \* [1..N -> the keys]
    BatchSize,      \* rows claimed by one poll
    Faults,         \* the kinds of fault that may happen
    MaxFaults       \* how many of them, in all

Rows == 1..N

ASSUME RelayAssumption ==
    /\ N \in Nat /\ BatchSize \in Nat \ {0} /\ MaxFaults \in Nat
    /\ Faults \subseteq {"sendFail", "timeout", "db", "crash"}

VARIABLES
    running,        \* the replicas deployed, the same all along
    table,          \* a row is absent, unpublished, published or purged
    ahead,          \* history: the earlier rows of its key committed before a row
    claimed,        \* the rows each replica's transaction has locked
    marked,         \* those it has marked published, not yet committed
    inFlight,       \* records given up on that its producer may still deliver
    log,            \* what the broker has accepted, in order
    faultCount

vars == <<running, table, ahead, claimed, marked, inFlight, log, faultCount>>

Fault(kind) ==
    /\ kind \in Faults /\ faultCount < MaxFaults
    /\ faultCount' = faultCount + 1

(* Row r precedes row s under the same partition key.                      *)
Precedes(r, s) == r < s /\ Key[r] = Key[s]

-----------------------------------------------------------------------------
(* A business transaction commits its outbox row, and the row becomes      *)
(* visible.  created_at is when the transaction began, or inserted the row:*)
(* rows may commit out of that order, those of one key as well.  The       *)
(* payment-service writes payment.initiated in a transaction that locks    *)
(* nothing, while another call captures the same payment.                  *)
Write(r) ==
    /\ table[r] = "absent"
    /\ table' = [table EXCEPT ![r] = "unpublished"]
    /\ ahead' = [ahead EXCEPT ![r] = {q \in Rows : Precedes(q, r) /\ table[q] # "absent"}]
    /\ UNCHANGED <<running, claimed, marked, inFlight, log, faultCount>>

(* Mutant: the rows are not locked.                                        *)
FreeRowsMutant == {r \in Rows : table[r] = "unpublished"}

(* What SKIP LOCKED leaves.                                                *)
FreeRows ==
    {r \in Rows : table[r] = "unpublished" /\ \A p \in Replicas : r \notin claimed[p]}

(* The oldest free rows, a page at most.                                   *)
IsPage(S) ==
    /\ S \subseteq FreeRows /\ S # {}
    /\ \A r \in S : \A q \in FreeRows \ S : r < q
    /\ Cardinality(S) <= BatchSize
    /\ Cardinality(S) = BatchSize \/ S = FreeRows

(* findUnpublished, at the start of a poll.                                *)
Claim(p) ==
    /\ p \in running /\ claimed[p] = {}
    /\ \E S \in SUBSET FreeRows :
        /\ IsPage(S)
        /\ claimed' = [claimed EXCEPT ![p] = S]
    /\ UNCHANGED <<running, table, ahead, marked, inFlight, log, faultCount>>

(* The row publishOne is called with: the loop goes by created_at.         *)
IsNext(p, r) ==
    /\ r \in claimed[p] \ marked[p]
    /\ \A q \in claimed[p] \ marked[p] : r <= q

(* The broker acknowledges; an earlier send of the same row, to the same   *)
(* partition by the same producer, has been settled before.                *)
Publish(p, r) ==
    /\ IsNext(p, r)
    /\ r \notin inFlight[p]
    /\ log' = Append(log, r)
    /\ marked' = [marked EXCEPT ![p] = @ \cup {r}]
    /\ UNCHANGED <<running, table, ahead, claimed, inFlight, faultCount>>

(* The transaction ends; what it has marked is committed with done, and    *)
(* rolled back without.                                                    *)
EndBatch(p, done) ==
    /\ table' = [r \in Rows |-> IF r \in done THEN "published" ELSE table[r]]
    /\ claimed' = [claimed EXCEPT ![p] = {}]
    /\ marked' = [marked EXCEPT ![p] = {}]

Commit(p) ==
    /\ claimed[p] # {} /\ marked[p] = claimed[p]
    /\ EndBatch(p, marked[p])
    /\ UNCHANGED <<running, ahead, inFlight, log, faultCount>>

(* Mutant: the failing row is skipped and the loop goes on.                *)
StopAtMutant(p, r) ==
    /\ claimed' = [claimed EXCEPT ![p] = @ \ {r}]
    /\ UNCHANGED <<running, table, ahead, marked>>

(* Mutant: the failing row is marked as well.                              *)
StopAtMarkMutant(p, r) == EndBatch(p, marked[p] \cup {r})

(* publishOne returned false: the loop stops, and the rows already marked  *)
(* are committed.                                                          *)
StopAt(p, r) == EndBatch(p, marked[p])

SendFails(p, r) ==
    /\ Fault("sendFail")
    /\ IsNext(p, r)
    /\ StopAt(p, r)
    /\ UNCHANGED <<running, ahead, inFlight, log>>

(* The bounded wait is over, and the record is still with the producer.    *)
SendTimesOut(p, r) ==
    /\ Fault("timeout")
    /\ IsNext(p, r)
    /\ StopAt(p, r)
    /\ inFlight' = [inFlight EXCEPT ![p] = @ \cup {r}]
    /\ UNCHANGED <<running, ahead, log>>

(* A DB failure while marking or committing rolls the page back.           *)
Rollback(p) ==
    /\ Fault("db")
    /\ claimed[p] # {}
    /\ EndBatch(p, {})
    /\ UNCHANGED <<running, ahead, inFlight, log>>

(* The replica dies with its transaction and its producer's buffer.        *)
Crash(p) ==
    /\ Fault("crash")
    /\ claimed[p] \cup inFlight[p] # {}
    /\ EndBatch(p, {})
    /\ inFlight' = [inFlight EXCEPT ![p] = {}]
    /\ UNCHANGED <<running, ahead, log>>

(* The broker accepts a record the relay has given up on, or the           *)
(* producer's delivery timeout drops it.                                   *)
LateAccept(p, r) ==
    /\ r \in inFlight[p]
    /\ inFlight' = [inFlight EXCEPT ![p] = @ \ {r}]
    /\ log' = Append(log, r)
    /\ UNCHANGED <<running, table, ahead, claimed, marked, faultCount>>

Drop(p, r) ==
    /\ r \in inFlight[p]
    /\ inFlight' = [inFlight EXCEPT ![p] = @ \ {r}]
    /\ UNCHANGED <<running, table, ahead, claimed, marked, log, faultCount>>

(* Mutant: unpublished rows past the retention are deleted as well.        *)
PurgeMutant(r) ==
    /\ table[r] \in {"unpublished", "published"}
    /\ table' = [table EXCEPT ![r] = "purged"]
    /\ UNCHANGED <<running, ahead, claimed, marked, inFlight, log, faultCount>>

(* purgePublished: a published row may be past its retention.              *)
Purge(r) ==
    /\ table[r] = "published"
    /\ table' = [table EXCEPT ![r] = "purged"]
    /\ UNCHANGED <<running, ahead, claimed, marked, inFlight, log, faultCount>>

-----------------------------------------------------------------------------
Init ==
    /\ running \in SUBSET Replicas \ {{}}
    /\ table = [r \in Rows |-> "absent"]
    /\ ahead = [r \in Rows |-> {}]
    /\ claimed = [p \in Replicas |-> {}]
    /\ marked = [p \in Replicas |-> {}]
    /\ inFlight = [p \in Replicas |-> {}]
    /\ log = <<>>
    /\ faultCount = 0

Relay(p) == Claim(p) \/ (\E r \in Rows : Publish(p, r)) \/ Commit(p)

Settle(p, r) == LateAccept(p, r) \/ Drop(p, r)

RelayFails(p) ==
    \/ Rollback(p) \/ Crash(p)
    \/ \E r \in Rows : SendFails(p, r) \/ SendTimesOut(p, r)

Next ==
    \/ \E r \in Rows : Write(r) \/ Purge(r)
    \/ \E p \in Replicas : Relay(p) \/ RelayFails(p) \/ \E r \in Rows : Settle(p, r)

Spec == Init /\ [][Next]_vars

(* The scheduled poll runs on every replica, and a producer settles each   *)
(* record within its delivery timeout.                                     *)
FairSpec ==
    /\ Spec
    /\ \A p \in Replicas : WF_vars(Relay(p))
    /\ \A p \in Replicas, r \in Rows : WF_vars(Settle(p, r))

-----------------------------------------------------------------------------
(* Properties.                                                             *)

Sent == Range(log)

(* The table, the open transactions and the log of Kafka keep their types: *)
(* a replica marks only rows it has claimed, and claims are disjoint, what *)
(* FOR UPDATE SKIP LOCKED is for.                                          *)
TypeOK ==
    /\ running \in SUBSET Replicas
    /\ table \in [Rows -> {"absent", "unpublished", "published", "purged"}]
    /\ ahead \in [Rows -> SUBSET Rows]
    /\ claimed \in [Replicas -> SUBSET Rows]
    /\ marked \in [Replicas -> SUBSET Rows]
    /\ inFlight \in [Replicas -> SUBSET Rows]
    /\ log \in Seq(Rows)
    /\ faultCount \in 0..MaxFaults
    /\ \A p \in Replicas : marked[p] \subseteq claimed[p]
    /\ \A p, q \in Replicas : p # q => claimed[p] \cap claimed[q] = {}
    /\ \A p \in Replicas \ running : claimed[p] = {} /\ inFlight[p] = {}

(* No event is lost: a row counts as published, or is deleted by the       *)
(* cleanup, only after the broker has accepted it.                         *)
NeverLost == \A r \in Rows : table[r] \in {"published", "purged"} => r \in Sent

(* Re-publishing is bounded by the page size: every fault repeats at most  *)
(* one page, and without a fault every event is sent once, however many    *)
(* replicas poll.                                                          *)
DuplicatesBounded == Len(log) - Cardinality(Sent) <= BatchSize * faultCount

(* Every row in the log comes after the rows of its key that had been      *)
(* created and committed before it.                                        *)
LogOrdered ==
    \A i \in 1..Len(log) : \A q \in ahead[log[i]] : \E j \in 1..(i - 1) : log[j] = q

(* Per-entity ordering: where one relay is deployed, no event reaches      *)
(* Kafka before another of its partition key that was created earlier and  *)
(* had been committed when the event was, whatever fails, is rolled back or*)
(* accepted late.  Repeats may come late.  A row that commits after a later*)
(* one of its key may be overtaken, and with a second relay any may be.    *)
Alone == \A p, q \in running : p = q
KeyOrdered == Alone => LogOrdered

(* At-least-once: a committed outbox row reaches Kafka in the end, in      *)
(* spite of failed sends, rolled back pages and crashed replicas.          *)
EventuallySent == \A r \in Rows : table[r] = "unpublished" ~> r \in Sent
=============================================================================
