-------------------------- MODULE OrderSagaProofs --------------------------
(***************************************************************************)
(* Proofs about OrderSaga, for any number of workers, orders and faults,   *)
(* and about OrderSaga together with its timer, ExpirationTimer.           *)
(***************************************************************************)
EXTENDS ExpirationTimer, TLAPS

(* What a worker in the middle of a job knows of its order: markComplete   *)
(* holds the lock of an open, paid order, and has sold its reservation     *)
(* once it is about to complete; a current copy of the row is a copy of an *)
(* open one.                                                               *)
LockHeld ==
    \A w \in Workers : job[w].pc \in Locking =>
        /\ lock[job[w].order] = w
        /\ IsAwaitingPayment(job[w].order)
        /\ payment[job[w].order] = "captured"
FreshIsOpen ==
    \A w \in fresh : /\ job[w].pc \in {"cancel", "await", "fail"}
                     /\ IsAwaitingPayment(job[w].order)
SoldBeforeComplete ==
    \A w \in Workers : job[w].pc = "complete" => reservation[job[w].order] = "SOLD"

(* Only an existing order is charged, and only one with an unfulfillable   *)
(* event is refunded.                                                      *)
PaidExists ==
    \A o \in Orders : /\ payment[o] # "none" => status[o] # "NONE"
                      /\ payment[o] = "refunded" => reason[o] = "UNFULFILLABLE_REFUNDED"

(* The inductive invariant.                                                *)
IInv == /\ TypeOK /\ OneOutcome /\ CompleteIsSold
        /\ LockHeld /\ FreshIsOpen /\ SoldBeforeComplete /\ PaidExists

(* A step that gives worker w a new job leaves the other jobs alone.       *)
LEMMA JobMoves ==
    ASSUME TypeOK, NEW w \in Workers, NEW pc \in Labels, NEW o \in Orders \cup {NoOrder},
           job' = [job EXCEPT ![w] = Job(pc, o)]
    PROVE  /\ job' \in [Workers -> [pc : Labels, order : Orders \cup {NoOrder}]]
           /\ job'[w].pc = pc /\ job'[w].order = o
           /\ \A v \in Workers : v # w => job'[v] = job[v]
BY DEF TypeOK, Job

(* A busy worker has an order.                                             *)
LEMMA BusyOrder ==
    ASSUME TypeOK, NEW w \in Workers, ~At(w, "idle")
    PROVE  OrderOf(w) \in Orders
BY DEF TypeOK, At, OrderOf

(* Writing to the outbox adds one event per topic, for one order.          *)
LEMMA OutboxGrows ==
    ASSUME TypeOK, NEW o \in Orders, NEW topics, WriteOutbox(o, topics)
    PROVE  /\ events' \in [Orders -> [Topics -> Nat]]
           /\ \A p \in Orders : p # o => events'[p] = events[p]
           /\ \A t \in Topics : events'[o][t] = events[o][t] + (IF t \in topics THEN 1 ELSE 0)
BY DEF TypeOK, WriteOutbox

LEMMA InitHolds == Init => IInv
<1> SUFFICES ASSUME Init PROVE IInv
    OBVIOUS
<1>1. TypeOK
    BY SetsAssumption, TimesAssumption
    DEF Init, TypeOK, Statuses, CancelReasons, Labels, IdleJob, Job, At, OrderOf
<1>2. OneOutcome /\ CompleteIsSold /\ PaidExists
    BY DEF Init, OneOutcome, CompleteIsSold, PaidExists, Topics
<1>3. LockHeld /\ FreshIsOpen /\ SoldBeforeComplete
    BY DEF Init, LockHeld, FreshIsOpen, SoldBeforeComplete, Locking, IdleJob, Job
<1> QED BY <1>1, <1>2, <1>3 DEF IInv

(* Steps of createOrder and createSeatedOrder before the row exists, and   *)
(* of a compensation.                                                      *)
LEMMA CreateStep ==
    ASSUME IInv, NEW w \in Workers,
           \/ \E o \in Orders : CreateOrder(w, o)
           \/ Reserve(w) \/ ReserveDuplicate(w) \/ ReserveRefused(w) \/ ReserveLost(w)
           \/ TxFail(w) \/ Compensate(w) \/ CompensateFails(w) \/ InsertDuplicate(w)
    PROVE  IInv'
<1> USE DEF IInv, row, ages, calls
<1>1. PICK pc \in Labels, o \in Orders \cup {NoOrder} :
         /\ job' = [job EXCEPT ![w] = Job(pc, o)]
         /\ pc \in {"idle", "reserve", "insert", "compensate"}
         /\ pc = "idle" <=> o = NoOrder
    BY SetsAssumption DEF CreateOrder, Reserve, ReserveDuplicate, ReserveRefused, ReserveLost,
       TxFail, Compensate, CompensateFails, InsertDuplicate, Become, Goto, Done,
       IdleJob, AfterFailure, OrderOf, Labels, TypeOK, At
<1>2. /\ UNCHANGED <<status, reason, events, lock, orderAge, resAge, payment, attempts, fresh>>
      /\ asked' \subseteq Orders /\ keyed' = keyed /\ faultCount' \in 0..MaxFaults
      /\ job[w].pc \in {"idle", "reserve", "insert", "compensate"}
    BY TimesAssumption DEF CreateOrder, Reserve, ReserveDuplicate, ReserveRefused, ReserveLost,
       TxFail, Compensate, CompensateFails, InsertDuplicate, At, TypeOK, Fault
<1>3. /\ reservation' \in [Orders -> {"NONE", "RESERVED", "RELEASED", "SOLD"}]
      /\ \A p \in Orders : reservation[p] = "SOLD" => reservation'[p] = "SOLD"
  <2>1. CASE Reserve(w) \/ ReserveLost(w)
    BY <2>1 DEF Reserve, ReserveLost, ReserveWrite, TypeOK
  <2>2. CASE Compensate(w)
    BY <2>2 DEF Compensate, Released, TypeOK
  <2>3. CASE UNCHANGED reservation
    BY <2>3 DEF TypeOK
  <2> QED BY <2>1, <2>2, <2>3
    DEF CreateOrder, ReserveDuplicate, ReserveRefused, TxFail, CompensateFails, InsertDuplicate
<1>4. /\ job' \in [Workers -> [pc : Labels, order : Orders \cup {NoOrder}]]
      /\ job'[w].pc = pc /\ job'[w].order = o
      /\ \A v \in Workers : v # w => job'[v] = job[v]
    BY <1>1, JobMoves
<1>5. TypeOK'
    BY <1>1, <1>2, <1>3, <1>4 DEF TypeOK, At, OrderOf, Locking
<1>6. OneOutcome' /\ CompleteIsSold' /\ PaidExists'
    BY <1>2, <1>3 DEF OneOutcome, CompleteIsSold, PaidExists
<1>7. LockHeld'
    BY <1>1, <1>2, <1>4 DEF LockHeld, Locking, IsAwaitingPayment
<1>8. FreshIsOpen'
    BY <1>2, <1>4 DEF FreshIsOpen, IsAwaitingPayment, TypeOK
<1>9. SoldBeforeComplete'
  <2> SUFFICES ASSUME NEW v \in Workers, job'[v].pc = "complete"
               PROVE  reservation'[job'[v].order] = "SOLD"
    BY DEF SoldBeforeComplete
  <2>1. v # w /\ job'[v] = job[v]
    BY <1>1, <1>4
  <2>2. job[v].order \in Orders
    BY <2>1 DEF TypeOK, At, OrderOf
  <2> QED BY <2>1, <2>2, <1>3 DEF SoldBeforeComplete
<1> QED BY <1>5, <1>6, <1>7, <1>8, <1>9

(* The transaction that inserts the row.                                   *)
LEMMA InsertStep ==
    ASSUME IInv, NEW w \in Workers, Insert(w) \/ TxLost(w)
    PROVE  IInv'
<1> USE DEF IInv, row, ages, calls
<1> DEFINE o == OrderOf(w)
<1>0. o \in Orders /\ job[w].pc = "insert" /\ InsertRow(o)
    BY BusyOrder DEF Insert, TxLost, At
<1>1. PICK pc \in Labels, p \in Orders \cup {NoOrder} :
         /\ job' = [job EXCEPT ![w] = Job(pc, p)]
         /\ pc \in {"idle", "compensate"}
         /\ pc = "idle" <=> p = NoOrder
    BY <1>0, SetsAssumption DEF Insert, TxLost, Become, Goto, Done, IdleJob, AfterFailure, Labels
<1>2. /\ UNCHANGED <<reason, lock, orderAge, resAge, reservation, payment, attempts, asked, keyed, fresh>>
      /\ faultCount' \in 0..MaxFaults
    BY TimesAssumption DEF Insert, TxLost, Fault, TypeOK
<1>3. /\ job' \in [Workers -> [pc : Labels, order : Orders \cup {NoOrder}]]
      /\ job'[w].pc = pc /\ job'[w].order = p
      /\ \A v \in Workers : v # w => job'[v] = job[v]
    BY <1>1, JobMoves
<1>4. /\ status[o] = "NONE" /\ status' = [status EXCEPT ![o] = "CREATED"]
      /\ WriteOutbox(o, {"created"})
    BY <1>0 DEF InsertRow
<1>5. /\ events' \in [Orders -> [Topics -> Nat]]
      /\ \A q \in Orders : q # o => events'[q] = events[q]
      /\ \A t \in Topics : events'[o][t] = events[o][t] + (IF t \in {"created"} THEN 1 ELSE 0)
    BY <1>0, <1>4, OutboxGrows
<1>6. /\ status' \in [Orders -> Statuses]
      /\ status'[o] = "CREATED" /\ \A q \in Orders : q # o => status'[q] = status[q]
    BY <1>0, <1>4 DEF TypeOK, Statuses
<1>7. TypeOK'
    BY <1>0, <1>1, <1>2, <1>3, <1>5, <1>6 DEF TypeOK, At, OrderOf, Locking
<1>8. OneOutcome'
    BY <1>0, <1>2, <1>4, <1>5, <1>6 DEF OneOutcome, Topics
<1>9. CompleteIsSold' /\ PaidExists'
    BY <1>2, <1>4, <1>6 DEF CompleteIsSold, PaidExists
<1>10. LockHeld' /\ SoldBeforeComplete'
    BY <1>0, <1>1, <1>2, <1>3, <1>4, <1>6 DEF LockHeld, SoldBeforeComplete, Locking, IsAwaitingPayment, TypeOK, At, OrderOf
<1>11. FreshIsOpen'
  <2> SUFFICES ASSUME NEW v \in fresh
               PROVE  /\ job'[v].pc \in {"cancel", "await", "fail"}
                      /\ IsAwaitingPayment(job[v].order)'
    BY <1>2 DEF FreshIsOpen
  <2>1. v \in Workers /\ v # w /\ job'[v] = job[v]
    BY <1>0, <1>3 DEF FreshIsOpen, TypeOK
  <2>2. job[v].order \in Orders /\ job[v].order # o
    BY <2>1, <1>4 DEF FreshIsOpen, TypeOK, At, OrderOf, IsAwaitingPayment
  <2> QED BY <2>1, <2>2, <1>6 DEF FreshIsOpen, IsAwaitingPayment
<1> QED BY <1>7, <1>8, <1>9, <1>10, <1>11

(* Reading the row of an open order.                                       *)
LEMMA ReadStep ==
    ASSUME IInv, NEW w \in Workers, NEW o \in Orders,
           CancelOrder(w, o) \/ MarkAwaitingPayment(w, o) \/ MarkPaymentFailed(w, o)
    PROVE  IInv'
<1> USE DEF IInv, row, ages, calls
<1>1. PICK label \in {"cancel", "await", "fail"} : ReadRow(w, o, label)
    BY DEF CancelOrder, MarkAwaitingPayment, MarkPaymentFailed
<1>2. IsAwaitingPayment(o)
    BY DEF CancelOrder, MarkAwaitingPayment, MarkPaymentFailed, IsTerminal, IsAwaitingPayment,
           TypeOK, Statuses
<1>3. /\ UNCHANGED <<status, reason, events, lock, orderAge, resAge, reservation, payment,
                     attempts, asked, keyed, faultCount>>
      /\ job' = [job EXCEPT ![w] = Job(label, o)]
      /\ fresh' = fresh \cup {w} /\ job[w].pc = "idle"
    BY <1>1 DEF ReadRow, Become, At
<1>4. /\ job' \in [Workers -> [pc : Labels, order : Orders \cup {NoOrder}]]
      /\ job'[w].pc = label /\ job'[w].order = o
      /\ \A v \in Workers : v # w => job'[v] = job[v]
    BY <1>3, JobMoves DEF Labels
<1>5. TypeOK'
    BY <1>3, <1>4, SetsAssumption DEF TypeOK, At, OrderOf, Locking
<1>6. OneOutcome' /\ CompleteIsSold' /\ PaidExists'
    BY <1>3 DEF OneOutcome, CompleteIsSold, PaidExists
<1>7. LockHeld' /\ SoldBeforeComplete'
    BY <1>3, <1>4 DEF LockHeld, SoldBeforeComplete, Locking, IsAwaitingPayment
<1>8. FreshIsOpen'
    BY <1>2, <1>3, <1>4 DEF FreshIsOpen, IsAwaitingPayment, TypeOK
<1> QED BY <1>5, <1>6, <1>7, <1>8

(* A step that only ends the job of a worker without a lock, its copy of   *)
(* the row included.                                                       *)
LEMMA EndStep ==
    ASSUME IInv, NEW w \in Workers, Done(w),
           job[w].pc \notin Locking, fresh' = fresh \ {w},
           UNCHANGED <<status, reason, events, lock, orderAge, resAge, reservation, payment,
                       attempts, asked, keyed>>,
           faultCount' \in 0..MaxFaults
    PROVE  IInv'
<1> USE DEF IInv
<1>1. /\ job' \in [Workers -> [pc : Labels, order : Orders \cup {NoOrder}]]
      /\ job'[w].pc = "idle" /\ job'[w].order = NoOrder
      /\ \A v \in Workers : v # w => job'[v] = job[v]
    BY JobMoves DEF Labels, Done, IdleJob
<1>2. TypeOK'
  <2>1. \A o \in Orders : lock[o] # w
    <3>1. \A o \in Orders : lock[o] # NoOne => job[lock[o]].pc \in Locking
      BY DEF TypeOK
    <3> QED BY <3>1, SetsAssumption
  <2>2. \A o \in Orders : lock'[o] # NoOne =>
           job'[lock'[o]].order = o /\ job'[lock'[o]].pc \in Locking
    BY <1>1, <2>1 DEF TypeOK
  <2>3. \A v \in Workers : At(v, "idle")' <=> OrderOf(v)' = NoOrder
    <3>1. \A v \in Workers : job[v].pc = "idle" <=> job[v].order = NoOrder
      BY DEF TypeOK, At, OrderOf
    <3> QED BY <1>1, <3>1 DEF At, OrderOf
  <2> QED BY <1>1, <2>2, <2>3 DEF TypeOK
<1>3. OneOutcome' /\ CompleteIsSold' /\ PaidExists'
    BY DEF OneOutcome, CompleteIsSold, PaidExists
<1>4. LockHeld' /\ SoldBeforeComplete'
    BY <1>1 DEF LockHeld, SoldBeforeComplete, Locking, IsAwaitingPayment
<1>5. FreshIsOpen'
    BY <1>1 DEF FreshIsOpen, IsAwaitingPayment, TypeOK
<1> QED BY <1>2, <1>3, <1>4, <1>5

(* The optimistic lock failure.                                            *)
LEMMA ConflictStep ==
    ASSUME IInv, NEW w \in Workers, WriteConflict(w)
    PROVE  IInv'
<1>1. /\ Done(w) /\ job[w].pc \notin Locking /\ fresh' = fresh \ {w}
      /\ UNCHANGED <<status, reason, events, lock, orderAge, resAge, reservation, payment,
                     attempts, asked, keyed, faultCount>>
    BY DEF WriteConflict, Locking, VersionMatches, row, ages, calls
<1>2. faultCount' \in 0..MaxFaults
    BY <1>1 DEF IInv, TypeOK
<1> QED BY <1>1, <1>2, EndStep

(* Every worker keeps its job or ends it.                                  *)
JobsEnd ==
    /\ job' \in [Workers -> [pc : Labels, order : Orders \cup {NoOrder}]]
    /\ \A v \in Workers :
           \/ job'[v] = job[v]
           \/ job'[v].pc = "idle" /\ job'[v].order = NoOrder

(* A committed write to the row of o: what the workers know is still true, *)
(* because every copy of that row is stale and nobody holds its lock.      *)
LEMMA RowWritten ==
    ASSUME IInv, NEW o \in Orders, JobsEnd,
           lock' \in [Orders -> Workers \cup {NoOne}], lock'[o] = NoOne,
           \A p \in Orders : p # o => lock'[p] = lock[p] /\ status'[p] = status[p],
           \A v \in Workers : job'[v] # job[v] => job[v].order = o,
           \A v \in Workers : (job[v].pc \in Locking /\ job[v].order = o) => job'[v].pc = "idle",
           BumpVersion(o), UNCHANGED <<reservation, payment>>
    PROVE  /\ \A w \in Workers : At(w, "idle")' <=> OrderOf(w)' = NoOrder
           /\ \A p \in Orders : lock'[p] # NoOne =>
                 job'[lock'[p]].order = p /\ job'[lock'[p]].pc \in Locking
           /\ fresh' \subseteq Workers
           /\ LockHeld' /\ FreshIsOpen' /\ SoldBeforeComplete'
<1> USE DEF IInv
<1>1. \A w \in Workers : At(w, "idle")' <=> OrderOf(w)' = NoOrder
    BY DEF JobsEnd, TypeOK, At, OrderOf
<1>2. \A p \in Orders : lock'[p] # NoOne =>
         job'[lock'[p]].order = p /\ job'[lock'[p]].pc \in Locking
    BY DEF TypeOK
<1>3. fresh' \subseteq Workers
    BY DEF BumpVersion, TypeOK
<1>4. LockHeld'
  <2> SUFFICES ASSUME NEW v \in Workers, job'[v].pc \in Locking
               PROVE  /\ lock'[job'[v].order] = v
                      /\ status'[job'[v].order] \in {"CREATED", "AWAITING_PAYMENT"}
                      /\ payment'[job'[v].order] = "captured"
    BY DEF LockHeld, IsAwaitingPayment
  <2>1. job'[v] = job[v]
    BY DEF JobsEnd, Locking
  <2>2. job[v].order \in Orders \ {o}
    BY <2>1 DEF TypeOK, At, OrderOf, Locking
  <2> QED BY <2>1, <2>2 DEF LockHeld, IsAwaitingPayment
<1>5. FreshIsOpen'
  <2> SUFFICES ASSUME NEW v \in fresh, job[v].order # o
               PROVE  /\ job'[v].pc \in {"cancel", "await", "fail"}
                      /\ status'[job'[v].order] \in {"CREATED", "AWAITING_PAYMENT"}
    BY DEF FreshIsOpen, IsAwaitingPayment, BumpVersion, OrderOf
  <2>1. v \in Workers /\ job'[v] = job[v]
    BY DEF TypeOK
  <2>2. job[v].pc \in {"cancel", "await", "fail"} /\ IsAwaitingPayment(job[v].order)
    BY DEF FreshIsOpen
  <2>3. job[v].order \in Orders
    BY <2>1, <2>2, BusyOrder DEF At, OrderOf
  <2> QED BY <2>1, <2>2, <2>3 DEF IsAwaitingPayment
<1>6. SoldBeforeComplete'
    BY DEF SoldBeforeComplete, JobsEnd
<1> QED BY <1>1, <1>2, <1>3, <1>4, <1>5, <1>6

(* Cancelling an open, unlocked order, with or without ending the job of   *)
(* the worker that asked for it.                                           *)
LEMMA CancelStep ==
    ASSUME IInv, NEW o \in Orders, lock[o] = NoOne, IsAwaitingPayment(o),
           NEW why \in {"EXPIRED", "PAYMENT_FAILED", "CANCELLED_BY_USER"},
           CancelWith(o, why), JobsEnd,
           \A v \in Workers : job'[v] # job[v] => job[v].order = o,
           UNCHANGED <<lock, orderAge, resAge, reservation, payment, attempts, asked, keyed, faultCount>>
    PROVE  IInv'
<1> USE DEF IInv
<1>1. /\ status' = [status EXCEPT ![o] = "CANCELLED"]
      /\ reason' = [reason EXCEPT ![o] = why]
      /\ WriteOutbox(o, {"cancelled"}) /\ BumpVersion(o)
    BY DEF CancelWith
<1>2. /\ events' \in [Orders -> [Topics -> Nat]]
      /\ \A q \in Orders : q # o => events'[q] = events[q]
      /\ \A t \in Topics : events'[o][t] = events[o][t] + (IF t \in {"cancelled"} THEN 1 ELSE 0)
    BY <1>1, OutboxGrows
<1>3. /\ status' \in [Orders -> Statuses] /\ reason' \in [Orders -> CancelReasons]
      /\ status'[o] = "CANCELLED" /\ reason'[o] = why
      /\ \A q \in Orders : q # o => status'[q] = status[q] /\ reason'[q] = reason[q]
    BY <1>1 DEF TypeOK, Statuses, CancelReasons
<1>4. \A v \in Workers : ~(job[v].pc \in Locking /\ job[v].order = o)
    BY SetsAssumption DEF LockHeld
<1>5. /\ \A w \in Workers : At(w, "idle")' <=> OrderOf(w)' = NoOrder
      /\ \A p \in Orders : lock'[p] # NoOne =>
            job'[lock'[p]].order = p /\ job'[lock'[p]].pc \in Locking
      /\ fresh' \subseteq Workers
      /\ LockHeld' /\ FreshIsOpen' /\ SoldBeforeComplete'
  <2>1. /\ lock' \in [Orders -> Workers \cup {NoOne}] /\ lock'[o] = NoOne
        /\ \A p \in Orders : p # o => lock'[p] = lock[p] /\ status'[p] = status[p]
    BY <1>3 DEF TypeOK
  <2> QED BY <1>1, <1>4, <2>1, RowWritten
<1>6. TypeOK'
    BY <1>2, <1>3, <1>5 DEF TypeOK, JobsEnd
<1>7. OneOutcome'
    BY <1>2, <1>3 DEF OneOutcome, Topics, IsAwaitingPayment
<1>8. CompleteIsSold' /\ PaidExists'
    BY <1>3 DEF CompleteIsSold, PaidExists, OneOutcome, IsAwaitingPayment
<1> QED BY <1>5, <1>6, <1>7, <1>8

(* The job of a worker ends.                                               *)
LEMMA OneJobEnds ==
    ASSUME TypeOK, NEW w \in Workers, Done(w)
    PROVE  /\ JobsEnd /\ job'[w].pc = "idle"
           /\ \A v \in Workers : v # w => job'[v] = job[v]
<1>1. /\ job' \in [Workers -> [pc : Labels, order : Orders \cup {NoOrder}]]
      /\ job'[w].pc = "idle" /\ job'[w].order = NoOrder
      /\ \A v \in Workers : v # w => job'[v] = job[v]
    BY JobMoves DEF Done, IdleJob, Labels
<1>2. JobsEnd
    BY <1>1, Zenon DEF JobsEnd
<1> QED BY <1>1, <1>2

(* No job ends.                                                            *)
LEMMA NoJobEnds == ASSUME TypeOK, job' = job PROVE JobsEnd
<1>1. job' \in [Workers -> [pc : Labels, order : Orders \cup {NoOrder}]]
    BY DEF TypeOK
<1> QED BY <1>1, Zenon DEF JobsEnd

(* cancelOrder and markPaymentFailed commit under the version they read.   *)
LEMMA CommitCancelStep ==
    ASSUME IInv, NEW w \in Workers, CommitCancel(w) \/ CommitPaymentFailed(w)
    PROVE  IInv'
<1> DEFINE o == OrderOf(w)
<1>1. w \in fresh /\ ~At(w, "idle") /\ lock[o] = NoOne /\ Done(w)
    BY DEF CommitCancel, CommitPaymentFailed, Writable, VersionMatches, At
<1>2. o \in Orders /\ IsAwaitingPayment(o)
    BY <1>1, BusyOrder DEF IInv, FreshIsOpen, OrderOf
<1>3. PICK why \in {"EXPIRED", "PAYMENT_FAILED", "CANCELLED_BY_USER"} : CancelWith(o, why)
    BY DEF CommitCancel, CommitPaymentFailed
<1>4. UNCHANGED <<lock, orderAge, resAge, reservation, payment, attempts, asked, keyed, faultCount>>
    BY DEF CommitCancel, CommitPaymentFailed, ages, calls
<1>5. JobsEnd /\ \A v \in Workers : job'[v] # job[v] => job[v].order = o
    BY <1>1, OneJobEnds DEF IInv, OrderOf
<1> QED BY <1>1, <1>2, <1>3, <1>4, <1>5, CancelStep

(* expireOrder, from the consumer, a reader or the sweep.                  *)
LEMMA ExpireStep ==
    ASSUME IInv, NEW o \in Orders, Expire(o)
    PROVE  IInv'
<1>1. IsAwaitingPayment(o)
    BY DEF Expire, IInv, TypeOK, Statuses, IsTerminal, IsAwaitingPayment
<1>2. /\ lock[o] = NoOne /\ CancelWith(o, "EXPIRED")
      /\ UNCHANGED <<job, lock, orderAge, resAge, reservation, payment, attempts, asked, keyed, faultCount>>
    BY DEF Expire, ages, calls
<1>3. JobsEnd
    BY <1>2, NoJobEnds DEF IInv
<1> QED BY <1>1, <1>2, <1>3, CancelStep

(* markAwaitingPayment commits under the version it read.                  *)
LEMMA AwaitStep ==
    ASSUME IInv, NEW w \in Workers, CommitAwaiting(w)
    PROVE  IInv'
<1> USE DEF IInv
<1> DEFINE o == OrderOf(w)
<1>1. w \in fresh /\ ~At(w, "idle") /\ lock[o] = NoOne /\ Done(w)
    BY DEF CommitAwaiting, Writable, VersionMatches, At
<1>2. o \in Orders /\ IsAwaitingPayment(o)
    BY <1>1, BusyOrder DEF FreshIsOpen, OrderOf
<1>3. /\ UNCHANGED <<reason, events, lock, orderAge, resAge, reservation, payment, attempts,
                     asked, keyed, faultCount>>
      /\ status' = [status EXCEPT ![o] = "AWAITING_PAYMENT"] /\ BumpVersion(o)
    BY DEF CommitAwaiting, ages, calls
<1>4. JobsEnd /\ \A v \in Workers : job'[v] # job[v] => job[v].order = o
    BY <1>1, OneJobEnds DEF OrderOf
<1>5. /\ status' \in [Orders -> Statuses] /\ status'[o] = "AWAITING_PAYMENT"
      /\ \A q \in Orders : q # o => status'[q] = status[q]
    BY <1>2, <1>3 DEF TypeOK, Statuses
<1>6. \A v \in Workers : ~(job[v].pc \in Locking /\ job[v].order = o)
    BY <1>1, SetsAssumption DEF LockHeld
<1>7. /\ \A v \in Workers : At(v, "idle")' <=> OrderOf(v)' = NoOrder
      /\ \A p \in Orders : lock'[p] # NoOne =>
            job'[lock'[p]].order = p /\ job'[lock'[p]].pc \in Locking
      /\ fresh' \subseteq Workers
      /\ LockHeld' /\ FreshIsOpen' /\ SoldBeforeComplete'
  <2>1. /\ lock' \in [Orders -> Workers \cup {NoOne}] /\ lock'[o] = NoOne
        /\ \A p \in Orders : p # o => lock'[p] = lock[p] /\ status'[p] = status[p]
    BY <1>1, <1>3, <1>5 DEF TypeOK
  <2> QED BY <1>2, <1>3, <1>4, <1>6, <2>1, RowWritten
<1>8. TypeOK'
    BY <1>3, <1>4, <1>5, <1>7 DEF TypeOK, JobsEnd
<1>9. OneOutcome' /\ CompleteIsSold' /\ PaidExists'
    BY <1>2, <1>3, <1>5 DEF OneOutcome, CompleteIsSold, PaidExists, IsAwaitingPayment
<1> QED BY <1>7, <1>8, <1>9

(* A captured payment finds its order cancelled.                           *)
LEMMA UnfulfillableStep ==
    ASSUME IInv, NEW o \in Orders, MarkUnfulfillable(o)
    PROVE  IInv'
<1> USE DEF IInv
<1>1. /\ lock[o] = NoOne /\ reason' = [reason EXCEPT ![o] = "UNFULFILLABLE_REFUNDED"]
      /\ WriteOutbox(o, {"unfulfillable"}) /\ BumpVersion(o)
      /\ UNCHANGED <<status, lock, orderAge, resAge, reservation, payment, attempts, asked, keyed,
                     job, faultCount>>
    BY DEF MarkUnfulfillable, ages, calls
<1>2. status[o] = "CANCELLED" /\ reason[o] # "UNFULFILLABLE_REFUNDED"
    BY DEF MarkUnfulfillable, AlreadySettled, IsAwaitingPayment, TypeOK, Statuses
<1>3. /\ events' \in [Orders -> [Topics -> Nat]]
      /\ \A q \in Orders : q # o => events'[q] = events[q]
      /\ \A t \in Topics : events'[o][t] = events[o][t] + (IF t \in {"unfulfillable"} THEN 1 ELSE 0)
    BY <1>1, OutboxGrows
<1>4. /\ reason' \in [Orders -> CancelReasons] /\ reason'[o] = "UNFULFILLABLE_REFUNDED"
      /\ \A q \in Orders : q # o => reason'[q] = reason[q]
    BY <1>1 DEF TypeOK, CancelReasons
<1>5. JobsEnd
    BY <1>1, NoJobEnds
<1>6. /\ \A v \in Workers : At(v, "idle")' <=> OrderOf(v)' = NoOrder
      /\ \A p \in Orders : lock'[p] # NoOne =>
            job'[lock'[p]].order = p /\ job'[lock'[p]].pc \in Locking
      /\ fresh' \subseteq Workers
      /\ LockHeld' /\ FreshIsOpen' /\ SoldBeforeComplete'
  <2>1. /\ lock' \in [Orders -> Workers \cup {NoOne}] /\ lock'[o] = NoOne
        /\ \A p \in Orders : p # o => lock'[p] = lock[p] /\ status'[p] = status[p]
    BY <1>1 DEF TypeOK
  <2>2. \A v \in Workers : ~(job[v].pc \in Locking /\ job[v].order = o)
    BY <1>1, SetsAssumption DEF LockHeld
  <2> QED BY <1>1, <1>5, <2>1, <2>2, RowWritten
<1>7. TypeOK'
    BY <1>1, <1>3, <1>4, <1>6 DEF TypeOK
<1>8. OneOutcome'
    BY <1>1, <1>2, <1>3, <1>4 DEF OneOutcome, Topics
<1>9. CompleteIsSold' /\ PaidExists'
    BY <1>1, <1>4 DEF CompleteIsSold, PaidExists
<1> QED BY <1>6, <1>7, <1>8, <1>9

(* markComplete locks the row of an open order.                            *)
LEMMA LockStep ==
    ASSUME IInv, NEW w \in Workers, NEW o \in Orders, LockRow(w, o)
    PROVE  IInv'
<1> USE DEF IInv, row, ages, calls
<1>1. /\ job[w].pc = "idle" /\ IsAwaitingPayment(o) /\ lock[o] = NoOne
      /\ lock' = [lock EXCEPT ![o] = w] /\ job' = [job EXCEPT ![w] = Job("finalize", o)]
      /\ UNCHANGED <<status, reason, events, orderAge, resAge, reservation, payment, attempts,
                     asked, keyed, fresh, faultCount>>
    BY DEF LockRow, Become, At
<1>2. payment[o] = "captured"
    BY <1>1 DEF LockRow, CapturedDelivered, PaidExists, OneOutcome, IsAwaitingPayment
<1>3. /\ job' \in [Workers -> [pc : Labels, order : Orders \cup {NoOrder}]]
      /\ job'[w].pc = "finalize" /\ job'[w].order = o
      /\ \A v \in Workers : v # w => job'[v] = job[v]
    BY <1>1, JobMoves DEF Labels
<1>4. \A p \in Orders : lock[p] # w
  <2> SUFFICES ASSUME NEW p \in Orders, lock[p] = w PROVE FALSE
    OBVIOUS
  <2>1. job[w].pc \in Locking
    BY SetsAssumption DEF TypeOK
  <2> QED BY <2>1, <1>1 DEF Locking
<1>5. TypeOK'
    BY <1>1, <1>3, <1>4, SetsAssumption DEF TypeOK, At, OrderOf, Locking
<1>6. OneOutcome' /\ CompleteIsSold' /\ PaidExists'
    BY <1>1 DEF OneOutcome, CompleteIsSold, PaidExists
<1>7. LockHeld'
  <2> SUFFICES ASSUME NEW v \in Workers, job'[v].pc \in Locking
               PROVE  /\ lock'[job'[v].order] = v
                      /\ status[job'[v].order] \in {"CREATED", "AWAITING_PAYMENT"}
                      /\ payment[job'[v].order] = "captured"
    BY <1>1 DEF LockHeld, IsAwaitingPayment
  <2>1. CASE v = w
    BY <2>1, <1>1, <1>2, <1>3 DEF TypeOK, IsAwaitingPayment
  <2>2. CASE v # w
    <3>1. job'[v] = job[v] /\ job[v].order \in Orders /\ lock[job[v].order] = v
      BY <2>2, <1>3 DEF LockHeld, TypeOK, At, OrderOf, Locking
    <3>2. job[v].order # o
      BY <3>1, <1>1, SetsAssumption
    <3> QED BY <3>1, <3>2, <1>1 DEF LockHeld, TypeOK, IsAwaitingPayment
  <2> QED BY <2>1, <2>2
<1>8. FreshIsOpen' /\ SoldBeforeComplete'
    BY <1>1, <1>3 DEF FreshIsOpen, SoldBeforeComplete, IsAwaitingPayment, TypeOK
<1> QED BY <1>5, <1>6, <1>7, <1>8

(* The owner's answer to the finalize call.                                *)
LEMMA FinalizeStep ==
    ASSUME IInv, NEW w \in Workers, Finalize(w) \/ FinalizeRefused(w)
    PROVE  IInv'
<1> USE DEF IInv, row, ages, calls
<1> DEFINE o == OrderOf(w)
<1>0. job[w].pc = "finalize" /\ o \in Orders /\ o = job[w].order
    BY BusyOrder DEF Finalize, FinalizeRefused, At, OrderOf
<1>1. PICK pc \in {"complete", "refuse"} :
         /\ job' = [job EXCEPT ![w] = Job(pc, o)]
         /\ pc = "complete" => FinalizeWrite(o)
         /\ pc = "refuse" => UNCHANGED reservation
    BY DEF Finalize, FinalizeRefused, Goto, Become
<1>2. UNCHANGED <<status, reason, events, lock, orderAge, resAge, payment, attempts,
                  asked, keyed, fresh, faultCount>>
    BY DEF Finalize, FinalizeRefused
<1>3. /\ job' \in [Workers -> [pc : Labels, order : Orders \cup {NoOrder}]]
      /\ job'[w].pc = pc /\ job'[w].order = o
      /\ \A v \in Workers : v # w => job'[v] = job[v]
    BY <1>0, <1>1, JobMoves DEF Labels
<1>4. /\ reservation' \in [Orders -> {"NONE", "RESERVED", "RELEASED", "SOLD"}]
      /\ \A p \in Orders : reservation[p] = "SOLD" => reservation'[p] = "SOLD"
      /\ pc = "complete" => reservation'[o] = "SOLD"
    BY <1>0, <1>1 DEF FinalizeWrite, TypeOK
<1>5. TypeOK'
  <2>1. \A p \in Orders : lock'[p] # NoOne =>
           job'[lock'[p]].order = p /\ job'[lock'[p]].pc \in Locking
    BY <1>0, <1>2, <1>3 DEF TypeOK, Locking
  <2>2. \A v \in Workers : At(v, "idle")' <=> OrderOf(v)' = NoOrder
    <3>1. ~(At(w, "idle")') /\ OrderOf(w)' # NoOrder
      BY <1>0, <1>3, SetsAssumption DEF At, OrderOf
    <3>2. \A v \in Workers : v # w => (At(v, "idle")' <=> OrderOf(v)' = NoOrder)
      BY <1>3 DEF TypeOK, At, OrderOf
    <3> QED BY <3>1, <3>2
  <2> QED BY <1>2, <1>3, <1>4, <2>1, <2>2 DEF TypeOK
<1>6. OneOutcome' /\ CompleteIsSold' /\ PaidExists'
    BY <1>2, <1>4 DEF OneOutcome, CompleteIsSold, PaidExists
<1>7. LockHeld'
    BY <1>0, <1>2, <1>3 DEF LockHeld, Locking, IsAwaitingPayment
<1>8. FreshIsOpen'
    BY <1>0, <1>2, <1>3 DEF FreshIsOpen, IsAwaitingPayment, TypeOK
<1>9. SoldBeforeComplete'
  <2> SUFFICES ASSUME NEW v \in Workers, job'[v].pc = "complete"
               PROVE  reservation'[job'[v].order] = "SOLD"
    BY DEF SoldBeforeComplete
  <2>1. CASE v = w
    BY <2>1, <1>3, <1>4
  <2>2. CASE v # w
    <3>1. job'[v] = job[v] /\ job[v].order \in Orders
      BY <2>2, <1>3, BusyOrder DEF At, OrderOf
    <3> QED BY <3>1, <1>4 DEF SoldBeforeComplete
  <2> QED BY <2>1, <2>2
<1> QED BY <1>5, <1>6, <1>7, <1>8, <1>9

(* markComplete commits: completed, or cancelled and unfulfillable.        *)
LEMMA SettleStep ==
    ASSUME IInv, NEW w \in Workers, Complete(w) \/ Refuse(w)
    PROVE  IInv'
<1> USE DEF IInv
<1> DEFINE o == OrderOf(w)
<1>0. /\ job[w].pc \in {"complete", "refuse"} /\ o \in Orders /\ o = job[w].order
      /\ IsAwaitingPayment(o) /\ lock[o] = w
    BY BusyOrder DEF Complete, Refuse, At, OrderOf, LockHeld, Locking
<1>1. /\ BumpVersion(o) /\ lock' = [lock EXCEPT ![o] = NoOne] /\ Done(w)
      /\ UNCHANGED <<orderAge, resAge, reservation, payment, attempts, asked, keyed, faultCount>>
    BY DEF Complete, Refuse, ages, calls
<1>2. PICK new \in Statuses, why \in CancelReasons, topics \in SUBSET Topics :
         /\ status' = [status EXCEPT ![o] = new] /\ reason' = [reason EXCEPT ![o] = why]
         /\ WriteOutbox(o, topics)
         /\ \/ /\ new = "COMPLETE" /\ why = "none" /\ topics = {"completed"}
               /\ reservation[o] = "SOLD"
            \/ /\ new = "CANCELLED" /\ why = "UNFULFILLABLE_REFUNDED"
               /\ topics = {"cancelled", "unfulfillable"}
  <2>1. CASE Complete(w)
    <3>1. reason[o] = "none" /\ reservation[o] = "SOLD"
      BY <2>1, <1>0 DEF OneOutcome, IsAwaitingPayment, Complete, At, SoldBeforeComplete
    <3>2. reason' = [reason EXCEPT ![o] = "none"]
      BY <2>1, <3>1, <1>0 DEF Complete, TypeOK
    <3>3. WriteOutbox(o, {"completed"}) /\ status' = [status EXCEPT ![o] = "COMPLETE"]
      BY <2>1 DEF Complete
    <3> QED BY <3>1, <3>2, <3>3 DEF Statuses, CancelReasons, Topics
  <2>2. CASE Refuse(w)
    BY <2>2 DEF Refuse, Statuses, CancelReasons, Topics
  <2> QED BY <2>1, <2>2
<1>3. /\ events' \in [Orders -> [Topics -> Nat]]
      /\ \A q \in Orders : q # o => events'[q] = events[q]
      /\ \A t \in Topics : events'[o][t] = events[o][t] + (IF t \in topics THEN 1 ELSE 0)
    BY <1>0, <1>2, OutboxGrows
<1>4. /\ status' \in [Orders -> Statuses] /\ reason' \in [Orders -> CancelReasons]
      /\ status'[o] = new /\ reason'[o] = why
      /\ \A q \in Orders : q # o => status'[q] = status[q] /\ reason'[q] = reason[q]
    BY <1>0, <1>2 DEF TypeOK
<1>5. /\ JobsEnd /\ job'[w].pc = "idle"
      /\ \A v \in Workers : v # w => job'[v] = job[v]
    BY <1>1, OneJobEnds
<1>6. /\ \A v \in Workers : At(v, "idle")' <=> OrderOf(v)' = NoOrder
      /\ \A p \in Orders : lock'[p] # NoOne =>
            job'[lock'[p]].order = p /\ job'[lock'[p]].pc \in Locking
      /\ fresh' \subseteq Workers
      /\ LockHeld' /\ FreshIsOpen' /\ SoldBeforeComplete'
  <2>1. /\ lock' \in [Orders -> Workers \cup {NoOne}] /\ lock'[o] = NoOne
        /\ \A p \in Orders : p # o => lock'[p] = lock[p] /\ status'[p] = status[p]
    BY <1>0, <1>1, <1>4 DEF TypeOK
  <2>2. \A v \in Workers : (job[v].pc \in Locking /\ job[v].order = o) => job'[v].pc = "idle"
    BY <1>0, <1>5 DEF LockHeld
  <2>3. \A v \in Workers : job'[v] # job[v] => job[v].order = o
    BY <1>0, <1>5
  <2> QED BY <1>0, <1>1, <1>5, <2>1, <2>2, <2>3, RowWritten
<1>7. TypeOK'
    BY <1>0, <1>1, <1>3, <1>4, <1>5, <1>6 DEF TypeOK, JobsEnd
<1>8. OneOutcome'
    BY <1>0, <1>2, <1>3, <1>4 DEF OneOutcome, Topics, IsAwaitingPayment
<1>9. CompleteIsSold' /\ PaidExists'
    BY <1>0, <1>1, <1>2, <1>4 DEF CompleteIsSold, PaidExists, OneOutcome, IsAwaitingPayment
<1> QED BY <1>6, <1>7, <1>8, <1>9

(* A rolled back transaction, or the death of a worker: its job ends, its  *)
(* locks are freed, and a reservation it has sold stays sold.              *)
LEMMA RollbackStep ==
    ASSUME IInv, NEW w \in Workers, Done(w),
           lock' \in [Orders -> Workers \cup {NoOne}],
           \A p \in Orders : lock'[p] = (IF lock[p] = w THEN NoOne ELSE lock[p]),
           fresh' = fresh \ {w},
           reservation' \in [Orders -> {"NONE", "RESERVED", "RELEASED", "SOLD"}],
           \A p \in Orders : reservation[p] = "SOLD" => reservation'[p] = "SOLD",
           UNCHANGED <<status, reason, events, orderAge, resAge, payment, asked, keyed>>,
           attempts' \in [Orders -> Nat], faultCount' \in 0..MaxFaults
    PROVE  IInv'
<1> USE DEF IInv
<1>1. /\ job' \in [Workers -> [pc : Labels, order : Orders \cup {NoOrder}]]
      /\ job'[w].pc = "idle" /\ job'[w].order = NoOrder
      /\ \A v \in Workers : v # w => job'[v] = job[v]
    BY JobMoves DEF Labels, Done, IdleJob
<1>2. TypeOK'
  <2>1. \A p \in Orders : lock'[p] # NoOne =>
           job'[lock'[p]].order = p /\ job'[lock'[p]].pc \in Locking
    BY <1>1 DEF TypeOK
  <2>2. \A v \in Workers : At(v, "idle")' <=> OrderOf(v)' = NoOrder
    <3>1. \A v \in Workers : job[v].pc = "idle" <=> job[v].order = NoOrder
      BY DEF TypeOK, At, OrderOf
    <3> QED BY <1>1, <3>1 DEF At, OrderOf
  <2> QED BY <1>1, <2>1, <2>2 DEF TypeOK
<1>3. OneOutcome' /\ CompleteIsSold' /\ PaidExists'
    BY DEF OneOutcome, CompleteIsSold, PaidExists
<1>4. FreshIsOpen'
    BY <1>1 DEF FreshIsOpen, IsAwaitingPayment, TypeOK
<1>5. ASSUME NEW v \in Workers, job'[v].pc \in Locking
      PROVE  v # w /\ job'[v] = job[v] /\ job[v].order \in Orders
    BY <1>1, <1>5 DEF TypeOK, At, OrderOf, Locking
<1>6. LockHeld'
    BY <1>5 DEF LockHeld, IsAwaitingPayment
<1>7. SoldBeforeComplete'
    BY <1>5 DEF SoldBeforeComplete, Locking
<1> QED BY <1>2, <1>3, <1>4, <1>6, <1>7

(* The three ways a delivery of a captured payment fails, and a crash.     *)
LEMMA FailureStep ==
    ASSUME IInv, NEW w \in Workers,
           FinalizeFails(w) \/ FinalizeLost(w) \/ CommitFails(w) \/ Crash(w)
    PROVE  IInv'
<1> USE DEF IInv
<1>1. /\ Done(w) /\ faultCount' \in 0..MaxFaults
      /\ UNCHANGED <<status, reason, events, orderAge, resAge, payment, asked, keyed>>
    BY TimesAssumption DEF FinalizeFails, FinalizeLost, CommitFails, Crash, DeliveryFails, Fault,
       TypeOK, row, ages, calls
<1>2. /\ reservation' \in [Orders -> {"NONE", "RESERVED", "RELEASED", "SOLD"}]
      /\ \A p \in Orders : reservation[p] = "SOLD" => reservation'[p] = "SOLD"
    BY DEF FinalizeFails, FinalizeLost, CommitFails, Crash, FinalizeWrite, TypeOK
<1>3. attempts' \in [Orders -> Nat]
  <2>1. CASE Crash(w)
    BY <2>1 DEF Crash, TypeOK
  <2>2. ASSUME NEW p, attempts' = [attempts EXCEPT ![p] = @ + 1], p \in Orders
        PROVE  attempts' \in [Orders -> Nat]
    BY <2>2 DEF TypeOK
  <2>3. CASE FinalizeFails(w) \/ FinalizeLost(w) \/ CommitFails(w)
    BY <2>2, <2>3, BusyOrder DEF FinalizeFails, FinalizeLost, CommitFails, DeliveryFails, At
  <2> QED BY <2>1, <2>3
<1>4. /\ lock' \in [Orders -> Workers \cup {NoOne}]
      /\ \A p \in Orders : lock'[p] = (IF lock[p] = w THEN NoOne ELSE lock[p])
      /\ fresh' = fresh \ {w}
  <2>1. CASE Crash(w)
    BY <2>1 DEF Crash, TypeOK
  <2>2. CASE FinalizeFails(w) \/ FinalizeLost(w) \/ CommitFails(w)
    <3>1. job[w].pc \in Locking /\ DeliveryFails(w)
      BY <2>2 DEF FinalizeFails, FinalizeLost, CommitFails, At, Locking
    <3>2. /\ OrderOf(w) \in Orders /\ lock[OrderOf(w)] = w
          /\ w \notin fresh
      BY <3>1, BusyOrder DEF LockHeld, FreshIsOpen, Locking, At, OrderOf
    <3>3. \A p \in Orders : lock[p] = w => p = OrderOf(w)
      BY SetsAssumption DEF TypeOK, OrderOf
    <3> QED BY <3>1, <3>2, <3>3 DEF DeliveryFails, TypeOK
  <2> QED BY <2>1, <2>2
<1> QED BY <1>1, <1>2, <1>3, <1>4, RollbackStep

(* The other services and time touch neither rows nor jobs.                *)
LEMMA OutsideSteps ==
    ASSUME IInv, Tick \/ \E o \in Orders : OutsideStep(o)
    PROVE  IInv'
<1> USE DEF IInv, row, ages, calls
<1>1. UNCHANGED <<status, reason, events, lock, attempts, asked, keyed, job, fresh, faultCount>>
    BY DEF Tick, OutsideStep, Charge, Capture, Decline, Refund, ReleaseCancelled, ReclaimExpired
<1>2. /\ orderAge' \in [Orders -> Nat] /\ resAge' \in [Orders -> Nat]
  <2>1. CASE Tick
    BY <2>1 DEF Tick, Older, TypeOK
  <2>2. CASE \E o \in Orders : OutsideStep(o)
    BY <2>2 DEF OutsideStep, Charge, Capture, Decline, Refund, ReleaseCancelled, ReclaimExpired, TypeOK
  <2> QED BY <2>1, <2>2
<1>3. /\ reservation' \in [Orders -> {"NONE", "RESERVED", "RELEASED", "SOLD"}]
      /\ \A p \in Orders : reservation[p] = "SOLD" => reservation'[p] = "SOLD"
  <2>1. CASE UNCHANGED reservation
    BY <2>1 DEF TypeOK
  <2>2. ASSUME NEW o \in Orders, reservation' = Released(o) PROVE <1>3
    BY <2>2 DEF Released, TypeOK
  <2> QED BY <2>1, <2>2
    DEF Tick, OutsideStep, Charge, Capture, Decline, Refund, ReleaseCancelled, ReclaimExpired
<1>4. /\ payment' \in [Orders -> {"none", "pending", "captured", "failed", "refunded"}]
      /\ \A p \in Orders :
            /\ payment[p] = "captured" => payment'[p] = "captured" \/ events[p]["unfulfillable"] > 0
            /\ payment'[p] # "none" => payment[p] # "none" \/ status[p] # "NONE"
            /\ payment'[p] = "refunded" => payment[p] = "refunded" \/ events[p]["unfulfillable"] > 0
  <2>1. CASE UNCHANGED payment
    BY <2>1 DEF TypeOK
  <2>2. ASSUME NEW o \in Orders, Charge(o) PROVE <1>4
    BY <2>2 DEF Charge, IsAwaitingPayment, TypeOK
  <2>3. ASSUME NEW o \in Orders, Capture(o) \/ Decline(o) \/ Refund(o) PROVE <1>4
    BY <2>3 DEF Capture, Decline, Refund, TypeOK
  <2> QED BY <2>1, <2>2, <2>3 DEF Tick, OutsideStep, ReleaseCancelled, ReclaimExpired
<1>5. TypeOK'
    BY <1>1, <1>2, <1>3, <1>4 DEF TypeOK, At, OrderOf
<1>6. OneOutcome' /\ CompleteIsSold'
    BY <1>1, <1>3 DEF OneOutcome, CompleteIsSold
<1>0. ASSUME NEW p \in Orders
      PROVE  events[p]["unfulfillable"] > 0 =>
                reason[p] = "UNFULFILLABLE_REFUNDED" /\ status[p] = "CANCELLED"
    BY DEF OneOutcome
<1>7. ASSUME NEW p \in Orders
      PROVE  /\ payment'[p] # "none" => status'[p] # "NONE"
             /\ payment'[p] = "refunded" => reason'[p] = "UNFULFILLABLE_REFUNDED"
    BY <1>0, <1>1, <1>4 DEF PaidExists
<1>8. FreshIsOpen'
    BY <1>1 DEF FreshIsOpen, IsAwaitingPayment
<1>9. ASSUME NEW v \in Workers, job[v].pc \in Locking PROVE job[v].order \in Orders
    BY <1>9 DEF TypeOK, At, OrderOf, Locking
<1>10. ASSUME NEW v \in Workers, job[v].pc \in Locking
       PROVE  payment'[job[v].order] = "captured"
  <2>1. /\ job[v].order \in Orders /\ status[job[v].order] # "CANCELLED"
        /\ payment[job[v].order] = "captured"
    BY <1>9, <1>10 DEF LockHeld, IsAwaitingPayment
  <2> QED BY <2>1, <1>0, <1>4
<1>12. LockHeld'
    BY <1>1, <1>10 DEF LockHeld, IsAwaitingPayment
<1>13. PaidExists'
    BY <1>7 DEF PaidExists
<1>11. SoldBeforeComplete'
    BY <1>1, <1>3, <1>9 DEF SoldBeforeComplete, Locking
<1> QED BY <1>5, <1>6, <1>8, <1>11, <1>12, <1>13

(* Every step preserves the inductive invariant.                           *)
LEMMA NextHolds == ASSUME IInv, [Next]_vars PROVE IInv'
<1>1. ASSUME NEW w \in Workers, NEW o \in Orders, Request(w, o) PROVE IInv'
    BY <1>1, CreateStep, ReadStep, LockStep DEF Request
<1>2. ASSUME NEW w \in Workers, WorkerStep(w) PROVE IInv'
    BY <1>2, CreateStep, InsertStep, CommitCancelStep, AwaitStep, ConflictStep, FinalizeStep,
       SettleStep DEF WorkerStep
<1>3. ASSUME NEW w \in Workers, FaultStep(w) PROVE IInv'
    BY <1>3, CreateStep, InsertStep, FailureStep DEF FaultStep
<1>4. ASSUME NEW o \in Orders, RowStep(o) PROVE IInv'
    BY <1>4, UnfulfillableStep, ExpireStep DEF RowStep, OnExpirationComplete, GetOrderExpires, Sweep
<1>5. CASE UNCHANGED vars
    BY <1>5 DEF vars, IInv, TypeOK, OneOutcome, CompleteIsSold, LockHeld, FreshIsOpen,
       SoldBeforeComplete, PaidExists, At, OrderOf, IsAwaitingPayment
<1> QED BY <1>1, <1>2, <1>3, <1>4, <1>5, OutsideSteps DEF Next

LEMMA Invariance == Spec => []IInv
BY InitHolds, NextHolds, PTL DEF Spec

(* Every variable of the order saga keeps its type, and only markComplete  *)
(* holds row locks.                                                        *)
THEOREM TypeCorrect == Spec => []TypeOK
BY Invariance, PTL DEF IInv

(* Whoever races for the row of an order, and whatever fails, the row and  *)
(* the events written for it agree on one outcome.                         *)
THEOREM OutcomeIsOne == Spec => []OneOutcome
BY Invariance, PTL DEF IInv

(* An order is never COMPLETE without its reservation being SOLD.          *)
THEOREM CompleteHasTickets == Spec => []CompleteIsSold
BY Invariance, PTL DEF IInv

-----------------------------------------------------------------------------
(* The refinement of PurchaseContract.  Its argument: what one step does   *)
(* to the parts of the state a buyer sees.                                 *)

Owing(o) == events[o]["unfulfillable"]
Others(o) ==
    \A p \in Orders : p # o => /\ status'[p] = status[p] /\ reason'[p] = reason[p]
                              /\ payment'[p] = payment[p] /\ Owing(p)' = Owing(p)

Opened(o) ==
    /\ status[o] = "NONE" /\ status'[o] = "CREATED" /\ reason'[o] = reason[o]
    /\ payment'[o] = payment[o] /\ Owing(o)' = Owing(o)
Awaited(o) ==
    /\ IsAwaitingPayment(o) /\ status'[o] = "AWAITING_PAYMENT" /\ reason'[o] = reason[o]
    /\ payment'[o] = payment[o] /\ Owing(o)' = Owing(o)
Cancelled(o) ==
    /\ IsAwaitingPayment(o) /\ status'[o] = "CANCELLED"
    /\ reason'[o] # "UNFULFILLABLE_REFUNDED"
    /\ payment'[o] = payment[o] /\ Owing(o)' = Owing(o)
Completed(o) ==
    /\ IsAwaitingPayment(o) /\ status'[o] = "COMPLETE" /\ reason'[o] = reason[o]
    /\ payment[o] = "captured" /\ payment'[o] = payment[o] /\ Owing(o)' = Owing(o)
Owed(o) ==
    /\ status[o] # "NONE" /\ status[o] # "COMPLETE" /\ status'[o] = "CANCELLED"
    /\ reason[o] # "UNFULFILLABLE_REFUNDED" /\ reason'[o] = "UNFULFILLABLE_REFUNDED"
    /\ payment[o] = "captured" /\ payment'[o] = payment[o] /\ Owing(o)' = Owing(o) + 1
Moved(o) ==
    /\ status'[o] = status[o] /\ reason'[o] = reason[o] /\ Owing(o)' = Owing(o)
    /\ \/ payment[o] = "none" /\ payment'[o] = "pending"
       \/ payment[o] = "pending" /\ payment'[o] \in {"captured", "failed"}
       \/ payment[o] = "captured" /\ payment'[o] = "refunded" /\ Owing(o) > 0

Effect(o) ==
    /\ Others(o)
    /\ Opened(o) \/ Awaited(o) \/ Cancelled(o) \/ Completed(o) \/ Owed(o) \/ Moved(o)
NoEffect == UNCHANGED <<status, reason, payment, events>>

(* A payment is refunded, or about to be, only after its capture.          *)
OwedWasPaid ==
    \A o \in Orders :
        reason[o] = "UNFULFILLABLE_REFUNDED" => payment[o] \in {"captured", "refunded"}

(* An outbox write and a row write are about one order.                    *)
LEMMA OwingGrows ==
    ASSUME TypeOK, NEW o \in Orders, NEW topics, WriteOutbox(o, topics)
    PROVE  /\ \A p \in Orders : p # o => Owing(p)' = Owing(p)
           /\ Owing(o)' = Owing(o) + (IF "unfulfillable" \in topics THEN 1 ELSE 0)
BY OutboxGrows DEF Owing, Topics

LEMMA CancelEffect ==
    ASSUME IInv, NEW o \in Orders, NEW why \in CancelReasons \ {"UNFULFILLABLE_REFUNDED"},
           CancelWith(o, why), IsAwaitingPayment(o), UNCHANGED payment
    PROVE  Effect(o)
<1> USE DEF IInv
<1>1. Owing(o) \in Nat
    BY DEF Owing, TypeOK, Topics
<1>2. /\ \A p \in Orders : p # o => Owing(p)' = Owing(p)
      /\ Owing(o)' = Owing(o)
    BY <1>1, OwingGrows DEF CancelWith
<1> QED BY <1>2 DEF CancelWith, Effect, Others, Cancelled, TypeOK

LEMMA WorkerEffect ==
    ASSUME IInv, NEW w \in Workers, WorkerStep(w) \/ FaultStep(w)
    PROVE  NoEffect \/ \E o \in Orders : Effect(o)
<1> USE DEF IInv, row, ages, calls
<1>0. PICK o : o = OrderOf(w)
    OBVIOUS
<1>1. CASE Insert(w) \/ TxLost(w)
  <2>1. o \in Orders /\ InsertRow(o) /\ UNCHANGED <<reason, payment>>
    BY <1>0, <1>1, BusyOrder DEF Insert, TxLost, At
  <2>2. Owing(o) \in Nat
    BY <2>1 DEF Owing, TypeOK, Topics
  <2>3. (\A p \in Orders : p # o => Owing(p)' = Owing(p)) /\ Owing(o)' = Owing(o)
    BY <2>1, <2>2, OwingGrows DEF InsertRow
  <2>4. Effect(o)
    BY <2>1, <2>3 DEF InsertRow, Effect, Others, Opened, TypeOK
  <2> QED BY <2>1, <2>4
<1>2. CASE CommitCancel(w) \/ CommitPaymentFailed(w)
  <2>1. PICK why \in {"CANCELLED_BY_USER", "PAYMENT_FAILED"} :
          o \in Orders /\ CancelWith(o, why) /\ w \in fresh /\ UNCHANGED payment
    BY <1>0, <1>2, BusyOrder DEF CommitCancel, CommitPaymentFailed, Writable, At, VersionMatches
  <2>2. IsAwaitingPayment(o)
    BY <1>0, <2>1 DEF FreshIsOpen, OrderOf
  <2>3. Effect(o)
    BY <2>1, <2>2, CancelEffect DEF CancelReasons
  <2> QED BY <2>1, <2>3
<1>3. CASE CommitAwaiting(w)
  <2>1. /\ o \in Orders /\ w \in fresh /\ UNCHANGED <<reason, payment, events>>
        /\ status' = [status EXCEPT ![o] = "AWAITING_PAYMENT"]
    BY <1>0, <1>3, BusyOrder DEF CommitAwaiting, Writable, At, VersionMatches
  <2>2. IsAwaitingPayment(o)
    BY <1>0, <2>1 DEF FreshIsOpen, OrderOf
  <2>3. Effect(o)
    BY <2>1, <2>2 DEF Effect, Others, Awaited, Owing, TypeOK
  <2> QED BY <2>1, <2>3
<1>4. CASE Complete(w) \/ Refuse(w)
  <2>1. /\ o \in Orders /\ IsAwaitingPayment(o) /\ payment[o] = "captured" /\ UNCHANGED payment
        /\ Owing(o) \in Nat
    BY <1>0, <1>4, BusyOrder DEF Complete, Refuse, At, OrderOf, LockHeld, Locking, TypeOK, Owing, Topics
  <2>2. reason[o] = "none"
    BY <2>1 DEF OneOutcome, IsAwaitingPayment
  <2>3. CASE Complete(w)
    <3>1. (\A p \in Orders : p # o => Owing(p)' = Owing(p)) /\ Owing(o)' = Owing(o)
      BY <1>0, <2>1, <2>3, OwingGrows DEF Complete
    <3>2. Effect(o)
      BY <1>0, <2>1, <2>3, <3>1 DEF Complete, Effect, Others, Completed, TypeOK
    <3> QED BY <2>1, <3>2
  <2>4. CASE Refuse(w)
    <3>1. (\A p \in Orders : p # o => Owing(p)' = Owing(p)) /\ Owing(o)' = Owing(o) + 1
      BY <1>0, <2>1, <2>4, OwingGrows DEF Refuse
    <3>2. Effect(o)
      BY <1>0, <2>1, <2>2, <2>4, <3>1 DEF Refuse, Effect, Others, Owed, TypeOK, IsAwaitingPayment
    <3> QED BY <2>1, <3>2
  <2> QED BY <1>4, <2>3, <2>4
<1>5. CASE /\ ~(Insert(w) \/ TxLost(w)) /\ ~(CommitCancel(w) \/ CommitPaymentFailed(w))
           /\ ~CommitAwaiting(w) /\ ~(Complete(w) \/ Refuse(w))
    BY <1>5 DEF WorkerStep, FaultStep, NoEffect, Reserve, ReserveDuplicate, ReserveRefused,
       InsertDuplicate, Compensate, WriteConflict, Finalize, FinalizeRefused, Crash, ReserveLost,
       TxFail, CompensateFails, FinalizeFails, FinalizeLost, CommitFails, DeliveryFails
<1> QED BY <1>1, <1>2, <1>3, <1>4, <1>5

LEMMA StepEffect ==
    ASSUME IInv, [Next]_vars
    PROVE  NoEffect \/ \E o \in Orders : Effect(o)
<1> USE DEF IInv, row, ages, calls
<1>1. ASSUME NEW w \in Workers, NEW o \in Orders, Request(w, o) PROVE NoEffect
    BY <1>1 DEF Request, NoEffect, CreateOrder, CancelOrder, MarkAwaitingPayment,
       MarkPaymentFailed, LockRow, ReadRow
<1>2. ASSUME NEW o \in Orders, Expire(o) PROVE Effect(o)
  <2>1. IsAwaitingPayment(o) /\ CancelWith(o, "EXPIRED") /\ UNCHANGED payment
    BY <1>2 DEF Expire, IsTerminal, IsAwaitingPayment, TypeOK, Statuses
  <2> QED BY <2>1, CancelEffect DEF CancelReasons
<1>3. ASSUME NEW o \in Orders, MarkUnfulfillable(o) PROVE Effect(o)
  <2>1. /\ status[o] = "CANCELLED" /\ reason[o] # "UNFULFILLABLE_REFUNDED"
        /\ payment[o] = "captured" /\ Owing(o) \in Nat /\ UNCHANGED <<status, payment>>
    BY <1>3 DEF MarkUnfulfillable, AlreadySettled, IsAwaitingPayment, CapturedDelivered, PaidExists,
       TypeOK, Statuses, Owing, Topics
  <2>2. (\A p \in Orders : p # o => Owing(p)' = Owing(p)) /\ Owing(o)' = Owing(o) + 1
    BY <1>3, <2>1, OwingGrows DEF MarkUnfulfillable
  <2> QED BY <1>3, <2>1, <2>2 DEF MarkUnfulfillable, Effect, Others, Owed, TypeOK
<1>4. ASSUME NEW o \in Orders, Charge(o) \/ Capture(o) \/ Decline(o) \/ Refund(o) PROVE Effect(o)
    BY <1>4 DEF Charge, Capture, Decline, Refund, Effect, Others, Moved, Owing, TypeOK
<1>5. CASE UNCHANGED vars \/ Tick \/ \E o \in Orders : ReleaseCancelled(o) \/ ReclaimExpired(o)
    BY <1>5 DEF vars, Tick, ReleaseCancelled, ReclaimExpired, NoEffect
<1> QED BY <1>1, <1>2, <1>3, <1>4, <1>5, WorkerEffect
    DEF Next, RowStep, OutsideStep, OnExpirationComplete, GetOrderExpires, Sweep

LEMMA OwedStep ==
    ASSUME IInv, OwedWasPaid, [Next]_vars
    PROVE  OwedWasPaid'
<1>1. CASE NoEffect
    BY <1>1 DEF NoEffect, OwedWasPaid
<1>2. ASSUME NEW o \in Orders, Effect(o) PROVE OwedWasPaid'
    BY <1>2 DEF Effect, Others, Opened, Awaited, Cancelled, Completed, Owed, Moved, OwedWasPaid
<1> QED BY <1>1, <1>2, StepEffect

LEMMA OwedInvariance == Spec => [](IInv /\ OwedWasPaid)
<1>1. Init => OwedWasPaid
    BY DEF Init, OwedWasPaid
<1> QED BY <1>1, Invariance, OwedStep, PTL DEF Spec

(* Two functions that differ at one argument.                              *)
LEMMA OneChanges ==
    ASSUME NEW S, NEW o \in S, NEW f, NEW g, f = [p \in S |-> f[p]], g = [p \in S |-> g[p]],
           \A p \in S : p # o => g[p] = f[p]
    PROVE  g = [f EXCEPT ![o] = g[o]]
OBVIOUS

(* An effect changes the abstract state of one order only.                 *)
LEMMA MapsElsewhere ==
    ASSUME NEW o \in Orders, Others(o)
    PROVE  /\ Outcome' = [Outcome EXCEPT ![o] = Outcome'[o]]
           /\ Money' = [Money EXCEPT ![o] = Money'[o]]
<1>1. ASSUME NEW p \in Orders, p # o PROVE Outcome'[p] = Outcome[p]
    BY <1>1 DEF Others, Outcome
<1>2. ASSUME NEW p \in Orders, p # o PROVE Money'[p] = Money[p]
    BY <1>2 DEF Others, Money, Owing
<1>3. /\ Outcome = [p \in Orders |-> Outcome[p]] /\ Outcome' = [p \in Orders |-> Outcome'[p]]
    BY DEF Outcome
<1>4. /\ Money = [p \in Orders |-> Money[p]] /\ Money' = [p \in Orders |-> Money'[p]]
    BY DEF Money
<1> QED BY <1>1, <1>2, <1>3, <1>4, OneChanges

LEMMA ContractStep ==
    ASSUME IInv, OwedWasPaid, [Next]_vars
    PROVE  [Contract!Next]_<<Outcome, Money>>
<1> USE DEF IInv
<1>1. CASE NoEffect
    BY <1>1 DEF NoEffect, Outcome, Money
<1>2. ASSUME NEW o \in Orders, Effect(o) PROVE Contract!Next \/ UNCHANGED <<Outcome, Money>>
  <2>1. /\ Outcome' = [Outcome EXCEPT ![o] = Outcome'[o]]
        /\ Money' = [Money EXCEPT ![o] = Money'[o]]
    BY <1>2, MapsElsewhere DEF Effect
  <2>2. /\ Outcome = [Outcome EXCEPT ![o] = Outcome[o]]
        /\ Money = [Money EXCEPT ![o] = Money[o]]
    <3>1. Outcome = [p \in Orders |-> Outcome[p]] /\ Money = [p \in Orders |-> Money[p]]
      BY DEF Outcome, Money
    <3> QED BY <3>1, OneChanges
  <2>3. /\ Owing(o) \in Nat
        /\ reason[o] = "UNFULFILLABLE_REFUNDED" <=> Owing(o) > 0
        /\ IsAwaitingPayment(o) => Owing(o) = 0
        /\ payment[o] = "pending" => Owing(o) = 0
    BY DEF TypeOK, OneOutcome, OwedWasPaid, Owing, Topics, IsAwaitingPayment
  <2>4. CASE Opened(o)
    <3>1. Outcome[o] = "none" /\ Outcome'[o] = "open" /\ Money'[o] = Money[o]
      BY <2>4 DEF Opened, Outcome, Money, Owing
    <3> QED BY <2>1, <2>2, <3>1 DEF Contract!Next, Contract!Open
  <2>5. CASE Awaited(o)
    <3>1. Outcome'[o] = Outcome[o] /\ Money'[o] = Money[o]
      BY <2>5 DEF Awaited, Outcome, Money, Owing, IsAwaitingPayment
    <3> QED BY <2>1, <2>2, <3>1
  <2>6. CASE Cancelled(o)
    <3>1. Outcome[o] = "open" /\ Outcome'[o] = "cancelled" /\ Money'[o] = Money[o]
      BY <2>6 DEF Cancelled, Outcome, Money, Owing, IsAwaitingPayment
    <3> QED BY <2>1, <2>2, <3>1 DEF Contract!Next, Contract!Cancel
  <2>7. CASE Completed(o)
    <3>1. /\ Outcome[o] = "open" /\ Outcome'[o] = "complete"
          /\ Money[o] = "charged" /\ Money'[o] = "charged"
      BY <2>3, <2>7 DEF Completed, Outcome, Money, Owing, IsAwaitingPayment
    <3> QED BY <2>1, <2>2, <3>1 DEF Contract!Next, Contract!Complete
  <2>8. CASE Owed(o)
    <3>1. /\ Outcome[o] \in {"open", "cancelled"} /\ Outcome'[o] = "cancelled"
          /\ Money[o] = "charged" /\ Money'[o] = "due"
      BY <2>3, <2>8 DEF Owed, Outcome, Money, Owing, OneOutcome
    <3> QED BY <2>1, <2>2, <3>1 DEF Contract!Next, Contract!Refuse, Contract!Owe
  <2>9. CASE Moved(o)
    <3>1. Outcome'[o] = Outcome[o]
      BY <2>9 DEF Moved, Outcome
    <3>2. \/ Money'[o] = Money[o]
          \/ Money[o] = "kept" /\ Money'[o] = "charged" /\ Outcome[o] # "none"
          \/ Money[o] = "due" /\ Money'[o] = "returned"
      BY <2>3, <2>9 DEF Moved, Money, Outcome, Owing, PaidExists
    <3> QED BY <2>1, <2>2, <3>1, <3>2 DEF Contract!Next, Contract!Charge, Contract!Return
  <2> QED BY <1>2, <2>4, <2>5, <2>6, <2>7, <2>8, <2>9 DEF Effect
<1> QED BY <1>1, <1>2, StepEffect

(* Whatever workers crash, calls fail and events are delivered late, twice *)
(* or never, OrderService keeps the contract with the buyer: an order is   *)
(* decided once, it completes only when paid, and the money goes back only *)
(* when the order is cancelled.                                            *)
THEOREM ImplementsContract == Spec => ContractSpec
<1>1. Init => Contract!Init
    BY DEF Init, Contract!Init, Outcome, Money
<1> QED BY <1>1, OwedInvariance, ContractStep, PTL DEF Spec, ContractSpec, Contract!Spec, Contract!contract

-----------------------------------------------------------------------------
(* SaleStands: without a fault, a sold reservation is of a complete order, *)
(* or of one whose completing transaction is under way and has its lock.   *)
Settling(o) == lock[o] \in Workers /\ job[lock[o]].pc = "complete"

SaleHeld ==
    faultCount = 0 =>
        \A o \in Orders : reservation[o] = "SOLD" => status[o] = "COMPLETE" \/ Settling(o)

(* What a step leaves alone when it neither finalizes, completes nor fails.*)
SaleUntouched ==
    /\ \A o \in Orders : reservation'[o] = "SOLD" => reservation[o] = "SOLD"
    /\ \A o \in Orders, w \in Workers : lock[o] = w /\ job[w].pc = "complete" => lock'[o] = w
    /\ \A w \in Workers : job[w].pc = "complete" => job'[w] = job[w]

LEMMA FaultsShow ==
    ASSUME TypeOK, NEW w \in Workers, FaultStep(w)
    PROVE  faultCount' # 0
<1>1. faultCount \in Nat /\ faultCount' = faultCount + 1
    BY TimesAssumption DEF TypeOK, FaultStep, Crash, ReserveLost, TxFail, TxLost, CompensateFails, FinalizeFails,
       FinalizeLost, CommitFails, Fault
<1> QED BY <1>1

LEMMA JobUntouched ==
    ASSUME TypeOK, NEW w \in Workers, job[w].pc # "complete", NEW j, job' = [job EXCEPT ![w] = j]
    PROVE  \A v \in Workers : job[v].pc = "complete" => job'[v] = job[v]
BY DEF TypeOK

LEMMA RequestUntouched ==
    ASSUME IInv, NEW w \in Workers, NEW o \in Orders, Request(w, o)
    PROVE  SaleUntouched
<1> USE DEF IInv, row, ages, calls
<1>1. At(w, "idle") /\ reservation' = reservation /\ \E j : job' = [job EXCEPT ![w] = j]
    BY DEF Request, CreateOrder, CancelOrder, MarkAwaitingPayment, MarkPaymentFailed, LockRow, ReadRow, Become
<1>2. \A v \in Workers : job[v].pc = "complete" => job'[v] = job[v]
    BY <1>1, JobUntouched DEF At
<1>3. UNCHANGED lock \/ (lock[o] = NoOne /\ lock' = [lock EXCEPT ![o] = w])
    BY DEF Request, CreateOrder, CancelOrder, MarkAwaitingPayment, MarkPaymentFailed, LockRow, ReadRow
<1>4. \A p \in Orders, v \in Workers : lock[p] = v => lock'[p] = v
    BY <1>3, SetsAssumption DEF TypeOK
<1> QED BY <1>1, <1>2, <1>4 DEF SaleUntouched

LEMMA WorkerUntouched ==
    ASSUME IInv, NEW w \in Workers, WorkerStep(w), ~Finalize(w), ~Complete(w)
    PROVE  SaleUntouched
<1> USE DEF IInv, row, ages, calls
<1>1. job[w].pc # "complete" /\ \E j : job' = [job EXCEPT ![w] = j]
    BY DEF WorkerStep, Reserve, ReserveDuplicate, ReserveRefused, Insert, InsertDuplicate, Compensate,
       CommitCancel, CommitPaymentFailed, CommitAwaiting, WriteConflict, FinalizeRefused, Refuse,
       Goto, Done, Become, At, Writable
<1>2. \A v \in Workers : job[v].pc = "complete" => job'[v] = job[v]
    BY <1>1, JobUntouched
<1>3. \A p \in Orders : reservation'[p] = "SOLD" => reservation[p] = "SOLD"
    BY DEF WorkerStep, Reserve, ReserveDuplicate, ReserveRefused, Insert, InsertDuplicate, Compensate,
       CommitCancel, CommitPaymentFailed, CommitAwaiting, WriteConflict, FinalizeRefused, Refuse,
       ReserveWrite, Released, TypeOK
<1>4. UNCHANGED lock \/ (At(w, "refuse") /\ lock' = [lock EXCEPT ![OrderOf(w)] = NoOne])
    BY DEF WorkerStep, Reserve, ReserveDuplicate, ReserveRefused, Insert, InsertDuplicate, Compensate,
       CommitCancel, CommitPaymentFailed, CommitAwaiting, WriteConflict, FinalizeRefused, Refuse
<1>5. \A p \in Orders, v \in Workers : lock[p] = v /\ job[v].pc = "complete" => lock'[p] = v
  <2>1. CASE UNCHANGED lock
    BY <2>1
  <2>2. CASE At(w, "refuse") /\ lock' = [lock EXCEPT ![OrderOf(w)] = NoOne]
    <3>1. lock[OrderOf(w)] = w /\ job[w].pc = "refuse"
      BY <2>2 DEF LockHeld, Locking, At, OrderOf
    <3> QED BY <2>2, <3>1 DEF TypeOK
  <2> QED BY <1>4, <2>1, <2>2
<1> QED BY <1>2, <1>3, <1>5 DEF SaleUntouched

LEMMA OthersUntouched ==
    ASSUME IInv, UNCHANGED vars \/ Tick \/ \E o \in Orders : RowStep(o) \/ OutsideStep(o)
    PROVE  SaleUntouched
<1> USE DEF IInv, row, ages, calls
<1>1. UNCHANGED <<job, lock>>
    BY DEF vars, Tick, RowStep, MarkUnfulfillable, OnExpirationComplete, GetOrderExpires, Sweep, Expire,
       OutsideStep, Charge, Capture, Decline, Refund, ReleaseCancelled, ReclaimExpired
<1>2. \A p \in Orders : reservation'[p] = "SOLD" => reservation[p] = "SOLD"
    BY DEF vars, Tick, RowStep, MarkUnfulfillable, OnExpirationComplete, GetOrderExpires, Sweep, Expire,
       OutsideStep, Charge, Capture, Decline, Refund, ReleaseCancelled, ReclaimExpired, Released, TypeOK
<1> QED BY <1>1, <1>2 DEF SaleUntouched

(* How the status of an order moves.                                       *)
LEMMA StatusMoves ==
    ASSUME IInv, [Next]_vars, NEW o \in Orders
    PROVE  \/ status'[o] = status[o]
           \/ status[o] = "NONE" /\ status'[o] = "CREATED"
           \/ IsAwaitingPayment(o) /\ status'[o] # "NONE"
           \/ status[o] = "CANCELLED" /\ status'[o] = "CANCELLED"
<1>1. CASE NoEffect
    BY <1>1 DEF NoEffect
<1>2. ASSUME NEW p \in Orders, Effect(p), p # o PROVE status'[o] = status[o]
    BY <1>2 DEF Effect, Others
<1>3. CASE Effect(o)
    BY <1>3 DEF Effect, Opened, Awaited, Cancelled, Completed, Owed, Moved, IInv, TypeOK, Statuses,
       IsAwaitingPayment
<1> QED BY <1>1, <1>2, <1>3, StepEffect

LEMMA CompleteStays ==
    ASSUME IInv, [Next]_vars, NEW o \in Orders, status[o] = "COMPLETE"
    PROVE  status'[o] = "COMPLETE"
BY StatusMoves DEF IsAwaitingPayment

LEMMA SaleStep ==
    ASSUME IInv, SaleHeld, [Next]_vars
    PROVE  SaleHeld'
<1> USE DEF IInv
<1> SUFFICES ASSUME faultCount' = 0, NEW o \in Orders, reservation'[o] = "SOLD"
             PROVE  status'[o] = "COMPLETE" \/ Settling(o)'
    BY DEF SaleHeld
<1>1. \A w \in Workers : ~FaultStep(w)
    BY FaultsShow
<1>2. faultCount = 0
  <2>1. UNCHANGED faultCount
    BY <1>1 DEF Next, vars, Request, WorkerStep, RowStep, OutsideStep, Tick,
       CreateOrder, CancelOrder, MarkAwaitingPayment, MarkPaymentFailed, LockRow, ReadRow,
       Reserve, ReserveDuplicate, ReserveRefused, Insert, InsertDuplicate, Compensate,
       CommitCancel, CommitPaymentFailed, CommitAwaiting, WriteConflict, Finalize, FinalizeRefused,
       Complete, Refuse, MarkUnfulfillable, OnExpirationComplete, GetOrderExpires, Sweep, Expire,
       Charge, Capture, Decline, Refund, ReleaseCancelled, ReclaimExpired
  <2> QED BY <2>1
<1>3. CASE SaleUntouched
  <2>1. status[o] = "COMPLETE" \/ Settling(o)
    BY <1>2, <1>3 DEF SaleUntouched, SaleHeld
  <2>2. Settling(o) => Settling(o)'
    BY <1>3 DEF SaleUntouched, Settling
  <2> QED BY <2>1, <2>2, CompleteStays
<1>4. ASSUME NEW w \in Workers, Finalize(w) PROVE status'[o] = "COMPLETE" \/ Settling(o)'
  <2> DEFINE p == OrderOf(w)
  <2>1. /\ p \in Orders /\ lock[p] = w /\ lock' = lock /\ job[w].pc = "finalize"
        /\ job' = [job EXCEPT ![w] = Job("complete", p)]
    BY <1>4, BusyOrder DEF Finalize, Goto, Become, At, LockHeld, Locking, OrderOf
  <2>2. CASE o = p
    BY <2>1, <2>2 DEF Settling, Job, TypeOK
  <2>3. CASE o # p
    <3>1. reservation[o] = "SOLD"
      BY <1>4, <2>3 DEF Finalize, FinalizeWrite, TypeOK
    <3>2. status[o] = "COMPLETE" \/ Settling(o)
      BY <1>2, <3>1 DEF SaleHeld
    <3>3. Settling(o) => Settling(o)'
      BY <2>1 DEF Settling, TypeOK
    <3> QED BY <3>2, <3>3, CompleteStays
  <2> QED BY <2>2, <2>3
<1>5. ASSUME NEW w \in Workers, Complete(w) PROVE status'[o] = "COMPLETE" \/ Settling(o)'
  <2> DEFINE p == OrderOf(w)
  <2>1. /\ p \in Orders /\ lock' = [lock EXCEPT ![p] = NoOne] /\ reservation' = reservation
        /\ status' = [status EXCEPT ![p] = "COMPLETE"] /\ job' = [job EXCEPT ![w] = IdleJob]
    BY <1>5, BusyOrder DEF Complete, Done, At, OrderOf
  <2>2. CASE o = p
    BY <2>1, <2>2 DEF TypeOK
  <2>3. CASE o # p
    <3>1. status[o] = "COMPLETE" \/ Settling(o)
      BY <1>2, <2>1 DEF SaleHeld
    <3>2. lock[o] # w
      BY <2>3, SetsAssumption DEF TypeOK, OrderOf
    <3>3. Settling(o) => Settling(o)'
      BY <2>1, <2>3, <3>2 DEF Settling, TypeOK
    <3> QED BY <3>1, <3>3, CompleteStays
  <2> QED BY <2>2, <2>3
<1> QED BY <1>1, <1>3, <1>4, <1>5, RequestUntouched, WorkerUntouched, OthersUntouched DEF Next

(* Whatever races, a completed order has its tickets, and only a fault     *)
(* between the finalize call and the commit cancels an order whose tickets *)
(* are sold.                                                               *)
THEOREM SalesStand == Spec => []SaleStands
<1>1. Init => SaleHeld
    BY DEF Init, SaleHeld
<1>2. IInv /\ SaleHeld => SaleStands
  <2> SUFFICES ASSUME IInv, SaleHeld PROVE FinalizedNotCancelled
    BY DEF IInv, SaleStands
  <2> SUFFICES ASSUME NEW o \in Orders, reservation[o] = "SOLD", status[o] = "CANCELLED", faultCount = 0
               PROVE  FALSE
    BY TimesAssumption DEF FinalizedNotCancelled, IInv, TypeOK
  <2>1. Settling(o)
    BY DEF SaleHeld
  <2>2. job[lock[o]].order = o /\ IsAwaitingPayment(job[lock[o]].order)
    BY <2>1, SetsAssumption DEF Settling, IInv, TypeOK, LockHeld, Locking
  <2> QED BY <2>2 DEF IsAwaitingPayment
<1> QED BY <1>1, <1>2, Invariance, SaleStep, PTL DEF Spec
-----------------------------------------------------------------------------
(* ReservationKept: what those who create orders know of the reservation,  *)
(* and how its age compares with that of the order.                        *)
Creating(w) == job[w].pc \in {"reserve", "insert", "compensate"}

(* Without a key, an order is asked for once.                              *)
AskedOnce ==
    /\ \A w \in Workers : Creating(w) => job[w].order \in asked
    /\ \A v, w \in Workers :
          Creating(v) /\ Creating(w) /\ job[v].order = job[w].order /\ job[v].order \notin keyed
              => v = w
    /\ \A o \in Orders \ asked : status[o] = "NONE" /\ reservation[o] = "NONE"
    /\ \A o \in Orders : /\ status[o] = "NONE" => orderAge[o] = 0
                         /\ reservation[o] = "NONE" => resAge[o] = 0

FirstSeen(w, o) ==
    /\ job[w].pc = "reserve" => status[o] = "NONE" /\ reservation[o] = "NONE"
    /\ job[w].pc = "insert" => status[o] = "NONE" /\ reservation[o] = "RESERVED" /\ resAge[o] = 0
    /\ job[w].pc = "compensate" /\ status[o] # "NONE" => "txLost" \in Faults /\ faultCount > 0

SeenAgain(w, o) ==
    /\ job[w].pc # "compensate"
    /\ job[w].pc = "insert" => \/ reservation[o] \in {"RESERVED", "SOLD"}
                              \/ resAge[o] >= ReservationLife \/ status[o] # "NONE"

Seen ==
    \A w \in Workers : Creating(w) =>
        IF job[w].order \in keyed THEN SeenAgain(w, job[w].order) ELSE FirstSeen(w, job[w].order)

NoOlder ==
    \A o \in Orders \ keyed :
        IsAwaitingPayment(o) /\ reservation[o] = "RESERVED" => resAge[o] <= orderAge[o]

Kept == AskedOnce /\ Seen /\ NoOlder /\ ReservationKept

(* Steps after the creation: a reservation may be sold, nothing else.      *)
Calm ==
    /\ UNCHANGED <<orderAge, resAge, asked, keyed>>
    /\ faultCount' \in {faultCount, faultCount + 1}
    /\ \A o \in Orders : \/ reservation'[o] = reservation[o]
                         \/ /\ reservation[o] \in {"RESERVED", "SOLD"} /\ reservation'[o] = "SOLD"
                            /\ status[o] # "NONE"
    /\ \A o \in Orders : /\ status'[o] = "NONE" <=> status[o] = "NONE"
                         /\ IsAwaitingPayment(o)' => IsAwaitingPayment(o)
    /\ \A w \in Workers : job'[w] = job[w] \/ ~Creating(w)'

LEMMA CalmKeeps ==
    ASSUME IInv, Kept, Calm
    PROVE  Kept'
<1> USE DEF IInv, Kept
<1>1. \A w \in Workers : Creating(w)' => job'[w] = job[w] /\ Creating(w) /\ job[w].order \in Orders
    BY DEF Calm, Creating, TypeOK, At, OrderOf
<1>2. AskedOnce'
  <2>1. \A o \in Orders \ asked : status'[o] = "NONE" /\ reservation'[o] = "NONE"
    BY DEF Calm, AskedOnce
  <2> QED BY <1>1, <2>1 DEF Calm, AskedOnce
<1>3. Seen'
  <2> SUFFICES ASSUME NEW w \in Workers, Creating(w)'
               PROVE  IF job'[w].order \in keyed' THEN SeenAgain(w, job[w].order)'
                                                 ELSE FirstSeen(w, job[w].order)'
    BY <1>1 DEF Seen
  <2>1. /\ job'[w] = job[w] /\ Creating(w) /\ job[w].order \in Orders /\ keyed' = keyed
        /\ resAge' = resAge /\ faultCount \in Nat
    BY <1>1, TimesAssumption DEF Calm, TypeOK
  <2>2. CASE job[w].order \in keyed
    <3>1. SeenAgain(w, job[w].order)
      BY <2>1, <2>2 DEF Seen
    <3> QED BY <2>1, <2>2, <3>1 DEF Calm, SeenAgain, ReservationLife
  <2>3. CASE job[w].order \notin keyed
    <3>1. FirstSeen(w, job[w].order)
      BY <2>1, <2>3 DEF Seen
    <3> QED BY <2>1, <2>3, <3>1 DEF Calm, FirstSeen
  <2> QED BY <2>2, <2>3
<1>4. NoOlder'
    BY DEF Calm, NoOlder
<1>5. ReservationOutlivesOrder'
  <2>1. faultCount \in Nat
    BY TimesAssumption DEF TypeOK
  <2> SUFFICES ASSUME NEW o \in Orders \ keyed, IsAwaitingPayment(o)', ~WindowClosed(o)',
                      "txLost" \in Faults => faultCount' = 0
               PROVE  reservation'[o] \in {"RESERVED", "SOLD"}
    BY DEF ReservationOutlivesOrder, Calm
  <2>2. "txLost" \in Faults => faultCount = 0
    BY <2>1 DEF Calm
  <2>3. reservation[o] \in {"RESERVED", "SOLD"}
    BY <2>2 DEF Calm, WindowClosed, ReservationKept, ReservationOutlivesOrder
  <2> QED BY <2>3 DEF Calm
<1>6. HeldUntilExpiry'
  <2> SUFFICES ASSUME NEW o \in keyed, IsAwaitingPayment(o)', resAge'[o] < ReservationLife
               PROVE  reservation'[o] \in {"RESERVED", "SOLD"}
    BY DEF HeldUntilExpiry, Calm, ReservationLife
  <2>1. o \in Orders /\ IsAwaitingPayment(o) /\ resAge[o] < ReservationLife
    BY DEF Calm, TypeOK
  <2>2. reservation[o] \in {"RESERVED", "SOLD"}
    BY <2>1 DEF ReservationKept, HeldUntilExpiry
  <2> QED BY <2>1, <2>2 DEF Calm
<1> QED BY <1>2, <1>3, <1>4, <1>5, <1>6 DEF ReservationKept

LEMMA CalmSteps ==
    ASSUME IInv, [Next]_vars,
           \/ UNCHANGED vars
           \/ \E w \in Workers, o \in Orders : Request(w, o) /\ ~CreateOrder(w, o)
           \/ \E w \in Workers :
                 \/ CommitCancel(w) \/ CommitPaymentFailed(w) \/ CommitAwaiting(w) \/ WriteConflict(w)
                 \/ Finalize(w) \/ FinalizeRefused(w) \/ Complete(w) \/ Refuse(w)
                 \/ Crash(w) \/ FinalizeFails(w) \/ FinalizeLost(w) \/ CommitFails(w)
           \/ \E o \in Orders : RowStep(o) \/ Charge(o) \/ Capture(o) \/ Decline(o) \/ Refund(o)
    PROVE  Calm
<1> USE DEF IInv, row, ages, calls
<1>1. UNCHANGED <<orderAge, resAge, asked, keyed>> /\ faultCount' \in {faultCount, faultCount + 1}
    BY DEF vars, Request, CancelOrder, MarkAwaitingPayment, MarkPaymentFailed, LockRow, ReadRow,
       CommitCancel, CommitPaymentFailed, CommitAwaiting, WriteConflict, Finalize, FinalizeRefused,
       Complete, Refuse, Crash, FinalizeFails, FinalizeLost, CommitFails, DeliveryFails, Fault,
       RowStep, MarkUnfulfillable, OnExpirationComplete, GetOrderExpires, Sweep, Expire,
       Charge, Capture, Decline, Refund
<1>2. ASSUME NEW w \in Workers, Finalize(w) \/ FinalizeLost(w)
      PROVE  \A o \in Orders : \/ reservation'[o] = reservation[o]
                               \/ /\ reservation[o] \in {"RESERVED", "SOLD"} /\ reservation'[o] = "SOLD"
                                  /\ status[o] # "NONE"
  <2>1. OrderOf(w) \in Orders /\ status[OrderOf(w)] # "NONE" /\ FinalizeWrite(OrderOf(w))
    BY <1>2, BusyOrder DEF Finalize, FinalizeLost, At, LockHeld, Locking, OrderOf, IsAwaitingPayment
  <2> QED BY <2>1 DEF FinalizeWrite, TypeOK
<1>3. \A o \in Orders : \/ reservation'[o] = reservation[o]
                        \/ /\ reservation[o] \in {"RESERVED", "SOLD"} /\ reservation'[o] = "SOLD"
                           /\ status[o] # "NONE"
    BY <1>2
    DEF vars, Request, CancelOrder, MarkAwaitingPayment, MarkPaymentFailed, LockRow, ReadRow,
       CommitCancel, CommitPaymentFailed, CommitAwaiting, WriteConflict, FinalizeRefused,
       Complete, Refuse, Crash, FinalizeFails, CommitFails, DeliveryFails,
       RowStep, MarkUnfulfillable, OnExpirationComplete, GetOrderExpires, Sweep, Expire,
       Charge, Capture, Decline, Refund
<1>4. ASSUME NEW o \in Orders, status[o] = "NONE" PROVE status'[o] = "NONE"
  <2>1. CASE UNCHANGED status
    BY <1>4, <2>1
  <2>2. ASSUME NEW w \in Workers, CommitCancel(w) \/ CommitPaymentFailed(w) \/ CommitAwaiting(w)
        PROVE  o # OrderOf(w) /\ status'[o] = status[o]
    <3>1. w \in fresh /\ OrderOf(w) # o
      BY <1>4, <2>2 DEF CommitCancel, CommitPaymentFailed, CommitAwaiting, Writable, VersionMatches,
         FreshIsOpen, OrderOf, IsAwaitingPayment
    <3> QED BY <2>2, <3>1 DEF CommitCancel, CommitPaymentFailed, CommitAwaiting, CancelWith, TypeOK
  <2>3. ASSUME NEW w \in Workers, Complete(w) \/ Refuse(w) PROVE status'[o] = status[o]
    <3>1. OrderOf(w) # o
      BY <1>4, <2>3 DEF Complete, Refuse, At, LockHeld, Locking, OrderOf, IsAwaitingPayment
    <3> QED BY <2>3, <3>1 DEF Complete, Refuse, TypeOK
  <2>4. ASSUME NEW p \in Orders, Expire(p) PROVE status'[o] = status[o]
    BY <1>4, <2>4 DEF Expire, CancelWith, TypeOK
  <2> QED BY <1>4, <2>1, <2>2, <2>3, <2>4
      DEF vars, Request, CancelOrder, MarkAwaitingPayment, MarkPaymentFailed, LockRow, ReadRow,
       WriteConflict, Finalize, FinalizeRefused, Crash, FinalizeFails, FinalizeLost, CommitFails,
       DeliveryFails, RowStep, MarkUnfulfillable, OnExpirationComplete, GetOrderExpires, Sweep,
       Charge, Capture, Decline, Refund
<1>5. \A o \in Orders : /\ status'[o] = "NONE" <=> status[o] = "NONE"
                        /\ IsAwaitingPayment(o)' => IsAwaitingPayment(o)
    BY <1>4, StatusMoves DEF IsAwaitingPayment
<1>6. \A w \in Workers : job'[w] = job[w] \/ ~Creating(w)'
  <2> DEFINE Later == {"cancel", "await", "fail", "finalize", "complete", "refuse"}
             Leaves(v) == \/ Done(v)
                          \/ \E l \in Later : Goto(v, l) \/ \E o \in Orders : Become(v, l, o)
  <2>1. ASSUME NEW v \in Workers, NEW o \in Orders, Request(v, o), ~CreateOrder(v, o)
        PROVE  Leaves(v)
    BY <2>1 DEF Request, CancelOrder, MarkAwaitingPayment, MarkPaymentFailed, LockRow, ReadRow
  <2>2. ASSUME NEW v \in Workers, \/ Crash(v) \/ FinalizeFails(v) \/ FinalizeLost(v) \/ CommitFails(v)
                                  \/ Finalize(v) \/ FinalizeRefused(v) \/ Complete(v) \/ Refuse(v)
                                  \/ CommitCancel(v) \/ CommitPaymentFailed(v)
                                  \/ CommitAwaiting(v) \/ WriteConflict(v)
        PROVE  Leaves(v)
    BY <2>2 DEF CommitCancel, CommitPaymentFailed, CommitAwaiting, WriteConflict, Finalize,
       FinalizeRefused, Complete, Refuse, Crash, FinalizeFails, FinalizeLost, CommitFails, DeliveryFails
  <2>3. ASSUME NEW o \in Orders, RowStep(o) \/ Charge(o) \/ Capture(o) \/ Decline(o) \/ Refund(o)
        PROVE  UNCHANGED job
    BY <2>3 DEF RowStep, MarkUnfulfillable, OnExpirationComplete, GetOrderExpires, Sweep, Expire,
       Charge, Capture, Decline, Refund
  <2>4. ASSUME NEW v \in Workers, Leaves(v), NEW w \in Workers
        PROVE  job'[w] = job[w] \/ ~Creating(w)'
    <3>1. CASE w = v
      BY <2>4, <3>1 DEF Done, IdleJob, Goto, Become, Job, Creating, TypeOK
    <3>2. CASE w # v
      BY <2>4, <3>2 DEF Done, Goto, Become, TypeOK
    <3> QED BY <3>1, <3>2
  <2> HIDE DEF Leaves
  <2>5. (\E v \in Workers : Leaves(v)) \/ UNCHANGED job
    <3>1. CASE UNCHANGED vars
      BY <3>1 DEF vars
    <3> QED BY <2>1, <2>2, <2>3, <3>1
  <2> QED BY <2>4, <2>5 DEF Creating
<1> QED BY <1>1, <1>3, <1>5, <1>6 DEF Calm

(* Steps of the creation of one order.                                     *)
LEMMA CreationKeeps ==
    ASSUME IInv, Kept, NEW w \in Workers, NEW o \in Orders,
           \/ CreateOrder(w, o)
           \/ /\ o = OrderOf(w)
              /\ \/ Reserve(w) \/ ReserveDuplicate(w) \/ ReserveRefused(w) \/ ReserveLost(w)
                 \/ Insert(w) \/ TxLost(w) \/ InsertDuplicate(w) \/ TxFail(w)
                 \/ Compensate(w) \/ CompensateFails(w)
    PROVE  Kept'
<1> USE DEF IInv, Kept, row, ages, calls
<1>0. faultCount \in Nat /\ faultCount' \in {faultCount, faultCount + 1} /\ ReservationLife \in Nat \ {0}
    BY TimesAssumption DEF CreateOrder, Reserve, ReserveDuplicate, ReserveRefused, ReserveLost, Insert, TxLost,
       InsertDuplicate, TxFail, Compensate, CompensateFails, Fault, TypeOK, ReservationLife
<1>1. /\ UNCHANGED <<orderAge, resAge, keyed>>
      /\ asked \subseteq asked' /\ asked' \subseteq asked \cup {o}
      /\ \A p \in Orders \ {o} : reservation'[p] = reservation[p] /\ status'[p] = status[p]
    BY DEF CreateOrder, Reserve, ReserveDuplicate, ReserveRefused, ReserveLost, Insert, TxLost,
       InsertDuplicate, TxFail, Compensate, CompensateFails, InsertRow, ReserveWrite, Released, TypeOK
<1>2. PICK pc \in Labels : /\ job'[w].pc = pc /\ (pc # "idle" => job'[w].order = o)
                           /\ pc \in {"idle", "reserve", "insert", "compensate"}
                           /\ \A v \in Workers \ {w} : job'[v] = job[v]
    BY DEF CreateOrder, Reserve, ReserveDuplicate, ReserveRefused, ReserveLost, Insert, TxLost,
       InsertDuplicate, TxFail, Compensate, CompensateFails, AfterFailure, Become, Goto, Done, IdleJob,
       Job, OrderOf, Labels, TypeOK
<1>3. CreateOrder(w, o) \/ (Creating(w) /\ job[w].order = o /\ ~CreateOrder(w, o))
    BY DEF CreateOrder, Reserve, ReserveDuplicate, ReserveRefused, ReserveLost, Insert, TxLost,
       InsertDuplicate, TxFail, Compensate, CompensateFails, At, OrderOf, Creating
<1>4. \A v \in Workers \ {w} : Creating(v)' => job'[v] = job[v] /\ Creating(v) /\ job[v].order \in Orders
    BY <1>2 DEF Creating, TypeOK, At, OrderOf
(* Without a key, nobody else is creating this order.                      *)
<1>5. ASSUME o \notin keyed, NEW v \in Workers \ {w}, Creating(v) PROVE job[v].order # o
    BY <1>3, <1>5 DEF AskedOnce, CreateOrder
<1>6. AskedOnce'
  <2>1. o \in asked'
    BY <1>1, <1>3 DEF CreateOrder, AskedOnce
  <2>2. \A v \in Workers : Creating(v)' => job'[v].order \in asked'
    BY <1>1, <1>2, <1>4, <2>1 DEF Creating, AskedOnce
  <2>3. ASSUME NEW u \in Workers, NEW v \in Workers, Creating(u)', Creating(v)',
               job'[u].order = job'[v].order, job'[u].order \notin keyed', u # v
        PROVE  FALSE
    BY <1>1, <1>2, <1>4, <1>5, <2>3 DEF AskedOnce, Creating
  <2>4. \A p \in Orders \ asked' : status'[p] = "NONE" /\ reservation'[p] = "NONE"
    BY <1>1, <2>1 DEF AskedOnce
  <2>5. status'[o] = "NONE" => status[o] = "NONE"
    BY DEF CreateOrder, Reserve, ReserveDuplicate, ReserveRefused, ReserveLost, Insert, TxLost,
       InsertDuplicate, TxFail, Compensate, CompensateFails, InsertRow, TypeOK
  <2>6. reservation'[o] = "NONE" => reservation[o] = "NONE"
    BY DEF CreateOrder, Reserve, ReserveDuplicate, ReserveRefused, ReserveLost, Insert, TxLost,
       InsertDuplicate, TxFail, Compensate, CompensateFails, ReserveWrite, Released, TypeOK
  <2> QED BY <1>1, <2>2, <2>3, <2>4, <2>5, <2>6 DEF AskedOnce
(* What each of the steps does to the order.                               *)
<1> DEFINE Same == status'[o] = status[o] /\ reservation'[o] = reservation[o]
           Reserves == /\ job[w].pc = "reserve" /\ reservation[o] = "NONE" /\ reservation'[o] = "RESERVED"
                       /\ status'[o] = status[o] /\ pc \in {"idle", "insert"}
           Opens == /\ job[w].pc = "insert" /\ status[o] = "NONE" /\ status'[o] = "CREATED"
                    /\ reservation'[o] = reservation[o] /\ pc \in {"idle", "compensate"}
                    /\ pc = "compensate" => /\ o \notin keyed /\ "txLost" \in Faults
                                            /\ faultCount' = faultCount + 1
           Rests == /\ Same
                    /\ \/ pc = "idle"
                       \/ pc = "reserve" /\ CreateOrder(w, o)
                       \/ pc = "insert" /\ job[w].pc = "reserve" /\ reservation[o] = "RESERVED"
                       \/ pc = "compensate" /\ job[w].pc = "insert" /\ o \notin keyed
           GivesBack == job[w].pc = "compensate" /\ status'[o] = status[o] /\ pc = "idle"
                        /\ reservation'[o] \in {reservation[o], "RELEASED"}
<1>7. Reserves \/ Opens \/ Rests \/ GivesBack
  <2>1. CASE CreateOrder(w, o)
    BY <1>2, <2>1 DEF CreateOrder, Become, Job, TypeOK
  <2>2. CASE o = OrderOf(w) /\ (Reserve(w) \/ ReserveLost(w))
    BY <1>2, <2>2 DEF Reserve, ReserveLost, ReserveWrite, At, Goto, Become, Done, Job, IdleJob, TypeOK
  <2>3. CASE o = OrderOf(w) /\ (Insert(w) \/ TxLost(w))
    BY <1>2, <2>3 DEF Insert, TxLost, InsertRow, AfterFailure, Fault, At, Goto, Become, Done, Job, IdleJob, TypeOK
  <2>4. CASE o = OrderOf(w) /\ (ReserveDuplicate(w) \/ TxFail(w))
    BY <1>2, <2>4 DEF ReserveDuplicate, TxFail, AfterFailure, At, Goto, Become, Done, Job, IdleJob, TypeOK
  <2>5. CASE ReserveRefused(w) \/ InsertDuplicate(w) \/ CompensateFails(w)
    BY <1>2, <2>5 DEF ReserveRefused, InsertDuplicate, CompensateFails, Done, Job, IdleJob, TypeOK
  <2>6. CASE o = OrderOf(w) /\ Compensate(w)
    BY <1>2, <2>6 DEF Compensate, Released, At, Done, Job, IdleJob, TypeOK
  <2> QED BY <2>1, <2>2, <2>3, <2>4, <2>5, <2>6
<1> HIDE DEF Same, Reserves, Opens, Rests, GivesBack
<1>8. o \in keyed => ~GivesBack /\ (Creating(w) => SeenAgain(w, o))
    BY <1>3 DEF GivesBack, Seen, SeenAgain, CreateOrder, At, Creating
<1>9. o \notin keyed => IF CreateOrder(w, o) THEN status[o] = "NONE" /\ reservation[o] = "NONE"
                                            ELSE FirstSeen(w, o)
    BY <1>3 DEF Seen, AskedOnce, CreateOrder
<1>10. Seen'
  <2>1. ASSUME NEW v \in Workers \ {w}, Creating(v)'
        PROVE  IF job'[v].order \in keyed' THEN SeenAgain(v, job[v].order)' ELSE FirstSeen(v, job[v].order)'
    <3>1. job'[v] = job[v] /\ Creating(v) /\ job[v].order \in Orders /\ keyed' = keyed /\ resAge' = resAge
      BY <1>1, <1>4, <2>1
    <3>2. CASE job[v].order # o
      BY <1>0, <1>1, <3>1, <3>2 DEF Seen, SeenAgain, FirstSeen, ReservationLife
    <3>3. CASE job[v].order = o
      <4>1. o \in keyed /\ SeenAgain(v, o)
        BY <1>5, <3>1, <3>3 DEF Seen
      <4>2. SeenAgain(v, o)'
        BY <1>7, <1>8, <3>1, <3>3, <4>1 DEF SeenAgain, Same, Reserves, Opens, Rests, ReservationLife
      <4> QED BY <3>1, <3>3, <4>1, <4>2
    <3> QED BY <3>2, <3>3
  <2>2. ASSUME Creating(w)'
        PROVE  IF o \in keyed THEN SeenAgain(w, o)' ELSE FirstSeen(w, o)'
    <3>1. job'[w].pc = pc /\ resAge' = resAge /\ pc # "idle"
      BY <1>1, <1>2, <2>2 DEF Creating
    <3>2. CASE o \in keyed
      BY <1>7, <1>8, <3>1, <3>2 DEF SeenAgain, Same, Reserves, Opens, Rests
    <3>3. CASE o \notin keyed /\ CreateOrder(w, o)
      <4>1. pc = "reserve" /\ Same
        BY <1>7, <3>1, <3>3 DEF CreateOrder, At, Reserves, Opens, Rests, GivesBack
      <4> QED BY <1>9, <3>1, <3>3, <4>1 DEF FirstSeen, Same
    <3>4. CASE o \notin keyed /\ ~CreateOrder(w, o)
      <4>1. FirstSeen(w, o) /\ (reservation[o] = "NONE" => resAge[o] = 0)
        BY <1>9, <3>4 DEF AskedOnce
      <4> QED BY <1>0, <1>7, <3>1, <3>4, <4>1 DEF FirstSeen, Same, Reserves, Opens, Rests, GivesBack
    <3> QED BY <3>2, <3>3, <3>4
  <2>3. Creating(w)' => job'[w].order = o
    BY <1>2 DEF Creating
  <2>4. ASSUME NEW v \in Workers, Creating(v)'
        PROVE  (IF job[v].order \in keyed THEN SeenAgain(v, job[v].order)
                                          ELSE FirstSeen(v, job[v].order))'
    <3>1. CASE v # w
      BY <1>2, <2>1, <2>4, <3>1
    <3>2. CASE v = w
      BY <1>1, <2>2, <2>3, <2>4, <3>2 DEF SeenAgain, FirstSeen
    <3> QED BY <3>1, <3>2
  <2> QED BY <2>4 DEF Seen
<1>11. NoOlder'
  <2>1. resAge[o] \in Nat /\ orderAge[o] \in Nat
    BY DEF TypeOK
  <2>2. o \notin keyed /\ ~CreateOrder(w, o) => FirstSeen(w, o) /\ (reservation[o] = "NONE" => resAge[o] = 0)
    BY <1>9 DEF AskedOnce
  <2>3. ASSUME o \notin keyed, IsAwaitingPayment(o)', reservation'[o] = "RESERVED"
        PROVE  resAge[o] <= orderAge[o]
    <3>1. CASE CreateOrder(w, o)
      BY <1>7, <1>9, <2>3, <3>1 DEF CreateOrder, At, IsAwaitingPayment, Reserves, Opens, Rests, Same, GivesBack
    <3>2. CASE ~CreateOrder(w, o)
      BY <1>7, <2>1, <2>2, <2>3, <3>2 DEF FirstSeen, NoOlder, IsAwaitingPayment, Reserves, Opens, Rests, Same, GivesBack
    <3> QED BY <3>1, <3>2
  <2> QED BY <1>1, <2>3 DEF NoOlder, IsAwaitingPayment
<1>12. ReservationOutlivesOrder'
  <2> SUFFICES ASSUME NEW p \in Orders \ keyed, IsAwaitingPayment(p)', ~WindowClosed(p)',
                      "txLost" \in Faults => faultCount' = 0
               PROVE  reservation'[p] \in {"RESERVED", "SOLD"}
    BY <1>1 DEF ReservationOutlivesOrder
  <2>1. ~WindowClosed(p) /\ ("txLost" \in Faults => faultCount = 0)
    BY <1>0, <1>1 DEF WindowClosed
  <2>2. IsAwaitingPayment(p) => reservation[p] \in {"RESERVED", "SOLD"}
    BY <2>1 DEF ReservationKept, ReservationOutlivesOrder
  <2>3. CASE p # o
    BY <1>1, <2>2, <2>3 DEF IsAwaitingPayment
  <2>4. CASE p = o /\ CreateOrder(w, o)
    BY <1>7, <1>9, <2>4 DEF CreateOrder, At, IsAwaitingPayment, Reserves, Opens, Rests, Same, GivesBack
  <2>5. CASE p = o /\ ~CreateOrder(w, o)
    <3>1. FirstSeen(w, o)
      BY <1>9, <2>5
    <3> QED BY <1>0, <1>7, <2>1, <2>2, <2>5, <3>1
        DEF FirstSeen, IsAwaitingPayment, Reserves, Opens, Rests, Same, GivesBack
  <2> QED BY <2>3, <2>4, <2>5
<1>13. HeldUntilExpiry'
  <2> SUFFICES ASSUME NEW p \in keyed, IsAwaitingPayment(p)', resAge[p] < ReservationLife
               PROVE  reservation'[p] \in {"RESERVED", "SOLD"}
    BY <1>1 DEF HeldUntilExpiry, ReservationLife
  <2>1. p \in Orders /\ resAge[p] \in Nat
    BY DEF TypeOK
  <2>2. IsAwaitingPayment(p) => reservation[p] \in {"RESERVED", "SOLD"}
    BY DEF ReservationKept, HeldUntilExpiry
  <2>3. CASE p # o
    BY <1>1, <2>1, <2>2, <2>3 DEF IsAwaitingPayment
  <2>4. CASE p = o
    <3>1. Creating(w) => SeenAgain(w, o)
      BY <1>8, <2>4
    <3> QED BY <1>0, <1>7, <1>8, <2>1, <2>2, <2>4, <3>1
        DEF SeenAgain, Creating, IsAwaitingPayment, Reserves, Opens, Rests, Same
  <2> QED BY <2>3, <2>4
<1> QED BY <1>6, <1>10, <1>11, <1>12, <1>13 DEF ReservationKept

(* The owner's releases and time.                                          *)
LEMMA OwnerKeeps ==
    ASSUME IInv, Kept, NEW o \in Orders, ReleaseCancelled(o) \/ ReclaimExpired(o)
    PROVE  Kept'
<1> USE DEF IInv, Kept, row, ages, calls
<1>1. /\ UNCHANGED <<status, orderAge, resAge, asked, keyed, job, faultCount>>
      /\ reservation[o] = "RESERVED" /\ reservation' = [reservation EXCEPT ![o] = "RELEASED"]
    BY DEF ReleaseCancelled, ReclaimExpired, Released, TypeOK
<1>2. status[o] = "CANCELLED" \/ resAge[o] >= ReservationLife
    BY DEF ReleaseCancelled, ReclaimExpired, OneOutcome
<1>3. \A p \in Orders \ {o} : reservation'[p] = reservation[p]
    BY <1>1 DEF TypeOK
<1>4. reservation'[o] = "RELEASED"
    BY <1>1 DEF TypeOK
<1>5. ReservationLife \in Nat \ {0} /\ ReservationLife > Life + PaymentGrace /\ Life + PaymentGrace \in Nat
    BY TimesAssumption DEF ReservationLife
<1>6. AskedOnce'
    BY <1>1, <1>3, <1>4 DEF AskedOnce, Creating
<1>7. Seen'
  <2> SUFFICES ASSUME NEW w \in Workers, Creating(w)
               PROVE  IF job[w].order \in keyed THEN SeenAgain(w, job[w].order)' ELSE FirstSeen(w, job[w].order)'
    BY <1>1 DEF Seen, Creating
  <2>1. job[w].order \in Orders
    BY DEF Creating, TypeOK, At, OrderOf
  <2>2. CASE job[w].order # o
    BY <1>1, <1>3, <2>1, <2>2 DEF Seen, SeenAgain, FirstSeen, ReservationLife
  <2>3. CASE job[w].order = o
    BY <1>1, <1>2, <1>4, <1>5, <2>3 DEF Seen, SeenAgain, FirstSeen, ReservationLife
  <2> QED BY <2>2, <2>3
<1>8. NoOlder'
    BY <1>1, <1>3, <1>4 DEF NoOlder, IsAwaitingPayment
<1>9. ReservationOutlivesOrder'
  <2>1. o \notin keyed /\ IsAwaitingPayment(o) => WindowClosed(o)
    <3>1. resAge[o] \in Nat /\ orderAge[o] \in Nat
      BY DEF TypeOK
    <3>2. o \notin keyed /\ IsAwaitingPayment(o) => resAge[o] >= ReservationLife /\ resAge[o] <= orderAge[o]
      BY <1>1, <1>2 DEF IsAwaitingPayment, NoOlder
    <3> QED BY <1>5, <3>1, <3>2 DEF WindowClosed
  <2> QED BY <1>1, <1>3, <2>1 DEF ReservationKept, ReservationOutlivesOrder, IsAwaitingPayment, WindowClosed
<1>10. HeldUntilExpiry'
  <2>1. IsAwaitingPayment(o) => ~(resAge[o] < ReservationLife)
    BY <1>2, <1>5 DEF IsAwaitingPayment, TypeOK
  <2> QED BY <1>1, <1>3, <2>1 DEF ReservationKept, HeldUntilExpiry, IsAwaitingPayment, ReservationLife, TypeOK
<1> QED BY <1>6, <1>7, <1>8, <1>9, <1>10 DEF ReservationKept

LEMMA TickKeeps ==
    ASSUME IInv, Kept, Tick
    PROVE  Kept'
<1> USE DEF IInv, Kept, row, ages, calls
<1>1. UNCHANGED <<status, reservation, asked, keyed, job, faultCount>>
    BY DEF Tick
<1>2. MaxAge \in Nat
    BY TimesAssumption DEF MaxAge
<1>3. \A a, b \in Nat : Older(a) \in Nat /\ Older(a) >= a /\ (a <= b => Older(a) <= Older(b))
    BY <1>2 DEF Older
<1>4. \A o \in Orders : /\ orderAge[o] \in Nat /\ resAge[o] \in Nat
                        /\ orderAge'[o] = (IF IsAwaitingPayment(o) THEN Older(orderAge[o]) ELSE orderAge[o])
                        /\ resAge'[o] = (IF reservation[o] = "RESERVED" THEN Older(resAge[o]) ELSE resAge[o])
    BY DEF Tick, TypeOK
<1>5. AskedOnce'
    BY <1>1, <1>4 DEF AskedOnce, Creating, IsAwaitingPayment
<1>6. Seen'
  <2> SUFFICES ASSUME NEW w \in Workers, Creating(w)
               PROVE  IF job[w].order \in keyed THEN SeenAgain(w, job[w].order)' ELSE FirstSeen(w, job[w].order)'
    BY <1>1 DEF Seen, Creating
  <2>1. job[w].pc # "insert"
    BY DEF Tick, At
  <2> QED BY <1>1, <2>1 DEF Seen, SeenAgain, FirstSeen
<1>7. NoOlder'
    BY <1>1, <1>3, <1>4 DEF NoOlder, IsAwaitingPayment
<1>8. \A o \in Orders : orderAge'[o] >= orderAge[o] /\ resAge'[o] >= resAge[o]
                       /\ orderAge'[o] \in Nat /\ resAge'[o] \in Nat
    BY <1>3, <1>4
<1>9. ReservationOutlivesOrder'
  <2>1. \A o \in Orders : WindowClosed(o) => WindowClosed(o)'
    BY <1>4, <1>8, TimesAssumption DEF WindowClosed
  <2> QED BY <1>1, <2>1 DEF ReservationKept, ReservationOutlivesOrder, IsAwaitingPayment
<1>10. HeldUntilExpiry'
  <2>1. ReservationLife \in Nat
    BY TimesAssumption DEF ReservationLife
  <2>2. \A o \in Orders : resAge'[o] < ReservationLife => resAge[o] < ReservationLife
    BY <1>4, <1>8, <2>1
  <2> QED BY <1>1, <2>2 DEF ReservationKept, HeldUntilExpiry, IsAwaitingPayment, ReservationLife, TypeOK
<1> QED BY <1>5, <1>6, <1>7, <1>9, <1>10 DEF ReservationKept

LEMMA KeptStep == ASSUME IInv, Kept, [Next]_vars PROVE Kept'
<1>1. CASE \E o \in Orders : ReleaseCancelled(o) \/ ReclaimExpired(o)
    BY <1>1, OwnerKeeps
<1>2. CASE Tick
    BY <1>2, TickKeeps
<1>3. ASSUME NEW w \in Workers, NEW o \in Orders, CreateOrder(w, o) PROVE Kept'
    BY <1>3, CreationKeeps
<1>4. ASSUME NEW w \in Workers,
             \/ Reserve(w) \/ ReserveDuplicate(w) \/ ReserveRefused(w) \/ ReserveLost(w)
             \/ Insert(w) \/ TxLost(w) \/ InsertDuplicate(w) \/ TxFail(w)
             \/ Compensate(w) \/ CompensateFails(w)
      PROVE  Kept'
  <2>1. OrderOf(w) \in Orders
    BY <1>4, BusyOrder DEF Reserve, ReserveDuplicate, ReserveRefused, ReserveLost, Insert, TxLost,
       InsertDuplicate, TxFail, Compensate, CompensateFails, At, IInv
  <2> QED BY <1>4, <2>1, CreationKeeps
<1>5. ASSUME NEW w \in Workers, NEW o \in Orders, Request(w, o), ~CreateOrder(w, o) PROVE Kept'
    BY <1>5, CalmSteps, CalmKeeps
<1>6. ASSUME NEW w \in Workers,
             \/ CommitCancel(w) \/ CommitPaymentFailed(w) \/ CommitAwaiting(w) \/ WriteConflict(w)
             \/ Finalize(w) \/ FinalizeRefused(w) \/ Complete(w) \/ Refuse(w)
             \/ Crash(w) \/ FinalizeFails(w) \/ FinalizeLost(w) \/ CommitFails(w)
      PROVE  Kept'
    BY <1>6, CalmSteps, CalmKeeps
<1>7. ASSUME NEW o \in Orders, RowStep(o) \/ Charge(o) \/ Capture(o) \/ Decline(o) \/ Refund(o)
      PROVE  Kept'
    BY <1>7, CalmSteps, CalmKeeps
<1>8. CASE UNCHANGED vars
    BY <1>8, CalmSteps, CalmKeeps
<1> QED BY <1>1, <1>2, <1>3, <1>4, <1>5, <1>6, <1>7, <1>8 DEF Next, WorkerStep, FaultStep, OutsideStep

(* An open order keeps its reservation for as long as it was promised,     *)
(* whoever creates it again, compensates, releases or reclaims.            *)
THEOREM ReservationsKept == Spec => []ReservationKept
<1>1. Init => Kept
  <2> SUFFICES ASSUME Init PROVE Kept
    OBVIOUS
  <2>1. \A w \in Workers : ~Creating(w)
    BY DEF Init, Creating, IdleJob, Job
  <2>2. keyed \subseteq Orders
    BY DEF Init
  <2> QED BY <2>1, <2>2 DEF Init, Kept, AskedOnce, Seen, NoOlder, ReservationKept, ReservationOutlivesOrder,
          HeldUntilExpiry, IsAwaitingPayment
<1>2. Kept => ReservationKept
    BY DEF Kept
<1> QED BY <1>1, <1>2, Invariance, KeptStep, PTL DEF Spec

-----------------------------------------------------------------------------
(* ExpirationTimer: the orders together with the expiration-service.  Its  *)
(* argument for the orders: an event is under way only for an order that   *)
(* has lived out its Life, and stays so, because nothing opens an order    *)
(* again or makes it younger.                                              *)
TimerFollows ==
    \A o \in Orders :
        /\ record[o] # "none" \/ task[o] # "none" \/ o \in fired => status[o] # "NONE"
        /\ tries[o] > 0 => record[o] = "due"
FiredIsDue == \A o \in fired : Due(o)

(* Each failed call of the handler is a mishap of its own.                 *)
TriesFailed == \A o \in Orders : tries[o] <= mishaps

TimedIInv == /\ IInv /\ TimedTypeOK
             /\ TimerFollows /\ FiredIsDue /\ TriesFailed

(* An order that exists does not vanish, open again or get younger.        *)
LEMMA OrderGrowsOld ==
    ASSUME IInv, [Next]_vars, NEW o \in Orders, status[o] # "NONE"
    PROVE  status'[o] # "NONE" /\ (Due(o) => Due(o)')
<1>1. status'[o] # "NONE" /\ (IsAwaitingPayment(o)' => IsAwaitingPayment(o))
    BY StatusMoves DEF IsAwaitingPayment
<1>2. orderAge[o] \in Nat /\ orderAge'[o] \in Nat
    BY NextHolds DEF IInv, TypeOK
<1>3. CASE Tick
  <2>1. orderAge'[o] = (IF IsAwaitingPayment(o) THEN Older(orderAge[o]) ELSE orderAge[o])
    BY <1>3 DEF Tick
  <2>2. orderAge'[o] >= orderAge[o]
    BY <1>2, <2>1 DEF Older
  <2>3. Life \in Nat
    BY TimesAssumption
  <2> QED BY <1>1, <1>2, <2>2, <2>3 DEF Due
<1>4. CASE ~Tick
  <2>1. orderAge' = orderAge
    BY <1>4 DEF Next, vars, ages, Request, WorkerStep, FaultStep, RowStep, OutsideStep, CreateOrder,
       CancelOrder, MarkAwaitingPayment, MarkPaymentFailed, LockRow, ReadRow, Reserve, ReserveDuplicate,
       ReserveRefused, Insert, InsertDuplicate, Compensate, CommitCancel, CommitPaymentFailed,
       CommitAwaiting, WriteConflict, Finalize, FinalizeRefused, Complete, Refuse, MarkUnfulfillable,
       OnExpirationComplete, GetOrderExpires, Sweep, Expire, Charge, Capture, Decline, Refund,
       ReleaseCancelled, ReclaimExpired, Crash, ReserveLost, TxFail, TxLost, CompensateFails,
       FinalizeFails, FinalizeLost, CommitFails, DeliveryFails
  <2> QED BY <1>1, <2>1 DEF Due
<1> QED BY <1>1, <1>3, <1>4

(* What the timer knows of the orders survives every step of theirs.       *)
LEMMA OrdersMove ==
    ASSUME TimedIInv, [Next]_vars
    PROVE  /\ IInv'
           /\ \A o \in Orders : status[o] # "NONE" => status'[o] # "NONE" /\ (Due(o) => Due(o)')
BY NextHolds, OrderGrowsOld DEF TimedIInv

(* The event finds its order past its expiry.                              *)
LEMMA ArrivesInTime ==
    ASSUME TimedIInv, NEW o \in Orders, ExpirationArrives(o)
    PROVE  Next
<1>1. o \in fired /\ Expire(o)
    BY DEF ExpirationArrives
<1>2. IsAwaitingPayment(o)
    BY <1>1 DEF Expire, IsTerminal, IsAwaitingPayment, TimedIInv, IInv, TypeOK, Statuses
<1>3. orderAge[o] >= Life
    BY <1>1, <1>2 DEF TimedIInv, FiredIsDue, Due
<1> QED BY <1>1, <1>3 DEF OnExpirationComplete, RowStep, Next

(* Every step together with the timer is one of the orders, or none.       *)
LEMMA TimedIsNext ==
    ASSUME TimedIInv, [TimedNext]_timedVars
    PROVE  [Next]_vars
<1>1. CASE UntimedStep
    BY <1>1 DEF UntimedStep, Next, RowStep
<1>2. ASSUME NEW o \in Orders, TimerStep(o) PROVE [Next]_vars
    BY <1>2, ArrivesInTime DEF TimerStep, CreatedPublished, ScheduleExpiration, PublishToDLQ, ProcessTask,
       ExpirationIgnored
<1>3. ASSUME NEW o \in Orders, TimerFails(o) PROVE UNCHANGED vars
    BY <1>3 DEF TimerFails, ScheduleFails, PublishToDLQFails, Shutdown, Unreadable, Redelivered,
       ProcessTaskFails, TaskLost, Mishap
<1>4. CASE UNCHANGED timedVars
    BY <1>4 DEF timedVars
<1> QED BY <1>1, <1>2, <1>3, <1>4 DEF TimedNext

LEMMA TimedInitHolds == TimedInit => TimedIInv
<1> SUFFICES ASSUME TimedInit PROVE TimedIInv
    OBVIOUS
<1>1. IInv
    BY InitHolds DEF TimedInit
<1>2. TimedTypeOK
    BY <1>1, TimerAssumption DEF TimedInit, TimedTypeOK, IInv
<1>3. TimerFollows /\ FiredIsDue /\ TriesFailed
    BY DEF TimedInit, TimerFollows, FiredIsDue, TriesFailed
<1> QED BY <1>1, <1>2, <1>3 DEF TimedIInv

(* A step of the orders leaves the timer as it is.                         *)
LEMMA TimerWaits ==
    ASSUME TimedIInv, [Next]_vars, UNCHANGED timer
    PROVE  TimedIInv'
<1> USE DEF TimedIInv, timer
<1>1. IInv' /\ TimedTypeOK'
    BY OrdersMove DEF IInv, TimedTypeOK
<1>2. TimerFollows' /\ TriesFailed'
    BY OrdersMove DEF TimerFollows, TriesFailed
<1>3. FiredIsDue'
    BY OrdersMove DEF FiredIsDue, TimerFollows, TimedTypeOK
<1> QED BY <1>1, <1>2, <1>3

(* The consumer: the record moves, the task is enqueued.                   *)
LEMMA ConsumerHolds ==
    ASSUME TimedIInv, NEW o \in Orders,
           \/ CreatedPublished(o) \/ ScheduleExpiration(o) \/ ScheduleFails(o) \/ PublishToDLQ(o)
           \/ PublishToDLQFails(o) \/ Shutdown(o) \/ Unreadable(o) \/ Redelivered(o)
    PROVE  TimedIInv'
<1> USE DEF TimedIInv, vars
<1>1. UNCHANGED vars
    BY DEF CreatedPublished, ScheduleExpiration, ScheduleFails, PublishToDLQ, PublishToDLQFails,
       Shutdown, Unreadable, Redelivered, Mishap
<1>2. IInv'
    BY <1>1, NextHolds
<1>3. UNCHANGED <<retried, fired>>
    BY DEF CreatedPublished, ScheduleExpiration, ScheduleFails, PublishToDLQ, PublishToDLQFails,
       Shutdown, Unreadable, Redelivered
<1>4. /\ record \in [Orders -> {"none", "due", "passed", "dropped"}]
      /\ tries \in [Orders -> 0..MaxTries]
      /\ task \in [Orders -> {"none", "scheduled", "done", "archived", "lost"}]
      /\ mishaps \in 0..MaxMishaps /\ MaxTries \in Nat /\ MaxMishaps \in Nat
    BY TimerAssumption DEF TimedTypeOK
<1>5. status[o] # "NONE"
  <2>1. CASE CreatedPublished(o)
    BY <2>1 DEF CreatedPublished, IInv, OneOutcome
  <2>2. CASE record[o] # "none"
    BY <2>2 DEF TimerFollows
  <2>3. record[o] # "none" \/ CreatedPublished(o)
    BY DEF ScheduleExpiration, ScheduleFails, PublishToDLQ, PublishToDLQFails, Shutdown, Unreadable,
       Redelivered, TimerFollows
  <2> QED BY <2>1, <2>2, <2>3
<1>6. /\ record' \in [Orders -> {"none", "due", "passed", "dropped"}]
      /\ \A p \in Orders : p # o => record'[p] = record[p]
    BY <1>4 DEF CreatedPublished, ScheduleExpiration, ScheduleFails, PublishToDLQ, PublishToDLQFails,
       Shutdown, Unreadable, Redelivered, Leave
<1>7. /\ task' \in [Orders -> {"none", "scheduled", "done", "archived", "lost"}]
      /\ \A p \in Orders : p # o => task'[p] = task[p]
    BY <1>4 DEF CreatedPublished, ScheduleExpiration, ScheduleFails, PublishToDLQ, PublishToDLQFails,
       Shutdown, Unreadable, Redelivered, Enqueue
<1>8. mishaps' \in 0..MaxMishaps /\ mishaps' >= mishaps
    BY <1>4 DEF CreatedPublished, ScheduleExpiration, ScheduleFails, PublishToDLQ, PublishToDLQFails,
       Shutdown, Unreadable, Redelivered, Mishap
<1>9. \/ tries' = tries /\ ~ScheduleFails(o)
      \/ tries' = [tries EXCEPT ![o] = 0]
      \/ /\ tries' = [tries EXCEPT ![o] = @ + 1] /\ tries[o] < MaxTries
         /\ mishaps' = mishaps + 1 /\ record' = record /\ record[o] = "due"
    BY DEF CreatedPublished, ScheduleExpiration, ScheduleFails, PublishToDLQ, PublishToDLQFails,
       Shutdown, Unreadable, Redelivered, Leave, Mishap
<1>10. /\ tries' \in [Orders -> 0..MaxTries]
       /\ \A p \in Orders : tries'[p] <= mishaps'
       /\ \A p \in Orders : tries'[p] > tries[p] => p = o /\ record'[p] = "due"
  <2>1. \A p \in Orders : tries[p] \in 0..MaxTries /\ tries[p] <= mishaps
    BY <1>4 DEF TriesFailed
  <2>2. CASE tries' = tries
    BY <1>4, <1>8, <2>1, <2>2
  <2>3. CASE tries' = [tries EXCEPT ![o] = 0]
    BY <1>4, <1>8, <2>1, <2>3
  <2>4. CASE /\ tries' = [tries EXCEPT ![o] = @ + 1] /\ tries[o] < MaxTries
             /\ mishaps' = mishaps + 1 /\ record' = record /\ record[o] = "due"
    BY <1>4, <2>1, <2>4
  <2> QED BY <1>9, <2>2, <2>3, <2>4
<1>11. TimedTypeOK'
  <2>1. deadLetters' \subseteq Orders
    BY DEF CreatedPublished, ScheduleExpiration, ScheduleFails, PublishToDLQ, PublishToDLQFails,
       MayDeadLetter, Shutdown, Unreadable, Redelivered, TimedTypeOK
  <2>2. retried' \in [Orders -> 0..MaxRetry] /\ fired' \subseteq Orders
    BY <1>3 DEF TimedTypeOK
  <2>3. TypeOK'
    BY <1>2 DEF IInv
  <2> QED BY <1>6, <1>7, <1>8, <1>10, <2>1, <2>2, <2>3 DEF TimedTypeOK
<1>12. \A p \in Orders : tries'[p] > 0 => record'[p] = "due"
  <2>1. \A p \in Orders : tries[p] > 0 => record[p] = "due"
    BY DEF TimerFollows
  <2>2. CASE tries' = tries /\ ~ScheduleFails(o)
    <3>1. tries[o] > 0 => record'[o] = "due"
      BY <1>4, <2>1, <2>2 DEF CreatedPublished, ScheduleExpiration, PublishToDLQ, PublishToDLQFails,
         Shutdown, Unreadable, Redelivered, Leave
    <3> QED BY <1>6, <2>1, <2>2, <3>1
  <2>3. CASE tries' = [tries EXCEPT ![o] = 0]
    BY <1>4, <1>6, <2>1, <2>3
  <2>4. CASE /\ tries' = [tries EXCEPT ![o] = @ + 1] /\ record' = record /\ record[o] = "due"
    BY <1>4, <2>1, <2>4
  <2> QED BY <1>9, <2>2, <2>3, <2>4
<1>13. TimerFollows' /\ FiredIsDue' /\ TriesFailed'
  <2>1. TimerFollows'
    BY <1>1, <1>3, <1>5, <1>6, <1>7, <1>12 DEF TimerFollows
  <2>2. FiredIsDue'
    BY <1>1, <1>3 DEF FiredIsDue, Due, IsAwaitingPayment
  <2>3. TriesFailed'
    BY <1>10 DEF TriesFailed
  <2> QED BY <2>1, <2>2, <2>3
<1> QED BY <1>2, <1>11, <1>13

(* The asynq worker: a task that is due publishes the event.               *)
LEMMA WorkerHolds ==
    ASSUME TimedIInv, NEW o \in Orders, ProcessTask(o) \/ ProcessTaskFails(o) \/ TaskLost(o)
    PROVE  TimedIInv'
<1> USE DEF TimedIInv, vars
<1>1. UNCHANGED vars /\ UNCHANGED <<record, tries, deadLetters>>
    BY DEF ProcessTask, ProcessTaskFails, TaskLost, Mishap
<1>2. IInv'
    BY <1>1, NextHolds
<1>3. task[o] = "scheduled" /\ status[o] # "NONE"
    BY DEF ProcessTask, ProcessTaskFails, TaskLost, TimerFollows
<1>4. fired' \subseteq fired \cup {o} /\ (fired' # fired => Due(o))
    BY DEF ProcessTask, ProcessTaskFails, TaskLost
<1>5. mishaps' \in 0..MaxMishaps /\ mishaps' >= mishaps
    BY TimerAssumption DEF ProcessTask, ProcessTaskFails, TaskLost, Mishap, TimedTypeOK
<1>6. /\ task' \in [Orders -> {"none", "scheduled", "done", "archived", "lost"}]
      /\ \A p \in Orders : p # o => task'[p] = task[p]
    BY DEF ProcessTask, ProcessTaskFails, TaskLost, Retry, TimedTypeOK
<1>7. retried' \in [Orders -> 0..MaxRetry]
    BY TimerAssumption DEF ProcessTask, ProcessTaskFails, TaskLost, Retry, TimedTypeOK
<1>8. TimedTypeOK'
  <2>1. TypeOK'
    BY <1>2 DEF IInv
  <2> QED BY <1>1, <1>4, <1>5, <1>6, <1>7, <2>1 DEF TimedTypeOK
<1>9. TimerFollows'
    BY <1>1, <1>3, <1>4, <1>6 DEF TimerFollows
<1>10. FiredIsDue'
    BY <1>1, <1>4 DEF FiredIsDue, Due, IsAwaitingPayment
<1>11. TriesFailed'
  <2>1. \A p \in Orders : tries[p] \in Nat /\ tries[p] <= mishaps
    BY TimerAssumption DEF TimedTypeOK, TriesFailed
  <2>2. mishaps \in Nat /\ mishaps' \in Nat
    BY <1>5, TimerAssumption DEF TimedTypeOK
  <2> QED BY <1>1, <1>5, <2>1, <2>2 DEF TriesFailed
<1> QED BY <1>2, <1>8, <1>9, <1>10, <1>11

(* The consumer of the order-service takes the event off.                  *)
LEMMA EventTaken ==
    ASSUME TimedIInv, NEW o \in Orders, ExpirationArrives(o) \/ ExpirationIgnored(o)
    PROVE  TimedIInv'
<1> USE DEF TimedIInv
<1>1. [Next]_vars
    BY ArrivesInTime DEF ExpirationIgnored
<1>2. UNCHANGED <<record, tries, deadLetters, task, retried, mishaps>> /\ fired' \subseteq fired
    BY DEF ExpirationArrives, ExpirationIgnored
<1>3. IInv' /\ TimedTypeOK'
    BY <1>1, <1>2, OrdersMove DEF IInv, TimedTypeOK
<1>4. TimerFollows' /\ TriesFailed'
    BY <1>1, <1>2, OrdersMove DEF TimerFollows, TriesFailed
<1>5. FiredIsDue'
    BY <1>1, <1>2, OrdersMove DEF FiredIsDue, TimerFollows, TimedTypeOK
<1> QED BY <1>3, <1>4, <1>5

LEMMA TimedNextHolds == ASSUME TimedIInv, [TimedNext]_timedVars PROVE TimedIInv'
<1>1. CASE UntimedStep /\ UNCHANGED timer
    BY <1>1, TimedIsNext, TimerWaits DEF TimedNext
<1>2. CASE UNCHANGED timedVars
    BY <1>2, TimerWaits DEF timedVars
<1>3. ASSUME NEW o \in Orders, TimerStep(o) \/ TimerFails(o) PROVE TimedIInv'
    BY <1>3, ConsumerHolds, WorkerHolds, EventTaken DEF TimerStep, TimerFails
<1> QED BY <1>1, <1>2, <1>3 DEF TimedNext

LEMMA TimedInvariance == TimedSpec => []TimedIInv
BY TimedInitHolds, TimedNextHolds, PTL DEF TimedSpec

(* The expiration-service with its retries, redeliveries and losses sends  *)
(* an order no event that expireOrder does not allow for: its steps and    *)
(* the orders' together are steps of OrderSaga, and the theorems about     *)
(* OrderSaga hold with it.                                                 *)
THEOREM TimerImplements == TimedSpec => KeepsSaga
<1>1. TimedInit => Init
    BY DEF TimedInit
<1> QED BY <1>1, TimedIsNext, TimedInvariance, PTL DEF TimedSpec, KeepsSaga, Spec

(* What one step does to the record of an order and to what it left.       *)
LEMMA RecordMoves ==
    ASSUME TimedIInv, [TimedNext]_timedVars, NEW o \in Orders
    PROVE  /\ task[o] # "none" => task'[o] # "none"
           /\ deadLetters \subseteq deadLetters'
           /\ mishaps \in Nat /\ mishaps' \in Nat /\ mishaps' >= mishaps
           /\ record'[o] = "passed" =>
                \/ record[o] = "passed"
                \/ task'[o] # "none" \/ o \in deadLetters'
                \/ tries[o] = MaxTries /\ mishaps' = mishaps + 1
<1> USE DEF TimedIInv
<1>1. /\ record \in [Orders -> {"none", "due", "passed", "dropped"}]
      /\ task \in [Orders -> {"none", "scheduled", "done", "archived", "lost"}]
      /\ mishaps \in Nat
    BY TimerAssumption DEF TimedTypeOK
<1>2. ASSUME UNCHANGED timer PROVE UNCHANGED <<record, deadLetters, task, mishaps>>
    BY <1>2 DEF timer
<1>3. ASSUME NEW p \in Orders, ScheduleExpiration(p) \/ PublishToDLQ(p)
      PROVE  /\ task[o] # "none" => task'[o] # "none"
             /\ deadLetters \subseteq deadLetters' /\ mishaps' = mishaps
             /\ record'[o] = record[o] \/ task'[o] # "none" \/ o \in deadLetters'
    BY <1>1, <1>3 DEF ScheduleExpiration, PublishToDLQ, Leave, Enqueue
<1>4. ASSUME NEW p \in Orders, CreatedPublished(p) \/ ScheduleFails(p) \/ Redelivered(p)
      PROVE  /\ task[o] # "none" => task'[o] # "none"
             /\ deadLetters' = deadLetters /\ mishaps' \in {mishaps, mishaps + 1}
             /\ record'[o] # "passed" \/ record[o] = "passed"
    BY <1>1, <1>4 DEF CreatedPublished, ScheduleFails, Redelivered, Enqueue, Mishap
<1>5. ASSUME NEW p \in Orders, Shutdown(p) \/ Unreadable(p)
      PROVE  /\ task[o] # "none" => task'[o] # "none"
             /\ deadLetters \subseteq deadLetters' /\ mishaps' = mishaps + 1
             /\ record'[o] # "passed" \/ record[o] = "passed"
    BY <1>1, <1>5 DEF Shutdown, Unreadable, MayDeadLetter, Leave, Enqueue, Mishap
<1>6. ASSUME NEW p \in Orders, PublishToDLQFails(p)
      PROVE  /\ task' = task /\ deadLetters \subseteq deadLetters' /\ mishaps' = mishaps + 1
             /\ p # o => record'[o] = record[o]
             /\ tries[p] = MaxTries
    BY <1>1, <1>6 DEF PublishToDLQFails, MayDeadLetter, Leave, Mishap
<1>7. ASSUME NEW p \in Orders, \/ ProcessTask(p) \/ ProcessTaskFails(p) \/ TaskLost(p)
                               \/ ExpirationArrives(p) \/ ExpirationIgnored(p)
      PROVE  /\ task[o] # "none" => task'[o] # "none"
             /\ UNCHANGED <<record, deadLetters>> /\ mishaps' \in {mishaps, mishaps + 1}
    BY <1>1, <1>7 DEF ProcessTask, ProcessTaskFails, TaskLost, Retry, Mishap, ExpirationArrives,
       ExpirationIgnored
<1>8. \/ UNCHANGED timer
      \/ \E p \in Orders :
           \/ ScheduleExpiration(p) \/ PublishToDLQ(p)
           \/ CreatedPublished(p) \/ ScheduleFails(p) \/ Redelivered(p)
           \/ Shutdown(p) \/ Unreadable(p)
           \/ PublishToDLQFails(p)
           \/ ProcessTask(p) \/ ProcessTaskFails(p) \/ TaskLost(p)
           \/ ExpirationArrives(p) \/ ExpirationIgnored(p)
    BY DEF TimedNext, timedVars, TimerStep, TimerFails
<1> QED BY <1>1, <1>2, <1>3, <1>4, <1>5, <1>6, <1>7, <1>8

LEMMA KeptTimer == ASSUME TimedIInv, TimerKept, [TimedNext]_timedVars PROVE TimerKept'
<1> SUFFICES ASSUME NEW o \in Orders, record'[o] = "passed"
             PROVE  task'[o] # "none" \/ o \in deadLetters' \/ mishaps' > MaxTries
    BY DEF TimerKept
<1>1. MaxTries \in Nat /\ tries[o] <= mishaps
    BY TimerAssumption DEF TimedIInv, TriesFailed
<1>2. CASE record[o] = "passed"
    BY <1>1, <1>2, RecordMoves DEF TimerKept
<1>3. CASE tries[o] = MaxTries /\ mishaps' = mishaps + 1
    BY <1>1, <1>3, RecordMoves
<1> QED BY <1>2, <1>3, RecordMoves

(* A record that the expiration-service has tried to the end has its task  *)
(* in Redis or is in the dead letters, or every try and the dead letter    *)
(* failed, for every number of tries and whatever is repeated.             *)
THEOREM TimersKept == TimedSpec => []TimerKept
<1>1. TimedInit => TimerKept
    BY DEF TimedInit, TimerKept
<1> QED BY <1>1, TimedInvariance, KeptTimer, PTL DEF TimedSpec

-----------------------------------------------------------------------------
(* The order and the money of its buyer, with the timer: a completed order *)
(* is paid and stays so; only a cancelled one is refunded.                 *)
CompleteIsPaid == \A o \in Orders : status[o] = "COMPLETE" => payment[o] = "captured"
RefundedIsCancelled == \A o \in Orders : payment[o] = "refunded" => status[o] = "CANCELLED"
MoneyFollowsOrder == CompleteIsPaid /\ RefundedIsCancelled

LEMMA PaidStep ==
    ASSUME IInv, CompleteIsPaid, [Next]_vars
    PROVE  CompleteIsPaid'
<1>1. CASE NoEffect
    BY <1>1 DEF NoEffect, CompleteIsPaid
<1>2. ASSUME NEW o \in Orders, Effect(o) PROVE CompleteIsPaid'
  <2>1. Moved(o) => status[o] # "COMPLETE" \/ payment[o] # "captured"
    <3> SUFFICES ASSUME status[o] = "COMPLETE" PROVE ~(Owing(o) > 0)
      BY DEF Moved
    <3> QED BY DEF IInv, OneOutcome, Owing
  <2> QED BY <1>2, <2>1 DEF Effect, Others, Opened, Awaited, Cancelled, Completed, Owed, Moved,
         CompleteIsPaid, IsAwaitingPayment
<1> QED BY <1>1, <1>2, StepEffect

(* In OrderSaga as with the timer, whatever fails: nobody has a completed  *)
(* order without having paid for it, or the money back without the order   *)
(* being cancelled.                                                        *)
THEOREM MoneyStaysWithOrder == TimedSpec => []MoneyFollowsOrder
<1>1. Init => CompleteIsPaid
    BY DEF Init, CompleteIsPaid
<1>2. IInv /\ CompleteIsPaid => MoneyFollowsOrder
    BY DEF MoneyFollowsOrder, RefundedIsCancelled, IInv, PaidExists, OneOutcome
<1> QED BY <1>1, <1>2, Invariance, PaidStep, TimerImplements, PTL DEF KeepsSaga, Spec

(* The variables of the expiration-service keep their types.               *)
THEOREM TimerTypes == TimedSpec => []TimedTypeOK
BY TimedInvariance, PTL DEF TimedIInv
=============================================================================
