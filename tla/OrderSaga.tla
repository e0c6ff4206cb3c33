----------------------------- MODULE OrderSaga -----------------------------
(***************************************************************************)
(* The life of orders in the order-service.                                *)
(*                                                                         *)
(* An order is created in two steps that share no transaction: the         *)
(* inventory owner (ticket-service or venue-service) reserves by gRPC, and *)
(* then one database transaction inserts the order and its outbox event.   *)
(* From there on HTTP handlers, Kafka consumers and scheduled jobs of all  *)
(* replicas race for its row.  Cancelling, payment-failed and              *)
(* payment-initiated read the row and write it back under its @Version;    *)
(* markComplete and expireOrder lock it.  markComplete calls the inventory *)
(* owner while it holds the lock and before its transaction commits.       *)
(*                                                                         *)
(* An order o stands for one reservation id.  Events that the service      *)
(* wrote to its outbox, and payment events, are counted and never removed: *)
(* a consumer may see each of them at any later time, in any order and     *)
(* more than once.                                                         *)
(***************************************************************************)
EXTENDS Integers, FiniteSets

CONSTANTS
    Workers,        \* threads serving HTTP calls and Kafka records, all replicas
    Orders,
    Life,           \* ticks from insert to expiresAt
    PaymentGrace,   \* ticks past expiresAt an order awaiting payment stays open
    Buffer,         \* ticks the reservation is asked for beyond Life
    SweepGrace,     \* ticks past expiresAt before the sweep takes a CREATED order
    MaxAttempts,    \* deliveries of a record before it goes to the DLQ
    Faults,         \* the kinds of fault that may happen
    MaxFaults,      \* how many of them, in all
    NoOne, NoOrder

FaultKinds == {"crash", "reserveLost", "txFail", "txLost", "releaseFail",
               "finalizeFail", "finalizeLost"}

ASSUME SetsAssumption ==
    /\ NoOne \notin Workers /\ NoOrder \notin Orders
    /\ Faults \subseteq FaultKinds

(* The constructor refuses a payment grace that does not fit the buffer.   *)
ASSUME TimesAssumption ==
    /\ {Life, PaymentGrace, Buffer, SweepGrace, MaxAttempts, MaxFaults} \subseteq Nat
    /\ PaymentGrace < Buffer /\ Buffer <= SweepGrace

VARIABLES
    status, reason, \* the order row (NONE: no row) and its cancel reason
    lock,           \* the worker whose transaction holds the row lock
    orderAge,       \* ticks since the row was inserted
    events,         \* outbox rows written for the order, by topic
    reservation,    \* the owner's record of the reservation
    resAge,         \* ticks since it was made
    payment,        \* the payment-service's view of the order's payment
    attempts,       \* failed deliveries of payments.payment.captured
    asked,          \* orders somebody has asked to create
    keyed,          \* those asked for with an Idempotency-Key; never changes
    job,            \* what each worker is doing, and to which order
    fresh,          \* workers whose copy of the row has the current version
    faultCount

row == <<status, reason, events>>
ages == <<orderAge, resAge>>
calls == <<asked, keyed>>
vars == <<status, reason, lock, orderAge, events, reservation, resAge, payment,
          attempts, asked, keyed, job, fresh, faultCount>>

Statuses == {"NONE", "CREATED", "AWAITING_PAYMENT", "COMPLETE", "CANCELLED"}
CancelReasons == {"none", "EXPIRED", "PAYMENT_FAILED", "CANCELLED_BY_USER",
                  "UNFULFILLABLE_REFUNDED"}
Topics == {"created", "cancelled", "completed", "unfulfillable"}
Labels == {"idle", "reserve", "insert", "compensate", "cancel", "await", "fail",
           "finalize", "complete", "refuse"}

Job(pc, o) == [pc |-> pc, order |-> o]
IdleJob == Job("idle", NoOrder)
At(w, label) == job[w].pc = label
OrderOf(w) == job[w].order
Become(w, pc, o) == job' = [job EXCEPT ![w] = Job(pc, o)]
Goto(w, label) == Become(w, label, OrderOf(w))
Done(w) == job' = [job EXCEPT ![w] = IdleJob]

IsAwaitingPayment(o) == status[o] \in {"CREATED", "AWAITING_PAYMENT"}
IsTerminal(o) == status[o] \in {"COMPLETE", "CANCELLED"}

(* getOrder and the sweep: the payment window has closed.                  *)
WindowClosed(o) == orderAge[o] >= Life + PaymentGrace

IsInPaymentGrace(o) == status[o] = "AWAITING_PAYMENT" /\ ~WindowClosed(o)

(* A committed write bumps the row's version.                              *)
BumpVersion(o) == fresh' = {w \in fresh : OrderOf(w) # o}

(* The service writes its outbox in the transaction of the change.         *)
WriteOutbox(o, topics) ==
    events' = [events EXCEPT ![o] = [t \in Topics |-> @[t] + (IF t \in topics THEN 1 ELSE 0)]]

Fault(kind) ==
    /\ kind \in Faults /\ faultCount < MaxFaults
    /\ faultCount' = faultCount + 1

-----------------------------------------------------------------------------
(* createOrder and createSeatedOrder: reserve, then insert.                *)

(* Without a key the reservation id is random: nobody asks for it twice.   *)
(* With a key, an existing order is replayed and nothing changes.          *)
CreateOrder(w, o) ==
    /\ At(w, "idle")
    /\ status[o] = "NONE"
    /\ o \in keyed \/ o \notin asked
    /\ asked' = asked \cup {o}
    /\ Become(w, "reserve", o)
    /\ UNCHANGED <<row, lock, ages, reservation, payment, attempts, keyed, fresh, faultCount>>

ReserveWrite(o) ==
    /\ reservation[o] = "NONE"
    /\ reservation' = [reservation EXCEPT ![o] = "RESERVED"]

Reserve(w) ==
    /\ At(w, "reserve")
    /\ ReserveWrite(OrderOf(w))
    /\ Goto(w, "insert")
    /\ UNCHANGED <<row, lock, ages, payment, attempts, calls, fresh, faultCount>>

(* The same id again, still reserved: success, and the expiry of the first *)
(* call stays.                                                             *)
ReserveDuplicate(w) ==
    /\ At(w, "reserve")
    /\ reservation[OrderOf(w)] = "RESERVED"
    /\ Goto(w, "insert")
    /\ UNCHANGED <<row, lock, ages, reservation, payment, attempts, calls, fresh, faultCount>>

(* Sold out, over a limit, unavailable, or the key is exhausted.           *)
ReserveRefused(w) ==
    /\ At(w, "reserve")
    /\ Done(w)
    /\ UNCHANGED <<row, lock, ages, reservation, payment, attempts, calls, fresh, faultCount>>

ReserveLost(w) ==
    /\ Fault("reserveLost")
    /\ At(w, "reserve")
    /\ ReserveWrite(OrderOf(w))
    /\ Done(w)
    /\ UNCHANGED <<row, lock, ages, payment, attempts, calls, fresh>>

(* createOrderTransactional and createSeatedOrderTransactional             *)
InsertRow(o) ==
    /\ status[o] = "NONE"
    /\ status' = [status EXCEPT ![o] = "CREATED"]
    /\ WriteOutbox(o, {"created"})

Insert(w) ==
    /\ At(w, "insert")
    /\ InsertRow(OrderOf(w))
    /\ Done(w)
    /\ UNCHANGED <<reason, lock, ages, reservation, payment, attempts, calls, fresh, faultCount>>

(* uq_orders_reservation_id: the loser returns the winner's order.         *)
InsertDuplicate(w) ==
    /\ At(w, "insert")
    /\ status[OrderOf(w)] # "NONE"
    /\ Done(w)
    /\ UNCHANGED <<row, lock, ages, reservation, payment, attempts, calls, fresh, faultCount>>

(* Mutant: a keyed request compensates as well.                            *)
AfterFailureMutant(w) == Goto(w, "compensate")

(* A keyed request never compensates: its reservation may be a sibling's.  *)
AfterFailure(w) == IF OrderOf(w) \in keyed THEN Done(w) ELSE Goto(w, "compensate")

TxFail(w) ==
    /\ Fault("txFail")
    /\ At(w, "insert")
    /\ AfterFailure(w)
    /\ UNCHANGED <<row, lock, ages, reservation, payment, attempts, calls, fresh>>

(* The commit was applied but reported as failed.                          *)
TxLost(w) ==
    /\ Fault("txLost")
    /\ At(w, "insert")
    /\ InsertRow(OrderOf(w))
    /\ AfterFailure(w)
    /\ UNCHANGED <<reason, lock, ages, reservation, payment, attempts, calls, fresh>>

(* ReleaseReservation of the owner: only a live reservation is released.   *)
Released(o) ==
    [reservation EXCEPT ![o] = IF @ = "RESERVED" THEN "RELEASED" ELSE @]

Compensate(w) ==
    /\ At(w, "compensate")
    /\ reservation' = Released(OrderOf(w))
    /\ Done(w)
    /\ UNCHANGED <<row, lock, ages, payment, attempts, calls, fresh, faultCount>>

(* Best effort: the failure is logged and counted.                         *)
CompensateFails(w) ==
    /\ Fault("releaseFail")
    /\ At(w, "compensate")
    /\ Done(w)
    /\ UNCHANGED <<row, lock, ages, reservation, payment, attempts, calls, fresh>>

-----------------------------------------------------------------------------
(* cancelOrder, markAwaitingPayment and markPaymentFailed read the row     *)
(* without a lock; their write carries the version that was read.          *)

ReadRow(w, o, label) ==
    /\ At(w, "idle")
    /\ Become(w, label, o)
    /\ fresh' = fresh \cup {w}
    /\ UNCHANGED <<row, lock, ages, reservation, payment, attempts, calls, faultCount>>

CancelOrder(w, o) ==
    /\ status[o] # "NONE" /\ ~IsTerminal(o)
    /\ ReadRow(w, o, "cancel")

MarkAwaitingPayment(w, o) ==
    /\ payment[o] # "none"
    /\ status[o] = "CREATED"
    /\ ReadRow(w, o, "await")

MarkPaymentFailed(w, o) ==
    /\ payment[o] = "failed"
    /\ IsAwaitingPayment(o)
    /\ ReadRow(w, o, "fail")

(* Mutant: the row has no version.                                         *)
VersionMatchesMutant(w) == TRUE

VersionMatches(w) == w \in fresh

(* The update waits for the row lock.                                      *)
Writable(w, label) ==
    /\ At(w, label)
    /\ lock[OrderOf(w)] = NoOne
    /\ VersionMatches(w)

CancelWith(o, why) ==
    /\ status' = [status EXCEPT ![o] = "CANCELLED"]
    /\ reason' = [reason EXCEPT ![o] = why]
    /\ WriteOutbox(o, {"cancelled"})
    /\ BumpVersion(o)

CommitCancel(w) ==
    /\ Writable(w, "cancel")
    /\ CancelWith(OrderOf(w), "CANCELLED_BY_USER")
    /\ Done(w)
    /\ UNCHANGED <<lock, ages, reservation, payment, attempts, calls, faultCount>>

CommitPaymentFailed(w) ==
    /\ Writable(w, "fail")
    /\ CancelWith(OrderOf(w), "PAYMENT_FAILED")
    /\ Done(w)
    /\ UNCHANGED <<lock, ages, reservation, payment, attempts, calls, faultCount>>

CommitAwaiting(w) ==
    /\ Writable(w, "await")
    /\ status' = [status EXCEPT ![OrderOf(w)] = "AWAITING_PAYMENT"]
    /\ BumpVersion(OrderOf(w))
    /\ Done(w)
    /\ UNCHANGED <<reason, events, lock, ages, reservation, payment, attempts, calls, faultCount>>

(* Optimistic lock failure: the call fails, a Kafka record is redelivered. *)
WriteConflict(w) ==
    /\ job[w].pc \in {"cancel", "await", "fail"}
    /\ lock[OrderOf(w)] = NoOne
    /\ ~VersionMatches(w)
    /\ Done(w)
    /\ UNCHANGED <<row, lock, ages, reservation, payment, attempts, calls, fresh, faultCount>>

-----------------------------------------------------------------------------
(* markComplete: the row is locked from the read to the commit.            *)

(* The record is delivered again until it succeeds or goes to the DLQ.     *)
CapturedDelivered(o) ==
    /\ payment[o] \in {"captured", "refunded"}
    /\ attempts[o] < MaxAttempts

LockRow(w, o) ==
    /\ At(w, "idle")
    /\ CapturedDelivered(o)
    /\ lock[o] = NoOne
    /\ IsAwaitingPayment(o)
    /\ lock' = [lock EXCEPT ![o] = w]
    /\ Become(w, "finalize", o)
    /\ UNCHANGED <<row, ages, reservation, payment, attempts, calls, fresh, faultCount>>

(* Mutant: the redelivered record is not recognised.                       *)
AlreadySettledMutant(o) == status[o] = "COMPLETE"

(* Mutant: a cancelled order counts as settled.                            *)
TerminalIsSettledMutant(o) == IsTerminal(o)

AlreadySettled(o) == status[o] = "COMPLETE" \/ reason[o] = "UNFULFILLABLE_REFUNDED"

(* A captured payment for a cancelled order: one transaction, no call out. *)
MarkUnfulfillable(o) ==
    /\ CapturedDelivered(o)
    /\ lock[o] = NoOne
    /\ status[o] # "NONE" /\ ~AlreadySettled(o) /\ ~IsAwaitingPayment(o)
    /\ reason' = [reason EXCEPT ![o] = "UNFULFILLABLE_REFUNDED"]
    /\ WriteOutbox(o, {"unfulfillable"})
    /\ BumpVersion(o)
    /\ UNCHANGED <<status, lock, ages, reservation, payment, attempts, calls, job, faultCount>>

(* FinalizeReservation of the owner; a sold reservation stays sold.        *)
FinalizeWrite(o) ==
    /\ reservation[o] \in {"RESERVED", "SOLD"}
    /\ reservation' = [reservation EXCEPT ![o] = "SOLD"]

Finalize(w) ==
    /\ At(w, "finalize")
    /\ FinalizeWrite(OrderOf(w))
    /\ Goto(w, "complete")
    /\ UNCHANGED <<row, lock, ages, payment, attempts, calls, fresh, faultCount>>

(* Mutant: a reservation that is gone counts as finalized.                 *)
FinalizeRefusedMutant(w) ==
    /\ At(w, "finalize")
    /\ reservation[OrderOf(w)] \notin {"RESERVED", "SOLD"}
    /\ Goto(w, "complete")
    /\ UNCHANGED <<row, lock, ages, reservation, payment, attempts, calls, fresh, faultCount>>

(* FAILED_PRECONDITION or NOT_FOUND: the reservation is gone.              *)
FinalizeRefused(w) ==
    /\ At(w, "finalize")
    /\ reservation[OrderOf(w)] \notin {"RESERVED", "SOLD"}
    /\ Goto(w, "refuse")
    /\ UNCHANGED <<row, lock, ages, reservation, payment, attempts, calls, fresh, faultCount>>

Complete(w) ==
    LET o == OrderOf(w) IN
    /\ At(w, "complete")
    /\ status' = [status EXCEPT ![o] = "COMPLETE"]
    /\ WriteOutbox(o, {"completed"})
    /\ BumpVersion(o)
    /\ lock' = [lock EXCEPT ![o] = NoOne]
    /\ Done(w)
    /\ UNCHANGED <<reason, ages, reservation, payment, attempts, calls, faultCount>>

(* Cancelled and unfulfillable in one transaction.                         *)
Refuse(w) ==
    LET o == OrderOf(w) IN
    /\ At(w, "refuse")
    /\ status' = [status EXCEPT ![o] = "CANCELLED"]
    /\ reason' = [reason EXCEPT ![o] = "UNFULFILLABLE_REFUNDED"]
    /\ WriteOutbox(o, {"cancelled", "unfulfillable"})
    /\ BumpVersion(o)
    /\ lock' = [lock EXCEPT ![o] = NoOne]
    /\ Done(w)
    /\ UNCHANGED <<ages, reservation, payment, attempts, calls, faultCount>>

(* Mutant: the failed transaction stays open.                              *)
DeliveryFailsMutant(w) ==
    /\ attempts' = [attempts EXCEPT ![OrderOf(w)] = @ + 1]
    /\ Done(w)
    /\ UNCHANGED <<row, lock, ages, payment, calls, fresh>>

(* An exception rolls the transaction back and fails the delivery.         *)
DeliveryFails(w) ==
    /\ attempts' = [attempts EXCEPT ![OrderOf(w)] = @ + 1]
    /\ lock' = [lock EXCEPT ![OrderOf(w)] = NoOne]
    /\ Done(w)
    /\ UNCHANGED <<row, ages, payment, calls, fresh>>

FinalizeFails(w) ==
    /\ Fault("finalizeFail")
    /\ At(w, "finalize")
    /\ DeliveryFails(w)
    /\ UNCHANGED reservation

(* The owner sold it, but the call ran into its deadline.                  *)
FinalizeLost(w) ==
    /\ Fault("finalizeLost")
    /\ At(w, "finalize")
    /\ FinalizeWrite(OrderOf(w))
    /\ DeliveryFails(w)

CommitFails(w) ==
    /\ Fault("txFail")
    /\ job[w].pc \in {"complete", "refuse"}
    /\ DeliveryFails(w)
    /\ UNCHANGED reservation

-----------------------------------------------------------------------------
(* expireOrder: one transaction under the row lock.  It is reached from    *)
(* three places.                                                           *)

(* Mutant: the row is read without FOR UPDATE.                             *)
ExpireMutant(o) ==
    /\ status[o] # "NONE" /\ ~IsTerminal(o) /\ ~IsInPaymentGrace(o)
    /\ CancelWith(o, "EXPIRED")
    /\ UNCHANGED <<lock, ages, reservation, payment, attempts, calls, job, faultCount>>

Expire(o) ==
    /\ lock[o] = NoOne
    /\ status[o] # "NONE" /\ ~IsTerminal(o) /\ ~IsInPaymentGrace(o)
    /\ CancelWith(o, "EXPIRED")
    /\ UNCHANGED <<lock, ages, reservation, payment, attempts, calls, job, faultCount>>

(* The expiration-service's timer fired; its event may also never come.    *)
OnExpirationComplete(o) == orderAge[o] >= Life /\ Expire(o)

(* A reader found the payment window closed.                               *)
GetOrderExpires(o) == WindowClosed(o) /\ Expire(o)

(* Mutant: the sweep takes only orders that await payment.                 *)
OverdueMutant(o) ==
    /\ orderAge[o] > Life + PaymentGrace
    /\ status[o] = "AWAITING_PAYMENT"

(* The scheduled sweep; the ids of its query may be stale, and Expire      *)
(* looks again.                                                            *)
Overdue(o) ==
    /\ orderAge[o] > Life + PaymentGrace
    /\ status[o] = "AWAITING_PAYMENT" \/ orderAge[o] > Life + SweepGrace

Sweep(o) == Overdue(o) /\ Expire(o)

-----------------------------------------------------------------------------
(* The other services and time.                                            *)

(* charge: the order snapshot comes from getOrder, which does not return a *)
(* payable order once the window has closed.                               *)
Charge(o) ==
    /\ payment[o] = "none"
    /\ IsAwaitingPayment(o) /\ ~WindowClosed(o)
    /\ payment' = [payment EXCEPT ![o] = "pending"]
    /\ UNCHANGED <<row, lock, ages, reservation, attempts, calls, job, fresh, faultCount>>

(* The bank decides, however late.                                         *)
Capture(o) ==
    /\ payment[o] = "pending"
    /\ payment' = [payment EXCEPT ![o] = "captured"]
    /\ UNCHANGED <<row, lock, ages, reservation, attempts, calls, job, fresh, faultCount>>

Decline(o) ==
    /\ payment[o] = "pending"
    /\ payment' = [payment EXCEPT ![o] = "failed"]
    /\ UNCHANGED <<row, lock, ages, reservation, attempts, calls, job, fresh, faultCount>>

(* processOrderUnfulfillableEvent                                          *)
Refund(o) ==
    /\ events[o]["unfulfillable"] > 0
    /\ payment[o] = "captured"
    /\ payment' = [payment EXCEPT ![o] = "refunded"]
    /\ UNCHANGED <<row, lock, ages, reservation, attempts, calls, job, fresh, faultCount>>

(* The owner's consumer of orders.order.cancelled.                         *)
ReleaseCancelled(o) ==
    /\ events[o]["cancelled"] > 0
    /\ reservation[o] = "RESERVED"
    /\ reservation' = Released(o)
    /\ UNCHANGED <<row, lock, ages, payment, attempts, calls, job, fresh, faultCount>>

(* Mutant: the reservation is asked for without the buffer.                *)
ReservationLifeMutant == Life

(* reservationExpiresAt                                                    *)
ReservationLife == Life + Buffer

(* Mutant: the comparison is the wrong way round.                          *)
ReclaimExpiredMutant(o) ==
    /\ reservation[o] = "RESERVED"
    /\ resAge[o] < ReservationLife
    /\ reservation' = Released(o)
    /\ UNCHANGED <<row, lock, ages, payment, attempts, calls, job, fresh, faultCount>>

(* The owner's sweep of expired reservations.                              *)
ReclaimExpired(o) ==
    /\ reservation[o] = "RESERVED"
    /\ resAge[o] >= ReservationLife
    /\ reservation' = Released(o)
    /\ UNCHANGED <<row, lock, ages, payment, attempts, calls, job, fresh, faultCount>>

MaxAge == Life + SweepGrace + 1
Older(age) == IF age < MaxAge THEN age + 1 ELSE age

(* Ages count while somebody looks at them.  A create call has deadlines   *)
(* far below a tick, so none passes between its reservation and its row.   *)
Tick ==
    /\ \A w \in Workers : ~At(w, "insert")
    /\ orderAge' = [o \in Orders |-> IF IsAwaitingPayment(o) THEN Older(orderAge[o]) ELSE orderAge[o]]
    /\ resAge' = [o \in Orders |-> IF reservation[o] = "RESERVED" THEN Older(resAge[o]) ELSE resAge[o]]
    /\ ages' # ages
    /\ UNCHANGED <<row, lock, reservation, payment, attempts, calls, job, fresh, faultCount>>

(* The replica dies: its transactions are rolled back and its locks freed. *)
(* The delivery count of a record lives in its memory.                     *)
Crash(w) ==
    /\ Fault("crash")
    /\ ~At(w, "idle")
    /\ Done(w)
    /\ lock' = [o \in Orders |-> IF lock[o] = w THEN NoOne ELSE lock[o]]
    /\ fresh' = fresh \ {w}
    /\ UNCHANGED <<row, ages, reservation, payment, attempts, calls>>

-----------------------------------------------------------------------------
Init ==
    /\ status = [o \in Orders |-> "NONE"]
    /\ reason = [o \in Orders |-> "none"]
    /\ lock = [o \in Orders |-> NoOne]
    /\ orderAge = [o \in Orders |-> 0]
    /\ events = [o \in Orders |-> [t \in Topics |-> 0]]
    /\ reservation = [o \in Orders |-> "NONE"]
    /\ resAge = [o \in Orders |-> 0]
    /\ payment = [o \in Orders |-> "none"]
    /\ attempts = [o \in Orders |-> 0]
    /\ asked = {} /\ keyed \in SUBSET Orders
    /\ job = [w \in Workers |-> IdleJob]
    /\ fresh = {}
    /\ faultCount = 0

(* A request or a record reaches an idle worker.                           *)
Request(w, o) ==
    \/ CreateOrder(w, o) \/ CancelOrder(w, o)
    \/ MarkAwaitingPayment(w, o) \/ MarkPaymentFailed(w, o) \/ LockRow(w, o)

(* A busy worker takes its next step.                                      *)
WorkerStep(w) ==
    \/ Reserve(w) \/ ReserveDuplicate(w) \/ ReserveRefused(w)
    \/ Insert(w) \/ InsertDuplicate(w) \/ Compensate(w)
    \/ CommitCancel(w) \/ CommitPaymentFailed(w) \/ CommitAwaiting(w) \/ WriteConflict(w)
    \/ Finalize(w) \/ FinalizeRefused(w) \/ Complete(w) \/ Refuse(w)

RowStep(o) ==
    MarkUnfulfillable(o) \/ OnExpirationComplete(o) \/ GetOrderExpires(o) \/ Sweep(o)

OutsideStep(o) ==
    \/ Charge(o) \/ Capture(o) \/ Decline(o) \/ Refund(o)
    \/ ReleaseCancelled(o) \/ ReclaimExpired(o)

FaultStep(w) ==
    \/ Crash(w) \/ ReserveLost(w) \/ TxFail(w) \/ TxLost(w) \/ CompensateFails(w)
    \/ FinalizeFails(w) \/ FinalizeLost(w) \/ CommitFails(w)

Next ==
    \/ \E w \in Workers : \E o \in Orders : Request(w, o)
    \/ \E w \in Workers : WorkerStep(w) \/ FaultStep(w)
    \/ \E o \in Orders : RowStep(o) \/ OutsideStep(o)
    \/ Tick

Spec == Init /\ [][Next]_vars

(* Busy threads are scheduled, time passes, the scheduled sweeps run, and  *)
(* Kafka delivers what is not in the DLQ.  Buyers, the bank and the        *)
(* expiration-service owe nothing.                                         *)
Fairness ==
    /\ \A w \in Workers : WF_vars(WorkerStep(w))
    /\ \A o \in Orders :
        /\ WF_vars((\E w \in Workers : LockRow(w, o)) \/ MarkUnfulfillable(o))
        /\ WF_vars(Sweep(o)) /\ WF_vars(Refund(o))
        /\ WF_vars(ReleaseCancelled(o)) /\ WF_vars(ReclaimExpired(o))
    /\ WF_vars(Tick)

FairSpec == Spec /\ Fairness

-----------------------------------------------------------------------------
(* Properties.                                                             *)

(* The steps of markComplete between the lock and the commit.              *)
Locking == {"finalize", "complete", "refuse"}

(* Every variable of the order row, the reservation, the payment and the   *)
(* workers' jobs keeps its type, and only markComplete holds row locks: the *)
(* state of OrderService and of what it calls.                             *)
TypeOK ==
    /\ status \in [Orders -> Statuses]
    /\ reason \in [Orders -> CancelReasons]
    /\ lock \in [Orders -> Workers \cup {NoOne}]
    /\ orderAge \in [Orders -> Nat] /\ resAge \in [Orders -> Nat]
    /\ events \in [Orders -> [Topics -> Nat]]
    /\ reservation \in [Orders -> {"NONE", "RESERVED", "RELEASED", "SOLD"}]
    /\ payment \in [Orders -> {"none", "pending", "captured", "failed", "refunded"}]
    /\ attempts \in [Orders -> Nat]
    /\ asked \subseteq Orders /\ keyed \subseteq Orders
    /\ job \in [Workers -> [pc : Labels, order : Orders \cup {NoOrder}]]
    /\ \A w \in Workers : At(w, "idle") <=> OrderOf(w) = NoOrder
    /\ \A o \in Orders : lock[o] # NoOne =>
           job[lock[o]].order = o /\ job[lock[o]].pc \in Locking
    /\ fresh \subseteq Workers
    /\ faultCount \in 0..MaxFaults

(* Whoever races for the row, its status and reason agree with the events  *)
(* the service has told the others, each of them once: created with the    *)
(* row, completed or cancelled but never both, and unfulfillable exactly   *)
(* when a refund is the reason.                                            *)
OneOutcome ==
    \A o \in Orders :
        /\ events[o]["created"] = (IF status[o] = "NONE" THEN 0 ELSE 1)
        /\ events[o]["completed"] = (IF status[o] = "COMPLETE" THEN 1 ELSE 0)
        /\ events[o]["cancelled"] = (IF status[o] = "CANCELLED" THEN 1 ELSE 0)
        /\ events[o]["unfulfillable"] = (IF reason[o] = "UNFULFILLABLE_REFUNDED" THEN 1 ELSE 0)
        /\ reason[o] # "none" <=> status[o] = "CANCELLED"

(* A paid order is never COMPLETE without its tickets: markComplete        *)
(* finalizes before it completes, and nothing takes a SOLD reservation     *)
(* back.                                                                   *)
CompleteIsSold == \A o \in Orders : status[o] = "COMPLETE" => reservation[o] = "SOLD"

(* Whatever races, an expiry or a cancellation does not end an order whose *)
(* reservation has been finalized, because markComplete locks the row for  *)
(* the whole decision: it takes a fault between the finalize call and the  *)
(* commit, which the lock does not survive and the SOLD reservation does.  *)
FinalizedNotCancelled ==
    \A o \in Orders :
        (reservation[o] = "SOLD" /\ status[o] = "CANCELLED") => faultCount > 0

(* A sale stands: the order row and the reservation do not part, whoever   *)
(* expires, cancels or completes the order meanwhile.                      *)
SaleStands == CompleteIsSold /\ FinalizedNotCancelled

(* An open order asked for without a key keeps its reservation until the   *)
(* payment window closes, because the expiry asked for lies Buffer past    *)
(* the order's: only the compensation after a commit that was applied but  *)
(* reported as failed takes it away.                                       *)
ReservationOutlivesOrder ==
    \A o \in Orders \ keyed :
        /\ IsAwaitingPayment(o) /\ ~WindowClosed(o)
        /\ "txLost" \in Faults => faultCount = 0
        => reservation[o] \in {"RESERVED", "SOLD"}

(* Until its own expiry, nobody gives back the reservation of an open      *)
(* order that was asked for with a key: a failed keyed request does not    *)
(* compensate, because a sibling with the same key may have committed the  *)
(* order.                                                                  *)
HeldUntilExpiry ==
    \A o \in keyed :
        (IsAwaitingPayment(o) /\ resAge[o] < ReservationLife)
            => reservation[o] \in {"RESERVED", "SOLD"}

(* An open order has its seats, as long as it was promised: what is        *)
(* released, reclaimed or compensated is never the reservation under it.   *)
ReservationKept == ReservationOutlivesOrder /\ HeldUntilExpiry

(* What the buyer sees of an order.                                        *)
Outcome ==
    [o \in Orders |->
        CASE status[o] = "NONE" -> "none"
          [] status[o] = "COMPLETE" -> "complete"
          [] status[o] = "CANCELLED" -> "cancelled"
          [] OTHER -> "open"]

(* Where the buyer's money is; due, once the service has asked for the     *)
(* refund.                                                                 *)
Money ==
    [o \in Orders |->
        CASE payment[o] = "refunded" -> "returned"
          [] payment[o] = "captured" /\ events[o]["unfulfillable"] > 0 -> "due"
          [] payment[o] = "captured" /\ events[o]["unfulfillable"] = 0 -> "charged"
          [] OTHER -> "kept"]

(* The buyer's contract: decided once, completed only when paid, refunded  *)
(* only when cancelled.                                                    *)
Contract == INSTANCE PurchaseContract WITH outcome <- Outcome, money <- Money

(* OrderService together with the payment events implements the contract.  *)
ContractSpec == Contract!Spec

(* A captured payment is settled: the order is completed or the buyer gets *)
(* the money back, in spite of crashes, failed calls and redeliveries.     *)
CaptureSettled ==
    \A o \in Orders :
        payment[o] = "captured" ~> (status[o] = "COMPLETE" \/ payment[o] = "refunded")

(* An order does not stay open: the sweep ends it even when the            *)
(* expiration-service has lost its timer.                                  *)
OrderEnds == \A o \in Orders : IsAwaitingPayment(o) ~> IsTerminal(o)

(* No reservation stays behind, whatever was lost between reserving and    *)
(* inserting: it is sold or returned to the inventory.                     *)
ReservationEnds ==
    \A o \in Orders : reservation[o] = "RESERVED" ~> reservation[o] \in {"SOLD", "RELEASED"}
=============================================================================
