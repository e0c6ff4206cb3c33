---------------------------- MODULE PaymentFlow ----------------------------
(***************************************************************************)
(* The payment of one order in the payment-service: charge calls, Stripe   *)
(* webhooks, the consumer of orders.order.unfulfillable, refund requests   *)
(* and the refund executor, of all replicas, on one payments row.          *)
(*                                                                         *)
(* charge writes the row before it calls Stripe and again after the reply; *)
(* of the writes after the reply only the completing one has a condition.  *)
(* Webhooks read the row and then write it only if it is still PENDING.    *)
(* The executor calls the refund provider inside the transaction that      *)
(* locks the refund row.                                                   *)
(***************************************************************************)
EXTENDS Integers, FiniteSets

CONSTANTS
    Handlers,           \* calls and records being handled, all replicas
    MaxCharges,         \* charge calls in a behaviour
    MaxRefunds,         \* refund rows in a behaviour
    MaxRefundAttempts,  \* provider calls before a refund is given up
    Faults,             \* the kinds of fault that may happen
    MaxFaults           \* how many of them, in all

ASSUME PaymentAssumption ==
    /\ {MaxCharges, MaxRefunds, MaxFaults} \subseteq Nat /\ MaxRefundAttempts \in Nat \ {0}
    /\ Faults \subseteq {"crash", "stripeFail", "stripeLost", "providerFail", "providerLost"}

VARIABLES
    row,            \* status of the payments row (none: no row)
    intentKnown,    \* the row stores the Stripe intent id
    events,         \* outbox rows written, by topic
    refund,         \* the latest refunds row: its status and attempts
    refundId,       \* how many refunds rows there are; the id of the latest
    executor,       \* what the executor that locks it is doing
    intent,         \* the PaymentIntent at Stripe
    stored,         \* the reply Stripe keeps under the idempotency key
    notices,        \* webhook events: none, due, or acknowledged once
    returned,       \* ids of the refunds the provider has paid out
    order,          \* the order, at the order-service
    unfulfillable,  \* its unfulfillable event: none, sent, queued or ignored
    call,           \* what each handler is doing
    charges, faultCount

payment == <<row, intentKnown>>
refunding == <<refund, refundId, executor, returned>>
stripe == <<intent, stored, notices>>
orderSide == <<order, unfulfillable>>
bounds == <<charges, faultCount>>
vars == <<payment, events, refunding, stripe, orderSide, call, bounds>>

Topics == {"initiated", "captured", "failed", "refundRequested", "refundCompleted", "refundFailed"}
Replies == {"succeeded", "processing", "declined", "error"}

(* known: the intent id was stored when charge read the row.               *)
Call(pc, known, reply) == [pc |-> pc, known |-> known, reply |-> reply]
IdleCall == Call("idle", FALSE, "none")
At(h, label) == call[h].pc = label
Become(h, c) == call' = [call EXCEPT ![h] = c]
Done(h) == Become(h, IdleCall)
Goto(h, label) == Become(h, Call(label, FALSE, "none"))

WriteOutbox(topic) == events' = [events EXCEPT ![topic] = @ + 1]

Fault(kind) ==
    /\ kind \in Faults /\ faultCount < MaxFaults
    /\ faultCount' = faultCount + 1
    /\ UNCHANGED charges

-----------------------------------------------------------------------------
(* charge.                                                                 *)

CountCharge ==
    /\ charges < MaxCharges
    /\ charges' = charges + 1
    /\ UNCHANGED faultCount

(* No payment yet: the order's snapshot must be payable.                   *)
ChargeNew(h) ==
    /\ At(h, "idle") /\ CountCharge
    /\ row = "none" /\ order = "open"
    /\ Goto(h, "create")
    /\ UNCHANGED <<payment, events, refunding, stripe, orderSide>>

(* A PENDING payment is resumed; the order is not looked at again.  Any    *)
(* other payment is returned as it is.                                     *)
ChargePending(h) ==
    /\ At(h, "idle") /\ CountCharge
    /\ row = "pending"
    /\ Become(h, Call("stripe", intentKnown, "none"))
    /\ UNCHANGED <<payment, events, refunding, stripe, orderSide>>

CreateRow(h) ==
    /\ At(h, "create")
    /\ row = "none"
    /\ row' = "pending"
    /\ Goto(h, "initiate")
    /\ UNCHANGED <<intentKnown, events, refunding, stripe, orderSide, bounds>>

(* order_id is unique: the second insert throws.                           *)
CreateConflict(h) ==
    /\ At(h, "create")
    /\ row # "none"
    /\ Done(h)
    /\ UNCHANGED <<payment, events, refunding, stripe, orderSide, bounds>>

Initiate(h) ==
    /\ At(h, "initiate")
    /\ WriteOutbox("initiated")
    /\ Goto(h, "stripe")
    /\ UNCHANGED <<payment, refunding, stripe, orderSide, bounds>>

(* The intent takes a status; a final one is announced by webhook.         *)
IntentBecomes(status) ==
    /\ intent' = status
    /\ notices' = [n \in DOMAIN notices |->
                      IF n = status /\ notices[n] = "none" THEN "due" ELSE notices[n]]

(* paymentIntents.create under the order's idempotency key.  A declined    *)
(* card is an exception or a status.  The first reply is kept: a repeated  *)
(* call gets it again, or is refused because its parameters differ.        *)
StripeCreates(reply) ==
    \/ /\ stored = "none"
       /\ \E status \in {"succeeded", "processing", "declined"} :
            /\ IntentBecomes(status)
            /\ reply = status \/ (status = "declined" /\ reply = "error")
       /\ stored' = reply
    \/ /\ stored # "none" /\ reply \in {stored, "error"}
       /\ UNCHANGED stripe

(* paymentIntents.confirm: an error once the intent has succeeded, and     *)
(* perhaps while it is being processed.                                    *)
StripeConfirms(reply) ==
    /\ UNCHANGED stored
    /\ \/ /\ intent # "succeeded"
          /\ \E status \in {"succeeded", "processing", "declined"} :
                /\ IntentBecomes(status)
                /\ reply = status \/ (status = "declined" /\ reply = "error")
       \/ /\ intent \in {"succeeded", "processing"} /\ reply = "error"
          /\ UNCHANGED <<intent, notices>>

StripeActs(h, reply) == IF call[h].known THEN StripeConfirms(reply) ELSE StripeCreates(reply)

CallStripe(h) ==
    /\ At(h, "stripe")
    /\ \E reply \in Replies :
        /\ StripeActs(h, reply)
        /\ Become(h, Call("resolve", FALSE, reply))
    /\ UNCHANGED <<payment, events, refunding, orderSide, bounds>>

(* The call never arrives, or its reply is lost: an exception either way.  *)
StripeFails(h) ==
    /\ Fault("stripeFail")
    /\ At(h, "stripe")
    /\ Become(h, Call("resolve", FALSE, "error"))
    /\ UNCHANGED <<payment, events, refunding, stripe, orderSide>>

StripeLost(h) ==
    /\ Fault("stripeLost")
    /\ At(h, "stripe")
    /\ \E reply \in Replies : StripeActs(h, reply)
    /\ Become(h, Call("resolve", FALSE, "error"))
    /\ UNCHANGED <<payment, events, refunding, orderSide>>

(* The catch block, and a failed intent: updateStatus without a condition  *)
(* and without an event.                                                   *)
ResolveFailed(h) ==
    /\ At(h, "resolve") /\ call[h].reply \in {"error", "declined"}
    /\ row' = "failed"
    /\ intentKnown' = (intentKnown \/ call[h].reply = "declined")
    /\ Done(h)
    /\ UNCHANGED <<events, refunding, stripe, orderSide, bounds>>

(* Mutant: any reply without an error counts as success.                   *)
ResolvePendingMutant(h) ==
    /\ At(h, "resolve") /\ call[h].reply = "processing"
    /\ row' = "completed" /\ intentKnown' = TRUE
    /\ WriteOutbox("captured")
    /\ Done(h)
    /\ UNCHANGED <<refunding, stripe, orderSide, bounds>>

ResolvePending(h) ==
    /\ At(h, "resolve") /\ call[h].reply = "processing"
    /\ row' = "pending" /\ intentKnown' = TRUE
    /\ Done(h)
    /\ UNCHANGED <<events, refunding, stripe, orderSide, bounds>>

(* Mutant: the outbox row is forgotten.                                    *)
CompleteWithoutOutboxMutant ==
    IF row = "pending"
    THEN row' = "completed" /\ intentKnown' = TRUE /\ UNCHANGED events
    ELSE UNCHANGED <<payment, events>>

(* completePaymentWithOutbox: WHERE status = PENDING.                      *)
CompletePaymentWithOutbox ==
    IF row = "pending"
    THEN row' = "completed" /\ intentKnown' = TRUE /\ WriteOutbox("captured")
    ELSE UNCHANGED <<payment, events>>

ResolveSucceeded(h) ==
    /\ At(h, "resolve") /\ call[h].reply = "succeeded"
    /\ CompletePaymentWithOutbox
    /\ Done(h)
    /\ UNCHANGED <<refunding, stripe, orderSide, bounds>>

-----------------------------------------------------------------------------
(* Webhooks: completeStripePayment and failStripePayment.                  *)

IsTerminal == row \in {"completed", "failed"}
Acknowledge(n) == notices' = [notices EXCEPT ![n] = "acked"]

(* Stripe delivers a notice until it is acknowledged, and perhaps again.   *)
WebhookIgnored(n) ==
    /\ notices[n] = "due" /\ IsTerminal
    /\ Acknowledge(n)
    /\ UNCHANGED <<payment, events, refunding, intent, stored, orderSide, call, bounds>>

WebhookReads(h, n) ==
    /\ At(h, "idle")
    /\ notices[n] # "none" /\ row # "none" /\ ~IsTerminal
    /\ Goto(h, n)
    /\ UNCHANGED <<payment, events, refunding, stripe, orderSide, bounds>>

WebhookSucceeded(h) ==
    /\ At(h, "succeeded")
    /\ CompletePaymentWithOutbox
    /\ Acknowledge("succeeded")
    /\ Done(h)
    /\ UNCHANGED <<refunding, intent, stored, orderSide, bounds>>

WebhookFailed(h) ==
    /\ At(h, "declined")
    /\ IF row = "pending" THEN row' = "failed" /\ WriteOutbox("failed")
                          ELSE UNCHANGED <<row, events>>
    /\ Acknowledge("declined")
    /\ Done(h)
    /\ UNCHANGED <<intentKnown, refunding, intent, stored, orderSide, bounds>>

-----------------------------------------------------------------------------
(* Refunds: who asks for one, and the executor.                            *)

(* processOrderUnfulfillableEvent.                                         *)
UnfulfillableReads(h) ==
    /\ At(h, "idle")
    /\ unfulfillable # "none" /\ row = "completed"
    /\ Goto(h, "enqueueEvent")
    /\ UNCHANGED <<payment, events, refunding, stripe, orderSide, bounds>>

UnfulfillableIgnored ==
    /\ unfulfillable = "sent" /\ row # "completed"
    /\ unfulfillable' = "ignored"
    /\ UNCHANGED <<payment, events, refunding, stripe, order, call, bounds>>

(* requestRefund of a completed order, inside its window.                  *)
RequestRefund(h) ==
    /\ At(h, "idle")
    /\ order = "complete" /\ row = "completed"
    /\ Goto(h, "enqueue")
    /\ UNCHANGED <<payment, events, refunding, stripe, orderSide, bounds>>

(* Mutant: the unique index covers open refunds only.                      *)
LiveMutant == refund.status = "requested"

(* uq_refunds_one_live_per_order.                                          *)
Live == refund.status \in {"requested", "completed"}

EnqueueRefund ==
    IF Live THEN UNCHANGED <<refund, refundId, events>>
    ELSE /\ refundId < MaxRefunds
         /\ refundId' = refundId + 1
         /\ refund' = [status |-> "requested", attempts |-> 0]
         /\ WriteOutbox("refundRequested")

Enqueue(h) ==
    /\ call[h].pc \in {"enqueue", "enqueueEvent"}
    /\ EnqueueRefund
    /\ unfulfillable' = IF At(h, "enqueueEvent") THEN "queued" ELSE unfulfillable
    /\ Done(h)
    /\ UNCHANGED <<payment, executor, returned, stripe, order, bounds>>

(* The provider pays out once per idempotency key, which is the refund id. *)
ProviderPays == returned' = returned \cup {refundId}

Refundable == row \in {"completed", "refunded"}
Claimable == executor = "idle" /\ refund.status = "requested"

Execute ==
    /\ Claimable /\ Refundable
    /\ ProviderPays
    /\ executor' = "paid"
    /\ UNCHANGED <<payment, events, refund, refundId, stripe, orderSide, call, bounds>>

ExecuteCommit ==
    /\ executor = "paid"
    /\ refund' = [status |-> "completed", attempts |-> refund.attempts + 1]
    /\ row' = IF Refundable THEN "refunded" ELSE row
    /\ WriteOutbox("refundCompleted")
    /\ executor' = "idle"
    /\ UNCHANGED <<intentKnown, refundId, returned, stripe, orderSide, call, bounds>>

GiveUp(attempts) ==
    /\ refund' = [status |-> "failed", attempts |-> attempts]
    /\ WriteOutbox("refundFailed")

ExecuteNotRefundable ==
    /\ Claimable /\ ~Refundable
    /\ GiveUp(refund.attempts)
    /\ UNCHANGED <<payment, refundId, executor, returned, stripe, orderSide, call, bounds>>

(* Mutant: the exception is swallowed.                                     *)
SwallowedErrorMutant ==
    /\ refund' = [status |-> "completed", attempts |-> refund.attempts + 1]
    /\ WriteOutbox("refundCompleted")

(* Mutant: the retried refund leaves the work queue.                       *)
RetryLostMutant ==
    /\ refund' = [status |-> "processing", attempts |-> refund.attempts + 1]
    /\ UNCHANGED events

(* scheduleRetry, or fail after the last attempt.                          *)
ProviderError ==
    IF refund.attempts + 1 >= MaxRefundAttempts
    THEN GiveUp(refund.attempts + 1)
    ELSE /\ refund' = [status |-> "requested", attempts |-> refund.attempts + 1]
         /\ UNCHANGED events

ExecuteFails ==
    /\ Fault("providerFail")
    /\ Claimable /\ Refundable
    /\ ProviderError
    /\ UNCHANGED <<payment, refundId, executor, returned, stripe, orderSide, call>>

ExecuteLost ==
    /\ Fault("providerLost")
    /\ Claimable /\ Refundable
    /\ ProviderPays /\ ProviderError
    /\ UNCHANGED <<payment, refundId, executor, stripe, orderSide, call>>

-----------------------------------------------------------------------------
(* Stripe, the order-service and crashes.                                  *)

(* The bank decides, or the buyer passes 3-D Secure.                       *)
IntentSettles ==
    /\ intent = "processing"
    /\ \E status \in {"succeeded", "declined"} : IntentBecomes(status)
    /\ UNCHANGED <<payment, events, refunding, stored, orderSide, call, bounds>>

OrderCancelled ==
    /\ order = "open"
    /\ order' = "cancelled"
    /\ UNCHANGED <<payment, events, refunding, stripe, unfulfillable, call, bounds>>

(* markComplete, on payments.payment.captured.                             *)
OrderSettles ==
    /\ events["captured"] > 0
    /\ \/ /\ order = "open" /\ order' = "complete"
          /\ UNCHANGED unfulfillable
       \/ /\ order \in {"open", "cancelled"} /\ unfulfillable = "none"
          /\ order' = "cancelled" /\ unfulfillable' = "sent"
    /\ UNCHANGED <<payment, events, refunding, stripe, call, bounds>>

(* A replica dies in the middle of a call; the executor's transaction is   *)
(* rolled back.                                                            *)
Crash(h) ==
    /\ Fault("crash")
    /\ ~At(h, "idle")
    /\ Done(h)
    /\ UNCHANGED <<payment, events, refunding, stripe, orderSide>>

ExecutorCrash ==
    /\ Fault("crash")
    /\ executor = "paid"
    /\ executor' = "idle"
    /\ UNCHANGED <<payment, events, refund, refundId, returned, stripe, orderSide, call>>

-----------------------------------------------------------------------------
Init ==
    /\ row = "none" /\ intentKnown = FALSE
    /\ events = [t \in Topics |-> 0]
    /\ refund = [status |-> "none", attempts |-> 0]
    /\ refundId = 0 /\ executor = "idle" /\ returned = {}
    /\ intent = "none" /\ stored = "none"
    /\ notices = [n \in {"succeeded", "declined"} |-> "none"]
    /\ order = "open" /\ unfulfillable = "none"
    /\ call = [h \in Handlers |-> IdleCall]
    /\ charges = 0 /\ faultCount = 0

(* A call or a record reaches an idle handler.                             *)
Arrive(h) ==
    \/ ChargeNew(h) \/ ChargePending(h) \/ RequestRefund(h) \/ UnfulfillableReads(h)
    \/ \E n \in {"succeeded", "declined"} : WebhookReads(h, n)

(* A busy handler takes its next step.                                     *)
Step(h) ==
    \/ CreateRow(h) \/ CreateConflict(h) \/ Initiate(h) \/ CallStripe(h)
    \/ ResolveFailed(h) \/ ResolvePending(h) \/ ResolveSucceeded(h)
    \/ WebhookSucceeded(h) \/ WebhookFailed(h) \/ Enqueue(h)

Executor == Execute \/ ExecuteCommit \/ ExecuteNotRefundable

Next ==
    \/ \E h \in Handlers : Arrive(h) \/ Step(h) \/ StripeFails(h) \/ StripeLost(h) \/ Crash(h)
    \/ \E n \in {"succeeded", "declined"} : WebhookIgnored(n)
    \/ UnfulfillableIgnored
    \/ Executor \/ ExecuteFails \/ ExecuteLost \/ ExecutorCrash
    \/ IntentSettles \/ OrderCancelled \/ OrderSettles

Spec == Init /\ [][Next]_vars

(* Busy handlers and the cron of the executor run; Stripe delivers a due   *)
(* notice until it is acknowledged, and Kafka a record until it is handled.*)
(* Buyers and banks owe nothing.                                           *)
NoticeDelivered ==
    notices["succeeded"] = "due"
        /\ (WebhookIgnored("succeeded") \/ \E h \in Handlers : WebhookReads(h, "succeeded"))

EventDelivered ==
    unfulfillable = "sent"
        /\ (UnfulfillableIgnored \/ \E h \in Handlers : UnfulfillableReads(h))

FairSpec ==
    /\ Spec
    /\ \A h \in Handlers : WF_vars(Step(h))
    /\ SF_vars(NoticeDelivered) /\ SF_vars(EventDelivered)
    /\ WF_vars(Executor)

-----------------------------------------------------------------------------
(* Properties.                                                             *)

(* The payments row, the refunds row, Stripe's state and the handlers'     *)
(* calls keep their types.                                                 *)
TypeOK ==
    /\ row \in {"none", "pending", "completed", "failed", "refunded"}
    /\ intentKnown \in BOOLEAN
    /\ events \in [Topics -> Nat]
    /\ refund \in [status : {"none", "requested", "completed", "failed"},
                   attempts : 0..MaxRefundAttempts]
    /\ refundId \in 0..MaxRefunds /\ returned \subseteq 1..MaxRefunds
    /\ executor \in {"idle", "paid"}
    /\ intent \in {"none", "succeeded", "processing", "declined"}
    /\ stored \in Replies \cup {"none"}
    /\ notices \in [{"succeeded", "declined"} -> {"none", "due", "acked"}]
    /\ order \in {"open", "complete", "cancelled"}
    /\ unfulfillable \in {"none", "sent", "queued", "ignored"}
    /\ call \in [Handlers -> [pc : {"idle", "create", "initiate", "stripe", "resolve",
                                    "succeeded", "declined", "enqueue", "enqueueEvent"},
                              known : BOOLEAN, reply : Replies \cup {"none"}]]
    /\ charges \in 0..MaxCharges /\ faultCount \in 0..MaxFaults

(* The order-service is told of a capture, and the row says COMPLETED or   *)
(* REFUNDED, only when Stripe has taken the money: neither a lost reply    *)
(* nor a repeated or delayed webhook invents one.                          *)
CapturedIsCharged ==
    (events["captured"] > 0 \/ row \in {"completed", "refunded"}) => intent = "succeeded"

(* The payment becomes REFUNDED, and the refund COMPLETED, only once the   *)
(* provider has paid out; and it pays out only what was captured, for an   *)
(* order that is complete or could not be fulfilled.                       *)
RefundHonest ==
    /\ (row = "refunded" \/ refund.status = "completed") => returned # {}
    /\ returned # {} => /\ events["captured"] > 0
                        /\ order = "complete" \/ unfulfillable # "none"

(* What the service tells of the buyer's money is so.                      *)
MoneyHonest == CapturedIsCharged /\ RefundHonest

(* Redelivered events, double clicks, retries after an unseen success and  *)
(* crashes of the executor do not pay a buyer back twice: that takes a     *)
(* refund that was given up, which may be requested again.                 *)
ReturnedOnce == Cardinality(returned) > 1 => events["refundFailed"] > 0

(* The only payment whose capture stays unreported is one that a failed    *)
(* call to Stripe has at some time marked FAILED: any other is completed   *)
(* by the reply or, however long it takes, by the webhook.                 *)
UnreportedWasFailed ==
    (intent = "succeeded" ~> events["captured"] > 0) \/ <>(row = "failed")

(* A refund that was asked for ends: paid out, or given up for an operator.*)
RefundEnds == refund.status = "requested" ~> refund.status \in {"completed", "failed"}

-----------------------------------------------------------------------------
(* What comments of the code say and TLC refutes (see the README).         *)

(* An unfulfillable event is ignored only when nothing was taken, or it    *)
(* has already been given back.                                            *)
NothingTaken == unfulfillable = "ignored" => intent # "succeeded" \/ returned # {}

(* Money that Stripe has taken is reported to the order-service, by the    *)
(* reply or by the webhook.                                                *)
CaptureReported == intent = "succeeded" ~> events["captured"] > 0
=============================================================================
