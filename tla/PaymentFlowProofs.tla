------------------------- MODULE PaymentFlowProofs -------------------------
(***************************************************************************)
(* Proofs about PaymentFlow, for any number of handlers, charges, refunds, *)
(* attempts and faults.                                                    *)
(***************************************************************************)
EXTENDS PaymentFlow, FiniteSetTheorems, TLAPS

Labels == {"idle", "create", "initiate", "stripe", "resolve",
           "succeeded", "declined", "enqueue", "enqueueEvent"}
Calls == [pc : Labels, known : BOOLEAN, reply : Replies \cup {"none"}]
Notices == {"succeeded", "declined"}

(* What Stripe has answered or announced is so, and a later call never     *)
(* takes a succeeded intent back.                                          *)
Charged ==
    /\ stored = "none" => intent = "none"
    /\ intentKnown => stored # "none"
    /\ stored = "succeeded" \/ notices["succeeded"] # "none" => intent = "succeeded"
    /\ \A h \in Handlers :
        /\ call[h].known \/ call[h].reply \in {"processing", "declined"} => stored # "none"
        /\ call[h].reply = "succeeded" \/ call[h].pc = "succeeded" => intent = "succeeded"
    /\ CapturedIsCharged

Owed == events["captured"] > 0 /\ (order = "complete" \/ unfulfillable # "none")

(* A refund is asked for only when it is owed, and a second one only after *)
(* the first was given up.                                                 *)
Refunds ==
    /\ row \in {"completed", "refunded"} => events["captured"] > 0
    /\ \A h \in Handlers : call[h].pc \in {"enqueue", "enqueueEvent"} => Owed
    /\ refund.status # "none" => Owed
    /\ refund.status # "none" <=> refundId > 0
    /\ refund.status = "requested" => refund.attempts < MaxRefundAttempts
    /\ executor = "paid" => refund.status = "requested" /\ returned # {}
    /\ row = "refunded" \/ refund.status = "completed" => returned # {}
    /\ returned \subseteq 1..refundId
    /\ refund.status = "failed" \/ refundId > 1 => events["refundFailed"] > 0

IInv == TypeOK /\ Charged /\ Refunds

-----------------------------------------------------------------------------
(* Helpers.                                                                *)

LEMMA CallBecomes ==
    ASSUME TypeOK, NEW h \in Handlers, NEW c \in Calls, Become(h, c)
    PROVE  /\ call' \in [Handlers -> Calls]
           /\ call'[h] = c /\ \A g \in Handlers \ {h} : call'[g] = call[g]
BY DEF TypeOK, Become, Calls, Labels

LEMMA CallsAre ==
    /\ \A pc \in Labels, known \in BOOLEAN, reply \in Replies \cup {"none"} :
        /\ Call(pc, known, reply) \in Calls
        /\ Call(pc, known, reply).pc = pc /\ Call(pc, known, reply).reply = reply
        /\ Call(pc, known, reply).known = known
    /\ IdleCall \in Calls /\ IdleCall.pc = "idle" /\ ~IdleCall.known /\ IdleCall.reply = "none"
<1>1. \A pc \in Labels, known \in BOOLEAN, reply \in Replies \cup {"none"} :
        /\ Call(pc, known, reply) \in Calls
        /\ Call(pc, known, reply).pc = pc /\ Call(pc, known, reply).reply = reply
        /\ Call(pc, known, reply).known = known
    BY DEF Calls, Call
<1>2. "idle" \in Labels /\ FALSE \in BOOLEAN /\ "none" \in Replies \cup {"none"}
    BY DEF Labels
<1>3. IdleCall = Call("idle", FALSE, "none")
    BY DEF IdleCall
<1>4. /\ IdleCall \in Calls /\ IdleCall.pc = "idle" /\ IdleCall.known = FALSE
      /\ IdleCall.reply = "none"
    BY <1>2 DEF IdleCall, Call, Calls
<1> QED BY <1>1, <1>4, Zenon

LEMMA UnknownCall ==
    ASSUME NEW pc \in Labels, NEW reply \in Replies \cup {"none"}
    PROVE  /\ Call(pc, FALSE, reply) \in Calls
           /\ Call(pc, FALSE, reply).pc = pc /\ Call(pc, FALSE, reply).reply = reply
           /\ ~Call(pc, FALSE, reply).known
BY DEF Calls, Call

LEMMA FaultsBounded ==
    ASSUME TypeOK, \/ UNCHANGED faultCount
                   \/ faultCount < MaxFaults /\ faultCount' = faultCount + 1
    PROVE  faultCount' \in 0..MaxFaults
<1>1. faultCount \in 0..MaxFaults /\ MaxFaults \in Nat
    BY PaymentAssumption DEF TypeOK
<1> QED BY <1>1

(* A handler that ends its call, or goes on without an answer of Stripe.   *)
LEMMA CallMoves ==
    ASSUME TypeOK, NEW h \in Handlers, NEW pc \in Labels, Done(h) \/ Goto(h, pc)
    PROVE  /\ call' \in [Handlers -> Calls]
           /\ call'[h].pc \in {"idle", pc} /\ ~call'[h].known /\ call'[h].reply = "none"
           /\ \A g \in Handlers \ {h} : call'[g] = call[g]
<1>1. CASE Done(h)
    BY <1>1, CallBecomes, CallsAre DEF Done
<1>2. CASE Goto(h, pc)
  <2>1. Call(pc, FALSE, "none") \in Calls /\ Call(pc, FALSE, "none").pc = pc
        /\ Call(pc, FALSE, "none").reply = "none" /\ ~Call(pc, FALSE, "none").known
      BY UnknownCall
  <2>2. Become(h, Call(pc, FALSE, "none"))
      BY <1>2 DEF Goto
  <2>3. /\ call' \in [Handlers -> Calls] /\ call'[h] = Call(pc, FALSE, "none")
        /\ \A g \in Handlers \ {h} : call'[g] = call[g]
      BY <2>1, <2>2, CallBecomes
  <2> QED BY <2>1, <2>3
<1> QED BY <1>1, <1>2

LEMMA OutboxGrows ==
    ASSUME TypeOK, NEW t \in Topics, WriteOutbox(t)
    PROVE  /\ events' \in [Topics -> Nat] /\ events'[t] = events[t] + 1
           /\ \A s \in Topics \ {t} : events'[s] = events[s]
BY DEF TypeOK, WriteOutbox

(* Whatever Stripe does with a call: its reply is so, an intent that has   *)
(* succeeded stays so, and a reply leaves one under the idempotency key.   *)
LEMMA StripeHonest ==
    ASSUME TypeOK, Charged, NEW h \in Handlers, NEW reply \in Replies, StripeActs(h, reply)
    PROVE  /\ intent' \in {"none", "succeeded", "processing", "declined"}
           /\ stored' \in Replies
           /\ notices' \in [Notices -> {"none", "due", "acked"}]
           /\ intent = "succeeded" => intent' = "succeeded"
           /\ reply = "succeeded" => intent' = "succeeded"
           /\ stored' = "succeeded" \/ notices'["succeeded"] # "none" => intent' = "succeeded"
<1> USE DEF Notices
<1>1. ASSUME NEW s \in {"succeeded", "processing", "declined"}, IntentBecomes(s), intent # "succeeded"
      PROVE  /\ intent' = s /\ notices' \in [Notices -> {"none", "due", "acked"}]
             /\ notices'["succeeded"] # "none" => intent' = "succeeded"
    BY <1>1 DEF TypeOK, Charged, IntentBecomes
<1>2. CASE call[h].known
  <2>1. stored # "none" /\ stored' = stored
      BY <1>2 DEF Charged, StripeActs, StripeConfirms
  <2>2. CASE intent # "succeeded" /\ \E s \in {"succeeded", "processing", "declined"} :
                /\ IntentBecomes(s)
                /\ reply = s \/ (s = "declined" /\ reply = "error")
      BY <1>1, <2>1, <2>2 DEF TypeOK, Charged
  <2>3. CASE reply = "error" /\ UNCHANGED <<intent, notices>>
      BY <2>1, <2>3 DEF TypeOK, Charged
  <2> QED BY <1>2, <2>2, <2>3 DEF StripeActs, StripeConfirms
<1>3. CASE ~call[h].known
  <2>1. CASE stored = "none"
    <3>1. PICK s \in {"succeeded", "processing", "declined"} :
             /\ IntentBecomes(s)
             /\ reply = s \/ (s = "declined" /\ reply = "error")
        BY <1>3, <2>1 DEF StripeActs, StripeCreates
    <3>2. stored' = reply /\ intent = "none"
        BY <1>3, <2>1 DEF StripeActs, StripeCreates, Charged
    <3> QED BY <1>1, <3>1, <3>2
  <2>2. CASE stored # "none"
      BY <1>3, <2>2 DEF TypeOK, Charged, StripeActs, StripeCreates, stripe
  <2> QED BY <2>1, <2>2
<1> QED BY <1>2, <1>3

-----------------------------------------------------------------------------
(* The steps, by the part of the service that takes them.                  *)

LEMMA ChargeKeeps ==
    ASSUME IInv, NEW h \in Handlers,
           ChargeNew(h) \/ ChargePending(h) \/ CreateRow(h) \/ CreateConflict(h) \/ Initiate(h)
    PROVE  IInv'
<1> USE DEF IInv, payment, refunding, stripe, orderSide, bounds
<1>1. CASE ChargeNew(h)
  <2>1. call' \in [Handlers -> Calls] /\ call'[h].pc \in {"idle", "create"}
        /\ ~call'[h].known /\ call'[h].reply = "none" /\ \A g \in Handlers \ {h} : call'[g] = call[g]
      BY <1>1, CallMoves DEF ChargeNew, Labels
  <2>2. charges' \in 0..MaxCharges
      BY <1>1, PaymentAssumption DEF ChargeNew, CountCharge, TypeOK
  <2>3. TypeOK'
      BY <1>1, <2>1, <2>2 DEF TypeOK, ChargeNew, CountCharge, Calls, Labels
  <2>4. Charged'
      BY <1>1, <2>1 DEF ChargeNew, Charged, CapturedIsCharged
  <2>5. Refunds'
      BY <1>1, <2>1 DEF ChargeNew, Refunds, Owed
  <2> QED BY <2>3, <2>4, <2>5
<1>2. CASE ChargePending(h)
  <2>1. /\ call' \in [Handlers -> Calls] /\ call'[h] = Call("stripe", intentKnown, "none")
        /\ \A g \in Handlers \ {h} : call'[g] = call[g]
      BY <1>2, CallBecomes, CallsAre DEF ChargePending, Labels, TypeOK
  <2>2. call'[h].pc = "stripe" /\ call'[h].known = intentKnown /\ call'[h].reply = "none"
      BY <2>1, CallsAre DEF TypeOK, Labels
  <2>3. charges' \in 0..MaxCharges
      BY <1>2, PaymentAssumption DEF ChargePending, CountCharge, TypeOK
  <2>4. TypeOK'
      BY <1>2, <2>1, <2>3 DEF TypeOK, ChargePending, CountCharge, Calls, Labels
  <2>5. Charged'
      BY <1>2, <2>1, <2>2 DEF ChargePending, Charged, CapturedIsCharged
  <2>6. Refunds'
      BY <1>2, <2>1, <2>2 DEF ChargePending, Refunds, Owed
  <2> QED BY <2>4, <2>5, <2>6
<1>3. CASE CreateRow(h) \/ CreateConflict(h)
  <2>1. /\ call' \in [Handlers -> Calls] /\ call'[h].pc \in {"idle", "initiate"}
        /\ ~call'[h].known /\ call'[h].reply = "none"
        /\ \A g \in Handlers \ {h} : call'[g] = call[g]
      BY <1>3, CallMoves DEF CreateRow, CreateConflict, Labels
  <2>2. row' \in {row, "pending"} /\ (row' = row \/ row = "none") /\ UNCHANGED <<intentKnown, events>>
      BY <1>3 DEF CreateRow, CreateConflict
  <2>3. UNCHANGED <<refunding, stripe, orderSide, bounds>>
      BY <1>3 DEF CreateRow, CreateConflict
  <2>4. TypeOK'
      BY <2>1, <2>2, <2>3 DEF TypeOK, Calls, Labels
  <2>5. Charged'
      BY <2>1, <2>2, <2>3 DEF Charged, CapturedIsCharged
  <2>6. Refunds'
      BY <2>1, <2>2, <2>3 DEF Refunds, Owed
  <2> QED BY <2>4, <2>5, <2>6
<1>4. CASE Initiate(h)
  <2>1. /\ call' \in [Handlers -> Calls] /\ call'[h].pc \in {"idle", "stripe"}
        /\ ~call'[h].known /\ call'[h].reply = "none"
        /\ \A g \in Handlers \ {h} : call'[g] = call[g]
      BY <1>4, CallMoves DEF Initiate, Labels
  <2>2. /\ events' \in [Topics -> Nat] /\ events'["captured"] = events["captured"]
        /\ events'["refundFailed"] = events["refundFailed"]
      BY <1>4, OutboxGrows DEF Initiate, Topics
  <2>3. UNCHANGED <<payment, refunding, stripe, orderSide, bounds>>
      BY <1>4 DEF Initiate
  <2>4. TypeOK'
      BY <2>1, <2>2, <2>3 DEF TypeOK, Calls, Labels
  <2>5. Charged'
      BY <2>1, <2>2, <2>3 DEF Charged, CapturedIsCharged
  <2>6. Refunds'
      BY <2>1, <2>2, <2>3 DEF Refunds, Owed
  <2> QED BY <2>4, <2>5, <2>6
<1> QED BY <1>1, <1>2, <1>3, <1>4

LEMMA StripeKeeps ==
    ASSUME IInv, NEW h \in Handlers, CallStripe(h) \/ StripeFails(h) \/ StripeLost(h)
    PROVE  IInv'
<1> USE DEF IInv, payment, refunding, orderSide, Labels
<1>1. PICK reply \in Replies :
        /\ Become(h, Call("resolve", FALSE, reply))
        /\ \/ StripeActs(h, reply)
           \/ reply = "error" /\ UNCHANGED stripe
           \/ reply = "error" /\ \E real \in Replies : StripeActs(h, real)
    BY DEF CallStripe, StripeFails, StripeLost, Replies
<1>2. /\ call' \in [Handlers -> Calls] /\ call'[h] = Call("resolve", FALSE, reply)
      /\ \A g \in Handlers \ {h} : call'[g] = call[g]
  <2>1. Call("resolve", FALSE, reply) \in Calls
      BY UnknownCall
  <2> QED BY <1>1, <2>1, CallBecomes
<1>3. call'[h].pc = "resolve" /\ ~call'[h].known /\ call'[h].reply = reply
  <2>1. /\ Call("resolve", FALSE, reply).pc = "resolve" /\ ~Call("resolve", FALSE, reply).known
        /\ Call("resolve", FALSE, reply).reply = reply
      BY UnknownCall
  <2> QED BY <1>2, <2>1, Zenon
<1>4. /\ intent' \in {"none", "succeeded", "processing", "declined"}
      /\ stored' \in Replies \cup {"none"}
      /\ notices' \in [Notices -> {"none", "due", "acked"}]
      /\ intent = "succeeded" => intent' = "succeeded"
      /\ reply = "succeeded" => intent' = "succeeded"
      /\ stored' = "succeeded" \/ notices'["succeeded"] # "none" => intent' = "succeeded"
      /\ stored' \in Replies \/ (reply = "error" /\ UNCHANGED stripe)
    BY <1>1, StripeHonest DEF TypeOK, Charged, stripe, Notices
<1>5. UNCHANGED <<payment, events, refunding, orderSide, charges>>
    BY DEF CallStripe, StripeFails, StripeLost, Fault, bounds
<1>6. faultCount' \in 0..MaxFaults
  <2>1. \/ UNCHANGED faultCount
        \/ faultCount < MaxFaults /\ faultCount' = faultCount + 1
      BY DEF CallStripe, StripeFails, StripeLost, Fault, bounds
  <2> QED BY <2>1, FaultsBounded
<1>7. TypeOK'
    BY <1>2, <1>4, <1>5, <1>6 DEF TypeOK, Calls, Notices
<1>8. Charged'
  <2>1. stored' # "none" \/ UNCHANGED stripe
      BY <1>4 DEF Replies
  <2>2. stored = "none" \/ stored' # "none"
      BY <1>4, <2>1 DEF stripe, Charged
  <2>3. /\ stored' = "none" => intent' = "none"
        /\ stored' = "succeeded" \/ notices'["succeeded"] # "none" => intent' = "succeeded"
        /\ intentKnown' => stored' # "none"
      BY <1>4, <1>5, <2>1 DEF stripe, Charged
  <2>4. \A g \in Handlers :
          /\ call'[g].known \/ call'[g].reply \in {"processing", "declined"} => stored' # "none"
          /\ call'[g].reply = "succeeded" \/ call'[g].pc = "succeeded" => intent' = "succeeded"
    <3> TAKE g \in Handlers
    <3>1. CASE g = h
        BY <1>3, <1>4, <2>1, <3>1 DEF Replies
    <3>2. CASE g # h
        BY <1>2, <1>4, <2>1, <3>2 DEF Charged, stripe
    <3> QED BY <3>1, <3>2
  <2>5. CapturedIsCharged'
      BY <1>4, <1>5 DEF Charged, CapturedIsCharged
  <2> QED BY <2>3, <2>4, <2>5 DEF Charged
<1>9. Refunds'
    BY <1>2, <1>3, <1>5 DEF Refunds, Owed
<1> QED BY <1>7, <1>8, <1>9

(* The writes after an answer of Stripe or a webhook.                      *)
LEMMA AnswerKeeps ==
    ASSUME IInv, NEW h \in Handlers,
           \/ ResolveFailed(h) \/ ResolvePending(h) \/ ResolveSucceeded(h)
           \/ WebhookSucceeded(h) \/ WebhookFailed(h)
    PROVE  IInv'
<1> USE DEF IInv, refunding, orderSide, bounds
<1>1. /\ call' \in [Handlers -> Calls] /\ call'[h].pc = "idle"
      /\ ~call'[h].known /\ call'[h].reply = "none"
      /\ \A g \in Handlers \ {h} : call'[g] = call[g]
    BY CallMoves
       DEF ResolveFailed, ResolvePending, ResolveSucceeded, WebhookSucceeded, WebhookFailed, Labels
<1>2. UNCHANGED <<refunding, intent, stored, orderSide, bounds>>
    BY DEF ResolveFailed, ResolvePending, ResolveSucceeded, WebhookSucceeded, WebhookFailed, stripe
<1>3. /\ notices' \in [Notices -> {"none", "due", "acked"}]
      /\ notices'["succeeded"] # "none" => notices["succeeded"] # "none" \/ intent = "succeeded"
    BY DEF ResolveFailed, ResolvePending, ResolveSucceeded, WebhookSucceeded, WebhookFailed,
           stripe, Acknowledge, TypeOK, Charged, At, Notices
<1>4. CASE \/ ResolveFailed(h) \/ ResolvePending(h) \/ WebhookFailed(h)
           \/ row # "pending" /\ (ResolveSucceeded(h) \/ WebhookSucceeded(h))
  <2>1. /\ row' \in {row, "failed", "pending"}
        /\ events' \in [Topics -> Nat] /\ events'["captured"] = events["captured"]
        /\ events'["refundFailed"] = events["refundFailed"]
      BY <1>4, OutboxGrows
         DEF ResolveFailed, ResolvePending, ResolveSucceeded, WebhookSucceeded, WebhookFailed,
             CompletePaymentWithOutbox, payment, TypeOK, Topics
  <2>2. intentKnown' \in BOOLEAN
      BY <1>4 DEF ResolveFailed, ResolvePending, ResolveSucceeded, WebhookSucceeded, WebhookFailed,
             CompletePaymentWithOutbox, payment, TypeOK
  <2>3. intentKnown' => stored # "none"
      BY <1>4 DEF ResolveFailed, ResolvePending, ResolveSucceeded, WebhookSucceeded, WebhookFailed,
             CompletePaymentWithOutbox, payment, Charged
  <2>4. TypeOK'
      BY <1>1, <1>2, <1>3, <2>1, <2>2 DEF TypeOK, Calls, Labels, Notices
  <2>5. Charged'
      BY <1>1, <1>2, <1>3, <2>1, <2>3 DEF Charged, CapturedIsCharged
  <2>6. Refunds'
      BY <1>1, <1>2, <2>1 DEF Refunds, Owed
  <2> QED BY <2>4, <2>5, <2>6
<1>5. CASE row = "pending" /\ (ResolveSucceeded(h) \/ WebhookSucceeded(h))
  <2>1. intent = "succeeded" /\ stored # "none"
      BY <1>5 DEF ResolveSucceeded, WebhookSucceeded, At, Charged
  <2>2. row' = "completed" /\ intentKnown' = TRUE /\ WriteOutbox("captured")
      BY <1>5 DEF ResolveSucceeded, WebhookSucceeded, CompletePaymentWithOutbox
  <2>3. /\ events' \in [Topics -> Nat] /\ events'["captured"] = events["captured"] + 1
        /\ events'["refundFailed"] = events["refundFailed"]
        /\ events["captured"] \in Nat
      BY <2>2, OutboxGrows DEF Topics, TypeOK
  <2>4. TypeOK'
      BY <1>1, <1>2, <1>3, <2>2, <2>3 DEF TypeOK, Calls, Labels, Notices
  <2>5. Charged'
      BY <1>1, <1>2, <1>3, <2>1, <2>2 DEF Charged, CapturedIsCharged
  <2>6. Refunds'
      BY <1>1, <1>2, <2>2, <2>3 DEF Refunds, Owed
  <2> QED BY <2>4, <2>5, <2>6
<1> QED BY <1>4, <1>5

LEMMA WebhookKeeps ==
    ASSUME IInv, NEW n \in Notices,
           WebhookIgnored(n) \/ \E h \in Handlers : WebhookReads(h, n)
    PROVE  IInv'
<1> USE DEF IInv, refunding, orderSide, bounds, payment
<1>1. CASE WebhookIgnored(n)
  <2>1. /\ notices' \in [Notices -> {"none", "due", "acked"}]
        /\ notices'["succeeded"] # "none" => notices["succeeded"] # "none"
      BY <1>1 DEF WebhookIgnored, Acknowledge, TypeOK, Notices
  <2>2. TypeOK'
      BY <1>1, <2>1 DEF WebhookIgnored, TypeOK, Notices
  <2>3. Charged'
      BY <1>1, <2>1 DEF WebhookIgnored, Charged, CapturedIsCharged
  <2>4. Refunds'
      BY <1>1 DEF WebhookIgnored, Refunds, Owed
  <2> QED BY <2>2, <2>3, <2>4
<1>2. ASSUME NEW h \in Handlers, WebhookReads(h, n) PROVE IInv'
  <2>1. /\ call' \in [Handlers -> Calls] /\ call'[h].pc \in {"idle", n}
        /\ ~call'[h].known /\ call'[h].reply = "none"
        /\ \A g \in Handlers \ {h} : call'[g] = call[g]
      BY <1>2, CallMoves DEF WebhookReads, Labels, Notices
  <2>2. n = "succeeded" => intent = "succeeded"
      BY <1>2 DEF WebhookReads, Charged
  <2>3. UNCHANGED <<payment, events, refunding, stripe, orderSide, bounds>>
      BY <1>2 DEF WebhookReads
  <2>4. TypeOK'
      BY <2>1, <2>3 DEF TypeOK, Calls, Labels, stripe
  <2>5. Charged'
      BY <2>1, <2>2, <2>3 DEF Charged, CapturedIsCharged, stripe, Notices
  <2>6. Refunds'
      BY <2>1, <2>3 DEF Refunds, Owed, Notices
  <2> QED BY <2>4, <2>5, <2>6
<1> QED BY <1>1, <1>2

(* Who asks for a refund.                                                  *)
LEMMA RequestKeeps ==
    ASSUME IInv, NEW h \in Handlers, UnfulfillableReads(h) \/ RequestRefund(h)
    PROVE  IInv'
<1> USE DEF IInv
<1>1. /\ call' \in [Handlers -> Calls] /\ call'[h].pc \in {"idle", "enqueue", "enqueueEvent"}
      /\ ~call'[h].known /\ call'[h].reply = "none"
      /\ \A g \in Handlers \ {h} : call'[g] = call[g]
    BY CallMoves DEF UnfulfillableReads, RequestRefund, Labels
<1>2. Owed
    BY DEF UnfulfillableReads, RequestRefund, Refunds, Owed
<1>3. UNCHANGED <<payment, events, refunding, stripe, orderSide, bounds>>
    BY DEF UnfulfillableReads, RequestRefund
<1>4. TypeOK'
    BY <1>1, <1>3 DEF TypeOK, Calls, Labels, payment, refunding, stripe, orderSide, bounds
<1>5. Charged'
    BY <1>1, <1>3 DEF Charged, CapturedIsCharged, payment, refunding, stripe, orderSide
<1>6. Refunds'
    BY <1>1, <1>2, <1>3 DEF Refunds, Owed, payment, refunding, orderSide
<1> QED BY <1>4, <1>5, <1>6

LEMMA EnqueueKeeps ==
    ASSUME IInv, NEW h \in Handlers, Enqueue(h)
    PROVE  IInv'
<1> USE DEF IInv, payment, stripe, bounds
<1>1. /\ call' \in [Handlers -> Calls] /\ call'[h].pc = "idle"
      /\ ~call'[h].known /\ call'[h].reply = "none"
      /\ \A g \in Handlers \ {h} : call'[g] = call[g]
    BY CallMoves DEF Enqueue, Labels
<1>2. Owed
    BY DEF Enqueue, Refunds
<1>3. /\ UNCHANGED <<payment, executor, returned, stripe, order, bounds>>
      /\ unfulfillable' \in {unfulfillable, "queued"}
    BY DEF Enqueue
<1>4. CASE Live
  <2>1. UNCHANGED <<refund, refundId, events>>
      BY <1>4 DEF Enqueue, EnqueueRefund
  <2>2. TypeOK'
      BY <1>1, <1>3, <2>1 DEF TypeOK, Calls, Labels
  <2>3. Charged'
      BY <1>1, <1>3, <2>1 DEF Charged, CapturedIsCharged
  <2>4. Refunds'
      BY <1>1, <1>2, <1>3, <2>1 DEF Refunds, Owed
  <2> QED BY <2>2, <2>3, <2>4
<1>5. CASE ~Live
  <2>1. /\ refundId < MaxRefunds /\ refundId' = refundId + 1
        /\ refund' = [status |-> "requested", attempts |-> 0]
        /\ WriteOutbox("refundRequested")
      BY <1>5 DEF Enqueue, EnqueueRefund
  <2>2. /\ events' \in [Topics -> Nat] /\ events'["captured"] = events["captured"]
        /\ events'["refundFailed"] = events["refundFailed"]
      BY <2>1, OutboxGrows DEF Topics
  <2>3. refundId \in 0..MaxRefunds /\ MaxRefunds \in Nat /\ MaxRefundAttempts \in Nat \ {0}
      BY PaymentAssumption DEF TypeOK
  <2>4. refundId' \in 0..MaxRefunds /\ refundId' > 0 /\ 1..refundId \subseteq 1..refundId'
        /\ 0 \in 0..MaxRefundAttempts /\ 0 < MaxRefundAttempts
      BY <2>1, <2>3
  <2>5. refund.status = "failed" \/ refundId = 0
      BY <1>5, <2>3 DEF TypeOK, Refunds, Live
  <2>6. refund' \in [status : {"none", "requested", "completed", "failed"},
                     attempts : 0..MaxRefundAttempts]
        /\ refund'.status = "requested" /\ refund'.attempts = 0
      BY <2>1, <2>4
  <2>7. TypeOK'
      BY <1>1, <1>3, <2>2, <2>4, <2>6 DEF TypeOK, Calls, Labels
  <2>8. Charged'
      BY <1>1, <1>3, <2>2 DEF Charged, CapturedIsCharged
  <2>9. refundId' > 1 => events'["refundFailed"] > 0
      BY <2>1, <2>2, <2>3, <2>5 DEF Refunds
  <2>10. executor # "paid" /\ ~(row = "refunded" /\ returned = {})
      BY <1>5 DEF Refunds, Live
  <2>11. returned' \subseteq 1..refundId'
      BY <1>3, <2>4 DEF Refunds
  <2>12. Owed'
      BY <1>2, <1>3, <2>2 DEF Owed
  <2>13. \A g \in Handlers : call'[g].pc \in {"enqueue", "enqueueEvent"} => Owed'
      BY <2>12
  <2> QED
    <3>1. row' \in {"completed", "refunded"} => events'["captured"] > 0
        BY <1>3, <2>2 DEF Refunds
    <3>2. row' = "refunded" \/ refund'.status = "completed" => returned' # {}
        BY <1>3, <2>6, <2>10
    <3>3. executor' # "paid"
        BY <1>3, <2>10
    <3>4. Refunds'
        BY <2>4, <2>6, <2>9, <2>11, <2>12, <2>13, <3>1, <3>2, <3>3 DEF Refunds
    <3> QED BY <2>7, <2>8, <3>4
<1> QED BY <1>4, <1>5

(* The executor, whatever the provider answers.                            *)
LEMMA ExecutorKeeps ==
    ASSUME IInv, Executor \/ ExecuteFails \/ ExecuteLost
    PROVE  IInv'
<1> USE DEF IInv, payment, stripe, orderSide
<1>1. UNCHANGED <<intentKnown, refundId, stripe, orderSide, call, charges>>
    BY DEF Executor, Execute, ExecuteCommit, ExecuteNotRefundable, ExecuteFails, ExecuteLost, bounds, Fault
<1>2. faultCount' \in 0..MaxFaults
  <2>1. \/ UNCHANGED faultCount
        \/ faultCount < MaxFaults /\ faultCount' = faultCount + 1
      BY DEF Executor, Execute, ExecuteCommit, ExecuteNotRefundable, ExecuteFails, ExecuteLost, bounds, Fault
  <2> QED BY <2>1, FaultsBounded
<1>3. refundId \in 0..MaxRefunds /\ MaxRefunds \in Nat /\ MaxRefundAttempts \in Nat \ {0}
    BY PaymentAssumption DEF TypeOK
<1>4. refund.status = "requested" /\ Owed /\ refundId > 0 /\ refund.attempts + 1 \in 0..MaxRefundAttempts
  <2>1. refund.status = "requested"
      BY DEF Executor, Execute, ExecuteCommit, ExecuteNotRefundable, ExecuteFails, ExecuteLost, Claimable,
             Refunds
  <2>2. refund.attempts \in 0..MaxRefundAttempts /\ refund.attempts < MaxRefundAttempts
      BY <2>1 DEF TypeOK, Refunds
  <2> QED BY <1>3, <2>1, <2>2 DEF Refunds
<1>5. \/ UNCHANGED row
      \/ row \in {"completed", "refunded"} /\ row' = "refunded" /\ executor = "paid"
    BY DEF Executor, Execute, ExecuteCommit, ExecuteNotRefundable, ExecuteFails, ExecuteLost, Refundable
<1>6. returned' \in {returned, returned \cup {refundId}}
    BY DEF Executor, Execute, ExecuteCommit, ExecuteNotRefundable, ExecuteFails, ExecuteLost, ProviderPays
<1>7. returned' \subseteq 1..refundId' /\ returned' \subseteq 1..MaxRefunds
    BY <1>1, <1>3, <1>4, <1>6 DEF Refunds
<1>8. /\ refund' \in [status : {"requested", "completed", "failed"}, attempts : 0..MaxRefundAttempts]
      /\ refund'.status = "requested" => refund'.attempts < MaxRefundAttempts
      /\ events' \in [Topics -> Nat] /\ events'["captured"] = events["captured"]
      /\ events'["refundFailed"] >= events["refundFailed"]
      /\ refund'.status = "failed" => events'["refundFailed"] > 0
      /\ refund'.status = "completed" => executor = "paid"
      /\ executor' = "paid" => UNCHANGED refund /\ returned' # {}
      /\ executor' \in {"idle", "paid"}
  <2>1. CASE Execute
      BY <1>4, <2>1 DEF Execute, ProviderPays, TypeOK, Refunds, Topics
  <2>2. CASE ExecuteCommit
    <3>1. events' \in [Topics -> Nat] /\ events'["captured"] = events["captured"]
          /\ events'["refundFailed"] = events["refundFailed"] /\ events["refundFailed"] \in Nat
        BY <2>2, OutboxGrows DEF ExecuteCommit, Topics, TypeOK
    <3> QED BY <1>4, <2>2, <3>1 DEF ExecuteCommit
  <2>3. ASSUME NEW a \in 0..MaxRefundAttempts, GiveUp(a)
        PROVE  /\ refund' \in [status : {"requested", "completed", "failed"}, attempts : 0..MaxRefundAttempts]
               /\ events' \in [Topics -> Nat] /\ events'["captured"] = events["captured"]
               /\ events'["refundFailed"] > 0 /\ events'["refundFailed"] >= events["refundFailed"]
               /\ refund'.status = "failed"
    <3>1. events' \in [Topics -> Nat] /\ events'["captured"] = events["captured"]
          /\ events'["refundFailed"] = events["refundFailed"] + 1 /\ events["refundFailed"] \in Nat
        BY <2>3, OutboxGrows DEF GiveUp, Topics, TypeOK
    <3> QED BY <2>3, <3>1 DEF GiveUp
  <2>4. CASE ExecuteNotRefundable
    <3>1. refund.attempts \in 0..MaxRefundAttempts /\ GiveUp(refund.attempts)
        BY <2>4 DEF ExecuteNotRefundable, TypeOK
    <3>2. executor' = "idle"
        BY <2>4 DEF ExecuteNotRefundable, Claimable
    <3> QED BY <2>3, <3>1, <3>2
  <2>5. CASE ExecuteFails \/ ExecuteLost
    <3>1. executor' = "idle" /\ ProviderError
        BY <2>5 DEF ExecuteFails, ExecuteLost, Claimable
    <3>2. CASE refund.attempts + 1 >= MaxRefundAttempts
        BY <1>4, <2>3, <3>1, <3>2 DEF ProviderError
    <3>3. CASE ~(refund.attempts + 1 >= MaxRefundAttempts)
      <4>1. refund' = [status |-> "requested", attempts |-> refund.attempts + 1] /\ UNCHANGED events
          BY <3>1, <3>3 DEF ProviderError
      <4>2. refund'.status = "requested" /\ refund'.attempts = refund.attempts + 1
            /\ refund' \in [status : {"requested", "completed", "failed"}, attempts : 0..MaxRefundAttempts]
          BY <1>4, <4>1
      <4>3. refund'.attempts < MaxRefundAttempts
          BY <1>3, <1>4, <3>3, <4>2
      <4> QED BY <3>1, <4>1, <4>2, <4>3 DEF TypeOK, Topics
    <3> QED BY <3>2, <3>3
  <2> QED BY <2>1, <2>2, <2>4, <2>5 DEF Executor
<1>9. refund'.status # "none"
    BY <1>8
<1>10. TypeOK'
    BY <1>1, <1>2, <1>5, <1>7, <1>8 DEF TypeOK
<1>11. Charged'
    BY <1>1, <1>5, <1>8 DEF Charged, CapturedIsCharged
<1>12. Refunds'
  <2>1. Owed' /\ events["captured"] > 0
      BY <1>1, <1>4, <1>8 DEF Owed
  <2>2. executor = "paid" => returned # {} /\ returned' # {}
      BY <1>6 DEF Refunds
  <2>3. row' \in {"completed", "refunded"} => events'["captured"] > 0
      BY <2>1 DEF Owed
  <2>4. row' = "refunded" \/ refund'.status = "completed" => returned' # {}
      BY <1>5, <1>6, <1>8, <2>2 DEF Refunds
  <2>5. executor' = "paid" => refund'.status = "requested" /\ returned' # {}
      BY <1>4, <1>8
  <2>6. refund'.status = "failed" \/ refundId' > 1 => events'["refundFailed"] > 0
    <3>1. events["refundFailed"] \in Nat /\ events'["refundFailed"] \in Nat
        BY <1>8 DEF TypeOK, Topics
    <3> QED BY <1>1, <1>8, <3>1 DEF Refunds
  <2>7. refund'.status # "none" <=> refundId' > 0
      BY <1>1, <1>4, <1>9
  <2> QED BY <1>1, <1>7, <1>8, <2>1, <2>3, <2>4, <2>5, <2>6, <2>7 DEF Refunds
<1> QED BY <1>10, <1>11, <1>12

(* Stripe, the order-service and crashes.                                  *)
LEMMA OutsideKeeps ==
    ASSUME IInv, IntentSettles \/ OrderCancelled \/ OrderSettles \/ UnfulfillableIgnored
    PROVE  IInv'
<1> USE DEF IInv, payment, refunding, bounds
<1>1. CASE IntentSettles
  <2>1. /\ intent # "succeeded" /\ stored' = stored /\ stored # "none"
        /\ intent' \in {"succeeded", "declined"}
        /\ notices' \in [Notices -> {"none", "due", "acked"}]
        /\ notices'["succeeded"] # "none" => intent' = "succeeded"
      BY <1>1 DEF IntentSettles, IntentBecomes, TypeOK, Charged, Notices
  <2>2. UNCHANGED <<payment, events, refunding, orderSide, call, bounds>>
      BY <1>1 DEF IntentSettles
  <2>3. TypeOK'
      BY <2>1, <2>2 DEF TypeOK, Notices, orderSide
  <2>4. Charged'
      BY <2>1, <2>2 DEF Charged, CapturedIsCharged
  <2>5. Refunds'
      BY <2>2 DEF Refunds, Owed, orderSide
  <2> QED BY <2>3, <2>4, <2>5
<1>2. CASE OrderCancelled \/ OrderSettles \/ UnfulfillableIgnored
  <2>1. /\ order' \in {"open", "complete", "cancelled"}
        /\ unfulfillable' \in {"none", "sent", "queued", "ignored"}
        /\ Owed => order' = "complete" \/ unfulfillable' # "none"
      BY <1>2 DEF OrderCancelled, OrderSettles, UnfulfillableIgnored, Owed, TypeOK
  <2>2. UNCHANGED <<payment, events, refunding, stripe, call, bounds>>
      BY <1>2 DEF OrderCancelled, OrderSettles, UnfulfillableIgnored
  <2>3. TypeOK'
      BY <2>1, <2>2 DEF TypeOK, stripe
  <2>4. Charged'
      BY <2>2 DEF Charged, CapturedIsCharged, stripe
  <2>5. Owed => Owed'
      BY <2>1, <2>2 DEF Owed
  <2>6. Refunds'
      BY <2>2, <2>5 DEF Refunds
  <2> QED BY <2>3, <2>4, <2>6
<1> QED BY <1>1, <1>2

LEMMA CrashKeeps ==
    ASSUME IInv, ExecutorCrash \/ \E h \in Handlers : Crash(h)
    PROVE  IInv'
<1> USE DEF IInv, payment, refunding, stripe, orderSide
<1>1. faultCount' \in 0..MaxFaults
  <2>1. faultCount < MaxFaults /\ faultCount' = faultCount + 1
      BY DEF ExecutorCrash, Crash, Fault
  <2> QED BY <2>1, FaultsBounded
<1>2. CASE ExecutorCrash
  <2>1. TypeOK'
      BY <1>1, <1>2 DEF TypeOK, ExecutorCrash, Fault
  <2>2. Charged'
      BY <1>2 DEF Charged, CapturedIsCharged, ExecutorCrash
  <2>3. Refunds'
      BY <1>2 DEF Refunds, Owed, ExecutorCrash
  <2> QED BY <2>1, <2>2, <2>3
<1>3. ASSUME NEW h \in Handlers, Crash(h) PROVE IInv'
  <2>1. /\ call' \in [Handlers -> Calls] /\ call'[h].pc = "idle"
        /\ ~call'[h].known /\ call'[h].reply = "none"
        /\ \A g \in Handlers \ {h} : call'[g] = call[g]
      BY <1>3, CallMoves DEF Crash, Labels
  <2>2. UNCHANGED <<payment, events, refunding, stripe, orderSide, charges>>
      BY <1>3 DEF Crash, Fault
  <2>3. TypeOK'
      BY <1>1, <2>1, <2>2 DEF TypeOK, Calls, Labels
  <2>4. Charged'
      BY <2>1, <2>2 DEF Charged, CapturedIsCharged
  <2>5. Refunds'
      BY <2>1, <2>2 DEF Refunds, Owed
  <2> QED BY <2>3, <2>4, <2>5
<1> QED BY <1>2, <1>3

-----------------------------------------------------------------------------
(* Theorems.                                                               *)

LEMMA InitHolds == Init => IInv
<1> SUFFICES ASSUME Init PROVE IInv
    OBVIOUS
<1>1. TypeOK
  <2>1. 0 \in 0..MaxCharges /\ 0 \in 0..MaxFaults /\ 0 \in 0..MaxRefunds /\ 0 \in 0..MaxRefundAttempts
      BY PaymentAssumption
  <2>2. call \in [Handlers -> Calls]
      BY CallsAre DEF Init
  <2> QED BY <2>1, <2>2 DEF Init, TypeOK, Calls, Labels
<1>2. \A h \in Handlers : call[h].pc = "idle" /\ ~call[h].known /\ call[h].reply = "none"
    BY CallsAre DEF Init
<1>3. Charged
    BY <1>2 DEF Init, Charged, CapturedIsCharged, Topics
<1>4. Refunds
    BY <1>2 DEF Init, Refunds
<1> QED BY <1>1, <1>3, <1>4 DEF IInv

LEMMA StepKeeps == IInv /\ [Next]_vars => IInv'
<1> SUFFICES ASSUME IInv, [Next]_vars PROVE IInv'
    OBVIOUS
<1>1. CASE UNCHANGED vars
    BY <1>1 DEF vars, payment, refunding, stripe, orderSide, bounds, IInv, TypeOK, Charged,
                CapturedIsCharged, Refunds, Owed
<1>2. ASSUME NEW h \in Handlers, Arrive(h) PROVE IInv'
    BY <1>2, ChargeKeeps, RequestKeeps, WebhookKeeps DEF Arrive, Notices
<1>3. ASSUME NEW h \in Handlers, Step(h) PROVE IInv'
    BY <1>3, ChargeKeeps, StripeKeeps, AnswerKeeps, EnqueueKeeps DEF Step
<1>4. CASE \E h \in Handlers : StripeFails(h) \/ StripeLost(h)
    BY <1>4, StripeKeeps
<1>5. CASE ExecutorCrash \/ \E h \in Handlers : Crash(h)
    BY <1>5, CrashKeeps
<1>6. CASE \E n \in Notices : WebhookIgnored(n)
    BY <1>6, WebhookKeeps
<1>7. CASE Executor \/ ExecuteFails \/ ExecuteLost
    BY <1>7, ExecutorKeeps
<1>8. CASE IntentSettles \/ OrderCancelled \/ OrderSettles \/ UnfulfillableIgnored
    BY <1>8, OutsideKeeps
<1> QED BY <1>1, <1>2, <1>3, <1>4, <1>5, <1>6, <1>7, <1>8, Zenon DEF Next, Notices

LEMMA Invariance == Spec => []IInv
BY InitHolds, StepKeeps, PTL DEF Spec

(* Every variable of the payment keeps its type.                           *)
THEOREM TypeCorrect == Spec => []TypeOK
BY Invariance, PTL DEF IInv

(* No capture and no refund is told that did not happen, whatever replies  *)
(* are lost, repeated or overtaken by webhooks, and nothing is paid back   *)
(* that was not captured.                                                  *)
THEOREM MoneyIsHonest == Spec => []MoneyHonest
<1>1. IInv => MoneyHonest
  <2> SUFFICES ASSUME IInv PROVE MoneyHonest
      OBVIOUS
  <2>1. returned # {} => refundId > 0
    <3>1. refundId \in Nat /\ \A i \in returned : i \in 1..refundId
        BY PaymentAssumption DEF IInv, TypeOK, Refunds
    <3> QED BY <3>1
  <2>2. returned # {} => Owed
      BY <2>1 DEF IInv, Refunds
  <2> QED BY <2>2 DEF IInv, Charged, Refunds, Owed, MoneyHonest, RefundHonest
<1> QED BY <1>1, Invariance, PTL

(* A buyer is paid back twice only after a refund was given up, however    *)
(* many ask for the refund and however often the provider is called.       *)
THEOREM ReturnedAtMostOnce == Spec => []ReturnedOnce
<1>1. IInv => ReturnedOnce
  <2> SUFFICES ASSUME IInv, Cardinality(returned) > 1, refundId <= 1
               PROVE  FALSE
      BY DEF IInv, TypeOK, Refunds, ReturnedOnce
  <2>1. returned \subseteq {1}
      BY DEF IInv, TypeOK, Refunds
  <2>2. returned = {} \/ returned = {1}
      BY <2>1
  <2>3. Cardinality(returned) = 0 \/ Cardinality(returned) = 1
      BY <2>2, FS_EmptySet, FS_Singleton
  <2> QED BY <2>3
<1> QED BY <1>1, Invariance, PTL
=============================================================================
