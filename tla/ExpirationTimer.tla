-------------------------- MODULE ExpirationTimer --------------------------
(***************************************************************************)
(* The expiration-service next to the orders it has to end.                *)
(*                                                                         *)
(* Its consumer reads orders.order.created and enqueues a delayed task in  *)
(* Redis under the order's id; the asynq worker runs the task when it is   *)
(* due and publishes expiration.order.expiration_complete, which the       *)
(* order-service's consumer answers with expireOrder.  A handler that      *)
(* fails is tried again; then the record goes to the dead letters, and     *)
(* whether or not that worked its offset is committed.  So it is when the  *)
(* event cannot be read, and when the pod is shut down: the handler runs   *)
(* under the consumer's context, which the shutdown cancels.               *)
(*                                                                         *)
(* OrderSaga lets the event come whenever the order is past its expiry, or *)
(* never.  Here it comes from the timer.                                   *)
(***************************************************************************)
EXTENDS OrderSaga

CONSTANTS
    MaxTries,       \* calls of the handler for one record (maxRetries)
    MaxRetry,       \* runs of a task after its first
    MaxMishaps      \* failed calls, shutdowns and repeats around it, in all

ASSUME TimerAssumption ==
    MaxTries \in Nat \ {0} /\ MaxRetry \in Nat /\ MaxMishaps \in Nat

VARIABLES
    record,         \* the orders.order.created record: "none", "due", "passed"
                    \* with all its tries, or "dropped" in a shutdown or unread
    tries,          \* failed calls of the handler for it
    deadLetters,    \* records in the dead-letter topic
    task,           \* the asynq task with the order's id
    retried,        \* its runs that failed
    fired,          \* orders with an expiration_complete record to consume
    mishaps

timer == <<record, tries, deadLetters, task, retried, fired, mishaps>>

Mishap ==
    /\ mishaps < MaxMishaps
    /\ mishaps' = mishaps + 1
    /\ UNCHANGED vars

-----------------------------------------------------------------------------
(* The consumer.                                                           *)

(* The order-service's relay publishes the event.                          *)
CreatedPublished(o) ==
    /\ events[o]["created"] > 0 /\ record[o] = "none"
    /\ record' = [record EXCEPT ![o] = "due"]
    /\ UNCHANGED <<vars, tries, deadLetters, task, retried, fired, mishaps>>

(* The loop commits the record's offset and goes on to the next.           *)
Leave(o, how) ==
    /\ record' = [record EXCEPT ![o] = how]
    /\ tries' = [tries EXCEPT ![o] = 0]

(* Redis keeps the id of a task that waits, has run or is archived.        *)
Enqueue(o) ==
    task' = [task EXCEPT ![o] = IF @ \in {"none", "lost"} THEN "scheduled" ELSE @]

ScheduleExpiration(o) ==
    /\ record[o] = "due" /\ tries[o] < MaxTries
    /\ Enqueue(o)
    /\ Leave(o, "passed")
    /\ UNCHANGED <<vars, deadLetters, retried, fired, mishaps>>

(* Mutant: the first failure is the last.                                  *)
ScheduleFailsMutant(o) ==
    /\ record[o] = "due" /\ tries[o] < MaxTries
    /\ Mishap
    /\ Leave(o, "passed")
    /\ UNCHANGED <<deadLetters, task, retried, fired>>

(* The handler fails: the enqueue, which may have been applied, or before  *)
(* it the reading of expiresAt.                                            *)
ScheduleFails(o) ==
    /\ record[o] = "due" /\ tries[o] < MaxTries
    /\ Mishap
    /\ UNCHANGED task \/ Enqueue(o)
    /\ tries' = [tries EXCEPT ![o] = @ + 1]
    /\ UNCHANGED <<record, deadLetters, retried, fired>>

PublishToDLQ(o) ==
    /\ record[o] = "due" /\ tries[o] = MaxTries
    /\ deadLetters' = deadLetters \cup {o}
    /\ Leave(o, "passed")
    /\ UNCHANGED <<vars, task, retried, fired, mishaps>>

(* A dead letter given up on may reach the topic all the same.             *)
MayDeadLetter(o) == deadLetters' \in {deadLetters, deadLetters \cup {o}}

(* The error is logged and the offset committed all the same.              *)
PublishToDLQFails(o) ==
    /\ record[o] = "due" /\ tries[o] = MaxTries
    /\ Mishap
    /\ MayDeadLetter(o)
    /\ Leave(o, "passed")
    /\ UNCHANGED <<task, retried, fired>>

(* SIGTERM cancels the consumer's context.  The enqueue fails with it, on  *)
(* the first try as on any, and the wait for the next try returns; only    *)
(* the last try goes on, to a dead letter under the same context.          *)
Shutdown(o) ==
    /\ record[o] = "due" /\ tries[o] < MaxTries
    /\ Mishap
    /\ UNCHANGED task \/ Enqueue(o)
    /\ IF tries[o] = MaxTries - 1 THEN MayDeadLetter(o) ELSE UNCHANGED deadLetters
    /\ Leave(o, "dropped")
    /\ UNCHANGED <<retried, fired>>

(* An event that cannot be read is logged, and is no dead letter.          *)
Unreadable(o) ==
    /\ record[o] = "due" /\ tries[o] = 0
    /\ Mishap
    /\ Leave(o, "dropped")
    /\ UNCHANGED <<deadLetters, task, retried, fired>>

(* The relay sent the record twice, or the pod died before the commit.     *)
Redelivered(o) ==
    /\ record[o] \in {"passed", "dropped"} \/ tries[o] > 0
    /\ Mishap
    /\ record' = [record EXCEPT ![o] = "due"]
    /\ tries' = [tries EXCEPT ![o] = 0]
    /\ UNCHANGED <<deadLetters, task, retried, fired>>

-----------------------------------------------------------------------------
(* The asynq worker.                                                       *)

(* Mutant: the task is run without its delay.                              *)
DueMutant(o) == TRUE

(* ProcessIn(until expiresAt); the age of an order that has ended is not   *)
(* counted any more.                                                       *)
Due(o) == IsAwaitingPayment(o) => orderAge[o] >= Life

ProcessTask(o) ==
    /\ task[o] = "scheduled" /\ Due(o)
    /\ task' = [task EXCEPT ![o] = "done"]
    /\ fired' = fired \cup {o}
    /\ UNCHANGED <<vars, record, tries, deadLetters, retried, mishaps>>

(* Mutant: a failed task is not run again.                                 *)
RetryMutant(o) == task' = [task EXCEPT ![o] = "archived"] /\ UNCHANGED retried

(* asynq runs a failed task again, and archives it after the last retry.   *)
Retry(o) ==
    IF retried[o] < MaxRetry
    THEN retried' = [retried EXCEPT ![o] = @ + 1] /\ UNCHANGED task
    ELSE task' = [task EXCEPT ![o] = "archived"] /\ UNCHANGED retried

(* The event is not sent, or is sent and the task not known to have run.   *)
ProcessTaskFails(o) ==
    /\ task[o] = "scheduled" /\ Due(o)
    /\ Mishap
    /\ fired' \in {fired, fired \cup {o}}
    /\ Retry(o)
    /\ UNCHANGED <<record, tries, deadLetters>>

(* A failover of Redis drops a task that was written just before it.       *)
TaskLost(o) ==
    /\ task[o] = "scheduled"
    /\ Mishap
    /\ task' = [task EXCEPT ![o] = "lost"]
    /\ UNCHANGED <<record, tries, deadLetters, retried, fired>>

-----------------------------------------------------------------------------
(* The order-service's consumer of expiration_complete: expireOrder.       *)

ExpirationArrives(o) ==
    /\ o \in fired
    /\ Expire(o)
    /\ fired' = fired \ {o}
    /\ UNCHANGED <<record, tries, deadLetters, task, retried, mishaps>>

(* The order is in its payment grace, or has ended: nothing changes.       *)
ExpirationIgnored(o) ==
    /\ o \in fired
    /\ lock[o] = NoOne
    /\ IsInPaymentGrace(o) \/ IsTerminal(o)
    /\ fired' = fired \ {o}
    /\ UNCHANGED <<vars, record, tries, deadLetters, task, retried, mishaps>>

-----------------------------------------------------------------------------
TimedInit ==
    /\ Init
    /\ record = [o \in Orders |-> "none"]
    /\ tries = [o \in Orders |-> 0]
    /\ deadLetters = {}
    /\ task = [o \in Orders |-> "none"]
    /\ retried = [o \in Orders |-> 0]
    /\ fired = {} /\ mishaps = 0

(* What the orders do without the timer.                                   *)
UntimedStep ==
    \/ \E w \in Workers : \E o \in Orders : Request(w, o)
    \/ \E w \in Workers : WorkerStep(w) \/ FaultStep(w)
    \/ \E o \in Orders : MarkUnfulfillable(o) \/ GetOrderExpires(o) \/ Sweep(o) \/ OutsideStep(o)
    \/ Tick

TimerStep(o) ==
    \/ CreatedPublished(o) \/ ScheduleExpiration(o) \/ PublishToDLQ(o) \/ ProcessTask(o)
    \/ ExpirationArrives(o) \/ ExpirationIgnored(o)

TimerFails(o) ==
    \/ ScheduleFails(o) \/ PublishToDLQFails(o) \/ Shutdown(o) \/ Unreadable(o)
    \/ Redelivered(o) \/ ProcessTaskFails(o) \/ TaskLost(o)

TimedNext ==
    \/ UntimedStep /\ UNCHANGED timer
    \/ \E o \in Orders : TimerStep(o) \/ TimerFails(o)

timedVars == <<vars, timer>>

TimedSpec == TimedInit /\ [][TimedNext]_timedVars

(* Busy threads are scheduled, time passes, the relay, the consumers and   *)
(* the asynq worker run.  The sweep owes nothing here.                     *)
TimedFairSpec ==
    /\ TimedSpec
    /\ \A w \in Workers : WF_vars(WorkerStep(w))
    /\ WF_vars(Tick)
    /\ \A o \in Orders : WF_timedVars(TimerStep(o))

-----------------------------------------------------------------------------
(* Properties.                                                             *)

(* The variables of the expiration-service keep their types.               *)
TimedTypeOK ==
    /\ TypeOK
    /\ record \in [Orders -> {"none", "due", "passed", "dropped"}]
    /\ tries \in [Orders -> 0..MaxTries] /\ retried \in [Orders -> 0..MaxRetry]
    /\ task \in [Orders -> {"none", "scheduled", "done", "archived", "lost"}]
    /\ deadLetters \subseteq Orders /\ fired \subseteq Orders
    /\ mishaps \in 0..MaxMishaps

(* The timer only does what the order-service expects of it: with its      *)
(* retries, redeliveries and losses, the event never comes to an order     *)
(* before its expiresAt, so all that holds of OrderSaga holds here.        *)
KeepsSaga == Spec

(* An order whose record was tried to the end has its timer in Redis or is *)
(* in the dead letters: to lose it there, every try and then the dead      *)
(* letter must fail.  Failures alone, short of that, lose no timer; one    *)
(* shutdown does, and so does one event that cannot be read.               *)
TimerKept ==
    \A o \in Orders :
        record[o] = "passed" =>
            task[o] # "none" \/ o \in deadLetters \/ mishaps > MaxTries

(* The timer alone, without the sweep, ends an order that nobody pays: its *)
(* task may be retried, redelivered and refused as a duplicate, but it     *)
(* runs, unless the record was dropped before there was one, a failover    *)
(* dropped the task, or the consumer or the worker may be out of tries.    *)
TimerEnds ==
    \A o \in Orders :
        status[o] = "CREATED" ~>
            \/ status[o] # "CREATED"
            \/ task[o] = "none" /\ record[o] = "dropped"
            \/ task[o] = "lost"
            \/ mishaps >= MaxTries \/ mishaps > MaxRetry
=============================================================================
