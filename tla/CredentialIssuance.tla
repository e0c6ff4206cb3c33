------------------------- MODULE CredentialIssuance -------------------------
(***************************************************************************)
(* The attendance-service issues admission credentials: replicas of a      *)
(* Kafka consumer read orders.order.completed, insert one credential with  *)
(* its outbox row for every unit of the order, and commit the offset.  An  *)
(* event they cannot process goes to a dead-letter topic.  The outbox is   *)
(* relayed by the protocol of OutboxRelay.                                 *)
(*                                                                         *)
(* The topic has one partition: messages are numbered, and a message may   *)
(* repeat an order, as its sender is at-least-once.  A credential is a row *)
(* number, in the order of issued_at.                                      *)
(***************************************************************************)
EXTENDS Integers, FiniteSets, Sequences

CONSTANTS
    Consumers,      \* replicas of the service, as consumers
    Relays,         \* and as outbox relays
    Users,
    Orders,
    Quantity,       \* [Orders -> units: its seats, or its GA quantity]
    Buyer,          \* [Orders -> Users]
    Topic,          \* the messages, each of an order
    Malformed,      \* the orders whose events fail validation
    MaxRows,        \* rows the table may take
    MaxRetries,
    NoUnit, NoUser, \* the columns of a row not yet there
    Faults,
    MaxFaults

Rows == 1..MaxRows
Messages == 1..Len(Topic)

(* Admission units, for which the issuance keys stand.                     *)
UnitsOf(o) == {o} \X (1..Quantity[o])
Units == UNION {UnitsOf(o) : o \in Orders}

(* A send is waited for, however long it takes.                            *)
RelayKinds == {"sendFail", "db", "crash"}
ConsumerKinds == {"issue", "dlq", "commit", "restart", "rebalance"}

ASSUME IssuanceAssumption ==
    /\ Quantity \in [Orders -> Nat \ {0}] /\ Buyer \in [Orders -> Users]
    /\ Topic \in Seq(Orders) /\ Malformed \subseteq Orders
    /\ MaxRows \in Nat \ {0} /\ MaxRetries \in Nat /\ MaxFaults \in Nat
    /\ NoUnit \notin Units /\ NoUser \notin Users

VARIABLES
    key,            \* admission_credentials: the unit of each row,
    owner,          \*   its buyer_user_id
    status,         \*   and its status, "none" before the insert
    committed,      \* the offset of the consumer group
    assignee,       \* the consumer that has the partition
    position,       \* [Consumers -> the next message it reads]
    job,            \* [Consumers -> what it does with its message]
    dlq,            \* the messages in the dead-letter topic
    refused,        \* history: those whose dead-lettering has failed
    outbox, running, claimed, marked, inFlight, sent,   \* see OutboxRelay
    faultCount

tableVars == <<key, owner, status>>
groupVars == <<committed, assignee, position, dlq, refused>>
relayVars == <<outbox, running, claimed, marked, inFlight, sent>>
issuanceVars == <<tableVars, groupVars, job, relayVars, faultCount>>

Relay == INSTANCE OutboxRelay WITH
            Replicas <- Relays, N <- MaxRows, Key <- [r \in Rows |-> r],
            BatchSize <- MaxRows, Faults <- Faults \cap RelayKinds,
            table <- outbox, ahead <- [r \in Rows |-> {}], log <- sent

Fault(kind) ==
    /\ kind \in Faults /\ faultCount < MaxFaults
    /\ faultCount' = faultCount + 1

Idle == [step |-> "idle", msg |-> 1, unit |-> 1, attempt |-> 0]

Issued(u) == \E r \in Rows : key[r] = u
UnitOf(c) == <<Topic[job[c].msg], job[c].unit>>

(* What OnOrderCompleted refuses, at every attempt.                        *)
Invalid(o) == o \in Malformed

(* Consumer c goes to a step of its loop, at unit n of its message.        *)
Goto(c, step, n, attempt) ==
    job' = [job EXCEPT ![c] =
                [step |-> step, msg |-> job[c].msg, unit |-> n, attempt |-> attempt]]
Step(c, step) == Goto(c, step, job[c].unit, job[c].attempt)
Stop(c) == job' = [job EXCEPT ![c] = Idle]

-----------------------------------------------------------------------------
(* The consumer's loop.                                                    *)

Take(c) ==
    /\ assignee = c /\ job[c] = Idle
    /\ position[c] \in Messages
    /\ position' = [position EXCEPT ![c] = @ + 1]
    /\ job' = [job EXCEPT ![c] =
            [step |-> IF Invalid(Topic[position[c]]) THEN "dlq" ELSE "look",
             msg |-> position[c], unit |-> 1, attempt |-> 0]]

(* Mutant: the offset is committed as the message is read.                 *)
FetchMutant(c) ==
    /\ Take(c)
    /\ committed' = position[c] + 1
    /\ UNCHANGED <<tableVars, assignee, dlq, refused, relayVars, faultCount>>

(* ReadMessage.  A malformed event fails every attempt.                    *)
Fetch(c) ==
    /\ Take(c)
    /\ UNCHANGED <<tableVars, committed, assignee, dlq, refused, relayVars, faultCount>>

(* issueOne is done: the loop of OnOrderCompleted goes on to the next      *)
(* unit, or ends and processMessage returns.                               *)
UnitDone(c) ==
    IF job[c].unit < Quantity[Topic[job[c].msg]]
      THEN Goto(c, "look", job[c].unit + 1, job[c].attempt)
      ELSE Step(c, "commit")

(* FindByIssuanceKey.                                                      *)
LookUp(c) ==
    /\ job[c].step = "look"
    /\ \/ Issued(UnitOf(c)) /\ UnitDone(c)
       \/ ~Issued(UnitOf(c)) /\ Step(c, "create")
    /\ UNCHANGED <<tableVars, groupVars, relayVars, faultCount>>

(* The row and its outbox row, in one transaction.                         *)
WriteRow(u) ==
    \E r \in Rows :
        /\ status[r] = "none" /\ \A q \in Rows : q < r => status[q] # "none"
        /\ key' = [key EXCEPT ![r] = u]
        /\ owner' = [owner EXCEPT ![r] = Buyer[u[1]]]
        /\ status' = [status EXCEPT ![r] = "ISSUED"]
        /\ Relay!Write(r)

(* Mutant: issuance_key has no unique index.                               *)
InsertMutant(u) == WriteRow(u)

(* CreateWithOutbox, under the unique index on issuance_key.               *)
Insert(u) == ~Issued(u) /\ WriteRow(u)

Create(c) ==
    /\ job[c].step = "create"
    /\ Insert(UnitOf(c))
    /\ Step(c, "created")
    /\ UNCHANGED groupVars

(* ErrDuplicate: the row is read again.                                    *)
CreateDuplicate(c) ==
    /\ job[c].step = "create" /\ Issued(UnitOf(c))
    /\ Step(c, "created")
    /\ UNCHANGED <<tableVars, groupVars, relayVars, faultCount>>

Created(c) ==
    /\ job[c].step = "created"
    /\ UnitDone(c)
    /\ UNCHANGED <<tableVars, groupVars, relayVars, faultCount>>

(* A statement failed, or the answer of the insert is lost.  The handler   *)
(* starts again from the first unit; out of attempts, the loop gives up.   *)
IssueFails(c) ==
    /\ job[c].step \in {"look", "create", "created"}
    /\ Fault("issue")
    /\ IF job[c].attempt < MaxRetries
         THEN Goto(c, "look", 1, job[c].attempt + 1)
         ELSE Step(c, "dlq")
    /\ UNCHANGED <<tableVars, groupVars, relayVars>>

DeadLetter(c) ==
    /\ job[c].step = "dlq"
    /\ dlq' = dlq \cup {job[c].msg}
    /\ Step(c, "commit")
    /\ UNCHANGED <<tableVars, committed, assignee, position, refused, relayVars, faultCount>>

(* Mutant: the refusal goes unnoticed, and the offset is committed.        *)
GiveUpMutant(c) == Step(c, "commit") /\ UNCHANGED refused

(* "do not commit": the loop goes on with the next message.                *)
GiveUp(c) ==
    /\ Stop(c)
    /\ refused' = refused \cup {job[c].msg}

DeadLetterFails(c) ==
    /\ job[c].step = "dlq"
    /\ Fault("dlq")
    /\ GiveUp(c)
    /\ UNCHANGED <<tableVars, committed, assignee, position, dlq, relayVars>>

(* CommitMessage; the broker refuses it of a consumer that has lost the    *)
(* partition.                                                              *)
Commit(c) ==
    /\ job[c].step = "commit"
    /\ committed' = IF assignee = c THEN job[c].msg + 1 ELSE committed
    /\ Stop(c)
    /\ UNCHANGED <<tableVars, assignee, position, dlq, refused, relayVars, faultCount>>

CommitFails(c) ==
    /\ job[c].step = "commit"
    /\ Fault("commit")
    /\ Stop(c)
    /\ UNCHANGED <<tableVars, groupVars, relayVars>>

(* The process dies, and reads from the committed offset again.            *)
Restart(c) ==
    /\ Fault("restart")
    /\ assignee = c \/ job[c] # Idle
    /\ position' = [position EXCEPT ![c] = committed]
    /\ Stop(c)
    /\ UNCHANGED <<tableVars, committed, assignee, dlq, refused, relayVars>>

(* The group gives the partition to c; the consumer that had it may still  *)
(* be at work on a message.                                                *)
Rebalance(c) ==
    /\ Fault("rebalance")
    /\ assignee # c /\ job[c] = Idle
    /\ assignee' = c
    /\ position' = [position EXCEPT ![c] = committed]
    /\ UNCHANGED <<tableVars, committed, job, dlq, refused, relayVars>>

-----------------------------------------------------------------------------
IssuanceInit ==
    /\ key = [r \in Rows |-> NoUnit]
    /\ owner = [r \in Rows |-> NoUser]
    /\ status = [r \in Rows |-> "none"]
    /\ committed = 1
    /\ assignee \in Consumers
    /\ position = [c \in Consumers |-> 1]
    /\ job = [c \in Consumers |-> Idle]
    /\ dlq = {} /\ refused = {}
    /\ running = Relays
    /\ Relay!Init

Consume(c) ==
    \/ Fetch(c) \/ LookUp(c) \/ Create(c) \/ CreateDuplicate(c) \/ Created(c)
    \/ DeadLetter(c) \/ Commit(c)

(* The relay, in the steps of OutboxRelay: a row of its own key each.      *)
ListUnpublishedTx(p) == Relay!Claim(p)
PublishRow(p) == \E r \in Rows : Relay!Publish(p, r)
RunOnce(p) ==
    /\ ListUnpublishedTx(p) \/ PublishRow(p) \/ Relay!Commit(p)
    /\ UNCHANGED <<tableVars, groupVars, job>>

RelayFails(p) == Relay!RelayFails(p) /\ UNCHANGED <<tableVars, groupVars, job>>

(* OutboxCleanup.                                                          *)
DeletePublished(r) == Relay!Purge(r) /\ UNCHANGED <<tableVars, groupVars, job>>

IssuanceNext ==
    \/ \E c \in Consumers :
        \/ Consume(c) \/ IssueFails(c) \/ DeadLetterFails(c)
        \/ CommitFails(c) \/ Restart(c) \/ Rebalance(c)
    \/ \E p \in Relays : RunOnce(p) \/ RelayFails(p)
    \/ \E r \in Rows : DeletePublished(r)
=============================================================================
