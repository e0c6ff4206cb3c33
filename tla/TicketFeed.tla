---------------------------- MODULE TicketFeed ----------------------------
(***************************************************************************)
(* From the edits of a ticket to those who follow them.  The relays of the *)
(* ticket-service claim events of the embedded outbox under a lease, send  *)
(* them to Kafka, creations and edits on a topic each, and remove what they*)
(* have sent; what fails is given back with a delay.  The indexer upserts  *)
(* the search document under the version of the event, next to a reindex   *)
(* command that copies the documents themselves; the order-service         *)
(* overwrites its replica with whatever arrives.                           *)
(*                                                                         *)
(* Edits are those of TicketCatalogue that match, whose copy is the ticket *)
(* (CopiesAreTrue there), and each writes a title of its own, named for its*)
(* version.  The two consumers share nothing: a behaviour has one of them. *)
(***************************************************************************)
EXTENDS TicketDocument, Sequences, FiniteSets, Functions

CONSTANTS Relays, BatchSize, MaxFaults, None

ASSUME FeedAssumption ==
    /\ BatchSize \in Nat \ {0} /\ MaxFaults \in Nat
    /\ None \notin Relays /\ None \notin Event
    /\ First = 1 /\ Titles = 2..MaxVersion

Topics == {"created", "updated"}

VARIABLES
    owner,          \* whose token an event carries
    leased,         \* the events whose lease has not run out
    later,          \* the events whose next attempt is not due
    batch,          \* what each relay has claimed and not dealt with
    doing,          \* what it does with the first of them
    topic,          \* what Kafka has accepted
    reader,         \* the consumer of this behaviour, "search" or "orders"
    place,          \* per topic, how far it has come
    parked,         \* the events it has given up on
    copy,           \* the search document, or the replica of the order-service
    reindexed,      \* the document the reindex command has read
    faultCount

claims == <<owner, leased, later>>
relayVars == <<claims, batch, doing>>
readerVars == <<reader, place, parked, copy, reindexed>>
vars == <<document, relayVars, topic, readerVars, faultCount>>

TypeOK ==
    /\ TypeOfDocument
    /\ owner \in [Versions -> Relays \cup {None}]
    /\ leased \subseteq Versions /\ later \subseteq Versions
    /\ batch \in [Relays -> SUBSET Event]
    /\ doing \in [Relays -> {"send", "acknowledge", "requeue"}]
    /\ topic \in [Topics -> Seq(Event)]
    /\ reader \in {"search", "orders"}
    /\ place \in [Topics -> Nat] /\ parked \subseteq Versions
    /\ {copy, reindexed} \subseteq Event \cup {None}
    /\ faultCount \in 0..MaxFaults

Fault == faultCount < MaxFaults /\ faultCount' = faultCount + 1

Pending == {e.version : e \in outbox}

Sent == Range(topic["created"]) \cup Range(topic["updated"])

Published == {e.version : e \in Sent}

TopicOf(e) == IF e.version = 1 THEN "created" ELSE "updated"

-----------------------------------------------------------------------------
(* The ticket is written by an edit, or by a reservation.                  *)
Write ==
    /\ \/ ticket.reserved = 0 /\ Update(ticket, ticket.version + 1, ticket.plan)
       \/ (ReserveUnit \/ ReturnUnit) /\ UNCHANGED outbox
    /\ UNCHANGED <<relayVars, topic, readerVars, faultCount>>

-----------------------------------------------------------------------------
(* Mutant: a claim is never taken over.                                    *)
ForeverMutant == {e \in outbox : e.version \notin later /\ owner[e.version] = None}

(* Mutant: nobody looks at the claims.                                     *)
SharedMutant == {e \in outbox : e.version \notin later}

(* Due, and not claimed or claimed under a lease that has run out.         *)
Eligible ==
    {e \in outbox : /\ e.version \notin later
                    /\ owner[e.version] = None \/ e.version \notin leased}

ClaimFor(r, S) ==
    /\ S # {} /\ Cardinality(S) <= BatchSize
    /\ owner' = [v \in Versions |-> IF \E e \in S : e.version = v THEN r ELSE owner[v]]
    /\ leased' = leased \cup {e.version : e \in S}
    /\ UNCHANGED later

(* ClaimPendingOutboxEvents: event by event, oldest first, while others    *)
(* claim too; so a batch is any choice of the eligible events.             *)
Claim(r) ==
    /\ batch[r] = {}
    /\ \E S \in SUBSET Eligible : ClaimFor(r, S) /\ batch' = [batch EXCEPT ![r] = S]
    /\ UNCHANGED <<document, doing, topic, readerVars, faultCount>>

(* An error ends the batch before anything is sent; what has been claimed  *)
(* stays claimed.                                                          *)
ClaimFails(r) ==
    /\ batch[r] = {} /\ Fault
    /\ \E S \in SUBSET Eligible : ClaimFor(r, S)
    /\ UNCHANGED <<document, batch, doing, topic, readerVars>>

(* Relay r is to take a step with event e: the loop goes by the batch.     *)
Doing(r, e, step) ==
    /\ doing[r] = step /\ e \in batch[r]
    /\ \A d \in batch[r] : e.version <= d.version

Do(r, step) == doing' = [doing EXCEPT ![r] = step] /\ UNCHANGED batch

GoOn(r, e) ==
    /\ batch' = [batch EXCEPT ![r] = @ \ {e}]
    /\ doing' = [doing EXCEPT ![r] = "send"]

Send(e) == topic' = [topic EXCEPT ![TopicOf(e)] = Append(@, e)]

Publish(r, e) ==
    /\ Doing(r, e, "send")
    /\ Send(e)
    /\ Do(r, "acknowledge")
    /\ UNCHANGED <<document, claims, readerVars, faultCount>>

(* The delivery report is an error, or the timeout of a message that the   *)
(* broker has taken all the same.                                          *)
PublishFails(r, e) ==
    /\ Doing(r, e, "send") /\ Fault
    /\ Send(e) \/ UNCHANGED topic
    /\ Do(r, "requeue")
    /\ UNCHANGED <<document, claims, readerVars>>

(* The token is still the one of this claim.                               *)
Holds(r, e) == e.version \in Pending /\ owner[e.version] = r

Drop(e) == outbox' = {d \in outbox : d.version # e.version}

(* AcknowledgeOutboxEvent removes the event, or finds it claimed by another*)
(* relay and is an error the batch goes on after.                          *)
Acknowledge(r, e) ==
    /\ Doing(r, e, "acknowledge")
    /\ IF Holds(r, e) THEN Drop(e) ELSE UNCHANGED outbox
    /\ GoOn(r, e)
    /\ UNCHANGED <<ticket, claims, topic, readerVars, faultCount>>

(* RequeueOutboxEvent clears the claim and puts the next attempt off.      *)
Requeue(r, e) ==
    /\ Doing(r, e, "requeue")
    /\ IF Holds(r, e)
       THEN /\ owner' = [owner EXCEPT ![e.version] = None]
            /\ leased' = leased \ {e.version}
            /\ later' = later \cup {e.version}
       ELSE UNCHANGED claims
    /\ GoOn(r, e)
    /\ UNCHANGED <<document, topic, readerVars, faultCount>>

(* Either call fails: the claim is left to its lease.                      *)
SettleFails(r, e) ==
    /\ Doing(r, e, "acknowledge") \/ Doing(r, e, "requeue")
    /\ Fault /\ GoOn(r, e)
    /\ UNCHANGED <<document, claims, topic, readerVars>>

Crash(r) ==
    /\ batch[r] # {} /\ Fault
    /\ batch' = [batch EXCEPT ![r] = {}]
    /\ doing' = [doing EXCEPT ![r] = "send"]
    /\ UNCHANGED <<document, claims, topic, readerVars>>

(* A lease runs out.  While its relay is still at work that takes a Kafka  *)
(* slower than the lease is long: a fault.                                 *)
LeaseExpires(v) ==
    /\ v \in leased /\ leased' = leased \ {v}
    /\ IF \E r \in Relays : owner[v] = r /\ \E e \in batch[r] : e.version = v
       THEN Fault ELSE UNCHANGED faultCount
    /\ UNCHANGED <<document, owner, later, batch, doing, topic, readerVars>>

FallsDue(v) ==
    /\ v \in later /\ later' = later \ {v}
    /\ UNCHANGED <<document, owner, leased, batch, doing, topic, readerVars,
                   faultCount>>

-----------------------------------------------------------------------------
(* Mutant: the last write wins.                                            *)
UpsertMutant(doc) == copy' = doc

(* UpsertTicket under external versioning: a version that is not newer is  *)
(* ignored.                                                                *)
Upsert(doc) == copy' = IF copy = None \/ copy.version < doc.version THEN doc ELSE copy

(* onTicketEvent saves what the event says over what it has.               *)
Overwrite(doc) == copy' = doc

Apply(doc) == \/ reader = "search" /\ Upsert(doc)
              \/ reader = "orders" /\ Overwrite(doc)

Unread(k) == place[k] < Len(topic[k])

Message(k) == topic[k][place[k] + 1]

Move(k, n) == place' = [place EXCEPT ![k] = @ + n]

(* The consumer handles the next message of a topic and commits it.        *)
Consume(k) ==
    /\ Unread(k)
    /\ Apply(Message(k)) /\ Move(k, 1)
    /\ UNCHANGED <<document, relayVars, topic, reader, parked, reindexed, faultCount>>

(* Every attempt fails, the last one perhaps only to answer.  The message  *)
(* goes to the dead letter topic; where that fails too the indexer goes on,*)
(* and the commit of the next message passes it.                           *)
Park(k) ==
    /\ Unread(k) /\ Fault
    /\ Apply(Message(k)) \/ UNCHANGED copy
    /\ parked' = parked \cup {Message(k).version}
    /\ Move(k, 1)
    /\ UNCHANGED <<document, relayVars, topic, reader, reindexed>>

(* The consumer dies between its write and its commit: the last message    *)
(* comes again.                                                            *)
Rewind(k) ==
    /\ place[k] > 0 /\ Fault
    /\ Move(k, -1)
    /\ UNCHANGED <<document, relayVars, topic, reader, parked, copy, reindexed>>

(* The reindex command reads a page of tickets and upserts each.           *)
ReindexRead ==
    /\ reader = "search" /\ reindexed = None
    /\ reindexed' = EventOf(ticket)
    /\ UNCHANGED <<document, relayVars, topic, reader, place, parked, copy, faultCount>>

ReindexWrite ==
    /\ reindexed # None /\ reindexed' = None
    /\ Upsert(reindexed)
    /\ UNCHANGED <<document, relayVars, topic, reader, place, parked, faultCount>>

-----------------------------------------------------------------------------
Init ==
    /\ InitDocument
    /\ owner = [v \in Versions |-> None] /\ leased = {} /\ later = {}
    /\ batch = [r \in Relays |-> {}]
    /\ doing = [r \in Relays |-> "send"]
    /\ topic = [k \in Topics |-> <<>>]
    /\ reader \in {"search", "orders"}
    /\ place = [k \in Topics |-> 0] /\ parked = {}
    /\ copy = None /\ reindexed = None
    /\ faultCount = 0

RelayStep(r) ==
    Claim(r) \/ \E e \in batch[r] : Publish(r, e) \/ Acknowledge(r, e) \/ Requeue(r, e)

RelayFault(r) ==
    \/ ClaimFails(r) \/ Crash(r)
    \/ \E e \in batch[r] : PublishFails(r, e) \/ SettleFails(r, e)

Time(v) == LeaseExpires(v) \/ FallsDue(v)

Next ==
    \/ Write
    \/ \E r \in Relays : RelayStep(r) \/ RelayFault(r)
    \/ \E v \in Versions : Time(v)
    \/ \E k \in Topics : Consume(k) \/ Park(k) \/ Rewind(k)
    \/ ReindexRead \/ ReindexWrite

Spec == Init /\ [][Next]_vars

(* The relays poll for ever, the consumers read on, time passes.           *)
Fairness ==
    /\ \A r \in Relays : WF_vars(RelayStep(r))
    /\ \A v \in Versions : WF_vars(Time(v))
    /\ \A k \in Topics : WF_vars(Consume(k))

FairSpec == Spec /\ Fairness

-----------------------------------------------------------------------------
(* An event leaves the outbox only after Kafka has accepted it, whichever  *)
(* relay removes it and whatever has become of its lease.                  *)
NeverLost == [][Pending \ Published \subseteq Pending']_vars

(* A message more than once takes a fault each: a send that was settled    *)
(* nowhere, or a lease shorter than the batch.                             *)
RepeatsExplained ==
    Len(topic["created"]) + Len(topic["updated"]) <= Cardinality(Published) + faultCount

(* The search document never lags behind its own version: one at least as  *)
(* new as the last edit shows that edit, whether an event or the reindex   *)
(* command wrote it.                                                       *)
SearchShows ==
    reader = "search" /\ copy # None /\ copy.version >= ticket.title => copy.title = ticket.title

(* Late, repeated and reordered events and a reindex that read early never *)
(* take the search document back to an older edit.                         *)
SearchForward == [][reader = "search" /\ copy # None => copy'.title >= copy.title]_vars

(* The last edit reaches the search index, unless the indexer gave up on   *)
(* its event.                                                              *)
SearchCatchesUp ==
    reader = "search" => <>[](\/ ticket.title \in parked
                              \/ copy # None /\ copy.title = ticket.title)

Handled == {e.version : e \in UNION {{topic[k][i] : i \in 1..place[k]} : k \in Topics}}

(* TicketEventConsumer calls re-processing the same event safe: a message  *)
(* whose event has been handled before leaves the replica no older.        *)
ReprocessingSafe ==
    [][\A k \in Topics :
        reader = "orders" /\ place'[k] > place[k] /\ topic[k][place'[k]].version \in Handled
            => copy'.version >= copy.version]_vars
=============================================================================
