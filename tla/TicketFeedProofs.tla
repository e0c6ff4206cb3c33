-------------------------- MODULE TicketFeedProofs --------------------------
(***************************************************************************)
(* Proofs about TicketFeed, for any number of relays, edits, events in a   *)
(* batch and faults.  Every event, wherever it is on its way, tells the    *)
(* ticket as it was at one of its versions, and later versions tell later  *)
(* edits: that makes external versioning enough for the search index.      *)
(***************************************************************************)
EXTENDS TicketFeed, FiniteSetTheorems, TLAPS

(* Every event there is: written, claimed, sent, shown, or read to be.     *)
Events ==
    outbox \cup (UNION {batch[r] : r \in Relays}) \cup Sent \cup ({copy, reindexed} \ {None})

(* The events of E tell the past of a ticket t.                            *)
Past(E, t) ==
    /\ E \subseteq Event /\ t.title <= t.version
    /\ \A e \in E : /\ e.title <= t.title /\ e.version <= t.version
                    /\ e.version >= t.title => e.title = t.title
    /\ \A d, e \in E : d.version <= e.version => d.title <= e.title

(* A relay without a batch starts the next one by sending.  What a relay is*)
(* about to acknowledge, Kafka has.                                        *)
SentFirst ==
    \A r \in Relays : \A e \in batch[r] :
        Doing(r, e, "acknowledge") => e.version \in Published

Idle == \A r \in Relays : batch[r] = {} => doing[r] = "send"

IInv == TypeOK /\ Idle /\ SentFirst /\ Past(Events, ticket)

-----------------------------------------------------------------------------
LEMMA Numbers == Titles \cup {First} \subseteq Nat /\ Versions \subseteq Nat
  BY FeedAssumption DEF Versions

(* The past of a ticket stays its past when the ticket is read once more,  *)
(* when events go, and when the ticket is written.                         *)
LEMMA PastShrinks ==
    ASSUME NEW E, NEW F, NEW t, F \subseteq E, Past(E, t) PROVE Past(F, t)
  BY DEF Past

LEMMA PastGrows ==
    ASSUME NEW E, NEW t \in Ticket, Past(E, t)
    PROVE  Past(E \cup {EventOf(t)}, t)
<1>1. EventOf(t) \in Event /\ EventOf(t).title = t.title /\ EventOf(t).version = t.version
  BY DEF EventOf, Event, Ticket
<1>2. \A e \in E \cup {EventOf(t)} : e.title \in Nat /\ e.version \in Nat
  BY <1>1, Numbers DEF Past, Event
<1> QED
  BY <1>1, <1>2, Numbers DEF Past, Ticket

LEMMA PastMoves ==
    ASSUME NEW E, NEW t \in Ticket, NEW u \in Ticket, Past(E, t),
           u.version = t.version + 1, u.title = t.title \/ u.title = u.version
    PROVE  Past(E, u)
<1>1. \A e \in E : e.title \in Nat /\ e.version \in Nat
  BY Numbers DEF Past, Event
<1>2. /\ t.title \in Nat /\ t.version \in Nat /\ u.title \in Nat /\ u.version \in Nat
      /\ t.title <= t.version
  BY Numbers DEF Past, Ticket
<1>3. u.title <= u.version /\ t.title <= u.title
  BY <1>2
<1>4. ASSUME NEW e \in E
      PROVE  /\ e.title <= u.title /\ e.version <= u.version
             /\ e.version >= u.title => e.title = u.title
  BY <1>1, <1>2, <1>3 DEF Past
<1> QED
  BY <1>3, <1>4 DEF Past

-----------------------------------------------------------------------------
LEMMA AppendRange ==
    ASSUME NEW S, NEW s \in Seq(S), NEW e \in S
    PROVE  Append(s, e) \in Seq(S) /\ Range(Append(s, e)) = Range(s) \cup {e}
<1>1. /\ Append(s, e) \in Seq(S)
      /\ DOMAIN Append(s, e) = 1..(Len(s) + 1) /\ DOMAIN s = 1..Len(s) /\ Len(s) \in Nat
      /\ \A i \in 1..Len(s) : Append(s, e)[i] = s[i]
      /\ Append(s, e)[Len(s) + 1] = e
  OBVIOUS
<1> QED
  BY <1>1 DEF Range

(* What sending an event does to the topics.                               *)
LEMMA SendType ==
    ASSUME topic \in [Topics -> Seq(Event)], NEW e \in Event, Send(e)
    PROVE  /\ topic' \in [Topics -> Seq(Event)]
           /\ Sent' = Sent \cup {e}
           /\ Published' = Published \cup {e.version}
<1> DEFINE k0 == TopicOf(e)
           s == Append(topic[k0], e)
<1>1. k0 \in Topics
  BY DEF TopicOf, Topics
<1>2. s \in Seq(Event) /\ Range(s) = Range(topic[k0]) \cup {e}
  BY <1>1, AppendRange
<1>3. topic' = [topic EXCEPT ![k0] = s]
  BY DEF Send
<1> HIDE DEF k0, s
<1>4. topic' \in [Topics -> Seq(Event)]
  BY <1>1, <1>2, <1>3
<1>5. \A k \in Topics : Range(topic'[k]) = IF k = k0 THEN Range(topic[k]) \cup {e}
                                                     ELSE Range(topic[k])
  BY <1>1, <1>2, <1>3
<1>6. Sent' = Sent \cup {e}
  BY <1>1, <1>5 DEF Sent, Topics
<1>7. Published' = Published \cup {e.version}
  BY <1>6 DEF Published
<1> QED
  BY <1>4, <1>6, <1>7

-----------------------------------------------------------------------------
(* What every step that is not a write keeps, and what it may add.         *)
Kept == TypeOK' /\ Idle' /\ SentFirst' /\ ticket' = ticket
        /\ Published \subseteq Published'
        /\ Events' \subseteq Events \cup {EventOf(ticket)}

(* x is one of the events of Events, place by place.                       *)
Among(x) == \/ x \in outbox
            \/ x \in Sent
            \/ \E r \in Relays : x \in batch[r]
            \/ x # None /\ (x = copy \/ x = reindexed)

LEMMA EventsAre == \A x : (x \in Events <=> Among(x)) /\ (x \in Events' <=> Among(x)')
<1>1. \A x : x \in Events <=> Among(x)
  BY Zenon DEF Events, Among
<1>2. \A x : x \in Events' <=> Among(x)'
  BY Zenon DEF Events, Among
<1> QED
  BY <1>1, <1>2, Zenon

LEMMA TicketEvent == ASSUME TypeOK PROVE ticket \in Ticket /\ EventOf(ticket) \in Event
  BY DEF TypeOK, TypeOfDocument, EventOf, Event, Ticket

LEMMA ClaimKeeps == ASSUME IInv, NEW r \in Relays, Claim(r) PROVE Kept
<1>1. PICK S \in SUBSET Eligible : ClaimFor(r, S) /\ batch' = [batch EXCEPT ![r] = S]
  BY DEF Claim
<1>2. S \subseteq outbox /\ outbox \subseteq Event
  BY DEF Eligible, IInv, TypeOK, TypeOfDocument
<1>3. TypeOK'
  <2>1. owner' \in [Versions -> Relays \cup {None}] /\ leased' \subseteq Versions
    BY <1>1, <1>2 DEF ClaimFor, IInv, TypeOK, Event
  <2>2. batch' \in [Relays -> SUBSET Event]
    BY <1>1, <1>2 DEF IInv, TypeOK
  <2> QED
    BY <1>1, <2>1, <2>2
    DEF Claim, ClaimFor, document, readerVars, IInv, TypeOK, TypeOfDocument
<1>4. doing[r] = "send" /\ doing' = doing /\ topic' = topic /\ Published' = Published
      /\ S # {}
  BY <1>1 DEF Claim, ClaimFor, IInv, Idle, Published, Sent
<1>5. Idle' /\ SentFirst'
  BY <1>1, <1>4 DEF IInv, TypeOK, Idle, SentFirst, Doing
<1>6. Events' \subseteq Events
  BY <1>1, <1>2, <1>4
  DEF Claim, document, readerVars, Events, Sent, IInv, TypeOK
<1> QED
  BY <1>3, <1>4, <1>5, <1>6 DEF Kept, Claim, document

LEMMA ClaimFailsKeeps == ASSUME IInv, NEW r \in Relays, ClaimFails(r) PROVE Kept
<1>1. PICK S \in SUBSET Eligible : ClaimFor(r, S)
  BY DEF ClaimFails
<1>2. S \subseteq Event
  BY DEF Eligible, IInv, TypeOK, TypeOfDocument
<1>3. TypeOK'
  <2>1. owner' \in [Versions -> Relays \cup {None}] /\ leased' \subseteq Versions
    BY <1>1, <1>2 DEF ClaimFor, IInv, TypeOK, Event
  <2> QED
    BY <1>1, <2>1, FeedAssumption
    DEF ClaimFails, ClaimFor, Fault, document, readerVars, IInv, TypeOK, TypeOfDocument
<1> QED
  BY <1>3
  DEF ClaimFails, document, readerVars, Kept, IInv, Idle, SentFirst, Doing, Published, Sent, Events

(* The relay has sent the event, or found out that it could not tell.      *)
LEMMA SendKeeps ==
    ASSUME IInv, NEW r \in Relays, NEW e \in batch[r], Publish(r, e) \/ PublishFails(r, e)
    PROVE  Kept
<1>1. e \in Event /\ e \in Events
  BY DEF IInv, TypeOK, Events
<1>2. /\ topic' \in [Topics -> Seq(Event)]
      /\ Sent \subseteq Sent' /\ Sent' \subseteq Sent \cup {e}
      /\ Published \subseteq Published'
      /\ Publish(r, e) => e.version \in Published'
  <2>1. CASE Send(e)
    BY <1>1, <2>1, SendType DEF IInv, TypeOK
  <2>2. CASE UNCHANGED topic /\ PublishFails(r, e)
    BY <2>2 DEF IInv, TypeOK, Published, Sent, Publish, Do, PublishFails
  <2> QED
    BY <2>1, <2>2 DEF Publish, PublishFails
<1>3. /\ batch' = batch
      /\ \/ Publish(r, e) /\ doing' = [doing EXCEPT ![r] = "acknowledge"]
         \/ doing' = [doing EXCEPT ![r] = "requeue"]
      /\ UNCHANGED <<document, claims, readerVars>>
      /\ faultCount' \in 0..MaxFaults
  BY FeedAssumption DEF Publish, PublishFails, Do, Fault, IInv, TypeOK
<1>4. TypeOK'
  BY <1>2, <1>3 DEF document, claims, readerVars, IInv, TypeOK, TypeOfDocument
<1>5. Idle'
  BY <1>3 DEF IInv, TypeOK, Idle
<1>6. SentFirst'
  <2> SUFFICES ASSUME NEW q \in Relays, NEW d \in batch[q], Doing(q, d, "acknowledge")'
               PROVE  d.version \in Published'
    BY <1>3 DEF SentFirst
  <2>1. CASE q = r
    <3>1. doing'[r] = "acknowledge" /\ Publish(r, e)
      BY <1>3, <2>1 DEF Doing, IInv, TypeOK
    <3>2. d.version = e.version
      <4>1. d.version <= e.version /\ e.version <= d.version
        BY <1>3, <2>1, <3>1 DEF Doing, Publish
      <4>2. d.version \in Nat /\ e.version \in Nat
        <5>1. d \in Event /\ e \in Event
          BY <1>1, <2>1 DEF IInv, TypeOK
        <5> QED
          BY <5>1, Numbers DEF Event
      <4> QED
        BY <4>1, <4>2
    <3> QED
      BY <1>2, <3>1, <3>2
  <2>2. CASE q # r
    BY <1>2, <1>3, <2>2 DEF Doing, IInv, TypeOK, SentFirst
  <2> QED
    BY <2>1, <2>2
<1>7. Events' \subseteq Events
  BY <1>1, <1>2, <1>3, EventsAre DEF Among, document, readerVars
<1> QED
  BY <1>2, <1>3, <1>4, <1>5, <1>6, <1>7 DEF Kept, document

(* The relay goes on to the next event, whatever became of this one.       *)
LEMMA GoOnKeeps ==
    ASSUME IInv, NEW r \in Relays, NEW e \in batch[r],
           Acknowledge(r, e) \/ Requeue(r, e) \/ SettleFails(r, e)
    PROVE  Kept
<1>1. /\ topic' = topic /\ readerVars' = readerVars /\ ticket' = ticket
      /\ outbox' \subseteq outbox
      /\ owner' \in [Versions -> Relays \cup {None}]
      /\ leased' \subseteq Versions /\ later' \subseteq Versions
      /\ faultCount' \in 0..MaxFaults
  <2>1. e.version \in Versions
    BY DEF IInv, TypeOK, Event
  <2>2. CASE Acknowledge(r, e)
    BY <2>2 DEF Acknowledge, Drop, claims, IInv, TypeOK
  <2>3. CASE Requeue(r, e)
    BY <2>1, <2>3 DEF Requeue, claims, document, IInv, TypeOK
  <2>4. CASE SettleFails(r, e)
    BY <2>4, FeedAssumption DEF SettleFails, Fault, claims, document, IInv, TypeOK
  <2> QED
    BY <2>2, <2>3, <2>4
<1>2. batch' = [batch EXCEPT ![r] = @ \ {e}] /\ doing' = [doing EXCEPT ![r] = "send"]
  BY DEF Acknowledge, Requeue, SettleFails, GoOn
<1>3. TypeOK'
  BY <1>1, <1>2 DEF IInv, TypeOK, TypeOfDocument, readerVars
<1>4. Idle' /\ Published' = Published
  BY <1>1, <1>2 DEF IInv, TypeOK, Idle, Published, Sent
<1>5. SentFirst'
  BY <1>2, <1>4 DEF IInv, TypeOK, SentFirst, Doing
<1>6. Events' \subseteq Events
  BY <1>1, <1>2 DEF Events, Sent, readerVars, IInv, TypeOK
<1> QED
  BY <1>1, <1>3, <1>4, <1>5, <1>6 DEF Kept

LEMMA CrashKeeps == ASSUME IInv, NEW r \in Relays, Crash(r) PROVE Kept
<1>1. TypeOK'
  BY FeedAssumption
  DEF Crash, Fault, document, claims, readerVars, IInv, TypeOK, TypeOfDocument
<1>2. Idle' /\ SentFirst' /\ Published' = Published
  BY DEF Crash, IInv, TypeOK, Idle, SentFirst, Doing, Published, Sent
<1>3. Events' \subseteq Events
  BY DEF Crash, document, readerVars, Events, Sent, IInv, TypeOK
<1> QED
  BY <1>1, <1>2, <1>3 DEF Kept, Crash, document

LEMMA TimeKeeps == ASSUME IInv, NEW v \in Versions, Time(v) PROVE Kept
<1>1. TypeOK'
  BY FeedAssumption
  DEF Time, LeaseExpires, FallsDue, Fault, document, readerVars, IInv, TypeOK, TypeOfDocument
<1> QED
  BY <1>1 DEF Time, LeaseExpires, FallsDue, document, readerVars, Kept, IInv, Idle,
              SentFirst, Doing, Published, Sent, Events

(* What a consumer or the reindex command does to the copy.                *)
CopyMoves ==
    \/ copy' = copy
    \/ reader = "orders" /\ copy' \in Events
    \/ copy' \in Events /\ (copy # None => copy.version < copy'.version)

LEMMA ApplyMoves ==
    ASSUME TypeOK, NEW e \in Events, Apply(e) PROVE CopyMoves
  BY DEF Apply, Upsert, Overwrite, CopyMoves

LEMMA MessageSent ==
    ASSUME TypeOK, NEW k \in Topics, Unread(k)
    PROVE  Message(k) \in Sent /\ Message(k) \in Events /\ Message(k) \in Event
<1>1. topic[k] \in Seq(Event) /\ place[k] \in Nat /\ place[k] < Len(topic[k])
  BY DEF TypeOK, Unread
<1>2. place[k] + 1 \in 1..Len(topic[k]) /\ DOMAIN topic[k] = 1..Len(topic[k])
  BY <1>1
<1>3. Message(k) \in Range(topic[k]) /\ Message(k) \in Event
  BY <1>1, <1>2 DEF Message, Range
<1> QED
  BY <1>3, EventsAre DEF Among, Sent, Topics

Reads ==
    \/ \E k \in Topics : Consume(k) \/ Park(k) \/ Rewind(k)
    \/ ReindexRead \/ ReindexWrite

LEMMA EventsTyped == ASSUME IInv PROVE Events \subseteq Event /\ None \notin Events
  BY FeedAssumption DEF IInv, Past

LEMMA ReadsKeep == ASSUME IInv, Reads PROVE Kept /\ CopyMoves
<1>1. ASSUME NEW k \in Topics, Consume(k) \/ Park(k)
      PROVE  CopyMoves /\ place' \in [Topics -> Nat] /\ parked' \subseteq Versions
             /\ reindexed' = reindexed
  <2>1. Unread(k) /\ Message(k) \in Events /\ Message(k) \in Event
    BY <1>1, MessageSent DEF Consume, Park, IInv
  <2>2. CopyMoves
    BY <1>1, <2>1, ApplyMoves DEF Consume, Park, CopyMoves, IInv
  <2>3. place' \in [Topics -> Nat]
    <3>1. place' = [place EXCEPT ![k] = @ + 1] /\ place \in [Topics -> Nat]
      BY <1>1 DEF Consume, Park, Move, IInv, TypeOK
    <3> QED
      BY <3>1
  <2> QED
    BY <1>1, <2>1, <2>2, <2>3 DEF Consume, Park, IInv, TypeOK, Event
<1>2. ASSUME NEW k \in Topics, Rewind(k)
      PROVE  CopyMoves /\ place' \in [Topics -> Nat] /\ parked' \subseteq Versions
             /\ reindexed' = reindexed
  BY <1>2 DEF Rewind, Move, CopyMoves, IInv, TypeOK
<1>3. ASSUME ReindexRead \/ ReindexWrite
      PROVE  CopyMoves /\ place' \in [Topics -> Nat] /\ parked' \subseteq Versions
             /\ reindexed' \in {None, EventOf(ticket)}
  <2>1. reindexed \in Event => reindexed \in Events
    BY FeedAssumption, EventsAre DEF Among
  <2>2. CASE ReindexRead
    BY <2>2 DEF ReindexRead, CopyMoves, IInv, TypeOK
  <2>3. CASE ReindexWrite
    BY <2>1, <2>3 DEF ReindexWrite, Upsert, CopyMoves, IInv, TypeOK
  <2> QED
    BY <1>3, <2>2, <2>3 DEF ReindexRead, ReindexWrite
<1>4. /\ CopyMoves /\ place' \in [Topics -> Nat] /\ parked' \subseteq Versions
      /\ reindexed' \in {None, reindexed, EventOf(ticket)}
  BY <1>1, <1>2, <1>3 DEF Reads, ReindexRead, ReindexWrite, IInv, TypeOK
<1>5. /\ UNCHANGED <<document, relayVars, topic, reader>> /\ faultCount' \in 0..MaxFaults
  BY FeedAssumption DEF Reads, Consume, Park, Rewind, ReindexRead, ReindexWrite, Fault, IInv, TypeOK
<1>6. copy' \in Event \cup {None} /\ reindexed' \in Event \cup {None}
  BY <1>4, EventsTyped, TicketEvent DEF CopyMoves, IInv, TypeOK
<1>7. TypeOK'
  BY <1>4, <1>5, <1>6 DEF document, relayVars, claims, IInv, TypeOK, TypeOfDocument
<1>8. Idle' /\ SentFirst' /\ Published' = Published /\ Sent' = Sent
  BY <1>5 DEF relayVars, IInv, Idle, SentFirst, Doing, Published, Sent
<1>9. {copy', reindexed'} \ {None} \subseteq Events \cup {EventOf(ticket)}
  BY <1>4, EventsAre DEF Among, CopyMoves
<1>10. Events' \subseteq Events \cup {EventOf(ticket)}
  BY <1>5, <1>8, <1>9, EventsAre DEF Among, document, relayVars
<1> QED
  BY <1>4, <1>5, <1>7, <1>8, <1>10 DEF Kept, document

-----------------------------------------------------------------------------
(* A write: the event of the new version, and nothing else new.            *)
LEMMA WriteMoves ==
    ASSUME IInv, Write
    PROVE  /\ TypeOK' /\ Idle' /\ SentFirst' /\ Published' = Published /\ copy' = copy
           /\ outbox \subseteq outbox'
           /\ ticket'.version = ticket.version + 1
           /\ ticket'.title = ticket.title \/ ticket'.title = ticket'.version
           /\ Events' \subseteq Events \cup {EventOf(ticket')}
<1>1. ticket \in Ticket /\ ticket.version < MaxVersion /\ ticket.version \in Versions
  BY DEF IInv, TypeOK, TypeOfDocument, Ticket, Write, Update, ReserveUnit, ReturnUnit
<1>2. ticket.version + 1 \in Titles /\ ticket.version + 1 \in Versions
  BY <1>1, FeedAssumption, DocumentAssumption DEF Versions
<1>3. /\ ticket' \in Ticket /\ ticket'.version = ticket.version + 1
      /\ ticket'.title = ticket.title \/ ticket'.title = ticket'.version
      /\ outbox' = outbox \/ outbox' = outbox \cup {EventOf(ticket')}
  <2>1. CASE Update(ticket, ticket.version + 1, ticket.plan)
    BY <1>1, <1>2, <2>1 DEF Update, Edited, Push, Ticket
  <2>2. CASE (ReserveUnit \/ ReturnUnit) /\ UNCHANGED outbox
    BY <1>1, <1>2, <2>2, DocumentAssumption DEF ReserveUnit, ReturnUnit, Adjust, Ticket
  <2> QED
    BY <2>1, <2>2 DEF Write
<1>4. EventOf(ticket') \in Event
  BY <1>3 DEF EventOf, Event, Ticket
<1>5. TypeOK'
  BY <1>3, <1>4 DEF Write, relayVars, claims, readerVars, IInv, TypeOK, TypeOfDocument
<1>6. Idle' /\ SentFirst' /\ Published' = Published /\ Sent' = Sent
  BY DEF Write, relayVars, IInv, Idle, SentFirst, Doing, Published, Sent
<1>7. Events' \subseteq Events \cup {EventOf(ticket')}
  BY <1>3, <1>6, EventsAre DEF Among, Write, relayVars, readerVars
<1> QED
  BY <1>3, <1>5, <1>6, <1>7 DEF Write, readerVars

(* What a step that sends, settles or claims leaves: the copy.             *)
LEMMA RelaysMove ==
    ASSUME IInv, NEW r \in Relays, RelayStep(r) \/ RelayFault(r)
    PROVE  Kept /\ copy' = copy
<1>1. CASE Claim(r) \/ ClaimFails(r) \/ Crash(r)
  BY <1>1, ClaimKeeps, ClaimFailsKeeps, CrashKeeps DEF Claim, ClaimFails, Crash, readerVars
<1>2. ASSUME NEW e \in batch[r], Publish(r, e) \/ PublishFails(r, e)
      PROVE  Kept /\ copy' = copy
  BY <1>2, SendKeeps DEF Publish, PublishFails, readerVars
<1>3. ASSUME NEW e \in batch[r], Acknowledge(r, e) \/ Requeue(r, e) \/ SettleFails(r, e)
      PROVE  Kept /\ copy' = copy
  BY <1>3, GoOnKeeps DEF Acknowledge, Requeue, SettleFails, readerVars
<1> QED
  BY <1>1, <1>2, <1>3 DEF RelayStep, RelayFault

LEMMA StutterKeeps == ASSUME IInv, UNCHANGED vars PROVE Kept /\ copy' = copy
  BY DEF vars, document, relayVars, claims, readerVars, Kept, IInv, TypeOK, TypeOfDocument,
         Idle, SentFirst, Doing, Published, Sent, Events

LEMMA StepMoves ==
    ASSUME IInv, [Next]_vars
    PROVE  Write \/ (Kept /\ CopyMoves)
<1>1. CASE \E r \in Relays : RelayStep(r) \/ RelayFault(r)
  BY <1>1, RelaysMove DEF CopyMoves
<1>2. CASE \E v \in Versions : Time(v)
  BY <1>2, TimeKeeps DEF Time, LeaseExpires, FallsDue, readerVars, CopyMoves
<1>3. CASE Reads
  BY <1>3, ReadsKeep
<1>4. CASE UNCHANGED vars
  BY <1>4, StutterKeeps DEF CopyMoves
<1> QED
  BY <1>1, <1>2, <1>3, <1>4 DEF Next, Reads

LEMMA StepKeeps == ASSUME IInv, [Next]_vars PROVE IInv'
<1>1. CASE Write
  <2> DEFINE t == ticket
             u == ticket'
             E == Events
  <2>1. t \in Ticket /\ u \in Ticket /\ Past(E, t)
    BY <1>1, WriteMoves DEF IInv, TypeOK, TypeOfDocument
  <2>2. u.version = t.version + 1 /\ (u.title = t.title \/ u.title = u.version)
    BY <1>1, WriteMoves
  <2>3. Past(E \cup {EventOf(u)}, u)
    <3> HIDE DEF t, u, E
    <3> QED
      BY <2>1, <2>2, PastMoves, PastGrows
  <2>4. Past(Events', ticket')
    BY <1>1, <2>3, WriteMoves, PastShrinks
  <2> QED
    BY <1>1, <2>4, WriteMoves DEF IInv, Past
<1>2. CASE Kept
  <2>1. Past(Events \cup {EventOf(ticket)}, ticket)
    BY PastGrows, TicketEvent DEF IInv
  <2>2. Past(Events', ticket)
    BY <1>2, <2>1, PastShrinks DEF Kept
  <2> QED
    BY <1>2, <2>2 DEF Kept, IInv, Past
<1> QED
  BY <1>1, <1>2, StepMoves

LEMMA InitType == Init => IInv
<1> SUFFICES ASSUME Init PROVE IInv
    OBVIOUS
<1>1. 1 \in Versions /\ First = 1
  BY DocumentAssumption, FeedAssumption DEF Versions
<1>2. /\ ticket \in Ticket /\ ticket.title = 1 /\ ticket.version = 1
      /\ outbox = {[version |-> 1, title |-> 1]} /\ outbox \subseteq Event
  BY <1>1, DocumentAssumption DEF Init, InitDocument, EventOf, Event, Ticket
<1>3. TypeOK
  BY <1>1, <1>2, FeedAssumption DEF Init, TypeOK, TypeOfDocument
<1>4. Idle /\ SentFirst
  BY DEF Init, Idle, SentFirst
<1>5. Sent = {}
  BY DEF Init, Sent, Topics, Range
<1>6. Events = outbox
  BY <1>5, EventsAre DEF Among, Init
<1>7. Past(Events, ticket)
  BY <1>2, <1>6 DEF Past
<1> QED
  BY <1>3, <1>4, <1>7 DEF IInv

-----------------------------------------------------------------------------
(* The feed keeps its types, for any number of relays and faults.          *)
THEOREM TypeCorrect == Spec => []TypeOK
<1>1. IInv => TypeOK
  BY DEF IInv
<1>2. IInv /\ [Next]_vars => IInv'
  BY StepKeeps
<1> QED
  BY <1>1, <1>2, InitType, PTL DEF Spec

(* A step takes an event from the outbox only if Kafka has it: the relay   *)
(* that acknowledges one has sent it, whoever claimed it since.            *)
LEMMA LeavesSent == ASSUME IInv, [Next]_vars PROVE Pending \ Published \subseteq Pending'
<1>1. CASE outbox \subseteq outbox'
  BY <1>1 DEF Pending
<1>2. ASSUME NEW r \in Relays, NEW e \in batch[r], Acknowledge(r, e)
      PROVE  Pending \ Published \subseteq Pending'
  <2>1. e.version \in Published
    BY <1>2 DEF Acknowledge, IInv, SentFirst
  <2>2. \A d \in outbox : d \in outbox' \/ d.version = e.version
    BY <1>2 DEF Acknowledge, Drop
  <2> QED
    BY <2>1, <2>2 DEF Pending
<1>3. outbox' = outbox \/ Write \/ \E r \in Relays : \E e \in batch[r] : Acknowledge(r, e)
  BY DEF Next, RelayStep, RelayFault, Claim, ClaimFails, Publish, PublishFails, Requeue,
         SettleFails, Crash, Time, LeaseExpires, FallsDue, Consume, Park, Rewind,
         ReindexRead, ReindexWrite, document, vars
<1> QED
  BY <1>1, <1>2, <1>3, WriteMoves

(* No relay removes an event that Kafka has not accepted, whatever becomes *)
(* of leases, batches and answers.                                         *)
THEOREM NothingLost == Spec => NeverLost
<1>1. IInv /\ [Next]_vars => IInv'
  BY StepKeeps
<1>2. IInv /\ [Next]_vars => [Pending \ Published \subseteq Pending']_vars
  BY LeavesSent
<1> QED
  BY <1>1, <1>2, InitType, PTL DEF Spec, NeverLost

(* The search document shows the last edit as soon as its version reaches  *)
(* that edit.                                                              *)
THEOREM SearchShowsLast == Spec => []SearchShows
<1>1. IInv => SearchShows
  BY EventsAre DEF Among, IInv, Past, SearchShows
<1>2. IInv /\ [Next]_vars => IInv'
  BY StepKeeps
<1> QED
  BY <1>1, <1>2, InitType, PTL DEF Spec

(* The search document never goes back to an older edit.                   *)
THEOREM SearchOnlyForward == Spec => SearchForward
<1> DEFINE A == reader = "search" /\ copy # None => copy'.title >= copy.title
<1>1. IInv /\ [Next]_vars => IInv'
  BY StepKeeps
<1>2. IInv /\ [Next]_vars => [A]_vars
  <2> SUFFICES ASSUME IInv, [Next]_vars, reader = "search", copy # None
               PROVE  copy'.title >= copy.title
      OBVIOUS
  <2>1. copy \in Events /\ copy.title \in Nat /\ copy.version \in Nat
    BY EventsAre, Numbers DEF Among, IInv, TypeOK, Event
  <2>2. copy' = copy \/ (copy' \in Events /\ copy.version < copy'.version)
    BY StepMoves, WriteMoves DEF CopyMoves
  <2>3. copy' \in Events => copy'.title \in Nat /\ copy'.version \in Nat
    BY EventsTyped, Numbers DEF Event
  <2>4. copy' \in Events /\ copy.version <= copy'.version => copy.title <= copy'.title
    BY <2>1 DEF IInv, Past
  <2> QED
    BY <2>1, <2>2, <2>3, <2>4
<1> QED
  BY <1>1, <1>2, InitType, PTL DEF Spec, SearchForward

-----------------------------------------------------------------------------
(* Relay r has the event of version v and is yet to send it.               *)
WillSend(r, v) ==
    \E e \in batch[r] :
        /\ e.version = v
        /\ doing[r] = "send" \/ \E d \in batch[r] : d.version < e.version

(* Relay r has claimed the event, still holds the lease, and has not given *)
(* it up.                                                                  *)
Keeps(r, v) ==
    /\ owner[v] = r /\ v \in leased
    /\ \E e \in batch[r] : e.version = v /\ ~Doing(r, e, "requeue")

(* The event waits, or will wait, for a relay to claim it.                 *)
Offered(v) == v \in Pending /\ \A r \in Relays : ~Keeps(r, v)

(* The messages to come without a fault: one for each event that a relay   *)
(* has yet to send or that nobody keeps.                                   *)
Debts ==
    {d \in (Relays \cup {None}) \X Versions :
        IF d[1] = None THEN Offered(d[2]) ELSE WillSend(d[1], d[2])}

Known == Pending \cup Published

Messages == Len(topic["created"]) + Len(topic["updated"])

(* The messages, those to come among them, are the events and the faults.  *)
Budget ==
    /\ IsFiniteSet(Debts)
    /\ Messages + Cardinality(Debts) <= Cardinality(Known) + faultCount

LEMMA DebtsAre ==
    /\ \A v \in Versions : <<None, v>> \in Debts <=> Offered(v)
    /\ \A v \in Versions : \A r \in Relays : <<r, v>> \in Debts <=> WillSend(r, v)
    /\ \A d \in Debts : \E v \in Versions :
            d = <<None, v>> \/ \E r \in Relays : d = <<r, v>>
  BY FeedAssumption DEF Debts

LEMMA DebtsAreNext ==
    /\ \A v \in Versions : <<None, v>> \in Debts' <=> Offered(v)'
    /\ \A v \in Versions : \A r \in Relays : <<r, v>> \in Debts' <=> WillSend(r, v)'
    /\ \A d \in Debts' : \E v \in Versions :
            d = <<None, v>> \/ \E r \in Relays : d = <<r, v>>
<1>1. Debts' = {d \in (Relays \cup {None}) \X Versions :
                    IF d[1] = None THEN Offered(d[2])' ELSE WillSend(d[1], d[2])'}
  BY DEF Debts
<1> QED
  BY <1>1, FeedAssumption

(* The debts after a step that adds none but those of A.                   *)
LEMMA DebtsAfter ==
    ASSUME NEW A,
           \A v \in Versions : Offered(v)' => Offered(v) \/ <<None, v>> \in A,
           \A v \in Versions : \A r \in Relays :
                WillSend(r, v)' => WillSend(r, v) \/ <<r, v>> \in A
    PROVE  Debts' \subseteq Debts \cup A
<1> SUFFICES ASSUME NEW d \in Debts' PROVE d \in Debts \cup A
  OBVIOUS
<1>1. PICK v \in Versions : d = <<None, v>> \/ \E r \in Relays : d = <<r, v>>
  BY DebtsAreNext
<1>2. CASE d = <<None, v>>
  BY <1>2, DebtsAre, DebtsAreNext
<1>3. ASSUME NEW r \in Relays, d = <<r, v>> PROVE d \in Debts \cup A
  BY <1>3, DebtsAre, DebtsAreNext
<1> QED
  BY <1>1, <1>2, <1>3

-----------------------------------------------------------------------------
(* Finite sets, by what covers them.                                       *)
LEMMA Covered ==
    ASSUME NEW S, NEW T, IsFiniteSet(S), NEW g, DOMAIN g = S, g = [x \in S |-> g[x]],
           \A y \in T : \E x \in S : g[x] = y
    PROVE  IsFiniteSet(T) /\ Cardinality(T) <= Cardinality(S)
<1> DEFINE R == {g[x] : x \in S}
<1>1. g \in [S -> R]
  OBVIOUS
<1>2. g \in Surjection(S, R)
  BY <1>1 DEF Surjection
<1>3. IsFiniteSet(R) /\ Cardinality(R) <= Cardinality(S)
  BY <1>2, FS_Surjection
<1>4. T \in SUBSET R
  OBVIOUS
<1> HIDE DEF R
<1>5. IsFiniteSet(T) /\ Cardinality(T) <= Cardinality(R)
  BY <1>3, <1>4, FS_Subset
<1>6. Cardinality(T) \in Nat /\ Cardinality(R) \in Nat /\ Cardinality(S) \in Nat
  BY <1>3, <1>5, FS_CardinalityType
<1> QED
  BY <1>3, <1>5, <1>6

LEMMA OneMore ==
    ASSUME NEW S, NEW T, NEW x, IsFiniteSet(S), T \subseteq S \cup {x}
    PROVE  IsFiniteSet(T) /\ Cardinality(T) <= Cardinality(S) + 1
<1>1. /\ IsFiniteSet(S \cup {x}) /\ Cardinality(S) \in Nat
      /\ Cardinality(S \cup {x}) <= Cardinality(S) + 1
  <2>1. Cardinality(S) \in Nat
    BY FS_CardinalityType
  <2> QED
    BY <2>1, FS_AddElement
<1>2. IsFiniteSet(T) /\ Cardinality(T) <= Cardinality(S \cup {x})
  BY <1>1, FS_Subset
<1>3. Cardinality(T) \in Nat /\ Cardinality(S \cup {x}) \in Nat
  BY <1>1, <1>2, FS_CardinalityType
<1> QED
  BY <1>1, <1>2, <1>3

LEMMA OneGone ==
    ASSUME NEW S, NEW T, NEW x \in S, IsFiniteSet(S), T \subseteq S \ {x}
    PROVE  IsFiniteSet(T) /\ Cardinality(T) + 1 <= Cardinality(S)
<1>1. /\ IsFiniteSet(S \ {x}) /\ Cardinality(S) \in Nat
      /\ Cardinality(S \ {x}) = Cardinality(S) - 1
  BY FS_CardinalityType, FS_RemoveElement
<1>2. IsFiniteSet(T) /\ Cardinality(T) <= Cardinality(S \ {x})
  BY <1>1, FS_Subset
<1>3. Cardinality(T) \in Nat
  BY <1>2, FS_CardinalityType
<1> QED
  BY <1>1, <1>2, <1>3

(* What is new in T is the pair of something gone, under a instead of b.   *)
LEMMA Swapped ==
    ASSUME NEW S, NEW T, NEW a, IsFiniteSet(S),
           \A y \in T \ S : \E x \in S \ T : y = <<a, x[2]>>
    PROVE  IsFiniteSet(T) /\ Cardinality(T) <= Cardinality(S)
<1> DEFINE g == [x \in S |-> IF x \in T THEN x ELSE <<a, x[2]>>]
<1>1. DOMAIN g = S /\ g = [x \in S |-> g[x]]
  OBVIOUS
<1>2. \A y \in T : \E x \in S : g[x] = y
  OBVIOUS
<1> HIDE DEF g
<1> QED
  BY <1>1, <1>2, Covered

-----------------------------------------------------------------------------
LEMMA KnownFinite ==
    ASSUME TypeOK
    PROVE  IsFiniteSet(Known) /\ Known \subseteq Versions /\ IsFiniteSet(Published)
           /\ Published \subseteq Versions
<1>1. Sent \subseteq Event
  <2>1. \A k \in Topics : Range(topic[k]) \subseteq Event
    BY DEF TypeOK, Range
  <2> QED
    BY <2>1 DEF Sent, Topics
<1>2. Published \subseteq Versions /\ Pending \subseteq Versions
  BY <1>1 DEF TypeOK, TypeOfDocument, Event, Published, Pending
<1>3. IsFiniteSet(Versions)
  BY DocumentAssumption, FS_Interval DEF Versions
<1> QED
  BY <1>2, <1>3, FS_Subset DEF Known

LEMMA Lengths ==
    ASSUME NEW S, NEW s \in Seq(S)
    PROVE  Len(s) \in Nat /\ \A e \in S : Len(Append(s, e)) = Len(s) + 1
  OBVIOUS

LEMMA MessagesTyped == ASSUME TypeOK PROVE Messages \in Nat
<1>1. topic["created"] \in Seq(Event) /\ topic["updated"] \in Seq(Event)
  BY DEF TypeOK, Topics
<1>2. Len(topic["created"]) \in Nat /\ Len(topic["updated"]) \in Nat
  BY <1>1, Lengths
<1>3. \A a, b \in Nat : a + b \in Nat
  OBVIOUS
<1> QED
  BY <1>2, <1>3, Zenon DEF Messages

LEMMA SendCounts == ASSUME TypeOK, NEW e \in Event, Send(e) PROVE Messages' = Messages + 1
<1>1. topic["created"] \in Seq(Event) /\ topic["updated"] \in Seq(Event)
  BY DEF TypeOK, Topics
<1>2. TopicOf(e) \in Topics
  BY DEF TopicOf, Topics
<1>3. \A k \in Topics : topic'[k] = IF k = TopicOf(e) THEN Append(topic[k], e) ELSE topic[k]
  BY <1>2, Zenon DEF Send, TypeOK
<1>4. TopicOf(e) = "created" \/ TopicOf(e) = "updated"
  BY DEF TopicOf
<1>7. /\ Len(topic["created"]) \in Nat /\ Len(topic["updated"]) \in Nat
      /\ Len(Append(topic["created"], e)) = Len(topic["created"]) + 1
      /\ Len(Append(topic["updated"], e)) = Len(topic["updated"]) + 1
  BY <1>1, Lengths
<1>8. \A a, b \in Nat : (a + 1) + b = (a + b) + 1 /\ a + (b + 1) = (a + b) + 1
  OBVIOUS
<1>5. CASE TopicOf(e) = "created"
  <2>1. topic'["created"] = Append(topic["created"], e) /\ topic'["updated"] = topic["updated"]
    BY <1>3, <1>5 DEF Topics
  <2>2. Messages' = Len(Append(topic["created"], e)) + Len(topic["updated"])
    BY <2>1, Zenon DEF Messages
  <2>3. Messages' = (Len(topic["created"]) + 1) + Len(topic["updated"])
    BY <1>7, <2>2, Zenon
  <2> QED
    BY <1>7, <1>8, <2>3, Zenon DEF Messages
<1>6. CASE TopicOf(e) = "updated"
  <2>1. topic'["updated"] = Append(topic["updated"], e) /\ topic'["created"] = topic["created"]
    BY <1>3, <1>6 DEF Topics
  <2>2. Messages' = Len(topic["created"]) + Len(Append(topic["updated"], e))
    BY <2>1, Zenon DEF Messages
  <2>3. Messages' = Len(topic["created"]) + (Len(topic["updated"]) + 1)
    BY <1>7, <2>2, Zenon
  <2> QED
    BY <1>7, <1>8, <2>3, Zenon DEF Messages
<1> QED
  BY <1>4, <1>5, <1>6

(* Nothing known is forgotten; so a step that adds to the messages and the *)
(* debts no more than its fault stays in the budget.                       *)
LEMMA Balanced ==
    ASSUME IInv, [Next]_vars, Budget, IsFiniteSet(Debts'),
           Messages' + Cardinality(Debts') - faultCount'
                <= Messages + Cardinality(Debts) - faultCount
    PROVE  Budget'
<1>1. IInv'
  BY StepKeeps
<1>2. Published \subseteq Published'
  BY StepMoves, WriteMoves DEF Kept
<1>3. Known \subseteq Known'
  BY <1>2, LeavesSent DEF Known
<1>4. IsFiniteSet(Known) /\ IsFiniteSet(Known')
  <2>1. TypeOK /\ TypeOK'
    BY <1>1 DEF IInv
  <2>2. IsFiniteSet(Known')
    <3>1. Known' \subseteq Versions
      <4>1. \A k \in Topics : topic'[k] \in Seq(Event)
        BY <2>1 DEF TypeOK
      <4>2. Sent' \subseteq Event
        BY <4>1 DEF Sent, Topics, Range
      <4> QED
        BY <2>1, <4>2 DEF TypeOK, TypeOfDocument, Event, Published, Pending, Known
    <3> QED
      <4>1. IsFiniteSet(Versions)
        BY DocumentAssumption, FS_Interval DEF Versions
      <4> QED
        BY <3>1, <4>1, FS_Subset
  <2> QED
    BY <2>1, <2>2, KnownFinite
<1>5. Cardinality(Known) <= Cardinality(Known')
  BY <1>3, <1>4, FS_Subset
<1>6. /\ Cardinality(Known) \in Nat /\ Cardinality(Known') \in Nat
      /\ Cardinality(Debts) \in Nat /\ Cardinality(Debts') \in Nat
  BY <1>4, FS_CardinalityType DEF Budget
<1>7. Messages \in Nat /\ Messages' \in Nat
  <2>1. topic'["created"] \in Seq(Event) /\ topic'["updated"] \in Seq(Event)
    BY <1>1 DEF IInv, TypeOK, Topics
  <2>2. Len(topic'["created"]) \in Nat /\ Len(topic'["updated"]) \in Nat
    BY <2>1, Lengths
  <2> QED
    <3>1. \A a, b \in Nat : a + b \in Nat
      OBVIOUS
    <3>2. Messages' \in Nat
      BY <2>2, <3>1, Zenon DEF Messages
    <3> QED
      BY <3>2, MessagesTyped DEF IInv
<1>8. faultCount \in Nat /\ faultCount' \in Nat
  BY <1>1, FeedAssumption DEF IInv, TypeOK
<1> QED
  BY <1>5, <1>6, <1>7, <1>8 DEF Budget

(* The debts of a step that touches no claim, no batch and no event.       *)
LEMMA SameDebts ==
    ASSUME UNCHANGED <<outbox, owner, leased, batch, doing>> PROVE Debts' = Debts
  BY DEF Debts, Offered, WillSend, Keeps, Pending, Doing

(* Within a batch events are known by their versions.                      *)
LEMMA ByVersion ==
    ASSUME IInv, NEW r \in Relays, NEW d \in batch[r], NEW e \in batch[r],
           d.version = e.version
    PROVE  d = e
<1>1. d \in Event /\ e \in Event /\ d \in Events /\ e \in Events
  BY EventsAre DEF Among, IInv, TypeOK
<1>2. d.title \in Nat /\ e.title \in Nat /\ d.version \in Nat
  BY <1>1, Numbers DEF Event
<1>3. d.title <= e.title /\ e.title <= d.title
  BY <1>1, <1>2 DEF IInv, Past
<1> QED
  BY <1>1, <1>2, <1>3 DEF Event

-----------------------------------------------------------------------------
LEMMA DebtsNumbers ==
    ASSUME IInv, Budget
    PROVE  /\ Messages \in Nat /\ faultCount \in Nat /\ Cardinality(Debts) \in Nat
           /\ IsFiniteSet(Debts)
  BY MessagesTyped, FS_CardinalityType, FeedAssumption DEF IInv, TypeOK, Budget

(* Claimed events were on offer; now their relay will send them.           *)
LEMMA ClaimCosts ==
    ASSUME IInv, Budget, NEW r \in Relays, Claim(r)
    PROVE  IsFiniteSet(Debts') /\ Cardinality(Debts') <= Cardinality(Debts)
<1>1. PICK S \in SUBSET Eligible : ClaimFor(r, S) /\ batch' = [batch EXCEPT ![r] = S]
  BY DEF Claim
<1>2. /\ S \subseteq outbox /\ S \subseteq Event /\ doing[r] = "send" /\ batch[r] = {}
      /\ doing' = doing /\ outbox' = outbox
      /\ owner' = [v \in Versions |-> IF \E e \in S : e.version = v THEN r ELSE owner[v]]
      /\ leased' = leased \cup {e.version : e \in S}
      /\ batch' = [batch EXCEPT ![r] = S]
  BY <1>1 DEF Claim, ClaimFor, Eligible, document, IInv, Idle, TypeOK, TypeOfDocument
<1>3. ASSUME NEW e \in S
      PROVE  Offered(e.version) /\ ~Offered(e.version)'
  <2>1. e.version \in Pending /\ e.version \in Versions
    BY <1>2 DEF Pending, Event
  <2>2. owner[e.version] = None \/ e.version \notin leased
    BY DEF Eligible
  <2>3. Offered(e.version)
    BY <2>1, <2>2, FeedAssumption DEF Offered, Keeps
  <2>4. Keeps(r, e.version)'
    BY <1>2, <2>1 DEF Keeps, Doing, IInv, TypeOK
  <2> QED
    BY <2>3, <2>4 DEF Offered
<1>4. ASSUME NEW v \in Versions, Offered(v)' PROVE Offered(v)
  <2>1. CASE \E e \in S : e.version = v
    BY <1>3, <2>1
  <2>2. CASE ~ \E e \in S : e.version = v
    <3>1. v \in Pending /\ owner'[v] = owner[v] /\ (v \in leased' <=> v \in leased)
      BY <1>2, <1>4, <2>2 DEF Offered, Pending
    <3>2. ~Keeps(r, v)
      BY <1>2 DEF Keeps
    <3>3. ASSUME NEW q \in Relays, q # r, Keeps(q, v) PROVE FALSE
      <4>1. batch'[q] = batch[q]
        BY <1>2, <3>3 DEF IInv, TypeOK
      <4>2. Keeps(q, v)'
        BY <1>2, <3>1, <3>3, <4>1 DEF Keeps, Doing
      <4> QED
        BY <1>4, <4>2 DEF Offered
    <3> QED
      BY <3>1, <3>2, <3>3 DEF Offered
  <2> QED
    BY <2>1, <2>2
<1>5. ASSUME NEW q \in Relays, NEW v \in Versions, WillSend(q, v)', ~WillSend(q, v)
      PROVE  q = r /\ \E e \in S : e.version = v
  BY <1>2, <1>5 DEF WillSend, IInv, TypeOK
<1>6. ASSUME NEW y \in Debts' \ Debts PROVE \E x \in Debts \ Debts' : y = <<r, x[2]>>
  <2>1. PICK v \in Versions : y = <<None, v>> \/ \E q \in Relays : y = <<q, v>>
    BY DebtsAreNext
  <2>2. y # <<None, v>>
    BY <1>4, <1>6, DebtsAre, DebtsAreNext
  <2>3. y = <<r, v>> /\ \E e \in S : e.version = v
    BY <1>5, <2>1, <2>2, DebtsAre, DebtsAreNext
  <2>4. <<None, v>> \in Debts \ Debts'
    BY <1>3, <2>3, DebtsAre, DebtsAreNext
  <2> QED
    BY <2>3, <2>4
<1> QED
  BY <1>6, Swapped DEF Budget

(* A claim that fails leaves its events on offer.                          *)
LEMMA ClaimFailsCosts ==
    ASSUME IInv, NEW r \in Relays, ClaimFails(r) PROVE Debts' \subseteq Debts
<1>1. PICK S \in SUBSET Eligible : ClaimFor(r, S)
  BY DEF ClaimFails
<1>2. /\ batch[r] = {} /\ batch' = batch /\ doing' = doing /\ outbox' = outbox
      /\ owner' = [v \in Versions |-> IF \E e \in S : e.version = v THEN r ELSE owner[v]]
      /\ leased' = leased \cup {e.version : e \in S}
  BY <1>1 DEF ClaimFails, ClaimFor, document
<1>3. ASSUME NEW v \in Versions, Offered(v)' PROVE Offered(v)
  <2>1. v \in Pending
    BY <1>2, <1>3 DEF Offered, Pending
  <2>2. ASSUME NEW q \in Relays, Keeps(q, v) PROVE FALSE
    <3>1. ~ \E e \in S : e.version = v
      BY <2>2, FeedAssumption DEF Keeps, Eligible
    <3>2. owner'[v] = owner[v] /\ (v \in leased' <=> v \in leased)
      BY <1>2, <3>1
    <3>3. Keeps(q, v)'
      BY <1>2, <2>2, <3>2 DEF Keeps, Doing
    <3> QED
      BY <1>3, <3>3 DEF Offered
  <2> QED
    BY <2>1, <2>2 DEF Offered
<1>4. \A v \in Versions : \A q \in Relays : WillSend(q, v)' => WillSend(q, v)
  BY <1>2 DEF WillSend
<1> QED
  BY <1>3, <1>4, DebtsAfter

(* A debt that is paid by its message.                                     *)
LEMMA PublishPays ==
    ASSUME IInv, NEW r \in Relays, NEW e \in batch[r], Publish(r, e)
    PROVE  <<r, e.version>> \in Debts /\ Debts' \subseteq Debts \ {<<r, e.version>>}
<1>1. /\ doing[r] = "send" /\ \A d \in batch[r] : e.version <= d.version
      /\ doing' = [doing EXCEPT ![r] = "acknowledge"] /\ batch' = batch
      /\ outbox' = outbox /\ owner' = owner /\ leased' = leased
      /\ doing \in [Relays -> {"send", "acknowledge", "requeue"}]
      /\ batch[r] \subseteq Event
  BY DEF Publish, Doing, Do, document, claims, IInv, TypeOK
<1>2. e.version \in Versions /\ \A d \in batch[r] : d.version \in Nat
  BY <1>1, Numbers DEF Event
<1>3. WillSend(r, e.version) /\ <<r, e.version>> \in Debts
  BY <1>1, <1>2, DebtsAre DEF WillSend
<1>4. ~WillSend(r, e.version)'
  BY <1>1, <1>2 DEF WillSend
<1>5. \A v \in Versions : \A q \in Relays : WillSend(q, v)' => WillSend(q, v)
  BY <1>1 DEF WillSend
<1>6. \A v \in Versions : Offered(v)' => Offered(v)
  BY <1>1 DEF Offered, Pending, Keeps, Doing
<1>7. Debts' \subseteq Debts \cup {}
  BY <1>5, <1>6, DebtsAfter
<1>8. <<r, e.version>> \notin Debts'
  BY <1>2, <1>4, DebtsAreNext
<1> QED
  BY <1>3, <1>7, <1>8

(* The relay gives it up: the event will be on offer again.                *)
LEMMA PublishFailsCosts ==
    ASSUME IInv, NEW r \in Relays, NEW e \in batch[r], PublishFails(r, e)
    PROVE  /\ <<r, e.version>> \in Debts
           /\ Debts' \subseteq (Debts \ {<<r, e.version>>}) \cup {<<None, e.version>>}
<1>1. /\ doing[r] = "send" /\ \A d \in batch[r] : e.version <= d.version
      /\ doing' = [doing EXCEPT ![r] = "requeue"] /\ batch' = batch
      /\ outbox' = outbox /\ owner' = owner /\ leased' = leased
      /\ doing \in [Relays -> {"send", "acknowledge", "requeue"}]
      /\ batch[r] \subseteq Event
  BY DEF PublishFails, Doing, Do, document, claims, IInv, TypeOK
<1>2. e.version \in Versions /\ \A d \in batch[r] : d.version \in Nat
  BY <1>1, Numbers DEF Event
<1>3. WillSend(r, e.version) /\ <<r, e.version>> \in Debts
  BY <1>1, <1>2, DebtsAre DEF WillSend
<1>4. ~WillSend(r, e.version)'
  BY <1>1, <1>2 DEF WillSend
<1>5. \A v \in Versions : \A q \in Relays : WillSend(q, v)' => WillSend(q, v)
  BY <1>1 DEF WillSend
<1>6. ASSUME NEW v \in Versions, Offered(v)' PROVE Offered(v) \/ v = e.version
  <2>1. v \in Pending
    BY <1>1, <1>6 DEF Offered, Pending
  <2>2. ASSUME NEW q \in Relays, Keeps(q, v), v # e.version PROVE FALSE
    <3>1. PICK d \in batch[q] : d.version = v /\ ~Doing(q, d, "requeue")
      BY <2>2 DEF Keeps
    <3>2. ~Doing(q, d, "requeue")'
      <4>1. CASE q = r
        BY <1>1, <1>2, <2>2, <3>1, <4>1 DEF Doing
      <4>2. CASE q # r
        BY <1>1, <3>1, <4>2 DEF Doing
      <4> QED
        BY <4>1, <4>2
    <3>3. Keeps(q, v)'
      BY <1>1, <2>2, <3>1, <3>2 DEF Keeps
    <3> QED
      BY <1>6, <3>3 DEF Offered
  <2> QED
    BY <2>1, <2>2 DEF Offered
<1>7. Debts' \subseteq Debts \cup {<<None, e.version>>}
  BY <1>5, <1>6, DebtsAfter
<1>8. <<r, e.version>> \notin Debts'
  BY <1>2, <1>4, DebtsAreNext
<1> QED
  BY <1>3, <1>7, <1>8

-----------------------------------------------------------------------------
(* What remains of a batch when the relay goes on: nothing new to send.    *)
LEMMA GoOnSends ==
    ASSUME IInv, NEW r \in Relays, NEW e \in batch[r], GoOn(r, e),
           \A d \in batch[r] : e.version <= d.version
    PROVE  \A v \in Versions : \A q \in Relays : WillSend(q, v)' => WillSend(q, v)
<1> SUFFICES ASSUME NEW v \in Versions, NEW q \in Relays, WillSend(q, v)' PROVE WillSend(q, v)
  OBVIOUS
<1>1. /\ batch' = [batch EXCEPT ![r] = batch[r] \ {e}] /\ doing' = [doing EXCEPT ![r] = "send"]
      /\ batch \in [Relays -> SUBSET Event] /\ batch[r] \subseteq Event
      /\ doing \in [Relays -> {"send", "acknowledge", "requeue"}]
  BY DEF GoOn, IInv, TypeOK
<1>2. CASE q # r
  BY <1>1, <1>2 DEF WillSend
<1>3. CASE q = r
  <2>1. PICK d \in batch[r] \ {e} : d.version = v
    BY <1>1, <1>3 DEF WillSend
  <2>2. e.version # d.version
    BY <2>1, ByVersion
  <2>3. e.version \in Nat /\ d.version \in Nat
    BY <1>1, Numbers DEF Event
  <2>4. e.version < d.version
    BY <2>2, <2>3
  <2>5. d \in batch[r] /\ \E c \in batch[r] : c.version < d.version
    BY <2>1, <2>4
  <2> QED
    BY <1>3, <2>1, <2>5 DEF WillSend
<1> QED
  BY <1>2, <1>3

(* The events the relay still has in hand stay kept, whichever event it    *)
(* has dealt with.                                                         *)
LEMMA GoOnKeepsRest ==
    ASSUME IInv, NEW r \in Relays, NEW e \in batch[r], GoOn(r, e),
           NEW q \in Relays, NEW v \in Versions, Keeps(q, v),
           q # r \/ v # e.version, owner'[v] = owner[v], v \in leased'
    PROVE  Keeps(q, v)'
<1>1. /\ batch' = [batch EXCEPT ![r] = batch[r] \ {e}] /\ doing' = [doing EXCEPT ![r] = "send"]
      /\ batch \in [Relays -> SUBSET Event]
      /\ doing \in [Relays -> {"send", "acknowledge", "requeue"}]
  BY DEF GoOn, IInv, TypeOK
<1>2. PICK d \in batch[q] : d.version = v /\ ~Doing(q, d, "requeue")
  BY DEF Keeps
<1>3. d \in batch'[q] /\ ~Doing(q, d, "requeue")'
  BY <1>1, <1>2 DEF Doing
<1> QED
  BY <1>2, <1>3 DEF Keeps

LEMMA AcknowledgeCosts ==
    ASSUME IInv, NEW r \in Relays, NEW e \in batch[r], Acknowledge(r, e)
    PROVE  Debts' \subseteq Debts
<1>1. /\ GoOn(r, e) /\ owner' = owner /\ leased' = leased
      /\ \A d \in batch[r] : e.version <= d.version
      /\ IF Holds(r, e) THEN Drop(e) ELSE UNCHANGED outbox
  BY DEF Acknowledge, Doing, claims
<1>2. ASSUME NEW v \in Versions, Offered(v)' PROVE Offered(v)
  <2>1. v \in Pending
    BY <1>1, <1>2 DEF Offered, Pending, Drop
  <2>2. ASSUME NEW q \in Relays, Keeps(q, v) PROVE FALSE
    <3>1. CASE q # r \/ v # e.version
      <4>1. Keeps(q, v)'
        BY <1>1, <2>2, <3>1, GoOnKeepsRest DEF Keeps
      <4> QED
        BY <1>2, <4>1 DEF Offered
    <3>2. CASE q = r /\ v = e.version
      <4>1. Holds(r, e)
        BY <2>1, <2>2, <3>2 DEF Holds, Keeps
      <4>2. v \notin Pending'
        BY <1>1, <3>2, <4>1 DEF Pending, Drop
      <4> QED
        BY <1>2, <4>2 DEF Offered
    <3> QED
      BY <3>1, <3>2
  <2> QED
    BY <2>1, <2>2 DEF Offered
<1> QED
  BY <1>1, <1>2, GoOnSends, DebtsAfter

(* What is given back was on offer since its message failed.               *)
LEMMA RequeueCosts ==
    ASSUME IInv, NEW r \in Relays, NEW e \in batch[r], Requeue(r, e)
    PROVE  Debts' \subseteq Debts
<1>1. /\ GoOn(r, e) /\ outbox' = outbox /\ Doing(r, e, "requeue")
      /\ \A d \in batch[r] : e.version <= d.version
      /\ owner \in [Versions -> Relays \cup {None}]
  BY DEF Requeue, Doing, document, IInv, TypeOK
<1>2. ~Keeps(r, e.version)
  BY <1>1, ByVersion DEF Keeps
<1>3. \A v \in Versions : \/ owner'[v] = owner[v] /\ (v \in leased => v \in leased')
                          \/ v = e.version /\ owner[v] = r
  BY <1>1 DEF Requeue, Holds, claims
<1>4. ASSUME NEW v \in Versions, Offered(v)' PROVE Offered(v)
  <2>1. v \in Pending
    BY <1>1, <1>4 DEF Offered, Pending
  <2>2. ASSUME NEW q \in Relays, Keeps(q, v) PROVE FALSE
    <3>1. q # r \/ v # e.version
      BY <1>2, <2>2
    <3>2. owner'[v] = owner[v] /\ v \in leased'
      BY <1>3, <2>2, <3>1 DEF Keeps
    <3>3. Keeps(q, v)'
      BY <1>1, <2>2, <3>1, <3>2, GoOnKeepsRest
    <3> QED
      BY <1>4, <3>3 DEF Offered
  <2> QED
    BY <2>1, <2>2 DEF Offered
<1> QED
  BY <1>1, <1>4, GoOnSends, DebtsAfter

LEMMA SettleFailsCosts ==
    ASSUME IInv, NEW r \in Relays, NEW e \in batch[r], SettleFails(r, e)
    PROVE  Debts' \subseteq Debts \cup {<<None, e.version>>}
<1>1. /\ GoOn(r, e) /\ outbox' = outbox /\ owner' = owner /\ leased' = leased
      /\ \A d \in batch[r] : e.version <= d.version
  BY DEF SettleFails, Doing, document, claims
<1>2. ASSUME NEW v \in Versions, Offered(v)', v # e.version PROVE Offered(v)
  <2>1. v \in Pending
    BY <1>1, <1>2 DEF Offered, Pending
  <2>2. ASSUME NEW q \in Relays, Keeps(q, v) PROVE FALSE
    <3>1. Keeps(q, v)'
      BY <1>1, <1>2, <2>2, GoOnKeepsRest DEF Keeps
    <3> QED
      BY <1>2, <3>1 DEF Offered
  <2> QED
    BY <2>1, <2>2 DEF Offered
<1> QED
  BY <1>1, <1>2, GoOnSends, DebtsAfter

(* A relay that dies puts what it would have sent on offer instead, and the*)
(* one event whose message it was about to settle.                         *)
LEMMA CrashCosts ==
    ASSUME IInv, Budget, NEW r \in Relays, Crash(r)
    PROVE  IsFiniteSet(Debts') /\ Cardinality(Debts') <= Cardinality(Debts) + 1
<1>1. /\ batch' = [batch EXCEPT ![r] = {}] /\ doing' = [doing EXCEPT ![r] = "send"]
      /\ outbox' = outbox /\ owner' = owner /\ leased' = leased
      /\ batch \in [Relays -> SUBSET Event] /\ batch[r] \subseteq Event
      /\ doing \in [Relays -> {"send", "acknowledge", "requeue"}]
  BY DEF Crash, document, claims, IInv, TypeOK
<1>2. \A q \in Relays, v \in Versions : q # r /\ Keeps(q, v) => Keeps(q, v)'
  BY <1>1 DEF Keeps, Doing
<1>3. ASSUME NEW v \in Versions, Offered(v)', ~Offered(v) PROVE Keeps(r, v)
  BY <1>1, <1>2, <1>3 DEF Offered, Pending
<1>4. \A q \in Relays, v \in Versions : WillSend(q, v)' => q # r /\ WillSend(q, v)
  BY <1>1 DEF WillSend
<1>5. PICK w : \A e \in batch[r] : \/ \E d \in batch[r] : d.version < e.version
                                   \/ e.version = w
  <2>1. CASE \A e \in batch[r] : \E d \in batch[r] : d.version < e.version
    BY <2>1
  <2>2. ASSUME NEW f \in batch[r], \A d \in batch[r] : ~(d.version < f.version),
               NEW e \in batch[r]
        PROVE  (\E d \in batch[r] : d.version < e.version) \/ e.version = f.version
    <3>1. f.version \in Nat /\ e.version \in Nat
      BY <1>1, Numbers DEF Event
    <3>2. f.version < e.version \/ e.version = f.version
      BY <2>2, <3>1
    <3> QED
      BY <3>2
  <2> QED
    BY <2>1, <2>2
<1> DEFINE T == Debts' \ {<<None, w>>}
<1>6. ASSUME NEW y \in T \ Debts PROVE \E x \in Debts \ T : y = <<None, x[2]>>
  <2>1. PICK v \in Versions : y = <<None, v>> \/ \E q \in Relays : y = <<q, v>>
    BY DebtsAreNext
  <2>2. y = <<None, v>>
    BY <1>4, <1>6, <2>1, DebtsAre, DebtsAreNext
  <2>3. Keeps(r, v) /\ v # w
    BY <1>3, <1>6, <2>2, DebtsAre, DebtsAreNext
  <2>4. WillSend(r, v)
    BY <1>5, <2>3 DEF Keeps, WillSend
  <2>5. <<r, v>> \in Debts \ Debts'
    BY <1>4, <2>4, DebtsAre, DebtsAreNext
  <2> QED
    BY <2>2, <2>5
<1>7. IsFiniteSet(T) /\ Cardinality(T) <= Cardinality(Debts)
  <2> HIDE DEF T
  <2> QED
    BY <1>6, Swapped DEF Budget
<1>8. IsFiniteSet(Debts') /\ Cardinality(Debts') <= Cardinality(T) + 1
  <2>1. Debts' \subseteq T \cup {<<None, w>>}
    OBVIOUS
  <2> HIDE DEF T
  <2> QED
    BY <1>7, <2>1, OneMore
<1>9. Cardinality(T) \in Nat /\ Cardinality(Debts) \in Nat /\ Cardinality(Debts') \in Nat
  BY <1>7, <1>8, FS_CardinalityType DEF Budget
<1> QED
  BY <1>7, <1>8, <1>9

(* A lease that ends while its relay is at work puts one event on offer; of*)
(* an event nobody has in hand, nothing changes.                           *)
LEMMA LeaseCosts ==
    ASSUME IInv, NEW v \in Versions, LeaseExpires(v)
    PROVE  /\ Debts' \subseteq Debts \cup {<<None, v>>}
           /\ Debts' \subseteq Debts \/ Fault
<1>1. /\ batch' = batch /\ doing' = doing /\ outbox' = outbox /\ owner' = owner
      /\ leased' = leased \ {v}
  BY DEF LeaseExpires, document
<1>2. \A u \in Versions : \A q \in Relays : WillSend(q, u)' => WillSend(q, u)
  BY <1>1 DEF WillSend
<1>3. ASSUME NEW u \in Versions, Offered(u)', ~Offered(u)
      PROVE  u = v /\ \E r \in Relays : owner[v] = r /\ \E e \in batch[r] : e.version = v
  <2>1. PICK q \in Relays : Keeps(q, u)
    BY <1>1, <1>3 DEF Offered, Pending
  <2>2. ~Keeps(q, u)'
    BY <1>3 DEF Offered
  <2> QED
    BY <1>1, <2>1, <2>2 DEF Keeps, Doing
<1>4. Debts' \subseteq Debts \cup {<<None, v>>}
  BY <1>2, <1>3, DebtsAfter
<1>5. CASE \E r \in Relays : owner[v] = r /\ \E e \in batch[r] : e.version = v
  BY <1>4, <1>5 DEF LeaseExpires
<1>6. CASE ~ \E r \in Relays : owner[v] = r /\ \E e \in batch[r] : e.version = v
  <2>1. Debts' \subseteq Debts \cup {}
    BY <1>2, <1>3, <1>6, DebtsAfter
  <2> QED
    BY <1>4, <2>1
<1> QED
  BY <1>5, <1>6

-----------------------------------------------------------------------------
(* A write adds at most one event, with a version of its own.              *)
LEMMA WriteBudget == ASSUME IInv, Budget, Write PROVE Budget'
<1>1. /\ UNCHANGED <<owner, leased, later, batch, doing, topic, faultCount>>
      /\ outbox' = outbox \/ outbox' = outbox \cup {EventOf(ticket')}
  BY DEF Write, Update, Push, relayVars, claims
<1>2. CASE outbox' = outbox
  <2>1. Debts' = Debts
    BY <1>1, <1>2, SameDebts
  <2>2. Messages' = Messages /\ Known' = Known
    BY <1>1, <1>2 DEF Messages, Known, Pending, Published, Sent
  <2> QED
    BY <1>1, <2>1, <2>2 DEF Budget
<1>3. CASE outbox' = outbox \cup {EventOf(ticket')}
  <2> DEFINE w == ticket.version + 1
  <2>1. EventOf(ticket').version = w /\ ticket.version \in Nat
    BY WriteMoves, Numbers DEF EventOf, IInv, TypeOK, TypeOfDocument, Ticket
  <2>2. Pending' = Pending \cup {w} /\ Messages' = Messages /\ Published' = Published
    BY <1>1, <1>3, <2>1 DEF Pending, Messages, Published, Sent
  <2>3. w \notin Known
    <3>1. \A e \in outbox \cup Sent : e \in Events
      BY EventsAre DEF Among
    <3>2. \A e \in Events : e.version <= ticket.version /\ e.version \in Nat
      BY EventsTyped, Numbers DEF IInv, Past, Event
    <3> QED
      BY <2>1, <3>1, <3>2 DEF Known, Pending, Published
  <2> HIDE DEF w
  <2>4. Known' = Known \cup {w}
    BY <2>2 DEF Known
  <2>5. Cardinality(Known') = Cardinality(Known) + 1 /\ Cardinality(Known) \in Nat
    BY <2>3, <2>4, KnownFinite, FS_AddElement, FS_CardinalityType DEF IInv
  <2>6. Debts' \subseteq Debts \cup {<<None, w>>}
    <3>1. \A v \in Versions : \A r \in Relays : WillSend(r, v)' => WillSend(r, v)
      BY <1>1 DEF WillSend
    <3>2. \A v \in Versions : Offered(v)' => Offered(v) \/ v = w
      BY <1>1, <2>2 DEF Offered, Keeps, Doing
    <3> QED
      BY <3>1, <3>2, DebtsAfter
  <2>7. /\ IsFiniteSet(Debts') /\ Cardinality(Debts') <= Cardinality(Debts) + 1
        /\ Cardinality(Debts) \in Nat /\ Cardinality(Debts') \in Nat
    BY <2>6, OneMore, FS_CardinalityType DEF Budget
  <2>8. Messages \in Nat /\ faultCount \in Nat /\ faultCount' = faultCount
    BY <1>1, DebtsNumbers
  <2> QED
    BY <2>2, <2>5, <2>7, <2>8 DEF Budget
<1> QED
  BY <1>1, <1>2, <1>3

(* What a step may add to the messages and the debts: its fault.           *)
Paid ==
    /\ IsFiniteSet(Debts')
    /\ Messages' + Cardinality(Debts') - faultCount'
            <= Messages + Cardinality(Debts) - faultCount

LEMMA NoneAdded ==
    ASSUME IInv, Budget, Debts' \subseteq Debts, topic' = topic,
           faultCount' = faultCount \/ Fault
    PROVE  Paid
<1>1. IsFiniteSet(Debts') /\ Cardinality(Debts') <= Cardinality(Debts)
  BY FS_Subset DEF Budget
<1>2. Cardinality(Debts') \in Nat
  BY <1>1, FS_CardinalityType
<1>3. Messages' = Messages
  BY DEF Messages
<1> QED
  BY <1>1, <1>2, <1>3, DebtsNumbers DEF Paid, Fault

LEMMA OneAdded ==
    ASSUME IInv, Budget, NEW x, Debts' \subseteq Debts \cup {x}, topic' = topic, Fault
    PROVE  Paid
<1>1. IsFiniteSet(Debts') /\ Cardinality(Debts') <= Cardinality(Debts) + 1
  BY OneMore DEF Budget
<1>2. Cardinality(Debts') \in Nat
  BY <1>1, FS_CardinalityType
<1>3. Messages' = Messages
  BY DEF Messages
<1> QED
  BY <1>1, <1>2, <1>3, DebtsNumbers DEF Paid, Fault

LEMMA RelaysPay ==
    ASSUME IInv, Budget, NEW r \in Relays, RelayStep(r) \/ RelayFault(r) PROVE Paid
<1>1. CASE Claim(r)
  <2>1. IsFiniteSet(Debts') /\ Cardinality(Debts') <= Cardinality(Debts)
    BY <1>1, ClaimCosts
  <2>2. Cardinality(Debts') \in Nat /\ Messages' = Messages /\ faultCount' = faultCount
    BY <1>1, <2>1, FS_CardinalityType DEF Claim, Messages
  <2> QED
    BY <2>1, <2>2, DebtsNumbers DEF Paid
<1>2. CASE ClaimFails(r)
  BY <1>2, ClaimFailsCosts, NoneAdded DEF ClaimFails
<1>3. CASE Crash(r)
  <2>1. IsFiniteSet(Debts') /\ Cardinality(Debts') <= Cardinality(Debts) + 1
    BY <1>3, CrashCosts
  <2>2. Cardinality(Debts') \in Nat /\ Messages' = Messages /\ faultCount' = faultCount + 1
    BY <1>3, <2>1, FS_CardinalityType DEF Crash, Messages, Fault
  <2> QED
    BY <2>1, <2>2, DebtsNumbers DEF Paid
<1>4. ASSUME NEW e \in batch[r], Publish(r, e) PROVE Paid
  <2>1. e \in Event /\ Send(e) /\ faultCount' = faultCount
    BY <1>4 DEF Publish, IInv, TypeOK
  <2>2. Messages' = Messages + 1
    BY <2>1, SendCounts DEF IInv
  <2>3. <<r, e.version>> \in Debts /\ Debts' \subseteq Debts \ {<<r, e.version>>}
    BY <1>4, PublishPays
  <2>4. IsFiniteSet(Debts') /\ Cardinality(Debts') + 1 <= Cardinality(Debts)
    BY <2>3, OneGone DEF Budget
  <2>5. Cardinality(Debts') \in Nat
    BY <2>4, FS_CardinalityType
  <2> QED
    BY <2>1, <2>2, <2>4, <2>5, DebtsNumbers DEF Paid
<1>5. ASSUME NEW e \in batch[r], PublishFails(r, e) PROVE Paid
  <2>1. e \in Event /\ (Send(e) \/ topic' = topic) /\ faultCount' = faultCount + 1
    BY <1>5 DEF PublishFails, Fault, IInv, TypeOK
  <2>2. Messages' = Messages + 1 \/ Messages' = Messages
    BY <2>1, SendCounts DEF IInv, Messages
  <2> DEFINE D == Debts \ {<<r, e.version>>}
  <2>3. <<r, e.version>> \in Debts /\ Debts' \subseteq D \cup {<<None, e.version>>}
    BY <1>5, PublishFailsCosts
  <2>4. IsFiniteSet(D) /\ Cardinality(D) + 1 <= Cardinality(Debts)
    BY <2>3, OneGone DEF Budget
  <2> HIDE DEF D
  <2>5. IsFiniteSet(Debts') /\ Cardinality(Debts') <= Cardinality(D) + 1
    BY <2>3, <2>4, OneMore
  <2>6. Cardinality(Debts') \in Nat /\ Cardinality(D) \in Nat
    BY <2>4, <2>5, FS_CardinalityType
  <2> QED
    BY <2>1, <2>2, <2>4, <2>5, <2>6, DebtsNumbers DEF Paid
<1>6. ASSUME NEW e \in batch[r], Acknowledge(r, e) \/ Requeue(r, e) PROVE Paid
  BY <1>6, AcknowledgeCosts, RequeueCosts, NoneAdded DEF Acknowledge, Requeue
<1>7. ASSUME NEW e \in batch[r], SettleFails(r, e) PROVE Paid
  BY <1>7, SettleFailsCosts, OneAdded DEF SettleFails
<1> QED
  BY <1>1, <1>2, <1>3, <1>4, <1>5, <1>6, <1>7 DEF RelayStep, RelayFault

LEMMA BudgetStep == ASSUME IInv, Budget, [Next]_vars PROVE Budget'
<1>1. CASE Write
  BY <1>1, WriteBudget
<1>2. ASSUME NEW r \in Relays, RelayStep(r) \/ RelayFault(r) PROVE Paid
  BY <1>2, RelaysPay
<1>3. ASSUME NEW v \in Versions, Time(v) PROVE Paid
  <2>1. CASE LeaseExpires(v)
    <3>1. topic' = topic /\ (faultCount' = faultCount \/ Fault)
      BY <2>1 DEF LeaseExpires
    <3> QED
      BY <2>1, <3>1, LeaseCosts, NoneAdded, OneAdded
  <2>2. CASE FallsDue(v)
    <3>1. Debts' = Debts /\ topic' = topic /\ faultCount' = faultCount
      BY <2>2, SameDebts DEF FallsDue, document
    <3> QED
      BY <3>1, NoneAdded
  <2> QED
    BY <1>3, <2>1, <2>2 DEF Time
<1>4. ASSUME Reads \/ UNCHANGED vars PROVE Paid
  <2>1. /\ UNCHANGED <<outbox, owner, leased, batch, doing>> /\ topic' = topic
        /\ faultCount' = faultCount \/ Fault
    <3>1. CASE UNCHANGED vars
      BY <3>1 DEF vars, document, relayVars, claims
    <3>2. CASE ReindexRead \/ ReindexWrite
      BY <3>2 DEF ReindexRead, ReindexWrite, document, relayVars, claims
    <3>3. ASSUME NEW k \in Topics, Consume(k) \/ Park(k) \/ Rewind(k)
          PROVE  /\ UNCHANGED <<outbox, owner, leased, batch, doing>> /\ topic' = topic
                 /\ faultCount' = faultCount \/ Fault
      BY <3>3 DEF Consume, Park, Rewind, document, relayVars, claims
    <3> QED
      BY <1>4, <3>1, <3>2, <3>3 DEF Reads
  <2>2. Debts' = Debts
    BY <2>1, SameDebts
  <2> QED
    BY <2>1, <2>2, NoneAdded
<1>5. CASE Paid
  BY <1>5, Balanced DEF Paid
<1> QED
  BY <1>1, <1>2, <1>3, <1>4, <1>5 DEF Next, Reads

(* Whatever is known and not published is still owed.                      *)
LEMMA Owed ==
    ASSUME IInv, Budget
    PROVE  RepeatsExplained
<1>1. ASSUME NEW v \in Known \ Published PROVE \E d \in Debts : d[2] = v
  <2>1. v \in Pending /\ v \in Versions
    BY <1>1, KnownFinite DEF Known, IInv
  <2>2. CASE Offered(v)
    <3>1. <<None, v>> \in Debts
      BY <2>1, <2>2, DebtsAre
    <3> QED
      BY <3>1
  <2>3. ASSUME NEW r \in Relays, Keeps(r, v) PROVE WillSend(r, v)
    <3>1. PICK e \in batch[r] : e.version = v /\ ~Doing(r, e, "requeue")
      BY <2>3 DEF Keeps
    <3>2. ~Doing(r, e, "acknowledge")
      BY <1>1, <3>1 DEF IInv, SentFirst
    <3>3. doing[r] \in {"send", "acknowledge", "requeue"} /\ batch[r] \subseteq Event
      BY DEF IInv, TypeOK
    <3>4. doing[r] = "send" \/ \E d \in batch[r] : ~(e.version <= d.version)
      BY <3>1, <3>2, <3>3 DEF Doing
    <3>5. ASSUME NEW d \in batch[r], ~(e.version <= d.version) PROVE d.version < e.version
      <4>1. d.version \in Nat /\ e.version \in Nat
        BY <3>3, Numbers DEF Event
      <4> QED
        BY <3>5, <4>1
    <3> QED
      BY <3>1, <3>4, <3>5 DEF WillSend
  <2>4. CASE \E r \in Relays : Keeps(r, v)
    <3>1. PICK r \in Relays : WillSend(r, v)
      BY <2>3, <2>4
    <3>2. <<r, v>> \in Debts
      BY <2>1, <3>1, DebtsAre
    <3> QED
      BY <3>2
  <2> QED
    BY <2>1, <2>2, <2>4 DEF Offered
<1> DEFINE U == Known \ Published
           D == Debts
           g == [d \in D |-> d[2]]
<1>2. IsFiniteSet(U) /\ Cardinality(U) <= Cardinality(D)
  <2>1. \A y \in U : \E x \in D : g[x] = y
    BY <1>1
  <2>2. DOMAIN g = D /\ g = [x \in D |-> g[x]] /\ IsFiniteSet(D)
    BY DEF Budget
  <2> HIDE DEF g, U, D
  <2> QED
    BY <2>1, <2>2, Covered
<1>3. Cardinality(Known) <= Cardinality(Published) + Cardinality(U)
  <2>1. IsFiniteSet(Known) /\ IsFiniteSet(Published)
    BY KnownFinite DEF IInv
  <2>2. Known = Published \cup U /\ Published \cap U = {}
    BY DEF Known
  <2>3. Cardinality(Published \cup U) = Cardinality(Published) + Cardinality(U)
    <3> HIDE DEF U
    <3>1. Cardinality(Published \cup U)
            = Cardinality(Published) + Cardinality(U) - Cardinality(Published \cap U)
      BY <1>2, <2>1, FS_Union
    <3>3. Cardinality(Published \cap U) = 0
      BY <2>2, FS_EmptySet
    <3>2. Cardinality(Published) \in Nat /\ Cardinality(U) \in Nat
      BY <1>2, <2>1, FS_CardinalityType
    <3> QED
      BY <3>1, <3>2, <3>3
  <2>4. Cardinality(Published \cup U) \in Nat
    BY <1>2, <2>1, <2>2, FS_CardinalityType
  <2> HIDE DEF U
  <2> QED
    BY <2>2, <2>3, <2>4
<1>4. /\ Cardinality(U) \in Nat /\ Cardinality(Known) \in Nat
      /\ Cardinality(Published) \in Nat
  BY <1>2, KnownFinite, FS_CardinalityType DEF IInv
<1> HIDE DEF U
<1>5. Messages <= Cardinality(Published) + faultCount
  BY <1>2, <1>3, <1>4, DebtsNumbers DEF Budget
<1> QED
  BY <1>5, Zenon DEF Messages, RepeatsExplained

LEMMA InitBudget == Init => Budget
<1> SUFFICES ASSUME Init PROVE Budget
  OBVIOUS
<1>1. IInv
  BY InitType
<1>2. outbox = {[version |-> 1, title |-> 1]} /\ 1 \in Versions /\ faultCount = 0
  BY DocumentAssumption, FeedAssumption DEF Init, InitDocument, EventOf, Versions
<1>3. Pending = {1} /\ Published = {}
  BY <1>2 DEF Init, Pending, Published, Sent, Topics, Range
<1>4. Debts \subseteq {<<None, 1>>}
  <2>1. \A r \in Relays, v \in Versions : ~WillSend(r, v)
    BY DEF Init, WillSend
  <2>2. \A v \in Versions : Offered(v) => v = 1
    BY <1>3 DEF Offered
  <2> QED
    BY <2>1, <2>2, DebtsAre
<1>5. IsFiniteSet(Debts) /\ Cardinality(Debts) <= 1
  <2>1. IsFiniteSet({<<None, 1>>}) /\ Cardinality({<<None, 1>>}) = 1
    BY FS_Singleton
  <2> QED
    BY <1>4, <2>1, FS_Subset
<1>6. Known = {1} /\ Cardinality(Known) = 1
  BY <1>3, FS_Singleton DEF Known
<1>7. Messages = 0
  <2>1. topic["created"] = << >> /\ topic["updated"] = << >>
    BY DEF Init, Topics
  <2>2. Len(topic["created"]) = 0 /\ Len(topic["updated"]) = 0
    BY <2>1
  <2>3. 0 + 0 = 0
    OBVIOUS
  <2> QED
    BY <2>2, <2>3, Zenon DEF Messages
<1>8. Cardinality(Debts) \in Nat
  BY <1>5, FS_CardinalityType
<1> QED
  BY <1>2, <1>5, <1>6, <1>7, <1>8 DEF Budget

(* A message more than once takes a fault each, for any number of relays,  *)
(* claims, leases and restarts.                                            *)
THEOREM RepeatsTakeFaults == Spec => []RepeatsExplained
<1>1. Init => IInv /\ Budget
  BY InitType, InitBudget
<1>2. IInv /\ Budget /\ [Next]_vars => (IInv /\ Budget)'
  BY StepKeeps, BudgetStep
<1>3. IInv /\ Budget => RepeatsExplained
  BY Owed
<1> QED
  BY <1>1, <1>2, <1>3, PTL DEF Spec
=============================================================================
