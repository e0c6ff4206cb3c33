----------------------- MODULE TicketCatalogueProofs -----------------------
(***************************************************************************)
(* Proofs about TicketCatalogue, for any number of requests, pods, titles  *)
(* and plans.  All of them rest on CopiesAreTrue: the filter of Update on  *)
(* the version is enough because every write of the document, those of the *)
(* reservations too, moves the version.                                    *)
(***************************************************************************)
EXTENDS TicketCatalogue, TLAPS

(* A copy that an edit may trust while the ticket is t.                    *)
TrueTo(c, t) == c # None => c.version <= t.version /\ (c.version = t.version => c = t)

(* CopiesAreTrue, place by place.                                          *)
AllTrue(t) == /\ TrueTo(cache, t)
              /\ \A p \in Pods : TrueTo(load[p], t)
              /\ \A p \in Pods : TrueTo(refresh[p].copy, t)
              /\ \A q \in Requests : TrueTo(request[q].copy, t)

(* A step that works on a copy has one.                                    *)
HasCopy == /\ \A q \in Requests : request[q].step = "holds" => request[q].copy # None
           /\ \A p \in Pods : refresh[p].step = "read" => refresh[p].copy # None

IInv == TypeOK /\ HasCopy /\ AllTrue(ticket)

-----------------------------------------------------------------------------
(* The document only moves on: to a new version, or not at all.            *)
LEMMA MovedKeeps ==
    ASSUME NEW c \in Copies, NEW t \in Ticket, NEW u \in Ticket,
           u = t \/ u.version > t.version, TrueTo(c, t)
    PROVE  TrueTo(c, u)
  BY CatalogueAssumption DEF TrueTo, Copies, Ticket, Versions

(* A copy just read is the ticket.                                         *)
LEMMA TicketIsTrue == ASSUME NEW t \in Ticket PROVE TrueTo(t, t) /\ TrueTo(None, t)
  BY DEF TrueTo, Ticket, Versions

LEMMA TicketIsCopy == ASSUME NEW t \in Ticket PROVE t \in Copies /\ t # None
  BY CatalogueAssumption DEF Copies

LEMMA InitType == Init => IInv
<1> SUFFICES ASSUME Init PROVE IInv
    OBVIOUS
<1>1. ticket \in Ticket /\ EventOf(ticket) \in Event
  BY DocumentAssumption DEF Init, InitDocument, Ticket, Event, EventOf, Versions
<1>2. TypeOfDocument
  BY <1>1 DEF Init, InitDocument, TypeOfDocument
<1>3. TypeOK
  BY <1>2 DEF Init, TypeOK, Copies
<1>4. HasCopy
  BY DEF Init, HasCopy
<1>5. AllTrue(ticket)
  BY DEF Init, AllTrue, TrueTo
<1> QED
  BY <1>3, <1>4, <1>5 DEF IInv

-----------------------------------------------------------------------------
(* What a write of the document does to it.                                *)
LEMMA UpdateType ==
    ASSUME TypeOfDocument, NEW c \in Ticket, NEW title \in Titles,
           NEW plan \in Plans \cup {NoPlan}, Update(c, title, plan)
    PROVE  /\ TypeOfDocument'
           /\ ticket'.version = ticket.version + 1
           /\ ticket'.reserved = ticket.reserved
           /\ ticket'.plan = plan
<1>1. ticket' \in Ticket /\ ticket'.version = ticket.version + 1
      /\ ticket'.reserved = ticket.reserved /\ ticket'.plan = plan
  BY DocumentAssumption DEF TypeOfDocument, Update, Matches, Edited, Ticket, Versions
<1>2. EventOf(ticket') \in Event
  BY <1>1 DEF EventOf, Event, Ticket
<1> QED
  BY <1>1, <1>2 DEF TypeOfDocument, Update, Push

LEMMA ReservationsType ==
    ASSUME TypeOfDocument, ReserveUnit \/ ReturnUnit, outbox' = outbox
    PROVE  /\ TypeOfDocument'
           /\ ticket'.version = ticket.version + 1
           /\ ticket'.title = ticket.title /\ ticket'.plan = ticket.plan
  BY DocumentAssumption
  DEF TypeOfDocument, ReserveUnit, ReturnUnit, Adjust, Ticket, Versions

-----------------------------------------------------------------------------
(* An edit is made from the ticket itself.                                 *)
LEMMA EditType ==
    ASSUME IInv, NEW q \in Requests, Edit(q)
    PROVE  /\ request[q].copy = ticket /\ ticket.reserved = 0
           /\ TypeOfDocument'
           /\ ticket'.version = ticket.version + 1
           /\ ticket.plan # NoPlan => ticket'.plan # NoPlan
<1>1. PICK title \in Titles, plan \in Plans \cup {NoPlan}, inactive \in BOOLEAN :
          /\ PlanChosen(request[q].copy, plan, inactive)
          /\ Update(request[q].copy, title, plan)
  BY DEF Edit
<1> DEFINE c == request[q].copy
<1>2. c \in Ticket /\ TrueTo(c, ticket) /\ c # None
  BY DEF Edit, IInv, TypeOK, HasCopy, AllTrue, Copies
<1>3. c = ticket
  BY <1>1, <1>2 DEF Update, Matches, TrueTo
<1>4. ticket.plan # NoPlan => plan # NoPlan
  BY <1>1, <1>3, DocumentAssumption DEF PlanChosen
<1> QED
  BY <1>1, <1>2, <1>3, <1>4, UpdateType DEF Edit, IInv, TypeOK

(* Steps of a pod, of the clock, and of a request that does not write.     *)
Quiet ==
    \/ \E p \in Pods : PodStep(p)
    \/ \E q \in Requests, p \in Pods : Hit(q, p) \/ Miss(q, p)
    \/ \E q \in Requests : GoAway(q) \/ Invalidate(q) \/ InvalidateFails(q)
    \/ LockExpires \/ SoftExpires \/ HardExpires
    \/ UNCHANGED vars

(* Every copy in use after a quiet step was in use before, or is the       *)
(* ticket.                                                                 *)
Known(c) == c \in Copies /\ TrueTo(c, ticket)

KnownCopies ==
    /\ Known(cache)
    /\ \A p \in Pods : Known(load[p]) /\ Known(refresh[p].copy)
    /\ \A q \in Requests : Known(request[q].copy)

LEMMA AllKnown == ASSUME IInv PROVE KnownCopies /\ Known(None) /\ Known(ticket)
<1>1. ticket \in Ticket
  BY DEF IInv, TypeOK, TypeOfDocument
<1> QED
  BY <1>1, TicketIsTrue, TicketIsCopy
  DEF IInv, TypeOK, AllTrue, KnownCopies, Known, Copies

RefreshSteps == {"idle", "started", "locked", "read", "stored"}
RequestSteps == {"away", "missed", "holds", "written"}

(* What the refreshes and the requests contribute to IInv.                 *)
RefreshesGood(t) ==
    /\ refresh \in [Pods -> [step : RefreshSteps, copy : Copies]]
    /\ \A p \in Pods : refresh[p].step = "read" => refresh[p].copy # None
    /\ \A p \in Pods : TrueTo(refresh[p].copy, t)

RequestsGood(t) ==
    /\ request \in [Requests -> [step : RequestSteps, pod : Pods \cup {None}, copy : Copies]]
    /\ \A q \in Requests : request[q].step = "holds" => request[q].copy # None
    /\ \A q \in Requests : TrueTo(request[q].copy, t)

RestGood(t) ==
    /\ cache \in Copies /\ stale \in BOOLEAN /\ TrueTo(cache, t)
    /\ load \in [Pods -> Copies] /\ \A p \in Pods : TrueTo(load[p], t)
    /\ lock \in Pods \cup {None}

LEMMA IInvParts ==
    /\ IInv <=> TypeOfDocument /\ RefreshesGood(ticket) /\ RequestsGood(ticket)
                 /\ RestGood(ticket)
    /\ IInv' <=> TypeOfDocument' /\ RefreshesGood(ticket)' /\ RequestsGood(ticket)'
                  /\ RestGood(ticket)'
  BY DEF IInv, TypeOK, HasCopy, AllTrue, RefreshesGood, RequestsGood, RestGood,
         RefreshSteps, RequestSteps

LEMMA RefreshKeeps ==
    ASSUME IInv, NEW p \in Pods, NEW step \in RefreshSteps, NEW c, Known(c),
           step = "read" => c # None, Refresh(p, step, c), ticket' = ticket
    PROVE  RefreshesGood(ticket)'
<1> DEFINE new == [step |-> step, copy |-> c]
<1>1. refresh' = [refresh EXCEPT ![p] = new]
  BY DEF Refresh
<1>2. new \in [step : RefreshSteps, copy : Copies] /\ new.step = step /\ new.copy = c
  BY DEF Known
<1> HIDE DEF new
<1>3. RefreshesGood(ticket)
  BY IInvParts
<1>4. \A r \in Pods : refresh'[r] = IF r = p THEN new ELSE refresh[r]
  BY <1>1, <1>3 DEF RefreshesGood
<1> QED
  BY <1>1, <1>2, <1>3, <1>4 DEF RefreshesGood, Known

LEMMA AtKeeps ==
    ASSUME IInv, NEW q \in Requests, NEW step \in RequestSteps, NEW pod \in Pods \cup {None},
           NEW c, Known(c), step = "holds" => c # None, At(q, step, pod, c), ticket' = ticket
    PROVE  RequestsGood(ticket)'
<1> DEFINE new == [step |-> step, pod |-> pod, copy |-> c]
<1>1. request' = [request EXCEPT ![q] = new]
  BY DEF At
<1>2. /\ new \in [step : RequestSteps, pod : Pods \cup {None}, copy : Copies]
      /\ new.step = step /\ new.copy = c
  BY DEF Known
<1> HIDE DEF new
<1>3. RequestsGood(ticket)
  BY IInvParts
<1>4. \A r \in Requests : request'[r] = IF r = q THEN new ELSE request[r]
  BY <1>1, <1>3 DEF RequestsGood
<1> QED
  BY <1>1, <1>2, <1>3, <1>4 DEF RequestsGood, Known

LEMMA QuietKeeps == ASSUME IInv, Quiet PROVE IInv' /\ document' = document
<1> USE AllKnown
<1>1. ASSUME NEW p \in Pods, PodStep(p) PROVE IInv' /\ document' = document
  <2>1. CASE Load(p)
    BY <2>1 DEF Load, document, cacheVars, IInv, TypeOK, TypeOfDocument, HasCopy, AllTrue,
                KnownCopies, Known
  <2>2. CASE Answer(p)
    BY <2>2 DEF Answer, Store, document, cacheVars, IInv, TypeOK, TypeOfDocument, HasCopy,
                AllTrue, KnownCopies, Known
  <2>3. CASE LoadFails(p)
    BY <2>3 DEF LoadFails, document, cacheVars, IInv, TypeOK, TypeOfDocument, HasCopy,
                AllTrue, KnownCopies, Known
  <2>4. CASE TryLock(p)
    <3>1. RefreshesGood(ticket)'
      BY <2>4, RefreshKeeps DEF TryLock, Stop, document, RefreshSteps
    <3> QED
      BY <2>4, <3>1, IInvParts
      DEF TryLock, document, cacheVars, TypeOfDocument, RequestsGood, RestGood, TrueTo
  <2>5. CASE RefreshRead(p)
    <3>1. RefreshesGood(ticket)'
      BY <2>5, RefreshKeeps, TicketIsCopy
      DEF RefreshRead, document, RefreshSteps, IInv, TypeOK, TypeOfDocument
    <3> QED
      BY <2>5, <3>1, IInvParts
      DEF RefreshRead, document, cacheVars, TypeOfDocument, RequestsGood, RestGood, TrueTo
  <2>6. CASE RefreshWrite(p)
    <3>1. RefreshesGood(ticket)'
      BY <2>6, RefreshKeeps DEF RefreshWrite, document, RefreshSteps
    <3>2. RestGood(ticket)'
      BY <2>6, IInvParts DEF RefreshWrite, Store, document, RestGood, RefreshesGood, TrueTo
    <3> QED
      BY <2>6, <3>1, <3>2, IInvParts DEF RefreshWrite, document, TypeOfDocument, RequestsGood, TrueTo
  <2>7. CASE Unlock(p) \/ RefreshFails(p)
    <3>1. RefreshesGood(ticket)'
      BY <2>7, RefreshKeeps DEF Unlock, RefreshFails, Stop, document, RefreshSteps
    <3> QED
      BY <2>7, <3>1, IInvParts
      DEF Unlock, RefreshFails, document, cacheVars, TypeOfDocument, RequestsGood, RestGood,
          TrueTo
  <2> QED
    BY <1>1, <2>1, <2>2, <2>3, <2>4, <2>5, <2>6, <2>7 DEF PodStep
<1>2. ASSUME NEW q \in Requests, NEW p \in Pods, Hit(q, p) \/ Miss(q, p)
      PROVE  IInv' /\ document' = document
  <2>1. RequestsGood(ticket)'
    BY <1>2, AtKeeps DEF Hit, Miss, document, RequestSteps, KnownCopies
  <2>2. RefreshesGood(ticket)'
    BY <1>2, RefreshKeeps, IInvParts
    DEF Hit, Miss, document, RefreshSteps, RefreshesGood, TrueTo
  <2> QED
    BY <1>2, <2>1, <2>2, IInvParts DEF Hit, Miss, document, cacheVars, TypeOfDocument, RestGood, TrueTo
<1>3. ASSUME NEW q \in Requests, GoAway(q) \/ Invalidate(q) \/ InvalidateFails(q)
      PROVE  IInv' /\ document' = document
  <2>1. RequestsGood(ticket)'
    BY <1>3, AtKeeps DEF GoAway, Invalidate, InvalidateFails, Leave, document, RequestSteps
  <2> QED
    BY <1>3, <2>1, IInvParts, TicketIsCopy
    DEF GoAway, Invalidate, InvalidateFails, document, cacheVars, TypeOfDocument, RestGood,
        RefreshesGood, TrueTo, Copies
<1>4. CASE LockExpires \/ SoftExpires \/ HardExpires
  BY <1>4 DEF LockExpires, SoftExpires, HardExpires, document, cacheVars, IInv, TypeOK,
              TypeOfDocument, HasCopy, AllTrue, KnownCopies, Known
<1>5. CASE UNCHANGED vars
  BY <1>5 DEF vars, document, cacheVars, IInv, TypeOK, TypeOfDocument, HasCopy, AllTrue, TrueTo
<1> QED
  BY <1>1, <1>2, <1>3, <1>4, <1>5 DEF Quiet

-----------------------------------------------------------------------------
(* What the writes of the document leave of the rest.                      *)
LEMMA WrittenKeeps ==
    ASSUME IInv, TypeOfDocument', ticket'.version > ticket.version,
           UNCHANGED <<cacheVars, load, refresh, lock>>,
           TypeOK', HasCopy',
           \A q \in Requests : request'[q].copy \in {None, request[q].copy}
    PROVE  IInv'
<1> DEFINE t == ticket
           u == ticket'
<1>1. t \in Ticket /\ u \in Ticket
  BY DEF IInv, TypeOK, TypeOfDocument
<1>2. \A c \in Copies : TrueTo(c, t) => TrueTo(c, u)
  <2>1. u.version > t.version
    OBVIOUS
  <2> HIDE DEF t, u
  <2> QED
    BY <1>1, <2>1, MovedKeeps
<1>3. TrueTo(cache', u)
  BY <1>2 DEF IInv, TypeOK, AllTrue, cacheVars
<1>4. \A p \in Pods : TrueTo(load'[p], u)
  BY <1>2 DEF IInv, TypeOK, AllTrue
<1>5. \A p \in Pods : TrueTo(refresh'[p].copy, u)
  BY <1>2 DEF IInv, TypeOK, AllTrue
<1>6. \A q \in Requests : TrueTo(request'[q].copy, u)
  BY <1>2 DEF IInv, TypeOK, AllTrue, TrueTo
<1> QED
  BY <1>3, <1>4, <1>5, <1>6 DEF IInv, AllTrue, TrueTo

LEMMA EditKeeps == ASSUME IInv, NEW q \in Requests, Edit(q) PROVE IInv'
<1>1. TypeOfDocument' /\ ticket'.version > ticket.version
  BY EditType DEF IInv, TypeOK, TypeOfDocument, Ticket, Versions
<1>2. TypeOK'
  BY <1>1 DEF Edit, At, cacheVars, IInv, TypeOK, Copies
<1>3. HasCopy'
  BY DEF Edit, At, cacheVars, IInv, TypeOK, HasCopy
<1>4. \A r \in Requests : request'[r].copy \in {None, request[r].copy}
  BY DEF Edit, At, IInv, TypeOK
<1> QED
  BY <1>1, <1>2, <1>3, <1>4, WrittenKeeps DEF Edit

LEMMA ReservationsKeep == ASSUME IInv, Reservations PROVE IInv'
<1>1. TypeOfDocument' /\ ticket'.version > ticket.version
  BY ReservationsType DEF Reservations, IInv, TypeOK, TypeOfDocument, Ticket, Versions
<1>2. TypeOK' /\ HasCopy'
  BY <1>1 DEF Reservations, cacheVars, IInv, TypeOK, HasCopy
<1>3. \A r \in Requests : request'[r].copy \in {None, request[r].copy}
  BY DEF Reservations
<1> QED
  BY <1>1, <1>2, <1>3, WrittenKeeps DEF Reservations

LEMMA StepKinds ==
    ASSUME [Next]_vars
    PROVE  Quiet \/ (\E q \in Requests : Edit(q)) \/ Reservations
  BY DEF Next, RequestStep, Quiet

LEMMA StepKeeps == ASSUME IInv, [Next]_vars PROVE IInv'
  BY StepKinds, QuietKeeps, EditKeeps, ReservationsKeep

-----------------------------------------------------------------------------
(* The catalogue keeps its types, and every copy of a ticket, in the cache *)
(* or in a pod, that has the version of the ticket is the ticket.          *)
THEOREM CopiesTrusted == Spec => []CopiesAreTrue
<1>1. Init => IInv
  BY InitType
<1>2. IInv /\ [Next]_vars => IInv'
  BY StepKeeps
<1>3. IInv => CopiesAreTrue
  BY DEF IInv, AllTrue, TrueTo, CopiesAreTrue
<1> QED
  BY <1>1, <1>2, <1>3, PTL DEF Spec

THEOREM TypeCorrect == Spec => []TypeOK
<1>1. Init => IInv
  BY InitType
<1>2. IInv /\ [Next]_vars => IInv'
  BY StepKeeps
<1>3. IInv => TypeOK
  BY DEF IInv
<1> QED
  BY <1>1, <1>2, <1>3, PTL DEF Spec

(* UpdateTicket checks the reservations of a copy, and edits no ticket     *)
(* that has any.                                                           *)
THEOREM ReservedNotEdited == Spec => EditsUnreserved
<1> DEFINE A == ticket'.title # ticket.title \/ ticket'.plan # ticket.plan => ticket.reserved = 0
<1>1. Init => IInv
  BY InitType
<1>2. IInv /\ [Next]_vars => IInv'
  BY StepKeeps
<1>3. IInv /\ [Next]_vars => [A]_vars
  <2> SUFFICES ASSUME IInv, [Next]_vars PROVE A
      OBVIOUS
  <2>1. CASE Quiet
    BY <2>1, QuietKeeps DEF document
  <2>2. CASE \E q \in Requests : Edit(q)
    BY <2>2, EditType
  <2>3. CASE Reservations
    BY <2>3, ReservationsType DEF Reservations, IInv, TypeOK
  <2> QED
    BY <2>1, <2>2, <2>3, StepKinds
<1> QED
  BY <1>1, <1>2, <1>3, PTL DEF Spec, EditsUnreserved

(* Concurrent edits never take an attached seating plan back.              *)
THEOREM PlanNotLost == Spec => PlanStays
<1> DEFINE A == ticket.plan # NoPlan => ticket'.plan # NoPlan
<1>1. Init => IInv
  BY InitType
<1>2. IInv /\ [Next]_vars => IInv'
  BY StepKeeps
<1>3. IInv /\ [Next]_vars => [A]_vars
  <2> SUFFICES ASSUME IInv, [Next]_vars PROVE A
      OBVIOUS
  <2>1. CASE Quiet
    BY <2>1, QuietKeeps DEF document
  <2>2. CASE \E q \in Requests : Edit(q)
    BY <2>2, EditType
  <2>3. CASE Reservations
    BY <2>3, ReservationsType DEF Reservations, IInv, TypeOK
  <2> QED
    BY <2>1, <2>2, <2>3, StepKinds
<1> QED
  BY <1>1, <1>2, <1>3, PTL DEF Spec, PlanStays
=============================================================================
