-------------------------- MODULE TicketCatalogue --------------------------
(***************************************************************************)
(* Edits of a ticket through the stale-while-revalidate cache of the       *)
(* ticket-service.  The cache lives in Redis and is shared by the pods; a  *)
(* pod coalesces its cold loads and runs one refresh of a stale entry at a *)
(* time, and a lock in Redis, which expires, lets one pod of the fleet     *)
(* refresh.  Reservations write the ticket and leave the cache alone, so   *)
(* that an edit nearly always works on a copy that may be old.             *)
(*                                                                         *)
(* A request that reads and edits nothing is one that leaves.  Its owner is*)
(* the only one who edits a ticket, in any number of requests at a time.   *)
(***************************************************************************)
EXTENDS TicketDocument

CONSTANTS Requests, Pods, None

ASSUME CatalogueAssumption == None \notin Ticket /\ None \notin Pods

VARIABLES
    request,        \* the step of each request, its pod while it waits, its copy
    cache,          \* the entry of the ticket
    stale,          \* the entry is past its soft expiry
    load,           \* the document each pod has read for its cold misses
    refresh,        \* the step and the copy of the refresh of each pod
    lock            \* the pod whose token the refresh lock holds

cacheVars == <<cache, stale>>
vars == <<document, request, cacheVars, load, refresh, lock>>

Copies == Ticket \cup {None}

TypeOK ==
    /\ TypeOfDocument
    /\ request \in [Requests -> [step : {"away", "missed", "holds", "written"},
                                 pod : Pods \cup {None}, copy : Copies]]
    /\ cache \in Copies /\ stale \in BOOLEAN
    /\ load \in [Pods -> Copies]
    /\ refresh \in [Pods -> [step : {"idle", "started", "locked", "read", "stored"},
                             copy : Copies]]
    /\ lock \in Pods \cup {None}

At(q, step, pod, copy) ==
    request' = [request EXCEPT ![q] = [step |-> step, pod |-> pod, copy |-> copy]]

Leave(q) == At(q, "away", None, None)

Refresh(p, step, copy) ==
    refresh' = [refresh EXCEPT ![p] = [step |-> step, copy |-> copy]]

Stop(p) == Refresh(p, "idle", None)

-----------------------------------------------------------------------------
(* FindByID.  A hit is served whatever its age; a stale one starts a       *)
(* refresh unless one is running on the pod.                               *)
Hit(q, p) ==
    /\ request[q].step = "away" /\ cache # None
    /\ At(q, "holds", None, cache)
    /\ IF stale /\ refresh[p].step = "idle" THEN Refresh(p, "started", None)
                                            ELSE UNCHANGED refresh
    /\ UNCHANGED <<document, cacheVars, load, lock>>

(* A cold miss, or Redis cannot be read.                                   *)
Miss(q, p) ==
    /\ request[q].step = "away"
    /\ At(q, "missed", p, None)
    /\ UNCHANGED <<document, cacheVars, load, refresh, lock>>

(* One load of the pod for all its misses.                                 *)
Load(p) ==
    /\ load[p] = None
    /\ \E q \in Requests : request[q].step = "missed" /\ request[q].pod = p
    /\ load' = [load EXCEPT ![p] = ticket]
    /\ UNCHANGED <<document, request, cacheVars, refresh, lock>>

Store(copy) == cache' = copy /\ stale' = FALSE

(* The load populates the cache, or fails to, and answers every waiting    *)
(* request of the pod.                                                     *)
Answer(p) ==
    /\ load[p] # None
    /\ Store(load[p]) \/ UNCHANGED cacheVars
    /\ request' = [q \in Requests |->
         IF request[q].step = "missed" /\ request[q].pod = p
         THEN [step |-> "holds", pod |-> None, copy |-> load[p]] ELSE request[q]]
    /\ load' = [load EXCEPT ![p] = None]
    /\ UNCHANGED <<document, refresh, lock>>

(* The database cannot be read: the waiting requests fail.                 *)
LoadFails(p) ==
    /\ load[p] = None
    /\ \E q \in Requests : request[q].step = "missed" /\ request[q].pod = p
    /\ request' = [q \in Requests |->
         IF request[q].step = "missed" /\ request[q].pod = p
         THEN [step |-> "away", pod |-> None, copy |-> None] ELSE request[q]]
    /\ UNCHANGED <<document, cacheVars, load, refresh, lock>>

-----------------------------------------------------------------------------
(* triggerTicketRefresh, on the pod it was started on.                     *)
TryLock(p) ==
    /\ refresh[p].step = "started"
    /\ IF lock = None THEN lock' = p /\ Refresh(p, "locked", None)
                      ELSE UNCHANGED lock /\ Stop(p)
    /\ UNCHANGED <<document, request, cacheVars, load>>

RefreshRead(p) ==
    /\ refresh[p].step = "locked"
    /\ Refresh(p, "read", ticket)
    /\ UNCHANGED <<document, request, cacheVars, load, lock>>

RefreshWrite(p) ==
    /\ refresh[p].step = "read"
    /\ Store(refresh[p].copy)
    /\ Refresh(p, "stored", None)
    /\ UNCHANGED <<document, request, load, lock>>

(* The lock is deleted if it still holds the token of this refresh; the    *)
(* call may fail.                                                          *)
Unlock(p) ==
    /\ refresh[p].step = "stored"
    /\ lock' = IF lock = p THEN None ELSE lock
    /\ Stop(p)
    /\ UNCHANGED <<document, request, cacheVars, load>>

(* A read, a write or the unlock fails, or the pod dies: the lock is left  *)
(* to its expiry.                                                          *)
RefreshFails(p) ==
    /\ refresh[p].step \in {"started", "locked", "read", "stored"}
    /\ Stop(p)
    /\ UNCHANGED <<document, request, cacheVars, load, lock>>

LockExpires ==
    /\ lock # None /\ lock' = None
    /\ UNCHANGED <<document, request, cacheVars, load, refresh>>

SoftExpires ==
    /\ cache # None /\ ~stale /\ stale' = TRUE
    /\ UNCHANGED <<document, request, cache, load, refresh, lock>>

(* Mutant: the key is stored without an expiry.                            *)
HardExpiresMutant ==
    /\ stale /\ lock = None /\ cache' = None /\ stale' = FALSE
    /\ UNCHANGED <<document, request, load, refresh, lock>>

(* The hard expiry of the key, or Redis evicts it.                         *)
HardExpires ==
    /\ cache # None /\ cache' = None /\ stale' = FALSE
    /\ UNCHANGED <<document, request, load, refresh, lock>>

-----------------------------------------------------------------------------
(* The plan an edit leaves: the one of the copy, or another one where the  *)
(* copy has none or the venue-service calls the old one inactive.          *)
PlanChosen(copy, plan, inactive) ==
    \/ plan = copy.plan
    \/ plan \in Plans /\ (copy.plan = NoPlan \/ inactive)

(* UpdateTicket, on the copy it has found.                                 *)
Edit(q) ==
    /\ request[q].step = "holds" /\ request[q].copy.reserved = 0
    /\ \E title \in Titles, plan \in Plans \cup {NoPlan}, inactive \in BOOLEAN :
        /\ PlanChosen(request[q].copy, plan, inactive)
        /\ Update(request[q].copy, title, plan)
    /\ At(q, "written", None, None)
    /\ UNCHANGED <<cacheVars, load, refresh, lock>>

(* The edit is refused or conflicts, its write fails, or the request only  *)
(* read.                                                                   *)
GoAway(q) ==
    /\ request[q].step = "holds" /\ Leave(q)
    /\ UNCHANGED <<document, cacheVars, load, refresh, lock>>

(* Update of the caching repository goes on.                               *)
Invalidate(q) ==
    /\ request[q].step = "written"
    /\ cache' = None /\ stale' = FALSE
    /\ Leave(q)
    /\ UNCHANGED <<document, load, refresh, lock>>

(* Redis fails, or the pod dies before.                                    *)
InvalidateFails(q) ==
    /\ request[q].step = "written" /\ Leave(q)
    /\ UNCHANGED <<document, cacheVars, load, refresh, lock>>

Reservations ==
    /\ ReserveUnit \/ ReturnUnit
    /\ UNCHANGED <<outbox, request, cacheVars, load, refresh, lock>>

-----------------------------------------------------------------------------
Init ==
    /\ InitDocument
    /\ request = [q \in Requests |-> [step |-> "away", pod |-> None, copy |-> None]]
    /\ cache = None /\ stale = FALSE
    /\ load = [p \in Pods |-> None]
    /\ refresh = [p \in Pods |-> [step |-> "idle", copy |-> None]]
    /\ lock = None

PodStep(p) ==
    \/ Load(p) \/ Answer(p) \/ LoadFails(p)
    \/ TryLock(p) \/ RefreshRead(p) \/ RefreshWrite(p) \/ Unlock(p) \/ RefreshFails(p)

RequestStep(q) ==
    \/ \E p \in Pods : Hit(q, p) \/ Miss(q, p)
    \/ Edit(q) \/ GoAway(q) \/ Invalidate(q) \/ InvalidateFails(q)

Next ==
    \/ \E p \in Pods : PodStep(p)
    \/ \E q \in Requests : RequestStep(q)
    \/ LockExpires \/ SoftExpires \/ HardExpires
    \/ Reservations

Spec == Init /\ [][Next]_vars

(* Started loads and refreshes end one way or another, and keys expire.    *)
Fairness ==
    /\ \A p \in Pods : WF_vars(Answer(p) \/ LoadFails(p))
    /\ \A p \in Pods : WF_vars(RefreshWrite(p) \/ RefreshFails(p))
    /\ WF_vars(HardExpires)

FairSpec == Spec /\ Fairness

-----------------------------------------------------------------------------
(* What an edit trusts: a copy with the version of the ticket is the       *)
(* ticket, wherever the copy has been since it was read.                   *)
CopiesAreTrue ==
    \A c \in {cache} \cup {load[p] : p \in Pods} \cup {refresh[p].copy : p \in Pods}
             \cup {request[q].copy : q \in Requests} :
        c # None => c.version <= ticket.version /\ (c.version = ticket.version => c = ticket)

(* UpdateTicket refuses a ticket with active reservations.  It looks at a  *)
(* copy that may be a minute old, and still never edits one.               *)
EditsUnreserved ==
    [][ticket'.title # ticket.title \/ ticket'.plan # ticket.plan => ticket.reserved = 0]_vars

(* An edit made from a copy without the seating plan never takes back a    *)
(* plan attached in between: a seated ticket stays seated.                 *)
PlanStays == [][ticket.plan # NoPlan => ticket'.plan # NoPlan]_vars

(* Loads that overtake an invalidation put old copies back, but once the   *)
(* ticket rests the cache has it or is empty.                              *)
CacheCatchesUp == <>[](cache \in {None, ticket})
=============================================================================
