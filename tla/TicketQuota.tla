---------------------------- MODULE TicketQuota ----------------------------
(***************************************************************************)
(* The inventory of one ticket of the ticket-service.                      *)
(*                                                                         *)
(* Durable truth is in MongoDB: the ticket document with its `reserved'    *)
(* and `sold' counters, and one reservation document per reservation id.   *)
(* There is no transaction over the two: CreateReservation,                *)
(* ReleaseReservation and FinalizeReservation each write one document and  *)
(* then the other.  In front of MongoDB, Redis keeps an availability       *)
(* counter and one counter per user, changed by Lua scripts, that refuse   *)
(* hopeless requests early.  A leader-elected reconciler sweeps expired    *)
(* reservations and rewrites the availability counter.                     *)
(*                                                                         *)
(* A step of the model is one round trip to MongoDB or Redis; handlers     *)
(* (gRPC calls and Kafka records) and reconcilers interleave between them. *)
(***************************************************************************)
EXTENDS Tally

CONSTANTS
    Handlers,       \* goroutines serving gRPC calls, HTTP calls and Kafka records
    Reconcilers,    \* one reconciler per replica of the service
    ResIds,         \* reservation ids
    Users,
    UserOf,         \* [ResIds -> Users]: who asks for the reservation
    MaxQty,         \* largest quantity asked for
    Quota,          \* ticket.Quota
    MaxPerUser,     \* ticket.MaxPerUser
    Faults,         \* the kinds of fault that may happen
    MaxFaults,      \* how many of them, in all
    NoRes,          \* "no reservation" in a job
    NoLeader        \* the leader key is absent

Procs == Handlers \cup Reconcilers

FaultKinds == {"crash", "mongo", "lostAck", "redis", "redisLoss", "seed"}

ASSUME ProcsAssumption ==
    /\ IsFiniteSet(Handlers) /\ IsFiniteSet(Reconcilers)
    /\ Handlers \cap Reconcilers = {}
    /\ NoLeader \notin Reconcilers

ASSUME ResIdsAssumption ==
    /\ IsFiniteSet(ResIds) /\ ResIds # {}
    /\ ResIds \cap Procs = {}
    /\ NoRes \notin ResIds
    /\ UserOf \in [ResIds -> Users]

ASSUME BoundsAssumption ==
    /\ MaxQty \in Nat \ {0} /\ Quota \in Nat \ {0}
    /\ MaxPerUser \in Nat \ {0} /\ MaxFaults \in Nat
    /\ Faults \subseteq FaultKinds

VARIABLES
    reserved, sold, \* the ticket document's counters
    seated,         \* the ticket document has a seating plan
    resv,           \* reservation documents
    expired,        \* reservations whose expiresAt has passed
    availSet, avail,\* the Redis availability key: present, and its value
    userRes,        \* the Redis user-reserved keys (absent reads as 0)
    leader,         \* the Redis reconciler lock
    job,            \* what each process is doing
    fresh,          \* handlers whose copy of the ticket has the current version
    batch,          \* reservations a reconciler's sweep has yet to release
    snapshot,       \* availability a reconciler computed from MongoDB
    faultCount

ticket == <<reserved, sold, seated, fresh>>
redis == <<availSet, avail, userRes>>
sweep == <<leader, batch, snapshot>>
vars == <<reserved, sold, seated, resv, expired, availSet, avail, userRes,
          leader, job, fresh, batch, snapshot, faultCount>>

Statuses == {"NONE", "RESERVED", "RELEASED", "SOLD"}
Doc(s, q) == [status |-> s, qty |-> q]

Labels == {"idle", "gate", "check", "limit", "increment", "insert", "undo",
           "ungate", "lookup", "release", "decrement", "restore", "finalize",
           "move", "clear", "update", "sweep", "next", "list", "compare",
           "seed", "force"}

(* A job: the step it is at, the reservation and quantity it is about,     *)
(* whether it took units from Redis (redisReserved), and the class of the  *)
(* error CreateReservation is about to return.                             *)
Job(pc, rid, qty, gated, err) ==
    [pc |-> pc, rid |-> rid, qty |-> qty, gated |-> gated, err |-> err]

Starting(pc, rid, qty) == Job(pc, rid, qty, FALSE, "none")
IdleJob == Starting("idle", NoRes, 0)

At(p, label) == job[p].pc = label
Rid(p) == job[p].rid
Qty(p) == job[p].qty

Become(p, j) == job' = [job EXCEPT ![p] = j]
Moved(p, label) == Job(label, Rid(p), Qty(p), job[p].gated, job[p].err)
Goto(p, label) == Become(p, Moved(p, label))

(* ReleaseReservation and FinalizeReservation return to the handler, or to *)
(* the loop of the sweep.                                                  *)
Done(p) == Become(p, Starting(IF p \in Handlers THEN "idle" ELSE "next", NoRes, 0))

(* CreateReservation's early returns give the Redis units back first.  Only *)
(* an unclassified error ("failed") makes ReserveQuota look the id up.     *)
Unwound(h, e) ==
    IF job[h].gated THEN Job("ungate", Rid(h), Qty(h), TRUE, e)
    ELSE IF e = "failed" THEN Job("lookup", Rid(h), Qty(h), FALSE, e)
    ELSE IdleJob

(* Every write to the ticket document bumps its version.                   *)
BumpVersion == fresh' = {}

(* sumUserActiveReservations                                               *)
UserClaims(u) ==
    [r \in ResIds |-> IF resv[r].status = "RESERVED" /\ UserOf[r] = u
                      THEN resv[r].qty ELSE 0]
UserActive(u) == Tally(UserClaims(u), MaxQty)

-----------------------------------------------------------------------------
(* Redis scripts.                                                          *)

(* Mutant: the script forgets the per-user limit.                          *)
RedisReserveMutant(h) ==
    /\ availSet /\ avail >= Qty(h)
    /\ avail' = avail - Qty(h)
    /\ userRes' = [userRes EXCEPT ![UserOf[Rid(h)]] = @ + Qty(h)]
    /\ UNCHANGED availSet

RedisReserve(h) ==
    LET u == UserOf[Rid(h)] IN
    /\ availSet /\ avail >= Qty(h)
    /\ userRes[u] + Qty(h) <= MaxPerUser
    /\ avail' = avail - Qty(h)
    /\ userRes' = [userRes EXCEPT ![u] = @ + Qty(h)]
    /\ UNCHANGED availSet

Floored(n) == IF n < 0 THEN 0 ELSE n

RedisRelease(p) ==
    /\ availSet' = TRUE
    /\ avail' = IF availSet THEN avail + Qty(p) ELSE Qty(p)
    /\ userRes' = [userRes EXCEPT ![UserOf[Rid(p)]] = Floored(@ - Qty(p))]

RedisFinalize(p) ==
    /\ userRes' = [userRes EXCEPT ![UserOf[Rid(p)]] = Floored(@ - Qty(p))]
    /\ UNCHANGED <<availSet, avail>>

-----------------------------------------------------------------------------
(* MongoDB writes.                                                         *)

(* Mutant: the filter is off by one.                                       *)
HasRoomMutant(h) == reserved + sold + Qty(h) <= Quota + 1

HasRoom(h) == reserved + sold + Qty(h) <= Quota

IncrementWrite(h) ==
    /\ HasRoom(h)
    /\ reserved' = reserved + Qty(h)
    /\ BumpVersion
    /\ UNCHANGED <<sold, seated, resv>>

InsertWrite(h) ==
    /\ resv[Rid(h)].status = "NONE"
    /\ resv' = [resv EXCEPT ![Rid(h)] = Doc("RESERVED", Qty(h))]
    /\ UNCHANGED ticket

DecrementWrite(p) ==
    /\ reserved' = reserved - Qty(p)
    /\ BumpVersion
    /\ UNCHANGED <<sold, seated, resv>>

MoveWrite(p) ==
    /\ reserved' = reserved - Qty(p)
    /\ sold' = sold + Qty(p)
    /\ BumpVersion
    /\ UNCHANGED <<seated, resv>>

(* Mutant: the filter matches the id only.                                 *)
StatusWriteMutant(p, s) ==
    /\ resv[Rid(p)].status # "NONE"
    /\ resv' = [resv EXCEPT ![Rid(p)] = Doc(s, @.qty)]
    /\ UNCHANGED ticket

(* findOneAndUpdate with the filter status = RESERVED.                     *)
StatusWrite(p, s) ==
    /\ resv[Rid(p)].status = "RESERVED"
    /\ resv' = [resv EXCEPT ![Rid(p)] = Doc(s, @.qty)]
    /\ UNCHANGED ticket

-----------------------------------------------------------------------------
(* ReserveQuota and CreateReservation.                                     *)

ReserveQuota(h, r, q) ==
    /\ At(h, "idle")
    /\ ~seated
    /\ Become(h, Starting("gate", r, q))
    /\ UNCHANGED <<ticket, resv, expired, redis, sweep, faultCount>>

GateAbsent(h) ==
    /\ At(h, "gate")
    /\ ~availSet
    /\ Goto(h, "check")
    /\ UNCHANGED <<ticket, resv, expired, redis, sweep, faultCount>>

GateRefuses(h) ==
    /\ At(h, "gate")
    /\ availSet
    /\ avail < Qty(h) \/ userRes[UserOf[Rid(h)]] + Qty(h) > MaxPerUser
    /\ Become(h, IdleJob)
    /\ UNCHANGED <<ticket, resv, expired, redis, sweep, faultCount>>

GateGrants(h) ==
    /\ At(h, "gate")
    /\ RedisReserve(h)
    /\ Become(h, Job("check", Rid(h), Qty(h), TRUE, "none"))
    /\ UNCHANGED <<ticket, resv, expired, sweep, faultCount>>

Check(h) ==
    /\ At(h, "check")
    /\ Become(h, IF Quota - reserved - sold < Qty(h) THEN Unwound(h, "refused")
                 ELSE Moved(h, "limit"))
    /\ UNCHANGED <<ticket, resv, expired, redis, sweep, faultCount>>

Limit(h) ==
    /\ At(h, "limit")
    /\ Become(h, IF UserActive(UserOf[Rid(h)]) + Qty(h) > MaxPerUser
                 THEN Unwound(h, "refused")
                 ELSE Moved(h, "increment"))
    /\ UNCHANGED <<ticket, resv, expired, redis, sweep, faultCount>>

Increment(h) ==
    /\ At(h, "increment")
    /\ IncrementWrite(h)
    /\ Goto(h, "insert")
    /\ UNCHANGED <<expired, redis, sweep, faultCount>>

IncrementRefused(h) ==
    /\ At(h, "increment")
    /\ ~HasRoom(h)
    /\ Become(h, Unwound(h, "refused"))
    /\ UNCHANGED <<ticket, resv, expired, redis, sweep, faultCount>>

Insert(h) ==
    /\ At(h, "insert")
    /\ InsertWrite(h)
    /\ Become(h, IdleJob)
    /\ UNCHANGED <<expired, redis, sweep, faultCount>>

InsertDuplicate(h) ==
    /\ At(h, "insert")
    /\ resv[Rid(h)].status # "NONE"
    /\ Goto(h, "undo")
    /\ UNCHANGED <<ticket, resv, expired, redis, sweep, faultCount>>

Undo(h) ==
    /\ At(h, "undo")
    /\ DecrementWrite(h)
    /\ Become(h, Unwound(h, "failed"))
    /\ UNCHANGED <<expired, redis, sweep, faultCount>>

Ungate(h) ==
    /\ At(h, "ungate")
    /\ RedisRelease(h)
    /\ IF job[h].err = "failed" THEN Goto(h, "lookup") ELSE Become(h, IdleJob)
    /\ UNCHANGED <<ticket, resv, expired, sweep, faultCount>>

(* The reply is success when the document is RESERVED with the same        *)
(* quantity and an error otherwise; neither changes state.                 *)
Lookup(h) ==
    /\ At(h, "lookup")
    /\ Become(h, IdleJob)
    /\ UNCHANGED <<ticket, resv, expired, redis, sweep, faultCount>>

-----------------------------------------------------------------------------
(* ReleaseReservation, from a handler or from the sweep.                   *)

ReleaseReservation(h, r) ==
    /\ At(h, "idle")
    /\ Become(h, Starting("release", r, 0))
    /\ UNCHANGED <<ticket, resv, expired, redis, sweep, faultCount>>

Release(p) ==
    /\ At(p, "release")
    /\ StatusWrite(p, "RELEASED")
    /\ Become(p, Starting("decrement", Rid(p), resv[Rid(p)].qty))
    /\ UNCHANGED <<expired, redis, sweep, faultCount>>

(* Mutant: an already released reservation is released again.              *)
ReleaseNothingMutant(p) ==
    /\ At(p, "release")
    /\ resv[Rid(p)].status # "RESERVED"
    /\ Become(p, Starting("decrement", Rid(p), resv[Rid(p)].qty))
    /\ UNCHANGED <<ticket, resv, expired, redis, sweep, faultCount>>

(* NotFound, already released (success) or SOLD (conflict).                *)
ReleaseNothing(p) ==
    /\ At(p, "release")
    /\ resv[Rid(p)].status # "RESERVED"
    /\ Done(p)
    /\ UNCHANGED <<ticket, resv, expired, redis, sweep, faultCount>>

Decrement(p) ==
    /\ At(p, "decrement")
    /\ DecrementWrite(p)
    /\ Goto(p, "restore")
    /\ UNCHANGED <<expired, redis, sweep, faultCount>>

Restore(p) ==
    /\ At(p, "restore")
    /\ RedisRelease(p)
    /\ Done(p)
    /\ UNCHANGED <<ticket, resv, expired, sweep, faultCount>>

-----------------------------------------------------------------------------
(* FinalizeReservation.                                                    *)

FinalizeReservation(h, r) ==
    /\ At(h, "idle")
    /\ Become(h, Starting("finalize", r, 0))
    /\ UNCHANGED <<ticket, resv, expired, redis, sweep, faultCount>>

Finalize(h) ==
    /\ At(h, "finalize")
    /\ StatusWrite(h, "SOLD")
    /\ Become(h, Starting("move", Rid(h), resv[Rid(h)].qty))
    /\ UNCHANGED <<expired, redis, sweep, faultCount>>

(* NotFound, already SOLD (success) or released (conflict).                *)
FinalizeNothing(h) ==
    /\ At(h, "finalize")
    /\ resv[Rid(h)].status # "RESERVED"
    /\ Done(h)
    /\ UNCHANGED <<ticket, resv, expired, redis, sweep, faultCount>>

Move(h) ==
    /\ At(h, "move")
    /\ MoveWrite(h)
    /\ Goto(h, "clear")
    /\ UNCHANGED <<expired, redis, sweep, faultCount>>

Clear(h) ==
    /\ At(h, "clear")
    /\ RedisFinalize(h)
    /\ Done(h)
    /\ UNCHANGED <<ticket, resv, expired, sweep, faultCount>>

-----------------------------------------------------------------------------
(* UpdateTicket: read, then write guarded by the version that was read.    *)

UpdateTicket(h) ==
    /\ At(h, "idle")
    /\ reserved <= 0
    /\ Become(h, Starting("update", NoRes, 0))
    /\ fresh' = fresh \cup {h}
    /\ UNCHANGED <<reserved, sold, seated, resv, expired, redis, sweep, faultCount>>

CommitUpdate(h) ==
    /\ At(h, "update")
    /\ h \in fresh
    /\ seated' \in {seated, TRUE}
    /\ BumpVersion
    /\ Become(h, IdleJob)
    /\ UNCHANGED <<reserved, sold, resv, expired, redis, sweep, faultCount>>

UpdateConflict(h) ==
    /\ At(h, "update")
    /\ h \notin fresh
    /\ Become(h, IdleJob)
    /\ UNCHANGED <<ticket, resv, expired, redis, sweep, faultCount>>

-----------------------------------------------------------------------------
(* The reconciler.                                                         *)

EndPass(c) ==
    /\ Become(c, IdleJob)
    /\ snapshot' = [snapshot EXCEPT ![c] = 0]

AcquireLeader(c) ==
    /\ At(c, "idle")
    /\ leader = NoLeader
    /\ leader' = c
    /\ Become(c, Starting("sweep", NoRes, 0))
    /\ UNCHANGED <<ticket, resv, expired, redis, batch, snapshot, faultCount>>

(* Mutant: the key is set without a time to live.                          *)
LeaderKeyExpiresMutant == FALSE /\ UNCHANGED vars

(* The key's time to live is one interval; a slow pass outlives it.        *)
LeaderKeyExpires ==
    /\ leader # NoLeader
    /\ leader' = NoLeader
    /\ UNCHANGED <<ticket, resv, expired, redis, batch, snapshot, job, faultCount>>

SweepExpired(c) ==
    /\ At(c, "sweep")
    /\ batch' = [batch EXCEPT ![c] = {r \in expired : resv[r].status = "RESERVED"}]
    /\ Goto(c, "next")
    /\ UNCHANGED <<ticket, resv, expired, redis, leader, snapshot, faultCount>>

SweepNext(c, r) ==
    /\ At(c, "next")
    /\ r \in batch[c]
    /\ batch' = [batch EXCEPT ![c] = @ \ {r}]
    /\ Become(c, Starting("release", r, 0))
    /\ UNCHANGED <<ticket, resv, expired, redis, leader, snapshot, faultCount>>

SweepEnds(c) ==
    /\ At(c, "next")
    /\ batch[c] = {}
    /\ Goto(c, "list")
    /\ UNCHANGED <<ticket, resv, expired, redis, sweep, faultCount>>

ListTicket(c) ==
    /\ At(c, "list")
    /\ ~seated
    /\ snapshot' = [snapshot EXCEPT ![c] = Quota - reserved - sold]
    /\ Goto(c, "compare")
    /\ UNCHANGED <<ticket, resv, expired, redis, leader, batch, faultCount>>

SkipSeated(c) ==
    /\ At(c, "list")
    /\ seated
    /\ EndPass(c)
    /\ UNCHANGED <<ticket, resv, expired, redis, leader, batch, faultCount>>

Compare(c) ==
    /\ At(c, "compare")
    /\ IF availSet /\ avail = snapshot[c]
       THEN EndPass(c)
       ELSE /\ Goto(c, IF availSet THEN "force" ELSE "seed")
            /\ UNCHANGED snapshot
    /\ UNCHANGED <<ticket, resv, expired, redis, leader, batch, faultCount>>

(* Mutant: never forced.                                                   *)
ReseedMutant(c) ==
    /\ At(c, "seed") \/ At(c, "force")
    /\ avail' = IF availSet THEN avail ELSE snapshot[c]
    /\ availSet' = TRUE
    /\ EndPass(c)
    /\ UNCHANGED <<ticket, resv, expired, userRes, leader, batch, faultCount>>

(* SET NX for an absent key, SET for a wrong value.                        *)
Reseed(c) ==
    /\ At(c, "seed") \/ At(c, "force")
    /\ avail' = IF At(c, "seed") /\ availSet THEN avail ELSE snapshot[c]
    /\ availSet' = TRUE
    /\ EndPass(c)
    /\ UNCHANGED <<ticket, resv, expired, userRes, leader, batch, faultCount>>

-----------------------------------------------------------------------------
(* Time and faults.                                                        *)

Expire(r) ==
    /\ resv[r].status = "RESERVED"
    /\ r \notin expired
    /\ expired' = expired \cup {r}
    /\ UNCHANGED <<ticket, resv, redis, sweep, job, faultCount>>

Fault(kind) ==
    /\ kind \in Faults
    /\ faultCount < MaxFaults
    /\ faultCount' = faultCount + 1

(* The process dies, or its context is cancelled, between two round trips. *)
Crash(p) ==
    /\ Fault("crash")
    /\ ~At(p, "idle")
    /\ Become(p, IdleJob)
    /\ fresh' = fresh \ {p}
    /\ batch' = IF p \in Reconcilers THEN [batch EXCEPT ![p] = {}] ELSE batch
    /\ snapshot' = IF p \in Reconcilers THEN [snapshot EXCEPT ![p] = 0] ELSE snapshot
    /\ UNCHANGED <<reserved, sold, seated, resv, expired, redis, leader>>

(* Where the code goes when the MongoDB call at p's label returns an error.*)
MongoErrorPath(p) ==
    \/ At(p, "gate") /\ Goto(p, "check")
    \/ job[p].pc \in {"check", "limit", "increment"} /\ Become(p, Unwound(p, "failed"))
    \/ At(p, "insert") /\ Goto(p, "undo")
    \/ At(p, "undo") /\ Become(p, Unwound(p, "failed"))
    \/ (At(p, "lookup") \/ At(p, "update")) /\ Become(p, IdleJob)
    \/ job[p].pc \in {"release", "decrement", "finalize", "move"} /\ Done(p)
    \/ At(p, "sweep") /\ Goto(p, "next")

MongoError(p) ==
    /\ Fault("mongo")
    /\ MongoErrorPath(p)
    /\ UNCHANGED <<ticket, resv, expired, redis, sweep>>

(* The list of tickets fails: the lock is deleted if it is still this      *)
(* replica's.                                                              *)
ListError(c) ==
    /\ Fault("mongo")
    /\ At(c, "list")
    /\ Become(c, IdleJob)
    /\ leader' = IF leader = c THEN NoLeader ELSE leader
    /\ UNCHANGED <<ticket, resv, expired, redis, batch, snapshot>>

(* The write is applied and its reply is lost: the caller sees an error.   *)
LostAck(p) ==
    /\ Fault("lostAck")
    /\ \/ At(p, "increment") /\ IncrementWrite(p)
       \/ At(p, "insert") /\ InsertWrite(p)
       \/ (At(p, "undo") \/ At(p, "decrement")) /\ DecrementWrite(p)
       \/ At(p, "release") /\ StatusWrite(p, "RELEASED")
       \/ At(p, "finalize") /\ StatusWrite(p, "SOLD")
       \/ At(p, "move") /\ MoveWrite(p)
    /\ MongoErrorPath(p)
    /\ UNCHANGED <<expired, redis, sweep>>

RedisErrorPath(p) ==
    \/ At(p, "gate") /\ Become(p, Job("lookup", Rid(p), Qty(p), FALSE, "failed"))
    \/ At(p, "ungate") /\ IF job[p].err = "failed" THEN Goto(p, "lookup")
                          ELSE Become(p, IdleJob)
    \/ (At(p, "restore") \/ At(p, "clear")) /\ Done(p)

RedisError(p) ==
    /\ Fault("redis")
    /\ RedisErrorPath(p)
    /\ UNCHANGED <<ticket, resv, expired, redis, sweep>>

(* The reserve script ran and its reply was lost.                          *)
RedisLostReply(h) ==
    /\ Fault("redis")
    /\ At(h, "gate")
    /\ RedisReserve(h)
    /\ RedisErrorPath(h)
    /\ UNCHANGED <<ticket, resv, expired, sweep>>

(* Reading or writing the availability key fails: the ticket is skipped.   *)
ReconcileError(c) ==
    /\ Fault("redis")
    /\ job[c].pc \in {"compare", "seed", "force"}
    /\ EndPass(c)
    /\ UNCHANGED <<ticket, resv, expired, redis, leader, batch>>

(* Redis restarts empty.                                                   *)
RedisLoss ==
    /\ Fault("redisLoss")
    /\ availSet' = FALSE /\ avail' = 0
    /\ userRes' = [u \in Users |-> 0]
    /\ leader' = NoLeader
    /\ UNCHANGED <<ticket, resv, expired, job, batch, snapshot>>

-----------------------------------------------------------------------------
(* Create inserts the ticket, then seeds the availability key; the ticket  *)
(* exists even when the seeding failed, which is the first fault then.     *)
Init ==
    /\ reserved = 0 /\ sold = 0 /\ seated = FALSE
    /\ resv = [r \in ResIds |-> Doc("NONE", 0)]
    /\ expired = {}
    /\ availSet \in IF "seed" \in Faults /\ MaxFaults > 0 THEN BOOLEAN ELSE {TRUE}
    /\ avail = IF availSet THEN Quota ELSE 0
    /\ userRes = [u \in Users |-> 0]
    /\ leader = NoLeader
    /\ job = [p \in Procs |-> IdleJob]
    /\ fresh = {}
    /\ batch = [c \in Reconcilers |-> {}]
    /\ snapshot = [c \in Reconcilers |-> 0]
    /\ faultCount = IF availSet THEN 0 ELSE 1

(* A call, a record or an edit reaches an idle handler.                    *)
Request(h) ==
    \/ \E r \in ResIds, q \in 1..MaxQty : ReserveQuota(h, r, q)
    \/ \E r \in ResIds : ReleaseReservation(h, r) \/ FinalizeReservation(h, r)
    \/ UpdateTicket(h)

(* A busy handler takes its next step.                                     *)
HandlerStep(h) ==
    \/ GateAbsent(h) \/ GateRefuses(h) \/ GateGrants(h)
    \/ Check(h) \/ Limit(h)
    \/ Increment(h) \/ IncrementRefused(h)
    \/ Insert(h) \/ InsertDuplicate(h)
    \/ Undo(h) \/ Ungate(h) \/ Lookup(h)
    \/ Finalize(h) \/ FinalizeNothing(h) \/ Move(h) \/ Clear(h)
    \/ CommitUpdate(h) \/ UpdateConflict(h)

ReleaseStep(p) == Release(p) \/ ReleaseNothing(p) \/ Decrement(p) \/ Restore(p)

ReconcilerStep(c) ==
    \/ SweepExpired(c) \/ (\E r \in ResIds : SweepNext(c, r)) \/ SweepEnds(c)
    \/ ListTicket(c) \/ SkipSeated(c)
    \/ Compare(c) \/ Reseed(c)

FaultStep ==
    \/ \E p \in Procs : Crash(p) \/ MongoError(p) \/ LostAck(p) \/ RedisError(p)
    \/ \E h \in Handlers : RedisLostReply(h)
    \/ \E c \in Reconcilers : ListError(c) \/ ReconcileError(c)
    \/ RedisLoss

Next ==
    \/ \E h \in Handlers : Request(h) \/ HandlerStep(h)
    \/ \E p \in Procs : ReleaseStep(p)
    \/ \E c \in Reconcilers : AcquireLeader(c) \/ ReconcilerStep(c)
    \/ LeaderKeyExpires
    \/ \E r \in ResIds : Expire(r)
    \/ FaultStep

Spec == Init /\ [][Next]_vars

(* The runtime keeps scheduling a busy process; the lock's time to live    *)
(* runs out; some replica's ticker fires while the lock is free.           *)
Fairness ==
    /\ \A h \in Handlers : WF_vars(HandlerStep(h) \/ ReleaseStep(h))
    /\ \A c \in Reconcilers : WF_vars(ReconcilerStep(c) \/ ReleaseStep(c))
    /\ WF_vars(\E c \in Reconcilers : AcquireLeader(c))
    /\ WF_vars(LeaderKeyExpires)

FairSpec == Spec /\ Fairness

-----------------------------------------------------------------------------
(* Properties.                                                             *)

(* The steps that do not concern one reservation.                          *)
Nameless == {"idle", "update", "sweep", "next", "list", "compare", "seed", "force"}

(* The steps of CreateReservation, for a quantity of at least one.         *)
Reserving == {"gate", "check", "limit", "increment", "insert", "undo", "ungate", "lookup"}

Jobs ==
    {j \in [pc : Labels, rid : ResIds \cup {NoRes}, qty : 0..MaxQty,
            gated : BOOLEAN, err : {"none", "refused", "failed"}] :
        /\ j.rid = NoRes => j.pc \in Nameless
        /\ j.pc \in Reserving => j.qty > 0}

(* Every variable keeps its type, and a process that works on a            *)
(* reservation has its name: the state of CreateReservation, ReleaseReservation,        *)
(* FinalizeReservation, UpdateTicket and the reconciler's Run.             *)
TypeOK ==
    /\ reserved \in Int /\ sold \in Int /\ seated \in BOOLEAN
    /\ resv \in [ResIds -> [status : Statuses, qty : 0..MaxQty]]
    /\ expired \subseteq ResIds
    /\ availSet \in BOOLEAN /\ avail \in Int
    /\ userRes \in [Users -> Nat]
    /\ leader \in Reconcilers \cup {NoLeader}
    /\ job \in [Procs -> Jobs]
    /\ fresh \subseteq Handlers
    /\ batch \in [Reconcilers -> SUBSET ResIds]
    /\ snapshot \in [Reconcilers -> Int]
    /\ faultCount \in 0..MaxFaults

(* Units that a document in one of `statuses', or a job at one of          *)
(* `labels', accounts for, and the table of all of them.                   *)
DocUnits(statuses, doc) == IF doc.status \in statuses THEN doc.qty ELSE 0
JobUnits(labels, j) == IF j.pc \in labels THEN j.qty ELSE 0

Weights(statuses, labels) ==
    [o \in ResIds \cup Procs |->
        IF o \in ResIds THEN DocUnits(statuses, resv[o]) ELSE JobUnits(labels, job[o])]

(* Steps that owe `reserved' a decrement, and those of them that owe it to *)
(* the sum of the two counters.                                            *)
OwesReserved == {"insert", "undo", "decrement", "move"}
OwesTaken == {"insert", "undo", "decrement"}

(* The ticket's `reserved' counter covers every live reservation and every *)
(* process that still owes it a decrement.  CreateReservation increments   *)
(* before it inserts and the other two change the status before the        *)
(* counter, so an interruption anywhere leaves it too high, never too low. *)
ReservedCovers == Tally(Weights({"RESERVED"}, OwesReserved), MaxQty) <= reserved

(* reserved + sold covers every live or sold reservation and every unit    *)
(* in flight between the two documents.                                    *)
TakenCovers == Tally(Weights({"RESERVED", "SOLD"}, OwesTaken), MaxQty) <= reserved + sold

(* The conditional increment never takes the counters past the quota.      *)
WithinQuota == reserved + sold <= Quota

CountersCover == ReservedCovers /\ TakenCovers /\ WithinQuota

Ledger == INSTANCE QuotaLedger WITH ledger <- resv

(* Whatever fails between the two documents or in Redis, the reservations  *)
(* that are live or sold are never worth more than the ticket's quota.     *)
NoOversell == Tally(Ledger!Claims(resv), MaxQty) <= Quota

(* The reservation documents move as the abstract ledger says: held once,  *)
(* within the quota, and then either released or sold, once.               *)
LedgerSpec == Ledger!Spec

(* A user's live reservations exceed MaxPerUser only after a fault,        *)
(* whatever calls overlap: the check against MongoDB is read-then-write, so*)
(* it is the Redis counter that has to exclude the race.                   *)
PerUserCap == \A u \in Users : UserActive(u) > MaxPerUser => faultCount > 0

HandlersQuiet == \A h \in Handlers : At(h, "idle")

(* A reservation whose expiry has passed does not stay RESERVED: some      *)
(* reconciler's sweep, or a handler, ends it in spite of crashes, lost     *)
(* locks and failed calls.                                                 *)
ExpiredEnds ==
    \A r \in ResIds :
        (r \in expired /\ resv[r].status = "RESERVED") ~> resv[r].status # "RESERVED"

(* Once the handlers are quiet the availability key of a general admission *)
(* ticket converges to what MongoDB says and stays there, however many     *)
(* stale snapshots the reconcilers have in flight.                         *)
CacheConverges ==
    <>[]HandlersQuiet =>
        <>[](seated \/ (availSet /\ avail = Quota - reserved - sold))

-----------------------------------------------------------------------------
(* What comments of the code say and TLC refutes (see the README).         *)

(* ReserveQuota answers a repeated call with the same parameters with OK:  *)
(* a call is not refused while its own reservation is live.                *)
RetryAccepted ==
    [][\A h \in Handlers :
          (/\ job[h].pc \in {"gate", "check", "limit", "increment", "ungate"}
           /\ job[h].err # "failed"
           /\ job'[h] = IdleJob
           /\ faultCount' = faultCount)
          => resv[Rid(h)] # Doc("RESERVED", Qty(h))]_vars

(* A `reserved' counter inflated by an interrupted call is reconciled.     *)
CounterReconciled ==
    <>[]HandlersQuiet =>
        <>[](reserved = Tally(Weights({"RESERVED"}, {}), MaxQty))

(* The reconciler corrects drift of the inventory keys, the per-user ones  *)
(* included.                                                               *)
UserKeysReconciled ==
    <>[]HandlersQuiet => <>[](\A u \in Users : userRes[u] = UserActive(u))

(* A seated ticket is not reserved through the general admission path: no  *)
(* reservation document appears once the ticket has a seating plan.        *)
SeatedNotReserved ==
    [][seated => \A r \in ResIds : resv[r].status = "NONE" => resv'[r].status = "NONE"]_vars
=============================================================================
