--------------------------- MODULE SeatInventory ---------------------------
(***************************************************************************)
(* The seats of one seating plan in the venue-service.                     *)
(*                                                                         *)
(* PostgreSQL is the truth: a row per seat, and a ledger of reservations   *)
(* with their items.  In front of it Redis keeps a state per seat and a    *)
(* marker key whose TTL is the expiry of the hold or the reservation.  A   *)
(* hold asks Redis first; every change of a reservation is committed to    *)
(* PostgreSQL and then copied to Redis, in a write that may come late or   *)
(* not at all.                                                             *)
(*                                                                         *)
(* A transaction that takes seats locks its buyer and its seats, looks,    *)
(* and writes in a later step.  Every other step is one statement to       *)
(* PostgreSQL or one script or pipeline to Redis.                          *)
(***************************************************************************)
EXTENDS Naturals, FiniteSets

CONSTANTS
    Handlers,       \* goroutines serving HTTP, gRPC and Kafka records, all pods
    Reconcilers,    \* one Redis reconciler per pod
    Seats,
    Users,
    ResIds,         \* reservation ids
    UserOf,         \* [ResIds -> Users]
    MaxPerUser,     \* the per-buyer limit; 0 is no limit
    Faults,         \* the kinds of fault that may happen
    MaxFaults,      \* how many of them, in all
    Nobody

FaultKinds == {"crash", "db", "lostAck", "redis", "redisLost", "redisLoss"}

ASSUME SeatsAssumption ==
    /\ IsFiniteSet(Seats) /\ IsFiniteSet(ResIds)
    /\ Users \cap ResIds = {} /\ Nobody \notin Users \cup ResIds
    /\ UserOf \in [ResIds -> Users]

ASSUME LimitAssumption ==
    MaxPerUser \in Nat /\ MaxFaults \in Nat /\ Faults \subseteq FaultKinds

VARIABLES
    status, heldBy, \* the seats rows; heldBy is a user or a reservation
    lapsed,         \* held seats whose held_until has passed
    resStatus,      \* the reservation ledger (NONE: no row)
    items,          \* the seats of each reservation
    overdue,        \* reservations whose expires_at has passed
    cell,           \* the Redis hash of seat states
    marker,         \* the Redis marker keys
    job,            \* what each handler is doing
    scan, snapshot, \* what each reconciler is doing, and has read
    faultCount

seats == <<status, heldBy, lapsed>>
ledger == <<resStatus, items, overdue>>
redis == <<cell, marker>>
sweep == <<scan, snapshot>>
vars == <<seats, ledger, redis, job, sweep, faultCount>>

Labels == {"idle", "hold", "holdDb", "holdWrite", "rollback", "unhold", "unholdDb",
           "reserve", "reserveWrite", "mark", "release", "free", "finalize", "sell"}

(* A job: its step, the user or reservation and the seats it is about, and *)
(* what it knows (that Redis granted the hold, or that the reservation was *)
(* RESERVED).                                                              *)
Job(pc, who, S, knows) == [pc |-> pc, who |-> who, seats |-> S, knows |-> knows]
IdleJob == Job("idle", Nobody, {}, FALSE)
At(h, label) == job[h].pc = label
Who(h) == job[h].who
Wanted(h) == job[h].seats
Become(h, j) == job' = [job EXCEPT ![h] = j]
Goto(h, label) == Become(h, Job(label, Who(h), Wanted(h), job[h].knows))
Done(h) == Become(h, IdleJob)

Fault(kind) == kind \in Faults /\ faultCount < MaxFaults /\ faultCount' = faultCount + 1

(* Locks of the transactions that take seats: seat rows and the buyer.     *)
Writing == {"holdWrite", "reserveWrite"}
Buyer(h) == IF Who(h) \in ResIds THEN UserOf[Who(h)] ELSE Who(h)
Locked(s) == \E h \in Handlers : job[h].pc \in Writing /\ s \in Wanted(h)
BuyerLocked(u) ==
    MaxPerUser > 0 /\ \E h \in Handlers : job[h].pc \in Writing /\ Buyer(h) = u

Put(f, S, v) == [s \in Seats |-> IF s \in S THEN v ELSE f[s]]

-----------------------------------------------------------------------------
(* Redis.                                                                  *)

(* Mutant: a held seat blocks even when its marker has lapsed.             *)
RedisFreeMutant(s) == cell[s] \in {"absent", "0"}

(* luaHold: a lapsed marker frees the seat, a sold seat always blocks.     *)
RedisFree(s) == cell[s] \in {"absent", "0"} \/ (cell[s] # "3" /\ marker[s] = Nobody)

LuaHold(h) ==
    /\ cell' = Put(cell, Wanted(h), "1")
    /\ marker' = Put(marker, Wanted(h), Who(h))

(* luaRelease: only seats still held, by this user or by a lapsed marker.  *)
LuaRelease(h) ==
    LET S == {s \in Wanted(h) : cell[s] = "1" /\ marker[s] \in {Who(h), Nobody}} IN
    cell' = Put(cell, S, "0") /\ marker' = Put(marker, S, Nobody)

(* setSeatState                                                            *)
SetSeatState(S, v) == cell' = Put(cell, S, v) /\ marker' = Put(marker, S, Nobody)

-----------------------------------------------------------------------------
(* Transactions that take seats.                                           *)

(* The buyer's seats that checkSeatLimit counts.                           *)
BuyerSeats(u) ==
    {s \in Seats : status[s] = "HELD" /\ heldBy[s] = u /\ s \notin lapsed}
        \cup UNION {items[r] : r \in {x \in ResIds : UserOf[x] = u
                                                 /\ resStatus[x] \in {"RESERVED", "SOLD"}}}

WithinLimit(u, S) ==
    MaxPerUser = 0 \/ Cardinality(BuyerSeats(u) \cup S) <= MaxPerUser

(* Mutant: any held seat is taken over, lapsed or not.                     *)
TakableMutant(s) == status[s] \in {"AVAILABLE", "HELD"}

Takable(s) == status[s] = "AVAILABLE" \/ (status[s] = "HELD" /\ s \in lapsed)
Reservable(s, u) == Takable(s) \/ (status[s] = "HELD" /\ heldBy[s] = u)

(* The locks are granted.                                                  *)
CanLock(h) == ~BuyerLocked(Buyer(h)) /\ \A s \in Wanted(h) : ~Locked(s)

Take(h, st) ==
    /\ status' = Put(status, Wanted(h), st)
    /\ heldBy' = Put(heldBy, Wanted(h), Who(h))
    /\ lapsed' = lapsed \ Wanted(h)

-----------------------------------------------------------------------------
(* Manager.HoldSeats                                                       *)

HoldSeats(h, u, S) ==
    /\ At(h, "idle") /\ S # {}
    /\ Become(h, Job("hold", u, S, FALSE))
    /\ UNCHANGED <<seats, ledger, redis, sweep, faultCount>>

RedisHold(h) ==
    /\ At(h, "hold")
    /\ \A s \in Wanted(h) : RedisFree(s)
    /\ LuaHold(h)
    /\ Become(h, Job("holdDb", Who(h), Wanted(h), TRUE))
    /\ UNCHANGED <<seats, ledger, sweep, faultCount>>

RedisConflict(h) ==
    /\ At(h, "hold")
    /\ \E s \in Wanted(h) : ~RedisFree(s)
    /\ Done(h)
    /\ UNCHANGED <<seats, ledger, redis, sweep, faultCount>>

(* A Redis error falls through to the hold in PostgreSQL only.             *)
RedisHoldFails(h) ==
    /\ Fault("redis")
    /\ At(h, "hold")
    /\ Goto(h, "holdDb")
    /\ UNCHANGED <<seats, ledger, redis, sweep>>

RedisHoldLost(h) ==
    /\ Fault("redisLost")
    /\ At(h, "hold")
    /\ \A s \in Wanted(h) : RedisFree(s)
    /\ LuaHold(h)
    /\ Goto(h, "holdDb")
    /\ UNCHANGED <<seats, ledger, sweep>>

HoldGranted(h) == (\A s \in Wanted(h) : Takable(s)) /\ WithinLimit(Who(h), Wanted(h))

HoldDb(h) ==
    /\ At(h, "holdDb") /\ CanLock(h)
    /\ HoldGranted(h)
    /\ Goto(h, "holdWrite")
    /\ UNCHANGED <<seats, ledger, redis, sweep, faultCount>>

(* The error of HoldSeats; a hold granted by Redis is rolled back first.   *)
HoldError(h) == IF job[h].knows THEN Goto(h, "rollback") ELSE Done(h)

HoldDbRefused(h) ==
    /\ At(h, "holdDb") /\ CanLock(h)
    /\ ~HoldGranted(h)
    /\ HoldError(h)
    /\ UNCHANGED <<seats, ledger, redis, sweep, faultCount>>

HoldWrite(h) ==
    /\ At(h, "holdWrite")
    /\ Take(h, "HELD")
    /\ Done(h)
    /\ UNCHANGED <<ledger, redis, sweep, faultCount>>

HoldDbFails(h) ==
    /\ Fault("db")
    /\ At(h, "holdDb") \/ At(h, "holdWrite")
    /\ HoldError(h)
    /\ UNCHANGED <<seats, ledger, redis, sweep>>

(* The commit is applied and reported as failed.                           *)
HoldDbLost(h) ==
    /\ Fault("lostAck")
    /\ At(h, "holdWrite")
    /\ Take(h, "HELD")
    /\ HoldError(h)
    /\ UNCHANGED <<ledger, redis, sweep>>

Rollback(h) ==
    /\ At(h, "rollback")
    /\ LuaRelease(h)
    /\ Done(h)
    /\ UNCHANGED <<seats, ledger, sweep, faultCount>>

(* Manager.ReleaseHold                                                     *)
ReleaseHold(h, u, S) ==
    /\ At(h, "idle") /\ S # {}
    /\ Become(h, Job("unhold", u, S, FALSE))
    /\ UNCHANGED <<seats, ledger, redis, sweep, faultCount>>

RedisUnhold(h) ==
    /\ At(h, "unhold")
    /\ LuaRelease(h)
    /\ Goto(h, "unholdDb")
    /\ UNCHANGED <<seats, ledger, sweep, faultCount>>

RedisUnholdFails(h) ==
    /\ Fault("redis")
    /\ At(h, "unhold")
    /\ Goto(h, "unholdDb")
    /\ UNCHANGED <<seats, ledger, redis, sweep>>

MakeAvailable(S) ==
    /\ status' = Put(status, S, "AVAILABLE")
    /\ heldBy' = Put(heldBy, S, Nobody)
    /\ lapsed' = lapsed \ S

UnholdDb(h) ==
    /\ At(h, "unholdDb")
    /\ \A s \in Wanted(h) : ~Locked(s)
    /\ MakeAvailable({s \in Wanted(h) : status[s] = "HELD" /\ heldBy[s] = Who(h)})
    /\ Done(h)
    /\ UNCHANGED <<ledger, redis, sweep, faultCount>>

-----------------------------------------------------------------------------
(* Reservations: the RPCs and the order events, with their copy to Redis.  *)

(* ReserveHeldSeats, or AutoAssignAndReserve for the seats it picked, has  *)
(* looked the id up and not found it.                                      *)
ReserveHeldSeats(h, r, S) ==
    /\ At(h, "idle") /\ S # {}
    /\ resStatus[r] = "NONE"
    /\ Become(h, Job("reserve", r, S, FALSE))
    /\ UNCHANGED <<seats, ledger, redis, sweep, faultCount>>

ReserveGranted(h) ==
    (\A s \in Wanted(h) : Reservable(s, Buyer(h))) /\ WithinLimit(Buyer(h), Wanted(h))

AtomicReserve(h) ==
    /\ At(h, "reserve") /\ CanLock(h)
    /\ ReserveGranted(h)
    /\ Goto(h, "reserveWrite")
    /\ UNCHANGED <<seats, ledger, redis, sweep, faultCount>>

ReserveRefused(h) ==
    /\ At(h, "reserve") /\ CanLock(h)
    /\ ~ReserveGranted(h)
    /\ Done(h)
    /\ UNCHANGED <<seats, ledger, redis, sweep, faultCount>>

(* The seats, the header and the items are written in one transaction.     *)
ReserveWrite(h) ==
    /\ At(h, "reserveWrite")
    /\ resStatus[Who(h)] = "NONE"
    /\ Take(h, "RESERVED")
    /\ resStatus' = [resStatus EXCEPT ![Who(h)] = "RESERVED"]
    /\ items' = [items EXCEPT ![Who(h)] = Wanted(h)]
    /\ Goto(h, "mark")
    /\ UNCHANGED <<overdue, redis, sweep, faultCount>>

(* The id is taken: everything is rolled back, and the call succeeds.      *)
ReserveDuplicate(h) ==
    /\ At(h, "reserveWrite")
    /\ resStatus[Who(h)] # "NONE"
    /\ Done(h)
    /\ UNCHANGED <<seats, ledger, redis, sweep, faultCount>>

(* Already lapsed: the seats are left to the free-on-expiry rule.          *)
MarkReserved(h) ==
    /\ At(h, "mark")
    /\ IF Who(h) \in overdue THEN UNCHANGED redis
       ELSE /\ cell' = Put(cell, Wanted(h), "2")
            /\ marker' = Put(marker, Wanted(h), Who(h))
    /\ Done(h)
    /\ UNCHANGED <<seats, ledger, sweep, faultCount>>

(* The wrapper remembers whether it saw the reservation RESERVED.          *)
ReleaseReservation(h, r) ==
    /\ At(h, "idle")
    /\ Become(h, Job("release", r, {}, resStatus[r] = "RESERVED"))
    /\ UNCHANGED <<seats, ledger, redis, sweep, faultCount>>

(* The seats of the items, whoever has them, as long as they are RESERVED. *)
ReservedItems(r) == {s \in items[r] : status[s] = "RESERVED"}

(* Mutant: an expired reservation is released once more.                   *)
ReleaseWriteMutant(h) ==
    /\ At(h, "release")
    /\ resStatus[Who(h)] \in {"RESERVED", "EXPIRED"}
    /\ resStatus' = [resStatus EXCEPT ![Who(h)] = "RELEASED"]
    /\ MakeAvailable(ReservedItems(Who(h)))
    /\ IF job[h].knows THEN Goto(h, "free") ELSE Done(h)
    /\ UNCHANGED <<items, overdue, redis, sweep, faultCount>>

ReleaseWrite(h) ==
    /\ At(h, "release")
    /\ resStatus[Who(h)] = "RESERVED"
    /\ resStatus' = [resStatus EXCEPT ![Who(h)] = "RELEASED"]
    /\ MakeAvailable(ReservedItems(Who(h)))
    /\ IF job[h].knows THEN Goto(h, "free") ELSE Done(h)
    /\ UNCHANGED <<items, overdue, redis, sweep, faultCount>>

ReleaseNothing(h) ==
    /\ At(h, "release")
    /\ resStatus[Who(h)] # "RESERVED"
    /\ Done(h)
    /\ UNCHANGED <<seats, ledger, redis, sweep, faultCount>>

FreeInRedis(h) ==
    /\ At(h, "free")
    /\ SetSeatState(items[Who(h)], "0")
    /\ Done(h)
    /\ UNCHANGED <<seats, ledger, sweep, faultCount>>

FinalizeReservation(h, r) ==
    /\ At(h, "idle")
    /\ Become(h, Job("finalize", r, {}, FALSE))
    /\ UNCHANGED <<seats, ledger, redis, sweep, faultCount>>

FinalizeWrite(h) ==
    /\ At(h, "finalize")
    /\ resStatus[Who(h)] = "RESERVED"
    /\ resStatus' = [resStatus EXCEPT ![Who(h)] = "SOLD"]
    /\ status' = Put(status, ReservedItems(Who(h)), "SOLD")
    /\ Goto(h, "sell")
    /\ UNCHANGED <<heldBy, lapsed, items, overdue, redis, sweep, faultCount>>

(* Mutant: a reservation that is no longer RESERVED is copied as sold.     *)
FinalizeNothingMutant(h) ==
    /\ At(h, "finalize")
    /\ resStatus[Who(h)] # "RESERVED"
    /\ Goto(h, "sell")
    /\ UNCHANGED <<seats, ledger, redis, sweep, faultCount>>

FinalizeNothing(h) ==
    /\ At(h, "finalize")
    /\ resStatus[Who(h)] # "RESERVED"
    /\ Done(h)
    /\ UNCHANGED <<seats, ledger, redis, sweep, faultCount>>

SellInRedis(h) ==
    /\ At(h, "sell")
    /\ SetSeatState(items[Who(h)], "3")
    /\ Done(h)
    /\ UNCHANGED <<seats, ledger, sweep, faultCount>>

(* The last call, to Redis, fails; that is only logged.                    *)
LastCallFails(h) ==
    /\ Fault("redis")
    /\ job[h].pc \in {"rollback", "mark", "free", "sell"}
    /\ Done(h)
    /\ UNCHANGED <<seats, ledger, redis, sweep>>

-----------------------------------------------------------------------------
(* Time, sweeps and the reconciler.                                        *)

HoldLapses(s) ==
    /\ status[s] = "HELD" /\ s \notin lapsed
    /\ lapsed' = lapsed \cup {s}
    /\ UNCHANGED <<status, heldBy, ledger, redis, job, sweep, faultCount>>

ReservationLapses(r) ==
    /\ resStatus[r] = "RESERVED" /\ r \notin overdue
    /\ overdue' = overdue \cup {r}
    /\ UNCHANGED <<seats, resStatus, items, redis, job, sweep, faultCount>>

(* Redis counts the TTL on its own clock.                                  *)
MarkerExpires(s) ==
    /\ marker[s] # Nobody
    /\ marker' = [marker EXCEPT ![s] = Nobody]
    /\ UNCHANGED <<seats, ledger, cell, job, sweep, faultCount>>

SweepExpiredHolds ==
    /\ lapsed # {} /\ \A s \in lapsed : ~Locked(s)
    /\ MakeAvailable(lapsed)
    /\ UNCHANGED <<ledger, redis, job, sweep, faultCount>>

(* One batch, in the order of expiry, without the rows locked by others.   *)
SweepExpiredReservations ==
    \E R \in SUBSET {r \in overdue : resStatus[r] = "RESERVED"} :
        /\ R # {}
        /\ resStatus' = [r \in ResIds |-> IF r \in R THEN "EXPIRED" ELSE resStatus[r]]
        /\ MakeAvailable({s \in Seats : status[s] = "RESERVED"
                                     /\ \E r \in R : heldBy[s] = r /\ s \in items[r]})
        /\ UNCHANGED <<items, overdue, redis, job, sweep, faultCount>>

(* reconcilePlan: only a missing hash is seeded, without markers, from     *)
(* what was read after it was found missing.  The plan has one section, so *)
(* its seats are read by one query.                                        *)
ReconcileExists(c) ==
    /\ scan[c] = "idle"
    /\ \A s \in Seats : cell[s] = "absent"
    /\ scan' = [scan EXCEPT ![c] = "read"]
    /\ UNCHANGED <<seats, ledger, redis, job, snapshot, faultCount>>

SeatStateByte(st) ==
    CASE st = "AVAILABLE" -> "0" [] st = "HELD" -> "1" [] st = "RESERVED" -> "2" [] st = "SOLD" -> "3"

ReconcileReads(c) ==
    /\ scan[c] = "read"
    /\ scan' = [scan EXCEPT ![c] = "write"]
    /\ snapshot' = [snapshot EXCEPT ![c] = [s \in Seats |-> SeatStateByte(status[s])]]
    /\ UNCHANGED <<seats, ledger, redis, job, faultCount>>

ReconcileWrites(c) ==
    /\ scan[c] = "write"
    /\ scan' = [scan EXCEPT ![c] = "idle"]
    /\ cell' = snapshot[c]
    /\ UNCHANGED <<seats, ledger, marker, job, snapshot, faultCount>>

(* A pod dies, a call is cancelled, or a statement fails where the code    *)
(* just returns; open transactions are rolled back and their locks freed.  *)
Crash(h) ==
    /\ Fault("crash")
    /\ ~At(h, "idle")
    /\ Done(h)
    /\ UNCHANGED <<seats, ledger, redis, sweep>>

(* Redis restarts without its data.                                        *)
RedisLoss ==
    /\ Fault("redisLoss")
    /\ cell' = [s \in Seats |-> "absent"]
    /\ marker' = [s \in Seats |-> Nobody]
    /\ UNCHANGED <<seats, ledger, job, sweep>>

-----------------------------------------------------------------------------
(* A new plan: its hash is not seeded yet.                                 *)
Init ==
    /\ status = [s \in Seats |-> "AVAILABLE"]
    /\ heldBy = [s \in Seats |-> Nobody]
    /\ lapsed = {}
    /\ resStatus = [r \in ResIds |-> "NONE"]
    /\ items = [r \in ResIds |-> {}]
    /\ overdue = {}
    /\ cell = [s \in Seats |-> "absent"]
    /\ marker = [s \in Seats |-> Nobody]
    /\ job = [h \in Handlers |-> IdleJob]
    /\ scan = [c \in Reconcilers |-> "idle"]
    /\ snapshot = [c \in Reconcilers |-> [s \in Seats |-> "0"]]
    /\ faultCount = 0

(* A request or a record reaches an idle handler.                          *)
Request(h) ==
    \/ \E S \in SUBSET Seats :
          \/ \E u \in Users : HoldSeats(h, u, S) \/ ReleaseHold(h, u, S)
          \/ \E r \in ResIds : ReserveHeldSeats(h, r, S)
    \/ \E r \in ResIds : ReleaseReservation(h, r) \/ FinalizeReservation(h, r)

(* A busy handler takes its next step.                                     *)
Step(h) ==
    \/ RedisHold(h) \/ RedisConflict(h) \/ HoldDb(h) \/ HoldDbRefused(h) \/ HoldWrite(h)
    \/ Rollback(h) \/ RedisUnhold(h) \/ UnholdDb(h)
    \/ AtomicReserve(h) \/ ReserveRefused(h) \/ ReserveWrite(h) \/ ReserveDuplicate(h)
    \/ MarkReserved(h) \/ ReleaseWrite(h) \/ ReleaseNothing(h) \/ FreeInRedis(h)
    \/ FinalizeWrite(h) \/ FinalizeNothing(h) \/ SellInRedis(h)

FaultStep(h) ==
    \/ RedisHoldFails(h) \/ RedisHoldLost(h) \/ HoldDbFails(h) \/ HoldDbLost(h)
    \/ RedisUnholdFails(h) \/ LastCallFails(h) \/ Crash(h)

Reconcile(c) == ReconcileExists(c) \/ ReconcileReads(c) \/ ReconcileWrites(c)

Next ==
    \/ \E h \in Handlers : Request(h) \/ Step(h) \/ FaultStep(h)
    \/ \E c \in Reconcilers : Reconcile(c)
    \/ \E s \in Seats : HoldLapses(s) \/ MarkerExpires(s)
    \/ \E r \in ResIds : ReservationLapses(r)
    \/ SweepExpiredHolds \/ SweepExpiredReservations \/ RedisLoss

Spec == Init /\ [][Next]_vars

(* Busy handlers run, time passes, and the sweepers tick.                  *)
FairSpec ==
    /\ Spec
    /\ \A h \in Handlers : WF_vars(Step(h))
    /\ \A s \in Seats : WF_vars(MarkerExpires(s)) /\ WF_vars(HoldLapses(s))
    /\ \A r \in ResIds : WF_vars(ReservationLapses(r))
    /\ WF_vars(SweepExpiredHolds) /\ WF_vars(SweepExpiredReservations)

-----------------------------------------------------------------------------
(* Properties.                                                             *)

(* The seats rows, the ledger, the Redis keys and the jobs of the handlers *)
(* keep their types, and only held seats are waiting to be swept.          *)
TypeOK ==
    /\ status \in [Seats -> {"AVAILABLE", "HELD", "RESERVED", "SOLD"}]
    /\ heldBy \in [Seats -> Users \cup ResIds \cup {Nobody}]
    /\ lapsed \subseteq {s \in Seats : status[s] = "HELD"}
    /\ resStatus \in [ResIds -> {"NONE", "RESERVED", "RELEASED", "EXPIRED", "SOLD"}]
    /\ items \in [ResIds -> SUBSET Seats]
    /\ overdue \subseteq ResIds
    /\ cell \in [Seats -> {"absent", "0", "1", "2", "3"}]
    /\ marker \in [Seats -> Users \cup ResIds \cup {Nobody}]
    /\ job \in [Handlers -> [pc : Labels, who : Users \cup ResIds \cup {Nobody},
                             seats : SUBSET Seats, knows : BOOLEAN]]
    /\ scan \in [Reconcilers -> {"idle", "read", "write"}]
    /\ snapshot \in [Reconcilers -> [Seats -> {"0", "1", "2", "3"}]]
    /\ faultCount \in 0..MaxFaults

(* The rows and the ledger agree: a seat is held by a user, or it belongs  *)
(* to the one reservation that lists it and is in the same state.  So no   *)
(* seat is sold twice, and ReleaseReservation, which frees the seats of    *)
(* its items without asking who has them, frees nobody else's.             *)
SeatsMatchLedger ==
    \A s \in Seats :
        /\ status[s] = "AVAILABLE" => heldBy[s] = Nobody
        /\ status[s] = "HELD" => heldBy[s] \in Users
        /\ \A r \in ResIds :
              (resStatus[r] \in {"RESERVED", "SOLD"} /\ s \in items[r])
                  <=> (heldBy[s] = r /\ status[s] = resStatus[r])
        /\ status[s] \in {"RESERVED", "SOLD"} =>
              heldBy[s] \in ResIds /\ resStatus[heldBy[s]] = status[s]

(* A buyer's live holds and seats never exceed the limit, although a hold  *)
(* and a reservation of one buyer may count at the same time.              *)
BuyerCap == MaxPerUser > 0 => \A u \in Users : Cardinality(BuyerSeats(u)) <= MaxPerUser

(* Only a sold seat is marked sold in Redis, where the mark would block it *)
(* for ever: neither a late copy nor a stale seed of the reconciler does.  *)
SoldMarkIsSold == \A s \in Seats : cell[s] = "3" => status[s] = "SOLD"

(* A live hold is kept: until it lapses, the seat is only given back by    *)
(* its user or reserved for its user, whatever Redis has lost.             *)
HoldKept ==
    [][\A s \in Seats :
          (status[s] = "HELD" /\ s \notin lapsed) =>
              \/ heldBy'[s] = heldBy[s]
              \/ status'[s] = "RESERVED" /\ UserOf[heldBy'[s]] = heldBy[s]
              \/ /\ status'[s] = "AVAILABLE"
                 /\ \E h \in Handlers : At(h, "unholdDb") /\ Who(h) = heldBy[s]]_vars

(* What the seats promise, without Redis, locks and time.                  *)
Booking ==
    [r \in ResIds |->
        CASE resStatus[r] = "NONE" -> "none"
          [] resStatus[r] = "RESERVED" -> "booked"
          [] resStatus[r] = "SOLD" -> "sold"
          [] OTHER -> "returned"]

Ledger == INSTANCE SeatLedger WITH holder <- heldBy, booking <- Booking

(* The venue-service implements the ledger of seats.                       *)
LedgerSpec == Ledger!Spec

(* A seat that stays free can be held again: no copy that came late, no    *)
(* lost rollback and no sweep, which does not touch Redis, leaves it       *)
(* blocked there for ever.                                                 *)
FreeSeatOffered ==
    \A s \in Seats : <>[](status[s] = "AVAILABLE") => []<>RedisFree(s)
=============================================================================
