------------------------ MODULE SeatInventoryProofs ------------------------
(***************************************************************************)
(* Proofs about SeatInventory, for any number of handlers, reconcilers,    *)
(* seats, users, reservations and faults, and for any limit.               *)
(***************************************************************************)
EXTENDS SeatInventory, FiniteSetTheorems, TLAPS

Owners == Users \cup ResIds \cup {Nobody}
Jobs == [pc : Labels, who : Owners, seats : SUBSET Seats, knows : BOOLEAN]
UserSteps == {"hold", "holdDb", "holdWrite", "rollback", "unhold", "unholdDb"}
ResSteps == {"reserve", "reserveWrite", "mark", "release", "free", "finalize", "sell"}

(* What a busy handler works for: a user, or a reservation.                *)
JobsFit ==
    \A h \in Handlers : /\ job[h].pc \in UserSteps => Who(h) \in Users
                        /\ job[h].pc \in ResSteps => Who(h) \in ResIds

(* The row locks: the seats of a transaction are its own, and none of them *)
(* is booked.                                                              *)
LocksExclude ==
    \A g, h \in Handlers :
        g # h /\ job[g].pc \in Writing /\ job[h].pc \in Writing => Wanted(g) \cap Wanted(h) = {}
TakesUnbooked ==
    \A h \in Handlers : job[h].pc \in Writing =>
        \A s \in Wanted(h) : status[s] \in {"AVAILABLE", "HELD"}

(* The inductive invariant.                                                *)
IInv == TypeOK /\ JobsFit /\ LocksExclude /\ TakesUnbooked /\ SeatsMatchLedger

-----------------------------------------------------------------------------
(* Jobs: a step moves one handler, to one of the labels L, with its work   *)
(* or without.                                                             *)
Moves(h, L) ==
    /\ job' \in [Handlers -> Jobs]
    /\ \A g \in Handlers : g # h => job'[g] = job[g]
    /\ job'[h].pc \in L
    /\ job'[h].pc # "idle" => job'[h].who = job[h].who /\ job'[h].seats = job[h].seats

(* A request gives a handler a job of its own.                             *)
Starts(h, l, W) ==
    /\ job' \in [Handlers -> Jobs]
    /\ \A g \in Handlers : g # h => job'[g] = job[g]
    /\ job'[h].pc = l /\ job'[h].who \in W

LEMMA GotoMoves ==
    ASSUME TypeOK, NEW h \in Handlers, NEW l \in Labels, Goto(h, l)
    PROVE  Moves(h, {l})
<1>1. job[h] \in Jobs
    BY DEF TypeOK, Jobs, Owners
<1>2. Job(l, Who(h), Wanted(h), job[h].knows) \in Jobs
    BY <1>1 DEF Job, Jobs, Who, Wanted
<1>3. job' = [job EXCEPT ![h] = Job(l, Who(h), Wanted(h), job[h].knows)]
    BY DEF Goto, Become
<1> QED BY <1>2, <1>3 DEF Moves, TypeOK, Jobs, Owners, Job, Who, Wanted

LEMMA DoneMoves ==
    ASSUME TypeOK, NEW h \in Handlers, Done(h)
    PROVE  Moves(h, {"idle"})
<1>1. IdleJob \in Jobs /\ IdleJob.pc = "idle"
    BY DEF IdleJob, Job, Jobs, Labels, Owners
<1> QED BY <1>1 DEF Done, Become, Moves, TypeOK, Jobs, Owners

LEMMA RequestStarts ==
    ASSUME TypeOK, NEW h \in Handlers, NEW l \in Labels, NEW w \in Users \cup ResIds,
           NEW S \in SUBSET Seats, NEW k \in BOOLEAN, Become(h, Job(l, w, S, k))
    PROVE  Starts(h, l, {w})
<1>1. Job(l, w, S, k) \in Jobs /\ Job(l, w, S, k).pc = l /\ Job(l, w, S, k).who = w
    BY DEF Job, Jobs, Owners
<1> QED BY <1>1 DEF Become, Starts, TypeOK, Jobs, Owners

LEMMA HoldErrorMoves ==
    ASSUME TypeOK, NEW h \in Handlers, HoldError(h)
    PROVE  Moves(h, {"rollback", "idle"})
<1>1. CASE Goto(h, "rollback")
    BY <1>1, GotoMoves DEF Moves, Labels
<1>2. CASE Done(h)
    BY <1>2, DoneMoves DEF Moves
<1> QED BY <1>1, <1>2 DEF HoldError

(* The seats of S change owner, the others do not.                         *)
LEMMA PutValue ==
    ASSUME NEW f, NEW S, NEW v
    PROVE  /\ \A s \in Seats : Put(f, S, v)[s] = IF s \in S THEN v ELSE f[s]
           /\ \A T : f \in [Seats -> T] /\ v \in T => Put(f, S, v) \in [Seats -> T]
BY DEF Put

-----------------------------------------------------------------------------
(* Steps that only look, wait or talk to Redis.                            *)
Redis == cell \in [Seats -> {"absent", "0", "1", "2", "3"}] /\ marker \in [Seats -> Owners]

Follows(h) ==
    /\ job'[h].pc \in UserSteps \cup ResSteps \cup {"idle"}
    /\ job'[h].pc \in UserSteps => job[h].pc \in UserSteps
    /\ job'[h].pc \in ResSteps => job[h].pc \in ResSteps

Talks(h) ==
    \/ RedisHold(h) \/ RedisConflict(h) \/ RedisHoldFails(h) \/ RedisHoldLost(h)
    \/ HoldDbRefused(h) \/ HoldDbFails(h) \/ Rollback(h)
    \/ RedisUnhold(h) \/ RedisUnholdFails(h)
    \/ ReserveRefused(h) \/ ReserveDuplicate(h) \/ MarkReserved(h)
    \/ ReleaseNothing(h) \/ FreeInRedis(h) \/ FinalizeNothing(h) \/ SellInRedis(h)
    \/ LastCallFails(h) \/ Crash(h)

LEMMA RedisStaysTyped ==
    ASSUME TypeOK, NEW S, NEW v \in {"0", "1", "2", "3"}, NEW w \in Owners,
           cell' = Put(cell, S, v), marker' = Put(marker, S, w)
    PROVE  Redis'
BY DEF TypeOK, Put, Redis, Owners

LEMMA HoldStaysTyped ==
    ASSUME TypeOK, NEW h \in Handlers, LuaHold(h) \/ LuaRelease(h) \/ UNCHANGED redis
    PROVE  Redis'
<1>1. job[h].who \in Owners
    BY DEF TypeOK, Owners
<1>2. CASE LuaHold(h)
    BY <1>1, <1>2, RedisStaysTyped DEF LuaHold, Who
<1>3. CASE LuaRelease(h)
    BY <1>3, RedisStaysTyped DEF LuaRelease, Owners
<1>4. CASE UNCHANGED redis
    BY <1>4 DEF redis, Redis, TypeOK, Owners
<1> QED BY <1>2, <1>3, <1>4

LEMMA FaultCounted ==
    ASSUME TypeOK, NEW kind, Fault(kind) \/ UNCHANGED faultCount
    PROVE  faultCount' \in 0..MaxFaults
BY LimitAssumption DEF TypeOK, Fault

LEMMA TalkEffect ==
    ASSUME TypeOK, NEW h \in Handlers, Talks(h)
    PROVE  /\ Moves(h, Labels \ Writing) /\ Follows(h)
           /\ Redis' /\ faultCount' \in 0..MaxFaults
           /\ UNCHANGED <<seats, ledger, sweep>>
<1> USE DEF UserSteps, ResSteps
<1>1. CASE RedisHold(h) \/ RedisHoldLost(h)
  <2>1. Goto(h, "holdDb") \/ Become(h, Job("holdDb", Who(h), Wanted(h), TRUE))
    BY <1>1 DEF RedisHold, RedisHoldLost
  <2>2. job[h] \in Jobs
    BY DEF TypeOK, Jobs, Owners
  <2>3. Become(h, Job("holdDb", Who(h), Wanted(h), TRUE)) => Moves(h, {"holdDb"})
    BY <2>2 DEF Become, Job, Moves, Jobs, Who, Wanted, TypeOK, Owners, Labels
  <2>4. Moves(h, {"holdDb"})
    BY <2>1, <2>3, GotoMoves DEF Labels
  <2> QED BY <1>1, <2>4, HoldStaysTyped, FaultCounted
          DEF RedisHold, RedisHoldLost, Moves, Follows, At, Labels, Writing
<1>2. CASE RedisConflict(h) \/ ReserveRefused(h) \/ ReserveDuplicate(h)
           \/ ReleaseNothing(h) \/ FinalizeNothing(h) \/ LastCallFails(h) \/ Crash(h) \/ Rollback(h)
  <2>1. Moves(h, {"idle"})
    BY <1>2, DoneMoves DEF RedisConflict, ReserveRefused, ReserveDuplicate,
       ReleaseNothing, FinalizeNothing, LastCallFails, Crash, Rollback
  <2>2. Redis' /\ faultCount' \in 0..MaxFaults /\ UNCHANGED <<seats, ledger, sweep>>
    BY <1>2, HoldStaysTyped, FaultCounted DEF RedisConflict, ReserveRefused, ReserveDuplicate,
       ReleaseNothing, FinalizeNothing, LastCallFails, Crash, Rollback
  <2> QED BY <2>1, <2>2 DEF Moves, Follows, Labels, Writing
<1>3. CASE HoldDbRefused(h) \/ HoldDbFails(h)
  <2>1. Moves(h, {"rollback", "idle"}) /\ job[h].pc \in {"holdDb", "holdWrite"}
    BY <1>3, HoldErrorMoves DEF HoldDbRefused, HoldDbFails, At
  <2>2. Redis' /\ faultCount' \in 0..MaxFaults /\ UNCHANGED <<seats, ledger, sweep>>
    BY <1>3, HoldStaysTyped, FaultCounted DEF HoldDbRefused, HoldDbFails
  <2> QED BY <2>1, <2>2 DEF Moves, Follows, Labels, Writing
<1>4. CASE RedisHoldFails(h) \/ RedisUnhold(h) \/ RedisUnholdFails(h)
  <2>1. Moves(h, {"holdDb", "unholdDb"}) /\ job[h].pc \in {"hold", "unhold"}
    BY <1>4, GotoMoves DEF RedisHoldFails, RedisUnhold, RedisUnholdFails, At, Moves, Labels
  <2>2. Redis' /\ faultCount' \in 0..MaxFaults /\ UNCHANGED <<seats, ledger, sweep>>
    BY <1>4, HoldStaysTyped, FaultCounted DEF RedisHoldFails, RedisUnhold, RedisUnholdFails
  <2> QED BY <2>1, <2>2 DEF Moves, Follows, Labels, Writing
<1>5. CASE MarkReserved(h) \/ FreeInRedis(h) \/ SellInRedis(h)
  <2>1. Moves(h, {"idle"})
    BY <1>5, DoneMoves DEF MarkReserved, FreeInRedis, SellInRedis
  <2>2. job[h].who \in Owners
    BY DEF TypeOK, Owners
  <2>3. Redis'
    BY <1>5, <2>2, RedisStaysTyped, HoldStaysTyped
       DEF MarkReserved, FreeInRedis, SellInRedis, SetSeatState, Who, Owners
  <2> QED BY <1>5, <2>1, <2>3, FaultCounted
          DEF MarkReserved, FreeInRedis, SellInRedis, Moves, Follows, Labels, Writing
<1> QED BY <1>1, <1>2, <1>3, <1>4, <1>5 DEF Talks

-----------------------------------------------------------------------------
(* Steps that lock or write.                                               *)
SeatsTyped ==
    /\ status \in [Seats -> {"AVAILABLE", "HELD", "RESERVED", "SOLD"}]
    /\ heldBy \in [Seats -> Owners]
    /\ lapsed \subseteq {s \in Seats : status[s] = "HELD"}

LEMMA TakeTyped ==
    ASSUME TypeOK, NEW h \in Handlers, NEW st \in {"HELD", "RESERVED"}, Take(h, st)
    PROVE  SeatsTyped'
<1>1. job[h].who \in Owners
    BY DEF TypeOK, Owners
<1> QED BY <1>1 DEF TypeOK, Take, Put, Who, Wanted, SeatsTyped, Owners

LEMMA FreeTyped ==
    ASSUME TypeOK, NEW S, MakeAvailable(S)
    PROVE  SeatsTyped'
BY DEF TypeOK, MakeAvailable, Put, SeatsTyped, Owners

LockStep(h) == HoldDb(h) \/ AtomicReserve(h)
WriteStep(h) ==
    \/ HoldWrite(h) \/ HoldDbLost(h) \/ UnholdDb(h)
    \/ ReserveWrite(h) \/ ReleaseWrite(h) \/ FinalizeWrite(h)

LEMMA LockEffect ==
    ASSUME TypeOK, NEW h \in Handlers, LockStep(h)
    PROVE  /\ Moves(h, Writing) /\ Follows(h)
           /\ UNCHANGED <<seats, ledger, redis, sweep, faultCount>>
<1>1. Moves(h, {"holdWrite", "reserveWrite"}) /\ Follows(h)
  <2>1. CASE HoldDb(h)
    BY <2>1, GotoMoves DEF HoldDb, At, Moves, Follows, Labels, UserSteps, ResSteps
  <2>2. CASE AtomicReserve(h)
    BY <2>2, GotoMoves DEF AtomicReserve, At, Moves, Follows, Labels, UserSteps, ResSteps
  <2> QED BY <2>1, <2>2 DEF LockStep
<1> QED BY <1>1 DEF Writing, LockStep, HoldDb, AtomicReserve

LEMMA WriteEffect ==
    ASSUME TypeOK, JobsFit, NEW h \in Handlers, WriteStep(h)
    PROVE  /\ Moves(h, Labels \ Writing) /\ Follows(h)
           /\ SeatsTyped' /\ faultCount' \in 0..MaxFaults
           /\ resStatus' \in [ResIds -> {"NONE", "RESERVED", "RELEASED", "EXPIRED", "SOLD"}]
           /\ items' \in [ResIds -> SUBSET Seats]
           /\ UNCHANGED <<overdue, redis, sweep>>
<1> USE DEF UserSteps, ResSteps
<1>1. CASE HoldWrite(h) \/ HoldDbLost(h)
  <2>1. Moves(h, {"rollback", "idle"})
    BY <1>1, HoldErrorMoves, DoneMoves DEF HoldWrite, HoldDbLost, Moves
  <2>2. Follows(h)
    BY <1>1, <2>1 DEF HoldWrite, HoldDbLost, At, Moves, Follows
  <2> QED BY <1>1, <2>1, <2>2, TakeTyped, FaultCounted
          DEF HoldWrite, HoldDbLost, Moves, Labels, Writing, TypeOK, ledger
<1>2. CASE UnholdDb(h)
  <2>1. Moves(h, {"idle"}) /\ Follows(h)
    BY <1>2, DoneMoves DEF UnholdDb, Moves, Follows
  <2> QED BY <1>2, <2>1, FreeTyped, FaultCounted
          DEF UnholdDb, Moves, Labels, Writing, TypeOK, ledger
<1>3. CASE ReserveWrite(h)
  <2>1. Moves(h, {"mark"}) /\ Follows(h)
    BY <1>3, GotoMoves DEF ReserveWrite, Moves, Follows, At, Labels
  <2>2. job[h].seats \in SUBSET Seats
    BY DEF TypeOK
  <2> QED BY <1>3, <2>1, <2>2, TakeTyped, FaultCounted
          DEF ReserveWrite, Moves, Labels, Writing, TypeOK, Wanted
<1>4. CASE ReleaseWrite(h)
  <2>1. Moves(h, {"free", "idle"}) /\ Follows(h)
    BY <1>4, GotoMoves, DoneMoves DEF ReleaseWrite, Moves, Follows, At, Labels
  <2> QED BY <1>4, <2>1, FreeTyped, FaultCounted
          DEF ReleaseWrite, Moves, Labels, Writing, TypeOK
<1>5. CASE FinalizeWrite(h)
  <2>1. Moves(h, {"sell"}) /\ Follows(h)
    BY <1>5, GotoMoves DEF FinalizeWrite, Moves, Follows, At, Labels
  <2>2. SeatsTyped'
    BY <1>5 DEF FinalizeWrite, ReservedItems, Put, SeatsTyped, TypeOK, Owners
  <2> QED BY <1>5, <2>1, <2>2, FaultCounted
          DEF FinalizeWrite, Moves, Labels, Writing, TypeOK
<1> QED BY <1>1, <1>2, <1>3, <1>4, <1>5 DEF WriteStep

-----------------------------------------------------------------------------
(* Types.                                                                  *)
Clock == \/ \E s \in Seats : HoldLapses(s) \/ MarkerExpires(s)
         \/ \E r \in ResIds : ReservationLapses(r)
Sweeps == SweepExpiredHolds \/ SweepExpiredReservations
ReseedStep == (\E c \in Reconcilers : Reconcile(c)) \/ RedisLoss

LEMMA InitTyped == Init => TypeOK
BY SeatsAssumption, LimitAssumption DEF Init, TypeOK, IdleJob, Job, Labels

LEMMA StartEffect ==
    ASSUME TypeOK, NEW h \in Handlers, Request(h)
    PROVE  /\ \/ Starts(h, "hold", Users) \/ Starts(h, "unhold", Users)
              \/ \E l \in {"reserve", "release", "finalize"} : Starts(h, l, ResIds)
           /\ UNCHANGED <<seats, ledger, redis, sweep, faultCount>>
<1>1. ASSUME NEW S \in SUBSET Seats, NEW u \in Users, HoldSeats(h, u, S) \/ ReleaseHold(h, u, S)
      PROVE  Starts(h, "hold", Users) \/ Starts(h, "unhold", Users)
  <2>1. Starts(h, "hold", {u}) \/ Starts(h, "unhold", {u})
    BY <1>1, RequestStarts DEF HoldSeats, ReleaseHold, Labels
  <2> QED BY <2>1 DEF Starts
<1>2. ASSUME NEW S \in SUBSET Seats, NEW r \in ResIds, ReserveHeldSeats(h, r, S)
      PROVE  Starts(h, "reserve", ResIds)
  <2>1. Starts(h, "reserve", {r})
    BY <1>2, RequestStarts DEF ReserveHeldSeats, Labels
  <2> QED BY <2>1 DEF Starts
<1>3. ASSUME NEW r \in ResIds, ReleaseReservation(h, r) \/ FinalizeReservation(h, r)
      PROVE  Starts(h, "release", ResIds) \/ Starts(h, "finalize", ResIds)
  <2>1. Starts(h, "release", {r}) \/ Starts(h, "finalize", {r})
    BY <1>3, RequestStarts DEF ReleaseReservation, FinalizeReservation, Labels
  <2> QED BY <2>1 DEF Starts
<1>4. UNCHANGED <<seats, ledger, redis, sweep, faultCount>>
    BY DEF Request, HoldSeats, ReleaseHold, ReserveHeldSeats, ReleaseReservation, FinalizeReservation
<1> QED BY <1>1, <1>2, <1>3, <1>4 DEF Request

LEMMA HandlerSteps ==
    ASSUME NEW h \in Handlers, Step(h) \/ FaultStep(h)
    PROVE  Talks(h) \/ LockStep(h) \/ WriteStep(h)
BY DEF Step, FaultStep, Talks, LockStep, WriteStep

(* TypeOK, by the parts that the steps change.                             *)
Typed ==
    /\ SeatsTyped /\ Redis
    /\ resStatus \in [ResIds -> {"NONE", "RESERVED", "RELEASED", "EXPIRED", "SOLD"}]
    /\ items \in [ResIds -> SUBSET Seats]
    /\ overdue \subseteq ResIds
    /\ job \in [Handlers -> Jobs]
    /\ scan \in [Reconcilers -> {"idle", "read", "write"}]
    /\ snapshot \in [Reconcilers -> [Seats -> {"0", "1", "2", "3"}]]
    /\ faultCount \in 0..MaxFaults

LEMMA TypeParts == (TypeOK <=> Typed) /\ (Typed' <=> TypeOK')
BY DEF TypeOK, Typed, SeatsTyped, Redis, Jobs, Owners

LEMMA ReseedTyped ==
    ASSUME TypeOK, ReseedStep
    PROVE  TypeOK' /\ UNCHANGED <<seats, ledger, job>>
<1>1. ASSUME NEW c \in Reconcilers, ReconcileExists(c) \/ ReconcileWrites(c)
      PROVE  TypeOK' /\ UNCHANGED <<seats, ledger, job>>
    BY <1>1 DEF ReconcileExists, ReconcileWrites, TypeOK, seats, ledger, redis
<1>2. ASSUME NEW c \in Reconcilers, ReconcileReads(c)
      PROVE  TypeOK' /\ UNCHANGED <<seats, ledger, job>>
  <2>1. \A s \in Seats : SeatStateByte(status[s]) \in {"0", "1", "2", "3"}
    BY DEF TypeOK, SeatStateByte
  <2>2. snapshot' \in [Reconcilers -> [Seats -> {"0", "1", "2", "3"}]]
    BY <1>2, <2>1 DEF ReconcileReads, TypeOK
  <2> QED BY <1>2, <2>2 DEF ReconcileReads, TypeOK, seats, ledger, redis
<1>3. CASE RedisLoss
    BY <1>3, FaultCounted DEF RedisLoss, TypeOK, seats, ledger, sweep
<1> QED BY <1>1, <1>2, <1>3 DEF ReseedStep, Reconcile

LEMMA TimeTyped ==
    ASSUME TypeOK, Clock \/ Sweeps
    PROVE  TypeOK' /\ job' = job
<1>1. ASSUME NEW s \in Seats, HoldLapses(s) \/ MarkerExpires(s) PROVE TypeOK' /\ job' = job
    BY <1>1 DEF HoldLapses, MarkerExpires, TypeOK, seats, ledger, redis, sweep
<1>2. ASSUME NEW r \in ResIds, ReservationLapses(r) PROVE TypeOK' /\ job' = job
    BY <1>2 DEF ReservationLapses, TypeOK, seats, redis, sweep
<1>3. CASE SweepExpiredHolds
    BY <1>3, FreeTyped, TypeParts DEF Typed, SweepExpiredHolds, ledger, redis, sweep, Redis
<1>4. CASE SweepExpiredReservations
  <2>1. SeatsTyped'
    BY <1>4, FreeTyped DEF SweepExpiredReservations
  <2>2. resStatus' \in [ResIds -> {"NONE", "RESERVED", "RELEASED", "EXPIRED", "SOLD"}]
    BY <1>4 DEF SweepExpiredReservations, TypeOK
  <2> QED BY <1>4, <2>1, <2>2, TypeParts DEF Typed, SweepExpiredReservations, redis, sweep, Redis
<1> QED BY <1>1, <1>2, <1>3, <1>4 DEF Clock, Sweeps

LEMMA Steps ==
    ASSUME Next
    PROVE  \/ \E h \in Handlers : Request(h) \/ Talks(h) \/ LockStep(h) \/ WriteStep(h)
           \/ ReseedStep \/ Clock \/ Sweeps
BY HandlerSteps DEF Next, ReseedStep, Clock, Sweeps

LEMMA TypeStep == ASSUME TypeOK, JobsFit, [Next]_vars PROVE TypeOK'
<1>1. ASSUME NEW h \in Handlers, Request(h) PROVE TypeOK'
  <2>1. job' \in [Handlers -> Jobs] /\ UNCHANGED <<seats, ledger, redis, sweep, faultCount>>
    BY <1>1, StartEffect DEF Starts
  <2> QED BY <2>1, TypeParts DEF Typed, seats, ledger, redis, sweep, SeatsTyped, Redis
<1>2. ASSUME NEW h \in Handlers, Talks(h) PROVE TypeOK'
    BY <1>2, TalkEffect, TypeParts DEF Typed, Moves, seats, ledger, sweep, SeatsTyped
<1>3. ASSUME NEW h \in Handlers, LockStep(h) PROVE TypeOK'
    BY <1>3, LockEffect, TypeParts DEF Typed, Moves, seats, ledger, redis, sweep, SeatsTyped, Redis
<1>4. ASSUME NEW h \in Handlers, WriteStep(h) PROVE TypeOK'
    BY <1>4, WriteEffect, TypeParts DEF Typed, Moves, redis, sweep, Redis
<1>5. CASE UNCHANGED vars
    BY <1>5, TypeParts DEF Typed, vars, seats, ledger, redis, sweep, SeatsTyped, Redis
<1> QED BY <1>1, <1>2, <1>3, <1>4, <1>5, Steps, ReseedTyped, TimeTyped

-----------------------------------------------------------------------------
(* What the steps do to the rows and to the ledger.                        *)
Same == UNCHANGED <<status, heldBy, resStatus, items>> /\ lapsed \subseteq lapsed'

Holds(h) ==
    /\ job[h].pc = "holdWrite"
    /\ Take(h, "HELD")
    /\ UNCHANGED <<resStatus, items>>

Frees(S) ==
    /\ \A s \in S : s \in Seats /\ status[s] = "HELD"
    /\ MakeAvailable(S)
    /\ UNCHANGED <<resStatus, items>>

Books(h) ==
    /\ job[h].pc = "reserveWrite"
    /\ resStatus[Who(h)] = "NONE"
    /\ Take(h, "RESERVED")
    /\ resStatus' = [resStatus EXCEPT ![Who(h)] = "RESERVED"]
    /\ items' = [items EXCEPT ![Who(h)] = Wanted(h)]

Returns(R, st) ==
    /\ \A r \in R : r \in ResIds /\ resStatus[r] = "RESERVED"
    /\ st \in {"RELEASED", "EXPIRED"}
    /\ resStatus' = [r \in ResIds |-> IF r \in R THEN st ELSE resStatus[r]]
    /\ MakeAvailable({s \in Seats : heldBy[s] \in R})
    /\ UNCHANGED items

Sells(r) ==
    /\ r \in ResIds /\ resStatus[r] = "RESERVED"
    /\ resStatus' = [resStatus EXCEPT ![r] = "SOLD"]
    /\ status' = Put(status, {s \in Seats : heldBy[s] = r}, "SOLD")
    /\ UNCHANGED <<heldBy, lapsed, items>>

(* The seats of a RESERVED reservation are the seats it is written on.     *)
LEMMA OwnItems ==
    ASSUME TypeOK, SeatsMatchLedger, NEW r \in ResIds, resStatus[r] = "RESERVED", NEW s \in Seats
    PROVE  /\ heldBy[s] = r <=> s \in items[r]
           /\ heldBy[s] = r => status[s] = "RESERVED"
<1>1. heldBy[s] = r => status[s] \in {"RESERVED", "SOLD"}
    BY SeatsAssumption DEF TypeOK, SeatsMatchLedger
<1> QED BY <1>1 DEF SeatsMatchLedger

LEMMA WriteKinds ==
    ASSUME TypeOK, JobsFit, SeatsMatchLedger, NEW h \in Handlers, WriteStep(h)
    PROVE  \/ Holds(h) \/ Books(h)
           \/ \E S \in SUBSET Seats : Frees(S)
           \/ \E R \in SUBSET ResIds, st \in {"RELEASED", "EXPIRED"} : Returns(R, st)
           \/ \E r \in ResIds : Sells(r)
<1>1. CASE HoldWrite(h) \/ HoldDbLost(h)
    BY <1>1 DEF HoldWrite, HoldDbLost, Holds, At, ledger
<1>2. CASE ReserveWrite(h)
    BY <1>2 DEF ReserveWrite, Books, At
<1>3. CASE UnholdDb(h)
  <2> DEFINE S == {s \in Wanted(h) : status[s] = "HELD" /\ heldBy[s] = Who(h)}
  <2>1. S \in SUBSET Seats
    BY DEF TypeOK, Wanted
  <2>2. Frees(S)
    BY <1>3, <2>1 DEF UnholdDb, Frees, ledger
  <2> QED BY <2>1, <2>2
<1>4. CASE ReleaseWrite(h)
  <2>1. Who(h) \in ResIds /\ resStatus[Who(h)] = "RESERVED"
    BY <1>4 DEF ReleaseWrite, At, JobsFit, ResSteps
  <2>2. ReservedItems(Who(h)) = {s \in Seats : heldBy[s] \in {Who(h)}}
    BY <2>1, OwnItems DEF ReservedItems, TypeOK
  <2>3. Returns({Who(h)}, "RELEASED")
    BY <1>4, <2>1, <2>2 DEF ReleaseWrite, Returns, TypeOK
  <2> QED BY <2>1, <2>3
<1>5. CASE FinalizeWrite(h)
  <2>1. Who(h) \in ResIds /\ resStatus[Who(h)] = "RESERVED"
    BY <1>5 DEF FinalizeWrite, At, JobsFit, ResSteps
  <2>2. ReservedItems(Who(h)) = {s \in Seats : heldBy[s] = Who(h)}
    BY <2>1, OwnItems DEF ReservedItems, TypeOK
  <2>3. Sells(Who(h))
    BY <1>5, <2>1, <2>2 DEF FinalizeWrite, Sells
  <2> QED BY <2>1, <2>3
<1> QED BY <1>1, <1>2, <1>3, <1>4, <1>5 DEF WriteStep

LEMMA TimeKinds ==
    ASSUME TypeOK, SeatsMatchLedger, Clock \/ Sweeps
    PROVE  \/ Same
           \/ \E S \in SUBSET Seats : Frees(S)
           \/ \E R \in SUBSET ResIds, st \in {"RELEASED", "EXPIRED"} : Returns(R, st)
<1>1. CASE Clock
    BY <1>1 DEF Clock, HoldLapses, MarkerExpires, ReservationLapses, Same, seats, ledger
<1>2. CASE SweepExpiredHolds
  <2>1. lapsed \in SUBSET Seats /\ Frees(lapsed)
    BY <1>2 DEF SweepExpiredHolds, Frees, TypeOK, ledger
  <2> QED BY <2>1
<1>3. CASE SweepExpiredReservations
  <2>1. PICK R \in SUBSET {r \in overdue : resStatus[r] = "RESERVED"} :
           /\ resStatus' = [r \in ResIds |-> IF r \in R THEN "EXPIRED" ELSE resStatus[r]]
           /\ MakeAvailable({s \in Seats : status[s] = "RESERVED"
                                         /\ \E r \in R : heldBy[s] = r /\ s \in items[r]})
           /\ items' = items
    BY <1>3 DEF SweepExpiredReservations
  <2>2. \A r \in R : r \in ResIds /\ resStatus[r] = "RESERVED"
    BY DEF TypeOK
  <2>3. {s \in Seats : status[s] = "RESERVED" /\ \E r \in R : heldBy[s] = r /\ s \in items[r]}
           = {s \in Seats : heldBy[s] \in R}
    BY <2>2, OwnItems
  <2>4. Returns(R, "EXPIRED")
    BY <2>1, <2>2, <2>3 DEF Returns
  <2> QED BY <2>2, <2>4
<1> QED BY <1>1, <1>2, <1>3 DEF Sweeps

LEMMA Kinds ==
    ASSUME TypeOK, JobsFit, SeatsMatchLedger, [Next]_vars
    PROVE  \/ Same
           \/ \E h \in Handlers : Holds(h) \/ Books(h)
           \/ \E S \in SUBSET Seats : Frees(S)
           \/ \E R \in SUBSET ResIds, st \in {"RELEASED", "EXPIRED"} : Returns(R, st)
           \/ \E r \in ResIds : Sells(r)
<1>1. ASSUME NEW h \in Handlers, Request(h) \/ Talks(h) \/ LockStep(h) PROVE Same
    BY <1>1, StartEffect, TalkEffect, LockEffect DEF Same, seats, ledger
<1>2. CASE ReseedStep
    BY <1>2, ReseedTyped DEF Same, seats, ledger
<1>3. CASE UNCHANGED vars
    BY <1>3 DEF vars, seats, ledger, Same
<1> QED BY <1>1, <1>2, <1>3, WriteKinds, TimeKinds, Steps

-----------------------------------------------------------------------------
(* The rows and the ledger stay together.                                  *)
LEMMA HoldsKeep ==
    ASSUME IInv, NEW h \in Handlers, Holds(h)
    PROVE  SeatsMatchLedger'
<1>1. Who(h) \in Users /\ \A s \in Wanted(h) : status[s] \in {"AVAILABLE", "HELD"}
    BY DEF IInv, JobsFit, TakesUnbooked, Holds, UserSteps, Writing
<1>2. \A s \in Seats : /\ status'[s] = IF s \in Wanted(h) THEN "HELD" ELSE status[s]
                       /\ heldBy'[s] = IF s \in Wanted(h) THEN Who(h) ELSE heldBy[s]
    BY DEF Holds, Take, Put
<1>3. \A s \in Seats, r \in ResIds :
         s \in Wanted(h) => ~(resStatus[r] \in {"RESERVED", "SOLD"} /\ s \in items[r])
    BY <1>1 DEF IInv, SeatsMatchLedger
<1> QED BY <1>1, <1>2, <1>3, SeatsAssumption DEF IInv, SeatsMatchLedger, Holds

LEMMA FreesKeep ==
    ASSUME IInv, NEW S, Frees(S)
    PROVE  SeatsMatchLedger'
<1>1. \A s \in Seats : /\ status'[s] = IF s \in S THEN "AVAILABLE" ELSE status[s]
                       /\ heldBy'[s] = IF s \in S THEN Nobody ELSE heldBy[s]
    BY DEF Frees, MakeAvailable, Put
<1>2. \A s \in S, r \in ResIds : ~(resStatus[r] \in {"RESERVED", "SOLD"} /\ s \in items[r])
    BY DEF IInv, SeatsMatchLedger, Frees
<1> QED BY <1>1, <1>2, SeatsAssumption DEF IInv, SeatsMatchLedger, Frees

LEMMA BooksKeep ==
    ASSUME IInv, NEW h \in Handlers, Books(h)
    PROVE  SeatsMatchLedger'
<1>1. Who(h) \in ResIds /\ \A s \in Wanted(h) : status[s] \in {"AVAILABLE", "HELD"}
    BY DEF IInv, JobsFit, TakesUnbooked, Books, ResSteps, Writing
<1>2. \A s \in Seats : /\ status'[s] = IF s \in Wanted(h) THEN "RESERVED" ELSE status[s]
                       /\ heldBy'[s] = IF s \in Wanted(h) THEN Who(h) ELSE heldBy[s]
    BY DEF Books, Take, Put
<1>3. \A r \in ResIds : /\ resStatus'[r] = IF r = Who(h) THEN "RESERVED" ELSE resStatus[r]
                        /\ items'[r] = IF r = Who(h) THEN Wanted(h) ELSE items[r]
    BY <1>1 DEF Books, IInv, TypeOK
<1>4. \A s \in Wanted(h), r \in ResIds :
         s \in Seats => ~(resStatus[r] \in {"RESERVED", "SOLD"} /\ s \in items[r])
    BY <1>1 DEF IInv, SeatsMatchLedger
<1>5. \A s \in Seats : heldBy[s] = Who(h) => FALSE
  <2> SUFFICES ASSUME NEW s \in Seats, heldBy[s] = Who(h) PROVE FALSE
    OBVIOUS
  <2>1. status[s] \in {"RESERVED", "SOLD"}
    BY <1>1, SeatsAssumption DEF IInv, TypeOK, SeatsMatchLedger
  <2> QED BY <2>1 DEF IInv, SeatsMatchLedger, Books
<1> SUFFICES ASSUME NEW s \in Seats
             PROVE  /\ status'[s] = "AVAILABLE" => heldBy'[s] = Nobody
                    /\ status'[s] = "HELD" => heldBy'[s] \in Users
                    /\ \A r \in ResIds :
                          (resStatus'[r] \in {"RESERVED", "SOLD"} /\ s \in items'[r])
                              <=> (heldBy'[s] = r /\ status'[s] = resStatus'[r])
                    /\ status'[s] \in {"RESERVED", "SOLD"} =>
                          heldBy'[s] \in ResIds /\ resStatus'[heldBy'[s]] = status'[s]
    BY DEF SeatsMatchLedger
<1>6. CASE s \in Wanted(h)
    BY <1>1, <1>2, <1>3, <1>4, <1>6
<1>7. CASE s \notin Wanted(h)
    BY <1>1, <1>2, <1>3, <1>5, <1>7 DEF IInv, SeatsMatchLedger
<1> QED BY <1>6, <1>7

LEMMA ReturnsKeep ==
    ASSUME IInv, NEW R \in SUBSET ResIds, NEW st \in {"RELEASED", "EXPIRED"}, Returns(R, st)
    PROVE  SeatsMatchLedger'
<1>1. \A s \in Seats : /\ status'[s] = IF heldBy[s] \in R THEN "AVAILABLE" ELSE status[s]
                       /\ heldBy'[s] = IF heldBy[s] \in R THEN Nobody ELSE heldBy[s]
    BY DEF Returns, MakeAvailable, Put
<1>2. \A r \in ResIds : resStatus'[r] = IF r \in R THEN st ELSE resStatus[r]
    BY DEF Returns
<1>3. Nobody \notin ResIds /\ Nobody \notin Users /\ st \notin {"RESERVED", "SOLD"} /\ items' = items
    BY SeatsAssumption DEF Returns
<1> SUFFICES ASSUME NEW s \in Seats
             PROVE  /\ status'[s] = "AVAILABLE" => heldBy'[s] = Nobody
                    /\ status'[s] = "HELD" => heldBy'[s] \in Users
                    /\ \A r \in ResIds :
                          (resStatus'[r] \in {"RESERVED", "SOLD"} /\ s \in items'[r])
                              <=> (heldBy'[s] = r /\ status'[s] = resStatus'[r])
                    /\ status'[s] \in {"RESERVED", "SOLD"} =>
                          heldBy'[s] \in ResIds /\ resStatus'[heldBy'[s]] = status'[s]
    BY DEF SeatsMatchLedger
<1>4. CASE heldBy[s] \in R
  <2>1. \A r \in ResIds : r # heldBy[s] => ~(resStatus[r] \in {"RESERVED", "SOLD"} /\ s \in items[r])
    BY DEF IInv, SeatsMatchLedger
  <2> QED BY <1>1, <1>2, <1>3, <1>4, <2>1
<1>5. CASE heldBy[s] \notin R
  <2>1. \A r \in R : resStatus[r] = "RESERVED" /\ s \notin items[r]
    BY <1>5 DEF IInv, SeatsMatchLedger, Returns
  <2>2. status[s] \in {"AVAILABLE", "HELD", "RESERVED", "SOLD"}
    BY DEF IInv, TypeOK
  <2> QED BY <1>1, <1>2, <1>3, <1>5, <2>1, <2>2 DEF IInv, SeatsMatchLedger
<1> QED BY <1>4, <1>5

LEMMA SellsKeep ==
    ASSUME IInv, NEW r \in ResIds, Sells(r)
    PROVE  SeatsMatchLedger'
<1>1. \A s \in Seats : status'[s] = IF heldBy[s] = r THEN "SOLD" ELSE status[s]
    BY DEF Sells, Put
<1>2. \A x \in ResIds : resStatus'[x] = IF x = r THEN "SOLD" ELSE resStatus[x]
    BY DEF Sells, IInv, TypeOK
<1>3. \A s \in Seats : (heldBy[s] = r <=> s \in items[r]) /\ (heldBy[s] = r => status[s] = "RESERVED")
    BY OwnItems DEF Sells, IInv
<1> SUFFICES ASSUME NEW s \in Seats
             PROVE  /\ status'[s] = "AVAILABLE" => heldBy'[s] = Nobody
                    /\ status'[s] = "HELD" => heldBy'[s] \in Users
                    /\ \A x \in ResIds :
                          (resStatus'[x] \in {"RESERVED", "SOLD"} /\ s \in items'[x])
                              <=> (heldBy'[s] = x /\ status'[s] = resStatus'[x])
                    /\ status'[s] \in {"RESERVED", "SOLD"} =>
                          heldBy'[s] \in ResIds /\ resStatus'[heldBy'[s]] = status'[s]
    BY DEF SeatsMatchLedger
<1>4. CASE heldBy[s] = r
    BY <1>1, <1>2, <1>3, <1>4 DEF IInv, SeatsMatchLedger, Sells
<1>5. CASE heldBy[s] # r
    BY <1>1, <1>2, <1>3, <1>5 DEF IInv, SeatsMatchLedger, Sells
<1> QED BY <1>4, <1>5

LEMMA LedgerKept == ASSUME IInv, [Next]_vars PROVE SeatsMatchLedger'
<1>1. CASE Same
    BY <1>1 DEF IInv, Same, SeatsMatchLedger
<1> QED BY <1>1, Kinds, HoldsKeep, BooksKeep, FreesKeep, ReturnsKeep, SellsKeep DEF IInv

-----------------------------------------------------------------------------
(* The jobs fit and the locks hold.                                        *)
LEMMA JobsStep == ASSUME TypeOK, JobsFit, [Next]_vars PROVE JobsFit'
<1> USE DEF UserSteps, ResSteps
<1>1. ASSUME NEW h \in Handlers, Request(h) PROVE JobsFit'
    BY <1>1, StartEffect DEF Starts, JobsFit, Who
<1>2. ASSUME NEW h \in Handlers, Talks(h) \/ LockStep(h) \/ WriteStep(h) PROVE JobsFit'
  <2>1. Follows(h) /\ \E L : Moves(h, L)
    BY <1>2, TalkEffect, LockEffect, WriteEffect
  <2> QED BY <2>1 DEF Moves, Follows, JobsFit, Who
<1>3. CASE ReseedStep \/ Clock \/ Sweeps \/ UNCHANGED vars
  <2>1. job' = job
    BY <1>3, ReseedTyped, TimeTyped DEF vars
  <2> QED BY <2>1 DEF JobsFit, Who
<1> QED BY <1>1, <1>2, <1>3, Steps

(* Only a transaction that takes seats makes a free one booked.            *)
LEMMA FreeStaysFree ==
    ASSUME TypeOK, SeatsMatchLedger, NEW s \in Seats, status[s] \in {"AVAILABLE", "HELD"},
           \/ Same
           \/ \E S \in SUBSET Seats : Frees(S)
           \/ \E R \in SUBSET ResIds, st \in {"RELEASED", "EXPIRED"} : Returns(R, st)
           \/ \E r \in ResIds : Sells(r)
    PROVE  status'[s] \in {"AVAILABLE", "HELD"}
<1>1. CASE Same
    BY <1>1 DEF Same
<1>2. ASSUME NEW S, Frees(S) PROVE status'[s] \in {"AVAILABLE", "HELD"}
    BY <1>2 DEF Frees, MakeAvailable, Put
<1>3. ASSUME NEW R, NEW st, Returns(R, st) PROVE status'[s] \in {"AVAILABLE", "HELD"}
    BY <1>3 DEF Returns, MakeAvailable, Put
<1>4. ASSUME NEW r \in ResIds, Sells(r) PROVE status'[s] \in {"AVAILABLE", "HELD"}
  <2>1. heldBy[s] # r
    BY <1>4, OwnItems DEF Sells
  <2> QED BY <1>4, <2>1 DEF Sells, Put
<1> QED BY <1>1, <1>2, <1>3, <1>4

(* A transaction that takes seats leaves those of the others alone.        *)
LEMMA TakesOwn ==
    ASSUME IInv, NEW h \in Handlers, Holds(h) \/ Books(h),
           NEW g \in Handlers, g # h, job[g].pc \in Writing, NEW s \in Wanted(g)
    PROVE  status'[s] \in {"AVAILABLE", "HELD"}
<1>1. s \in Seats /\ status[s] \in {"AVAILABLE", "HELD"}
    BY DEF IInv, TakesUnbooked, TypeOK, Wanted
<1>2. s \notin Wanted(h)
    BY DEF IInv, LocksExclude, Holds, Books, Writing
<1> QED BY <1>1, <1>2 DEF Holds, Books, Take, Put

(* The seats of the writers that were there before stay unbooked.          *)
LEMMA WritersKeep ==
    ASSUME IInv, [Next]_vars, NEW g \in Handlers, job[g].pc \in Writing, job'[g] = job[g],
           NEW s \in Wanted(g)
    PROVE  status'[s] \in {"AVAILABLE", "HELD"}
<1>1. s \in Seats /\ status[s] \in {"AVAILABLE", "HELD"}
    BY DEF IInv, TakesUnbooked, TypeOK, Wanted
<1>2. ASSUME NEW h \in Handlers, Request(h) \/ Talks(h) \/ LockStep(h)
      PROVE  status'[s] \in {"AVAILABLE", "HELD"}
    BY <1>1, <1>2, StartEffect, TalkEffect, LockEffect DEF seats, IInv
<1>3. ASSUME NEW h \in Handlers, WriteStep(h) PROVE status'[s] \in {"AVAILABLE", "HELD"}
  <2>1. g # h
    BY <1>3, WriteEffect DEF Moves, IInv
  <2> QED BY <1>1, <1>3, <2>1, WriteKinds, TakesOwn, FreeStaysFree DEF IInv
<1>4. CASE ReseedStep \/ UNCHANGED vars
    BY <1>1, <1>4, ReseedTyped DEF vars, seats, IInv
<1>5. CASE Clock \/ Sweeps
    BY <1>1, <1>5, TimeKinds, FreeStaysFree DEF IInv
<1> QED BY <1>2, <1>3, <1>4, <1>5, Steps

(* A lock is granted on seats that nobody else has and nobody has booked.  *)
LEMMA LockGranted ==
    ASSUME IInv, NEW h \in Handlers, LockStep(h)
    PROVE  /\ \A g \in Handlers : job[g].pc \in Writing => Wanted(g) \cap Wanted(h) = {}
           /\ \A s \in Wanted(h) : status[s] \in {"AVAILABLE", "HELD"}
<1>1. \A s \in Wanted(h) : ~Locked(s) /\ status[s] \in {"AVAILABLE", "HELD"}
    BY DEF LockStep, HoldDb, AtomicReserve, CanLock, HoldGranted, ReserveGranted, Reservable, Takable
<1> QED BY <1>1 DEF Locked

LEMMA LocksStep == ASSUME IInv, [Next]_vars PROVE LocksExclude' /\ TakesUnbooked'
<1>1. ASSUME NEW h \in Handlers, LockStep(h) PROVE LocksExclude' /\ TakesUnbooked'
  <2>1. Moves(h, Writing) /\ status' = status
    BY <1>1, LockEffect DEF IInv, seats
  <2>2. job'[h].seats = job[h].seats /\ \A g \in Handlers : g # h => job'[g] = job[g]
    BY <2>1 DEF Moves, Writing
  <2>3. LocksExclude'
    BY <1>1, <2>1, <2>2, LockGranted DEF LocksExclude, IInv, Wanted
  <2>4. TakesUnbooked'
    BY <1>1, <2>1, <2>2, LockGranted DEF TakesUnbooked, IInv, Wanted
  <2> QED BY <2>3, <2>4
<1>2. ASSUME \A g \in Handlers : job'[g].pc \in Writing => job'[g] = job[g]
      PROVE  LocksExclude' /\ TakesUnbooked'
    BY <1>2, WritersKeep DEF LocksExclude, TakesUnbooked, IInv, Wanted
<1>3. ASSUME NEW h \in Handlers, Request(h) \/ Talks(h) \/ WriteStep(h)
      PROVE  \A g \in Handlers : job'[g].pc \in Writing => job'[g] = job[g]
    BY <1>3, StartEffect, TalkEffect, WriteEffect DEF Starts, Moves, IInv, Writing
<1>4. CASE ReseedStep \/ Clock \/ Sweeps \/ UNCHANGED vars
    BY <1>4, <1>2, ReseedTyped, TimeTyped DEF vars, IInv
<1> QED BY <1>1, <1>2, <1>3, <1>4, Steps

-----------------------------------------------------------------------------
LEMMA InitHolds == Init => IInv
<1> SUFFICES ASSUME Init PROVE IInv
    OBVIOUS
<1>1. TypeOK
    BY InitTyped
<1>2. \A h \in Handlers : job[h].pc = "idle"
    BY DEF Init, IdleJob, Job
<1>3. SeatsMatchLedger
    BY SeatsAssumption DEF Init, SeatsMatchLedger
<1> QED BY <1>1, <1>2, <1>3
        DEF IInv, JobsFit, LocksExclude, TakesUnbooked, UserSteps, ResSteps, Writing

LEMMA StepHolds == IInv /\ [Next]_vars => IInv'
BY TypeStep, JobsStep, LocksStep, LedgerKept DEF IInv

(* The invariant holds of every behaviour.                                 *)
LEMMA Invariant == Spec => []IInv
BY InitHolds, StepHolds, PTL DEF Spec

(* The rows, the ledger, Redis and the jobs keep their types.              *)
THEOREM TypeCorrect == Spec => []TypeOK
BY Invariant, PTL DEF IInv

(* A seat belongs to a user, or to the one reservation that lists it and   *)
(* is in the same state: no seat is given to two.                          *)
THEOREM NoSeatTwice == Spec => []SeatsMatchLedger
BY Invariant, PTL DEF IInv

-----------------------------------------------------------------------------
(* The limit of a buyer.                                                   *)
BuyersExclude ==
    MaxPerUser > 0 =>
        \A g, h \in Handlers :
            g # h /\ job[g].pc \in Writing /\ job[h].pc \in Writing => Buyer(g) # Buyer(h)

(* A granted transaction still fits, whatever happens before it writes.    *)
RoomLeft ==
    MaxPerUser > 0 =>
        \A h \in Handlers : job[h].pc \in Writing =>
            Cardinality(BuyerSeats(Buyer(h)) \cup Wanted(h)) <= MaxPerUser

CapIInv == IInv /\ BuyerCap /\ BuyersExclude /\ RoomLeft

LEMMA BuyerSeatsFinite ==
    ASSUME TypeOK, NEW u \in Users
    PROVE  BuyerSeats(u) \subseteq Seats /\ IsFiniteSet(BuyerSeats(u))
<1>1. BuyerSeats(u) \subseteq Seats
    BY DEF TypeOK, BuyerSeats
<1> QED BY <1>1, FS_Subset, SeatsAssumption

LEMMA Fewer ==
    ASSUME NEW S, NEW T, S \subseteq T, T \subseteq Seats, Cardinality(T) <= MaxPerUser
    PROVE  Cardinality(S) <= MaxPerUser
<1>1. IsFiniteSet(S) /\ IsFiniteSet(T)
    BY FS_Subset, SeatsAssumption
<1>2. Cardinality(S) <= Cardinality(T) /\ Cardinality(S) \in Nat /\ Cardinality(T) \in Nat
    BY <1>1, FS_Subset, FS_CardinalityType
<1> QED BY <1>2, LimitAssumption

LEMMA BuyerIsUser ==
    ASSUME TypeOK, JobsFit, NEW h \in Handlers, job[h].pc \in Writing
    PROVE  Buyer(h) \in Users /\ Wanted(h) \subseteq Seats
BY SeatsAssumption DEF TypeOK, JobsFit, Buyer, Wanted, Writing, UserSteps, ResSteps

(* A step other than a transaction that takes seats gives no buyer a seat. *)
LEMMA NobodyGains ==
    ASSUME TypeOK, NEW u \in Users,
           \/ Same
           \/ \E S \in SUBSET Seats : Frees(S)
           \/ \E R \in SUBSET ResIds, st \in {"RELEASED", "EXPIRED"} : Returns(R, st)
           \/ \E r \in ResIds : Sells(r)
    PROVE  BuyerSeats(u)' \subseteq BuyerSeats(u)
<1>1. CASE Same
    BY <1>1 DEF Same, BuyerSeats
<1>2. ASSUME NEW S, Frees(S) PROVE BuyerSeats(u)' \subseteq BuyerSeats(u)
    BY <1>2 DEF Frees, MakeAvailable, Put, BuyerSeats
<1>3. ASSUME NEW R, NEW st \in {"RELEASED", "EXPIRED"}, Returns(R, st)
      PROVE  BuyerSeats(u)' \subseteq BuyerSeats(u)
    BY <1>3 DEF Returns, MakeAvailable, Put, BuyerSeats
<1>4. ASSUME NEW r \in ResIds, Sells(r) PROVE BuyerSeats(u)' \subseteq BuyerSeats(u)
    BY <1>4 DEF Sells, Put, BuyerSeats, TypeOK
<1> QED BY <1>1, <1>2, <1>3, <1>4

(* A transaction gives its buyer the seats it wants, and nobody else any.  *)
LEMMA TakerGains ==
    ASSUME TypeOK, JobsFit, NEW h \in Handlers, Holds(h) \/ Books(h), NEW u \in Users
    PROVE  BuyerSeats(u)' \subseteq BuyerSeats(u) \cup (IF u = Buyer(h) THEN Wanted(h) ELSE {})
<1>1. CASE Holds(h)
  <2>1. Who(h) \in Users /\ Buyer(h) = Who(h)
    BY <1>1, SeatsAssumption DEF Holds, JobsFit, UserSteps, Buyer
  <2> QED BY <1>1, <2>1 DEF Holds, Take, Put, BuyerSeats
<1>2. CASE Books(h)
  <2>1. PICK r \in ResIds : r = Who(h) /\ Buyer(h) = UserOf[r]
    BY <1>2 DEF Books, JobsFit, ResSteps, Buyer
  <2>2. \A x \in ResIds : x # r => resStatus'[x] = resStatus[x] /\ items'[x] = items[x]
    BY <1>2, <2>1 DEF Books, TypeOK
  <2>3. items'[r] = Wanted(h)
    BY <1>2, <2>1 DEF Books, TypeOK
  <2> QED BY <1>2, <2>1, <2>2, <2>3 DEF Books, Take, Put, BuyerSeats
<1> QED BY <1>1, <1>2

(* A granted transaction has its buyer to itself, and fits.                *)
LEMMA RoomGranted ==
    ASSUME JobsFit, NEW h \in Handlers, LockStep(h), MaxPerUser > 0
    PROVE  /\ \A g \in Handlers : job[g].pc \in Writing => Buyer(g) # Buyer(h)
           /\ Cardinality(BuyerSeats(Buyer(h)) \cup Wanted(h)) <= MaxPerUser
<1>1. ~BuyerLocked(Buyer(h)) /\ WithinLimit(Buyer(h), Wanted(h))
  <2>1. CASE HoldDb(h)
    <3>1. Buyer(h) = Who(h)
      BY <2>1, SeatsAssumption DEF HoldDb, At, Buyer, JobsFit, UserSteps
    <3> QED BY <2>1, <3>1 DEF HoldDb, CanLock, HoldGranted
  <2>2. CASE AtomicReserve(h)
    BY <2>2 DEF AtomicReserve, CanLock, ReserveGranted
  <2> QED BY <2>1, <2>2 DEF LockStep
<1> QED BY <1>1, LimitAssumption DEF BuyerLocked, WithinLimit

(* The buyers keep within the limit when nobody new has a lock.            *)
LEMMA CapKept ==
    ASSUME CapIInv, MaxPerUser > 0,
           \A g \in Handlers : job'[g].pc \in Writing => job'[g] = job[g],
           \A u \in Users : \/ BuyerSeats(u)' \subseteq BuyerSeats(u)
                           \/ \E h \in Handlers :
                                 /\ job[h].pc \in Writing /\ job'[h].pc \notin Writing
                                 /\ u = Buyer(h)
                                 /\ BuyerSeats(u)' \subseteq BuyerSeats(u) \cup Wanted(h)
    PROVE  BuyerCap' /\ BuyersExclude' /\ RoomLeft'
<1>1. BuyersExclude'
    BY DEF CapIInv, BuyersExclude, Buyer, Who
<1>2. BuyerCap'
  <2> SUFFICES ASSUME NEW u \in Users PROVE Cardinality(BuyerSeats(u)') <= MaxPerUser
    BY DEF BuyerCap
  <2>1. CASE BuyerSeats(u)' \subseteq BuyerSeats(u)
    <3>1. Cardinality(BuyerSeats(u)) <= MaxPerUser /\ BuyerSeats(u) \subseteq Seats
      BY BuyerSeatsFinite DEF CapIInv, BuyerCap, IInv
    <3> QED BY <2>1, <3>1, Fewer
  <2>2. ASSUME NEW h \in Handlers, job[h].pc \in Writing, u = Buyer(h),
               BuyerSeats(u)' \subseteq BuyerSeats(u) \cup Wanted(h)
        PROVE  Cardinality(BuyerSeats(u)') <= MaxPerUser
    <3>1. /\ Cardinality(BuyerSeats(u) \cup Wanted(h)) <= MaxPerUser
          /\ BuyerSeats(u) \cup Wanted(h) \subseteq Seats
      BY <2>2, BuyerSeatsFinite, BuyerIsUser DEF CapIInv, RoomLeft, IInv
    <3> QED BY <2>2, <3>1, Fewer
  <2> QED BY <2>1, <2>2
<1>3. RoomLeft'
  <2> SUFFICES ASSUME NEW g \in Handlers, job'[g].pc \in Writing
               PROVE  Cardinality(BuyerSeats(Buyer(g)) \cup Wanted(g))' <= MaxPerUser
    BY DEF RoomLeft
  <2>1. job'[g] = job[g] /\ job[g].pc \in Writing
    OBVIOUS
  <2>2. PICK u \in Users : u = Buyer(g)
    BY <2>1, BuyerIsUser DEF CapIInv, IInv
  <2>3. u = Buyer(g)' /\ Wanted(g)' = Wanted(g)
    BY <2>1, <2>2 DEF Buyer, Who, Wanted
  <2>4. BuyerSeats(u)' \subseteq BuyerSeats(u)
    BY <2>1, <2>2 DEF CapIInv, BuyersExclude
  <2>5. /\ Cardinality(BuyerSeats(u) \cup Wanted(g)) <= MaxPerUser
        /\ BuyerSeats(u) \cup Wanted(g) \subseteq Seats
    BY <2>1, <2>2, BuyerSeatsFinite, BuyerIsUser DEF CapIInv, RoomLeft, IInv
  <2>6. Cardinality(BuyerSeats(u)' \cup Wanted(g)) <= MaxPerUser
    BY <2>4, <2>5, Fewer
  <2> QED BY <2>3, <2>6
<1> QED BY <1>1, <1>2, <1>3

LEMMA CapStep == ASSUME CapIInv, [Next]_vars PROVE BuyerCap' /\ BuyersExclude' /\ RoomLeft'
<1> SUFFICES ASSUME MaxPerUser > 0 PROVE BuyerCap' /\ BuyersExclude' /\ RoomLeft'
    BY DEF BuyerCap, BuyersExclude, RoomLeft
<1> USE DEF CapIInv
<1>1. ASSUME NEW h \in Handlers, LockStep(h) PROVE BuyerCap' /\ BuyersExclude' /\ RoomLeft'
  <2>1. Moves(h, Writing) /\ UNCHANGED <<seats, ledger>>
    BY <1>1, LockEffect DEF IInv
  <2>2. \A u : BuyerSeats(u)' = BuyerSeats(u)
    BY <2>1 DEF BuyerSeats, seats, ledger
  <2>3. \A g \in Handlers : Buyer(g)' = Buyer(g) /\ Wanted(g)' = Wanted(g)
    BY <2>1 DEF Moves, Buyer, Who, Wanted, Writing
  <2>4. \A g \in Handlers : g # h => job'[g] = job[g]
    BY <2>1 DEF Moves
  <2>5. BuyerCap'
    BY <2>2 DEF BuyerCap
  <2>6. BuyersExclude'
    BY <1>1, <2>3, <2>4, RoomGranted DEF BuyersExclude, IInv
  <2>7. RoomLeft'
    <3> SUFFICES ASSUME NEW g \in Handlers, job'[g].pc \in Writing
                 PROVE  Cardinality(BuyerSeats(Buyer(g)) \cup Wanted(g))' <= MaxPerUser
      BY DEF RoomLeft
    <3>1. Cardinality(BuyerSeats(Buyer(g)) \cup Wanted(g)) <= MaxPerUser
      BY <1>1, <2>4, RoomGranted DEF RoomLeft, IInv
    <3>2. BuyerSeats(Buyer(g))' = BuyerSeats(Buyer(g))
      BY <2>1, <2>3 DEF BuyerSeats, seats, ledger
    <3> QED BY <2>3, <3>1, <3>2
  <2> QED BY <2>5, <2>6, <2>7
<1>2. ASSUME NEW h \in Handlers, WriteStep(h) PROVE BuyerCap' /\ BuyersExclude' /\ RoomLeft'
  <2>1. job'[h].pc \notin Writing /\ \A g \in Handlers : g # h => job'[g] = job[g]
    BY <1>2, WriteEffect DEF IInv, Moves
  <2>2. ASSUME NEW u \in Users
        PROVE  \/ BuyerSeats(u)' \subseteq BuyerSeats(u)
               \/ /\ job[h].pc \in Writing /\ u = Buyer(h)
                  /\ BuyerSeats(u)' \subseteq BuyerSeats(u) \cup Wanted(h)
    <3>1. CASE Holds(h) \/ Books(h)
      BY <3>1, TakerGains DEF IInv, Holds, Books, Writing
    <3>2. CASE ~(Holds(h) \/ Books(h))
      BY <1>2, <3>2, WriteKinds, NobodyGains DEF IInv
    <3> QED BY <3>1, <3>2
  <2> QED BY <2>1, <2>2, CapKept
<1>3. ASSUME NEW h \in Handlers, Request(h) \/ Talks(h) PROVE BuyerCap' /\ BuyersExclude' /\ RoomLeft'
  <2>1. Same /\ \A g \in Handlers : job'[g].pc \in Writing => job'[g] = job[g]
    BY <1>3, StartEffect, TalkEffect DEF Starts, Moves, IInv, Writing, Same, seats, ledger
  <2> QED BY <2>1, NobodyGains, CapKept DEF IInv
<1>4. CASE ReseedStep \/ Clock \/ Sweeps \/ UNCHANGED vars
  <2>1. job' = job
    BY <1>4, ReseedTyped, TimeTyped DEF vars, IInv
  <2>2. ReseedStep \/ UNCHANGED vars => Same
    BY ReseedTyped DEF Same, vars, seats, ledger, IInv
  <2>3. \A u \in Users : BuyerSeats(u)' \subseteq BuyerSeats(u)
    BY <1>4, <2>2, TimeKinds, NobodyGains DEF IInv
  <2> QED BY <2>1, <2>3, CapKept
<1> QED BY <1>1, <1>2, <1>3, <1>4, Steps

(* No interleaving of the holds and reservations of a buyer takes more     *)
(* seats than the limit, for any limit.                                    *)
THEOREM NobodyOverLimit == Spec => []BuyerCap
<1>1. Init => CapIInv
  <2> SUFFICES ASSUME Init PROVE CapIInv
    OBVIOUS
  <2>1. IInv /\ \A h \in Handlers : job[h].pc = "idle"
    BY InitHolds DEF Init, IdleJob, Job
  <2>2. \A u \in Users : BuyerSeats(u) = {}
    BY DEF Init, BuyerSeats
  <2>3. Cardinality({}) = 0
    BY FS_EmptySet
  <2>4. BuyerCap
    BY <2>2, <2>3, LimitAssumption DEF BuyerCap
  <2>5. BuyersExclude /\ RoomLeft
    BY <2>1 DEF BuyersExclude, RoomLeft, Writing
  <2> QED BY <2>1, <2>4, <2>5 DEF CapIInv
<1>2. CapIInv /\ [Next]_vars => CapIInv'
    BY CapStep, StepHolds DEF CapIInv
<1> QED BY <1>1, <1>2, PTL DEF Spec, CapIInv

-----------------------------------------------------------------------------
(* The venue-service implements the ledger of seats.                       *)
LEMMA InitLedger == Init => Ledger!Init
BY DEF Init, Ledger!Init, Booking

(* What the ledger calls the states of a reservation.                      *)
Called(st) ==
    CASE st = "NONE" -> "none" [] st = "RESERVED" -> "booked" [] st = "SOLD" -> "sold"
      [] OTHER -> "returned"

LEMMA BookingMoves ==
    ASSUME NEW R, NEW st, resStatus' = [r \in ResIds |-> IF r \in R THEN st ELSE resStatus[r]]
    PROVE  Booking' = [r \in ResIds |-> IF r \in R THEN Called(st) ELSE Booking[r]]
BY DEF Booking, Called

LEMMA LedgerStep == ASSUME IInv, [Next]_vars PROVE [Ledger!Next]_(Ledger!vars)
<1> USE DEF Ledger!Next
<1>1. CASE Same
    BY <1>1 DEF Same, Ledger!vars, Booking
<1>2. ASSUME NEW h \in Handlers, Holds(h) PROVE Ledger!Next
  <2>1. /\ Who(h) \in Users /\ Wanted(h) \in SUBSET Seats
        /\ \A s \in Wanted(h) : s \in Seats /\ status[s] \in {"AVAILABLE", "HELD"}
    BY <1>2 DEF IInv, JobsFit, TakesUnbooked, TypeOK, Holds, UserSteps, Writing, Wanted
  <2>2. ~Ledger!Booked(Wanted(h))
    BY <2>1, SeatsAssumption DEF Ledger!Booked, IInv, SeatsMatchLedger
  <2>3. Ledger!Hold(Who(h), Wanted(h))
    BY <1>2, <2>2 DEF Ledger!Hold, Ledger!Given, Holds, Take, Put, Booking
  <2> QED BY <2>1, <2>3
<1>3. ASSUME NEW h \in Handlers, Books(h) PROVE Ledger!Next
  <2>1. /\ Who(h) \in ResIds /\ Wanted(h) \in SUBSET Seats
        /\ \A s \in Wanted(h) : s \in Seats /\ status[s] \in {"AVAILABLE", "HELD"}
    BY <1>3 DEF IInv, JobsFit, TakesUnbooked, TypeOK, Books, ResSteps, Writing, Wanted
  <2>2. ~Ledger!Booked(Wanted(h))
    BY <2>1, SeatsAssumption DEF Ledger!Booked, IInv, SeatsMatchLedger
  <2>3. PICK r \in ResIds : r = Who(h)
    BY <2>1
  <2>4. resStatus' = [x \in ResIds |-> IF x \in {r} THEN "RESERVED" ELSE resStatus[x]]
    BY <1>3, <2>3 DEF Books, IInv, TypeOK
  <2>5. Booking' = [x \in ResIds |-> IF x \in {r} THEN Called("RESERVED") ELSE Booking[x]]
    <3>1. \A x \in ResIds : resStatus'[x] = IF x = r THEN "RESERVED" ELSE resStatus[x]
      BY <2>4
    <3>2. /\ Booking = [x \in ResIds |-> Called(resStatus[x])]
          /\ Booking' = [x \in ResIds |-> Called(resStatus'[x])]
      BY DEF Booking, Called
    <3> QED BY <3>1, <3>2
  <2>6. Booking' = [Booking EXCEPT ![r] = "booked"]
    BY <2>5 DEF Called, Booking
  <2>7. Booking[r] = "none"
    BY <1>3, <2>3 DEF Books, Booking
  <2>8. Ledger!Book(r, Wanted(h))
    BY <1>3, <2>2, <2>3, <2>6, <2>7 DEF Ledger!Book, Ledger!Given, Books, Take, Put
  <2> QED BY <2>1, <2>8
<1>4. ASSUME NEW S \in SUBSET Seats, Frees(S) PROVE Ledger!Next
  <2>1. ~Ledger!Booked(S)
    BY <1>4, SeatsAssumption DEF Ledger!Booked, Frees, IInv, SeatsMatchLedger
  <2>2. Ledger!Unhold(S)
    BY <1>4, <2>1 DEF Ledger!Unhold, Ledger!Given, Frees, MakeAvailable, Put, Booking
  <2> QED BY <2>2
<1>5. ASSUME NEW R \in SUBSET ResIds, NEW st \in {"RELEASED", "EXPIRED"}, Returns(R, st)
      PROVE  Ledger!Next
  <2>1. Called(st) = "returned"
    BY DEF Called
  <2>2. Booking' = [r \in ResIds |-> IF r \in R THEN "returned" ELSE Booking[r]]
    BY <1>5, <2>1, BookingMoves DEF Returns
  <2>3. \A r \in R : Booking[r] = "booked"
    BY <1>5 DEF Returns, Booking
  <2>4. Ledger!Return(R)
    BY <1>5, <2>2, <2>3 DEF Ledger!Return, Ledger!Given, Returns, MakeAvailable, Put
  <2> QED BY <2>4
<1>6. ASSUME NEW r \in ResIds, Sells(r) PROVE Ledger!Next
  <2>1. resStatus' = [x \in ResIds |-> IF x \in {r} THEN "SOLD" ELSE resStatus[x]]
    BY <1>6 DEF Sells, IInv, TypeOK
  <2>2. Booking' = [x \in ResIds |-> IF x \in {r} THEN Called("SOLD") ELSE Booking[x]]
    <3>1. \A x \in ResIds : resStatus'[x] = IF x = r THEN "SOLD" ELSE resStatus[x]
      BY <2>1
    <3>2. /\ Booking = [x \in ResIds |-> Called(resStatus[x])]
          /\ Booking' = [x \in ResIds |-> Called(resStatus'[x])]
      BY DEF Booking, Called
    <3> QED BY <3>1, <3>2
  <2>3. Booking' = [Booking EXCEPT ![r] = "sold"] /\ Booking[r] = "booked"
    BY <1>6, <2>2 DEF Called, Booking, Sells
  <2>4. Ledger!Sell(r)
    BY <1>6, <2>3 DEF Ledger!Sell, Sells
  <2> QED BY <2>4
<1> QED BY <1>1, <1>2, <1>3, <1>4, <1>5, <1>6, Kinds DEF IInv

(* The seats rows and the reservations behave as the ledger of seats, with *)
(* any number of handlers, whatever fails, is repeated or comes late.      *)
THEOREM ImplementsLedger == Spec => LedgerSpec
<1>1. Init => Ledger!Init
    BY InitLedger
<1>2. IInv /\ [Next]_vars => [Ledger!Next]_(Ledger!vars)
    BY LedgerStep
<1> QED BY <1>1, <1>2, Invariant, PTL DEF Spec, LedgerSpec, Ledger!Spec

-----------------------------------------------------------------------------
(* The sold marks in Redis.                                                *)

(* What Redis, a handler on its way to Redis and a reconciler's snapshot   *)
(* call sold is sold.                                                      *)
SellsSold == \A h \in Handlers : At(h, "sell") => resStatus[Who(h)] = "SOLD"
SeedsSold == \A c \in Reconcilers, s \in Seats : snapshot[c][s] = "3" => status[s] = "SOLD"

SoldIInv == IInv /\ SoldMarkIsSold /\ SellsSold /\ SeedsSold

(* A sale is final, for the seat and for its reservation.                  *)
LEMMA SoldStays ==
    ASSUME IInv, [Next]_vars
    PROVE  /\ \A s \in Seats : status[s] = "SOLD" => status'[s] = "SOLD"
           /\ \A r \in ResIds : resStatus[r] = "SOLD" => resStatus'[r] = "SOLD"
<1> DEFINE Goal == /\ \A s \in Seats : status[s] = "SOLD" => status'[s] = "SOLD"
                   /\ \A r \in ResIds : resStatus[r] = "SOLD" => resStatus'[r] = "SOLD"
<1>1. CASE Same
    BY <1>1 DEF Same
<1>2. ASSUME NEW h \in Handlers, Holds(h) \/ Books(h) PROVE Goal
  <2>1. \A s \in Wanted(h) : status[s] # "SOLD"
    BY <1>2 DEF IInv, TakesUnbooked, Holds, Books, Writing
  <2>2. \A s \in Seats : status[s] = "SOLD" => status'[s] = "SOLD"
    BY <1>2, <2>1 DEF Holds, Books, Take, Put
  <2>3. \A r \in ResIds : resStatus[r] = "SOLD" => resStatus'[r] = "SOLD"
    BY <1>2 DEF Holds, Books, IInv, TypeOK
  <2> QED BY <2>2, <2>3
<1>3. ASSUME NEW S \in SUBSET Seats, Frees(S) PROVE Goal
    BY <1>3 DEF Frees, MakeAvailable, Put
<1>4. ASSUME NEW R \in SUBSET ResIds, NEW st \in {"RELEASED", "EXPIRED"}, Returns(R, st) PROVE Goal
  <2>1. \A s \in Seats : heldBy[s] \in R => status[s] = "RESERVED"
    BY <1>4, OwnItems DEF IInv, Returns
  <2> QED BY <1>4, <2>1 DEF Returns, MakeAvailable, Put
<1>5. ASSUME NEW r \in ResIds, Sells(r) PROVE Goal
    BY <1>5 DEF Sells, Put, IInv, TypeOK
<1> HIDE DEF Goal
<1>6. Goal
    BY <1>1, <1>2, <1>3, <1>4, <1>5, Kinds DEF IInv, Goal
<1> QED BY <1>6 DEF Goal

(* Only the handler that has sold a reservation is about to mark it sold.  *)
LEMMA SellsAfterSale ==
    ASSUME IInv, [Next]_vars, NEW h \in Handlers, job'[h].pc = "sell", job'[h] # job[h]
    PROVE  Who(h)' = Who(h) /\ Who(h) \in ResIds /\ resStatus'[Who(h)] = "SOLD"
<1>1. ASSUME NEW g \in Handlers, Request(g) PROVE FALSE
    BY <1>1, StartEffect DEF IInv, Starts
<1>2. ASSUME NEW g \in Handlers, Talks(g) \/ LockStep(g) \/ WriteStep(g) PROVE g = h
    BY <1>2, TalkEffect, LockEffect, WriteEffect DEF IInv, Moves
<1>3. ASSUME LockStep(h) PROVE FALSE
    BY <1>3, LockEffect DEF IInv, Moves, Writing
<1>4. ASSUME Talks(h) PROVE FALSE
  <2>1. CASE RedisHold(h) \/ RedisHoldLost(h)
    BY <2>1 DEF RedisHold, RedisHoldLost, Goto, Become, Job, IInv, TypeOK
  <2>2. CASE RedisConflict(h) \/ ReserveRefused(h) \/ ReserveDuplicate(h)
           \/ ReleaseNothing(h) \/ FinalizeNothing(h) \/ LastCallFails(h) \/ Crash(h) \/ Rollback(h)
           \/ MarkReserved(h) \/ FreeInRedis(h) \/ SellInRedis(h)
    <3>1. Done(h)
      BY <2>2 DEF RedisConflict, ReserveRefused, ReserveDuplicate, ReleaseNothing, FinalizeNothing,
         LastCallFails, Crash, Rollback, MarkReserved, FreeInRedis, SellInRedis
    <3> QED BY <3>1, DoneMoves DEF IInv, Moves
  <2>3. CASE HoldDbRefused(h) \/ HoldDbFails(h)
    BY <2>3, HoldErrorMoves DEF HoldDbRefused, HoldDbFails, IInv, Moves
  <2>4. CASE RedisHoldFails(h) \/ RedisUnhold(h) \/ RedisUnholdFails(h)
    BY <2>4, GotoMoves DEF RedisHoldFails, RedisUnhold, RedisUnholdFails, IInv, Moves, Labels
  <2> QED BY <1>4, <2>1, <2>2, <2>3, <2>4 DEF Talks
<1>5. ASSUME WriteStep(h) PROVE FinalizeWrite(h)
  <2>1. CASE HoldWrite(h) \/ UnholdDb(h)
    BY <2>1, DoneMoves DEF HoldWrite, UnholdDb, IInv, Moves
  <2>2. CASE HoldDbLost(h)
    BY <2>2, HoldErrorMoves DEF HoldDbLost, IInv, Moves
  <2>3. CASE ReserveWrite(h)
    BY <2>3, GotoMoves DEF ReserveWrite, IInv, Moves, Labels
  <2>4. CASE ReleaseWrite(h)
    BY <2>4, GotoMoves, DoneMoves DEF ReleaseWrite, IInv, Moves, Labels
  <2> QED BY <1>5, <2>1, <2>2, <2>3, <2>4 DEF WriteStep
<1>6. CASE FinalizeWrite(h)
  <2>1. Who(h) \in ResIds
    BY <1>6 DEF IInv, JobsFit, ResSteps, FinalizeWrite, At
  <2>2. Who(h)' = Who(h)
    BY <1>6, GotoMoves DEF FinalizeWrite, IInv, Moves, Labels, Who
  <2> QED BY <1>6, <2>1, <2>2 DEF FinalizeWrite, IInv, TypeOK
<1>7. CASE ReseedStep \/ Clock \/ Sweeps \/ UNCHANGED vars
    BY <1>7, ReseedTyped, TimeTyped DEF vars, IInv
<1> QED BY <1>1, <1>2, <1>3, <1>4, <1>5, <1>6, <1>7, Steps

(* A seat becomes marked sold by a handler that has sold it, or by a seed. *)
LEMMA MarksSold ==
    ASSUME IInv, [Next]_vars, NEW s \in Seats, cell'[s] = "3", cell[s] # "3"
    PROVE  \/ \E h \in Handlers : At(h, "sell") /\ s \in items[Who(h)]
           \/ \E c \in Reconcilers : snapshot[c][s] = "3"
<1>1. cell' # cell
    OBVIOUS
<1>2. ASSUME NEW h \in Handlers, Talks(h)
      PROVE  At(h, "sell") /\ s \in items[Who(h)]
  <2>1. ~LuaHold(h) /\ ~LuaRelease(h) /\ ~UNCHANGED redis
    BY DEF LuaHold, LuaRelease, redis, Put
  <2>2. ~MarkReserved(h) /\ ~FreeInRedis(h)
    BY <2>1 DEF MarkReserved, FreeInRedis, SetSeatState, Put
  <2>3. SellInRedis(h)
    BY <1>2, <2>1, <2>2 DEF Talks, RedisHold, RedisConflict, RedisHoldFails, RedisHoldLost,
       HoldDbRefused, HoldDbFails, Rollback, RedisUnhold, RedisUnholdFails, ReserveRefused,
       ReserveDuplicate, ReleaseNothing, FinalizeNothing, LastCallFails, Crash
  <2> QED BY <2>3 DEF SellInRedis, SetSeatState, Put
<1>3. ASSUME NEW h \in Handlers, Request(h) \/ LockStep(h) \/ WriteStep(h) PROVE FALSE
    BY <1>1, <1>3, StartEffect, LockEffect, WriteEffect DEF IInv, redis
<1>4. CASE ReseedStep
  <2>1. ~RedisLoss
    BY DEF RedisLoss
  <2>2. PICK c \in Reconcilers : ReconcileWrites(c)
    BY <1>1, <1>4, <2>1 DEF ReseedStep, Reconcile, ReconcileExists, ReconcileReads, redis
  <2> QED BY <2>2 DEF ReconcileWrites
<1>5. CASE Clock \/ Sweeps \/ UNCHANGED vars
    BY <1>1, <1>5 DEF Clock, HoldLapses, MarkerExpires, ReservationLapses, Sweeps,
       SweepExpiredHolds, SweepExpiredReservations, vars, redis
<1> QED BY <1>2, <1>3, <1>4, <1>5, Steps

(* A seed takes a seat for sold from the row of the seat.                  *)
LEMMA ReadsSold ==
    ASSUME IInv, [Next]_vars, NEW c \in Reconcilers, NEW s \in Seats,
           snapshot'[c][s] = "3", snapshot[c][s] # "3"
    PROVE  status[s] = "SOLD"
<1>1. ASSUME NEW d \in Reconcilers, ReconcileReads(d) PROVE status[s] = "SOLD"
  <2>1. snapshot'[c][s] = SeatStateByte(status[s])
    BY <1>1 DEF ReconcileReads, IInv, TypeOK
  <2>2. status[s] \in {"AVAILABLE", "HELD", "RESERVED", "SOLD"}
    BY DEF IInv, TypeOK
  <2> QED BY <2>1, <2>2 DEF SeatStateByte
<1>2. ASSUME NEW h \in Handlers, Request(h) \/ Talks(h) \/ LockStep(h) \/ WriteStep(h) PROVE FALSE
    BY <1>2, StartEffect, TalkEffect, LockEffect, WriteEffect DEF IInv, sweep
<1>3. CASE ReseedStep
    BY <1>1, <1>3 DEF ReseedStep, Reconcile, ReconcileExists, ReconcileWrites, RedisLoss, sweep
<1>4. CASE Clock \/ Sweeps \/ UNCHANGED vars
    BY <1>4 DEF Clock, HoldLapses, MarkerExpires, ReservationLapses, Sweeps,
       SweepExpiredHolds, SweepExpiredReservations, vars, sweep
<1> QED BY <1>1, <1>2, <1>3, <1>4, Steps

(* Redis never blocks a seat as sold that is not: neither a copy that      *)
(* comes late nor a stale seed marks a seat sold that was not sold.        *)
THEOREM SoldMarksTrue == Spec => []SoldMarkIsSold
<1>1. Init => SoldIInv
  <2> SUFFICES ASSUME Init PROVE SoldIInv
    OBVIOUS
  <2> QED BY InitHolds DEF Init, SoldIInv, SoldMarkIsSold, SellsSold, SeedsSold, At, IdleJob, Job
<1>2. SoldIInv /\ [Next]_vars => SoldIInv'
  <2> SUFFICES ASSUME SoldIInv, [Next]_vars PROVE SoldMarkIsSold' /\ SellsSold' /\ SeedsSold'
    BY StepHolds DEF SoldIInv
  <2>1. ASSUME NEW s \in Seats, cell'[s] = "3" PROVE status'[s] = "SOLD"
    <3>1. CASE cell[s] = "3"
      BY <3>1, SoldStays DEF SoldIInv, SoldMarkIsSold
    <3>2. ASSUME NEW h \in Handlers, At(h, "sell"), s \in items[Who(h)]
          PROVE  status'[s] = "SOLD"
      <4>1. Who(h) \in ResIds /\ resStatus[Who(h)] = "SOLD"
        BY <3>2 DEF SoldIInv, IInv, JobsFit, ResSteps, SellsSold, At
      <4>2. status[s] = "SOLD"
        BY <3>2, <4>1 DEF SoldIInv, IInv, SeatsMatchLedger
      <4> QED BY <4>2, SoldStays DEF SoldIInv
    <3>3. ASSUME NEW c \in Reconcilers, snapshot[c][s] = "3" PROVE status'[s] = "SOLD"
      BY <3>3, SoldStays DEF SoldIInv, SeedsSold
    <3> QED BY <2>1, <3>1, <3>2, <3>3, MarksSold DEF SoldIInv
  <2>2. ASSUME NEW h \in Handlers, job'[h].pc = "sell" PROVE resStatus'[Who(h)'] = "SOLD"
    <3>1. CASE job'[h] = job[h]
      <4>1. Who(h) \in ResIds /\ resStatus[Who(h)] = "SOLD" /\ Who(h)' = Who(h)
        BY <2>2, <3>1 DEF SoldIInv, IInv, JobsFit, ResSteps, SellsSold, At, Who
      <4> QED BY <4>1, SoldStays DEF SoldIInv
    <3>2. CASE job'[h] # job[h]
      BY <2>2, <3>2, SellsAfterSale DEF SoldIInv
    <3> QED BY <3>1, <3>2
  <2>3. ASSUME NEW c \in Reconcilers, NEW s \in Seats, snapshot'[c][s] = "3" PROVE status'[s] = "SOLD"
    BY <2>3, ReadsSold, SoldStays DEF SoldIInv, SeedsSold
  <2> QED BY <2>1, <2>2, <2>3 DEF SoldMarkIsSold, SellsSold, SeedsSold, At
<1> QED BY <1>1, <1>2, PTL DEF Spec, SoldIInv

-----------------------------------------------------------------------------
(* Live holds.                                                             *)
Live(s) == status[s] = "HELD" /\ s \notin lapsed

(* A granted transaction still finds its seats free, lapsed, or held by    *)
(* its own buyer when it writes.                                           *)
TakesNoHold ==
    \A h \in Handlers, s \in Seats :
        job[h].pc \in Writing /\ s \in Wanted(h) /\ Live(s) =>
            job[h].pc = "reserveWrite" /\ heldBy[s] = Buyer(h)

HoldIInv == IInv /\ TakesNoHold

(* A seat becomes live only when a transaction holds it, and a live one    *)
(* changes hands only when a transaction takes it or it is given back.     *)
LEMMA LiveKept ==
    ASSUME IInv, [Next]_vars, NEW s \in Seats,
           \A h \in Handlers : WriteStep(h) /\ (Holds(h) \/ Books(h)) => s \notin Wanted(h)
    PROVE  /\ Live(s)' => Live(s) /\ heldBy'[s] = heldBy[s]
           /\ Live(s) => heldBy'[s] = heldBy[s] \/ status'[s] = "AVAILABLE"
<1> USE DEF Live
<1>0. lapsed' \subseteq {x \in Seats : status'[x] = "HELD"}
  <2>1. TypeOK'
    BY TypeStep DEF IInv
  <2> QED BY <2>1 DEF TypeOK
<1>1. ASSUME Same
      PROVE  /\ Live(s)' => Live(s) /\ heldBy'[s] = heldBy[s]
             /\ Live(s) => heldBy'[s] = heldBy[s] \/ status'[s] = "AVAILABLE"
    BY <1>1 DEF Same
<1>2. ASSUME NEW h \in Handlers, WriteStep(h), Holds(h) \/ Books(h)
      PROVE  status'[s] = status[s] /\ heldBy'[s] = heldBy[s] /\ (s \in lapsed => s \in lapsed')
    BY <1>2 DEF Holds, Books, Take, Put
<1>3. ASSUME NEW S \in SUBSET Seats, Frees(S)
      PROVE  IF s \in S THEN status'[s] = "AVAILABLE"
             ELSE status'[s] = status[s] /\ heldBy'[s] = heldBy[s] /\ (s \in lapsed => s \in lapsed')
    BY <1>3 DEF Frees, MakeAvailable, Put
<1>4. ASSUME NEW R \in SUBSET ResIds, NEW st \in {"RELEASED", "EXPIRED"}, Returns(R, st)
      PROVE  IF heldBy[s] \in R THEN status'[s] = "AVAILABLE"
             ELSE status'[s] = status[s] /\ heldBy'[s] = heldBy[s] /\ (s \in lapsed => s \in lapsed')
    BY <1>4 DEF Returns, MakeAvailable, Put
<1>5. ASSUME NEW r \in ResIds, Sells(r)
      PROVE  /\ heldBy'[s] = heldBy[s] /\ (s \in lapsed => s \in lapsed')
             /\ status'[s] = "SOLD" \/ status'[s] = status[s]
    BY <1>5 DEF Sells, Put
<1>6. ASSUME NEW h \in Handlers, Request(h) \/ Talks(h) \/ LockStep(h) PROVE Same
    BY <1>6, StartEffect, TalkEffect, LockEffect DEF Same, seats, ledger, IInv
<1>7. ReseedStep \/ UNCHANGED vars => Same
    BY ReseedTyped DEF Same, vars, seats, ledger, IInv
<1> DEFINE Goal == /\ Live(s)' => Live(s) /\ heldBy'[s] = heldBy[s]
                   /\ Live(s) => heldBy'[s] = heldBy[s] \/ status'[s] = "AVAILABLE"
<1>8. Same => Goal
    BY <1>1
<1>9. ASSUME NEW S \in SUBSET Seats, Frees(S) PROVE Goal
    BY <1>3, <1>9
<1>10. ASSUME NEW R \in SUBSET ResIds, NEW st \in {"RELEASED", "EXPIRED"}, Returns(R, st) PROVE Goal
    BY <1>4, <1>10
<1>11. ASSUME NEW r \in ResIds, Sells(r) PROVE Goal
    BY <1>5, <1>11
<1>12. ASSUME NEW h \in Handlers, WriteStep(h), Holds(h) \/ Books(h) PROVE Goal
    BY <1>2, <1>12
<1> HIDE DEF Goal
<1>13. ASSUME NEW h \in Handlers, WriteStep(h) PROVE Goal
    BY <1>9, <1>10, <1>11, <1>12, <1>13, WriteKinds DEF IInv
<1>14. Clock \/ Sweeps => Goal
    BY <1>8, <1>9, <1>10, TimeKinds DEF IInv
<1>15. Goal
    BY <1>6, <1>7, <1>8, <1>13, <1>14, Steps
<1> QED BY <1>15 DEF Goal

(* The grant looks at the holds.                                           *)
LEMMA HoldsRespected ==
    ASSUME IInv, NEW h \in Handlers, LockStep(h), NEW s \in Seats, s \in Wanted(h), Live(s)
    PROVE  job'[h].pc = "reserveWrite" /\ heldBy[s] = Buyer(h)
<1>1. ~HoldDb(h)
    BY DEF Live, HoldDb, HoldGranted, Takable
<1>2. AtomicReserve(h)
    BY <1>1 DEF LockStep
<1>3. job'[h].pc = "reserveWrite"
    BY <1>2, GotoMoves DEF AtomicReserve, IInv, Moves, Labels
<1> QED BY <1>2, <1>3 DEF AtomicReserve, ReserveGranted, Reservable, Takable, Live

LEMMA TakesNoHoldKept == ASSUME HoldIInv, [Next]_vars PROVE TakesNoHold'
<1> USE DEF HoldIInv
<1>1. ASSUME NEW h \in Handlers, LockStep(h) PROVE TakesNoHold'
  <2>1. Moves(h, Writing) /\ UNCHANGED seats
    BY <1>1, LockEffect DEF IInv
  <2>2. /\ \A g \in Handlers : Buyer(g)' = Buyer(g) /\ Wanted(g)' = Wanted(g)
        /\ \A g \in Handlers : g # h => job'[g] = job[g]
    BY <2>1 DEF Moves, Buyer, Who, Wanted, Writing
  <2> QED BY <1>1, <2>1, <2>2, HoldsRespected DEF TakesNoHold, Live, seats
<1>2. ASSUME \A g \in Handlers : job'[g].pc \in Writing => job'[g] = job[g]
      PROVE  TakesNoHold'
  <2> SUFFICES ASSUME NEW g \in Handlers, NEW s \in Seats,
                      job'[g].pc \in Writing, s \in Wanted(g)', Live(s)'
               PROVE  job'[g].pc = "reserveWrite" /\ heldBy'[s] = Buyer(g)'
    BY DEF TakesNoHold
  <2>1. job'[g] = job[g] /\ Wanted(g)' = Wanted(g) /\ Buyer(g)' = Buyer(g)
    BY <1>2 DEF Wanted, Buyer, Who
  <2>2. ASSUME NEW h \in Handlers, WriteStep(h), Holds(h) \/ Books(h) PROVE s \notin Wanted(h)
    <3>1. job[h].pc \in Writing /\ h # g
      <4>1. job'[h].pc \notin Writing
        BY <2>2, WriteEffect DEF IInv, Moves
      <4> QED BY <2>1, <2>2, <4>1 DEF Holds, Books, Writing
    <3> QED BY <2>1, <3>1 DEF IInv, LocksExclude
  <2>3. Live(s) /\ heldBy'[s] = heldBy[s]
    BY <2>2, LiveKept
  <2> QED BY <2>1, <2>3 DEF TakesNoHold
<1>3. ASSUME NEW h \in Handlers, Request(h) \/ Talks(h) \/ WriteStep(h)
      PROVE  \A g \in Handlers : job'[g].pc \in Writing => job'[g] = job[g]
    BY <1>3, StartEffect, TalkEffect, WriteEffect DEF Starts, Moves, IInv, Writing
<1>4. CASE ReseedStep \/ Clock \/ Sweeps \/ UNCHANGED vars
    BY <1>4, <1>2, ReseedTyped, TimeTyped DEF vars, IInv
<1> QED BY <1>1, <1>2, <1>3, <1>4, Steps

(* A live hold that ends as a free seat is given back by its user.         *)
LEMMA GivenBack ==
    ASSUME IInv, [Next]_vars, NEW s \in Seats, Live(s), status'[s] = "AVAILABLE"
    PROVE  \E h \in Handlers : At(h, "unholdDb") /\ Who(h) = heldBy[s]
<1> USE DEF Live
<1>1. ASSUME NEW h \in Handlers, Request(h) \/ Talks(h) \/ LockStep(h) PROVE FALSE
    BY <1>1, StartEffect, TalkEffect, LockEffect DEF seats, IInv
<1>2. ASSUME NEW h \in Handlers, WriteStep(h) PROVE At(h, "unholdDb") /\ Who(h) = heldBy[s]
  <2>1. ~(HoldWrite(h) \/ HoldDbLost(h) \/ ReserveWrite(h) \/ FinalizeWrite(h))
    BY DEF HoldWrite, HoldDbLost, ReserveWrite, FinalizeWrite, Take, Put
  <2>2. ~ReleaseWrite(h)
    BY DEF ReleaseWrite, MakeAvailable, ReservedItems, Put
  <2>3. UnholdDb(h)
    BY <1>2, <2>1, <2>2 DEF WriteStep
  <2> QED BY <2>3 DEF UnholdDb, MakeAvailable, Put
<1>3. ~(ReseedStep \/ UNCHANGED vars)
    BY ReseedTyped DEF vars, seats, IInv
<1>4. ~Clock
    BY DEF Clock, HoldLapses, MarkerExpires, ReservationLapses, seats
<1>5. ~Sweeps
    BY DEF Sweeps, SweepExpiredHolds, SweepExpiredReservations, MakeAvailable, Put
<1> QED BY <1>1, <1>2, <1>3, <1>4, <1>5, Steps

(* A live hold ends only with its buyer: it is given back by the buyer, or *)
(* reserved for the buyer.  No other hold, no reservation of another, no   *)
(* sweep and no release takes its seat.                                    *)
THEOREM HoldsKept == Spec => HoldKept
<1> DEFINE HoldsStand == \A s \in Seats :
          (status[s] = "HELD" /\ s \notin lapsed) =>
              \/ heldBy'[s] = heldBy[s]
              \/ status'[s] = "RESERVED" /\ UserOf[heldBy'[s]] = heldBy[s]
              \/ /\ status'[s] = "AVAILABLE"
                 /\ \E h \in Handlers : At(h, "unholdDb") /\ Who(h) = heldBy[s]
<1>1. Init => HoldIInv
  <2> SUFFICES ASSUME Init PROVE HoldIInv
    OBVIOUS
  <2> QED BY InitHolds DEF Init, HoldIInv, TakesNoHold, Live
<1>2. HoldIInv /\ [Next]_vars => HoldIInv'
    BY TakesNoHoldKept, StepHolds DEF HoldIInv
<1>3. HoldIInv /\ [Next]_vars => HoldsStand
  <2> SUFFICES ASSUME HoldIInv, [Next]_vars, NEW s \in Seats, Live(s), heldBy'[s] # heldBy[s]
               PROVE  \/ status'[s] = "RESERVED" /\ UserOf[heldBy'[s]] = heldBy[s]
                      \/ /\ status'[s] = "AVAILABLE"
                         /\ \E h \in Handlers : At(h, "unholdDb") /\ Who(h) = heldBy[s]
    BY DEF Live
  <2> USE DEF HoldIInv
  <2>1. ASSUME NEW h \in Handlers, WriteStep(h), Holds(h) \/ Books(h), s \in Wanted(h)
        PROVE  status'[s] = "RESERVED" /\ UserOf[heldBy'[s]] = heldBy[s]
    <3>1. job[h].pc = "reserveWrite" /\ heldBy[s] = Buyer(h)
      BY <2>1 DEF TakesNoHold, Holds, Books, Writing
    <3>2. Who(h) \in ResIds /\ Books(h)
      BY <2>1, <3>1 DEF IInv, JobsFit, ResSteps, Holds
    <3> QED BY <2>1, <3>1, <3>2 DEF Books, Take, Put, Buyer
  <2>2. CASE \A h \in Handlers : WriteStep(h) /\ (Holds(h) \/ Books(h)) => s \notin Wanted(h)
    <3>1. status'[s] = "AVAILABLE"
      BY <2>2, LiveKept
    <3>2. \E h \in Handlers : At(h, "unholdDb") /\ Who(h) = heldBy[s]
      BY <3>1, GivenBack DEF IInv
    <3> QED BY <3>1, <3>2
  <2> QED BY <2>1, <2>2
<1>4. HoldKept <=> [][HoldsStand]_vars
  BY DEF HoldKept
<1> QED BY <1>1, <1>2, <1>3, PTL DEF Spec, HoldKept
=============================================================================
