-------------------------- MODULE TicketQuotaProofs --------------------------
(***************************************************************************)
(* Theorems about TicketQuota, for every set of handlers, reconcilers and  *)
(* reservations, every quota, and every number of faults.                  *)
(***************************************************************************)
EXTENDS TicketQuota, FiniteSetTheorems, TLAPS

-----------------------------------------------------------------------------
(* Facts about Tally, for every finite set of owners.                      *)

(* The units of one owner who has k of them are finitely many, k in all.   *)
LEMMA UnitsOfOne ==
    ASSUME NEW x, NEW k \in Nat
    PROVE  IsFiniteSet({x} \X (1..k)) /\ Cardinality({x} \X (1..k)) = k
<1>1. IsFiniteSet(1..k) /\ Cardinality(1..k) = k
    BY FS_Interval, SMT
<1>2. IsFiniteSet({x}) /\ Cardinality({x}) = 1
    BY FS_Singleton
<1>3. /\ IsFiniteSet({x} \X (1..k))
      /\ Cardinality({x} \X (1..k)) = Cardinality({x}) * Cardinality(1..k)
    BY <1>1, <1>2, FS_Product
<1> QED BY <1>1, <1>2, <1>3, SMT

(* A table has finitely many units, and its tally is a natural number.     *)
LEMMA TallyType ==
    ASSUME NEW S, IsFiniteSet(S), NEW most \in Nat, NEW d \in [S -> 0..most]
    PROVE  IsFiniteSet(UnitsOf(d, most)) /\ Tally(d, most) \in Nat
<1>1. IsFiniteSet(1..most)
    BY FS_Interval, SMT
<1>2. IsFiniteSet(S \X (1..most))
    BY <1>1, FS_Product
<1>3. UnitsOf(d, most) \in SUBSET (S \X (1..most))
    BY DEF UnitsOf
<1>4. IsFiniteSet(UnitsOf(d, most))
    BY <1>2, <1>3, FS_Subset
<1> QED BY <1>4, FS_CardinalityType DEF Tally

(* A table of nothing tallies to 0.                                        *)
LEMMA TallyZero ==
    ASSUME NEW S, IsFiniteSet(S), NEW most \in Nat
    PROVE  Tally([o \in S |-> 0], most) = 0
<1>1. UnitsOf([o \in S |-> 0], most) = {}
    BY SMT DEF UnitsOf
<1> QED BY <1>1, FS_EmptySet DEF Tally

(* Two tables that agree except at owner x have tallies that differ by     *)
(* what happened to x.                                                     *)
LEMMA TallyOne ==
    ASSUME NEW S, IsFiniteSet(S), NEW most \in Nat,
           NEW d \in [S -> 0..most], NEW e \in [S -> 0..most],
           NEW x \in S, \A o \in S \ {x} : e[o] = d[o]
    PROVE  Tally(e, most) = Tally(d, most) + (e[x] - d[x])
<1> DEFINE Rest == {u \in UnitsOf(d, most) : u[1] # x}
<1>1. IsFiniteSet(UnitsOf(d, most)) /\ IsFiniteSet(Rest)
  <2>1. IsFiniteSet(UnitsOf(d, most))
    BY TallyType
  <2>2. Rest \in SUBSET UnitsOf(d, most)
    OBVIOUS
  <2> QED BY <2>1, <2>2, FS_Subset
<1>2. ASSUME NEW f \in [S -> 0..most], \A o \in S \ {x} : f[o] = d[o]
      PROVE  Tally(f, most) = Cardinality(Rest) + f[x]
  <2>1. UnitsOf(f, most) = Rest \cup ({x} \X (1..f[x]))
    <3>1. ASSUME NEW u \in UnitsOf(f, most)
          PROVE  u \in Rest \cup ({x} \X (1..f[x]))
      BY <1>2, <3>1, SMT DEF UnitsOf
    <3>2. ASSUME NEW u \in Rest \cup ({x} \X (1..f[x]))
          PROVE  u \in UnitsOf(f, most)
      BY <1>2, <3>2, SMT DEF UnitsOf
    <3> QED BY <3>1, <3>2
  <2>2. Rest \cap ({x} \X (1..f[x])) = {}
    BY SMT DEF UnitsOf
  <2>3. f[x] \in Nat
    BY <1>2, SMT
  <2>4. IsFiniteSet({x} \X (1..f[x])) /\ Cardinality({x} \X (1..f[x])) = f[x]
    BY <2>3, UnitsOfOne
  <2>5. Cardinality(Rest \cup ({x} \X (1..f[x])))
            = Cardinality(Rest) + f[x] - Cardinality({})
    BY <1>1, <2>2, <2>4, FS_Union
  <2>6. Cardinality(Rest) \in Nat /\ Cardinality({}) = 0
    BY <1>1, FS_CardinalityType, FS_EmptySet
  <2> QED BY <2>1, <2>3, <2>5, <2>6, SMT DEF Tally
<1>3. Tally(d, most) = Cardinality(Rest) + d[x]
    BY <1>2
<1>4. Tally(e, most) = Cardinality(Rest) + e[x]
    BY <1>2
<1>5. Cardinality(Rest) \in Nat /\ d[x] \in Nat /\ e[x] \in Nat
    BY <1>1, FS_CardinalityType, SMT
<1> HIDE DEF Rest
<1> QED BY <1>3, <1>4, <1>5, SMT

(* Two tables that agree except at x and y have tallies that differ by     *)
(* what happened to x and to y.                                            *)
LEMMA TallyTwo ==
    ASSUME NEW S, IsFiniteSet(S), NEW most \in Nat,
           NEW d \in [S -> 0..most], NEW e \in [S -> 0..most],
           NEW x \in S, NEW y \in S, x # y,
           \A o \in S \ {x, y} : e[o] = d[o]
    PROVE  Tally(e, most) = Tally(d, most) + (e[x] - d[x]) + (e[y] - d[y])
<1>1. PICK f \in [S -> 0..most] : f[y] = d[y] /\ \A o \in S \ {y} : f[o] = e[o]
  <2> WITNESS [e EXCEPT ![y] = d[y]] \in [S -> 0..most]
  <2> QED OBVIOUS
<1>2. Tally(f, most) = Tally(d, most) + (f[x] - d[x])
    BY <1>1, TallyOne
<1>3. Tally(e, most) = Tally(f, most) + (e[y] - f[y])
    BY <1>1, TallyOne
<1>4. Tally(d, most) \in Nat
    BY TallyType
<1>5. d[x] \in Nat /\ e[x] \in Nat /\ d[y] \in Nat /\ e[y] \in Nat
    OBVIOUS
<1>6. f[x] = e[x] /\ f[y] = d[y]
    BY <1>1
<1> QED BY <1>2, <1>3, <1>4, <1>5, <1>6

(* A table that gives no owner more than another does has no larger tally. *)
LEMMA TallyMonotone ==
    ASSUME NEW S, IsFiniteSet(S), NEW most \in Nat,
           NEW d \in [S -> 0..most], NEW T, S \subseteq T, IsFiniteSet(T),
           NEW e \in [T -> 0..most],
           \A o \in S : d[o] <= e[o]
    PROVE  Tally(d, most) <= Tally(e, most)
<1>1. IsFiniteSet(UnitsOf(e, most))
    BY TallyType
<1>2. ASSUME NEW u \in UnitsOf(d, most) PROVE u \in UnitsOf(e, most)
    BY SMT DEF UnitsOf
<1> QED BY <1>1, <1>2, FS_Subset DEF Tally

-----------------------------------------------------------------------------
-----------------------------------------------------------------------------
(* Jobs.                                                                   *)

(* A job that names no reservation is well formed.                         *)
LEMMA NamelessJob == \A l \in Nameless : Starting(l, NoRes, 0) \in Jobs
    BY BoundsAssumption DEF Starting, Job, Jobs, Labels, Nameless, Reserving

(* A job that names a reservation is well formed at any step.              *)
LEMMA JobTyped ==
    ASSUME NEW l \in Labels, NEW r \in ResIds, NEW q \in 0..MaxQty,
           NEW g \in BOOLEAN, NEW e \in {"none", "refused", "failed"},
           l \in Reserving => q > 0
    PROVE  Job(l, r, q, g, e) \in Jobs
    BY ResIdsAssumption DEF Jobs, Job

(* So is one that starts work on it.                                       *)
LEMMA StartingTyped ==
    ASSUME NEW l \in Labels, NEW r \in ResIds, NEW q \in 0..MaxQty,
           l \in Reserving => q > 0
    PROVE  Starting(l, r, q) \in Jobs
    BY ResIdsAssumption DEF Jobs, Job, Starting

(* A process past its first step knows its reservation, its user and its   *)
(* quantity, and may go to any step with them.                             *)
LEMMA NamedJob ==
    ASSUME TypeOK, NEW p \in Procs, job[p].pc \notin Nameless
    PROVE  /\ Rid(p) \in ResIds /\ UserOf[Rid(p)] \in Users
           /\ Qty(p) \in 0..MaxQty /\ job[p].gated \in BOOLEAN
           /\ job[p].err \in {"none", "refused", "failed"}
           /\ job[p].pc \in Reserving => Qty(p) > 0
           /\ \A l \in Labels : (l \in Reserving => job[p].pc \in Reserving)
                                => Moved(p, l) \in Jobs
<1>1. /\ Rid(p) \in ResIds /\ Qty(p) \in 0..MaxQty /\ job[p].gated \in BOOLEAN
      /\ job[p].err \in {"none", "refused", "failed"}
      /\ job[p].pc \in Reserving => Qty(p) > 0
    BY DEF TypeOK, Jobs, Rid, Qty
<1> QED BY <1>1, JobTyped, ResIdsAssumption DEF Moved

(* So may one whose call is being refused or has failed.                   *)
LEMMA UnwoundIsJob ==
    ASSUME TypeOK, NEW h \in Procs, job[h].pc \in Reserving,
           NEW e \in {"refused", "failed"}
    PROVE  Unwound(h, e) \in Jobs
<1>0. /\ Rid(h) \in ResIds /\ Qty(h) \in 0..MaxQty /\ Qty(h) > 0
      /\ "ungate" \in Labels /\ "lookup" \in Labels
    BY NamedJob DEF Reserving, Nameless, Labels
<1>1. CASE job[h].gated
    BY <1>0, <1>1, JobTyped, Zenon DEF Unwound
<1>2. CASE ~job[h].gated /\ e = "failed"
    BY <1>0, <1>2, JobTyped, Zenon DEF Unwound
<1>3. CASE ~job[h].gated /\ e # "failed"
    BY <1>3, NamelessJob DEF Unwound, Nameless, IdleJob
<1> QED BY <1>1, <1>2, <1>3

(* Becoming a well-formed job keeps the jobs well formed.                  *)
LEMMA BecomeTyped ==
    ASSUME TypeOK, NEW p \in Procs, NEW j \in Jobs, Become(p, j)
    PROVE  job' \in [Procs -> Jobs]
    BY DEF Become, TypeOK

(* The two error paths keep the jobs well formed.                          *)
LEMMA MongoPathTyped ==
    ASSUME TypeOK, NEW p \in Procs, MongoErrorPath(p)
    PROVE  job' \in [Procs -> Jobs]
<1>1. \E j \in Jobs : Become(p, j)
  <2>1. CASE At(p, "gate") /\ Goto(p, "check")
    BY <2>1, NamedJob DEF At, Goto, Nameless, Labels, Reserving
  <2>2. CASE job[p].pc \in {"check", "limit", "increment"} /\ Become(p, Unwound(p, "failed"))
    BY <2>2, UnwoundIsJob DEF Reserving
  <2>3. CASE At(p, "insert") /\ Goto(p, "undo")
    BY <2>3, NamedJob DEF At, Goto, Nameless, Labels, Reserving
  <2>4. CASE At(p, "undo") /\ Become(p, Unwound(p, "failed"))
    BY <2>4, UnwoundIsJob DEF At, Reserving
  <2>5. CASE (At(p, "lookup") \/ At(p, "update")) /\ Become(p, IdleJob)
    BY <2>5, NamelessJob DEF IdleJob, Nameless
  <2>6. CASE job[p].pc \in {"release", "decrement", "finalize", "move"} /\ Done(p)
    BY <2>6, NamelessJob DEF Done, Nameless
  <2>7. CASE At(p, "sweep") /\ Goto(p, "next")
    BY <2>7 DEF At, Goto, Moved, Job, Rid, Qty, TypeOK, Jobs, Nameless, Labels, Reserving
  <2> QED BY <2>1, <2>2, <2>3, <2>4, <2>5, <2>6, <2>7 DEF MongoErrorPath
<1> QED BY <1>1, BecomeTyped

LEMMA RedisPathTyped ==
    ASSUME TypeOK, NEW p \in Procs, RedisErrorPath(p)
    PROVE  job' \in [Procs -> Jobs]
<1>1. \E j \in Jobs : Become(p, j)
  <2>1. CASE At(p, "gate")
    BY <2>1, NamedJob, JobTyped DEF RedisErrorPath, At, Nameless, Labels, Reserving
  <2>2. CASE At(p, "ungate")
    BY <2>2, NamedJob, NamelessJob
    DEF RedisErrorPath, At, Goto, IdleJob, Nameless, Labels, Reserving
  <2>3. CASE (At(p, "restore") \/ At(p, "clear")) /\ Done(p)
    BY <2>3, NamelessJob DEF Done, Nameless
  <2> QED BY <2>1, <2>2, <2>3 DEF RedisErrorPath
<1> QED BY <1>1, BecomeTyped

-----------------------------------------------------------------------------
(* Type correctness.                                                       *)

(* Every step leaves the jobs well formed: one case per action.            *)
LEMMA JobsStep ==
    ASSUME TypeOK, Next
    PROVE  job' \in [Procs -> Jobs]
<1> USE DEF Procs
<1> DEFINE Typed == \E p \in Procs, j \in Jobs : Become(p, j)
<1>0. Typed => job' \in [Procs -> Jobs]
    BY BecomeTyped
<1>1. ASSUME NEW h \in Handlers, Request(h) PROVE Typed
  <2>1. CASE \E r \in ResIds, q \in 1..MaxQty : ReserveQuota(h, r, q)
    BY <2>1, StartingTyped, BoundsAssumption DEF ReserveQuota, Labels, Reserving
  <2>2. CASE \E r \in ResIds : ReleaseReservation(h, r)
    BY <2>2, StartingTyped, BoundsAssumption DEF ReleaseReservation, Labels, Reserving
  <2>3. CASE \E r \in ResIds : FinalizeReservation(h, r)
    BY <2>3, StartingTyped, BoundsAssumption DEF FinalizeReservation, Labels, Reserving
  <2>4. CASE UpdateTicket(h)
    BY <2>4, NamelessJob DEF UpdateTicket, Nameless
  <2> QED BY <2>1, <2>2, <2>3, <2>4, <1>1 DEF Request
<1>2. ASSUME NEW h \in Handlers, HandlerStep(h) PROVE Typed
  <2>1. CASE GateAbsent(h)
    BY <2>1, NamedJob DEF GateAbsent, At, Goto, Nameless, Labels, Reserving
  <2>2. CASE GateRefuses(h)
    BY <2>2, NamelessJob DEF GateRefuses, IdleJob, Nameless
  <2>3. CASE GateGrants(h)
    BY <2>3, NamedJob, JobTyped DEF GateGrants, At, Nameless, Labels, Reserving
  <2>4. CASE Check(h)
    BY <2>4, NamedJob, UnwoundIsJob DEF Check, At, Nameless, Labels, Reserving
  <2>5. CASE Limit(h)
    BY <2>5, NamedJob, UnwoundIsJob DEF Limit, At, Nameless, Labels, Reserving
  <2>6. CASE Increment(h)
    BY <2>6, NamedJob DEF Increment, At, Goto, Nameless, Labels, Reserving
  <2>7. CASE IncrementRefused(h)
    BY <2>7, UnwoundIsJob DEF IncrementRefused, At, Reserving
  <2>8. CASE Insert(h)
    BY <2>8, NamelessJob DEF Insert, IdleJob, Nameless
  <2>9. CASE InsertDuplicate(h)
    BY <2>9, NamedJob DEF InsertDuplicate, At, Goto, Nameless, Labels, Reserving
  <2>10. CASE Undo(h)
    BY <2>10, UnwoundIsJob DEF Undo, At, Reserving
  <2>11. CASE Ungate(h)
    BY <2>11, NamedJob, NamelessJob DEF Ungate, IdleJob, At, Goto, Nameless, Labels, Reserving
  <2>12. CASE Lookup(h)
    BY <2>12, NamelessJob DEF Lookup, IdleJob, Nameless
  <2>13. CASE Finalize(h)
    BY <2>13, NamedJob, StartingTyped DEF Finalize, TypeOK, At, Nameless, Labels, Reserving
  <2>14. CASE FinalizeNothing(h)
    BY <2>14, NamelessJob DEF FinalizeNothing, Done, Nameless
  <2>15. CASE Move(h)
    BY <2>15, NamedJob DEF Move, At, Goto, Nameless, Labels, Reserving
  <2>16. CASE Clear(h)
    BY <2>16, NamelessJob DEF Clear, Done, Nameless
  <2>17. CASE CommitUpdate(h)
    BY <2>17, NamelessJob DEF CommitUpdate, IdleJob, Nameless
  <2>18. CASE UpdateConflict(h)
    BY <2>18, NamelessJob DEF UpdateConflict, IdleJob, Nameless
  <2> QED BY <2>1, <2>2, <2>3, <2>4, <2>5, <2>6, <2>7, <2>8, <2>9, <2>10, <2>11, <2>12, <2>13, <2>14, <2>15, <2>16, <2>17, <2>18, <1>2 DEF HandlerStep
<1>3. ASSUME NEW p \in Procs, ReleaseStep(p) PROVE Typed
  <2>1. CASE Release(p)
    BY <2>1, NamedJob, StartingTyped DEF Release, TypeOK, At, Nameless, Labels, Reserving
  <2>2. CASE ReleaseNothing(p)
    BY <2>2, NamelessJob DEF ReleaseNothing, Done, Nameless
  <2>3. CASE Decrement(p)
    BY <2>3, NamedJob DEF Decrement, At, Goto, Nameless, Labels, Reserving
  <2>4. CASE Restore(p)
    BY <2>4, NamelessJob DEF Restore, Done, Nameless
  <2> QED BY <2>1, <2>2, <2>3, <2>4, <1>3 DEF ReleaseStep
<1>4. ASSUME NEW c \in Reconcilers, AcquireLeader(c) \/ ReconcilerStep(c) PROVE Typed
  <2>0. ASSUME NEW l \in Nameless, job[c].pc \in Nameless, Goto(c, l) PROVE Typed
    BY <2>0 DEF Goto, Moved, Job, Rid, Qty, TypeOK, Jobs, Nameless, Labels, Reserving
  <2>1. CASE AcquireLeader(c)
    BY <2>1, NamelessJob DEF AcquireLeader, Nameless
  <2>2. CASE SweepExpired(c)
    BY <2>2, <2>0 DEF SweepExpired, At, Nameless
  <2>3. CASE \E r \in ResIds : SweepNext(c, r)
    BY <2>3, StartingTyped, BoundsAssumption DEF SweepNext, Labels, Reserving
  <2>4. CASE SweepEnds(c)
    BY <2>4, <2>0 DEF SweepEnds, At, Nameless
  <2>5. CASE ListTicket(c)
    BY <2>5, <2>0 DEF ListTicket, At, Nameless
  <2>6. CASE SkipSeated(c)
    BY <2>6, NamelessJob DEF SkipSeated, EndPass, IdleJob, Nameless
  <2>7. CASE Compare(c)
    BY <2>7, <2>0, NamelessJob DEF Compare, EndPass, At, IdleJob, Nameless
  <2>8. CASE Reseed(c)
    BY <2>8, NamelessJob DEF Reseed, EndPass, IdleJob, Nameless
  <2> QED BY <2>1, <2>2, <2>3, <2>4, <2>5, <2>6, <2>7, <2>8, <1>4 DEF ReconcilerStep
<1>5. CASE FaultStep
  <2>1. CASE \E p \in Procs : Crash(p)
    BY <2>1, <1>0, NamelessJob DEF Crash, IdleJob, Nameless
  <2>2. CASE \E p \in Procs : MongoError(p)
    BY <2>2, MongoPathTyped DEF MongoError
  <2>3. CASE \E p \in Procs : LostAck(p)
    BY <2>3, MongoPathTyped DEF LostAck
  <2>4. CASE \E p \in Procs : RedisError(p)
    BY <2>4, RedisPathTyped DEF RedisError
  <2>5. CASE \E h \in Handlers : RedisLostReply(h)
    BY <2>5, RedisPathTyped DEF RedisLostReply
  <2>6. CASE \E c \in Reconcilers : ListError(c)
    BY <2>6, <1>0, NamelessJob DEF ListError, IdleJob, Nameless
  <2>7. CASE \E c \in Reconcilers : ReconcileError(c)
    BY <2>7, <1>0, NamelessJob DEF ReconcileError, EndPass, IdleJob, Nameless
  <2>8. CASE RedisLoss
    BY <2>8 DEF RedisLoss, TypeOK
  <2> QED BY <2>1, <2>2, <2>3, <2>4, <2>5, <2>6, <2>7, <2>8, <1>5 DEF FaultStep
<1>6. CASE LeaderKeyExpires \/ \E r \in ResIds : Expire(r)
    BY <1>6 DEF LeaderKeyExpires, Expire, TypeOK
<1> QED BY <1>0, <1>1, <1>2, <1>3, <1>4, <1>5, <1>6 DEF Next

(* The type invariant is inductive.                                        *)
LEMMA TypeStep == TypeOK /\ [Next]_vars => TypeOK'
<1> SUFFICES ASSUME TypeOK, [Next]_vars PROVE TypeOK'
    OBVIOUS
<1>0. CASE UNCHANGED vars
    BY <1>0 DEF vars, TypeOK
<1> SUFFICES ASSUME Next PROVE TypeOK'
    BY <1>0
<1>j. job' \in [Procs -> Jobs]
    BY JobsStep
<1> USE <1>j DEF TypeOK, Procs, ticket, redis, sweep
<1>1. ASSUME NEW h \in Handlers, Request(h) PROVE TypeOK'
    BY <1>1 DEF Request, ReserveQuota, ReleaseReservation, FinalizeReservation, UpdateTicket
<1>2. ASSUME NEW h \in Handlers, HandlerStep(h) PROVE TypeOK'
  <2>1. CASE GateAbsent(h) \/ GateRefuses(h)
    BY <2>1 DEF GateAbsent, GateRefuses
  <2>2. CASE GateGrants(h)
    BY <2>2, NamedJob DEF GateGrants, RedisReserve, At, Nameless
  <2>3. CASE Check(h) \/ Limit(h) \/ IncrementRefused(h) \/ InsertDuplicate(h) \/ Lookup(h)
    BY <2>3 DEF Check, Limit, IncrementRefused, InsertDuplicate, Lookup
  <2>4. CASE Increment(h)
    BY <2>4, NamedJob DEF Increment, IncrementWrite, BumpVersion, At, Nameless
  <2>5. CASE Insert(h)
    BY <2>5, NamedJob DEF Insert, InsertWrite, Doc, Statuses, At, Nameless
  <2>6. CASE Undo(h)
    BY <2>6, NamedJob DEF Undo, DecrementWrite, BumpVersion, At, Nameless
  <2>7. CASE Ungate(h)
    BY <2>7, NamedJob DEF Ungate, RedisRelease, Floored, At, Nameless
  <2>8. CASE Finalize(h)
    BY <2>8, NamedJob DEF Finalize, StatusWrite, Doc, Statuses, At, Nameless
  <2>9. CASE FinalizeNothing(h) \/ UpdateConflict(h)
    BY <2>9 DEF FinalizeNothing, UpdateConflict
  <2>10. CASE Move(h)
    BY <2>10, NamedJob DEF Move, MoveWrite, BumpVersion, At, Nameless
  <2>11. CASE Clear(h)
    BY <2>11, NamedJob DEF Clear, RedisFinalize, Floored, At, Nameless
  <2>12. CASE CommitUpdate(h)
    BY <2>12 DEF CommitUpdate, BumpVersion
  <2> QED BY <2>1, <2>2, <2>3, <2>4, <2>5, <2>6, <2>7, <2>8, <2>9, <2>10, <2>11, <2>12, <1>2 DEF HandlerStep
<1>3. ASSUME NEW p \in Procs, ReleaseStep(p) PROVE TypeOK'
  <2>1. CASE Release(p)
    BY <2>1, NamedJob DEF Release, StatusWrite, Doc, Statuses, At, Nameless
  <2>2. CASE ReleaseNothing(p)
    BY <2>2 DEF ReleaseNothing
  <2>3. CASE Decrement(p)
    BY <2>3, NamedJob DEF Decrement, DecrementWrite, BumpVersion, At, Nameless
  <2>4. CASE Restore(p)
    BY <2>4, NamedJob DEF Restore, RedisRelease, Floored, At, Nameless
  <2> QED BY <2>1, <2>2, <2>3, <2>4, <1>3 DEF ReleaseStep
<1>4. ASSUME NEW c \in Reconcilers, AcquireLeader(c) \/ ReconcilerStep(c) PROVE TypeOK'
  <2>1. CASE AcquireLeader(c)
    BY <2>1 DEF AcquireLeader
  <2>2. CASE SweepExpired(c)
    BY <2>2 DEF SweepExpired
  <2>3. CASE \E r \in ResIds : SweepNext(c, r)
    BY <2>3 DEF SweepNext
  <2>4. CASE SweepEnds(c)
    BY <2>4 DEF SweepEnds
  <2>5. CASE ListTicket(c)
    BY <2>5, BoundsAssumption DEF ListTicket
  <2>6. CASE SkipSeated(c) \/ Compare(c)
    BY <2>6 DEF SkipSeated, Compare, EndPass
  <2>7. CASE Reseed(c)
    BY <2>7 DEF Reseed, EndPass
  <2> QED BY <2>1, <2>2, <2>3, <2>4, <2>5, <2>6, <2>7, <1>4 DEF ReconcilerStep
<1>5. CASE FaultStep
  <2> USE BoundsAssumption DEF Fault
  <2>1. CASE \E p \in Procs : Crash(p)
    BY <2>1 DEF Crash
  <2>2. CASE \E p \in Procs : MongoError(p)
    BY <2>2 DEF MongoError
  <2>3. CASE \E p \in Procs : LostAck(p)
    <3> PICK p \in Procs : LostAck(p)
      BY <2>3
    <3>1. job[p].pc \notin Nameless => Rid(p) \in ResIds /\ Qty(p) \in 0..MaxQty
      BY NamedJob
    <3>2. /\ resv' \in [ResIds -> [status : Statuses, qty : 0..MaxQty]]
          /\ reserved' \in Int /\ sold' \in Int /\ seated' \in BOOLEAN
          /\ fresh' \subseteq Handlers
      <4>1. CASE At(p, "increment") /\ IncrementWrite(p)
        BY <3>1, <4>1 DEF IncrementWrite, BumpVersion, At, Nameless
      <4>2. CASE At(p, "insert") /\ InsertWrite(p)
        BY <3>1, <4>2 DEF InsertWrite, Doc, Statuses, At, Nameless
      <4>3. CASE (At(p, "undo") \/ At(p, "decrement")) /\ DecrementWrite(p)
        BY <3>1, <4>3 DEF DecrementWrite, BumpVersion, At, Nameless
      <4>4. CASE \/ At(p, "release") /\ StatusWrite(p, "RELEASED")
                 \/ At(p, "finalize") /\ StatusWrite(p, "SOLD")
        BY <3>1, <4>4 DEF StatusWrite, Doc, Statuses, At, Nameless
      <4>5. CASE At(p, "move") /\ MoveWrite(p)
        BY <3>1, <4>5 DEF MoveWrite, BumpVersion, At, Nameless
      <4> QED BY <4>1, <4>2, <4>3, <4>4, <4>5 DEF LostAck
    <3>3. faultCount' \in 0..MaxFaults
      BY DEF LostAck
    <3> QED BY <3>2, <3>3 DEF LostAck
  <2>4. CASE \E p \in Procs : RedisError(p)
    BY <2>4 DEF RedisError
  <2>5. CASE \E h \in Handlers : RedisLostReply(h)
    BY <2>5, NamedJob DEF RedisLostReply, RedisReserve, At, Nameless
  <2>6. CASE \E c \in Reconcilers : ListError(c) \/ ReconcileError(c)
    BY <2>6 DEF ListError, ReconcileError, EndPass
  <2>7. CASE RedisLoss
    <3>1. userRes' \in [Users -> Nat] /\ avail' \in Int
      BY <2>7, SMT DEF RedisLoss
    <3>2. faultCount' \in 0..MaxFaults
      BY <2>7, SMT DEF RedisLoss
    <3>3. availSet' \in BOOLEAN /\ leader' \in Reconcilers \cup {NoLeader}
      BY <2>7, Zenon DEF RedisLoss
    <3> QED BY <2>7, <3>1, <3>2, <3>3 DEF RedisLoss
  <2> QED BY <2>1, <2>2, <2>3, <2>4, <2>5, <2>6, <2>7, <1>5 DEF FaultStep
<1>6. CASE LeaderKeyExpires \/ \E r \in ResIds : Expire(r)
    BY <1>6 DEF LeaderKeyExpires, Expire
<1> QED BY <1>1, <1>2, <1>3, <1>4, <1>5, <1>6 DEF Next

(* Every variable of the ticket inventory keeps its type in every          *)
(* behaviour, faults included.                                             *)
THEOREM TypeCorrect == Spec => []TypeOK
<1>1. Init => TypeOK
  <2> SUFFICES ASSUME Init PROVE TypeOK
    OBVIOUS
  <2>1. job \in [Procs -> Jobs]
    BY NamelessJob DEF Init, IdleJob, Nameless
  <2>2. availSet \in BOOLEAN /\ seated \in BOOLEAN
    BY Zenon DEF Init
  <2>3. /\ reserved \in Int /\ sold \in Int /\ avail \in Int
        /\ userRes \in [Users -> Nat] /\ snapshot \in [Reconcilers -> Int]
    BY BoundsAssumption, SMT DEF Init
  <2>6. faultCount \in 0..MaxFaults
    <3>1. availSet = TRUE \/ MaxFaults > 0
      BY Zenon DEF Init
    <3>2. faultCount = 0 \/ (faultCount = 1 /\ MaxFaults > 0)
      BY <3>1, Zenon DEF Init
    <3> QED BY <3>2, BoundsAssumption, SMT
  <2>4. resv \in [ResIds -> [status : Statuses, qty : 0..MaxQty]]
    BY BoundsAssumption, SMT DEF Init, Doc, Statuses
  <2>5. /\ expired \subseteq ResIds /\ leader \in Reconcilers \cup {NoLeader}
        /\ fresh \subseteq Handlers /\ batch \in [Reconcilers -> SUBSET ResIds]
    BY DEF Init
  <2> QED BY <2>1, <2>2, <2>3, <2>4, <2>5, <2>6 DEF TypeOK
<1> QED BY <1>1, TypeStep, PTL DEF Spec

-----------------------------------------------------------------------------
(* The counters cover the documents.                                       *)

(* A table of weights is a table of quantities over a finite set.          *)
LEMMA WeightsTyped ==
    ASSUME TypeOK, NEW S, NEW L
    PROVE  /\ IsFiniteSet(ResIds \cup Procs)
           /\ Weights(S, L) \in [ResIds \cup Procs -> 0..MaxQty]
           /\ \A r \in ResIds : DocUnits(S, resv[r]) \in 0..MaxQty
           /\ \A p \in Procs : JobUnits(L, job[p]) \in 0..MaxQty
<1>1. IsFiniteSet(ResIds \cup Procs)
    BY ProcsAssumption, ResIdsAssumption, FS_Union DEF Procs
<1>2. \A r \in ResIds : DocUnits(S, resv[r]) \in 0..MaxQty
    BY BoundsAssumption DEF TypeOK, DocUnits
<1>3. \A p \in Procs : JobUnits(L, job[p]) \in 0..MaxQty
    BY BoundsAssumption DEF TypeOK, Jobs, JobUnits
<1> QED BY <1>1, <1>2, <1>3 DEF Weights

(* A step of process p that touches no document but r's changes a tally by *)
(* what it does to these two.                                              *)
LEMMA WeightsStep ==
    ASSUME TypeOK, TypeOK', NEW CONSTANT S, NEW CONSTANT L, NEW p \in Procs, NEW r \in ResIds,
           \A o \in Procs \ {p} : job'[o] = job[o],
           \A o \in ResIds \ {r} : resv'[o] = resv[o]
    PROVE  Tally(Weights(S, L), MaxQty)' =
               Tally(Weights(S, L), MaxQty)
                   + (DocUnits(S, resv'[r]) - DocUnits(S, resv[r]))
                   + (JobUnits(L, job'[p]) - JobUnits(L, job[p]))
<1> PICK w : w = Weights(S, L)
    OBVIOUS
<1> PICK v : v = Weights(S, L)'
    OBVIOUS
<1>1. IsFiniteSet(ResIds \cup Procs) /\ w \in [ResIds \cup Procs -> 0..MaxQty]
    BY WeightsTyped
<1>2. v \in [ResIds \cup Procs -> 0..MaxQty]
    BY BoundsAssumption DEF TypeOK, Jobs, Weights, DocUnits, JobUnits
<1>3. p # r /\ p \notin ResIds /\ MaxQty \in Nat
    BY ResIdsAssumption, BoundsAssumption
<1>4. \A o \in (ResIds \cup Procs) \ {r, p} : v[o] = w[o]
    BY DEF Weights
<1>5. Tally(v, MaxQty) = Tally(w, MaxQty) + (v[r] - w[r]) + (v[p] - w[p])
    BY <1>1, <1>2, <1>3, <1>4, TallyTwo
<1>6. /\ w[r] = DocUnits(S, resv[r]) /\ w[p] = JobUnits(L, job[p])
      /\ v[r] = DocUnits(S, resv'[r]) /\ v[p] = JobUnits(L, job'[p])
    BY <1>3 DEF Weights
<1>7. Tally(Weights(S, L), MaxQty)' = Tally(v, MaxQty)
    BY DEF Tally, UnitsOf
<1> QED BY <1>5, <1>6, <1>7

(* The counters cover all but e units.  Without lost acknowledgements e is  *)
(* zero.                                                                   *)
Covers(e) ==
    /\ Tally(Weights({"RESERVED"}, OwesReserved), MaxQty) <= reserved + e
    /\ Tally(Weights({"RESERVED", "SOLD"}, OwesTaken), MaxQty) <= reserved + sold + e
    /\ WithinQuota

(* Such a step leaves the counters covering all but f units when each of   *)
(* them moves by at least what its tally moves by, but for f - e units,    *)
(* and their sum stays within the quota.                                   *)
LEMMA CoversMore ==
    ASSUME TypeOK, TypeOK', NEW CONSTANT e \in Nat, NEW CONSTANT f \in Nat, Covers(e),
           NEW p \in Procs, NEW r \in ResIds,
           \A o \in Procs \ {p} : job'[o] = job[o],
           \A o \in ResIds \ {r} : resv'[o] = resv[o],
           (DocUnits({"RESERVED"}, resv'[r]) - DocUnits({"RESERVED"}, resv[r]))
             + (JobUnits(OwesReserved, job'[p]) - JobUnits(OwesReserved, job[p]))
             <= (reserved' - reserved) + (f - e),
           (DocUnits({"RESERVED", "SOLD"}, resv'[r]) - DocUnits({"RESERVED", "SOLD"}, resv[r]))
             + (JobUnits(OwesTaken, job'[p]) - JobUnits(OwesTaken, job[p]))
             <= ((reserved' + sold') - (reserved + sold)) + (f - e),
           reserved' + sold' <= Quota
    PROVE  Covers(f)'
<1> PICK rt : rt = Tally(Weights({"RESERVED"}, OwesReserved), MaxQty)
    OBVIOUS
<1> PICK tt : tt = Tally(Weights({"RESERVED", "SOLD"}, OwesTaken), MaxQty)
    OBVIOUS
<1>1. rt \in Nat /\ tt \in Nat
    BY WeightsTyped, TallyType, BoundsAssumption
<1>2. \A S : DocUnits(S, resv[r]) \in 0..MaxQty /\ DocUnits(S, resv'[r]) \in 0..MaxQty
    BY BoundsAssumption DEF TypeOK, DocUnits
<1>3. \A L : JobUnits(L, job[p]) \in 0..MaxQty /\ JobUnits(L, job'[p]) \in 0..MaxQty
    BY BoundsAssumption DEF TypeOK, Jobs, JobUnits
<1>4. rt <= reserved + e /\ tt <= reserved + sold + e
    BY DEF Covers
<1>5. reserved \in Int /\ sold \in Int /\ reserved' \in Int /\ sold' \in Int
    BY DEF TypeOK
<1>6. Tally(Weights({"RESERVED"}, OwesReserved), MaxQty)' <= reserved' + f
  <2>1. Tally(Weights({"RESERVED"}, OwesReserved), MaxQty)' = rt
            + (DocUnits({"RESERVED"}, resv'[r]) - DocUnits({"RESERVED"}, resv[r]))
            + (JobUnits(OwesReserved, job'[p]) - JobUnits(OwesReserved, job[p]))
    BY WeightsStep
  <2> QED BY <1>1, <1>2, <1>3, <1>4, <1>5, <2>1
<1>7. Tally(Weights({"RESERVED", "SOLD"}, OwesTaken), MaxQty)' <= reserved' + sold' + f
  <2>1. Tally(Weights({"RESERVED", "SOLD"}, OwesTaken), MaxQty)' = tt
            + (DocUnits({"RESERVED", "SOLD"}, resv'[r]) - DocUnits({"RESERVED", "SOLD"}, resv[r]))
            + (JobUnits(OwesTaken, job'[p]) - JobUnits(OwesTaken, job[p]))
    BY WeightsStep
  <2> QED BY <1>1, <1>2, <1>3, <1>4, <1>5, <2>1
<1> QED BY <1>6, <1>7 DEF Covers, WithinQuota

(* No more units are left out when nothing is.                             *)
LEMMA CoversAfter ==
    ASSUME TypeOK, TypeOK', NEW CONSTANT e \in Nat, Covers(e), NEW p \in Procs, NEW r \in ResIds,
           \A o \in Procs \ {p} : job'[o] = job[o],
           \A o \in ResIds \ {r} : resv'[o] = resv[o],
           (DocUnits({"RESERVED"}, resv'[r]) - DocUnits({"RESERVED"}, resv[r]))
             + (JobUnits(OwesReserved, job'[p]) - JobUnits(OwesReserved, job[p]))
             <= reserved' - reserved,
           (DocUnits({"RESERVED", "SOLD"}, resv'[r]) - DocUnits({"RESERVED", "SOLD"}, resv[r]))
             + (JobUnits(OwesTaken, job'[p]) - JobUnits(OwesTaken, job[p]))
             <= (reserved' + sold') - (reserved + sold),
           reserved' + sold' <= Quota
    PROVE  Covers(e)'
<1>1. /\ \A S : DocUnits(S, resv[r]) \in Int /\ DocUnits(S, resv'[r]) \in Int
      /\ \A L : JobUnits(L, job[p]) \in Int /\ JobUnits(L, job'[p]) \in Int
    BY BoundsAssumption DEF TypeOK, Jobs, DocUnits, JobUnits
<1>2. reserved \in Int /\ sold \in Int /\ reserved' \in Int /\ sold' \in Int
    BY DEF TypeOK
<1>3. /\ (DocUnits({"RESERVED"}, resv'[r]) - DocUnits({"RESERVED"}, resv[r]))
            + (JobUnits(OwesReserved, job'[p]) - JobUnits(OwesReserved, job[p]))
            <= (reserved' - reserved) + (e - e)
      /\ (DocUnits({"RESERVED", "SOLD"}, resv'[r]) - DocUnits({"RESERVED", "SOLD"}, resv[r]))
            + (JobUnits(OwesTaken, job'[p]) - JobUnits(OwesTaken, job[p]))
            <= ((reserved' + sold') - (reserved + sold)) + (e - e)
    BY <1>1, <1>2
<1> QED BY <1>3, CoversMore

(* In particular, a step that leaves documents and counters alone and does *)
(* not take its process into a step that owes something.                   *)
LEMMA OwingNothing ==
    ASSUME TypeOK, TypeOK', NEW CONSTANT e \in Nat, Covers(e), NEW p \in Procs, NEW j, Become(p, j),
           j.pc \notin OwesReserved, UNCHANGED <<reserved, sold, resv>>
    PROVE  Covers(e)'
<1> PICK r \in ResIds : TRUE
    BY ResIdsAssumption
<1>1. job'[p] = j /\ \A o \in Procs \ {p} : job'[o] = job[o]
    BY DEF Become, TypeOK
<1>2. JobUnits(OwesReserved, job'[p]) = 0 /\ JobUnits(OwesTaken, job'[p]) = 0
    BY <1>1 DEF JobUnits, OwesReserved, OwesTaken
<1>3. \A L : JobUnits(L, job[p]) \in 0..MaxQty
    BY WeightsTyped
<1>4. \A S : DocUnits(S, resv[r]) \in 0..MaxQty /\ DocUnits(S, resv'[r]) = DocUnits(S, resv[r])
    BY WeightsTyped
<1>5. reserved \in Int /\ sold \in Int /\ reserved' = reserved /\ sold' = sold
    BY DEF TypeOK
<1>6. reserved' + sold' <= Quota
    BY DEF Covers, WithinQuota
<1>7. /\ JobUnits(OwesReserved, job[p]) \in Nat /\ JobUnits(OwesTaken, job[p]) \in Nat
      /\ DocUnits({"RESERVED"}, resv[r]) \in Nat
      /\ DocUnits({"RESERVED", "SOLD"}, resv[r]) \in Nat
    BY <1>3, <1>4
<1>8. /\ (DocUnits({"RESERVED"}, resv'[r]) - DocUnits({"RESERVED"}, resv[r]))
             + (JobUnits(OwesReserved, job'[p]) - JobUnits(OwesReserved, job[p]))
             <= reserved' - reserved
      /\ (DocUnits({"RESERVED", "SOLD"}, resv'[r]) - DocUnits({"RESERVED", "SOLD"}, resv[r]))
             + (JobUnits(OwesTaken, job'[p]) - JobUnits(OwesTaken, job[p]))
             <= (reserved' + sold') - (reserved + sold)
    BY <1>2, <1>4, <1>5, <1>7
<1> QED BY <1>1, <1>6, <1>8, CoversAfter

(* The steps that write a document or a counter.  In each, the documents   *)
(* and the jobs other than the process's own stay, and the arithmetic of   *)
(* CoversAfter is that of one status, one step and two counters.           *)
LEMMA WritesCover ==
    ASSUME TypeOK, TypeOK', NEW CONSTANT e \in Nat, Covers(e), NEW p \in Procs,
           \/ Increment(p) \/ Insert(p) \/ Undo(p)
           \/ Release(p) \/ Decrement(p) \/ Finalize(p) \/ Move(p)
    PROVE  Covers(e)'
<1> USE DEF At
<1>1. Rid(p) \in ResIds /\ Qty(p) \in 0..MaxQty
    BY NamedJob DEF Nameless, Increment, Insert, Undo, Release, Decrement, Finalize, Move
<1>2. PICK r \in ResIds, q \in 0..MaxQty : r = Rid(p) /\ q = Qty(p)
    BY <1>1
<1>3. q \in Nat /\ job[p].qty = q /\ job[p].rid = r
    BY <1>2, BoundsAssumption DEF Rid, Qty
<1>4. /\ reserved \in Int /\ sold \in Int /\ reserved + sold <= Quota
      /\ resv[r].qty \in Nat /\ Quota \in Nat
    BY BoundsAssumption DEF TypeOK, Covers, WithinQuota
<1>5. ASSUME NEW j, Become(p, j)
      PROVE  job'[p] = j /\ \A o \in Procs \ {p} : job'[o] = job[o]
    BY <1>5 DEF Become, TypeOK
<1>6. \A d : resv' = [resv EXCEPT ![r] = d] =>
            resv'[r] = d /\ \A o \in ResIds \ {r} : resv'[o] = resv[o]
    BY DEF TypeOK
<1> USE DEF DocUnits, JobUnits, OwesReserved, OwesTaken
<1>7. CASE Increment(p)
  <2>1. /\ job[p].pc = "increment" /\ job'[p].pc = "insert" /\ job'[p].qty = q
        /\ \A o \in Procs \ {p} : job'[o] = job[o]
    BY <1>2, <1>3, <1>5, <1>7 DEF Increment, Goto, Moved, Job
  <2>2. /\ resv' = resv /\ reserved' = reserved + q /\ sold' = sold
        /\ reserved + sold + q <= Quota
    BY <1>2, <1>3, <1>6, <1>7 DEF Increment, IncrementWrite, HasRoom
  <2> QED BY <1>3, <1>4, <1>7, <2>1, <2>2, CoversAfter DEF Increment
<1>8. CASE Insert(p)
  <2>1. /\ job[p].pc = "insert" /\ job'[p].pc = "idle" /\ job'[p].qty = 0
        /\ \A o \in Procs \ {p} : job'[o] = job[o]
    BY <1>2, <1>3, <1>5, <1>8 DEF Insert, IdleJob, Starting, Job
  <2>2. /\ resv[r].status = "NONE" /\ resv'[r] = [status |-> "RESERVED", qty |-> q]
        /\ \A o \in ResIds \ {r} : resv'[o] = resv[o]
        /\ reserved' = reserved /\ sold' = sold
    BY <1>2, <1>3, <1>6, <1>8 DEF Insert, InsertWrite, Doc, ticket
  <2> QED BY <1>3, <1>4, <1>8, <2>1, <2>2, CoversAfter DEF Insert
<1>9. CASE Undo(p)
  <2>1. /\ job[p].pc = "undo" /\ job'[p].pc \notin OwesReserved
        /\ \A o \in Procs \ {p} : job'[o] = job[o]
    BY <1>2, <1>3, <1>5, <1>9 DEF Undo, Unwound, IdleJob, Starting, Job
  <2>2. /\ resv' = resv /\ reserved' = reserved - q /\ sold' = sold
    BY <1>2, <1>3, <1>6, <1>9 DEF Undo, DecrementWrite
  <2> QED BY <1>3, <1>4, <1>9, <2>1, <2>2, CoversAfter DEF Undo
<1>10. CASE Release(p)
  <2>1. /\ job[p].pc = "release" /\ job'[p].pc = "decrement" /\ job'[p].qty = resv[r].qty
        /\ \A o \in Procs \ {p} : job'[o] = job[o]
    BY <1>2, <1>3, <1>5, <1>10 DEF Release, Starting, Job
  <2>2. /\ resv[r].status = "RESERVED" /\ resv'[r] = [status |-> "RELEASED", qty |-> resv[r].qty]
        /\ \A o \in ResIds \ {r} : resv'[o] = resv[o]
        /\ reserved' = reserved /\ sold' = sold
    BY <1>2, <1>3, <1>6, <1>10 DEF Release, StatusWrite, Doc, ticket
  <2> QED BY <1>3, <1>4, <1>10, <2>1, <2>2, CoversAfter DEF Release
<1>11. CASE Decrement(p)
  <2>1. /\ job[p].pc = "decrement" /\ job'[p].pc = "restore"
        /\ \A o \in Procs \ {p} : job'[o] = job[o]
    BY <1>2, <1>3, <1>5, <1>11 DEF Decrement, Goto, Moved, Job
  <2>2. /\ resv' = resv /\ reserved' = reserved - q /\ sold' = sold
    BY <1>2, <1>3, <1>6, <1>11 DEF Decrement, DecrementWrite
  <2> QED BY <1>3, <1>4, <1>11, <2>1, <2>2, CoversAfter DEF Decrement
<1>12. CASE Finalize(p)
  <2>1. /\ job[p].pc = "finalize" /\ job'[p].pc = "move" /\ job'[p].qty = resv[r].qty
        /\ \A o \in Procs \ {p} : job'[o] = job[o]
    BY <1>2, <1>3, <1>5, <1>12 DEF Finalize, Starting, Job
  <2>2. /\ resv[r].status = "RESERVED" /\ resv'[r] = [status |-> "SOLD", qty |-> resv[r].qty]
        /\ \A o \in ResIds \ {r} : resv'[o] = resv[o]
        /\ reserved' = reserved /\ sold' = sold
    BY <1>2, <1>3, <1>6, <1>12 DEF Finalize, StatusWrite, Doc, ticket
  <2> QED BY <1>3, <1>4, <1>12, <2>1, <2>2, CoversAfter DEF Finalize
<1>13. CASE Move(p)
  <2>1. /\ job[p].pc = "move" /\ job'[p].pc = "clear"
        /\ \A o \in Procs \ {p} : job'[o] = job[o]
    BY <1>2, <1>3, <1>5, <1>13 DEF Move, Goto, Moved, Job
  <2>2. /\ resv' = resv /\ reserved' = reserved - q /\ sold' = sold + q
    BY <1>2, <1>3, <1>6, <1>13 DEF Move, MoveWrite
  <2> QED BY <1>3, <1>4, <1>13, <2>1, <2>2, CoversAfter DEF Move
<1> QED BY <1>7, <1>8, <1>9, <1>10, <1>11, <1>12, <1>13

(* A failed insert, duplicate or not, goes on to its compensation.         *)
LEMMA ToUndoCovers ==
    ASSUME TypeOK, TypeOK', NEW CONSTANT e \in Nat, Covers(e), NEW p \in Procs, At(p, "insert"),
           Goto(p, "undo"), UNCHANGED <<reserved, sold, resv>>
    PROVE  Covers(e)'
<1>1. /\ job'[p].pc = "undo" /\ job'[p].qty = job[p].qty
      /\ \A o \in Procs \ {p} : job'[o] = job[o]
    BY DEF Goto, Become, Moved, Job, Qty, TypeOK
<1>2. \A L \in {OwesReserved, OwesTaken} :
          JobUnits(L, job'[p]) = JobUnits(L, job[p]) /\ JobUnits(L, job[p]) \in 0..MaxQty
    BY <1>1, WeightsTyped DEF At, JobUnits, OwesReserved, OwesTaken
<1> PICK r \in ResIds : TRUE
    BY ResIdsAssumption
<1>3. \A S : DocUnits(S, resv'[r]) = DocUnits(S, resv[r]) /\ DocUnits(S, resv[r]) \in 0..MaxQty
    BY WeightsTyped
<1>4. reserved \in Int /\ sold \in Int /\ reserved + sold <= Quota
    BY DEF TypeOK, Covers, WithinQuota
<1> QED BY <1>1, <1>2, <1>3, <1>4, CoversAfter

(* The error path of a MongoDB call keeps the counters covering.           *)
LEMMA MongoErrorCovers ==
    ASSUME TypeOK, TypeOK', NEW CONSTANT e \in Nat, Covers(e), NEW p \in Procs,
           MongoErrorPath(p), UNCHANGED <<reserved, sold, resv>>
    PROVE  Covers(e)'
<1>1. CASE At(p, "insert")
  <2>1. Goto(p, "undo")
    BY <1>1 DEF MongoErrorPath, At
  <2> QED BY <1>1, <2>1, ToUndoCovers
<1>2. CASE ~At(p, "insert")
  <2>1. PICK j : Become(p, j) /\ j.pc \notin OwesReserved
    BY <1>2
    DEF MongoErrorPath, Goto, Moved, Job, Unwound, IdleJob, Done, Starting, OwesReserved
  <2> QED BY <2>1, OwingNothing
<1> QED BY <1>1, <1>2

(* Every step keeps the counters covering, provided no write is applied    *)
(* and then reported as failed.                                            *)
LEMMA CountersStep ==
    ASSUME TypeOK, TypeOK', NEW CONSTANT e \in Nat, Covers(e), [Next]_vars,
           \A p \in Procs : ~LostAck(p)
    PROVE  Covers(e)'
<1>0. ASSUME UNCHANGED <<reserved, sold, resv, job>> PROVE Covers(e)'
    BY <1>0 DEF Covers, WithinQuota, Weights,
                Tally, UnitsOf
<1> USE DEF Procs
<1> DEFINE Light == \E p \in Procs : \E j :
               /\ Become(p, j) /\ j.pc \notin OwesReserved
               /\ UNCHANGED <<reserved, sold, resv>>
<1>l. Light => Covers(e)'
    BY OwingNothing
<1> USE DEF ticket, IdleJob, Starting, Job, OwesReserved
<1>1. ASSUME NEW h \in Handlers, Request(h) PROVE Light
    BY <1>1 DEF Request, ReserveQuota, ReleaseReservation, FinalizeReservation, UpdateTicket
<1>2. ASSUME NEW h \in Handlers, HandlerStep(h) PROVE Covers(e)'
  <2>1. CASE GateAbsent(h) \/ GateRefuses(h) \/ GateGrants(h)
    BY <1>l, <2>1 DEF GateAbsent, GateRefuses, GateGrants, Goto, Moved
  <2>2. CASE Check(h) \/ Limit(h) \/ IncrementRefused(h)
    BY <1>l, <2>2 DEF Check, Limit, IncrementRefused, Moved, Unwound
  <2>3. CASE Increment(h) \/ Insert(h) \/ Undo(h) \/ Finalize(h) \/ Move(h)
    BY <2>3, WritesCover
  <2>4. CASE InsertDuplicate(h)
    BY <2>4, ToUndoCovers DEF InsertDuplicate
  <2>5. CASE Ungate(h) \/ Lookup(h)
    BY <1>l, <2>5 DEF Ungate, Lookup, Goto, Moved
  <2>6. CASE FinalizeNothing(h) \/ Clear(h)
    BY <1>l, <2>6 DEF FinalizeNothing, Clear, Done
  <2>7. CASE CommitUpdate(h) \/ UpdateConflict(h)
    BY <1>l, <2>7 DEF CommitUpdate, UpdateConflict
  <2> QED BY <1>2, <2>1, <2>2, <2>3, <2>4, <2>5, <2>6, <2>7 DEF HandlerStep
<1>3. ASSUME NEW p \in Procs, ReleaseStep(p) PROVE Covers(e)'
  <2>1. CASE Release(p) \/ Decrement(p)
    BY <2>1, WritesCover
  <2>2. CASE ReleaseNothing(p) \/ Restore(p)
    BY <1>l, <2>2 DEF ReleaseNothing, Restore, Done
  <2> QED BY <1>3, <2>1, <2>2 DEF ReleaseStep
<1>4. ASSUME NEW c \in Reconcilers, AcquireLeader(c) \/ ReconcilerStep(c) PROVE Light
  <2>1. CASE AcquireLeader(c) \/ SweepExpired(c) \/ \E r \in ResIds : SweepNext(c, r)
    BY <2>1 DEF AcquireLeader, SweepExpired, SweepNext, Goto, Moved
  <2>2. CASE SweepEnds(c) \/ ListTicket(c) \/ SkipSeated(c)
    BY <2>2 DEF SweepEnds, ListTicket, SkipSeated, EndPass, Goto, Moved
  <2>3. CASE Compare(c) \/ Reseed(c)
    BY <2>3 DEF Compare, Reseed, EndPass, Goto, Moved
  <2> QED BY <1>4, <2>1, <2>2, <2>3 DEF ReconcilerStep
<1>5. CASE FaultStep
  <2>1. CASE \E p \in Procs : Crash(p)
    BY <1>l, <2>1 DEF Crash
  <2>2. CASE \E p \in Procs : MongoError(p)
    BY <2>2, MongoErrorCovers DEF MongoError
  <2>3. CASE \E p \in Procs : LostAck(p)
    BY <2>3
  <2>4. CASE \E p \in Procs : RedisError(p)
    BY <1>l, <2>4 DEF RedisError, RedisErrorPath, Done, Goto, Moved
  <2>5. CASE \E h \in Handlers : RedisLostReply(h)
    BY <1>l, <2>5 DEF RedisLostReply, RedisErrorPath, Done, Goto, Moved
  <2>6. CASE \E c \in Reconcilers : ListError(c) \/ ReconcileError(c)
    BY <1>l, <2>6 DEF ListError, ReconcileError, EndPass
  <2>7. CASE RedisLoss
    BY <1>0, <2>7 DEF RedisLoss
  <2> QED BY <1>5, <2>1, <2>2, <2>3, <2>4, <2>5, <2>6, <2>7 DEF FaultStep
<1>6. CASE LeaderKeyExpires \/ \E r \in ResIds : Expire(r)
    BY <1>0, <1>6 DEF LeaderKeyExpires, Expire
<1>7. CASE UNCHANGED vars
    BY <1>0, <1>7 DEF vars
<1> QED BY <1>l, <1>1, <1>2, <1>3, <1>4, <1>5, <1>6, <1>7 DEF Next

(* A write that is applied and reported as failed hides the units of one   *)
(* call: the insert whose document is there and undone all the same.       *)
LEMMA LostAckCovers ==
    ASSUME TypeOK, TypeOK', NEW CONSTANT e \in Nat, Covers(e), NEW p \in Procs, LostAck(p)
    PROVE  Covers(e + MaxQty)'
<1> USE DEF At
<1>1. PICK r \in ResIds, q \in 0..MaxQty : r = Rid(p) /\ q = Qty(p)
    BY NamedJob DEF Nameless, LostAck
<1>2. q \in Nat /\ q <= MaxQty /\ job[p].qty = q /\ job[p].rid = r /\ MaxQty \in Nat
    BY <1>1, BoundsAssumption DEF Rid, Qty
<1>3. /\ reserved \in Int /\ sold \in Int /\ reserved + sold <= Quota
      /\ resv[r].qty \in 0..MaxQty /\ Quota \in Nat
    BY BoundsAssumption DEF TypeOK, Covers, WithinQuota
<1>4. PICK j : Become(p, j) /\ (j.pc \in OwesReserved => At(p, "insert") /\ j.pc = "undo" /\ j.qty = q)
    BY <1>1, <1>2 DEF LostAck, MongoErrorPath, Goto, Moved, Job, Unwound, IdleJob, Done, Starting, OwesReserved, Qty
<1>5. job'[p] = j /\ \A o \in Procs \ {p} : job'[o] = job[o]
    BY <1>4 DEF Become, TypeOK
<1>6. \A d : resv' = [resv EXCEPT ![r] = d] =>
            resv'[r] = d /\ \A o \in ResIds \ {r} : resv'[o] = resv[o]
    BY DEF TypeOK
<1>7. e + MaxQty \in Nat /\ (e + MaxQty) - e = MaxQty
    BY <1>2
<1> USE DEF DocUnits, JobUnits, OwesReserved, OwesTaken
<1>8. CASE At(p, "increment")
  <2>1. /\ resv' = resv /\ reserved' = reserved + q /\ sold' = sold
        /\ reserved + sold + q <= Quota
    BY <1>1, <1>8 DEF LostAck, IncrementWrite, HasRoom
  <2> QED BY <1>2, <1>3, <1>4, <1>5, <1>7, <1>8, <2>1, CoversMore
<1>9. CASE At(p, "insert")
  <2>1. /\ resv[r].status = "NONE" /\ resv'[r] = [status |-> "RESERVED", qty |-> q]
        /\ \A o \in ResIds \ {r} : resv'[o] = resv[o]
        /\ reserved' = reserved /\ sold' = sold
    BY <1>1, <1>6, <1>9 DEF LostAck, InsertWrite, Doc, ticket
  <2>2. j.pc = "undo" /\ j.qty = q
    BY <1>1, <1>2, <1>5, <1>9 DEF LostAck, MongoErrorPath, Goto, Become, Moved, Job, Qty, TypeOK
  <2> QED BY <1>2, <1>3, <1>5, <1>7, <1>9, <2>1, <2>2, CoversMore
<1>10. CASE At(p, "undo") \/ At(p, "decrement")
  <2>1. resv' = resv /\ reserved' = reserved - q /\ sold' = sold
    BY <1>1, <1>10 DEF LostAck, DecrementWrite
  <2> QED BY <1>2, <1>3, <1>4, <1>5, <1>7, <1>10, <2>1, CoversMore
<1>11. CASE At(p, "release") \/ At(p, "finalize")
  <2>1. /\ resv[r].status = "RESERVED" /\ resv'[r].qty = resv[r].qty
        /\ resv'[r].status \in {"RELEASED", "SOLD"}
        /\ \A o \in ResIds \ {r} : resv'[o] = resv[o]
        /\ reserved' = reserved /\ sold' = sold
    BY <1>1, <1>6, <1>11 DEF LostAck, StatusWrite, Doc, ticket
  <2> QED BY <1>2, <1>3, <1>4, <1>5, <1>7, <1>11, <2>1, CoversMore
<1>12. CASE At(p, "move")
  <2>1. resv' = resv /\ reserved' = reserved - q /\ sold' = sold + q
    BY <1>1, <1>12 DEF LostAck, MoveWrite
  <2> QED BY <1>2, <1>3, <1>4, <1>5, <1>7, <1>12, <2>1, CoversMore
<1> QED BY <1>8, <1>9, <1>10, <1>11, <1>12 DEF LostAck

LEMMA TalliesStart ==
    ASSUME Init
    PROVE  /\ Tally(Weights({"RESERVED"}, OwesReserved), MaxQty) = 0
           /\ Tally(Weights({"RESERVED", "SOLD"}, OwesTaken), MaxQty) = 0
<1>1. Weights({"RESERVED"}, OwesReserved) = [o \in ResIds \cup Procs |-> 0]
    BY DEF Init, Weights, DocUnits, JobUnits, Doc, IdleJob, Starting, Job, OwesReserved
<1>2. Weights({"RESERVED", "SOLD"}, OwesTaken) = [o \in ResIds \cup Procs |-> 0]
    BY DEF Init, Weights, DocUnits, JobUnits, Doc, IdleJob, Starting, Job, OwesTaken
<1>3. IsFiniteSet(ResIds \cup Procs)
    BY ProcsAssumption, ResIdsAssumption, FS_Union DEF Procs
<1>4. Tally([o \in ResIds \cup Procs |-> 0], MaxQty) = 0
    BY <1>3, TallyZero, BoundsAssumption
<1> QED BY <1>1, <1>2, <1>4

(* As long as a write that is reported as failed was not applied, the      *)
(* counters of the ticket document cover the reservation documents and     *)
(* everything in flight between the two, in every behaviour of             *)
(* CreateReservation, ReleaseReservation, FinalizeReservation and the      *)
(* sweep, with crashes, failed calls and loss of Redis.                    *)
THEOREM CountersHold ==
    ASSUME "lostAck" \notin Faults
    PROVE  Spec => []CountersCover
<1>1. Init => CountersCover
  <2> SUFFICES ASSUME Init PROVE CountersCover
    OBVIOUS
  <2>1. reserved = 0 /\ sold = 0 /\ Quota \in Nat
    BY BoundsAssumption DEF Init
  <2> QED BY <2>1, TalliesStart DEF CountersCover, ReservedCovers, TakenCovers, WithinQuota
<1>2. TypeOK /\ TypeOK' /\ CountersCover /\ [Next]_vars => CountersCover'
  <2> SUFFICES ASSUME TypeOK, TypeOK', CountersCover, [Next]_vars PROVE CountersCover'
    OBVIOUS
  <2>1. reserved \in Int /\ sold \in Int /\ reserved' \in Int /\ sold' \in Int
    BY DEF TypeOK
  <2>2. Covers(0)
    BY <2>1 DEF Covers, CountersCover, ReservedCovers, TakenCovers
  <2>3. Covers(0)'
    BY <2>2, CountersStep DEF LostAck, Fault
  <2> QED BY <2>1, <2>3 DEF Covers, CountersCover, ReservedCovers, TakenCovers, WithinQuota
<1> QED BY <1>1, <1>2, TypeCorrect, PTL DEF Spec

(* The claims of the ledger are among the weights.                         *)
LEMMA ClaimsCovered ==
    ASSUME TypeOK, CountersCover
    PROVE  /\ Ledger!Claims(resv) \in [ResIds -> 0..MaxQty]
           /\ Tally(Ledger!Claims(resv), MaxQty) \in Nat
           /\ \A p \in Procs : At(p, "insert") /\ resv[Rid(p)].status = "NONE" =>
                  Tally(Ledger!Claims(resv), MaxQty) + Qty(p) <= Quota
           /\ NoOversell
<1> PICK c : c = Ledger!Claims(resv)
    OBVIOUS
<1> PICK w : w = Weights({"RESERVED", "SOLD"}, OwesTaken)
    OBVIOUS
<1>1. c \in [ResIds -> 0..MaxQty]
    BY BoundsAssumption DEF TypeOK, Ledger!Claims
<1>2. /\ IsFiniteSet(ResIds) /\ IsFiniteSet(ResIds \cup Procs) /\ MaxQty \in Nat
      /\ w \in [ResIds \cup Procs -> 0..MaxQty]
    BY WeightsTyped, ResIdsAssumption, BoundsAssumption
<1>3. \A r \in ResIds : c[r] = w[r]
    BY DEF Ledger!Claims, Weights, DocUnits
<1>4. Tally(c, MaxQty) \in Nat /\ Tally(w, MaxQty) \in Nat
    BY <1>1, <1>2, TallyType
<1>5. Tally(w, MaxQty) <= Quota
    BY <1>4, BoundsAssumption DEF CountersCover, TakenCovers, WithinQuota, TypeOK
<1>6. Tally(c, MaxQty) <= Quota
  <2>1. Tally(c, MaxQty) <= Tally(w, MaxQty)
    BY <1>1, <1>2, <1>3, TallyMonotone
  <2> QED BY <1>4, <1>5, <2>1, BoundsAssumption
<1>7. ASSUME NEW p \in Procs, At(p, "insert")
      PROVE  Tally(c, MaxQty) + Qty(p) <= Quota
  <2>1. p \notin ResIds /\ w[p] = Qty(p) /\ Qty(p) \in 0..MaxQty
    BY <1>2, <1>7, ResIdsAssumption DEF Weights, JobUnits, OwesTaken, At, Qty
  <2>2. PICK v \in [ResIds \cup Procs -> 0..MaxQty] :
            v[p] = 0 /\ \A o \in (ResIds \cup Procs) \ {p} : v[o] = w[o]
    <3>1. [w EXCEPT ![p] = 0] \in [ResIds \cup Procs -> 0..MaxQty]
      BY <1>2
    <3> QED BY <1>2, <3>1
  <2>3. Tally(w, MaxQty) = Tally(v, MaxQty) + (w[p] - v[p])
    BY <1>2, <2>2, TallyOne
  <2>4. Tally(c, MaxQty) <= Tally(v, MaxQty) /\ Tally(v, MaxQty) \in Nat
    <3>1. \A r \in ResIds : c[r] <= v[r]
      BY <1>1, <1>3, <2>1, <2>2
    <3> QED BY <1>1, <1>2, <2>2, <3>1, TallyMonotone, TallyType
  <2> QED BY <1>4, <1>5, <2>1, <2>2, <2>3, <2>4, BoundsAssumption
<1> QED BY <1>1, <1>4, <1>6, <1>7 DEF NoOversell

(* The ticket is never oversold: the quantities of its RESERVED and SOLD   *)
(* reservations never add up to more than its quota.                       *)
THEOREM NeverOversold ==
    ASSUME "lostAck" \notin Faults
    PROVE  Spec => []NoOversell
<1>1. TypeOK /\ CountersCover => NoOversell
    BY ClaimsCovered
<1> QED BY <1>1, TypeCorrect, CountersHold, PTL

(* The service implements the abstract ledger.  A step that writes no      *)
(* reservation document is a stutter; the insert is a Hold, and it is      *)
(* within the quota because the counter was incremented for it before; the *)
(* conditional status writes are Release and Sell.                         *)
THEOREM ImplementsLedger ==
    ASSUME "lostAck" \notin Faults
    PROVE  Spec => LedgerSpec
<1>1. Init => Ledger!Init
    BY DEF Init, Ledger!Init, Doc, Ledger!Doc
<1>2. TypeOK /\ CountersCover /\ [Next]_vars => [Ledger!Next]_resv
  <2> SUFFICES ASSUME TypeOK, CountersCover, [Next]_vars PROVE [Ledger!Next]_resv
    OBVIOUS
  <2> USE DEF ticket, Procs
  <2>1. ASSUME NEW h \in Handlers, HandlerStep(h) PROVE [Ledger!Next]_resv
    <3>1. CASE Insert(h)
      <4>1. PICK r \in ResIds, q \in 1..MaxQty : r = Rid(h) /\ q = Qty(h)
        BY <3>1, NamedJob, BoundsAssumption DEF Insert, At, Nameless, Reserving
      <4>2. Tally(Ledger!Claims(resv), MaxQty) + q <= Quota
        BY <3>1, <4>1, ClaimsCovered DEF Insert, InsertWrite
      <4>3. /\ resv[r].status = "NONE"
            /\ resv' = [resv EXCEPT ![r] = Ledger!Doc("RESERVED", q)]
        BY <3>1, <4>1 DEF Insert, InsertWrite, Doc, Ledger!Doc
      <4>4. Ledger!Hold(r, q)
        BY <4>2, <4>3 DEF Ledger!Hold, Ledger!Tally, Ledger!UnitsOf, Tally, UnitsOf, Cardinality, Ledger!Cardinality
      <4> QED BY <4>4 DEF Ledger!Next
    <3>2. CASE Finalize(h)
      <4>1. Rid(h) \in ResIds
        BY <3>2, NamedJob DEF Finalize, At, Nameless
      <4> QED BY <3>2, <4>1
          DEF Finalize, StatusWrite, Doc, Ledger!Next, Ledger!Sell, TypeOK
    <3>3. CASE ~Insert(h) /\ ~Finalize(h)
      BY <2>1, <3>3 DEF HandlerStep, GateAbsent, GateRefuses, GateGrants, Check, Limit,
          Increment, IncrementWrite, IncrementRefused, InsertDuplicate, Undo,
          DecrementWrite, Ungate, Lookup, FinalizeNothing, Move, MoveWrite, Clear,
          CommitUpdate, UpdateConflict
    <3> QED BY <3>1, <3>2, <3>3
  <2>2. ASSUME NEW p \in Procs, ReleaseStep(p) PROVE [Ledger!Next]_resv
    <3>1. CASE Release(p)
      <4>1. Rid(p) \in ResIds
        BY <3>1, NamedJob DEF Release, At, Nameless
      <4> QED BY <3>1, <4>1
          DEF Release, StatusWrite, Doc, Ledger!Next, Ledger!Release, TypeOK
    <3>2. CASE ReleaseNothing(p) \/ Decrement(p) \/ Restore(p)
      BY <3>2 DEF ReleaseNothing, Decrement, DecrementWrite, Restore
    <3> QED BY <2>2, <3>1, <3>2 DEF ReleaseStep
  <2>3. ASSUME NEW h \in Handlers, Request(h) PROVE UNCHANGED resv
    BY <2>3 DEF Request, ReserveQuota, ReleaseReservation, FinalizeReservation, UpdateTicket
  <2>4. ASSUME NEW c \in Reconcilers, AcquireLeader(c) \/ ReconcilerStep(c)
        PROVE UNCHANGED resv
    BY <2>4 DEF AcquireLeader, ReconcilerStep, SweepExpired, SweepNext, SweepEnds,
        ListTicket, SkipSeated, Compare, Reseed
  <2>5. CASE FaultStep
    BY <2>5 DEF FaultStep, Crash, MongoError, LostAck, Fault, RedisError,
        RedisLostReply, ListError, ReconcileError, RedisLoss
  <2>6. CASE LeaderKeyExpires \/ \E r \in ResIds : Expire(r)
    BY <2>6 DEF LeaderKeyExpires, Expire
  <2>7. CASE UNCHANGED vars
    BY <2>7 DEF vars
  <2> QED BY <2>1, <2>2, <2>3, <2>4, <2>5, <2>6, <2>7 DEF Next
<1> QED BY <1>1, <1>2, TypeCorrect, CountersHold, PTL DEF Spec, LedgerSpec, Ledger!Spec

-----------------------------------------------------------------------------
(* The limit per user.                                                     *)

(* The steps of a call whose units the user's Redis counter still holds:   *)
(* from the gate to the document, and from the end of the document to its  *)
(* release in Redis.                                                       *)
InRedis == {"check", "limit", "increment", "insert", "undo", "ungate",
            "decrement", "restore", "move", "clear"}

UserDocUnits(u, r, doc) == IF doc.status = "RESERVED" /\ UserOf[r] = u THEN doc.qty ELSE 0
UserJobUnits(u, j) == IF j.pc \in InRedis /\ UserOf[j.rid] = u THEN j.qty ELSE 0

UserUnits(u) ==
    [o \in ResIds \cup Procs |->
        IF o \in ResIds THEN UserDocUnits(u, o, resv[o]) ELSE UserJobUnits(u, job[o])]

(* Without a fault the availability key exists, so that every call passes  *)
(* the gate, and the counter of a user covers the live reservations and    *)
(* the calls in flight.                                                    *)
GateCovers ==
    faultCount = 0 =>
        /\ availSet
        /\ \A u \in Users : Tally(UserUnits(u), MaxQty) <= userRes[u] /\ userRes[u] <= MaxPerUser

(* A table of a user's units is a table of quantities over a finite set.   *)
LEMMA UserUnitsTyped ==
    ASSUME TypeOK, NEW u
    PROVE  /\ IsFiniteSet(ResIds \cup Procs)
           /\ UserUnits(u) \in [ResIds \cup Procs -> 0..MaxQty]
           /\ \A r \in ResIds : UserDocUnits(u, r, resv[r]) \in 0..MaxQty
           /\ \A p \in Procs : UserJobUnits(u, job[p]) \in 0..MaxQty
<1>1. IsFiniteSet(ResIds \cup Procs)
    BY ProcsAssumption, ResIdsAssumption, FS_Union DEF Procs
<1>2. \A r \in ResIds : UserDocUnits(u, r, resv[r]) \in 0..MaxQty
    BY BoundsAssumption DEF TypeOK, UserDocUnits
<1>3. \A p \in Procs : UserJobUnits(u, job[p]) \in 0..MaxQty
    BY BoundsAssumption DEF TypeOK, Jobs, UserJobUnits
<1> QED BY <1>1, <1>2, <1>3 DEF UserUnits

(* A step of process p that touches no document but r's changes the units  *)
(* of a user by what it does to these two.                                 *)
LEMMA UserUnitsStep ==
    ASSUME TypeOK, TypeOK', NEW CONSTANT u, NEW p \in Procs, NEW r \in ResIds,
           \A o \in Procs \ {p} : job'[o] = job[o],
           \A o \in ResIds \ {r} : resv'[o] = resv[o]
    PROVE  Tally(UserUnits(u), MaxQty)' =
               Tally(UserUnits(u), MaxQty)
                   + (UserDocUnits(u, r, resv'[r]) - UserDocUnits(u, r, resv[r]))
                   + (UserJobUnits(u, job'[p]) - UserJobUnits(u, job[p]))
<1> PICK w : w = UserUnits(u)
    OBVIOUS
<1> PICK v : v = UserUnits(u)'
    OBVIOUS
<1>1. IsFiniteSet(ResIds \cup Procs) /\ w \in [ResIds \cup Procs -> 0..MaxQty]
    BY UserUnitsTyped
<1>2. v \in [ResIds \cup Procs -> 0..MaxQty]
    BY BoundsAssumption DEF TypeOK, Jobs, UserUnits, UserDocUnits, UserJobUnits
<1>3. p # r /\ p \notin ResIds /\ MaxQty \in Nat
    BY ResIdsAssumption, BoundsAssumption
<1>4. \A o \in (ResIds \cup Procs) \ {r, p} : v[o] = w[o]
    BY DEF UserUnits
<1>5. Tally(v, MaxQty) = Tally(w, MaxQty) + (v[r] - w[r]) + (v[p] - w[p])
    BY <1>1, <1>2, <1>3, <1>4, TallyTwo
<1>6. /\ w[r] = UserDocUnits(u, r, resv[r]) /\ w[p] = UserJobUnits(u, job[p])
      /\ v[r] = UserDocUnits(u, r, resv'[r]) /\ v[p] = UserJobUnits(u, job'[p])
    BY <1>3 DEF UserUnits
<1>7. Tally(UserUnits(u), MaxQty)' = Tally(v, MaxQty)
    BY DEF Tally, UnitsOf
<1> QED BY <1>5, <1>6, <1>7

(* Such a step keeps the counters of the users covering, when each moves   *)
(* by at least what its user's units move by and stays within the limit.   *)
LEMMA GateCoversAfter ==
    ASSUME TypeOK, TypeOK', GateCovers, faultCount' = faultCount, NEW p \in Procs, NEW r \in ResIds,
           \A o \in Procs \ {p} : job'[o] = job[o],
           \A o \in ResIds \ {r} : resv'[o] = resv[o],
           availSet => availSet',
           faultCount = 0 =>
             \A u \in Users :
                /\ (UserDocUnits(u, r, resv'[r]) - UserDocUnits(u, r, resv[r]))
                     + (UserJobUnits(u, job'[p]) - UserJobUnits(u, job[p]))
                     <= userRes'[u] - userRes[u]
                /\ userRes'[u] <= userRes[u] \/ userRes'[u] <= MaxPerUser
    PROVE  GateCovers'
<1> SUFFICES ASSUME faultCount = 0, NEW u \in Users
             PROVE  Tally(UserUnits(u), MaxQty)' <= userRes'[u] /\ userRes'[u] <= MaxPerUser
    BY DEF GateCovers
<1> PICK t : t = Tally(UserUnits(u), MaxQty)
    OBVIOUS
<1>1. t \in Nat /\ t <= userRes[u] /\ userRes[u] <= MaxPerUser
    BY UserUnitsTyped, TallyType, BoundsAssumption DEF GateCovers
<1>2. UserDocUnits(u, r, resv[r]) \in 0..MaxQty /\ UserDocUnits(u, r, resv'[r]) \in 0..MaxQty
    BY BoundsAssumption DEF TypeOK, UserDocUnits
<1>3. UserJobUnits(u, job[p]) \in 0..MaxQty /\ UserJobUnits(u, job'[p]) \in 0..MaxQty
    BY BoundsAssumption DEF TypeOK, Jobs, UserJobUnits
<1>4. userRes[u] \in Nat /\ userRes'[u] \in Nat /\ MaxPerUser \in Nat /\ MaxQty \in Nat
    BY BoundsAssumption DEF TypeOK
<1>5. Tally(UserUnits(u), MaxQty)' = t
          + (UserDocUnits(u, r, resv'[r]) - UserDocUnits(u, r, resv[r]))
          + (UserJobUnits(u, job'[p]) - UserJobUnits(u, job[p]))
    BY UserUnitsStep
<1> QED BY <1>1, <1>2, <1>3, <1>4, <1>5

(* In particular, a step that changes neither documents nor the counters   *)
(* of the users, and whose process holds nothing in Redis afterwards.      *)
LEMMA HoldingNothing ==
    ASSUME TypeOK, TypeOK', GateCovers, faultCount' = faultCount, NEW p \in Procs, NEW j, Become(p, j),
           UNCHANGED <<resv, userRes>>, availSet => availSet',
           \/ j.pc \notin InRedis
           \/ job[p].pc \in InRedis /\ j.rid = job[p].rid /\ j.qty = job[p].qty
    PROVE  GateCovers'
<1> PICK r \in ResIds : TRUE
    BY ResIdsAssumption
<1>1. job'[p] = j /\ \A o \in Procs \ {p} : job'[o] = job[o]
    BY DEF Become, TypeOK
<1>2. ASSUME NEW u \in Users
      PROVE  /\ (UserDocUnits(u, r, resv'[r]) - UserDocUnits(u, r, resv[r]))
                   + (UserJobUnits(u, job'[p]) - UserJobUnits(u, job[p]))
                   <= userRes'[u] - userRes[u]
             /\ userRes'[u] <= userRes[u]
  <2>1. UserJobUnits(u, job'[p]) = 0 \/ UserJobUnits(u, job'[p]) = UserJobUnits(u, job[p])
    BY <1>1 DEF UserJobUnits
  <2>2. UserDocUnits(u, r, resv'[r]) = UserDocUnits(u, r, resv[r])
    OBVIOUS
  <2>3. /\ UserJobUnits(u, job[p]) \in 0..MaxQty /\ UserDocUnits(u, r, resv[r]) \in 0..MaxQty
        /\ userRes[u] \in Nat /\ userRes'[u] = userRes[u] /\ MaxQty \in Nat
    BY UserUnitsTyped, BoundsAssumption DEF TypeOK
  <2> QED BY <2>1, <2>2, <2>3
<1> QED BY <1>1, <1>2, GateCoversAfter

(* The steps that take units from the gate, move them between a call and a *)
(* document, or give them back.                                            *)
LEMMA WritesKeepGate ==
    ASSUME TypeOK, TypeOK', GateCovers, faultCount' = faultCount, NEW p \in Procs,
           \/ GateGrants(p) \/ Insert(p) \/ Release(p) \/ Finalize(p)
           \/ Ungate(p) \/ Restore(p) \/ Clear(p)
    PROVE  GateCovers'
<1> USE DEF At
<1>1. Rid(p) \in ResIds /\ Qty(p) \in 0..MaxQty
    BY NamedJob DEF Nameless, GateGrants, Insert, Release, Finalize, Ungate, Restore, Clear
<1>2. PICK r \in ResIds, q \in 0..MaxQty, x \in Users : r = Rid(p) /\ q = Qty(p) /\ x = UserOf[r]
    BY <1>1, ResIdsAssumption
<1>3. q \in Nat /\ job[p].qty = q /\ job[p].rid = r
    BY <1>2, BoundsAssumption DEF Rid, Qty
<1>4. /\ resv[r].qty \in Nat /\ MaxPerUser \in Nat
      /\ \A u \in Users : userRes[u] \in Nat
    BY BoundsAssumption DEF TypeOK
<1>5. ASSUME NEW j, Become(p, j)
      PROVE  job'[p] = j /\ \A o \in Procs \ {p} : job'[o] = job[o]
    BY <1>5 DEF Become, TypeOK
<1>6. \A d : resv' = [resv EXCEPT ![r] = d] =>
            resv'[r] = d /\ \A o \in ResIds \ {r} : resv'[o] = resv[o]
    BY DEF TypeOK
<1> DEFINE Kept == \A o \in Procs \ {p} : job'[o] = job[o]
           GivesBack == /\ userRes'[x] = Floored(userRes[x] - q)
                        /\ \A u \in Users \ {x} : userRes'[u] = userRes[u]
<1>7. CASE GateGrants(p)
  <2>1. job[p].pc = "gate" /\ job'[p] = Job("check", r, q, TRUE, "none") /\ Kept
    BY <1>2, <1>5, <1>7 DEF GateGrants
  <2>2. /\ UNCHANGED resv /\ availSet' = availSet
        /\ userRes[x] + q <= MaxPerUser /\ userRes'[x] = userRes[x] + q
        /\ \A u \in Users \ {x} : userRes'[u] = userRes[u]
    BY <1>2, <1>7 DEF GateGrants, RedisReserve, TypeOK
  <2> QED BY <1>2, <1>3, <1>4, <2>1, <2>2, GateCoversAfter
      DEF UserDocUnits, UserJobUnits, InRedis, Job
<1>8. CASE Insert(p)
  <2>1. job[p].pc = "insert" /\ job'[p] = IdleJob /\ Kept
    BY <1>5, <1>8 DEF Insert
  <2>2. /\ resv[r].status = "NONE" /\ resv'[r] = Doc("RESERVED", q)
        /\ \A o \in ResIds \ {r} : resv'[o] = resv[o]
        /\ UNCHANGED redis
    BY <1>2, <1>6, <1>8 DEF Insert, InsertWrite
  <2> QED BY <1>2, <1>3, <1>4, <2>1, <2>2, GateCoversAfter
      DEF UserDocUnits, UserJobUnits, InRedis, IdleJob, Starting, Job, Doc, redis
<1>9. CASE Release(p)
  <2>1. job[p].pc = "release" /\ job'[p] = Starting("decrement", r, resv[r].qty) /\ Kept
    BY <1>2, <1>5, <1>9 DEF Release
  <2>2. /\ resv[r].status = "RESERVED" /\ resv'[r] = Doc("RELEASED", resv[r].qty)
        /\ \A o \in ResIds \ {r} : resv'[o] = resv[o]
        /\ UNCHANGED redis
    BY <1>2, <1>6, <1>9 DEF Release, StatusWrite
  <2> QED BY <1>2, <1>3, <1>4, <2>1, <2>2, GateCoversAfter
      DEF UserDocUnits, UserJobUnits, InRedis, Starting, Job, Doc, redis
<1>10. CASE Finalize(p)
  <2>1. job[p].pc = "finalize" /\ job'[p] = Starting("move", r, resv[r].qty) /\ Kept
    BY <1>2, <1>5, <1>10 DEF Finalize
  <2>2. /\ resv[r].status = "RESERVED" /\ resv'[r] = Doc("SOLD", resv[r].qty)
        /\ \A o \in ResIds \ {r} : resv'[o] = resv[o]
        /\ UNCHANGED redis
    BY <1>2, <1>6, <1>10 DEF Finalize, StatusWrite
  <2> QED BY <1>2, <1>3, <1>4, <2>1, <2>2, GateCoversAfter
      DEF UserDocUnits, UserJobUnits, InRedis, Starting, Job, Doc, redis
<1>11. ASSUME job[p].pc \in InRedis, job'[p].pc \notin InRedis, Kept, GivesBack,
              UNCHANGED resv, availSet => availSet'
       PROVE  GateCovers'
  <2>1. ASSUME NEW u \in Users
        PROVE  /\ (UserDocUnits(u, r, resv'[r]) - UserDocUnits(u, r, resv[r]))
                     + (UserJobUnits(u, job'[p]) - UserJobUnits(u, job[p]))
                     <= userRes'[u] - userRes[u]
               /\ userRes'[u] <= userRes[u]
    <3>1. /\ UserDocUnits(u, r, resv'[r]) = UserDocUnits(u, r, resv[r])
          /\ UserDocUnits(u, r, resv[r]) \in Nat
      BY <1>4, <1>11 DEF UserDocUnits
    <3>2. UserJobUnits(u, job'[p]) = 0 /\ UserJobUnits(u, job[p]) = (IF u = x THEN q ELSE 0)
      BY <1>2, <1>3, <1>11 DEF UserJobUnits
    <3>3. CASE u = x
      BY <1>3, <1>4, <1>11, <3>1, <3>2, <3>3 DEF Floored
    <3>4. CASE u # x
      BY <1>4, <1>11, <3>1, <3>2, <3>4
    <3> QED BY <3>3, <3>4
  <2> QED BY <1>11, <2>1, GateCoversAfter
<1>12. CASE Ungate(p)
  <2>1. job[p].pc = "ungate" /\ job'[p].pc \in {"lookup", "idle"} /\ Kept
    BY <1>5, <1>12 DEF Ungate, Goto, Moved, Job, IdleJob, Starting
  <2>2. UNCHANGED resv /\ availSet' /\ GivesBack
    BY <1>2, <1>12 DEF Ungate, RedisRelease, TypeOK
  <2> QED BY <1>11, <2>1, <2>2 DEF InRedis
<1>13. CASE Restore(p)
  <2>1. job[p].pc = "restore" /\ job'[p].pc \in {"next", "idle"} /\ Kept
    BY <1>5, <1>13 DEF Restore, Done, Job, Starting
  <2>2. UNCHANGED resv /\ availSet' /\ GivesBack
    BY <1>2, <1>13 DEF Restore, RedisRelease, TypeOK
  <2> QED BY <1>11, <2>1, <2>2 DEF InRedis
<1>14. CASE Clear(p)
  <2>1. job[p].pc = "clear" /\ job'[p].pc \in {"next", "idle"} /\ Kept
    BY <1>5, <1>14 DEF Clear, Done, Job, Starting
  <2>2. UNCHANGED resv /\ availSet' = availSet /\ GivesBack
    BY <1>2, <1>14 DEF Clear, RedisFinalize, TypeOK
  <2> QED BY <1>11, <2>1, <2>2 DEF InRedis
<1> QED BY <1>7, <1>8, <1>9, <1>10, <1>12, <1>13, <1>14

(* Every step keeps the gate: a fault excuses it for good.                 *)
LEMMA GateStep ==
    ASSUME TypeOK, TypeOK', GateCovers, [Next]_vars
    PROVE  GateCovers'
<1> USE DEF Procs
<1>0. ASSUME UNCHANGED <<resv, userRes, availSet, job, faultCount>> PROVE GateCovers'
    BY <1>0 DEF GateCovers, UserUnits, Tally, UnitsOf
<1> DEFINE Light == \E p \in Procs : \E j :
               /\ Become(p, j) /\ UNCHANGED <<resv, userRes, faultCount>> /\ (availSet => availSet')
               /\ \/ j.pc \notin InRedis
                  \/ job[p].pc \in InRedis /\ j.rid = job[p].rid /\ j.qty = job[p].qty
<1>l. Light => GateCovers'
    BY HoldingNothing
<1>f. ASSUME faultCount' = faultCount + 1 PROVE GateCovers'
    BY <1>f DEF GateCovers, TypeOK
<1> USE DEF redis, ticket, IdleJob, Starting, Job, InRedis, Rid, Qty
<1>1. ASSUME NEW h \in Handlers, Request(h) PROVE Light
  <2>1. CASE \E r \in ResIds, q \in 1..MaxQty : ReserveQuota(h, r, q)
    <3>1. PICK r \in ResIds, q \in 1..MaxQty : ReserveQuota(h, r, q)
      BY <2>1
    <3> QED BY <3>1 DEF ReserveQuota
  <2>2. CASE \E r \in ResIds : ReleaseReservation(h, r) \/ FinalizeReservation(h, r)
    <3>1. PICK r \in ResIds : ReleaseReservation(h, r) \/ FinalizeReservation(h, r)
      BY <2>2
    <3> QED BY <3>1 DEF ReleaseReservation, FinalizeReservation
  <2>3. CASE UpdateTicket(h)
    BY <2>3 DEF UpdateTicket
  <2> QED BY <1>1, <2>1, <2>2, <2>3 DEF Request
<1>2. ASSUME NEW h \in Handlers, HandlerStep(h) PROVE GateCovers'
  <2>1. CASE GateAbsent(h)
    <3>1. faultCount # 0
      BY <2>1 DEF GateAbsent, GateCovers
    <3> QED BY <2>1, <3>1 DEF GateAbsent, GateCovers
  <2>2. CASE GateRefuses(h)
    BY <1>l, <2>2 DEF GateRefuses
  <2>3. CASE GateGrants(h) \/ Insert(h) \/ Finalize(h) \/ Ungate(h) \/ Clear(h)
    BY <2>3, WritesKeepGate DEF GateGrants, Insert, Finalize, Ungate, Clear
  <2>4. CASE Check(h) \/ Limit(h) \/ IncrementRefused(h)
    BY <1>l, <2>4 DEF Check, Limit, IncrementRefused, Moved, Unwound, At
  <2>5. CASE Increment(h) \/ Undo(h) \/ InsertDuplicate(h) \/ Move(h)
    BY <1>l, <2>5 DEF Increment, IncrementWrite, Undo, DecrementWrite, InsertDuplicate, Move,
       MoveWrite, Goto, Moved, Unwound, At
  <2>6. CASE Lookup(h) \/ FinalizeNothing(h)
    BY <1>l, <2>6 DEF Lookup, FinalizeNothing, Done
  <2>7. CASE CommitUpdate(h)
    BY <1>l, <2>7 DEF CommitUpdate
  <2>8. CASE UpdateConflict(h)
    BY <1>l, <2>8 DEF UpdateConflict
  <2> QED BY <1>2, <2>1, <2>2, <2>3, <2>4, <2>5, <2>6, <2>7, <2>8 DEF HandlerStep
<1>3. ASSUME NEW p \in Procs, ReleaseStep(p) PROVE GateCovers'
  <2>1. CASE Release(p) \/ Restore(p)
    BY <2>1, WritesKeepGate DEF Release, Restore
  <2>2. CASE ReleaseNothing(p) \/ Decrement(p)
    BY <1>l, <2>2 DEF ReleaseNothing, Done, Decrement, DecrementWrite, Goto, Moved, At
  <2> QED BY <1>3, <2>1, <2>2 DEF ReleaseStep
<1>4. ASSUME NEW c \in Reconcilers, AcquireLeader(c) \/ ReconcilerStep(c) PROVE Light
  <2>1. CASE AcquireLeader(c) \/ SweepExpired(c)
    BY <2>1 DEF AcquireLeader, SweepExpired, Goto, Moved
  <2>4. CASE \E r \in ResIds : SweepNext(c, r)
    <3>1. PICK r \in ResIds : SweepNext(c, r)
      BY <2>4
    <3> QED BY <3>1 DEF SweepNext
  <2>2. CASE SweepEnds(c) \/ ListTicket(c) \/ SkipSeated(c)
    BY <2>2 DEF SweepEnds, ListTicket, SkipSeated, EndPass, Goto, Moved
  <2>3. CASE Compare(c) \/ Reseed(c)
    BY <2>3 DEF Compare, Reseed, EndPass, Goto, Moved
  <2> QED BY <1>4, <2>1, <2>2, <2>3, <2>4 DEF ReconcilerStep
<1>5. CASE FaultStep
    BY <1>f, <1>5 DEF FaultStep, Fault, Crash, MongoError, LostAck, RedisError, RedisLostReply,
       ListError, ReconcileError, RedisLoss
<1>6. CASE LeaderKeyExpires \/ \E r \in ResIds : Expire(r)
    BY <1>0, <1>6 DEF LeaderKeyExpires, Expire
<1>7. CASE UNCHANGED vars
    BY <1>0, <1>7 DEF vars
<1> QED BY <1>l, <1>1, <1>2, <1>3, <1>4, <1>5, <1>6, <1>7 DEF Next

(* The limit per user holds in every behaviour without a fault, however    *)
(* many calls of one user overlap: the sum over MongoDB is read before it  *)
(* is relied on, and it is the counter in Redis that excludes the race.    *)
THEOREM LimitHolds == Spec => []PerUserCap
<1>1. Init => GateCovers
  <2> SUFFICES ASSUME Init, faultCount = 0 PROVE GateCovers
    BY DEF GateCovers
  <2>1. \A u : UserUnits(u) = [o \in ResIds \cup Procs |-> 0]
    BY DEF Init, UserUnits, UserDocUnits, UserJobUnits, Doc, IdleJob, Starting, Job, InRedis
  <2>2. IsFiniteSet(ResIds \cup Procs)
    BY ProcsAssumption, ResIdsAssumption, FS_Union DEF Procs
  <2>3. Tally([o \in ResIds \cup Procs |-> 0], MaxQty) = 0
    BY <2>2, TallyZero, BoundsAssumption
  <2> QED BY <2>1, <2>3, BoundsAssumption DEF Init, GateCovers
<1>2. TypeOK /\ GateCovers => PerUserCap
  <2> SUFFICES ASSUME TypeOK, GateCovers, NEW u \in Users, UserActive(u) > MaxPerUser
               PROVE  faultCount > 0
    BY DEF PerUserCap
  <2> SUFFICES ASSUME faultCount = 0 PROVE FALSE
    BY BoundsAssumption DEF TypeOK
  <2>1. IsFiniteSet(ResIds) /\ UserClaims(u) \in [ResIds -> 0..MaxQty]
    BY ResIdsAssumption, BoundsAssumption DEF UserClaims, TypeOK
  <2>2. Tally(UserClaims(u), MaxQty) \in Nat /\ Tally(UserUnits(u), MaxQty) \in Nat
    BY <2>1, UserUnitsTyped, TallyType, BoundsAssumption
  <2>3. \A o \in ResIds : UserClaims(u)[o] <= UserUnits(u)[o]
    BY BoundsAssumption DEF UserClaims, UserUnits, UserDocUnits, TypeOK
  <2>4. Tally(UserClaims(u), MaxQty) <= Tally(UserUnits(u), MaxQty)
    BY <2>1, <2>3, UserUnitsTyped, TallyMonotone, BoundsAssumption
  <2> QED BY <2>2, <2>4, BoundsAssumption DEF UserActive, GateCovers, TypeOK
<1> QED BY <1>1, <1>2, TypeCorrect, GateStep, PTL DEF Spec

-----------------------------------------------------------------------------
(* With every fault allowed: what a lost acknowledgement can do at worst.  *)
Hidden == MaxQty * faultCount

(* Each fault oversells the ticket by the units of one call at most.       *)
OversellBounded == Tally(Ledger!Claims(resv), MaxQty) <= Quota + Hidden

LEMMA HiddenGrows ==
    ASSUME TypeOK, TypeOK', [Next]_vars
    PROVE  /\ Hidden \in Nat /\ Hidden' \in Nat /\ MaxQty \in Nat
           /\ Hidden' >= Hidden
           /\ \A p \in Procs : LostAck(p) => Hidden' = Hidden + MaxQty
<1>1. PICK f, g, m \in Nat : f = faultCount /\ g = faultCount' /\ m = MaxQty
    BY BoundsAssumption DEF TypeOK
<1>2. g = f \/ g = f + 1
  <2>1. faultCount' = faultCount \/ \E kind : Fault(kind)
    <3> USE DEF Procs
    <3>1. ASSUME NEW h \in Handlers, Request(h) \/ HandlerStep(h) PROVE faultCount' = faultCount
      BY <3>1 DEF Request, ReserveQuota, ReleaseReservation, FinalizeReservation, UpdateTicket, HandlerStep,
         GateAbsent, GateRefuses, GateGrants, Check, Limit, Increment, IncrementRefused, Insert,
         InsertDuplicate, Undo, Ungate, Lookup, Finalize, FinalizeNothing, Move, Clear, CommitUpdate,
         UpdateConflict
    <3>2. ASSUME NEW p \in Procs, ReleaseStep(p) PROVE faultCount' = faultCount
      BY <3>2 DEF ReleaseStep, Release, ReleaseNothing, Decrement, Restore
    <3>3. ASSUME NEW c \in Reconcilers, AcquireLeader(c) \/ ReconcilerStep(c) PROVE faultCount' = faultCount
      BY <3>3 DEF AcquireLeader, ReconcilerStep, SweepExpired, SweepNext, SweepEnds, ListTicket, SkipSeated,
         Compare, Reseed
    <3>4. CASE FaultStep
      BY <3>4 DEF FaultStep, Crash, MongoError, LostAck, RedisError, RedisLostReply, ListError, ReconcileError,
         RedisLoss
    <3>5. CASE LeaderKeyExpires \/ (\E r \in ResIds : Expire(r)) \/ UNCHANGED vars
      BY <3>5 DEF LeaderKeyExpires, Expire, vars
    <3> QED BY <3>1, <3>2, <3>3, <3>4, <3>5 DEF Next
  <2> QED BY <1>1, <2>1 DEF Fault
<1>3. /\ m * f \in Nat /\ m * g \in Nat
      /\ m * (f + 1) = m * f + m
  <2>1. m * f \in Nat
    BY <1>1
  <2>2. m * (f + 1) = m * f + m
    BY <1>1, SMT
  <2>3. m * g = m * f \/ m * g = m * f + m
    BY <1>2, <2>2, Zenon
  <2>4. PICK a \in Nat : a = m * f
    BY <2>1, Zenon
  <2>5. a + m \in Nat
    BY <1>1
  <2>6. m * g \in Nat
    BY <2>3, <2>4, <2>5, Zenon
  <2> QED BY <2>1, <2>2, <2>6, Zenon
<1>4. \A p \in Procs : LostAck(p) => g = f + 1
    BY <1>1 DEF LostAck, Fault
<1>5. m * g = m * f \/ m * g = m * f + m
    BY <1>2, <1>3
<1>6. Hidden = m * f /\ Hidden' = m * g
    BY <1>1, Zenon DEF Hidden
<1>7. m * g >= m * f
    BY <1>3, <1>5
<1>8. MaxQty \in Nat
    BY <1>1
<1>9. \A p \in Procs : LostAck(p) => Hidden' = Hidden + MaxQty
    BY <1>1, <1>3, <1>4, <1>6, Zenon
<1> QED BY <1>3, <1>6, <1>7, <1>8, <1>9

LEMMA WeightsTallied ==
    ASSUME TypeOK', NEW CONSTANT S, NEW CONSTANT L
    PROVE  Tally(Weights(S, L), MaxQty)' \in Nat
<1> PICK v : v = Weights(S, L)'
    OBVIOUS
<1>1. v \in [ResIds \cup Procs -> 0..MaxQty] /\ MaxQty \in Nat
    BY BoundsAssumption DEF TypeOK, Jobs, Weights, DocUnits, JobUnits
<1>2. IsFiniteSet(ResIds \cup Procs)
    BY ProcsAssumption, ResIdsAssumption, FS_Union DEF Procs
<1>3. Tally(v, MaxQty) \in Nat
    BY <1>1, <1>2, TallyType
<1> QED BY <1>3 DEF Tally, UnitsOf

(* The counters cover all but the hidden units.                            *)
LEMMA HiddenStep ==
    ASSUME TypeOK', [Next]_vars, TypeOK, Covers(Hidden)
    PROVE  Covers(Hidden)'
<1>1. PICK e \in Nat : e = Hidden
    BY HiddenGrows
<1>2. Covers(e)
    BY <1>1 DEF Covers
<1>3. Hidden' \in Nat /\ Hidden' >= e
    BY <1>1, HiddenGrows
<1>4. CASE \A p \in Procs : ~LostAck(p)
  <2>1. Covers(e)'
    BY <1>2, <1>4, CountersStep
  <2>2. /\ Tally(Weights({"RESERVED"}, OwesReserved), MaxQty)' \in Nat
        /\ Tally(Weights({"RESERVED", "SOLD"}, OwesTaken), MaxQty)' \in Nat
    BY WeightsTallied
  <2>3. reserved' \in Int /\ sold' \in Int
    BY DEF TypeOK
  <2> QED BY <1>3, <2>1, <2>2, <2>3 DEF Covers, WithinQuota
<1>5. ASSUME NEW p \in Procs, LostAck(p) PROVE Covers(Hidden)'
  <2>1. Covers(e + MaxQty)'
    BY <1>2, <1>5, LostAckCovers
  <2>2. Hidden' = e + MaxQty
    BY <1>1, <1>5, HiddenGrows
  <2> QED BY <2>1, <2>2 DEF Covers, WithinQuota
<1> QED BY <1>4, <1>5
LEMMA ClaimsNearQuota ==
    ASSUME TypeOK, Covers(Hidden), Hidden \in Nat
    PROVE  OversellBounded
<1> PICK c : c = Ledger!Claims(resv)
    OBVIOUS
<1> PICK w : w = Weights({"RESERVED", "SOLD"}, OwesTaken)
    OBVIOUS
<1>1. c \in [ResIds -> 0..MaxQty]
    BY BoundsAssumption DEF TypeOK, Ledger!Claims
<1>2. /\ IsFiniteSet(ResIds) /\ IsFiniteSet(ResIds \cup Procs) /\ MaxQty \in Nat
      /\ w \in [ResIds \cup Procs -> 0..MaxQty]
    BY WeightsTyped, ResIdsAssumption, BoundsAssumption
<1>3. \A r \in ResIds : c[r] = w[r] /\ c[r] <= w[r]
    BY <1>1, <1>2 DEF Ledger!Claims, Weights, DocUnits
<1>4. Tally(c, MaxQty) \in Nat /\ Tally(w, MaxQty) \in Nat
    BY <1>1, <1>2, TallyType
<1>5. Tally(c, MaxQty) <= Tally(w, MaxQty)
    BY <1>1, <1>2, <1>3, TallyMonotone
<1>6. PICK k, t \in Nat : k = Tally(c, MaxQty) /\ t = Tally(w, MaxQty)
    BY <1>4
<1>7. t <= reserved + sold + Hidden /\ reserved + sold <= Quota
    BY <1>6 DEF Covers, WithinQuota
<1>8. reserved \in Int /\ sold \in Int /\ Quota \in Nat
    BY BoundsAssumption DEF TypeOK
<1>9. k <= Quota + Hidden
    BY <1>5, <1>6, <1>7, <1>8
<1> QED BY <1>6, <1>9 DEF OversellBounded

(* Whatever fails, lost acknowledgements included, each failure lets the   *)
(* live and sold reservations exceed the quota by no more than the units   *)
(* of one call: the insert of CreateReservation that was applied, reported *)
(* as failed and taken off the counter again.                              *)
THEOREM OversellIsBounded == Spec => []OversellBounded
<1>1. Init => Covers(Hidden)
  <2> SUFFICES ASSUME Init PROVE Covers(Hidden)
    OBVIOUS
  <2>1. PICK f, m \in Nat : f = faultCount /\ m = MaxQty
    BY BoundsAssumption DEF Init
  <2>2. m * f \in Nat /\ Hidden = m * f
    BY <2>1 DEF Hidden
  <2>3. Quota \in Nat
    BY BoundsAssumption
  <2>4. reserved = 0 /\ sold = 0
    BY DEF Init
  <2>5. PICK e \in Nat : e = Hidden
    BY <2>2
  <2>6. Covers(e)
    BY <2>3, <2>4, TalliesStart DEF Covers, WithinQuota
  <2> QED BY <2>5, <2>6 DEF Covers
<1>2. TypeOK /\ Covers(Hidden) => OversellBounded
  <2>1. TypeOK => Hidden \in Nat
    <3> SUFFICES ASSUME TypeOK PROVE Hidden \in Nat
      OBVIOUS
    <3>1. PICK f, m \in Nat : f = faultCount /\ m = MaxQty
      BY BoundsAssumption DEF TypeOK
    <3> QED BY <3>1 DEF Hidden
  <2> QED BY <2>1, ClaimsNearQuota
<1> QED BY <1>1, <1>2, HiddenStep, TypeCorrect, PTL DEF Spec
=============================================================================
