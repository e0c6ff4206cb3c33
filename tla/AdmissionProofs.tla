-------------------------- MODULE AdmissionProofs --------------------------
(***************************************************************************)
(* Proofs about Admission, for any number of consumers, relays, messages,  *)
(* users, gates and faults.                                                *)
(***************************************************************************)
EXTENDS Admission, FiniteSetTheorems, TLAPS

(* A unit has one credential at most, and every credential has a unit.     *)
OneEach ==
    /\ \A r \in Rows : status[r] = "none" <=> key[r] = NoUnit
    /\ \A r, q \in Rows : key[r] = key[q] /\ key[r] # NoUnit => r = q

(* The gates behind the consume step have each used a credential of their  *)
(* own, that has let nobody in yet.                                        *)
Inside(g) == gate[g].step \in {"record", "answer"}
OneGate ==
    /\ \A r \in Rows : admissions[r] <= 1 /\ (admissions[r] = 1 => status[r] = "USED")
    /\ \A g \in Gates : gate[g].step # "none" => gate[g].row \in Rows
    /\ \A g \in Gates : Inside(g) => /\ status[gate[g].row] = "USED"
                                     /\ admissions[gate[g].row] = 0
    /\ \A g, h \in Gates : Inside(g) /\ Inside(h) /\ gate[g].row = gate[h].row => g = h

Handled(m) == m \in dlq \cup refused \/ (Good(m) /\ UnitsIssued(m))

(* A consumer has handled every message before its position, but the one   *)
(* it is at work on; there it has issued the units before the current one, *)
(* and it commits a message that is handled.                               *)
Busy(c) == job[c].step # "idle"
AtUnit(c) == job[c].step \in {"look", "create", "created"}
Works(c) ==
    /\ Busy(c) => job[c].msg \in Messages /\ position[c] = job[c].msg + 1
    /\ AtUnit(c) => /\ Good(job[c].msg)
                    /\ job[c].unit \in 1..Quantity[Topic[job[c].msg]]
                    /\ \A n \in 1..(job[c].unit - 1) : Issued(<<Topic[job[c].msg], n>>)
    /\ job[c].step = "created" => Issued(UnitOf(c))
    /\ job[c].step = "commit" => Handled(job[c].msg)
    /\ \A m \in 1..(position[c] - 1) : Handled(m) \/ (Busy(c) /\ job[c].msg = m)

IInv == /\ TypeOK /\ OneEach /\ OneGate /\ NothingSkipped
        /\ \A c \in Consumers : Works(c)

-----------------------------------------------------------------------------
LEMMA UnitsAre ==
    ASSUME NEW o \in Orders
    PROVE  /\ \A n \in 1..Quantity[o] : <<o, n>> \in UnitsOf(o) /\ <<o, n>> \in Units
           /\ \A u \in UnitsOf(o) : \E n \in 1..Quantity[o] : u = <<o, n>>
           /\ UnitsOf(o) \subseteq Units
<1>1. \A n \in 1..Quantity[o] : <<o, n>> \in UnitsOf(o)
  BY DEF UnitsOf
<1>2. UnitsOf(o) \subseteq Units
  BY Zenon DEF Units
<1>3. \A u \in UnitsOf(o) : \E n \in 1..Quantity[o] : u = <<o, n>>
  BY DEF UnitsOf
<1> QED
  BY <1>1, <1>2, <1>3

(* What is issued stays issued, and what is handled stays handled.         *)
Grows == /\ \A u \in Units : Issued(u) => Issued(u)'
         /\ dlq \subseteq dlq' /\ refused \subseteq refused'

LEMMA HandledStays ==
    ASSUME Grows, NEW m \in Messages, Handled(m) PROVE Handled(m)'
<1>1. Topic[m] \in Orders
  BY IssuanceAssumption DEF Messages
<1> QED
  BY <1>1, UnitsAre DEF Grows, Handled, Good, UnitsIssued

(* A new row, for a unit that has none.                                    *)
LEMMA RowWritten ==
    ASSUME TypeOK, OneEach, NEW u \in Units, Insert(u), u[1] \in Orders
    PROVE  /\ key' \in [Rows -> Units \cup {NoUnit}]
           /\ owner' \in [Rows -> Users \cup {NoUser}]
           /\ status' \in [Rows -> {"none", "ISSUED", "USED"}]
           /\ OneEach'
           /\ \A r \in Rows : status[r] = "USED" => status'[r] = "USED"
           /\ \A v \in Units : Issued(v) => Issued(v)'
           /\ Issued(u)'
<1>1. PICK r \in Rows :
         /\ status[r] = "none"
         /\ key' = [key EXCEPT ![r] = u]
         /\ owner' = [owner EXCEPT ![r] = Buyer[u[1]]]
         /\ status' = [status EXCEPT ![r] = "ISSUED"]
  BY DEF Insert, WriteRow
<1>2. \A q \in Rows : key[q] # u
  BY DEF Insert, Issued
<1>3. u # NoUnit
  BY IssuanceAssumption
<1>4. key[r] = NoUnit
  BY <1>1 DEF OneEach
<1>5. /\ key' \in [Rows -> Units \cup {NoUnit}]
      /\ owner' \in [Rows -> Users \cup {NoUser}]
      /\ status' \in [Rows -> {"none", "ISSUED", "USED"}]
  BY <1>1, IssuanceAssumption DEF TypeOK
<1>6. OneEach'
  BY <1>1, <1>2, <1>3 DEF OneEach, TypeOK
<1>7. \A q \in Rows : status[q] = "USED" => status'[q] = "USED"
  BY <1>1 DEF TypeOK
<1>8. Issued(u)' /\ \A v \in Units : Issued(v) => Issued(v)'
  BY <1>1, <1>4, IssuanceAssumption DEF Issued, TypeOK
<1> QED
  BY <1>5, <1>6, <1>7, <1>8

-----------------------------------------------------------------------------
(* The consumers.  The works of c survive a step that grows what is        *)
(* issued: of another consumer, ...                                        *)
LEMMA OthersWork ==
    ASSUME IInv, Grows, NEW c \in Consumers, job'[c] = job[c], position'[c] = position[c]
    PROVE  Works(c)'
<1>1. Works(c) /\ position[c] \in 1..(Len(Topic) + 1) /\ Len(Topic) \in Nat
  BY IssuanceAssumption DEF IInv, TypeOK
<1>2. \A m \in Messages : Handled(m) => Handled(m)'
  BY HandledStays
<1>3. \A m \in 1..(position[c] - 1) : m \in Messages
  BY <1>1 DEF Messages
<1>4. \A m \in 1..(position[c] - 1) : Handled(m)' \/ (Busy(c) /\ job[c].msg = m)'
  BY <1>1, <1>2, <1>3 DEF Works, Busy
<1>5. job[c].step = "commit" => Handled(job[c].msg)'
  BY <1>1, <1>2 DEF Works, Busy
<1>6. AtUnit(c) => /\ Topic[job[c].msg] \in Orders
                   /\ \A n \in 1..Quantity[Topic[job[c].msg]] : <<Topic[job[c].msg], n>> \in Units
  BY <1>1, UnitsAre, IssuanceAssumption DEF Works, Busy, AtUnit, Messages
<1>7. AtUnit(c) => /\ job[c].unit \in 1..Quantity[Topic[job[c].msg]]
                   /\ \A n \in 1..(job[c].unit - 1) : Issued(<<Topic[job[c].msg], n>>)'
  BY <1>1, <1>6, IssuanceAssumption DEF Works, Grows
<1>8. job[c].step = "created" => Issued(<<Topic[job[c].msg], job[c].unit>>)'
  BY <1>1, <1>6, <1>7 DEF Works, Grows, UnitOf, AtUnit
<1> QED
  BY <1>1, <1>4, <1>5, <1>7, <1>8 DEF Works, Busy, AtUnit, Good, UnitOf

(* ... of c itself, at work on the same message, ...                       *)
LEMMA Moves ==
    ASSUME IInv, Grows, NEW c \in Consumers, Busy(c), position'[c] = position[c],
           NEW s \in {"look", "create", "created", "dlq", "commit"}, NEW n \in Nat, NEW a \in Nat,
           job'[c] = [step |-> s, msg |-> job[c].msg, unit |-> n, attempt |-> a],
           s \in {"look", "create", "created"} =>
                /\ Good(job[c].msg) /\ n \in 1..Quantity[Topic[job[c].msg]]
                /\ \A k \in 1..(n - 1) : Issued(<<Topic[job[c].msg], k>>)',
           s = "created" => Issued(<<Topic[job[c].msg], n>>)',
           s = "commit" => Handled(job[c].msg)'
    PROVE  Works(c)'
<1>1. Works(c) /\ position[c] \in 1..(Len(Topic) + 1) /\ Len(Topic) \in Nat
  BY IssuanceAssumption DEF IInv, TypeOK
<1>2. \A m \in 1..(position[c] - 1) : Handled(m) => Handled(m)'
  BY <1>1, HandledStays DEF Messages
<1>3. \A m \in 1..(position[c] - 1) : Handled(m)' \/ (Busy(c) /\ job[c].msg = m)'
  BY <1>1, <1>2 DEF Works, Busy
<1> QED
  BY <1>1, <1>3 DEF Works, Busy, AtUnit, Good, UnitOf

(* ... or of c that stops, with its message handled.                       *)
LEMMA Stops ==
    ASSUME IInv, Grows, NEW c \in Consumers, Busy(c), job'[c] = Idle,
           position'[c] = position[c], NEW k, k = job[c].msg, Handled(k)'
    PROVE  Works(c)'
<1>1. Works(c) /\ position[c] \in 1..(Len(Topic) + 1) /\ Len(Topic) \in Nat
  BY IssuanceAssumption DEF IInv, TypeOK
<1>2. \A m \in 1..(position[c] - 1) : Handled(m) => Handled(m)'
  BY <1>1, HandledStays DEF Messages
<1>3. \A m \in 1..(position[c] - 1) : Handled(m)'
  BY <1>1, <1>2 DEF Works
<1> QED
  BY <1>3 DEF Works, Busy, AtUnit, Idle

(* A consumer that starts again from the committed offset.                 *)
LEMMA Rewinds ==
    ASSUME IInv, Grows, NEW c \in Consumers, job'[c] = Idle, position'[c] = committed
    PROVE  Works(c)'
<1>1. committed \in 1..(Len(Topic) + 1) /\ Len(Topic) \in Nat
  BY IssuanceAssumption DEF IInv, TypeOK
<1>2. \A m \in 1..(committed - 1) : Handled(m) /\ m \in Messages
  BY <1>1 DEF IInv, NothingSkipped, Handled, Messages
<1>3. \A m \in 1..(committed - 1) : Handled(m)'
  BY <1>2, HandledStays
<1> QED
  BY <1>1, <1>3 DEF Works, Busy, AtUnit, Idle

(* The committed offset stays covered as long as it stays.                 *)
LEMMA OffsetStays ==
    ASSUME IInv, Grows, committed' = committed
    PROVE  NothingSkipped'
<1>1. committed \in 1..(Len(Topic) + 1) /\ Len(Topic) \in Nat
  BY IssuanceAssumption DEF IInv, TypeOK
<1>2. \A m \in 1..(committed - 1) : Handled(m) /\ m \in Messages
  BY <1>1 DEF IInv, NothingSkipped, Handled, Messages
<1>3. \A m \in 1..(committed - 1) : Handled(m)'
  BY <1>2, HandledStays
<1> QED
  BY <1>1, <1>3 DEF NothingSkipped, Handled

-----------------------------------------------------------------------------
(* Steps of issuance.  What one leaves alone:                              *)
Untouched == UNCHANGED <<call, gate, audit, admissions, transfers>>

(* A step of c that writes no credential, and moves its job to j.          *)
LEMMA ReadsOnly ==
    ASSUME IInv, NEW c \in Consumers, UNCHANGED <<key, owner, status, committed>>, Untouched,
           dlq \subseteq dlq' /\ refused \subseteq refused',
           dlq' \subseteq Messages /\ refused' \subseteq Messages,
           assignee' \in Consumers,
           position' \in [Consumers -> 1..(Len(Topic) + 1)],
           \A d \in Consumers \ {c} : position'[d] = position[d],
           NEW j \in [step : {"idle", "look", "create", "created", "dlq", "commit"},
                      msg : Nat, unit : Nat, attempt : Nat],
           job' = [job EXCEPT ![c] = j],
           Grows => Works(c)'
    PROVE  IInv'
<1>1. Grows
  BY DEF Grows, Issued
<1>2. TypeOK'
  BY DEF IInv, TypeOK, Untouched
<1>3. OneEach' /\ OneGate'
  BY DEF IInv, OneEach, OneGate, Inside, Untouched
<1>4. \A d \in Consumers : Works(d)'
  <2>1. \A d \in Consumers \ {c} : job'[d] = job[d]
    BY DEF IInv, TypeOK
  <2> QED
    BY <1>1, <2>1, OthersWork
<1> QED
  BY <1>1, <1>2, <1>3, <1>4, OffsetStays DEF IInv

LEMMA FetchKeeps ==
    ASSUME IInv, Untouched, NEW c \in Consumers, Fetch(c) PROVE IInv'
<1> DEFINE m == position[c]
           s == IF Invalid(Topic[m]) THEN "dlq" ELSE "look"
           j == [step |-> s, msg |-> m, unit |-> 1, attempt |-> 0]
<1>1. /\ job' = [job EXCEPT ![c] = j] /\ job[c] = Idle
      /\ m \in Messages /\ position' = [position EXCEPT ![c] = m + 1]
      /\ UNCHANGED <<key, owner, status, committed, assignee, dlq, refused>>
  BY DEF Fetch, Take, tableVars
<1>2. m \in 1..Len(Topic) /\ Len(Topic) \in Nat /\ Topic[m] \in Orders
  BY <1>1, IssuanceAssumption DEF Messages
<1>3. /\ position' \in [Consumers -> 1..(Len(Topic) + 1)]
      /\ \A d \in Consumers \ {c} : position'[d] = position[d]
      /\ position'[c] = m + 1 /\ job'[c] = j
  <2>1. /\ position \in [Consumers -> 1..(Len(Topic) + 1)] /\ DOMAIN job = Consumers
        /\ m + 1 \in 1..(Len(Topic) + 1)
    BY <1>1, <1>2 DEF IInv, TypeOK
  <2> HIDE DEF m, j
  <2> QED
    BY <1>1, <2>1
<1>4. ASSUME Grows PROVE Works(c)'
  <2>1. \A k \in 1..(m - 1) : Handled(k) /\ k \in Messages
    BY <1>1, <1>2 DEF IInv, Works, Busy, Idle, Messages
  <2>2. \A k \in 1..(m - 1) : Handled(k)'
    BY <1>4, <2>1, HandledStays
  <2>3. s # "dlq" => Good(m) /\ Quantity[Topic[m]] \in Nat \ {0}
    BY <1>2, IssuanceAssumption DEF Invalid, Good
  <2> HIDE DEF m
  <2> QED
    BY <1>2, <1>3, <1>1, <2>2, <2>3 DEF Works, Busy, AtUnit, Good
<1>5. j \in [step : {"idle", "look", "create", "created", "dlq", "commit"},
              msg : Nat, unit : Nat, attempt : Nat]
  BY <1>2
<1>6. /\ dlq \subseteq Messages /\ refused \subseteq Messages /\ assignee \in Consumers
      /\ UNCHANGED <<key, owner, status, committed>>
      /\ dlq' = dlq /\ refused' = refused /\ assignee' = assignee /\ job' = [job EXCEPT ![c] = j]
  BY <1>1 DEF IInv, TypeOK
<1> HIDE DEF j, s, m
<1> QED
  BY <1>3, <1>4, <1>5, <1>6, ReadsOnly

Jobs == [step : {"idle", "look", "create", "created", "dlq", "commit"},
         msg : Nat, unit : Nat, attempt : Nat]

(* What a consumer at a unit knows.                                        *)
LEMMA AtUnitKnows ==
    ASSUME IInv, NEW c \in Consumers, AtUnit(c)
    PROVE  /\ Busy(c) /\ job[c].msg \in Messages /\ Topic[job[c].msg] \in Orders
           /\ Good(job[c].msg) /\ Quantity[Topic[job[c].msg]] \in Nat \ {0}
           /\ job[c].unit \in 1..Quantity[Topic[job[c].msg]]
           /\ job[c].attempt \in Nat
           /\ \A n \in 1..(job[c].unit - 1) : Issued(<<Topic[job[c].msg], n>>)
           /\ UnitOf(c) \in Units /\ UnitOf(c)[1] = Topic[job[c].msg]
           /\ job[c].step = "created" => Issued(UnitOf(c))
<1>1. /\ Works(c) /\ Busy(c) /\ job[c] \in Jobs
  BY DEF IInv, TypeOK, AtUnit, Busy, Jobs
<1>2. job[c].msg \in Messages /\ Topic[job[c].msg] \in Orders
  BY <1>1, IssuanceAssumption DEF Works, Messages
<1>3. Quantity[Topic[job[c].msg]] \in Nat \ {0} /\ job[c].unit \in 1..Quantity[Topic[job[c].msg]]
  BY <1>1, <1>2, IssuanceAssumption DEF Works
<1>4. UnitOf(c) \in Units /\ UnitOf(c)[1] = Topic[job[c].msg]
  BY <1>2, <1>3, UnitsAre DEF UnitOf
<1> QED
  BY <1>1, <1>2, <1>3, <1>4 DEF Works, Jobs

(* The loop over the units goes on, or ends.                               *)
LEMMA NextUnit ==
    ASSUME IInv, NEW c \in Consumers, AtUnit(c), Issued(UnitOf(c)), UnitDone(c),
           UNCHANGED <<key, dlq, refused, position>>
    PROVE  \E j \in Jobs : /\ job' = [job EXCEPT ![c] = j]
                           /\ Grows => Works(c)'
<1>1. PICK m \in Messages, u \in Nat, a \in Nat :
         /\ m = job[c].msg /\ u = job[c].unit /\ a = job[c].attempt
         /\ Busy(c) /\ Topic[m] \in Orders /\ Good(m) /\ Quantity[Topic[m]] \in Nat \ {0}
         /\ u \in 1..Quantity[Topic[m]]
         /\ \A n \in 1..(u - 1) : Issued(<<Topic[m], n>>)
  BY AtUnitKnows
<1> DEFINE q == Quantity[Topic[m]]
<1>2. Issued(<<Topic[m], u>>) /\ m \in Nat
  BY <1>1, IssuanceAssumption DEF UnitOf, Messages
<1>3. \A n \in 1..u : Issued(<<Topic[m], n>>)'
  BY <1>1, <1>2 DEF Issued
<1>4. CASE u < q
  <2> DEFINE j == [step |-> "look", msg |-> m, unit |-> u + 1, attempt |-> a]
  <2>1. j \in Jobs /\ job' = [job EXCEPT ![c] = j] /\ job'[c] = j
    BY <1>1, <1>2, <1>4 DEF UnitDone, Goto, Jobs, IInv, TypeOK
  <2>2. \A k \in 1..(u + 1 - 1) : Issued(<<Topic[m], k>>)'
    BY <1>1, <1>3
  <2>3. Good(m) /\ u + 1 \in 1..q /\ u + 1 \in Nat
    BY <1>1, <1>4
  <2>4. Grows => Works(c)'
    BY <1>1, <2>1, <2>2, <2>3, Moves
  <2> QED
    BY <2>1, <2>4
<1>5. CASE ~(u < q)
  <2> DEFINE j == [step |-> "commit", msg |-> m, unit |-> u, attempt |-> a]
  <2>1. j \in Jobs /\ job' = [job EXCEPT ![c] = j] /\ job'[c] = j
    BY <1>1, <1>2, <1>5 DEF UnitDone, Step, Goto, Jobs, IInv, TypeOK
  <2>2. u = q
    BY <1>1, <1>5
  <2>3. Handled(m)'
    <3>1. \A v \in UnitsOf(Topic[m]) : Issued(v)'
      BY <1>1, <1>3, <2>2, UnitsAre
    <3> QED
      BY <1>1, <3>1 DEF Handled, Good, UnitsIssued
  <2>4. Handled(job[c].msg)'
    BY <1>1, <2>1, <2>3 DEF Handled, Good, UnitsIssued
  <2>5. Grows => Works(c)'
    BY <1>1, <2>1, <2>4, Moves
  <2> QED
    BY <2>1, <2>5
<1> QED
  BY <1>4, <1>5

LEMMA LookUpKeeps ==
    ASSUME IInv, Untouched, NEW c \in Consumers,
           LookUp(c) \/ CreateDuplicate(c) \/ Created(c)
    PROVE  IInv'
<1>1. AtUnit(c) /\ UNCHANGED <<key, owner, status, committed, assignee, position, dlq, refused>>
  BY DEF LookUp, CreateDuplicate, Created, AtUnit, tableVars, groupVars
<1>2. \E j \in Jobs : job' = [job EXCEPT ![c] = j] /\ (Grows => Works(c)')
  <2>1. CASE UnitDone(c) /\ Issued(UnitOf(c))
    BY <1>1, <2>1, NextUnit
  <2>2. CASE \E s \in {"create", "created"} : Step(c, s) /\ (s = "created" => Issued(UnitOf(c)))
    <3>1. PICK s \in {"create", "created"} : Step(c, s) /\ (s = "created" => Issued(UnitOf(c)))
      BY <2>2
    <3> DEFINE j == [step |-> s, msg |-> job[c].msg, unit |-> job[c].unit, attempt |-> job[c].attempt]
    <3>2. /\ Busy(c) /\ Good(job[c].msg) /\ job[c].unit \in 1..Quantity[Topic[job[c].msg]]
          /\ \A n \in 1..(job[c].unit - 1) : Issued(<<Topic[job[c].msg], n>>)
          /\ job[c].msg \in Nat /\ job[c].unit \in Nat /\ job[c].attempt \in Nat
      BY <1>1, AtUnitKnows, IssuanceAssumption DEF Messages, IInv, TypeOK
    <3>3. j \in Jobs /\ job' = [job EXCEPT ![c] = j] /\ job'[c] = j
      BY <3>1, <3>2 DEF Step, Goto, Jobs, IInv, TypeOK
    <3>4. \A n \in 1..(job[c].unit - 1) : Issued(<<Topic[job[c].msg], n>>)'
      <4>1. \A u : Issued(u) => Issued(u)'
        BY <1>1 DEF Issued
      <4>2. job'[c].msg = job[c].msg /\ job'[c].unit = job[c].unit
        BY <3>3
      <4> QED
        BY <3>2, <4>1, <4>2
    <3>5. s = "created" => Issued(<<Topic[job[c].msg], job[c].unit>>)'
      BY <1>1, <3>1, <3>3 DEF Issued, UnitOf
    <3>6. Grows => Works(c)'
      BY <1>1, <3>2, <3>3, <3>4, <3>5, Moves
    <3> QED
      BY <3>3, <3>6
  <2> QED
    BY <2>1, <2>2, <1>1, AtUnitKnows DEF LookUp, CreateDuplicate, Created
<1>3. PICK j \in Jobs : job' = [job EXCEPT ![c] = j] /\ (Grows => Works(c)')
  BY <1>2
<1> QED
  BY <1>1, <1>3, ReadsOnly DEF IInv, TypeOK, Jobs

(* A step of a consumer that goes to the dead letters, to the commit of a  *)
(* handled message, or back to the first unit.                             *)
LEMMA FailureKeeps ==
    ASSUME IInv, Untouched, NEW c \in Consumers,
           IssueFails(c) \/ DeadLetter(c) \/ DeadLetterFails(c) \/ CommitFails(c)
    PROVE  IInv'
<1>1. /\ UNCHANGED <<key, owner, status, committed, assignee, position>>
      /\ dlq \subseteq dlq' /\ refused \subseteq refused'
  BY DEF IssueFails, DeadLetter, DeadLetterFails, GiveUp, CommitFails, tableVars, groupVars
<1>2. PICK m \in Messages : m = job[c].msg
  BY DEF IssueFails, DeadLetter, DeadLetterFails, CommitFails, IInv, Works, Busy
<1>3. m \in Nat /\ job[c] \in Jobs /\ job[c].unit \in Nat /\ job[c].attempt \in Nat /\ Busy(c)
  BY <1>2, IssuanceAssumption
  DEF Messages, IInv, TypeOK, Jobs, Busy, IssueFails, DeadLetter, DeadLetterFails, CommitFails
<1>4. dlq' \subseteq Messages /\ refused' \subseteq Messages
  BY <1>2 DEF IssueFails, DeadLetter, DeadLetterFails, GiveUp, CommitFails, groupVars, IInv, TypeOK
<1>5. \E j \in Jobs : job' = [job EXCEPT ![c] = j] /\ (Grows => Works(c)')
  <2>1. CASE IssueFails(c)
    <3>1. AtUnit(c)
      BY <2>1 DEF IssueFails, AtUnit
    <3>2. Good(m) /\ 1 \in 1..Quantity[Topic[m]] /\ MaxRetries \in Nat
      BY <1>2, <3>1, AtUnitKnows, IssuanceAssumption
    <3>3. PICK s \in {"look", "dlq"}, n \in Nat, a \in Nat :
             /\ s = "look" => n = 1
             /\ job' = [job EXCEPT ![c] = [step |-> s, msg |-> m, unit |-> n, attempt |-> a]]
      <4>1. CASE job[c].attempt < MaxRetries
        BY <1>2, <1>3, <2>1, <4>1 DEF IssueFails, Goto
      <4>2. CASE ~(job[c].attempt < MaxRetries)
        BY <1>2, <1>3, <2>1, <4>2 DEF IssueFails, Step, Goto
      <4> QED
        BY <4>1, <4>2
    <3> DEFINE j == [step |-> s, msg |-> m, unit |-> n, attempt |-> a]
    <3>4. j \in Jobs /\ job'[c] = j
      BY <1>3, <3>3 DEF Jobs, IInv, TypeOK
    <3>5. Grows => Works(c)'
      BY <1>1, <1>2, <1>3, <3>2, <3>3, <3>4, Moves
    <3> QED
      BY <3>3, <3>4, <3>5
  <2>2. CASE DeadLetter(c)
    <3> DEFINE j == [step |-> "commit", msg |-> m, unit |-> job[c].unit, attempt |-> job[c].attempt]
    <3>1. j \in Jobs /\ job' = [job EXCEPT ![c] = j] /\ job'[c] = j /\ m \in dlq'
      BY <1>2, <1>3, <2>2 DEF DeadLetter, Step, Goto, Jobs, IInv, TypeOK
    <3>2. job'[c].msg = m
      BY <3>1
    <3>3. Handled(job[c].msg)'
      BY <3>1, <3>2 DEF Handled
    <3>4. Grows => Works(c)'
      BY <1>1, <1>2, <1>3, <3>1, <3>3, Moves
    <3> QED
      BY <3>1, <3>4
  <2>3. CASE DeadLetterFails(c) \/ CommitFails(c)
    <3>1. Idle \in Jobs /\ job' = [job EXCEPT ![c] = Idle] /\ job'[c] = Idle
      BY <2>3 DEF DeadLetterFails, CommitFails, GiveUp, Stop, Jobs, Idle, IInv, TypeOK
    <3>2. CASE DeadLetterFails(c)
      BY <1>1, <1>2, <1>3, <3>1, <3>2, Stops DEF DeadLetterFails, GiveUp, Handled
    <3>3. CASE CommitFails(c)
      <4>1. Handled(m)
        BY <1>2, <3>3 DEF CommitFails, IInv, Works
      <4>2. Grows => Handled(m)'
        BY <4>1, HandledStays
      <4> QED
        BY <1>1, <1>2, <1>3, <3>1, <4>2, Stops
    <3> QED
      BY <2>3, <3>2, <3>3
  <2> QED
    BY <2>1, <2>2, <2>3
<1>6. PICK j \in Jobs : job' = [job EXCEPT ![c] = j] /\ (Grows => Works(c)')
  BY <1>5
<1> QED
  BY <1>1, <1>4, <1>6, ReadsOnly DEF IInv, TypeOK, Jobs

LEMMA RestartKeeps ==
    ASSUME IInv, Untouched, NEW c \in Consumers, Restart(c) \/ Rebalance(c) PROVE IInv'
<1>1. /\ UNCHANGED <<key, owner, status, committed, dlq, refused>>
      /\ position' = [position EXCEPT ![c] = committed]
      /\ assignee' \in Consumers
  BY DEF Restart, Rebalance, tableVars, IInv, TypeOK
<1>2. job' = [job EXCEPT ![c] = Idle] /\ Idle \in Jobs /\ job'[c] = Idle
  <2>1. job \in [Consumers -> Jobs]
    BY DEF IInv, TypeOK, Jobs
  <2>2. CASE Restart(c)
    BY <2>1, <2>2 DEF Restart, Stop, Jobs, Idle
  <2>3. CASE Rebalance(c)
    <3>1. job[c] = Idle /\ job' = job
      BY <2>3 DEF Rebalance
    <3>2. job' = [job EXCEPT ![c] = Idle]
      BY <2>1, <3>1
    <3> QED
      BY <2>1, <3>1, <3>2
  <2> QED
    BY <2>2, <2>3
<1>3. /\ position' \in [Consumers -> 1..(Len(Topic) + 1)]
      /\ \A d \in Consumers \ {c} : position'[d] = position[d]
      /\ position'[c] = committed
      /\ dlq \subseteq Messages /\ refused \subseteq Messages
  BY <1>1 DEF IInv, TypeOK
<1>4. Grows => Works(c)'
  BY <1>2, <1>3, Rewinds
<1> QED
  BY <1>1, <1>2, <1>3, <1>4, ReadsOnly DEF Jobs

LEMMA CreateKeeps ==
    ASSUME IInv, Untouched, NEW c \in Consumers, Create(c) PROVE IInv'
<1>1. /\ AtUnit(c) /\ Insert(UnitOf(c)) /\ UNCHANGED groupVars
      /\ job' = [job EXCEPT ![c] = [step |-> "created", msg |-> job[c].msg,
                                   unit |-> job[c].unit, attempt |-> job[c].attempt]]
  BY DEF Create, AtUnit, Step, Goto
<1>2. PICK m \in Messages, n \in Nat, a \in Nat :
         /\ m = job[c].msg /\ n = job[c].unit /\ a = job[c].attempt
         /\ Busy(c) /\ Good(m) /\ n \in 1..Quantity[Topic[m]] /\ Topic[m] \in Orders
         /\ \A k \in 1..(n - 1) : Issued(<<Topic[m], k>>)
         /\ UnitOf(c) \in Units /\ UnitOf(c)[1] = Topic[m]
  BY <1>1, AtUnitKnows
<1>3. PICK v \in Units : v = <<Topic[m], n>> /\ v = UnitOf(c)
  BY <1>2 DEF UnitOf
<1>4. /\ key' \in [Rows -> Units \cup {NoUnit}] /\ owner' \in [Rows -> Users \cup {NoUser}]
      /\ status' \in [Rows -> {"none", "ISSUED", "USED"}] /\ OneEach'
      /\ \A r \in Rows : status[r] = "USED" => status'[r] = "USED"
      /\ \A u \in Units : Issued(u) => Issued(u)'
      /\ Issued(v)'
  BY <1>1, <1>2, <1>3, RowWritten DEF IInv
<1>5. UNCHANGED <<committed, assignee, position, dlq, refused>>
  BY <1>1 DEF groupVars
<1>6. Grows
  BY <1>4, <1>5 DEF Grows
<1> DEFINE j == [step |-> "created", msg |-> m, unit |-> n, attempt |-> a]
<1>7. /\ j \in Jobs /\ job' = [job EXCEPT ![c] = j] /\ job'[c] = j
      /\ \A d \in Consumers \ {c} : job'[d] = job[d] /\ job' \in [Consumers -> Jobs]
  BY <1>1, <1>2, IssuanceAssumption DEF Jobs, Messages, IInv, TypeOK
<1>8. Works(c)'
  <2>1. \A k \in 1..(n - 1) : Issued(<<Topic[m], k>>)'
    <3> SUFFICES ASSUME NEW k \in 1..(n - 1) PROVE Issued(<<Topic[m], k>>)'
      OBVIOUS
    <3>1. k \in 1..Quantity[Topic[m]]
      BY <1>2, IssuanceAssumption
    <3>2. PICK w \in Units : w = <<Topic[m], k>>
      BY <1>2, <3>1, UnitsAre
    <3> QED
      BY <1>2, <1>4, <3>2
  <2>2. Issued(<<Topic[m], n>>)'
    BY <1>3, <1>4
  <2> QED
    BY <1>2, <1>5, <1>6, <1>7, <2>1, <2>2, Moves
<1>9. \A d \in Consumers : Works(d)'
  BY <1>5, <1>6, <1>7, <1>8, OthersWork
<1>10. TypeOK'
  BY <1>4, <1>5, <1>7 DEF IInv, TypeOK, Untouched, Jobs
<1>11. OneGate'
  BY <1>4 DEF IInv, OneGate, Inside, Untouched
<1> QED
  BY <1>4, <1>5, <1>6, <1>9, <1>10, <1>11, OffsetStays DEF IInv

LEMMA CommitKeeps ==
    ASSUME IInv, Untouched, NEW c \in Consumers, Commit(c) PROVE IInv'
<1>1. PICK m \in Messages :
         /\ m = job[c].msg /\ Handled(m) /\ Busy(c) /\ position[c] = m + 1
         /\ \A k \in 1..m : k # m => Handled(k)
  <2>1. Works(c) /\ job[c].step = "commit" /\ Busy(c)
    BY DEF Commit, IInv, Busy
  <2>2. job[c].msg \in Messages /\ position[c] = job[c].msg + 1 /\ Handled(job[c].msg)
    BY <2>1 DEF Works
  <2>3. \A k \in 1..job[c].msg : k # job[c].msg => Handled(k)
    BY <2>1, <2>2, IssuanceAssumption DEF Works, Messages
  <2> QED
    BY <2>1, <2>2, <2>3
<1>2. /\ UNCHANGED <<key, owner, status, assignee, position, dlq, refused>>
      /\ job' = [job EXCEPT ![c] = Idle]
      /\ committed' = committed \/ committed' = m + 1
  BY <1>1 DEF Commit, Stop, tableVars
<1>3. Grows
  BY <1>2 DEF Grows, Issued
<1>4. m \in 1..Len(Topic) /\ Len(Topic) \in Nat
  BY IssuanceAssumption DEF Messages
<1>5. /\ job'[c] = Idle /\ \A d \in Consumers \ {c} : job'[d] = job[d]
      /\ job' \in [Consumers -> Jobs]
  BY <1>2 DEF IInv, TypeOK, Jobs, Idle
<1>6. Handled(m)'
  BY <1>1, <1>3, HandledStays
<1>7. Works(c)'
  BY <1>1, <1>2, <1>3, <1>5, <1>6, Stops
<1>8. \A d \in Consumers : Works(d)'
  BY <1>2, <1>3, <1>5, <1>7, OthersWork
<1>9. NothingSkipped'
  <2>1. CASE committed' = committed
    BY <1>3, <2>1, OffsetStays
  <2>2. CASE committed' = m + 1
    <3>1. \A k \in 1..m : k \in Messages /\ Handled(k)
      BY <1>1, <1>4 DEF Messages
    <3>2. \A k \in 1..m : Handled(k)'
      BY <1>3, <3>1, HandledStays
    <3> QED
      BY <1>4, <2>2, <3>2 DEF NothingSkipped, Handled
  <2> QED
    BY <1>2, <2>1, <2>2
<1>10. TypeOK'
  <2>1. committed' \in 1..(Len(Topic) + 1)
    BY <1>2, <1>4 DEF IInv, TypeOK
  <2> QED
    BY <1>2, <1>5, <2>1 DEF IInv, TypeOK, Untouched, Jobs
<1>11. OneEach' /\ OneGate'
  BY <1>2 DEF IInv, OneEach, OneGate, Inside, Untouched
<1> QED
  BY <1>8, <1>9, <1>10, <1>11 DEF IInv

(* A step of the relay, or one that stutters.                              *)
TableAndGroup == <<key, owner, status, committed, assignee, position, dlq, refused, job>>

LEMMA StutterKeeps ==
    ASSUME IInv, Untouched, UNCHANGED TableAndGroup PROVE IInv'
<1>1. Grows
  BY DEF Grows, Issued, TableAndGroup
<1>2. TypeOK'
  BY DEF IInv, TypeOK, Untouched, TableAndGroup
<1>3. OneEach' /\ OneGate'
  BY DEF IInv, OneEach, OneGate, Inside, Untouched, TableAndGroup
<1>4. \A c \in Consumers : Works(c)'
  BY <1>1, OthersWork DEF TableAndGroup
<1>5. NothingSkipped'
  BY <1>1, OffsetStays DEF TableAndGroup
<1> QED
  BY <1>2, <1>3, <1>4, <1>5 DEF IInv

LEMMA IssuanceKeeps ==
    ASSUME IInv, Untouched, IssuanceNext PROVE IInv'
<1>1. ASSUME NEW c \in Consumers,
             \/ Consume(c) \/ IssueFails(c) \/ DeadLetterFails(c)
             \/ CommitFails(c) \/ Restart(c) \/ Rebalance(c)
      PROVE  IInv'
  BY <1>1, FetchKeeps, LookUpKeeps, CreateKeeps, FailureKeeps, CommitKeeps, RestartKeeps
  DEF Consume
<1>2. ASSUME NEW p \in Relays, RunOnce(p) \/ RelayFails(p) PROVE IInv'
  BY <1>2, StutterKeeps DEF RunOnce, RelayFails, tableVars, groupVars, TableAndGroup
<1>3. ASSUME NEW r \in Rows, DeletePublished(r) PROVE IInv'
  BY <1>3, StutterKeeps DEF DeletePublished, tableVars, groupVars, TableAndGroup
<1> QED
  BY <1>1, <1>2, <1>3 DEF IssuanceNext

-----------------------------------------------------------------------------
(* Steps at the doors.  The consumers, and what is issued, stay:           *)
Behind == <<key, committed, assignee, position, dlq, refused, job>>

DoorsTyped ==
    /\ owner \in [Rows -> Users \cup {NoUser}]
    /\ status \in [Rows -> {"none", "ISSUED", "USED"}]
    /\ call \in [Users -> [op : {"none", "transfer", "recall", "accept"},
                           on : Nat, to : Users \cup {NoUser}]]
    /\ gate \in [Gates -> [step : {"none", "consume", "record", "answer"}, row : Nat]]
    /\ audit \in [Rows -> Nat] /\ admissions \in [Rows -> Nat]

LEMMA DoorKeeps ==
    ASSUME IInv, UNCHANGED Behind, DoorsTyped', OneGate',
           \A r \in Rows : status'[r] = "none" <=> status[r] = "none"
    PROVE  IInv'
<1>1. Grows
  BY DEF Grows, Issued, Behind
<1>2. TypeOK'
  BY DEF IInv, TypeOK, DoorsTyped, Behind
<1>3. OneEach'
  BY DEF IInv, OneEach, Behind
<1>4. \A c \in Consumers : Works(c)'
  BY <1>1, OthersWork DEF Behind
<1>5. NothingSkipped'
  BY <1>1, OffsetStays DEF Behind
<1> QED
  BY <1>2, <1>3, <1>4, <1>5 DEF IInv

LEMMA TransferKeeps ==
    ASSUME IInv, TransferNext PROVE IInv'
<1>1. PICK u \in Users :
         \/ \E r \in Rows : AskRecall(u, r) \/ \E to \in Users : AskTransfer(u, r, to)
         \/ \E t \in Transfers : AskAccept(u, t)
         \/ CreateTransfer(u) \/ RecallTransfer(u) \/ AcceptTransfer(u)
  BY DEF TransferNext
<1>2. UNCHANGED Behind /\ UNCHANGED <<status, gate, audit, admissions>>
  BY <1>1 DEF AskRecall, AskTransfer, AskAccept, CreateTransfer, RecallTransfer,
              AcceptTransfer, Behind, issuanceVars, tableVars, groupVars
<1>3. OneGate'
  BY <1>2 DEF IInv, OneGate, Inside
<1>4. DoorsTyped
  BY DEF IInv, TypeOK, DoorsTyped
<1>5. call' \in [Users -> [op : {"none", "transfer", "recall", "accept"},
                          on : Nat, to : Users \cup {NoUser}]]
  <2>1. \E k \in [op : {"none", "transfer", "recall", "accept"},
                  on : Nat, to : Users \cup {NoUser}] : call' = [call EXCEPT ![u] = k]
    BY <1>1, AdmissionAssumption, IssuanceAssumption
    DEF AskRecall, AskTransfer, AskAccept, CreateTransfer, RecallTransfer,
        AcceptTransfer, NoCall, Transfers, Rows
  <2> QED
    BY <1>4, <2>1 DEF DoorsTyped
<1>6. owner' \in [Rows -> Users \cup {NoUser}]
  <2>1. owner' = owner \/ \E x : owner' = [owner EXCEPT ![x] = u]
    BY <1>1 DEF AskRecall, AskTransfer, AskAccept, CreateTransfer, RecallTransfer,
                AcceptTransfer, Accept, issuanceVars, tableVars
  <2> QED
    BY <1>4, <2>1 DEF DoorsTyped
<1> QED
  BY <1>2, <1>3, <1>4, <1>5, <1>6, DoorKeeps DEF DoorsTyped

(* A credential is consumed by one gate, which has used it.                *)
LEMMA GateKeeps ==
    ASSUME IInv, GateNext PROVE IInv'
<1>1. PICK g \in Gates :
         \/ \E r \in Rows : CheckIn(g, r) \/ \E u \in Users : CheckInByBuyer(g, u, r)
         \/ ConsumeIssued(g) \/ Record(g) \/ RecordFails(g) \/ Answer(g) \/ AnswerLost(g)
  BY DEF GateNext
<1>2. UNCHANGED Behind /\ UNCHANGED <<owner, call>>
  BY <1>1 DEF CheckIn, CheckInByBuyer, ReadCredential, ConsumeIssued, Record, RecordFails,
              Answer, AnswerLost, Behind, issuanceVars, tableVars, groupVars
<1>3. DoorsTyped /\ OneGate
  BY DEF IInv, TypeOK, DoorsTyped
<1>4. CASE \E r \in Rows : CheckIn(g, r) \/ \E u \in Users : CheckInByBuyer(g, u, r)
  <2>1. PICK r \in Rows : ReadCredential(g, r)
    BY <1>4 DEF CheckIn, CheckInByBuyer
  <2>2. /\ gate' = [gate EXCEPT ![g] = [step |-> "consume", row |-> r]] /\ r \in Nat
        /\ UNCHANGED <<status, audit, admissions>>
    BY <2>1, IssuanceAssumption DEF ReadCredential, Rows, issuanceVars, tableVars
  <2>3. DoorsTyped'
    BY <1>2, <1>3, <2>2 DEF DoorsTyped
  <2>4. OneGate'
    BY <1>3, <2>2 DEF OneGate, Inside, DoorsTyped
  <2> QED
    BY <1>2, <2>2, <2>3, <2>4, DoorKeeps
<1>5. CASE ConsumeIssued(g)
  <2>1. gate[g].row \in Rows /\ UNCHANGED <<audit, admissions>>
    BY <1>3, <1>5 DEF OneGate, ConsumeIssued
  <2>2. PICK r \in Rows : r = gate[g].row /\ r \in Nat
    BY <2>1, IssuanceAssumption DEF Rows
  <2>3. CASE /\ WasIssued(r) /\ status' = [status EXCEPT ![r] = "USED"]
             /\ gate' = [gate EXCEPT ![g] = [step |-> "record", row |-> r]]
    <3>1. DoorsTyped'
      BY <1>2, <1>3, <2>1, <2>2, <2>3 DEF DoorsTyped
    <3>2. admissions[r] = 0 /\ \A h \in Gates : Inside(h) => gate[h].row # r
      <4>1. status[r] = "ISSUED" /\ admissions[r] \in Nat /\ admissions[r] <= 1
        BY <1>3, <2>3 DEF OneGate, WasIssued, DoorsTyped
      <4>2. admissions[r] # 1 /\ \A h \in Gates : Inside(h) => gate[h].row # r
        BY <1>3, <4>1 DEF OneGate
      <4> QED
        BY <4>1, <4>2
    <3>3. \A h \in Gates : h # g => gate'[h] = gate[h]
      BY <1>3, <2>3 DEF DoorsTyped
    <3>4. gate'[g].row = r /\ gate'[g].step = "record" /\ status'[r] = "USED"
      BY <1>3, <2>3 DEF DoorsTyped
    <3>5. \A q \in Rows : q # r => status'[q] = status[q]
      BY <1>3, <2>3 DEF DoorsTyped
    <3>6. OneGate'
      BY <1>3, <2>1, <3>2, <3>3, <3>4, <3>5 DEF OneGate, Inside
    <3>7. \A q \in Rows : status'[q] = "none" <=> status[q] = "none"
      BY <2>3, <3>4, <3>5 DEF WasIssued
    <3> QED
      BY <1>2, <3>1, <3>6, <3>7, DoorKeeps
  <2>4. CASE UNCHANGED status /\ gate' = [gate EXCEPT ![g] = NoScan]
    <3>1. DoorsTyped'
      BY <1>2, <1>3, <2>1, <2>4 DEF DoorsTyped, NoScan
    <3>2. OneGate'
      BY <1>3, <2>1, <2>4 DEF OneGate, Inside, DoorsTyped, NoScan
    <3> QED
      BY <1>2, <2>4, <3>1, <3>2, DoorKeeps
  <2> QED
    BY <1>5, <2>2, <2>3, <2>4 DEF ConsumeIssued, AtStep
<1>6. CASE Record(g) \/ RecordFails(g)
  <2>1. /\ Inside(g) /\ UNCHANGED <<status, admissions>>
        /\ gate' = [gate EXCEPT ![g] = [step |-> "answer", row |-> gate[g].row]]
        /\ audit' = audit \/ audit' = [audit EXCEPT ![gate[g].row] = @ + 1]
    BY <1>6 DEF Record, RecordFails, AtStep, Inside, issuanceVars, tableVars
  <2>2. PICK r \in Rows : r = gate[g].row /\ r \in Nat
    BY <1>3, <2>1, IssuanceAssumption DEF OneGate, Inside, Rows
  <2>3. DoorsTyped'
    BY <1>2, <1>3, <2>1, <2>2 DEF DoorsTyped
  <2>4. OneGate'
    <3>1. \A h \in Gates : gate'[h].row = gate[h].row /\ (Inside(h)' <=> Inside(h))
      BY <1>3, <2>1 DEF DoorsTyped, Inside
    <3>2. \A h \in Gates : gate'[h].step # "none" <=> gate[h].step # "none"
      BY <1>3, <2>1 DEF DoorsTyped, Inside
    <3> QED
      BY <1>3, <2>1, <3>1, <3>2 DEF OneGate
  <2> QED
    BY <1>2, <2>1, <2>3, <2>4, DoorKeeps
<1>7. CASE Answer(g)
  <2>1. /\ Inside(g) /\ UNCHANGED <<status, audit>>
        /\ gate' = [gate EXCEPT ![g] = NoScan]
        /\ admissions' = [admissions EXCEPT ![gate[g].row] = @ + 1]
    BY <1>7 DEF Answer, Inside, issuanceVars, tableVars
  <2>2. PICK r \in Rows : r = gate[g].row /\ admissions[r] = 0 /\ status[r] = "USED"
    BY <1>3, <2>1 DEF OneGate, Inside
  <2>3. DoorsTyped'
    BY <1>2, <1>3, <2>1, <2>2 DEF DoorsTyped, NoScan
  <2>4. /\ \A q \in Rows : q # r => admissions'[q] = admissions[q]
        /\ admissions'[r] = 1
        /\ \A h \in Gates : h # g => gate'[h] = gate[h]
        /\ gate'[g].step = "none"
    BY <1>3, <2>1, <2>2 DEF DoorsTyped, NoScan
  <2>5. OneGate'
    BY <1>3, <2>1, <2>2, <2>4 DEF OneGate, Inside
  <2> QED
    BY <1>2, <2>1, <2>3, <2>5, DoorKeeps
<1>8. CASE AnswerLost(g)
  <2>1. UNCHANGED <<status, audit, admissions>> /\ gate' = [gate EXCEPT ![g] = NoScan]
    BY <1>8 DEF AnswerLost, tableVars
  <2>2. DoorsTyped'
    BY <1>2, <1>3, <2>1 DEF DoorsTyped, NoScan
  <2>3. OneGate'
    BY <1>3, <2>1 DEF OneGate, Inside, DoorsTyped, NoScan
  <2> QED
    BY <1>2, <2>1, <2>2, <2>3, DoorKeeps
<1> QED
  BY <1>1, <1>4, <1>5, <1>6, <1>7, <1>8

-----------------------------------------------------------------------------
LEMMA InitHolds == Init => IInv
<1> SUFFICES ASSUME Init PROVE IInv
  OBVIOUS
<1>1. Rows \subseteq Nat /\ Len(Topic) \in Nat
  BY IssuanceAssumption DEF Rows
<1>2. TypeOK
  BY <1>1 DEF Init, IssuanceInit, TypeOK, Idle, NoCall, NoScan
<1>3. OneEach /\ OneGate
  BY DEF Init, IssuanceInit, OneEach, OneGate, Inside, NoScan
<1>4. NothingSkipped /\ \A c \in Consumers : Works(c)
  BY DEF Init, IssuanceInit, NothingSkipped, Works, Busy, AtUnit, Idle
<1> QED
  BY <1>2, <1>3, <1>4 DEF IInv

LEMMA NextHolds == IInv /\ [Next]_vars => IInv'
<1> SUFFICES ASSUME IInv, [Next]_vars PROVE IInv'
  OBVIOUS
<1>1. CASE ~doors /\ IssuanceNext /\ UNCHANGED <<doors, doorVars>>
  BY <1>1, IssuanceKeeps DEF Untouched, doorVars
<1>2. CASE OpenDoors \/ UNCHANGED vars
  BY <1>2, StutterKeeps
  DEF OpenDoors, vars, issuanceVars, tableVars, groupVars, doorVars, Untouched, TableAndGroup
<1>3. CASE doors /\ (TransferNext \/ GateNext)
  BY <1>3, TransferKeeps, GateKeeps
<1> QED
  BY <1>1, <1>2, <1>3 DEF Next

LEMMA Invariance == Spec => []IInv
  BY InitHolds, NextHolds, PTL DEF Spec

(* The variables of the attendance-service keep their types.               *)
THEOREM TypeCorrect == Spec => []TypeOK
<1>1. IInv => TypeOK
  BY DEF IInv
<1> QED
  BY <1>1, Invariance, PTL

(* No order event is skipped: what lies below the committed offset has its *)
(* credentials, or is in the dead-letter topic, or was refused there.      *)
THEOREM NoMessageSkipped == Spec => []NothingSkipped
<1>1. IInv => NothingSkipped
  BY DEF IInv
<1> QED
  BY <1>1, Invariance, PTL

(* A unit lets in one person at most, through any number of gates,         *)
(* redeliveries, transfers and faults.                                     *)
THEOREM OnePersonPerUnit == Spec => []UnitAdmitsOne
<1>1. IInv => UnitAdmitsOne
  BY DEF IInv, OneEach, OneGate, UnitAdmitsOne
<1> QED
  BY <1>1, Invariance, PTL

(* An accepted or a recalled transfer stays so.                            *)
THEOREM TransfersFinal == Spec => TransferFinal
<1> DEFINE Stays == \A t \in DOMAIN transfers :
                        transfers[t].state # "PENDING" => transfers'[t] = transfers[t]
<1>1. [Next]_vars => [Stays]_vars
  <2> SUFFICES ASSUME [Next]_vars, NEW t \in DOMAIN transfers, transfers[t].state # "PENDING"
               PROVE  transfers'[t] = transfers[t]
    OBVIOUS
  <2>1. CASE UNCHANGED transfers
    BY <2>1
  <2>2. CASE \E u \in Users : CreateTransfer(u)
    BY <2>2 DEF CreateTransfer
  <2>3. CASE \E u \in Users : RecallTransfer(u)
    BY <2>3 DEF RecallTransfer
  <2>4. CASE \E u \in Users : AcceptTransfer(u)
    BY <2>4 DEF AcceptTransfer, Accept
  <2>5. \/ UNCHANGED transfers \/ \E u \in Users : CreateTransfer(u) \/ RecallTransfer(u) \/ AcceptTransfer(u)
    BY DEF Next, TransferNext, GateNext, OpenDoors, vars, doorVars, AskRecall, AskTransfer,
                AskAccept, CheckIn, CheckInByBuyer, ReadCredential, ConsumeIssued, Record,
                RecordFails, Answer, AnswerLost
  <2> QED
    BY <2>1, <2>2, <2>3, <2>4, <2>5
<1> QED
  BY <1>1, PTL DEF Spec, TransferFinal

-----------------------------------------------------------------------------
(* Used credentials and the people they let in.                            *)

(* The scan of a gate is recorded after its credential is used, once.      *)
Audited ==
    /\ \A r \in Rows : audit[r] <= 1 /\ (audit[r] = 1 => status[r] = "USED")
    /\ \A g \in Gates : gate[g].step = "record" => audit[gate[g].row] = 0

UsedIInv == IInv /\ Audited /\ faultCount \in Nat /\ Cardinality(Barred) <= faultCount

LEMMA RowsFinite == IsFiniteSet(Rows) /\ \A S \in SUBSET Rows : IsFiniteSet(S) /\ Cardinality(S) \in Nat
<1>1. IsFiniteSet(Rows)
  BY IssuanceAssumption, FS_Interval DEF Rows
<1> QED
  BY <1>1, FS_Subset, FS_CardinalityType

(* A step bars nobody, or one more and counts a fault.                     *)
LEMMA BarredBounded ==
    ASSUME faultCount \in Nat, Cardinality(Barred) <= faultCount, NEW r, r \in Rows,
           \/ Barred' \subseteq Barred /\ (faultCount' = faultCount \/ faultCount' = faultCount + 1)
           \/ Barred' \subseteq Barred \cup {r} /\ faultCount' = faultCount + 1
    PROVE  faultCount' \in Nat /\ Cardinality(Barred') <= faultCount'
<1>1. Barred \in SUBSET Rows /\ Barred \cup {r} \in SUBSET Rows
  BY DEF Barred
<1>2. /\ IsFiniteSet(Barred) /\ IsFiniteSet(Barred \cup {r})
      /\ Cardinality(Barred) \in Nat /\ Cardinality(Barred \cup {r}) \in Nat
  BY <1>1, RowsFinite
<1>3. Cardinality(Barred \cup {r}) <= Cardinality(Barred) + 1
  BY <1>2, FS_AddElement
<1>4. CASE Barred' \subseteq Barred
  <2>1. Cardinality(Barred') <= Cardinality(Barred) /\ Cardinality(Barred') \in Nat
    BY <1>2, <1>4, FS_Subset, FS_CardinalityType
  <2> QED
    BY <1>2, <2>1
<1>5. CASE Barred' \subseteq Barred \cup {r} /\ faultCount' = faultCount + 1
  <2>1. Cardinality(Barred') <= Cardinality(Barred \cup {r}) /\ Cardinality(Barred') \in Nat
    BY <1>2, <1>5, FS_Subset, FS_CardinalityType
  <2> QED
    BY <1>2, <1>3, <1>5, <2>1
<1> QED
  BY <1>4, <1>5

(* Issuance adds credentials that nobody has used, and may count a fault.  *)
LEMMA IssuanceAdds ==
    ASSUME IInv, IssuanceNext
    PROVE  /\ \A r \in Rows : status'[r] = status[r] \/ (status[r] = "none" /\ status'[r] = "ISSUED")
           /\ faultCount' = faultCount \/ faultCount' = faultCount + 1
<1> DEFINE Adds == /\ \A r \in Rows : \/ status'[r] = status[r]
                                      \/ status[r] = "none" /\ status'[r] = "ISSUED"
                   /\ faultCount' = faultCount \/ faultCount' = faultCount + 1
<1>1. ASSUME NEW c \in Consumers, Create(c) PROVE Adds
  <2>1. PICK r \in Rows : /\ status[r] = "none" /\ status' = [status EXCEPT ![r] = "ISSUED"]
                          /\ Relay!Write(r)
    BY <1>1 DEF Create, Insert, WriteRow
  <2>2. faultCount' = faultCount
    BY <2>1 DEF Relay!Write
  <2> QED
    BY <2>1, <2>2 DEF IInv, TypeOK
<1>2. ASSUME NEW c \in Consumers,
             \/ Fetch(c) \/ LookUp(c) \/ CreateDuplicate(c) \/ Created(c) \/ DeadLetter(c) \/ Commit(c)
             \/ IssueFails(c) \/ DeadLetterFails(c) \/ CommitFails(c) \/ Restart(c) \/ Rebalance(c)
      PROVE  Adds
  BY <1>2 DEF Fetch, LookUp, CreateDuplicate, Created, DeadLetter, Commit, IssueFails,
              DeadLetterFails, CommitFails, Restart, Rebalance, Fault, tableVars
<1>3. ASSUME NEW p \in Relays, RunOnce(p) PROVE Adds
  BY <1>3 DEF RunOnce, ListUnpublishedTx, PublishRow, Relay!Claim, Relay!Publish, Relay!Commit, tableVars
<1>4. ASSUME NEW p \in Relays, RelayFails(p) PROVE Adds
  BY <1>4 DEF RelayFails, Relay!RelayFails, Relay!Rollback, Relay!Crash, Relay!SendFails,
              Relay!SendTimesOut, Relay!Fault, tableVars
<1>5. ASSUME NEW r \in Rows, DeletePublished(r) PROVE Adds
  BY <1>5 DEF DeletePublished, Relay!Purge, tableVars
<1> HIDE DEF Adds
<1>6. Adds
  BY <1>1, <1>2, <1>3, <1>4, <1>5 DEF IssuanceNext, Consume
<1> QED
  BY <1>6 DEF Adds

LEMMA GateCounts ==
    ASSUME UsedIInv, GateNext
    PROVE  Audited' /\ faultCount' \in Nat /\ Cardinality(Barred') <= faultCount'
<1>1. PICK g \in Gates :
         \/ \E r \in Rows : CheckIn(g, r) \/ \E u \in Users : CheckInByBuyer(g, u, r)
         \/ ConsumeIssued(g) \/ Record(g) \/ RecordFails(g) \/ Answer(g) \/ AnswerLost(g)
  BY DEF GateNext
<1>2. PICK r \in Rows : gate[g].step # "none" => r = gate[g].row
  BY IssuanceAssumption DEF UsedIInv, IInv, OneGate, Rows
<1>3. OneGate /\ Audited /\ faultCount \in Nat /\ Cardinality(Barred) <= faultCount
  BY DEF UsedIInv, IInv
<1>4. /\ gate \in [Gates -> [step : {"none", "consume", "record", "answer"}, row : Nat]]
      /\ status \in [Rows -> {"none", "ISSUED", "USED"}]
      /\ audit \in [Rows -> Nat] /\ admissions \in [Rows -> Nat]
  BY DEF UsedIInv, IInv, TypeOK
<1>5. CASE \E q \in Rows : CheckIn(g, q) \/ \E u \in Users : CheckInByBuyer(g, u, q)
  <2>1. PICK q \in Rows : ReadCredential(g, q)
    BY <1>5 DEF CheckIn, CheckInByBuyer
  <2>2. /\ \A h \in Gates : Inside(h)' <=> Inside(h)
        /\ \A h \in Gates : Inside(h) => gate'[h] = gate[h]
        /\ UNCHANGED <<status, audit, admissions, faultCount>>
    BY <1>4, <2>1 DEF ReadCredential, NoScan, Inside, issuanceVars, tableVars
  <2>3. Barred' = Barred
    BY <2>2 DEF Barred, AtGate, Inside
  <2>4. Audited'
    BY <1>3, <2>2 DEF Audited, Inside
  <2> QED
    BY <1>3, <2>2, <2>3, <2>4, BarredBounded
<1>6. CASE ConsumeIssued(g)
  <2>0. gate[g].row = r /\ gate[g].step = "consume" /\ UNCHANGED <<audit, admissions, faultCount>>
    BY <1>2, <1>6 DEF ConsumeIssued
  <2>1. CASE /\ WasIssued(r) /\ status' = [status EXCEPT ![r] = "USED"]
             /\ gate' = [gate EXCEPT ![g] = [step |-> "record", row |-> r]]
    <3>1. /\ \A h \in Gates : h # g => gate'[h] = gate[h]
          /\ gate'[g].step = "record" /\ gate'[g].row = r
          /\ \A q \in Rows : q # r => status'[q] = status[q]
          /\ status'[r] = "USED" /\ status[r] = "ISSUED"
      BY <1>4, <2>1 DEF WasIssued
    <3>2. Barred' \subseteq Barred
      BY <2>0, <3>1 DEF Barred, AtGate
    <3>3. audit[r] = 0
      BY <1>3, <1>4, <3>1 DEF Audited
    <3>4. Audited'
      BY <1>3, <2>0, <3>1, <3>3 DEF Audited
    <3> QED
      BY <1>3, <2>0, <3>2, <3>4, BarredBounded
  <2>2. CASE UNCHANGED status /\ gate' = [gate EXCEPT ![g] = NoScan]
    <3>1. /\ \A h \in Gates : h # g => gate'[h] = gate[h]
          /\ gate'[g].step = "none"
      BY <1>4, <2>2 DEF NoScan
    <3>2. Barred' \subseteq Barred
      BY <2>0, <2>2, <3>1 DEF Barred, AtGate
    <3>3. Audited'
      BY <1>3, <2>0, <2>2, <3>1 DEF Audited
    <3> QED
      BY <1>3, <2>0, <3>2, <3>3, BarredBounded
  <2> QED
    BY <1>6, <2>0, <2>1, <2>2 DEF ConsumeIssued, AtStep
<1>7. CASE Record(g) \/ RecordFails(g)
  <2>1. /\ gate[g].row = r /\ gate[g].step = "record" /\ UNCHANGED <<status, admissions>>
        /\ gate' = [gate EXCEPT ![g] = [step |-> "answer", row |-> r]]
        /\ audit' = audit \/ audit' = [audit EXCEPT ![r] = @ + 1]
        /\ faultCount' = faultCount \/ faultCount' = faultCount + 1
    BY <1>2, <1>7 DEF Record, RecordFails, AtStep, Fault, issuanceVars, tableVars
  <2>2. /\ \A h \in Gates : h # g => gate'[h] = gate[h]
        /\ gate'[g].step = "answer" /\ gate'[g].row = r
    BY <1>4, <2>1
  <2>3. Barred' \subseteq Barred
    BY <2>1, <2>2 DEF Barred, AtGate
  <2>4. audit[r] = 0 /\ status[r] = "USED"
    BY <1>3, <2>1 DEF Audited, OneGate, Inside
  <2>5. \A h \in Gates : h # g /\ gate[h].step = "record" => gate[h].row # r
    BY <1>3, <2>1 DEF OneGate, Inside
  <2>6. (\A q \in Rows : q # r => audit'[q] = audit[q]) /\ audit'[r] \in {0, 1}
    BY <1>4, <2>1, <2>4
  <2>7. \A h \in Gates : gate[h].step = "record" => gate[h].row \in Rows
    BY <1>3 DEF OneGate
  <2>8. Audited'
    BY <1>3, <2>1, <2>2, <2>4, <2>5, <2>6, <2>7 DEF Audited
  <2> QED
    BY <1>3, <2>1, <2>3, <2>8, BarredBounded
<1>8. CASE Answer(g)
  <2>1. /\ gate[g].row = r /\ Inside(g) /\ UNCHANGED <<status, audit, faultCount>>
        /\ gate' = [gate EXCEPT ![g] = NoScan]
        /\ admissions' = [admissions EXCEPT ![r] = @ + 1]
    BY <1>2, <1>8 DEF Answer, Inside, issuanceVars, tableVars
  <2>2. /\ \A h \in Gates : h # g => gate'[h] = gate[h]
        /\ gate'[g].step = "none"
        /\ \A q \in Rows : q # r => admissions'[q] = admissions[q]
        /\ admissions'[r] # 0
    BY <1>4, <2>1 DEF NoScan
  <2>3. Barred' \subseteq Barred
    BY <2>1, <2>2 DEF Barred, AtGate
  <2>4. Audited'
    BY <1>3, <2>1, <2>2 DEF Audited
  <2> QED
    BY <1>3, <2>1, <2>3, <2>4, BarredBounded
<1>9. CASE AnswerLost(g)
  <2>1. /\ gate[g].row = r /\ UNCHANGED <<status, audit, admissions>>
        /\ gate' = [gate EXCEPT ![g] = NoScan] /\ faultCount' = faultCount + 1
    BY <1>2, <1>9 DEF AnswerLost, Fault, tableVars
  <2>2. /\ \A h \in Gates : h # g => gate'[h] = gate[h]
        /\ gate'[g].step = "none"
    BY <1>4, <2>1 DEF NoScan
  <2>3. Barred' \subseteq Barred \cup {r}
    BY <2>1, <2>2 DEF Barred, AtGate
  <2>4. Audited'
    BY <1>3, <2>1, <2>2 DEF Audited
  <2> QED
    BY <1>3, <2>1, <2>3, <2>4, BarredBounded
<1> QED
  BY <1>1, <1>5, <1>6, <1>7, <1>8, <1>9

LEMMA UsedHolds == UsedIInv /\ [Next]_vars => UsedIInv'
<1> SUFFICES ASSUME UsedIInv, [Next]_vars
             PROVE  Audited' /\ faultCount' \in Nat /\ Cardinality(Barred') <= faultCount'
  BY NextHolds DEF UsedIInv
<1>1. PICK r \in Rows : TRUE
  BY IssuanceAssumption DEF Rows
<1>2. ASSUME UNCHANGED <<gate, audit, admissions>>,
             \A q \in Rows : status'[q] = status[q] \/ (status[q] = "none" /\ status'[q] = "ISSUED"),
             faultCount' = faultCount \/ faultCount' = faultCount + 1
      PROVE  Audited' /\ faultCount' \in Nat /\ Cardinality(Barred') <= faultCount'
  <2>1. Barred' \subseteq Barred
    BY <1>2 DEF Barred, AtGate
  <2>2. Audited'
    BY <1>2 DEF UsedIInv, Audited
  <2> QED
    BY <1>1, <1>2, <2>1, <2>2, BarredBounded DEF UsedIInv
<1>3. CASE ~doors /\ IssuanceNext /\ UNCHANGED <<doors, doorVars>>
  BY <1>2, <1>3, IssuanceAdds DEF UsedIInv, doorVars
<1>4. CASE OpenDoors \/ UNCHANGED vars
  BY <1>2, <1>4 DEF OpenDoors, vars, issuanceVars, tableVars, doorVars
<1>5. CASE doors /\ TransferNext
  <2>1. UNCHANGED <<gate, audit, admissions, status, faultCount>>
    BY <1>5 DEF TransferNext, AskRecall, AskTransfer, AskAccept, CreateTransfer, RecallTransfer,
                AcceptTransfer, issuanceVars, tableVars
  <2> QED
    BY <1>2, <2>1
<1>6. CASE doors /\ GateNext
  BY <1>6, GateCounts
<1> QED
  BY <1>3, <1>4, <1>5, <1>6 DEF Next

(* A credential is used up without letting its bearer in only by a fault,  *)
(* one credential for each, through any number of gates that race for it;  *)
(* and the scan events count no admission twice.                           *)
THEOREM UsedAdmits == Spec => []UsedIsAdmitted
<1>1. Init => UsedIInv
  <2> SUFFICES ASSUME Init PROVE UsedIInv
    OBVIOUS
  <2>1. Barred = {} /\ faultCount = 0
    BY DEF Init, IssuanceInit, Relay!Init, Barred
  <2>2. Audited
    BY DEF Init, Audited, NoScan
  <2> QED
    BY <2>1, <2>2, InitHolds, FS_EmptySet DEF UsedIInv
<1>2. UsedIInv => UsedIsAdmitted
  BY DEF UsedIInv, Audited, UsedIsAdmitted
<1> QED
  BY <1>1, <1>2, UsedHolds, PTL DEF Spec
=============================================================================
