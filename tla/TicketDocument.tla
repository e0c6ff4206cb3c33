-------------------------- MODULE TicketDocument --------------------------
(***************************************************************************)
(* One ticket as MongoDB holds it: a document with a version that every    *)
(* write increments, and the outbox of the edits embedded in it, so that an*)
(* edit and its event are one write.  Documents of different tickets share *)
(* nothing.                                                                *)
(***************************************************************************)
EXTENDS Integers

CONSTANTS
    Titles,         \* what an edit may write
    Plans,          \* seating plans that may be attached
    First, NoPlan,  \* the title of the creation; no plan attached
    Quota,
    MaxVersion      \* writes of the document in a behaviour

ASSUME DocumentAssumption ==
    /\ First \notin Titles /\ NoPlan \notin Plans
    /\ Quota \in Nat /\ MaxVersion \in Nat \ {0}

VARIABLES
    ticket,         \* the fields of the document
    outbox          \* its embedded events; they keep the order of their versions

document == <<ticket, outbox>>

Versions == 1..MaxVersion

Ticket == [version : Versions, title : Titles \cup {First},
           plan : Plans \cup {NoPlan}, reserved : 0..Quota]

(* What an event tells: the ticket at the version of its write.  The event *)
(* is known by that version.                                               *)
Event == [version : Versions, title : Titles \cup {First}]

EventOf(t) == [version |-> t.version, title |-> t.title]

TypeOfDocument ==
    /\ ticket \in Ticket
    /\ outbox \subseteq Event

-----------------------------------------------------------------------------
(* CreateTicket: the document and its event, in one insert.                *)
InitDocument ==
    /\ ticket = [version |-> 1, title |-> First, plan |-> NoPlan, reserved |-> 0]
    /\ outbox = {EventOf(ticket)}

(* Mutant: the reservations leave the version alone.                       *)
AdjustMutant(t, n) ==
    [version |-> t.version, title |-> t.title, plan |-> t.plan, reserved |-> t.reserved + n]

(* The increment of a counter counts as a write of the document.           *)
Adjust(t, n) ==
    [version |-> t.version + 1, title |-> t.title, plan |-> t.plan, reserved |-> t.reserved + n]

(* CreateReservation, and the release or the finalization of it.  They     *)
(* write no event.                                                         *)
ReserveUnit ==
    /\ ticket.version < MaxVersion /\ ticket.reserved < Quota
    /\ ticket' = Adjust(ticket, 1)

ReturnUnit ==
    /\ ticket.version < MaxVersion /\ ticket.reserved > 0
    /\ ticket' = Adjust(ticket, -1)

(* The document an edit writes: every editable field of the copy it was    *)
(* made from, changed or not.                                              *)
Edited(copy, title, plan) ==
    [version |-> copy.version + 1, title |-> title, plan |-> plan, reserved |-> ticket.reserved]

(* The event is normalized to the version of the write before it is pushed.*)
Push(t) == outbox \cup {EventOf(t)}

(* Mutant: the filter names the document only.                             *)
MatchesMutant(copy) == TRUE

(* The filter of Update: the version has not moved since the copy.         *)
Matches(copy) == copy.version = ticket.version

(* repository Update that matches.                                         *)
Update(copy, title, plan) ==
    /\ ticket.version < MaxVersion
    /\ Matches(copy)
    /\ ticket' = Edited(copy, title, plan)
    /\ outbox' = Push(ticket')
=============================================================================
