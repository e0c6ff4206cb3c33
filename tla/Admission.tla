----------------------------- MODULE Admission -----------------------------
(***************************************************************************)
(* The attendance-service at the doors: credentials change hands by        *)
(* transfers and are consumed at gates, by their QR token or by the name   *)
(* of their buyer.  Each call reads the credential first and writes later. *)
(*                                                                         *)
(* The doors open when issuance is done with.  Issuance only inserts rows, *)
(* and nothing here does; so the two meet in the rows there are.           *)
(***************************************************************************)
EXTENDS CredentialIssuance

CONSTANTS
    Gates,          \* scanner devices
    MaxTransfers

Transfers == 1..MaxTransfers

ASSUME AdmissionAssumption == MaxTransfers \in Nat

DoorKinds == {"answer", "audit"}

VARIABLES
    doors,          \* have they opened?
    transfers,      \* the rows of admission_transfers, in order
    call,           \* [Users -> the call of a user that has read, not written]
    gate,           \* [Gates -> the check-in it is at work on]
    audit,          \* rows ADMITTED of each credential in scan_events
    admissions      \* history: people let in with each credential

doorVars == <<transfers, call, gate, audit, admissions>>
vars == <<issuanceVars, doors, doorVars>>

(* on is a credential, or, for "accept", a transfer.                       *)
NoCall == [op |-> "none", on |-> 0, to |-> NoUser]
NoScan == [step |-> "none", row |-> 0]

Present(r) == status[r] # "none"

(* FindByTicketAndBuyer: the credential issued last, used or not.          *)
IsLatestOf(r, u) ==
    /\ Present(r) /\ owner[r] = u
    /\ \A q \in Rows : Present(q) /\ owner[q] = u => q <= r

-----------------------------------------------------------------------------
(* Transfers.                                                              *)

(* Row t of the transfers, in another state.                               *)
InState(t, state) ==
    [row |-> transfers[t].row, from |-> transfers[t].from, to |-> transfers[t].to,
     state |-> state]

(* TransferAdmissionCredential: the credential is the sender's when read.  *)
AskTransfer(u, r, to) ==
    /\ call[u] = NoCall
    /\ Present(r) /\ owner[r] = u /\ to # u
    /\ call' = [call EXCEPT ![u] = [op |-> "transfer", on |-> r, to |-> to]]
    /\ UNCHANGED <<issuanceVars, doors, transfers, gate, audit, admissions>>

CreateTransfer(u) ==
    /\ call[u].op = "transfer"
    /\ Len(transfers) < MaxTransfers
    /\ transfers' = Append(transfers,
            [row |-> call[u].on, from |-> u, to |-> call[u].to, state |-> "PENDING"])
    /\ call' = [call EXCEPT ![u] = NoCall]
    /\ UNCHANGED <<issuanceVars, doors, gate, audit, admissions>>

(* RecallTransfer: every pending transfer of the credential by its sender. *)
AskRecall(u, r) ==
    /\ call[u] = NoCall
    /\ Present(r) /\ owner[r] = u
    /\ call' = [call EXCEPT ![u] = [op |-> "recall", on |-> r, to |-> u]]
    /\ UNCHANGED <<issuanceVars, doors, transfers, gate, audit, admissions>>

RecallTransfer(u) ==
    /\ call[u].op = "recall"
    /\ transfers' = [t \in DOMAIN transfers |->
            IF /\ transfers[t].row = call[u].on /\ transfers[t].from = u
               /\ transfers[t].state = "PENDING"
              THEN InState(t, "RECALLED")
              ELSE transfers[t]]
    /\ call' = [call EXCEPT ![u] = NoCall]
    /\ UNCHANGED <<issuanceVars, doors, gate, audit, admissions>>

(* AcceptTransfer: pending, and addressed to the caller, when read.        *)
AskAccept(u, t) ==
    /\ call[u] = NoCall
    /\ t \in DOMAIN transfers /\ transfers[t].state = "PENDING" /\ transfers[t].to = u
    /\ call' = [call EXCEPT ![u] = [op |-> "accept", on |-> t, to |-> u]]
    /\ UNCHANGED <<issuanceVars, doors, transfers, gate, audit, admissions>>

(* The transaction locks the transfer and looks at its state again; it     *)
(* does not look at the credential, which goes to the recipient.           *)
Accept(u, t) ==
    /\ transfers' = [transfers EXCEPT ![t] = InState(t, "ACCEPTED")]
    /\ owner' = [owner EXCEPT ![transfers[t].row] = u]

(* Mutant: the state of the transfer is not looked at again.               *)
AcceptTransferMutant(u) ==
    /\ call[u].op = "accept"
    /\ Accept(u, call[u].on)
    /\ call' = [call EXCEPT ![u] = NoCall]
    /\ UNCHANGED <<key, status, groupVars, job, relayVars, faultCount>>
    /\ UNCHANGED <<doors, gate, audit, admissions>>

AcceptTransfer(u) ==
    /\ call[u].op = "accept"
    /\ \/ /\ transfers[call[u].on].state = "PENDING"
          /\ Accept(u, call[u].on)
       \/ /\ transfers[call[u].on].state # "PENDING"
          /\ UNCHANGED <<transfers, owner>>
    /\ call' = [call EXCEPT ![u] = NoCall]
    /\ UNCHANGED <<key, status, groupVars, job, relayVars, faultCount>>
    /\ UNCHANGED <<doors, gate, audit, admissions>>

-----------------------------------------------------------------------------
(* Gates.                                                                  *)

AtStep(g, step) == gate' = [gate EXCEPT ![g] = [step |-> step, row |-> gate[g].row]]

(* A check-in has read credential r, and found it ISSUED: by its token, or *)
(* as the latest of a buyer.                                               *)
ReadCredential(g, r) ==
    /\ gate[g] = NoScan
    /\ status[r] = "ISSUED"
    /\ gate' = [gate EXCEPT ![g] = [step |-> "consume", row |-> r]]
    /\ UNCHANGED <<issuanceVars, doors, transfers, call, audit, admissions>>

CheckIn(g, r) == ReadCredential(g, r)
CheckInByBuyer(g, u, r) == IsLatestOf(r, u) /\ ReadCredential(g, r)

(* Mutant: whether the row was updated is not looked at.                   *)
WasIssuedMutant(r) == TRUE

WasIssued(r) == status[r] = "ISSUED"

(* ConsumeIssued, under the lock of the row; the loser of a race answers   *)
(* "already used".                                                         *)
ConsumeIssued(g) ==
    /\ gate[g].step = "consume"
    /\ \/ /\ WasIssued(gate[g].row)
          /\ status' = [status EXCEPT ![gate[g].row] = "USED"]
          /\ AtStep(g, "record")
       \/ /\ ~WasIssued(gate[g].row)
          /\ gate' = [gate EXCEPT ![g] = NoScan]
          /\ UNCHANGED status
    /\ UNCHANGED <<key, owner, groupVars, job, relayVars, faultCount>>
    /\ UNCHANGED <<doors, transfers, call, audit, admissions>>

(* recordScan; its error is ignored.                                       *)
Record(g) ==
    /\ gate[g].step = "record"
    /\ audit' = [audit EXCEPT ![gate[g].row] = @ + 1]
    /\ AtStep(g, "answer")
    /\ UNCHANGED <<issuanceVars, doors, transfers, call, admissions>>

RecordFails(g) ==
    /\ gate[g].step = "record"
    /\ Fault("audit")
    /\ AtStep(g, "answer")
    /\ UNCHANGED <<tableVars, groupVars, job, relayVars>>
    /\ UNCHANGED <<doors, transfers, call, audit, admissions>>

(* The scanner hears "valid", and the bearer goes in.                      *)
Answer(g) ==
    /\ gate[g].step = "answer"
    /\ admissions' = [admissions EXCEPT ![gate[g].row] = @ + 1]
    /\ gate' = [gate EXCEPT ![g] = NoScan]
    /\ UNCHANGED <<issuanceVars, doors, transfers, call, audit>>

(* The commit is answered by an error, or the service dies, or the scanner *)
(* does not hear.                                                          *)
AnswerLost(g) ==
    /\ gate[g].step \in {"record", "answer"}
    /\ Fault("answer")
    /\ gate' = [gate EXCEPT ![g] = NoScan]
    /\ UNCHANGED <<tableVars, groupVars, job, relayVars>>
    /\ UNCHANGED <<doors, transfers, call, audit, admissions>>

-----------------------------------------------------------------------------
Init ==
    /\ IssuanceInit
    /\ doors = FALSE
    /\ transfers = <<>>
    /\ call = [u \in Users |-> NoCall]
    /\ gate = [g \in Gates |-> NoScan]
    /\ audit = [r \in Rows |-> 0]
    /\ admissions = [r \in Rows |-> 0]

(* Every message has been read, every credential announced, and the outbox *)
(* cleaned up.                                                             *)
OpenDoors ==
    /\ ~doors
    /\ \A c \in Consumers : job[c] = Idle
    /\ position[assignee] \notin Messages
    /\ \A r \in Rows : outbox[r] \in {"absent", "purged"}
    /\ doors' = TRUE
    /\ UNCHANGED <<issuanceVars, doorVars>>

TransferNext ==
    \E u \in Users :
        \/ \E r \in Rows : AskRecall(u, r) \/ \E to \in Users : AskTransfer(u, r, to)
        \/ \E t \in Transfers : AskAccept(u, t)
        \/ CreateTransfer(u) \/ RecallTransfer(u) \/ AcceptTransfer(u)

GateNext ==
    \E g \in Gates :
        \/ \E r \in Rows : CheckIn(g, r) \/ \E u \in Users : CheckInByBuyer(g, u, r)
        \/ ConsumeIssued(g) \/ Record(g) \/ RecordFails(g) \/ Answer(g) \/ AnswerLost(g)

Next ==
    \/ ~doors /\ IssuanceNext /\ UNCHANGED <<doors, doorVars>>
    \/ OpenDoors
    \/ doors /\ (TransferNext \/ GateNext)

Spec == Init /\ [][Next]_vars

(* The consumers' loops run, and the relays poll.                          *)
FairSpec ==
    /\ Spec
    /\ \A c \in Consumers : WF_vars(~doors /\ Consume(c) /\ UNCHANGED <<doors, doorVars>>)
    /\ \A p \in Relays : WF_vars(~doors /\ RunOnce(p) /\ UNCHANGED <<doors, doorVars>>)

-----------------------------------------------------------------------------
(* Properties.                                                             *)

(* The tables, the consumers' positions and jobs, the calls and the gates  *)
(* keep their types; OutboxRelay has those of its own variables.           *)
TypeOK ==
    /\ key \in [Rows -> Units \cup {NoUnit}]
    /\ owner \in [Rows -> Users \cup {NoUser}]
    /\ status \in [Rows -> {"none", "ISSUED", "USED"}]
    /\ committed \in 1..(Len(Topic) + 1) /\ assignee \in Consumers
    /\ position \in [Consumers -> 1..(Len(Topic) + 1)]
    /\ job \in [Consumers ->
            [step : {"idle", "look", "create", "created", "dlq", "commit"},
             msg : Nat, unit : Nat, attempt : Nat]]
    /\ dlq \subseteq Messages /\ refused \subseteq Messages
    /\ call \in [Users -> [op : {"none", "transfer", "recall", "accept"},
                           on : Nat, to : Users \cup {NoUser}]]
    /\ gate \in [Gates -> [step : {"none", "consume", "record", "answer"}, row : Nat]]
    /\ audit \in [Rows -> Nat] /\ admissions \in [Rows -> Nat]

Good(m) == Topic[m] \notin Malformed
UnitsIssued(m) == \A u \in UnitsOf(Topic[m]) : Issued(u)

(* No order event is skipped: below the committed offset an event is       *)
(* malformed and dead-lettered, or all its credentials exist, or it is in  *)
(* the dead-letter topic, or that topic has refused it.                    *)
NothingSkipped ==
    \A m \in 1..(committed - 1) :
        m \in dlq \cup refused \/ (Good(m) /\ UnitsIssued(m))

(* A unit of an order lets in one person at most: whatever is redelivered  *)
(* or retried while its credential is issued, and whichever gates scan it  *)
(* while transfers move it.                                                *)
UnitAdmitsOne ==
    \A r, q \in Rows :
        /\ admissions[r] <= 1
        /\ admissions[r] = 1 /\ admissions[q] = 1 /\ key[r] = key[q] => r = q

AtGate(r) == \E g \in Gates : gate[g].row = r /\ gate[g].step \in {"record", "answer"}
Barred == {r \in Rows : status[r] = "USED" /\ admissions[r] = 0 /\ ~AtGate(r)}

(* A used credential has let its bearer in, has been heard of in no answer *)
(* because of a fault, or is at the gate.  An ADMITTED row of the audit    *)
(* stands for a used credential, and there is one of each at most.         *)
UsedIsAdmitted ==
    /\ Cardinality(Barred) <= faultCount
    /\ \A r \in Rows : audit[r] <= 1 /\ (audit[r] = 1 => status[r] = "USED")

(* A transfer that has been accepted or recalled stays so, though both     *)
(* calls look at it before they write.                                     *)
TransferFinal ==
    [][\A t \in DOMAIN transfers :
        transfers[t].state # "PENDING" => transfers'[t] = transfers[t]]_vars

(* Each unit of a valid order has its credential in the end, announced to  *)
(* Kafka, unless the order's event was dead-lettered or refused even that. *)
Announced(u) == \E r \in Rows : key[r] = u /\ r \in Relay!Sent
OrdersHonoured ==
    \A m \in Messages :
        Good(m) => <>(m \in dlq \cup refused \/ \A u \in UnitsOf(Topic[m]) : Announced(u))
=============================================================================
