-------------------------- MODULE PurchaseContract --------------------------
(***************************************************************************)
(* What the platform promises a buyer about one order, without rows,       *)
(* locks, reservations or events: the order is decided once, and the       *)
(* money follows the decision.                                             *)
(***************************************************************************)
CONSTANT Orders

VARIABLES
    outcome,    \* [Orders -> {"none", "open", "complete", "cancelled"}]
    money       \* [Orders -> {"kept", "charged", "due", "returned"}]

contract == <<outcome, money>>

Init ==
    /\ outcome = [o \in Orders |-> "none"]
    /\ money = [o \in Orders |-> "kept"]

Open(o) ==
    /\ outcome[o] = "none"
    /\ outcome' = [outcome EXCEPT ![o] = "open"]
    /\ UNCHANGED money

(* The bank decides when: the order may be decided by then.                *)
Charge(o) ==
    /\ outcome[o] # "none" /\ money[o] = "kept"
    /\ money' = [money EXCEPT ![o] = "charged"]
    /\ UNCHANGED outcome

(* Only a paid order is completed.                                         *)
Complete(o) ==
    /\ outcome[o] = "open" /\ money[o] = "charged"
    /\ outcome' = [outcome EXCEPT ![o] = "complete"]
    /\ UNCHANGED money

Cancel(o) ==
    /\ outcome[o] = "open"
    /\ outcome' = [outcome EXCEPT ![o] = "cancelled"]
    /\ UNCHANGED money

(* A paid order that cannot be fulfilled is cancelled and refunded at once. *)
Refuse(o) ==
    /\ outcome[o] = "open" /\ money[o] = "charged"
    /\ outcome' = [outcome EXCEPT ![o] = "cancelled"]
    /\ money' = [money EXCEPT ![o] = "due"]

(* A charge that lands on a cancelled order is owed back.                  *)
Owe(o) ==
    /\ outcome[o] = "cancelled" /\ money[o] = "charged"
    /\ money' = [money EXCEPT ![o] = "due"]
    /\ UNCHANGED outcome

Return(o) ==
    /\ money[o] = "due"
    /\ money' = [money EXCEPT ![o] = "returned"]
    /\ UNCHANGED outcome

Next ==
    \E o \in Orders :
        \/ Open(o) \/ Charge(o) \/ Complete(o) \/ Cancel(o)
        \/ Refuse(o) \/ Owe(o) \/ Return(o)

Spec == Init /\ [][Next]_contract
=============================================================================
