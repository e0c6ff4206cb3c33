---------------------------- MODULE QuotaLedger ----------------------------
(***************************************************************************)
(* What the ticket-service promises about the inventory of one general     *)
(* admission ticket, without counters, caches or processes: a ledger of    *)
(* reservations, each held at most once, each ended at most once, never    *)
(* worth more than the quota.                                              *)
(***************************************************************************)
EXTENDS Tally

CONSTANTS
    ResIds,     \* reservation ids
    MaxQty,     \* largest quantity of one reservation
    Quota       \* units of the ticket

VARIABLE ledger \* [ResIds -> [status, qty]]

Statuses == {"NONE", "RESERVED", "RELEASED", "SOLD"}

Doc(s, q) == [status |-> s, qty |-> q]

(* Units a reservation takes out of the quota.                             *)
Claims(docs) ==
    [r \in ResIds |-> IF docs[r].status \in {"RESERVED", "SOLD"}
                      THEN docs[r].qty ELSE 0]

Init == ledger = [r \in ResIds |-> Doc("NONE", 0)]

Hold(r, q) ==
    /\ ledger[r].status = "NONE"
    /\ Tally(Claims(ledger), MaxQty) + q <= Quota
    /\ ledger' = [ledger EXCEPT ![r] = Doc("RESERVED", q)]

Release(r) ==
    /\ ledger[r].status = "RESERVED"
    /\ ledger' = [ledger EXCEPT ![r].status = "RELEASED"]

Sell(r) ==
    /\ ledger[r].status = "RESERVED"
    /\ ledger' = [ledger EXCEPT ![r].status = "SOLD"]

Next ==
    \E r \in ResIds :
        \/ \E q \in 1..MaxQty : Hold(r, q)
        \/ Release(r)
        \/ Sell(r)

Spec == Init /\ [][Next]_ledger
=============================================================================
