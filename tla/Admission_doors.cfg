SPECIFICATION FairSpec
CONSTANTS
    k1 = k1  k2 = k2  p1 = p1  g1 = g1  g2 = g2
    ua = ua  ub = ub  uc = uc  o1 = o1  o2 = o2
    NoUnit = NoUnit  NoUser = NoUser
    Consumers = {k1, k2}
    Relays = {p1}
    Users = {ua, ub}
    Orders = {o1, o2}
    Quantity <- MCQuantity
    Buyer <- MCBuyer
    Topic <- MCTopic
    Malformed = {o2}
    MaxRows = 3
    MaxRetries = 1
    Faults = {"issue", "dlq", "commit", "restart", "rebalance", "crash", "sendFail", "answer", "audit"}
    MaxFaults = 2
    Gates = {g1, g2}
    MaxTransfers = 1
INVARIANTS NothingSkipped UnitAdmitsOne UsedIsAdmitted
PROPERTIES TransferFinal OrdersHonoured
CHECK_DEADLOCK FALSE
