SPECIFICATION FairSpec
CONSTANTS
    w1 = w1  w2 = w2  o1 = o1
    NoOne = NoOne  NoOrder = NoOrder
    Workers = {w1, w2}
    Orders = {o1}
    Life = 1
    PaymentGrace = 1
    Buffer = 2
    SweepGrace = 2
    MaxAttempts = 4
    Faults = {"crash", "reserveLost", "txFail", "txLost", "releaseFail", "finalizeFail", "finalizeLost"}
    MaxFaults = 2
INVARIANTS OneOutcome SaleStands ReservationKept
PROPERTIES ContractSpec CaptureSettled OrderEnds ReservationEnds
CHECK_DEADLOCK FALSE
