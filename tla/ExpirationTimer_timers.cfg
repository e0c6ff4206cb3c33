SPECIFICATION TimedFairSpec
CONSTANTS
    w1 = w1  w2 = w2  o1 = o1
    NoOne = NoOne  NoOrder = NoOrder
    Workers = {w1}
    Orders = {o1}
    Life = 1
    PaymentGrace = 1
    Buffer = 2
    SweepGrace = 2
    MaxAttempts = 4
    Faults = {"crash", "txFail", "finalizeLost"}
    MaxFaults = 1
    MaxTries = 2
    MaxRetry = 1
    MaxMishaps = 3
INVARIANT TimerKept
PROPERTIES KeepsSaga TimerEnds
CHECK_DEADLOCK FALSE
