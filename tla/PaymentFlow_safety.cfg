SPECIFICATION FairSpec
CONSTANTS
    h1 = h1  h2 = h2
    Handlers = {h1, h2}
    MaxCharges = 2
    MaxRefunds = 2
    MaxRefundAttempts = 2
    Faults = {"crash", "stripeFail", "stripeLost", "providerFail", "providerLost"}
    MaxFaults = 3
INVARIANTS MoneyHonest ReturnedOnce
PROPERTIES UnreportedWasFailed RefundEnds
CHECK_DEADLOCK FALSE
