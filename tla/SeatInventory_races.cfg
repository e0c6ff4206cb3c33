SPECIFICATION Spec
CONSTANTS
    h1 = h1  h2 = h2  c1 = c1
    s1 = s1  s2 = s2  ua = ua  ub = ub  r1 = r1  r2 = r2
    Nobody = Nobody
    Handlers = {h1, h2}
    Reconcilers = {}
    Seats = {s1}
    Users = {ua, ub}
    ResIds = {r1, r2}
    UserOf <- OneEach
    MaxPerUser = 0
    Faults = {"crash", "db", "lostAck", "redis", "redisLost", "redisLoss"}
    MaxFaults = 1
INVARIANTS SeatsMatchLedger
PROPERTIES HoldKept
SYMMETRY FullSymmetry
