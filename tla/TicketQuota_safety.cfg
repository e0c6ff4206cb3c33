SPECIFICATION Spec
CONSTANTS
    h1 = h1  h2 = h2  c1 = c1  c2 = c2
    r1 = r1  r2 = r2  ua = ua
    NoRes = NoRes  NoLeader = NoLeader
    Handlers = {h1, h2}
    Reconcilers = {}
    ResIds = {r1, r2}
    Users = {ua}
    UserOf <- OneUser
    MaxQty = 2
    Quota = 3
    MaxPerUser = 2
    Faults = {"crash", "mongo", "redis", "redisLoss", "seed"}
    MaxFaults = 1
INVARIANTS CountersCover NoOversell PerUserCap
PROPERTY LedgerSpec
SYMMETRY FullSymmetry
