SPECIFICATION FairSpec
CONSTANTS
    h1 = h1  h2 = h2  c1 = c1
    s1 = s1  s2 = s2  ua = ua  ub = ub  r1 = r1  r2 = r2
    Nobody = Nobody
    Handlers = {h1, h2}
    Reconcilers = {c1}
    Seats = {s1}
    Users = {ua}
    ResIds = {r1}
    UserOf <- OneEach
    MaxPerUser = 0
    Faults = {"crash", "db", "lostAck", "redis", "redisLost", "redisLoss"}
    MaxFaults = 1
INVARIANTS SoldMarkIsSold
PROPERTIES FreeSeatOffered
