SPECIFICATION Spec
CONSTANTS
    Events = {e1, e2}
    Durable = {e2}
    Ahead = {e1}
    MaxPosition = 2
    MaxFaults = 1
    Speakers = {s1, s2}
    AlertClaims = 3
    Replies = {r1, r2}
    First = r1
    Instances = {i1, i2}
    ReplyClaims = 2
    Resumers = {t1, t2}
    Life = 2
    Lease = 2
    MaxTime = 5
    MaxCrashes = 2
    Memories = {m1, m2, m3}
    Perishable = {m1, m2}
    Sessions = {v1, v2}
    Requests = {q1, q2}
    Retracts = {q2}
    Threads = {t1, t2}
    MaxSends = 2
    MaxDeaths = 1
    Settings = {scene, policy}
    Upserts = {policy}
    Clients = {c1, c2}
    MaxVersion = 2
    None = None
INVARIANTS
    TypeOK
    PassedIsAccounted
    SaidOnce
    ApprovedOnce
    ResumedOnce
    NoLostUpdate
PROPERTIES
    ObligationSettles
CHECK_DEADLOCK FALSE
