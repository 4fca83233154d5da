SPECIFICATION Spec
CONSTANTS
    Events = {e1, e2, e3}
    MaxPosition = 3
    Reported <- Readings
    Projectors = {p1, p2}
    Poison = {e3}
    MaxRebuilds = 2
    Kinds <- Deciding
    Window = 1
    Cooldown = 1
    RateCount = 1
    RateWindow = 2
    Sole <- OneConsumer
    Racing <- TwoConsumers
    Runners = {r1}
    MaxVersions = 2
    MaxEvidence = 2
    MaxAttempts = 1
    ScheduleFaults = 1
    Household = family
    Floors = {ground}
    Spaces = {kitchen, bath, attic}
    FirstSpaces = {kitchen, bath}
    SpaceNames = {n1, n2}
    FirstName = n1
    Devices = {d1}
    Clients = {c1, c2}
    MaxWrites = 2
    Trackers = {w1}
    MaxCalls = 2
    MaxChanges = 2
    HomeFaults = 1
    People = {n1, n2}
    Owners = {o1, o2}
    Kind = "ROUTER_WIFI"
    Freshness = 2
    TrackerTime = 2
    TrackerEvents = 4
    TrackerFaults = 1
    Confirmation = 2
    MaxEvents = 4
    MaxEdits = 1
    WifiFaults = 2
    Count = 1
    Grace = 1
    ForecastTime = 3
    ForecastEdits = 1
    Threads = {t1, t2}
    ContextFaults = 1
    None = None
    e1 = e1
    e2 = e2
    e3 = e3
    c1 = c1
    c2 = c2
    kitchen = kitchen
    n1 = n1
    n2 = n2
    x1 = x1
    k1 = k1
    q1 = q1
    q2 = q2
INVARIANTS
    TypeOK
    NothingIsMissed
    RecordsAreTrue
    HomeIsWhole
PROPERTIES
    ToldIsEarned
CHECK_DEADLOCK FALSE
