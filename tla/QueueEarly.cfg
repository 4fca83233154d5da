SPECIFICATION Spec
CONSTANTS
    Requests = {r1}
    Origins = {"AUTONOMOUS_ATTENTION", "DURABLE_TASK", "DIRECT_SENTRY_INTERACTION"}
    Threads = {t1, t2}
    Clients = {c1}
    NoClient = NoClient
    NoRequest = NoRequest
    MaxGenerations = 1
INVARIANTS
    OutcomeIsTheActions
