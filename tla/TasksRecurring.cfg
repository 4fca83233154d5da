SPECIFICATION Spec
CONSTANTS
    Tasks = {"t1"}
    Recurring = {"t1"}
    MayMiss = {"t1"}
    MaxRuns = 2
    Workers = {"core"}
    IdOf <- WorkerIds
    OwnerSinks = {"owner-task"}
    NoOne = NoOne
    NoRun = NoRun
    Limit = 2
    MaxAttempts = 2
    MaxResumes = 2
    MaxCrashes = 0
INVARIANTS
    TypeOK
    AttemptsAreBounded
PROPERTIES
    SettledStaysSettled
