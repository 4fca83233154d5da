SPECIFICATION FairSpec
CONSTANTS
    Tasks = {"t1"}
    Recurring = {}
    MayMiss = {"t1"}
    MaxRuns = 1
    Workers = {"core", "old", "cli"}
    IdOf <- WorkerIds
    OwnerSinks = {"owner-task"}
    NoOne = NoOne
    NoRun = NoRun
    Limit = 1
    MaxAttempts = 2
    MaxResumes = 1
    MaxCrashes = 1
INVARIANTS
    CompletedWasEmitted
PROPERTIES
    ClosedStaysQuiet
    OpenRunsSettle
