SPECIFICATION Spec
CONSTANTS
    Workers = {w1, w2}
    Actions <- LampActions
    Keys <- LampKeys
    Digests = {"x", "y"}
    Scopes <- LampScopes
    Devices <- LampDevices
    KeyOf <- LampKeyOf
    DigestOf <- LampDigestOf
    LocksOf <- LampLocksOf
    WantOf <- LampWantOf
    ExpectOf <- LampExpectOf
    Confirmed = {}
    NoWorker = NoWorker
    NoAction = NoAction
    MaxFaults = 0
    FaultKinds = {}
    RecoverOnStartup = TRUE
INVARIANTS
    TypeOK
    DispatchIsRecorded
    ScopeExclusion
    SuccessWasObserved
SYMMETRY WorkerSymmetry
