SPECIFICATION Spec
CONSTANTS
    Workers = {w1, w2, w3}
    Actions <- NoticeActions
    Keys <- NoticeKeys
    Digests = {"x", "y"}
    Scopes <- NoticeScopes
    Devices <- NoticeDevices
    KeyOf <- NoticeKeyOf
    DigestOf <- NoticeDigestOf
    LocksOf <- NoticeLocksOf
    WantOf <- NoticeWantOf
    ExpectOf <- NoticeExpectOf
    Confirmed = {"send", "again", "edited"}
    NoWorker = NoWorker
    NoAction = NoAction
    MaxFaults = 2
    FaultKinds = {"crash", "raise"}
    RecoverOnStartup = TRUE
INVARIANTS
    AtMostOneDispatch
    ConfirmedDispatch
PROPERTIES
    OutcomeIsFinal
    PromiseIsKept
SYMMETRY WorkerSymmetry
CHECK_DEADLOCK FALSE
