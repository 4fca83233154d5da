SPECIFICATION FairSpec
CONSTANTS
    Workers = {w1, w2}
    Actions <- MixedActions
    Keys <- MixedKeys
    Digests = {"x", "y"}
    Scopes <- NoticeScopes
    Devices <- NoticeDevices
    KeyOf <- MixedKeyOf
    DigestOf <- MixedDigestOf
    LocksOf <- MixedLocksOf
    WantOf <- MixedWantOf
    ExpectOf <- MixedExpectOf
    Confirmed = {"send"}
    NoWorker = NoWorker
    NoAction = NoAction
    MaxFaults = 1
    FaultKinds = {"crash"}
    RecoverOnStartup = FALSE
PROPERTIES
    AbandonedIsReconciled
CHECK_DEADLOCK FALSE
