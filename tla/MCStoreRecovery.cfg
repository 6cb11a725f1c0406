CONSTANTS
    Original = orig
    FreshStore = {f1, f2}
    Config <- MCConfig
    MaxRun = 4
    Retention = 2
SPECIFICATION Spec
INVARIANTS
    OneFreshStore
    NoInitAfterRecovery
    RecordedRunRetained
PROPERTIES
    OriginalRetired
    TaintedFreshRetired
    ExhaustedIsFinal
    DbExitEndsContainer
