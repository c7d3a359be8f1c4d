CONSTANTS
    k = k
    m = m
    n = n
    NoSecret = NoSecret
    Disabled = Disabled
    Empty = Empty
    Absent = Absent
    Unread = Unread
    NoRuntime = NoRuntime
    Secrets <- MCSecrets
    Models <- MCModels
    Eligible <- MCEligible
    EditorTexts <- MCEditorTexts
    StartupLoad = TRUE
    MaxGeneration = 2
    MaxEdits = 2
    MaxDialogs = 1
    MaxStarts = 2
SPECIFICATION LiveSpec
INVARIANTS ActivationMeansReady ProviderFollowsConfig
PROPERTIES GenerationGuard KeepsServing EditsNoticed
CHECK_DEADLOCK FALSE
