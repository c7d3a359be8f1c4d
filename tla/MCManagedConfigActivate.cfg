CONSTANTS
    k = k
    m = m
    n = n
    NoSecret = NoSecret
    Disabled = Disabled
    Empty = Empty
    Absent = Absent
    Unread = Unread
    NoRuntime = NoRuntime
    Secrets <- MCSecrets
    Models <- MCModels
    Eligible <- MCEligible
    EditorTexts <- MCEditorTexts
    StartupLoad = TRUE
    MaxGeneration = 2
    MaxEdits = 0
    MaxDialogs = 1
    MaxStarts = 1
SPECIFICATION LiveSpec
PROPERTY ConfigureActivates
CHECK_DEADLOCK FALSE
