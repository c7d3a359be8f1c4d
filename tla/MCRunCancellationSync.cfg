SPECIFICATION CancelSpec
CONSTANTS
    j1 = j1
    j2 = j2
    Jobs = {j1, j2, j3}
    RunIds = {j1, j2, j3}
    RunOf <- OwnRun
    ProviderOf <- OneOfEach
    Aborters = {a1}
    QueueCapacity = 2
    AsyncSettings = {FALSE}
    BodyResults = {"ok", "failed", "cancelled"}
    NoJob = NoJob
    NoRun = NoRun
INVARIANTS LocalFlagWhileGenerating
