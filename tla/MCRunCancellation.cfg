SPECIFICATION CancelSpec
CONSTANTS
    j1 = j1
    j2 = j2
    Jobs = {j1, j2}
    RunIds = {j1, j2}
    RunOf <- OwnRun
    ProviderOf <- AllDeepSeek
    Aborters = {a1}
    QueueCapacity = 2
    AsyncSettings = {TRUE}
    BodyResults = {"ok", "cancelled"}
    NoJob = NoJob
    NoRun = NoRun
SYMMETRY Symmetry
INVARIANTS NoSpuriousCancel AbortOnWorkerHonoured NoLeakedMark
