SPECIFICATION FairSpec
CONSTANTS
    j1 = j1
    j2 = j2
    Jobs = {j1, j2}
    RunIds = {j1, j2}
    RunOf <- OwnRun
    Aborters = {a1}
    QueueCapacity = 2
    AsyncSettings = {TRUE, FALSE}
    BodyResults = {"ok"}
    NoJob = NoJob
    NoRun = NoRun
PROPERTIES EveryExecuteReturns StopReturns PromiseKept
