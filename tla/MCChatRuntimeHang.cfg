SPECIFICATION HangingSpec
CONSTANTS
    j1 = j1
    j2 = j2
    Jobs = {j1, j2}
    RunIds = {j1}
    RunOf <- SharedRun
    Aborters = {a1}
    QueueCapacity = 2
    AsyncSettings = {TRUE}
    BodyResults = {"ok"}
    NoJob = NoJob
    NoRun = NoRun
PROPERTIES EveryExecuteReturns
