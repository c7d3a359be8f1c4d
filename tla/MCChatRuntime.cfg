SPECIFICATION Spec
CONSTANTS
    j1 = j1
    j2 = j2
    j3 = j3
    Jobs = {j1, j2, j3}
    RunIds = {j1, j2, j3}
    RunOf <- OwnRun
    Aborters = {a1}
    QueueCapacity = 2
    AsyncSettings = {TRUE, FALSE}
    BodyResults = {"ok"}
    NoJob = NoJob
    NoRun = NoRun
SYMMETRY Symmetry
INVARIANTS TypeOK Ownership AtMostOnce NoStaleEntry StoppedMeansAnswered
PROPERTIES QueueOrderKept
