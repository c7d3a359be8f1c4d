SPECIFICATION MCSpec
SYMMETRY Symmetry
VIEW View
CONSTANTS
    Nodes = {n1, n2}
    Commands = {"c1", "c2"}
    Keys = {"k1", "k2", "k3"}
    Surfaces = {"plain", "system"}
    Scopes = {"approve", "system"}
    RequiredScope <- MCRequiredScope
    MaxPerNode = 2
    ActionTtl = 0
    WakeThrottle = 2
    ReconnectWait = 0
    ReconnectRetryWait = 1
    MaxTime = 2
    MaxIds = 3
    Threads = {t1, t2}
    Mails = {m1}
    Lifetimes = {1}
    DiskFaults = {"read", "open", "write", "rename"}
    NoMail = NoMail
    Torn = Torn
    MaxClock = 2
    RunIds = {r1, r2}
    ChatSessions = {s1, s2}
    Connections = {c1}
    Sends = {t1, t2}
    RecipientTtl = 0
    FinalizedGrace = 0
    EndOfTime = 1
    NoEntry = NoEntry
    NoRun = NoRun
    NoSend = NoSend
    ExtIds = {"deepseek", "lobster", "ops"}
    Tools = {"weather", "email", "lobster", "extra", "pdf", "chat", "skill"}
    Catalogs <- MCCatalogs
    Adapted = {"lobster", "ops"}
    Resolved <- MCResolved
    OpsTools = "ops"
    OpsToolIds = {"weather", "email"}
    ServiceTools = {"pdf"}
    FinalTools = {"chat"}
    SkillSets <- MCSkillSets
INVARIANTS NodesSound SentAsApproved TablesAgree EndedRunsLetGo CallableMeansActive StopLeavesNothing
PROPERTIES ActionsLeaveForAReason NoLostUpdate
CHECK_DEADLOCK FALSE
