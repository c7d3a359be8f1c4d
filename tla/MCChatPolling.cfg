CONSTANTS
    r1 = r1  r2 = r2  ss1 = ss1
    Sends = {r1, r2}
    RunIds = {r1, r2}
    Keyings <- OwnKeys
    Sessions = {ss1}
    SessionOf <- OneSession
    Injections = {}
    MaxEvents = 2
    MaxDelivered = 1
    MaxReconciled = 1
    Limits = {1}
    Results = {"text"}
    MaxDeltas = 1
SPECIFICATION FairPolling
PROPERTY EveryRunAnswered
CHECK_DEADLOCK FALSE
