CONSTANTS
    r1 = r1  r2 = r2  i1 = i1  ss1 = ss1  ss2 = ss2
    Sends = {r1, r2}
    RunIds = {r1, r2}
    Keyings <- AnyKeys
    Sessions = {ss1}
    SessionOf <- OneSession
    Injections = {i1}
    MaxEvents = 4
    MaxDelivered = 1
    MaxReconciled = 1
    Limits = {1, 3}
    Results = {"text", "silent", "failed", "recovered"}
    MaxDeltas = 1
SPECIFICATION Spec
SYMMETRY SendSymmetry
INVARIANTS GatewayTypeOK OneTerminalQueued NothingSwallowed NoForgottenRun AbortSticks KeyMeansTracked
CHECK_DEADLOCK FALSE
