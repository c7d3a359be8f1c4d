SPECIFICATION LiveSpec
CONSTANTS
    c1 = c1
    c2 = c2
    Ids = {c1, c2}
    MaxOutbound = 3
    MaxFragments = 2
    MaxRead = 2
    Scenarios <- MCScenarios
    MaxEvents = 1
    Nil = Nil
INVARIANTS TransportTypeOK OutputInOrder EachAnsweredOnce
PROPERTIES CloseDelivered KeepsUp
CHECK_DEADLOCK FALSE
