\* Two restarts; two copy directions; one flow with two backend requests.
SPECIFICATION Spec
CONSTANTS
    Main = main
    Restarts = {r1, r2}
    MaxHandlers = 2
    NoRuntime = nil
    Limits = {0, 1, 2}
    Writes = {1, 2, 5}
    Waiters = {up, down}
    BurstWindow = 1
    MinBurst = 2
    MaxAge = 2
    MaxCalls = 2
    ServedFlows = {f1}
    FlowClients = {c1}
    ClientOf <- MCClientOf
    Handlers = {h1, h2}
    Labels = {"key_1", "keyA1"}
    TagValues = {v1, v2}
    Alike <- MCAlike
    NoTag = NoTag
    MaxRequests = 2
INVARIANTS   ControlAnswersAreTrue TagsReplace
PROPERTIES CallsEnd ImplementsBucket CopiersProceed
CHECK_DEADLOCK FALSE
