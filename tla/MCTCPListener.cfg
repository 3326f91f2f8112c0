\* One connection in full; two connections for one token.
SPECIFICATION MCSpec
CONSTANTS
    Conns = {1, 2}
    Requests = {1, 2}
    MaxConnections = 1
    MaxChunks = 1
    MaxStops = 1
    None = None
INVARIANTS BlockExactlyOnce SummaryIsComplete TokensCoverFlows
PROPERTIES ImplementsLifecycle CloseCompletes
CHECK_DEADLOCK FALSE
