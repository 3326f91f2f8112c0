SPECIFICATION MCSpec
CONSTANTS
    ip1 = ip1
    zoned = zoned
    Parts = {"all"}
    Clients = {1}
    IPs = {ip1}
    ClientIP <- MCClientIP
    MappingIP <- MCClientIP
    Flows = {1}
    Workers = {w1}
    MaxMappings = 2
    MaxPerIP = 2
    QueueSize = 1
    MaxPackets = 1
    MaxStops = 0
    None = None
INVARIANT MappedFlowsAreLive
CHECK_DEADLOCK FALSE
