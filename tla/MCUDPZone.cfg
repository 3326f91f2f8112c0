SPECIFICATION MCSpec
CONSTANTS
    ip1 = ip1
    zoned = zoned
    Parts = {"all"}
    Clients = {1}
    IPs = {ip1, zoned}
    ClientIP <- MCClientIP
    MappingIP <- MCZonedIP
    Flows = {1}
    Workers = {w1}
    MaxMappings = 2
    MaxPerIP = 2
    QueueSize = 1
    MaxPackets = 1
    MaxStops = 0
    None = None
INVARIANT IPCountsReleased
CHECK_DEADLOCK FALSE
