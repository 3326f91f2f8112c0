\* Two clients on three flows, the third waiting for a token; and the stop.
SPECIFICATION MCSpec
CONSTANTS
    ip1 = ip1
    zoned = zoned
    Parts = {"sessions", "stop"}
    Clients = {1, 2}
    IPs = {ip1}
    ClientIP <- MCClientIP
    MappingIP <- MCClientIP
    Flows = {1, 2, 3}
    Workers = {w1, w2}
    MaxMappings = 2
    MaxPerIP = 2
    QueueSize = 1
    MaxPackets = 3
    MaxStops = 1
    None = None
PROPERTIES ImplementsSessions ImplementsLifecycle WaitersReleased StopCompletes
CHECK_DEADLOCK FALSE
