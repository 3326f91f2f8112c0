\* Two upstreams, an adaptive and a static route; the collector over both; the webhook
\* client; two flows and two workers; two clients and one backend.
SPECIFICATION Spec
CONSTANTS
    Order <- MCOrder
    Priority <- MCPriority
    Routes <- MCRoutes
    FailureThreshold = 2
    RecoveryThreshold = 2
    StaleThreshold = 0
    DialCooldown = 1
    MaxRTT = 2
    IPs = {ip1}
    None = None
    Protocols <- MCProtocols
    MinInterval = 1
    MaxInterval = 2
    RetryDelay = 1
    InterUpstreamGap = 1
    ProbeRTTs = {1}
    MaxRPCs = 0
    QueueSize = 2
    MaxAttempts = 3
    MaxEvents = 4
    ObservedFlows = {f1, f2}
    ProtocolOf <- MCProtocolOf
    Workers = {w1, w2}
    MaxBytes = 1
    MaxRejections = 1
    NoEntry = NoEntry
    Clients = {c1, c2}
    Watched = c1
    PerTick = 1
    RPCBurst = 2
    TTL = 3
    Backends = {b}
    WindowBurst = 2
    Window = 3
    Unknown = Unknown
INVARIANTS AdaptivePickIsBest  ObserversFollowFlows
PROPERTIES CollectorProbes LimitsHold
CHECK_DEADLOCK FALSE
