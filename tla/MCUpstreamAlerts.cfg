\* One measured upstream, one RPC probe beside the loop.
SPECIFICATION FairSpec
CONSTANTS
    Order <- MCOrder
    Priority <- MCPriority
    Routes <- MCRoutes
    FailureThreshold = 2
    RecoveryThreshold = 2
    StaleThreshold = 0
    DialCooldown = 0
    MaxRTT = 1
    IPs = {ip}
    None = None
    Protocols <- MCProtocols
    MinInterval = 1
    MaxInterval = 1
    RetryDelay = 1
    InterUpstreamGap = 0
    ProbeRTTs = {1}
    MaxRPCs = 1
    AlertTags = {"a"}
    StartupGracePeriod = 1
    UnusableInterval = 1
    NotifyInterval = 1
    TimerIds = {1, 2}
    NoTimer = None
INVARIANTS PolicyFollowsHealth
PROPERTIES HealthFollowsProbes AlertsAreTrue DownIsAlerted 
CHECK_DEADLOCK FALSE
