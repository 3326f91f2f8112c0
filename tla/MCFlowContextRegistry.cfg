\* A capacity of two, a waiting Resolve, expiry, snapshots through a queue of one, Shutdown.
SPECIFICATION MCSpec
CONSTANTS
    Flows = {1, 2, 3}
    Keys = {1, 2}
    Resolvers = {r1}
    MaxEntries = 2
    Grace = 1
    SnapshotQueueSize = 1
    SinkSet = TRUE
    MaxBinds = 2
    MaxShutdowns = 1
    None = None
INVARIANTS IndexExact NoMissedWakeup
PROPERTIES ShutdownCompletes
CHECK_DEADLOCK FALSE
