\* A bound flow whose row stays without its tuple.
SPECIFICATION MCSpec
CONSTANTS
    Parts = {"bind"}
    Flows = {f1}
    GeoQueueSize = 2
    WriteQueueSize = 2
    BatchSize = 2
    MaxBinds = 1
    MaxUpdates = 0
    MaxRejections = 0
    MaxTags = 0
    MaxShutdowns = 0
    Absent = Absent
INVARIANT BoundFlowHasTuple
CHECK_DEADLOCK FALSE
