\* One flow on all three ways into the store, full queues and the shutdown.
SPECIFICATION MCSpec
CONSTANTS
    Parts = {"bind", "counts", "tags"}
    Flows = {f1}
    GeoQueueSize = 1
    WriteQueueSize = 1
    BatchSize = 4
    MaxBinds = 1
    MaxUpdates = 1
    MaxRejections = 1
    MaxTags = 1
    MaxShutdowns = 1
    Absent = Absent
INVARIANTS AuditAccounting RowsFollowFlows
PROPERTIES ClosedRowFrozen PipelineCompletes
CHECK_DEADLOCK FALSE
