----------------------------- MODULE AuditPipeline -----------------------------
(***************************************************************************)
(* The audit pipeline of internal/audit/pipeline.go and the flow tables it *)
(* writes (flow_store.go).  Records pass a bounded queue, the GeoIP worker,*)
(* a second bounded queue and the write worker, which collects a batch and *)
(* writes it in four transactions.                                         *)
(*                                                                         *)
(* What describes one flow reaches the store on three ways that nothing    *)
(* orders: the pipeline's own items, made by Open, Update and Close of the *)
(* lifecycle; the snapshots of the Flow Context registry, published by its *)
(* snapshot loop; and the tag operations, which write at once.             *)
(***************************************************************************)
EXTENDS Naturals, Sequences, FiniteSets, Functions

CONSTANTS
    Flows,           \* flow.ID
    GeoQueueSize, WriteQueueSize, BatchSize,
    MaxBinds,        \* bound: flows that call Bind
    MaxUpdates,      \* bound: checkpoints of one flow that Update makes
    MaxRejections,   \* bound: rejections that pass allowRejection
    MaxTags,         \* bound: tag operations
    MaxShutdowns,    \* bound: calls of Shutdown (closeOnce: at most one)
    Absent

ASSUME AuditAssumption ==
    /\ {GeoQueueSize, WriteQueueSize, BatchSize} \subseteq Nat \ {0}
    /\ {MaxBinds, MaxUpdates, MaxRejections, MaxTags} \subseteq Nat
    /\ MaxShutdowns \in {0, 1}
    /\ Absent \notin Flows

VARIABLES
    life, bound, holds,          \* per flow: its lifecycle; Bind was called; it has its tuple
    snaps,                       \* per flow and thread: registry snapshots not yet published
    updates, rejections, tags,   \* what was made of each bounded kind
    tagging,                     \* per flow: the entity a tag operation has read
    geoCh, writeCh, geoUp,       \* the queues; the GeoIP worker runs
    batch, writer,               \* the write worker: its batch and its step
    rows, flowRows,              \* the tables flow_entities and flows
    received, written, dropped,  \* the audit counters of the metrics
    stop                         \* Pipeline.Shutdown, then Store.Close

sourceVars == <<life, bound, holds, snaps, updates, rejections, tags, tagging>>
storeVars  == <<rows, flowRows>>
vars == <<sourceVars, geoCh, writeCh, geoUp, batch, writer, storeVars,
          received, written, dropped, stop>>

Threads == {"lifecycle", "bind"}

\* backend_local and backend_remote: empty, or the text of an unset or of a set address.
Local == {"none", "unset", "set"}
Row == [state : {"active", "closed"}, gen : {0, 1}, key : BOOLEAN, local : Local]
Entity == [flow : Flows, state : {"active", "closed"}, gen : {0, 1}, key : BOOLEAN, local : Local]
Item == [entity : Entity \cup {Absent}, flow : Flows \cup {Absent},
         checkpoint : Flows \cup {Absent}, rejection : BOOLEAN]
ASSUME AbsentAssumption == Absent \notin Row

WriterStep == {"select", "entities", "flows", "checkpoints", "rejections", "exited"}

EmptyBatch == [entities |-> <<>>, flows |-> <<>>, checkpoints |-> <<>>, rejections |-> 0]

TypeOK ==
    /\ life \in [Flows -> {"new", "open", "closed"}]
    /\ bound \subseteq Flows /\ holds \subseteq bound
    /\ snaps \in [Flows \X Threads -> Seq(Entity)]
    /\ updates \in [Flows -> 0..MaxUpdates]
    /\ rejections \in 0..MaxRejections
    /\ tags \in 0..MaxTags
    /\ tagging \in [Flows -> Entity \cup {Absent}]
    /\ geoCh \in Seq(Item) /\ Len(geoCh) <= GeoQueueSize
    /\ writeCh \in Seq(Item) /\ Len(writeCh) <= WriteQueueSize
    /\ geoUp \in BOOLEAN
    /\ batch.entities \in Seq(Entity) /\ batch.flows \in Seq(Flows)
    /\ batch.checkpoints \in Seq(Flows) /\ batch.rejections \in Nat
    /\ writer \in WriterStep
    /\ rows \in [Flows -> Row \cup {Absent}]
    /\ flowRows \subseteq Flows
    /\ {received, written, dropped} \subseteq Nat
    /\ stop \in {"running", "closed", "storeClosed"}

Init ==
    /\ life = [f \in Flows |-> "new"] /\ bound = {} /\ holds = {}
    /\ snaps = [t \in Flows \X Threads |-> <<>>]
    /\ updates = [f \in Flows |-> 0] /\ rejections = 0 /\ tags = 0
    /\ tagging = [f \in Flows |-> Absent]
    /\ geoCh = <<>> /\ writeCh = <<>> /\ geoUp = TRUE
    /\ batch = EmptyBatch /\ writer = "select"
    /\ rows = [f \in Flows |-> Absent] /\ flowRows = {}
    /\ received = 0 /\ written = 0 /\ dropped = 0
    /\ stop = "running"

closed == stop # "running"

One(b) == IF b THEN 1 ELSE 0

recordCount(i) ==
    One(i.entity # Absent) + One(i.flow # Absent) + One(i.checkpoint # Absent) + One(i.rejection)

BatchCount(b) == Len(b.entities) + Len(b.flows) + Len(b.checkpoints) + b.rejections

-----------------------------------------------------------------------------
\* enqueue: a full or closed pipeline drops the item and counts it.

enqueue(i) ==
    /\ received' = received + recordCount(i)
    /\ IF ~closed /\ Len(geoCh) < GeoQueueSize
       THEN geoCh' = Append(geoCh, i) /\ UNCHANGED dropped
       ELSE UNCHANGED geoCh /\ dropped' = dropped + recordCount(i)

\* AuditEntity of a snapshot: the String of an unset address is a text, not empty.
AuditEntity(f, st, g, k) ==
    [flow |-> f, state |-> st, gen |-> g, key |-> k, local |-> IF k THEN "set" ELSE "unset"]

\* The entities of the pipeline and of InsertFlows name no tuple.
PlainEntity(f, st) == [flow |-> f, state |-> st, gen |-> 0, key |-> FALSE, local |-> "none"]

EntityItem(e) == [entity |-> e, flow |-> Absent, checkpoint |-> Absent, rejection |-> FALSE]
pipelineVars == <<writeCh, geoUp, batch, writer, storeVars, written, stop>>

-----------------------------------------------------------------------------
\* What the forwarding side does to a flow; the registry is told before the pipeline.

Open(f) ==
    /\ life[f] = "new"
    /\ life' = [life EXCEPT ![f] = "open"]
    /\ snaps' = [snaps EXCEPT ![<<f, "lifecycle">>] = Append(@, AuditEntity(f, "active", 0, FALSE))]
    /\ enqueue(EntityItem(PlainEntity(f, "active")))
    /\ UNCHANGED <<bound, holds, updates, rejections, tags, tagging, pipelineVars>>

\* Registry.Bind, by the forwarding goroutine.
Bind(f) ==
    /\ life[f] = "open" /\ f \notin bound /\ Cardinality(bound) < MaxBinds
    /\ bound' = bound \cup {f} /\ holds' = holds \cup {f}
    /\ snaps' = [snaps EXCEPT ![<<f, "bind">>] = Append(@, AuditEntity(f, "active", 1, TRUE))]
    /\ UNCHANGED <<life, updates, rejections, tags, tagging, geoCh, received, dropped, pipelineVars>>

\* Registry.Bind of another flow takes the tuple over: a snapshot without it.
Replaced(f) ==
    /\ f \in holds
    /\ holds' = holds \ {f}
    /\ snaps' = [snaps EXCEPT ![<<f, "bind">>] =
                    Append(@, AuditEntity(f, IF life[f] = "open" THEN "active" ELSE "closed", 1, FALSE))]
    /\ UNCHANGED <<life, bound, updates, rejections, tags, tagging, geoCh, received, dropped, pipelineVars>>

\* An Update that makes a checkpoint: the first one, or flushInterval after the last.
Update(f) ==
    /\ life[f] = "open" /\ ~closed
    /\ updates[f] < MaxUpdates
    /\ updates' = [updates EXCEPT ![f] = @ + 1]
    /\ enqueue([entity |-> Absent, flow |-> Absent, checkpoint |-> f, rejection |-> FALSE])
    /\ UNCHANGED <<life, bound, holds, snaps, rejections, tags, tagging, pipelineVars>>

\* The registry's closed snapshot carries the tuple, the pipeline's entity does not.
Close(f) ==
    /\ life[f] = "open"
    /\ life' = [life EXCEPT ![f] = "closed"]
    /\ snaps' = [snaps EXCEPT ![<<f, "lifecycle">>] = 
                    Append(@, AuditEntity(f, "closed", One(f \in bound), f \in holds))]
    /\ enqueue([entity |-> PlainEntity(f, "closed"), flow |-> f, checkpoint |-> f, rejection |-> FALSE])
    /\ UNCHANGED <<bound, holds, updates, rejections, tags, tagging, pipelineVars>>

\* Reject, once allowRejection let it pass.
Reject ==
    /\ rejections < MaxRejections
    /\ rejections' = rejections + 1
    /\ enqueue([entity |-> Absent, flow |-> Absent, checkpoint |-> Absent, rejection |-> TRUE])
    /\ UNCHANGED <<life, bound, holds, snaps, updates, tags, tagging, pipelineVars>>

\* The snapshot loop hands a snapshot to PublishEntity.
PublishEntity(t) ==
    /\ snaps[t] # <<>>
    /\ snaps' = [snaps EXCEPT ![t] = Tail(@)]
    /\ enqueue(EntityItem(Head(snaps[t])))
    /\ UNCHANGED <<life, bound, holds, updates, rejections, tags, tagging, pipelineVars>>

-----------------------------------------------------------------------------
\* The store: upsertFlowEntityTx and the transactions of the write worker.

Greater(a, b) == IF a > b THEN a ELSE b

\* Mutant: a closed row takes the tuple.
takesTupleAlways(row, e) == e.gen >= row.gen

\* The columns of the tuple are taken from an open row's newer or equal generation.
takesTuple(row, e) == row.state # "closed" /\ e.gen >= row.gen

\* ON CONFLICT: closed is final, the generation grows, an empty column changes nothing.
merge(row, e) ==
    [state |-> IF row.state = "closed" THEN "closed" ELSE e.state,
     gen   |-> Greater(row.gen, e.gen),
     key   |-> row.key \/ (takesTuple(row, e) /\ e.key),
     local |-> IF takesTuple(row, e) /\ e.local # "none" THEN e.local ELSE row.local]

upsertFlowEntity(table, e) ==
    [table EXCEPT ![e.flow] = 
        IF @ = Absent THEN [state |-> e.state, gen |-> e.gen, key |-> e.key, local |-> e.local]
        ELSE merge(@, e)]

\* One upsert after the other.
upsertAll(table, es) ==
    LET after[n \in 0..Len(es)] == IF n = 0 THEN table ELSE upsertFlowEntity(after[n - 1], es[n])
    IN  after[Len(es)]

\* Each transaction commits its whole part of the batch or none of it.
InsertFlowEntities(es) == upsertAll(rows, es)

\* Mutant: the flow row only.
InsertFlowsOnly(fs) == rows

\* InsertFlows writes the closed entity and the flow row together.
InsertFlows(fs) == upsertAll(rows, [i \in 1..Len(fs) |-> PlainEntity(fs[i], "closed")])

\* The foreign key of flow_checkpoints: one flow without a row fails them all.
InsertCheckpointsOK(fs) == \A i \in 1..Len(fs) : rows[fs[i]] # Absent

\* recordResult: n records written, or n dropped because the transaction failed.
Written(n) == written' = written + n /\ UNCHANGED dropped
Dropped(n) == dropped' = dropped + n /\ UNCHANGED <<written, storeVars>>
storeOpen == stop # "storeClosed"

-----------------------------------------------------------------------------
\* runGeoWorker.

GeoStep ==
    /\ geoCh # <<>>
    /\ geoCh' = Tail(geoCh)
    /\ IF Len(writeCh) < WriteQueueSize
       THEN writeCh' = Append(writeCh, Head(geoCh)) /\ UNCHANGED dropped
       ELSE UNCHANGED writeCh /\ dropped' = dropped + recordCount(Head(geoCh))
    /\ UNCHANGED <<sourceVars, geoUp, batch, writer, storeVars, received, written, stop>>

\* Mutant: the worker returns and leaves writeCh open.
GeoExitLeavesOpen ==
    /\ geoUp /\ closed /\ geoCh = <<>>
    /\ UNCHANGED vars

\* geoCh is closed and empty: the worker closes writeCh and returns.
GeoExit ==
    /\ geoUp /\ closed /\ geoCh = <<>>
    /\ geoUp' = FALSE
    /\ UNCHANGED <<sourceVars, geoCh, writeCh, batch, writer, storeVars,
                   received, written, dropped, stop>>

-----------------------------------------------------------------------------
\* runWriteWorker.

Collected(i) ==
    [entities    |-> IF i.entity = Absent THEN batch.entities ELSE Append(batch.entities, i.entity),
     flows       |-> IF i.flow = Absent THEN batch.flows ELSE Append(batch.flows, i.flow),
     checkpoints |-> IF i.checkpoint = Absent THEN batch.checkpoints
                     ELSE Append(batch.checkpoints, i.checkpoint),
     rejections  |-> batch.rejections + One(i.rejection)]

Collect ==
    /\ writer = "select" /\ writeCh # <<>>
    /\ writeCh' = Tail(writeCh)
    /\ batch' = Collected(Head(writeCh))
    /\ writer' = IF BatchCount(batch') >= BatchSize THEN "entities" ELSE "select"
    /\ UNCHANGED <<sourceVars, geoCh, geoUp, storeVars, received, written, dropped, stop>>

\* The ticker, or the closed writeCh.
Flush ==
    /\ writer = "select" /\ batch # EmptyBatch
    /\ writer' = "entities"
    /\ UNCHANGED <<sourceVars, geoCh, writeCh, geoUp, batch, storeVars,
                   received, written, dropped, stop>>

FlushStep(from, to, part, empty) ==
    /\ writer = from /\ writer' = to
    /\ batch' = [batch EXCEPT ![part] = empty]
    /\ UNCHANGED <<sourceVars, geoCh, writeCh, geoUp, received, stop>>

FlushEntities ==
    /\ FlushStep("entities", "flows", "entities", <<>>)
    /\ \/ /\ storeOpen
          /\ rows' = InsertFlowEntities(batch.entities)
          /\ Written(Len(batch.entities)) /\ UNCHANGED flowRows
       \/ Dropped(Len(batch.entities))

\* Mutant: a failed transaction is not counted.
FlushFlowsSilent ==
    /\ FlushStep("flows", "checkpoints", "flows", <<>>)
    /\ \/ /\ storeOpen
          /\ rows' = InsertFlows(batch.flows)
          /\ flowRows' = flowRows \cup Range(batch.flows)
          /\ Written(Len(batch.flows))
       \/ UNCHANGED <<storeVars, written, dropped>>

FlushFlows ==
    /\ FlushStep("flows", "checkpoints", "flows", <<>>)
    /\ \/ /\ storeOpen
          /\ rows' = InsertFlows(batch.flows)
          /\ flowRows' = flowRows \cup Range(batch.flows)
          /\ Written(Len(batch.flows))
       \/ Dropped(Len(batch.flows))

FlushCheckpoints ==
    /\ FlushStep("checkpoints", "rejections", "checkpoints", <<>>)
    /\ \/ /\ storeOpen /\ InsertCheckpointsOK(batch.checkpoints)
          /\ Written(Len(batch.checkpoints)) /\ UNCHANGED storeVars
       \/ Dropped(Len(batch.checkpoints))

FlushRejections ==
    /\ FlushStep("rejections", "select", "rejections", 0)
    /\ \/ storeOpen /\ Written(batch.rejections) /\ UNCHANGED storeVars
       \/ Dropped(batch.rejections)

\* writeCh is closed and empty and the last batch flushed.
WriterExit ==
    /\ writer = "select" /\ ~geoUp /\ writeCh = <<>> /\ batch = EmptyBatch
    /\ writer' = "exited"
    /\ UNCHANGED <<sourceVars, geoCh, writeCh, geoUp, batch, storeVars,
                   received, written, dropped, stop>>

-----------------------------------------------------------------------------
\* A tag operation: the flow is read from the registry, then written to the store.

TagRead(f) ==
    /\ tags < MaxTags /\ f \in holds /\ tagging[f] = Absent
    /\ tags' = tags + 1
    /\ tagging' = [tagging EXCEPT ![f] = 
                    AuditEntity(f, IF life[f] = "open" THEN "active" ELSE "closed", 1, TRUE)]
    /\ UNCHANGED <<life, bound, holds, snaps, updates, rejections, geoCh, received, dropped, pipelineVars>>

\* ApplyFlowTag and the like: the entity is upserted with the tag, or the call fails.
TagWrite(f) ==
    /\ tagging[f] # Absent
    /\ tagging' = [tagging EXCEPT ![f] = Absent]
    /\ \/ storeOpen /\ rows' = upsertFlowEntity(rows, tagging[f])
       \/ UNCHANGED rows
    /\ UNCHANGED <<life, bound, holds, snaps, updates, rejections, tags, geoCh, writeCh, geoUp,
                   batch, writer, flowRows, received, written, dropped, stop>>

-----------------------------------------------------------------------------
\* Runtime.stop: Pipeline.Shutdown, and Store.Close once it returned or timed out.

Shutdown ==
    /\ MaxShutdowns = 1
    /\ stop = "running" /\ stop' = "closed"
    /\ UNCHANGED <<sourceVars, geoCh, writeCh, geoUp, batch, writer, storeVars,
                   received, written, dropped>>

StoreClose ==
    /\ stop = "closed" /\ stop' = "storeClosed"
    /\ UNCHANGED <<sourceVars, geoCh, writeCh, geoUp, batch, writer, storeVars,
                   received, written, dropped>>

-----------------------------------------------------------------------------
SourceNext(f) ==
    \/ Open(f) \/ Bind(f) \/ Replaced(f) \/ Update(f) \/ Close(f)
    \/ TagRead(f) \/ TagWrite(f)
    \/ \E t \in Threads : PublishEntity(<<f, t>>)

GeoNext == GeoStep \/ GeoExit

WriterNext ==
    \/ Collect \/ Flush
    \/ FlushEntities \/ FlushFlows \/ FlushCheckpoints \/ FlushRejections
    \/ WriterExit

Next ==
    \/ \E f \in Flows : SourceNext(f)
    \/ Reject \/ GeoNext \/ WriterNext \/ Shutdown \/ StoreClose

Spec == Init /\ [][Next]_vars

\* The two workers are scheduled; the ticker makes Flush happen.
FairSpec == Spec /\ WF_vars(GeoNext) /\ WF_vars(WriterNext)

-----------------------------------------------------------------------------
\* The records of the items of a queue.
Records(q) ==
    LET sum[n \in 0..Len(q)] == IF n = 0 THEN 0 ELSE sum[n - 1] + recordCount(q[n])
    IN  sum[Len(q)]

InFlight == Records(geoCh) + Records(writeCh) + BatchCount(batch)

(* Every record the pipeline was given is written, counted as dropped or    *)
(* still in a queue or batch: nothing disappears between the queues, the    *)
(* four transactions, a full queue, a failed write and the shutdown.        *)
AuditAccounting == received = written + dropped + InFlight

(* "`flows` contains one complete lifecycle row per TCP stream or UDP       *)
(* mapping": when the write worker has returned and nothing was dropped,    *)
(* every flow that was closed has its row.  And a flow with a row is closed *)
(* in flow_entities too, although snapshots and tag operations that saw it  *)
(* active may be written later.                                             *)
RowsFollowFlows ==
    /\ writer = "exited" /\ dropped = 0 => flowRows = {f \in Flows : life[f] = "closed"}
    /\ \A f \in flowRows : rows[f] # Absent /\ rows[f].state = "closed"

(* The identity of a closed flow is frozen: a snapshot or tag operation     *)
(* that comes late changes neither its state nor its tuple.                 *)
ClosedRowFrozen ==
    [][\A f \in Flows : rows[f] # Absent /\ rows[f].state = "closed" =>
        rows'[f].state = "closed" /\ rows'[f].key = rows[f].key /\ rows'[f].local = rows[f].local]_vars

(* A batch is never left behind: whatever was accepted is written or        *)
(* counted as dropped, also when too little comes to fill the batch; and    *)
(* "audit queues drain": after Shutdown both workers return.                *)
PipelineCompletes ==
    /\ []<>(InFlight = 0)
    /\ closed ~> (writer = "exited" /\ InFlight = 0)

-----------------------------------------------------------------------------
\* A statement of the documentation that the code does not keep.

(* "`flow_entities` contains active identity and backend tuple data": when  *)
(* all snapshots of a bound flow were published and all records written,    *)
(* none dropped, its row has the backend tuple.                             *)
BoundFlowHasTuple ==
    \A f \in holds :
        /\ life[f] = "closed" /\ \A t \in Threads : snaps[<<f, t>>] = <<>>
        /\ dropped = 0 /\ InFlight = 0
        => rows[f].key
=============================================================================
