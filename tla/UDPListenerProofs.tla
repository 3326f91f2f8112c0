--------------------------- MODULE UDPListenerProofs ---------------------------
(***************************************************************************)
(* Proofs about UDPListener, for every set of clients, workers and flows   *)
(* and every limit.                                                        *)
(*                                                                         *)
(* First the inductive invariant: StructInv relates the two tables, the    *)
(* outcome of each reservation, the life of each mapping and the program   *)
(* counters of the workers.  The steps the tables do not see come before   *)
(* the others.                                                             *)
(*                                                                         *)
(* Then what follows from it: the accounting of the two limits, one flow   *)
(* per client, and the refinements of UDPSessions and FlowLifecycle.       *)
(***************************************************************************)
EXTENDS UDPListener, FiniteSetTheorems, TLAPS

\* The variables the tables, flows and workers are about, and the others.
coreVars == <<workerVars, listenerVars, res, owner, life>>
edgeVars == <<inputVars, controls, callbacks, loopVars, stopVars>>

CoreType ==
    /\ pc \in [Workers -> PC]
    /\ job \in [Workers -> Clients \cup {None}]
    /\ flow \in [Workers -> Flows \cup {None}]
    /\ mappings \in [Clients -> Flows \cup {None}]
    /\ pending \in [Clients -> Flows \cup {None}]
    /\ sem \in 0..MaxMappings
    /\ ipCounts \in [IPs -> 0..MaxPerIP]
    /\ res \in [Flows -> {"none", "pending", "ok", "err"}]
    /\ owner \in [Flows -> Clients \cup {None}]
    /\ life \in [Flows -> Life]

EdgeType ==
    /\ queue \in Seq(Clients) /\ Len(queue) <= QueueSize
    /\ arrived \in 0..MaxPackets
    /\ readerUp \in BOOLEAN
    /\ controls \subseteq Flows
    /\ callbacks \subseteq Flows
    /\ active \subseteq Flows
    /\ activity \subseteq Flows
    /\ stop \in StopStep
    /\ closers \subseteq Flows
    /\ stopFlow \in Flows \cup {None}

\* The two tables against the flows they hold.
TableInv ==
    /\ \A c \in Clients : pending[c] # None =>
          owner[pending[c]] = c /\ res[pending[c]] = "pending" /\ mappings[c] = None
    /\ \A c \in Clients : mappings[c] # None =>
          owner[mappings[c]] = c /\ res[mappings[c]] = "ok"

\* Every flow against the tables: a reservation in progress is in pending, an
\* open mapping of a finished reservation is in mappings.
FlowInv ==
    \A f \in Flows :
        /\ res[f] = "none" => owner[f] = None
        /\ res[f] # "none" => owner[f] \in Clients
        /\ res[f] \in {"none", "err"} => life[f] = "none"
        /\ res[f] = "pending" => pending[owner[f]] = f
        /\ res[f] = "ok" => life[f] # "none"
        /\ res[f] = "ok" /\ life[f] \in {"open", "marked"} => mappings[owner[f]] = f

Builders == {"build", "controls", "fail", "finish"}

\* What a worker at step s may rely on, for the client c of its packet and its flow f.
WorkerAt(s, c, f) ==
    /\ s \notin {"idle", "exited"} => c \in Clients
    /\ s \notin {"idle", "miss", "exited"} => f \in Flows /\ owner[f] = c
    /\ s \in Builders => res[f] = "pending"
    /\ s \in {"build", "fail"} => life[f] = "none"
    /\ s \in {"controls", "finish"} => life[f] # "none"
    /\ s = "wait" => res[f] # "none"
    /\ s \in {"activate", "forward", "touch", "closing"} => res[f] = "ok"

\* Every worker against the flow it works on; no two build the same one.
WorkerInv ==
    /\ \A w \in Workers : WorkerAt(pc[w], job[w], flow[w])
    /\ \A v, w \in Workers :
          v # w /\ pc[v] \in Builders /\ pc[w] \in Builders => flow[v] # flow[w]

StructInv == CoreType /\ EdgeType /\ TableInv /\ FlowInv /\ WorkerInv

LEMMA StructInit == Init => StructInv
<1> SUFFICES ASSUME Init PROVE StructInv
  OBVIOUS
<1>1. CoreType
  BY UDPAssumption DEF Init, CoreType, PC, Life
<1>2. EdgeType
  BY UDPAssumption DEF Init, EdgeType, StopStep
<1>3. TableInv /\ FlowInv /\ WorkerInv
  BY Zenon DEF Init, TableInv, FlowInv, WorkerInv, WorkerAt, Builders
<1> QED BY <1>1, <1>2, <1>3, Zenon DEF StructInv

LEMMA StructType == StructInv => TypeOK
BY Zenon DEF StructInv, CoreType, EdgeType, TypeOK

-----------------------------------------------------------------------------
\* Steps that the tables do not see.

LEMMA EdgeFrame == ASSUME StructInv, UNCHANGED edgeVars PROVE EdgeType'
BY Zenon DEF StructInv, EdgeType, edgeVars, inputVars, loopVars, stopVars

LEMMA CoreFrame == ASSUME StructInv, UNCHANGED coreVars PROVE CoreType'
BY Zenon DEF StructInv, CoreType, coreVars, workerVars, listenerVars

\* A life that starts at Open only and leaves {open, marked} for good.
LifeKept ==
    \A g \in Flows :
        /\ (life'[g] = "none") <=> (life[g] = "none")
        /\ life'[g] \in {"open", "marked"} => life[g] \in {"open", "marked"}

LEMMA TablesFrame ==
    ASSUME StructInv, UNCHANGED <<mappings, pending, res, owner>>, LifeKept
    PROVE  TableInv' /\ FlowInv'
<1>1. TableInv'
  BY Zenon DEF StructInv, TableInv
<1>2. FlowInv'
  BY Zenon DEF StructInv, FlowInv, LifeKept
<1> QED BY <1>1, <1>2, Zenon

\* Nothing but lives and the edge moves.
LEMMA LifeStep ==
    ASSUME StructInv, CoreType', EdgeType', LifeKept,
           UNCHANGED <<pc, job, flow, mappings, pending, res, owner>>
    PROVE  StructInv'
<1>1. WorkerInv'
  <2>1. ASSUME NEW w \in Workers PROVE WorkerAt(pc[w], job[w], flow[w])'
    <3>1. WorkerAt(pc[w], job[w], flow[w])
      BY Zenon DEF StructInv, WorkerInv
    <3> QED BY <3>1, Zenon DEF WorkerAt, LifeKept, Builders
  <2> QED BY <2>1, Zenon DEF StructInv, WorkerInv
<1> QED BY <1>1, TablesFrame, Zenon DEF StructInv

LEMMA EdgeStep ==
    ASSUME StructInv, EdgeType', UNCHANGED coreVars
    PROVE  StructInv'
<1>1. LifeKept /\ UNCHANGED <<pc, job, flow, mappings, pending, res, owner>>
  BY Zenon DEF LifeKept, coreVars, workerVars, listenerVars
<1> QED BY <1>1, CoreFrame, LifeStep, Zenon

-----------------------------------------------------------------------------
\* Steps of one worker w that the tables do not see.

LEMMA WorkerFrame ==
    ASSUME StructInv, CoreType', EdgeType', LifeKept,
           UNCHANGED <<mappings, pending, res, owner>>,
           NEW w \in Workers,
           \A v \in Workers \ {w} : pc'[v] = pc[v] /\ job'[v] = job[v] /\ flow'[v] = flow[v],
           WorkerAt(pc'[w], job'[w], flow'[w]),
           pc'[w] \in Builders => pc[w] \in Builders /\ flow'[w] = flow[w]
    PROVE  StructInv'
<1>1. ASSUME NEW v \in Workers PROVE WorkerAt(pc[v], job[v], flow[v])'
  <2>1. WorkerAt(pc'[v], job'[v], flow'[v])
    BY Zenon DEF StructInv, WorkerInv
  <2> QED BY <2>1, Zenon DEF WorkerAt, LifeKept, Builders
<1>2. ASSUME NEW u \in Workers, NEW v \in Workers, u # v,
             pc'[u] \in Builders, pc'[v] \in Builders
      PROVE  flow'[u] # flow'[v]
  BY <1>2 DEF StructInv, WorkerInv
<1>3. WorkerInv'
  BY <1>1, <1>2, Zenon DEF WorkerInv
<1> QED BY <1>3, TablesFrame, Zenon DEF StructInv

\* The worker goes on with the same packet and flow.
LEMMA AdvanceStep ==
    ASSUME StructInv, EdgeType', NEW w \in Workers, NEW from, NEW to \in PC,
           WorkerStep(w, from, to), WorkerAt(to, job[w], flow[w]),
           to \in Builders => from \in Builders,
           UNCHANGED <<job, flow, listenerVars, res, owner, life>>
    PROVE  StructInv'
<1>1. CoreType'
  BY Zenon DEF StructInv, CoreType, WorkerStep, listenerVars
<1>2. pc[w] = from /\ pc'[w] = to /\ \A v \in Workers \ {w} : pc'[v] = pc[v]
  BY Zenon DEF StructInv, CoreType, WorkerStep
<1>3. LifeKept
  BY Zenon DEF LifeKept
<1> QED BY <1>1, <1>2, <1>3, WorkerFrame, Zenon DEF listenerVars

\* The worker returns to idle.
LEMMA ReturnStep ==
    ASSUME StructInv, EdgeType', NEW w \in Workers, NEW from, WorkerReturn(w, from),
           LifeKept, life' \in [Flows -> Life], UNCHANGED <<listenerVars, res, owner>>
    PROVE  StructInv'
<1>1. CoreType'
  BY Zenon DEF StructInv, CoreType, WorkerReturn, WorkerStep, PC, listenerVars
<1>2. /\ pc'[w] = "idle"
      /\ \A v \in Workers \ {w} : pc'[v] = pc[v] /\ job'[v] = job[v] /\ flow'[v] = flow[v]
  BY Zenon DEF StructInv, CoreType, WorkerReturn, WorkerStep
<1>3. WorkerAt(pc'[w], job'[w], flow'[w]) /\ pc'[w] \notin Builders
  BY <1>2, Zenon DEF WorkerAt, Builders
<1> QED BY <1>1, <1>2, <1>3, WorkerFrame, Zenon DEF listenerVars

LEMMA QuietReturn ==
    ASSUME StructInv, EdgeType', NEW w \in Workers, NEW from, WorkerReturn(w, from),
           UNCHANGED <<listenerVars, res, owner, life>>
    PROVE  StructInv'
<1>1. LifeKept /\ life' \in [Flows -> Life]
  BY Zenon DEF LifeKept, StructInv, CoreType
<1> QED BY <1>1, ReturnStep, Zenon

\* The closed flag: an open mapping becomes marked.
LEMMA CloseBeginLife ==
    ASSUME StructInv, NEW f \in Flows, CloseBegin(f)
    PROVE  LifeKept /\ life' \in [Flows -> Life] /\ activity' \subseteq Flows
<1>1. life' \in [Flows -> Life] /\ activity' \subseteq Flows
  BY Zenon DEF StructInv, CoreType, EdgeType, Life, CloseBegin
<1>2. LifeKept
  BY Zenon DEF StructInv, CoreType, CloseBegin, LifeKept
<1> QED BY <1>1, <1>2, Zenon

LEMMA CloseBeginStep ==
    ASSUME StructInv, NEW f \in Flows, CloseBegin(f), EdgeType',
           UNCHANGED <<workerVars, listenerVars, res, owner>>
    PROVE  StructInv'
<1>1. CoreType'
  BY CloseBeginLife, Zenon DEF StructInv, CoreType, workerVars, listenerVars
<1> QED BY <1>1, CloseBeginLife, LifeStep, Zenon DEF workerVars, listenerVars

-----------------------------------------------------------------------------
\* The socket reader, Block's lookup, idleWatcher's token and Runtime.stop.

LEMMA EdgeActions ==
    ASSUME StructInv,
           \/ \E c \in Clients : Arrive(c)
           \/ ReaderExit
           \/ \E f \in Flows : WatchActivity(f) \/ BlockLookup(f)
           \/ Cancel \/ CloseAll \/ CloseAllReturn \/ CloseListener \/ Drained
    PROVE  StructInv'
<1>1. ASSUME NEW c \in Clients, Arrive(c) PROVE StructInv'
  <2>1. EdgeType'
    BY <1>1, UDPAssumption DEF StructInv, EdgeType, Arrive, loopVars, stopVars
  <2> QED BY <1>1, <2>1, EdgeStep, Zenon DEF Arrive, coreVars
<1>2. CASE ReaderExit
  <2>1. readerUp' \in BOOLEAN
    BY <1>2, Zenon DEF ReaderExit
  <2>2. EdgeType'
    BY <1>2, <2>1, Zenon DEF StructInv, EdgeType, ReaderExit, loopVars, stopVars
  <2> QED BY <1>2, <2>2, EdgeStep, Zenon DEF ReaderExit, coreVars
<1>3. ASSUME NEW f \in Flows, WatchActivity(f) PROVE StructInv'
  <2>1. EdgeType'
    BY <1>3, Zenon DEF StructInv, EdgeType, WatchActivity, inputVars, stopVars
  <2> QED BY <1>3, <2>1, EdgeStep, Zenon DEF WatchActivity, coreVars
<1>4. ASSUME NEW f \in Flows, BlockLookup(f) PROVE StructInv'
  <2>1. EdgeType'
    BY <1>4, Zenon DEF StructInv, EdgeType, BlockLookup, inputVars, loopVars, stopVars
  <2> QED BY <1>4, <2>1, EdgeStep, Zenon DEF BlockLookup, coreVars
<1>5. CASE Cancel \/ CloseAll \/ CloseAllReturn \/ CloseListener \/ Drained
  <2>1. /\ UNCHANGED <<inputVars, controls, callbacks, loopVars, coreVars>>
        /\ stop' \in StopStep /\ closers' \subseteq Flows /\ stopFlow' \in Flows \cup {None}
    BY <1>5, Zenon DEF StructInv, EdgeType, StopStep, coreVars,
                Cancel, CloseAll, CloseAllReturn, CloseListener, Drained
  <2>2. EdgeType'
    BY <2>1, Zenon DEF StructInv, EdgeType, inputVars, loopVars
  <2> QED BY <2>1, <2>2, EdgeStep, Zenon
<1> QED BY <1>1, <1>2, <1>3, <1>4, <1>5, Zenon

\* The callers of closeWithReason other than the workers.
LEMMA CloserActions ==
    ASSUME StructInv, NEW f \in Flows,
           \/ ReadReply(f) \/ ReadError(f) \/ WatchStop(f) \/ WatchIdle(f)
           \/ BlockApply(f) \/ CloseAllCall(f)
    PROVE  StructInv'
<1>1. CASE /\ CloseBegin(f)
           /\ UNCHANGED <<inputVars, workerVars, listenerVars, res, owner, controls, active, stop>>
           /\ callbacks' \subseteq Flows /\ closers' \subseteq Flows
           /\ stopFlow' \in Flows \cup {None}
  <2>1. EdgeType'
    BY <1>1, CloseBeginLife, Zenon DEF StructInv, EdgeType, inputVars
  <2> QED BY <1>1, <2>1, CloseBeginStep, Zenon
<1>2. CASE ReadReply(f) /\ UNCHANGED life
  <2>1. activity' \subseteq Flows
    BY <1>2, Zenon DEF StructInv, EdgeType, ReadReply, CloseBegin
  <2>2. EdgeType'
    BY <1>2, <2>1, Zenon DEF StructInv, EdgeType, ReadReply, inputVars, stopVars
  <2> QED BY <1>2, <2>2, EdgeStep, Zenon DEF ReadReply, coreVars
<1>3. CASE ReadReply(f) /\ CloseBegin(f)
  BY <1>1, <1>3, Zenon DEF StructInv, EdgeType, ReadReply, stopVars
<1>4. CASE ReadError(f) \/ WatchStop(f) \/ WatchIdle(f)
  BY <1>1, <1>4, Zenon DEF StructInv, EdgeType, ReadError, WatchStop, WatchIdle, stopVars
<1>5. CASE BlockApply(f)
  BY <1>1, <1>5, Zenon DEF StructInv, EdgeType, BlockApply, stopVars
<1>6. CASE CloseAllCall(f)
  BY <1>1, <1>6, Zenon DEF StructInv, EdgeType, CloseAllCall
<1>7. ReadReply(f) => CloseBegin(f) \/ UNCHANGED life
  BY Zenon DEF ReadReply
<1> QED BY <1>2, <1>3, <1>4, <1>5, <1>6, <1>7, Zenon

-----------------------------------------------------------------------------
\* handlePacket, apart from the steps that change a table.

LEMMA WorkerActions ==
    ASSUME StructInv, NEW w \in Workers,
           \/ TakePacket(w) \/ WorkerExit(w) \/ JoinMapping(w) \/ RejectPacket(w)
           \/ WaitReady(w) \/ BuildFail(w) \/ SetControls(w) \/ Activate(w)
           \/ Forward(w) \/ Touch(w) \/ ForwardError(w) \/ WorkerCloseDone(w)
    PROVE  StructInv'
<1>0. WorkerAt(pc[w], job[w], flow[w])
  BY Zenon DEF StructInv, WorkerInv
<1>1. CASE TakePacket(w)
  <2> DEFINE c == Head(queue)
  <2>1. c \in Clients /\ queue' \in Seq(Clients) /\ Len(queue') <= QueueSize
    BY <1>1, UDPAssumption DEF StructInv, EdgeType, TakePacket
  <2>2. EdgeType'
    BY <1>1, <2>1, Zenon DEF StructInv, EdgeType, TakePacket, loopVars, stopVars
  <2>3. CASE UNCHANGED workerVars
    BY <1>1, <2>2, <2>3, EdgeStep, Zenon DEF TakePacket, coreVars
  <2>4. CASE ~ UNCHANGED workerVars
    <3>1. PICK to \in {"forward", "miss"}, f \in Flows \cup {None} :
            /\ pc' = [pc EXCEPT ![w] = to]
            /\ job' = [job EXCEPT ![w] = c]
            /\ flow' = [flow EXCEPT ![w] = f]
            /\ to = "forward" => f \in Flows /\ owner[f] = c /\ res[f] = "ok"
      <4>1. flow = [flow EXCEPT ![w] = flow[w]] /\ flow[w] \in Flows \cup {None}
        BY Zenon DEF StructInv, CoreType
      <4>2. mappings[c] # None =>
              mappings[c] \in Flows /\ owner[mappings[c]] = c /\ res[mappings[c]] = "ok"
        BY <2>1 DEF StructInv, CoreType, TableInv
      <4> QED BY <1>1, <2>4, <4>1, <4>2, Zenon DEF TakePacket
    <3>2. UNCHANGED <<listenerVars, res, owner, life>>
      BY <1>1, Zenon DEF TakePacket
    <3>3. CoreType'
      BY <2>1, <3>1, <3>2, Zenon DEF StructInv, CoreType, PC, listenerVars
    <3>4. /\ pc'[w] = to /\ job'[w] = c /\ flow'[w] = f
          /\ \A v \in Workers \ {w} : pc'[v] = pc[v] /\ job'[v] = job[v] /\ flow'[v] = flow[v]
      BY <3>1, Zenon DEF StructInv, CoreType
    <3>5. WorkerAt(to, c, f) /\ to \notin Builders
      BY <2>1, <3>1, Zenon DEF WorkerAt, Builders
    <3> QED BY <2>2, <3>2, <3>3, <3>4, <3>5, WorkerFrame, Zenon DEF LifeKept, listenerVars
  <2> QED BY <2>3, <2>4, Zenon
<1>2. CASE WorkerExit(w)
  BY <1>2, EdgeFrame, AdvanceStep, Zenon DEF WorkerExit, edgeVars, PC, WorkerAt, Builders
<1>3. CASE JoinMapping(w)
  <2> DEFINE c == job[w]
  <2>1. EdgeType' /\ c \in Clients /\ UNCHANGED <<job, listenerVars, res, owner, life>>
    BY <1>0, <1>3, EdgeFrame, Zenon DEF JoinMapping, edgeVars, WorkerAt
  <2>2. PICK to \in {"forward", "wait"}, f \in Flows :
          /\ pc' = [pc EXCEPT ![w] = to]
          /\ flow' = [flow EXCEPT ![w] = f]
          /\ owner[f] = c /\ res[f] # "none"
          /\ to = "forward" => res[f] = "ok"
    <3>1. mappings[c] # None =>
            mappings[c] \in Flows /\ owner[mappings[c]] = c /\ res[mappings[c]] = "ok"
      BY <2>1 DEF StructInv, CoreType, TableInv
    <3>2. pending[c] # None =>
            pending[c] \in Flows /\ owner[pending[c]] = c /\ res[pending[c]] = "pending"
      BY <2>1 DEF StructInv, CoreType, TableInv
    <3> QED BY <1>3, <3>1, <3>2, Zenon DEF JoinMapping, WorkerStep
  <2>3. CoreType'
    BY <2>1, <2>2, Zenon DEF StructInv, CoreType, PC, listenerVars
  <2>4. /\ pc'[w] = to /\ job'[w] = c /\ flow'[w] = f
        /\ \A v \in Workers \ {w} : pc'[v] = pc[v] /\ job'[v] = job[v] /\ flow'[v] = flow[v]
    BY <2>1, <2>2, Zenon DEF StructInv, CoreType
  <2>5. WorkerAt(to, c, f) /\ to \notin Builders
    BY <2>1, <2>2, Zenon DEF WorkerAt, Builders
  <2> QED BY <2>1, <2>3, <2>4, <2>5, WorkerFrame, Zenon DEF LifeKept, listenerVars
<1>4. CASE RejectPacket(w) \/ WorkerCloseDone(w)
  BY <1>4, EdgeFrame, QuietReturn, Zenon DEF RejectPacket, WorkerCloseDone, edgeVars
<1>5. CASE WaitReady(w)
  <2>1. EdgeType' /\ pc[w] = "wait" /\ UNCHANGED <<listenerVars, res, owner, life>>
    BY <1>5, EdgeFrame, Zenon DEF WaitReady, edgeVars
  <2>2. CASE res[flow[w]] = "ok" /\ WorkerStep(w, "wait", "forward") /\ UNCHANGED <<job, flow>>
    BY <1>0, <2>1, <2>2, AdvanceStep, Zenon DEF PC, WorkerAt, Builders
  <2>3. CASE WorkerReturn(w, "wait")
    BY <2>1, <2>3, QuietReturn, Zenon
  <2> QED BY <1>5, <2>2, <2>3, Zenon DEF WaitReady
<1>6. CASE BuildFail(w)
  BY <1>0, <1>6, EdgeFrame, AdvanceStep, ZenonT(60) DEF BuildFail, edgeVars, PC, WorkerStep, WorkerAt, Builders
<1>7. CASE SetControls(w)
  <2>1. pc[w] = "controls" /\ flow[w] \in Flows
    BY <1>0, <1>7, Zenon DEF SetControls, WorkerStep, WorkerAt
  <2>2. EdgeType'
    BY <1>7, <2>1, Zenon DEF StructInv, EdgeType, SetControls, inputVars, loopVars, stopVars
  <2> QED BY <1>0, <1>7, <2>1, <2>2, AdvanceStep, Zenon DEF SetControls, PC, WorkerAt, Builders
<1>8. CASE Activate(w)
  <2>1. pc[w] = "activate" /\ flow[w] \in Flows
    BY <1>0, <1>8, Zenon DEF Activate, WorkerStep, WorkerAt
  <2>2. EdgeType'
    BY <1>8, <2>1, Zenon DEF StructInv, EdgeType, Activate, inputVars, stopVars
  <2> QED BY <1>0, <1>8, <2>1, <2>2, AdvanceStep, Zenon DEF Activate, PC, WorkerAt, Builders
<1>9. CASE Forward(w)
  <2>1. EdgeType' /\ pc[w] = "forward" /\ UNCHANGED <<listenerVars, res, owner, life>>
    BY <1>9, EdgeFrame, Zenon DEF Forward, edgeVars
  <2>2. CASE WorkerStep(w, "forward", "touch") /\ UNCHANGED <<job, flow>>
    BY <1>0, <2>1, <2>2, AdvanceStep, Zenon DEF PC, WorkerAt, Builders
  <2>3. CASE WorkerReturn(w, "forward")
    BY <2>1, <2>3, QuietReturn, Zenon
  <2> QED BY <1>9, <2>2, <2>3, Zenon DEF Forward
<1>10. CASE Touch(w)
  <2>1. flow[w] \in Flows
    BY <1>0, <1>10, Zenon DEF Touch, WorkerReturn, WorkerStep, WorkerAt
  <2>2. EdgeType'
    BY <1>10, <2>1, Zenon DEF StructInv, EdgeType, Touch, inputVars, stopVars
  <2> QED BY <1>10, <2>2, QuietReturn, Zenon DEF Touch
<1>11. CASE ForwardError(w)
  <2>1. /\ pc[w] = "forward" /\ flow[w] \in Flows /\ owner[flow[w]] = job[w]
        /\ job[w] \in Clients /\ res[flow[w]] = "ok" /\ CloseBegin(flow[w])
    BY <1>0, <1>11, Zenon DEF ForwardError, WorkerAt
  <2>2. LifeKept /\ life' \in [Flows -> Life] /\ activity' \subseteq Flows
    BY <2>1, CloseBeginLife, Zenon
  <2>3. EdgeType' /\ UNCHANGED <<listenerVars, res, owner>>
    BY <1>11, <2>2, Zenon DEF StructInv, EdgeType, ForwardError, inputVars, stopVars
  <2>4. CASE WorkerStep(w, "forward", "closing") /\ UNCHANGED <<job, flow>>
    <3>1. CoreType'
      BY <2>2, <2>3, <2>4, Zenon DEF StructInv, CoreType, PC, WorkerStep, listenerVars
    <3>2. pc'[w] = "closing" /\ \A v \in Workers \ {w} : pc'[v] = pc[v]
      BY <2>4, Zenon DEF StructInv, CoreType, WorkerStep
    <3>3. WorkerAt("closing", job[w], flow[w]) /\ "closing" \notin Builders
      BY <2>1, Zenon DEF WorkerAt, Builders
    <3> QED BY <2>2, <2>3, <2>4, <3>1, <3>2, <3>3, WorkerFrame, Zenon DEF listenerVars
  <2>5. CASE WorkerReturn(w, "forward")
    BY <2>2, <2>3, <2>5, ReturnStep, Zenon
  <2> QED BY <1>11, <2>4, <2>5, Zenon DEF ForwardError
<1> QED BY <1>1, <1>2, <1>3, <1>4, <1>5, <1>6, <1>7, <1>8, <1>9, <1>10, <1>11, Zenon


LEMMA DropIPType ==
    ASSUME NEW counts \in [IPs -> 0..MaxPerIP], NEW ip \in IPs
    PROVE  DropIP(counts, ip) \in [IPs -> 0..MaxPerIP]
BY UDPAssumption DEF DropIP

LEMMA ReserveStruct ==
    ASSUME StructInv, NEW w \in Workers, NEW f \in Flows, Reserve(w, f)
    PROVE  StructInv'
<1> DEFINE c == job[w]
<1>1. /\ c \in Clients /\ c # None /\ f # None /\ pc[w] = "miss"
      /\ mappings[c] = None /\ pending[c] = None
      /\ res[f] = "none" /\ owner[f] = None /\ life[f] = "none"
  BY UDPAssumption DEF StructInv, FlowInv, WorkerInv, WorkerAt, Reserve, ReserveEffect, WorkerStep
<1>2. /\ pc' = [pc EXCEPT ![w] = "build"]
      /\ flow' = [flow EXCEPT ![w] = f]
      /\ pending' = [pending EXCEPT ![c] = f]
      /\ res' = [res EXCEPT ![f] = "pending"]
      /\ owner' = [owner EXCEPT ![f] = c]
      /\ UNCHANGED <<job, mappings, life>>
  BY Zenon DEF Reserve, ReserveEffect, WorkerStep
<1>3. sem' \in 0..MaxMappings /\ ipCounts' \in [IPs -> 0..MaxPerIP]
  <2>1. ClientIP[c] \in IPs
    BY <1>1, UDPAssumption, Zenon
  <2> QED BY <2>1, UDPAssumption DEF StructInv, CoreType, Reserve, ReserveEffect
<1>4. CoreType'
  BY <1>1, <1>2, <1>3, Zenon DEF StructInv, CoreType, PC
<1>5. EdgeType'
  BY EdgeFrame, Zenon DEF Reserve, ReserveEffect, edgeVars
<1>6. TableInv'
  BY <1>1, <1>2 DEF StructInv, CoreType, TableInv
<1>7. FlowInv'
  <2> SUFFICES ASSUME NEW g \in Flows PROVE FlowInv!(g)'
    BY Zenon DEF FlowInv
  <2>1. CASE g = f
    BY <1>1, <1>2, <2>1, Zenon DEF StructInv, CoreType
  <2>2. CASE g # f
    <3>1. res'[g] = res[g] /\ owner'[g] = owner[g] /\ life'[g] = life[g]
      BY <1>2, <2>2, Zenon DEF StructInv, CoreType
    <3>2. FlowInv!(g) /\ g # None
      BY UDPAssumption, Zenon DEF StructInv, FlowInv
    <3>3. res[g] = "pending" => pending'[owner[g]] = g
      BY <1>1, <1>2, <2>2, <3>2, Zenon DEF StructInv, CoreType
    <3> QED BY <1>2, <3>1, <3>2, <3>3, Zenon
  <2> QED BY <2>1, <2>2, Zenon
<1>8. WorkerInv'
  <2>1. /\ pc'[w] = "build" /\ flow'[w] = f
        /\ \A v \in Workers \ {w} : pc'[v] = pc[v] /\ flow'[v] = flow[v]
    BY <1>2, Zenon DEF StructInv, CoreType
  <2>2. /\ \A g \in Flows \ {f} : res'[g] = res[g] /\ owner'[g] = owner[g]
        /\ res'[f] = "pending" /\ owner'[f] = c
    BY <1>2, Zenon DEF StructInv, CoreType
  <2>3. ASSUME NEW v \in Workers
        PROVE  /\ WorkerAt(pc[v], job[v], flow[v])
               /\ flow[v] = f => pc[v] \in {"idle", "miss", "exited"}
    <3>1. WorkerAt(pc[v], job[v], flow[v]) /\ pc[v] \in PC
      BY Zenon DEF StructInv, CoreType, WorkerInv
    <3> QED BY <1>1, <3>1, Zenon DEF WorkerAt, Builders, PC
  <2>4. ASSUME NEW v \in Workers PROVE WorkerAt(pc[v], job[v], flow[v])'
    <3>1. CASE v = w
      BY <1>1, <1>2, <2>1, <2>2, <3>1, ZenonT(60) DEF WorkerAt, Builders
    <3>2. CASE v # w
      BY <1>2, <2>1, <2>2, <2>3, <3>2 DEF WorkerAt, Builders
    <3> QED BY <3>1, <3>2, Zenon
  <2> QED BY <2>1, <2>3, <2>4, ZenonT(60) DEF StructInv, WorkerInv, Builders
<1> QED BY <1>4, <1>5, <1>6, <1>7, <1>8, Zenon DEF StructInv

LEMMA BuildOpenStruct ==
    ASSUME StructInv, NEW w \in Workers, BuildOpen(w)
    PROVE  StructInv'
<1>1. /\ flow[w] \in Flows /\ pc[w] = "build"
      /\ res[flow[w]] = "pending" /\ life[flow[w]] = "none"
  BY Zenon DEF StructInv, WorkerInv, WorkerAt, Builders, BuildOpen, WorkerStep
<1>2. /\ pc' = [pc EXCEPT ![w] = "controls"]
      /\ life' = [life EXCEPT ![flow[w]] = "open"]
      /\ UNCHANGED <<job, flow, mappings, pending, sem, ipCounts, res, owner>>
  BY Zenon DEF BuildOpen, WorkerStep, listenerVars
<1>3. CoreType'
  BY <1>1, <1>2, Zenon DEF StructInv, CoreType, PC, Life
<1>4. EdgeType'
  BY EdgeFrame, Zenon DEF BuildOpen, edgeVars
<1>5. TableInv'
  BY <1>2, Zenon DEF StructInv, TableInv
<1>6. FlowInv'
  BY <1>1, <1>2, Zenon DEF StructInv, CoreType, FlowInv
<1>7. WorkerInv'
  BY <1>1, <1>2 DEF StructInv, CoreType, WorkerInv, WorkerAt, Builders
<1> QED BY <1>3, <1>4, <1>5, <1>6, <1>7, Zenon DEF StructInv

LEMMA FinishErrStruct ==
    ASSUME StructInv, NEW w \in Workers, FinishErr(w)
    PROVE  StructInv'
<1> DEFINE f == flow[w]
           c == job[w]
<1>0. WorkerAt(pc[w], c, f) /\ pc[w] = "fail"
  BY Zenon DEF StructInv, WorkerInv, FinishErr, FinishErrEffect, WorkerReturn, WorkerStep
<1>1. /\ f \in Flows /\ c \in Clients /\ owner[f] = c
      /\ res[f] = "pending" /\ life[f] = "none" /\ pending[c] = f
  BY <1>0, Zenon DEF StructInv, FlowInv, WorkerAt, Builders
<1>2. /\ pc' = [pc EXCEPT ![w] = "idle"]
      /\ job' = [job EXCEPT ![w] = None]
      /\ flow' = [flow EXCEPT ![w] = None]
      /\ pending' = [pending EXCEPT ![c] = None]
      /\ res' = [res EXCEPT ![f] = "err"]
      /\ UNCHANGED <<mappings, owner, life>>
  BY Zenon DEF FinishErr, FinishErrEffect, WorkerReturn, WorkerStep
<1>3. sem' \in 0..MaxMappings
  BY UDPAssumption DEF StructInv, CoreType, FinishErr, FinishErrEffect
<1>4. ipCounts' \in [IPs -> 0..MaxPerIP]
  <2>1. ipCounts' = DropIP(ipCounts, ClientIP[c]) /\ ClientIP[c] \in IPs
    BY <1>1, UDPAssumption, Zenon DEF FinishErr, FinishErrEffect
  <2> QED BY <2>1, DropIPType, Zenon DEF StructInv, CoreType
<1>5. CoreType'
  BY <1>1, <1>2, <1>3, <1>4, Zenon DEF StructInv, CoreType, PC
<1>6. EdgeType'
  BY EdgeFrame, Zenon DEF FinishErr, FinishErrEffect, edgeVars
<1>7. TableInv'
  BY <1>1, <1>2 DEF StructInv, CoreType, TableInv
<1>8. FlowInv'
  <2> SUFFICES ASSUME NEW g \in Flows PROVE FlowInv!(g)'
    BY Zenon DEF FlowInv
  <2>1. CASE g = f
    BY <1>1, <1>2, <2>1, Zenon DEF StructInv, CoreType, FlowInv
  <2>2. CASE g # f
    <3>1. res'[g] = res[g] /\ owner'[g] = owner[g] /\ life'[g] = life[g]
      BY <1>2, <2>2, Zenon DEF StructInv, CoreType
    <3>2. FlowInv!(g)
      BY Zenon DEF StructInv, FlowInv
    <3>3. res[g] = "pending" => pending'[owner[g]] = g
      BY <1>1, <1>2, <2>2, <3>2, Zenon DEF StructInv, CoreType
    <3> QED BY <1>2, <3>1, <3>2, <3>3, Zenon
  <2> QED BY <2>1, <2>2, Zenon
<1>9. WorkerInv'
  <2>1. /\ pc'[w] = "idle"
        /\ \A v \in Workers \ {w} : pc'[v] = pc[v] /\ job'[v] = job[v] /\ flow'[v] = flow[v]
    BY <1>2, Zenon DEF StructInv, CoreType
  <2>2. \A v \in Workers \ {w} : pc[v] \in Builders => flow[v] # f
    BY <1>0, Zenon DEF StructInv, WorkerInv, Builders
  <2>3. \A g \in Flows : res'[g] = IF g = f THEN "err" ELSE res[g]
    BY <1>2, Zenon DEF StructInv, CoreType
  <2>4. ASSUME NEW v \in Workers PROVE WorkerAt(pc[v], job[v], flow[v])'
    <3>1. CASE v = w
      BY <2>1, <3>1, Zenon DEF WorkerAt, Builders
    <3>2. CASE v # w
      <4>1. WorkerAt(pc[v], job[v], flow[v])
        BY Zenon DEF StructInv, WorkerInv
      <4> QED BY <1>1, <1>2, <2>1, <2>2, <2>3, <3>2, <4>1 DEF WorkerAt, Builders
    <3> QED BY <3>1, <3>2, Zenon
  <2> QED BY <2>1, <2>4, ZenonT(60) DEF StructInv, WorkerInv, Builders
<1> QED BY <1>5, <1>6, <1>7, <1>8, <1>9, Zenon DEF StructInv

LEMMA FinishOkStruct ==
    ASSUME StructInv, NEW w \in Workers, FinishOk(w)
    PROVE  StructInv'
<1> DEFINE f == flow[w]
           c == job[w]
<1>0. WorkerAt(pc[w], c, f) /\ pc[w] = "finish"
  BY Zenon DEF StructInv, WorkerInv, FinishOk, WorkerStep
<1>1. /\ f \in Flows /\ c \in Clients /\ owner[f] = c /\ f # None
      /\ res[f] = "pending" /\ life[f] # "none" /\ pending[c] = f
  BY <1>0, UDPAssumption, Zenon DEF StructInv, FlowInv, WorkerAt, Builders
<1>2. /\ pc' = [pc EXCEPT ![w] = "activate"]
      /\ pending' = [pending EXCEPT ![c] = None]
      /\ mappings' = [mappings EXCEPT ![c] = f]
      /\ res' = [res EXCEPT ![f] = "ok"]
      /\ UNCHANGED <<job, flow, sem, ipCounts, owner, life>>
  BY Zenon DEF FinishOk, WorkerStep
<1>3. mappings[c] = None
  BY <1>1, Zenon DEF StructInv, TableInv
<1>4. CoreType'
  BY <1>1, <1>2, Zenon DEF StructInv, CoreType, PC
<1>5. EdgeType'
  BY EdgeFrame, Zenon DEF FinishOk, edgeVars
<1>6. TableInv'
  BY <1>1, <1>2, <1>3 DEF StructInv, CoreType, TableInv
<1>7. FlowInv'
  <2> SUFFICES ASSUME NEW g \in Flows PROVE FlowInv!(g)'
    BY Zenon DEF FlowInv
  <2>1. CASE g = f
    BY <1>1, <1>2, <2>1, Zenon DEF StructInv, CoreType, FlowInv
  <2>2. CASE g # f
    <3>1. g # None
      BY UDPAssumption, Zenon
    <3> QED BY <1>1, <1>2, <1>3, <2>2, <3>1, Zenon DEF StructInv, CoreType, FlowInv
  <2> QED BY <2>1, <2>2, Zenon
<1>8. WorkerInv'
  BY <1>0, <1>1, <1>2, ZenonT(60) DEF StructInv, CoreType, WorkerInv, WorkerAt, Builders
<1> QED BY <1>4, <1>5, <1>6, <1>7, <1>8, Zenon DEF StructInv

\* removeMapping deletes by key; the flow it closes is the only one there.
LEMMA RemoveStruct ==
    ASSUME StructInv, NEW f \in Flows, RemoveMapping(f)
    PROVE  StructInv'
<1> DEFINE c == owner[f]
<1>1. life[f] = "marked" /\ c \in Clients /\ res[f] \in {"pending", "ok"} /\ f # None
  BY UDPAssumption, Zenon DEF StructInv, CoreType, FlowInv, RemoveMapping, RemoveEffect
<1>2. /\ life' = [life EXCEPT ![f] = "removed"]
      /\ mappings' = [mappings EXCEPT ![c] = None]
      /\ UNCHANGED <<pc, job, flow, pending, sem, res, owner>>
  BY Zenon DEF RemoveMapping, RemoveEffect, workerVars
<1>3. mappings[c] \in {f, None}
  <2>1. mappings[c] = f \/ pending[c] = f
    BY <1>1, Zenon DEF StructInv, FlowInv
  <2> QED BY <1>1, <2>1, Zenon DEF StructInv, TableInv
<1>4. ipCounts' \in [IPs -> 0..MaxPerIP]
  <2>1. ipCounts' = DropIP(ipCounts, MappingIP[c]) /\ MappingIP[c] \in IPs
    BY <1>1, UDPAssumption, Zenon DEF RemoveMapping, RemoveEffect
  <2> QED BY <2>1, DropIPType, Zenon DEF StructInv, CoreType
<1>5. CoreType'
  BY <1>1, <1>2, <1>4, Zenon DEF StructInv, CoreType, Life
<1>6. EdgeType'
  BY EdgeFrame, Zenon DEF RemoveMapping, RemoveEffect, edgeVars
<1>7. TableInv'
  BY <1>1, <1>2, ZenonT(60) DEF StructInv, CoreType, TableInv
<1>8. FlowInv'
  <2> SUFFICES ASSUME NEW g \in Flows PROVE FlowInv!(g)'
    BY Zenon DEF FlowInv
  <2>1. CASE g = f
    BY <1>1, <1>2, <2>1, Zenon DEF StructInv, CoreType, FlowInv
  <2>2. CASE g # f
    <3>1. g # None
      BY UDPAssumption, Zenon
    <3> QED BY <1>1, <1>2, <1>3, <2>2, <3>1, Zenon DEF StructInv, CoreType, FlowInv
  <2> QED BY <2>1, <2>2, Zenon
<1>9. \A g \in Flows : (life'[g] = "none") <=> (life[g] = "none")
  BY <1>1, <1>2, Zenon DEF StructInv, CoreType
<1>10. WorkerInv'
  BY <1>2, <1>9, ZenonT(60) DEF StructInv, WorkerInv, WorkerAt, Builders
<1> QED BY <1>5, <1>6, <1>7, <1>8, <1>10, Zenon DEF StructInv

\* The last two steps of closeWithReason.
LEMMA ClosingStruct ==
    ASSUME StructInv, NEW f \in Flows, Finalize(f) \/ ReleaseToken(f)
    PROVE  StructInv'
<1>1. /\ life[f] \notin {"none", "open", "marked"}
      /\ \/ life' = [life EXCEPT ![f] = "finalized"]
         \/ life' = [life EXCEPT ![f] = "released"]
      /\ UNCHANGED <<pc, job, flow, mappings, pending, ipCounts, res, owner>>
  BY Zenon DEF Finalize, ReleaseToken, workerVars, listenerVars
<1>2. LifeKept
  BY <1>1, Zenon DEF StructInv, CoreType, LifeKept
<1>3. sem' \in 0..MaxMappings
  BY UDPAssumption DEF StructInv, CoreType, Finalize, ReleaseToken, listenerVars
<1>4. CoreType'
  BY <1>1, <1>3, Zenon DEF StructInv, CoreType, Life
<1>5. EdgeType'
  BY Zenon DEF StructInv, EdgeType, Finalize, ReleaseToken, inputVars, loopVars, stopVars
<1> QED BY <1>1, <1>2, <1>4, <1>5, LifeStep, Zenon

-----------------------------------------------------------------------------
LEMMA StructNext == StructInv /\ [Next]_vars => StructInv'
<1> SUFFICES ASSUME StructInv, [Next]_vars PROVE StructInv'
  OBVIOUS
<1>1. ASSUME NEW w \in Workers, WorkerNext(w) PROVE StructInv'
  BY <1>1, WorkerActions, ReserveStruct, BuildOpenStruct, FinishErrStruct, FinishOkStruct, Zenon
     DEF WorkerNext
<1>2. ASSUME NEW f \in Flows, ClosingNext(f) PROVE StructInv'
  BY <1>2, RemoveStruct, ClosingStruct, Zenon DEF ClosingNext
<1>3. ASSUME NEW f \in Flows, MappingNext(f) \/ BlockLookup(f) \/ BlockApply(f)
      PROVE  StructInv'
  BY <1>3, EdgeActions, CloserActions, Zenon DEF MappingNext
<1>4. CASE (\E c \in Clients : Arrive(c)) \/ ReaderExit \/ Cancel
  BY <1>4, EdgeActions, Zenon
<1>5. CASE StopNext
  BY <1>5, EdgeActions, CloserActions, Zenon DEF StopNext
<1>6. CASE UNCHANGED vars
  <2>1. UNCHANGED coreVars /\ UNCHANGED edgeVars
    BY <1>6, Zenon DEF vars, coreVars, edgeVars
  <2> QED BY <2>1, EdgeFrame, EdgeStep, Zenon
<1> QED BY <1>1, <1>2, <1>3, <1>4, <1>5, <1>6, Zenon DEF Next

(* StructInv holds in every reachable state: the tables of the listener,   *)
(* the reservations, the mappings and the workers stay consistent.         *)
THEOREM Structure == Spec => []StructInv
BY StructInit, StructNext, PTL DEF Spec

-----------------------------------------------------------------------------
\* Steps that move no token and no session.

Holder(f) == res[f] \in {"pending", "ok"} /\ life[f] # "released"

Quiet ==
    /\ UNCHANGED <<sem, ipCounts, owner>>
    /\ \A f \in Flows : Holder(f)' = Holder(f) /\ Counted(f)' = Counted(f)

LEMMA CloseBeginQuiet ==
    ASSUME StructInv, NEW f \in Flows, CloseBegin(f), UNCHANGED <<sem, ipCounts, owner, res>>
    PROVE  Quiet
BY Zenon DEF StructInv, CoreType, CloseBegin, Quiet, Holder, Counted

\* Four steps account for everything; the others are quiet.
LEMMA StepKinds ==
    ASSUME StructInv, [Next]_vars
    PROVE  \/ Quiet
           \/ \E w \in Workers, f \in Flows : Reserve(w, f)
           \/ \E w \in Workers : FinishErr(w)
           \/ \E f \in Flows : RemoveMapping(f) \/ ReleaseToken(f)
<1> USE DEF inputVars, workerVars, listenerVars, loopVars, stopVars
<1>1. ASSUME UNCHANGED <<sem, ipCounts, owner, res, life>> PROVE Quiet
  BY <1>1, Zenon DEF Quiet, Holder, Counted
<1>2. ASSUME NEW w \in Workers, BuildOpen(w) PROVE Quiet
  <2>1. flow[w] \in Flows /\ life[flow[w]] = "none"
    BY <1>2, Zenon DEF StructInv, WorkerInv, WorkerAt, BuildOpen, WorkerStep
  <2> QED BY <1>2, <2>1, Zenon DEF StructInv, CoreType, BuildOpen, Quiet, Holder, Counted
<1>3. ASSUME NEW w \in Workers, FinishOk(w) PROVE Quiet
  <2>1. flow[w] \in Flows /\ res[flow[w]] = "pending"
    BY <1>3, Zenon DEF StructInv, WorkerInv, WorkerAt, Builders, FinishOk, WorkerStep
  <2> QED BY <1>3, <2>1, Zenon DEF StructInv, CoreType, FinishOk, Quiet, Holder, Counted
<1>4. ASSUME NEW w \in Workers, ForwardError(w) PROVE Quiet
  <2>1. flow[w] \in Flows
    BY <1>4, Zenon DEF StructInv, WorkerInv, WorkerAt, ForwardError
  <2> QED BY <1>4, <2>1, CloseBeginQuiet, Zenon DEF ForwardError
<1>5. ASSUME NEW f \in Flows, Finalize(f) PROVE Quiet
  BY <1>5, Zenon DEF StructInv, CoreType, Finalize, Quiet, Holder, Counted
<1>6. ASSUME NEW f \in Flows, MappingNext(f) PROVE Quiet
  <2>1. UNCHANGED <<sem, ipCounts, owner, res>> /\ (CloseBegin(f) \/ UNCHANGED life)
    BY <1>6, Zenon DEF MappingNext, ReadReply, ReadError, WatchStop, WatchActivity, WatchIdle
  <2> QED BY <1>1, <2>1, CloseBeginQuiet, Zenon
<1>7. ASSUME NEW f \in Flows, BlockApply(f) \/ CloseAllCall(f) PROVE Quiet
  BY <1>7, CloseBeginQuiet, Zenon DEF BlockApply, CloseAllCall
<1>8. ASSUME NEW w \in Workers, WorkerNext(w)
      PROVE  Quiet \/ FinishErr(w) \/ \E f \in Flows : Reserve(w, f)
  <2>1. CASE \/ TakePacket(w) \/ WorkerExit(w) \/ JoinMapping(w) \/ RejectPacket(w)
             \/ WaitReady(w) \/ BuildFail(w) \/ SetControls(w) \/ Activate(w)
             \/ Forward(w) \/ Touch(w) \/ WorkerCloseDone(w)
    BY <1>1, <2>1, Zenon DEF TakePacket, WorkerExit, JoinMapping, RejectPacket, WaitReady, BuildFail,
                      SetControls, Activate, Forward, Touch, WorkerCloseDone
  <2> QED BY <1>2, <1>3, <1>4, <1>8, <2>1, Zenon DEF WorkerNext
<1>9. CASE \/ \E c \in Clients : Arrive(c)
           \/ ReaderExit \/ \E f \in Flows : BlockLookup(f)
           \/ Cancel \/ CloseAll \/ CloseAllReturn \/ CloseListener \/ Drained
           \/ UNCHANGED vars
  BY <1>1, <1>9, Zenon DEF Arrive, ReaderExit, BlockLookup, Cancel, CloseAll, CloseAllReturn,
                    CloseListener, Drained, vars
<1> QED
  BY <1>5, <1>6, <1>7, <1>8, <1>9, Zenon DEF Next, ClosingNext, StopNext

-----------------------------------------------------------------------------
\* The semaphore.

LEMMA SemInit == Init => SemAccounting
<1> SUFFICES ASSUME Init PROVE SemAccounting
  OBVIOUS
<1>1. TokenHolders = {}
  BY Zenon DEF Init, TokenHolders
<1> QED BY <1>1, FS_EmptySet, UDPAssumption DEF Init, SemAccounting

LEMMA SemNext ==
    ASSUME StructInv, StructInv', SemAccounting, [Next]_vars
    PROVE  SemAccounting'
<1>1. IsFiniteSet(TokenHolders) /\ Cardinality(TokenHolders) \in Nat
  BY UDPAssumption, FS_Subset, FS_CardinalityType, Zenon DEF TokenHolders
<1>2. sem' <= MaxMappings
  BY UDPAssumption DEF StructInv, CoreType
<1>3. SUFFICES sem' = Cardinality(TokenHolders')
  BY <1>2, <1>3, Zenon DEF SemAccounting
<1>4. CASE Quiet
  BY <1>4, Zenon DEF Quiet, Holder, TokenHolders, SemAccounting
<1>5. ASSUME NEW w \in Workers, NEW f \in Flows, Reserve(w, f)
      PROVE  sem' = Cardinality(TokenHolders')
  <2>1. f \notin TokenHolders /\ life[f] = "none"
    BY <1>5, Zenon DEF StructInv, FlowInv, Reserve, ReserveEffect, TokenHolders
  <2>2. TokenHolders' = TokenHolders \cup {f}
    BY <1>5, <2>1, ZenonT(60) DEF StructInv, CoreType, Reserve, ReserveEffect, TokenHolders
  <2> QED BY <1>1, <1>5, <2>1, <2>2, FS_AddElement, Zenon DEF SemAccounting, Reserve, ReserveEffect
<1>6. ASSUME NEW w \in Workers, FinishErr(w)
      PROVE  sem' = Cardinality(TokenHolders')
  <2> DEFINE f == flow[w]
  <2>1. f \in Flows /\ f \in TokenHolders
    BY <1>6, ZenonT(60) DEF StructInv, WorkerInv, WorkerAt, Builders, FinishErr, FinishErrEffect, WorkerReturn,
                WorkerStep, TokenHolders
  <2>2. TokenHolders' = TokenHolders \ {f}
    BY <1>6, <2>1, Zenon DEF StructInv, CoreType, FinishErr, FinishErrEffect, TokenHolders
  <2>3. Cardinality(TokenHolders') = Cardinality(TokenHolders) - 1
    BY <1>1, <2>1, <2>2, FS_RemoveElement, Zenon
  <2>4. TokenHolders # {} /\ Cardinality(TokenHolders) # 0
    BY <1>1, <2>1, FS_EmptySet, Zenon
  <2> QED BY <1>1, <1>6, <2>3, <2>4 DEF SemAccounting, FinishErr, FinishErrEffect
<1>7. ASSUME NEW f \in Flows, RemoveMapping(f)
      PROVE  sem' = Cardinality(TokenHolders')
  <2>1. TokenHolders' = TokenHolders
    BY <1>7, Zenon DEF StructInv, CoreType, RemoveMapping, RemoveEffect, TokenHolders
  <2> QED BY <1>7, <2>1, Zenon DEF SemAccounting, RemoveMapping, RemoveEffect
<1>8. ASSUME NEW f \in Flows, ReleaseToken(f)
      PROVE  sem' = Cardinality(TokenHolders')
  <2>1. f \in TokenHolders
    BY <1>8, Zenon DEF StructInv, CoreType, FlowInv, ReleaseToken, TokenHolders
  <2>2. TokenHolders' = TokenHolders \ {f}
    BY <1>8, Zenon DEF StructInv, CoreType, ReleaseToken, TokenHolders
  <2> QED BY <1>1, <1>8, <2>1, <2>2, FS_RemoveElement, Zenon DEF SemAccounting, ReleaseToken
<1> QED BY <1>4, <1>5, <1>6, <1>7, <1>8, StepKinds, Zenon

-----------------------------------------------------------------------------
(* The variables of the listener, its goroutines and Runtime.stop keep     *)
(* their types; in particular sem and ipCounts stay within their limits.   *)
THEOREM TypeCorrect == Spec => []TypeOK
BY StructType, Structure, PTL

(* The semaphore counts exactly the unfinished reservations and mappings,  *)
(* whatever the number of workers, clients and flows.                      *)
THEOREM SemaphoreIsExact == Spec => []SemAccounting
<1>1. StructInv /\ StructInv' /\ SemAccounting /\ [Next]_vars => SemAccounting'
  BY SemNext, Zenon
<1> QED BY <1>1, SemInit, Structure, PTL DEF Spec

(* At most one reservation or open mapping per client address.             *)
THEOREM OneFlow == Spec => []OneFlowPerClient
<1>1. StructInv => OneFlowPerClient
  <2> SUFFICES ASSUME StructInv, NEW f \in Flows, NEW g \in Flows, f # g,
                      Counted(f), Counted(g), owner[f] = owner[g]
               PROVE  FALSE
    BY Zenon DEF OneFlowPerClient
  <2> DEFINE c == owner[f]
  <2>1. c \in Clients /\ f # None /\ g # None
    BY UDPAssumption, Zenon DEF StructInv, FlowInv, Counted
  <2>2. (pending[c] = f \/ mappings[c] = f) /\ (pending[c] = g \/ mappings[c] = g)
    BY Zenon DEF StructInv, FlowInv, Counted
  <2> QED BY <2>1, <2>2 DEF StructInv, TableInv
<1> QED BY <1>1, Structure, PTL

(* Packets only use a mapping of their own client.                         *)
THEOREM Pinned == Spec => []PacketPinned
<1>1. StructInv => PacketPinned
  BY UDPAssumption, ZenonT(60) DEF StructInv, WorkerInv, WorkerAt, PacketPinned
<1> QED BY <1>1, Structure, PTL

(* removeMapping, which deletes by key, deletes only the mapping it closes. *)
THEOREM RemovesOwn == Spec => RemovesOwnMapping
<1>1. StructInv /\ [Next]_vars =>
        [\A f \in Flows : RemoveMapping(f) => mappings[owner[f]] \in {f, None}]_vars
  <2> SUFFICES ASSUME StructInv, NEW f \in Flows, RemoveMapping(f)
               PROVE  mappings[owner[f]] \in {f, None}
    OBVIOUS
  <2>1. life[f] = "marked" /\ owner[f] \in Clients /\ f # None
    BY UDPAssumption, Zenon DEF StructInv, FlowInv, RemoveMapping, RemoveEffect
  <2>2. mappings[owner[f]] = f \/ pending[owner[f]] = f
    BY <2>1, Zenon DEF StructInv, CoreType, FlowInv
  <2> QED BY <2>1, <2>2, Zenon DEF StructInv, TableInv
<1> QED BY <1>1, Structure, PTL DEF Spec, RemovesOwnMapping

-----------------------------------------------------------------------------
\* The count per IP address.

LEMMA IPInit == Init => IPAccounting
<1> SUFFICES ASSUME Init, NEW ip \in IPs PROVE ipCounts[ip] = Cardinality(CountedOf(ip))
  BY Zenon DEF IPAccounting
<1>1. CountedOf(ip) = {}
  BY Zenon DEF Init, CountedOf, Counted
<1> QED BY <1>1, FS_EmptySet, Zenon DEF Init

LEMMA CountedOfFinite ==
    ASSUME NEW ip PROVE IsFiniteSet(CountedOf(ip)) /\ Cardinality(CountedOf(ip)) \in Nat
BY UDPAssumption, FS_Subset, FS_CardinalityType, Zenon DEF CountedOf

\* One counted flow less, and DropIP at the address of its client.
LEMMA DropStep ==
    ASSUME StructInv, IPAccounting, NEW f \in Flows, Counted(f), owner[f] \in Clients,
           UNCHANGED owner, ~Counted(f)',
           \A g \in Flows \ {f} : Counted(g)' = Counted(g),
           ipCounts' = DropIP(ipCounts, ClientIP[owner[f]])
    PROVE  IPAccounting'
<1> SUFFICES ASSUME NEW ip \in IPs PROVE ipCounts'[ip] = Cardinality(CountedOf(ip)')
  BY Zenon DEF IPAccounting
<1>1. ipCounts[ip] = Cardinality(CountedOf(ip)) /\ ipCounts[ip] \in Nat
  BY UDPAssumption DEF IPAccounting, StructInv, CoreType
<1>2. CASE ip = ClientIP[owner[f]]
  <2>1. f \in CountedOf(ip) /\ CountedOf(ip)' = CountedOf(ip) \ {f}
    BY <1>2, Zenon DEF CountedOf
  <2>2. Cardinality(CountedOf(ip)') = Cardinality(CountedOf(ip)) - 1
    BY <2>1, CountedOfFinite, FS_RemoveElement, ZenonT(60)
  <2>3. Cardinality(CountedOf(ip)) # 0
    BY <2>1, CountedOfFinite, FS_EmptySet, Zenon
  <2>4. ipCounts'[ip] = IF ipCounts[ip] > 1 THEN ipCounts[ip] - 1 ELSE 0
    BY <1>2, Zenon DEF StructInv, CoreType, DropIP
  <2> QED BY <1>1, <2>2, <2>3, <2>4
<1>3. CASE ip # ClientIP[owner[f]]
  <2>1. CountedOf(ip)' = CountedOf(ip)
    BY <1>3, Zenon DEF CountedOf
  <2>2. ipCounts'[ip] = ipCounts[ip]
    BY <1>3, Zenon DEF StructInv, CoreType, DropIP
  <2> QED BY <1>1, <2>1, <2>2, Zenon
<1> QED BY <1>2, <1>3, Zenon

\* What the accounting steps do to the counted flows.
LEMMA ReserveCounts ==
    ASSUME StructInv, NEW w \in Workers, NEW f \in Flows, Reserve(w, f)
    PROVE  /\ job[w] \in Clients /\ owner[f] = None
           /\ owner' = [owner EXCEPT ![f] = job[w]]
           /\ ~Counted(f) /\ Counted(f)'
           /\ \A g \in Flows \ {f} : Counted(g)' = Counted(g)
           /\ \A g \in Flows : Counted(g) => owner[g] # job[w]
<1>1. /\ job[w] \in Clients /\ owner[f] = None /\ life[f] = "none" /\ res[f] = "none"
      /\ mappings[job[w]] = None /\ pending[job[w]] = None
  BY Zenon DEF StructInv, FlowInv, WorkerInv, WorkerAt, Reserve, ReserveEffect, WorkerStep
<1>2. /\ owner' = [owner EXCEPT ![f] = job[w]] /\ UNCHANGED life
      /\ res' = [res EXCEPT ![f] = "pending"]
  BY Zenon DEF Reserve, ReserveEffect
<1>3. ~Counted(f) /\ Counted(f)' /\ \A g \in Flows \ {f} : Counted(g)' = Counted(g)
  BY <1>1, <1>2, Zenon DEF StructInv, CoreType, Counted
<1>4. ASSUME NEW g \in Flows, Counted(g) PROVE owner[g] # job[w]
  <2>1. g # None /\ (pending[owner[g]] = g \/ mappings[owner[g]] = g)
    BY <1>4, UDPAssumption, Zenon DEF StructInv, FlowInv, Counted
  <2> QED BY <1>1, <2>1, Zenon
<1> QED BY <1>1, <1>2, <1>3, <1>4, Zenon

LEMMA FinishErrCounts ==
    ASSUME StructInv, NEW w \in Workers, FinishErr(w)
    PROVE  \E f \in Flows :
             /\ f = flow[w] /\ Counted(f) /\ ~Counted(f)'
             /\ owner[f] = job[w] /\ job[w] \in Clients /\ UNCHANGED owner
             /\ \A g \in Flows \ {f} : Counted(g)' = Counted(g)
<1>1. PICK f \in Flows :
        /\ f = flow[w] /\ owner[f] = job[w] /\ job[w] \in Clients
        /\ res[f] = "pending" /\ life[f] = "none"
  BY Zenon DEF StructInv, WorkerInv, WorkerAt, Builders, FinishErr, FinishErrEffect, WorkerReturn, WorkerStep
<1>2. res' = [res EXCEPT ![f] = "err"] /\ UNCHANGED <<owner, life>>
  BY <1>1, Zenon DEF FinishErr, FinishErrEffect
<1> QED BY <1>1, <1>2, Zenon DEF StructInv, CoreType, Counted

LEMMA RemoveCounts ==
    ASSUME StructInv, NEW f \in Flows, RemoveMapping(f)
    PROVE  /\ Counted(f) /\ ~Counted(f)' /\ owner[f] \in Clients /\ UNCHANGED owner
           /\ \A g \in Flows \ {f} : Counted(g)' = Counted(g)
<1>1. life[f] = "marked" /\ res[f] \in {"pending", "ok"} /\ owner[f] \in Clients
  BY Zenon DEF StructInv, CoreType, FlowInv, RemoveMapping, RemoveEffect
<1>2. life' = [life EXCEPT ![f] = "removed"] /\ UNCHANGED <<owner, res>>
  BY Zenon DEF RemoveMapping, RemoveEffect
<1> QED BY <1>1, <1>2, Zenon DEF StructInv, CoreType, Counted

LEMMA ReleaseCounts ==
    ASSUME StructInv, NEW f \in Flows, ReleaseToken(f)
    PROVE  UNCHANGED owner /\ \A g \in Flows : Counted(g)' = Counted(g)
BY Zenon DEF StructInv, CoreType, ReleaseToken, Counted

LEMMA IPNext ==
    ASSUME Unzoned, StructInv, IPAccounting, [Next]_vars
    PROVE  IPAccounting'
<1>1. ASSUME UNCHANGED <<ipCounts, owner>>, \A g \in Flows : Counted(g)' = Counted(g)
      PROVE  IPAccounting'
  <2>1. \A ip \in IPs : CountedOf(ip)' = CountedOf(ip)
    BY <1>1, Zenon DEF CountedOf
  <2> QED BY <1>1, <2>1, Zenon DEF IPAccounting
<1>2. CASE Quiet
  BY <1>1, <1>2, Zenon DEF Quiet
<1>3. ASSUME NEW w \in Workers, NEW f \in Flows, Reserve(w, f) PROVE IPAccounting'
  <2> SUFFICES ASSUME NEW ip \in IPs PROVE ipCounts'[ip] = Cardinality(CountedOf(ip)')
    BY Zenon DEF IPAccounting
  <2> DEFINE here == ClientIP[job[w]]
  <2>1. /\ here \in IPs
        /\ ipCounts' = [ipCounts EXCEPT ![here] = @ + 1]
        /\ ipCounts[ip] = Cardinality(CountedOf(ip))
    BY <1>3, ReserveCounts, UDPAssumption, Zenon DEF IPAccounting, Reserve, ReserveEffect
  <2>2. /\ \A g \in Flows \ {f} : Counted(g)' = Counted(g) /\ owner'[g] = owner[g]
        /\ ~Counted(f) /\ Counted(f)' /\ owner'[f] = job[w]
    BY <1>3, ReserveCounts DEF StructInv, CoreType
  <2>3. CASE ip = here
    <3>1. f \notin CountedOf(ip) /\ CountedOf(ip)' = CountedOf(ip) \cup {f}
      BY <2>2, <2>3, Zenon DEF CountedOf
    <3>2. Cardinality(CountedOf(ip)') = Cardinality(CountedOf(ip)) + 1
      BY <3>1, CountedOfFinite, FS_AddElement, Zenon
    <3>3. ipCounts'[ip] = ipCounts[ip] + 1
      BY <2>1, <2>3, Zenon DEF StructInv, CoreType
    <3> QED BY <2>1, <3>2, <3>3, Zenon
  <2>4. CASE ip # here
    <3>1. CountedOf(ip)' = CountedOf(ip)
      BY <2>2, <2>4, ZenonT(60) DEF CountedOf
    <3> QED BY <2>1, <2>4, <3>1, Zenon DEF StructInv, CoreType
  <2> QED BY <2>3, <2>4, Zenon
<1>4. ASSUME NEW w \in Workers, FinishErr(w) PROVE IPAccounting'
  <2>1. PICK f \in Flows :
          /\ f = flow[w] /\ Counted(f) /\ ~Counted(f)'
          /\ owner[f] = job[w] /\ job[w] \in Clients /\ UNCHANGED owner
          /\ \A g \in Flows \ {f} : Counted(g)' = Counted(g)
    BY <1>4, FinishErrCounts, Zenon
  <2>2. ipCounts' = DropIP(ipCounts, ClientIP[owner[f]])
    BY <1>4, <2>1, Zenon DEF FinishErr, FinishErrEffect
  <2> QED BY <2>1, <2>2, DropStep, Zenon
<1>5. ASSUME NEW f \in Flows, RemoveMapping(f) PROVE IPAccounting'
  <2>1. ipCounts' = DropIP(ipCounts, ClientIP[owner[f]])
    BY <1>5, Zenon DEF RemoveMapping, RemoveEffect, Unzoned
  <2> QED BY <1>5, <2>1, RemoveCounts, DropStep, Zenon
<1>6. ASSUME NEW f \in Flows, ReleaseToken(f) PROVE IPAccounting'
  BY <1>1, <1>6, ReleaseCounts, Zenon DEF ReleaseToken
<1> QED BY <1>2, <1>3, <1>4, <1>5, <1>6, StepKinds, Zenon

(* ipCounts is exact for clients without an IPv6 zone.                     *)
THEOREM IPCountIsExact == ASSUME Unzoned PROVE Spec => []IPAccounting
<1>1. StructInv /\ IPAccounting /\ [Next]_vars => IPAccounting'
  BY IPNext, Zenon
<1> QED BY <1>1, IPInit, Structure, PTL DEF Spec

-----------------------------------------------------------------------------
\* Refinement of UDPSessions.

LEMMA SameCardinality == ASSUME NEW T PROVE Sessions!Cardinality(T) = Cardinality(T)
BY Zenon DEF Sessions!Cardinality, Cardinality

LEMMA RefineStep ==
    ASSUME StructInv, SemAccounting, IPAccounting, [Next]_vars
    PROVE  [Sessions!Next]_(Sessions!vars)
<1> DEFINE S == {f \in Flows : Counted(f)}
<1>1. ASSUME UNCHANGED owner, \A g \in Flows : Counted(g)' = Counted(g)
      PROVE  UNCHANGED Sessions!vars
  BY <1>1, Zenon DEF Sessions!vars
<1>2. CASE Quiet
  BY <1>1, <1>2, Zenon DEF Quiet
<1>3. ASSUME NEW w \in Workers, NEW f \in Flows, Reserve(w, f) PROVE Sessions!Next
  <2> DEFINE c == job[w]
  <2>1. S' = S \cup {f}
    BY <1>3, ReserveCounts
  <2>2. Cardinality(S) < MaxMappings
    <3>1. S \subseteq TokenHolders /\ IsFiniteSet(TokenHolders) /\ IsFiniteSet(S)
      BY UDPAssumption, FS_Subset, Zenon DEF Counted, TokenHolders
    <3>2. Cardinality(S) <= sem
      BY <3>1, FS_Subset, Zenon DEF SemAccounting
    <3>3. sem < MaxMappings
      BY <1>3, Zenon DEF Reserve
    <3> QED BY <3>1, <3>2, <3>3, FS_CardinalityType, UDPAssumption DEF StructInv, CoreType
  <2>3. Cardinality(Sessions!SessionsOf(ClientIP[c])) < MaxPerIP
    <3>1. Sessions!SessionsOf(ClientIP[c]) = CountedOf(ClientIP[c])
      BY Zenon DEF Sessions!SessionsOf, CountedOf
    <3> QED BY <1>3, <3>1, ReserveCounts, UDPAssumption DEF IPAccounting, Reserve
  <2>4. Sessions!Admit(f, c)
    BY <1>3, <2>1, <2>2, <2>3, ReserveCounts, SameCardinality, Zenon DEF Sessions!Admit
  <2> QED BY <1>3, <2>4, ReserveCounts, Zenon DEF Sessions!Next
<1>4. ASSUME NEW w \in Workers, FinishErr(w) PROVE Sessions!Next
  <2>1. PICK f \in Flows : S' = S \ {f} /\ f \in S /\ UNCHANGED owner
    BY <1>4, FinishErrCounts
  <2>2. Sessions!End(f)
    BY <2>1, Zenon DEF Sessions!End
  <2> QED BY <2>2, Zenon DEF Sessions!Next
<1>5. ASSUME NEW f \in Flows, RemoveMapping(f) PROVE Sessions!Next
  <2>1. S' = S \ {f} /\ f \in S /\ UNCHANGED owner
    BY <1>5, RemoveCounts, Zenon
  <2>2. Sessions!End(f)
    BY <2>1, Zenon DEF Sessions!End
  <2> QED BY <2>2, Zenon DEF Sessions!Next
<1>6. ASSUME NEW f \in Flows, ReleaseToken(f) PROVE UNCHANGED Sessions!vars
  BY <1>1, <1>6, ReleaseCounts, Zenon
<1> QED BY <1>2, <1>3, <1>4, <1>5, <1>6, StepKinds, Zenon

(* The listener implements the abstract admission of UDPSessions.          *)
THEOREM Refinement == ASSUME Unzoned PROVE Spec => ImplementsSessions
<1>1. Init => Sessions!Init
  BY Zenon DEF Init, Sessions!Init, Counted
<1>2. StructInv /\ SemAccounting /\ IPAccounting /\ [Next]_vars => [Sessions!Next]_(Sessions!vars)
  BY RefineStep, Zenon
<1> QED BY <1>1, <1>2, Structure, SemaphoreIsExact, IPCountIsExact, PTL
        DEF Spec, ImplementsSessions, Sessions!Spec
-----------------------------------------------------------------------------
\* Refinement of FlowLifecycle.

Done(f) == life[f] \in {"finalized", "released"}

\* Steps that no observer of the flows sees.
Unseen ==
    /\ UNCHANGED controls
    /\ \A f \in Flows : /\ (life'[f] = "none") = (life[f] = "none")
                        /\ Registered(f)' = Registered(f)
                        /\ Done(f)' = Done(f)

\* An unseen step leaves the abstract flows alone.
LEMMA UnseenStutters == ASSUME Unseen PROVE UNCHANGED Lifecycle!vars
BY Zenon DEF Unseen, Lifecycle!vars, Done, Registered

\* Setting the closed flag of a mapping is not seen: its flow is still registered.
LEMMA CloseBeginUnseen ==
    ASSUME StructInv, NEW f \in Flows, CloseBegin(f), UNCHANGED controls
    PROVE  Unseen
BY DEF StructInv, CoreType, CloseBegin, Unseen, Registered, Done

\* Neither is removing it from the table, or giving its token back.
LEMMA ClosingUnseen ==
    ASSUME StructInv, NEW f \in Flows, RemoveMapping(f) \/ ReleaseToken(f)
    PROVE  Unseen
BY DEF StructInv, CoreType, RemoveMapping, RemoveEffect, ReleaseToken, Unseen,
       Registered, Done

\* buildMapping opens the flow.
LEMMA BuildOpens ==
    ASSUME StructInv, NEW w \in Workers, BuildOpen(w)
    PROVE  Lifecycle!Next
<1>1. PICK f \in Flows : f = flow[w] /\ life[f] = "none"
  BY Zenon DEF StructInv, WorkerInv, WorkerAt, BuildOpen, WorkerStep
<1>2. /\ life' = [life EXCEPT ![f] = "open"] /\ life \in [Flows -> Life]
      /\ UNCHANGED controls
      /\ f \notin {g \in Flows : life[g] # "none"} \cup {g \in Flows : Done(g)}
  BY <1>1, Zenon DEF Done, BuildOpen, StructInv, CoreType
<1>3. {g \in Flows : life'[g] # "none"} = {g \in Flows : life[g] # "none"} \cup {f}
  BY <1>1, <1>2, Zenon
<1>4. {g \in Flows : Registered(g)'} = {g \in Flows : Registered(g)} \cup {f}
  BY <1>1, <1>2, Zenon DEF Registered
<1>5. \A g \in Flows : Done(g)' = Done(g)
  BY <1>1, <1>2 DEF Done
<1>6. Lifecycle!Open(f)
  BY <1>2, <1>3, <1>4, <1>5, Zenon DEF Lifecycle!Open, Done
<1> QED BY <1>6, Zenon DEF Lifecycle!Next

\* SetControls attaches to a registered flow, or does nothing.
LEMMA ControlsAttach ==
    ASSUME StructInv, NEW w \in Workers, SetControls(w)
    PROVE  [Lifecycle!Next]_Lifecycle!vars
<1>1. flow[w] \in Flows /\ UNCHANGED life
  BY Zenon DEF StructInv, WorkerInv, WorkerAt, SetControls, WorkerStep
<1>2. CASE Registered(flow[w])
  BY <1>1, <1>2, Zenon DEF SetControls, Lifecycle!SetControls, Lifecycle!Next, Registered
<1>3. CASE ~Registered(flow[w])
  BY <1>1, <1>3, UnseenStutters, Zenon DEF SetControls, Unseen, Registered, Done
<1> QED BY <1>2, <1>3, Zenon

\* Lifecycle.Close emits the summary and unregisters the flow.
LEMMA FinalizeCloses ==
    ASSUME StructInv, NEW f \in Flows, Finalize(f)
    PROVE  Lifecycle!Next
<1>1. /\ life[f] = "removed" /\ life' = [life EXCEPT ![f] = "finalized"]
      /\ life \in [Flows -> Life] /\ controls' = controls \ {f}
  BY Zenon DEF Finalize, StructInv, CoreType
<1>2. \A g \in Flows : (life'[g] # "none") = (life[g] # "none")
  BY <1>1, Zenon
<1>3. {g \in Flows : Registered(g)'} = {g \in Flows : Registered(g)} \ {f}
  BY <1>1, Zenon DEF Registered
<1>4. {g \in Flows : Done(g)'} = {g \in Flows : Done(g)} \cup {f}
  BY <1>1, Zenon DEF Done
<1>5. [g \in Flows |-> IF Done(g)' THEN 0 ELSE None]
        = [[g \in Flows |-> IF Done(g) THEN 0 ELSE None] EXCEPT ![f] = 0]
  <2>1. \A g \in Flows : Done(g)' <=> g = f \/ Done(g)
    BY <1>1 DEF Done
  <2> QED BY <2>1, Zenon
<1>6. Lifecycle!Close(f)
  BY <1>1, <1>2, <1>3, <1>4, <1>5, Zenon DEF Lifecycle!Close, Done
<1> QED BY <1>6, Zenon DEF Lifecycle!Next

\* Every step is one of these three or is not seen.
LEMMA LifecycleStep ==
    ASSUME StructInv, [Next]_vars
    PROVE  [Lifecycle!Next]_Lifecycle!vars
<1> USE DEF inputVars, workerVars, listenerVars, loopVars, stopVars
<1>1. ASSUME UNCHANGED <<life, controls>> PROVE UNCHANGED Lifecycle!vars
  BY <1>1, UnseenStutters, Zenon DEF Unseen, Registered, Done
<1>2. ASSUME NEW w \in Workers, ForwardError(w) PROVE UNCHANGED Lifecycle!vars
  <2>1. flow[w] \in Flows
    BY <1>2, Zenon DEF StructInv, WorkerInv, WorkerAt, ForwardError
  <2> QED BY <1>2, <2>1, CloseBeginUnseen, UnseenStutters, Zenon DEF ForwardError
<1>3. ASSUME NEW f \in Flows, MappingNext(f) PROVE UNCHANGED Lifecycle!vars
  <2>1. UNCHANGED controls /\ (CloseBegin(f) \/ UNCHANGED life)
    BY <1>3, Zenon DEF MappingNext, ReadReply, ReadError, WatchStop, WatchActivity, WatchIdle
  <2> QED BY <1>1, <2>1, CloseBeginUnseen, UnseenStutters, Zenon
<1>4. ASSUME NEW f \in Flows, BlockApply(f) \/ CloseAllCall(f)
      PROVE  UNCHANGED Lifecycle!vars
  BY <1>4, CloseBeginUnseen, UnseenStutters, Zenon DEF BlockApply, CloseAllCall
<1>5. ASSUME NEW w \in Workers, WorkerNext(w) PROVE [Lifecycle!Next]_Lifecycle!vars
  <2>1. CASE \/ TakePacket(w) \/ WorkerExit(w) \/ JoinMapping(w) \/ RejectPacket(w)
             \/ WaitReady(w) \/ BuildFail(w) \/ Activate(w) \/ Forward(w) \/ Touch(w)
             \/ WorkerCloseDone(w)
    BY <1>1, <2>1, Zenon DEF TakePacket, WorkerExit, JoinMapping, RejectPacket, WaitReady,
                             BuildFail, Activate, Forward, Touch, WorkerCloseDone
  <2>2. CASE FinishErr(w) \/ FinishOk(w) \/ \E f \in Flows : Reserve(w, f)
    BY <1>1, <2>2, Zenon DEF FinishErr, FinishErrEffect, FinishOk, Reserve, ReserveEffect
  <2> QED BY <1>2, <1>5, <2>1, <2>2, BuildOpens, ControlsAttach, Zenon DEF WorkerNext
<1>6. ASSUME NEW f \in Flows, ClosingNext(f) PROVE [Lifecycle!Next]_Lifecycle!vars
  BY <1>6, ClosingUnseen, UnseenStutters, FinalizeCloses, Zenon DEF ClosingNext
<1>7. CASE \/ \E c \in Clients : Arrive(c)
           \/ ReaderExit \/ Cancel \/ CloseAll \/ CloseAllReturn \/ CloseListener \/ Drained
           \/ \E f \in Flows : BlockLookup(f)
           \/ UNCHANGED vars
  BY <1>1, <1>7, Zenon DEF Arrive, ReaderExit, Cancel, CloseAll, CloseAllReturn,
                           CloseListener, Drained, BlockLookup, vars
<1> QED BY <1>3, <1>4, <1>5, <1>6, <1>7, Zenon DEF Next, StopNext

(* A UDP mapping implements the lifecycle of lifecycle.go: whoever closes  *)
(* it, its flow is opened once, closed once and leaves the registry then.  *)
THEOREM LifecycleRefined == Spec => ImplementsLifecycle
<1>1. Init => Lifecycle!Init
  BY DEF Init, Lifecycle!Init, Registered
<1>2. StructInv /\ [Next]_vars => [Lifecycle!Next]_Lifecycle!vars
  BY LifecycleStep, Zenon
<1> QED BY <1>1, <1>2, Structure, PTL DEF Spec, ImplementsLifecycle, Lifecycle!Spec
=============================================================================
