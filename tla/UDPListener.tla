------------------------------ MODULE UDPListener ------------------------------
(***************************************************************************)
(* The UDP listener of internal/forwarding/forward_udp.go, with the two    *)
(* parties that close its mappings from outside: the control plane (Block  *)
(* through flow.Registry) and Runtime.stop (internal/app/runtime.go).      *)
(*                                                                         *)
(* A flow identifies one reservation and the mapping built for it.  Worker *)
(* goroutines take packets from a bounded queue and run handlePacket, one  *)
(* step per critical section of l.mu or per visible effect.  readLoop and  *)
(* idleWatcher of a mapping run beside them.  closeWithReason is four      *)
(* steps: the closed flag, removeMapping, Lifecycle.Close, the semaphore.  *)
(***************************************************************************)
EXTENDS Naturals, Sequences, FiniteSets

CONSTANTS
    Clients,      \* client address:port, the key of mappings and pending
    IPs,          \* keys of ipCounts
    ClientIP,     \* clientAddr.IP.String(), counted by getOrReserveMapping
    MappingIP,    \* clientIPFromAddr(clientAddr.String()), uncounted by removeMapping
    Flows,        \* identities for reservations and their mappings, used once
    Workers,      \* packet workers
    MaxMappings,  \* capacity of sem
    MaxPerIP,     \* maxPerIP
    QueueSize,    \* udpPacketQueueSize
    MaxPackets,   \* bound: packets read from the socket
    MaxStops,     \* bound: executions of Runtime.stop (stopOnce: at most one)
    None

ASSUME UDPAssumption ==
    /\ ClientIP \in [Clients -> IPs]
    /\ MappingIP \in [Clients -> IPs]
    /\ IsFiniteSet(Flows)
    /\ MaxMappings \in Nat \ {0}
    /\ MaxPerIP \in Nat \ {0}
    /\ QueueSize \in Nat \ {0}
    /\ MaxPackets \in Nat
    /\ MaxStops \in {0, 1}
    /\ None \notin Clients \cup Flows

VARIABLES
    queue, arrived, readerUp,           \* packetCh, packets read, socket reader running
    pc, job, flow,                      \* per worker: step, client of its packet, its flow
    mappings, pending, sem, ipCounts,   \* the listener, guarded by l.mu (sem is a channel)
    res, owner,                         \* per flow: reservation outcome and client
    life,                               \* per flow: Lifecycle.Open, then the four closing steps
    controls,                           \* flows whose registry entry has its Controls set
    callbacks,                          \* Block callbacks fetched by withControl, not yet run
    active,                             \* flows whose readLoop and idleWatcher were started
    activity,                           \* open flows with a token in activityCh
    stop, closers, stopFlow             \* Runtime.stop: step, closers of CloseAll, one in progress

inputVars    == <<queue, arrived, readerUp>>
workerVars   == <<pc, job, flow>>
listenerVars == <<mappings, pending, sem, ipCounts>>
loopVars     == <<active, activity>>
stopVars     == <<stop, closers, stopFlow>>
vars == <<inputVars, workerVars, listenerVars, res, owner, life, controls,
          callbacks, loopVars, stopVars>>

PC == {"idle", "miss", "wait", "build", "controls", "fail", "finish",
       "activate", "forward", "touch", "closing", "exited"}
Life == {"none", "open", "marked", "removed", "finalized", "released"}
StopStep == {"running", "canceled", "closing", "draining", "drained"}

TypeOK ==
    /\ queue \in Seq(Clients) /\ Len(queue) <= QueueSize
    /\ arrived \in 0..MaxPackets
    /\ readerUp \in BOOLEAN
    /\ pc \in [Workers -> PC]
    /\ job \in [Workers -> Clients \cup {None}]
    /\ flow \in [Workers -> Flows \cup {None}]
    /\ mappings \in [Clients -> Flows \cup {None}]
    /\ pending \in [Clients -> Flows \cup {None}]
    /\ sem \in 0..MaxMappings
    /\ ipCounts \in [IPs -> 0..MaxPerIP]
    /\ res \in [Flows -> {"none", "pending", "ok", "err"}]
    /\ owner \in [Flows -> Clients \cup {None}]
    /\ life \in [Flows -> Life]
    /\ controls \subseteq Flows
    /\ callbacks \subseteq Flows
    /\ active \subseteq Flows
    /\ activity \subseteq Flows
    /\ stop \in StopStep
    /\ closers \subseteq Flows
    /\ stopFlow \in Flows \cup {None}

Init ==
    /\ queue = <<>> /\ arrived = 0 /\ readerUp = TRUE
    /\ pc = [w \in Workers |-> "idle"]
    /\ job = [w \in Workers |-> None]
    /\ flow = [w \in Workers |-> None]
    /\ mappings = [c \in Clients |-> None]
    /\ pending = [c \in Clients |-> None]
    /\ sem = 0
    /\ ipCounts = [i \in IPs |-> 0]
    /\ res = [f \in Flows |-> "none"]
    /\ owner = [f \in Flows |-> None]
    /\ life = [f \in Flows |-> "none"]
    /\ controls = {} /\ callbacks = {}
    /\ active = {} /\ activity = {}
    /\ stop = "running" /\ closers = {} /\ stopFlow = None

ctxDone == stop # "running"
connClosed == stop \in {"draining", "drained"}
Registered(f) == life[f] \in {"open", "marked", "removed"}

\* No client address has an IPv6 zone: both spellings of its IP are the same.
Unzoned == ClientIP = MappingIP

\* ipCounts[ip]--, the key deleted (zero) at one.
DropIP(counts, ip) ==
    [counts EXCEPT ![ip] = IF counts[ip] > 1 THEN counts[ip] - 1 ELSE 0]

-----------------------------------------------------------------------------
\* The socket reader of Start and the packet queue.

\* enqueuePacket: a full queue drops the packet.
Arrive(c) ==
    /\ readerUp /\ ~connClosed
    /\ arrived < MaxPackets
    /\ arrived' = arrived + 1
    /\ queue' = IF Len(queue) < QueueSize THEN Append(queue, c) ELSE queue
    /\ UNCHANGED <<readerUp, workerVars, listenerVars, res, owner, life,
                   controls, callbacks, loopVars, stopVars>>

\* The read fails once the socket is closed (or ctx is done); packetCh is closed.
ReaderExit ==
    /\ readerUp /\ (connClosed \/ ctxDone)
    /\ readerUp' = FALSE
    /\ UNCHANGED <<queue, arrived, workerVars, listenerVars, res, owner, life,
                   controls, callbacks, loopVars, stopVars>>

-----------------------------------------------------------------------------
\* handlePacket, executed by worker w.

WorkerStep(w, from, to) ==
    /\ pc[w] = from
    /\ pc' = [pc EXCEPT ![w] = to]

\* handlePacket returns; its locals are gone.
WorkerReturn(w, from) ==
    /\ WorkerStep(w, from, "idle")
    /\ job' = [job EXCEPT ![w] = None]
    /\ flow' = [flow EXCEPT ![w] = None]

\* Packet received and looked up: hit, or miss with the policy allowing, or denied.
TakePacket(w) ==
    /\ pc[w] = "idle" /\ queue # <<>>
    /\ queue' = Tail(queue)
    /\ LET c == Head(queue) IN
         \/ /\ mappings[c] # None
            /\ pc' = [pc EXCEPT ![w] = "forward"]
            /\ job' = [job EXCEPT ![w] = c]
            /\ flow' = [flow EXCEPT ![w] = mappings[c]]
         \/ /\ mappings[c] = None
            /\ pc' = [pc EXCEPT ![w] = "miss"]
            /\ job' = [job EXCEPT ![w] = c]
            /\ UNCHANGED flow
         \/ /\ mappings[c] = None            \* Decide: firewall_deny
            /\ UNCHANGED workerVars
    /\ UNCHANGED <<arrived, readerUp, listenerVars, res, owner, life, controls,
                   callbacks, loopVars, stopVars>>

WorkerExit(w) ==
    /\ WorkerStep(w, "idle", "exited")
    /\ ctxDone \/ (~readerUp /\ queue = <<>>)
    /\ UNCHANGED <<inputVars, job, flow, listenerVars, res, owner, life, controls,
                   callbacks, loopVars, stopVars>>

\* getOrReserveMapping: a mapping or a reservation of the same key was made meanwhile.
JoinMapping(w) ==
    LET c == job[w] IN
    /\ pc[w] = "miss"
    /\ \/ /\ mappings[c] # None
          /\ WorkerStep(w, "miss", "forward")
          /\ flow' = [flow EXCEPT ![w] = mappings[c]]
       \/ /\ mappings[c] = None /\ pending[c] # None
          /\ WorkerStep(w, "miss", "wait")
          /\ flow' = [flow EXCEPT ![w] = pending[c]]
    /\ UNCHANGED <<inputVars, job, listenerVars, res, owner, life, controls,
                   callbacks, loopVars, stopVars>>

\* getOrReserveMapping: errUDPPerIPLimit or errUDPMappingLimit.
RejectPacket(w) ==
    LET c == job[w] IN
    /\ WorkerReturn(w, "miss")
    /\ mappings[c] = None /\ pending[c] = None
    /\ ipCounts[ClientIP[c]] >= MaxPerIP \/ sem >= MaxMappings
    /\ UNCHANGED <<inputVars, listenerVars, res, owner, life, controls,
                   callbacks, loopVars, stopVars>>

ReserveEffect(w, f) ==
    LET c == job[w] IN
    /\ res[f] = "none"
    /\ sem' = sem + 1
    /\ ipCounts' = [ipCounts EXCEPT ![ClientIP[c]] = @ + 1]
    /\ pending' = [pending EXCEPT ![c] = f]
    /\ res' = [res EXCEPT ![f] = "pending"]
    /\ owner' = [owner EXCEPT ![f] = c]
    /\ flow' = [flow EXCEPT ![w] = f]
    /\ UNCHANGED <<inputVars, job, mappings, life, controls, callbacks, loopVars, stopVars>>

\* getOrReserveMapping: the reservation.
Reserve(w, f) ==
    /\ WorkerStep(w, "miss", "build")
    /\ mappings[job[w]] = None /\ pending[job[w]] = None
    /\ ipCounts[ClientIP[job[w]]] < MaxPerIP
    /\ sem < MaxMappings
    /\ ReserveEffect(w, f)

\* <-pending.ready, closed by finishReservation.
WaitReady(w) ==
    /\ pc[w] = "wait"
    /\ \/ /\ res[flow[w]] = "ok"
          /\ WorkerStep(w, "wait", "forward")
          /\ UNCHANGED <<job, flow>>
       \/ /\ res[flow[w]] = "err"
          /\ WorkerReturn(w, "wait")
    /\ UNCHANGED <<inputVars, listenerVars, res, owner, life, controls,
                   callbacks, loopVars, stopVars>>

\* buildMapping returns an error: selection, dial, address or identifier.
BuildFail(w) ==
    /\ WorkerStep(w, "build", "fail")
    /\ UNCHANGED <<inputVars, job, flow, listenerVars, res, owner, life, controls,
                   callbacks, loopVars, stopVars>>

\* buildMapping: dialled, then Lifecycle.Open registers the flow and its closer.
BuildOpen(w) ==
    /\ WorkerStep(w, "build", "controls")
    /\ life' = [life EXCEPT ![flow[w]] = "open"]
    /\ UNCHANGED <<inputVars, job, flow, listenerVars, res, owner, controls,
                   callbacks, loopVars, stopVars>>

\* buildMapping: SetControls (ignored once the flow is unregistered), then Bind.
SetControls(w) ==
    /\ WorkerStep(w, "controls", "finish")
    /\ controls' = IF Registered(flow[w]) THEN controls \cup {flow[w]} ELSE controls
    /\ UNCHANGED <<inputVars, job, flow, listenerVars, res, owner, life,
                   callbacks, loopVars, stopVars>>

FinishErrEffect(w, tokens, outcome) ==
    LET f == flow[w]
        c == job[w]
    IN  /\ WorkerReturn(w, "fail")
        /\ pending' = [pending EXCEPT ![c] = None]
        /\ ipCounts' = DropIP(ipCounts, ClientIP[c])
        /\ sem' = tokens
        /\ res' = [res EXCEPT ![f] = outcome]
        /\ UNCHANGED <<inputVars, mappings, owner, life, controls,
                       callbacks, loopVars, stopVars>>

\* Mutant: ready is not closed.
FinishErrNotReady(w) == FinishErrEffect(w, sem - 1, "pending")

\* finishReservation with an error; the semaphore receive does not block.
FinishErr(w) == FinishErrEffect(w, IF sem > 0 THEN sem - 1 ELSE sem, "err")

\* finishReservation with the mapping: inserted whether or not it is still open.
FinishOk(w) ==
    LET f == flow[w]
        c == job[w]
    IN  /\ WorkerStep(w, "finish", "activate")
        /\ pending' = [pending EXCEPT ![c] = None]
        /\ mappings' = [mappings EXCEPT ![c] = f]
        /\ res' = [res EXCEPT ![f] = "ok"]
        /\ UNCHANGED <<inputVars, job, flow, sem, ipCounts, owner, life, controls,
                       callbacks, loopVars, stopVars>>

\* activateMapping starts the two goroutines of the mapping.
Activate(w) ==
    /\ WorkerStep(w, "activate", "forward")
    /\ active' = active \cup {flow[w]}
    /\ UNCHANGED <<inputVars, job, flow, listenerVars, res, owner, life, controls,
                   callbacks, activity, stopVars>>

\* forwardToUpstream: written (needs an open upstream socket), or over the rate limit.
Forward(w) ==
    /\ pc[w] = "forward"
    /\ \/ /\ life[flow[w]] = "open"
          /\ WorkerStep(w, "forward", "touch")
          /\ UNCHANGED <<job, flow>>
       \/ WorkerReturn(w, "forward")
    /\ UNCHANGED <<inputVars, listenerVars, res, owner, life, controls,
                   callbacks, loopVars, stopVars>>

\* A token sent after the mapping was closed has no idleWatcher left to take it.
Touch(w) ==
    /\ WorkerReturn(w, "touch")
    /\ activity' = IF life[flow[w]] = "open" THEN activity \cup {flow[w]} ELSE activity
    /\ UNCHANGED <<inputVars, listenerVars, res, owner, life, controls,
                   callbacks, active, stopVars>>

-----------------------------------------------------------------------------
\* closeWithReason.  The caller that sets the closed flag performs the other steps.

\* Mutant: the closed flag is not checked.
CloseBeginUnguarded(f) ==
    /\ life' = [life EXCEPT ![f] = "marked"]
    /\ activity' = activity \ {f}

\* Its done channel ends readLoop and idleWatcher.
CloseBegin(f) ==
    /\ life' = IF life[f] = "open" THEN [life EXCEPT ![f] = "marked"] ELSE life
    /\ activity' = activity \ {f}

\* forwardToUpstream failed: the worker closes the mapping, or finds it closed.
ForwardError(w) ==
    LET f == flow[w] IN
    /\ pc[w] = "forward"
    /\ \/ /\ life[f] = "open"
          /\ WorkerStep(w, "forward", "closing")
          /\ UNCHANGED <<job, flow>>
       \/ /\ life[f] # "open"
          /\ WorkerReturn(w, "forward")
    /\ CloseBegin(f)
    /\ UNCHANGED <<inputVars, listenerVars, res, owner, controls,
                   callbacks, active, stopVars>>

WorkerCloseDone(w) ==
    /\ WorkerReturn(w, "closing")
    /\ life[flow[w]] = "released"
    /\ UNCHANGED <<inputVars, listenerVars, res, owner, life, controls,
                   callbacks, loopVars, stopVars>>

RemoveEffect(f, counts) ==
    /\ life[f] = "marked"
    /\ life' = [life EXCEPT ![f] = "removed"]
    /\ mappings' = [mappings EXCEPT ![owner[f]] = None]
    /\ ipCounts' = counts
    /\ UNCHANGED <<inputVars, workerVars, pending, sem, res, owner, controls,
                   callbacks, loopVars, stopVars>>

\* removeMapping deletes whatever the key holds.
RemoveMapping(f) == RemoveEffect(f, DropIP(ipCounts, MappingIP[owner[f]]))

\* Mutant: the registry entry is left behind with its controls.
FinalizeKeepsControls(f) ==
    /\ life[f] = "removed"
    /\ life' = [life EXCEPT ![f] = "finalized"]
    /\ UNCHANGED <<inputVars, workerVars, listenerVars, res, owner, controls,
                   callbacks, loopVars, stopVars>>

\* Lifecycle.Close unregisters the flow and emits its summary.
Finalize(f) ==
    /\ life[f] = "removed"
    /\ life' = [life EXCEPT ![f] = "finalized"]
    /\ controls' = controls \ {f}
    /\ UNCHANGED <<inputVars, workerVars, listenerVars, res, owner,
                   callbacks, loopVars, stopVars>>

\* <-parent.sem blocks while the channel is empty.
ReleaseToken(f) ==
    /\ life[f] = "finalized" /\ sem > 0
    /\ life' = [life EXCEPT ![f] = "released"]
    /\ sem' = sem - 1
    /\ UNCHANGED <<inputVars, workerVars, mappings, pending, ipCounts, res, owner,
                   controls, callbacks, loopVars, stopVars>>

-----------------------------------------------------------------------------
\* readLoop and idleWatcher of flow f.  Each returns when it closes the mapping
\* or finds it closed, so both run exactly while the flow is active and open.

Running(f) == f \in active /\ life[f] = "open"

\* A reply is relayed; readLoop then closes if ctx is done.
ReadReply(f) ==
    /\ Running(f) /\ ~connClosed
    /\ IF ctxDone THEN CloseBegin(f)
                  ELSE activity' = activity \cup {f} /\ UNCHANGED life
    /\ UNCHANGED <<inputVars, workerVars, listenerVars, res, owner, controls,
                   callbacks, active, stopVars>>

\* Read or client write failed; an error may come at any time.
ReadError(f) ==
    /\ Running(f)
    /\ CloseBegin(f)
    /\ UNCHANGED <<inputVars, workerVars, listenerVars, res, owner, controls,
                   callbacks, active, stopVars>>

\* Mutant: ctx is only looked at after a token.
WatchStopAfterToken(f) ==
    /\ Running(f) /\ ctxDone /\ f \in activity
    /\ CloseBegin(f)
    /\ UNCHANGED <<inputVars, workerVars, listenerVars, res, owner, controls,
                   callbacks, active, stopVars>>

\* idleWatcher: ctx.Done.
WatchStop(f) ==
    /\ Running(f) /\ ctxDone
    /\ CloseBegin(f)
    /\ UNCHANGED <<inputVars, workerVars, listenerVars, res, owner, controls,
                   callbacks, active, stopVars>>

\* idleWatcher takes the token, at once or after the timer fired; timer reset.
WatchActivity(f) ==
    /\ Running(f) /\ f \in activity
    /\ activity' = activity \ {f}
    /\ UNCHANGED <<inputVars, workerVars, listenerVars, res, owner, life, controls,
                   callbacks, active, stopVars>>

\* idleWatcher: the timer fired and no token is there, idle_timeout.
WatchIdle(f) ==
    /\ Running(f) /\ f \notin activity
    /\ CloseBegin(f)
    /\ UNCHANGED <<inputVars, workerVars, listenerVars, res, owner, controls,
                   callbacks, active, stopVars>>

-----------------------------------------------------------------------------
\* The control plane: withControl fetches the callback, then runs it unlocked.

BlockLookup(f) ==
    /\ f \in controls
    /\ callbacks' = callbacks \cup {f}
    /\ UNCHANGED <<inputVars, workerVars, listenerVars, res, owner, life, controls,
                   loopVars, stopVars>>

BlockApply(f) ==
    /\ f \in callbacks
    /\ callbacks' = callbacks \ {f}
    /\ CloseBegin(f)
    /\ UNCHANGED <<inputVars, workerVars, listenerVars, res, owner, controls,
                   active, stopVars>>

-----------------------------------------------------------------------------
\* Runtime.stop: cancel, CloseAll, listener Close, wg.Wait.

Cancel ==
    /\ MaxStops = 1
    /\ stop = "running" /\ stop' = "canceled"
    /\ UNCHANGED <<inputVars, workerVars, listenerVars, res, owner, life, controls,
                   callbacks, loopVars, closers, stopFlow>>

\* closeMatching collects the closers under the registry lock.
CloseAll ==
    /\ stop = "canceled" /\ stop' = "closing"
    /\ closers' = {f \in Flows : Registered(f)}
    /\ UNCHANGED <<inputVars, workerVars, listenerVars, res, owner, life, controls,
                   callbacks, loopVars, stopFlow>>

\* and runs them one after the other: a closer that loses returns at once.
CloseAllCall(f) ==
    /\ stop = "closing" /\ stopFlow = None /\ f \in closers
    /\ closers' = closers \ {f}
    /\ stopFlow' = IF life[f] = "open" THEN f ELSE None
    /\ CloseBegin(f)
    /\ UNCHANGED <<inputVars, workerVars, listenerVars, res, owner, controls,
                   callbacks, active, stop>>

CloseAllReturn ==
    /\ stopFlow # None /\ life[stopFlow] = "released"
    /\ stopFlow' = None
    /\ UNCHANGED <<inputVars, workerVars, listenerVars, res, owner, life, controls,
                   callbacks, loopVars, stop, closers>>

CloseListener ==
    /\ stop = "closing" /\ closers = {} /\ stopFlow = None
    /\ stop' = "draining"
    /\ UNCHANGED <<inputVars, workerVars, listenerVars, res, owner, life, controls,
                   callbacks, loopVars, closers, stopFlow>>

\* wg.Wait: the reader and the workers only; readLoop and idleWatcher are not in wg.
Drained ==
    /\ stop = "draining" /\ ~readerUp /\ \A w \in Workers : pc[w] = "exited"
    /\ stop' = "drained"
    /\ UNCHANGED <<inputVars, workerVars, listenerVars, res, owner, life, controls,
                   callbacks, loopVars, closers, stopFlow>>

-----------------------------------------------------------------------------
WorkerNext(w) ==
    \/ TakePacket(w) \/ WorkerExit(w) \/ JoinMapping(w) \/ RejectPacket(w)
    \/ \E f \in Flows : Reserve(w, f)
    \/ WaitReady(w) \/ BuildFail(w) \/ BuildOpen(w) \/ SetControls(w)
    \/ FinishErr(w) \/ FinishOk(w) \/ Activate(w)
    \/ Forward(w) \/ Touch(w) \/ ForwardError(w) \/ WorkerCloseDone(w)

ClosingNext(f) == RemoveMapping(f) \/ Finalize(f) \/ ReleaseToken(f)

MappingNext(f) ==
    \/ ReadReply(f) \/ ReadError(f)
    \/ WatchStop(f) \/ WatchActivity(f) \/ WatchIdle(f)

StopNext ==
    \/ CloseAll \/ CloseAllReturn \/ CloseListener \/ Drained
    \/ \E f \in Flows : CloseAllCall(f)

Next ==
    \/ \E c \in Clients : Arrive(c)
    \/ ReaderExit
    \/ \E w \in Workers : WorkerNext(w)
    \/ \E f \in Flows : ClosingNext(f) \/ MappingNext(f) \/ BlockLookup(f) \/ BlockApply(f)
    \/ Cancel \/ StopNext

Spec == Init /\ [][Next]_vars

\* Goroutines that can run are scheduled; a done context or a closed mapping is
\* noticed.  Packets, errors, timers, Block requests and the signal are not forced.
Fairness ==
    /\ WF_vars(ReaderExit)
    /\ \A w \in Workers : WF_vars(WorkerNext(w))
    /\ \A f \in Flows : WF_vars(ClosingNext(f)) /\ WF_vars(WatchStop(f))
    /\ WF_vars(StopNext)

FairSpec == Spec /\ Fairness

-----------------------------------------------------------------------------
\* Flows that hold a semaphore token, and flows counted for the IP of their client.

TokenHolders == {f \in Flows : res[f] \in {"pending", "ok"} /\ life[f] # "released"}
Counted(f) == res[f] \in {"pending", "ok"} /\ life[f] \in {"none", "open", "marked"}
CountedOf(ip) == {f \in Flows : Counted(f) /\ ClientIP[owner[f]] = ip}

(* The semaphore holds exactly one token for every reservation in progress  *)
(* and every mapping whose closeWithReason has not returned, in whatever    *)
(* order failed builds, closes and new reservations interleave.  With the   *)
(* capacity of the channel this is the limit max_udp_mappings, and it means *)
(* that no receive from sem finds the channel empty.                        *)
SemAccounting ==
    /\ sem = Cardinality(TokenHolders)
    /\ sem <= MaxMappings

(* ipCounts counts exactly the reservations and mappings of the address     *)
(* that removeMapping or finishReservation has not yet given back.  Stated  *)
(* for clients without an IPv6 zone; IPCountsReleased is about the others.  *)
IPAccounting == \A ip \in IPs : ipCounts[ip] = Cardinality(CountedOf(ip))

(* A client address has at most one reservation or open mapping, although   *)
(* any number of workers may miss in lookupMapping for the same client.     *)
OneFlowPerClient ==
    \A f, g \in Flows : f # g /\ Counted(f) /\ Counted(g) => owner[f] # owner[g]

(* removeMapping deletes by key; the mapping it deletes is never that of    *)
(* another flow of the same client.                                         *)
RemovesOwnMapping ==
    [][\A f \in Flows : RemoveMapping(f) => mappings[owner[f]] \in {f, None}]_vars

(* A packet is only ever written to the upstream socket of a mapping built  *)
(* for its own client address, also when the worker got the mapping from a  *)
(* reservation it waited for.                                               *)
PacketPinned ==
    \A w \in Workers : pc[w] \in {"forward", "touch", "closing"} =>
        flow[w] # None /\ res[flow[w]] = "ok" /\ owner[flow[w]] = job[w]

(* Every worker waiting for a reservation is released: finishReservation    *)
(* closes ready on each path out of buildMapping.                           *)
WaitersReleased == \A w \in Workers : pc[w] = "wait" ~> pc[w] # "wait"

(* After Cancel the runtime gets past wg.Wait: no worker stays in           *)
(* closeWithReason or on a reservation, and every token comes back.         *)
StopCompletes == stop # "running" ~> (stop = "drained" /\ sem = 0)

-----------------------------------------------------------------------------
\* The abstract sessions: the counted flows.

Sessions == INSTANCE UDPSessions WITH
    sessions <- {f \in Flows : Counted(f)},
    client   <- owner

(* The reservation protocol implements UDPSessions: admission is atomic and *)
(* within both limits although check, dial, registration and insertion are  *)
(* separate steps, and a session ends once.                                 *)
ImplementsSessions == Sessions!Spec

Lifecycle == INSTANCE FlowLifecycle WITH
    NoSummary <- None,
    opened    <- {f \in Flows : life[f] # "none"},
    closed    <- {f \in Flows : life[f] \in {"finalized", "released"}},
    counter   <- [f \in Flows |-> 0],
    summary   <- [f \in Flows |-> IF life[f] \in {"finalized", "released"} THEN 0 ELSE None],
    entries   <- {f \in Flows : Registered(f)}

(* A UDP mapping is one Flow: whichever of the workers, its two goroutines, *)
(* Block and Runtime.stop closes it, it implements the lifecycle of         *)
(* lifecycle.go (the counters, which the UDP model leaves out, apart).      *)
ImplementsLifecycle == Lifecycle!Spec

-----------------------------------------------------------------------------
\* Statements of the documentation that the code does not keep.

(* "UDP uses one mapping per client tuple and ends it after idle timeout or *)
(* shutdown": a mapping whose close has removed it is not in the table.     *)
MappedFlowsAreLive ==
    \A c \in Clients : mappings[c] # None => life[mappings[c]] \in {"open", "marked"}

(* "Drain forwarding handlers before shutting down the observers and stores *)
(* they may still be using during their final close transition": once wg    *)
(* has been waited for, every opened flow has had its Lifecycle.Close.      *)
DrainedMeansClosed == stop = "drained" => \A f \in Flows : ~Registered(f)

(* After every mapping of a listener has been closed the test suite expects *)
(* ipCounts to be empty ("mapping state not released").                     *)
IPCountsReleased ==
    (\A f \in Flows : ~Counted(f)) => \A ip \in IPs : ipCounts[ip] = 0
=============================================================================
