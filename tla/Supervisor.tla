------------------------------ MODULE Supervisor ------------------------------
(***************************************************************************)
(* The process: main starts a runtime through the supervisor and stops it  *)
(* on a signal (cmd/fbforward/main.go); every Restart RPC runs             *)
(* Supervisor.Restart in a goroutine of its own (control/runtime_api.go).  *)
(* Supervisor.mu covers only the reads and writes of s.runtime, so starts  *)
(* and stops of several runtimes overlap.                                  *)
(*                                                                         *)
(* A caller starts at most one runtime, so a runtime is named after the    *)
(* caller that built it.  All the forward listen addresses are one port    *)
(* here, the control address another; the configuration file may be        *)
(* invalid when it is read, and its addresses do not change.               *)
(***************************************************************************)
EXTENDS Naturals, FiniteSets

CONSTANTS
    Main,        \* the goroutine of main
    Restarts,    \* the goroutines of the Restart RPC; bounds their number
    MaxHandlers, \* bound: forwarding handlers alive in one runtime
    NoRuntime    \* s.runtime = nil

Callers == {Main} \cup Restarts

ASSUME SupervisorAssumption ==
    /\ Main \notin Restarts /\ NoRuntime \notin Callers
    /\ MaxHandlers \in Nat /\ IsFiniteSet(Restarts)

VARIABLES
    runtime,   \* s.runtime
    caller,    \* what each caller is doing: step, and the runtime it stops
    bound,     \* the addresses each runtime holds
    life,      \* how far each runtime has started or stopped
    handlers,  \* goroutines in the wait group of each runtime
    stores,    \* the stores each runtime holds open
    exited,    \* the process has ended
    overlap    \* history: callers whose call overlapped another one's

supervisorVars == <<runtime, caller, bound, life, handlers, stores, exited, overlap>>

\* Start:  built, control bound, listening.   stop: cancelled, control closed,
\* listeners closed, handlers gone, audit drained, stopped.
Lives == {"none", "built", "control", "up",
          "cancelled", "deaf", "closed", "quiet", "drained", "stopped"}
Steps == {"idle", "loading", "taking", "stopping", "building", "binding", "listening",
          "publishing", "undoing", "started", "failed", "ending"}
Stores == {"geoip", "audit"}
Addresses == {"control", "listeners"}

SupervisorTypeOK ==
    /\ runtime \in Callers \cup {NoRuntime}
    /\ caller \in [Callers -> [step : Steps, target : Callers \cup {NoRuntime}]]
    /\ bound \in [Callers -> SUBSET Addresses]
    /\ life \in [Callers -> Lives]
    /\ handlers \in [Callers -> 0..MaxHandlers]
    /\ stores \in [Callers -> SUBSET Stores]
    /\ exited \in BOOLEAN
    /\ overlap \in SUBSET Callers

SupervisorInit ==
    /\ runtime = NoRuntime
    /\ caller = [p \in Callers |-> [step |-> IF p = Main THEN "loading" ELSE "idle", target |-> NoRuntime]]
    /\ bound = [r \in Callers |-> {}]
    /\ life = [r \in Callers |-> "none"]
    /\ handlers = [r \in Callers |-> 0]
    /\ stores = [r \in Callers |-> {}]
    /\ exited = FALSE
    /\ overlap = {}

At(p, step) == ~exited /\ caller[p].step = step
Goes(p, step, target) == caller' = [caller EXCEPT ![p] = [step |-> step, target |-> target]]
Becomes(r, stage) == life' = [life EXCEPT ![r] = stage]

CallInFlight(p) == caller[p].step \notin {"idle", "started", "failed"}
\* Calls that run at the same time as p's, when p's begins.
CallsOverlapping(p) == LET others == {q \in Callers \ {p} : CallInFlight(q)}
                  IN  IF others = {} THEN {} ELSE others \cup {p}

Taken(address) == \E r \in Callers : address \in bound[r]

---------------------------------------------------------------------------
(* Callers *)

\* control.rpcRestart: a control server that accepts connections starts a
\* goroutine that calls Supervisor.Restart.
RestartCalled(p) ==
    /\ p \in Restarts /\ At(p, "idle")
    /\ Taken("control")
    /\ Goes(p, "loading", NoRuntime)
    /\ overlap' = overlap \cup CallsOverlapping(p)
    /\ UNCHANGED <<runtime, bound, life, handlers, stores, exited>>

\* config.LoadConfig.  An invalid file ends the process at the first start
\* and leaves the current runtime alone at a restart.
LoadConfig(p, valid) ==
    /\ At(p, "loading")
    /\ IF ~valid THEN Goes(p, "failed", NoRuntime)
       ELSE IF p = Main THEN Goes(p, "building", NoRuntime)
       ELSE Goes(p, "taking", NoRuntime)
    /\ exited' = (~valid /\ p = Main)
    /\ UNCHANGED <<runtime, bound, life, handlers, stores, overlap>>

\* Restart's critical section: current, s.runtime = s.runtime, nil.
RestartTakes(p) ==
    /\ At(p, "taking")
    /\ runtime' = NoRuntime
    /\ Goes(p, IF runtime = NoRuntime THEN "building" ELSE "stopping", runtime)
    /\ UNCHANGED <<bound, life, handlers, stores, exited, overlap>>

\* NewRuntime: resolves the upstreams and opens the stores, or fails and
\* leaves `left' open: nothing when resolving fails or the policy cannot be
\* loaded, the databases of geoip when the audit store or the online rules
\* fail, both stores when the notifier fails.
NewRuntime(p) ==
    /\ At(p, "building")
    /\ Becomes(p, "built")
    /\ stores' = [stores EXCEPT ![p] = Stores]
    /\ Goes(p, "binding", NoRuntime)
    /\ UNCHANGED <<runtime, bound, handlers, exited, overlap>>

NewRuntimeFails(p) ==
    /\ At(p, "building")
    /\ \E left \in {{}, {"geoip"}, Stores} : stores' = [stores EXCEPT ![p] = left]
    /\ Goes(p, "failed", NoRuntime)
    /\ exited' = (p = Main)
    /\ UNCHANGED <<runtime, bound, life, handlers, overlap>>

\* Runtime.Start, first half: ControlServer.Start binds the control address,
\* or fails when another runtime holds it, and startConfig then stops what it
\* built.  The collector and the DNS refreshers join the wait group.
StartControl(p) ==
    /\ At(p, "binding")
    /\ IF Taken("control")
       THEN Goes(p, "undoing", p) /\ UNCHANGED <<bound, life, handlers>>
       ELSE /\ Goes(p, "listening", NoRuntime)
            /\ Becomes(p, "control")
            /\ bound' = [bound EXCEPT ![p] = {"control"}]
            /\ handlers' = [handlers EXCEPT ![p] = 1]
    /\ UNCHANGED <<runtime, stores, exited, overlap>>

\* Runtime.Start, second half: startListeners, and SetReady when all is bound.
StartListeners(p) ==
    /\ At(p, "listening")
    /\ IF Taken("listeners")
       THEN Goes(p, "undoing", p) /\ UNCHANGED <<bound, life>>
       ELSE /\ Goes(p, "publishing", NoRuntime)
            /\ Becomes(p, "up")
            /\ bound' = [bound EXCEPT ![p] = Addresses]
    /\ UNCHANGED <<runtime, handlers, stores, exited, overlap>>

\* startConfig's critical section: s.runtime = runtime.
PublishRuntime(p) ==
    /\ At(p, "publishing")
    /\ runtime' = p
    /\ Goes(p, "started", NoRuntime)
    /\ UNCHANGED <<bound, life, handlers, stores, exited, overlap>>

\* A Stop that forgets a runtime without stopping it.
StopTakesNothing ==
    /\ At(Main, "started")
    /\ runtime' = NoRuntime
    /\ Goes(Main, "ending", NoRuntime)
    /\ overlap' = overlap \cup CallsOverlapping(Main)
    /\ UNCHANGED <<bound, life, handlers, stores, exited>>

\* main receives SIGINT or SIGTERM and Supervisor.Stop takes the runtime.
StopTakes ==
    /\ At(Main, "started")
    /\ runtime' = NoRuntime
    /\ Goes(Main, "ending", runtime)
    /\ overlap' = overlap \cup CallsOverlapping(Main)
    /\ UNCHANGED <<bound, life, handlers, stores, exited>>

\* Stop returns when the flows are closed but the audit queues not drained.
StopReturnsEarly(p) ==
    /\ ~exited /\ caller[p].step \in {"stopping", "undoing", "ending"}
    /\ caller[p].target # NoRuntime =>
         life[caller[p].target] \in (IF caller[p].step = "ending" THEN {"closed", "quiet", "drained"} ELSE {}) \cup {"stopped"}
    /\ CASE caller[p].step = "stopping" -> Goes(p, "building", NoRuntime) /\ UNCHANGED exited
         [] caller[p].step = "undoing" -> Goes(p, "failed", NoRuntime) /\ exited' = (p = Main)
         [] OTHER -> UNCHANGED caller /\ exited' = TRUE
    /\ UNCHANGED <<runtime, bound, life, handlers, stores, overlap>>

\* current.Stop() has returned, or there was no runtime: Stop returns, and
\* the process ends with main, or Restart goes on, or a failed start returns.
StopReturned(p) ==
    /\ ~exited /\ caller[p].step \in {"stopping", "undoing", "ending"}
    /\ caller[p].target # NoRuntime => life[caller[p].target] = "stopped"
    /\ CASE caller[p].step = "stopping" -> Goes(p, "building", NoRuntime) /\ UNCHANGED exited
         [] caller[p].step = "undoing" -> Goes(p, "failed", NoRuntime) /\ exited' = (p = Main)
         [] OTHER -> UNCHANGED caller /\ exited' = TRUE
    /\ UNCHANGED <<runtime, bound, life, handlers, stores, overlap>>

---------------------------------------------------------------------------
(* Runtime.stop of a runtime that some caller stops, in the order of its calls. *)

BeingStopped(r) ==
    ~exited /\ \E p \in Callers : caller[p].step \in {"stopping", "undoing", "ending"} /\ caller[p].target = r

StopStep(r, from, to) ==
    BeingStopped(r) /\ life[r] \in from /\ Becomes(r, to)

\* SetReady(false) and cancel.
CancelRuntime(r) ==
    /\ StopStep(r, {"built", "control", "up"}, "cancelled")
    /\ UNCHANGED <<runtime, caller, bound, handlers, stores, exited, overlap>>

\* control.Shutdown: the control address is free at once, the call waits two
\* seconds at most for the requests in progress.
ShutControl(r) ==
    /\ StopStep(r, {"cancelled"}, "deaf")
    /\ bound' = [bound EXCEPT ![r] = @ \ {"control"}]
    /\ UNCHANGED <<runtime, caller, handlers, stores, exited, overlap>>

\* flowRegistry.CloseAll and Close of every listener.
CloseListeners(r) ==
    /\ StopStep(r, {"deaf"}, "closed")
    /\ bound' = [bound EXCEPT ![r] = @ \ {"listeners"}]
    /\ UNCHANGED <<runtime, caller, handlers, stores, exited, overlap>>

\* wait: every handler has returned.
WaitHandlers(r) ==
    /\ handlers[r] = 0
    /\ StopStep(r, {"closed"}, "quiet")
    /\ UNCHANGED <<runtime, caller, bound, handlers, stores, exited, overlap>>

\* flowContext.Shutdown and auditPipeline.Shutdown.
DrainObservers(r) ==
    /\ StopStep(r, {"quiet"}, "drained")
    /\ UNCHANGED <<runtime, caller, bound, handlers, stores, exited, overlap>>

\* Close of the databases and the store, and of the notifier.
CloseStores(r) ==
    /\ StopStep(r, {"drained"}, "stopped")
    /\ stores' = [stores EXCEPT ![r] = {}]
    /\ UNCHANGED <<runtime, caller, bound, handlers, exited, overlap>>

RuntimeStops(r) ==
    CancelRuntime(r) \/ ShutControl(r) \/ CloseListeners(r) \/ WaitHandlers(r) \/ DrainObservers(r) \/ CloseStores(r)

\* A bound listener admits a client; a handler returns.
HandlerStarts(r) ==
    /\ ~exited /\ "listeners" \in bound[r] /\ handlers[r] < MaxHandlers
    /\ handlers' = [handlers EXCEPT ![r] = @ + 1]
    /\ UNCHANGED <<runtime, caller, bound, life, stores, exited, overlap>>

\* The collector does not look at its context.
HandlerEndsNotCollector(r) ==
    /\ ~exited /\ handlers[r] > 1
    /\ handlers' = [handlers EXCEPT ![r] = @ - 1]
    /\ UNCHANGED <<runtime, caller, bound, life, stores, exited, overlap>>

\* The collector returns only when the context is cancelled.
HandlerEnds(r) ==
    /\ ~exited
    /\ handlers[r] > IF life[r] \in {"control", "up"} THEN 1 ELSE 0
    /\ handlers' = [handlers EXCEPT ![r] = @ - 1]
    /\ UNCHANGED <<runtime, caller, bound, life, stores, exited, overlap>>

\* Once the context is cancelled every handler returns.
HandlerReturns(r) == life[r] \notin {"control", "up"} /\ HandlerEnds(r)

CallerGoes(p) ==
    \/ \E valid \in BOOLEAN : LoadConfig(p, valid)
    \/ RestartTakes(p) \/ NewRuntime(p) \/ NewRuntimeFails(p)
    \/ StartControl(p) \/ StartListeners(p) \/ PublishRuntime(p) \/ StopReturned(p)

SupervisorNext ==
    \/ StopTakes
    \/ \E p \in Callers : RestartCalled(p) \/ CallerGoes(p)
    \/ \E r \in Callers : RuntimeStops(r) \/ HandlerStarts(r) \/ HandlerEnds(r)

SupervisorSpec == SupervisorInit /\ [][SupervisorNext]_supervisorVars

---------------------------------------------------------------------------
(* Properties *)

\* The runtime the supervisor holds is up: it is published after Start has
\* succeeded, and taken back under the lock before anybody stops it.
HeldIsUp ==
    runtime # NoRuntime => life[runtime] = "up"

\* A runtime that is up is the one the supervisor holds, or is about to be, or
\* is being stopped: no restart loses a running one (supervisor.go:45-47),
\* because two runtimes cannot hold the control address together.
NoOrphans ==
    \A r \in Callers : life[r] = "up" => \/ runtime = r
                                         \/ caller[r].step = "publishing"
                                         \/ BeingStopped(r) \/ exited

\* Handlers are gone before the observers and stores they report to are shut
\* down (runtime.go:276-278).
HandlersFindObservers ==
    \A r \in Callers : handlers[r] > 0 => life[r] \notin {"quiet", "drained", "stopped"} /\ stores[r] = Stores

\* A start whose call overlaps no other never finds its addresses in use:
\* Restart returns from Stop only when the old runtime has released them.
LoneStartBinds ==
    \A p \in Callers : caller[p].step = "undoing" => p \in overlap

\* When no restart overlaps Stop, the process ends only after the runtime has
\* closed its flows and drained its audit queues (operations.md:19-20).
QuietExitIsClean ==
    exited /\ Main \notin overlap => \A r \in Callers : life[r] \in {"none", "stopped"}

\* A restart always ends, with a runtime or with an error, unless the process
\* ends first.
RestartsEnd ==
    \A p \in Restarts : (caller[p].step = "loading") ~> (caller[p].step \in {"started", "failed"} \/ exited)

\* Once Stop has begun the process ends.
StopEndsProcess ==
    (caller[Main].step = "ending") ~> exited

\* Calls that no other one overlaps find and leave everything in order: LoneStartBinds,
\* QuietExitIsClean.
QuietCallsAreClean == LoneStartBinds /\ QuietExitIsClean

\* Nobody waits for ever for a runtime to stop: RestartsEnd, StopEndsProcess.
CallsEnd == RestartsEnd /\ StopEndsProcess
=============================================================================
