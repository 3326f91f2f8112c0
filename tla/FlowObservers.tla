---------------------------- MODULE FlowObservers ----------------------------
(***************************************************************************)
(* The in-memory projections of the Flows: control.StatusStore and         *)
(* metrics.FlowObserver with the counters of metrics.Metrics.  A goroutine *)
(* that opens, updates or closes a Flow holds that Flow's Lifecycle.mu     *)
(* while flow.MultiObserver calls the observers one after the other; every *)
(* observer has a lock of its own, and goroutines of other Flows, and the  *)
(* readers, come in between.                                               *)
(***************************************************************************)
EXTENDS Naturals, FiniteSets, FiniteSetsExt

CONSTANTS
    ObservedFlows, ProtocolOf,  \* all of one upstream
    Workers,                    \* goroutines that carry the flows
    MaxBytes,                   \* bound: bytes of a flow in one direction
    MaxRejections,              \* bound: rejected clients
    NoEntry

Protos == {"tcp", "udp"}
Ways == {"up", "down"}

ASSUME ObserversAssumption ==
    /\ ProtocolOf \in [ObservedFlows -> Protos]
    /\ IsFiniteSet(ObservedFlows) /\ NoEntry \notin ObservedFlows /\ NoEntry \notin [Ways -> 0..MaxBytes]
    /\ MaxBytes \in Nat /\ MaxRejections \in Nat

VARIABLES
    phase,        \* Lifecycle.opened and closed of each flow
    counter,      \* Lifecycle.counter of each flow
    work,         \* each goroutine: the flow it holds, the call, and the observer it has reached
    listed,       \* StatusStore.tcp and udp: the counters of the flows listed
    flows,        \* FlowObserver.flows: the counters already added to the metrics
    activeGauge,  \* Metrics.tcpActive and udpActive
    flowEvents,   \* Metrics.flowEvents
    traffic       \* Metrics' traffic counters of the upstream

observerVars == <<phase, counter, work, listed, flows, activeGauge, flowEvents, traffic>>

Counters == [Ways -> 0..MaxBytes]
NoBytes == [w \in Ways |-> 0]
IdleWork == [flow |-> NoEntry, call |-> NoEntry, at |-> "idle", counters |-> NoBytes, delta |-> NoBytes]

ObserversTypeOK ==
    /\ phase \in [ObservedFlows -> {"new", "open", "closed"}]
    /\ counter \in [ObservedFlows -> Counters]
    /\ work \in [Workers -> [flow : ObservedFlows \cup {NoEntry}, call : {"open", "update", "close", NoEntry},
                             at : {"idle", "status", "flows", "traffic", "events"}, counters : Counters, delta : Counters]]
    /\ listed \in [ObservedFlows -> Counters \cup {NoEntry}]
    /\ flows \in [ObservedFlows -> Counters \cup {NoEntry}]
    /\ activeGauge \in [Protos -> Nat]
    /\ flowEvents \in [Protos -> [{"open", "close", "reject"} -> Nat]]
    /\ traffic \in [Protos -> [Ways -> Nat]]

ObserversInit ==
    /\ phase = [f \in ObservedFlows |-> "new"]
    /\ counter = [f \in ObservedFlows |-> NoBytes]
    /\ work = [w \in Workers |-> IdleWork]
    /\ listed = [f \in ObservedFlows |-> NoEntry]
    /\ flows = [f \in ObservedFlows |-> NoEntry]
    /\ activeGauge = [p \in Protos |-> 0]
    /\ flowEvents = [p \in Protos |-> [e \in {"open", "close", "reject"} |-> 0]]
    /\ traffic = [p \in Protos |-> [w \in Ways |-> 0]]

---------------------------------------------------------------------------
(* Lifecycle: the transition, under the lock that is then held to the end. *)

LifecycleLocked(f) == \E w \in Workers : work[w].flow = f

Tells(w, f, call, counters) ==
    /\ work[w] = IdleWork /\ ~LifecycleLocked(f)
    /\ work' = [work EXCEPT ![w] = [flow |-> f, call |-> call, at |-> "status", counters |-> counters, delta |-> NoBytes]]
    /\ UNCHANGED <<listed, flows, activeGauge, flowEvents, traffic>>

OpenFlow(w, f) ==
    /\ phase[f] = "new"
    /\ phase' = [phase EXCEPT ![f] = "open"]
    /\ UNCHANGED counter
    /\ Tells(w, f, "open", NoBytes)

CountBytes(w, f, way) ==
    /\ phase[f] = "open" /\ counter[f][way] < MaxBytes
    /\ counter' = [counter EXCEPT ![f][way] = @ + 1]
    /\ UNCHANGED phase
    /\ Tells(w, f, "update", [counter[f] EXCEPT ![way] = @ + 1])

\* Also for a flow that was never opened; its Open then does nothing.
CloseFlow(w, f) ==
    /\ phase[f] # "closed"
    /\ phase' = [phase EXCEPT ![f] = "closed"]
    /\ UNCHANGED counter
    /\ Tells(w, f, "close", counter[f])

---------------------------------------------------------------------------
(* Observers *)

Reach(w, at, delta) == work' = [work EXCEPT ![w] = [@ EXCEPT !.at = at, !.delta = delta]]
Return(w) == work' = [work EXCEPT ![w] = IdleWork]

\* StatusStore.Open, Update, Close.
TellStatus(w) ==
    LET f == work[w].flow IN
    /\ work[w].at = "status"
    /\ listed' = [listed EXCEPT ![f] =
                    CASE work[w].call = "open" -> NoBytes
                      [] work[w].call = "close" -> NoEntry
                      [] OTHER -> IF @ = NoEntry THEN NoEntry ELSE work[w].counters]
    /\ Reach(w, "flows", NoBytes)
    /\ UNCHANGED <<phase, counter, flows, activeGauge, flowEvents, traffic>>

\* FlowObserver.Open, Update, Close, under its lock: what has been counted so
\* far, and the difference that is still to be added.  A flow it does not know
\* is ignored.
Delta(seen, now) == [w \in Ways |-> IF now[w] > seen[w] THEN now[w] - seen[w] ELSE 0]

\* An Update that does not remember what it has counted.
TellFlowsForgetful(w) ==
    LET f == work[w].flow  known == flows[f] # NoEntry IN
    /\ work[w].at = "flows"
    /\ UNCHANGED <<phase, counter, listed, activeGauge, flowEvents, traffic>>
    /\ IF work[w].call # "open" /\ ~known THEN UNCHANGED flows /\ Return(w)
       ELSE /\ flows' = [flows EXCEPT ![f] = IF work[w].call = "close" THEN NoEntry ELSE NoBytes]
            /\ IF work[w].call = "open" THEN Reach(w, "events", NoBytes)
               ELSE Reach(w, "traffic", Delta(flows[f], work[w].counters))

TellFlows(w) ==
    LET f == work[w].flow  known == flows[f] # NoEntry IN
    /\ work[w].at = "flows"
    /\ UNCHANGED <<phase, counter, listed, activeGauge, flowEvents, traffic>>
    /\ IF work[w].call # "open" /\ ~known THEN UNCHANGED flows /\ Return(w)
       ELSE /\ flows' = [flows EXCEPT ![f] = IF work[w].call = "close" THEN NoEntry ELSE work[w].counters]
            /\ IF work[w].call = "open" THEN Reach(w, "events", NoBytes)
               ELSE Reach(w, "traffic", Delta(flows[f], work[w].counters))

\* addBytes: Metrics.AddTraffic for both directions.
AddBytes(w) ==
    LET p == ProtocolOf[work[w].flow] IN
    /\ work[w].at = "traffic"
    /\ traffic' = [traffic EXCEPT ![p] = [d \in Ways |-> @[d] + work[w].delta[d]]]
    /\ IF work[w].call = "close" THEN Reach(w, "events", NoBytes) ELSE Return(w)
    /\ UNCHANGED <<phase, counter, listed, flows, activeGauge, flowEvents>>

\* IncActive or DecActive, which stops at zero, and RecordFlowEvent.
CountEvent(w) ==
    LET p == ProtocolOf[work[w].flow]  call == work[w].call IN
    /\ work[w].at = "events"
    /\ activeGauge' = [activeGauge EXCEPT ![p] = IF call = "open" THEN @ + 1 ELSE IF @ = 0 THEN 0 ELSE @ - 1]
    /\ flowEvents' = [flowEvents EXCEPT ![p][call] = @ + 1]
    /\ Return(w)
    /\ UNCHANGED <<phase, counter, listed, flows, traffic>>

\* Reject: a client that gets no Flow is counted by the metrics only.
RejectClient(p) ==
    /\ flowEvents[p]["reject"] < MaxRejections
    /\ flowEvents' = [flowEvents EXCEPT ![p]["reject"] = @ + 1]
    /\ UNCHANGED <<phase, counter, work, listed, flows, activeGauge, traffic>>

ObserversNext ==
    \/ \E w \in Workers : TellStatus(w) \/ TellFlows(w) \/ AddBytes(w) \/ CountEvent(w)
    \/ \E w \in Workers, f \in ObservedFlows :
          OpenFlow(w, f) \/ CloseFlow(w, f) \/ \E way \in Ways : CountBytes(w, f, way)
    \/ \E p \in Protos : RejectClient(p)

ObserversSpec == ObserversInit /\ [][ObserversNext]_observerVars

---------------------------------------------------------------------------
(* Properties *)

Carrying(p) == {f \in ObservedFlows : ProtocolOf[f] = p}
Quiet(f) == ~\E w \in Workers : work[w].flow = f

\* The status list shows a flow exactly while it is open, with its current
\* counters, as soon as the call in progress has returned: a late Update never
\* brings a closed flow back.
StatusFollowsFlows ==
    \A f \in ObservedFlows : Quiet(f) => listed[f] = IF phase[f] = "open" THEN counter[f] ELSE NoEntry

\* When no call is in progress, the active gauges are the open flows of the
\* protocol, and every other flow that was opened has been counted as closed.
GaugeFollowsFlows ==
    \A p \in Protos : (\A f \in Carrying(p) : Quiet(f)) =>
        /\ activeGauge[p] = Cardinality({f \in Carrying(p) : phase[f] = "open"})
        /\ flowEvents[p]["open"] = activeGauge[p] + flowEvents[p]["close"]

\* The traffic counters count every byte of every flow once: never more than
\* the flows have carried, and all of it when no call is in progress.
TrafficCountedOnce ==
    \A p \in Protos, d \in Ways :
        LET carried == MapThenSumSet(LAMBDA f : counter[f][d], Carrying(p))
        IN  /\ traffic[p][d] <= carried
            /\ (\A f \in Carrying(p) : Quiet(f)) => traffic[p][d] = carried

\* The observers, which MultiObserver calls one after the other, agree with the Flows and so
\* with each other: status list, gauges and traffic.
ObserversFollowFlows == StatusFollowsFlows /\ GaugeFollowsFlows /\ TrafficCountedOnce
=============================================================================
