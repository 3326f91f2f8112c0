------------------------------ MODULE Measurement ------------------------------
(***************************************************************************)
(* The probes of internal/measure: the scheduler's queue, the collector's  *)
(* loop, and the probes that the RunMeasurement RPC starts beside it.      *)
(*                                                                         *)
(* A prober is "loop", the only one that touches the queue, or "rpc", a    *)
(* goroutine per request of which one is modelled at a time.  Its steps    *)
(* are: setRunning and the probe itself, which ends with a result and its  *)
(* ObservedAt; RecordProbe; then the metrics and, for the loop, the queue. *)
(* Between two steps of one prober the other may act, so results reach the *)
(* manager in any order.                                                   *)
(***************************************************************************)
EXTENDS UpstreamManager, TLC

CONSTANTS
    Protocols,          \* the enabled protocols, a sequence
    MinInterval, MaxInterval, RetryDelay, InterUpstreamGap,   \* ticks
    ProbeRTTs,          \* RTTs a successful probe can measure
    MaxRPCs             \* bound: RunMeasurement requests

ASSUME MeasureAssumption ==
    /\ Range(Protocols) \subseteq {"tcp", "udp"} /\ IsInjective(Protocols)
    /\ {MinInterval, MaxInterval, RetryDelay} \subseteq Nat \ {0} /\ MinInterval <= MaxInterval
    /\ InterUpstreamGap \in Nat /\ MaxRPCs \in Nat
    /\ ProbeRTTs \subseteq 1..MaxRTT /\ ProbeRTTs # {}

VARIABLES
    queue,          \* scheduledMeasurements: job and ticks until dueAt, sorted by dueAt
    nextAvailable,  \* ticks until the gap between two probes has passed
    prober,         \* per prober: step, job, result, stats returned by RecordProbe
    running,        \* Collector.running, the jobs listed by RunningTests
    gauge,          \* per tag: the health state last given to the metrics
    requested,      \* RunMeasurement requests so far
    canceled        \* the runtime's context is done; the loop has returned when "stopped"

measureVars == <<queue, nextAvailable, prober, running, gauge, requested, canceled>>

Job(t, p) == [tag |-> t, protocol |-> p]
Jobs == [tag : Tags, protocol : {"tcp", "udp"}]

\* measurementUpstreams: the upstreams of adaptive routes, in configuration order.
MeasurementUpstreams ==
    SelectSeq(Order, LAMBDA t : \E r \in RouteNames :
                         Routes[r].strategy = "adaptive" /\ t \in Range(Routes[r].upstreams))

MeasuredJobs == {Job(t, p) : t \in Range(MeasurementUpstreams), p \in Range(Protocols)}

Idle == [step |-> "idle", job |-> None, result |-> None, stats |-> None]

Result == [success : BOOLEAN, rtt : 0..MaxRTT, age : 0..(StaleThreshold + 1)]

MeasureTypeOK ==
    /\ \A i \in DOMAIN queue : queue[i].job \in Jobs /\ queue[i].due \in 0..Max({MaxInterval, RetryDelay})
    /\ nextAvailable \in 0..InterUpstreamGap
    /\ \A p \in {"loop", "rpc"} :
          prober[p] \in [step : {"idle", "probing", "observed", "notifying", "recorded", "stopped"}, job : Jobs \cup {None},
                         result : Result \cup {None}, stats : HealthState \cup {None}]
    /\ running \subseteq Jobs
    /\ gauge \in [Tags -> HealthState]
    /\ requested \in 0..MaxRPCs
    /\ canceled \in BOOLEAN

MeasureInit ==
    /\ queue = <<>>
    /\ nextAvailable = 0
    /\ prober = [p \in {"loop", "rpc"} |-> Idle]
    /\ running = {}
    /\ gauge = [t \in Tags |-> ""]
    /\ requested = 0
    /\ canceled = FALSE

-----------------------------------------------------------------------------
(* The scheduler.  The clock stops counting a due time at 0: entries that  *)
(* are due keep the order in which they became due.                        *)

SortQueue(q) == SortSeq(q, LAMBDA a, b : a.due < b.due)

\* The measured upstreams in order, and the protocols of each in order.
AllJobs ==
    LET k == Len(Protocols) IN
    [n \in 1..(Len(MeasurementUpstreams) * k) |->
        Job(MeasurementUpstreams[((n - 1) \div k) + 1], Protocols[((n - 1) % k) + 1])]

\* Schedule appends every job that is not queued, due now.
Schedule(q) ==
    LET new == SelectSeq(AllJobs, LAMBDA j : \A i \in DOMAIN q : q[i].job # j)
    IN SortQueue(q \o [i \in DOMAIN new |-> [job |-> new[i], due |-> 0]])

NextReady(q) == IF q # <<>> /\ nextAvailable = 0 /\ Head(q).due = 0 THEN Head(q).job ELSE None

Requeue(q, job, due) == SortQueue(Append(q, [job |-> job, due |-> due]))

-----------------------------------------------------------------------------
(* The collector.                                                          *)

StartProbe(p, job) ==
    /\ prober' = [prober EXCEPT ![p] = [Idle EXCEPT !.step = "probing", !.job = job]]
    /\ running' = running \cup {job}

SyncStatsOnly == stats' = Refreshed /\ UNCHANGED gauge

\* syncUpstreamMetrics: Health refreshes the stats of each upstream, the metrics follow.
SyncUpstreamMetrics == stats' = Refreshed /\ gauge' = Refreshed

\* A turn of RunLoop: Schedule, syncUpstreamMetrics, NextReady and, if a job is ready, its start.
\* The cancelled context and the ticker are both ready in the last select: either may be taken.
LoopTurn ==
    /\ prober["loop"].step = "idle"
    /\ callback = None
    /\ LET q == Schedule(queue) IN
       \/ /\ NextReady(q) = None
          /\ queue' = q /\ UNCHANGED <<nextAvailable, prober, running>>
       \/ \E job \in Jobs :
             /\ NextReady(q) = job
             /\ queue' = Tail(q)
             /\ nextAvailable' = InterUpstreamGap
             /\ StartProbe("loop", job)
    /\ SyncUpstreamMetrics
    /\ UNCHANGED <<health, callback, cooling, activeIP, overrides, requested, canceled>>

\* rpcRunMeasurement: any configured upstream and either protocol.
RunMeasurement(job) ==
    /\ prober["rpc"].step = "idle"
    /\ requested < MaxRPCs
    /\ requested' = requested + 1
    /\ StartProbe("rpc", job)
    /\ UNCHANGED <<upstreamVars, queue, nextAvailable, gauge, canceled>>

\* The probe ends (clearRunning): with an RTT, or with an error, a timeout or the cancelled context.
ProbeEnds(p) ==
    /\ prober[p].step = "probing"
    /\ \E r \in {[success |-> FALSE, rtt |-> 0, age |-> 0]}
                \cup {[success |-> TRUE, rtt |-> x, age |-> 0] : x \in ProbeRTTs} :
          prober' = [prober EXCEPT ![p] = [@ EXCEPT !.step = "observed", !.result = r]]
    /\ running' = running \ {prober[p].job}
    /\ UNCHANGED <<upstreamVars, queue, nextAvailable, gauge, requested, canceled>>

\* handleMeasurementSuccess and handleMeasurementFailure, up to RecordProbe's critical section.
RecordResult(p) ==
    /\ prober[p].step = "observed"
    /\ RecordProbe(prober[p].job.tag, prober[p].result)
    /\ prober' = [prober EXCEPT ![p] = [@ EXCEPT !.step = IF callback' = None THEN "recorded" ELSE "notifying",
                                                !.stats = stats'[prober[p].job.tag]]]
    /\ UNCHANGED <<queue, nextAvailable, running, gauge, requested, canceled>>

\* applyObservation's callback returns to the prober that made the observation.
NotifyReturns ==
    /\ OnStateChange
    /\ prober' = [p \in DOMAIN prober |->
                    IF prober[p].step = "notifying" THEN [prober[p] EXCEPT !.step = "recorded"] ELSE prober[p]]
    /\ UNCHANGED <<queue, nextAvailable, running, gauge, requested, canceled>>

\* The metrics, after RecordProbe has returned; for the loop also Requeue or MarkRun and the final sync.
FinishRPC ==
    /\ prober["rpc"].step = "recorded"
    /\ gauge' = [gauge EXCEPT ![prober["rpc"].job.tag] = prober["rpc"].stats]
    /\ prober' = [prober EXCEPT !["rpc"] = Idle]
    /\ UNCHANGED <<upstreamVars, queue, nextAvailable, running, requested, canceled>>

FinishLoopGivesUp ==
    /\ prober["loop"].step = "recorded" /\ callback = None
    /\ \E due \in IF prober["loop"].result.success THEN MinInterval..MaxInterval ELSE {RetryDelay} :
          queue' = Requeue(queue, prober["loop"].job, due)
    /\ SyncUpstreamMetrics
    /\ prober' = [prober EXCEPT !["loop"] = [Idle EXCEPT !.step = IF prober["loop"].result.success THEN "idle" ELSE "stopped"]]
    /\ UNCHANGED <<health, callback, cooling, activeIP, overrides, nextAvailable, running, requested, canceled>>

FinishLoop ==
    /\ prober["loop"].step = "recorded" /\ callback = None
    /\ \E due \in IF prober["loop"].result.success THEN MinInterval..MaxInterval ELSE {RetryDelay} :
          queue' = Requeue(queue, prober["loop"].job, due)
    /\ SyncUpstreamMetrics
    /\ prober' = [prober EXCEPT !["loop"] = Idle]
    /\ UNCHANGED <<health, callback, cooling, activeIP, overrides, nextAvailable, running, requested, canceled>>

LoopStops ==
    /\ prober["loop"].step = "idle" /\ canceled
    /\ prober' = [prober EXCEPT !["loop"] = [@ EXCEPT !.step = "stopped"]]
    /\ UNCHANGED <<upstreamVars, queue, nextAvailable, running, gauge, requested, canceled>>

Down1(n) == IF n = 0 THEN 0 ELSE n - 1

\* A result that waits to be recorded grows older.
Aged(r) == [r EXCEPT !.age = AtMost(@ + 1, StaleThreshold + 1)]

MeasureTick ==
    /\ queue' = [i \in DOMAIN queue |-> [queue[i] EXCEPT !.due = Down1(@)]]
    /\ nextAvailable' = Down1(nextAvailable)
    /\ prober' = [p \in DOMAIN prober |->
                    IF prober[p].step = "observed"
                    THEN [prober[p] EXCEPT !.result = Aged(@)] ELSE prober[p]]
    /\ UNCHANGED <<running, gauge, requested, canceled>>

\* The steps of a prober.
ProberStep(p) ==
    \/ ProbeEnds(p) \/ RecordResult(p)
    \/ prober[p].step = "notifying" /\ NotifyReturns
    \/ p = "loop" /\ (LoopTurn \/ FinishLoop)
    \/ p = "rpc" /\ FinishRPC

Cancel ==
    /\ ~canceled
    /\ canceled' = TRUE
    /\ UNCHANGED <<upstreamVars, queue, nextAvailable, prober, running, gauge, requested>>

CollectorNext ==
    \/ \E p \in DOMAIN prober : ProberStep(p)
    \/ \E j \in Jobs : RunMeasurement(j)
    \/ LoopStops \/ Cancel
    \/ UpstreamTick /\ MeasureTick

-----------------------------------------------------------------------------
(* Properties.                                                             *)

\* After its first turn the scheduler neither loses nor doubles a job (Schedule, NextReady,
\* MarkRun, Requeue): each one is queued once, or the loop is probing it; the queue is sorted.
Count(j) == Cardinality({i \in DOMAIN queue : queue[i].job = j})
                + (IF prober["loop"].job = j THEN 1 ELSE 0)
JobsConserved ==
    queue # <<>> \/ prober["loop"].job # None =>
        /\ \A j \in MeasuredJobs : Count(j) = 1
        /\ \A i \in DOMAIN queue : queue[i].job \in MeasuredJobs
        /\ \A i, k \in DOMAIN queue : i < k => queue[i].due <= queue[k].due

\* A job that RunningTests lists is being probed: a probe that ends first may hide another of
\* the same job, and never leaves an entry behind.
RunningIsReal ==
    \A j \in running : \E p \in DOMAIN prober : prober[p].step = "probing" /\ prober[p].job = j

\* Every measured job is probed again and again until the stop, the gap and the failures of the
\* others notwithstanding.
JobsAreProbed ==
    \A j \in MeasuredJobs : []<>(canceled \/ (prober["loop"].step = "probing" /\ prober["loop"].job = j))

=============================================================================
