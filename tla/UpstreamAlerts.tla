----------------------------- MODULE UpstreamAlerts -----------------------------
(***************************************************************************)
(* From probe to alert: the collector (Measurement), the health it drives  *)
(* (UpstreamManager) and the alert policy that UpstreamManager calls back  *)
(* (NotifyPolicy), as app/runtime.go wires them, and the order in which    *)
(* Runtime.stop ends them: cancel, wait for the loop, Policy.Close.  An    *)
(* RPC's probe is not waited for.                                          *)
(*                                                                         *)
(* Dial feedback, DNS and route overrides do not touch health and have no  *)
(* step here.                                                              *)
(***************************************************************************)
EXTENDS Measurement, NotifyPolicy

\* The manager calls the policy with its own tags.
ASSUME AlertsAssumption == AlertTags = Tags

VARIABLE recent     \* per tag: the last outcomes given to RecordProbe, newest first (history)

vars == <<upstreamVars, measureVars, policyVars, recent>>

Window == Max({FailureThreshold, RecoveryThreshold})

TypeOK ==
    /\ UpstreamTypeOK /\ MeasureTypeOK /\ PolicyTypeOK
    /\ \A t \in Tags : Len(recent[t]) <= Window

Init ==
    /\ UpstreamInit /\ MeasureInit /\ PolicyInit
    /\ recent = [t \in Tags |-> <<>>]

\* The history after one more outcome.
Latest(outcome, s) == SubSeq(<<outcome>> \o s, 1, Min({Window, Len(s) + 1}))

Observe(p) ==
    /\ RecordResult(p)
    /\ LET t == prober[p].job.tag IN
          recent' = [recent EXCEPT ![t] = Latest(prober[p].result.success, @)]
    /\ UNCHANGED policyVars

CallbackWhenHealthy ==
    /\ callback # None
    /\ IF stats[callback] = "healthy" THEN HandleUsabilityChange(callback, TRUE) ELSE UNCHANGED policyVars
    /\ NotifyReturns
    /\ UNCHANGED recent

\* The callback of SetCallbacks: HandleUsabilityChange, then back to applyObservation.
Callback ==
    /\ callback # None
    /\ HandleUsabilityChange(callback, stats[callback] # "down")
    /\ NotifyReturns
    /\ UNCHANGED recent

ProberRuns(p) ==
    \/ Observe(p)
    \/ prober[p].step = "notifying" /\ Callback
    \/ /\ ProbeEnds(p) \/ (p = "loop" /\ (LoopTurn \/ FinishLoop)) \/ (p = "rpc" /\ FinishRPC)
       /\ UNCHANGED <<policyVars, recent>>

Requests ==
    /\ \E j \in Jobs : RunMeasurement(j)
    /\ UNCHANGED <<policyVars, recent>>

Timers ==
    /\ \/ \E x \in timers : TimerFires(x)
       \/ \E x \in firing : AlertObsolete(x) \/ AlertDuringGrace(x) \/ Alert(x)
    /\ UNCHANGED <<upstreamVars, measureVars, recent>>

Tick ==
    /\ UpstreamTick /\ MeasureTick /\ PolicyTick
    /\ UNCHANGED recent

StopCancels == Cancel /\ UNCHANGED <<policyVars, recent>>

StopLoop == LoopStops /\ UNCHANGED <<policyVars, recent>>

\* r.wg.Wait has seen the loop return.
StopClosesPolicy ==
    /\ prober["loop"].step = "stopped" /\ ~policyClosed
    /\ ClosePolicy
    /\ UNCHANGED <<upstreamVars, measureVars, recent>>

Next ==
    \/ \E p \in DOMAIN prober : ProberRuns(p)
    \/ Requests \/ Timers \/ Tick \/ StopCancels \/ StopLoop \/ StopClosesPolicy

Spec == Init /\ [][Next]_vars

\* Goroutines that can run do run, probes end (they have a timeout), the clock advances.  The
\* loop's select takes the cancelled context at some turn.  Nothing forces an RPC or the stop.
Fairness ==
    /\ WF_vars(ProberRuns("loop")) /\ WF_vars(ProberRuns("rpc"))
    /\ WF_vars(Timers) /\ WF_vars(Tick)
    /\ SF_vars(StopLoop) /\ WF_vars(StopClosesPolicy)

FairSpec == Spec /\ Fairness

-----------------------------------------------------------------------------
(* Properties.                                                             *)

DownTags == {t \in Tags : health[t].state = "down"}

\* Whenever no callback is running the alert policy knows exactly the upstreams that are down
\* (HandleUsabilityChange): stale transitions, which refreshes make without a callback, never
\* hide a change to or from "down", neither here nor in the stats that selection and metrics
\* read.  And it keeps a timer, armed or firing, for each: alerts for an upstream that stays
\* down never stop, whatever callbacks of earlier outages still run.
PolicyFollowsHealth ==
    /\ {t \in Tags : stats[t] = "down"} = DownTags
    /\ ~policyClosed =>
        /\ callback = None => unusable = DownTags
        /\ \A t \in unusable : \E x \in timers \cup firing : x.tag = t /\ x.id = timerOf[t]

\* The last n outcomes given to RecordProbe.
RunOf(t, n, outcome) == Len(recent[t]) >= n /\ \A i \in 1..n : recent[t][i] = outcome

\* The thresholds of ApplyObservation, against the outcomes themselves: FailureThreshold
\* failures in a row make an upstream down, RecoveryThreshold successes in a row make it
\* healthy, and an upstream goes down or recovers only with such a run, though TCP, UDP and RPC
\* probes of it are applied in any order.
HealthFollowsProbes ==
    /\ [](\A t \in Tags :
            /\ RunOf(t, FailureThreshold, FALSE) => health[t].state = "down"
            /\ RunOf(t, RecoveryThreshold, TRUE) => health[t].state = "healthy")
    /\ [][\A t \in Tags : (health[t].state = "down") # (health'[t].state = "down") =>
            RunOf(t, FailureThreshold, FALSE)' \/ RunOf(t, RecoveryThreshold, TRUE)']_vars

\* The alert of a timer callback is about an upstream that is down, or whose recovery is being
\* reported at that moment; and after Policy.Close no callback emits one.
AlertsAreTrue ==
    [][\A x \in firing : Alert(x) => ~policyClosed /\ (x.tag \in DownTags \/ callback = x.tag)]_vars

\* An upstream that goes down is alerted or recovers, unless the runtime stops; then the stop
\* gets past the measurement loop and closes the policy.
DownIsAlerted ==
    \A t \in Tags : (t \in unusable) ~> (t \notin unusable \/ policyClosed \/ t \in alerted)

\* What operators see: RunningTests lists only jobs that are being probed (RunningIsReal), and
\* the metrics catch up with an upstream that is down, whatever order the probers write them in.
ReportsCatchUp ==
    /\ []RunningIsReal
    /\ \A t \in Tags : (health[t].state = "down" /\ ~canceled)
        ~> (gauge[t] = "down" \/ health[t].state # "down" \/ canceled)

=============================================================================
