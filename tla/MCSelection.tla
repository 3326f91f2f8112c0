------------------------------ MODULE MCSelection ------------------------------
(* Parts of the process that share no step, each explored by itself: the   *)
(* selection of UpstreamManager, the collector of Measurement over two     *)
(* upstreams, the webhook client, the observers of the Flows, and the      *)
(* request limits.  `part' says which one runs.                            *)
EXTENDS Measurement, NotifyClient, FlowObservers, RequestLimits

VARIABLE part

selectionVars == <<upstreamVars, measureVars>>
vars == <<selectionVars, clientVars, observerVars, limitVars, part>>

MCOrder == <<"a", "b">>
MCPriority == [t \in {"a", "b"} |-> IF t = "a" THEN 0 ELSE 1]
MCRoutes == [r \in {"web", "fixed"} |->
               IF r = "web" THEN [strategy |-> "adaptive", upstreams |-> <<"a", "b">>, defaultUpstream |-> None]
               ELSE [strategy |-> "static", upstreams |-> <<"a">>, defaultUpstream |-> "a"]]
MCProtocols == <<"tcp", "udp">>
MCProtocolOf == [f \in ObservedFlows |-> "tcp"]

TypeOK == UpstreamTypeOK /\ MeasureTypeOK /\ ClientTypeOK /\ ObserversTypeOK /\ LimitsTypeOK

Init ==
    /\ part \in {"selection", "collector", "webhook", "observers", "limits"}
    /\ UpstreamInit /\ MeasureInit /\ ClientInit /\ ObserversInit /\ LimitsInit

Selection == part = "selection" /\ UpstreamNext
    /\ UNCHANGED <<measureVars, clientVars, observerVars, limitVars, part>>
CollectorDoes(A) == part = "collector" /\ A /\ UNCHANGED <<clientVars, observerVars, limitVars, part>>
Webhook == part = "webhook" /\ ClientNext /\ UNCHANGED <<selectionVars, observerVars, limitVars, part>>
Observers == part = "observers" /\ ObserversNext /\ UNCHANGED <<selectionVars, clientVars, limitVars, part>>
Limiters == part = "limits" /\ LimitsNext /\ UNCHANGED <<selectionVars, clientVars, observerVars, part>>
Collector == CollectorDoes(CollectorNext)

Next == Selection \/ Collector \/ Webhook \/ Observers \/ Limiters

\* The collector's loop runs, and time passes for it.
Spec ==
    /\ Init /\ [][Next]_vars
    /\ WF_vars(CollectorDoes(ProberStep("loop"))) /\ WF_vars(CollectorDoes(UpstreamTick /\ MeasureTick))

\* The scheduler neither loses nor doubles a job (JobsConserved), and when the collector runs
\* every measured job is probed again and again (JobsAreProbed).
CollectorProbes ==
    /\ []JobsConserved
    /\ part = "collector" => JobsAreProbed
=============================================================================
