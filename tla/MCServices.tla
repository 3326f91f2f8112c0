------------------------------ MODULE MCServices ------------------------------
(* Parts of the process that share no step, each explored by itself: the   *)
(* supervisor, the byte limiter of a Flow, and the backends' requests.     *)
(* `part' says which one runs.                                             *)
EXTENDS Supervisor, ByteRateLimiter, FlowContextService

VARIABLE part

vars == <<supervisorVars, limiterVars, serviceVars, part>>

MCClientOf == [f \in ServedFlows |-> CHOOSE c \in FlowClients : TRUE]
\* In a LIKE pattern the underscore of a key matches any character.
MCAlike == [l \in {"key_1", "keyA1"} |-> IF l = "key_1" THEN {"key_1", "keyA1"} ELSE {l}]

TypeOK == SupervisorTypeOK /\ LimiterTypeOK /\ ServiceTypeOK

Init ==
    /\ part \in {"process", "limiter", "requests"}
    /\ SupervisorInit
    /\ LimiterInit /\ (part # "limiter" => protocol = "tcp" /\ base = 0)
    /\ ServiceInit /\ (part # "requests" => store)

ProcessDoes(A) == part = "process" /\ A /\ UNCHANGED <<limiterVars, serviceVars, part>>
LimiterDoes(A) == part = "limiter" /\ A /\ UNCHANGED <<supervisorVars, serviceVars, part>>
RequestsDo(A) == part = "requests" /\ A /\ UNCHANGED <<supervisorVars, limiterVars, part>>

Next == ProcessDoes(SupervisorNext) \/ LimiterDoes(LimiterNext) \/ RequestsDo(ServiceNext)

Spec ==
    /\ Init /\ [][Next]_vars
    /\ \A p \in Callers : WF_vars(ProcessDoes(CallerGoes(p)))
    /\ \A r \in Callers : WF_vars(ProcessDoes(RuntimeStops(r))) /\ WF_vars(ProcessDoes(HandlerReturns(r)))
    /\ WF_vars(LimiterDoes(LimiterTick))
    /\ \A d \in Waiters : WF_vars(LimiterDoes(CopierStep(d)))
=============================================================================
