---------------------------- MODULE MCUpstreamAlerts ----------------------------
(* One upstream of an adaptive route, probed by the loop and by an RPC.    *)
EXTENDS UpstreamAlerts

MCOrder == <<"a">>
MCPriority == [t \in {"a"} |-> 0]
MCRoutes == [r \in {"web"} |-> [strategy |-> "adaptive", upstreams |-> <<"a">>, defaultUpstream |-> None]]
MCProtocols == <<"tcp">>
=============================================================================
