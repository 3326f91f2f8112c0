----------------------------- MODULE MCUDPListener -----------------------------
(* Instances of UDPListener for TLC.  `part' is the instance explored:      *)
(* "sessions" has two clients of one address, three flows and no stop;      *)
(* "stop" has one client and two flows, Block requests and the stop; "all"  *)
(* is bounded by the constants only.                                        *)
EXTENDS UDPListener

CONSTANTS ip1, zoned, Parts

VARIABLE part

\* The clients share one address.
MCClientIP == [c \in Clients |-> ip1]

\* A link-local client: clientAddr.IP.String() drops the zone, the host part of
\* clientAddr.String() keeps it.
MCZonedIP == [c \in Clients |-> zoned]

\* Flow identities are names: they are taken in order.
InOrder == \A f, g \in Flows : f < g /\ owner'[g] # None => owner'[f] # None

Within ==
    /\ part = "sessions" => /\ stop' = "running" /\ callbacks' = {}
                            /\ arrived = 0 => \A i \in DOMAIN queue' : queue'[i] = 1
    /\ part = "stop" => /\ owner'[3] = None /\ arrived' <= 2 /\ callbacks' \subseteq {1}
                        /\ \A i \in DOMAIN queue' : queue'[i] = 1

MCInit == Init /\ part \in Parts

MCNext == UNCHANGED part /\ Next /\ InOrder /\ Within

MCSpec == MCInit /\ [][MCNext]_<<vars, part>> /\ Fairness
=============================================================================
