----------------------------- MODULE MCTCPListener -----------------------------
(* Instances of TCPListener for TLC.  `part' is the instance explored:      *)
(* "conn" has one connection in full, with two Block requests, a chunk and  *)
(* the stop; "limit" has two connections for one token and the stop.        *)
EXTENDS TCPListener

VARIABLE part

\* Connections and requests are names: they are taken in order.
InOrder ==
    /\ stage'[2] # "new" => stage'[1] # "new"
    /\ requests'[2].conn # None => requests'[1].conn # None

Within ==
    /\ part = "conn" => stage'[2] = "new"
    /\ part = "limit" => UNCHANGED <<requests, read>>

MCInit == Init /\ part \in {"conn", "limit"}

MCNext == UNCHANGED part /\ Next /\ InOrder /\ Within

MCSpec == MCInit /\ [][MCNext]_<<vars, part>> /\ Fairness
=============================================================================
