------------------------ MODULE MCFlowContextRegistry -------------------------
(* Instances of FlowContextRegistry for TLC.  `part' is the instance        *)
(* explored: "index" has three flows on two tuples and a snapshot loop that *)
(* keeps up; "snapshots" has two flows on one tuple and every delay of the  *)
(* snapshots.                                                               *)
EXTENDS FlowContextRegistry

VARIABLE part

SnapshotStep == PublishSnapshot \/ \E t \in Flows \X Threads : EmitSnapshot(t)
Pending == snapshotCh # <<>> \/ \E t \in Flows \X Threads : emits[t] # <<>>

\* Flow identities are names: the flows open in order.
InOrder == \A f, g \in Flows : f < g /\ caller'[g] # "new" => caller'[f] # "new"

Within ==
    /\ part = "index" =>
        IF shutdown = "up" THEN Pending => SnapshotStep ELSE UNCHANGED <<caller, gen>>
    /\ part = "snapshots" =>
        /\ caller'[3] = "new"
        /\ \A f \in Flows : tuple'[f] # 2 /\ gen'[f] < 2
        /\ \A r \in Resolvers : want'[r] # 2

MCInit == Init /\ part \in {"index", "snapshots"}

MCNext == UNCHANGED part /\ Next /\ InOrder /\ Within

MCSpec == MCInit /\ [][MCNext]_<<vars, part>> /\ Fairness
=============================================================================
