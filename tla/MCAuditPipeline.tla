---------------------------- MODULE MCAuditPipeline ----------------------------
(* Instances of AuditPipeline for TLC.  `part' is the instance explored:    *)
(* "bind" has a bound flow and the shutdown; "counts" has an update, a      *)
(* rejection and the shutdown; "tags" has a bound flow and a tag operation. *)
EXTENDS AuditPipeline

CONSTANT Parts

VARIABLE part

Within ==
    /\ part \in {"bind", "counts"} => UNCHANGED tags
    /\ part \in {"bind", "tags"} => UNCHANGED <<updates, rejections>>
    /\ part = "counts" => UNCHANGED bound
    /\ part = "tags" => UNCHANGED stop

MCInit == Init /\ part \in Parts

MCNext == UNCHANGED part /\ Next /\ Within

MCSpec == MCInit /\ [][MCNext]_<<vars, part>> /\ WF_vars(GeoNext) /\ WF_vars(WriterNext)
=============================================================================
