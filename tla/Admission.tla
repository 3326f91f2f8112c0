------------------------------ MODULE Admission ------------------------------
(***************************************************************************)
(* Admission of a flow, firewallPolicy.Decide in app/forwarding_adapters.go *)
(* composed with the online rules and the persistent policy it consults.   *)
(*                                                                         *)
(* Decide reads three times: the snapshot for deny rules, the persistent   *)
(* policy, the snapshot again for other actions.  Rules are created,       *)
(* deleted, expired and published, the policy and the GeoIP databases are  *)
(* reloaded, and time passes, between the reads.                           *)
(***************************************************************************)
EXTENDS OnlineRules, FirewallPolicy

CONSTANTS
    ASNOf,      \* the databases: address to AS number
    CountryOf   \* and to country

VARIABLES
    geo,    \* which databases are loaded
    flow    \* the flow being decided, with what has been true since it arrived

admissionVars == <<onlineVars, fwVars, geo, flow>>

Idle == [step |-> "idle"]
Deciding == [step : {"deny", "persistent", "action"}, meta : Metas, raced : BOOLEAN,
             denyAll : BOOLEAN, denySome : BOOLEAN, fwAll : BOOLEAN, fwSome : BOOLEAN]
Decided == [step : {"done"}, allowed : BOOLEAN, rule : Rule \cup {Absent}, raced : BOOLEAN,
            denyAll : BOOLEAN, denySome : BOOLEAN, fwAll : BOOLEAN, fwSome : BOOLEAN]

\* The types of both policies and of the flow.
AdmissionTypeOK ==
    /\ OnlineTypeOK /\ PolicyFileTypeOK
    /\ geo \subseteq {"asn", "country"}
    /\ flow \in {Idle} \cup Deciding \cup Decided

AdmissionInit == OnlineInit /\ PolicyFileInit /\ geo \in SUBSET {"asn", "country"} /\ flow = Idle

LookupResult(addr, dbs) ==
    [asn |-> IF "asn" \in dbs THEN ASNOf[addr] ELSE Unset,
     country |-> IF "country" \in dbs THEN CountryOf[addr] ELSE Unset]

\* History: whether an online deny rule, and the persistent policy, deny the flow now.
OnlineDenies(meta) == MatchingRules(meta, TRUE) # {}
PersistentDenies(meta) == ~EngineAllows(current.doc, meta.addr, LookupResult(meta.addr, geo))

Deliberating == flow.step \in {"deny", "persistent", "action"}

\* While the flow is being decided, other steps are seen by its history.
Watch(race) ==
    IF Deliberating
    THEN \E meta \in {flow.meta} :
             flow' = [flow EXCEPT !.denyAll = @ /\ OnlineDenies(meta)', !.denySome = @ \/ OnlineDenies(meta)',
                                  !.fwAll = @ /\ PersistentDenies(meta)', !.fwSome = @ \/ PersistentDenies(meta)',
                                  !.raced = @ \/ race]
    ELSE UNCHANGED flow

Arrives(meta) ==
    /\ flow = Idle
    /\ flow' = [step |-> "deny", meta |-> meta, raced |-> FALSE,
                denyAll |-> OnlineDenies(meta), denySome |-> OnlineDenies(meta),
                fwAll |-> PersistentDenies(meta), fwSome |-> PersistentDenies(meta)]
    /\ UNCHANGED <<onlineVars, fwVars, geo>>

Decision(allowed, rule) ==
    flow' = [step |-> "done", allowed |-> allowed, rule |-> rule, raced |-> flow.raced,
             denyAll |-> flow.denyAll, denySome |-> flow.denySome, fwAll |-> flow.fwAll, fwSome |-> flow.fwSome]

\* Decide, first read: an online deny rule ends the decision.
DecidesDeny ==
    /\ flow.step = "deny"
    /\ LET rule == DecideDeny(flow.meta) IN
       IF rule # Absent THEN Decision(FALSE, rule) ELSE flow' = [flow EXCEPT !.step = "persistent"]
    /\ UNCHANGED <<onlineVars, fwVars, geo>>

DecidesPersistentLate ==
    /\ flow.step = "persistent"
    /\ \E found \in (IF flow.raced THEN SUBSET geo ELSE {geo}) :
           IF ~EngineAllows(current.doc, flow.meta.addr, LookupResult(flow.meta.addr, found))
              /\ DecideAction(flow.meta) = Absent
           THEN Decision(FALSE, Absent)
           ELSE flow' = [flow EXCEPT !.step = "action"]
    /\ UNCHANGED <<onlineVars, fwVars, geo>>

\* Second read: the persistent policy.  A lookup that a reload of the databases
\* overtook may have lost fields (GeoIPManager).
DecidesPersistent ==
    /\ flow.step = "persistent"
    /\ \E found \in (IF flow.raced THEN SUBSET geo ELSE {geo}) :
           IF EngineAllows(current.doc, flow.meta.addr, LookupResult(flow.meta.addr, found))
           THEN flow' = [flow EXCEPT !.step = "action"]
           ELSE Decision(FALSE, Absent)
    /\ UNCHANGED <<onlineVars, fwVars, geo>>

\* Third read: another action, or the persistent policy's consent.
DecidesAction ==
    /\ flow.step = "action"
    /\ Decision(TRUE, DecideAction(flow.meta))
    /\ UNCHANGED <<onlineVars, fwVars, geo>>

Leaves ==
    /\ flow.step = "done" /\ flow' = Idle
    /\ UNCHANGED <<onlineVars, fwVars, geo>>

OnlineStep == OnlineNext /\ UNCHANGED <<fwVars, geo>> /\ Watch(FALSE)
PolicyFileStep == PolicyFileNext /\ UNCHANGED <<onlineVars, geo>> /\ Watch(FALSE)

\* ReloadGeoIP: both databases are loaded afterwards.
GeoReloads ==
    /\ geo' = {"asn", "country"}
    /\ UNCHANGED <<onlineVars, fwVars>>
    /\ Watch(TRUE)

FlowNext ==
    \/ \E meta \in Metas : Arrives(meta)
    \/ DecidesDeny
    \/ DecidesPersistent
    \/ DecidesAction
    \/ Leaves

PolicyNext == OnlineStep \/ PolicyFileStep \/ GeoReloads

AdmissionNext == FlowNext \/ PolicyNext

AdmissionSpec == AdmissionInit /\ [][AdmissionNext]_admissionVars
-----------------------------------------------------------------------------
\* "Online deny cannot be bypassed": a flow is not admitted if an online deny
\* rule applied to it all along, or if the persistent policy refused it all
\* along, although Decide reads them at different moments.
DenyHoldsThroughout ==
    flow.step = "done" /\ flow.allowed =>
        /\ ~flow.denyAll
        /\ flow.fwAll => flow.raced

\* A refusal has a cause that held while the flow was being decided: an online
\* deny rule in force, or the persistent policy in use.
RefusalsHaveCause ==
    flow.step = "done" /\ ~flow.allowed => flow.denySome \/ flow.fwSome \/ flow.raced

\* An expired or withdrawn upstream's rule never shapes a flow: the rule that
\* decided was unexpired and available when it did.
DecidingRuleInForce ==
    [][(flow'.step = "done" /\ flow.step # "done" /\ flow'.rule # Absent) =>
        /\ flow'.rule \in snapshot
        /\ flow'.rule.expires > clock
        /\ \A r \in snapshot : r.expires > clock /\ Before(r, flow'.rule)
                               /\ (r.spec.action = "deny") = ~flow'.allowed /\ IsRuleAvailable(r)
               => ~MatchesOnlineRule(r.spec, flow.meta)]_admissionVars

\* Every decision is justified by what was in force while it was made: DenyHoldsThroughout,
\* RefusalsHaveCause, DecidingRuleInForce.
DecisionsAreJustified == [](DenyHoldsThroughout /\ RefusalsHaveCause) /\ DecidingRuleInForce
=============================================================================
