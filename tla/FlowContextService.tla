-------------------------- MODULE FlowContextService --------------------------
(***************************************************************************)
(* The requests of the backends: flowcontext.Service.HandleRPC, the limits *)
(* and blocks it applies to Flows of the data plane through flow.Registry, *)
(* and the tags it writes into the audit store.                            *)
(*                                                                         *)
(* A request runs between the steps of the Flow it names: the forwarding   *)
(* goroutine opens it, sets its controls and binds it; whoever calls       *)
(* closeWithReason first closes it.  (Resolving a tuple to a Flow is       *)
(* FlowContextRegistry; the entity a tag operation writes is               *)
(* AuditPipeline.)  A tag is a label, one namespace and key, and a value;  *)
(* tags do not expire here.                                                *)
(***************************************************************************)
EXTENDS Naturals, FiniteSets

CONSTANTS
    ServedFlows, FlowClients, ClientOf, \* flows, client addresses, the client of each flow
    Handlers,     \* goroutines of the HTTP server
    Labels, TagValues,
    Alike,        \* Alike[l]: the labels whose tags LIKE matches with the prefix of l
    NoTag,        \* no tag, or one that was unset
    MaxRequests   \* bound: requests that are let in

ASSUME ServiceAssumption ==
    /\ ClientOf \in [ServedFlows -> FlowClients]
    /\ \A l \in Labels : l \in Alike[l] /\ Alike[l] \subseteq Labels
    /\ NoTag \notin TagValues /\ IsFiniteSet(Handlers)
    /\ MaxRequests \in Nat

VARIABLES
    conn,      \* how far the start of each flow's connection has come
    ending,    \* how far closeWithReason has come
    cause,     \* the reason it was called with
    controls,  \* flow.Registry: the flows whose controls are set
    blocks,    \* history: BlockFlow calls of each flow answered with 200
    limited,   \* flows whose limiter has the backend's override
    store,     \* the audit store is configured
    tags,      \* flow_tags and client_tags
    latest,    \* history: the value of the last event of each owner and label
    request,   \* per handler: the call it serves and its step
    budget     \* requests that are left

serviceVars == <<conn, ending, cause, controls, limited, blocks, store, tags, latest, request, budget>>

ControlCalls == {"SetFlowLimit", "ClearFlowLimit", "BlockFlow"}
SetCalls == {"SetFlowTag", "SetClientTag"}
TagCalls == SetCalls \cup {"UnsetFlowTag", "UnsetClientTag"}
RPCs == ControlCalls \cup TagCalls \cup {"ListFlowTags"}
Owners == ServedFlows \cup FlowClients
StoredTags == [owner : Owners, label : Labels, value : TagValues]

Requests ==
    [step : {"lookup", "pick", "apply", "close", "write"}, method : RPCs, flow : ServedFlows,
     usable : BOOLEAN]     \* history: the flow was bound and open when the request came
Statuses == {200, 400, 403, 404, 409, 500, 503}
Answers == [step : {"answered"}, status : Statuses,
            puzzling : BOOLEAN]   \* history: 409, though the flow was usable and is open
NoRequest == [step |-> "idle"]

ServiceTypeOK ==
    /\ conn \in [ServedFlows -> {"new", "opened", "controlled", "bound"}]
    /\ ending \in [ServedFlows -> {"no", "flagged", "unregistered", "closed", "expired"}]
    /\ cause \in [ServedFlows -> {"none", "backend_blocked", "other"}]
    /\ controls \subseteq ServedFlows /\ limited \subseteq ServedFlows
    /\ blocks \in [ServedFlows -> 0..MaxRequests]
    /\ store \in BOOLEAN
    /\ tags \subseteq StoredTags
    /\ latest \in [Owners \X Labels -> TagValues \cup {NoTag}]
    /\ \A h \in Handlers : request[h] \in {NoRequest} \cup Requests \cup Answers
    /\ budget \in 0..MaxRequests

ServiceInit ==
    /\ conn = [f \in ServedFlows |-> "new"]
    /\ ending = [f \in ServedFlows |-> "no"]
    /\ cause = [f \in ServedFlows |-> "none"]
    /\ controls = {} /\ limited = {} /\ blocks = [f \in ServedFlows |-> 0]
    /\ store \in BOOLEAN
    /\ tags = {} /\ latest = [p \in Owners \X Labels |-> NoTag]
    /\ request = [h \in Handlers |-> NoRequest]
    /\ budget = MaxRequests

dataPlaneVars == <<conn, ending, cause, controls, limited>>

---------------------------------------------------------------------------
(* The data plane *)

\* Lifecycle.Open, SetControls and Bind, in the order of tcpConn.start and createMapping.
OpenConn(f) ==
    /\ conn[f] = "new"
    /\ conn' = [conn EXCEPT ![f] = "opened"]
    /\ UNCHANGED <<ending, cause, controls, limited, blocks, store, tags, latest, request, budget>>

Registered(f) == conn[f] # "new" /\ ending[f] \in {"no", "flagged"}

SetControls(f) ==
    /\ conn[f] = "opened"
    /\ conn' = [conn EXCEPT ![f] = "controlled"]
    /\ controls' = IF Registered(f) THEN controls \cup {f} ELSE controls
    /\ UNCHANGED <<ending, cause, limited, blocks, store, tags, latest, request, budget>>

BindConn(f) ==
    /\ conn[f] = "controlled"
    /\ conn' = [conn EXCEPT ![f] = "bound"]
    /\ UNCHANGED <<ending, cause, controls, limited, blocks, store, tags, latest, request, budget>>

\* closeWithReason's critical section: the first caller closes.
Shut(f, reason) ==
    /\ ending' = [ending EXCEPT ![f] = "flagged"]
    /\ cause' = [cause EXCEPT ![f] = reason]

\* The client, the upstream, a timeout or the listener closes the flow.
CloseConn(f) ==
    /\ conn[f] # "new" /\ ending[f] = "no"
    /\ Shut(f, "other")
    /\ UNCHANGED <<conn, controls, limited, blocks, store, tags, latest, request, budget>>

\* The rest of closeWithReason: Lifecycle.Close takes the flow out of
\* flow.Registry, then the context is closed.
Unregister(f) ==
    /\ ending[f] = "flagged"
    /\ ending' = [ending EXCEPT ![f] = "unregistered"]
    /\ controls' = controls \ {f}
    /\ UNCHANGED <<conn, cause, limited, blocks, store, tags, latest, request, budget>>

CloseContext(f) ==
    /\ ending[f] = "unregistered"
    /\ ending' = [ending EXCEPT ![f] = "closed"]
    /\ UNCHANGED <<conn, cause, controls, limited, blocks, store, tags, latest, request, budget>>

\* The grace period of a closed context is over.
ExpireContext(f) ==
    /\ ending[f] = "closed"
    /\ ending' = [ending EXCEPT ![f] = "expired"]
    /\ UNCHANGED <<conn, cause, controls, limited, blocks, store, tags, latest, request, budget>>

---------------------------------------------------------------------------
(* Requests *)

\* A request that passed authenticate, the limiter and decodeBody, to the
\* methods of dispatch.  What they refuse before they look at a flow, a rate
\* of zero or a reason too long, changes nothing and is left out here.  The
\* arguments of a request are chosen where they are first looked at.
RequestComes(h, method, f) ==
    /\ budget > 0 /\ request[h].step \in {"idle", "answered"}
    /\ budget' = budget - 1
    /\ request' = [request EXCEPT ![h] = [step |-> "lookup", method |-> method, flow |-> f,
                                          usable |-> conn[f] = "bound" /\ ending[f] = "no"]]
    /\ UNCHANGED <<dataPlaneVars, blocks, store, tags, latest>>

Serving(h, step) == request[h].step = step
Proceeds(h, step) == request' = [request EXCEPT ![h] = [@ EXCEPT !.step = step]]
Answer(h, status) ==
    request' = [request EXCEPT ![h] =
        [step |-> "answered", status |-> status,
         puzzling |-> status = 409 /\ request[h].usable /\ ending[request[h].flow] = "no"]]

ContextState(f) ==
    CASE conn[f] = "new" \/ ending[f] = "expired" -> "absent"
      [] conn[f] # "new" /\ ending[f] = "closed" -> "closed"
      [] OTHER -> "active"

\* authorizedFlow, authorizedActiveFlow, controlTarget and validateTag, for
\* an identity that may be `allowed' the flow and a tag that may be `valid'.
Verdict(method, f, allowed, valid) ==
    CASE ContextState(f) = "absent" -> 404
      [] ContextState(f) # "absent" /\ ~allowed -> 403
      [] ContextState(f) = "closed" /\ allowed /\ method \in ControlCalls -> 409
      [] OTHER -> IF method \in TagCalls /\ ~valid THEN 400 ELSE IF ~store THEN 503 ELSE 200

AuthorizeFlow(h, allowed, valid) ==
    LET q == request[h]
        verdict == Verdict(q.method, q.flow, allowed, valid)
    IN
    /\ Serving(h, "lookup")
    /\ IF verdict # 200 \/ q.method = "ListFlowTags" THEN Answer(h, verdict)
       ELSE Proceeds(h, IF q.method \in ControlCalls THEN "pick" ELSE "write")
    /\ UNCHANGED <<dataPlaneVars, blocks, store, tags, latest, budget>>

\* flow.Registry.withControl: the callback is read under the lock, and called
\* after it.
PickControl(h) ==
    /\ Serving(h, "pick")
    /\ IF request[h].flow \in controls THEN Proceeds(h, "apply")
       ELSE Answer(h, 409)
    /\ UNCHANGED <<dataPlaneVars, blocks, store, tags, latest, budget>>

\* A callback that does not see that the flow is ending.
ApplyControlTwice(h) ==
    LET q == request[h] IN
    /\ Serving(h, "apply")
    /\ UNCHANGED <<conn, controls, blocks, store, tags, latest, budget>>
    /\ IF q.method = "BlockFlow"
       THEN /\ ending[q.flow] = "no" => Shut(q.flow, "backend_blocked")
            /\ ending[q.flow] # "no" => UNCHANGED <<ending, cause>>
            /\ UNCHANGED limited
            /\ Proceeds(h, "close")
       ELSE /\ limited' = IF q.method = "SetFlowLimit" THEN limited \cup {q.flow} ELSE limited \ {q.flow}
            /\ UNCHANGED <<ending, cause>>
            /\ Answer(h, 200)

\* The callback: setRateLimit, clearRateLimit or closeWithReason, under controlMu.
ApplyControl(h) ==
    LET q == request[h] IN
    /\ Serving(h, "apply")
    /\ UNCHANGED <<conn, controls, blocks, store, tags, latest, budget>>
    /\ IF ending[q.flow] # "no"
       THEN Answer(h, 409) /\ UNCHANGED <<ending, cause, limited>>
       ELSE IF q.method = "BlockFlow"
       THEN /\ Shut(q.flow, "backend_blocked")
            /\ Proceeds(h, "close")
            /\ UNCHANGED limited
       ELSE /\ limited' = IF q.method = "SetFlowLimit" THEN limited \cup {q.flow} ELSE limited \ {q.flow}
            /\ UNCHANGED <<ending, cause>>
            /\ Answer(h, 200)

\* closeWithReason returns to BlockFlow.
BlockReturns(h) ==
    /\ Serving(h, "close") /\ ending[request[h].flow] \in {"closed", "expired"}
    /\ Answer(h, 200)
    /\ blocks' = [blocks EXCEPT ![request[h].flow] = @ + 1]
    /\ UNCHANGED <<dataPlaneVars, store, tags, latest, budget>>

\* The projection only grows.
WrittenAlongside(owner, label, new) ==
    {t \in tags : ~(new = {} /\ t.owner = owner /\ t.label = label)} \cup new

\* The projection's part of ApplyFlowTag, ApplyClientTag, RemoveFlowTag and
\* RemoveClientTag: DELETE ... WHERE owner = ? AND tag LIKE prefix%, INSERT.
Written(owner, label, new) ==
    {t \in tags : t.owner # owner \/ t.label \notin Alike[label]} \cup new

\* The transaction: the event and the projection, or nothing.
WriteTag(h, label, value) ==
    LET q == request[h]
        owner == IF q.method \in {"SetFlowTag", "UnsetFlowTag"} THEN q.flow ELSE ClientOf[q.flow]
        new == IF q.method \in SetCalls THEN {[owner |-> owner, label |-> label, value |-> value]} ELSE {}
    IN
    /\ Serving(h, "write")
    /\ tags' = Written(owner, label, new)
    /\ latest' = [latest EXCEPT ![<<owner, label>>] = IF new = {} THEN NoTag ELSE value]
    /\ Answer(h, 200)
    /\ UNCHANGED <<dataPlaneVars, blocks, store, budget>>

WriteTagFails(h) ==
    /\ Serving(h, "write") /\ Answer(h, 500)
    /\ UNCHANGED <<dataPlaneVars, blocks, store, tags, latest, budget>>

CloseStep(f) == Unregister(f) \/ CloseContext(f)

RequestStep(h) ==
    \/ \E allowed \in BOOLEAN, valid \in BOOLEAN : AuthorizeFlow(h, allowed, valid)
    \/ PickControl(h) \/ ApplyControl(h) \/ BlockReturns(h) \/ WriteTagFails(h)
    \/ \E label \in Labels, value \in TagValues : WriteTag(h, label, value)

ServiceNext ==
    \/ \E f \in ServedFlows :
         OpenConn(f) \/ SetControls(f) \/ BindConn(f) \/ CloseConn(f) \/ CloseStep(f) \/ ExpireContext(f)
    \/ \E h \in Handlers :
         RequestStep(h) \/ \E method \in RPCs, f \in ServedFlows : RequestComes(h, method, f)

ServiceSpec == ServiceInit /\ [][ServiceNext]_serviceVars

---------------------------------------------------------------------------
(* Properties *)

\* "Control application is exactly-once at the data plane; repeating
\* BlockFlow, or racing a control request with Flow close, returns 409 when
\* the operation was not applied" (api.md:217-219): one BlockFlow succeeds, or
\* is about to, exactly when a backend is what closed the flow.
BlockAppliedOnce ==
    \A f \in ServedFlows :
        blocks[f] + Cardinality({h \in Handlers : Serving(h, "close") /\ request[h].flow = f})
            = (IF cause[f] = "backend_blocked" THEN 1 ELSE 0)

\* A backend that has resolved a flow, so that it was bound, gets no 409 from
\* a control unless the flow is really ending: SetControls precedes Bind.
NoFalseConflict ==
    \A h \in Handlers : Serving(h, "answered") => ~request[h].puzzling

\* "setting a tag first removes an older value for the same pair so labels
\* have replacement semantics rather than accumulating stale values"
\* (tag_store.go:237-239): a stored tag is the last one that was set.
LabelsReplace ==
    \A t \in tags : t.value = latest[<<t.owner, t.label>>]

\* A label that no other one's pattern matches is stored exactly as it was
\* last set or unset.
PlainLabelsExact ==
    \A o \in Owners, l \in Labels :
        (\A k \in Labels \ {l} : l \notin Alike[k]) =>
            {t.value : t \in {u \in tags : u.owner = o /\ u.label = l}} = {latest[<<o, l>>]} \ {NoTag}

\* What a backend is told of its controls is what happened: BlockAppliedOnce, NoFalseConflict.
ControlAnswersAreTrue == BlockAppliedOnce /\ NoFalseConflict

\* Labels have replacement semantics (LabelsReplace), and nothing but a pattern that matches
\* another label's tags takes a tag away (PlainLabelsExact).
TagsReplace == LabelsReplace /\ PlainLabelsExact
=============================================================================
