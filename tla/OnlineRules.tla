----------------------------- MODULE OnlineRules -----------------------------
(***************************************************************************)
(* Online rules: the rows and events of audit/online_rule_store.go, the    *)
(* snapshot the admission path reads (policy/online_provider.go), the      *)
(* matcher and the validator, and the RPCs of control/online_rule_api.go.  *)
(*                                                                         *)
(* A writer holds writeMu over two steps: the transaction that changes a   *)
(* row and adds its event, and the publication of the new snapshot.  The   *)
(* admission path reads between them, and a crash may fall between them.   *)
(* A refused or failed call changes nothing and has no action of its own.  *)
(*                                                                         *)
(* Times are ticks of the wall clock.  The slice the snapshot holds is its *)
(* set of rules: storeSnapshot sorts it on every write, so a scan meets    *)
(* the rules in the order Before.                                          *)
(***************************************************************************)
EXTENDS Naturals, FiniteSets

CONSTANTS
    RuleIds,        \* rule identifiers, in the order of their text
    Specs,          \* what clients ask for (OnlineRuleSpec), valid or not
    Metas,          \* the flows: client address, protocol, listener port
    UpstreamNames,  \* upstream tags a configuration may define
    MaxRules,       \* OnlineProviderOptions.MaxRules
    MaxOnlineTTL,   \* MaxOnlineRuleTTL, in ticks
    Retention,      \* age at which Prune deletes, in ticks
    MaxClock,       \* bound: last tick
    Absent

VARIABLES
    clock,      \* time.Now
    upstreams,  \* tags the running configuration defines
    rows,       \* the online_rules table
    trail,      \* the newest retained row of online_rule_events for each id
    snapshot,   \* OnlineProvider.current
    writer,     \* the holder of writeMu between its commit and its publication
    active,     \* OnlineProviderStatus.ActiveRules
    lastError   \* OnlineProviderStatus.LastError is set

onlineVars == <<clock, upstreams, rows, trail, snapshot, writer, active, lastError>>

Rule == [id : RuleIds, spec : Specs, created : Nat, expires : Nat]
Row == [rule : Rule, enabled : BOOLEAN]
Event == [op : {"create", "delete", "expire"}, at : Nat]
Writer == [op : {"create", "delete", "expire"}, add : SUBSET Rule, remove : SUBSET RuleIds]

ASSUME OnlineAssumption ==
    /\ RuleIds \subseteq Nat
    /\ MaxRules \in Nat \ {0} /\ MaxOnlineTTL \in Nat \ {0}
    /\ Retention \in Nat /\ MaxClock \in Nat
    /\ \A s \in Specs : s.priority \in Nat /\ s.ttl \in Nat
    /\ Absent \notin Rule \cup Row \cup Writer

\* The types of the tables, of the snapshot and of the pending publication.
OnlineTypeOK ==
    /\ clock \in Nat
    /\ upstreams \subseteq UpstreamNames
    /\ rows \in [RuleIds -> Row \cup {Absent}]
    /\ trail \in [RuleIds -> Event \cup {Absent}]
    /\ snapshot \subseteq Rule
    /\ writer \in Writer \cup {Absent}
    /\ active \in Nat
    /\ lastError \in BOOLEAN

OnlineInit ==
    /\ clock = 0
    /\ upstreams = UpstreamNames
    /\ rows = [i \in RuleIds |-> Absent]
    /\ trail = [i \in RuleIds |-> Absent]
    /\ snapshot = {} /\ writer = Absent /\ active = 0 /\ lastError = FALSE
-----------------------------------------------------------------------------
\* ValidateOnlineRuleSpec: the matcher constrains something, names one kind of
\* source, and the parameters are those of the action.
ValidateOnlineRuleSpec(s) ==
    /\ s.action \in {"deny", "rate_limit", "route_override"}
    /\ s.ttl \in 1..MaxOnlineTTL
    /\ \E field \in {"cidr", "ip", "protocol", "port"} : s[field] # Absent
    /\ s.cidr = Absent \/ s.ip = Absent
    /\ s.protocol \in {Absent, "tcp", "udp"}
    /\ (s.limit # Absent) <=> (s.action = "rate_limit")
    /\ (s.upstream # Absent) <=> (s.action = "route_override")

\* matchesOnlineRule: every field the matcher sets must agree with the flow.
MatchesOnlineRule(s, meta) ==
    /\ s.protocol \in {Absent, meta.protocol}
    /\ s.port \in {Absent, meta.port}
    /\ s.cidr = Absent \/ meta.addr \in s.cidr
    /\ s.ip \in {Absent, meta.addr}

\* isRuleAvailable: a route override needs its upstream in the configuration.
IsRuleAvailable(r) == r.spec.action = "route_override" => r.spec.upstream \in upstreams

\* sortRuntimeRules: priority descending, then creation time, then identifier.
Before(r, q) ==
    \/ r.spec.priority > q.spec.priority
    \/ /\ r.spec.priority = q.spec.priority
       /\ \/ r.created < q.created
          \/ r.created = q.created /\ r.id < q.id

\* matchingRules: the rules in force that match the flow, deny rules or others.
MatchingRules(meta, deny) ==
    {r \in snapshot : /\ r.expires > clock
                      /\ IsRuleAvailable(r)
                      /\ (r.spec.action = "deny") = deny
                      /\ MatchesOnlineRule(r.spec, meta)}

\* DecideDeny and DecideAction return the first matching rule, if there is one.
FirstOf(S) == IF S = {} THEN Absent ELSE CHOOSE r \in S : \A q \in S \ {r} : Before(r, q)
DecideDeny(meta) == FirstOf(MatchingRules(meta, TRUE))
DecideAction(meta) == FirstOf(MatchingRules(meta, FALSE))
-----------------------------------------------------------------------------
InForce(r) == r.expires > clock

\* BuildOnlineRule: the rule a valid request asks for, built at a time that
\* precedes the creation by the wait for writeMu.
BuildOnlineRule(id, spec, built) ==
    [id |-> id, spec |-> spec, created |-> built, expires |-> built + spec.ttl]

\* The transactions of the store: the row and its event, or nothing.
\* CreateOnlineRule inserts unless the id is taken, be it by a disabled row.
CreateOnlineRule(rule) ==
    /\ rows[rule.id] = Absent
    /\ rows' = [rows EXCEPT ![rule.id] = [rule |-> rule, enabled |-> TRUE]]
    /\ trail' = [trail EXCEPT ![rule.id] = [op |-> "create", at |-> clock]]

\* DeleteOnlineRule: the row goes, whatever its state, and a delete event is added.
DeleteOnlineRule(id) ==
    /\ rows[id] # Absent
    /\ rows' = [rows EXCEPT ![id] = Absent]
    /\ trail' = [trail EXCEPT ![id] = [op |-> "delete", at |-> clock]]

\* ExpireOnlineRule: the row is disabled and expires now, even if it was
\* disabled before, and an expire event is added.
ExpireOnlineRule(id) ==
    /\ rows[id] # Absent
    /\ rows' = [rows EXCEPT ![id] = [rule |-> [@.rule EXCEPT !.expires = clock], enabled |-> FALSE]]
    /\ trail' = [trail EXCEPT ![id] = [op |-> "expire", at |-> clock]]

Due == {i \in RuleIds : rows[i] # Absent /\ rows[i].enabled /\ rows[i].rule.expires <= clock}

\* ExpireDueOnlineRules: every rule that is due is disabled, with its event.
ExpireDueOnlineRules ==
    /\ rows' = [i \in RuleIds |-> IF i \in Due THEN [rows[i] EXCEPT !.enabled = FALSE] ELSE rows[i]]
    /\ trail' = [i \in RuleIds |-> IF i \in Due THEN [op |-> "expire", at |-> clock] ELSE trail[i]]
-----------------------------------------------------------------------------
\* The first half of a provider call that succeeds, under writeMu: the store's
\* transaction has committed, and the publication is still to come.
Committed(op, add, remove) ==
    /\ writer = Absent
    /\ writer' = [op |-> op, add |-> add, remove |-> remove]
    /\ UNCHANGED <<clock, upstreams, snapshot, active, lastError>>

\* Create: the request is validated, and the rules in force are counted under
\* writeMu before the store inserts.
Create(id, spec, built) ==
    LET rule == BuildOnlineRule(id, spec, built) IN
    /\ Committed("create", {rule}, {})
    /\ ValidateOnlineRuleSpec(spec)
    /\ spec.action = "route_override" => spec.upstream \in upstreams
    /\ Cardinality({r \in snapshot : InForce(r)}) < MaxRules
    /\ CreateOnlineRule(rule)

Delete(id) == Committed("delete", {}, {id}) /\ DeleteOnlineRule(id)

Expire(id) == Committed("expire", {}, {id}) /\ ExpireOnlineRule(id)

\* expireDue, on the ticker of Start: when no rule is due nothing is published.
ExpireDue == Due # {} /\ Committed("expire", {}, Due) /\ ExpireDueOnlineRules

\* expireDue when the transaction fails: the error is recorded, the snapshot kept.
ExpireDueFails ==
    /\ writer = Absent /\ ~lastError
    /\ lastError' = TRUE
    /\ UNCHANGED <<clock, upstreams, rows, trail, snapshot, writer, active>>

PublishKeeping ==
    /\ writer # Absent
    /\ snapshot' = snapshot \cup writer.add
    /\ active' = Cardinality(snapshot')
    /\ lastError' = (lastError /\ writer.op # "expire")
    /\ writer' = Absent
    /\ UNCHANGED <<clock, upstreams, rows, trail>>

\* storeSnapshot, setActiveRules and, after an expiry, setExpiryAt: the second
\* half of Create, Delete, Expire and expireDue, before writeMu is released.
Publish ==
    /\ writer # Absent
    /\ snapshot' = {r \in snapshot : r.id \notin writer.remove} \cup writer.add
    /\ active' = Cardinality(snapshot')
    /\ lastError' = (lastError /\ writer.op # "expire")
    /\ writer' = Absent
    /\ UNCHANGED <<clock, upstreams, rows, trail>>

\* The process stops, in order or not, and NewOnlineProvider's Refresh loads the
\* enabled unexpired rows, perhaps under a configuration with other upstreams.
Restart ==
    /\ snapshot' = {rows[i].rule : i \in {j \in RuleIds : /\ rows[j] # Absent
                                                          /\ rows[j].enabled
                                                          /\ rows[j].rule.expires > clock}}
    /\ active' = Cardinality(snapshot')
    /\ writer' = Absent /\ lastError' = FALSE
    /\ upstreams' \in SUBSET UpstreamNames
    /\ UNCHANGED <<clock, rows, trail>>

\* Store.Prune: disabled rows and events older than the retention are deleted.
Prune ==
    LET old(t) == t + Retention < clock IN
    /\ rows' = [i \in RuleIds |-> IF rows[i] # Absent /\ ~rows[i].enabled /\ old(rows[i].rule.expires)
                                  THEN Absent ELSE rows[i]]
    /\ trail' = [i \in RuleIds |-> IF trail[i] # Absent /\ old(trail[i].at) THEN Absent ELSE trail[i]]
    /\ UNCHANGED <<clock, upstreams, snapshot, writer, active, lastError>>

ClockTick ==
    /\ clock < MaxClock /\ clock' = clock + 1
    /\ UNCHANGED <<upstreams, rows, trail, snapshot, writer, active, lastError>>

\* Bound: the longest wait of a creation for writeMu, in ticks.
QueueDelay == 1

OnlineNext ==
    \/ \E id \in RuleIds : \/ \E spec \in Specs, built \in {t \in 0..clock : t + QueueDelay >= clock} : Create(id, spec, built)
                           \/ Delete(id)
                           \/ Expire(id)
    \/ ExpireDue
    \/ ExpireDueFails
    \/ Publish
    \/ Restart
    \/ Prune
    \/ ClockTick

OnlineSpec == OnlineInit /\ [][OnlineNext]_onlineVars
-----------------------------------------------------------------------------
Enabled(i) == rows[i] # Absent /\ rows[i].enabled

\* The rule of id i that the pending publication will add or remove.
InFlight(i) ==
    /\ writer # Absent
    /\ i \in writer.remove \cup {r.id : r \in writer.add}

\* The snapshot the admission path reads agrees with the table: outside a
\* publication a rule in the snapshot is an enabled row, and an enabled row that
\* has not expired is in the snapshot.  Crashes, restarts, expiry and pruning
\* never make a deleted rule act again nor silently lose one.
SnapshotFollowsStore ==
    \A i \in RuleIds : ~InFlight(i) =>
        /\ \A r \in snapshot : r.id = i => Enabled(i) /\ rows[i].rule = r
        /\ Enabled(i) /\ rows[i].rule.expires > clock => rows[i].rule \in snapshot

\* The newest retained event of a rule tells the state of its row, since both
\* are written in one transaction: created rules are enabled, deleted ones gone,
\* expired ones disabled or pruned.
TrailTellsState ==
    \A i \in RuleIds : trail[i] # Absent =>
        /\ trail[i].op = "create" => Enabled(i)
        /\ trail[i].op = "delete" => rows[i] = Absent
        /\ trail[i].op = "expire" => ~Enabled(i)

\* provider.Create never lets more than MaxRules unexpired rules be in force,
\* whatever mix of creations, expiries and restarts preceded it.
CapacityHolds == Cardinality({r \in snapshot : InForce(r)}) <= MaxRules

\* The active rule count in the status and the metric is the size of the
\* snapshot: every publication updates both.
ActiveIsSnapshot == active = Cardinality(snapshot)

\* Snapshot, rows, event trail, reported count and limit of the online rules tell the same:
\* SnapshotFollowsStore, TrailTellsState, ActiveIsSnapshot, CapacityHolds.
OnlineRulesAgree == SnapshotFollowsStore /\ TrailTellsState /\ ActiveIsSnapshot /\ CapacityHolds
=============================================================================
