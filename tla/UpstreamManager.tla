---------------------------- MODULE UpstreamManager ----------------------------
(***************************************************************************)
(* The upstreams of internal/upstream: the health of each one, which the   *)
(* probe observations drive (health.go), the dial cooldown, the resolved   *)
(* address, and the selection of an upstream for a route (upstream.go,     *)
(* routes.go, the picker of app/forwarding_adapters.go).                   *)
(*                                                                         *)
(* Time is counted in ticks.  `since' is the age of LastSuccessAt and      *)
(* `cooling' what is left of dialFailUntil.  onStateChange runs while      *)
(* UpstreamManager.mu is held: `callback' is the upstream it runs for, and *)
(* every operation that takes mu waits until it has returned.              *)
(***************************************************************************)
EXTENDS Integers, Sequences, FiniteSets, FiniteSetsExt

CONSTANTS
    Order,              \* the configured tags, in configuration order
    Priority,           \* per tag
    Routes,             \* per route: strategy, upstreams (a sequence of tags), defaultUpstream
    FailureThreshold, RecoveryThreshold,
    StaleThreshold,     \* ticks without a success before "stale"
    DialCooldown,       \* ticks
    MaxRTT,             \* bound: RTTs are 1..MaxRTT, 0 is "not measured"
    IPs,                \* addresses a host can resolve to
    None

Tags == Range(Order)
RouteNames == DOMAIN Routes

ASSUME UpstreamAssumption ==
    /\ Tags # {} /\ IsInjective(Order) /\ None \notin Tags \cup Nat \cup IPs
    /\ Priority \in [Tags -> Int]
    /\ {FailureThreshold, RecoveryThreshold} \subseteq Nat \ {0}
    /\ {StaleThreshold, DialCooldown, MaxRTT} \subseteq Nat
    /\ IPs # {}
    /\ \A r \in RouteNames :
          /\ Routes[r].strategy \in {"static", "adaptive"}
          /\ Routes[r].upstreams # <<>> /\ Range(Routes[r].upstreams) \subseteq Tags
          /\ Routes[r].strategy = "static" => Routes[r].defaultUpstream \in Range(Routes[r].upstreams)

ASSUME OrderAssumption == Order \in Seq(Tags)

VARIABLES
    health,     \* per tag: HealthSnapshot
    stats,      \* per tag: stats.HealthState as of the last refresh
    callback,   \* the tag whose onStateChange runs under mu, or None
    cooling,    \* per tag: ticks until dialFailUntil
    activeIP,   \* per tag
    overrides   \* per route: the operator's override, or None

upstreamVars == <<health, stats, callback, cooling, activeIP, overrides>>

\* The state of an upstream before its first success is the empty string.
HealthState == {"", "healthy", "down", "stale"}

HealthSnapshot ==
    [state : HealthState \ {"stale"}, rtt : 0..MaxRTT, since : 0..(StaleThreshold + 1) \cup {None},
     successes : 0..RecoveryThreshold, failures : 0..FailureThreshold]

UpstreamTypeOK ==
    /\ health \in [Tags -> HealthSnapshot]
    /\ stats \in [Tags -> HealthState]
    /\ callback \in Tags \cup {None}
    /\ cooling \in [Tags -> 0..DialCooldown]
    /\ activeIP \in [Tags -> IPs]
    /\ overrides \in [RouteNames -> Tags \cup {None}]

UpstreamInit ==
    /\ health = [t \in Tags |-> [state |-> "", rtt |-> 0, since |-> None, successes |-> 0, failures |-> 0]]
    /\ stats = [t \in Tags |-> ""]
    /\ callback = None
    /\ cooling = [t \in Tags |-> 0]
    /\ activeIP \in [Tags -> IPs]
    /\ overrides = [r \in RouteNames |-> None]

-----------------------------------------------------------------------------
(* Health.  The consecutive counters are only compared with the            *)
(* thresholds, so they stop there; the age of a success stops one past     *)
(* StaleThreshold.                                                         *)

AtMost(n, bound) == Min({n, bound})

\* time.Duration(rtt*(1-alpha) + observed*alpha): a value between the two.
EWMA(rtt, observed) ==
    IF rtt = 0 THEN {observed} ELSE Min({rtt, observed})..Max({rtt, observed})

Failed(h) ==
    LET n == AtMost(h.failures + 1, FailureThreshold)
    IN [h EXCEPT !.failures = n, !.successes = 0,
                 !.state = IF n >= FailureThreshold THEN "down" ELSE @]

SucceededEarlyRecovery(h, rtt, age) ==
    LET n == AtMost(h.successes + 1, RecoveryThreshold)
    IN [h EXCEPT !.successes = n, !.failures = 0, !.rtt = rtt, !.since = age, !.state = "healthy"]

Succeeded(h, rtt, age) ==
    LET n == AtMost(h.successes + 1, RecoveryThreshold)
    IN [h EXCEPT !.successes = n, !.failures = 0, !.rtt = rtt, !.since = age,
                 !.state = IF @ = "down" /\ n < RecoveryThreshold THEN "down" ELSE "healthy"]

\* An observation: success, its rtt (0 for a failure), and the age of ObservedAt.
ApplyObservation(h, o) ==
    IF o.success THEN {Succeeded(h, rtt, o.age) : rtt \in EWMA(h.rtt, o.rtt)} ELSE {Failed(h)}

EffectiveHealth(h) ==
    IF h.state # "down" /\ h.since # None /\ h.since > StaleThreshold THEN "stale" ELSE h.state

Refreshed == [t \in Tags |-> EffectiveHealth(health[t])]

\* Health, StatsSnapshot, Snapshot and the selection refresh the stats of all upstreams.
RefreshStats ==
    /\ callback = None
    /\ stats' = Refreshed
    /\ UNCHANGED <<health, callback, cooling, activeIP, overrides>>

\* RecordProbe and applyObservation, up to the callback.
RecordProbe(t, o) ==
    /\ callback = None
    /\ \E h \in ApplyObservation(health[t], o) :
          /\ health' = [health EXCEPT ![t] = h]
          /\ stats' = [stats EXCEPT ![t] = EffectiveHealth(h)]
          /\ callback' = IF stats[t] = EffectiveHealth(h) THEN None ELSE t
    /\ UNCHANGED <<cooling, activeIP, overrides>>

\* onStateChange returns and applyObservation releases mu.
OnStateChange ==
    /\ callback # None
    /\ callback' = None
    /\ UNCHANGED <<health, stats, cooling, activeIP, overrides>>

-----------------------------------------------------------------------------
(* Dial feedback and addresses.                                            *)

MarkDialFailure(t) ==
    /\ callback = None
    /\ DialCooldown > 0
    /\ cooling' = [cooling EXCEPT ![t] = DialCooldown]
    /\ UNCHANGED <<health, stats, callback, activeIP, overrides>>

ClearDialFailure(t) ==
    /\ callback = None
    /\ cooling' = [cooling EXCEPT ![t] = 0]
    /\ UNCHANGED <<health, stats, callback, activeIP, overrides>>

\* ips is what the host resolved to and first its first address.
UpdateResolved(t, ips, first) ==
    /\ callback = None
    /\ ips # {} /\ first \in ips
    /\ activeIP' = [activeIP EXCEPT ![t] = IF @ \in ips THEN @ ELSE first]
    /\ UNCHANGED <<health, stats, callback, cooling, overrides>>

-----------------------------------------------------------------------------
(* Selection.                                                              *)

SetOverride(r, t) ==
    /\ t \in Range(Routes[r].upstreams)
    /\ overrides' = [overrides EXCEPT ![r] = t]
    /\ UNCHANGED <<health, stats, callback, cooling, activeIP>>

ClearOverride(r) ==
    /\ overrides' = [overrides EXCEPT ![r] = None]
    /\ UNCHANGED <<health, stats, callback, cooling, activeIP>>

Selectable(t, seen) == seen[t] # "down" /\ cooling[t] = 0

HealthRank(s) == CASE s = "healthy" -> 0 [] s = "stale" -> 1 [] s = "unknown" -> 2 [] OTHER -> 3

Better(a, b, seen) ==
    LET ra == HealthRank(seen[a])  rb == HealthRank(seen[b])
        ta == health[a].rtt        tb == health[b].rtt
    IN IF ra # rb THEN ra < rb
       ELSE IF ta # tb THEN ta > 0 /\ (tb = 0 \/ ta < tb)
       ELSE Priority[a] > Priority[b]

\* selectBestLocked: one pass over the configuration order, keeping the best so far.
SelectBest(allowed, seen) ==
    LET Step(b, t) ==
            IF t \notin allowed \/ ~Selectable(t, seen) THEN b
            ELSE IF b = None \/ Better(t, b, seen) THEN t ELSE b
        best[n \in 0..Len(Order)] == IF n = 0 THEN None ELSE Step(best[n - 1], Order[n])
    IN best[Len(Order)]

SelectAdaptiveStale(tags) == SelectBest(Range(tags), stats)

\* selectUpstreamFrom refreshes every upstream first; a list of one is not ranked.
SelectAdaptiveFrom(tags) == SelectBest(Range(tags), Refreshed)

SelectStatic(t) == IF cooling[t] > 0 THEN None ELSE t

SelectOverride(t) == IF cooling[t] > 0 \/ EffectiveHealth(health[t]) = "down" THEN None ELSE t

\* RouteSelector.Pick: the tag, or None when the Flow is refused.
Pick(r) ==
    LET route == Routes[r]  o == overrides[r] IN
    IF route.strategy = "static" THEN SelectStatic(IF o = None THEN route.defaultUpstream ELSE o)
    ELSE IF o # None /\ SelectOverride(o) # None THEN o
    ELSE SelectAdaptiveFrom(route.upstreams)

\* A tick of the clock.
UpstreamTick ==
    /\ health' = [t \in Tags |->
                    [health[t] EXCEPT !.since = IF @ = None THEN None ELSE AtMost(@ + 1, StaleThreshold + 1)]]
    /\ cooling' = [t \in Tags |-> IF cooling[t] = 0 THEN 0 ELSE cooling[t] - 1]
    /\ UNCHANGED <<stats, callback, activeIP, overrides>>

\* What a prober can report: a failure, or a success some ticks old when it is applied.
Observations ==
    {[success |-> FALSE, rtt |-> 0, age |-> 0]}
    \cup [success : {TRUE}, rtt : 1..MaxRTT, age : 0..(StaleThreshold + 1)]

UpstreamNext ==
    \/ \E t \in Tags, o \in Observations : RecordProbe(t, o)
    \/ OnStateChange \/ RefreshStats \/ UpstreamTick
    \/ \E t \in Tags : MarkDialFailure(t) \/ ClearDialFailure(t)
    \/ \E t \in Tags, ips \in SUBSET IPs : \E first \in ips : UpdateResolved(t, ips, first)
    \/ \E r \in RouteNames : ClearOverride(r) \/ \E t \in Tags : SetOverride(r, t)

UpstreamSpec == UpstreamInit /\ [][UpstreamNext]_upstreamVars

-----------------------------------------------------------------------------
(* Properties.                                                             *)

\* The documented order of adaptive candidates: healthy, stale, unmeasured; lower measured RTT;
\* higher priority; configuration order.
Precedes(a, b) ==
    LET Key(t) == << CASE EffectiveHealth(health[t]) = "healthy" -> 0
                       [] EffectiveHealth(health[t]) = "stale" -> 1
                       [] OTHER -> 2,
                     IF health[t].rtt = 0 THEN MaxRTT + 1 ELSE health[t].rtt,
                     -Priority[t],
                     CHOOSE i \in DOMAIN Order : Order[i] = t >>
    IN \E i \in 1..4 : Key(a)[i] < Key(b)[i] /\ \A k \in 1..(i - 1) : Key(a)[k] = Key(b)[k]

\* An adaptive route takes its override while that is up and not cooling, else the first of its
\* own upstreams in that order that is up and not cooling, and refuses only when there is none
\* (Pick, SelectOverride, selectBestLocked against the state of the upstreams at that moment).
AdaptivePickIsBest ==
    \A r \in RouteNames : Routes[r].strategy = "adaptive" =>
        LET ready == {t \in Range(Routes[r].upstreams) : health[t].state # "down" /\ cooling[t] = 0}
        IN IF overrides[r] \in ready THEN Pick(r) = overrides[r]
           ELSE IF ready = {} THEN Pick(r) = None
           ELSE Pick(r) \in ready /\ \A t \in ready \ {Pick(r)} : Precedes(Pick(r), t)

=============================================================================
