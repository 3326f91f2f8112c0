-------------------------- MODULE UpstreamAlertsProofs -------------------------
(***************************************************************************)
(* Proofs about the way from probe to alert, for every set of upstreams,   *)
(* all thresholds and intervals, and probes that end in any order.         *)
(*                                                                         *)
(* None of the three properties is inductive.  The stats and the health    *)
(* agree on what is down because a refresh only makes "stale" of what is   *)
(* up (StatsInv).  The policy agrees with both except for the upstream     *)
(* whose callback runs (KnowsInv), and it keeps a timer for each outage    *)
(* because no two upstreams share one: a recovery stops a timer by what    *)
(* its own state refers to (TimerInv).  The counters of consecutive        *)
(* outcomes measure the runs of the outcomes themselves, up to their       *)
(* thresholds (RunInv).                                                    *)
(***************************************************************************)
EXTENDS UpstreamAlerts, TLAPS

Probers == {"loop", "rpc"}
Results == [success : BOOLEAN, rtt : Nat, age : Nat]
ProberRecord == [step : {"idle", "probing", "observed", "notifying", "recorded", "stopped"}, job : Jobs \cup {None},
                 result : Results \cup {None}, stats : HealthState \cup {None}]
HealthRecord == [state : {"", "healthy", "down"}, rtt : Nat, since : Nat \cup {None},
                 successes : 0..RecoveryThreshold, failures : 0..FailureThreshold]

\* A prober that has begun has a job, and one whose probe has ended a result.
ProberAt(p) ==
    /\ prober[p].step \in {"probing", "observed"} => prober[p].job \in Jobs
    /\ prober[p].step = "observed" => prober[p].result \in Results

ProbeTypes == prober \in [Probers -> ProberRecord] /\ \A p \in Probers : ProberAt(p)

HealthTypes ==
    /\ health \in [Tags -> HealthRecord]
    /\ stats \in [Tags -> HealthState]
    /\ callback \in Tags \cup {None}

\* The two copies of the health agree on what is down, whatever refreshes have made of the rest.
StatsInv == \A t \in Tags : stats[t] = "down" <=> health[t].state = "down"

CollectorInv == ProbeTypes /\ HealthTypes /\ StatsInv

\* The thresholds are at least one.
LEMMA ThresholdsAre == FailureThreshold \in Nat \ {0} /\ RecoveryThreshold \in Nat \ {0} /\ StaleThreshold \in Nat
  BY UpstreamAssumption, Zenon

\* RTTs are numbers.
LEMMA RTTsAre == ProbeRTTs \subseteq Nat
<1>1. ProbeRTTs \subseteq 1..MaxRTT
  BY MeasureAssumption, Zenon
<1> QED BY <1>1

\* The smaller of two numbers, and of a run's length and its threshold.
LEMMA AtMostIs ==
    ASSUME NEW n \in Nat, NEW bound \in Nat
    PROVE  AtMost(n, bound) = IF n <= bound THEN n ELSE bound
  BY DEF AtMost, Min

\* An estimate between two numbers is a number.
LEMMA EWMAIs ==
    ASSUME NEW rtt \in Nat, NEW observed \in Nat
    PROVE  EWMA(rtt, observed) \subseteq Nat
<1>1. Min({rtt, observed}) \in Nat /\ Max({rtt, observed}) \in Nat
  BY DEF Min, Max
<1> QED BY <1>1 DEF EWMA

\* Staleness does not touch what is down.
LEMMA EffectiveIs ==
    ASSUME NEW h \in HealthRecord
    PROVE  EffectiveHealth(h) \in HealthState /\ (EffectiveHealth(h) = "down" <=> h.state = "down")
  BY DEF EffectiveHealth, HealthState, HealthRecord

\* What an observation makes of an upstream's health: a success,
LEMMA SucceededIs ==
    ASSUME NEW h \in HealthRecord, NEW rtt \in Nat, NEW age \in Nat
    PROVE  /\ Succeeded(h, rtt, age) \in HealthRecord
           /\ Succeeded(h, rtt, age).failures = 0
           /\ Succeeded(h, rtt, age).successes
                = IF h.successes < RecoveryThreshold THEN h.successes + 1 ELSE RecoveryThreshold
           /\ Succeeded(h, rtt, age).state
                = IF h.state = "down" /\ h.successes + 1 < RecoveryThreshold THEN "down" ELSE "healthy"
<1> DEFINE n == IF h.successes < RecoveryThreshold THEN h.successes + 1 ELSE RecoveryThreshold
<1>1. h.successes \in 0..RecoveryThreshold /\ RecoveryThreshold \in Nat \ {0} /\ 0 \in 0..FailureThreshold
  <2>1. h.successes \in 0..RecoveryThreshold
    BY DEF HealthRecord
  <2> QED BY <2>1, ThresholdsAre
<1>2. AtMost(h.successes + 1, RecoveryThreshold) = n
  BY <1>1, AtMostIs
<1>3. n \in 0..RecoveryThreshold /\ (n < RecoveryThreshold <=> h.successes + 1 < RecoveryThreshold)
  BY <1>1
<1> HIDE DEF n
<1>4. PICK state \in {"down", "healthy"} : state = IF h.state = "down" /\ n < RecoveryThreshold THEN "down" ELSE "healthy"
  BY Zenon
<1>5. Succeeded(h, rtt, age) =
        [h EXCEPT !.successes = n, !.failures = 0, !.rtt = rtt, !.since = age, !.state = state]
  BY <1>2, <1>4, Zenon DEF Succeeded
<1>6. /\ Succeeded(h, rtt, age) \in HealthRecord
      /\ Succeeded(h, rtt, age).failures = 0 /\ Succeeded(h, rtt, age).successes = n
      /\ Succeeded(h, rtt, age).state = state
  BY <1>1, <1>3, <1>5, ZenonT(60) DEF HealthRecord
<1>7. state = IF h.state = "down" /\ h.successes + 1 < RecoveryThreshold THEN "down" ELSE "healthy"
  BY <1>3, <1>4, Zenon
<1> QED BY <1>6, <1>7, Zenon DEF n

\* ... a failure,
LEMMA FailedIs ==
    ASSUME NEW h \in HealthRecord
    PROVE  /\ Failed(h) \in HealthRecord
           /\ Failed(h).successes = 0
           /\ Failed(h).failures = IF h.failures < FailureThreshold THEN h.failures + 1 ELSE FailureThreshold
           /\ Failed(h).state = IF h.failures + 1 >= FailureThreshold THEN "down" ELSE h.state
<1> DEFINE n == IF h.failures < FailureThreshold THEN h.failures + 1 ELSE FailureThreshold
<1>1. h.failures \in 0..FailureThreshold /\ FailureThreshold \in Nat \ {0} /\ 0 \in 0..RecoveryThreshold
  <2>1. h.failures \in 0..FailureThreshold
    BY DEF HealthRecord
  <2> QED BY <2>1, ThresholdsAre
<1>2. AtMost(h.failures + 1, FailureThreshold) = n
  BY <1>1, AtMostIs
<1>3. n \in 0..FailureThreshold /\ (n >= FailureThreshold <=> h.failures + 1 >= FailureThreshold)
  BY <1>1
<1> HIDE DEF n
<1>4. h.state \in {"", "healthy", "down"}
  BY DEF HealthRecord
<1>5. PICK state \in {"", "healthy", "down"} : state = IF n >= FailureThreshold THEN "down" ELSE h.state
  BY <1>4, Zenon
<1>6. Failed(h) = [h EXCEPT !.failures = n, !.successes = 0, !.state = state]
  BY <1>2, <1>5, Zenon DEF Failed
<1>7. /\ Failed(h) \in HealthRecord
      /\ Failed(h).successes = 0 /\ Failed(h).failures = n /\ Failed(h).state = state
  BY <1>1, <1>3, <1>6 DEF HealthRecord
<1>8. state = IF h.failures + 1 >= FailureThreshold THEN "down" ELSE h.state
  BY <1>3, <1>5, Zenon
<1> QED BY <1>7, <1>8, Zenon DEF n

\* ... and either of the two.
LEMMA ObservationIs ==
    ASSUME NEW h \in HealthRecord, NEW o \in Results, NEW k \in ApplyObservation(h, o)
    PROVE  /\ k \in HealthRecord
           /\ o.success => \E rtt \in Nat : k = Succeeded(h, rtt, o.age)
           /\ ~o.success => k = Failed(h)
<1>1. o.rtt \in Nat /\ o.age \in Nat /\ h.rtt \in Nat
  BY DEF Results, HealthRecord
<1>2. EWMA(h.rtt, o.rtt) \subseteq Nat
  BY <1>1, EWMAIs, Zenon
<1>3. CASE o.success
  <2>1. PICK rtt \in Nat : k = Succeeded(h, rtt, o.age)
    BY <1>2, <1>3, Zenon DEF ApplyObservation
  <2> QED BY <1>1, <1>3, <2>1, SucceededIs, Zenon
<1>4. CASE ~o.success
  BY <1>4, FailedIs, Zenon DEF ApplyObservation
<1> QED BY <1>3, <1>4, Zenon
-----------------------------------------------------------------------------
\* The collector and the manager.

\* One prober moves.
LEMMA ProberMoves ==
    ASSUME ProbeTypes, NEW p \in Probers, NEW q \in ProberRecord, prober' = [prober EXCEPT ![p] = q],
           q.step \in {"probing", "observed"} => q.job \in Jobs, q.step = "observed" => q.result \in Results
    PROVE  ProbeTypes'
  BY Zenon DEF ProbeTypes, ProberAt

\* The record of a prober that has nothing to do.
LEMMA IdleIs == Idle \in ProberRecord /\ Idle.step \notin {"probing", "observed"} /\ Idle.step # "observed"
  BY DEF Idle, ProberRecord

\* The stats of all upstreams are refreshed, or none, and the health stays.
LEMMA RefreshKeeps ==
    ASSUME HealthTypes, StatsInv, UNCHANGED <<health, callback>>, UNCHANGED stats \/ stats' = Refreshed
    PROVE  HealthTypes' /\ StatsInv'
<1>1. CASE UNCHANGED stats
  BY <1>1, Zenon DEF HealthTypes, StatsInv
<1>2. CASE stats' = Refreshed
  <2>1. \A t \in Tags : stats'[t] = EffectiveHealth(health[t]) /\ health[t] \in HealthRecord
    BY <1>2, Zenon DEF Refreshed, HealthTypes
  <2>2. \A t \in Tags : stats'[t] \in HealthState /\ (stats'[t] = "down" <=> health[t].state = "down")
    BY <2>1, EffectiveIs, Zenon
  <2>3. stats' \in [Tags -> HealthState]
    BY <1>2, <2>2, Zenon DEF Refreshed
  <2> QED BY <2>2, <2>3, Zenon DEF HealthTypes, StatsInv
<1> QED BY <1>1, <1>2, Zenon

\* A probe starts.
LEMMA StartTypes ==
    ASSUME ProbeTypes, NEW p \in Probers, NEW job \in Jobs, StartProbe(p, job)
    PROVE  ProbeTypes'
<1>1. PICK q : q = [Idle EXCEPT !.step = "probing", !.job = job]
  OBVIOUS
<1>2. q \in ProberRecord /\ q.step = "probing" /\ q.job = job
  BY <1>1, ZenonT(60) DEF Idle, ProberRecord
<1>3. prober' = [prober EXCEPT ![p] = q]
  BY <1>1, Zenon DEF StartProbe
<1> QED BY <1>2, <1>3, ProberMoves, Zenon

\* The steps of the probers that do not touch the health.
ProberWorks ==
    \/ \E p \in Probers : ProbeEnds(p)
    \/ LoopTurn \/ FinishLoop \/ FinishRPC \/ LoopStops \/ Cancel
    \/ \E j \in Jobs : RunMeasurement(j)

\* They keep the invariant and the health.
LEMMA ProberWorksInv ==
    ASSUME CollectorInv, ProberWorks
    PROVE  CollectorInv' /\ UNCHANGED <<health, callback>>
<1> USE DEF CollectorInv
<1>1. UNCHANGED <<health, callback>> /\ (UNCHANGED stats \/ stats' = Refreshed)
  BY Zenon DEF ProberWorks, ProbeEnds, LoopTurn, FinishLoop, FinishRPC, LoopStops, Cancel, RunMeasurement,
               SyncUpstreamMetrics, upstreamVars
<1>2. HealthTypes' /\ StatsInv'
  BY <1>1, RefreshKeeps, Zenon
<1>3. ASSUME NEW p \in Probers, ProbeEnds(p)
      PROVE  ProbeTypes'
  <2>1. PICK r \in {[success |-> FALSE, rtt |-> 0, age |-> 0]}
                    \cup {[success |-> TRUE, rtt |-> x, age |-> 0] : x \in ProbeRTTs} :
          prober' = [prober EXCEPT ![p] = [@ EXCEPT !.step = "observed", !.result = r]]
    BY <1>3, Zenon DEF ProbeEnds
  <2>2. r \in Results
    <3>1. CASE r = [success |-> FALSE, rtt |-> 0, age |-> 0]
      BY <3>1 DEF Results
    <3>2. ASSUME NEW x \in ProbeRTTs, r = [success |-> TRUE, rtt |-> x, age |-> 0]
          PROVE  r \in Results
      <4>1. x \in Nat
        BY RTTsAre, Zenon
      <4> QED BY <3>2, <4>1 DEF Results
    <3> QED BY <3>1, <3>2, Zenon
  <2>3. PICK q : q = [prober[p] EXCEPT !.step = "observed", !.result = r]
    OBVIOUS
  <2>4. prober[p] \in ProberRecord /\ prober[p].job \in Jobs
    BY <1>3, Zenon DEF ProbeTypes, ProberAt, ProbeEnds
  <2>5. q \in ProberRecord /\ q.job \in Jobs /\ q.result \in Results
    BY <2>2, <2>3, <2>4, ZenonT(60) DEF ProberRecord
  <2> QED BY <2>1, <2>3, <2>5, ProberMoves, Zenon
<1>4. ASSUME LoopTurn
      PROVE  ProbeTypes'
  <2>1. UNCHANGED prober \/ \E job \in Jobs : StartProbe("loop", job)
    BY <1>4, Zenon DEF LoopTurn
  <2>2. CASE prober' = prober
    BY <2>2, Zenon DEF ProbeTypes, ProberAt
  <2>3. "loop" \in Probers
    BY Zenon DEF Probers
  <2> QED BY <2>1, <2>2, <2>3, StartTypes, Zenon
<1>5. ASSUME FinishLoop \/ FinishRPC
      PROVE  ProbeTypes'
  <2>1. PICK p \in Probers : prober' = [prober EXCEPT ![p] = Idle]
    BY <1>5, Zenon DEF FinishLoop, FinishRPC, Probers
  <2> QED BY <2>1, IdleIs, ProberMoves, Zenon
<1>6. ASSUME LoopStops
      PROVE  ProbeTypes'
  <2>1. PICK q : q = [prober["loop"] EXCEPT !.step = "stopped"]
    BY Zenon
  <2>2. prober["loop"] \in ProberRecord /\ "loop" \in Probers
    BY Zenon DEF ProbeTypes, Probers
  <2>3. q \in ProberRecord /\ q.step \notin {"probing", "observed"} /\ q.step # "observed"
    BY <2>1, <2>2 DEF ProberRecord
  <2>4. prober' = [prober EXCEPT !["loop"] = q]
    BY <1>6, <2>1, Zenon DEF LoopStops
  <2> QED BY <2>2, <2>3, <2>4, ProberMoves, Zenon
<1>7. ASSUME Cancel
      PROVE  ProbeTypes'
  <2>1. prober' = prober
    BY <1>7, Zenon DEF Cancel
  <2> QED BY <2>1, Zenon DEF ProbeTypes, ProberAt
<1>8. ASSUME NEW j \in Jobs, RunMeasurement(j)
      PROVE  ProbeTypes'
  BY <1>8, StartTypes, Zenon DEF RunMeasurement, Probers
<1>9. ProbeTypes'
  BY <1>3, <1>4, <1>5, <1>6, <1>7, <1>8, Zenon DEF ProberWorks
<1> QED BY <1>1, <1>2, <1>9, Zenon

\* Time passes: nothing goes down or comes up.
LEMMA TickInv ==
    ASSUME CollectorInv, UpstreamTick, MeasureTick
    PROVE  CollectorInv' /\ UNCHANGED callback
           /\ \A t \in Tags : /\ health'[t].state = health[t].state /\ health'[t].failures = health[t].failures
                             /\ health'[t].successes = health[t].successes
<1>0. StaleThreshold \in Nat
  BY ThresholdsAre
<1>1. ASSUME NEW t \in Tags
      PROVE  /\ health'[t] \in HealthRecord /\ health'[t].state = health[t].state
             /\ health'[t].failures = health[t].failures /\ health'[t].successes = health[t].successes
  <2>1. PICK n : n = IF health[t].since = None THEN None ELSE AtMost(health[t].since + 1, StaleThreshold + 1)
    OBVIOUS
  <2>2. health[t] \in HealthRecord
    BY Zenon DEF CollectorInv, HealthTypes
  <2>3. health[t].since \in Nat \cup {None}
    BY <2>2 DEF HealthRecord
  <2>4. n \in Nat \cup {None}
    BY <1>0, <2>1, <2>3, AtMostIs
  <2>5. health'[t] = [health[t] EXCEPT !.since = n]
    BY <2>1, Zenon DEF UpstreamTick
  <2> QED BY <2>2, <2>4, <2>5 DEF HealthRecord
<1>2. health' \in [Tags -> HealthRecord] /\ UNCHANGED <<stats, callback>>
  BY <1>1, Zenon DEF UpstreamTick
<1>3. HealthTypes' /\ StatsInv'
  BY <1>1, <1>2, Zenon DEF CollectorInv, HealthTypes, StatsInv
<1>4. ASSUME NEW p \in Probers
      PROVE  prober'[p] \in ProberRecord /\ ProberAt(p)'
  <2>1. prober[p] \in ProberRecord /\ DOMAIN prober = Probers /\ ProberAt(p)
    BY Zenon DEF CollectorInv, ProbeTypes
  <2>2. CASE prober[p].step # "observed"
    <3>1. prober'[p] = prober[p]
      BY <2>1, <2>2, Zenon DEF MeasureTick
    <3> QED BY <2>1, <3>1, Zenon DEF ProberAt
  <2>3. CASE prober[p].step = "observed"
    <3>1. PICK r : r = Aged(prober[p].result)
      BY Zenon
    <3>2. prober[p].result \in Results /\ prober[p].job \in Jobs
      BY <2>1, <2>3, Zenon DEF ProberAt
    <3>3. AtMost(prober[p].result.age + 1, StaleThreshold + 1) \in Nat
      <4>1. prober[p].result.age \in Nat
        BY <3>2 DEF Results
      <4> QED BY <1>0, <4>1, AtMostIs
    <3>4. r \in Results
      BY <3>1, <3>2, <3>3 DEF Results, Aged
    <3>5. prober'[p] = [prober[p] EXCEPT !.result = r]
      BY <2>1, <2>3, <3>1, Zenon DEF MeasureTick
    <3>6. prober'[p] \in ProberRecord /\ prober'[p].job = prober[p].job /\ prober'[p].result = r
      BY <2>1, <3>4, <3>5 DEF ProberRecord
    <3> QED BY <3>2, <3>4, <3>6, Zenon DEF ProberAt
  <2> QED BY <2>2, <2>3, Zenon
<1>5. prober' = [p \in Probers |-> prober'[p]]
  BY Zenon DEF MeasureTick, CollectorInv, ProbeTypes
<1>6. ProbeTypes'
  BY <1>4, <1>5, Zenon DEF ProbeTypes
<1> QED BY <1>1, <1>2, <1>3, <1>6, Zenon DEF CollectorInv

\* applyObservation returns to its prober.
LEMMA NotifyReturnsInv ==
    ASSUME CollectorInv, NotifyReturns
    PROVE  CollectorInv' /\ UNCHANGED <<health, stats>> /\ callback' = None
<1>1. UNCHANGED <<health, stats>> /\ callback' = None
  BY Zenon DEF NotifyReturns, OnStateChange
<1>2. HealthTypes' /\ StatsInv'
  BY <1>1, Zenon DEF CollectorInv, HealthTypes, StatsInv
<1>3. ASSUME NEW p \in Probers
      PROVE  prober'[p] \in ProberRecord /\ ProberAt(p)'
  <2>1. prober[p] \in ProberRecord /\ DOMAIN prober = Probers /\ ProberAt(p)
    BY Zenon DEF CollectorInv, ProbeTypes
  <2>2. CASE prober[p].step # "notifying"
    <3>1. prober'[p] = prober[p]
      BY <2>1, <2>2, Zenon DEF NotifyReturns
    <3> QED BY <2>1, <3>1, Zenon DEF ProberAt
  <2>3. CASE prober[p].step = "notifying"
    <3>1. prober'[p] = [prober[p] EXCEPT !.step = "recorded"]
      BY <2>1, <2>3, Zenon DEF NotifyReturns
    <3>2. prober'[p] \in ProberRecord /\ prober'[p].step = "recorded"
      BY <2>1, <3>1 DEF ProberRecord
    <3> QED BY <3>2, Zenon DEF ProberAt
  <2> QED BY <2>2, <2>3, Zenon
<1>4. prober' = [p \in Probers |-> prober'[p]]
  BY Zenon DEF NotifyReturns, CollectorInv, ProbeTypes
<1>5. ProbeTypes'
  BY <1>3, <1>4, Zenon DEF ProbeTypes
<1> QED BY <1>1, <1>2, <1>5, Zenon DEF CollectorInv

\* RecordProbe changes the health of one upstream, and calls back when its state changes.
LEMMA RecordResultInv ==
    ASSUME CollectorInv, NEW p \in Probers, RecordResult(p)
    PROVE  /\ CollectorInv' /\ callback = None
           /\ \E t \in Tags, o \in Results :
                /\ t = prober[p].job.tag /\ o = prober[p].result
                /\ health'[t] \in ApplyObservation(health[t], o) /\ \A u \in Tags \ {t} : health'[u] = health[u]
                /\ callback' = t \/ (callback' = None /\ (health'[t].state = "down" <=> health[t].state = "down"))
<1>1. prober[p] \in ProberRecord /\ prober[p].job \in Jobs /\ prober[p].result \in Results
  BY Zenon DEF CollectorInv, ProbeTypes, ProberAt, RecordResult
<1>2. PICK t \in Tags : t = prober[p].job.tag
  BY <1>1 DEF Jobs
<1>3. PICK o \in Results : o = prober[p].result
  BY <1>1, Zenon
<1>4. callback = None /\ RecordProbe(t, o)
  BY <1>2, <1>3, Zenon DEF RecordResult, RecordProbe
<1>5. PICK h \in ApplyObservation(health[t], o) :
          /\ health' = [health EXCEPT ![t] = h] /\ stats' = [stats EXCEPT ![t] = EffectiveHealth(h)]
          /\ callback' = IF stats[t] = EffectiveHealth(h) THEN None ELSE t
  BY <1>4, Zenon DEF RecordProbe
<1>6. health[t] \in HealthRecord /\ h \in HealthRecord
  BY <1>5, ObservationIs, Zenon DEF CollectorInv, HealthTypes
<1>7. EffectiveHealth(h) \in HealthState /\ (EffectiveHealth(h) = "down" <=> h.state = "down")
  BY <1>6, EffectiveIs, Zenon
<1>8. /\ health'[t] = h /\ stats'[t] = EffectiveHealth(h)
      /\ \A u \in Tags \ {t} : health'[u] = health[u] /\ stats'[u] = stats[u]
      /\ health' \in [Tags -> HealthRecord] /\ stats' \in [Tags -> HealthState]
  BY <1>5, <1>6, <1>7, Zenon DEF CollectorInv, HealthTypes
<1>9. callback' = t \/ (callback' = None /\ (health'[t].state = "down" <=> health[t].state = "down"))
  BY <1>5, <1>7, <1>8, Zenon DEF CollectorInv, StatsInv
<1>10. HealthTypes' /\ StatsInv'
  BY <1>7, <1>8, <1>9, Zenon DEF CollectorInv, HealthTypes, StatsInv
<1>11. ProbeTypes'
  <2>1. PICK q : q = [prober[p] EXCEPT !.step = IF callback' = None THEN "recorded" ELSE "notifying", !.stats = stats'[t]]
    OBVIOUS
  <2>2. PICK step \in {"recorded", "notifying"} : step = IF callback' = None THEN "recorded" ELSE "notifying"
    BY Zenon
  <2>3. stats'[t] \in HealthState
    BY <1>8, Zenon
  <2>4. q \in ProberRecord /\ q.step = step
    BY <1>1, <2>1, <2>2, <2>3, ZenonT(60) DEF ProberRecord
  <2>5. prober' = [prober EXCEPT ![p] = q]
    BY <1>2, <2>1, Zenon DEF RecordResult
  <2> QED BY <2>4, <2>5, ProberMoves, Zenon DEF CollectorInv
<1> QED BY <1>2, <1>3, <1>4, <1>5, <1>8, <1>9, <1>10, <1>11, Zenon DEF CollectorInv
-----------------------------------------------------------------------------
\* The policy.

TimerRecord == [id : TimerIds, tag : Tags, left : Int]
CallbackRecord == [id : TimerIds, tag : Tags]

PolicyTypes ==
    /\ uptime \in Int /\ policyClosed \in BOOLEAN
    /\ unusable \subseteq Tags
    /\ timerOf \in [Tags -> TimerIds \cup {NoTimer}]
    /\ timers \subseteq TimerRecord /\ firing \subseteq CallbackRecord

\* A timer of that id works for that tag, armed or firing.
Entry(i, t) == \E x \in timers \cup firing : x.id = i /\ x.tag = t

\* Until Close: no two tags share a timer, only a tag with an alert state refers to one, and the
\* one it refers to is its own.
TimerInv ==
    ~policyClosed =>
        /\ \A i \in TimerIds, t \in Tags, u \in Tags : Entry(i, t) /\ Entry(i, u) => t = u
        /\ \A t \in Tags : timerOf[t] # NoTimer => t \in unusable
        /\ \A t \in unusable : Entry(timerOf[t], t)

PolicyInv == PolicyTypes /\ TimerInv

\* Only the ids and the tags there are.
LEMMA EntryIs ==
    ASSUME PolicyTypes, NEW i, NEW t, Entry(i, t)
    PROVE  i \in TimerIds /\ t \in Tags
<1>1. PICK x \in timers \cup firing : x.id = i /\ x.tag = t
  BY Zenon DEF Entry
<1>2. x \in TimerRecord \/ x \in CallbackRecord
  BY <1>1, Zenon DEF PolicyTypes
<1> QED BY <1>1, <1>2 DEF TimerRecord, CallbackRecord

\* A step that keeps what works for whom.
LEMMA EntriesSame ==
    ASSUME TimerInv, UNCHANGED <<policyClosed, unusable, timerOf>>, \A i, t : Entry(i, t)' <=> Entry(i, t)
    PROVE  TimerInv'
<1>1. policyClosed' = policyClosed /\ unusable' = unusable /\ timerOf' = timerOf
  BY Zenon
<1>2. CASE ~policyClosed
  <2>1. ASSUME NEW t \in unusable'
        PROVE  Entry(timerOf[t], t)'
    <3>1. PICK i : i = timerOf[t]
      BY Zenon
    <3>2. Entry(i, t)
      BY <1>1, <1>2, <2>1, <3>1, Zenon DEF TimerInv
    <3>3. Entry(i, t)'
      BY <3>2, Zenon
    <3> QED BY <1>1, <3>1, <3>3, Zenon DEF Entry
  <2>2. \A i \in TimerIds, t \in Tags, u \in Tags : Entry(i, t)' /\ Entry(i, u)' => t = u
    BY <1>2, Zenon DEF TimerInv
  <2>3. \A t \in Tags : timerOf'[t] # NoTimer => t \in unusable'
    BY <1>1, <1>2, Zenon DEF TimerInv
  <2> QED BY <2>1, <2>2, <2>3, Zenon DEF TimerInv
<1>3. CASE policyClosed
  BY <1>1, <1>3, Zenon DEF TimerInv
<1> QED BY <1>2, <1>3, Zenon

\* A timer that fires goes on working for its tag.
LEMMA TimerFiresInv ==
    ASSUME PolicyInv, NEW x \in timers, TimerFires(x)
    PROVE  PolicyInv' /\ UNCHANGED <<policyClosed, unusable>>
<1>1. x \in TimerRecord
  BY Zenon DEF PolicyInv, PolicyTypes
<1>2. PICK y : y = [id |-> x.id, tag |-> x.tag]
  BY Zenon
<1>3. y \in CallbackRecord /\ y.id = x.id /\ y.tag = x.tag
  BY <1>1, <1>2 DEF TimerRecord, CallbackRecord
<1>4. timers' = timers \ {x} /\ firing' = firing \cup {y} /\ UNCHANGED <<uptime, policyClosed, unusable, timerOf>>
  BY <1>2, Zenon DEF TimerFires
<1>5. ASSUME NEW i, NEW t
      PROVE  Entry(i, t)' <=> Entry(i, t)
  <2>1. ASSUME Entry(i, t) PROVE Entry(i, t)'
    <3>1. PICK z \in timers \cup firing : z.id = i /\ z.tag = t
      BY <2>1, Zenon DEF Entry
    <3>2. CASE z = x
      <4>1. y \in timers' \cup firing' /\ y.id = i /\ y.tag = t
        BY <1>3, <1>4, <3>1, <3>2, Zenon
      <4> QED BY <4>1, Zenon DEF Entry
    <3>3. CASE z # x
      <4>1. z \in timers' \cup firing'
        BY <1>4, <3>1, <3>3, Zenon
      <4> QED BY <3>1, <4>1, Zenon DEF Entry
    <3> QED BY <3>2, <3>3, Zenon
  <2>2. ASSUME Entry(i, t)' PROVE Entry(i, t)
    <3>1. PICK z \in timers' \cup firing' : z.id = i /\ z.tag = t
      BY <2>2, Zenon DEF Entry
    <3>2. z \in timers \cup firing \/ z = y
      BY <1>4, <3>1, Zenon
    <3> QED BY <1>3, <3>1, <3>2, Zenon DEF Entry
  <2> QED BY <2>1, <2>2, Zenon
<1>6. TimerInv'
  BY <1>4, <1>5, EntriesSame, Zenon DEF PolicyInv
<1> QED BY <1>3, <1>4, <1>6, Zenon DEF PolicyInv, PolicyTypes

\* A callback that arms its timer again.
LEMMA RearmInv ==
    ASSUME PolicyInv, NEW x \in firing, NEW delay \in Int, ~policyClosed, x.tag \in unusable,
           firing' = firing \ {x}, Rearm(x, delay), UNCHANGED <<uptime, policyClosed, unusable>>
    PROVE  PolicyInv'
<1>1. x \in CallbackRecord
  BY Zenon DEF PolicyInv, PolicyTypes
<1>2. PICK y : y = [id |-> x.id, tag |-> x.tag, left |-> delay]
  BY Zenon
<1>3. y \in TimerRecord /\ y.id = x.id /\ y.tag = x.tag /\ x.id \in TimerIds /\ x.tag \in Tags
  BY <1>1, <1>2 DEF TimerRecord, CallbackRecord
<1>4. timers' = timers \cup {y} /\ timerOf' = [timerOf EXCEPT ![x.tag] = x.id]
  BY <1>2, Zenon DEF Rearm
<1>5. ASSUME NEW i, NEW t
      PROVE  Entry(i, t)' <=> Entry(i, t)
  <2>1. ASSUME Entry(i, t) PROVE Entry(i, t)'
    <3>1. PICK z \in timers \cup firing : z.id = i /\ z.tag = t
      BY <2>1, Zenon DEF Entry
    <3>2. CASE z = x
      <4>1. y \in timers' \cup firing' /\ y.id = i /\ y.tag = t
        BY <1>3, <1>4, <3>1, <3>2, Zenon
      <4> QED BY <4>1, Zenon DEF Entry
    <3>3. CASE z # x
      <4>1. z \in timers' \cup firing'
        BY <1>4, <3>1, <3>3, Zenon
      <4> QED BY <3>1, <4>1, Zenon DEF Entry
    <3> QED BY <3>2, <3>3, Zenon
  <2>2. ASSUME Entry(i, t)' PROVE Entry(i, t)
    <3>1. PICK z \in timers' \cup firing' : z.id = i /\ z.tag = t
      BY <2>2, Zenon DEF Entry
    <3>2. z \in timers \cup firing \/ z = y
      BY <1>4, <3>1, Zenon
    <3> QED BY <1>3, <3>1, <3>2, Zenon DEF Entry
  <2> QED BY <2>1, <2>2, Zenon
<1>6. Entry(x.id, x.tag)
  BY Zenon DEF Entry
<1>7. timerOf \in [Tags -> TimerIds \cup {NoTimer}]
  BY Zenon DEF PolicyInv, PolicyTypes
<1>8. timerOf'[x.tag] = x.id /\ \A t \in Tags : t # x.tag => timerOf'[t] = timerOf[t]
  BY <1>3, <1>4, <1>7, Zenon
<1>9. timerOf' \in [Tags -> TimerIds \cup {NoTimer}]
  BY <1>3, <1>4, <1>7, Zenon
<1>10. PolicyTypes'
  BY <1>3, <1>4, <1>9, Zenon DEF PolicyInv, PolicyTypes
<1>11. \A t \in unusable : t \in Tags /\ Entry(timerOf[t], t)
  BY Zenon DEF PolicyInv, PolicyTypes, TimerInv
<1>12. ASSUME NEW t \in unusable'
       PROVE  Entry(timerOf[t], t)'
  <2>1. t \in unusable /\ t \in Tags
    BY <1>11, <1>12, Zenon
  <2>2. PICK i : i = timerOf'[t]
    BY Zenon
  <2>3. Entry(i, t)
    <3>1. CASE t = x.tag
      BY <1>6, <1>8, <2>2, <3>1, Zenon
    <3>2. CASE t # x.tag
      BY <1>8, <1>11, <2>1, <2>2, <3>2, Zenon
    <3> QED BY <3>1, <3>2, Zenon
  <2>4. Entry(i, t)'
    BY <1>5, <2>3, Zenon
  <2> QED BY <2>2, <2>4, Zenon DEF Entry
<1>13. \A t \in Tags : timerOf'[t] # NoTimer => t \in unusable'
  BY <1>8, Zenon DEF PolicyInv, TimerInv
<1> QED BY <1>5, <1>10, <1>12, <1>13, Zenon DEF PolicyInv, TimerInv

\* A callback that finds its tag recovered ends.
LEMMA ObsoleteInv ==
    ASSUME PolicyInv, NEW x \in firing, AlertObsolete(x)
    PROVE  PolicyInv'
<1>1. firing' = firing \ {x} /\ UNCHANGED <<uptime, policyClosed, unusable, timerOf, timers>>
  BY Zenon DEF AlertObsolete
<1>2. PolicyTypes'
  BY <1>1, Zenon DEF PolicyInv, PolicyTypes
<1>3. CASE policyClosed
  BY <1>1, <1>2, <1>3, Zenon DEF PolicyInv, TimerInv
<1>4. CASE ~policyClosed
  <2>1. x.tag \notin unusable
    BY <1>4, Zenon DEF AlertObsolete
  <2>2. \A i, t : Entry(i, t)' => Entry(i, t)
    BY <1>1, Zenon DEF Entry
  <2>3. ASSUME NEW i, NEW t, Entry(i, t), t # x.tag
        PROVE  Entry(i, t)'
    BY <1>1, <2>3, Zenon DEF Entry
  <2>4. ASSUME NEW t \in unusable'
        PROVE  Entry(timerOf[t], t)'
    <3>1. PICK i : i = timerOf[t]
      BY Zenon
    <3>2. t \in unusable /\ Entry(i, t) /\ t # x.tag
      BY <1>1, <1>4, <2>1, <2>4, <3>1, Zenon DEF PolicyInv, TimerInv
    <3>3. Entry(i, t)'
      BY <2>3, <3>2, Zenon
    <3> QED BY <1>1, <3>1, <3>3, Zenon DEF Entry
  <2>5. \A i \in TimerIds, t \in Tags, u \in Tags : Entry(i, t)' /\ Entry(i, u)' => t = u
    BY <1>4, <2>2, Zenon DEF PolicyInv, TimerInv
  <2>6. \A t \in Tags : timerOf'[t] # NoTimer => t \in unusable'
    BY <1>1, <1>4, Zenon DEF PolicyInv, TimerInv
  <2> QED BY <1>2, <2>4, <2>5, <2>6, Zenon DEF PolicyInv, TimerInv
<1> QED BY <1>3, <1>4, Zenon

\* A recovery takes the state of its tag away, and only that tag's timer.
LEMMA ClearInv ==
    ASSUME PolicyInv, ~policyClosed, NEW c \in Tags, ClearUnusable(c)
    PROVE  PolicyInv'
<1>1. /\ timers' = {x \in timers : x.id # timerOf[c]} /\ timerOf' = [timerOf EXCEPT ![c] = NoTimer]
      /\ unusable' = unusable \ {c} /\ UNCHANGED <<uptime, policyClosed, firing>>
  BY Zenon DEF ClearUnusable
<1>2. timerOf \in [Tags -> TimerIds \cup {NoTimer}] /\ unusable \subseteq Tags
  BY Zenon DEF PolicyInv, PolicyTypes
<1>3. timerOf'[c] = NoTimer /\ timerOf' \in [Tags -> TimerIds \cup {NoTimer}]
      /\ \A t \in Tags : t # c => timerOf'[t] = timerOf[t]
  BY <1>1, <1>2, Zenon
<1>4. PolicyTypes'
  BY <1>1, <1>3, Zenon DEF PolicyInv, PolicyTypes
<1>5. \A i, t : Entry(i, t)' => Entry(i, t)
  BY <1>1, Zenon DEF Entry
<1>6. ASSUME NEW i, NEW t, Entry(i, t), i # timerOf[c]
      PROVE  Entry(i, t)'
  BY <1>1, <1>6, Zenon DEF Entry
<1>7. ASSUME NEW t \in unusable'
      PROVE  Entry(timerOf[t], t)'
  <2>1. t \in unusable /\ t # c /\ t \in Tags
    BY <1>1, <1>2, <1>7, Zenon
  <2>2. PICK i : i = timerOf[t]
    BY Zenon
  <2>3. Entry(i, t)
    BY <2>1, <2>2, Zenon DEF PolicyInv, TimerInv
  <2>4. i \in TimerIds
    BY <2>3, EntryIs, Zenon DEF PolicyInv
  <2>5. i # timerOf[c]
    <3> SUFFICES ASSUME i = timerOf[c]
                 PROVE  FALSE
      BY Zenon
    <3>1. timerOf[c] # NoTimer
      BY <2>4, NotifyPolicyAssumption, Zenon
    <3>2. c \in unusable
      BY <3>1, Zenon DEF PolicyInv, TimerInv
    <3>3. Entry(i, c)
      BY <3>2, Zenon DEF PolicyInv, TimerInv
    <3> QED BY <2>1, <2>3, <2>4, <3>3, Zenon DEF PolicyInv, TimerInv
  <2>6. Entry(i, t)'
    BY <1>6, <2>3, <2>5, Zenon
  <2>7. timerOf'[t] = i
    BY <1>3, <2>1, <2>2, Zenon
  <2> QED BY <2>6, <2>7, Zenon DEF Entry
<1>8. \A i \in TimerIds, t \in Tags, u \in Tags : Entry(i, t)' /\ Entry(i, u)' => t = u
  BY <1>5, Zenon DEF PolicyInv, TimerInv
<1>9. \A t \in Tags : timerOf'[t] # NoTimer => t \in unusable'
  BY <1>1, <1>3, Zenon DEF PolicyInv, TimerInv
<1> QED BY <1>4, <1>7, <1>8, <1>9, Zenon DEF PolicyInv, TimerInv

\* An outage arms a timer that works for nobody else, unless its tag has one.
LEMMA MarkInv ==
    ASSUME PolicyInv, ~policyClosed, NEW c \in Tags, MarkUnusable(c)
    PROVE  PolicyInv'
<1>1. unusable' = unusable \cup {c} /\ UNCHANGED <<uptime, policyClosed, firing>>
  BY Zenon DEF MarkUnusable
<1>2. timerOf \in [Tags -> TimerIds \cup {NoTimer}] /\ unusable \subseteq Tags
  BY Zenon DEF PolicyInv, PolicyTypes
<1>3. CASE timerOf[c] # NoTimer
  <2>1. UNCHANGED <<timers, timerOf>>
    BY <1>3, Zenon DEF MarkUnusable
  <2>2. c \in unusable
    BY <1>3, Zenon DEF PolicyInv, TimerInv
  <2>3. unusable' = unusable
    BY <1>1, <2>2, Zenon
  <2>4. \A i, t : Entry(i, t)' <=> Entry(i, t)
    BY <1>1, <2>1, Zenon DEF Entry
  <2>5. TimerInv'
    BY <1>1, <2>1, <2>3, <2>4, EntriesSame, Zenon DEF PolicyInv
  <2> QED BY <1>1, <2>1, <2>3, <2>5, Zenon DEF PolicyInv, PolicyTypes
<1>4. CASE timerOf[c] = NoTimer
  <2>1. PICK n : n = FreeId
    BY Zenon
  <2>2. PICK delay : delay = InitialUnusableDelay
    BY Zenon
  <2>3. n \in TimerIds /\ \A x \in timers \cup firing : x.id # n
    BY <1>4, <2>1, Zenon DEF MarkUnusable, HasFreeId, FreeId
  <2>4. delay \in Int
    <3>1. uptime \in Int
      BY Zenon DEF PolicyInv, PolicyTypes
    <3> QED BY <2>2, <3>1, NotifyPolicyAssumption DEF InitialUnusableDelay
  <2>5. PICK y : y = [id |-> n, tag |-> c, left |-> delay]
    BY Zenon
  <2>6. y \in TimerRecord /\ y.id = n /\ y.tag = c
    BY <2>3, <2>4, <2>5 DEF TimerRecord
  <2>7. timers' = timers \cup {y} /\ timerOf' = [timerOf EXCEPT ![c] = n]
    BY <1>4, <2>1, <2>2, <2>5, Zenon DEF MarkUnusable
  <2>8. timerOf'[c] = n /\ timerOf' \in [Tags -> TimerIds \cup {NoTimer}]
        /\ \A t \in Tags : t # c => timerOf'[t] = timerOf[t]
    BY <1>2, <2>3, <2>7, Zenon
  <2>9. PolicyTypes'
    BY <1>1, <2>6, <2>7, <2>8, Zenon DEF PolicyInv, PolicyTypes
  <2>10. \A i, t : Entry(i, t) => Entry(i, t)' /\ i # n
    BY <1>1, <2>3, <2>7, Zenon DEF Entry
  <2>11. \A i, t : Entry(i, t)' => Entry(i, t) \/ (i = n /\ t = c)
    BY <1>1, <2>6, <2>7, Zenon DEF Entry
  <2>12. Entry(n, c)'
    BY <2>6, <2>7, Zenon DEF Entry
  <2>13. ASSUME NEW t \in unusable'
         PROVE  Entry(timerOf[t], t)'
    <3>1. PICK i : i = timerOf'[t]
      BY Zenon
    <3>2. Entry(i, t)'
      <4>1. CASE t = c
        BY <2>8, <2>12, <3>1, <4>1, Zenon
      <4>2. CASE t # c
        <5>1. t \in unusable /\ t \in Tags
          BY <1>1, <1>2, <2>13, <4>2, Zenon
        <5>2. i = timerOf[t]
          BY <2>8, <3>1, <4>2, <5>1, Zenon
        <5>3. Entry(i, t)
          BY <5>1, <5>2, Zenon DEF PolicyInv, TimerInv
        <5> QED BY <2>10, <5>3, Zenon
      <4> QED BY <4>1, <4>2, Zenon
    <3> QED BY <3>1, <3>2, Zenon DEF Entry
  <2>14. \A i \in TimerIds, t \in Tags, u \in Tags : Entry(i, t)' /\ Entry(i, u)' => t = u
    BY <2>10, <2>11, ZenonT(60) DEF PolicyInv, TimerInv
  <2>15. \A t \in Tags : timerOf'[t] # NoTimer => t \in unusable'
    BY <1>1, <2>8, Zenon DEF PolicyInv, TimerInv
  <2> QED BY <2>9, <2>13, <2>14, <2>15, Zenon DEF PolicyInv, TimerInv
<1> QED BY <1>3, <1>4, Zenon

\* HandleUsabilityChange makes the policy know one upstream as it is told to.
LEMMA HandleInv ==
    ASSUME PolicyInv, NEW c \in Tags, NEW usable \in BOOLEAN, HandleUsabilityChange(c, usable)
    PROVE  /\ PolicyInv' /\ policyClosed' = policyClosed
           /\ ~policyClosed => /\ c \in unusable' <=> ~usable
                               /\ \A u \in Tags : u # c => (u \in unusable' <=> u \in unusable)
<1>1. CASE policyClosed
  <2>1. UNCHANGED policyVars
    BY <1>1, Zenon DEF HandleUsabilityChange
  <2>2. UNCHANGED <<uptime, policyClosed, unusable, timerOf, timers, firing>>
    BY <2>1, Zenon DEF policyVars
  <2> QED BY <1>1, <2>2, Zenon DEF PolicyInv, PolicyTypes, TimerInv
<1>2. CASE ~policyClosed /\ usable
  <2>1. ClearUnusable(c)
    BY <1>2, Zenon DEF HandleUsabilityChange
  <2>2. unusable' = unusable \ {c} /\ policyClosed' = policyClosed
    BY <2>1, Zenon DEF ClearUnusable
  <2>3. PolicyInv'
    BY <1>2, <2>1, ClearInv, Zenon
  <2> QED BY <1>2, <2>2, <2>3, Zenon
<1>3. CASE ~policyClosed /\ ~usable
  <2>1. MarkUnusable(c)
    BY <1>3, Zenon DEF HandleUsabilityChange
  <2>2. unusable' = unusable \cup {c} /\ policyClosed' = policyClosed
    BY <2>1, Zenon DEF MarkUnusable
  <2>3. PolicyInv'
    BY <1>3, <2>1, MarkInv, Zenon
  <2> QED BY <1>3, <2>2, <2>3, Zenon
<1> QED BY <1>1, <1>2, <1>3, Zenon

\* Time passes: the timers keep their ids and tags.
LEMMA PolicyTickInv ==
    ASSUME PolicyInv, PolicyTick
    PROVE  PolicyInv' /\ UNCHANGED <<policyClosed, unusable>>
<1> DEFINE aged(x) == [x EXCEPT !.left = IF @ = 0 THEN 0 ELSE @ - 1]
<1>1. timers' = {aged(x) : x \in timers} /\ UNCHANGED <<policyClosed, unusable, timerOf, firing>>
  BY Zenon DEF PolicyTick
<1>2. \A x \in timers : aged(x) \in TimerRecord /\ aged(x).id = x.id /\ aged(x).tag = x.tag
  <2> SUFFICES ASSUME NEW x \in timers
               PROVE  aged(x) \in TimerRecord /\ aged(x).id = x.id /\ aged(x).tag = x.tag
    BY Zenon
  <2>1. x \in TimerRecord
    BY Zenon DEF PolicyInv, PolicyTypes
  <2> QED BY <2>1 DEF TimerRecord
<1> HIDE DEF aged
<1>3. ASSUME NEW i, NEW t
      PROVE  Entry(i, t)' <=> Entry(i, t)
  <2>1. ASSUME Entry(i, t) PROVE Entry(i, t)'
    <3>1. PICK z \in timers \cup firing : z.id = i /\ z.tag = t
      BY <2>1, Zenon DEF Entry
    <3>2. CASE z \in timers
      <4>1. aged(z) \in timers' /\ aged(z).id = i /\ aged(z).tag = t
        BY <1>1, <1>2, <3>1, <3>2, Zenon
      <4> QED BY <4>1, Zenon DEF Entry
    <3>3. CASE z \in firing
      BY <1>1, <3>1, <3>3, Zenon DEF Entry
    <3> QED BY <3>1, <3>2, <3>3, Zenon
  <2>2. ASSUME Entry(i, t)' PROVE Entry(i, t)
    <3>1. PICK z \in timers' \cup firing' : z.id = i /\ z.tag = t
      BY <2>2, Zenon DEF Entry
    <3>2. CASE z \in timers'
      <4>1. PICK x \in timers : z = aged(x)
        BY <1>1, <3>2, Zenon
      <4>2. x.id = i /\ x.tag = t
        BY <1>2, <3>1, <4>1, Zenon
      <4> QED BY <4>2, Zenon DEF Entry
    <3>3. CASE z \in firing'
      BY <1>1, <3>1, <3>3, Zenon DEF Entry
    <3> QED BY <3>1, <3>2, <3>3, Zenon
  <2> QED BY <2>1, <2>2, Zenon
<1>4. uptime' \in Int
  <2>1. uptime \in Int /\ uptime' = IF uptime < StartupGracePeriod THEN uptime + 1 ELSE uptime
    BY Zenon DEF PolicyInv, PolicyTypes, PolicyTick
  <2> QED BY <2>1
<1>5. timers' \subseteq TimerRecord
  BY <1>1, <1>2, Zenon
<1>6. PolicyTypes'
  BY <1>1, <1>4, <1>5, Zenon DEF PolicyInv, PolicyTypes
<1>7. TimerInv'
  BY <1>1, <1>3, EntriesSame, Zenon DEF PolicyInv
<1> QED BY <1>1, <1>6, <1>7, Zenon DEF PolicyInv

\* Policy.Close.
LEMMA CloseInv ==
    ASSUME PolicyInv, ClosePolicy
    PROVE  PolicyInv' /\ policyClosed'
<1>1. policyClosed' = TRUE /\ timers' \subseteq timers /\ UNCHANGED <<uptime, unusable, firing>>
  BY Zenon DEF ClosePolicy
<1>2. timerOf' \in [Tags -> TimerIds \cup {NoTimer}]
  BY AlertsAssumption, Zenon DEF ClosePolicy
<1> QED BY <1>1, <1>2, Zenon DEF PolicyInv, PolicyTypes, TimerInv

\* What the timers and their callbacks do.
LEMMA TimersInv ==
    ASSUME PolicyInv, Timers
    PROVE  PolicyInv' /\ UNCHANGED <<policyClosed, unusable, health, stats, callback, prober, recent>>
<1>1. UNCHANGED <<health, stats, callback, prober, recent>>
  BY Zenon DEF Timers, upstreamVars, measureVars
<1>2. ASSUME NEW x \in timers, TimerFires(x)
      PROVE  PolicyInv' /\ UNCHANGED <<policyClosed, unusable>>
  BY <1>2, TimerFiresInv, Zenon
<1>3. ASSUME NEW x \in firing, AlertObsolete(x)
      PROVE  PolicyInv' /\ UNCHANGED <<policyClosed, unusable>>
  BY <1>3, ObsoleteInv, Zenon DEF AlertObsolete
<1>4. ASSUME NEW x \in firing, AlertDuringGrace(x)
      PROVE  PolicyInv' /\ UNCHANGED <<policyClosed, unusable>>
  <2>1. PICK delay : delay = StartupGracePeriod - uptime
    BY Zenon
  <2>2. uptime \in Int
    BY Zenon DEF PolicyInv, PolicyTypes
  <2>3. delay \in Int
    BY <2>1, <2>2, NotifyPolicyAssumption
  <2>4. /\ ~policyClosed /\ x.tag \in unusable /\ firing' = firing \ {x} /\ Rearm(x, delay)
        /\ UNCHANGED <<uptime, policyClosed, unusable>>
    BY <1>4, <2>1, Zenon DEF AlertDuringGrace
  <2> QED BY <2>3, <2>4, RearmInv, Zenon
<1>5. ASSUME NEW x \in firing, Alert(x)
      PROVE  PolicyInv' /\ UNCHANGED <<policyClosed, unusable>>
  <2>1. NotifyInterval \in Int
    BY NotifyPolicyAssumption
  <2>2. /\ ~policyClosed /\ x.tag \in unusable /\ firing' = firing \ {x} /\ Rearm(x, NotifyInterval)
        /\ UNCHANGED <<uptime, policyClosed, unusable>>
    BY <1>5, Zenon DEF Alert
  <2> QED BY <2>1, <2>2, RearmInv, Zenon
<1> QED BY <1>1, <1>2, <1>3, <1>4, <1>5, Zenon DEF Timers
-----------------------------------------------------------------------------
\* The outcomes.

\* A run of n outcomes at the front of a history.
Run(s, n, outcome) == Len(s) >= n /\ \A i \in 1..n : s[i] = outcome

\* The window holds both thresholds.
LEMMA WindowIs == Window \in Nat \ {0} /\ Window >= FailureThreshold /\ Window >= RecoveryThreshold
<1>1. \A a, b \in Nat : Max({a, b}) = IF a >= b THEN a ELSE b
  BY DEF Max
<1>2. Window = IF FailureThreshold >= RecoveryThreshold THEN FailureThreshold ELSE RecoveryThreshold
  BY <1>1, ThresholdsAre DEF Window
<1> QED BY <1>2, ThresholdsAre

\* r is s with the outcome o in front, cut to the window.
IsLatest(r, o, s) ==
    /\ Len(r) = IF Window <= Len(s) THEN Window ELSE Len(s) + 1
    /\ \A i \in 1..Len(r) : r[i] = IF i = 1 THEN o ELSE s[i - 1]

\* A run of r is one of s with o in front.
Grows(r, o, s, n, b) == Run(r, n, b) <=> o = b /\ Run(s, n - 1, b)

\* What an outcome makes of a history that keeps the last `Window' ones.
LEMMA LatestIs ==
    ASSUME NEW S, NEW s \in Seq(S), NEW o \in S, NEW r, r = Latest(o, s)
    PROVE  r \in Seq(S) /\ IsLatest(r, o, s)
<1>1. Len(s) \in Nat /\ Window \in Nat \ {0}
  BY WindowIs
<1>2. PICK m : m = IF Window <= Len(s) THEN Window ELSE Len(s) + 1
  BY Zenon
<1>3. PICK q : q = <<o>> \o s
  BY Zenon
<1>4. Min({Window, Len(s) + 1}) = m
  <2>1. \A a, b \in Nat : Min({a, b}) = IF a <= b THEN a ELSE b
    BY DEF Min
  <2> QED BY <1>1, <1>2, <2>1
<1>5. q \in Seq(S) /\ Len(q) = Len(s) + 1 /\ \A i \in 1..Len(q) : q[i] = IF i = 1 THEN o ELSE s[i - 1]
  BY <1>3
<1>6. m \in 1..Len(q)
  BY <1>1, <1>2, <1>5
<1>7. r = SubSeq(q, 1, m)
  BY <1>3, <1>4, Zenon DEF Latest
<1>8. Len(r) = m /\ \A i \in 1..m : r[i] = q[i]
  BY <1>5, <1>6, <1>7
<1>9. r \in Seq(S)
  BY <1>5, <1>6, <1>7
<1>10. \A i \in 1..Len(r) : r[i] = IF i = 1 THEN o ELSE s[i - 1]
  BY <1>5, <1>6, <1>8
<1> QED BY <1>2, <1>8, <1>9, <1>10, Zenon DEF IsLatest

\* ... and of its runs, as far as the window reaches.
LEMMA RunsGrow ==
    ASSUME NEW S, NEW s \in Seq(S), NEW o \in S, NEW r, NEW n \in 1..Window, NEW b \in S, r = Latest(o, s)
    PROVE  Grows(r, o, s, n, b)
<1>0. IsLatest(r, o, s)
  BY LatestIs, Zenon
<1>1. /\ Len(r) = IF Window <= Len(s) THEN Window ELSE Len(s) + 1
      /\ \A i \in 1..Len(r) : r[i] = IF i = 1 THEN o ELSE s[i - 1]
  BY <1>0, Zenon DEF IsLatest
<1>2. Len(s) \in Nat /\ Window \in Nat \ {0} /\ n \in Nat /\ 1 <= n /\ n <= Window
  BY WindowIs
<1>3. (Len(r) >= n <=> Len(s) >= n - 1) /\ Len(r) \in Nat
  BY <1>1, <1>2
<1>4. ASSUME Run(r, n, b)
      PROVE  o = b /\ Run(s, n - 1, b)
  <2>1. Len(r) >= n /\ \A i \in 1..n : r[i] = b
    BY <1>4, Zenon DEF Run
  <2>2. r[1] = o /\ r[1] = b
    <3>1. 1 \in 1..n /\ 1 \in 1..Len(r)
      BY <1>2, <1>3, <2>1
    <3> QED BY <1>1, <2>1, <3>1
  <2>3. ASSUME NEW i \in 1..(n - 1)
        PROVE  s[i] = b
    <3>1. i + 1 \in 1..n /\ i + 1 \in 1..Len(r) /\ i + 1 # 1 /\ (i + 1) - 1 = i
      BY <1>2, <1>3, <2>1
    <3> QED BY <1>1, <2>1, <3>1
  <2> QED BY <1>3, <2>1, <2>2, <2>3, Zenon DEF Run
<1>5. ASSUME o = b, Run(s, n - 1, b)
      PROVE  Run(r, n, b)
  <2>1. Len(r) >= n /\ \A i \in 1..(n - 1) : s[i] = b
    BY <1>3, <1>5, Zenon DEF Run
  <2>2. ASSUME NEW i \in 1..n
        PROVE  r[i] = b
    <3>1. i \in 1..Len(r) /\ (i = 1 \/ i - 1 \in 1..(n - 1))
      BY <1>2, <1>3, <2>1
    <3> QED BY <1>1, <1>5, <2>1, <3>1
  <2> QED BY <2>1, <2>2, Zenon DEF Run
<1> QED BY <1>4, <1>5, Zenon DEF Grows

\* The empty run is everywhere.
LEMMA EmptyRun ==
    ASSUME NEW S, NEW s \in Seq(S), NEW b
    PROVE  Run(s, 0, b)
<1>1. Len(s) >= 0
  OBVIOUS
<1>2. \A i \in 1..0 : s[i] = b
  OBVIOUS
<1> QED BY <1>1, <1>2, Zenon DEF Run

\* There is no other in the empty history.
LEMMA NoRun ==
    ASSUME NEW n \in Nat, NEW b
    PROVE  Run(<<>>, n, b) <=> 0 >= n
<1>1. Len(<<>>) = 0
  OBVIOUS
<1>2. CASE n = 0
  <2>1. 0 >= n /\ Len(<<>>) >= n /\ \A i \in 1..n : <<>>[i] = b
    BY <1>1, <1>2
  <2> QED BY <2>1, Zenon DEF Run
<1>3. CASE n # 0
  <2>1. ~(0 >= n) /\ ~(Len(<<>>) >= n)
    BY <1>1, <1>3
  <2> QED BY <2>1, Zenon DEF Run
<1> QED BY <1>2, <1>3, Zenon

\* The same of outcomes.
LEMMA RecentIs ==
    ASSUME NEW s \in Seq(BOOLEAN), NEW o \in BOOLEAN, NEW r, r = Latest(o, s)
    PROVE  r \in Seq(BOOLEAN)
  BY LatestIs, Zenon

\* ... their runs,
LEMMA RunGrows ==
    ASSUME NEW s \in Seq(BOOLEAN), NEW o \in BOOLEAN, NEW r, NEW n \in 1..Window, NEW b \in BOOLEAN, r = Latest(o, s)
    PROVE  Grows(r, o, s, n, b)
  BY RunsGrow, Zenon

\* ... and the empty run of them.
LEMMA RunOfNone ==
    ASSUME NEW s \in Seq(BOOLEAN)
    PROVE  Run(s, 0, FALSE) /\ Run(s, 0, TRUE)
  BY EmptyRun, Zenon

\* The counters of an upstream count the run its history begins with, up to their threshold.
Counts(s, h) ==
    /\ \A n \in 0..FailureThreshold : Run(s, n, FALSE) <=> h.failures >= n
    /\ \A n \in 0..RecoveryThreshold : Run(s, n, TRUE) <=> h.successes >= n
    /\ h.failures = FailureThreshold => h.state = "down"
    /\ h.successes = RecoveryThreshold => h.state = "healthy"

RunInv == recent \in [Tags -> Seq(BOOLEAN)] /\ \A t \in Tags : Counts(recent[t], health[t])

\* A failure lengthens the run of failures, ends the one of successes, and at the threshold the
\* upstream is down.
LEMMA FailureCounts ==
    ASSUME NEW h \in HealthRecord, NEW s \in Seq(BOOLEAN), NEW r, Counts(s, h),
           r = Latest(FALSE, s)
    PROVE  /\ Counts(r, Failed(h))
           /\ (h.state = "down") # (Failed(h).state = "down") => Run(r, FailureThreshold, FALSE)
<1>1. PICK k : k = Failed(h)
  BY Zenon
<1>2. /\ k.successes = 0
      /\ k.failures = IF h.failures < FailureThreshold THEN h.failures + 1 ELSE FailureThreshold
      /\ k.state = IF h.failures + 1 >= FailureThreshold THEN "down" ELSE h.state
  BY <1>1, FailedIs, Zenon
<1>3. /\ h.failures \in 0..FailureThreshold /\ FailureThreshold \in Nat \ {0} /\ RecoveryThreshold \in Nat \ {0}
      /\ FailureThreshold <= Window /\ RecoveryThreshold <= Window /\ Window \in Nat
  BY ThresholdsAre, WindowIs DEF HealthRecord
<1>4. \A n \in 1..Window : /\ Run(r, n, FALSE) <=> Run(s, n - 1, FALSE)
                           /\ ~Run(r, n, TRUE)
  <2> SUFFICES ASSUME NEW n \in 1..Window
               PROVE  (Run(r, n, FALSE) <=> Run(s, n - 1, FALSE)) /\ ~Run(r, n, TRUE)
    BY Zenon
  <2>1. Grows(r, FALSE, s, n, FALSE) /\ Grows(r, FALSE, s, n, TRUE)
    BY RunGrows, Zenon
  <2> QED BY <2>1, Zenon DEF Grows
<1>5. Run(r, 0, FALSE) /\ Run(r, 0, TRUE)
  <2>1. r \in Seq(BOOLEAN)
    BY RecentIs, Zenon
  <2> QED BY <2>1, RunOfNone, Zenon
<1>6. ASSUME NEW n \in 0..FailureThreshold
      PROVE  Run(r, n, FALSE) <=> k.failures >= n
  <2>1. CASE n = 0
    <3>1. k.failures >= n
      BY <1>2, <1>3, <2>1
    <3> QED BY <1>5, <2>1, <3>1, Zenon
  <2>2. CASE n # 0
    <3>1. n \in 1..Window /\ n - 1 \in 0..FailureThreshold
      BY <1>3, <2>2
    <3>2. Run(r, n, FALSE) <=> Run(s, n - 1, FALSE)
      BY <1>4, <3>1, Zenon
    <3>3. Run(s, n - 1, FALSE) <=> h.failures >= n - 1
      BY <3>1, Zenon DEF Counts
    <3>4. h.failures >= n - 1 <=> k.failures >= n
      BY <1>2, <1>3, <2>2
    <3> QED BY <3>2, <3>3, <3>4, Zenon
  <2> QED BY <2>1, <2>2, Zenon
<1>7. ASSUME NEW n \in 0..RecoveryThreshold
      PROVE  Run(r, n, TRUE) <=> k.successes >= n
  <2>1. CASE n = 0
    <3>1. k.successes >= n
      BY <1>2, <2>1
    <3> QED BY <1>5, <2>1, <3>1, Zenon
  <2>2. CASE n # 0
    <3>1. n \in 1..Window /\ ~(k.successes >= n)
      BY <1>2, <1>3, <2>2
    <3> QED BY <1>4, <3>1, Zenon
  <2> QED BY <2>1, <2>2, Zenon
<1>8. /\ k.failures = FailureThreshold => k.state = "down"
      /\ k.successes # RecoveryThreshold
      /\ (h.state = "down") # (k.state = "down") => k.failures >= FailureThreshold
  BY <1>2, <1>3
<1>9. FailureThreshold \in 0..FailureThreshold
  BY <1>3
<1>10. Counts(r, k)
  BY <1>6, <1>7, <1>8, Zenon DEF Counts
<1> QED BY <1>1, <1>6, <1>8, <1>9, <1>10, Zenon

\* A success lengthens the run of successes, ends the one of failures, and at the threshold the
\* upstream is healthy.
LEMMA SuccessCounts ==
    ASSUME NEW h \in HealthRecord, NEW s \in Seq(BOOLEAN), NEW r, NEW rtt \in Nat, NEW age \in Nat, Counts(s, h),
           r = Latest(TRUE, s)
    PROVE  /\ Counts(r, Succeeded(h, rtt, age))
           /\ (h.state = "down") # (Succeeded(h, rtt, age).state = "down") => Run(r, RecoveryThreshold, TRUE)
<1>1. PICK k : k = Succeeded(h, rtt, age)
  BY Zenon
<1>2. /\ k.failures = 0
      /\ k.successes = IF h.successes < RecoveryThreshold THEN h.successes + 1 ELSE RecoveryThreshold
      /\ k.state = IF h.state = "down" /\ h.successes + 1 < RecoveryThreshold THEN "down" ELSE "healthy"
  BY <1>1, SucceededIs, Zenon
<1>3. /\ h.successes \in 0..RecoveryThreshold /\ FailureThreshold \in Nat \ {0} /\ RecoveryThreshold \in Nat \ {0}
      /\ FailureThreshold <= Window /\ RecoveryThreshold <= Window /\ Window \in Nat
  BY ThresholdsAre, WindowIs DEF HealthRecord
<1>4. \A n \in 1..Window : /\ Run(r, n, TRUE) <=> Run(s, n - 1, TRUE)
                           /\ ~Run(r, n, FALSE)
  <2> SUFFICES ASSUME NEW n \in 1..Window
               PROVE  (Run(r, n, TRUE) <=> Run(s, n - 1, TRUE)) /\ ~Run(r, n, FALSE)
    BY Zenon
  <2>1. Grows(r, TRUE, s, n, TRUE) /\ Grows(r, TRUE, s, n, FALSE)
    BY RunGrows, Zenon
  <2> QED BY <2>1, Zenon DEF Grows
<1>5. Run(r, 0, FALSE) /\ Run(r, 0, TRUE)
  <2>1. r \in Seq(BOOLEAN)
    BY RecentIs, Zenon
  <2> QED BY <2>1, RunOfNone, Zenon
<1>6. ASSUME NEW n \in 0..RecoveryThreshold
      PROVE  Run(r, n, TRUE) <=> k.successes >= n
  <2>1. CASE n = 0
    <3>1. k.successes >= n
      BY <1>2, <1>3, <2>1
    <3> QED BY <1>5, <2>1, <3>1, Zenon
  <2>2. CASE n # 0
    <3>1. n \in 1..Window /\ n - 1 \in 0..RecoveryThreshold
      BY <1>3, <2>2
    <3>2. Run(r, n, TRUE) <=> Run(s, n - 1, TRUE)
      BY <1>4, <3>1, Zenon
    <3>3. Run(s, n - 1, TRUE) <=> h.successes >= n - 1
      BY <3>1, Zenon DEF Counts
    <3>4. h.successes >= n - 1 <=> k.successes >= n
      BY <1>2, <1>3, <2>2
    <3> QED BY <3>2, <3>3, <3>4, Zenon
  <2> QED BY <2>1, <2>2, Zenon
<1>7. ASSUME NEW n \in 0..FailureThreshold
      PROVE  Run(r, n, FALSE) <=> k.failures >= n
  <2>1. CASE n = 0
    <3>1. k.failures >= n
      BY <1>2, <2>1
    <3> QED BY <1>5, <2>1, <3>1, Zenon
  <2>2. CASE n # 0
    <3>1. n \in 1..Window /\ ~(k.failures >= n)
      BY <1>2, <1>3, <2>2
    <3> QED BY <1>4, <3>1, Zenon
  <2> QED BY <2>1, <2>2, Zenon
<1>8. /\ k.successes = RecoveryThreshold => k.state = "healthy"
      /\ k.failures # FailureThreshold
      /\ (h.state = "down") # (k.state = "down") => k.successes >= RecoveryThreshold
  BY <1>2, <1>3
<1>9. RecoveryThreshold \in 0..RecoveryThreshold
  BY <1>3
<1>10. Counts(r, k)
  BY <1>6, <1>7, <1>8, Zenon DEF Counts
<1> QED BY <1>1, <1>6, <1>8, <1>9, <1>10, Zenon
-----------------------------------------------------------------------------
\* The three together.

\* Except for the upstream whose callback runs, the policy knows what is down.
KnowsInv ==
    ~policyClosed => \A t \in Tags : t = callback \/ (t \in unusable <=> health[t].state = "down")

AlertsInv == CollectorInv /\ PolicyInv /\ KnowsInv /\ RunInv

\* A change to or from "down" comes with a run of its kind.
RunsCause ==
    \A t \in Tags : (health[t].state = "down") # (health'[t].state = "down") =>
        RunOf(t, FailureThreshold, FALSE)' \/ RunOf(t, RecoveryThreshold, TRUE)'

\* A step that leaves the policy alone.
LEMMA PolicySame ==
    ASSUME PolicyInv, UNCHANGED <<uptime, policyClosed, unusable, timerOf, timers, firing>>
    PROVE  PolicyInv'
<1>1. PolicyTypes'
  BY Zenon DEF PolicyInv, PolicyTypes
<1>2. \A i, t : Entry(i, t)' <=> Entry(i, t)
  BY Zenon DEF Entry
<1>3. TimerInv'
  BY <1>2, EntriesSame, Zenon DEF PolicyInv
<1> QED BY <1>1, <1>3, Zenon DEF PolicyInv

\* A step that leaves each upstream's state and counters alone, and the history.
LEMMA CountsKept ==
    ASSUME RunInv, UNCHANGED recent,
           \A t \in Tags : /\ health'[t].state = health[t].state /\ health'[t].failures = health[t].failures
                           /\ health'[t].successes = health[t].successes
    PROVE  RunInv' /\ RunsCause
<1>1. \A t \in Tags : Counts(recent'[t], health'[t])
  BY Zenon DEF RunInv, Counts
<1> QED BY <1>1, Zenon DEF RunInv, RunsCause

\* An observation.
LEMMA ObserveInv ==
    ASSUME AlertsInv, NEW p \in Probers, Observe(p)
    PROVE  AlertsInv' /\ RunsCause
<1>1. RecordResult(p) /\ UNCHANGED policyVars
  BY Zenon DEF Observe
<1>2. CollectorInv' /\ callback = None
  BY <1>1, RecordResultInv, Zenon DEF AlertsInv
<1>3. PICK t \in Tags, o \in Results :
          /\ t = prober[p].job.tag /\ o = prober[p].result
          /\ health'[t] \in ApplyObservation(health[t], o) /\ \A u \in Tags \ {t} : health'[u] = health[u]
          /\ callback' = t \/ (callback' = None /\ (health'[t].state = "down" <=> health[t].state = "down"))
  BY <1>1, RecordResultInv, Zenon DEF AlertsInv
<1>4. UNCHANGED <<uptime, policyClosed, unusable, timerOf, timers, firing>>
  BY <1>1, Zenon DEF policyVars
<1>5. PolicyInv'
  BY <1>4, PolicySame, Zenon DEF AlertsInv
<1>6. KnowsInv'
  <2> SUFFICES ASSUME ~policyClosed, NEW u \in Tags
               PROVE  u = callback' \/ (u \in unusable <=> health'[u].state = "down")
    BY <1>4, Zenon DEF KnowsInv
  <2>1. u # None
    BY UpstreamAssumption, Zenon
  <2>2. u \in unusable <=> health[u].state = "down"
    BY <1>2, <2>1, Zenon DEF AlertsInv, KnowsInv
  <2>3. CASE u = t
    BY <1>3, <2>2, <2>3, Zenon
  <2>4. CASE u # t
    BY <1>3, <2>2, <2>4, Zenon
  <2> QED BY <2>3, <2>4, Zenon
<1>7. PICK s \in Seq(BOOLEAN) : s = recent[t]
  BY Zenon DEF AlertsInv, RunInv
<1>8. PICK b \in BOOLEAN : b = o.success
  BY DEF Results
<1>9. PICK r : r = Latest(b, s)
  BY Zenon
<1>10. recent' = [recent EXCEPT ![t] = r]
  BY <1>3, <1>7, <1>8, <1>9, Zenon DEF Observe
<1>11. PICK h \in HealthRecord : h = health[t]
  BY Zenon DEF AlertsInv, CollectorInv, HealthTypes
<1>12. PICK k : k = health'[t]
  BY Zenon
<1>13. Counts(s, h)
  BY <1>7, <1>11, Zenon DEF AlertsInv, RunInv
<1>14. o.age \in Nat
  BY DEF Results
<1>15. /\ o.success => \E rtt \in Nat : k = Succeeded(h, rtt, o.age)
       /\ ~o.success => k = Failed(h)
  BY <1>3, <1>11, <1>12, ObservationIs, Zenon
<1>16. /\ Counts(r, k)
       /\ (h.state = "down") # (k.state = "down") =>
              Run(r, FailureThreshold, FALSE) \/ Run(r, RecoveryThreshold, TRUE)
  <2>1. CASE b
    <3>1. b = TRUE /\ o.success
      BY <1>8, <2>1, Zenon
    <3>2. PICK rtt \in Nat : k = Succeeded(h, rtt, o.age)
      BY <1>15, <3>1, Zenon
    <3>3. r = Latest(TRUE, s)
      BY <1>9, <3>1, Zenon
    <3> QED BY <1>13, <1>14, <3>2, <3>3, SuccessCounts, ZenonT(60)
  <2>2. CASE ~b
    <3>1. b = FALSE /\ ~o.success
      BY <1>8, <2>2, Zenon
    <3>2. k = Failed(h)
      BY <1>15, <3>1, Zenon
    <3>3. r = Latest(FALSE, s)
      BY <1>9, <3>1, Zenon
    <3> QED BY <1>13, <3>2, <3>3, FailureCounts, Zenon
  <2> QED BY <2>1, <2>2, Zenon
<1>17. r \in Seq(BOOLEAN)
  BY <1>9, RecentIs, Zenon
<1>18. recent'[t] = r /\ recent' \in [Tags -> Seq(BOOLEAN)] /\ \A u \in Tags \ {t} : recent'[u] = recent[u]
  BY <1>10, <1>17, Zenon DEF AlertsInv, RunInv
<1>19. RunInv'
  BY <1>3, <1>12, <1>16, <1>18, Zenon DEF AlertsInv, RunInv
<1>20. RunsCause
  <2> SUFFICES ASSUME NEW u \in Tags, (health[u].state = "down") # (health'[u].state = "down")
               PROVE  RunOf(u, FailureThreshold, FALSE)' \/ RunOf(u, RecoveryThreshold, TRUE)'
    BY Zenon DEF RunsCause
  <2>1. u = t
    BY <1>3, Zenon
  <2>2. Run(r, FailureThreshold, FALSE) \/ Run(r, RecoveryThreshold, TRUE)
    BY <1>11, <1>12, <1>16, <2>1, Zenon
  <2> QED BY <1>18, <2>1, <2>2, Zenon DEF Run, RunOf
<1> QED BY <1>2, <1>5, <1>6, <1>19, <1>20, Zenon DEF AlertsInv

\* The callback tells the policy.
LEMMA CallbackInv ==
    ASSUME AlertsInv, Callback
    PROVE  AlertsInv' /\ RunsCause
<1>1. PICK c \in Tags : c = callback
  BY Zenon DEF Callback, AlertsInv, CollectorInv, HealthTypes
<1>2. PICK usable \in BOOLEAN : usable <=> stats[c] # "down"
  BY Zenon
<1>3. NotifyReturns /\ UNCHANGED recent
  BY Zenon DEF Callback
<1>4. HandleUsabilityChange(c, usable)
  BY <1>1, <1>2, Zenon DEF Callback, HandleUsabilityChange
<1>5. /\ PolicyInv' /\ policyClosed' = policyClosed
      /\ ~policyClosed => /\ c \in unusable' <=> ~usable
                          /\ \A u \in Tags : u # c => (u \in unusable' <=> u \in unusable)
  BY <1>4, HandleInv, Zenon DEF AlertsInv
<1>6. CollectorInv' /\ UNCHANGED <<health, stats>> /\ callback' = None
  BY <1>3, NotifyReturnsInv, Zenon DEF AlertsInv
<1>7. stats[c] = "down" <=> health[c].state = "down"
  BY Zenon DEF AlertsInv, CollectorInv, StatsInv
<1>8. KnowsInv'
  <2> SUFFICES ASSUME ~policyClosed, NEW u \in Tags
               PROVE  u \in unusable' <=> health[u].state = "down"
    BY <1>5, <1>6, Zenon DEF KnowsInv
  <2>1. CASE u = c
    BY <1>2, <1>5, <1>7, <2>1, Zenon
  <2>2. CASE u # c
    BY <1>1, <1>5, <2>2, Zenon DEF AlertsInv, KnowsInv
  <2> QED BY <2>1, <2>2, Zenon
<1>9. RunInv' /\ RunsCause
  BY <1>3, <1>6, CountsKept, Zenon DEF AlertsInv
<1> QED BY <1>5, <1>6, <1>8, <1>9, Zenon DEF AlertsInv

\* A step that leaves the policy, the health and the history alone.
LEMMA PolicyUntouched ==
    ASSUME AlertsInv, CollectorInv', UNCHANGED <<policyVars, recent, callback>>,
           \A t \in Tags : /\ health'[t].state = health[t].state /\ health'[t].failures = health[t].failures
                           /\ health'[t].successes = health[t].successes
    PROVE  AlertsInv' /\ RunsCause
<1>1. UNCHANGED <<uptime, policyClosed, unusable, timerOf, timers, firing, recent, callback>>
  BY Zenon DEF policyVars
<1>2. PolicyInv'
  BY <1>1, PolicySame, Zenon DEF AlertsInv
<1>3. KnowsInv'
  BY <1>1, Zenon DEF AlertsInv, KnowsInv
<1>4. RunInv' /\ RunsCause
  BY <1>1, CountsKept, Zenon DEF AlertsInv
<1> QED BY <1>2, <1>3, <1>4, Zenon DEF AlertsInv

\* A tick of all clocks.
LEMMA TickKeeps ==
    ASSUME AlertsInv, Tick
    PROVE  AlertsInv' /\ RunsCause
<1>1. UpstreamTick /\ MeasureTick /\ PolicyTick /\ UNCHANGED recent
  BY Zenon DEF Tick
<1>2. PolicyInv' /\ UNCHANGED <<policyClosed, unusable>>
  BY <1>1, PolicyTickInv, Zenon DEF AlertsInv
<1>3. CollectorInv' /\ UNCHANGED callback
      /\ \A t \in Tags : /\ health'[t].state = health[t].state /\ health'[t].failures = health[t].failures
                         /\ health'[t].successes = health[t].successes
  BY <1>1, TickInv, Zenon DEF AlertsInv
<1>4. KnowsInv'
  BY <1>2, <1>3, Zenon DEF AlertsInv, KnowsInv
<1>5. RunInv' /\ RunsCause
  BY <1>1, <1>3, CountsKept, Zenon DEF AlertsInv
<1> QED BY <1>2, <1>3, <1>4, <1>5, Zenon DEF AlertsInv

\* The collector and the history stay where they are.
LEMMA CollectorSame ==
    ASSUME AlertsInv, UNCHANGED <<health, stats, callback, prober, recent>>
    PROVE  CollectorInv' /\ RunInv' /\ RunsCause
<1>1. CollectorInv'
  BY Zenon DEF AlertsInv, CollectorInv, ProbeTypes, ProberAt, HealthTypes, StatsInv
<1>2. RunInv' /\ RunsCause
  BY CountsKept, Zenon DEF AlertsInv
<1> QED BY <1>1, <1>2, Zenon

\* Every step.
LEMMA AlertsStep ==
    ASSUME AlertsInv, [Next]_vars
    PROVE  AlertsInv' /\ RunsCause
<1>1. DOMAIN prober = Probers
  BY Zenon DEF AlertsInv, CollectorInv, ProbeTypes
<1>2. CASE ProberWorks /\ UNCHANGED <<policyVars, recent>>
  <2>1. CollectorInv' /\ UNCHANGED <<health, callback>>
    BY <1>2, ProberWorksInv, Zenon DEF AlertsInv
  <2> QED BY <1>2, <2>1, PolicyUntouched, Zenon
<1>3. ASSUME NEW p \in Probers, ProberRuns(p)
      PROVE  AlertsInv' /\ RunsCause
  <2>1. Observe(p) \/ Callback \/ (ProberWorks /\ UNCHANGED <<policyVars, recent>>)
    BY <1>3, Zenon DEF ProberRuns, ProberWorks
  <2> QED BY <1>2, <2>1, ObserveInv, CallbackInv, Zenon
<1>4. CASE Requests \/ StopCancels \/ StopLoop
  <2>1. ProberWorks /\ UNCHANGED <<policyVars, recent>>
    BY <1>4, Zenon DEF Requests, StopCancels, StopLoop, ProberWorks
  <2> QED BY <1>2, <2>1, Zenon
<1>5. CASE Timers
  <2>1. PolicyInv' /\ UNCHANGED <<policyClosed, unusable, health, stats, callback, prober, recent>>
    BY <1>5, TimersInv, Zenon DEF AlertsInv
  <2>2. CollectorInv' /\ RunInv' /\ RunsCause
    BY <2>1, CollectorSame, Zenon
  <2>3. KnowsInv'
    BY <2>1, Zenon DEF AlertsInv, KnowsInv
  <2> QED BY <2>1, <2>2, <2>3, Zenon DEF AlertsInv
<1>6. CASE StopClosesPolicy
  <2>1. UNCHANGED <<health, stats, callback, prober, recent>>
    BY <1>6, Zenon DEF StopClosesPolicy, upstreamVars, measureVars
  <2>2. PolicyInv' /\ policyClosed'
    BY <1>6, CloseInv, Zenon DEF StopClosesPolicy, AlertsInv
  <2>3. CollectorInv' /\ RunInv' /\ RunsCause
    BY <2>1, CollectorSame, Zenon
  <2> QED BY <2>2, <2>3, Zenon DEF AlertsInv, KnowsInv
<1>7. CASE UNCHANGED vars
  <2>1. UNCHANGED <<health, stats, callback, prober, recent>> /\ UNCHANGED policyVars
    BY <1>7, Zenon DEF vars, upstreamVars, measureVars
  <2>2. CollectorInv'
    BY <2>1, CollectorSame, Zenon
  <2> QED BY <2>1, <2>2, PolicyUntouched, Zenon
<1> QED BY <1>1, <1>3, <1>4, <1>5, <1>6, <1>7, TickKeeps, Zenon DEF Next

\* The start.
LEMMA AlertsInit == Init => AlertsInv
<1> SUFFICES ASSUME Init
             PROVE  AlertsInv
  BY Zenon
<1>1. PICK h : h = [state |-> "", rtt |-> 0, since |-> None, successes |-> 0, failures |-> 0]
  BY Zenon
<1>2. 0 \in 0..FailureThreshold /\ 0 \in 0..RecoveryThreshold
  BY ThresholdsAre
<1>3. h \in HealthRecord /\ h.state = "" /\ h.failures = 0 /\ h.successes = 0
  BY <1>1, <1>2 DEF HealthRecord
<1>4. health = [t \in Tags |-> h] /\ stats = [t \in Tags |-> ""] /\ callback = None
  BY <1>1, Zenon DEF Init, UpstreamInit
<1>5. "" \in HealthState
  BY Zenon DEF HealthState
<1>6. HealthTypes /\ StatsInv
  BY <1>3, <1>4, <1>5, Zenon DEF HealthTypes, StatsInv
<1>7. ProbeTypes
  BY IdleIs, Zenon DEF Init, MeasureInit, ProbeTypes, ProberAt, Probers
<1>8. uptime = 0 /\ policyClosed = FALSE /\ unusable = {} /\ timers = {} /\ firing = {} /\ timerOf = [t \in Tags |-> NoTimer]
  BY AlertsAssumption, Zenon DEF Init, PolicyInit
<1>9. uptime \in Int
  BY <1>8
<1>10. PolicyInv
  BY <1>8, <1>9, Zenon DEF PolicyInv, PolicyTypes, TimerInv, Entry
<1>11. KnowsInv
  BY <1>3, <1>4, <1>8, Zenon DEF KnowsInv
<1>12. recent = [t \in Tags |-> <<>>] /\ <<>> \in Seq(BOOLEAN)
  BY DEF Init
<1>13. Counts(<<>>, h)
  <2>1. /\ \A n \in 0..FailureThreshold : Run(<<>>, n, FALSE) <=> h.failures >= n
        /\ \A n \in 0..RecoveryThreshold : Run(<<>>, n, TRUE) <=> h.successes >= n
    <3>1. \A n \in 0..FailureThreshold : n \in Nat
      OBVIOUS
    <3>2. \A n \in 0..RecoveryThreshold : n \in Nat
      OBVIOUS
    <3> QED BY <1>3, <3>1, <3>2, NoRun, Zenon
  <2>2. h.failures # FailureThreshold /\ h.successes # RecoveryThreshold
    BY <1>3, ThresholdsAre
  <2> QED BY <2>1, <2>2, Zenon DEF Counts
<1>14. RunInv
  BY <1>4, <1>12, <1>13, Zenon DEF RunInv
<1> QED BY <1>6, <1>7, <1>10, <1>11, <1>14, Zenon DEF AlertsInv, CollectorInv

\* The alert policy never loses track of an upstream: when no callback runs it knows exactly the
\* ones that are down, and each of these has its own timer, armed or firing.
THEOREM PolicyFollowsHealthAlways == Spec => []PolicyFollowsHealth
<1>1. AlertsInv /\ [Next]_vars => AlertsInv'
  BY AlertsStep, Zenon
<1>2. ASSUME AlertsInv PROVE PolicyFollowsHealth
  <2>1. {t \in Tags : stats[t] = "down"} = DownTags
    BY <1>2, Zenon DEF AlertsInv, CollectorInv, StatsInv, DownTags
  <2>2. ASSUME ~policyClosed, callback = None
        PROVE  unusable = DownTags
    <3>1. \A t \in Tags : t # None
      BY UpstreamAssumption, Zenon
    <3>2. unusable \subseteq Tags /\ \A t \in Tags : t \in unusable <=> health[t].state = "down"
      BY <1>2, <2>2, <3>1, Zenon DEF AlertsInv, KnowsInv, PolicyInv, PolicyTypes
    <3> QED BY <3>2, Zenon DEF DownTags
  <2>3. ASSUME ~policyClosed, NEW t \in unusable
        PROVE  \E x \in timers \cup firing : x.tag = t /\ x.id = timerOf[t]
    BY <1>2, <2>3, Zenon DEF AlertsInv, PolicyInv, TimerInv, Entry
  <2> QED BY <2>1, <2>2, <2>3, Zenon DEF PolicyFollowsHealth
<1> QED BY <1>1, <1>2, AlertsInit, PTL DEF Spec

\* Health follows the outcomes of probes, for all thresholds: full runs decide the state, and
\* nothing but a full run turns an upstream down or up.
THEOREM HealthFollowsProbesAlways == Spec => HealthFollowsProbes
<1> DEFINE P == \A t \in Tags : /\ RunOf(t, FailureThreshold, FALSE) => health[t].state = "down"
                                /\ RunOf(t, RecoveryThreshold, TRUE) => health[t].state = "healthy"
           A == \A t \in Tags : (health[t].state = "down") # (health'[t].state = "down") =>
                    RunOf(t, FailureThreshold, FALSE)' \/ RunOf(t, RecoveryThreshold, TRUE)'
<1>1. AlertsInv /\ [Next]_vars => AlertsInv' /\ A
  BY AlertsStep, Zenon DEF RunsCause
<1>2. AlertsInv => P
  <2> SUFFICES ASSUME AlertsInv, NEW t \in Tags
               PROVE  /\ RunOf(t, FailureThreshold, FALSE) => health[t].state = "down"
                      /\ RunOf(t, RecoveryThreshold, TRUE) => health[t].state = "healthy"
    BY Zenon
  <2>1. Counts(recent[t], health[t]) /\ health[t] \in HealthRecord
    BY Zenon DEF AlertsInv, RunInv, CollectorInv, HealthTypes
  <2>2. /\ FailureThreshold \in 0..FailureThreshold /\ RecoveryThreshold \in 0..RecoveryThreshold
        /\ health[t].failures \in 0..FailureThreshold /\ health[t].successes \in 0..RecoveryThreshold
    <3>1. health[t].failures \in 0..FailureThreshold /\ health[t].successes \in 0..RecoveryThreshold
      BY <2>1 DEF HealthRecord
    <3> QED BY <3>1, ThresholdsAre
  <2>3. /\ RunOf(t, FailureThreshold, FALSE) => health[t].failures >= FailureThreshold
        /\ RunOf(t, RecoveryThreshold, TRUE) => health[t].successes >= RecoveryThreshold
    BY <2>1, <2>2, Zenon DEF Counts, Run, RunOf
  <2>4. /\ health[t].failures >= FailureThreshold => health[t].failures = FailureThreshold
        /\ health[t].successes >= RecoveryThreshold => health[t].successes = RecoveryThreshold
    BY <2>2
  <2> QED BY <2>1, <2>3, <2>4, Zenon DEF Counts
<1> HIDE DEF P, A
<1>3. Spec => []P /\ [][A]_vars
  BY <1>1, <1>2, AlertsInit, PTL DEF Spec
<1> QED BY <1>3 DEF HealthFollowsProbes, P, A

\* An alert is about an upstream that is down, or whose recovery is being reported, and none is
\* emitted once the policy is closed.
THEOREM AlertsAreTrueAlways == Spec => AlertsAreTrue
<1> DEFINE A == \A x \in firing : Alert(x) => ~policyClosed /\ (x.tag \in DownTags \/ callback = x.tag)
<1>1. AlertsInv /\ [Next]_vars => AlertsInv'
  BY AlertsStep, Zenon
<1>2. AlertsInv => A
  <2> SUFFICES ASSUME AlertsInv, NEW x \in firing, Alert(x)
               PROVE  ~policyClosed /\ (x.tag \in DownTags \/ callback = x.tag)
    BY Zenon
  <2>1. ~policyClosed /\ x.tag \in unusable
    BY Zenon DEF Alert
  <2> QED BY <2>1, Zenon DEF AlertsInv, PolicyInv, PolicyTypes, KnowsInv, DownTags
<1> HIDE DEF A
<1>3. Spec => [][A]_vars
  BY <1>1, <1>2, AlertsInit, PTL DEF Spec
<1> QED BY <1>3 DEF AlertsAreTrue, A

=============================================================================
