----------------------------- MODULE NotifyPolicy -----------------------------
(***************************************************************************)
(* The alert policy of internal/notify/policy.go: the alert state and the  *)
(* timer of each unusable upstream.                                        *)
(*                                                                         *)
(* A timer of time.AfterFunc runs its callback in a goroutine of its own:  *)
(* Stop does nothing for a callback that has started and waits for         *)
(* Policy.mu.  `firing' holds those callbacks; `timers' the armed timers,  *)
(* also the ones no alert state refers to any more.  Emit never blocks and *)
(* its answer is ignored (NotifyClient): here it only marks the upstream.  *)
(***************************************************************************)
EXTENDS Integers, FiniteSets

CONSTANTS
    AlertTags,                                              \* upstream tags
    StartupGracePeriod, UnusableInterval, NotifyInterval,   \* ticks
    TimerIds,           \* bound: timers armed or firing at once
    NoTimer             \* state.timer = nil; no alert state

ASSUME NotifyPolicyAssumption ==
    {StartupGracePeriod, UnusableInterval, NotifyInterval} \subseteq Nat \ {0} /\ NoTimer \notin TimerIds

VARIABLES
    uptime,         \* ticks since startTime, up to StartupGracePeriod
    policyClosed,
    unusable,       \* Policy.unusable: the tags that have an alert state
    timerOf,        \* per tag: state.timer
    timers,         \* armed timers: id, tag, ticks left
    firing,         \* callbacks that have started and not yet taken Policy.mu: id, tag
    alerted         \* tags alerted since their alert state was made (history)

policyVars == <<uptime, policyClosed, unusable, timerOf, timers, firing, alerted>>

PolicyTypeOK ==
    /\ uptime \in 0..StartupGracePeriod
    /\ policyClosed \in BOOLEAN
    /\ {unusable, alerted} \subseteq SUBSET AlertTags
    /\ timerOf \in [AlertTags -> TimerIds \cup {NoTimer}]
    /\ timers \subseteq [id : TimerIds, tag : AlertTags,
                        left : 0..(StartupGracePeriod + UnusableInterval + NotifyInterval)]
    /\ firing \subseteq [id : TimerIds, tag : AlertTags]

PolicyInit ==
    /\ uptime = 0
    /\ policyClosed = FALSE /\ unusable = {} /\ alerted = {}
    /\ timerOf = [t \in AlertTags |-> NoTimer]
    /\ timers = {} /\ firing = {}


FreeId == CHOOSE i \in TimerIds : \A x \in timers \cup firing : x.id # i
HasFreeId == \E i \in TimerIds : \A x \in timers \cup firing : x.id # i

\* initialUnusableDelayLocked: the unusable interval, and not before the grace period ends.
InitialUnusableDelay ==
    LET grace == StartupGracePeriod - uptime IN IF grace > UnusableInterval THEN grace ELSE UnusableInterval

\* clearUnusableLocked, with Stop: an armed timer is removed, a firing callback is not.
ClearUnusable(t) ==
    /\ timers' = {x \in timers : x.id # timerOf[t]}
    /\ timerOf' = [timerOf EXCEPT ![t] = NoTimer]
    /\ unusable' = unusable \ {t} /\ alerted' = alerted \ {t}
    /\ UNCHANGED <<uptime, policyClosed, firing>>

\* The disjunct of a tag that has no timer yet; one that has keeps it.
MarkUnusable(t) ==
    /\ unusable' = unusable \cup {t}
    /\ IF timerOf[t] # NoTimer THEN UNCHANGED <<timers, timerOf>>
       ELSE /\ HasFreeId
            /\ timers' = timers \cup {[id |-> FreeId, tag |-> t, left |-> InitialUnusableDelay]}
            /\ timerOf' = [timerOf EXCEPT ![t] = FreeId]
    /\ UNCHANGED <<uptime, policyClosed, firing, alerted>>

HandleUsabilityChange(t, usable) ==
    IF policyClosed THEN UNCHANGED policyVars
    ELSE IF usable THEN ClearUnusable(t) ELSE MarkUnusable(t)

\* The runtime starts the callback of a timer that is due.
TimerFires(x) ==
    /\ x \in timers /\ x.left = 0
    /\ timers' = timers \ {x}
    /\ firing' = firing \cup {[id |-> x.id, tag |-> x.tag]}
    /\ UNCHANGED <<uptime, policyClosed, unusable, timerOf, alerted>>

\* The timer that replaces x in the state of its tag; the timer it overwrites is not stopped.
Rearm(x, delay) ==
    /\ timers' = timers \cup {[id |-> x.id, tag |-> x.tag, left |-> delay]}
    /\ timerOf' = [timerOf EXCEPT ![x.tag] = x.id]

\* fireUnusableAlert of a callback that finds the policy closed or its tag recovered.
AlertObsolete(x) ==
    /\ x \in firing
    /\ policyClosed \/ x.tag \notin unusable
    /\ firing' = firing \ {x}
    /\ UNCHANGED <<uptime, policyClosed, unusable, timerOf, timers, alerted>>

\* ... one that comes before the grace period is over waits for its end,
AlertDuringGrace(x) ==
    /\ x \in firing /\ ~policyClosed /\ x.tag \in unusable
    /\ uptime < StartupGracePeriod
    /\ firing' = firing \ {x}
    /\ Rearm(x, StartupGracePeriod - uptime)
    /\ UNCHANGED <<uptime, policyClosed, unusable, alerted>>

AlertUnchecked(x) ==
    /\ x \in firing /\ ~policyClosed
    /\ uptime >= StartupGracePeriod
    /\ firing' = firing \ {x}
    /\ alerted' = alerted \cup {x.tag}
    /\ Rearm(x, NotifyInterval)
    /\ UNCHANGED <<uptime, policyClosed, unusable>>

AlertUnsent(x) ==
    /\ x \in firing /\ ~policyClosed /\ x.tag \in unusable
    /\ uptime >= StartupGracePeriod
    /\ firing' = firing \ {x}
    /\ Rearm(x, NotifyInterval)
    /\ UNCHANGED <<uptime, policyClosed, unusable, alerted>>

\* fireUnusableAlert: the alert is emitted and the next one scheduled.
Alert(x) ==
    /\ x \in firing /\ ~policyClosed /\ x.tag \in unusable
    /\ uptime >= StartupGracePeriod
    /\ firing' = firing \ {x}
    /\ alerted' = alerted \cup {x.tag}
    /\ Rearm(x, NotifyInterval)
    /\ UNCHANGED <<uptime, policyClosed, unusable>>

\* Policy.Close stops the timers its states refer to; the states stay.
ClosePolicy ==
    /\ policyClosed' = TRUE
    /\ timers' = {x \in timers : timerOf[x.tag] # x.id}
    /\ timerOf' = [t \in AlertTags |-> NoTimer]
    /\ UNCHANGED <<uptime, unusable, firing, alerted>>

PolicyTick ==
    /\ uptime' = IF uptime < StartupGracePeriod THEN uptime + 1 ELSE uptime
    /\ timers' = {[x EXCEPT !.left = IF @ = 0 THEN 0 ELSE @ - 1] : x \in timers}
    /\ UNCHANGED <<policyClosed, unusable, timerOf, firing, alerted>>

=============================================================================
