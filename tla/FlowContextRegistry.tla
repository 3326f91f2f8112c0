-------------------------- MODULE FlowContextRegistry --------------------------
(***************************************************************************)
(* The Flow Context registry of internal/flowcontext/registry.go: which    *)
(* flow a backend means when it names the tuple of a connection.  The      *)
(* entries are found by flow and, through the index `tuples', by tuple.    *)
(* One action is one critical section of r.mu.  A snapshot taken there is  *)
(* sent to the bounded queue after the unlock, a step of its own.          *)
(*                                                                         *)
(* The callers: per flow, the lifecycle (Open, Close under Lifecycle.mu)   *)
(* and the forwarding goroutine (Bind, after Open); backends waiting in    *)
(* Resolve; the cleanup and snapshot loops; Shutdown.                      *)
(***************************************************************************)
EXTENDS Naturals, Sequences, FiniteSets

CONSTANTS
    Flows,             \* flow.ID, each opened at most once
    Keys,              \* valid values of tupleKey
    Resolvers,         \* concurrent calls of Resolve
    MaxEntries,        \* options.MaxEntries
    Grace,             \* options.GracePeriod, in ticks of the clock
    SnapshotQueueSize, \* options.SnapshotQueueSize
    SinkSet,           \* SetSnapshotSink was called
    MaxBinds,          \* bound: Binds of one flow, its Generation
    MaxShutdowns,      \* bound: calls of Shutdown (closeOnce: at most one)
    None

ASSUME RegistryAssumption ==
    /\ IsFiniteSet(Flows)
    /\ MaxEntries \in Nat \ {0}
    /\ Grace \in Nat \ {0}
    /\ SnapshotQueueSize \in Nat \ {0}
    /\ SinkSet \in BOOLEAN
    /\ MaxBinds \in Nat
    /\ MaxShutdowns \in {0, 1}
    /\ None \notin Flows \cup Keys

VARIABLES
    caller,     \* per flow: its Lifecycle, "new", "open" or "closed"
    state,      \* per flow: "absent" from entries, StateActive or StateClosed
    tuple,      \* per flow: the key of its BackendTuple, None without hasTuple
    gen,        \* per flow: Generation
    left,       \* per closed flow: ticks until ResolveUntil
    tuples,     \* the index: key to flow
    want,       \* per resolver: the key it asks for, None when it is not running
    woken,      \* resolvers whose captured `updates' channel is closed
    waiting,    \* resolvers in the select
    emits,      \* per flow and thread: snapshots taken, not yet sent to the queue
    snapshotCh, \* the queue
    shutdown    \* Shutdown and the loops it stops

entryVars   == <<state, tuple, gen, left, tuples>>
resolveVars == <<want, woken, waiting>>
vars == <<caller, entryVars, resolveVars, emits, snapshotCh, shutdown>>

Snapshot == [flow : Flows, state : {"active", "closed"}, key : Keys \cup {None}, gen : 0..MaxBinds]
ShutdownStep == {"up", "stop", "drain", "drained", "closed"}
Threads == {"lifecycle", "bind"}

TypeOK ==
    /\ caller \in [Flows -> {"new", "open", "closed"}]
    /\ state \in [Flows -> {"absent", "active", "closed"}]
    /\ tuple \in [Flows -> Keys \cup {None}]
    /\ gen \in [Flows -> 0..MaxBinds]
    /\ left \in [Flows -> 0..Grace]
    /\ tuples \in [Keys -> Flows \cup {None}]
    /\ want \in [Resolvers -> Keys \cup {None}]
    /\ woken \subseteq waiting /\ waiting \subseteq Resolvers
    /\ emits \in [Flows \X Threads -> Seq(Snapshot)]
    /\ snapshotCh \in Seq(Snapshot) /\ Len(snapshotCh) <= SnapshotQueueSize
    /\ shutdown \in ShutdownStep

Init ==
    /\ caller = [f \in Flows |-> "new"]
    /\ state = [f \in Flows |-> "absent"]
    /\ tuple = [f \in Flows |-> None]
    /\ gen = [f \in Flows |-> 0]
    /\ left = [f \in Flows |-> 0]
    /\ tuples = [k \in Keys |-> None]
    /\ want = [r \in Resolvers |-> None]
    /\ woken = {} /\ waiting = {}
    /\ emits = [t \in Flows \X Threads |-> <<>>]
    /\ snapshotCh = <<>>
    /\ shutdown = "up"

closed == shutdown = "closed"

-----------------------------------------------------------------------------
\* cleanupExpiredLocked and signalLocked.

Expired(f) == state[f] = "closed" /\ left[f] = 0

\* What the two loops of cleanupExpiredLocked leave.
CleanState == [f \in Flows |-> IF Expired(f) THEN "absent" ELSE state[f]]
CleanTuple == [f \in Flows |-> IF Expired(f) THEN None ELSE tuple[f]]

CleanTuples ==
    [k \in Keys |-> IF tuples[k] # None /\ CleanTuple[tuples[k]] = k THEN tuples[k] ELSE None]

removed == CleanState # state \/ CleanTuples # tuples

\* signalLocked closes `updates' and makes a new channel: all who wait on the old one.
signal == woken' = waiting

\* cleanupExpiredLocked as the whole effect of a critical section.
Cleanup ==
    /\ state' = CleanState
    /\ tuple' = CleanTuple
    /\ tuples' = CleanTuples
    /\ IF removed THEN signal ELSE UNCHANGED woken

Context(f, st, k, g) == [flow |-> f, state |-> st, key |-> k, gen |-> g]

\* emitSnapshot to come, in thread t; without a sink there is none.
Emit(t, s) == emits' = IF SinkSet THEN [emits EXCEPT ![t] = s] ELSE emits
-----------------------------------------------------------------------------
\* flow.Observer: Open and Close.

HasRoom == Cardinality({f \in Flows : CleanState[f] # "absent"}) < MaxEntries

Open(f) ==
    /\ caller[f] = "new"
    /\ caller' = [caller EXCEPT ![f] = "open"]
    /\ IF closed THEN UNCHANGED <<state, tuple, tuples, woken, emits>>
       ELSE /\ tuple' = CleanTuple
            /\ tuples' = CleanTuples
            /\ IF HasRoom
               THEN /\ state' = [CleanState EXCEPT ![f] = "active"]
                    /\ signal
                    /\ Emit(<<f, "lifecycle">>, <<Context(f, "active", None, 0)>>)
               ELSE /\ state' = CleanState
                    /\ IF removed THEN signal ELSE UNCHANGED woken
                    /\ UNCHANGED emits
    /\ UNCHANGED <<gen, left, want, waiting, snapshotCh, shutdown>>

\* The grace period starts; a flow that was rejected or cleared has no entry.
Close(f) ==
    /\ caller[f] = "open" /\ emits[<<f, "lifecycle">>] = <<>>
    /\ caller' = [caller EXCEPT ![f] = "closed"]
    /\ IF state[f] = "absent" THEN UNCHANGED <<state, left, woken, emits>>
       ELSE /\ state' = [state EXCEPT ![f] = "closed"]
            /\ left' = [left EXCEPT ![f] = Grace]
            /\ signal
            /\ Emit(<<f, "lifecycle">>, <<Context(f, "closed", tuple[f], gen[f])>>)
    /\ UNCHANGED <<tuple, gen, tuples, want, waiting, snapshotCh, shutdown>>

-----------------------------------------------------------------------------
\* Bind: the flow takes the key over from the flow that had it.

Holder(k) == CleanTuples[k]

\* Mutants: the old key of the flow is deleted last, also when it is the new one;
\* the waiting resolvers are not told.
BoundIndexDeletesLast(f, k) ==
    [j \in Keys |-> IF tuple[f] = j THEN None ELSE IF j = k THEN f ELSE CleanTuples[j]]
BindSignalForgotten == UNCHANGED woken

BoundTuple(f, k) ==
    [g \in Flows |-> IF g = f THEN k ELSE IF g = Holder(k) THEN None ELSE CleanTuple[g]]

BoundIndex(f, k) ==
    [j \in Keys |-> IF j = k THEN f ELSE IF CleanTuples[j] = f THEN None ELSE CleanTuples[j]]

BindSignal == signal

\* The snapshot of the former holder first, then that of the flow.
Bind(f, k) ==
    LET old == Holder(k) IN
    /\ caller[f] # "new" /\ gen[f] < MaxBinds
    /\ \A t \in Threads : emits[<<f, t>>] = <<>>
    /\ state[f] = "active" /\ ~closed
    /\ state' = CleanState
    /\ tuple' = BoundTuple(f, k)
    /\ tuples' = BoundIndex(f, k)
    /\ gen' = [gen EXCEPT ![f] = @ + 1]
    /\ BindSignal
    /\ Emit(<<f, "bind">>,
            IF old \in {None, f} THEN <<Context(f, "active", k, gen[f] + 1)>>
            ELSE <<Context(old, state[old], None, gen[old]), Context(f, "active", k, gen[f] + 1)>>)
    /\ UNCHANGED <<caller, left, want, waiting, snapshotCh, shutdown>>

-----------------------------------------------------------------------------
\* Resolve.

\* The entry found through the index after the cleanup.
Resolution(k) ==
    LET f == CleanTuples[k] IN
    IF ~closed /\ f # None /\ CleanTuple[f] # None /\ CleanState[f] # "absent" THEN f ELSE None

ResolveStart(r, k) ==
    /\ want[r] = None
    /\ want' = [want EXCEPT ![r] = k]
    /\ UNCHANGED <<caller, entryVars, woken, waiting, emits, snapshotCh, shutdown>>

\* One pass of the loop that returns: closed, found, or not found with no time left.
ResolveReturn(r) ==
    /\ want[r] # None /\ r \notin waiting
    /\ want' = [want EXCEPT ![r] = None]
    /\ IF closed THEN UNCHANGED <<state, tuple, tuples, woken>> ELSE Cleanup
    /\ UNCHANGED <<caller, gen, left, waiting, emits, snapshotCh, shutdown>>

\* One pass of the loop that waits: nothing found, `updates' read before the unlock.
ResolveWait(r) ==
    /\ want[r] # None /\ r \notin waiting /\ ~closed
    /\ Resolution(want[r]) = None
    /\ waiting' = waiting \cup {r}
    /\ Cleanup
    /\ UNCHANGED <<caller, gen, left, want, emits, snapshotCh, shutdown>>

\* The select: updates, or the timer or ctx.
ResolveWake(r) ==
    /\ r \in woken
    /\ waiting' = waiting \ {r} /\ woken' = woken \ {r}
    /\ UNCHANGED <<caller, entryVars, want, emits, snapshotCh, shutdown>>

ResolveTimeout(r) ==
    /\ r \in waiting
    /\ waiting' = waiting \ {r} /\ woken' = woken \ {r}
    /\ want' = [want EXCEPT ![r] = None]
    /\ UNCHANGED <<caller, entryVars, emits, snapshotCh, shutdown>>

-----------------------------------------------------------------------------
\* The clock, the cleanup loop (and Lookup, which cleans up too).

Tick ==
    /\ \E f \in Flows : left[f] > 0
    /\ left' = [f \in Flows |-> IF left[f] > 0 THEN left[f] - 1 ELSE 0]
    /\ UNCHANGED <<caller, state, tuple, gen, tuples, resolveVars, emits, snapshotCh, shutdown>>

CleanupRun ==
    /\ ~closed /\ removed
    /\ Cleanup
    /\ UNCHANGED <<caller, gen, left, want, waiting, emits, snapshotCh, shutdown>>

-----------------------------------------------------------------------------
\* Snapshots: emitSnapshot drops when the queue is full, snapshotLoop publishes.

EmitSnapshot(t) ==
    /\ emits[t] # <<>>
    /\ emits' = [emits EXCEPT ![t] = Tail(@)]
    /\ snapshotCh' = IF Len(snapshotCh) < SnapshotQueueSize
                     THEN Append(snapshotCh, Head(emits[t])) ELSE snapshotCh
    /\ UNCHANGED <<caller, entryVars, resolveVars, shutdown>>

PublishSnapshot ==
    /\ shutdown \in {"up", "stop", "drain"} /\ snapshotCh # <<>>
    /\ snapshotCh' = Tail(snapshotCh)
    /\ UNCHANGED <<caller, entryVars, resolveVars, emits, shutdown>>

-----------------------------------------------------------------------------
\* Shutdown: the cleanup loop, the snapshot loop, then the maps.

ShutdownStart ==
    /\ MaxShutdowns = 1 /\ shutdown = "up"
    /\ shutdown' = "stop"
    /\ UNCHANGED <<caller, entryVars, resolveVars, emits, snapshotCh>>

ShutdownSnapshots ==
    /\ shutdown = "stop"
    /\ shutdown' = "drain"
    /\ UNCHANGED <<caller, entryVars, resolveVars, emits, snapshotCh>>

\* Mutant: the loop returns at once.
SnapshotLoopExits ==
    /\ shutdown = "drain"
    /\ shutdown' = "drained"
    /\ UNCHANGED <<caller, entryVars, resolveVars, emits, snapshotCh>>

\* snapshotLoop returns when it finds the queue empty.
SnapshotLoopExit ==
    /\ shutdown = "drain" /\ snapshotCh = <<>>
    /\ shutdown' = "drained"
    /\ UNCHANGED <<caller, entryVars, resolveVars, emits, snapshotCh>>

ShutdownClear ==
    /\ shutdown = "drained"
    /\ shutdown' = "closed"
    /\ state' = [f \in Flows |-> "absent"]
    /\ tuple' = [f \in Flows |-> None]
    /\ tuples' = [k \in Keys |-> None]
    /\ signal
    /\ UNCHANGED <<caller, gen, left, want, waiting, emits, snapshotCh>>

-----------------------------------------------------------------------------
ResolverNext(r) ==
    \/ ResolveReturn(r) \/ ResolveWait(r) \/ ResolveWake(r) \/ ResolveTimeout(r)

ShutdownNext == ShutdownSnapshots \/ SnapshotLoopExit \/ ShutdownClear

Next ==
    \/ \E f \in Flows : Open(f) \/ Close(f) \/ \E k \in Keys : Bind(f, k)
    \/ \E r \in Resolvers : ResolverNext(r) \/ \E k \in Keys : ResolveStart(r, k)
    \/ Tick \/ CleanupRun
    \/ \E t \in Flows \X Threads : EmitSnapshot(t)
    \/ PublishSnapshot
    \/ ShutdownStart \/ ShutdownNext

Spec == Init /\ [][Next]_vars

\* Goroutines that can run are scheduled.  Requests, timeouts of Resolve, the
\* clock and the cleanup ticker are not needed and not assumed.
Fairness ==
    /\ \A t \in Flows \X Threads : WF_vars(EmitSnapshot(t))
    /\ WF_vars(PublishSnapshot)
    /\ WF_vars(ShutdownNext)
    /\ \A r \in Resolvers : WF_vars(ResolveWake(r))

FairSpec == Spec /\ Fairness

-----------------------------------------------------------------------------
Live(f) == state[f] = "active" \/ (state[f] = "closed" /\ left[f] > 0)

(* The index answers as a search of the entries would: Resolve finds a flow *)
(* for a key exactly when that flow carries the key and is active or in its *)
(* grace period, and no two such flows carry the same key.  Bind, rebind,   *)
(* takeover, close, expiry and lazy cleanup each keep it so.                *)
IndexExact ==
    \A k \in Keys, f \in Flows :
        ~closed => ((Resolution(k) = f) <=> (Live(f) /\ tuple[f] = k))

(* A flow that took part in a takeover is out of reach for the backend that *)
(* lost it: if Lookup returns f and f still carries the backend's tuple, as *)
(* the tag and control operations require, then the tuple resolves to f.    *)
TaggableIsResolvable ==
    \A f \in Flows : Live(f) /\ tuple[f] # None => Resolution(tuple[f]) = f

(* No missed wake-up: Resolve reads `updates' before it unlocks, so while   *)
(* it waits on a channel that is still open there is nothing for it to      *)
(* find, and the registry is not shut down.                                 *)
NoMissedWakeup ==
    \A r \in waiting \ woken : ~closed /\ Resolution(want[r]) = None

(* The registry never holds more than MaxEntries flows, those within their  *)
(* grace period included.                                                   *)
WithinCapacity == Cardinality({f \in Flows : state[f] # "absent"}) <= MaxEntries

(* A tuple that resolves to a flow goes on resolving to it until another    *)
(* flow binds the tuple, the flow binds another one, its grace period ends  *)
(* or the registry is shut down; nothing other flows do otherwise, a full   *)
(* registry included, takes it away.                                        *)
BindingStable ==
    [][\A k \in Keys, f \in Flows :
        Resolution(k) = f /\ Resolution(k)' # f =>
            \/ \E g \in Flows : Bind(g, k)
            \/ \E j \in Keys : Bind(f, j)
            \/ state[f] = "closed" /\ left'[f] = 0
            \/ closed']_vars

(* Shutdown publishes the snapshots that were queued before it began, gets  *)
(* through both loops and releases every waiting Resolve.                   *)
ShutdownCompletes ==
    /\ (shutdown = "up" /\ snapshotCh # <<>>) ~> snapshotCh = <<>>
    /\ shutdown = "stop" ~> (closed /\ waiting = {})
=============================================================================
