-------------------------- MODULE FlowContextProofs ---------------------------
(***************************************************************************)
(* Proofs about the flow contexts, for any flows, tuples, waiters,         *)
(* handlers and labels.                                                    *)
(*                                                                         *)
(* FlowContextRegistry: IndexInv is what makes the properties inductive:   *)
(* the index and the entries are inverse to each other at all times, not   *)
(* only after a cleanup.                                                   *)
(*                                                                         *)
(* FlowContextService: a request runs beside the flow it names. Its answer *)
(* is right because the reason of a flow's end is set once, with the flag  *)
(* that BlockFlow looks at, and because a flow is given its controls       *)
(* before it is bound (ControlInv).                                        *)
(***************************************************************************)
EXTENDS FlowContextRegistry, FlowContextService, FiniteSetTheorems, TLAPS

IndexInv ==
    /\ \A k \in Keys, f \in Flows : (tuples[k] = f) <=> (tuple[f] = k)
    /\ \A f \in Flows : state[f] = "absent" => tuple[f] = None
    /\ closed => \A f \in Flows : state[f] = "absent"

RegistryInv == TypeOK /\ IndexInv

-----------------------------------------------------------------------------
\* What a cleanup leaves.

LEMMA CleanType ==
    ASSUME RegistryInv
    PROVE  /\ CleanState \in [Flows -> {"absent", "active", "closed"}]
           /\ CleanTuple \in [Flows -> Keys \cup {None}]
           /\ CleanTuples \in [Keys -> Flows \cup {None}]
BY Zenon DEF RegistryInv, TypeOK, CleanState, CleanTuple, CleanTuples

LEMMA CleanIndex ==
    ASSUME RegistryInv
    PROVE  /\ \A k \in Keys, f \in Flows : (CleanTuples[k] = f) <=> (CleanTuple[f] = k)
           /\ \A f \in Flows : CleanState[f] = "absent" => CleanTuple[f] = None
           /\ \A f \in Flows : CleanTuple[f] # None =>
                 CleanTuple[f] = tuple[f] /\ CleanState[f] = state[f] /\ Live(f)
           /\ \A f \in Flows : Live(f) => CleanTuple[f] = tuple[f] /\ CleanState[f] = state[f]
           /\ closed => \A f \in Flows : CleanState[f] = "absent"
<1>1. \A f \in Flows : left[f] \in Nat /\ state[f] \in {"absent", "active", "closed"}
  BY RegistryAssumption DEF RegistryInv, TypeOK
<1>2. \A k \in Keys, f \in Flows : (CleanTuples[k] = f) <=> (CleanTuple[f] = k)
  BY RegistryAssumption DEF RegistryInv, TypeOK, IndexInv, CleanTuple, CleanTuples
<1>3. \A f \in Flows : CleanState[f] = "absent" => CleanTuple[f] = None
  BY Zenon DEF RegistryInv, IndexInv, CleanState, CleanTuple
<1>4. \A f \in Flows : CleanTuple[f] # None =>
           CleanTuple[f] = tuple[f] /\ CleanState[f] = state[f] /\ Live(f)
  BY <1>1 DEF RegistryInv, IndexInv, CleanState, CleanTuple, Expired, Live
<1>5. \A f \in Flows : Live(f) => CleanTuple[f] = tuple[f] /\ CleanState[f] = state[f]
  BY <1>1 DEF CleanState, CleanTuple, Expired, Live
<1>6. closed => \A f \in Flows : CleanState[f] = "absent"
  BY Zenon DEF RegistryInv, IndexInv, CleanState
<1> QED BY <1>2, <1>3, <1>4, <1>5, <1>6, Zenon

\* After the cleanup, Resolve returns what the index holds.
LEMMA ResolutionIsIndex ==
    ASSUME RegistryInv, NEW k \in Keys, ~closed
    PROVE  Resolution(k) = CleanTuples[k]
<1>1. CleanTuples[k] \in Flows \cup {None}
  BY CleanType, Zenon
<1>2. CASE CleanTuples[k] = None
  BY <1>2, Zenon DEF Resolution
<1>3. CASE CleanTuples[k] \in Flows
  <2>1. CleanTuple[CleanTuples[k]] = k /\ k # None
    BY <1>3, CleanIndex, RegistryAssumption, Zenon
  <2>2. CleanState[CleanTuples[k]] # "absent" /\ CleanTuples[k] # None
    BY <1>3, <2>1, CleanIndex, RegistryAssumption, ZenonT(60)
  <2> QED BY <2>1, <2>2, Zenon DEF Resolution
<1> QED BY <1>1, <1>2, <1>3, Zenon

LEMMA BoundFacts ==
    ASSUME RegistryInv, NEW f \in Flows, NEW k \in Keys, state[f] = "active"
    PROVE  /\ BoundTuple(f, k) \in [Flows -> Keys \cup {None}]
           /\ BoundIndex(f, k) \in [Keys -> Flows \cup {None}]
           /\ \A j \in Keys, g \in Flows :
                 (BoundIndex(f, k)[j] = g) <=> (BoundTuple(f, k)[g] = j)
           /\ \A g \in Flows : CleanState[g] = "absent" => BoundTuple(f, k)[g] = None
<1>1. BoundTuple(f, k) \in [Flows -> Keys \cup {None}] /\ BoundIndex(f, k) \in [Keys -> Flows \cup {None}]
  BY CleanType, Zenon DEF BoundTuple, BoundIndex
<1>2. None \notin Flows /\ None \notin Keys
  BY RegistryAssumption, Zenon
<1>3. ASSUME NEW j \in Keys, NEW g \in Flows
      PROVE  (BoundIndex(f, k)[j] = g) <=> (BoundTuple(f, k)[g] = j)
  <2>1. /\ (CleanTuples[j] = g) <=> (CleanTuple[g] = j)
        /\ (CleanTuples[k] = g) <=> (CleanTuple[g] = k)
        /\ (CleanTuples[j] = f) <=> (CleanTuple[f] = j)
    BY CleanIndex, ZenonT(60)
  <2>2. BoundIndex(f, k)[j] = IF j = k THEN f ELSE IF CleanTuples[j] = f THEN None ELSE CleanTuples[j]
    BY Zenon DEF BoundIndex
  <2>3. BoundTuple(f, k)[g] = IF g = f THEN k ELSE IF g = CleanTuples[k] THEN None ELSE CleanTuple[g]
    BY Zenon DEF BoundTuple, Holder
  <2> QED BY <1>2, <2>1, <2>2, <2>3, Zenon
<1>4. ASSUME NEW g \in Flows, CleanState[g] = "absent"
      PROVE  BoundTuple(f, k)[g] = None
  <2>1. g # f
    BY <1>4, Zenon DEF CleanState, Expired
  <2>2. CleanTuple[g] = None
    BY <1>4, CleanIndex, Zenon
  <2> QED BY <2>1, <2>2, Zenon DEF BoundTuple
<1> QED BY <1>1, <1>3, <1>4, Zenon

-----------------------------------------------------------------------------
\* The inductive invariant.

LEMMA RegistryInit == Init => RegistryInv
<1> SUFFICES ASSUME Init PROVE RegistryInv
  OBVIOUS
<1>1. TypeOK
  BY RegistryAssumption DEF Init, TypeOK, ShutdownStep
<1>2. IndexInv
  BY RegistryAssumption, Zenon DEF Init, IndexInv, closed
<1> QED BY <1>1, <1>2, Zenon DEF RegistryInv

\* The kinds of step, by what they do to the entries and the index.
EntriesKept == UNCHANGED <<state, tuple, tuples>>

EntriesCleaned ==
    ~closed /\ state' = CleanState /\ tuple' = CleanTuple /\ tuples' = CleanTuples

EntryOpened(f) ==
    /\ ~closed /\ HasRoom
    /\ state' = [CleanState EXCEPT ![f] = "active"]
    /\ tuple' = CleanTuple /\ tuples' = CleanTuples

EntryClosed(f) ==
    /\ state[f] # "absent"
    /\ state' = [state EXCEPT ![f] = "closed"]
    /\ left' = [left EXCEPT ![f] = Grace]
    /\ UNCHANGED <<tuple, tuples>>

EntryBound(f, k) ==
    /\ ~closed /\ state[f] = "active"
    /\ state' = CleanState
    /\ tuple' = BoundTuple(f, k) /\ tuples' = BoundIndex(f, k)

EntriesCleared ==
    /\ state' = [f \in Flows |-> "absent"]
    /\ tuple' = [f \in Flows |-> None]
    /\ tuples' = [k \in Keys |-> None]

EntryStep ==
    \/ (EntriesKept \/ EntriesCleaned \/ \E f \in Flows : EntryOpened(f) \/ EntryClosed(f)) /\ closed' = closed
    \/ (\E f \in Flows, k \in Keys : EntryBound(f, k) /\ Bind(f, k)) /\ closed' = closed
    \/ EntriesCleared /\ closed'

LEMMA StepKinds == [Next]_vars => EntryStep
<1> SUFFICES ASSUME [Next]_vars PROVE EntryStep
  OBVIOUS
<1>1. CASE UNCHANGED vars
  BY <1>1, Zenon DEF vars, entryVars, EntryStep, EntriesKept, closed
<1>2. ASSUME NEW f \in Flows, Open(f) PROVE EntryStep
  <2>1. closed' = closed
    BY <1>2, Zenon DEF Open, closed
  <2>2. EntriesKept \/ EntriesCleaned \/ EntryOpened(f)
    BY <1>2, Zenon DEF Open, EntriesKept, EntriesCleaned, EntryOpened
  <2> QED BY <2>1, <2>2, Zenon DEF EntryStep
<1>3. ASSUME NEW f \in Flows, Close(f) PROVE EntryStep
  <2>1. closed' = closed
    BY <1>3, Zenon DEF Close, closed
  <2>2. EntriesKept \/ EntryClosed(f)
    BY <1>3, Zenon DEF Close, EntriesKept, EntryClosed
  <2> QED BY <2>1, <2>2, Zenon DEF EntryStep
<1>4. ASSUME NEW f \in Flows, NEW k \in Keys, Bind(f, k) PROVE EntryStep
  <2>1. closed' = closed
    BY <1>4, Zenon DEF Bind, closed
  <2>2. EntryBound(f, k)
    BY <1>4, Zenon DEF Bind, EntryBound
  <2> QED BY <1>4, <2>1, <2>2, Zenon DEF EntryStep
<1>5. ASSUME NEW r \in Resolvers, ResolverNext(r) \/ \E k \in Keys : ResolveStart(r, k)
      PROVE  EntryStep
  <2>1. closed' = closed
    BY <1>5, Zenon DEF ResolverNext, ResolveStart, ResolveReturn, ResolveWait, ResolveWake, ResolveTimeout, closed
  <2>2. EntriesKept \/ EntriesCleaned
    BY <1>5, Zenon DEF ResolverNext, ResolveStart, ResolveReturn, ResolveWait, ResolveWake, ResolveTimeout,
                Cleanup, entryVars, EntriesKept, EntriesCleaned
  <2> QED BY <2>1, <2>2, Zenon DEF EntryStep
<1>6. CASE Tick \/ PublishSnapshot \/ ShutdownStart \/ ShutdownSnapshots \/ SnapshotLoopExit
           \/ \E t \in Flows \X Threads : EmitSnapshot(t)
  <2>1. closed' = closed
    BY <1>6, Zenon DEF Tick, PublishSnapshot, ShutdownStart, ShutdownSnapshots, SnapshotLoopExit, EmitSnapshot, closed
  <2>2. EntriesKept
    BY <1>6, Zenon DEF Tick, PublishSnapshot, ShutdownStart, ShutdownSnapshots, SnapshotLoopExit, EmitSnapshot,
                entryVars, EntriesKept
  <2> QED BY <2>1, <2>2, Zenon DEF EntryStep
<1>7. CASE CleanupRun
  BY <1>7, Zenon DEF CleanupRun, Cleanup, EntryStep, EntriesCleaned, closed
<1>8. CASE ShutdownClear
  BY <1>8, Zenon DEF ShutdownClear, EntryStep, EntriesCleared, closed
<1> QED BY <1>1, <1>2, <1>3, <1>4, <1>5, <1>6, <1>7, <1>8, Zenon DEF Next, ShutdownNext

LEMMA IndexNext ==
    ASSUME RegistryInv, [Next]_vars
    PROVE  /\ IndexInv'
           /\ state' \in [Flows -> {"absent", "active", "closed"}]
           /\ tuple' \in [Flows -> Keys \cup {None}]
           /\ tuples' \in [Keys -> Flows \cup {None}]
<1> DEFINE Goal == /\ IndexInv'
                   /\ state' \in [Flows -> {"absent", "active", "closed"}]
                   /\ tuple' \in [Flows -> Keys \cup {None}]
                   /\ tuples' \in [Keys -> Flows \cup {None}]
<1>0. /\ state \in [Flows -> {"absent", "active", "closed"}]
      /\ tuple \in [Flows -> Keys \cup {None}]
      /\ tuples \in [Keys -> Flows \cup {None}]
      /\ IndexInv
  BY Zenon DEF RegistryInv, TypeOK
<1>1. CASE EntriesKept /\ closed' = closed
  BY <1>0, <1>1, Zenon DEF EntriesKept, IndexInv
<1>2. CASE EntriesCleaned /\ closed' = closed
  <2>1. /\ state' = CleanState /\ tuple' = CleanTuple /\ tuples' = CleanTuples /\ ~closed'
    BY <1>2, Zenon DEF EntriesCleaned
  <2> QED BY <2>1, CleanType, CleanIndex, ZenonT(60) DEF IndexInv
<1>3. ASSUME NEW f \in Flows, EntryOpened(f), closed' = closed PROVE Goal
  <2>1. /\ state' = [CleanState EXCEPT ![f] = "active"]
        /\ tuple' = CleanTuple /\ tuples' = CleanTuples /\ ~closed'
    BY <1>3, Zenon DEF EntryOpened
  <2> QED BY <2>1, CleanType, CleanIndex, ZenonT(60) DEF IndexInv
<1>4. ASSUME NEW f \in Flows, EntryClosed(f), closed' = closed PROVE Goal
  BY <1>0, <1>4, ZenonT(60) DEF EntryClosed, IndexInv
<1>5. ASSUME NEW f \in Flows, NEW k \in Keys, EntryBound(f, k), closed' = closed PROVE Goal
  <2>1. /\ state' = CleanState /\ tuple' = BoundTuple(f, k) /\ tuples' = BoundIndex(f, k)
        /\ ~closed' /\ state[f] = "active"
    BY <1>5, Zenon DEF EntryBound
  <2> QED BY <2>1, CleanType, BoundFacts DEF IndexInv
<1>6. CASE EntriesCleared
  BY <1>6, RegistryAssumption, Zenon DEF EntriesCleared, IndexInv
<1> QED BY <1>1, <1>2, <1>3, <1>4, <1>5, <1>6, StepKinds, Zenon DEF EntryStep

LEMMA WakeStep ==
    ASSUME TypeOK, [Next]_vars
    PROVE  /\ want' \in [Resolvers -> Keys \cup {None}]
           /\ woken' \subseteq waiting' /\ waiting' \subseteq Resolvers
<1>0. want \in [Resolvers -> Keys \cup {None}] /\ woken \subseteq waiting /\ waiting \subseteq Resolvers
  BY Zenon DEF TypeOK
<1> DEFINE Goal == /\ want' \in [Resolvers -> Keys \cup {None}]
                   /\ woken' \subseteq waiting' /\ waiting' \subseteq Resolvers
<1>1. CASE UNCHANGED <<want, waiting>> /\ (signal \/ UNCHANGED woken)
  BY <1>0, <1>1, Zenon DEF signal
<1>2. ASSUME NEW r \in Resolvers, NEW k \in Keys, ResolveStart(r, k) PROVE Goal
  BY <1>0, <1>2, Zenon DEF ResolveStart
<1>3. ASSUME NEW r \in Resolvers, ResolveReturn(r) PROVE Goal
  BY <1>0, <1>3, Zenon DEF ResolveReturn, Cleanup, signal
<1>4. ASSUME NEW r \in Resolvers, ResolveWait(r) PROVE Goal
  BY <1>0, <1>4, Zenon DEF ResolveWait, Cleanup, signal
<1>5. ASSUME NEW r \in Resolvers, ResolveWake(r) \/ ResolveTimeout(r) PROVE Goal
  BY <1>0, <1>5, Zenon DEF ResolveWake, ResolveTimeout
<1>6. ASSUME NEW f \in Flows, Open(f) \/ Close(f) \/ \E k \in Keys : Bind(f, k) PROVE Goal
  <2>1. UNCHANGED <<want, waiting>> /\ (signal \/ UNCHANGED woken)
    BY <1>6, Zenon DEF Open, Close, Bind, BindSignal
  <2> QED BY <1>1, <2>1, Zenon
<1>7. CASE Tick \/ CleanupRun \/ PublishSnapshot \/ ShutdownStart \/ ShutdownNext \/ UNCHANGED vars
           \/ \E t \in Flows \X Threads : EmitSnapshot(t)
  <2>1. UNCHANGED <<want, waiting>> /\ (signal \/ UNCHANGED woken)
    BY <1>7, Zenon DEF Tick, CleanupRun, Cleanup, PublishSnapshot, ShutdownStart, ShutdownNext, ShutdownSnapshots,
                SnapshotLoopExit, ShutdownClear, EmitSnapshot, vars, resolveVars
  <2> QED BY <1>1, <2>1, Zenon
<1> QED BY <1>2, <1>3, <1>4, <1>5, <1>6, <1>7, Zenon DEF Next, ResolverNext

LEMMA AppendBound ==
    ASSUME NEW S, NEW q \in Seq(S), NEW e \in S, NEW n \in Nat, Len(q) < n
    PROVE  Append(q, e) \in Seq(S) /\ Len(Append(q, e)) <= n
OBVIOUS

LEMMA ContextType ==
    ASSUME NEW f \in Flows, NEW st \in {"active", "closed"}, NEW k \in Keys \cup {None},
           NEW g \in 0..MaxBinds
    PROVE  Context(f, st, k, g) \in Snapshot
BY Zenon DEF Context, Snapshot

LEMMA EmitType ==
    ASSUME emits \in [Flows \X Threads -> Seq(Snapshot)],
           NEW t \in Flows \X Threads, NEW q \in Seq(Snapshot), Emit(t, q)
    PROVE  emits' \in [Flows \X Threads -> Seq(Snapshot)]
BY Zenon DEF Emit

LEMMA OldHolder ==
    ASSUME RegistryInv, NEW k \in Keys, Holder(k) # None
    PROVE  Holder(k) \in Flows /\ state[Holder(k)] \in {"active", "closed"}
<1>1. Holder(k) \in Flows
  BY CleanType, Zenon DEF Holder
<1>2. CleanTuple[Holder(k)] = k /\ k # None
  BY <1>1, CleanIndex, RegistryAssumption, ZenonT(60) DEF Holder
<1> QED BY <1>1, <1>2, CleanIndex, Zenon DEF Live

LEMMA EmitsNext ==
    ASSUME RegistryInv, [Next]_vars
    PROVE  emits' \in [Flows \X Threads -> Seq(Snapshot)]
<1> DEFINE Goal == emits' \in [Flows \X Threads -> Seq(Snapshot)]
<1>0. /\ emits \in [Flows \X Threads -> Seq(Snapshot)]
      /\ state \in [Flows -> {"absent", "active", "closed"}]
      /\ tuple \in [Flows -> Keys \cup {None}]
      /\ gen \in [Flows -> 0..MaxBinds]
      /\ MaxBinds \in Nat
      /\ \A f \in Flows : <<f, "lifecycle">> \in Flows \X Threads /\ <<f, "bind">> \in Flows \X Threads
  BY RegistryAssumption, Zenon DEF RegistryInv, TypeOK, Threads
<1>1. CASE UNCHANGED emits
  BY <1>0, <1>1, Zenon
<1>2. ASSUME NEW f \in Flows, Open(f) PROVE Goal
  <2>0. 0 \in 0..MaxBinds
    BY <1>0
  <2>1. Context(f, "active", None, 0) \in Snapshot
    BY <2>0, ContextType, Zenon
  <2>2. <<Context(f, "active", None, 0)>> \in Seq(Snapshot)
    BY <2>1
  <2>3. UNCHANGED emits \/ Emit(<<f, "lifecycle">>, <<Context(f, "active", None, 0)>>)
    BY <1>2, Zenon DEF Open
  <2> QED BY <1>0, <2>2, <2>3, EmitType, Zenon
<1>3. ASSUME NEW f \in Flows, Close(f) PROVE Goal
  <2>1. Context(f, "closed", tuple[f], gen[f]) \in Snapshot
    BY <1>0, ContextType, Zenon
  <2>2. <<Context(f, "closed", tuple[f], gen[f])>> \in Seq(Snapshot)
    BY <2>1
  <2>3. UNCHANGED emits \/ Emit(<<f, "lifecycle">>, <<Context(f, "closed", tuple[f], gen[f])>>)
    BY <1>3, Zenon DEF Close
  <2> QED BY <1>0, <2>2, <2>3, EmitType, Zenon
<1>4. ASSUME NEW f \in Flows, NEW k \in Keys, Bind(f, k) PROVE Goal
  <2> DEFINE old == Holder(k)
             new == Context(f, "active", k, gen[f] + 1)
             q == IF old \in {None, f} THEN <<new>>
                  ELSE <<Context(old, state[old], None, gen[old]), new>>
  <2>1. gen[f] + 1 \in 0..MaxBinds
    BY <1>0, <1>4 DEF Bind
  <2>2. new \in Snapshot
    BY <2>1, ContextType, Zenon
  <2>3. q \in Seq(Snapshot)
    <3>1. CASE old \in {None, f}
      BY <2>2, <3>1
    <3>2. CASE old \notin {None, f}
      <4>1. old \in Flows /\ state[old] \in {"active", "closed"}
        BY <3>2, OldHolder, Zenon
      <4>2. Context(old, state[old], None, gen[old]) \in Snapshot
        BY <1>0, <4>1, ContextType, Zenon
      <4> HIDE DEF old, new
      <4> QED BY <2>2, <3>2, <4>2
    <3> QED BY <3>1, <3>2, Zenon
  <2>4. Emit(<<f, "bind">>, q)
    BY <1>4, Zenon DEF Bind
  <2> QED BY <1>0, <2>3, <2>4, EmitType, Zenon
<1>5. ASSUME NEW t \in Flows \X Threads, EmitSnapshot(t) PROVE Goal
  <2>1. emits[t] \in Seq(Snapshot) /\ emits[t] # <<>> /\ emits' = [emits EXCEPT ![t] = Tail(emits[t])]
    BY <1>0, <1>5, Zenon DEF EmitSnapshot
  <2>2. Tail(emits[t]) \in Seq(Snapshot)
    BY <2>1
  <2> QED BY <1>0, <2>1, <2>2, Zenon
<1>6. ASSUME NEW r \in Resolvers, ResolverNext(r) \/ \E k \in Keys : ResolveStart(r, k) PROVE Goal
  <2>1. UNCHANGED emits
    BY <1>6, Zenon DEF ResolverNext, ResolveStart, ResolveReturn, ResolveWait, ResolveWake, ResolveTimeout
  <2> QED BY <1>1, <2>1, Zenon
<1>7. CASE Tick \/ CleanupRun \/ PublishSnapshot \/ ShutdownStart \/ ShutdownNext \/ UNCHANGED vars
  <2>1. UNCHANGED emits
    BY <1>7, Zenon DEF Tick, CleanupRun, PublishSnapshot, ShutdownStart, ShutdownNext, ShutdownSnapshots,
                SnapshotLoopExit, ShutdownClear, vars
  <2> QED BY <1>1, <2>1, Zenon
<1> QED BY <1>2, <1>3, <1>4, <1>5, <1>6, <1>7, Zenon DEF Next

LEMMA QueueNext ==
    ASSUME TypeOK, [Next]_vars
    PROVE  /\ snapshotCh' \in Seq(Snapshot) /\ Len(snapshotCh') <= SnapshotQueueSize
           /\ caller' \in [Flows -> {"new", "open", "closed"}]
           /\ gen' \in [Flows -> 0..MaxBinds]
           /\ left' \in [Flows -> 0..Grace]
           /\ shutdown' \in ShutdownStep
<1> DEFINE Goal == /\ snapshotCh' \in Seq(Snapshot) /\ Len(snapshotCh') <= SnapshotQueueSize
                   /\ caller' \in [Flows -> {"new", "open", "closed"}]
                   /\ gen' \in [Flows -> 0..MaxBinds]
                   /\ left' \in [Flows -> 0..Grace]
                   /\ shutdown' \in ShutdownStep
<1>0. /\ snapshotCh \in Seq(Snapshot) /\ Len(snapshotCh) <= SnapshotQueueSize
      /\ caller \in [Flows -> {"new", "open", "closed"}]
      /\ gen \in [Flows -> 0..MaxBinds]
      /\ left \in [Flows -> 0..Grace]
      /\ shutdown \in ShutdownStep
      /\ emits \in [Flows \X Threads -> Seq(Snapshot)]
      /\ MaxBinds \in Nat /\ Grace \in Nat /\ SnapshotQueueSize \in Nat
  BY RegistryAssumption, Zenon DEF TypeOK
<1>1. ASSUME NEW f \in Flows, Open(f) PROVE Goal
  BY <1>0, <1>1, Zenon DEF Open
<1>2. ASSUME NEW f \in Flows, Close(f) PROVE Goal
  <2>1. /\ UNCHANGED <<snapshotCh, gen, shutdown>>
        /\ caller' = [caller EXCEPT ![f] = "closed"]
        /\ UNCHANGED left \/ left' = [left EXCEPT ![f] = Grace]
    BY <1>2, Zenon DEF Close
  <2> QED BY <1>0, <2>1
<1>3. ASSUME NEW f \in Flows, NEW k \in Keys, Bind(f, k) PROVE Goal
  <2>1. UNCHANGED <<snapshotCh, caller, left, shutdown>> /\ gen[f] < MaxBinds
        /\ gen' = [gen EXCEPT ![f] = gen[f] + 1]
    BY <1>3, Zenon DEF Bind
  <2> QED BY <1>0, <2>1
<1>4. ASSUME NEW t \in Flows \X Threads, EmitSnapshot(t) PROVE Goal
  <2>1. UNCHANGED <<caller, gen, left, shutdown>> /\ emits[t] \in Seq(Snapshot) /\ emits[t] # <<>>
    BY <1>0, <1>4, Zenon DEF EmitSnapshot, entryVars
  <2>2. Head(emits[t]) \in Snapshot
    BY <2>1
  <2>3. \/ UNCHANGED snapshotCh
        \/ Len(snapshotCh) < SnapshotQueueSize /\ snapshotCh' = Append(snapshotCh, Head(emits[t]))
    BY <1>4, Zenon DEF EmitSnapshot
  <2>4. CASE UNCHANGED snapshotCh
    BY <1>0, <2>1, <2>4, Zenon
  <2>5. CASE Len(snapshotCh) < SnapshotQueueSize /\ snapshotCh' = Append(snapshotCh, Head(emits[t]))
    <3>1. snapshotCh' \in Seq(Snapshot) /\ Len(snapshotCh') <= SnapshotQueueSize
      BY <1>0, <2>2, <2>5, AppendBound, Zenon
    <3> QED BY <1>0, <2>1, <3>1, Zenon
  <2> QED BY <2>3, <2>4, <2>5, Zenon
<1>5. CASE PublishSnapshot
  <2>1. UNCHANGED <<caller, gen, left, shutdown>> /\ snapshotCh # <<>> /\ snapshotCh' = Tail(snapshotCh)
    BY <1>5, Zenon DEF PublishSnapshot, entryVars
  <2>2. snapshotCh' \in Seq(Snapshot) /\ Len(snapshotCh') <= SnapshotQueueSize
    BY <1>0, <2>1
  <2> QED BY <1>0, <2>1, <2>2, Zenon
<1>6. CASE Tick
  BY <1>0, <1>6, SMTT(60) DEF Tick
<1>7. ASSUME NEW r \in Resolvers, ResolverNext(r) \/ \E k \in Keys : ResolveStart(r, k) PROVE Goal
  <2>1. UNCHANGED <<snapshotCh, caller, gen, left, shutdown>>
    BY <1>7, Zenon DEF ResolverNext, ResolveStart, ResolveReturn, ResolveWait, ResolveWake, ResolveTimeout, entryVars
  <2> QED BY <1>0, <2>1, Zenon
<1>8. CASE CleanupRun \/ ShutdownStart \/ ShutdownNext \/ UNCHANGED vars
  <2>1. UNCHANGED <<snapshotCh, caller, gen, left>> /\ shutdown' \in {shutdown} \cup ShutdownStep
    BY <1>8, Zenon DEF CleanupRun, ShutdownStart, ShutdownNext, ShutdownSnapshots, SnapshotLoopExit, ShutdownClear,
                ShutdownStep, vars, entryVars
  <2> QED BY <1>0, <2>1, Zenon
<1> QED BY <1>1, <1>2, <1>3, <1>4, <1>5, <1>6, <1>7, <1>8, Zenon DEF Next

LEMMA RegistryNext == RegistryInv /\ [Next]_vars => RegistryInv'
<1> SUFFICES ASSUME RegistryInv, [Next]_vars PROVE RegistryInv'
  OBVIOUS
<1>1. TypeOK
  BY Zenon DEF RegistryInv
<1>2. TypeOK'
  BY <1>1, IndexNext, WakeStep, EmitsNext, QueueNext, Zenon DEF TypeOK
<1> QED BY <1>2, IndexNext, Zenon DEF RegistryInv

(* The registry's entries and its index stay inverse to each other.        *)
THEOREM Registry == Spec => []RegistryInv
BY RegistryInit, RegistryNext, PTL DEF Spec

(* Every variable keeps its type; in particular the snapshot queue never    *)
(* exceeds its capacity and Bind never publishes a flow without an entry.   *)
THEOREM TypeCorrect == Spec => []TypeOK
<1>1. RegistryInv => TypeOK
  BY Zenon DEF RegistryInv
<1> QED BY <1>1, Registry, PTL

-----------------------------------------------------------------------------
\* Resolve and the waiting resolvers.

LEMMA ExactFromInv == RegistryInv => IndexExact /\ TaggableIsResolvable
<1> SUFFICES ASSUME RegistryInv PROVE IndexExact /\ TaggableIsResolvable
  OBVIOUS
<1>1. ASSUME NEW k \in Keys, NEW f \in Flows, ~closed
      PROVE  (Resolution(k) = f) <=> (Live(f) /\ tuple[f] = k)
  <2>1. (Resolution(k) = f) <=> (CleanTuple[f] = k)
    BY <1>1, ResolutionIsIndex, CleanIndex
  <2>2. k # None
    BY RegistryAssumption, Zenon
  <2> QED BY <2>1, <2>2, CleanIndex, Zenon
<1>2. IndexExact
  BY <1>1, Zenon DEF IndexExact
<1>3. ASSUME NEW f \in Flows, Live(f), tuple[f] # None
      PROVE  Resolution(tuple[f]) = f
  <2>1. ~closed
    BY <1>3, Zenon DEF RegistryInv, IndexInv, Live
  <2>2. tuple[f] \in Keys
    BY <1>3, Zenon DEF RegistryInv, TypeOK
  <2> QED BY <1>1, <1>3, <2>1, <2>2, Zenon
<1> QED BY <1>2, <1>3, Zenon DEF TaggableIsResolvable

(* Resolve through the index answers as a search of all entries would.     *)
THEOREM IndexIsExact == Spec => []IndexExact
<1>1. RegistryInv => IndexExact
  BY ExactFromInv, Zenon
<1> QED BY <1>1, Registry, PTL

(* A flow that still carries a tuple and has not expired is the one its    *)
(* tuple resolves to.                                                      *)
THEOREM TaggableResolves == Spec => []TaggableIsResolvable
<1>1. RegistryInv => TaggableIsResolvable
  BY ExactFromInv, Zenon
<1> QED BY <1>1, Registry, PTL

-----------------------------------------------------------------------------
\* Wake-ups: nothing becomes resolvable without a signal.

WakeInv ==
    \A r \in waiting \ woken :
        ~closed /\ want[r] \in Keys /\ \A f \in Flows : Live(f) => tuple[f] # want[r]

\* The step makes no flow resolvable that was not.
NothingGained ==
    /\ closed' = closed
    /\ \A f \in Flows : Live(f)' => Live(f) /\ tuple'[f] = tuple[f]

LEMMA KeptGainsNothing ==
    ASSUME RegistryInv, UNCHANGED <<state, tuple>>, closed' = closed,
           UNCHANGED left \/ Tick
    PROVE  NothingGained
<1>1. \A f \in Flows : left[f] \in Nat
  BY RegistryAssumption DEF RegistryInv, TypeOK
<1>2. \A f \in Flows : left'[f] > 0 => left[f] > 0
  BY <1>1 DEF Tick
<1>3. ASSUME NEW f \in Flows, Live(f)' PROVE Live(f) /\ tuple'[f] = tuple[f]
  <2>1. state'[f] = "active" \/ (state'[f] = "closed" /\ left'[f] > 0)
    BY <1>3, Zenon DEF Live
  <2> QED BY <2>1, <1>2, Zenon DEF Live
<1> QED BY <1>3, Zenon DEF NothingGained

LEMMA CleanupGainsNothing ==
    ASSUME RegistryInv, Cleanup, UNCHANGED left, closed' = closed
    PROVE  NothingGained
<1>1. state' = CleanState /\ tuple' = CleanTuple /\ left' = left
  BY Zenon DEF Cleanup
<1>2. ASSUME NEW f \in Flows, Live(f)' PROVE Live(f) /\ tuple'[f] = tuple[f]
  <2>1. CleanState[f] = "active" \/ (CleanState[f] = "closed" /\ left[f] > 0)
    BY <1>1, <1>2, Zenon DEF Live
  <2>2. Live(f)
    BY <2>1, Zenon DEF CleanState, Live
  <2> QED BY <1>1, <2>2, CleanIndex, Zenon
<1> QED BY <1>2, Zenon DEF NothingGained

LEMMA WakeKept ==
    ASSUME WakeInv, NothingGained, waiting' \ woken' \subseteq waiting \ woken,
           \A r \in waiting' : want'[r] = want[r]
    PROVE  WakeInv'
<1> SUFFICES ASSUME NEW r \in waiting' \ woken'
             PROVE  ~closed' /\ want'[r] \in Keys /\ \A f \in Flows : Live(f)' => tuple'[f] # want'[r]
  BY Zenon DEF WakeInv
<1>1. ~closed /\ want[r] \in Keys /\ \A f \in Flows : Live(f) => tuple[f] # want[r]
  BY Zenon DEF WakeInv
<1> QED BY <1>1, Zenon DEF NothingGained

LEMMA WakeNext == RegistryInv /\ WakeInv /\ [Next]_vars => WakeInv'
<1> SUFFICES ASSUME RegistryInv, WakeInv, [Next]_vars PROVE WakeInv'
  OBVIOUS
<1>0. woken \subseteq waiting /\ waiting \subseteq Resolvers /\ want \in [Resolvers -> Keys \cup {None}]
  BY Zenon DEF RegistryInv, TypeOK
<1>1. CASE signal /\ UNCHANGED waiting
  BY <1>1, Zenon DEF signal, WakeInv
<1>2. CASE UNCHANGED <<want, woken, waiting>> /\ NothingGained
  BY <1>2, WakeKept, Zenon
<1>3. ASSUME NEW f \in Flows, Open(f) \/ Close(f) \/ \E k \in Keys : Bind(f, k) PROVE WakeInv'
  <2>1. \/ signal /\ UNCHANGED waiting
        \/ UNCHANGED <<state, tuple, left, want, woken, waiting>>
        \/ ~removed /\ state' = CleanState /\ tuple' = CleanTuple /\ UNCHANGED <<left, want, woken, waiting>>
    BY <1>3, Zenon DEF Open, Close, Bind, BindSignal
  <2>2. closed' = closed
    BY <1>3, Zenon DEF Open, Close, Bind, closed
  <2>3. CASE UNCHANGED <<state, tuple, left, want, woken, waiting>>
    BY <1>2, <2>2, <2>3, KeptGainsNothing, Zenon
  <2>4. CASE ~removed /\ state' = CleanState /\ tuple' = CleanTuple /\ UNCHANGED <<left, want, woken, waiting>>
    <3>1. \A g \in Flows : Live(g)' => Live(g) /\ tuple'[g] = tuple[g]
      <4> SUFFICES ASSUME NEW g \in Flows, Live(g)' PROVE Live(g) /\ tuple'[g] = tuple[g]
        OBVIOUS
      <4>1. CleanState[g] = "active" \/ (CleanState[g] = "closed" /\ left[g] > 0)
        BY <2>4, Zenon DEF Live
      <4>2. Live(g)
        BY <4>1, Zenon DEF CleanState, Live
      <4> QED BY <2>4, <4>2, CleanIndex, Zenon
    <3> QED BY <1>2, <2>2, <2>4, <3>1, Zenon DEF NothingGained
  <2> QED BY <1>1, <2>1, <2>3, <2>4, Zenon
<1>4. ASSUME NEW r \in Resolvers, NEW k \in Keys, ResolveStart(r, k) PROVE WakeInv'
  <2>1. /\ want[r] = None /\ want' = [want EXCEPT ![r] = k] /\ UNCHANGED <<state, tuple, left, woken, waiting>>
        /\ closed' = closed
    BY <1>4, Zenon DEF ResolveStart, entryVars, closed
  <2>2. NothingGained
    BY <2>1, KeptGainsNothing, Zenon
  <2>3. \A q \in waiting \ woken : q # r
    BY <2>1, RegistryAssumption, Zenon DEF WakeInv
  <2>4. ASSUME NEW q \in waiting' \ woken'
        PROVE  ~closed' /\ want'[q] \in Keys /\ \A f \in Flows : Live(f)' => tuple'[f] # want'[q]
    <3>1. q \in waiting \ woken /\ q # r /\ want'[q] = want[q]
      BY <1>0, <2>1, <2>3, <2>4, Zenon
    <3> QED BY <3>1, <2>2, Zenon DEF WakeInv, NothingGained
  <2> QED BY <2>4, Zenon DEF WakeInv
<1>5. ASSUME NEW r \in Resolvers, ResolveReturn(r) PROVE WakeInv'
  <2>1. /\ r \notin waiting /\ want' = [want EXCEPT ![r] = None] /\ UNCHANGED <<left, waiting>>
        /\ closed' = closed
        /\ UNCHANGED <<state, tuple, woken>> \/ Cleanup
    BY <1>5, Zenon DEF ResolveReturn, closed
  <2>2. NothingGained
    BY <2>1, KeptGainsNothing, CleanupGainsNothing, Zenon
  <2>3. signal \/ UNCHANGED woken
    BY <2>1, Zenon DEF Cleanup
  <2>4. waiting' \ woken' \subseteq waiting \ woken
    BY <1>0, <2>1, <2>3, Zenon DEF signal
  <2>5. \A q \in waiting' : want'[q] = want[q]
    BY <1>0, <2>1, Zenon
  <2> QED BY <2>2, <2>4, <2>5, WakeKept, Zenon
<1>6. ASSUME NEW r \in Resolvers, ResolveWait(r) PROVE WakeInv'
  <2>1. /\ r \notin waiting /\ want[r] # None /\ ~closed /\ Resolution(want[r]) = None
        /\ waiting' = waiting \cup {r} /\ Cleanup /\ UNCHANGED <<left, want>>
        /\ closed' = closed
    BY <1>6, Zenon DEF ResolveWait, closed
  <2>2. NothingGained
    BY <2>1, CleanupGainsNothing, Zenon
  <2>3. want[r] \in Keys
    BY <1>0, <2>1, Zenon
  <2>4. \A f \in Flows : Live(f) => tuple[f] # want[r]
    BY <2>1, <2>3, ExactFromInv, RegistryAssumption DEF IndexExact
  <2>5. signal \/ UNCHANGED woken
    BY <2>1, Zenon DEF Cleanup
  <2>6. waiting' \ woken' \subseteq (waiting \ woken) \cup {r}
    BY <1>0, <2>1, <2>5, Zenon DEF signal
  <2>7. ASSUME NEW q \in waiting' \ woken'
        PROVE  ~closed' /\ want'[q] \in Keys /\ \A f \in Flows : Live(f)' => tuple'[f] # want'[q]
    <3>1. CASE q = r
      BY <2>1, <2>2, <2>3, <2>4, <3>1 DEF NothingGained
    <3>2. CASE q \in waiting \ woken
      BY <2>1, <2>2, <3>2 DEF NothingGained, WakeInv
    <3> QED BY <2>6, <3>1, <3>2, Zenon
  <2> QED BY <2>7, Zenon DEF WakeInv
<1>7. ASSUME NEW r \in Resolvers, ResolveWake(r) \/ ResolveTimeout(r) PROVE WakeInv'
  <2>1. /\ waiting' = waiting \ {r} /\ woken' = woken \ {r} /\ UNCHANGED <<state, tuple, left>>
        /\ closed' = closed /\ (UNCHANGED want \/ want' = [want EXCEPT ![r] = None])
    BY <1>7, Zenon DEF ResolveWake, ResolveTimeout, entryVars, closed
  <2>2. NothingGained
    BY <2>1, KeptGainsNothing, Zenon
  <2>3. \A q \in waiting' : want'[q] = want[q]
    BY <1>0, <2>1, Zenon
  <2> QED BY <2>1, <2>2, <2>3, WakeKept, Zenon
<1>8. CASE Tick
  <2>1. UNCHANGED <<state, tuple, want, woken, waiting>> /\ closed' = closed
    BY <1>8, Zenon DEF Tick, resolveVars, closed
  <2> QED BY <1>2, <1>8, <2>1, KeptGainsNothing, Zenon
<1>9. CASE CleanupRun \/ ShutdownClear
  <2>1. signal /\ UNCHANGED waiting
    BY <1>9, Zenon DEF CleanupRun, Cleanup, ShutdownClear
  <2> QED BY <1>1, <2>1, Zenon
<1>10. CASE PublishSnapshot \/ ShutdownStart \/ ShutdownSnapshots \/ SnapshotLoopExit \/ UNCHANGED vars
            \/ \E t \in Flows \X Threads : EmitSnapshot(t)
  <2>1. UNCHANGED <<state, tuple, left, want, woken, waiting>> /\ closed' = closed
    BY <1>10, Zenon DEF PublishSnapshot, ShutdownStart, ShutdownSnapshots, SnapshotLoopExit, EmitSnapshot,
                 vars, entryVars, resolveVars, closed
  <2> QED BY <1>2, <2>1, KeptGainsNothing, Zenon
<1> QED BY <1>3, <1>4, <1>5, <1>6, <1>7, <1>8, <1>9, <1>10, Zenon DEF Next, ResolverNext, ShutdownNext

(* A resolver that waits on an open channel has missed nothing: the tuple  *)
(* it asks for does not resolve, and the registry is not shut down.        *)
THEOREM NoWakeupMissed == Spec => []NoMissedWakeup
<1>1. Init => WakeInv
  BY Zenon DEF Init, WakeInv
<1>2. RegistryInv /\ WakeInv => NoMissedWakeup
  <2> SUFFICES ASSUME RegistryInv, WakeInv, NEW r \in waiting \ woken
               PROVE  ~closed /\ Resolution(want[r]) = None
    BY Zenon DEF NoMissedWakeup
  <2>1. ~closed /\ want[r] \in Keys /\ \A f \in Flows : Live(f) => tuple[f] # want[r]
    BY Zenon DEF WakeInv
  <2>2. \A f \in Flows : Resolution(want[r]) # f
    BY <2>1, ExactFromInv, Zenon DEF IndexExact
  <2>3. Resolution(want[r]) \in Flows \cup {None}
    BY <2>1, CleanType, ResolutionIsIndex
  <2> QED BY <2>1, <2>2, <2>3, Zenon
<1> QED BY <1>1, <1>2, Registry, WakeNext, PTL DEF Spec

-----------------------------------------------------------------------------
\* The capacity.

Present == {f \in Flows : state[f] # "absent"}
CleanPresent == {f \in Flows : CleanState[f] # "absent"}

LEMMA SubsetCapacity ==
    ASSUME NEW S \in SUBSET Flows, NEW T \in SUBSET S, Cardinality(S) <= MaxEntries
    PROVE  Cardinality(T) <= MaxEntries
<1>1. IsFiniteSet(S) /\ IsFiniteSet(T)
  BY RegistryAssumption, FS_Subset, Zenon
<1>2. Cardinality(T) <= Cardinality(S) /\ Cardinality(S) \in Nat /\ Cardinality(T) \in Nat
  BY <1>1, FS_Subset, FS_CardinalityType, Zenon
<1> QED BY <1>2, RegistryAssumption

LEMMA CapacityNext == RegistryInv /\ WithinCapacity /\ [Next]_vars => WithinCapacity'
<1> SUFFICES ASSUME RegistryInv, WithinCapacity, [Next]_vars PROVE WithinCapacity'
  OBVIOUS
<1>0. state \in [Flows -> {"absent", "active", "closed"}] /\ Cardinality(Present) <= MaxEntries
  BY Zenon DEF RegistryInv, TypeOK, WithinCapacity, Present
<1>1. CleanPresent \subseteq Present
  BY Zenon DEF CleanPresent, Present, CleanState, Expired
<1>2. CASE Present' \subseteq Present
  <2>1. Cardinality(Present') <= MaxEntries
    BY <1>0, <1>2, SubsetCapacity, Zenon DEF Present
  <2> QED BY <2>1, Zenon DEF WithinCapacity, Present
<1>3. ASSUME NEW f \in Flows, EntryOpened(f) PROVE WithinCapacity'
  <2>1. Cardinality(CleanPresent) < MaxEntries
    BY <1>3, Zenon DEF EntryOpened, HasRoom, CleanPresent
  <2>2. Present' \subseteq CleanPresent \cup {f}
    BY <1>3, CleanType, Zenon DEF EntryOpened, Present, CleanPresent
  <2>3. IsFiniteSet(CleanPresent)
    BY RegistryAssumption, FS_Subset, Zenon DEF CleanPresent
  <2>4. Cardinality(CleanPresent \cup {f}) <= MaxEntries
    <3>1. Cardinality(CleanPresent) \in Nat
      BY <2>3, FS_CardinalityType, Zenon
    <3>2. Cardinality(CleanPresent \cup {f}) =
            IF f \in CleanPresent THEN Cardinality(CleanPresent) ELSE Cardinality(CleanPresent) + 1
      BY <2>3, FS_AddElement, Zenon
    <3> QED BY <2>1, <3>1, <3>2, RegistryAssumption
  <2>5. Cardinality(Present') <= MaxEntries
    BY <2>2, <2>4, SubsetCapacity, Zenon DEF CleanPresent
  <2> QED BY <2>5, Zenon DEF WithinCapacity, Present
<1>4. CASE EntriesKept
  BY <1>2, <1>4, Zenon DEF EntriesKept, Present
<1>5. CASE EntriesCleaned
  BY <1>1, <1>2, <1>5, Zenon DEF EntriesCleaned, Present, CleanPresent
<1>6. ASSUME NEW f \in Flows, EntryClosed(f) PROVE WithinCapacity'
  <2>1. Present' \subseteq Present
    BY <1>0, <1>6, Zenon DEF EntryClosed, Present
  <2> QED BY <1>2, <2>1, Zenon
<1>7. ASSUME NEW f \in Flows, NEW k \in Keys, EntryBound(f, k) PROVE WithinCapacity'
  BY <1>1, <1>2, <1>7, Zenon DEF EntryBound, Present, CleanPresent
<1>8. CASE EntriesCleared
  BY <1>2, <1>8, Zenon DEF EntriesCleared, Present
<1> QED BY <1>3, <1>4, <1>5, <1>6, <1>7, <1>8, StepKinds, Zenon DEF EntryStep

(* The registry never holds more than MaxEntries flows.                    *)
THEOREM CapacityHolds == Spec => []WithinCapacity
<1>1. Init => WithinCapacity
  <2> SUFFICES ASSUME Init PROVE Cardinality({f \in Flows : state[f] # "absent"}) <= MaxEntries
    BY Zenon DEF WithinCapacity
  <2>1. {f \in Flows : state[f] # "absent"} = {}
    BY Zenon DEF Init
  <2> QED BY <2>1, FS_EmptySet, RegistryAssumption
<1> QED BY <1>1, Registry, CapacityNext, PTL DEF Spec

-----------------------------------------------------------------------------
\* A binding is only lost to a Bind, to its expiry or to Shutdown.

BindingKept ==
    \A k \in Keys, f \in Flows :
        Resolution(k) = f /\ Resolution(k)' # f =>
            \/ \E g \in Flows : Bind(g, k)
            \/ \E j \in Keys : Bind(f, j)
            \/ state[f] = "closed" /\ left'[f] = 0
            \/ closed'

LEMMA StableNext ==
    ASSUME RegistryInv, RegistryInv', IndexExact', [Next]_vars
    PROVE  BindingKept
<1> SUFFICES ASSUME NEW k \in Keys, NEW f \in Flows, Resolution(k) = f, ~closed',
                    ~(state[f] = "closed" /\ left'[f] = 0),
                    ~\E g \in Flows : Bind(g, k), ~\E j \in Keys : Bind(f, j)
             PROVE  Resolution(k)' = f
  BY Zenon DEF BindingKept
<1>0. None \notin Flows /\ Grace \in Nat \ {0}
  BY RegistryAssumption, Zenon
<1>1. ~closed
  BY <1>0, Zenon DEF Resolution
<1>2. Live(f) /\ tuple[f] = k
  BY <1>1, ExactFromInv, Zenon DEF IndexExact
<1>3. CleanTuple[f] = k /\ CleanState[f] = state[f]
  BY <1>2, CleanIndex, Zenon
<1>4. left'[f] \in Nat /\ state \in [Flows -> {"absent", "active", "closed"}]
  BY RegistryAssumption DEF RegistryInv, TypeOK
<1>5. SUFFICES Live(f)' /\ tuple'[f] = k
  <2>1. (Resolution(k)' = f) <=> (Live(f)' /\ tuple'[f] = k)
    BY Zenon DEF IndexExact
  <2> QED BY <2>1, Zenon
<1>6. SUFFICES tuple'[f] = k /\ (state'[f] = "active" \/ (state'[f] = "closed" /\ left'[f] > 0))
  BY Zenon DEF Live
<1>7. state[f] = "active" \/ (state[f] = "closed" /\ left'[f] > 0)
  BY <1>2, <1>4 DEF Live
<1>8. CASE EntriesKept
  BY <1>2, <1>7, <1>8, Zenon DEF EntriesKept
<1>9. CASE EntriesCleaned
  BY <1>3, <1>7, <1>9, Zenon DEF EntriesCleaned
<1>10. ASSUME NEW g \in Flows, EntryOpened(g)
       PROVE  tuple'[f] = k /\ (state'[f] = "active" \/ (state'[f] = "closed" /\ left'[f] > 0))
  BY <1>3, <1>7, <1>10, CleanType, Zenon DEF EntryOpened
<1>11. ASSUME NEW g \in Flows, EntryClosed(g)
       PROVE  tuple'[f] = k /\ (state'[f] = "active" \/ (state'[f] = "closed" /\ left'[f] > 0))
  <2>1. left \in [Flows -> 0..Grace]
    BY Zenon DEF RegistryInv, TypeOK
  <2> QED BY <1>0, <1>2, <1>4, <1>7, <1>11, <2>1 DEF EntryClosed
<1>12. ASSUME NEW g \in Flows, NEW j \in Keys, EntryBound(g, j), Bind(g, j)
       PROVE  tuple'[f] = k /\ (state'[f] = "active" \/ (state'[f] = "closed" /\ left'[f] > 0))
  <2>1. g # f /\ j # k
    BY <1>12, Zenon
  <2>2. f # Holder(j)
    <3>1. (CleanTuples[j] = f) <=> (CleanTuple[f] = j)
      BY CleanIndex
    <3> QED BY <1>3, <2>1, <3>1, Zenon DEF Holder
  <2>3. tuple'[f] = k
    BY <1>3, <1>12, <2>1, <2>2, Zenon DEF EntryBound, BoundTuple
  <2> QED BY <1>3, <1>7, <1>12, <2>3, Zenon DEF EntryBound
<1> QED BY <1>8, <1>9, <1>10, <1>11, <1>12, StepKinds, Zenon DEF EntryStep

(* What a tuple resolves to changes only by a Bind of that tuple or of     *)
(* that flow, by the end of the grace period or by Shutdown.               *)
THEOREM BindingIsStable == Spec => BindingStable
<1>1. RegistryInv => IndexExact
  BY ExactFromInv, Zenon
<1>2. RegistryInv /\ RegistryInv' /\ IndexExact' /\ [Next]_vars => [BindingKept]_vars
  BY StableNext, Zenon
<1>3. Spec => [][BindingKept]_vars
  BY <1>1, <1>2, Registry, PTL DEF Spec
<1> QED BY <1>3, Zenon DEF BindingStable, BindingKept

-----------------------------------------------------------------------------
\* The requests of the backends.

ServiceTypes ==
    /\ conn \in [ServedFlows -> {"new", "opened", "controlled", "bound"}]
    /\ ending \in [ServedFlows -> {"no", "flagged", "unregistered", "closed", "expired"}]
    /\ cause \in [ServedFlows -> {"none", "backend_blocked", "other"}]
    /\ blocks \in [ServedFlows -> Nat]
    /\ request \in [Handlers -> {NoRequest} \cup Requests \cup Answers]

\* A flow has a cause as soon as somebody has called closeWithReason, and one that is bound
\* and not ending has its controls; a flow that was usable once stays bound.
ConnState(f) ==
    /\ ending[f] = "no" <=> cause[f] = "none"
    /\ conn[f] \in {"controlled", "bound"} /\ ending[f] = "no" => f \in controls

InProgress == {"lookup", "pick", "apply", "close", "write"}
RequestState(h) ==
    /\ request[h].step \in InProgress /\ request[h].usable => conn[request[h].flow] = "bound"
    /\ Serving(h, "answered") => ~request[h].puzzling

Closing(f) == {h \in Handlers : Serving(h, "close") /\ request[h].flow = f}

ControlInv ==
    /\ ServiceTypes
    /\ \A f \in ServedFlows : ConnState(f)
    /\ \A h \in Handlers : RequestState(h)
    /\ BlockAppliedOnce

\* What a request in progress is.
LEMMA RequestRecord ==
    ASSUME ServiceTypes, NEW h \in Handlers, request[h].step \in InProgress
    PROVE  /\ request[h] \in Requests /\ request[h].flow \in ServedFlows /\ request[h].usable \in BOOLEAN
           /\ request[h].method \in RPCs
  BY DEF ServiceTypes, Requests, Answers, NoRequest, InProgress

\* A request goes on, keeping its flow.
LEMMA ProceedsAt ==
    ASSUME ServiceTypes, NEW h \in Handlers, request[h].step \in InProgress, NEW step \in InProgress, Proceeds(h, step)
    PROVE  /\ request' \in [Handlers -> {NoRequest} \cup Requests \cup Answers]
           /\ request'[h].step = step /\ request'[h].flow = request[h].flow /\ request'[h].usable = request[h].usable
           /\ \A g \in Handlers \ {h} : request'[g] = request[g]
<1>1. PICK q : q = [request[h] EXCEPT !.step = step]
  BY ZenonT(60)
<1>2. q \in Requests /\ q.step = step /\ q.flow = request[h].flow /\ q.usable = request[h].usable
  BY <1>1, RequestRecord DEF Requests, InProgress
<1> QED BY <1>1, <1>2, Zenon DEF Proceeds, ServiceTypes

\* A request is answered; a conflict is only puzzling for a flow that is not ending.
LEMMA AnswerAt ==
    ASSUME ServiceTypes, NEW h \in Handlers, NEW status \in Statuses, Answer(h, status)
    PROVE  /\ request' \in [Handlers -> {NoRequest} \cup Requests \cup Answers]
           /\ request'[h].step = "answered"
           /\ request'[h].puzzling <=> status = 409 /\ request[h].usable /\ ending[request[h].flow] = "no"
           /\ \A g \in Handlers \ {h} : request'[g] = request[g]
<1> DEFINE b == status = 409 /\ request[h].usable /\ ending[request[h].flow] = "no"
           q == [step |-> "answered", status |-> status, puzzling |-> b]
<1>1. b \in BOOLEAN
  OBVIOUS
<1> HIDE DEF b
<1>2. q \in Answers /\ q.step = "answered" /\ (q.puzzling <=> b)
  BY <1>1, Zenon DEF Answers
<1>3. request' = [request EXCEPT ![h] = q]
  BY Zenon DEF Answer, b
<1> HIDE DEF q
<1>4. /\ request' \in [Handlers -> {NoRequest} \cup Requests \cup Answers] /\ request'[h] = q
      /\ \A g \in Handlers \ {h} : request'[g] = request[g]
  BY <1>2, <1>3, Zenon DEF ServiceTypes
<1> QED BY <1>2, <1>4, Zenon DEF b

\* What BlockAppliedOnce counts.
Blocked(f) == IF cause[f] = "backend_blocked" THEN 1 ELSE 0

\* A flow whose callers of BlockFlow and whose cause stay keeps the count.
LEMMA CountKept ==
    ASSUME BlockAppliedOnce, NEW f \in ServedFlows, Closing(f)' = Closing(f), blocks'[f] = blocks[f],
           cause'[f] = "backend_blocked" <=> cause[f] = "backend_blocked"
    PROVE  blocks'[f] + Cardinality(Closing(f)') = Blocked(f)'
<1>1. blocks[f] + Cardinality(Closing(f)) = Blocked(f)
  BY Zenon DEF BlockAppliedOnce, Closing, Blocked
<1>2. Blocked(f)' = Blocked(f)
  BY Zenon DEF Blocked
<1> QED BY <1>1, <1>2, Zenon

\* BlockAppliedOnce, flow by flow.
LEMMA CountFolds ==
    ASSUME \A f \in ServedFlows : blocks'[f] + Cardinality(Closing(f)') = Blocked(f)'
    PROVE  BlockAppliedOnce'
  BY Zenon DEF BlockAppliedOnce, Closing, Blocked

\* A step of the data plane leaves the requests alone.
LEMMA DataPlaneInv ==
    ASSUME ControlInv, UNCHANGED <<blocks, request>>, ServiceTypes', \A f \in ServedFlows : ConnState(f)',
           \A f \in ServedFlows : conn[f] = "bound" => conn'[f] = "bound",
           \A f \in ServedFlows : cause'[f] = "backend_blocked" <=> cause[f] = "backend_blocked"
    PROVE  ControlInv'
<1>1. \A h \in Handlers : RequestState(h)'
  <2> SUFFICES ASSUME NEW h \in Handlers PROVE RequestState(h)'
    OBVIOUS
  <2>1. RequestState(h) /\ (request[h].step \in InProgress => request[h].flow \in ServedFlows)
    BY RequestRecord, Zenon DEF ControlInv
  <2> QED BY <2>1, Zenon DEF RequestState, Serving
<1>2. \A f \in ServedFlows : Closing(f)' = Closing(f)
  BY Zenon DEF Closing, Serving
<1>3. BlockAppliedOnce'
  BY <1>2, CountKept, CountFolds, Zenon DEF ControlInv
<1> QED BY <1>1, <1>3, Zenon DEF ControlInv

\* The flow's own steps: its start, its end, and closeWithReason called by somebody else.
LEMMA FlowMovesInv ==
    ASSUME ControlInv, NEW f \in ServedFlows,
           OpenConn(f) \/ SetControls(f) \/ BindConn(f) \/ CloseConn(f) \/ CloseStep(f) \/ ExpireContext(f)
    PROVE  ControlInv'
<1> USE DEF ControlInv, ServiceTypes
<1>1. CASE OpenConn(f) \/ BindConn(f)
  <2>1. /\ UNCHANGED <<ending, cause, controls, blocks, request>>
        /\ \A g \in ServedFlows : g # f => conn'[g] = conn[g]
        /\ conn' \in [ServedFlows -> {"new", "opened", "controlled", "bound"}]
        /\ \/ conn[f] = "new" /\ conn'[f] = "opened"
           \/ conn[f] = "controlled" /\ conn'[f] = "bound"
    BY <1>1, Zenon DEF OpenConn, BindConn
  <2>2. \A g \in ServedFlows : ConnState(g)'
    BY <2>1, Zenon DEF ConnState
  <2> QED BY <2>1, <2>2, DataPlaneInv, Zenon
<1>2. CASE SetControls(f)
  <2>1. /\ UNCHANGED <<ending, cause, blocks, request>> /\ conn[f] = "opened" /\ conn'[f] = "controlled"
        /\ \A g \in ServedFlows : g # f => conn'[g] = conn[g]
        /\ conn' \in [ServedFlows -> {"new", "opened", "controlled", "bound"}]
        /\ controls \subseteq controls' /\ (ending[f] = "no" => f \in controls')
    BY <1>2, Zenon DEF SetControls, Registered
  <2>2. \A g \in ServedFlows : ConnState(g)'
    BY <2>1, Zenon DEF ConnState
  <2> QED BY <2>1, <2>2, DataPlaneInv, Zenon
<1>3. CASE CloseConn(f)
  <2>1. /\ UNCHANGED <<conn, controls, blocks, request>> /\ ending[f] = "no" /\ ending'[f] = "flagged"
        /\ cause'[f] = "other" /\ cause[f] = "none"
        /\ \A g \in ServedFlows : g # f => ending'[g] = ending[g] /\ cause'[g] = cause[g]
        /\ ending' \in [ServedFlows -> {"no", "flagged", "unregistered", "closed", "expired"}]
        /\ cause' \in [ServedFlows -> {"none", "backend_blocked", "other"}]
    BY <1>3, Zenon DEF CloseConn, Shut, ConnState
  <2>2. \A g \in ServedFlows : ConnState(g)'
    BY <2>1, Zenon DEF ConnState
  <2>3. \A g \in ServedFlows : cause'[g] = "backend_blocked" <=> cause[g] = "backend_blocked"
    BY <2>1, Zenon
  <2> QED BY <2>1, <2>2, <2>3, DataPlaneInv, Zenon
<1>4. CASE CloseStep(f) \/ ExpireContext(f)
  <2>1. /\ UNCHANGED <<conn, cause, blocks, request>> /\ ending[f] # "no" /\ ending'[f] # "no"
        /\ \A g \in ServedFlows : g # f => ending'[g] = ending[g]
        /\ ending' \in [ServedFlows -> {"no", "flagged", "unregistered", "closed", "expired"}]
        /\ controls \ {f} \subseteq controls'
    BY <1>4, Zenon DEF CloseStep, Unregister, CloseContext, ExpireContext
  <2>2. \A g \in ServedFlows : ConnState(g)'
    BY <2>1 DEF ConnState
  <2> QED BY <2>1, <2>2, DataPlaneInv, Zenon
<1> QED BY <1>1, <1>2, <1>3, <1>4, Zenon

\* A request that neither begins nor ends a block of a flow moves.
LEMMA RequestMoves ==
    ASSUME ControlInv, NEW h \in Handlers, UNCHANGED <<conn, ending, cause, controls, blocks>>,
           request' \in [Handlers -> {NoRequest} \cup Requests \cup Answers],
           \A g \in Handlers \ {h} : request'[g] = request[g],
           request[h].step # "close", request'[h].step # "close", RequestState(h)'
    PROVE  ControlInv'
<1>1. ServiceTypes' /\ \A f \in ServedFlows : ConnState(f)'
  BY Zenon DEF ControlInv, ServiceTypes, ConnState
<1>2. \A g \in Handlers : RequestState(g)'
  BY Zenon DEF ControlInv, RequestState, Serving
<1>3. \A f \in ServedFlows : Closing(f)' = Closing(f)
  <2> SUFFICES ASSUME NEW f \in ServedFlows, NEW g \in Handlers
               PROVE  (request'[g].step = "close" /\ request'[g].flow = f) <=> (request[g].step = "close" /\ request[g].flow = f)
    BY Zenon DEF Closing, Serving
  <2> QED BY Zenon
<1>4. BlockAppliedOnce'
  BY <1>3, CountKept, CountFolds, Zenon DEF ControlInv
<1> QED BY <1>1, <1>2, <1>4, Zenon DEF ControlInv

\* An answer that is no conflict, or a conflict of a flow that is ending.
LEMMA AnswerInv ==
    ASSUME ControlInv, NEW h \in Handlers, UNCHANGED <<conn, ending, cause, controls, blocks>>,
           NEW status \in Statuses, Answer(h, status), request[h].step # "close",
           ~(status = 409 /\ request[h].usable /\ ending[request[h].flow] = "no")
    PROVE  ControlInv'
<1>1. /\ request' \in [Handlers -> {NoRequest} \cup Requests \cup Answers]
      /\ request'[h].step = "answered" /\ ~request'[h].puzzling
      /\ \A g \in Handlers \ {h} : request'[g] = request[g]
  BY AnswerAt DEF ControlInv
<1>2. RequestState(h)'
  BY <1>1, Zenon DEF RequestState, Serving, InProgress
<1> QED BY <1>1, <1>2, RequestMoves, Zenon

\* A request that goes on to the next step of its call.
LEMMA ProceedsInv ==
    ASSUME ControlInv, NEW h \in Handlers, UNCHANGED <<conn, ending, cause, controls, blocks>>,
           request[h].step \in InProgress \ {"close"}, NEW step \in InProgress \ {"close"}, Proceeds(h, step)
    PROVE  ControlInv'
<1>1. /\ request' \in [Handlers -> {NoRequest} \cup Requests \cup Answers]
      /\ request'[h].step = step /\ request'[h].flow = request[h].flow /\ request'[h].usable = request[h].usable
      /\ \A g \in Handlers \ {h} : request'[g] = request[g]
  BY ProceedsAt, Zenon DEF ControlInv
<1>2. RequestState(h)'
  BY <1>1, Zenon DEF ControlInv, RequestState, Serving, InProgress
<1> QED BY <1>1, <1>2, RequestMoves, Zenon

\* A request comes; it is usable only for a flow that is bound.
LEMMA RequestComesInv ==
    ASSUME ControlInv, NEW h \in Handlers, NEW method \in RPCs, NEW f \in ServedFlows, RequestComes(h, method, f)
    PROVE  ControlInv'
<1> DEFINE b == conn[f] = "bound" /\ ending[f] = "no"
           q == [step |-> "lookup", method |-> method, flow |-> f, usable |-> b]
<1>1. b \in BOOLEAN
  OBVIOUS
<1>2. UNCHANGED <<conn, ending, cause, controls, blocks>> /\ request[h].step # "close"
  BY Zenon DEF RequestComes, dataPlaneVars
<1>3. request' = [request EXCEPT ![h] = q]
  BY Zenon DEF RequestComes
<1> HIDE DEF b
<1>4. q \in Requests /\ q.step = "lookup" /\ q.flow = f /\ (q.usable <=> b)
  BY <1>1, Zenon DEF Requests
<1> HIDE DEF q
<1>5. /\ request' \in [Handlers -> {NoRequest} \cup Requests \cup Answers] /\ request'[h] = q
      /\ \A g \in Handlers \ {h} : request'[g] = request[g]
  BY <1>3, <1>4, Zenon DEF ControlInv, ServiceTypes
<1>6. RequestState(h)'
  BY <1>2, <1>4, <1>5, Zenon DEF RequestState, Serving, b
<1> QED BY <1>2, <1>4, <1>5, <1>6, RequestMoves, Zenon

\* The statuses of Verdict; a conflict is the answer for a context that is closed.
LEMMA VerdictIs ==
    ASSUME NEW method, NEW f, NEW allowed, NEW valid
    PROVE  /\ Verdict(method, f, allowed, valid) \in Statuses
           /\ Verdict(method, f, allowed, valid) = 409 => ending[f] # "no"
<1>1. ContextState(f) = "closed" => ending[f] # "no"
  BY DEF ContextState
<1> QED BY <1>1 DEF Verdict, Statuses

\* A request is refused, answered, or goes on; a conflict means a closed context.
LEMMA AuthorizeInv ==
    ASSUME ControlInv, NEW h \in Handlers, NEW allowed, NEW valid, AuthorizeFlow(h, allowed, valid)
    PROVE  ControlInv'
<1>0. PICK method, f : method = request[h].method /\ f = request[h].flow
  OBVIOUS
<1>1. PICK verdict : verdict = Verdict(method, f, allowed, valid)
  OBVIOUS
<1>2. /\ UNCHANGED <<conn, ending, cause, controls, blocks>> /\ request[h].step = "lookup"
      /\ \/ Answer(h, verdict)
         \/ Proceeds(h, IF request[h].method \in ControlCalls THEN "pick" ELSE "write")
  BY <1>0, <1>1, Zenon DEF AuthorizeFlow, Serving, dataPlaneVars
<1>3. CASE Answer(h, verdict)
  <2>1. verdict \in Statuses /\ (verdict = 409 => ending[request[h].flow] # "no")
    BY <1>0, <1>1, VerdictIs
  <2> QED BY <1>2, <1>3, <2>1, AnswerInv, Zenon
<1>4. CASE Proceeds(h, IF request[h].method \in ControlCalls THEN "pick" ELSE "write")
  <2>1. PICK step \in {"pick", "write"} : Proceeds(h, step)
    BY <1>4, Zenon
  <2>2. request[h].step \in InProgress \ {"close"} /\ step \in InProgress \ {"close"}
    BY <1>2, <2>1, Zenon DEF InProgress
  <2> QED BY <1>2, <2>1, <2>2, ProceedsInv, Zenon
<1> QED BY <1>2, <1>3, <1>4, Zenon

\* A usable flow that is not ending has its controls, so that withControl finds them.
LEMMA PickInv ==
    ASSUME ControlInv, NEW h \in Handlers, PickControl(h)
    PROVE  ControlInv'
<1>1. /\ UNCHANGED <<conn, ending, cause, controls, blocks>> /\ request[h].step = "pick"
      /\ \/ Proceeds(h, "apply")
         \/ request[h].flow \notin controls /\ Answer(h, 409)
  BY Zenon DEF PickControl, Serving, dataPlaneVars
<1>2. request[h].step \in InProgress \ {"close"} /\ "apply" \in InProgress \ {"close"}
  BY <1>1, Zenon DEF InProgress
<1>3. CASE Proceeds(h, "apply")
  BY <1>1, <1>2, <1>3, ProceedsInv, Zenon
<1>4. CASE request[h].flow \notin controls /\ Answer(h, 409)
  <2>1. request[h].flow \in ServedFlows
    BY <1>2, RequestRecord, Zenon DEF ControlInv
  <2>2. ~(request[h].usable /\ ending[request[h].flow] = "no")
    BY <1>2, <1>4, <2>1, Zenon DEF ControlInv, RequestState, ConnState
  <2>3. 409 \in Statuses
    BY DEF Statuses
  <2> QED BY <1>1, <1>4, <2>2, <2>3, AnswerInv, ZenonT(60)
<1> QED BY <1>1, <1>3, <1>4, Zenon

\* One more caller of BlockFlow, or one less.
LEMMA ClosingMoves ==
    ASSUME ServiceTypes, NEW f \in ServedFlows, NEW h \in Handlers
    PROVE  /\ Cardinality(Closing(f)) \in Nat
           /\ h \notin Closing(f) => Cardinality(Closing(f) \cup {h}) = Cardinality(Closing(f)) + 1
           /\ h \in Closing(f) => Cardinality(Closing(f) \ {h}) = Cardinality(Closing(f)) - 1
<1>1. IsFiniteSet(Closing(f))
  BY ServiceAssumption, FS_Subset, Zenon DEF Closing
<1> QED BY <1>1, FS_AddElement, FS_RemoveElement, FS_CardinalityType

\* closeWithReason called by BlockFlow is the first caller: nobody has blocked the flow before.
LEMMA BlockInv ==
    ASSUME ControlInv, NEW h \in Handlers, request[h].step = "apply", ending[request[h].flow] = "no",
           UNCHANGED <<conn, controls, blocks>>, Shut(request[h].flow, "backend_blocked"), Proceeds(h, "close")
    PROVE  ControlInv'
<1>1. request[h].step \in InProgress /\ "close" \in InProgress
  BY Zenon DEF InProgress
<1>2. PICK f \in ServedFlows : f = request[h].flow
  BY <1>1, RequestRecord, Zenon DEF ControlInv
<1>3. /\ request' \in [Handlers -> {NoRequest} \cup Requests \cup Answers]
      /\ request'[h].step = "close" /\ request'[h].flow = f /\ request'[h].usable = request[h].usable
      /\ \A g \in Handlers \ {h} : request'[g] = request[g]
  BY <1>1, <1>2, ProceedsAt, Zenon DEF ControlInv
<1>4. /\ ending' \in [ServedFlows -> {"no", "flagged", "unregistered", "closed", "expired"}]
      /\ cause' \in [ServedFlows -> {"none", "backend_blocked", "other"}]
      /\ ending'[f] = "flagged" /\ cause'[f] = "backend_blocked" /\ cause[f] = "none"
      /\ \A g \in ServedFlows : g # f => ending'[g] = ending[g] /\ cause'[g] = cause[g]
  BY <1>2, Zenon DEF Shut, ControlInv, ServiceTypes, ConnState
<1>5. ServiceTypes' /\ \A g \in ServedFlows : ConnState(g)'
  <2>1. ServiceTypes'
    BY <1>3, <1>4, Zenon DEF ControlInv, ServiceTypes
  <2>2. \A g \in ServedFlows : ConnState(g)'
    BY <1>4 DEF ControlInv, ConnState
  <2> QED BY <2>1, <2>2, Zenon
<1>6. \A g \in Handlers : RequestState(g)'
  BY <1>1, <1>2, <1>3, ZenonT(60) DEF ControlInv, RequestState, Serving
<1>7. Closing(f)' = Closing(f) \cup {h} /\ h \notin Closing(f)
  BY <1>2, <1>3, Zenon DEF Closing, Serving
<1>8. \A g \in ServedFlows : g # f => Closing(g)' = Closing(g)
  BY <1>2, <1>3, Zenon DEF Closing, Serving
<1>9. blocks'[f] + Cardinality(Closing(f)') = Blocked(f)'
  <2>1. blocks[f] + Cardinality(Closing(f)) = Blocked(f) /\ blocks[f] \in Nat
    BY Zenon DEF ControlInv, ServiceTypes, BlockAppliedOnce, Closing, Blocked
  <2>2. Blocked(f) = 0 /\ Blocked(f)' = 1
    BY <1>4, Zenon DEF Blocked
  <2>3. Cardinality(Closing(f)') = Cardinality(Closing(f)) + 1 /\ Cardinality(Closing(f)) \in Nat
    BY <1>7, ClosingMoves, Zenon DEF ControlInv
  <2> QED BY <2>1, <2>2, <2>3
<1>10. \A g \in ServedFlows : g # f => blocks'[g] + Cardinality(Closing(g)') = Blocked(g)'
  BY <1>4, <1>8, CountKept, Zenon DEF ControlInv
<1>11. BlockAppliedOnce'
  BY <1>9, <1>10, CountFolds, Zenon
<1> QED BY <1>5, <1>6, <1>11, Zenon DEF ControlInv

\* The callback refuses a flow that is ending, and else blocks or limits it.
LEMMA ApplyInv ==
    ASSUME ControlInv, NEW h \in Handlers, ApplyControl(h)
    PROVE  ControlInv'
<1>1. /\ UNCHANGED <<conn, controls, blocks>> /\ request[h].step = "apply"
      /\ \/ ending[request[h].flow] # "no" /\ Answer(h, 409) /\ UNCHANGED <<ending, cause>>
         \/ /\ ending[request[h].flow] = "no" /\ Shut(request[h].flow, "backend_blocked")
            /\ Proceeds(h, "close")
         \/ Answer(h, 200) /\ UNCHANGED <<ending, cause>>
  BY ZenonT(60) DEF ApplyControl, Serving
<1>2. CASE ending[request[h].flow] # "no" /\ Answer(h, 409) /\ UNCHANGED <<ending, cause>>
  <2>1. PICK status \in Statuses : Answer(h, status)
    BY <1>2 DEF Statuses
  <2> QED BY <1>1, <1>2, <2>1, AnswerInv, ZenonT(60)
<1>3. CASE Answer(h, 200) /\ UNCHANGED <<ending, cause>>
  <2>1. PICK status \in Statuses : status # 409 /\ Answer(h, status)
    BY <1>3 DEF Statuses
  <2> QED BY <1>1, <1>3, <2>1, AnswerInv, Zenon
<1> QED BY <1>1, <1>2, <1>3, BlockInv, Zenon

\* BlockFlow is answered: the call is counted, and is no longer under way.
LEMMA BlockReturnsInv ==
    ASSUME ControlInv, NEW h \in Handlers, BlockReturns(h)
    PROVE  ControlInv'
<1>1. request[h].step = "close" /\ request[h].step \in InProgress
  BY Zenon DEF BlockReturns, Serving, InProgress
<1>2. PICK f \in ServedFlows : f = request[h].flow
  BY <1>1, RequestRecord, Zenon DEF ControlInv
<1>3. PICK status \in Statuses : status # 409 /\ Answer(h, status)
  BY DEF Statuses, BlockReturns
<1>4. /\ request' \in [Handlers -> {NoRequest} \cup Requests \cup Answers]
      /\ request'[h].step = "answered" /\ ~request'[h].puzzling
      /\ \A g \in Handlers \ {h} : request'[g] = request[g]
  BY <1>3, AnswerAt DEF ControlInv
<1>5. UNCHANGED <<conn, ending, cause, controls>> /\ blocks' = [blocks EXCEPT ![f] = @ + 1]
  BY <1>2, Zenon DEF BlockReturns, dataPlaneVars
<1>6. /\ blocks' \in [ServedFlows -> Nat] /\ blocks'[f] = blocks[f] + 1
      /\ \A g \in ServedFlows : g # f => blocks'[g] = blocks[g]
  BY <1>5 DEF ControlInv, ServiceTypes
<1>7. ServiceTypes' /\ \A g \in ServedFlows : ConnState(g)'
  BY <1>4, <1>5, <1>6, Zenon DEF ControlInv, ServiceTypes, ConnState
<1>8. \A g \in Handlers : RequestState(g)'
  BY <1>4, <1>5, Zenon DEF ControlInv, RequestState, Serving, InProgress
<1>9. Closing(f)' = Closing(f) \ {h} /\ h \in Closing(f)
  BY <1>1, <1>2, <1>4, Zenon DEF Closing, Serving
<1>10. \A g \in ServedFlows : g # f => Closing(g)' = Closing(g)
  BY <1>2, <1>4, Zenon DEF Closing, Serving
<1>11. blocks'[f] + Cardinality(Closing(f)') = Blocked(f)'
  <2>1. blocks[f] + Cardinality(Closing(f)) = Blocked(f) /\ blocks[f] \in Nat
    BY Zenon DEF ControlInv, ServiceTypes, BlockAppliedOnce, Closing, Blocked
  <2>2. Blocked(f)' = Blocked(f)
    BY <1>5, Zenon DEF Blocked
  <2>3. Cardinality(Closing(f)') = Cardinality(Closing(f)) - 1 /\ Cardinality(Closing(f)) \in Nat
    BY <1>9, ClosingMoves, Zenon DEF ControlInv
  <2> QED BY <1>6, <2>1, <2>2, <2>3
<1>12. \A g \in ServedFlows : g # f => blocks'[g] + Cardinality(Closing(g)') = Blocked(g)'
  BY <1>5, <1>6, <1>10, CountKept, Zenon DEF ControlInv
<1>13. BlockAppliedOnce'
  BY <1>11, <1>12, CountFolds, Zenon
<1> QED BY <1>7, <1>8, <1>13, Zenon DEF ControlInv

\* The tags do not touch the controls.
LEMMA TagStepInv ==
    ASSUME ControlInv, NEW h \in Handlers,
           WriteTagFails(h) \/ \E label \in Labels, value \in TagValues : WriteTag(h, label, value)
    PROVE  ControlInv'
<1>1. /\ UNCHANGED <<conn, ending, cause, controls, blocks>> /\ request[h].step # "close"
      /\ Answer(h, 200) \/ Answer(h, 500)
  BY ZenonT(60) DEF WriteTag, WriteTagFails, Serving, dataPlaneVars
<1>2. PICK status \in Statuses : status # 409 /\ Answer(h, status)
  BY <1>1 DEF Statuses
<1> QED BY <1>1, <1>2, AnswerInv, ZenonT(60)

\* No flow, no request.
LEMMA ControlInitially ==
    ASSUME ServiceInit
    PROVE  ControlInv
<1>1. ServiceTypes /\ (\A f \in ServedFlows : ConnState(f)) /\ (\A h \in Handlers : RequestState(h))
  BY DEF ServiceInit, ServiceTypes, ConnState, RequestState, Serving, InProgress, NoRequest
<1>2. BlockAppliedOnce
  <2> SUFFICES ASSUME NEW f \in ServedFlows
               PROVE  blocks[f] + Cardinality(Closing(f)) = Blocked(f)
    BY Zenon DEF BlockAppliedOnce, Closing, Blocked
  <2>1. Closing(f) = {}
    BY DEF Closing, Serving, ServiceInit, NoRequest
  <2>2. blocks[f] = 0 /\ Blocked(f) = 0
    BY DEF ServiceInit, Blocked
  <2> QED BY <2>1, <2>2, FS_EmptySet
<1> QED BY <1>1, <1>2, Zenon DEF ControlInv

\* Every step of the flows and of the requests keeps the invariant.
LEMMA ControlStep ==
    ASSUME ControlInv, [ServiceNext]_serviceVars
    PROVE  ControlInv'
<1>1. CASE UNCHANGED serviceVars
  <2>1. UNCHANGED <<conn, ending, cause, controls, blocks, request>>
    BY <1>1, Zenon DEF serviceVars
  <2>2. ServiceTypes' /\ \A f \in ServedFlows : ConnState(f)'
    BY <2>1, Zenon DEF ControlInv, ServiceTypes, ConnState
  <2> QED BY <2>1, <2>2, DataPlaneInv, Zenon
<1>2. CASE ServiceNext
  BY <1>2, FlowMovesInv, RequestComesInv, AuthorizeInv, PickInv, ApplyInv, BlockReturnsInv, TagStepInv, Zenon
     DEF ServiceNext, RequestStep
<1> QED BY <1>1, <1>2, Zenon

\* BlockFlow is applied at most once, by the call that is told so, and no backend is told of a
\* conflict for a flow that was bound when it asked and is not ending: withControl reads the
\* callback and calls it without the lock, while the flow's own goroutine closes it.
THEOREM ControlAnswersAlways == ServiceSpec => []ControlAnswersAreTrue
<1>1. ServiceInit => ControlInv
  BY ControlInitially, Zenon
<1>2. ControlInv /\ [ServiceNext]_serviceVars => ControlInv'
  BY ControlStep, Zenon
<1>3. ControlInv => ControlAnswersAreTrue
  BY Zenon DEF ControlInv, ControlAnswersAreTrue, NoFalseConflict, RequestState
<1> QED BY <1>1, <1>2, <1>3, PTL DEF ServiceSpec

-----------------------------------------------------------------------------
\* The tags.

TagTypes == tags \subseteq StoredTags /\ latest \in [Owners \X Labels -> TagValues \cup {NoTag}]

\* What a write leaves of a label's tags, the label's own and the ones no pattern but their
\* own matches.
LEMMA WrittenTags ==
    ASSUME TagTypes, TagsReplace, NEW owner \in Owners, NEW label \in Labels, NEW value \in TagValues,
           NEW new \in {{}, {[owner |-> owner, label |-> label, value |-> value]}},
           tags' = Written(owner, label, new),
           latest' = [latest EXCEPT ![<<owner, label>>] = IF new = {} THEN NoTag ELSE value]
    PROVE  TagTypes' /\ TagsReplace'
<1>1. TagTypes'
  <2>1. new \subseteq StoredTags
    BY DEF StoredTags
  <2>2. tags' \subseteq StoredTags
    BY <2>1, Zenon DEF Written, TagTypes
  <2>3. latest' \in [Owners \X Labels -> TagValues \cup {NoTag}]
    BY Zenon DEF TagTypes
  <2> QED BY <2>2, <2>3, Zenon DEF TagTypes
<1>2. /\ latest'[<<owner, label>>] = IF new = {} THEN NoTag ELSE value
      /\ \A o \in Owners, l \in Labels : o # owner \/ l # label => latest'[<<o, l>>] = latest[<<o, l>>]
  BY DEF TagTypes
<1>3. \A t \in new : t.owner = owner /\ t.label = label /\ t.value = value
  OBVIOUS
<1>4. label \in Alike[label]
  BY ServiceAssumption, Zenon
<1>5. LabelsReplace'
  <2> SUFFICES ASSUME NEW t \in tags'
               PROVE  t.value = latest'[<<t.owner, t.label>>]
    BY Zenon DEF LabelsReplace
  <2>1. CASE t \in new
    BY <1>2, <1>3, <2>1, Zenon
  <2>2. CASE t \in tags /\ (t.owner # owner \/ t.label \notin Alike[label])
    <3>1. t.owner \in Owners /\ t.label \in Labels /\ t.value = latest[<<t.owner, t.label>>]
      BY <2>2, Zenon DEF TagTypes, StoredTags, TagsReplace, LabelsReplace
    <3> QED BY <1>2, <1>4, <2>2, <3>1, Zenon
  <2> QED BY <2>1, <2>2, Zenon DEF Written
<1>6. PlainLabelsExact'
  <2> SUFFICES ASSUME NEW o \in Owners, NEW l \in Labels, \A k \in Labels \ {l} : l \notin Alike[k]
               PROVE  {t.value : t \in {u \in tags' : u.owner = o /\ u.label = l}} = {latest'[<<o, l>>]} \ {NoTag}
    BY Zenon DEF PlainLabelsExact
  <2>1. {t.value : t \in {u \in tags : u.owner = o /\ u.label = l}} = {latest[<<o, l>>]} \ {NoTag}
    BY Zenon DEF TagsReplace, PlainLabelsExact
  <2>2. CASE o = owner /\ l = label
    <3>1. {u \in tags' : u.owner = o /\ u.label = l} = new
      BY <1>3, <1>4, <2>2, Zenon DEF Written
    <3>2. {t.value : t \in new} = IF new = {} THEN {} ELSE {value}
      BY <1>3, Zenon
    <3>3. value # NoTag
      BY ServiceAssumption, Zenon
    <3> QED BY <1>2, <2>2, <3>1, <3>2, <3>3, Zenon
  <2>3. CASE o # owner \/ l # label
    <3>1. {u \in tags' : u.owner = o /\ u.label = l} = {u \in tags : u.owner = o /\ u.label = l}
      BY <1>3, <2>3, Zenon DEF Written
    <3> QED BY <1>2, <2>1, <2>3, <3>1, Zenon
  <2> QED BY <2>2, <2>3, Zenon
<1> QED BY <1>1, <1>5, <1>6, Zenon DEF TagsReplace

\* A stored tag is the last one that was set, and a label that no other one's pattern matches
\* is stored exactly as it was last set or unset.
THEOREM TagsReplaceAlways == ServiceSpec => []TagsReplace
<1>1. ServiceInit => TagTypes /\ TagsReplace
  <2> SUFFICES ASSUME ServiceInit PROVE TagTypes /\ TagsReplace
    OBVIOUS
  <2>1. tags = {} /\ latest \in [Owners \X Labels -> TagValues \cup {NoTag}] /\ LabelsReplace
    BY Zenon DEF ServiceInit, LabelsReplace
  <2>2. \A o \in Owners, l \in Labels : latest[<<o, l>>] = NoTag
    BY DEF ServiceInit
  <2>3. PlainLabelsExact
    BY <2>1, <2>2, Zenon DEF PlainLabelsExact
  <2> QED BY <2>1, <2>3, Zenon DEF TagTypes, TagsReplace
<1>2. ControlInv /\ TagTypes /\ TagsReplace /\ [ServiceNext]_serviceVars => TagTypes' /\ TagsReplace'
  <2> SUFFICES ASSUME ControlInv, TagTypes, TagsReplace, [ServiceNext]_serviceVars
               PROVE  TagTypes' /\ TagsReplace'
    OBVIOUS
  <2>1. CASE UNCHANGED <<tags, latest>>
    BY <2>1, Zenon DEF TagTypes, TagsReplace, LabelsReplace, PlainLabelsExact
  <2>2. ASSUME NEW h \in Handlers, NEW label \in Labels, NEW value \in TagValues, WriteTag(h, label, value)
        PROVE  TagTypes' /\ TagsReplace'
    <3>1. request[h].step \in InProgress
      BY <2>2, Zenon DEF WriteTag, Serving, InProgress
    <3>2. request[h].flow \in ServedFlows
      BY <3>1, RequestRecord, Zenon DEF ControlInv
    <3>3. PICK owner : owner = IF request[h].method \in {"SetFlowTag", "UnsetFlowTag"} THEN request[h].flow
                               ELSE ClientOf[request[h].flow]
      OBVIOUS
    <3>4. owner \in Owners
      BY <3>2, <3>3, ServiceAssumption, Zenon DEF Owners
    <3>5. PICK new : new = IF request[h].method \in SetCalls
                           THEN {[owner |-> owner, label |-> label, value |-> value]} ELSE {}
      BY ZenonT(60)
    <3>6. new \in {{}, {[owner |-> owner, label |-> label, value |-> value]}}
      BY <3>5, Zenon
    <3>7. /\ tags' = Written(owner, label, new)
          /\ latest' = [latest EXCEPT ![<<owner, label>>] = IF new = {} THEN NoTag ELSE value]
      BY <2>2, <3>3, <3>5, Zenon DEF WriteTag
    <3> QED BY <3>4, <3>6, <3>7, WrittenTags, Zenon
  <2>3. \/ UNCHANGED <<tags, latest>>
        \/ \E h \in Handlers, label \in Labels, value \in TagValues : WriteTag(h, label, value)
    <3>1. ASSUME NEW f \in ServedFlows,
                 OpenConn(f) \/ SetControls(f) \/ BindConn(f) \/ CloseConn(f) \/ CloseStep(f) \/ ExpireContext(f)
          PROVE  UNCHANGED <<tags, latest>>
      BY <3>1, Zenon DEF OpenConn, SetControls, BindConn, CloseConn, CloseStep, Unregister, CloseContext, ExpireContext
    <3>2. ASSUME NEW h \in Handlers, NEW allowed, NEW valid, AuthorizeFlow(h, allowed, valid)
          PROVE  UNCHANGED <<tags, latest>>
      BY <3>2, Zenon DEF AuthorizeFlow
    <3>3. ASSUME NEW h \in Handlers, PickControl(h) \/ ApplyControl(h) \/ BlockReturns(h) \/ WriteTagFails(h)
          PROVE  UNCHANGED <<tags, latest>>
      BY <3>3, Zenon DEF PickControl, ApplyControl, BlockReturns, WriteTagFails
    <3>4. ASSUME NEW h \in Handlers, NEW method, NEW f, RequestComes(h, method, f)
          PROVE  UNCHANGED <<tags, latest>>
      BY <3>4, Zenon DEF RequestComes
    <3>5. CASE UNCHANGED serviceVars
      BY <3>5, Zenon DEF serviceVars
    <3>6. CASE ServiceNext
      BY <3>1, <3>2, <3>3, <3>4, <3>6, Zenon DEF ServiceNext, RequestStep
    <3> QED BY <3>5, <3>6, Zenon
  <2> QED BY <2>1, <2>2, <2>3, Zenon
<1>3. ServiceInit => ControlInv
  BY ControlInitially, Zenon
<1>4. ControlInv /\ [ServiceNext]_serviceVars => ControlInv'
  BY ControlStep, Zenon
<1> QED BY <1>1, <1>2, <1>3, <1>4, PTL DEF ServiceSpec
===============================================================================
