--------------------------- MODULE RuntimeProofs ----------------------------
(***************************************************************************)
(* Proofs about the process, for any number of overlapping restarts, and   *)
(* about parts of a runtime: the webhook client, the GeoIP manager and the *)
(* limits of the HTTP listener.                                            *)
(*                                                                         *)
(* Supervisor: Supervisor.mu covers single reads and writes of s.runtime   *)
(* only, so that HeldIsUp and NoOrphans rest on what happens between them: *)
(* a runtime that some caller stops is no longer held and will not be      *)
(* published again (TargetInv), and of two runtimes that are up, or about  *)
(* to be, one would have found the control address taken (BoundInv).  What *)
(* a call leaves when no other one overlapped it needs besides that every  *)
(* runtime that is up is held or in the hands of a caller (CallsInv).      *)
(*                                                                         *)
(* NotifyClient: the accounting is inductive over natural counters.  That a*)
(* nil return of Close finds nothing left is not: it needs that Close has  *)
(* closed the client before it waits, so that nothing is queued behind the *)
(* sender.                                                                 *)
(*                                                                         *)
(* GeoIPManager: a lookup is served as long as its readers are the current *)
(* ones, because Reload closes the pair it has replaced and no reader is   *)
(* in two pairs (SwapInv).                                                 *)
(*                                                                         *)
(* RequestLimits: a client is forgotten when its bucket is full, since the *)
(* TTL earns the burst.  The bound on a backend's requests is not          *)
(* inductive: it needs that the ticks since the window began hold no more  *)
(* than its count (WindowAt), so that a new window finds at most one       *)
(* window's worth behind it.                                               *)
(***************************************************************************)
EXTENDS Supervisor, NotifyClient, GeoIPManager, RequestLimits, TLAPS

\* The process.

\* What the argument needs of the types.
SupTypes ==
    /\ runtime \in Callers \cup {NoRuntime}
    /\ caller \in [Callers -> [step : Steps, target : Callers \cup {NoRuntime}]]
    /\ bound \in [Callers -> SUBSET Addresses]
    /\ life \in [Callers -> Lives]
    /\ handlers \in [Callers -> Nat]
    /\ stores \in [Callers -> SUBSET Stores]

\* How far a runtime is, by where its caller is.
Phase(r) ==
    /\ caller[r].step \in {"idle", "loading", "taking", "stopping", "building"} => life[r] = "none"
    /\ caller[r].step = "binding" => life[r] = "built"
    /\ caller[r].step = "listening" => life[r] = "control"
    /\ caller[r].step = "publishing" => life[r] = "up"
    /\ caller[r].step = "undoing" => life[r] \notin {"none", "up"} /\ caller[r].target = r
    /\ caller[r].step \in {"started", "ending"} => life[r] \notin {"none", "built", "control"}
    /\ caller[r].step = "failed" => life[r] \in {"none", "stopped"}

PhaseInv == \A r \in Callers : Phase(r)

\* What a caller stops was published, and is not held any more.
Target(p) ==
    caller[p].step \in {"stopping", "ending"} /\ caller[p].target # NoRuntime
        => caller[caller[p].target].step \in {"started", "ending"} /\ runtime # caller[p].target

TargetInv == \A p \in Callers : Target(p)

HeldInv == runtime # NoRuntime => life[runtime] = "up" /\ caller[runtime].step \in {"started", "ending"}

\* The control address has one holder, and everything that is up holds it.
BoundInv ==
    /\ \A r \in Callers : life[r] \in {"control", "up"} => "control" \in bound[r]
    /\ \A r \in Callers : "listeners" \in bound[r] => life[r] \in {"up", "cancelled", "deaf"}
    /\ \A r, s \in Callers : "control" \in bound[r] /\ "control" \in bound[s] => r = s

HandlerInv ==
    \A r \in Callers :
        /\ handlers[r] > 0 => life[r] \in {"control", "up", "cancelled", "deaf", "closed"}
        /\ life[r] \notin {"none", "stopped"} => stores[r] = Stores

SupInv == SupTypes /\ PhaseInv /\ TargetInv /\ HeldInv /\ BoundInv /\ HandlerInv /\ NoOrphans

\* The process starts with no runtime.
LEMMA SupInitInv == SupervisorInit => SupInv
  <1> SUFFICES ASSUME SupervisorInit PROVE SupInv
    OBVIOUS
  <1>1. SupTypes
    BY Zenon DEF SupervisorInit, SupTypes, Steps, Lives
  <1>2. PhaseInv /\ TargetInv /\ HeldInv
    BY Zenon DEF SupervisorInit, PhaseInv, Phase, TargetInv, Target, HeldInv
  <1>3. BoundInv /\ HandlerInv /\ NoOrphans
    BY DEF SupervisorInit, BoundInv, HandlerInv, NoOrphans
  <1> QED
    BY <1>1, <1>2, <1>3, Zenon DEF SupInv

\* A caller's move changes that caller only.
LEMMA GoesMoves ==
  ASSUME SupTypes, NEW p \in Callers, NEW s \in Steps, NEW t \in Callers \cup {NoRuntime}, Goes(p, s, t)
  PROVE  /\ caller' \in [Callers -> [step : Steps, target : Callers \cup {NoRuntime}]]
         /\ caller'[p].step = s /\ caller'[p].target = t
         /\ \A q \in Callers : q # p => caller'[q] = caller[q]
  BY Zenon DEF Goes, SupTypes

\* A move of a caller that stops nothing loses no runtime.
LEMMA NoneLost ==
  ASSUME SupInv, NEW p \in Callers, ~exited, runtime' = runtime,
         caller[p].step \notin {"stopping", "undoing", "ending", "publishing"},
         \A q \in Callers : q # p => caller'[q] = caller[q],
         \A q \in Callers : life'[q] = "up" => life[q] = "up" \/ (q = p /\ caller'[p].step = "publishing")
  PROVE  NoOrphans'
  <1> SUFFICES ASSUME NEW r \in Callers, life'[r] = "up", ~exited'
               PROVE  runtime' = r \/ caller'[r].step = "publishing" \/ BeingStopped(r)'
    BY Zenon DEF NoOrphans
  <1>1. CASE life[r] = "up" /\ BeingStopped(r)
    <2>1. PICK q \in Callers : caller[q].step \in {"stopping", "undoing", "ending"} /\ caller[q].target = r
      BY <1>1, Zenon DEF BeingStopped
    <2> QED
      BY <2>1, Zenon DEF BeingStopped
  <1>2. CASE life[r] = "up" /\ ~BeingStopped(r)
    <2>1. runtime = r \/ caller[r].step = "publishing"
      BY <1>2, Zenon DEF SupInv, NoOrphans
    <2> QED
      BY <2>1, Zenon
  <1> QED
    BY <1>1, <1>2, Zenon

\* Loading the configuration and calling Restart touch no runtime.
LEMMA CallsKeepInv ==
  ASSUME SupInv, NEW p \in Callers, NEW valid \in BOOLEAN, RestartCalled(p) \/ LoadConfig(p, valid)
  PROVE  SupInv'
  <1>1. /\ caller[p].step \in {"idle", "loading"}
        /\ caller'[p].step \in {"loading", "failed", "building", "taking"} /\ caller'[p].target = NoRuntime
        /\ caller' \in [Callers -> [step : Steps, target : Callers \cup {NoRuntime}]]
        /\ \A q \in Callers : q # p => caller'[q] = caller[q]
    BY GoesMoves DEF RestartCalled, LoadConfig, At, SupInv, Steps
  <1>2. UNCHANGED <<runtime, bound, life, handlers, stores>> /\ ~exited
    BY Zenon DEF RestartCalled, LoadConfig, At
  <1>3. SupTypes'
    BY <1>1, <1>2, Zenon DEF SupInv, SupTypes
  <1>4. PhaseInv'
    BY <1>1, <1>2, ZenonT(60) DEF SupInv, PhaseInv, Phase
  <1>5. TargetInv' /\ HeldInv'
    BY <1>1, <1>2, ZenonT(60) DEF SupInv, SupTypes, TargetInv, Target, HeldInv
  <1>6. BoundInv' /\ HandlerInv'
    BY <1>2, Zenon DEF SupInv, BoundInv, HandlerInv
  <1>7. NoOrphans'
    BY <1>1, <1>2, NoneLost, Zenon
  <1> QED
    BY <1>3, <1>4, <1>5, <1>6, <1>7, Zenon DEF SupInv

\* Restart and Stop take the runtime under the lock: it is up, and from then on a target.
LEMMA TakesKeepInv ==
  ASSUME SupInv, NEW p \in Callers, RestartTakes(p) \/ (StopTakes /\ p = Main)
  PROVE  SupInv'
  <1>1. /\ caller[p].step \in {"taking", "started"}
        /\ caller'[p].step = (IF caller[p].step = "started" THEN "ending"
                              ELSE IF runtime = NoRuntime THEN "building" ELSE "stopping")
        /\ caller'[p].target = runtime
        /\ caller' \in [Callers -> [step : Steps, target : Callers \cup {NoRuntime}]]
        /\ \A q \in Callers : q # p => caller'[q] = caller[q]
    BY GoesMoves, ZenonT(60) DEF RestartTakes, StopTakes, At, SupInv, SupTypes, Steps
  <1>2. runtime' = NoRuntime /\ UNCHANGED <<bound, life, handlers, stores, exited>> /\ ~exited
    BY Zenon DEF RestartTakes, StopTakes, At
  <1>3. SupTypes' /\ HeldInv'
    BY <1>1, <1>2, Zenon DEF SupInv, SupTypes, HeldInv
  <1>4. PhaseInv'
    BY <1>1, <1>2 DEF SupInv, PhaseInv, Phase
  <1>5. TargetInv'
    BY <1>1, <1>2, SupervisorAssumption, SMTT(60) DEF SupInv, SupTypes, TargetInv, Target, HeldInv
  <1>6. BoundInv' /\ HandlerInv'
    BY <1>2, Zenon DEF SupInv, BoundInv, HandlerInv
  <1>7. NoOrphans'
    <2> SUFFICES ASSUME NEW r \in Callers, life'[r] = "up"
                 PROVE  caller'[r].step = "publishing" \/ BeingStopped(r)'
      BY Zenon DEF NoOrphans
    <2>1. runtime = r \/ caller[r].step = "publishing" \/ BeingStopped(r)
      BY <1>2, Zenon DEF SupInv, NoOrphans
    <2>2. CASE runtime = r
      <3>1. caller'[p].step \in {"stopping", "ending"} /\ caller'[p].target = r
        BY <1>1, <2>2, SupervisorAssumption, Zenon
      <3> QED
        BY <1>2, <3>1, Zenon DEF BeingStopped
    <2>3. CASE caller[r].step = "publishing"
      BY <1>1, <2>3, Zenon
    <2>4. CASE BeingStopped(r)
      <3>1. PICK q \in Callers : caller[q].step \in {"stopping", "undoing", "ending"} /\ caller[q].target = r
        BY <2>4, Zenon DEF BeingStopped
      <3>2. q # p
        BY <1>1, <3>1, Zenon
      <3> QED
        BY <1>1, <1>2, <3>1, <3>2, Zenon DEF BeingStopped
    <2> QED
      BY <2>1, <2>2, <2>3, <2>4, Zenon
  <1> QED
    BY <1>3, <1>4, <1>5, <1>6, <1>7, Zenon DEF SupInv

\* Building a runtime, whether or not it succeeds.
LEMMA BuildKeepsInv ==
  ASSUME SupInv, NEW p \in Callers, NewRuntime(p) \/ NewRuntimeFails(p)
  PROVE  SupInv'
  <1>1. /\ caller[p].step = "building" /\ life[p] = "none"
        /\ caller'[p].target = NoRuntime
        /\ \/ caller'[p].step = "binding" /\ life' = [life EXCEPT ![p] = "built"] /\ stores'[p] = Stores
           \/ caller'[p].step = "failed" /\ life' = life
        /\ caller' \in [Callers -> [step : Steps, target : Callers \cup {NoRuntime}]]
        /\ \A q \in Callers : q # p => caller'[q] = caller[q]
    BY GoesMoves, ZenonT(60) DEF NewRuntime, NewRuntimeFails, At, Becomes, SupInv, SupTypes, PhaseInv, Phase, Steps
  <1>2. /\ stores' \in [Callers -> SUBSET Stores]
        /\ \A q \in Callers : q # p => stores'[q] = stores[q]
    BY DEF NewRuntime, NewRuntimeFails, SupInv, SupTypes, Stores
  <1>3. UNCHANGED <<runtime, bound, handlers>> /\ ~exited
    BY Zenon DEF NewRuntime, NewRuntimeFails, At
  <1>4. SupTypes'
    BY <1>1, <1>2, <1>3, Zenon DEF SupInv, SupTypes, Lives
  <1>5. PhaseInv'
    BY <1>1, <1>3, SMTT(60) DEF SupInv, SupTypes, PhaseInv, Phase
  <1>6. TargetInv'
    BY <1>1, <1>3, SMTT(60) DEF SupInv, SupTypes, TargetInv, Target
  <1>7. HeldInv' /\ BoundInv'
    BY <1>1, <1>3, ZenonT(60) DEF SupInv, SupTypes, HeldInv, BoundInv
  <1>8. HandlerInv'
    BY <1>1, <1>2, <1>3, Zenon DEF SupInv, SupTypes, HandlerInv
  <1>9. NoOrphans'
    <2>1. \A q \in Callers : life'[q] = "up" => life[q] = "up"
      BY <1>1, Zenon DEF SupInv, SupTypes
    <2> QED
      BY <1>1, <1>3, <2>1, NoneLost, Zenon
  <1> QED
    BY <1>4, <1>5, <1>6, <1>7, <1>8, <1>9, Zenon DEF SupInv

\* ControlServer.Start binds an address that nobody holds.
LEMMA ControlKeepsInv ==
  ASSUME SupInv, NEW p \in Callers, StartControl(p)
  PROVE  SupInv'
  <1>1. caller[p].step = "binding" /\ life[p] = "built" /\ ~exited /\ UNCHANGED <<runtime, stores, exited>>
    BY Zenon DEF StartControl, At, SupInv, PhaseInv, Phase
  <1>2. CASE Taken("control")
    <2>1. /\ caller'[p].step = "undoing" /\ caller'[p].target = p /\ UNCHANGED <<bound, life, handlers>>
          /\ caller' \in [Callers -> [step : Steps, target : Callers \cup {NoRuntime}]]
          /\ \A q \in Callers : q # p => caller'[q] = caller[q]
      BY <1>2, GoesMoves, Zenon DEF StartControl, SupInv, Steps
    <2>2. SupTypes' /\ BoundInv' /\ HandlerInv'
      BY <1>1, <2>1, Zenon DEF SupInv, SupTypes, BoundInv, HandlerInv
    <2>3. PhaseInv'
      BY <1>1, <2>1, ZenonT(60) DEF SupInv, PhaseInv, Phase
    <2>4. TargetInv' /\ HeldInv'
      BY <1>1, <2>1, SMTT(60) DEF SupInv, SupTypes, TargetInv, Target, HeldInv
    <2>5. NoOrphans'
      BY <1>1, <2>1, NoneLost, Zenon
    <2> QED
      BY <2>2, <2>3, <2>4, <2>5, Zenon DEF SupInv
  <1>3. CASE ~Taken("control")
    <2>1. /\ caller'[p].step = "listening" /\ caller'[p].target = NoRuntime
          /\ caller' \in [Callers -> [step : Steps, target : Callers \cup {NoRuntime}]]
          /\ \A q \in Callers : q # p => caller'[q] = caller[q]
      BY <1>3, GoesMoves, Zenon DEF StartControl, SupInv, Steps
    <2>2. /\ life' = [life EXCEPT ![p] = "control"] /\ bound' = [bound EXCEPT ![p] = {"control"}]
          /\ handlers' = [handlers EXCEPT ![p] = 1] /\ \A r \in Callers : "control" \notin bound[r]
      BY <1>3, Zenon DEF StartControl, Becomes, Taken
    <2>3. SupTypes'
      BY <1>1, <2>1, <2>2, Zenon DEF SupInv, SupTypes, Lives, Addresses
    <2>4. PhaseInv'
      BY <1>1, <2>1, <2>2, ZenonT(60) DEF SupInv, SupTypes, PhaseInv, Phase
    <2>5. TargetInv' /\ HeldInv'
      BY <1>1, <2>1, <2>2, ZenonT(60) DEF SupInv, SupTypes, TargetInv, Target, HeldInv
    <2>6. BoundInv'
      BY <1>1, <2>2, Zenon DEF SupInv, SupTypes, BoundInv
    <2>7. HandlerInv'
      BY <1>1, <2>2, Zenon DEF SupInv, SupTypes, HandlerInv
    <2>8. NoOrphans'
      <3>1. \A q \in Callers : life'[q] = "up" => life[q] = "up" \/ (q = p /\ caller'[p].step = "publishing")
        BY <2>1, <2>2, Zenon DEF SupInv, SupTypes
      <3> QED
        BY <1>1, <2>1, <3>1, NoneLost, Zenon
    <2> QED
      BY <2>3, <2>4, <2>5, <2>6, <2>7, <2>8, Zenon DEF SupInv
  <1> QED
    BY <1>2, <1>3, Zenon

\* startListeners adds the listeners to the address the runtime already holds.
LEMMA ListenersKeepInv ==
  ASSUME SupInv, NEW p \in Callers, StartListeners(p)
  PROVE  SupInv'
  <1>1. caller[p].step = "listening" /\ life[p] = "control" /\ ~exited /\ UNCHANGED <<runtime, handlers, stores, exited>>
    BY Zenon DEF StartListeners, At, SupInv, PhaseInv, Phase
  <1>2. CASE Taken("listeners")
    <2>1. /\ caller'[p].step = "undoing" /\ caller'[p].target = p /\ UNCHANGED <<bound, life>>
          /\ caller' \in [Callers -> [step : Steps, target : Callers \cup {NoRuntime}]]
          /\ \A q \in Callers : q # p => caller'[q] = caller[q]
      BY <1>2, GoesMoves, Zenon DEF StartListeners, SupInv, Steps
    <2>2. SupTypes' /\ BoundInv' /\ HandlerInv'
      BY <1>1, <2>1, Zenon DEF SupInv, SupTypes, BoundInv, HandlerInv
    <2>3. PhaseInv'
      BY <1>1, <2>1, ZenonT(60) DEF SupInv, PhaseInv, Phase
    <2>4. TargetInv' /\ HeldInv'
      BY <1>1, <2>1, ZenonT(60) DEF SupInv, SupTypes, TargetInv, Target, HeldInv
    <2>5. NoOrphans'
      BY <1>1, <2>1, NoneLost, Zenon
    <2> QED
      BY <2>2, <2>3, <2>4, <2>5, Zenon DEF SupInv
  <1>3. CASE ~Taken("listeners")
    <2>1. /\ caller'[p].step = "publishing" /\ caller'[p].target = NoRuntime
          /\ caller' \in [Callers -> [step : Steps, target : Callers \cup {NoRuntime}]]
          /\ \A q \in Callers : q # p => caller'[q] = caller[q]
      BY <1>3, GoesMoves, Zenon DEF StartListeners, SupInv, Steps
    <2>2. life' = [life EXCEPT ![p] = "up"] /\ bound' = [bound EXCEPT ![p] = Addresses]
      BY <1>3, Zenon DEF StartListeners, Becomes
    <2>3. SupTypes'
      BY <1>1, <2>1, <2>2, Zenon DEF SupInv, SupTypes, Lives, Addresses
    <2>4. PhaseInv'
      BY <1>1, <2>1, <2>2, ZenonT(60) DEF SupInv, SupTypes, PhaseInv, Phase
    <2>5. TargetInv' /\ HeldInv'
      BY <1>1, <2>1, <2>2, ZenonT(60) DEF SupInv, SupTypes, TargetInv, Target, HeldInv
    <2>6. BoundInv'
      BY <1>1, <2>2, Zenon DEF SupInv, SupTypes, BoundInv, Addresses
    <2>7. HandlerInv'
      BY <1>1, <2>2, Zenon DEF SupInv, SupTypes, HandlerInv
    <2>8. NoOrphans'
      <3>1. \A q \in Callers : life'[q] = "up" => life[q] = "up" \/ (q = p /\ caller'[p].step = "publishing")
        BY <2>1, <2>2, Zenon DEF SupInv, SupTypes
      <3> QED
        BY <1>1, <2>1, <3>1, NoneLost, Zenon
    <2> QED
      BY <2>3, <2>4, <2>5, <2>6, <2>7, <2>8, Zenon DEF SupInv
  <1> QED
    BY <1>2, <1>3, Zenon

\* The one who publishes holds the control address, so that no other runtime is up and held.
LEMMA PublishKeepsInv ==
  ASSUME SupInv, NEW p \in Callers, PublishRuntime(p)
  PROVE  SupInv'
  <1>1. /\ caller[p].step = "publishing" /\ life[p] = "up" /\ "control" \in bound[p] /\ ~exited
        /\ runtime' = p /\ UNCHANGED <<bound, life, handlers, stores, exited>>
    BY Zenon DEF PublishRuntime, At, SupInv, PhaseInv, Phase, BoundInv
  <1>2. /\ caller'[p].step = "started" /\ caller'[p].target = NoRuntime
        /\ caller' \in [Callers -> [step : Steps, target : Callers \cup {NoRuntime}]]
        /\ \A q \in Callers : q # p => caller'[q] = caller[q]
    BY GoesMoves, Zenon DEF PublishRuntime, SupInv, Steps
  <1>3. SupTypes' /\ BoundInv' /\ HandlerInv'
    BY <1>1, <1>2, Zenon DEF SupInv, SupTypes, BoundInv, HandlerInv
  <1>4. PhaseInv' /\ HeldInv'
    BY <1>1, <1>2, ZenonT(60) DEF SupInv, PhaseInv, Phase, HeldInv
  <1>5. TargetInv'
    BY <1>1, <1>2 DEF SupInv, SupTypes, TargetInv, Target
  <1>6. \A r \in Callers : life[r] = "up" => r = p
    BY <1>1, Zenon DEF SupInv, BoundInv
  <1>7. NoOrphans'
    BY <1>1, <1>6, Zenon DEF NoOrphans
  <1> QED
    BY <1>3, <1>4, <1>5, <1>7, Zenon DEF SupInv

\* A call of stop that returns leaves its runtime stopped.
LEMMA StopReturnedKeepsInv ==
  ASSUME SupInv, NEW p \in Callers, StopReturned(p)
  PROVE  SupInv'
  <1>1. /\ caller[p].step \in {"stopping", "undoing", "ending"} /\ ~exited
        /\ caller[p].target # NoRuntime => life[caller[p].target] = "stopped"
        /\ UNCHANGED <<runtime, bound, life, handlers, stores>>
    BY Zenon DEF StopReturned
  <1>2. CASE caller[p].step = "ending"
    <2>1. caller' = caller /\ exited' = TRUE
      BY <1>2, Zenon DEF StopReturned
    <2>2. SupTypes' /\ PhaseInv' /\ TargetInv' /\ HeldInv' /\ BoundInv' /\ HandlerInv'
      BY <1>1, <2>1, ZenonT(60) DEF SupInv, SupTypes, PhaseInv, Phase, TargetInv, Target, HeldInv, BoundInv, HandlerInv
    <2>3. NoOrphans'
      BY <2>1, Zenon DEF NoOrphans
    <2> QED
      BY <2>2, <2>3, Zenon DEF SupInv
  <1>3. CASE caller[p].step \in {"stopping", "undoing"}
    <2>1. /\ caller'[p].step = (IF caller[p].step = "stopping" THEN "building" ELSE "failed")
          /\ caller'[p].target = NoRuntime
          /\ caller' \in [Callers -> [step : Steps, target : Callers \cup {NoRuntime}]]
          /\ \A q \in Callers : q # p => caller'[q] = caller[q]
      BY <1>3, GoesMoves, ZenonT(60) DEF StopReturned, SupInv, Steps
    <2>2. SupTypes' /\ BoundInv' /\ HandlerInv'
      BY <1>1, <2>1, Zenon DEF SupInv, SupTypes, BoundInv, HandlerInv
    <2>3. PhaseInv'
      BY <1>1, <1>3, <2>1, SupervisorAssumption DEF SupInv, PhaseInv, Phase
    <2>4. TargetInv' /\ HeldInv'
      BY <1>1, <1>3, <2>1 DEF SupInv, SupTypes, TargetInv, Target, HeldInv
    <2>5. NoOrphans'
      <3> SUFFICES ASSUME NEW r \in Callers, life'[r] = "up", ~exited'
                   PROVE  runtime' = r \/ caller'[r].step = "publishing" \/ BeingStopped(r)'
        BY Zenon DEF NoOrphans
      <3>1. runtime = r \/ caller[r].step = "publishing" \/ BeingStopped(r)
        BY <1>1, Zenon DEF SupInv, NoOrphans
      <3>2. CASE BeingStopped(r)
        <4>1. PICK q \in Callers : caller[q].step \in {"stopping", "undoing", "ending"} /\ caller[q].target = r
          BY <3>2, Zenon DEF BeingStopped
        <4>2. q # p
          BY <1>1, <4>1, SupervisorAssumption, Zenon
        <4> QED
          BY <2>1, <4>1, <4>2, Zenon DEF BeingStopped
      <3>3. CASE runtime = r \/ caller[r].step = "publishing"
        BY <1>1, <1>3, <2>1, <3>3, Zenon
      <3> QED
        BY <3>1, <3>2, <3>3, Zenon
    <2> QED
      BY <2>2, <2>3, <2>4, <2>5, Zenon DEF SupInv
  <1> QED
    BY <1>1, <1>2, <1>3, Zenon

\* A runtime that some caller stops is not the one held.
LEMMA StoppedIsNotHeld ==
  ASSUME SupInv, NEW r \in Callers, BeingStopped(r)
  PROVE  runtime # r /\ caller[r].step \in {"undoing", "started", "ending"}
  <1>1. PICK q \in Callers : caller[q].step \in {"stopping", "undoing", "ending"} /\ caller[q].target = r
    BY Zenon DEF BeingStopped
  <1>2. CASE caller[q].step = "undoing"
    <2>1. q = r
      BY <1>1, <1>2, Zenon DEF SupInv, PhaseInv, Phase
    <2> QED
      BY <1>2, <2>1, SupervisorAssumption, Zenon DEF SupInv, HeldInv
  <1>3. CASE caller[q].step \in {"stopping", "ending"}
    BY <1>1, <1>3, SupervisorAssumption, Zenon DEF SupInv, TargetInv, Target
  <1> QED
    BY <1>1, <1>2, <1>3, Zenon

\* The stages of Runtime.stop.
Stopped == {"cancelled", "deaf", "closed", "quiet", "drained", "stopped"}

\* A step of Runtime.stop keeps what speaks of callers and of the held runtime.
LEMMA StopStageKeeps ==
  ASSUME SupInv, NEW r \in Callers, BeingStopped(r), NEW to \in Stopped,
         life' = [life EXCEPT ![r] = to], UNCHANGED <<runtime, caller, exited>>
  PROVE  /\ life' \in [Callers -> Lives]
         /\ PhaseInv' /\ TargetInv' /\ HeldInv' /\ NoOrphans'
  <1>1. runtime # r /\ caller[r].step \in {"undoing", "started", "ending"}
    BY StoppedIsNotHeld, Zenon
  <1>2. life' \in [Callers -> Lives]
    BY Zenon DEF SupInv, SupTypes, Lives, Stopped
  <1>3. PhaseInv'
    BY <1>1, ZenonT(60) DEF SupInv, SupTypes, PhaseInv, Phase, Stopped
  <1>4. TargetInv' /\ HeldInv'
    BY <1>1, Zenon DEF SupInv, SupTypes, TargetInv, Target, HeldInv
  <1>5. NoOrphans'
    <2>1. \A q \in Callers : BeingStopped(q)' <=> BeingStopped(q)
      BY Zenon DEF BeingStopped
    <2>2. \A q \in Callers : life'[q] = "up" => life[q] = "up"
      BY Zenon DEF SupInv, SupTypes, Stopped
    <2> QED
      BY <2>1, <2>2, Zenon DEF SupInv, NoOrphans
  <1> QED
    BY <1>2, <1>3, <1>4, <1>5, Zenon

\* Runtime.stop releases the addresses, waits for the handlers, and closes the stores, in turn.
LEMMA StopsKeepInv ==
  ASSUME SupInv, NEW r \in Callers, RuntimeStops(r)
  PROVE  SupInv'
  <1>1. CASE CancelRuntime(r)
    <2>1. /\ life' \in [Callers -> Lives]
          /\ PhaseInv' /\ TargetInv' /\ HeldInv' /\ NoOrphans'
      BY <1>1, StopStageKeeps, Zenon DEF CancelRuntime, StopStep, Becomes, Stopped
    <2>2. SupTypes'
      BY <1>1, <2>1, Zenon DEF CancelRuntime, SupInv, SupTypes
    <2>3. BoundInv' /\ HandlerInv'
      BY <1>1, ZenonT(60) DEF CancelRuntime, StopStep, Becomes, SupInv, SupTypes, BoundInv, HandlerInv
    <2> QED
      BY <2>1, <2>2, <2>3, Zenon DEF SupInv
  <1>2. CASE ShutControl(r)
    <2>1. /\ life' \in [Callers -> Lives]
          /\ PhaseInv' /\ TargetInv' /\ HeldInv' /\ NoOrphans'
      BY <1>2, StopStageKeeps, Zenon DEF ShutControl, StopStep, Becomes, Stopped
    <2>2. SupTypes'
      BY <1>2, <2>1, Zenon DEF ShutControl, SupInv, SupTypes
    <2>3. BoundInv' /\ HandlerInv'
      BY <1>2, ZenonT(60) DEF ShutControl, StopStep, Becomes, SupInv, SupTypes, BoundInv, HandlerInv
    <2> QED
      BY <2>1, <2>2, <2>3, Zenon DEF SupInv
  <1>3. CASE CloseListeners(r)
    <2>1. /\ life' \in [Callers -> Lives]
          /\ PhaseInv' /\ TargetInv' /\ HeldInv' /\ NoOrphans'
      BY <1>3, StopStageKeeps, Zenon DEF CloseListeners, StopStep, Becomes, Stopped
    <2>2. SupTypes'
      BY <1>3, <2>1, Zenon DEF CloseListeners, SupInv, SupTypes
    <2>3. BoundInv' /\ HandlerInv'
      BY <1>3, ZenonT(60) DEF CloseListeners, StopStep, Becomes, SupInv, SupTypes, BoundInv, HandlerInv
    <2> QED
      BY <2>1, <2>2, <2>3, Zenon DEF SupInv
  <1>4. CASE WaitHandlers(r) \/ DrainObservers(r)
    <2>1. /\ life' \in [Callers -> Lives]
          /\ PhaseInv' /\ TargetInv' /\ HeldInv' /\ NoOrphans'
      BY <1>4, StopStageKeeps, Zenon DEF WaitHandlers, DrainObservers, StopStep, Becomes, Stopped
    <2>2. SupTypes'
      BY <1>4, <2>1, Zenon DEF WaitHandlers, DrainObservers, SupInv, SupTypes
    <2>3. BoundInv'
      BY <1>4, ZenonT(60) DEF WaitHandlers, DrainObservers, StopStep, Becomes, SupInv, SupTypes, BoundInv
    <2>4. HandlerInv'
      BY <1>4 DEF WaitHandlers, DrainObservers, StopStep, Becomes, SupInv, SupTypes, HandlerInv
    <2> QED
      BY <2>1, <2>2, <2>3, <2>4, Zenon DEF SupInv
  <1>5. CASE CloseStores(r)
    <2>1. /\ life' \in [Callers -> Lives]
          /\ PhaseInv' /\ TargetInv' /\ HeldInv' /\ NoOrphans'
      BY <1>5, StopStageKeeps, Zenon DEF CloseStores, StopStep, Becomes, Stopped
    <2>2. SupTypes'
      BY <1>5, <2>1, Zenon DEF CloseStores, SupInv, SupTypes
    <2>3. BoundInv' /\ HandlerInv'
      BY <1>5, Zenon DEF CloseStores, StopStep, Becomes, SupInv, SupTypes, BoundInv, HandlerInv
    <2> QED
      BY <2>1, <2>2, <2>3, Zenon DEF SupInv
  <1> QED
    BY <1>1, <1>2, <1>3, <1>4, <1>5, Zenon DEF RuntimeStops

\* A handler starts only behind a bound listener.
LEMMA HandlersKeepInv ==
  ASSUME SupInv, NEW r \in Callers, HandlerStarts(r) \/ HandlerEnds(r)
  PROVE  SupInv'
  <1>1. UNCHANGED <<runtime, caller, bound, life, stores, exited>>
    BY Zenon DEF HandlerStarts, HandlerEnds
  <1>2. PhaseInv' /\ TargetInv' /\ HeldInv' /\ BoundInv' /\ NoOrphans'
    BY <1>1, SMTT(60) DEF SupInv, PhaseInv, Phase, TargetInv, Target, HeldInv, BoundInv, NoOrphans, BeingStopped
  <1>3. CASE HandlerStarts(r)
    <2>1. SupTypes'
      BY <1>1, <1>3 DEF HandlerStarts, SupInv, SupTypes
    <2>2. HandlerInv'
      BY <1>1, <1>3, Zenon DEF HandlerStarts, SupInv, SupTypes, HandlerInv, BoundInv
    <2> QED
      BY <1>2, <2>1, <2>2, Zenon DEF SupInv
  <1>4. CASE HandlerEnds(r)
    <2>1. handlers[r] \in Nat /\ handlers[r] > 0 /\ handlers' = [handlers EXCEPT ![r] = @ - 1]
      BY <1>4 DEF HandlerEnds, SupInv, SupTypes
    <2>2. SupTypes'
      BY <1>1, <2>1 DEF SupInv, SupTypes
    <2>3. HandlerInv'
      BY <1>1, <2>1, Zenon DEF SupInv, SupTypes, HandlerInv
    <2> QED
      BY <1>2, <2>2, <2>3, Zenon DEF SupInv
  <1> QED
    BY <1>3, <1>4, Zenon

\* Every step keeps the invariant.
LEMMA SupStepInv == SupInv /\ [SupervisorNext]_supervisorVars => SupInv'
  <1> SUFFICES ASSUME SupInv, [SupervisorNext]_supervisorVars PROVE SupInv'
    OBVIOUS
  <1>1. CASE StopTakes
    BY <1>1, TakesKeepInv, Zenon DEF Callers
  <1>2. ASSUME NEW p \in Callers, RestartCalled(p) PROVE SupInv'
    BY <1>2, CallsKeepInv, Zenon
  <1>3. ASSUME NEW p \in Callers, CallerGoes(p) PROVE SupInv'
    BY <1>3, CallsKeepInv, TakesKeepInv, BuildKeepsInv, ControlKeepsInv, ListenersKeepInv, PublishKeepsInv,
       StopReturnedKeepsInv, Zenon DEF CallerGoes
  <1>4. ASSUME NEW r \in Callers, RuntimeStops(r) PROVE SupInv'
    BY <1>4, StopsKeepInv, Zenon
  <1>5. ASSUME NEW r \in Callers, HandlerStarts(r) \/ HandlerEnds(r) PROVE SupInv'
    BY <1>5, HandlersKeepInv, Zenon
  <1>6. CASE UNCHANGED supervisorVars
    BY <1>6, SMTT(60) DEF supervisorVars, SupInv, SupTypes, PhaseInv, Phase, TargetInv, Target, HeldInv, BoundInv,
                HandlerInv, NoOrphans, BeingStopped
  <1> QED
    BY <1>1, <1>2, <1>3, <1>4, <1>5, <1>6, Zenon DEF SupervisorNext

\* For any number of overlapping restarts, the runtime the supervisor holds is up.
THEOREM HeldIsUpAlways == SupervisorSpec => []HeldIsUp
  <1>1. SupInv => HeldIsUp
    BY Zenon DEF SupInv, HeldInv, HeldIsUp
  <1> QED
    BY <1>1, SupInitInv, SupStepInv, PTL DEF SupervisorSpec

\* For any number of overlapping restarts, no runtime that is up is lost.
THEOREM NoOrphansAlways == SupervisorSpec => []NoOrphans
  <1>1. SupInv => NoOrphans
    BY Zenon DEF SupInv
  <1> QED
    BY <1>1, SupInitInv, SupStepInv, PTL DEF SupervisorSpec

\* For any number of runtimes and handlers, a handler finds its observers and stores open.
THEOREM HandlersFindObserversAlways == SupervisorSpec => []HandlersFindObservers
  <1>1. SupInv => HandlersFindObservers
    BY Zenon DEF SupInv, HandlerInv, HandlersFindObservers
  <1> QED
    BY <1>1, SupInitInv, SupStepInv, PTL DEF SupervisorSpec

-----------------------------------------------------------------------------
\* Calls that no other one overlaps.

\* Two calls in flight at the same time are both known to overlap.
OverlapKnown == \A p, q \in Callers : p # q /\ CallInFlight(p) /\ CallInFlight(q) => p \in overlap

\* main does not restart, only main ends, and nobody calls Restart before main has bound the
\* control address.
MainFirst ==
    /\ caller[Main].step \notin {"taking", "stopping"}
    /\ \A q \in Restarts : caller[q].step # "ending"
    /\ caller[Main].step \in {"loading", "building", "binding"} => \A q \in Restarts : caller[q].step = "idle"

\* A call that is alone holds no runtime back while it stops one and starts another.
LoneHoldsNone ==
    \A p \in Callers :
        p \notin overlap /\ caller[p].step \in {"stopping", "building", "binding", "listening", "publishing",
                                              "undoing", "ending"}
            => runtime = NoRuntime

\* Every runtime that has been built and not stopped is in somebody's hands.
InHands(r) ==
    runtime = r \/ caller[r].step \in {"binding", "listening", "publishing"} \/ BeingStopped(r) \/ exited

Accounted == \A r \in Callers : life[r] \notin {"none", "stopped"} => InHands(r)

ControlHeld == \A r \in Callers : "control" \in bound[r] => life[r] \in {"control", "up", "cancelled"}

CallsInv == OverlapKnown /\ MainFirst /\ LoneHoldsNone /\ Accounted /\ ControlHeld /\ LoneStartBinds /\ QuietExitIsClean

\* Where a call that starts, stops or publishes a runtime is.
Swapping == {"stopping", "building", "binding", "listening", "publishing", "undoing", "ending"}

\* A move of p that takes no runtime out of anybody's hands keeps all accounted for.
LEMMA HandsKept ==
  ASSUME SupTypes, Accounted, NEW p \in Callers, ~exited, caller[p].step \notin {"stopping", "undoing", "ending"},
         \A q \in Callers : q # p => caller'[q] = caller[q],
         \A q \in Callers : q # p => life'[q] = life[q],
         \/ runtime \in {NoRuntime, p, runtime'}
         \/ caller'[p].step \in {"stopping", "ending"} /\ caller'[p].target = runtime,
         life'[p] \notin {"none", "stopped"} => InHands(p)'
  PROVE  Accounted'
  <1> SUFFICES ASSUME NEW r \in Callers, r # p, life'[r] \notin {"none", "stopped"}, ~exited' PROVE InHands(r)'
    BY Zenon DEF Accounted, InHands
  <1>1. runtime = r \/ caller[r].step \in {"binding", "listening", "publishing"} \/ BeingStopped(r)
    BY Zenon DEF Accounted, InHands
  <1>2. CASE BeingStopped(r)
    <2>1. PICK q \in Callers : caller[q].step \in {"stopping", "undoing", "ending"} /\ caller[q].target = r
      BY <1>2, Zenon DEF BeingStopped
    <2>2. q # p /\ caller'[q] = caller[q]
      BY <2>1, Zenon
    <2> QED
      BY <2>1, <2>2, Zenon DEF InHands, BeingStopped
  <1>3. CASE runtime = r
    <2>1. runtime' = r \/ (caller'[p].step \in {"stopping", "ending"} /\ caller'[p].target = r)
      BY <1>3, SupervisorAssumption, Zenon
    <2> QED
      BY <2>1, Zenon DEF InHands, BeingStopped
  <1>4. CASE caller[r].step \in {"binding", "listening", "publishing"}
    BY <1>4, Zenon DEF InHands
  <1> QED
    BY <1>1, <1>2, <1>3, <1>4, Zenon

\* A move that begins no call reveals no new overlap.
LEMMA OverlapKept ==
  ASSUME OverlapKnown, overlap' = overlap, \A q \in Callers : CallInFlight(q)' => CallInFlight(q)
  PROVE  OverlapKnown'
  BY Zenon DEF OverlapKnown

\* While a call is alone, whatever is not stopped is its own.
LEMMA AloneHolds ==
  ASSUME SupInv, CallsInv, NEW p \in Callers, p \notin overlap, ~exited, caller[p].step \in Swapping,
         NEW r \in Callers, life[r] \notin {"none", "stopped"}
  PROVE  \/ r = p /\ caller[p].step \in {"binding", "listening", "publishing"}
         \/ caller[p].step \in {"stopping", "undoing", "ending"} /\ caller[p].target = r
  <1>1. CallInFlight(p) /\ \A q \in Callers : CallInFlight(q) => q = p
    BY Zenon DEF CallsInv, OverlapKnown, CallInFlight, Swapping
  <1>2. runtime # r
    BY SupervisorAssumption, Zenon DEF CallsInv, LoneHoldsNone, Swapping
  <1>3. caller[r].step \in {"binding", "listening", "publishing"} \/ BeingStopped(r)
    BY <1>2, Zenon DEF CallsInv, Accounted, InHands
  <1>4. CASE caller[r].step \in {"binding", "listening", "publishing"}
    BY <1>1, <1>4, Zenon DEF CallInFlight
  <1>5. CASE BeingStopped(r)
    <2>1. PICK q \in Callers : caller[q].step \in {"stopping", "undoing", "ending"} /\ caller[q].target = r
      BY <1>5, Zenon DEF BeingStopped
    <2> QED
      BY <1>1, <2>1, Zenon DEF CallInFlight
  <1> QED
    BY <1>3, <1>4, <1>5, Zenon

\* The addresses that are taken are held by runtimes that are not stopped.
LEMMA TakenIsHeld ==
  ASSUME SupInv, CallsInv, NEW a \in Addresses, Taken(a)
  PROVE  \E r \in Callers : a \in bound[r] /\ life[r] \in {"control", "up", "cancelled", "deaf"}
                            /\ (a = "listeners" => life[r] # "control")
  BY ZenonT(60) DEF Taken, SupInv, BoundInv, CallsInv, ControlHeld, Addresses

\* Nobody has a runtime before main has loaded its configuration and built one.
LEMMA MainIsFirst ==
  ASSUME SupInv, CallsInv, caller[Main].step \in {"loading", "building", "binding"}
  PROVE  runtime = NoRuntime /\ \A r \in Callers : r # Main => life[r] = "none"
  <1>1. \A q \in Restarts : caller[q].step = "idle"
    BY Zenon DEF CallsInv, MainFirst
  <1>2. \A r \in Callers : r # Main => caller[r].step = "idle" /\ life[r] = "none"
    BY <1>1, Zenon DEF Callers, SupInv, PhaseInv, Phase
  <1>3. runtime = NoRuntime
    BY <1>2, Zenon DEF SupInv, SupTypes, HeldInv
  <1> QED
    BY <1>2, <1>3, Zenon

\* The first call of all is main's.
LEMMA CallsInitInv == SupervisorInit => CallsInv
  <1> SUFFICES ASSUME SupervisorInit PROVE CallsInv
    OBVIOUS
  <1>1. \A p \in Callers : caller[p].step = (IF p = Main THEN "loading" ELSE "idle") /\ life[p] = "none" /\ bound[p] = {}
    BY Zenon DEF SupervisorInit
  <1>2. OverlapKnown /\ MainFirst /\ LoneHoldsNone
    BY <1>1, SupervisorAssumption, Zenon DEF OverlapKnown, MainFirst, LoneHoldsNone, CallInFlight, Callers, SupervisorInit
  <1>3. Accounted /\ ControlHeld /\ LoneStartBinds /\ QuietExitIsClean
    BY <1>1, Zenon DEF Accounted, ControlHeld, LoneStartBinds, QuietExitIsClean
  <1> QED
    BY <1>2, <1>3, Zenon DEF CallsInv

\* A call that begins finds out whom it overlaps.
LEMMA CallBegins ==
  ASSUME SupInv, CallsInv, NEW p \in Callers, ~CallInFlight(p), overlap' = overlap \cup CallsOverlapping(p),
         \A q \in Callers : q # p => caller'[q] = caller[q]
  PROVE  OverlapKnown'
  <1> SUFFICES ASSUME NEW q \in Callers, NEW r \in Callers, q # r, CallInFlight(q)', CallInFlight(r)'
               PROVE  q \in overlap'
    BY Zenon DEF OverlapKnown
  <1>1. \A s \in Callers : s # p => (CallInFlight(s)' <=> CallInFlight(s))
    BY Zenon DEF CallInFlight
  <1>2. CASE q # p /\ r # p
    BY <1>1, <1>2, Zenon DEF CallsInv, OverlapKnown
  <1>3. CASE q = p \/ r = p
    <2>1. PICK s \in {q, r} : s # p /\ CallInFlight(s)
      BY <1>1, <1>3, Zenon
    <2> QED
      BY <1>1, <1>3, <2>1 DEF CallsOverlapping
  <1> QED
    BY <1>2, <1>3, Zenon

\* Restart is called: a bound control server says that main is past binding.
LEMMA RestartCalledKeeps ==
  ASSUME SupInv, CallsInv, NEW p \in Callers, RestartCalled(p)
  PROVE  CallsInv'
  <1>1. /\ p \in Restarts /\ caller[p].step = "idle" /\ ~exited /\ Taken("control")
        /\ overlap' = overlap \cup CallsOverlapping(p) /\ UNCHANGED <<runtime, bound, life, exited>>
    BY Zenon DEF RestartCalled, At
  <1>2. caller'[p].step = "loading" /\ \A q \in Callers : q # p => caller'[q] = caller[q]
    BY GoesMoves, Zenon DEF RestartCalled, SupInv, Steps
  <1>3. OverlapKnown'
    BY <1>1, <1>2, CallBegins, Zenon DEF CallInFlight
  <1>4. caller[Main].step \notin {"loading", "building", "binding"} /\ Main # p
    <2>1. PICK r \in Callers : life[r] \in {"control", "up", "cancelled", "deaf"}
      BY <1>1, TakenIsHeld, Zenon DEF Addresses
    <2>2. caller[Main].step \in {"loading", "building", "binding"} => life[Main] \in {"none", "built"}
      BY Zenon DEF SupInv, PhaseInv, Phase, Callers
    <2> QED
      BY <1>1, <2>1, <2>2, MainIsFirst, SupervisorAssumption, Zenon
  <1>5. MainFirst'
    BY <1>2, <1>4, Zenon DEF CallsInv, MainFirst, Callers
  <1>6. LoneHoldsNone' /\ LoneStartBinds'
    BY <1>1, <1>2, Zenon DEF CallsInv, LoneHoldsNone, LoneStartBinds
  <1>7. Accounted'
    <2>1. life'[p] = "none" /\ \A q \in Callers : life'[q] = life[q]
      BY <1>1, Zenon DEF SupInv, PhaseInv, Phase
    <2> QED
      BY <1>1, <1>2, <2>1, HandsKept, Zenon DEF SupInv, CallsInv
  <1>8. ControlHeld' /\ QuietExitIsClean'
    BY <1>1, Zenon DEF CallsInv, ControlHeld, QuietExitIsClean
  <1> QED
    BY <1>3, <1>5, <1>6, <1>7, <1>8, Zenon DEF CallsInv

\* LoadConfig: main goes on to build while nobody has a runtime; when it fails, nothing was started.
LEMMA LoadConfigKeeps ==
  ASSUME SupInv, CallsInv, NEW p \in Callers, NEW valid \in BOOLEAN, LoadConfig(p, valid)
  PROVE  CallsInv'
  <1>1. /\ caller[p].step = "loading" /\ ~exited /\ life[p] = "none"
        /\ (exited' <=> ~valid /\ p = Main) /\ UNCHANGED <<runtime, bound, life, overlap>>
    BY ZenonT(60) DEF LoadConfig, At, SupInv, PhaseInv, Phase
  <1>2. /\ caller'[p].step = (IF ~valid THEN "failed" ELSE IF p = Main THEN "building" ELSE "taking")
        /\ \A q \in Callers : q # p => caller'[q] = caller[q]
    BY GoesMoves, Zenon DEF LoadConfig, SupInv, Steps
  <1>3. OverlapKnown'
    <2>1. \A q \in Callers : CallInFlight(q)' => CallInFlight(q)
      BY <1>1, <1>2, Zenon DEF CallInFlight
    <2> QED
      BY <1>1, <2>1, OverlapKept, Zenon DEF CallsInv
  <1>4. MainFirst' /\ LoneStartBinds'
    BY <1>1, <1>2, SupervisorAssumption, Zenon DEF CallsInv, MainFirst, LoneStartBinds, Callers
  <1>5. LoneHoldsNone'
    BY <1>1, <1>2, MainIsFirst, Zenon DEF CallsInv, LoneHoldsNone
  <1>6. Accounted'
    BY <1>1, <1>2, HandsKept, Zenon DEF SupInv, CallsInv
  <1>7. ControlHeld' /\ QuietExitIsClean'
    BY <1>1, MainIsFirst, Zenon DEF CallsInv, ControlHeld, QuietExitIsClean
  <1> QED
    BY <1>3, <1>4, <1>5, <1>6, <1>7, Zenon DEF CallsInv

\* Restart and Stop take the runtime: from then on the supervisor holds none.
LEMMA TakesKeepCalls ==
  ASSUME SupInv, CallsInv, NEW p \in Callers, RestartTakes(p) \/ (StopTakes /\ p = Main)
  PROVE  CallsInv'
  <1>1. /\ caller[p].step \in {"taking", "started"} /\ ~exited /\ runtime' = NoRuntime
        /\ UNCHANGED <<bound, life, exited>> /\ overlap \subseteq overlap'
    BY Zenon DEF RestartTakes, StopTakes, At
  <1>2. /\ caller'[p].step = (IF caller[p].step = "started" THEN "ending"
                              ELSE IF runtime = NoRuntime THEN "building" ELSE "stopping")
        /\ caller'[p].target = runtime
        /\ \A q \in Callers : q # p => caller'[q] = caller[q]
    BY GoesMoves, ZenonT(60) DEF RestartTakes, StopTakes, At, SupInv, SupTypes, Steps
  <1>3. OverlapKnown'
    <2>1. CASE RestartTakes(p)
      <3>1. overlap' = overlap /\ \A q \in Callers : CallInFlight(q)' => CallInFlight(q)
        BY <1>1, <1>2, <2>1, Zenon DEF RestartTakes, At, CallInFlight
      <3> QED
        BY <3>1, OverlapKept, Zenon DEF CallsInv
    <2>2. CASE StopTakes /\ p = Main
      BY <1>2, <2>2, CallBegins, Zenon DEF StopTakes, At, CallInFlight
    <2> QED
      BY <2>1, <2>2, Zenon
  <1>4. MainFirst'
    <2>1. (p = Main => caller[p].step = "started") /\ (p # Main => caller[p].step = "taking")
      BY <1>1, Zenon DEF CallsInv, MainFirst, RestartTakes, At
    <2>2. CASE p # Main
      BY <1>1, <1>2, <2>1, <2>2, Zenon DEF CallsInv, MainFirst, Callers
    <2>3. CASE p = Main
      BY <1>1, <1>2, <2>1, <2>3, SupervisorAssumption, Zenon DEF CallsInv, MainFirst, Callers
    <2> QED
      BY <2>2, <2>3, Zenon
  <1>5. LoneHoldsNone' /\ LoneStartBinds'
    BY <1>1, <1>2, Zenon DEF CallsInv, LoneHoldsNone, LoneStartBinds
  <1>6. Accounted'
    <2>1. life'[p] \notin {"none", "stopped"} => InHands(p)'
      <3>1. CASE caller[p].step = "taking"
        BY <1>1, <3>1, Zenon DEF SupInv, PhaseInv, Phase
      <3>2. CASE caller[p].step = "started" /\ runtime = p
        BY <1>1, <1>2, <3>2, Zenon DEF InHands, BeingStopped
      <3>3. CASE caller[p].step = "started" /\ runtime # p /\ life[p] \notin {"none", "stopped"}
        <4>1. PICK q \in Callers : caller[q].step \in {"stopping", "undoing", "ending"} /\ caller[q].target = p
          BY <1>1, <3>3, Zenon DEF CallsInv, Accounted, InHands, BeingStopped
        <4>2. q # p
          BY <3>3, <4>1, Zenon
        <4> QED
          BY <1>1, <1>2, <4>1, <4>2, Zenon DEF InHands, BeingStopped
      <3> QED
        BY <1>1, <3>1, <3>2, <3>3, Zenon
    <2>2. runtime = NoRuntime \/ (caller'[p].step \in {"stopping", "ending"} /\ caller'[p].target = runtime)
      BY <1>2, Zenon
    <2> QED
      BY <1>1, <1>2, <2>1, <2>2, HandsKept, Zenon DEF SupInv, CallsInv
  <1>7. ControlHeld' /\ QuietExitIsClean'
    BY <1>1, Zenon DEF CallsInv, ControlHeld, QuietExitIsClean
  <1> QED
    BY <1>3, <1>4, <1>5, <1>6, <1>7, Zenon DEF CallsInv

\* A runtime is built, or is not; when main fails to build one, nothing else was started.
LEMMA BuildKeepsCalls ==
  ASSUME SupInv, CallsInv, NEW p \in Callers, NewRuntime(p) \/ NewRuntimeFails(p)
  PROVE  CallsInv'
  <1>1. /\ caller[p].step = "building" /\ life[p] = "none" /\ ~exited
        /\ \/ caller'[p].step = "binding" /\ life' = [life EXCEPT ![p] = "built"] /\ ~exited'
           \/ caller'[p].step = "failed" /\ life' = life /\ (exited' <=> p = Main)
        /\ \A q \in Callers : q # p => caller'[q] = caller[q]
    <2>1. caller[p].step = "building" /\ life[p] = "none" /\ ~exited
      BY Zenon DEF NewRuntime, NewRuntimeFails, At, SupInv, PhaseInv, Phase
    <2>2. CASE NewRuntime(p)
      BY <2>1, <2>2, GoesMoves, Zenon DEF NewRuntime, Becomes, SupInv, Steps
    <2>3. CASE NewRuntimeFails(p)
      BY <2>1, <2>3, GoesMoves, ZenonT(60) DEF NewRuntimeFails, SupInv, Steps
    <2> QED
      BY <2>1, <2>2, <2>3, Zenon
  <1>2. UNCHANGED <<runtime, bound, overlap>>
    BY Zenon DEF NewRuntime, NewRuntimeFails
  <1>3. (\A q \in Callers : q # p => life'[q] = life[q]) /\ life'[p] \in {"none", "built"}
    BY <1>1, Zenon DEF SupInv, SupTypes
  <1>4. OverlapKnown'
    <2>1. \A q \in Callers : CallInFlight(q)' => CallInFlight(q)
      BY <1>1, Zenon DEF CallInFlight
    <2> QED
      BY <1>2, <2>1, OverlapKept, Zenon DEF CallsInv
  <1>5. MainFirst'
    BY <1>1, Zenon DEF CallsInv, MainFirst, Callers
  <1>6. LoneHoldsNone' /\ LoneStartBinds'
    BY <1>1, <1>2, Zenon DEF CallsInv, LoneHoldsNone, LoneStartBinds
  <1>7. Accounted'
    <2>1. life'[p] \notin {"none", "stopped"} => InHands(p)'
      BY <1>1, Zenon DEF InHands
    <2> QED
      BY <1>1, <1>2, <1>3, <2>1, HandsKept, Zenon DEF SupInv, CallsInv
  <1>8. ControlHeld'
    BY <1>1, <1>2, <1>3, Zenon DEF CallsInv, ControlHeld
  <1>9. QuietExitIsClean'
    BY <1>1, <1>3, MainIsFirst, Zenon DEF QuietExitIsClean
  <1> QED
    BY <1>4, <1>5, <1>6, <1>7, <1>8, <1>9, Zenon DEF CallsInv

\* A runtime binds its addresses: a start that is alone finds them free.
LEMMA StartKeepsCalls ==
  ASSUME SupInv, CallsInv, NEW p \in Callers, StartControl(p) \/ StartListeners(p)
  PROVE  CallsInv'
  <1>1. /\ ~exited /\ UNCHANGED <<runtime, exited, overlap>>
        /\ \/ caller[p].step = "binding" /\ life[p] = "built"
           \/ caller[p].step = "listening" /\ life[p] = "control"
    BY Zenon DEF StartControl, StartListeners, At, SupInv, PhaseInv, Phase
  <1>2. /\ caller'[p].step \in {"listening", "publishing", "undoing"}
        /\ \A q \in Callers : q # p => caller'[q] = caller[q]
        /\ caller'[p].step = "undoing" => caller'[p].target = p
    BY GoesMoves, Zenon DEF StartControl, StartListeners, SupInv, Steps
  <1>3. /\ \A q \in Callers : q # p => life'[q] = life[q] /\ bound'[q] = bound[q]
        /\ \/ life'[p] = life[p] /\ bound'[p] = bound[p]
           \/ life'[p] \in {"control", "up"}
    BY ZenonT(60) DEF StartControl, StartListeners, Becomes, SupInv, SupTypes
  <1>4. OverlapKnown'
    <2>1. \A q \in Callers : CallInFlight(q)' => CallInFlight(q)
      BY <1>1, <1>2, Zenon DEF CallInFlight
    <2> QED
      BY <1>1, <2>1, OverlapKept, Zenon DEF CallsInv
  <1>5. MainFirst'
    <2>1. CASE p = Main
      BY <1>2, <2>1, SupervisorAssumption, Zenon DEF CallsInv, MainFirst, Callers
    <2>2. CASE p # Main
      BY <1>1, <1>2, <2>2, Zenon DEF CallsInv, MainFirst, Callers
    <2> QED
      BY <2>1, <2>2, Zenon
  <1>6. LoneHoldsNone'
    BY <1>1, <1>2, Zenon DEF CallsInv, LoneHoldsNone
  <1>7. LoneStartBinds'
    <2>1. ASSUME caller'[p].step = "undoing", p \notin overlap PROVE FALSE
      <3>1. \/ caller[p].step = "binding" /\ Taken("control")
            \/ caller[p].step = "listening" /\ Taken("listeners")
        BY <2>1, GoesMoves, Zenon DEF StartControl, StartListeners, At, SupInv, Steps
      <3>2. PICK r \in Callers : /\ life[r] \in {"control", "up", "cancelled", "deaf"}
                                 /\ caller[p].step = "listening" => life[r] # "control"
        BY <3>1, TakenIsHeld, Zenon DEF Addresses
      <3>3. r = p
        BY <1>1, <2>1, <3>2, AloneHolds, Zenon DEF Swapping
      <3> QED
        BY <1>1, <3>2, <3>3, Zenon
    <2> QED
      BY <1>1, <1>2, <2>1, Zenon DEF CallsInv, LoneStartBinds
  <1>8. Accounted'
    <2>1. InHands(p)'
      BY <1>1, <1>2, Zenon DEF InHands, BeingStopped
    <2> QED
      BY <1>1, <1>2, <1>3, <2>1, HandsKept, Zenon DEF SupInv, CallsInv
  <1>9. ControlHeld' /\ QuietExitIsClean'
    BY <1>1, <1>3, Zenon DEF CallsInv, ControlHeld, QuietExitIsClean
  <1> QED
    BY <1>4, <1>5, <1>6, <1>7, <1>8, <1>9, Zenon DEF CallsInv

\* The supervisor gets the new runtime: whoever else is calling overlaps this call.
LEMMA PublishKeepsCalls ==
  ASSUME SupInv, CallsInv, NEW p \in Callers, PublishRuntime(p)
  PROVE  CallsInv'
  <1>1. /\ caller[p].step = "publishing" /\ life[p] = "up" /\ ~exited
        /\ runtime' = p /\ UNCHANGED <<bound, life, exited, overlap>>
    BY Zenon DEF PublishRuntime, At, SupInv, PhaseInv, Phase
  <1>2. caller'[p].step = "started" /\ \A q \in Callers : q # p => caller'[q] = caller[q]
    BY GoesMoves, Zenon DEF PublishRuntime, SupInv, Steps
  <1>3. OverlapKnown'
    <2>1. \A q \in Callers : CallInFlight(q)' => CallInFlight(q)
      BY <1>2, Zenon DEF CallInFlight
    <2> QED
      BY <1>1, <2>1, OverlapKept, Zenon DEF CallsInv
  <1>4. MainFirst' /\ LoneStartBinds'
    BY <1>1, <1>2, Zenon DEF CallsInv, MainFirst, LoneStartBinds, Callers
  <1>5. LoneHoldsNone'
    BY <1>1, <1>2, Zenon DEF CallsInv, OverlapKnown, LoneHoldsNone, CallInFlight
  <1>6. Accounted'
    <2>1. runtime \in {NoRuntime, p}
      BY <1>1, Zenon DEF SupInv, SupTypes, HeldInv, BoundInv
    <2>2. InHands(p)'
      BY <1>1, Zenon DEF InHands
    <2> QED
      BY <1>1, <1>2, <2>1, <2>2, HandsKept, Zenon DEF SupInv, CallsInv
  <1>7. ControlHeld' /\ QuietExitIsClean'
    BY <1>1, Zenon DEF CallsInv, ControlHeld, QuietExitIsClean
  <1> QED
    BY <1>3, <1>4, <1>5, <1>6, <1>7, Zenon DEF CallsInv

\* A stop returns: what it stopped is stopped, and when main's was alone nothing else is left.
LEMMA StopReturnedKeepsCalls ==
  ASSUME SupInv, CallsInv, NEW p \in Callers, StopReturned(p)
  PROVE  CallsInv'
  <1>1. /\ caller[p].step \in {"stopping", "undoing", "ending"} /\ ~exited
        /\ caller[p].target # NoRuntime => life[caller[p].target] = "stopped"
        /\ UNCHANGED <<runtime, bound, life, overlap>>
    BY Zenon DEF StopReturned
  <1>2. /\ \A q \in Callers : q # p => caller'[q] = caller[q]
        /\ \/ caller[p].step = "stopping" /\ caller'[p].step = "building" /\ ~exited'
           \/ caller[p].step = "undoing" /\ caller'[p].step = "failed" /\ (exited' <=> p = Main)
           \/ caller[p].step = "ending" /\ caller'[p] = caller[p] /\ exited'
    <2>1. CASE caller[p].step = "stopping"
      BY <1>1, <2>1, GoesMoves, Zenon DEF StopReturned, SupInv, Steps
    <2>2. CASE caller[p].step = "undoing"
      BY <1>1, <2>2, GoesMoves, ZenonT(60) DEF StopReturned, SupInv, Steps
    <2>3. CASE caller[p].step = "ending"
      BY <1>1, <2>3, Zenon DEF StopReturned
    <2> QED
      BY <1>1, <2>1, <2>2, <2>3, Zenon
  <1>3. OverlapKnown'
    <2>1. \A q \in Callers : CallInFlight(q)' => CallInFlight(q)
      BY <1>1, <1>2, Zenon DEF CallInFlight
    <2> QED
      BY <1>1, <2>1, OverlapKept, Zenon DEF CallsInv
  <1>4. MainFirst'
    <2>1. p = Main => caller[Main].step # "stopping"
      BY Zenon DEF CallsInv, MainFirst
    <2> QED
      BY <1>1, <1>2, <2>1, SMTT(60) DEF CallsInv, MainFirst, Callers
  <1>5. LoneHoldsNone' /\ LoneStartBinds' /\ ControlHeld'
    BY <1>1, <1>2, Zenon DEF CallsInv, LoneHoldsNone, LoneStartBinds, ControlHeld
  <1>6. Accounted'
    <2> SUFFICES ASSUME NEW r \in Callers, life[r] \notin {"none", "stopped"}, ~exited' PROVE InHands(r)'
      BY <1>1, Zenon DEF Accounted, InHands
    <2>1. runtime = r \/ caller[r].step \in {"binding", "listening", "publishing"} \/ BeingStopped(r)
      BY <1>1, Zenon DEF CallsInv, Accounted, InHands
    <2>2. CASE BeingStopped(r)
      <3>1. PICK q \in Callers : caller[q].step \in {"stopping", "undoing", "ending"} /\ caller[q].target = r
        BY <2>2, Zenon DEF BeingStopped
      <3>2. q # p
        BY <1>1, <3>1, SupervisorAssumption, Zenon
      <3> QED
        BY <1>2, <3>1, <3>2, Zenon DEF InHands, BeingStopped
    <2>3. CASE runtime = r \/ caller[r].step \in {"binding", "listening", "publishing"}
      BY <1>1, <1>2, <2>3, Zenon DEF InHands
    <2> QED
      BY <2>1, <2>2, <2>3, Zenon
  <1>7. QuietExitIsClean'
    <2> SUFFICES ASSUME exited', Main \notin overlap, NEW r \in Callers, life[r] \notin {"none", "stopped"} PROVE FALSE
      BY <1>1, Zenon DEF QuietExitIsClean
    <2>1. p = Main /\ caller[p].step = "ending"
      BY <1>1, <1>2, Zenon DEF CallsInv, MainFirst, LoneStartBinds, Callers
    <2>2. caller[p].target = r
      BY <1>1, <2>1, AloneHolds, Zenon DEF Swapping
    <2> QED
      BY <1>1, <2>2, SupervisorAssumption, Zenon
  <1> QED
    BY <1>3, <1>4, <1>5, <1>6, <1>7, Zenon DEF CallsInv

\* Runtime.stop moves a runtime that stays in its caller's hands until it is stopped.
LEMMA StopsKeepCalls ==
  ASSUME SupInv, CallsInv, NEW r \in Callers, RuntimeStops(r)
  PROVE  CallsInv'
  <1>1. /\ BeingStopped(r) /\ ~exited /\ UNCHANGED <<runtime, caller, exited, overlap>>
        /\ \A q \in Callers : q # r => life'[q] = life[q] /\ bound'[q] = bound[q]
    BY Zenon DEF RuntimeStops, CancelRuntime, ShutControl, CloseListeners, WaitHandlers, DrainObservers, CloseStores,
             StopStep, BeingStopped, Becomes, SupInv, SupTypes
  <1>2. "control" \in bound'[r] => life'[r] = "cancelled"
    <2>1. CASE CancelRuntime(r)
      BY <2>1, Zenon DEF CancelRuntime, StopStep, Becomes, SupInv, SupTypes
    <2>2. CASE ShutControl(r)
      BY <2>2, Zenon DEF ShutControl, SupInv, SupTypes
    <2>3. CASE CloseListeners(r)
      BY <2>3, Zenon DEF CloseListeners, StopStep, SupInv, SupTypes, CallsInv, ControlHeld
    <2>4. CASE WaitHandlers(r) \/ DrainObservers(r) \/ CloseStores(r)
      BY <2>4, Zenon DEF WaitHandlers, DrainObservers, CloseStores, StopStep, CallsInv, ControlHeld
    <2> QED
      BY <2>1, <2>2, <2>3, <2>4, Zenon DEF RuntimeStops
  <1>3. BeingStopped(r)' /\ \A q \in Callers : BeingStopped(q)' <=> BeingStopped(q)
    BY <1>1, Zenon DEF BeingStopped
  <1>4. OverlapKnown' /\ MainFirst' /\ LoneHoldsNone' /\ LoneStartBinds'
    BY <1>1, Zenon DEF CallsInv, OverlapKnown, CallInFlight, MainFirst, LoneHoldsNone, LoneStartBinds
  <1>5. Accounted'
    BY <1>1, <1>3, Zenon DEF CallsInv, Accounted, InHands
  <1>6. ControlHeld' /\ QuietExitIsClean'
    BY <1>1, <1>2, Zenon DEF CallsInv, ControlHeld, QuietExitIsClean
  <1> QED
    BY <1>4, <1>5, <1>6, Zenon DEF CallsInv

\* Every step keeps what is said of lone calls.
LEMMA CallsStepInv == SupInv /\ CallsInv /\ [SupervisorNext]_supervisorVars => CallsInv'
  <1> SUFFICES ASSUME SupInv, CallsInv, [SupervisorNext]_supervisorVars PROVE CallsInv'
    OBVIOUS
  <1>1. CASE StopTakes
    BY <1>1, TakesKeepCalls, Zenon DEF Callers
  <1>2. ASSUME NEW p \in Callers, RestartCalled(p) \/ CallerGoes(p) PROVE CallsInv'
    BY <1>2, RestartCalledKeeps, LoadConfigKeeps, TakesKeepCalls, BuildKeepsCalls, StartKeepsCalls, PublishKeepsCalls,
       StopReturnedKeepsCalls, Zenon DEF CallerGoes
  <1>3. ASSUME NEW r \in Callers, RuntimeStops(r) PROVE CallsInv'
    BY <1>3, StopsKeepCalls, Zenon
  <1>4. CASE UNCHANGED <<runtime, caller, bound, life, exited, overlap>>
    <2>1. OverlapKnown' /\ MainFirst' /\ LoneHoldsNone' /\ LoneStartBinds'
      BY <1>4, Zenon DEF CallsInv, OverlapKnown, CallInFlight, MainFirst, LoneHoldsNone, LoneStartBinds
    <2>2. Accounted' /\ ControlHeld' /\ QuietExitIsClean'
      BY <1>4, Zenon DEF CallsInv, Accounted, InHands, BeingStopped, ControlHeld, QuietExitIsClean
    <2> QED
      BY <2>1, <2>2, Zenon DEF CallsInv
  <1>5. (\E r \in Callers : HandlerStarts(r) \/ HandlerEnds(r)) \/ UNCHANGED supervisorVars
            => UNCHANGED <<runtime, caller, bound, life, exited, overlap>>
    BY Zenon DEF HandlerStarts, HandlerEnds, supervisorVars
  <1> QED
    BY <1>1, <1>2, <1>3, <1>4, <1>5, Zenon DEF SupervisorNext

\* For any number of restarts: a start that overlaps no other call finds its addresses free,
\* and a process whose last Stop overlaps none ends with everything stopped.
THEOREM QuietCallsAreCleanAlways == SupervisorSpec => []QuietCallsAreClean
  <1>1. SupInv /\ CallsInv => QuietCallsAreClean
    BY Zenon DEF CallsInv, QuietCallsAreClean
  <1> QED
    BY <1>1, SupInitInv, SupStepInv, CallsInitInv, CallsStepInv, PTL DEF SupervisorSpec

-----------------------------------------------------------------------------
\* The webhook client.

\* The counters, without their upper bounds, which follow from the accounting.
ClientCounters ==
    /\ events \in 0..QueueSize /\ attempt \in 0..MaxAttempts /\ emitted \in 0..MaxEvents
    /\ refused \in Nat /\ dropped \in Nat /\ success \in Nat /\ failed \in Nat

ClientCloseInv ==
    /\ closing \in {"no", "waiting", "done", "expired"}
    /\ closing # "no" => clientClosed
    /\ closing = "done" => events = 0 /\ attempt = 0

ClientInv == ClientCounters /\ EventsAccounted /\ ClientCloseInv

\* NewClient establishes the invariant.
LEMMA ClientInitInv == ClientInit => ClientInv
<1>1. ClientInit => ClientCounters /\ EventsAccounted
    BY NotifyClientAssumption DEF ClientInit, ClientCounters, EventsAccounted
<1>2. ClientInit => ClientCloseInv
    BY Zenon DEF ClientInit, ClientCloseInv
<1> QED
    BY <1>1, <1>2, Zenon DEF ClientInv

\* Every step of Emit, of the sender and of Close keeps the accounting.
LEMMA CountersStep ==
  ASSUME ClientCounters, EventsAccounted, [ClientNext]_clientVars
  PROVE  ClientCounters' /\ EventsAccounted'
<1> USE NotifyClientAssumption DEF ClientCounters, EventsAccounted
<1>1. CASE Submit
    BY <1>1 DEF Submit
<1>2. CASE SendBegins
    BY <1>2 DEF SendBegins
<1>3. CASE AttemptSucceeds
    BY <1>3 DEF AttemptSucceeds
<1>4. CASE AttemptRefused
    BY <1>4 DEF AttemptRefused
<1>5. CASE AttemptErrs
    BY <1>5 DEF AttemptErrs
<1>6. CASE CloseClient \/ CloseReturns \/ UNCHANGED clientVars
    BY <1>6, Zenon DEF CloseClient, CloseReturns, clientVars
<1> QED
    BY <1>1, <1>2, <1>3, <1>4, <1>5, <1>6, Zenon DEF ClientNext, Send

\* Once Close has begun the queue only shrinks, and nil is returned only when it is empty.
LEMMA CloseStep ==
  ASSUME ClientCounters, ClientCloseInv, [ClientNext]_clientVars
  PROVE  ClientCloseInv' /\ (clientClosed => events' <= events)
<1> USE NotifyClientAssumption DEF ClientCounters, ClientCloseInv
<1>1. CASE Submit
    BY <1>1 DEF Submit
<1>2. CASE SendBegins
    BY <1>2 DEF SendBegins
<1>3. CASE AttemptSucceeds \/ AttemptRefused
    BY <1>3 DEF AttemptSucceeds, AttemptRefused
<1>4. CASE AttemptErrs
    BY <1>4 DEF AttemptErrs
<1>5. CASE CloseClient \/ UNCHANGED clientVars
    BY <1>5 DEF CloseClient, clientVars
<1>6. CASE CloseReturns
    BY <1>6 DEF CloseReturns, SenderDone
<1> QED
    BY <1>1, <1>2, <1>3, <1>4, <1>5, <1>6, Zenon DEF ClientNext, Send

\* Every step keeps the invariant.
LEMMA ClientStepInv == ClientInv /\ [ClientNext]_clientVars => ClientInv'
  BY CountersStep, CloseStep, Zenon DEF ClientInv

\* For any queue and any number of attempts, every event given to Emit is queued, with the
\* sender, or counted exactly once as refused, dropped, sent or failed.
THEOREM EventsAccountedAlways == ClientSpec => []EventsAccounted
<1>1. ClientInv => EventsAccounted
    BY Zenon DEF ClientInv
<1> QED
    BY <1>1, ClientInitInv, ClientStepInv, PTL DEF ClientSpec

\* A nil return of Client.Close leaves nothing to send, and nothing is queued after Close.
THEOREM CloseIsCompleteAlways == ClientSpec => CloseIsComplete
<1>1. ClientInv /\ [ClientNext]_clientVars
        => [/\ closing' = "done" => events' = 0 /\ attempt' = 0
            /\ clientClosed => events' <= events]_clientVars
    <2> SUFFICES ASSUME ClientInv, [ClientNext]_clientVars
                 PROVE  /\ closing' = "done" => events' = 0 /\ attempt' = 0
                        /\ clientClosed => events' <= events
      OBVIOUS
    <2> QED
      BY CloseStep, Zenon DEF ClientInv, ClientCloseInv
<1> QED
    BY <1>1, ClientInitInv, ClientStepInv, PTL DEF ClientSpec, CloseIsComplete

-----------------------------------------------------------------------------
\* The GeoIP manager.

\* The readers that Reload is bringing in, and that no lookup can hold yet.
Incoming == reload.step \in {"load", "store"}

\* Reload's swap against the pointer while Close has not begun: the pair it read is
\* still there when it stores, and the new pair shares no reader with the old one.
SwapInv ==
    closer.step = "idle" =>
        /\ reload.step # "done"
        /\ reload.step = "idle" => Held(reload.new) = {}
        /\ Incoming => Held(reload.new) # {} /\ Held(reload.new) \cap Held(readers) = {}
        /\ reload.step = "store" => reload.old = readers
        /\ reload.step = "close" => /\ readers = reload.new
                                    /\ Held(reload.old) \cap Held(readers) = {}

\* A lookup holds readers that were opened, never those still to be installed, and as
\* long as its pair is the current one it has every answer it asked for.
LookupInv(l) ==
    /\ lookup[l].step # "idle" /\ closer.step = "idle" => Held(lookup[l].set) \subseteq used
    /\ lookup[l].step # "idle" /\ Incoming /\ closer.step = "idle" => lookup[l].set # reload.new
    /\ lookup[l].step # "idle" /\ lookup[l].set = readers /\ closer.step = "idle" =>
        \A k \in Kinds :
            k \in lookup[l].got <=> /\ lookup[l].set[k] # NoReader
                                    /\ \/ lookup[l].step = "done"
                                       \/ lookup[l].step = "country" /\ k = "asn"

GeoInv == GeoTypeOK /\ SwapInv /\ ReadersAccounted /\ \A l \in Lookups : LookupInv(l)

\* The manager starts with the databases that opened.
LEMMA GeoInitInv == GeoInit => GeoInv
<1> SUFFICES ASSUME GeoInit PROVE GeoInv
  OBVIOUS
<1>1. NoReaders \in ReaderSet /\ Held(NoReaders) = {}
  BY Zenon DEF NoReaders, ReaderSet, Held
<1>2. PICK initial \in ReaderSet :
        /\ readers = initial
        /\ opened = Held(initial) /\ used = Held(initial)
        /\ reload = IdleSwap /\ closer = IdleSwap
        /\ lookup = [l \in Lookups |-> IdleLookup]
  BY Zenon DEF GeoInit
<1>3. IdleSwap \in Swap /\ IdleLookup \in Lookup
  BY <1>1, Zenon DEF IdleSwap, IdleLookup, Swap, Lookup
<1>4. opened \subseteq used /\ used \subseteq Readers
  BY <1>2, Zenon DEF ReaderSet, Held
<1>5. GeoTypeOK
  BY <1>2, <1>3, <1>4, Zenon DEF GeoTypeOK
<1>6. SwapInv /\ ReadersAccounted
  BY <1>1, <1>2, Zenon DEF SwapInv, ReadersAccounted, IdleSwap, Incoming
<1>7. \A l \in Lookups : LookupInv(l)
  BY <1>2, Zenon DEF LookupInv, IdleLookup
<1> QED BY <1>5, <1>6, <1>7, Zenon DEF GeoInv

\* A Reload opens two readers that nobody has seen.
LEMMA ReloadOpensInv == GeoInv /\ ReloadOpens => GeoInv'
<1> SUFFICES ASSUME GeoInv, ReloadOpens PROVE GeoInv'
  OBVIOUS
<1>1. PICK a, c \in Readers \ used :
        /\ reload.step = "idle" /\ a # c
        /\ opened' = opened \cup {a, c} /\ used' = used \cup {a, c}
        /\ reload' = [IdleSwap EXCEPT !.step = "load", !.new = [k \in Kinds |-> IF k = "asn" THEN a ELSE c]]
        /\ UNCHANGED <<readers, closer, lookup>>
  BY Zenon DEF ReloadOpens
<1>2. PICK new : new = [k \in Kinds |-> IF k = "asn" THEN a ELSE c]
  BY ZenonT(60)
<1>3. new \in ReaderSet /\ Held(new) = {a, c} /\ new["asn"] = a
  BY <1>1, <1>2, GeoIPAssumption, Zenon DEF ReaderSet, Held, Kinds
<1>4. reload' = [step |-> "load", new |-> new, old |-> NoReaders]
  BY <1>1, <1>2, Zenon DEF IdleSwap
<1>5. reload'.step = "load" /\ reload'.new = new /\ reload' \in Swap
  BY <1>3, <1>4, Zenon DEF Swap, NoReaders, ReaderSet
<1>6. GeoTypeOK'
  BY <1>1, <1>5, Zenon DEF GeoInv, GeoTypeOK
<1>7. Held(readers) \subseteq used \/ closer.step # "idle"
  BY Zenon DEF GeoInv, GeoTypeOK, ReadersAccounted
<1>8. SwapInv' /\ ReadersAccounted'
  BY <1>1, <1>3, <1>5, <1>7 DEF GeoInv, SwapInv, ReadersAccounted, Incoming, Held
<1>9. ASSUME NEW l \in Lookups PROVE LookupInv(l)'
  <2>1. lookup[l].step # "idle" /\ closer.step = "idle" => lookup[l].set # new
    BY <1>1, <1>3, GeoIPAssumption, ZenonT(60) DEF GeoInv, LookupInv, Held, Kinds
  <2> QED BY <1>1, <1>5, <2>1 DEF GeoInv, LookupInv, Held
<1> QED BY <1>6, <1>8, <1>9, Zenon DEF GeoInv

\* A Reload that fails closes what it opened.
LEMMA ReloadFailsInv == GeoInv /\ ReloadFails => GeoInv'
  BY SMTT(60) DEF GeoInv, GeoTypeOK, SwapInv, ReadersAccounted, LookupInv, Incoming, ReloadFails, Held

\* Reload installs the new pair and closes the old one.
LEMMA ReloadSwapsInv == GeoInv /\ ReloadSwaps => GeoInv'
<1> SUFFICES ASSUME GeoInv, ReloadSwaps PROVE GeoInv'
  OBVIOUS
<1>1. reload \in Swap /\ readers \in ReaderSet /\ UNCHANGED <<used, closer, lookup>>
  BY Zenon DEF GeoInv, GeoTypeOK, ReloadSwaps
<1>2. CASE reload.step = "load"
  <2>1. reload' = SwapLoads(reload) /\ UNCHANGED <<readers, opened>>
    BY <1>2, Zenon DEF ReloadSwaps
  <2>2. reload' \in Swap /\ reload'.step = "store" /\ reload'.new = reload.new /\ reload'.old = readers
    BY <1>1, <2>1, ZenonT(60) DEF Swap, SwapLoads
  <2>3. GeoTypeOK' /\ SwapInv' /\ ReadersAccounted'
    BY <1>1, <1>2, <2>1, <2>2, ZenonT(60) DEF GeoInv, GeoTypeOK, SwapInv, ReadersAccounted, Incoming, Held
  <2>4. \A l \in Lookups : LookupInv(l)'
    BY <1>1, <1>2, <2>1, <2>2, ZenonT(60) DEF GeoInv, LookupInv, Incoming, Held
  <2> QED BY <2>3, <2>4, Zenon DEF GeoInv
<1>3. CASE reload.step = "store"
  <2>1. reload' = SwapStores(reload) /\ readers' = reload.new /\ UNCHANGED opened
    BY <1>3, Zenon DEF ReloadSwaps
  <2>2. reload' \in Swap /\ reload'.step = "close" /\ reload'.new = reload.new /\ reload'.old = reload.old
        /\ reload.new \in ReaderSet
    BY <1>1, <2>1, Zenon DEF Swap, SwapStores
  <2>3. GeoTypeOK' /\ SwapInv' /\ ReadersAccounted'
    BY <1>1, <1>3, <2>1, <2>2, SMTT(60) DEF GeoInv, GeoTypeOK, SwapInv, ReadersAccounted, Incoming, Held
  <2>4. \A l \in Lookups : LookupInv(l)'
    BY <1>1, <1>3, <2>1, <2>2, ZenonT(60) DEF GeoInv, LookupInv, Incoming, Held
  <2> QED BY <2>3, <2>4, Zenon DEF GeoInv
<1>4. CASE reload.step = "close"
  <2>1. opened' = opened \ Held(reload.old) /\ reload' = IdleSwap /\ UNCHANGED readers
    BY <1>4, Zenon DEF ReloadSwaps
  <2>2. reload' \in Swap /\ reload'.step = "idle" /\ Held(reload'.new) = {}
    BY <2>1, Zenon DEF Swap, IdleSwap, Held, NoReaders, ReaderSet
  <2>3. GeoTypeOK' /\ SwapInv' /\ ReadersAccounted'
    BY <1>1, <1>4, <2>1, <2>2, ZenonT(60) DEF GeoInv, GeoTypeOK, SwapInv, ReadersAccounted, Incoming, Held
  <2>4. \A l \in Lookups : LookupInv(l)'
    BY <1>1, <1>4, <2>1, <2>2, ZenonT(60) DEF GeoInv, LookupInv, Incoming, Held
  <2> QED BY <2>3, <2>4, Zenon DEF GeoInv
<1> QED BY <1>2, <1>3, <1>4, Zenon DEF ReloadSwaps

\* Once Close has begun only the types are claimed, and it never begins again.
LEMMA CloseInv == GeoInv /\ (CloseBegins \/ CloseSwaps) => GeoInv'
<1> SUFFICES ASSUME GeoInv, CloseBegins \/ CloseSwaps PROVE GeoInv'
  OBVIOUS
<1>1. UNCHANGED <<used, reload, lookup>> /\ closer \in Swap /\ readers \in ReaderSet
  BY Zenon DEF GeoInv, GeoTypeOK, CloseBegins, CloseSwaps
<1>2. closer' \in Swap /\ closer'.step # "idle"
  <2>1. CASE CloseBegins
    BY <2>1, Zenon DEF CloseBegins, Swap, IdleSwap, NoReaders, ReaderSet
  <2>2. CASE CloseSwaps
    BY <1>1, <2>2, ZenonT(60) DEF CloseSwaps, Swap, SwapLoads, SwapStores, SwapCloses
  <2> QED BY <2>1, <2>2, Zenon
<1>3. readers' \in ReaderSet /\ opened' \subseteq opened
  BY <1>1, Zenon DEF CloseBegins, CloseSwaps, Swap
<1>4. GeoTypeOK'
  BY <1>1, <1>2, <1>3, Zenon DEF GeoInv, GeoTypeOK
<1> QED BY <1>1, <1>2, <1>4, Zenon DEF GeoInv, SwapInv, ReadersAccounted, LookupInv, Held

\* A lookup takes the current pair.
LEMMA LookupBeginsInv ==
    ASSUME GeoInv, NEW l \in Lookups, LookupBegins(l)
    PROVE  GeoInv'
<1>1. /\ UNCHANGED <<readers, opened, used, reload, closer>>
      /\ lookup' = [lookup EXCEPT ![l] = [step |-> "asn", set |-> readers, got |-> {}]]
  BY Zenon DEF LookupBegins
<1>2. GeoTypeOK'
  BY <1>1, Zenon DEF GeoInv, GeoTypeOK, Lookup
<1>3. lookup'[l] = [step |-> "asn", set |-> readers, got |-> {}] /\ \A m \in Lookups \ {l} : lookup'[m] = lookup[m]
  BY <1>1, Zenon DEF GeoInv, GeoTypeOK
<1>4. closer.step = "idle" => Held(readers) \subseteq used
  BY DEF GeoInv, GeoTypeOK, ReadersAccounted
<1>5. LookupInv(l)'
  BY <1>1, <1>3, <1>4, SMTT(60) DEF GeoInv, SwapInv, LookupInv, Incoming, Held
<1>6. \A m \in Lookups \ {l} : LookupInv(m)'
  BY <1>1, <1>3, SMTT(60) DEF GeoInv, LookupInv, Incoming, Held
<1> QED BY <1>1, <1>2, <1>5, <1>6, ZenonT(60) DEF GeoInv, SwapInv, ReadersAccounted, Incoming, Held

\* A lookup asks one reader; while its pair is the current one that reader is open.
LEMMA LookupAsksInv ==
    ASSUME GeoInv, NEW l \in Lookups,
           NEW k, NEW next, (k = "asn" /\ next = "country") \/ (k = "country" /\ next = "done"),
           LookupAsks(l, k, next)
    PROVE  GeoInv'
<1>1. PICK x : x = IF lookup[l].set[k] \in opened THEN {k} ELSE {}
  BY ZenonT(60)
<1>2. /\ UNCHANGED <<readers, opened, used, reload, closer>> /\ lookup[l].step = k
      /\ lookup' = [lookup EXCEPT ![l] = [step |-> next, set |-> lookup[l].set, got |-> lookup[l].got \cup x]]
  BY <1>1, Zenon DEF LookupAsks
<1>3. k \in Kinds /\ lookup[l] \in Lookup /\ lookup \in [Lookups -> Lookup]
  BY Zenon DEF GeoInv, GeoTypeOK, Kinds
<1>5. /\ lookup'[l] = [step |-> next, set |-> lookup[l].set, got |-> lookup[l].got \cup x]
      /\ \A m \in Lookups \ {l} : lookup'[m] = lookup[m]
  BY <1>2, <1>3, Zenon
<1>6. [step |-> next, set |-> lookup[l].set, got |-> lookup[l].got \cup x] \in Lookup
  BY <1>1, <1>3, Zenon DEF Lookup
<1>7. GeoTypeOK'
  BY <1>2, <1>6, Zenon DEF GeoInv, GeoTypeOK
<1>8. lookup[l].set = readers /\ closer.step = "idle" => (x = {k} <=> lookup[l].set[k] # NoReader)
  BY <1>1, <1>3, GeoIPAssumption, SMTT(60) DEF GeoInv, GeoTypeOK, ReadersAccounted, Held
<1>9. LookupInv(l)'
  BY <1>1, <1>2, <1>3, <1>5, <1>8, SMTT(60) DEF GeoInv, LookupInv, Incoming, Held, Kinds
<1>10. \A m \in Lookups \ {l} : LookupInv(m)'
  BY <1>2, <1>5, SMTT(60) DEF GeoInv, LookupInv, Incoming, Held
<1> QED BY <1>2, <1>7, <1>9, <1>10, ZenonT(60) DEF GeoInv, SwapInv, ReadersAccounted, Incoming, Held

\* A lookup that has returned claims nothing.
LEMMA LookupReturnsInv ==
    ASSUME GeoInv, NEW l \in Lookups, LookupReturns(l)
    PROVE  GeoInv'
<1>1. /\ UNCHANGED <<readers, opened, used, reload, closer>>
      /\ lookup' = [lookup EXCEPT ![l] = IdleLookup] /\ lookup \in [Lookups -> Lookup]
  BY Zenon DEF LookupReturns, GeoInv, GeoTypeOK
<1>2. IdleLookup \in Lookup /\ IdleLookup.step = "idle"
  BY Zenon DEF IdleLookup, Lookup, NoReaders, ReaderSet
<1>3. GeoTypeOK' /\ lookup'[l].step = "idle" /\ \A m \in Lookups \ {l} : lookup'[m] = lookup[m]
  BY <1>1, <1>2, Zenon DEF GeoInv, GeoTypeOK
<1>4. \A m \in Lookups : LookupInv(m)'
  BY <1>1, <1>3, SMTT(60) DEF GeoInv, LookupInv, Incoming, Held
<1> QED BY <1>1, <1>3, <1>4, ZenonT(60) DEF GeoInv, SwapInv, ReadersAccounted, Incoming, Held

\* For any number of readers and of concurrent lookups: Reload loses no handle and closes
\* none that is in use, and a lookup whose readers are the current ones misses no answer.
THEOREM ReadersServeAlways == GeoSpec => []ReadersServe
<1>1. GeoInit => GeoInv
  BY GeoInitInv, Zenon
<1>2. ASSUME GeoInv, [GeoNext]_geoVars PROVE GeoInv'
  <2>1. CASE UNCHANGED geoVars
    <3>1. UNCHANGED <<readers, opened, used, reload, closer, lookup>>
      BY <2>1, Zenon DEF geoVars
    <3>2. GeoTypeOK' /\ SwapInv' /\ ReadersAccounted'
      BY <1>2, <3>1, ZenonT(60) DEF GeoInv, GeoTypeOK, SwapInv, ReadersAccounted, Incoming, Held
    <3>3. ASSUME NEW l \in Lookups PROVE LookupInv(l)'
      BY <1>2, <3>1, ZenonT(60) DEF GeoInv, LookupInv, Incoming, Held
    <3> QED BY <3>2, <3>3, Zenon DEF GeoInv
  <2>2. CASE \E l \in Lookups : LookupAsks(l, "asn", "country") \/ LookupAsks(l, "country", "done")
    BY <1>2, <2>2, LookupAsksInv, Zenon
  <2>3. CASE \E l \in Lookups : LookupBegins(l) \/ LookupReturns(l)
    BY <1>2, <2>3, LookupBeginsInv, LookupReturnsInv, Zenon
  <2>4. CASE ReloadOpens \/ ReloadFails \/ ReloadSwaps \/ CloseBegins \/ CloseSwaps
    BY <1>2, <2>4, ReloadOpensInv, ReloadFailsInv, ReloadSwapsInv, CloseInv, Zenon
  <2> QED
    BY <1>2, <2>1, <2>2, <2>3, <2>4, Zenon DEF GeoNext
<1>3. GeoInv => ReadersServe
  BY Zenon DEF GeoInv, GeoTypeOK, Lookup, LookupInv, ReadersServe, QuietLookupIsComplete
<1> QED
  BY <1>1, <1>2, <1>3, PTL DEF GeoSpec

-----------------------------------------------------------------------------
\* The request limits.

\* What the proofs need of products.
LEMMA ProductIs ==
    ASSUME NEW a \in Nat, NEW r \in Nat
    PROVE  /\ a * r \in Nat /\ (a + 1) * r = a * r + r
           /\ 0 * r = 0 /\ a * 0 = 0
OBVIOUS

\* The clients of the control RPC.

ClientEntries == [tokens : 0..RPCBurst, idle : 0..(TTL + 1)]
ClientsOK == clients \in [Clients -> ClientEntries \cup {Unknown}]

\* The bucket of a client that is known.
LEMMA EntryIs ==
    ASSUME ClientsOK, NEW c \in Clients, clients[c] # Unknown
    PROVE  /\ clients[c] \in ClientEntries /\ clients[c].tokens \in 0..RPCBurst /\ clients[c].idle \in 0..(TTL + 1)
           /\ clients[c].tokens \in Nat /\ clients[c].idle \in Nat
           /\ clients[c].idle * PerTick \in Nat /\ Tokens(c) \in 0..RPCBurst
<1>1. clients[c] \in ClientEntries
  BY Zenon DEF ClientsOK
<1>2. /\ clients[c].tokens \in 0..RPCBurst /\ clients[c].idle \in 0..(TTL + 1)
      /\ clients[c].tokens \in Nat /\ clients[c].idle \in Nat /\ RPCBurst \in Nat /\ PerTick \in Nat
  BY <1>1, LimitsAssumption DEF ClientEntries
<1>3. clients[c].idle * PerTick \in Nat
  BY <1>2, ProductIs, Zenon
<1>4. Tokens(c) \in 0..RPCBurst
  BY <1>2, <1>3 DEF Tokens, Lower
<1> QED BY <1>1, <1>2, <1>3, <1>4, Zenon

\* An entry of the map is not the absence of one.
LEMMA EntryKnown == Unknown \notin ClientEntries
<1>1. ClientEntries \subseteq [tokens : Nat, idle : Nat]
  BY LimitsAssumption DEF ClientEntries
<1> QED BY <1>1, LimitsAssumption, Zenon

\* The entry that Allow leaves.
Charged(c) ==
    [tokens |-> IF Forgotten(c) THEN RPCBurst - 1 ELSE IF Tokens(c) >= 1 THEN Tokens(c) - 1 ELSE Tokens(c),
     idle |-> 0]

\* It is within the burst.
LEMMA ChargedIs ==
    ASSUME ClientsOK, NEW c \in Clients
    PROVE  Charged(c) \in ClientEntries
<1>1. RPCBurst - 1 \in 0..RPCBurst /\ RPCBurst \in Nat /\ 0 \in 0..(TTL + 1)
  BY LimitsAssumption
<1>2. ~Forgotten(c) => Tokens(c) \in 0..RPCBurst
  BY EntryIs, Zenon DEF Forgotten
<1>3. (IF Forgotten(c) THEN RPCBurst - 1 ELSE IF Tokens(c) >= 1 THEN Tokens(c) - 1 ELSE Tokens(c)) \in 0..RPCBurst
  BY <1>1, <1>2
<1> QED BY <1>1, <1>3, Zenon DEF Charged, ClientEntries

\* Every step keeps the entries in their types.
LEMMA ClientsStep == ClientsOK /\ [LimitsNext]_limitVars => ClientsOK'
<1> SUFFICES ASSUME ClientsOK, [LimitsNext]_limitVars PROVE ClientsOK'
  OBVIOUS
<1>1. ASSUME NEW c \in Clients, Charge(c) PROVE ClientsOK'
  <2>1. clients' = [clients EXCEPT ![c] = Charged(c)]
    BY <1>1, Zenon DEF Charge, Charged
  <2> QED BY <2>1, ChargedIs, Zenon DEF ClientsOK
<1>2. CASE SweepExpired
  BY <1>2, Zenon DEF SweepExpired, ClientsOK
<1>3. CASE LimitsTick
  <2>1. ASSUME NEW c \in Clients, clients[c] # Unknown
        PROVE  [clients[c] EXCEPT !.idle = Lower(clients[c].idle + 1, TTL + 1)] \in ClientEntries
    <3>1. clients[c] \in ClientEntries /\ clients[c].idle \in Nat /\ TTL \in Nat
      BY <2>1, EntryIs, LimitsAssumption, Zenon
    <3>2. Lower(clients[c].idle + 1, TTL + 1) \in 0..(TTL + 1)
      BY <3>1 DEF Lower
    <3> QED BY <3>1, <3>2, Zenon DEF ClientEntries
  <2>2. clients' = [c \in Clients |-> IF clients[c] = Unknown THEN Unknown
                                      ELSE [clients[c] EXCEPT !.idle = Lower(clients[c].idle + 1, TTL + 1)]]
    BY <1>3, Zenon DEF LimitsTick
  <2> QED BY <2>1, <2>2, Zenon DEF ClientsOK
<1>4. CASE UNCHANGED clients
  BY <1>4, Zenon DEF ClientsOK
<1> QED BY <1>1, <1>2, <1>3, <1>4 DEF LimitsNext, HandleRPC, AdmitBackend, limitVars

\* What the client has left: a full bucket when it is forgotten.
Level == IF Forgotten(Watched) THEN RPCBurst ELSE Tokens(Watched)
ClientBucketVars == <<PerTick, PerTick, Level>>

\* It is within the burst.
LEMMA LevelType ==
    ASSUME ClientsOK
    PROVE  Level \in 0..RPCBurst /\ RPCBurst \in Nat
BY EntryIs, LimitsAssumption DEF Level, Forgotten

\* A request takes one token or none.
LEMMA ClientTakes ==
    ASSUME ClientsOK, NEW c \in Clients, Charge(c)
    PROVE  Level' = Level \/ (Level >= 1 /\ Level' = Level - 1)
<1>1. clients' = [clients EXCEPT ![c] = Charged(c)] /\ clients \in [Clients -> ClientEntries \cup {Unknown}] /\ Watched \in Clients
  BY LimitsAssumption, Zenon DEF Charge, Charged, ClientsOK
<1>2. CASE c # Watched
  <2>1. clients'[Watched] = clients[Watched]
    BY <1>1, <1>2, Zenon
  <2> QED BY <2>1, Zenon DEF Level, Forgotten, Tokens
<1>3. CASE c = Watched
  <2>1. clients'[Watched] = Charged(Watched) /\ Charged(Watched) \in ClientEntries
    BY <1>1, <1>3, ChargedIs, Zenon
  <2>2. clients'[Watched] # Unknown /\ clients'[Watched].idle = 0
    BY <2>1, EntryKnown DEF Charged
  <2>3. /\ Level \in 0..RPCBurst /\ RPCBurst \in Nat /\ RPCBurst > 0 /\ PerTick \in Nat /\ 0 * PerTick = 0 /\ TTL \in Nat
    BY LevelType, LimitsAssumption, ProductIs
  <2>4. clients'[Watched].tokens = IF Level >= 1 THEN Level - 1 ELSE Level
    BY <2>1, <2>3 DEF Charged, Level
  <2>5. ~Forgotten(Watched)'
    BY <2>2, <2>3 DEF Forgotten
  <2>6. Tokens(Watched)' = Lower(RPCBurst, clients'[Watched].tokens + 0 * PerTick)
    BY <2>2, Zenon DEF Tokens
  <2>7. Level' = Tokens(Watched)'
    BY <2>5, Zenon DEF Level
  <2> QED BY <2>3, <2>4, <2>6, <2>7 DEF Lower
<1> QED BY <1>2, <1>3, Zenon

\* Forgetting a client gives it nothing: its bucket was full.
LEMMA ClientForgotten == ASSUME ClientsOK, SweepExpired PROVE Level' = Level
<1>1. clients'[Watched] = IF Forgotten(Watched) THEN Unknown ELSE clients[Watched]
  BY LimitsAssumption, Zenon DEF SweepExpired
<1>2. CASE Forgotten(Watched)
  BY <1>1, <1>2, Zenon DEF Level, Forgotten
<1>3. CASE ~Forgotten(Watched)
  <2>1. clients'[Watched] = clients[Watched]
    BY <1>1, <1>3, Zenon
  <2> QED BY <2>1, Zenon DEF Level, Forgotten, Tokens
<1> QED BY <1>2, <1>3, Zenon

\* A tick earns PerTick; at the TTL the bucket is full anyway.
LEMMA ClientEarns ==
    ASSUME ClientsOK, LimitsTick
    PROVE  Level' = Lower(Level + PerTick, RPCBurst)
<1>0. /\ Watched \in Clients /\ TTL \in Nat /\ PerTick \in Nat /\ RPCBurst \in Nat /\ TTL * PerTick >= RPCBurst
      /\ Level \in 0..RPCBurst
  BY LimitsAssumption, LevelType, Zenon
<1>1. CASE clients[Watched] = Unknown
  <2>1. clients'[Watched] = Unknown
    BY <1>0, <1>1, Zenon DEF LimitsTick
  <2>2. Level = RPCBurst /\ Level' = RPCBurst
    BY <1>1, <2>1, Zenon DEF Level, Forgotten
  <2> QED BY <1>0, <2>2 DEF Lower
<1>2. CASE clients[Watched] # Unknown
  <2>1. /\ clients[Watched] \in ClientEntries /\ clients[Watched].tokens \in Nat /\ clients[Watched].idle \in 0..(TTL + 1)
        /\ clients[Watched].idle \in Nat /\ clients[Watched].idle * PerTick \in Nat
    BY <1>0, <1>2, EntryIs, Zenon
  <2>2. clients'[Watched] = [clients[Watched] EXCEPT !.idle = Lower(clients[Watched].idle + 1, TTL + 1)]
    BY <1>0, <1>2, Zenon DEF LimitsTick
  <2>3. /\ clients'[Watched].tokens = clients[Watched].tokens
        /\ clients'[Watched].idle = Lower(clients[Watched].idle + 1, TTL + 1)
    BY <2>1, <2>2, Zenon DEF ClientEntries
  <2>4. Lower(clients[Watched].idle + 1, TTL + 1) \in 0..(TTL + 1)
    BY <1>0, <2>1 DEF Lower
  <2>5. clients'[Watched] \in ClientEntries
    BY <2>1, <2>2, <2>4, Zenon DEF ClientEntries
  <2>6. clients'[Watched] # Unknown
    BY <2>5, EntryKnown, Zenon
  <2>7. CASE clients[Watched].idle > TTL
    <3>1. clients'[Watched].idle > TTL
      BY <1>0, <2>1, <2>3, <2>7 DEF Lower
    <3>2. Level = RPCBurst /\ Level' = RPCBurst
      BY <2>7, <3>1, Zenon DEF Level, Forgotten
    <3> QED BY <1>0, <3>2 DEF Lower
  <2>8. CASE clients[Watched].idle = TTL
    <3>1. clients'[Watched].idle > TTL
      BY <1>0, <2>3, <2>8 DEF Lower
    <3>2. Level' = RPCBurst
      BY <3>1, Zenon DEF Level, Forgotten
    <3>3. ~Forgotten(Watched)
      BY <1>0, <1>2, <2>8 DEF Forgotten
    <3>4. Level = Lower(RPCBurst, clients[Watched].tokens + clients[Watched].idle * PerTick)
      BY <3>3, Zenon DEF Level, Tokens
    <3>5. clients[Watched].idle * PerTick >= RPCBurst
      BY <1>0, <2>8, Zenon
    <3> QED BY <1>0, <2>1, <3>2, <3>4, <3>5 DEF Lower
  <2>9. CASE clients[Watched].idle < TTL
    <3>1. clients'[Watched].idle = clients[Watched].idle + 1
      BY <1>0, <2>1, <2>3, <2>9 DEF Lower
    <3>2. ~Forgotten(Watched) /\ ~Forgotten(Watched)'
      BY <1>0, <1>2, <2>1, <2>6, <2>9, <3>1 DEF Forgotten
    <3> DEFINE x == clients[Watched].idle * PerTick
    <3>3. clients'[Watched].idle * PerTick = x + PerTick
      BY <1>0, <2>1, <3>1, ProductIs, Zenon
    <3>4. Level = Lower(RPCBurst, clients[Watched].tokens + x)
      BY <3>2, Zenon DEF Level, Tokens
    <3>5. Level' = Lower(RPCBurst, clients[Watched].tokens + (x + PerTick))
      BY <2>3, <3>2, <3>3, Zenon DEF Level, Tokens
    <3>6. x \in Nat
      BY <2>1, Zenon
    <3> HIDE DEF x
    <3> QED BY <1>0, <2>1, <3>4, <3>5, <3>6 DEF Lower
  <2>10. clients[Watched].idle > TTL \/ clients[Watched].idle = TTL \/ clients[Watched].idle < TTL
    BY <1>0, <2>1
  <2> QED BY <2>7, <2>8, <2>9, <2>10, Zenon
<1> QED BY <1>1, <1>2, Zenon

\* Every step is one of the bucket of the client, or is not seen.
LEMMA ClientBucketStep ==
    ClientsOK /\ [LimitsNext]_limitVars
        => [ClientBucket!Fill \/ ClientBucket!Take \/ ClientBucket!Change]_ClientBucketVars
<1> DEFINE Goal == [ClientBucket!Fill \/ ClientBucket!Take \/ ClientBucket!Change]_ClientBucketVars
<1> SUFFICES ASSUME ClientsOK, [LimitsNext]_limitVars PROVE Goal
  OBVIOUS
<1>0. Level \in 0..RPCBurst /\ Level \in Nat
  BY LevelType
<1>1. ASSUME Level' = Level PROVE Goal
  BY <1>1, Zenon DEF ClientBucketVars
<1>2. ASSUME NEW c \in Clients, Charge(c) PROVE Goal
  <2>1. CASE Level >= 1 /\ Level' = Level - 1
    <3>1. \E n \in 1..Level : Level' = Level - n
      BY <1>0, <2>1
    <3>2. ClientBucket!Take
      BY <3>1, Zenon DEF ClientBucket!Take, Level
    <3> QED BY <3>2, Zenon
  <2> QED BY <1>1, <1>2, <2>1, ClientTakes, Zenon
<1>3. CASE LimitsTick
  <2>1. Level' = Lower(Level + PerTick, RPCBurst)
    BY <1>3, ClientEarns, Zenon
  <2>2. Lower(Level + PerTick, RPCBurst) = ClientBucket!Lesser(Level + PerTick, [r \in {PerTick} |-> RPCBurst][PerTick])
    BY Zenon DEF Lower, ClientBucket!Lesser
  <2>3. ClientBucket!Fill
    BY <2>1, <2>2, Zenon DEF ClientBucket!Fill, Level
  <2> QED BY <2>3, Zenon
<1>4. CASE SweepExpired
  BY <1>1, <1>4, ClientForgotten, Zenon
<1>5. ASSUME UNCHANGED clients PROVE Goal
  <2>1. Level' = Level
    BY <1>5, Zenon DEF Level, Forgotten, Tokens
  <2> QED BY <1>1, <2>1, Zenon
<1> QED BY <1>2, <1>3, <1>4, <1>5, Zenon DEF LimitsNext, HandleRPC, AdmitBackend, limitVars

\* rateLimiter.Allow and SweepExpired: every client has what one bucket allows, for every rate,
\* burst and TTL with TTL * rate >= burst: forgetting it, by the sweep or by its next request,
\* gives it nothing it had not earned.
THEOREM ClientsOneBucket == LimitsSpec => ClientsHaveOneBucket
<1>1. LimitsInit => ClientsOK
  BY Zenon DEF LimitsInit, ClientsOK
<1>2. LimitsInit => ClientBucket!BucketInit
  BY LimitsAssumption, Zenon DEF LimitsInit, ClientBucket!BucketInit, Forgotten
<1>3. ClientBucketVars = <<PerTick, PerTick, IF Forgotten(Watched) THEN RPCBurst ELSE Tokens(Watched)>>
  BY Zenon DEF ClientBucketVars, Level
<1>4. ClientsOK /\ [LimitsNext]_limitVars
        => [ClientBucket!Fill \/ ClientBucket!Take \/ ClientBucket!Change]_<<PerTick, PerTick,
                IF Forgotten(Watched) THEN RPCBurst ELSE Tokens(Watched)>>
  BY ClientBucketStep, Zenon DEF ClientBucketVars, Level
<1> QED BY <1>1, <1>2, <1>4, ClientsStep, PTL DEF LimitsSpec, ClientsHaveOneBucket, ClientBucket!Bucket

-----------------------------------------------------------------------------
\* The windows of the backends.

WindowEntries == [age : 0..Window, count : 1..WindowBurst]

\* While its window lasts a backend has its count and what the window before it admitted;
\* the ticks since the window began hold no more than the count.
WindowAt(b) ==
    IF windows[b] = Unknown THEN \A k \in 0..Window : admitted[b][k] = 0
    ELSE /\ windows[b] \in WindowEntries
         /\ \A k \in 0..Window : /\ admitted[b][k] <= windows[b].count + WindowBurst
                                 /\ k <= windows[b].age => admitted[b][k] <= windows[b].count

WindowsInv ==
    /\ windows \in [Backends -> WindowEntries \cup {Unknown}]
    /\ admitted \in [Backends -> [0..Window -> Nat]]
    /\ \A b \in Backends : WindowAt(b)

\* An entry of the map is not the absence of one.
LEMMA WindowKnown == Unknown \notin WindowEntries
<1>1. WindowEntries \subseteq [age : Nat, count : Nat]
  BY LimitsAssumption DEF WindowEntries
<1> QED BY <1>1, LimitsAssumption, Zenon

\* A request that is admitted.
LEMMA AdmitWindow ==
    ASSUME WindowsInv, NEW b \in Backends, AdmitBackend(b)
    PROVE  WindowsInv'
<1> DEFINE w == IF NewWindow(b) THEN [age |-> 0, count |-> 1] ELSE [windows[b] EXCEPT !.count = windows[b].count + 1]
           a == [k \in 0..Window |-> IF k = 0 THEN 0 ELSE admitted[b][k] + 1]
<1>0. /\ Window \in Nat /\ Window > 0 /\ WindowBurst \in Nat /\ WindowBurst > 0
      /\ windows \in [Backends -> WindowEntries \cup {Unknown}] /\ admitted \in [Backends -> [0..Window -> Nat]]
      /\ admitted[b] \in [0..Window -> Nat] /\ WindowAt(b)
  BY LimitsAssumption DEF WindowsInv
<1>1. windows' = [windows EXCEPT ![b] = w] /\ admitted' = [admitted EXCEPT ![b] = a]
  BY Zenon DEF AdmitBackend
<1>2. a \in [0..Window -> Nat]
  BY <1>0
<1>3. /\ w \in WindowEntries
      /\ \A k \in 0..Window : a[k] <= w.count + WindowBurst /\ (k <= w.age => a[k] <= w.count)
  <2>1. CASE NewWindow(b)
    <3>1. w = [age |-> 0, count |-> 1]
      BY <2>1, Zenon
    <3>2. w \in WindowEntries /\ w.age = 0 /\ w.count = 1
      BY <1>0, <3>1 DEF WindowEntries
    <3>3. ASSUME NEW k \in 0..Window PROVE admitted[b][k] <= WindowBurst
      <4>1. CASE windows[b] = Unknown
        BY <1>0, <4>1 DEF WindowAt
      <4>2. CASE windows[b] # Unknown
        <5>1. windows[b] \in WindowEntries /\ windows[b].age >= Window /\ windows[b].count \in 1..WindowBurst /\ windows[b].age \in 0..Window
          BY <1>0, <2>1, <4>2, Zenon DEF NewWindow, WindowEntries
        <5>2. admitted[b][k] <= windows[b].count /\ admitted[b][k] \in Nat
          BY <1>0, <4>2, <5>1 DEF WindowAt
        <5> QED BY <1>0, <5>1, <5>2
      <4> QED BY <4>1, <4>2, Zenon
    <3>4. ASSUME NEW k \in 0..Window PROVE a[k] <= 1 + WindowBurst /\ (k <= 0 => a[k] <= 1)
      <4>1. admitted[b][k] \in Nat /\ admitted[b][k] <= WindowBurst /\ a[k] = IF k = 0 THEN 0 ELSE admitted[b][k] + 1
        BY <1>0, <3>3, Zenon
      <4> HIDE DEF a
      <4> QED BY <1>0, <4>1
    <3> HIDE DEF w, a
    <3> QED BY <3>2, <3>4, Zenon
  <2>2. CASE ~NewWindow(b)
    <3>1. windows[b] # Unknown /\ windows[b] \in WindowEntries /\ windows[b].count < WindowBurst
      BY <1>0, <2>2, Zenon DEF NewWindow, AdmitBackend
    <3>2. windows[b].count \in 1..WindowBurst /\ windows[b].age \in 0..Window
      BY <3>1, Zenon DEF WindowEntries
    <3>3. w = [windows[b] EXCEPT !.count = windows[b].count + 1]
      BY <2>2, Zenon
    <3>4. w \in WindowEntries /\ w.age = windows[b].age /\ w.count = windows[b].count + 1
      BY <1>0, <3>1, <3>2, <3>3 DEF WindowEntries
    <3>5. ASSUME NEW k \in 0..Window
          PROVE  a[k] <= windows[b].count + 1 + WindowBurst /\ (k <= windows[b].age => a[k] <= windows[b].count + 1)
      <4>1. /\ admitted[b][k] \in Nat /\ a[k] = IF k = 0 THEN 0 ELSE admitted[b][k] + 1
            /\ admitted[b][k] <= windows[b].count + WindowBurst /\ (k <= windows[b].age => admitted[b][k] <= windows[b].count)
        BY <1>0, <3>1, Zenon DEF WindowAt
      <4> HIDE DEF a
      <4> QED BY <1>0, <3>2, <4>1
    <3> HIDE DEF w, a
    <3> QED BY <3>4, <3>5, Zenon
  <2> QED BY <2>1, <2>2, Zenon
<1>4. windows'[b] = w /\ admitted'[b] = a
  BY <1>0, <1>1, Zenon
<1>5. WindowAt(b)'
  <2> HIDE DEF w, a
  <2> QED BY <1>3, <1>4, WindowKnown, Zenon DEF WindowAt
<1>6. ASSUME NEW e \in Backends, e # b PROVE WindowAt(e)'
  <2>1. windows'[e] = windows[e] /\ admitted'[e] = admitted[e]
    BY <1>0, <1>1, <1>6, Zenon
  <2>2. WindowAt(e)
    BY Zenon DEF WindowsInv
  <2> QED BY <2>1, <2>2, Zenon DEF WindowAt
<1>7. /\ windows' \in [Backends -> WindowEntries \cup {Unknown}] /\ admitted' \in [Backends -> [0..Window -> Nat]]
  <2> HIDE DEF w, a
  <2> QED BY <1>0, <1>1, <1>2, <1>3, Zenon
<1> QED BY <1>5, <1>6, <1>7, Zenon DEF WindowsInv

\* Time passes.
LEMMA TickWindow ==
    ASSUME WindowsInv, LimitsTick
    PROVE  WindowsInv'
<1>0. /\ Window \in Nat /\ Window > 0 /\ WindowBurst \in Nat
      /\ windows \in [Backends -> WindowEntries \cup {Unknown}] /\ admitted \in [Backends -> [0..Window -> Nat]]
  BY LimitsAssumption DEF WindowsInv
<1>1. ASSUME NEW b \in Backends
      PROVE  /\ windows'[b] \in WindowEntries \cup {Unknown} /\ admitted'[b] \in [0..Window -> Nat]
             /\ WindowAt(b)'
  <2>1. /\ windows'[b] = IF windows[b] = Unknown THEN Unknown ELSE [windows[b] EXCEPT !.age = Lower(windows[b].age + 1, Window)]
        /\ admitted'[b] = [k \in 0..Window |-> IF k = 0 THEN 0 ELSE admitted[b][k - 1]]
    BY Zenon DEF LimitsTick
  <2>2. admitted[b] \in [0..Window -> Nat] /\ WindowAt(b)
    BY <1>0, Zenon DEF WindowsInv
  <2>3. \A k \in 0..Window : admitted'[b][k] = IF k = 0 THEN 0 ELSE admitted[b][k - 1]
    BY <2>1, Zenon
  <2>4. \A k \in 0..Window : k # 0 => k - 1 \in 0..Window
    BY <1>0
  <2>5. admitted'[b] \in [0..Window -> Nat]
    <3>1. \A k \in 0..Window : (IF k = 0 THEN 0 ELSE admitted[b][k - 1]) \in Nat
      BY <2>2, <2>4, Zenon
    <3> QED BY <2>1, <3>1, Zenon
  <2>6. CASE windows[b] = Unknown
    <3>1. windows'[b] = Unknown /\ \A k \in 0..Window : admitted'[b][k] = 0
      BY <2>1, <2>2, <2>3, <2>4, <2>6, Zenon DEF WindowAt
    <3> QED BY <2>5, <3>1, Zenon DEF WindowAt
  <2>7. CASE windows[b] # Unknown
    <3>1. windows[b] \in WindowEntries /\ windows[b].age \in 0..Window /\ windows[b].count \in 1..WindowBurst
      BY <1>0, <2>7, Zenon DEF WindowEntries
    <3>2. windows'[b] = [windows[b] EXCEPT !.age = Lower(windows[b].age + 1, Window)]
      BY <2>1, <2>7, Zenon
    <3>3. Lower(windows[b].age + 1, Window) \in 0..Window /\ Lower(windows[b].age + 1, Window) <= windows[b].age + 1
      BY <1>0, <3>1 DEF Lower
    <3>4. windows'[b] \in WindowEntries /\ windows'[b].count = windows[b].count /\ windows'[b].age = Lower(windows[b].age + 1, Window)
      BY <3>1, <3>2, <3>3, Zenon DEF WindowEntries
    <3>5. ASSUME NEW k \in 0..Window
          PROVE  admitted'[b][k] <= windows[b].count + WindowBurst
                 /\ (k <= Lower(windows[b].age + 1, Window) => admitted'[b][k] <= windows[b].count)
      <4>1. CASE k = 0
        <5>1. admitted'[b][k] = 0
          BY <2>3, <4>1, Zenon
        <5>2. windows[b].count \in Nat
          BY <1>0, <3>1
        <5> QED BY <1>0, <5>1, <5>2
      <4>2. CASE k # 0
        <5>1. k - 1 \in 0..Window /\ admitted'[b][k] = admitted[b][k - 1] /\ admitted[b][k - 1] \in Nat
          BY <2>2, <2>3, <2>4, <4>2, Zenon
        <5>2. admitted[b][k - 1] <= windows[b].count + WindowBurst /\ (k - 1 <= windows[b].age => admitted[b][k - 1] <= windows[b].count)
          BY <2>2, <2>7, <5>1, Zenon DEF WindowAt
        <5>3. k <= Lower(windows[b].age + 1, Window) => k - 1 <= windows[b].age
          BY <3>1, <3>3
        <5> QED BY <5>1, <5>2, <5>3, Zenon
      <4> QED BY <4>1, <4>2, Zenon
    <3>6. windows'[b] # Unknown
      BY <3>4, WindowKnown, Zenon
    <3> QED BY <2>5, <3>4, <3>5, <3>6, Zenon DEF WindowAt
  <2> QED BY <2>6, <2>7, Zenon
<1>2. windows' = [b \in Backends |-> windows'[b]] /\ admitted' = [b \in Backends |-> admitted'[b]]
  BY Zenon DEF LimitsTick
<1> QED BY <1>1, <1>2, Zenon DEF WindowsInv

\* Every step keeps the windows.
LEMMA WindowsStep == WindowsInv /\ [LimitsNext]_limitVars => WindowsInv'
<1> SUFFICES ASSUME WindowsInv, [LimitsNext]_limitVars PROVE WindowsInv'
  OBVIOUS
<1>1. CASE UNCHANGED <<windows, admitted>>
  BY <1>1, Zenon DEF WindowsInv, WindowAt
<1> QED BY <1>1, AdmitWindow, TickWindow, Zenon DEF LimitsNext, HandleRPC, SweepExpired, limitVars

\* What the windows say of the last ticks.
LEMMA WindowsBound == WindowsInv => TwoWindowsAtMost
<1> SUFFICES ASSUME WindowsInv, NEW b \in Backends PROVE admitted[b][Window] <= 2 * WindowBurst
  BY Zenon DEF TwoWindowsAtMost
<1>1. WindowAt(b) /\ Window \in 0..Window /\ WindowBurst \in Nat /\ admitted[b][Window] \in Nat
  BY LimitsAssumption DEF WindowsInv
<1> QED BY <1>1 DEF WindowAt, WindowEntries

\* identityRateLimiter.Allow: in any window's time at most two windows' worth of the requests of
\* a backend is admitted, for every window and burst.
THEOREM TwoWindowsAlways == LimitsSpec => []TwoWindowsAtMost
<1>1. LimitsInit => WindowsInv
  BY LimitsAssumption DEF LimitsInit, WindowsInv, WindowAt
<1> QED BY <1>1, WindowsStep, WindowsBound, PTL DEF LimitsSpec

\* Both limits of the HTTP listener hold.
THEOREM LimitsHoldAlways == LimitsSpec => LimitsHold
BY ClientsOneBucket, TwoWindowsAlways, Zenon DEF LimitsHold
=============================================================================
