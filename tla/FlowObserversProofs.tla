------------------------ MODULE FlowObserversProofs -------------------------
(***************************************************************************)
(* Proofs about the observers that the flows report to, for any number of  *)
(* flows and goroutines.                                                   *)
(*                                                                         *)
(* An observer is told of a flow by one goroutine at a time, one observer  *)
(* after the other, so that what each one knows of a flow follows from how *)
(* far the call under way has come (FlowsInv).  The gauges count the flows *)
(* between FlowObserver's map and the last observer (GaugeInv).  The       *)
(* traffic counters are, at any time, the sums of what has been added for  *)
(* the flows, which lags behind their counters by the difference that a    *)
(* call is about to add (TrafficInv); that needs what a sum over a finite  *)
(* set is, and how it changes with one of its values.                      *)
(***************************************************************************)
EXTENDS FlowObservers, WellFoundedInduction, FiniteSetTheorems, TLAPS

\* Induction and recursion on natural numbers, with sets and functions in the
\* place of operators.

\* Every nonempty set of numbers has a least one.
LEMMA LeastNumber ==
    ASSUME NEW S \in SUBSET Nat, NEW n \in S
    PROVE  \E m \in S : \A k \in S : m <= k
<1>1. IsWellFoundedOn(OpToRel(<, Nat), Nat)
  BY NatLessThanWellFounded, Zenon
<1>2. PICK m \in S : \A k \in S : ~(<<k, m>> \in OpToRel(<, Nat))
  BY <1>1, WFMin, Zenon
<1>3. \A k \in S : ~(k < m)
  BY <1>2, Zenon DEF OpToRel
<1> QED BY <1>3

\* Induction up to N, over the set of numbers for which a fact holds.
LEMMA Climb ==
    ASSUME NEW N \in Nat, NEW P, 0 \in P, \A n \in 1..N : n - 1 \in P => n \in P
    PROVE  \A n \in 0..N : n \in P
<1> DEFINE Bad == {n \in 0..N : n \notin P}
<1> SUFFICES ASSUME NEW n \in Bad PROVE FALSE
  OBVIOUS
<1>1. PICK m \in Bad : \A k \in Bad : m <= k
  <2>1. Bad \in SUBSET Nat
    OBVIOUS
  <2> HIDE DEF Bad
  <2> QED BY <2>1, LeastNumber, Zenon
<1>2. m \in 1..N /\ m - 1 \in 0..N
  BY <1>1
<1>3. m - 1 \in P
  BY <1>1, <1>2
<1> QED BY <1>1, <1>2, <1>3, Zenon

\* N steps from a, each one a function of S, and the values they go through.
StepsOn(N, S) == [1..N -> [S -> S]]
Iteration(g, N, S, a, step) ==
    g \in [0..N -> S] /\ g[0] = a /\ \A n \in 1..N : g[n] = step[n][g[n - 1]]

\* A function that is defined by its first value and by steps exists.
LEMMA Recursion ==
    ASSUME NEW N \in Nat, NEW S, NEW a \in S, NEW step \in StepsOn(N, S)
    PROVE  \E g : Iteration(g, N, S, a, step)
<1> USE DEF StepsOn
<1> DEFINE Up(k, g) == g[0] = a /\ \A n \in 1..k : g[n] = step[n][g[n - 1]]
           P == {k \in 0..N : \E g \in [0..k -> S] : Up(k, g)}
<1>1. 0 \in P
  <2>1. [i \in 0..0 |-> a] \in [0..0 -> S] /\ Up(0, [i \in 0..0 |-> a])
    OBVIOUS
  <2> HIDE DEF Up
  <2> QED BY <2>1
<1>2. ASSUME NEW k \in 1..N, k - 1 \in P
      PROVE  k \in P
  <2>1. PICK g \in [0..(k - 1) -> S] : Up(k - 1, g)
    BY <1>2, Zenon
  <2> DEFINE h == [i \in 0..k |-> IF i = k THEN step[k][g[k - 1]] ELSE g[i]]
  <2>2. g[k - 1] \in S /\ step[k][g[k - 1]] \in S
    OBVIOUS
  <2>3. h \in [0..k -> S]
    BY <2>2
  <2>4. \A n \in 1..k : h[n] = step[n][h[n - 1]]
    <3> SUFFICES ASSUME NEW n \in 1..k PROVE h[n] = step[n][h[n - 1]]
      BY Zenon
    <3>1. n - 1 \in 0..k /\ n - 1 # k /\ n \in 0..k
      OBVIOUS
    <3>2. h[n - 1] = g[n - 1]
      BY <3>1, Zenon
    <3>3. CASE n = k
      BY <3>1, <3>2, <3>3, Zenon
    <3>4. CASE n # k
      <4>1. n \in 1..(k - 1)
        BY <3>4
      <4> QED BY <2>1, <3>1, <3>2, <3>4, <4>1, Zenon
    <3> QED BY <3>3, <3>4, Zenon
  <2>5. h[0] = a
    BY <2>1
  <2>6. Up(k, h)
    BY <2>4, <2>5, Zenon
  <2> HIDE DEF Up, h
  <2> QED BY <2>3, <2>6
<1>3. N \in P
  <2>1. \A k \in 1..N : k - 1 \in P => k \in P
    BY <1>2, Zenon
  <2> HIDE DEF P
  <2>2. \A k \in 0..N : k \in P
    BY <1>1, <2>1, Climb, Zenon
  <2> QED BY <2>2
<1>4. PICK g \in [0..N -> S] : Up(N, g)
  BY <1>3, Zenon
<1> QED BY <1>4, Zenon DEF Iteration

-----------------------------------------------------------------------------
\* The observers of the Flows.

CallOf == [flow : ObservedFlows \cup {NoEntry}, call : {"open", "update", "close", NoEntry},
           at : {"idle", "status", "flows", "traffic", "events"}, counters : Counters, delta : [Ways -> Nat]]

FlowTypes ==
    /\ phase \in [ObservedFlows -> {"new", "open", "closed"}]
    /\ counter \in [ObservedFlows -> Counters]
    /\ work \in [Workers -> CallOf]
    /\ listed \in [ObservedFlows -> Counters \cup {NoEntry}]
    /\ flows \in [ObservedFlows -> Counters \cup {NoEntry}]
    /\ \A f \in ObservedFlows : phase[f] = "new" => counter[f] = NoBytes

\* A goroutine that is not idle holds a flow, which no other one holds, and the phase of
\* the flow is the one its call has set; the counters it reports are still the current ones.
WorkAt(w) ==
    /\ work[w].flow = NoEntry <=> work[w] = IdleWork
    /\ work[w].flow # NoEntry =>
        /\ work[w].at # "idle"
        /\ \/ work[w].call = "open" /\ phase[work[w].flow] = "open" /\ work[w].at # "traffic"
           \/ work[w].call = "update" /\ phase[work[w].flow] = "open" /\ work[w].at # "events"
           \/ work[w].call = "close" /\ phase[work[w].flow] = "closed"
        /\ work[w].counters = counter[work[w].flow]
        /\ work[w].call = "open" => work[w].counters = NoBytes

WorkInv ==
    /\ \A w \in Workers : WorkAt(w)
    /\ \A w, v \in Workers : work[w].flow = work[v].flow /\ work[w].flow # NoEntry => w = v

\* The observers that a call has passed follow the phase of its flow; those it has still to
\* reach know the flow exactly if its Open has passed them.
ListInv(f) ==
    \/ listed[f] = IF phase[f] = "open" THEN counter[f] ELSE NoEntry
    \/ \E w \in Workers : /\ work[w].flow = f /\ work[w].at = "status"
                          /\ work[w].call = "open" => listed[f] = NoEntry
                          /\ work[w].call = "update" => listed[f] # NoEntry

Knows(f) == flows[f] # NoEntry

Untold(w, f) == work[w].flow = f /\ work[w].at \in {"status", "flows"}

KnowsInv(f) ==
    /\ \A w \in Workers : Untold(w, f) => /\ work[w].call = "open" => ~Knows(f)
                                          /\ work[w].call = "update" => Knows(f)
    /\ (\A w \in Workers : ~Untold(w, f)) => (Knows(f) <=> phase[f] = "open")

\* The flows that the gauges count: those FlowObserver knows, less the ones whose Open has
\* yet to be counted, and those it has forgotten but whose Close has yet to be counted.
At(f, call, steps) == \E w \in Workers : work[w].flow = f /\ work[w].call = call /\ work[w].at \in steps
Counted(f) ==
    \/ Knows(f) /\ ~At(f, "open", {"events"})
    \/ At(f, "close", {"traffic", "events"})
CountedFlows(p) == {f \in Carrying(p) : Counted(f)}

GaugeInv ==
    \A p \in Protos :
        /\ activeGauge[p] = Cardinality(CountedFlows(p))
        /\ flowEvents[p]["open"] = activeGauge[p] + flowEvents[p]["close"]

GaugeTypes ==
    /\ activeGauge \in [Protos -> Nat]
    /\ flowEvents \in [Protos -> [{"open", "close", "reject"} -> Nat]]

FlowsInv == FlowTypes /\ WorkInv /\ \A f \in ObservedFlows : ListInv(f) /\ KnowsInv(f)
ObserversInv == FlowsInv /\ GaugeTypes /\ GaugeInv

-----------------------------------------------------------------------------
\* One goroutine at a time: what concerns a flow is told by the goroutine that holds it.

ListAt(w, f) ==
    \/ listed[f] = IF phase[f] = "open" THEN counter[f] ELSE NoEntry
    \/ /\ work[w].flow = f /\ work[w].at = "status"
       /\ work[w].call = "open" => listed[f] = NoEntry
       /\ work[w].call = "update" => listed[f] # NoEntry

KnowsAt(w, f) ==
    IF Untold(w, f) THEN /\ work[w].call = "open" => ~Knows(f)
                         /\ work[w].call = "update" => Knows(f)
    ELSE Knows(f) <=> phase[f] = "open"

CountedAt(w, f) ==
    \/ Knows(f) /\ ~(work[w].flow = f /\ work[w].call = "open" /\ work[w].at = "events")
    \/ work[w].flow = f /\ work[w].call = "close" /\ work[w].at \in {"traffic", "events"}

\* A step of goroutine w that concerns flow f only.
Frame(w, f) ==
    /\ \A v \in Workers \ {w} : work'[v] = work[v] /\ work[v].flow # f
    /\ \A g \in ObservedFlows \ {f} : /\ phase'[g] = phase[g] /\ counter'[g] = counter[g]
                                     /\ listed'[g] = listed[g] /\ flows'[g] = flows[g]
    /\ work[w].flow \in {f, NoEntry} /\ work'[w].flow \in {f, NoEntry}

\* Under such a step the local statements are the global ones.
LEMMA OneHolder ==
    ASSUME NEW w \in Workers, NEW f \in ObservedFlows, Frame(w, f)
    PROVE  /\ ListInv(f) <=> ListAt(w, f)
           /\ ListAt(w, f)' => ListInv(f)'
           /\ KnowsInv(f) <=> KnowsAt(w, f)
           /\ KnowsAt(w, f)' => KnowsInv(f)'
           /\ Counted(f) <=> CountedAt(w, f)
           /\ Counted(f)' <=> CountedAt(w, f)'
<1>1. \A v \in Workers : (work[v].flow = f => v = w) /\ (work'[v].flow = f => v = w)
  BY Zenon DEF Frame
<1>2. (ListInv(f) <=> ListAt(w, f)) /\ (ListAt(w, f)' => ListInv(f)')
  BY <1>1, Zenon DEF ListInv, ListAt
<1>3. (KnowsInv(f) <=> KnowsAt(w, f)) /\ (KnowsAt(w, f)' => KnowsInv(f)')
  BY <1>1, Zenon DEF KnowsInv, KnowsAt, Untold
<1>4. (Counted(f) <=> CountedAt(w, f)) /\ (Counted(f)' <=> CountedAt(w, f)')
  BY <1>1, Zenon DEF Counted, CountedAt, At, Knows
<1> QED BY <1>2, <1>3, <1>4, Zenon

\* The other flows do not notice it.
LEMMA OthersKept ==
    ASSUME NEW w \in Workers, NEW f \in ObservedFlows, Frame(w, f), NEW g \in ObservedFlows \ {f}
    PROVE  /\ ListInv(g) => ListInv(g)'
           /\ KnowsInv(g) => KnowsInv(g)'
           /\ Counted(g)' <=> Counted(g)
<1>0. g # NoEntry
  BY ObserversAssumption, Zenon
<1>1. \A v \in Workers : (work[v].flow = g => v # w) /\ (work'[v].flow = g => v # w)
  BY <1>0, Zenon DEF Frame
<1>2. \A v \in Workers : work[v].flow = g \/ work'[v].flow = g => work'[v] = work[v]
  BY <1>1, Zenon DEF Frame
<1>3. phase'[g] = phase[g] /\ counter'[g] = counter[g] /\ listed'[g] = listed[g] /\ flows'[g] = flows[g]
  BY Zenon DEF Frame
<1>4. ListInv(g) => ListInv(g)'
  BY <1>2, <1>3, ZenonT(60) DEF ListInv
<1>5. KnowsInv(g) => KnowsInv(g)'
  BY <1>2, <1>3, Zenon DEF KnowsInv, Knows, Untold
<1>6. Knows(g)' <=> Knows(g)
  BY <1>3, Zenon DEF Knows
<1>7. ASSUME NEW call, NEW steps PROVE At(g, call, steps)' <=> At(g, call, steps)
  BY <1>2, Zenon DEF At
<1> QED BY <1>4, <1>5, <1>6, <1>7, Zenon DEF Counted

\* So a step has only to be checked for its own goroutine and flow.
LEMMA FrameInv ==
    ASSUME FlowsInv, NEW w \in Workers, NEW f \in ObservedFlows, Frame(w, f),
           FlowTypes', WorkAt(w)', ListAt(w, f)', KnowsAt(w, f)'
    PROVE  FlowsInv'
<1>1. \A v \in Workers \ {w} : WorkAt(v)'
  <2> SUFFICES ASSUME NEW v \in Workers \ {w} PROVE WorkAt(v)'
    OBVIOUS
  <2>1. work'[v] = work[v] /\ work[v].flow # f /\ WorkAt(v) /\ work[v] \in CallOf
    BY Zenon DEF Frame, FlowsInv, WorkInv, FlowTypes
  <2>2. work[v].flow # NoEntry => /\ phase'[work[v].flow] = phase[work[v].flow]
                                  /\ counter'[work[v].flow] = counter[work[v].flow]
    BY <2>1, Zenon DEF Frame, CallOf
  <2> QED BY <2>1, <2>2, ZenonT(60) DEF WorkAt
<1>2. \A u, v \in Workers : work'[u].flow = work'[v].flow /\ work'[u].flow # NoEntry => u = v
  <2>1. \A v \in Workers \ {w} : work'[v] = work[v] /\ work[v].flow # f
    BY Zenon DEF Frame
  <2>2. work'[w].flow \in {f, NoEntry}
    BY Zenon DEF Frame
  <2>3. \A u, v \in Workers : work[u].flow = work[v].flow /\ work[u].flow # NoEntry => u = v
    BY Zenon DEF FlowsInv, WorkInv
  <2> QED BY <2>1, <2>2, <2>3, ZenonT(60)
<1>3. \A g \in ObservedFlows : ListInv(g)' /\ KnowsInv(g)'
  BY OneHolder, OthersKept, Zenon DEF FlowsInv
<1> QED BY <1>1, <1>2, <1>3, Zenon DEF FlowsInv, WorkInv

\* A step that counts no event keeps the gauges, when it keeps what is counted.
LEMMA GaugeKept ==
    ASSUME GaugeTypes, GaugeInv, UNCHANGED <<activeGauge, flowEvents>>,
           \A g \in ObservedFlows : Counted(g)' <=> Counted(g)
    PROVE  GaugeTypes' /\ GaugeInv'
<1>1. \A p \in Protos : CountedFlows(p)' = CountedFlows(p)
  BY Zenon DEF CountedFlows, Carrying
<1> QED BY <1>1, Zenon DEF GaugeTypes, GaugeInv


-----------------------------------------------------------------------------
\* The steps.

\* A Lifecycle transition: its goroutine was idle and nobody held the flow.
LEMMA TellsStep ==
    ASSUME FlowsInv, NEW w \in Workers, NEW f \in ObservedFlows, NEW call, NEW counters \in Counters,
           Tells(w, f, call, counters), call \in {"open", "update", "close"},
           phase' \in [ObservedFlows -> {"new", "open", "closed"}], counter' \in [ObservedFlows -> Counters],
           \A g \in ObservedFlows \ {f} : phase'[g] = phase[g] /\ counter'[g] = counter[g],
           counter'[f] = counters, phase'[f] # "new",
           \/ call = "open" /\ phase[f] = "new" /\ phase'[f] = "open" /\ counters = NoBytes
           \/ call = "update" /\ phase[f] = "open" /\ phase'[f] = "open"
           \/ call = "close" /\ phase'[f] = "closed"
    PROVE  FlowsInv' /\ Frame(w, f) /\ \A g \in ObservedFlows : Counted(g)' <=> Counted(g)
<1> DEFINE now == [flow |-> f, call |-> call, at |-> "status", counters |-> counters, delta |-> NoBytes]
<1>1. /\ work[w] = IdleWork /\ \A v \in Workers : work[v].flow # f
      /\ work' = [work EXCEPT ![w] = now]
      /\ UNCHANGED <<listed, flows, activeGauge, flowEvents, traffic>>
  BY Zenon DEF Tells, LifecycleLocked
<1>2. work'[w] = now /\ \A v \in Workers \ {w} : work'[v] = work[v]
  BY <1>1, Zenon DEF FlowsInv, FlowTypes
<1>3. now \in CallOf /\ IdleWork.flow = NoEntry /\ f # NoEntry
  BY ObserversAssumption, Zenon DEF CallOf, IdleWork, NoBytes
<1>4. /\ work'[w].flow = f /\ work'[w].call = call /\ work'[w].at = "status" /\ work'[w].counters = counters
      /\ work[w].flow = NoEntry
  BY <1>1, <1>2, <1>3
<1>5. Frame(w, f)
  BY <1>1, <1>2, <1>4, Zenon DEF Frame
<1>6. FlowTypes'
  <2>1. \A g \in ObservedFlows : phase'[g] = "new" => counter'[g] = NoBytes
    BY Zenon DEF FlowsInv, FlowTypes
  <2> QED BY <1>1, <1>3, <2>1, Zenon DEF FlowsInv, FlowTypes
<1>7. WorkAt(w)'
  BY <1>3, <1>4, Zenon DEF WorkAt
<1>8. ListAt(w, f) /\ KnowsAt(w, f)
  BY <1>5, OneHolder, Zenon DEF FlowsInv
<1>9. counter[f] # NoEntry
  BY ObserversAssumption DEF FlowsInv, FlowTypes, Counters
<1>10. ListAt(w, f)' /\ KnowsAt(w, f)'
  BY <1>1, <1>3, <1>4, <1>8, <1>9, Zenon DEF ListAt, KnowsAt, Knows, Untold
<1>11. Counted(f)' <=> Counted(f)
  <2>1. CountedAt(w, f)' <=> CountedAt(w, f)
    BY <1>1, <1>3, <1>4, Zenon DEF CountedAt, Knows
  <2> QED BY <1>5, <2>1, OneHolder, Zenon
<1> QED BY <1>5, <1>6, <1>7, <1>10, <1>11, FrameInv, OthersKept, Zenon

\* Opening, counting and closing are such transitions.
LEMMA LifecycleInv ==
    ASSUME FlowsInv, NEW w \in Workers, NEW f \in ObservedFlows,
           OpenFlow(w, f) \/ CloseFlow(w, f) \/ \E way \in Ways : CountBytes(w, f, way)
    PROVE  /\ FlowsInv' /\ Frame(w, f) /\ UNCHANGED <<activeGauge, flowEvents>>
           /\ \A g \in ObservedFlows : Counted(g)' <=> Counted(g)
<1>1. /\ phase \in [ObservedFlows -> {"new", "open", "closed"}] /\ counter \in [ObservedFlows -> Counters]
      /\ phase[f] = "new" => counter[f] = NoBytes
  BY Zenon DEF FlowsInv, FlowTypes
<1>2. CASE OpenFlow(w, f)
  <2>1. phase[f] = "new" /\ phase' = [phase EXCEPT ![f] = "open"] /\ UNCHANGED counter /\ Tells(w, f, "open", NoBytes)
    BY <1>2, Zenon DEF OpenFlow
  <2>2. /\ phase' \in [ObservedFlows -> {"new", "open", "closed"}] /\ counter' \in [ObservedFlows -> Counters]
        /\ \A g \in ObservedFlows \ {f} : phase'[g] = phase[g] /\ counter'[g] = counter[g]
        /\ counter'[f] = NoBytes /\ NoBytes \in Counters /\ phase'[f] = "open"
    BY <1>1, <2>1, Zenon
  <2>3. FlowsInv' /\ Frame(w, f) /\ \A g \in ObservedFlows : Counted(g)' <=> Counted(g)
    BY <2>1, <2>2, TellsStep, Zenon
  <2> QED BY <2>1, <2>3, Zenon DEF Tells
<1>3. CASE CloseFlow(w, f)
  <2>1. phase' = [phase EXCEPT ![f] = "closed"] /\ UNCHANGED counter /\ Tells(w, f, "close", counter[f])
    BY <1>3, Zenon DEF CloseFlow
  <2>2. /\ phase' \in [ObservedFlows -> {"new", "open", "closed"}] /\ counter' \in [ObservedFlows -> Counters]
        /\ \A g \in ObservedFlows \ {f} : phase'[g] = phase[g] /\ counter'[g] = counter[g]
        /\ counter'[f] = counter[f] /\ counter[f] \in Counters /\ phase'[f] = "closed"
    BY <1>1, <2>1, Zenon
  <2> QED BY <2>1, <2>2, TellsStep, ZenonT(60) DEF Tells
<1>4. ASSUME NEW way \in Ways, CountBytes(w, f, way)
      PROVE  /\ FlowsInv' /\ Frame(w, f) /\ UNCHANGED <<activeGauge, flowEvents>>
             /\ \A g \in ObservedFlows : Counted(g)' <=> Counted(g)
  <2>1. PICK counters : counters = [counter[f] EXCEPT ![way] = @ + 1]
    BY ZenonT(60)
  <2>2. /\ phase[f] = "open" /\ counter[f][way] < MaxBytes /\ UNCHANGED phase
        /\ counter' = [counter EXCEPT ![f] = counters] /\ Tells(w, f, "update", counters)
    BY <1>4, <2>1, Zenon DEF CountBytes
  <2>3. counters \in Counters
    BY <1>1, <2>1, <2>2, ObserversAssumption DEF Counters
  <2>4. /\ phase' \in [ObservedFlows -> {"new", "open", "closed"}] /\ counter' \in [ObservedFlows -> Counters]
        /\ \A g \in ObservedFlows \ {f} : phase'[g] = phase[g] /\ counter'[g] = counter[g]
        /\ counter'[f] = counters /\ phase'[f] = "open"
    BY <1>1, <2>2, <2>3, Zenon
  <2> QED BY <2>2, <2>3, <2>4, TellsStep, ZenonT(60) DEF Tells
<1> QED BY <1>2, <1>3, <1>4, Zenon

\* What is known of a goroutine in a call.
LEMMA InCall ==
    ASSUME FlowsInv, NEW w \in Workers, work[w].at # "idle"
    PROVE  /\ work[w].flow \in ObservedFlows /\ WorkAt(w) /\ work[w] \in CallOf /\ work \in [Workers -> CallOf]
           /\ \A v \in Workers \ {w} : work[v].flow # work[w].flow
           /\ work[w].flow # NoEntry /\ work[w].call \in {"open", "update", "close"}
<1>1. work[w] \in CallOf /\ work \in [Workers -> CallOf] /\ WorkAt(w)
  BY Zenon DEF FlowsInv, FlowTypes, WorkInv
<1>2. work[w].flow # NoEntry
  BY <1>1 DEF WorkAt, IdleWork
<1>3. work[w].flow \in ObservedFlows /\ work[w].call \in {"open", "update", "close"}
  BY <1>1, <1>2, Zenon DEF WorkAt, CallOf
<1>4. \A v \in Workers \ {w} : work[v].flow # work[w].flow
  BY <1>2, Zenon DEF FlowsInv, WorkInv
<1> QED BY <1>1, <1>2, <1>3, <1>4, Zenon

\* The call returns, or reaches the next observer.
LEMMA ReturnStep ==
    ASSUME FlowsInv, NEW w \in Workers, work[w].at # "idle", Return(w)
    PROVE  /\ work' \in [Workers -> CallOf] /\ WorkAt(w)' /\ work'[w].flow = NoEntry
           /\ \A v \in Workers \ {w} : work'[v] = work[v]
<1>1. IdleWork \in CallOf /\ IdleWork.flow = NoEntry
  BY ObserversAssumption DEF CallOf, IdleWork, NoBytes, Counters
<1>2. work' \in [Workers -> CallOf] /\ work'[w] = IdleWork /\ \A v \in Workers \ {w} : work'[v] = work[v]
  BY <1>1, InCall, Zenon DEF Return
<1> QED BY <1>1, <1>2, Zenon DEF WorkAt

\* The call goes on to an observer that it has still to tell.
LEMMA ReachStep ==
    ASSUME FlowsInv, NEW w \in Workers, work[w].at # "idle", UNCHANGED <<phase, counter>>,
           NEW at \in {"flows", "traffic", "events"}, NEW delta \in [Ways -> Nat], Reach(w, at, delta),
           work[w].call = "open" => at # "traffic", work[w].call = "update" => at # "events"
    PROVE  /\ work' \in [Workers -> CallOf] /\ WorkAt(w)'
           /\ work'[w].flow = work[w].flow /\ work'[w].call = work[w].call /\ work'[w].at = at
           /\ \A v \in Workers \ {w} : work'[v] = work[v]
<1>1. PICK now : now = [work[w] EXCEPT !.at = at, !.delta = delta]
  OBVIOUS
<1>2. work[w] \in CallOf /\ WorkAt(w) /\ work[w].flow # NoEntry /\ work \in [Workers -> CallOf]
  BY InCall, Zenon
<1>3. /\ now \in CallOf /\ now.flow = work[w].flow /\ now.call = work[w].call /\ now.at = at
      /\ now.counters = work[w].counters
  BY <1>1, <1>2, ZenonT(60) DEF CallOf
<1>4. work' \in [Workers -> CallOf] /\ work'[w] = now /\ \A v \in Workers \ {w} : work'[v] = work[v]
  BY <1>1, <1>2, <1>3, Zenon DEF Reach
<1>5. now # IdleWork
  BY <1>2, <1>3 DEF IdleWork
<1> QED BY <1>2, <1>3, <1>4, <1>5, Zenon DEF WorkAt

\* The status list is told.
LEMMA TellStatusInv ==
    ASSUME FlowsInv, NEW w \in Workers, TellStatus(w)
    PROVE  /\ FlowsInv' /\ Frame(w, work[w].flow) /\ UNCHANGED <<activeGauge, flowEvents>>
           /\ \A g \in ObservedFlows : Counted(g)' <=> Counted(g)
<1>0. PICK f : f = work[w].flow
  OBVIOUS
<1>1. work[w].at = "status" /\ Reach(w, "flows", NoBytes) /\ UNCHANGED <<phase, counter, flows, activeGauge, flowEvents, traffic>>
  BY Zenon DEF TellStatus
<1>2. PICK entry : entry = CASE work[w].call = "open" -> NoBytes
                             [] work[w].call = "close" -> NoEntry
                             [] OTHER -> IF listed[f] = NoEntry THEN NoEntry ELSE work[w].counters
  OBVIOUS
<1>3. listed' = [listed EXCEPT ![f] = entry]
  BY <1>0, <1>2, Zenon DEF TellStatus
<1>4. /\ f \in ObservedFlows /\ WorkAt(w) /\ work[w] \in CallOf /\ f # NoEntry
      /\ \A v \in Workers \ {w} : work[v].flow # f
      /\ work[w].call \in {"open", "update", "close"}
  BY <1>0, <1>1, InCall, Zenon
<1>5. NoBytes \in [Ways -> Nat] /\ NoBytes \in Counters
  BY ObserversAssumption DEF NoBytes, Counters
<1>6. /\ work' \in [Workers -> CallOf] /\ WorkAt(w)'
      /\ work'[w].flow = f /\ work'[w].call = work[w].call /\ work'[w].at = "flows"
      /\ \A v \in Workers \ {w} : work'[v] = work[v]
  BY <1>0, <1>1, <1>5, ReachStep, Zenon
<1>7. entry \in Counters \cup {NoEntry}
  BY <1>2, <1>4, <1>5, Zenon DEF CallOf
<1>8. /\ listed' \in [ObservedFlows -> Counters \cup {NoEntry}] /\ listed'[f] = entry
      /\ \A g \in ObservedFlows \ {f} : listed'[g] = listed[g]
  BY <1>3, <1>4, <1>7, Zenon DEF FlowsInv, FlowTypes
<1>9. Frame(w, f)
  BY <1>0, <1>1, <1>4, <1>6, <1>8, Zenon DEF Frame
<1>10. FlowTypes'
  BY <1>1, <1>6, <1>8, Zenon DEF FlowsInv, FlowTypes
<1>11. ListAt(w, f) /\ KnowsAt(w, f)
  BY <1>4, <1>9, OneHolder, Zenon DEF FlowsInv
<1>12. ListAt(w, f)'
  <2>1. /\ listed'[f] = entry /\ work[w].counters = counter[f] /\ phase'[f] = phase[f] /\ counter'[f] = counter[f]
        /\ work[w].call = "open" => work[w].counters = NoBytes
        /\ \/ work[w].call = "open" /\ phase[f] = "open"
           \/ work[w].call = "update" /\ phase[f] = "open"
           \/ work[w].call = "close" /\ phase[f] = "closed"
    BY <1>0, <1>1, <1>4, <1>8, Zenon DEF WorkAt
  <2>2. counter[f] # NoEntry
    BY <1>4, ObserversAssumption DEF FlowsInv, FlowTypes, Counters
  <2> QED BY <1>0, <1>2, <1>6, <1>11, <2>1, <2>2, Zenon DEF ListAt
<1>13. KnowsAt(w, f)'
  BY <1>0, <1>1, <1>6, <1>11, Zenon DEF KnowsAt, Knows, Untold
<1>14. Counted(f)' <=> Counted(f)
  <2>1. CountedAt(w, f)' <=> CountedAt(w, f)
    BY <1>1, <1>6, Zenon DEF CountedAt, Knows
  <2> QED BY <1>4, <1>9, <2>1, OneHolder, Zenon
<1> QED BY <1>0, <1>1, <1>4, <1>6, <1>9, <1>10, <1>12, <1>13, <1>14, FrameInv, OthersKept, Zenon

\* FlowObserver is told: it learns the flow, counts it, forgets it, or ignores it.
LEMMA TellFlowsInv ==
    ASSUME FlowsInv, NEW w \in Workers, TellFlows(w)
    PROVE  /\ FlowsInv' /\ Frame(w, work[w].flow) /\ UNCHANGED <<activeGauge, flowEvents>>
           /\ \A g \in ObservedFlows : Counted(g)' <=> Counted(g)
<1>0. PICK f : f = work[w].flow
  OBVIOUS
<1>1. work[w].at = "flows" /\ UNCHANGED <<phase, counter, listed, activeGauge, flowEvents, traffic>>
  BY Zenon DEF TellFlows
<1>2. /\ f \in ObservedFlows /\ WorkAt(w) /\ work[w] \in CallOf /\ f # NoEntry
      /\ \A v \in Workers \ {w} : work[v].flow # f
      /\ work[w].call \in {"open", "update", "close"}
  BY <1>0, <1>1, InCall, Zenon
<1>3. /\ flows \in [ObservedFlows -> Counters \cup {NoEntry}]
      /\ work[w].counters \in Counters /\ work[w].counters # NoEntry
  BY <1>2, ObserversAssumption, Zenon DEF FlowsInv, FlowTypes, CallOf, Counters
<1>4. /\ work[w].call = "open" => phase[f] = "open"
      /\ work[w].call = "update" => phase[f] = "open"
      /\ work[w].call = "close" => phase[f] = "closed"
  BY <1>0, <1>2, Zenon DEF WorkAt
<1>5. ASSUME Frame(w, f), FlowTypes', WorkAt(w)', KnowsAt(w, f)', CountedAt(w, f)' <=> CountedAt(w, f),
             work'[w].flow \in {f, NoEntry}
      PROVE  FlowsInv' /\ \A g \in ObservedFlows : Counted(g)' <=> Counted(g)
  <2>1. ListAt(w, f)
    BY <1>2, <1>5, OneHolder, Zenon DEF FlowsInv
  <2>2. ListAt(w, f)'
    BY <1>1, <2>1, Zenon DEF ListAt
  <2>3. Counted(f)' <=> Counted(f)
    BY <1>2, <1>5, OneHolder, Zenon
  <2> QED BY <1>2, <1>5, <2>2, <2>3, FrameInv, OthersKept, Zenon
<1>6. ASSUME Frame(w, f) PROVE KnowsAt(w, f)
  BY <1>2, <1>6, OneHolder, Zenon DEF FlowsInv
<1>7. CASE work[w].call # "open" /\ flows[f] = NoEntry
  <2>1. UNCHANGED flows /\ Return(w)
    BY <1>0, <1>7, Zenon DEF TellFlows
  <2>2. /\ work' \in [Workers -> CallOf] /\ WorkAt(w)' /\ work'[w].flow = NoEntry
        /\ \A v \in Workers \ {w} : work'[v] = work[v]
    BY <1>1, <2>1, ReturnStep, Zenon
  <2>3. Frame(w, f)
    BY <1>0, <1>1, <1>2, <2>1, <2>2, Zenon DEF Frame
  <2>4. FlowTypes'
    BY <1>1, <2>1, <2>2, Zenon DEF FlowsInv, FlowTypes
  <2>5. KnowsAt(w, f)'
    BY <1>0, <1>1, <1>2, <1>4, <1>6, <1>7, <2>1, <2>2, <2>3, Zenon DEF KnowsAt, Knows, Untold
  <2>6. CountedAt(w, f)' <=> CountedAt(w, f)
    BY <1>1, <1>2, <1>7, <2>1, <2>2, Zenon DEF CountedAt, Knows
  <2> QED BY <1>0, <1>1, <1>5, <2>2, <2>3, <2>4, <2>5, <2>6, Zenon
<1>8. CASE ~(work[w].call # "open" /\ flows[f] = NoEntry)
  <2>1. PICK entry : entry = IF work[w].call = "close" THEN NoEntry ELSE work[w].counters
    OBVIOUS
  <2>2. PICK at : at = IF work[w].call = "open" THEN "events" ELSE "traffic"
    OBVIOUS
  <2>3. PICK delta : delta = IF work[w].call = "open" THEN NoBytes ELSE Delta(flows[f], work[w].counters)
    OBVIOUS
  <2>4. flows' = [flows EXCEPT ![f] = entry] /\ Reach(w, at, delta)
    BY <1>0, <1>8, <2>1, <2>2, <2>3, Zenon DEF TellFlows
  <2>5. delta \in [Ways -> Nat]
    BY <1>2, <1>3, <1>8, <2>3 DEF NoBytes, Delta, Counters
  <2>6. /\ work' \in [Workers -> CallOf] /\ WorkAt(w)'
        /\ work'[w].flow = f /\ work'[w].call = work[w].call /\ work'[w].at = at
        /\ \A v \in Workers \ {w} : work'[v] = work[v]
    BY <1>0, <1>1, <1>2, <2>2, <2>4, <2>5, ReachStep, Zenon
  <2>7. /\ flows' \in [ObservedFlows -> Counters \cup {NoEntry}] /\ flows'[f] = entry
        /\ \A g \in ObservedFlows \ {f} : flows'[g] = flows[g]
    BY <1>2, <1>3, <2>1, <2>4, Zenon
  <2>8. Frame(w, f)
    BY <1>0, <1>1, <1>2, <2>6, <2>7, Zenon DEF Frame
  <2>9. FlowTypes'
    BY <1>1, <2>6, <2>7, Zenon DEF FlowsInv, FlowTypes
  <2>10. KnowsAt(w, f)'
    BY <1>1, <1>2, <1>3, <1>4, <2>1, <2>2, <2>6, <2>7, Zenon DEF KnowsAt, Knows, Untold
  <2>11. CountedAt(w, f)' <=> CountedAt(w, f)
    <3>1. KnowsAt(w, f)
      BY <1>6, <2>8, Zenon
    <3>2. work[w].call = "open" => ~Knows(f)
      BY <1>0, <1>1, <3>1, Zenon DEF KnowsAt, Untold
    <3> QED BY <1>0, <1>1, <1>2, <1>3, <1>8, <2>1, <2>2, <2>6, <2>7, <3>2, Zenon DEF CountedAt, Knows
  <2> QED BY <1>0, <1>1, <1>5, <2>6, <2>8, <2>9, <2>10, <2>11, Zenon
<1> QED BY <1>7, <1>8, Zenon

\* The bytes are added to the traffic; nobody else is told anything.
LEMMA AddBytesInv ==
    ASSUME FlowsInv, NEW w \in Workers, AddBytes(w)
    PROVE  /\ FlowsInv' /\ Frame(w, work[w].flow) /\ UNCHANGED <<activeGauge, flowEvents>>
           /\ \A g \in ObservedFlows : Counted(g)' <=> Counted(g)
<1>0. PICK f : f = work[w].flow
  OBVIOUS
<1>1. /\ work[w].at = "traffic" /\ UNCHANGED <<phase, counter, listed, flows, activeGauge, flowEvents>>
      /\ IF work[w].call = "close" THEN Reach(w, "events", NoBytes) ELSE Return(w)
  BY Zenon DEF AddBytes
<1>2. /\ f \in ObservedFlows /\ WorkAt(w) /\ work[w] \in CallOf /\ f # NoEntry
      /\ \A v \in Workers \ {w} : work[v].flow # f
      /\ work[w].call \in {"open", "update", "close"}
  BY <1>0, <1>1, InCall, Zenon
<1>3. NoBytes \in [Ways -> Nat] /\ work[w].call # "open"
  BY <1>0, <1>1, <1>2, Zenon DEF NoBytes, WorkAt
<1>4. /\ work' \in [Workers -> CallOf] /\ WorkAt(w)'
      /\ \A v \in Workers \ {w} : work'[v] = work[v]
      /\ \/ work[w].call = "close" /\ work'[w].flow = f /\ work'[w].call = "close" /\ work'[w].at = "events"
         \/ work[w].call # "close" /\ work'[w].flow = NoEntry
  <2>1. CASE work[w].call = "close"
    BY <1>0, <1>1, <1>3, <2>1, ReachStep, Zenon
  <2>2. CASE work[w].call # "close"
    BY <1>1, <2>2, ReturnStep, Zenon
  <2> QED BY <2>1, <2>2, Zenon
<1>5. Frame(w, f)
  BY <1>0, <1>1, <1>2, <1>4, Zenon DEF Frame
<1>6. FlowTypes'
  BY <1>1, <1>4, Zenon DEF FlowsInv, FlowTypes
<1>7. ListAt(w, f) /\ KnowsAt(w, f)
  BY <1>2, <1>5, OneHolder, Zenon DEF FlowsInv
<1>8. ListAt(w, f)' /\ KnowsAt(w, f)'
  BY <1>1, <1>2, <1>4, <1>7, Zenon DEF ListAt, KnowsAt, Knows, Untold
<1>9. Counted(f)' <=> Counted(f)
  <2>1. CountedAt(w, f)' <=> CountedAt(w, f)
    BY <1>0, <1>1, <1>2, <1>3, <1>4, Zenon DEF CountedAt, Knows
  <2> QED BY <1>2, <1>5, <2>1, OneHolder, Zenon
<1> QED BY <1>0, <1>1, <1>2, <1>4, <1>5, <1>6, <1>8, <1>9, FrameInv, OthersKept, Zenon

\* The event is counted: an opened flow enters the set behind its gauge, a closed one leaves it.
LEMMA CountEventInv ==
    ASSUME FlowsInv, GaugeTypes, GaugeInv, NEW w \in Workers, CountEvent(w)
    PROVE  FlowsInv' /\ Frame(w, work[w].flow) /\ GaugeTypes' /\ GaugeInv'
<1>0. PICK f, p, call : f = work[w].flow /\ p = ProtocolOf[f] /\ call = work[w].call
  OBVIOUS
<1>1. /\ work[w].at = "events" /\ UNCHANGED <<phase, counter, listed, flows, traffic>> /\ Return(w)
      /\ activeGauge' = [activeGauge EXCEPT ![p] = IF call = "open" THEN @ + 1 ELSE IF @ = 0 THEN 0 ELSE @ - 1]
      /\ flowEvents' = [flowEvents EXCEPT ![p][call] = @ + 1]
  BY <1>0, Zenon DEF CountEvent
<1>2. /\ f \in ObservedFlows /\ WorkAt(w) /\ work[w] \in CallOf /\ f # NoEntry
      /\ \A v \in Workers \ {w} : work[v].flow # f
      /\ call \in {"open", "close"} /\ p \in Protos
  BY <1>0, <1>1, InCall, ObserversAssumption, ZenonT(60) DEF WorkAt
<1>3. /\ work' \in [Workers -> CallOf] /\ WorkAt(w)' /\ work'[w].flow = NoEntry
      /\ \A v \in Workers \ {w} : work'[v] = work[v]
  BY <1>1, ReturnStep, Zenon
<1>4. Frame(w, f)
  BY <1>0, <1>1, <1>2, <1>3, Zenon DEF Frame
<1>5. FlowTypes'
  BY <1>1, <1>3, Zenon DEF FlowsInv, FlowTypes
<1>6. ListAt(w, f) /\ KnowsAt(w, f)
  BY <1>2, <1>4, OneHolder, Zenon DEF FlowsInv
<1>7. ListAt(w, f)' /\ KnowsAt(w, f)'
  BY <1>0, <1>1, <1>2, <1>3, <1>6, Zenon DEF ListAt, KnowsAt, Knows, Untold
<1>8. FlowsInv'
  BY <1>2, <1>3, <1>4, <1>5, <1>7, FrameInv, Zenon
<1>9. (call = "open" => ~Counted(f) /\ Counted(f)') /\ (call = "close" => Counted(f) /\ ~Counted(f)')
  <2>1. (Knows(f) <=> phase[f] = "open") /\ (Knows(f)' <=> Knows(f))
    BY <1>1, <1>6, Zenon DEF KnowsAt, Untold, Knows
  <2>2. (call = "open" => phase[f] = "open") /\ (call = "close" => phase[f] = "closed")
    BY <1>0, <1>1, <1>2, Zenon DEF WorkAt
  <2>3. (call = "open" => ~CountedAt(w, f) /\ CountedAt(w, f)') /\ (call = "close" => CountedAt(w, f) /\ ~CountedAt(w, f)')
    BY <1>0, <1>1, <1>2, <1>3, <2>1, <2>2, Zenon DEF CountedAt
  <2> QED BY <1>2, <1>4, <2>3, OneHolder, Zenon
<1>10. \A g \in ObservedFlows \ {f} : Counted(g)' <=> Counted(g)
  BY <1>2, <1>4, OthersKept, Zenon
<1>11. \A q \in Protos \ {p} : CountedFlows(q)' = CountedFlows(q)
  BY <1>0, <1>10, Zenon DEF CountedFlows, Carrying
<1>12. /\ call = "open" => f \notin CountedFlows(p) /\ CountedFlows(p)' = CountedFlows(p) \cup {f}
       /\ call = "close" => f \in CountedFlows(p) /\ CountedFlows(p)' = CountedFlows(p) \ {f}
  BY <1>0, <1>2, <1>9, <1>10, Zenon DEF CountedFlows, Carrying
<1>13. IsFiniteSet(CountedFlows(p)) /\ Cardinality(CountedFlows(p)) \in Nat
  <2>1. CountedFlows(p) \subseteq ObservedFlows
    BY Zenon DEF CountedFlows, Carrying
  <2> QED BY <2>1, FS_Subset, FS_CardinalityType, ObserversAssumption, Zenon
<1>14. /\ call = "open" => Cardinality(CountedFlows(p)') = Cardinality(CountedFlows(p)) + 1
       /\ call = "close" => /\ Cardinality(CountedFlows(p)') = Cardinality(CountedFlows(p)) - 1
                            /\ Cardinality(CountedFlows(p)) # 0
  <2>1. call = "open" => Cardinality(CountedFlows(p)') = Cardinality(CountedFlows(p)) + 1
    BY <1>12, <1>13, FS_AddElement, Zenon
  <2>2. call = "close" => Cardinality(CountedFlows(p)') = Cardinality(CountedFlows(p)) - 1
    BY <1>12, <1>13, FS_RemoveElement, ZenonT(60)
  <2>3. call = "close" => Cardinality(CountedFlows(p)) # 0
    BY <1>12, <1>13, FS_EmptySet, Zenon
  <2> QED BY <2>1, <2>2, <2>3, Zenon
<1>15. /\ activeGauge[p] \in Nat /\ flowEvents[p] \in [{"open", "close", "reject"} -> Nat]
       /\ activeGauge[p] = Cardinality(CountedFlows(p))
       /\ flowEvents[p]["open"] = activeGauge[p] + flowEvents[p]["close"]
  BY <1>2, Zenon DEF GaugeTypes, GaugeInv
<1>16. GaugeTypes'
  BY <1>1, <1>2 DEF GaugeTypes
<1>17. /\ call = "open" => /\ activeGauge'[p] = activeGauge[p] + 1
                           /\ flowEvents'[p]["open"] = flowEvents[p]["open"] + 1
                           /\ flowEvents'[p]["close"] = flowEvents[p]["close"]
       /\ call = "close" => /\ activeGauge'[p] = activeGauge[p] - 1
                            /\ flowEvents'[p]["open"] = flowEvents[p]["open"]
                            /\ flowEvents'[p]["close"] = flowEvents[p]["close"] + 1
  BY <1>1, <1>2, <1>14, <1>15, Zenon DEF GaugeTypes
<1>18. \A q \in Protos \ {p} : activeGauge'[q] = activeGauge[q] /\ flowEvents'[q] = flowEvents[q]
  BY <1>1, <1>2, Zenon DEF GaugeTypes
<1>19. /\ activeGauge'[p] = Cardinality(CountedFlows(p)')
       /\ flowEvents'[p]["open"] = activeGauge'[p] + flowEvents'[p]["close"]
  BY <1>2, <1>14, <1>15, <1>17
<1>20. ASSUME NEW q \in Protos
       PROVE  /\ activeGauge'[q] = Cardinality(CountedFlows(q)')
              /\ flowEvents'[q]["open"] = activeGauge'[q] + flowEvents'[q]["close"]
  BY <1>11, <1>18, <1>19, Zenon DEF GaugeInv
<1>21. GaugeInv'
  BY <1>20, Zenon DEF GaugeInv
<1> QED BY <1>0, <1>4, <1>8, <1>16, <1>21, Zenon
\* A step that touches neither the flows nor what the observers know of them.
LEMMA FlowsUnmoved ==
    ASSUME FlowsInv, UNCHANGED <<phase, counter, work, listed, flows>>
    PROVE  FlowsInv' /\ \A g \in ObservedFlows : Counted(g)' <=> Counted(g)
<1>1. FlowTypes' /\ WorkInv'
  BY ZenonT(60) DEF FlowsInv, FlowTypes, WorkInv, WorkAt
<1>2. ASSUME NEW g \in ObservedFlows PROVE ListInv(g)'
  BY ZenonT(60) DEF FlowsInv, ListInv
<1>3. ASSUME NEW g \in ObservedFlows PROVE KnowsInv(g)'
  BY Zenon DEF FlowsInv, KnowsInv, Untold, Knows
<1>4. ASSUME NEW g \in ObservedFlows PROVE Counted(g)' <=> Counted(g)
  BY Zenon DEF Counted, At, Knows
<1> QED BY <1>1, <1>2, <1>3, <1>4, Zenon DEF FlowsInv

\* A rejected client has no flow.
LEMMA RejectInv ==
    ASSUME FlowsInv, GaugeTypes, GaugeInv, NEW p \in Protos, RejectClient(p)
    PROVE  FlowsInv' /\ GaugeTypes' /\ GaugeInv'
<1>1. /\ UNCHANGED <<phase, counter, work, listed, flows, activeGauge>>
      /\ flowEvents' = [flowEvents EXCEPT ![p]["reject"] = @ + 1]
  BY Zenon DEF RejectClient
<1>2. FlowsInv' /\ \A q \in Protos : CountedFlows(q)' = CountedFlows(q)
  BY <1>1, FlowsUnmoved, Zenon DEF CountedFlows, Carrying
<1>3. GaugeTypes'
  BY <1>1 DEF GaugeTypes
<1>4. \A q \in Protos : flowEvents'[q]["open"] = flowEvents[q]["open"] /\ flowEvents'[q]["close"] = flowEvents[q]["close"]
  BY <1>1, Zenon DEF GaugeTypes
<1> QED BY <1>1, <1>2, <1>3, <1>4, Zenon DEF GaugeInv

\* Nothing is known of any flow at the start.
LEMMA ObserversInitInv == ObserversInit => ObserversInv
<1> SUFFICES ASSUME ObserversInit PROVE ObserversInv
  OBVIOUS
<1>1. NoBytes \in Counters /\ NoBytes \in [Ways -> Nat]
  BY ObserversAssumption DEF NoBytes, Counters
<1>2. IdleWork \in CallOf /\ IdleWork.flow = NoEntry
  BY <1>1, Zenon DEF IdleWork, CallOf
<1>3. FlowTypes
  BY <1>1, <1>2, Zenon DEF ObserversInit, FlowTypes
<1>4. \A w \in Workers : work[w] = IdleWork
  BY Zenon DEF ObserversInit
<1>5. WorkInv
  BY <1>2, <1>4, Zenon DEF WorkInv, WorkAt
<1>6. \A f \in ObservedFlows : ListInv(f) /\ KnowsInv(f) /\ ~Counted(f)
  <2> SUFFICES ASSUME NEW f \in ObservedFlows PROVE ListInv(f) /\ KnowsInv(f) /\ ~Counted(f)
    OBVIOUS
  <2>1. phase[f] = "new" /\ listed[f] = NoEntry /\ ~Knows(f) /\ f # NoEntry
    BY ObserversAssumption, Zenon DEF ObserversInit, Knows
  <2>2. \A w \in Workers : work[w].flow # f
    BY <1>2, <1>4, <2>1, Zenon
  <2> QED BY <2>1, <2>2, Zenon DEF ListInv, KnowsInv, Untold, Counted, At
<1>7. \A p \in Protos : CountedFlows(p) = {}
  BY <1>6, Zenon DEF CountedFlows, Carrying
<1>8. GaugeTypes /\ GaugeInv
  <2>1. Cardinality({}) = 0
    BY FS_EmptySet, Zenon
  <2>2. \A p \in Protos : activeGauge[p] = 0 /\ flowEvents[p]["open"] = 0 /\ flowEvents[p]["close"] = 0
    BY Zenon DEF ObserversInit
  <2>3. GaugeTypes
    BY Zenon DEF ObserversInit, GaugeTypes
  <2> QED BY <1>7, <2>1, <2>2, <2>3 DEF GaugeInv
<1> QED BY <1>3, <1>5, <1>6, <1>8, Zenon DEF ObserversInv, FlowsInv

\* Every step of every goroutine keeps the invariant.
LEMMA ObserversStepInv ==
    ASSUME ObserversInv, [ObserversNext]_observerVars
    PROVE  ObserversInv'
<1>1. FlowsInv /\ GaugeTypes /\ GaugeInv
  BY Zenon DEF ObserversInv
<1>2. CASE \E w \in Workers : TellStatus(w) \/ TellFlows(w) \/ AddBytes(w)
  BY <1>1, <1>2, TellStatusInv, TellFlowsInv, AddBytesInv, GaugeKept, Zenon DEF ObserversInv
<1>3. CASE \E w \in Workers : CountEvent(w)
  BY <1>1, <1>3, CountEventInv, Zenon DEF ObserversInv
<1>4. CASE \E w \in Workers, f \in ObservedFlows :
             OpenFlow(w, f) \/ CloseFlow(w, f) \/ \E way \in Ways : CountBytes(w, f, way)
  BY <1>1, <1>4, LifecycleInv, GaugeKept, Zenon DEF ObserversInv
<1>5. CASE \E p \in Protos : RejectClient(p)
  BY <1>1, <1>5, RejectInv, Zenon DEF ObserversInv
<1>6. CASE UNCHANGED observerVars
  <2>1. UNCHANGED <<phase, counter, work, listed, flows, activeGauge, flowEvents>>
    BY <1>6, Zenon DEF observerVars
  <2>2. FlowsInv' /\ \A f \in ObservedFlows : Counted(f)' <=> Counted(f)
    BY <1>1, <2>1, FlowsUnmoved, Zenon
  <2> QED BY <1>1, <2>1, <2>2, GaugeKept, Zenon DEF ObserversInv
<1> QED BY <1>2, <1>3, <1>4, <1>5, <1>6, Zenon DEF ObserversNext

\* Between calls the status list and FlowObserver follow the phase of a flow.
LEMMA QuietFlow ==
    ASSUME FlowsInv, NEW f \in ObservedFlows, Quiet(f)
    PROVE  /\ listed[f] = IF phase[f] = "open" THEN counter[f] ELSE NoEntry
           /\ Counted(f) <=> phase[f] = "open"
<1>1. ListInv(f) /\ KnowsInv(f) /\ \A w \in Workers : work[w].flow # f
  BY Zenon DEF FlowsInv, Quiet
<1>2. listed[f] = IF phase[f] = "open" THEN counter[f] ELSE NoEntry
  BY <1>1, Zenon DEF ListInv
<1>3. Knows(f) <=> phase[f] = "open"
  BY <1>1, Zenon DEF KnowsInv, Untold
<1>4. Counted(f) <=> Knows(f)
  BY <1>1, Zenon DEF Counted, At
<1> QED BY <1>2, <1>3, <1>4, Zenon

\* For any number of flows and of goroutines: when no call for it is in progress, a flow is
\* in the status list exactly while it is open, with its current counters.
THEOREM StatusFollowsFlowsAlways == ObserversSpec => []StatusFollowsFlows
<1>1. ObserversInv => StatusFollowsFlows
  BY QuietFlow, Zenon DEF ObserversInv, StatusFollowsFlows
<1> QED BY <1>1, ObserversInitInv, ObserversStepInv, PTL DEF ObserversSpec

\* And when no call of its protocol is in progress, a gauge is the number of open flows, and
\* the flows opened are those and the closed ones.
THEOREM GaugeFollowsFlowsAlways == ObserversSpec => []GaugeFollowsFlows
<1>1. ObserversInv => GaugeFollowsFlows
  <2> SUFFICES ASSUME ObserversInv, NEW p \in Protos, \A f \in Carrying(p) : Quiet(f)
               PROVE  /\ activeGauge[p] = Cardinality({f \in Carrying(p) : phase[f] = "open"})
                      /\ flowEvents[p]["open"] = activeGauge[p] + flowEvents[p]["close"]
    BY Zenon DEF GaugeFollowsFlows
  <2>1. \A f \in Carrying(p) : Counted(f) <=> phase[f] = "open"
    BY QuietFlow, Zenon DEF ObserversInv, Carrying
  <2>2. CountedFlows(p) = {f \in Carrying(p) : phase[f] = "open"}
    BY <2>1, Zenon DEF CountedFlows
  <2> QED BY <2>2, Zenon DEF ObserversInv, GaugeInv
<1> QED BY <1>1, ObserversInitInv, ObserversStepInv, PTL DEF ObserversSpec

-----------------------------------------------------------------------------
\* Sums over a finite set.

\* The sums that MapThenSumSet goes through, by the subsets of S.
IsSum(F, v, S) ==
    /\ F \in [SUBSET S -> Nat] /\ F[{}] = 0
    /\ \A T \in SUBSET S : T # {} =>
           F[T] = v[CHOOSE x \in T : TRUE] + F[T \ {CHOOSE x \in T : TRUE}]

\* A subset less one of its elements.
LEMMA OneLess ==
    ASSUME NEW S, IsFiniteSet(S), NEW T \in SUBSET S, T # {}, NEW c, c = CHOOSE x \in T : TRUE
    PROVE  c \in T /\ T \ {c} \in SUBSET S /\ Cardinality(T) # 0 /\ Cardinality(T \ {c}) = Cardinality(T) - 1
<1>1. c \in T
  BY Zenon
<1>2. IsFiniteSet(T) /\ Cardinality(T) # 0
  BY FS_Subset, FS_EmptySet, Zenon
<1>3. Cardinality(T \ {c}) = Cardinality(T) - 1
  BY <1>1, <1>2, FS_RemoveElement, Zenon
<1>4. T \ {c} \in SUBSET S
  OBVIOUS
<1> QED BY <1>1, <1>2, <1>3, <1>4, Zenon

\* Induction over the subsets of a finite set: what holds of {}, and of a set if it holds of
\* the set less the element that CHOOSE takes, holds of all of them.
LEMMA SubsetInduction ==
    ASSUME NEW S, IsFiniteSet(S), NEW P, {} \in P,
           \A T \in SUBSET S : T # {} /\ T \ {CHOOSE x \in T : TRUE} \in P => T \in P
    PROVE  \A T \in SUBSET S : T \in P
<1> DEFINE N == Cardinality(S)
           Q == {n \in 0..N : \A T \in SUBSET S : Cardinality(T) = n => T \in P}
<1>0. N \in Nat
  BY FS_CardinalityType, Zenon
<1>1. 0 \in Q
  <2>1. \A T \in SUBSET S : Cardinality(T) = 0 => T = {}
    BY FS_Subset, FS_EmptySet, Zenon
  <2>2. 0 \in 0..N
    BY <1>0
  <2> QED BY <2>1, <2>2, Zenon
<1>2. ASSUME NEW n \in 1..N, n - 1 \in Q
      PROVE  n \in Q
  <2>1. ASSUME NEW T \in SUBSET S, Cardinality(T) = n
        PROVE  T \in P
    <3>1. n \in Nat /\ n # 0
      BY <1>0
    <3>2. T # {}
      BY <2>1, <3>1, FS_EmptySet, Zenon
    <3>3. PICK c : c = CHOOSE x \in T : TRUE
      BY Zenon
    <3>4. T \ {c} \in SUBSET S /\ Cardinality(T \ {c}) = n - 1
      BY <2>1, <3>2, <3>3, OneLess, Zenon
    <3>5. T \ {c} \in P
      BY <1>2, <3>4, Zenon
    <3> QED BY <3>2, <3>3, <3>5, Zenon
  <2>2. n \in 0..N
    BY <1>0
  <2> QED BY <2>1, <2>2, Zenon
<1>3. \A n \in 0..N : n \in Q
  <2>1. \A n \in 1..N : n - 1 \in Q => n \in Q
    BY <1>2, Zenon
  <2> HIDE DEF Q, N
  <2> QED BY <1>0, <1>1, <2>1, Climb, Zenon
<1> SUFFICES ASSUME NEW T \in SUBSET S PROVE T \in P
  BY Zenon
<1>4. Cardinality(T) \in Nat /\ Cardinality(T) <= N
  BY FS_Subset, FS_CardinalityType, Zenon
<1>5. Cardinality(T) \in 0..N
  BY <1>0, <1>4
<1> QED BY <1>3, <1>5, Zenon

\* The sums exist: after n rounds they are right for the subsets of up to n elements.
LEMMA SumExists ==
    ASSUME NEW S, IsFiniteSet(S), NEW v \in [S -> Nat]
    PROVE  \E F : IsSum(F, v, S)
<1> DEFINE N == Cardinality(S)
           R == [SUBSET S -> Nat]
           next(F) == [T \in SUBSET S |-> IF T = {} THEN 0
                         ELSE v[CHOOSE x \in T : TRUE] + F[T \ {CHOOSE x \in T : TRUE}]]
           none == [T \in SUBSET S |-> 0]
           step == [n \in 1..N |-> [F \in R |-> next(F)]]
<1>0. N \in Nat
  BY FS_CardinalityType, Zenon
<1>1. none \in R
  OBVIOUS
<1>2. ASSUME NEW F \in R PROVE next(F) \in R
  <2> SUFFICES ASSUME NEW T \in SUBSET S, T # {}
               PROVE  v[CHOOSE x \in T : TRUE] + F[T \ {CHOOSE x \in T : TRUE}] \in Nat
    BY Zenon
  <2>1. PICK c : c = CHOOSE x \in T : TRUE
    BY Zenon
  <2>2. c \in T
    BY <2>1, Zenon
  <2>3. T \ {c} \in SUBSET S
    OBVIOUS
  <2>4. v[c] \in Nat /\ F[T \ {c}] \in Nat
    BY <2>2, <2>3, Zenon
  <2>5. v[c] + F[T \ {c}] \in Nat
    BY <2>4
  <2> QED BY <2>1, <2>5, Zenon
<1>3. step \in StepsOn(N, R)
  <2> HIDE DEF next, R
  <2> QED BY <1>2, Zenon DEF StepsOn
<1>4. PICK g : g \in [0..N -> R] /\ g[0] = none /\ \A n \in 1..N : g[n] = step[n][g[n - 1]]
  <2> HIDE DEF step, R, none, N
  <2>1. \E g : Iteration(g, N, R, none, step)
    BY <1>0, <1>1, <1>3, Recursion, Zenon
  <2> QED BY <2>1, Zenon DEF Iteration
<1>5. ASSUME NEW n \in 1..N PROVE g[n - 1] \in R /\ g[n] = next(g[n - 1])
  <2>1. n - 1 \in 0..N
    BY <1>0
  <2> HIDE DEF next, R
  <2> QED BY <1>4, <2>1, Zenon
<1> DEFINE F == [T \in SUBSET S |-> g[Cardinality(T)][T]]
<1>6. ASSUME NEW T \in SUBSET S PROVE Cardinality(T) \in 0..N
  <2>1. Cardinality(T) \in Nat /\ Cardinality(T) <= N
    BY FS_Subset, FS_CardinalityType, Zenon
  <2> QED BY <1>0, <2>1
<1>7. F \in [SUBSET S -> Nat]
  <2>1. ASSUME NEW T \in SUBSET S PROVE g[Cardinality(T)][T] \in Nat
    <3>1. g[Cardinality(T)] \in R
      BY <1>4, <1>6, Zenon
    <3> QED BY <3>1, Zenon
  <2> QED BY <2>1, Zenon
<1>8. F[{}] = 0
  <2>1. Cardinality({}) = 0 /\ {} \in SUBSET S
    BY FS_EmptySet, Zenon
  <2> QED BY <1>4, <2>1, Zenon
<1>9. ASSUME NEW T \in SUBSET S, T # {}
      PROVE  F[T] = v[CHOOSE x \in T : TRUE] + F[T \ {CHOOSE x \in T : TRUE}]
  <2>1. PICK c : c = CHOOSE x \in T : TRUE
    BY Zenon
  <2>2. PICK n : n = Cardinality(T)
    BY Zenon
  <2>3. n \in 0..N
    BY <1>6, <2>2, Zenon
  <2>4. n \in Nat
    BY <1>0, <2>3
  <2>5. T \ {c} \in SUBSET S /\ n # 0 /\ Cardinality(T \ {c}) = n - 1
    BY <1>9, <2>1, <2>2, OneLess, Zenon
  <2>6. n \in 1..N
    BY <1>0, <2>3, <2>5
  <2>7. g[n] = next(g[n - 1])
    BY <1>5, <2>6, Zenon
  <2>8. F[T] = g[n][T] /\ F[T \ {c}] = g[n - 1][T \ {c}]
    BY <2>2, <2>5, Zenon
  <2>9. g[n][T] = v[c] + g[n - 1][T \ {c}]
    BY <1>9, <2>1, <2>7, Zenon
  <2> QED BY <2>1, <2>8, <2>9, Zenon
<1> HIDE DEF F
<1>10. IsSum(F, v, S)
  BY <1>7, <1>8, <1>9, Zenon DEF IsSum
<1> QED BY <1>10, Zenon

\* Two sums over the same subsets, of functions that agree but for x, differ by their values
\* at x.
LEMMA SumChanged ==
    ASSUME NEW S, IsFiniteSet(S), NEW v \in [S -> Nat], NEW u \in [S -> Nat], NEW x,
           \A y \in S \ {x} : u[y] = v[y], NEW F, NEW G, IsSum(F, v, S), IsSum(G, u, S)
    PROVE  /\ x \notin S => G[S] = F[S]
           /\ x \in S => G[S] + v[x] = F[S] + u[x]
<1> DEFINE Moved(T) == /\ x \notin T => G[T] = F[T]
                       /\ x \in T => G[T] + v[x] = F[T] + u[x]
           P == {T \in SUBSET S : Moved(T)}
<1>1. {} \in P
  BY Zenon DEF IsSum
<1>2. ASSUME NEW T \in SUBSET S, T # {}, T \ {CHOOSE z \in T : TRUE} \in P
      PROVE  T \in P
  <2>1. PICK c : c = CHOOSE z \in T : TRUE
    BY Zenon
  <2>2. c \in T /\ T \ {c} \in SUBSET S
    BY <1>2, <2>1, OneLess, Zenon
  <2>3. Moved(T \ {c})
    BY <1>2, <2>1, Zenon
  <2>4. F[T] = v[c] + F[T \ {c}] /\ G[T] = u[c] + G[T \ {c}]
    BY <1>2, <2>1, ZenonT(60) DEF IsSum
  <2>5. PICK f, g : f = F[T \ {c}] /\ g = G[T \ {c}]
    BY Zenon
  <2>6. f \in Nat /\ g \in Nat /\ v[c] \in Nat /\ u[c] \in Nat
    BY <2>2, <2>5, Zenon DEF IsSum
  <2>7. CASE c = x
    <3>1. g = f
      BY <2>3, <2>5, <2>7, Zenon
    <3>2. F[T] = v[x] + f /\ G[T] = u[x] + f /\ v[x] \in Nat /\ u[x] \in Nat
      BY <2>4, <2>5, <2>6, <2>7, <3>1, Zenon
    <3>3. G[T] + v[x] = F[T] + u[x]
      BY <2>6, <3>2
    <3> QED BY <2>2, <2>7, <3>3, Zenon
  <2>8. CASE c # x
    <3>1. u[c] = v[c] /\ c \in S
      BY <2>2, <2>8, Zenon
    <3>2. x \in T => x \in T \ {c} /\ x \in S
      BY <2>8, Zenon
    <3>3. x \notin T => G[T] = F[T]
      BY <2>3, <2>4, <3>1, Zenon
    <3>4. x \in T => g + v[x] = f + u[x] /\ v[x] \in Nat /\ u[x] \in Nat
      BY <2>3, <2>5, <3>2, Zenon
    <3>5. F[T] = v[c] + f /\ G[T] = v[c] + g
      BY <2>4, <2>5, <3>1, Zenon
    <3>6. x \in T => G[T] + v[x] = F[T] + u[x]
      BY <2>6, <3>4, <3>5
    <3> QED BY <3>3, <3>6, Zenon
  <2> QED BY <2>7, <2>8, Zenon
<1>3. \A T \in SUBSET S : T \in P
  <2>1. \A T \in SUBSET S : T # {} /\ T \ {CHOOSE z \in T : TRUE} \in P => T \in P
    BY <1>2, Zenon
  <2> HIDE DEF P
  <2> QED BY <1>1, <2>1, SubsetInduction, Zenon
<1> QED BY <1>3, Zenon

\* A sum of smaller values is not larger.
LEMMA SumSmaller ==
    ASSUME NEW S, IsFiniteSet(S), NEW v \in [S -> Nat], NEW u \in [S -> Nat],
           \A y \in S : v[y] <= u[y], NEW F, NEW G, IsSum(F, v, S), IsSum(G, u, S)
    PROVE  F[S] <= G[S]
<1> DEFINE P == {T \in SUBSET S : F[T] <= G[T]}
<1>1. {} \in P
  BY DEF IsSum
<1>2. ASSUME NEW T \in SUBSET S, T # {}, T \ {CHOOSE z \in T : TRUE} \in P
      PROVE  T \in P
  <2>1. PICK c : c = CHOOSE z \in T : TRUE
    BY Zenon
  <2>2. c \in T /\ T \ {c} \in SUBSET S
    BY <1>2, <2>1, OneLess, Zenon
  <2>3. PICK f, g : f = F[T \ {c}] /\ g = G[T \ {c}]
    BY Zenon
  <2>4. F[T] = v[c] + f /\ G[T] = u[c] + g /\ f <= g
    BY <1>2, <2>1, <2>3, ZenonT(60) DEF IsSum
  <2>5. f \in Nat /\ g \in Nat /\ v[c] \in Nat /\ u[c] \in Nat /\ v[c] <= u[c]
    BY <2>2, <2>3, ZenonT(60) DEF IsSum
  <2>6. F[T] <= G[T]
    BY <2>4, <2>5
  <2> QED BY <2>6, Zenon
<1>3. \A T \in SUBSET S : T \in P
  <2>1. \A T \in SUBSET S : T # {} /\ T \ {CHOOSE z \in T : TRUE} \in P => T \in P
    BY <1>2, Zenon
  <2> HIDE DEF P
  <2> QED BY <1>1, <2>1, SubsetInduction, Zenon
<1> QED BY <1>3, Zenon

\* A function that is given by the equation of the sums is the sums.
LEMMA EquationIsSum ==
    ASSUME NEW S, IsFiniteSet(S), NEW v \in [S -> Nat], NEW F,
           F = [T \in SUBSET S |-> IF T = {} THEN 0
                  ELSE v[CHOOSE x \in T : TRUE] + F[T \ {CHOOSE x \in T : TRUE}]]
    PROVE  IsSum(F, v, S)
<1> DEFINE P == {T \in SUBSET S : F[T] \in Nat}
<1>1. \A T \in SUBSET S : F[T] = IF T = {} THEN 0 ELSE v[CHOOSE x \in T : TRUE] + F[T \ {CHOOSE x \in T : TRUE}]
  BY Zenon
<1>2. F[{}] = 0 /\ {} \in P
  BY <1>1
<1>3. \A T \in SUBSET S : T # {} => F[T] = v[CHOOSE x \in T : TRUE] + F[T \ {CHOOSE x \in T : TRUE}]
  BY <1>1, Zenon
<1>4. ASSUME NEW T \in SUBSET S, T # {}, T \ {CHOOSE z \in T : TRUE} \in P
      PROVE  T \in P
  <2>1. PICK c : c = CHOOSE z \in T : TRUE
    BY Zenon
  <2>2. c \in T
    BY <1>4, <2>1, Zenon
  <2>3. F[T \ {c}] \in Nat /\ v[c] \in Nat
    BY <1>4, <2>1, <2>2, Zenon
  <2>4. F[T] = v[c] + F[T \ {c}]
    BY <1>3, <1>4, <2>1, Zenon
  <2>5. F[T] \in Nat
    BY <2>3, <2>4
  <2> QED BY <2>5, Zenon
<1>5. \A T \in SUBSET S : T \in P
  <2>1. \A T \in SUBSET S : T # {} /\ T \ {CHOOSE z \in T : TRUE} \in P => T \in P
    BY <1>4, Zenon
  <2> HIDE DEF P
  <2> QED BY <1>2, <2>1, SubsetInduction, Zenon
<1>6. \A T \in SUBSET S : F[T] \in Nat
  BY <1>5, Zenon
<1>7. F \in [SUBSET S -> Nat]
  BY <1>6, Zenon
<1> QED BY <1>2, <1>3, <1>7, Zenon DEF IsSum

\* What MapThenSumSet computes of the bytes that flows have carried in one direction.
LEMMA CarriedIs ==
    ASSUME NEW S \in SUBSET ObservedFlows, IsFiniteSet(S), NEW d \in Ways, NEW v \in [S -> Nat],
           \A f \in S : v[f] = counter[f][d]
    PROVE  \E F : IsSum(F, v, S) /\ MapThenSumSet(LAMBDA f : counter[f][d], S) = F[S]
<1> DEFINE Sums(F) == [T \in SUBSET S |-> IF T = {} THEN 0
                         ELSE counter[CHOOSE x \in T : TRUE][d] + F[T \ {CHOOSE x \in T : TRUE}]]
           iter == CHOOSE F : F = Sums(F)
<1>0. \A T \in SUBSET S : T # {} => v[CHOOSE x \in T : TRUE] = counter[CHOOSE x \in T : TRUE][d]
  <2> SUFFICES ASSUME NEW T \in SUBSET S, T # {}
               PROVE  v[CHOOSE x \in T : TRUE] = counter[CHOOSE x \in T : TRUE][d]
    BY Zenon
  <2>1. PICK c : c = CHOOSE x \in T : TRUE
    BY Zenon
  <2>2. c \in S
    BY <2>1, Zenon
  <2>3. v[c] = counter[c][d]
    BY <2>2, Zenon
  <2> QED BY <2>1, <2>3, Zenon
<1>1. PICK F : IsSum(F, v, S)
  BY SumExists, Zenon
<1>2. F = Sums(F)
  <2>1. F = [T \in SUBSET S |-> F[T]]
    BY <1>1, Zenon DEF IsSum
  <2>2. \A T \in SUBSET S : F[T] = IF T = {} THEN 0
              ELSE counter[CHOOSE x \in T : TRUE][d] + F[T \ {CHOOSE x \in T : TRUE}]
    BY <1>0, <1>1, ZenonT(60) DEF IsSum
  <2> QED BY <2>1, <2>2, Zenon
<1>3. iter = Sums(iter)
  <2> HIDE DEF Sums
  <2>1. \E G : G = Sums(G)
    BY <1>2, Zenon
  <2> QED BY <2>1, Zenon
<1>4. MapThenSumSet(LAMBDA f : counter[f][d], S) = iter[S]
  BY Zenon DEF MapThenSumSet, MapThenFoldSet
<1> HIDE DEF iter
<1>5. iter = [T \in SUBSET S |-> IF T = {} THEN 0
                ELSE v[CHOOSE x \in T : TRUE] + iter[T \ {CHOOSE x \in T : TRUE}]]
  <2>1. iter = [T \in SUBSET S |-> iter[T]]
    BY <1>3, Zenon
  <2>2. \A T \in SUBSET S : iter[T] = IF T = {} THEN 0
              ELSE counter[CHOOSE x \in T : TRUE][d] + iter[T \ {CHOOSE x \in T : TRUE}]
    BY <1>3, Zenon
  <2>3. \A T \in SUBSET S : iter[T] = IF T = {} THEN 0
              ELSE v[CHOOSE x \in T : TRUE] + iter[T \ {CHOOSE x \in T : TRUE}]
    BY <1>0, <2>2, ZenonT(60)
  <2> QED BY <2>1, <2>3, Zenon
<1>6. IsSum(iter, v, S)
  BY <1>5, EquationIsSum, Zenon
<1> QED BY <1>4, <1>6, Zenon

-----------------------------------------------------------------------------
\* The traffic counters.

\* What has been added to the traffic counters for flow f, by how far the call that holds it
\* has come: before FlowObserver is told, what it remembers; between that and addBytes, all
\* but the difference under way; otherwise everything.
Adding(w, f) == work[w].flow = f /\ work[w].at = "traffic"

AddedInv(b, f) ==
    /\ b \in [Ways -> Nat] /\ \A d \in Ways : b[d] <= counter[f][d]
    /\ \A w \in Workers : Untold(w, f) => b = IF Knows(f) THEN flows[f] ELSE counter[f]
    /\ (\A w \in Workers : ~Untold(w, f)) => (Knows(f) => flows[f] = counter[f])
    /\ \A w \in Workers : Adding(w, f) => \A d \in Ways : b[d] + work[w].delta[d] = counter[f][d]
    /\ (\A w \in Workers : ~Untold(w, f) /\ ~Adding(w, f)) => b = counter[f]

AddedAt(w, b, f) ==
    /\ b \in [Ways -> Nat] /\ \A d \in Ways : b[d] <= counter[f][d]
    /\ Untold(w, f) => b = IF Knows(f) THEN flows[f] ELSE counter[f]
    /\ ~Untold(w, f) => (Knows(f) => flows[f] = counter[f])
    /\ Adding(w, f) => \A d \in Ways : b[d] + work[w].delta[d] = counter[f][d]
    /\ ~Untold(w, f) /\ ~Adding(w, f) => b = counter[f]

Values(a, p, d) == [f \in Carrying(p) |-> a[f][d]]

\* The traffic counters are the sums of what has been added for the flows.
TrafficInv ==
    /\ traffic \in [Protos -> [Ways -> Nat]]
    /\ \E a \in [ObservedFlows -> [Ways -> Nat]] :
         /\ \A f \in ObservedFlows : AddedInv(a[f], f)
         /\ \A p \in Protos, d \in Ways :
              \E F : IsSum(F, Values(a, p, d), Carrying(p)) /\ traffic[p][d] = F[Carrying(p)]

\* As for the other observers, a step has to be checked for its own goroutine and flow.
LEMMA OneAdder ==
    ASSUME NEW w \in Workers, NEW f \in ObservedFlows, Frame(w, f), NEW b
    PROVE  /\ AddedInv(b, f) <=> AddedAt(w, b, f)
           /\ AddedAt(w, b, f)' => AddedInv(b, f)'
<1>1. \A v \in Workers : (work[v].flow = f => v = w) /\ (work'[v].flow = f => v = w)
  BY Zenon DEF Frame
<1>2. \A v \in Workers : (Untold(v, f) => v = w) /\ (Adding(v, f) => v = w)
  BY <1>1, Zenon DEF Untold, Adding
<1>3. \A v \in Workers : (Untold(v, f)' => v = w) /\ (Adding(v, f)' => v = w)
  BY <1>1, Zenon DEF Untold, Adding
<1>4. AddedInv(b, f) <=> AddedAt(w, b, f)
  BY <1>2, Zenon DEF AddedInv, AddedAt
<1>5. AddedAt(w, b, f)' => AddedInv(b, f)'
  BY <1>3, Zenon DEF AddedInv, AddedAt
<1> QED BY <1>4, <1>5, Zenon

LEMMA OthersAdded ==
    ASSUME NEW w \in Workers, NEW f \in ObservedFlows, Frame(w, f), NEW g \in ObservedFlows \ {f}, NEW b, AddedInv(b, g)
    PROVE  AddedInv(b, g)'
<1>0. g # NoEntry
  BY ObserversAssumption, Zenon
<1>1. \A v \in Workers : (work[v].flow = g => v # w) /\ (work'[v].flow = g => v # w)
  BY <1>0, Zenon DEF Frame
<1>2. \A v \in Workers : work[v].flow = g \/ work'[v].flow = g => work'[v] = work[v]
  BY <1>1, Zenon DEF Frame
<1>3. phase'[g] = phase[g] /\ counter'[g] = counter[g] /\ flows'[g] = flows[g]
  BY Zenon DEF Frame
<1>4. \A v \in Workers : (Untold(v, g)' <=> Untold(v, g)) /\ (Adding(v, g)' <=> Adding(v, g))
  BY <1>2, Zenon DEF Untold, Adding
<1>5. \A v \in Workers : Adding(v, g) => work'[v].delta = work[v].delta
  BY <1>2, Zenon DEF Adding
<1>6. Knows(g)' <=> Knows(g)
  BY <1>3, Zenon DEF Knows
<1> QED BY <1>3, <1>4, <1>5, <1>6, Zenon DEF AddedInv

\* A Lifecycle transition adds nothing, and FlowObserver remembers what was added before.
LEMMA LifecycleAdded ==
    ASSUME FlowsInv, NEW w \in Workers, NEW f \in ObservedFlows, NEW b, AddedAt(w, b, f), KnowsAt(w, f),
           OpenFlow(w, f) \/ CloseFlow(w, f) \/ \E way \in Ways : CountBytes(w, f, way)
    PROVE  AddedAt(w, b, f)'
<1>1. counter \in [ObservedFlows -> Counters] /\ (phase[f] = "new" => counter[f] = NoBytes)
  BY Zenon DEF FlowsInv, FlowTypes
<1>2. /\ work[w] = IdleWork /\ UNCHANGED <<flows, traffic>>
      /\ \E call, counters : work' = [work EXCEPT ![w] = [flow |-> f, call |-> call, at |-> "status",
                                                         counters |-> counters, delta |-> NoBytes]]
  BY Zenon DEF OpenFlow, CloseFlow, CountBytes, Tells
<1>3. work'[w].flow = f /\ work'[w].at = "status"
  BY <1>2 DEF FlowsInv, FlowTypes
<1>4. ~Untold(w, f) /\ ~Adding(w, f)
  BY <1>2, SMTT(60) DEF Untold, Adding, IdleWork
<1>5. Untold(w, f)' /\ ~Adding(w, f)'
  BY <1>3, Zenon DEF Untold, Adding
<1>6. b = counter[f] /\ (Knows(f) => b = flows[f])
  BY <1>4, Zenon DEF AddedAt
<1>7. \/ UNCHANGED counter
      \/ /\ phase[f] = "open"
         /\ \E way \in Ways : counter' = [counter EXCEPT ![f] = [counter[f] EXCEPT ![way] = counter[f][way] + 1]]
  BY Zenon DEF OpenFlow, CloseFlow, CountBytes
<1>8. phase[f] = "open" => Knows(f)
  BY <1>4, Zenon DEF KnowsAt
<1>9. counter[f] \in [Ways -> Nat]
  BY <1>1, ObserversAssumption DEF Counters
<1>10. b \in [Ways -> Nat] /\ \A d \in Ways : b[d] <= counter'[f][d]
  <2>1. CASE UNCHANGED counter
    <3>1. \A d \in Ways : counter[f][d] <= counter[f][d]
      BY <1>9
    <3> QED BY <1>6, <1>9, <2>1, <3>1, Zenon
  <2>2. CASE ~UNCHANGED counter
    <3>1. PICK way \in Ways : counter' = [counter EXCEPT ![f] = [counter[f] EXCEPT ![way] = counter[f][way] + 1]]
      BY <1>7, <2>2, Zenon
    <3>2. counter'[f] = [counter[f] EXCEPT ![way] = counter[f][way] + 1]
      BY <1>1, <3>1, Zenon
    <3>3. \A d \in Ways : counter[f][d] <= counter'[f][d]
      BY <1>9, <3>2
    <3> QED BY <1>6, <1>9, <3>3, Zenon
  <2> QED BY <2>1, <2>2, Zenon
<1>11. Knows(f)' <=> Knows(f)
  BY <1>2, Zenon DEF Knows
<1>12. b = IF Knows(f)' THEN flows'[f] ELSE counter'[f]
  BY <1>2, <1>6, <1>7, <1>8, <1>11, Zenon
<1> QED BY <1>5, <1>10, <1>12, Zenon DEF AddedAt

\* The status list has nothing to do with it.
LEMMA TellStatusAdded ==
    ASSUME FlowsInv, NEW w \in Workers, NEW f, f = work[w].flow, NEW b, AddedAt(w, b, f), TellStatus(w)
    PROVE  AddedAt(w, b, f)'
<1>1. work[w].at = "status" /\ Reach(w, "flows", NoBytes) /\ UNCHANGED <<phase, counter, flows, traffic>>
  BY Zenon DEF TellStatus
<1>2. work'[w].flow = f /\ work'[w].at = "flows"
  <2>1. NoBytes \in [Ways -> Nat]
    BY Zenon DEF NoBytes
  <2> QED BY <1>1, <2>1, ReachStep, Zenon
<1>3. Untold(w, f) /\ Untold(w, f)' /\ ~Adding(w, f)'
  BY <1>1, <1>2, Zenon DEF Untold, Adding
<1>4. Knows(f)' <=> Knows(f)
  BY <1>1, Zenon DEF Knows
<1> QED BY <1>1, <1>3, <1>4, Zenon DEF AddedAt

\* FlowObserver takes over the counters of the call and gives it the difference to add.
LEMMA TellFlowsAdded ==
    ASSUME FlowsInv, NEW w \in Workers, NEW f, f = work[w].flow, NEW b, AddedAt(w, b, f), KnowsAt(w, f), TellFlows(w)
    PROVE  AddedAt(w, b, f)'
<1>1. work[w].at = "flows" /\ UNCHANGED <<phase, counter, traffic>>
  BY Zenon DEF TellFlows
<1>2. /\ f \in ObservedFlows /\ WorkAt(w) /\ work[w] \in CallOf /\ f # NoEntry
      /\ work[w].call \in {"open", "update", "close"}
  BY <1>1, InCall, Zenon
<1>3. work[w].counters = counter[f] /\ (work[w].call = "open" => ~Knows(f))
  BY <1>1, <1>2, Zenon DEF WorkAt, KnowsAt, Untold
<1>4. Untold(w, f)
  BY <1>1, Zenon DEF Untold
<1>5. b = IF Knows(f) THEN flows[f] ELSE counter[f]
  BY <1>4, Zenon DEF AddedAt
<1>6. flows \in [ObservedFlows -> Counters \cup {NoEntry}] /\ counter[f] \in Counters
  BY <1>2, Zenon DEF FlowsInv, FlowTypes
<1>7. CASE work[w].call # "open" /\ ~Knows(f)
  <2>1. UNCHANGED flows /\ Return(w)
    BY <1>7, Zenon DEF TellFlows, Knows
  <2>2. work'[w].flow = NoEntry
    BY <1>1, <2>1, ReturnStep, Zenon
  <2>3. ~Untold(w, f)' /\ ~Adding(w, f)'
    BY <1>2, <2>2, Zenon DEF Untold, Adding
  <2>4. ~Knows(f)'
    BY <1>7, <2>1, Zenon DEF Knows
  <2> QED BY <1>1, <1>5, <1>7, <2>3, <2>4, Zenon DEF AddedAt
<1>8. CASE ~(work[w].call # "open" /\ ~Knows(f))
  <2>1. PICK entry : entry = IF work[w].call = "close" THEN NoEntry ELSE work[w].counters
    BY Zenon
  <2>2. PICK at : at = IF work[w].call = "open" THEN "events" ELSE "traffic"
    BY Zenon
  <2>3. PICK delta : delta = IF work[w].call = "open" THEN NoBytes ELSE Delta(flows[f], work[w].counters)
    BY Zenon
  <2>4. flows' = [flows EXCEPT ![f] = entry] /\ Reach(w, at, delta)
    BY <1>8, <2>1, <2>2, <2>3, Zenon DEF TellFlows, Knows
  <2>5. work'[w] = [work[w] EXCEPT !.at = at, !.delta = delta]
    BY <2>4, Zenon DEF Reach, FlowsInv, FlowTypes
  <2>6. work'[w].flow = f /\ work'[w].at = at /\ work'[w].delta = delta
    BY <1>2, <2>5, Zenon DEF CallOf
  <2>7. flows'[f] = entry
    BY <1>2, <1>6, <2>4, Zenon
  <2>8. ~Untold(w, f)'
    BY <2>2, <2>6, Zenon DEF Untold
  <2>9. Knows(f)' => flows'[f] = counter'[f]
    BY <1>1, <1>3, <2>1, <2>7, Zenon DEF Knows
  <2>10. ASSUME Adding(w, f)' PROVE \A d \in Ways : b[d] + work'[w].delta[d] = counter'[f][d]
    <3>1. work[w].call # "open" /\ Knows(f)
      BY <1>8, <2>2, <2>6, <2>10, Zenon DEF Adding
    <3>2. b = flows[f] /\ delta = Delta(b, counter[f])
      BY <1>3, <1>5, <2>3, <3>1, Zenon
    <3>3. b \in [Ways -> Nat] /\ counter[f] \in [Ways -> Nat] /\ \A d \in Ways : b[d] <= counter[f][d]
      BY <1>6, ObserversAssumption, SMTT(60) DEF AddedAt, Counters
    <3>4. ASSUME NEW d \in Ways PROVE b[d] + delta[d] = counter[f][d]
      <4>1. delta[d] = IF counter[f][d] > b[d] THEN counter[f][d] - b[d] ELSE 0
        BY <3>2, Zenon DEF Delta
      <4>2. b[d] \in Nat /\ counter[f][d] \in Nat /\ b[d] <= counter[f][d]
        BY <3>3, Zenon
      <4> QED BY <4>1, <4>2
    <3> QED BY <1>1, <2>6, <3>4, Zenon
  <2>11. ASSUME ~Adding(w, f)' PROVE b = counter'[f]
    <3>1. work[w].call = "open"
      BY <2>2, <2>6, <2>11, Zenon DEF Adding
    <3> QED BY <1>1, <1>3, <1>5, <3>1, Zenon
  <2> QED BY <1>1, <2>8, <2>9, <2>10, <2>11, Zenon DEF AddedAt
<1> QED BY <1>7, <1>8, Zenon

\* After addBytes everything has been added.
LEMMA AddBytesAdded ==
    ASSUME FlowsInv, NEW w \in Workers, NEW f, f = work[w].flow, NEW b, AddedAt(w, b, f), AddBytes(w)
    PROVE  /\ AddedAt(w, counter[f], f)'
           /\ \A d \in Ways : b[d] + work[w].delta[d] = counter[f][d]
           /\ f \in ObservedFlows /\ work[w].delta \in [Ways -> Nat]
<1>1. /\ work[w].at = "traffic" /\ UNCHANGED <<phase, counter, flows>>
      /\ IF work[w].call = "close" THEN Reach(w, "events", NoBytes) ELSE Return(w)
  BY Zenon DEF AddBytes
<1>2. /\ f \in ObservedFlows /\ WorkAt(w) /\ work[w] \in CallOf /\ f # NoEntry
      /\ work[w].call \in {"open", "update", "close"}
  BY <1>1, InCall, Zenon
<1>3. work'[w].flow = NoEntry \/ work'[w].at = "events"
  <2>1. NoBytes \in [Ways -> Nat]
    BY Zenon DEF NoBytes
  <2>2. CASE work[w].call = "close"
    BY <1>1, <2>1, <2>2, ReachStep, Zenon
  <2>3. CASE work[w].call # "close"
    BY <1>1, <2>3, ReturnStep, Zenon
  <2> QED BY <2>2, <2>3, Zenon
<1>4. ~Untold(w, f)' /\ ~Adding(w, f)'
  BY <1>2, <1>3, Zenon DEF Untold, Adding
<1>5. ~Untold(w, f) /\ Adding(w, f)
  BY <1>1, Zenon DEF Untold, Adding
<1>6. Knows(f)' => flows'[f] = counter'[f]
  BY <1>1, <1>5, Zenon DEF AddedAt, Knows
<1>7. counter[f] \in [Ways -> Nat] /\ \A d \in Ways : counter[f][d] <= counter[f][d]
  BY <1>2, ObserversAssumption DEF FlowsInv, FlowTypes, Counters
<1>8. AddedAt(w, counter[f], f)'
  BY <1>1, <1>4, <1>6, <1>7, Zenon DEF AddedAt
<1>9. work[w].delta \in [Ways -> Nat]
  BY <1>2, Zenon DEF CallOf
<1> QED BY <1>2, <1>5, <1>8, <1>9, Zenon DEF AddedAt

\* The event is not about bytes.
LEMMA CountEventAdded ==
    ASSUME FlowsInv, NEW w \in Workers, NEW f, f = work[w].flow, NEW b, AddedAt(w, b, f), CountEvent(w)
    PROVE  AddedAt(w, b, f)'
<1>1. work[w].at = "events" /\ UNCHANGED <<phase, counter, flows, traffic>> /\ Return(w)
  BY Zenon DEF CountEvent
<1>2. f # NoEntry /\ work'[w].flow = NoEntry
  BY <1>1, InCall, ReturnStep, Zenon
<1>3. ~Untold(w, f) /\ ~Adding(w, f) /\ ~Untold(w, f)' /\ ~Adding(w, f)'
  BY <1>1, <1>2, Zenon DEF Untold, Adding
<1>4. Knows(f)' <=> Knows(f)
  BY <1>1, Zenon DEF Knows
<1> QED BY <1>1, <1>3, <1>4, Zenon DEF AddedAt

\* A step that adds nothing keeps the sums.
LEMMA TrafficKept ==
    ASSUME TrafficInv, NEW w \in Workers, NEW f \in ObservedFlows, Frame(w, f), UNCHANGED traffic,
           \A b : AddedAt(w, b, f) => AddedAt(w, b, f)'
    PROVE  TrafficInv'
<1>1. PICK a \in [ObservedFlows -> [Ways -> Nat]] :
         /\ \A g \in ObservedFlows : AddedInv(a[g], g)
         /\ \A p \in Protos, d \in Ways :
              \E F : IsSum(F, Values(a, p, d), Carrying(p)) /\ traffic[p][d] = F[Carrying(p)]
  BY Zenon DEF TrafficInv
<1>2. AddedInv(a[f], f)'
  BY <1>1, OneAdder, Zenon
<1>3. \A g \in ObservedFlows \ {f} : AddedInv(a[g], g)'
  BY <1>1, OthersAdded, Zenon
<1>4. \A g \in ObservedFlows : AddedInv(a[g], g)'
  BY <1>2, <1>3, Zenon
<1>5. \A p \in Protos, d \in Ways :
         \E F : IsSum(F, Values(a, p, d), Carrying(p)) /\ traffic'[p][d] = F[Carrying(p)]
  BY <1>1, Zenon
<1>6. traffic' \in [Protos -> [Ways -> Nat]]
  BY Zenon DEF TrafficInv
<1> QED BY <1>4, <1>5, <1>6, Zenon DEF TrafficInv, Values, Carrying

\* The flows of a protocol are finitely many.
LEMMA CarryingFinite ==
    ASSUME NEW p PROVE Carrying(p) \in SUBSET ObservedFlows /\ IsFiniteSet(Carrying(p))
<1>1. Carrying(p) \in SUBSET ObservedFlows
  BY Zenon DEF Carrying
<1> QED BY <1>1, FS_Subset, ObserversAssumption, Zenon

LEMMA ValuesType ==
    ASSUME NEW a \in [ObservedFlows -> [Ways -> Nat]], NEW p, NEW d \in Ways
    PROVE  /\ Values(a, p, d) \in [Carrying(p) -> Nat]
           /\ \A f \in Carrying(p) : Values(a, p, d)[f] = a[f][d] /\ a[f][d] \in Nat
<1>1. \A f \in Carrying(p) : a[f][d] \in Nat
  BY CarryingFinite, Zenon
<1> QED BY <1>1, Zenon DEF Values

\* addBytes adds to the counters of the protocol what was missing of its flow.
LEMMA AddBytesTraffic ==
    ASSUME FlowsInv, TrafficInv, NEW w \in Workers, Frame(w, work[w].flow), AddBytes(w)
    PROVE  TrafficInv'
<1>0. PICK f, q : f = work[w].flow /\ q = ProtocolOf[f]
  BY Zenon
<1>1. PICK a \in [ObservedFlows -> [Ways -> Nat]] :
         /\ \A g \in ObservedFlows : AddedInv(a[g], g)
         /\ \A p \in Protos, d \in Ways :
              \E F : IsSum(F, Values(a, p, d), Carrying(p)) /\ traffic[p][d] = F[Carrying(p)]
  BY Zenon DEF TrafficInv
<1>2. /\ work[w].at = "traffic" /\ UNCHANGED counter
      /\ traffic' = [traffic EXCEPT ![q] = [d \in Ways |-> traffic[q][d] + work[w].delta[d]]]
  BY <1>0, Zenon DEF AddBytes
<1>3. f \in ObservedFlows
  BY <1>0, <1>2, InCall, Zenon
<1>4. q \in Protos /\ f \in Carrying(q)
  BY <1>0, <1>3, ObserversAssumption, Zenon DEF Carrying
<1>5. AddedAt(w, a[f], f)
  BY <1>0, <1>1, <1>3, OneAdder, Zenon
<1>6. /\ AddedAt(w, counter[f], f)' /\ work[w].delta \in [Ways -> Nat]
      /\ \A d \in Ways : a[f][d] + work[w].delta[d] = counter[f][d]
  BY <1>0, <1>5, AddBytesAdded, ZenonT(60)
<1>7. counter[f] \in [Ways -> Nat]
  BY <1>3, ObserversAssumption DEF FlowsInv, FlowTypes, Counters
<1>8. PICK e \in [ObservedFlows -> [Ways -> Nat]] :
         e[f] = counter[f] /\ \A g \in ObservedFlows \ {f} : e[g] = a[g]
  <2>1. PICK x : x = counter[f]
    BY Zenon
  <2>2. [a EXCEPT ![f] = x] \in [ObservedFlows -> [Ways -> Nat]]
    BY <1>7, <2>1, Zenon
  <2>3. [a EXCEPT ![f] = x][f] = x /\ \A g \in ObservedFlows \ {f} : [a EXCEPT ![f] = x][g] = a[g]
    BY <1>3, Zenon
  <2> QED BY <2>1, <2>2, <2>3, Zenon
<1>9. \A g \in ObservedFlows : AddedInv(e[g], g)'
  <2>1. AddedInv(e[f], f)'
    <3>1. AddedAt(w, e[f], f)'
      BY <1>2, <1>6, <1>8, Zenon DEF AddedAt
    <3> QED BY <1>0, <1>3, <3>1, OneAdder, Zenon
  <2>2. \A g \in ObservedFlows \ {f} : AddedInv(a[g], g)'
    BY <1>0, <1>1, <1>3, OthersAdded, Zenon
  <2> QED BY <1>8, <2>1, <2>2, Zenon
<1>10. traffic \in [Protos -> [Ways -> Nat]]
  BY Zenon DEF TrafficInv
<1>11. /\ \A d \in Ways : traffic'[q][d] = traffic[q][d] + work[w].delta[d]
       /\ \A p \in Protos \ {q} : traffic'[p] = traffic[p]
  BY <1>2, <1>4, <1>10, Zenon
<1>12. traffic' \in [Protos -> [Ways -> Nat]]
  BY <1>2, <1>4, <1>6, <1>10
<1>13. ASSUME NEW p \in Protos, NEW d \in Ways
       PROVE  \E G : IsSum(G, Values(e, p, d), Carrying(p)) /\ traffic'[p][d] = G[Carrying(p)]
  <2>1. PICK F : IsSum(F, Values(a, p, d), Carrying(p)) /\ traffic[p][d] = F[Carrying(p)]
    BY <1>1, Zenon
  <2>2. PICK v, u : v = Values(a, p, d) /\ u = Values(e, p, d)
    BY Zenon
  <2>3. /\ v \in [Carrying(p) -> Nat] /\ u \in [Carrying(p) -> Nat]
        /\ \A g \in Carrying(p) : v[g] = a[g][d] /\ u[g] = e[g][d]
    <3>1. v \in [Carrying(p) -> Nat] /\ \A g \in Carrying(p) : v[g] = a[g][d]
      BY <1>1, <2>2, ValuesType
    <3>2. u \in [Carrying(p) -> Nat] /\ \A g \in Carrying(p) : u[g] = e[g][d]
      BY <1>8, <2>2, ValuesType
    <3> QED BY <3>1, <3>2, Zenon
  <2>4. IsFiniteSet(Carrying(p)) /\ Carrying(p) \in SUBSET ObservedFlows
    BY CarryingFinite, Zenon
  <2>5. PICK G : IsSum(G, u, Carrying(p))
    BY <2>3, <2>4, SumExists, Zenon
  <2>6. \A g \in Carrying(p) \ {f} : u[g] = v[g]
    BY <1>8, <2>3, <2>4, ZenonT(60)
  <2>7. /\ f \notin Carrying(p) => G[Carrying(p)] = F[Carrying(p)]
        /\ f \in Carrying(p) => G[Carrying(p)] + v[f] = F[Carrying(p)] + u[f]
    <3>1. PICK C : C = Carrying(p)
      BY Zenon
    <3>2. IsSum(F, v, C) /\ IsSum(G, u, C) /\ IsFiniteSet(C) /\ v \in [C -> Nat] /\ u \in [C -> Nat]
      BY <2>1, <2>2, <2>3, <2>4, <2>5, <3>1, Zenon
    <3>3. \A g \in C \ {f} : u[g] = v[g]
      BY <2>6, <3>1, Zenon
    <3>4. (f \notin C => G[C] = F[C]) /\ (f \in C => G[C] + v[f] = F[C] + u[f])
      BY <3>2, <3>3, SumChanged, SMTT(60)
    <3> QED BY <3>1, <3>4, Zenon
  <2>8. CASE p = q
    <3>1. G[Carrying(p)] + a[f][d] = F[Carrying(p)] + counter[f][d]
      BY <1>4, <1>8, <2>3, <2>7, <2>8, Zenon
    <3>2. F[Carrying(p)] \in Nat /\ G[Carrying(p)] \in Nat
      BY <2>1, <2>5, Zenon DEF IsSum
    <3>3. a[f][d] + work[w].delta[d] = counter[f][d] /\ a[f][d] \in Nat /\ work[w].delta[d] \in Nat
      BY <1>3, <1>6, Zenon
    <3>4. traffic'[p][d] = F[Carrying(p)] + work[w].delta[d]
      BY <1>11, <2>1, <2>8, Zenon
    <3>5. PICK x, y, z, t, c : /\ x = F[Carrying(p)] /\ y = G[Carrying(p)] /\ z = a[f][d] /\ t = work[w].delta[d]
                               /\ c = counter[f][d]
      BY Zenon
    <3>6. x \in Nat /\ y \in Nat /\ z \in Nat /\ t \in Nat /\ z + t = c /\ y + z = x + c
      BY <3>1, <3>2, <3>3, <3>5, Zenon
    <3>7. y = x + t
      BY <3>6
    <3> QED BY <2>2, <2>5, <3>4, <3>5, <3>7, Zenon
  <2>9. CASE p # q
    <3>1. f \notin Carrying(p)
      BY <1>0, <2>9, Zenon DEF Carrying
    <3> QED BY <1>11, <2>1, <2>2, <2>5, <2>7, <2>9, <3>1, Zenon
  <2> QED BY <2>8, <2>9, Zenon
<1> QED BY <1>8, <1>9, <1>12, <1>13, Zenon DEF TrafficInv, Values, Carrying

\* Nothing has been added at the start.
LEMMA TrafficInit == ObserversInit => TrafficInv
<1> SUFFICES ASSUME ObserversInit PROVE TrafficInv
  OBVIOUS
<1> DEFINE a == [f \in ObservedFlows |-> NoBytes]
<1>1. a \in [ObservedFlows -> [Ways -> Nat]] /\ a = counter
  BY Zenon DEF NoBytes, ObserversInit
<1>2. ASSUME NEW f \in ObservedFlows PROVE AddedInv(a[f], f)
  <2>1. flows[f] = NoEntry /\ f # NoEntry /\ \A w \in Workers : work[w] = IdleWork
    BY ObserversAssumption, Zenon DEF ObserversInit
  <2>2. ~Knows(f) /\ \A w \in Workers : ~Untold(w, f) /\ ~Adding(w, f)
    BY <2>1 DEF Knows, Untold, Adding, IdleWork
  <2>3. a[f] = counter[f] /\ a[f] \in [Ways -> Nat] /\ \A d \in Ways : a[f][d] <= counter[f][d]
    BY <1>1
  <2> QED BY <2>2, <2>3, Zenon DEF AddedInv
<1>3. traffic \in [Protos -> [Ways -> Nat]] /\ \A p \in Protos, d \in Ways : traffic[p][d] = 0
  BY Zenon DEF ObserversInit
<1>4. ASSUME NEW p \in Protos, NEW d \in Ways
      PROVE  \E F : IsSum(F, Values(a, p, d), Carrying(p)) /\ traffic[p][d] = F[Carrying(p)]
  <2>1. PICK v : v = Values(a, p, d)
    BY Zenon
  <2>2. \A g \in Carrying(p) : v[g] = 0
    BY <2>1, Zenon DEF Values, NoBytes, Carrying
  <2> DEFINE F == [T \in SUBSET Carrying(p) |-> 0]
  <2>3. ASSUME NEW T \in SUBSET Carrying(p), T # {}
        PROVE  F[T] = v[CHOOSE x \in T : TRUE] + F[T \ {CHOOSE x \in T : TRUE}]
    <3>1. PICK c : c = CHOOSE x \in T : TRUE
      BY Zenon
    <3>2. c \in Carrying(p) /\ T \ {c} \in SUBSET Carrying(p)
      BY <2>3, <3>1, Zenon
    <3>3. F[T] = 0 /\ v[c] = 0 /\ F[T \ {c}] = 0
      BY <2>2, <3>2, Zenon
    <3>4. F[T] = v[c] + F[T \ {c}]
      BY <3>3
    <3> QED BY <3>1, <3>4, Zenon
  <2>4. F \in [SUBSET Carrying(p) -> Nat] /\ F[{}] = 0 /\ F[Carrying(p)] = 0
    OBVIOUS
  <2> HIDE DEF F
  <2>5. IsSum(F, v, Carrying(p))
    BY <2>3, <2>4, Zenon DEF IsSum
  <2> QED BY <1>3, <2>1, <2>4, <2>5, Zenon
<1> HIDE DEF a
<1> QED BY <1>1, <1>2, <1>3, <1>4, Zenon DEF TrafficInv

\* Every step of every goroutine keeps the sums.
LEMMA TrafficStep ==
    ASSUME ObserversInv, TrafficInv, [ObserversNext]_observerVars
    PROVE  TrafficInv'
<1>1. FlowsInv /\ GaugeTypes /\ GaugeInv
  BY Zenon DEF ObserversInv
<1>2. ASSUME NEW w \in Workers, TellStatus(w) PROVE TrafficInv'
  <2>1. PICK f : f = work[w].flow
    BY Zenon
  <2>2. Frame(w, f) /\ f \in ObservedFlows /\ UNCHANGED traffic
    BY <1>1, <1>2, <2>1, TellStatusInv, InCall, Zenon DEF TellStatus
  <2>3. \A b : AddedAt(w, b, f) => AddedAt(w, b, f)'
    BY <1>1, <1>2, <2>1, TellStatusAdded, Zenon
  <2> QED BY <2>2, <2>3, TrafficKept, Zenon
<1>3. ASSUME NEW w \in Workers, TellFlows(w) PROVE TrafficInv'
  <2>1. PICK f : f = work[w].flow
    BY Zenon
  <2>2. Frame(w, f) /\ f \in ObservedFlows /\ UNCHANGED traffic
    BY <1>1, <1>3, <2>1, TellFlowsInv, InCall, SMTT(60) DEF TellFlows
  <2>3. KnowsAt(w, f)
    BY <1>1, <2>2, OneHolder, Zenon DEF FlowsInv
  <2>4. \A b : AddedAt(w, b, f) => AddedAt(w, b, f)'
    BY <1>1, <1>3, <2>1, <2>3, TellFlowsAdded, Zenon
  <2> QED BY <2>2, <2>4, TrafficKept, Zenon
<1>4. ASSUME NEW w \in Workers, AddBytes(w) PROVE TrafficInv'
  BY <1>1, <1>4, AddBytesInv, AddBytesTraffic, Zenon
<1>5. ASSUME NEW w \in Workers, CountEvent(w) PROVE TrafficInv'
  <2>1. PICK f : f = work[w].flow
    BY Zenon
  <2>2. Frame(w, f) /\ f \in ObservedFlows /\ UNCHANGED traffic
    BY <1>1, <1>5, <2>1, CountEventInv, InCall, Zenon DEF CountEvent
  <2>3. \A b : AddedAt(w, b, f) => AddedAt(w, b, f)'
    BY <1>1, <1>5, <2>1, CountEventAdded, Zenon
  <2> QED BY <2>2, <2>3, TrafficKept, Zenon
<1>6. ASSUME NEW w \in Workers, NEW f \in ObservedFlows,
             OpenFlow(w, f) \/ CloseFlow(w, f) \/ \E way \in Ways : CountBytes(w, f, way)
      PROVE  TrafficInv'
  <2>1. Frame(w, f)
    BY <1>1, <1>6, LifecycleInv, Zenon
  <2>2. UNCHANGED traffic
    BY <1>6, Zenon DEF OpenFlow, CloseFlow, CountBytes, Tells
  <2>3. KnowsAt(w, f)
    BY <1>1, <2>1, OneHolder, Zenon DEF FlowsInv
  <2>4. \A b : AddedAt(w, b, f) => AddedAt(w, b, f)'
    BY <1>1, <1>6, <2>3, LifecycleAdded, Zenon
  <2> QED BY <2>1, <2>2, <2>4, TrafficKept, Zenon
<1>7. ASSUME UNCHANGED <<phase, counter, work, flows, traffic>> PROVE TrafficInv'
  <2>1. PICK a \in [ObservedFlows -> [Ways -> Nat]] :
           /\ \A g \in ObservedFlows : AddedInv(a[g], g)
           /\ \A p \in Protos, d \in Ways :
                \E F : IsSum(F, Values(a, p, d), Carrying(p)) /\ traffic[p][d] = F[Carrying(p)]
    BY Zenon DEF TrafficInv
  <2>2. ASSUME NEW g \in ObservedFlows PROVE AddedInv(a[g], g)'
    <3>1. AddedInv(a[g], g)
      BY <2>1, Zenon
    <3> QED BY <1>7, <3>1, Zenon DEF AddedInv, Untold, Adding, Knows
  <2>3. traffic' \in [Protos -> [Ways -> Nat]]
    BY <1>7, Zenon DEF TrafficInv
  <2>4. \A p \in Protos, d \in Ways :
           \E F : IsSum(F, Values(a, p, d), Carrying(p)) /\ traffic'[p][d] = F[Carrying(p)]
    BY <1>7, <2>1, Zenon
  <2> QED BY <2>2, <2>3, <2>4, Zenon DEF TrafficInv, Values, Carrying
<1>8. CASE \E p \in Protos : RejectClient(p)
  BY <1>7, <1>8, Zenon DEF RejectClient
<1>9. CASE UNCHANGED observerVars
  BY <1>7, <1>9, Zenon DEF observerVars
<1> QED BY <1>2, <1>3, <1>4, <1>5, <1>6, <1>8, <1>9, Zenon DEF ObserversNext

\* The sums are never above what the flows have carried, and equal to it between calls.
LEMMA TrafficCounted ==
    ASSUME FlowsInv, TrafficInv PROVE TrafficCountedOnce
<1>1. PICK a \in [ObservedFlows -> [Ways -> Nat]] :
         /\ \A g \in ObservedFlows : AddedInv(a[g], g)
         /\ \A p \in Protos, d \in Ways :
              \E F : IsSum(F, Values(a, p, d), Carrying(p)) /\ traffic[p][d] = F[Carrying(p)]
  BY Zenon DEF TrafficInv
<1>2. ASSUME NEW p \in Protos, NEW d \in Ways, NEW carried,
             carried = MapThenSumSet(LAMBDA f : counter[f][d], Carrying(p))
      PROVE  /\ traffic[p][d] <= carried
             /\ (\A f \in Carrying(p) : Quiet(f)) => traffic[p][d] = carried
  <2>1. PICK F : IsSum(F, Values(a, p, d), Carrying(p)) /\ traffic[p][d] = F[Carrying(p)]
    BY <1>1, Zenon
  <2>2. PICK v, u : v = Values(a, p, d) /\ u = Values(counter, p, d)
    BY Zenon
  <2>3. counter \in [ObservedFlows -> [Ways -> Nat]]
    BY ObserversAssumption DEF FlowsInv, FlowTypes, Counters
  <2>4. /\ v \in [Carrying(p) -> Nat] /\ u \in [Carrying(p) -> Nat]
        /\ \A g \in Carrying(p) : v[g] = a[g][d] /\ u[g] = counter[g][d]
    <3>1. v \in [Carrying(p) -> Nat] /\ \A g \in Carrying(p) : v[g] = a[g][d]
      BY <1>1, <2>2, ValuesType
    <3>2. u \in [Carrying(p) -> Nat] /\ \A g \in Carrying(p) : u[g] = counter[g][d]
      BY <2>2, <2>3, ValuesType
    <3> QED BY <3>1, <3>2, Zenon
  <2>5. IsFiniteSet(Carrying(p)) /\ Carrying(p) \in SUBSET ObservedFlows
    BY CarryingFinite, Zenon
  <2>6. PICK G : IsSum(G, u, Carrying(p)) /\ carried = G[Carrying(p)]
    <3>1. \A g \in Carrying(p) : u[g] = counter[g][d]
      BY <2>4, Zenon
    <3>2. \E G : IsSum(G, u, Carrying(p)) /\ MapThenSumSet(LAMBDA f : counter[f][d], Carrying(p)) = G[Carrying(p)]
      BY <2>4, <2>5, <3>1, CarriedIs, Zenon
    <3> QED BY <1>2, <3>2, Zenon
  <2>7. \A g \in Carrying(p) : v[g] <= u[g]
    BY <1>1, <2>4, <2>5, Zenon DEF AddedInv
  <2>8. F[Carrying(p)] <= G[Carrying(p)]
    BY <2>1, <2>2, <2>4, <2>5, <2>6, <2>7, SumSmaller, Zenon
  <2>9. ASSUME \A f \in Carrying(p) : Quiet(f) PROVE F[Carrying(p)] = G[Carrying(p)]
    <3>1. \A g \in Carrying(p) : a[g] = counter[g]
      BY <1>1, <2>5, <2>9, Zenon DEF AddedInv, Quiet, Untold, Adding
    <3>2. v = u
      BY <2>2, <3>1, Zenon DEF Values
    <3>3. \A g \in Carrying(p) : u[g] <= v[g]
      BY <2>4, <3>2
    <3>4. G[Carrying(p)] <= F[Carrying(p)]
      BY <2>1, <2>2, <2>4, <2>5, <2>6, <3>3, SumSmaller, Zenon
    <3>5. F[Carrying(p)] \in Nat /\ G[Carrying(p)] \in Nat
      BY <2>1, <2>6, <2>5, Zenon DEF IsSum
    <3> QED BY <2>8, <3>4, <3>5
  <2> QED BY <2>1, <2>6, <2>8, <2>9, Zenon
<1> QED BY <1>2, Zenon DEF TrafficCountedOnce

\* For any number of flows and of goroutines, the observers agree with the Flows and so with
\* each other: the status list and the gauges as above, and the traffic counters, which never
\* count a byte twice and have counted all of them when no call is in progress.
THEOREM ObserversFollowFlowsAlways == ObserversSpec => []ObserversFollowFlows
<1>1. ObserversInit => ObserversInv /\ TrafficInv
  BY ObserversInitInv, TrafficInit, Zenon
<1>2. ObserversInv /\ TrafficInv /\ [ObserversNext]_observerVars => (ObserversInv /\ TrafficInv)'
  BY ObserversStepInv, TrafficStep, Zenon
<1>3. ObserversInv /\ TrafficInv => TrafficCountedOnce
  BY TrafficCounted, Zenon DEF ObserversInv
<1>4. ObserversSpec => []TrafficCountedOnce
  BY <1>1, <1>2, <1>3, PTL DEF ObserversSpec
<1> QED BY <1>4, StatusFollowsFlowsAlways, GaugeFollowsFlowsAlways, PTL DEF ObserversFollowFlows
=============================================================================
