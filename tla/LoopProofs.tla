----------------------------- MODULE LoopProofs -----------------------------
(***************************************************************************)
(* Proofs about the code that loops over a list: the writer of the audit   *)
(* pipeline, for any number of flows and queues and batches of any size,   *)
(* and the selection of an upstream, for any list of candidates.           *)
(*                                                                         *)
(* The loops are recursive functions of the modules: upsertAll and Records *)
(* over a batch, SelectBest over the tags in their order.  What they       *)
(* compute is proved with the lemmas of the first part: the function       *)
(* exists, and its values are reached one by one.                          *)
(*                                                                         *)
(* AuditPipeline: AuditAccounting is inductive with the types.             *)
(* RowsFollowFlows is not: it needs where the row of a closed flow is while*)
(* nothing was dropped (WayInv), that a worker returns only when nothing   *)
(* can come any more (ExitInv), and that no upsert opens a closed row      *)
(* (Frozen, RowInv).                                                       *)
(*                                                                         *)
(* UpstreamManager: selectBestLocked keeps, after each turn of its loop,   *)
(* the first of the candidates seen so far (BestUpTo): the documented      *)
(* order is transitive, and a tag that is not better than one before it    *)
(* comes after it.  The rest is the types and that an override is one of   *)
(* the route's own upstreams (UpstreamInv).                                *)
(***************************************************************************)
EXTENDS AuditPipeline, UpstreamManager, WellFoundedInduction, TLAPS

\* Induction and recursion on natural numbers, with sets and functions in the
\* place of operators.

\* Every nonempty set of numbers has a least one.
LEMMA LeastNumber ==
    ASSUME NEW S \in SUBSET Nat, NEW n \in S
    PROVE  \E m \in S : \A k \in S : m <= k
<1>1. IsWellFoundedOn(OpToRel(<, Nat), Nat)
  BY NatLessThanWellFounded, Zenon
<1>2. PICK m \in S : \A k \in S : ~(<<k, m>> \in OpToRel(<, Nat))
  BY <1>1, WFMin, Zenon
<1>3. \A k \in S : ~(k < m)
  BY <1>2, Zenon DEF OpToRel
<1> QED BY <1>3

\* Induction up to N, over the set of numbers for which a fact holds.
LEMMA Climb ==
    ASSUME NEW N \in Nat, NEW P, 0 \in P, \A n \in 1..N : n - 1 \in P => n \in P
    PROVE  \A n \in 0..N : n \in P
<1> DEFINE Bad == {n \in 0..N : n \notin P}
<1> SUFFICES ASSUME NEW n \in Bad PROVE FALSE
  OBVIOUS
<1>1. PICK m \in Bad : \A k \in Bad : m <= k
  <2>1. Bad \in SUBSET Nat
    OBVIOUS
  <2> HIDE DEF Bad
  <2> QED BY <2>1, LeastNumber, Zenon
<1>2. m \in 1..N /\ m - 1 \in 0..N
  BY <1>1
<1>3. m - 1 \in P
  BY <1>1, <1>2
<1> QED BY <1>1, <1>2, <1>3, Zenon

\* N steps from a, each one a function of S, and the values they go through.
StepsOn(N, S) == [1..N -> [S -> S]]
Iteration(g, N, S, a, step) ==
    g \in [0..N -> S] /\ g[0] = a /\ \A n \in 1..N : g[n] = step[n][g[n - 1]]

\* A function that is defined by its first value and by steps exists.
LEMMA Recursion ==
    ASSUME NEW N \in Nat, NEW S, NEW a \in S, NEW step \in StepsOn(N, S)
    PROVE  \E g : Iteration(g, N, S, a, step)
<1> USE DEF StepsOn
<1> DEFINE Up(k, g) == g[0] = a /\ \A n \in 1..k : g[n] = step[n][g[n - 1]]
           P == {k \in 0..N : \E g \in [0..k -> S] : Up(k, g)}
<1>1. 0 \in P
  <2>1. [i \in 0..0 |-> a] \in [0..0 -> S] /\ Up(0, [i \in 0..0 |-> a])
    OBVIOUS
  <2> HIDE DEF Up
  <2> QED BY <2>1
<1>2. ASSUME NEW k \in 1..N, k - 1 \in P
      PROVE  k \in P
  <2>1. PICK g \in [0..(k - 1) -> S] : Up(k - 1, g)
    BY <1>2, Zenon
  <2> DEFINE h == [i \in 0..k |-> IF i = k THEN step[k][g[k - 1]] ELSE g[i]]
  <2>2. g[k - 1] \in S /\ step[k][g[k - 1]] \in S
    OBVIOUS
  <2>3. h \in [0..k -> S]
    BY <2>2
  <2>4. \A n \in 1..k : h[n] = step[n][h[n - 1]]
    <3> SUFFICES ASSUME NEW n \in 1..k PROVE h[n] = step[n][h[n - 1]]
      BY Zenon
    <3>1. n - 1 \in 0..k /\ n - 1 # k /\ n \in 0..k
      OBVIOUS
    <3>2. h[n - 1] = g[n - 1]
      BY <3>1, Zenon
    <3>3. CASE n = k
      BY <3>1, <3>2, <3>3, Zenon
    <3>4. CASE n # k
      <4>1. n \in 1..(k - 1)
        BY <3>4
      <4> QED BY <2>1, <3>1, <3>2, <3>4, <4>1, Zenon
    <3> QED BY <3>3, <3>4, Zenon
  <2>5. h[0] = a
    BY <2>1
  <2>6. Up(k, h)
    BY <2>4, <2>5, Zenon
  <2> HIDE DEF Up, h
  <2> QED BY <2>3, <2>6
<1>3. N \in P
  <2>1. \A k \in 1..N : k - 1 \in P => k \in P
    BY <1>2, Zenon
  <2> HIDE DEF P
  <2>2. \A k \in 0..N : k \in P
    BY <1>1, <2>1, Climb, Zenon
  <2> QED BY <2>2
<1>4. PICK g \in [0..N -> S] : Up(N, g)
  BY <1>3, Zenon
<1> QED BY <1>4, Zenon DEF Iteration

-----------------------------------------------------------------------------
Tables == [Flows -> Row \cup {Absent}]

\* Nothing happens to the closed rows: state, key and address stay.
Frozen(t, u) ==
    \A f \in Flows : t[f] # Absent /\ t[f].state = "closed" =>
        u[f] # Absent /\ u[f].state = "closed" /\ u[f].key = t[f].key /\ u[f].local = t[f].local

\* The row an upsert leaves.
LEMMA UpsertRow ==
    ASSUME NEW t \in Tables, NEW e \in Entity
    PROVE  /\ upsertFlowEntity(t, e) \in Tables
           /\ upsertFlowEntity(t, e)[e.flow] \in Row
           /\ e.state = "closed" => upsertFlowEntity(t, e)[e.flow].state = "closed"
           /\ \A f \in Flows : f # e.flow => upsertFlowEntity(t, e)[f] = t[f]
           /\ t[e.flow] # Absent /\ t[e.flow].state = "closed" =>
                /\ upsertFlowEntity(t, e)[e.flow].state = "closed"
                /\ upsertFlowEntity(t, e)[e.flow].key = t[e.flow].key
                /\ upsertFlowEntity(t, e)[e.flow].local = t[e.flow].local
<1> DEFINE new == IF t[e.flow] = Absent THEN [state |-> e.state, gen |-> e.gen, key |-> e.key, local |-> e.local]
                  ELSE merge(t[e.flow], e)
<1>1. /\ e.flow \in Flows /\ e.state \in {"active", "closed"} /\ e.gen \in {0, 1}
      /\ e.key \in BOOLEAN /\ e.local \in Local
  BY Zenon DEF Entity
<1>2. t[e.flow] \in Row \cup {Absent}
  BY <1>1, Zenon DEF Tables
<1>3. new \in Row
  BY <1>1, <1>2, Zenon DEF Row, merge, Greater, takesTuple
<1>4. e.state = "closed" => new.state = "closed"
  BY <1>1, <1>2, Zenon DEF Row, merge
<1>5. t[e.flow] # Absent /\ t[e.flow].state = "closed" =>
        new.state = "closed" /\ new.key = t[e.flow].key /\ new.local = t[e.flow].local
  BY <1>1, <1>2, Zenon DEF Row, merge, takesTuple
<1>6. upsertFlowEntity(t, e) = [t EXCEPT ![e.flow] = new]
  BY Zenon DEF upsertFlowEntity
<1> HIDE DEF new
<1> QED BY <1>1, <1>3, <1>4, <1>5, <1>6, Zenon DEF Tables

LEMMA UpsertType ==
    ASSUME NEW t \in Tables, NEW e \in Entity
    PROVE  upsertFlowEntity(t, e) \in Tables
BY UpsertRow, Zenon

LEMMA UpsertFreezes ==
    ASSUME NEW t \in Tables, NEW e \in Entity
    PROVE  Frozen(t, upsertFlowEntity(t, e))
<1> PICK u : u = upsertFlowEntity(t, e)
  OBVIOUS
<1>1. /\ u[e.flow] \in Row
      /\ \A f \in Flows : f # e.flow => u[f] = t[f]
      /\ t[e.flow] # Absent /\ t[e.flow].state = "closed" =>
            u[e.flow].state = "closed" /\ u[e.flow].key = t[e.flow].key /\ u[e.flow].local = t[e.flow].local
  BY UpsertRow, Zenon
<1>2. u[e.flow] # Absent
  BY <1>1, AbsentAssumption, Zenon
<1> QED BY <1>1, <1>2, Zenon DEF Frozen

LEMMA UpsertCloses ==
    ASSUME NEW t \in Tables, NEW e \in Entity, e.state = "closed", NEW u, u = upsertFlowEntity(t, e)
    PROVE  u[e.flow] # Absent /\ u[e.flow].state = "closed"
<1>1. u[e.flow] \in Row /\ u[e.flow].state = "closed"
  BY UpsertRow, Zenon
<1> QED BY <1>1, AbsentAssumption, Zenon

LEMMA FrozenTransitive ==
    ASSUME NEW t, NEW u, NEW v, Frozen(t, u), Frozen(u, v)
    PROVE  Frozen(t, v)
BY Zenon DEF Frozen

\* upsertAll goes through a table per entity.
LEMMA UpsertSteps ==
    ASSUME NEW table \in Tables, NEW es \in Seq(Entity)
    PROVE  \E g \in [0..Len(es) -> Tables] :
              /\ g[0] = table
              /\ \A n \in 1..Len(es) : g[n] = upsertFlowEntity(g[n - 1], es[n])
              /\ upsertAll(table, es) = g[Len(es)]
<1> DEFINE N == Len(es)
           step == [n \in 1..N |-> [t \in Tables |-> upsertFlowEntity(t, es[n])]]
           Eq(g) == g = [n \in 0..N |-> IF n = 0 THEN table ELSE upsertFlowEntity(g[n - 1], es[n])]
           after == CHOOSE g : Eq(g)
<1>0. N \in Nat /\ \A n \in 1..N : es[n] \in Entity
  OBVIOUS
<1>1. step \in StepsOn(N, Tables)
  BY <1>0, UpsertType, Zenon DEF StepsOn
<1>2. PICK g \in [0..N -> Tables] : g[0] = table /\ \A n \in 1..N : g[n] = step[n][g[n - 1]]
  <2> HIDE DEF step, N
  <2>1. \E g : Iteration(g, N, Tables, table, step)
    BY <1>0, <1>1, Recursion, Zenon
  <2> QED BY <2>1, Zenon DEF Iteration
<1>3. \A n \in 1..N : g[n - 1] \in Tables /\ n - 1 \in 0..N
  BY <1>0
<1>4. \A n \in 1..N : g[n] = upsertFlowEntity(g[n - 1], es[n])
  BY <1>2, <1>3, Zenon
<1>5. Eq(g)
  BY <1>0, <1>2, <1>4
<1>6. Eq(after)
  <2> HIDE DEF Eq
  <2> QED BY <1>5, Zenon
<1>7. after[0] = table /\ \A n \in 1..N : after[n] = upsertFlowEntity(after[n - 1], es[n])
  <2> SUFFICES ASSUME NEW h, Eq(h)
               PROVE  h[0] = table /\ \A n \in 1..N : h[n] = upsertFlowEntity(h[n - 1], es[n])
    BY <1>6, Zenon
  <2>1. PICK F : F = [n \in 0..N |-> IF n = 0 THEN table ELSE upsertFlowEntity(h[n - 1], es[n])]
    BY Zenon
  <2>2. F[0] = table /\ \A n \in 1..N : F[n] = upsertFlowEntity(h[n - 1], es[n])
    BY <1>0, <2>1
  <2> QED BY <2>1, <2>2, Zenon
<1>8. upsertAll(table, es) = after[N]
  BY Zenon DEF upsertAll
<1> HIDE DEF after
<1>9. \A n \in 0..N : n \in {k \in 0..N : after[k] = g[k]}
  <2> DEFINE P == {k \in 0..N : after[k] = g[k]}
  <2>1. 0 \in P
    BY <1>0, <1>2, <1>7
  <2>2. \A n \in 1..N : n - 1 \in P => n \in P
    BY <1>0, <1>4, <1>7
  <2> HIDE DEF P
  <2>3. \A n \in 0..N : n \in P
    BY <1>0, <2>1, <2>2, Climb, Zenon
  <2> QED BY <2>3, Zenon DEF P
<1> QED BY <1>0, <1>2, <1>4, <1>8, <1>9

\* What a whole transaction does to the table.
LEMMA UpsertAllFreezes ==
    ASSUME NEW table \in Tables, NEW es \in Seq(Entity)
    PROVE  /\ upsertAll(table, es) \in Tables
           /\ Frozen(table, upsertAll(table, es))
           /\ \A i \in 1..Len(es) : es[i].state = "closed" =>
                 upsertAll(table, es)[es[i].flow] # Absent /\ upsertAll(table, es)[es[i].flow].state = "closed"
<1> DEFINE N == Len(es)
<1>0. N \in Nat /\ \A n \in 1..N : es[n] \in Entity /\ es[n].flow \in Flows
  <2>1. N \in Nat /\ \A n \in 1..N : es[n] \in Entity
    OBVIOUS
  <2>2. \A e \in Entity : e.flow \in Flows
    BY Zenon DEF Entity
  <2> QED BY <2>1, <2>2, Zenon
<1>1. PICK g \in [0..N -> Tables] :
        /\ g[0] = table
        /\ \A n \in 1..N : g[n] = upsertFlowEntity(g[n - 1], es[n])
        /\ upsertAll(table, es) = g[N]
  BY UpsertSteps, Zenon
<1> HIDE DEF N
<1>2. \A n \in 1..N : g[n - 1] \in Tables /\ g[n] \in Tables /\ Frozen(g[n - 1], g[n])
  BY <1>0, <1>1, UpsertFreezes, SMTT(60)
<1>3. \A n \in 0..N : n \in {k \in 0..N : Frozen(table, g[k])}
  <2> DEFINE P == {k \in 0..N : Frozen(table, g[k])}
  <2>1. 0 \in P
    BY <1>0, <1>1 DEF Frozen
  <2>2. \A n \in 1..N : n - 1 \in P => n \in P
    BY <1>0, <1>2, FrozenTransitive
  <2> HIDE DEF P
  <2>3. \A n \in 0..N : n \in P
    BY <1>0, <2>1, <2>2, Climb, Zenon
  <2> QED BY <2>3, Zenon DEF P
<1>4. ASSUME NEW i \in 1..N, es[i].state = "closed"
      PROVE  g[N][es[i].flow] # Absent /\ g[N][es[i].flow].state = "closed"
  <2> DEFINE Done(t) == t[es[i].flow] # Absent /\ t[es[i].flow].state = "closed"
             P == {k \in 0..N : k >= i => Done(g[k])}
  <2>1. Done(g[i])
    <3>1. g[i] = upsertFlowEntity(g[i - 1], es[i]) /\ g[i - 1] \in Tables /\ es[i] \in Entity
      BY <1>0, <1>1, <1>2, Zenon
    <3> QED BY <1>4, <3>1, UpsertCloses, Zenon
  <2>2. \A n \in 1..N : Done(g[n - 1]) => Done(g[n])
    BY <1>0, <1>2, Zenon DEF Frozen
  <2> HIDE DEF Done
  <2>3. 0 \in P
    BY <1>0
  <2>4. \A n \in 1..N : n - 1 \in P => n \in P
    BY <1>0, <2>1, <2>2
  <2>5. \A n \in 0..N : n \in P
    <3> HIDE DEF P
    <3> QED BY <1>0, <2>3, <2>4, Climb, Zenon
  <2>6. N \in P /\ N >= i
    BY <1>0, <2>5
  <2> QED BY <2>6, Zenon DEF Done
<1>5. N \in 0..N
  BY <1>0
<1> QED BY <1>1, <1>3, <1>4, <1>5, Zenon DEF N

-----------------------------------------------------------------------------
(* The records of a queue.                                                 *)

LEMMA RecordCountType == \A i : recordCount(i) \in Nat
BY DEF recordCount, One

\* g is the running sum of the records of q.
SumOf(g, q) ==
    /\ g \in [0..Len(q) -> Nat] /\ g[0] = 0
    /\ \A n \in 1..Len(q) : g[n] = g[n - 1] + recordCount(q[n])

LEMMA SumUnique ==
    ASSUME NEW q \in Seq(Item), NEW g, NEW h, SumOf(g, q),
           h[0] = 0, \A n \in 1..Len(q) : h[n] = h[n - 1] + recordCount(q[n])
    PROVE  h[Len(q)] = g[Len(q)]
<1> DEFINE N == Len(q)
           P == {k \in 0..N : h[k] = g[k]}
<1>0. N \in Nat
  OBVIOUS
<1>1. 0 \in P
  BY <1>0 DEF SumOf
<1>2. \A n \in 1..N : n - 1 \in P => n \in P
  BY <1>0 DEF SumOf
<1>3. \A n \in 0..N : n \in P
  <2> HIDE DEF P, N
  <2> QED BY <1>0, <1>1, <1>2, Climb, Zenon
<1>4. N \in P
  BY <1>0, <1>3
<1> QED BY <1>4, Zenon

LEMMA RecordsAreSum ==
    ASSUME NEW q \in Seq(Item)
    PROVE  \E g : SumOf(g, q) /\ Records(q) = g[Len(q)]
<1> DEFINE N == Len(q)
           step == [n \in 1..N |-> [k \in Nat |-> k + recordCount(q[n])]]
           Eq(g) == g = [n \in 0..N |-> IF n = 0 THEN 0 ELSE g[n - 1] + recordCount(q[n])]
           sum == CHOOSE g : Eq(g)
<1>0. N \in Nat
  OBVIOUS
<1>1. step \in StepsOn(N, Nat)
  BY <1>0, RecordCountType DEF StepsOn
<1>2. PICK g \in [0..N -> Nat] : g[0] = 0 /\ \A n \in 1..N : g[n] = step[n][g[n - 1]]
  <2> HIDE DEF step, N
  <2>1. \E g : Iteration(g, N, Nat, 0, step)
    BY <1>0, <1>1, Recursion, Zenon
  <2> QED BY <2>1, Zenon DEF Iteration
<1>3. \A n \in 1..N : g[n - 1] \in Nat /\ n - 1 \in 0..N
  BY <1>0
<1>4. \A n \in 1..N : g[n] = g[n - 1] + recordCount(q[n])
  BY <1>2, <1>3, Zenon
<1>5. Eq(g)
  BY <1>0, <1>2, <1>4
<1>6. Eq(sum)
  <2> HIDE DEF Eq
  <2> QED BY <1>5, Zenon
<1>7. sum[0] = 0 /\ \A n \in 1..N : sum[n] = sum[n - 1] + recordCount(q[n])
  <2> SUFFICES ASSUME NEW h, Eq(h)
               PROVE  h[0] = 0 /\ \A n \in 1..N : h[n] = h[n - 1] + recordCount(q[n])
    BY <1>6, Zenon
  <2>1. PICK F : F = [n \in 0..N |-> IF n = 0 THEN 0 ELSE h[n - 1] + recordCount(q[n])]
    BY Zenon
  <2>2. F[0] = 0 /\ \A n \in 1..N : F[n] = h[n - 1] + recordCount(q[n])
    BY <1>0, <2>1
  <2> QED BY <2>1, <2>2, Zenon
<1>8. Records(q) = sum[N]
  BY Zenon DEF Records
<1> HIDE DEF sum
<1>9. SumOf(g, q)
  BY <1>2, <1>4, Zenon DEF SumOf
<1>10. sum[N] = g[N]
  BY <1>7, <1>9, SumUnique, Zenon
<1> QED BY <1>8, <1>9, <1>10, Zenon

LEMMA RecordsType ==
    ASSUME NEW q \in Seq(Item)
    PROVE  Records(q) \in Nat
<1>1. PICK g : SumOf(g, q) /\ Records(q) = g[Len(q)]
  BY RecordsAreSum, Zenon
<1> QED BY <1>1 DEF SumOf

LEMMA RecordsEmpty == Records(<<>>) = 0
<1>1. PICK g : SumOf(g, <<>>) /\ Records(<<>>) = g[Len(<<>>)]
  <2>1. <<>> \in Seq(Item)
    OBVIOUS
  <2> QED BY <2>1, RecordsAreSum, Zenon
<1> QED BY <1>1, Zenon DEF SumOf

LEMMA RecordsAppend ==
    ASSUME NEW q \in Seq(Item), NEW i \in Item
    PROVE  Records(Append(q, i)) = Records(q) + recordCount(i)
<1> DEFINE N == Len(q)
<1>1. PICK g : SumOf(g, q) /\ Records(q) = g[N]
  BY RecordsAreSum, Zenon
<1>2. PICK r : r = Append(q, i)
  BY Zenon
<1>3. r \in Seq(Item) /\ Len(r) = N + 1 /\ r[N + 1] = i /\ \A n \in 1..N : r[n] = q[n]
  BY <1>2
<1>4. N \in Nat
  OBVIOUS
<1> DEFINE h == [n \in 0..(N + 1) |-> IF n = N + 1 THEN g[N] + recordCount(i) ELSE g[n]]
<1>5. h[0] = 0 /\ h[N + 1] = g[N] + recordCount(i)
  BY <1>1, <1>4 DEF SumOf
<1>6. ASSUME NEW n \in 1..(N + 1)
      PROVE  h[n] = h[n - 1] + recordCount(r[n])
  <2>1. n - 1 \in 0..N /\ n - 1 # N + 1 /\ h[n - 1] = g[n - 1]
    BY <1>4
  <2>2. CASE n = N + 1
    BY <1>3, <1>4, <1>5, <2>1, <2>2
  <2>3. CASE n # N + 1
    <3>1. n \in 1..N
      BY <1>4, <2>3
    <3>2. g[n] = g[n - 1] + recordCount(q[n]) /\ r[n] = q[n]
      BY <1>1, <1>3, <3>1, Zenon DEF SumOf
    <3>3. h[n] = g[n]
      BY <1>4, <2>3
    <3> QED BY <2>1, <3>2, <3>3, Zenon
  <2> QED BY <2>2, <2>3, Zenon
<1>7. PICK k : SumOf(k, r) /\ Records(r) = k[N + 1]
  BY <1>3, RecordsAreSum, Zenon
<1>8. h[N + 1] = k[N + 1]
  <2> HIDE DEF h, N
  <2> QED BY <1>3, <1>5, <1>6, <1>7, SumUnique, SMTT(60)
<1> QED BY <1>1, <1>2, <1>5, <1>7, <1>8, Zenon

LEMMA RecordsTail ==
    ASSUME NEW q \in Seq(Item), q # <<>>
    PROVE  Records(q) = recordCount(Head(q)) + Records(Tail(q))
<1>1. PICK r : r = Tail(q)
  BY Zenon
<1> DEFINE N == Len(r)
<1>2. /\ r \in Seq(Item) /\ N \in Nat /\ Len(q) = N + 1 /\ Head(q) = q[1]
      /\ \A n \in 1..N : r[n] = q[n + 1]
  BY <1>1
<1>3. PICK g : SumOf(g, r) /\ Records(r) = g[N]
  BY <1>2, RecordsAreSum, Zenon
<1> DEFINE h == [n \in 0..(N + 1) |-> IF n = 0 THEN 0 ELSE recordCount(q[1]) + g[n - 1]]
<1>4. h[0] = 0 /\ h[N + 1] = recordCount(q[1]) + g[N]
  BY <1>2
<1>5. ASSUME NEW n \in 1..(N + 1)
      PROVE  h[n] = h[n - 1] + recordCount(q[n])
  <2>1. CASE n = 1
    BY <1>2, <1>3, <2>1, RecordCountType DEF SumOf
  <2>2. CASE n # 1
    <3>1. n - 1 \in 1..N /\ n - 1 # 0 /\ n - 1 \in 0..(N + 1) /\ n \in 0..(N + 1) /\ n # 0
      BY <1>2, <2>2
    <3>2. g[n - 1] = g[n - 2] + recordCount(r[n - 1]) /\ r[n - 1] = q[n] /\ g[n - 2] \in Nat
      <4>1. PICK m : m = n - 1
        OBVIOUS
      <4>2. m \in 1..N /\ m - 1 = n - 2 /\ m - 1 \in 0..N /\ r[m] = q[n]
        BY <1>2, <3>1, <4>1
      <4>3. g[m] = g[m - 1] + recordCount(r[m]) /\ g[m - 1] \in Nat
        BY <1>3, <4>2, Zenon DEF SumOf
      <4> QED BY <4>1, <4>2, <4>3, Zenon
    <3>3. h[n] = recordCount(q[1]) + g[n - 1] /\ h[n - 1] = recordCount(q[1]) + g[n - 2]
      BY <1>2, <3>1
    <3> QED BY <3>2, <3>3, RecordCountType
  <2> QED BY <2>1, <2>2, Zenon
<1>6. PICK k : SumOf(k, q) /\ Records(q) = k[N + 1]
  BY <1>2, RecordsAreSum, Zenon
<1>7. h[N + 1] = k[N + 1]
  <2> HIDE DEF h, N
  <2> QED BY <1>2, <1>4, <1>5, <1>6, SumUnique, ZenonT(60)
<1> QED BY <1>1, <1>2, <1>3, <1>4, <1>6, <1>7, Zenon

-----------------------------------------------------------------------------
(* The flows whose flow row is on its way through a queue.                 *)

Queued(q) == {q[i].flow : i \in 1..Len(q)} \ {Absent}

LEMMA QueuedIs == \A q, f : f \in Queued(q) <=> f # Absent /\ \E n \in 1..Len(q) : q[n].flow = f
BY Zenon DEF Queued

LEMMA QueuedAppend ==
    ASSUME NEW q \in Seq(Item), NEW i \in Item
    PROVE  Queued(Append(q, i)) = Queued(q) \cup ({i.flow} \ {Absent})
<1>1. PICK r : r = Append(q, i)
  BY Zenon
<1>2. /\ Len(q) \in Nat /\ Len(r) = Len(q) + 1 /\ r[Len(q) + 1] = i
      /\ \A n \in 1..Len(q) : r[n] = q[n]
  BY <1>1
<1>3. 1..Len(r) = 1..Len(q) \cup {Len(q) + 1}
  BY <1>2
<1>4. \A f : (\E n \in 1..Len(r) : r[n].flow = f) <=> (\E n \in 1..Len(q) : q[n].flow = f) \/ i.flow = f
  BY <1>2, <1>3, Zenon
<1>5. \A f : f \in Queued(r) <=> f \in Queued(q) \/ (f = i.flow /\ f # Absent)
  BY <1>4, QueuedIs, ZenonT(60)
<1> QED BY <1>1, <1>5

LEMMA QueuedTail ==
    ASSUME NEW q \in Seq(Item), q # <<>>
    PROVE  Queued(q) = ({Head(q).flow} \ {Absent}) \cup Queued(Tail(q))
<1>1. PICK r : r = Tail(q)
  BY Zenon
<1>2. /\ Len(r) \in Nat /\ Len(q) = Len(r) + 1 /\ Head(q) = q[1]
      /\ \A n \in 1..Len(r) : r[n] = q[n + 1]
  BY <1>1
<1>3. \A n \in 1..Len(q) : n = 1 \/ (n - 1 \in 1..Len(r) /\ r[n - 1] = q[n])
  BY <1>2
<1>4. \A n \in 1..Len(r) : n + 1 \in 1..Len(q)
  BY <1>2
<1>5. 1 \in 1..Len(q)
  BY <1>2
<1>6. \A f : (\E n \in 1..Len(q) : q[n].flow = f) <=> (\E n \in 1..Len(r) : r[n].flow = f) \/ Head(q).flow = f
  <2> TAKE f
  <2>1. ASSUME NEW n \in 1..Len(q), q[n].flow = f
        PROVE  (\E k \in 1..Len(r) : r[k].flow = f) \/ Head(q).flow = f
    BY <1>2, <1>3, <2>1, Zenon
  <2>2. ASSUME NEW n \in 1..Len(r), r[n].flow = f
        PROVE  \E k \in 1..Len(q) : q[k].flow = f
    BY <1>2, <1>4, <2>2, Zenon
  <2>3. Head(q).flow = f => \E k \in 1..Len(q) : q[k].flow = f
    BY <1>2, <1>5, Zenon
  <2> QED BY <2>1, <2>2, <2>3, Zenon
<1>7. \A f : f \in Queued(q) <=> f \in Queued(r) \/ (f = Head(q).flow /\ f # Absent)
  BY <1>6, QueuedIs, ZenonT(60)
<1> QED BY <1>1, <1>7

LEMMA QueuedEmpty == Queued(<<>>) = {}
<1>1. 1..Len(<<>>) = {}
  OBVIOUS
<1> QED BY <1>1, Zenon DEF Queued

LEMMA RangeAppend ==
    ASSUME NEW S, NEW q \in Seq(S), NEW x
    PROVE  Range(Append(q, x)) = Range(q) \cup {x}
<1>1. PICK r : r = Append(q, x)
  BY Zenon
<1>2. /\ Len(q) \in Nat /\ DOMAIN q = 1..Len(q) /\ DOMAIN r = 1..(Len(q) + 1) /\ r[Len(q) + 1] = x
      /\ \A n \in 1..Len(q) : r[n] = q[n]
  BY <1>1
<1>3. 1..(Len(q) + 1) = 1..Len(q) \cup {Len(q) + 1}
  BY <1>2
<1>4. \A y : (\E n \in DOMAIN r : r[n] = y) <=> (\E n \in DOMAIN q : q[n] = y) \/ x = y
  BY <1>2, <1>3, Zenon
<1>5. \A y : y \in Range(r) <=> y \in Range(q) \/ y = x
  BY <1>4, Zenon DEF Range
<1> QED BY <1>1, <1>5, Zenon

-----------------------------------------------------------------------------
(* The invariant.                                                          *)

Batches == [entities : Seq(Entity), flows : Seq(Flows), checkpoints : Seq(Flows), rejections : Nat]

SourceTypes ==
    /\ life \in [Flows -> {"new", "open", "closed"}]
    /\ snaps \in [Flows \X Threads -> Seq(Entity)]
    /\ tagging \in [Flows -> Entity \cup {Absent}]

PipeTypes ==
    /\ geoCh \in Seq(Item) /\ writeCh \in Seq(Item)
    /\ batch \in Batches
    /\ rows \in Tables /\ flowRows \in SUBSET Flows
    /\ received \in Nat /\ written \in Nat /\ dropped \in Nat

ClosedFlows == {f \in Flows : life[f] = "closed"}
OnTheWay == Queued(geoCh) \cup Queued(writeCh) \cup Range(batch.flows)

\* Only closed flows have a flow row or one on its way; without a drop all of them have.
WayInv ==
    /\ OnTheWay \cup flowRows \subseteq ClosedFlows
    /\ dropped = 0 => ClosedFlows \subseteq OnTheWay \cup flowRows

\* A worker returns when nothing can come any more.
ExitInv ==
    /\ ~geoUp => closed /\ geoCh = <<>>
    /\ writer = "exited" => ~geoUp /\ writeCh = <<>> /\ batch = EmptyBatch

RowInv == \A f \in flowRows : rows[f] # Absent /\ rows[f].state = "closed"

PipeInv == PipeTypes /\ AuditAccounting /\ WayInv /\ ExitInv /\ RowInv
AuditInv == SourceTypes /\ PipeInv

LEMMA AuditInit == Init => AuditInv
<1> SUFFICES ASSUME Init PROVE AuditInv
  OBVIOUS
<1>1. SourceTypes
  BY DEF Init, SourceTypes
<1>2. PipeTypes
  BY DEF Init, PipeTypes, Batches, EmptyBatch, Tables
<1>3. AuditAccounting
  BY RecordsEmpty DEF Init, AuditAccounting, InFlight, BatchCount, EmptyBatch
<1>4. Range(<<>>) = {}
  BY DEF Range
<1>5. WayInv
  BY QueuedEmpty, <1>4, Zenon DEF Init, WayInv, OnTheWay, ClosedFlows, EmptyBatch
<1>6. ExitInv /\ RowInv
  BY Zenon DEF Init, ExitInv, RowInv
<1> QED BY <1>1, <1>2, <1>3, <1>5, <1>6, Zenon DEF AuditInv, PipeInv

LEMMA BatchCountType == \A b \in Batches : BatchCount(b) \in Nat
BY DEF BatchCount, Batches

LEMMA InFlightType ==
    ASSUME PipeTypes
    PROVE  InFlight \in Nat
<1>1. Records(geoCh) \in Nat /\ Records(writeCh) \in Nat /\ BatchCount(batch) \in Nat
  BY RecordsType, BatchCountType, Zenon DEF PipeTypes
<1> QED BY <1>1 DEF InFlight

-----------------------------------------------------------------------------
(* The sources.                                                            *)

\* enqueue, for an item that names a flow exactly when that is closed with it.
LEMMA Enqueued ==
    ASSUME PipeInv, NEW i \in Item, enqueue(i), UNCHANGED pipelineVars,
           ClosedFlows' = ClosedFlows \cup ({i.flow} \ {Absent})
    PROVE  PipeInv'
<1> USE DEF PipeInv
<1>0. /\ UNCHANGED <<writeCh, geoUp, batch, writer, rows, flowRows, written, stop>>
      /\ received' = received + recordCount(i) /\ recordCount(i) \in Nat
      /\ i.flow # Absent => recordCount(i) # 0
  <2>1. i.flow # Absent => recordCount(i) # 0
    BY DEF recordCount, One
  <2> QED BY <2>1, RecordCountType, Zenon DEF enqueue, pipelineVars, storeVars
<1>1. CASE geoCh' = Append(geoCh, i) /\ UNCHANGED dropped /\ ~closed
  <2>1. PipeTypes'
    BY <1>0, <1>1 DEF PipeTypes
  <2>2. AuditAccounting'
    <3>1. Records(geoCh') = Records(geoCh) + recordCount(i) /\ Records(geoCh) \in Nat /\ Records(writeCh) \in Nat
      BY <1>1, RecordsAppend, RecordsType, Zenon DEF PipeTypes
    <3>2. BatchCount(batch) \in Nat
      BY BatchCountType, Zenon DEF PipeTypes
    <3>3. InFlight' = Records(geoCh') + Records(writeCh) + BatchCount(batch)
      BY <1>0, Zenon DEF InFlight
    <3>4. InFlight = Records(geoCh) + Records(writeCh) + BatchCount(batch)
      BY Zenon DEF InFlight
    <3>5. InFlight' = InFlight + recordCount(i) /\ InFlight \in Nat
      BY <1>0, <3>1, <3>2, <3>3, <3>4
    <3>6. received = written + dropped + InFlight /\ written \in Nat /\ dropped \in Nat
      BY Zenon DEF AuditAccounting, PipeTypes
    <3>7. received' = written' + dropped' + InFlight'
      BY <1>0, <1>1, <3>5, <3>6
    <3> QED BY <3>7, Zenon DEF AuditAccounting
  <2>3. OnTheWay' = OnTheWay \cup ({i.flow} \ {Absent})
    <3>1. Queued(geoCh') = Queued(geoCh) \cup ({i.flow} \ {Absent})
      BY <1>1, QueuedAppend, Zenon DEF PipeTypes
    <3> QED BY <1>0, <3>1, Zenon DEF OnTheWay
  <2>4. WayInv'
    BY <1>0, <1>1, <2>3, Zenon DEF WayInv
  <2>5. ExitInv' /\ RowInv'
    BY <1>0, <1>1, Zenon DEF ExitInv, RowInv, closed
  <2> QED BY <2>1, <2>2, <2>4, <2>5, Zenon
<1>2. CASE UNCHANGED geoCh /\ dropped' = dropped + recordCount(i)
  <2>1. PipeTypes'
    BY <1>0, <1>2 DEF PipeTypes
  <2>2. AuditAccounting'
    <3>1. InFlight' = InFlight
      BY <1>0, <1>2, Zenon DEF InFlight
    <3>2. InFlight \in Nat
      BY InFlightType, Zenon
    <3> QED BY <1>0, <1>2, <3>1, <3>2, SMTT(60) DEF AuditAccounting, PipeTypes
  <2>3. OnTheWay' = OnTheWay
    BY <1>0, <1>2, Zenon DEF OnTheWay
  <2>4. WayInv'
    BY <1>0, <1>2, <2>3 DEF WayInv, PipeTypes
  <2>5. ExitInv' /\ RowInv'
    BY <1>0, <1>2, Zenon DEF ExitInv, RowInv, closed
  <2> QED BY <2>1, <2>2, <2>4, <2>5, Zenon
<1> QED BY <1>1, <1>2, Zenon DEF enqueue

\* A step that leaves the pipeline and the lifecycles alone.
LEMMA PipeFrame ==
    ASSUME PipeInv, UNCHANGED <<geoCh, received, dropped, pipelineVars>>, ClosedFlows' = ClosedFlows
    PROVE  PipeInv'
<1>1. UNCHANGED <<geoCh, writeCh, geoUp, batch, writer, rows, flowRows, received, written, dropped, stop>>
  BY Zenon DEF pipelineVars, storeVars
<1>2. InFlight' = InFlight /\ OnTheWay' = OnTheWay
  BY <1>1, Zenon DEF InFlight, OnTheWay
<1> QED BY <1>1, <1>2, Zenon DEF PipeInv, PipeTypes, AuditAccounting, WayInv, ExitInv, RowInv, closed

LEMMA SnapshotType ==
    ASSUME NEW f \in Flows, NEW st \in {"active", "closed"}, NEW g \in {0, 1}, NEW k \in BOOLEAN
    PROVE  AuditEntity(f, st, g, k) \in Entity /\ PlainEntity(f, st) \in Entity
BY Zenon DEF AuditEntity, PlainEntity, Entity, Local

LEMMA SnapsAppend ==
    ASSUME SourceTypes, NEW f \in Flows, NEW t \in Threads, NEW e \in Entity,
           snaps' = [snaps EXCEPT ![<<f, t>>] = Append(@, e)]
    PROVE  snaps' \in [Flows \X Threads -> Seq(Entity)]
<1>1. <<f, t>> \in Flows \X Threads
  OBVIOUS
<1>2. Append(snaps[<<f, t>>], e) \in Seq(Entity)
  BY <1>1 DEF SourceTypes
<1> QED BY <1>1, <1>2, Zenon DEF SourceTypes

LEMMA ItemTypes ==
    /\ \A e \in Entity : EntityItem(e) \in Item /\ EntityItem(e).flow = Absent
    /\ \A f \in Flows : [entity |-> Absent, flow |-> Absent, checkpoint |-> f, rejection |-> FALSE] \in Item
    /\ [entity |-> Absent, flow |-> Absent, checkpoint |-> Absent, rejection |-> TRUE] \in Item
    /\ \A f \in Flows, e \in Entity : [entity |-> e, flow |-> f, checkpoint |-> f, rejection |-> FALSE] \in Item
BY Zenon DEF EntityItem, Item

LEMMA OpenStep ==
    ASSUME AuditInv, NEW f \in Flows, Open(f)
    PROVE  AuditInv'
<1> DEFINE i == EntityItem(PlainEntity(f, "active"))
<1>1. /\ life' = [life EXCEPT ![f] = "open"] /\ life[f] = "new" /\ UNCHANGED <<tagging, pipelineVars>>
      /\ snaps' = [snaps EXCEPT ![<<f, "lifecycle">>] = Append(@, AuditEntity(f, "active", 0, FALSE))]
      /\ enqueue(i)
  BY Zenon DEF Open
<1>2. PlainEntity(f, "active") \in Entity /\ AuditEntity(f, "active", 0, FALSE) \in Entity
  BY SnapshotType, Zenon
<1>3. SourceTypes'
  <2>1. snaps' \in [Flows \X Threads -> Seq(Entity)]
    BY <1>1, <1>2, SnapsAppend, Zenon DEF AuditInv, Threads
  <2> QED BY <1>1, <2>1, Zenon DEF AuditInv, SourceTypes
<1>4. ClosedFlows' = ClosedFlows
  BY <1>1, Zenon DEF AuditInv, SourceTypes, ClosedFlows
<1>5. i \in Item /\ i.flow = Absent
  BY <1>2, ItemTypes, Zenon
<1>6. ClosedFlows' = ClosedFlows \cup ({i.flow} \ {Absent})
  BY <1>4, <1>5, Zenon
<1> HIDE DEF i
<1> QED BY <1>1, <1>3, <1>5, <1>6, Enqueued, Zenon DEF AuditInv

LEMMA CloseStep ==
    ASSUME AuditInv, NEW f \in Flows, Close(f)
    PROVE  AuditInv'
<1> DEFINE i == [entity |-> PlainEntity(f, "closed"), flow |-> f, checkpoint |-> f, rejection |-> FALSE]
           e == AuditEntity(f, "closed", One(f \in bound), f \in holds)
<1>1. /\ life' = [life EXCEPT ![f] = "closed"] /\ UNCHANGED <<tagging, pipelineVars>>
      /\ snaps' = [snaps EXCEPT ![<<f, "lifecycle">>] = Append(@, e)]
      /\ enqueue(i)
  BY Zenon DEF Close
<1>2. PlainEntity(f, "closed") \in Entity /\ e \in Entity
  <2>1. One(f \in bound) \in {0, 1}
    BY Zenon DEF One
  <2>2. (f \in holds) \in BOOLEAN
    OBVIOUS
  <2>3. "closed" \in {"active", "closed"}
    OBVIOUS
  <2> QED BY <2>1, <2>2, <2>3, SnapshotType, Zenon
<1>3. SourceTypes'
  <2> HIDE DEF e
  <2>1. snaps' \in [Flows \X Threads -> Seq(Entity)]
    BY <1>1, <1>2, SnapsAppend, Zenon DEF AuditInv, Threads
  <2> QED BY <1>1, <2>1, Zenon DEF AuditInv, SourceTypes
<1>4. ClosedFlows' = ClosedFlows \cup {f}
  BY <1>1, Zenon DEF AuditInv, SourceTypes, ClosedFlows
<1>5. i \in Item /\ i.flow = f /\ f # Absent
  BY <1>2, ItemTypes, AuditAssumption, Zenon
<1>6. ClosedFlows' = ClosedFlows \cup ({i.flow} \ {Absent})
  BY <1>4, <1>5, Zenon
<1> HIDE DEF i
<1> QED BY <1>1, <1>3, <1>5, <1>6, Enqueued, Zenon DEF AuditInv

\* Bind, Replaced and TagRead.
LEMMA RegistryStep ==
    ASSUME AuditInv, NEW f \in Flows, Bind(f) \/ Replaced(f) \/ TagRead(f)
    PROVE  AuditInv'
<1> DEFINE st == IF life[f] = "open" THEN "active" ELSE "closed"
<1>1. UNCHANGED <<life, geoCh, received, dropped, pipelineVars>>
  BY Zenon DEF Bind, Replaced, TagRead
<1>2. ClosedFlows' = ClosedFlows
  BY <1>1, Zenon DEF ClosedFlows
<1>3. PipeInv'
  BY <1>1, <1>2, PipeFrame, Zenon DEF AuditInv
<1>4. /\ AuditEntity(f, "active", 1, TRUE) \in Entity /\ AuditEntity(f, st, 1, FALSE) \in Entity
      /\ AuditEntity(f, st, 1, TRUE) \in Entity
  BY SnapshotType, Zenon
<1>5. SourceTypes'
  <2>1. CASE Bind(f)
    <3>1. UNCHANGED tagging /\ snaps' = [snaps EXCEPT ![<<f, "bind">>] = Append(@, AuditEntity(f, "active", 1, TRUE))]
      BY <2>1, Zenon DEF Bind
    <3>2. snaps' \in [Flows \X Threads -> Seq(Entity)]
      BY <1>4, <3>1, SnapsAppend, Zenon DEF AuditInv, Threads
    <3> QED BY <1>1, <3>1, <3>2, Zenon DEF AuditInv, SourceTypes
  <2>2. CASE Replaced(f)
    <3>1. UNCHANGED tagging /\ snaps' = [snaps EXCEPT ![<<f, "bind">>] = Append(@, AuditEntity(f, st, 1, FALSE))]
      BY <2>2, Zenon DEF Replaced
    <3>2. snaps' \in [Flows \X Threads -> Seq(Entity)]
      <4> HIDE DEF st
      <4> QED BY <1>4, <3>1, SnapsAppend, Zenon DEF AuditInv, Threads
    <3> QED BY <1>1, <3>1, <3>2, Zenon DEF AuditInv, SourceTypes
  <2>3. CASE TagRead(f)
    <3>1. UNCHANGED snaps /\ tagging' = [tagging EXCEPT ![f] = AuditEntity(f, st, 1, TRUE)]
      BY <2>3, Zenon DEF TagRead
    <3> HIDE DEF st
    <3> QED BY <1>1, <1>4, <3>1, Zenon DEF AuditInv, SourceTypes
  <2> QED BY <2>1, <2>2, <2>3, Zenon
<1> QED BY <1>3, <1>5, Zenon DEF AuditInv

\* Update, Reject and PublishEntity: items that name no flow.
LEMMA ItemStep ==
    ASSUME AuditInv, Reject \/ \E f \in Flows : Update(f) \/ \E t \in Threads : PublishEntity(<<f, t>>)
    PROVE  AuditInv'
<1>0. UNCHANGED <<life, tagging, pipelineVars>>
  BY Zenon DEF Reject, Update, PublishEntity
<1>1. ClosedFlows' = ClosedFlows
  BY <1>0, Zenon DEF ClosedFlows
<1>2. SUFFICES ASSUME NEW i \in Item, i.flow = Absent, enqueue(i), SourceTypes'
               PROVE  AuditInv'
  <2>1. CASE Reject
    <3>1. UNCHANGED snaps
      BY <2>1, Zenon DEF Reject
    <3>2. SourceTypes'
      BY <1>0, <3>1, Zenon DEF AuditInv, SourceTypes
    <3> QED BY <1>2, <2>1, <3>2, ItemTypes, Zenon DEF Reject
  <2>2. ASSUME NEW f \in Flows, Update(f) PROVE AuditInv'
    <3>1. UNCHANGED snaps
      BY <2>2, Zenon DEF Update
    <3>2. SourceTypes'
      BY <1>0, <3>1, Zenon DEF AuditInv, SourceTypes
    <3> QED BY <1>2, <2>2, <3>2, ItemTypes, Zenon DEF Update
  <2>3. ASSUME NEW f \in Flows, NEW t \in Threads, PublishEntity(<<f, t>>) PROVE AuditInv'
    <3>1. <<f, t>> \in Flows \X Threads
      OBVIOUS
    <3>2. snaps[<<f, t>>] \in Seq(Entity) /\ snaps[<<f, t>>] # <<>>
      BY <2>3, <3>1, Zenon DEF AuditInv, SourceTypes, PublishEntity
    <3>3. Head(snaps[<<f, t>>]) \in Entity /\ Tail(snaps[<<f, t>>]) \in Seq(Entity)
      BY <3>2
    <3>4. SourceTypes'
      BY <1>0, <2>3, <3>1, <3>3, Zenon DEF AuditInv, SourceTypes, PublishEntity
    <3> QED BY <1>2, <2>3, <3>3, <3>4, ItemTypes, Zenon DEF PublishEntity
  <2> QED BY <2>1, <2>2, <2>3, Zenon
<1>3. ClosedFlows' = ClosedFlows \cup ({i.flow} \ {Absent})
  BY <1>1, <1>2, Zenon
<1> QED BY <1>0, <1>2, <1>3, Enqueued, Zenon DEF AuditInv

-----------------------------------------------------------------------------
(* The workers.                                                            *)

\* The first item of a queue leaves it.
LEMMA HeadLeaves ==
    ASSUME NEW q \in Seq(Item), q # <<>>
    PROVE  /\ Head(q) \in Item /\ Tail(q) \in Seq(Item)
           /\ Records(q) = recordCount(Head(q)) + Records(Tail(q))
           /\ Records(q) \in Nat /\ Records(Tail(q)) \in Nat /\ recordCount(Head(q)) \in Nat
           /\ Queued(q) = ({Head(q).flow} \ {Absent}) \cup Queued(Tail(q))
<1>1. Head(q) \in Item /\ Tail(q) \in Seq(Item)
  OBVIOUS
<1> QED BY <1>1, RecordsTail, RecordsType, RecordCountType, QueuedTail, Zenon

LEMMA GeoStepKeeps ==
    ASSUME PipeInv, GeoStep
    PROVE  PipeInv'
<1> USE DEF PipeInv
<1>0. /\ geoCh # <<>> /\ geoCh' = Tail(geoCh) /\ geoCh \in Seq(Item) /\ writeCh \in Seq(Item)
      /\ UNCHANGED <<life, geoUp, batch, writer, rows, flowRows, received, written, stop>>
  BY Zenon DEF GeoStep, sourceVars, storeVars, PipeTypes
<1>1. PICK i : i = Head(geoCh)
  OBVIOUS
<1>2. /\ i \in Item /\ geoCh' \in Seq(Item)
      /\ Records(geoCh) = recordCount(i) + Records(geoCh')
      /\ Records(geoCh) \in Nat /\ Records(geoCh') \in Nat /\ recordCount(i) \in Nat
      /\ Queued(geoCh) = ({i.flow} \ {Absent}) \cup Queued(geoCh')
  BY <1>0, <1>1, HeadLeaves, Zenon
<1>3. geoUp /\ writer # "exited"
  BY <1>0, Zenon DEF ExitInv
<1>4. BatchCount(batch) \in Nat /\ Records(writeCh) \in Nat
  BY BatchCountType, RecordsType, Zenon DEF PipeTypes
<1>5. ClosedFlows' = ClosedFlows
  BY <1>0, Zenon DEF ClosedFlows
<1>6. ExitInv' /\ RowInv'
  BY <1>0, <1>3, Zenon DEF ExitInv, RowInv
<1>7. InFlight = Records(geoCh) + Records(writeCh) + BatchCount(batch)
  BY Zenon DEF InFlight
<1>8. InFlight' = Records(geoCh') + Records(writeCh') + BatchCount(batch)
  BY <1>0, Zenon DEF InFlight
<1>9. received = written + dropped + InFlight /\ written \in Nat /\ dropped \in Nat
  BY Zenon DEF AuditAccounting, PipeTypes
<1>a. CASE writeCh' = Append(writeCh, i) /\ UNCHANGED dropped
  <2>1. writeCh' \in Seq(Item)
    BY <1>0, <1>2, <1>a
  <2>2. PipeTypes'
    BY <1>0, <1>2, <1>a, <2>1, Zenon DEF PipeTypes
  <2>3. Records(writeCh') = Records(writeCh) + recordCount(i) /\ Queued(writeCh') = Queued(writeCh) \cup ({i.flow} \ {Absent})
    BY <1>0, <1>2, <1>a, RecordsAppend, QueuedAppend, Zenon
  <2>4. InFlight' = InFlight
    BY <1>2, <1>4, <1>7, <1>8, <2>3
  <2>5. AuditAccounting'
    BY <1>0, <1>a, <2>4, Zenon DEF AuditAccounting
  <2>6. OnTheWay' = OnTheWay
    BY <1>0, <1>2, <2>3, Zenon DEF OnTheWay
  <2>7. WayInv'
    BY <1>0, <1>5, <1>a, <2>6, Zenon DEF WayInv
  <2> QED BY <1>6, <2>2, <2>5, <2>7, Zenon
<1>b. CASE UNCHANGED writeCh /\ dropped' = dropped + recordCount(i)
  <2>2. PipeTypes'
    BY <1>0, <1>2, <1>b DEF PipeTypes
  <2>4. InFlight = InFlight' + recordCount(i) /\ InFlight' \in Nat
    BY <1>2, <1>4, <1>7, <1>8, <1>b, SMTT(60)
  <2>5. AuditAccounting'
    <3>0. received = written + dropped + (InFlight' + recordCount(i))
      BY <1>9, <2>4, Zenon
    <3>1. PICK n, k : n = recordCount(i) /\ k = InFlight'
      OBVIOUS
    <3>2. n \in Nat /\ k \in Nat /\ received = written + dropped + (k + n) /\ dropped' = dropped + n
      BY <1>2, <1>b, <2>4, <3>0, <3>1, Zenon
    <3>3. received' = written' + dropped' + k
      BY <1>0, <1>9, <3>2, SMTT(60)
    <3> QED BY <3>1, <3>3, Zenon DEF AuditAccounting
  <2>6. OnTheWay = OnTheWay' \cup ({i.flow} \ {Absent})
    BY <1>0, <1>2, <1>b, Zenon DEF OnTheWay
  <2>7. dropped' = 0 => i.flow = Absent /\ dropped = 0
    <3>1. i.flow # Absent => recordCount(i) # 0
      BY DEF recordCount, One
    <3> QED BY <1>2, <1>9, <1>b, <3>1
  <2>8. WayInv'
    BY <1>0, <1>5, <2>6, <2>7, Zenon DEF WayInv
  <2> QED BY <1>6, <2>2, <2>5, <2>8, Zenon
<1> QED BY <1>1, <1>a, <1>b, Zenon DEF GeoStep

\* A part of an item that is there is appended.
LEMMA AppendUnless ==
    ASSUME NEW S, NEW q \in Seq(S), NEW x, x # Absent => x \in S,
           NEW r, x = Absent => r = q, x # Absent => r = Append(q, x)
    PROVE  r \in Seq(S) /\ Len(r) = Len(q) + One(x # Absent)
<1>1. CASE x = Absent
  BY <1>1 DEF One
<1>2. CASE x # Absent
  <2>1. One(x # Absent) = 1
    BY <1>2, Zenon DEF One
  <2> QED BY <1>2, <2>1
<1> QED BY <1>1, <1>2, Zenon

\* What Collect makes of the batch.
LEMMA CollectedBatch ==
    ASSUME batch \in Batches, NEW i \in Item, NEW b, b = Collected(i)
    PROVE  /\ b \in Batches /\ BatchCount(b) = BatchCount(batch) + recordCount(i)
           /\ Range(b.flows) = Range(batch.flows) \cup ({i.flow} \ {Absent})
<1>1. /\ batch.entities \in Seq(Entity) /\ batch.flows \in Seq(Flows)
      /\ batch.checkpoints \in Seq(Flows) /\ batch.rejections \in Nat
  BY Zenon DEF Batches
<1>2. /\ i.entity # Absent => i.entity \in Entity
      /\ i.flow # Absent => i.flow \in Flows
      /\ i.checkpoint # Absent => i.checkpoint \in Flows
  BY Zenon DEF Item
<1>3. /\ (i.entity = Absent => b.entities = batch.entities) /\ (i.entity # Absent => b.entities = Append(batch.entities, i.entity))
      /\ (i.flow = Absent => b.flows = batch.flows) /\ (i.flow # Absent => b.flows = Append(batch.flows, i.flow))
      /\ (i.checkpoint = Absent => b.checkpoints = batch.checkpoints) /\ (i.checkpoint # Absent => b.checkpoints = Append(batch.checkpoints, i.checkpoint))
      /\ b.rejections = batch.rejections + One(i.rejection)
      /\ b = [entities |-> b.entities, flows |-> b.flows, checkpoints |-> b.checkpoints, rejections |-> b.rejections]
  BY Zenon DEF Collected
<1>4. b.entities \in Seq(Entity) /\ Len(b.entities) = Len(batch.entities) + One(i.entity # Absent)
  <2>1. PICK q, x, r : q = batch.entities /\ x = i.entity /\ r = b.entities
    BY Zenon
  <2>2. q \in Seq(Entity) /\ (x # Absent => x \in Entity) /\ (x = Absent => r = q) /\ (x # Absent => r = Append(q, x))
    BY <1>1, <1>2, <1>3, <2>1, Zenon
  <2>3. r \in Seq(Entity) /\ Len(r) = Len(q) + One(x # Absent)
    BY <2>2, AppendUnless
  <2> QED BY <2>1, <2>3, Zenon
<1>5. b.flows \in Seq(Flows) /\ Len(b.flows) = Len(batch.flows) + One(i.flow # Absent)
  <2>1. PICK q, x, r : q = batch.flows /\ x = i.flow /\ r = b.flows
    BY Zenon
  <2>2. q \in Seq(Flows) /\ (x # Absent => x \in Flows) /\ (x = Absent => r = q) /\ (x # Absent => r = Append(q, x))
    BY <1>1, <1>2, <1>3, <2>1, Zenon
  <2>3. r \in Seq(Flows) /\ Len(r) = Len(q) + One(x # Absent)
    BY <2>2, AppendUnless
  <2> QED BY <2>1, <2>3, Zenon
<1>6. b.checkpoints \in Seq(Flows) /\ Len(b.checkpoints) = Len(batch.checkpoints) + One(i.checkpoint # Absent)
  <2>1. PICK q, x, r : q = batch.checkpoints /\ x = i.checkpoint /\ r = b.checkpoints
    BY Zenon
  <2>2. q \in Seq(Flows) /\ (x # Absent => x \in Flows) /\ (x = Absent => r = q) /\ (x # Absent => r = Append(q, x))
    BY <1>1, <1>2, <1>3, <2>1, Zenon
  <2>3. r \in Seq(Flows) /\ Len(r) = Len(q) + One(x # Absent)
    BY <2>2, AppendUnless
  <2> QED BY <2>1, <2>3, Zenon
<1>7. One(i.rejection) \in Nat /\ One(i.entity # Absent) \in Nat /\ One(i.flow # Absent) \in Nat /\ One(i.checkpoint # Absent) \in Nat
  BY Zenon DEF One
<1>8. b \in Batches
  <2>1. b.rejections \in Nat
    BY <1>1, <1>3, <1>7
  <2> QED BY <1>3, <1>4, <1>5, <1>6, <2>1, Zenon DEF Batches
<1>9. BatchCount(b) = BatchCount(batch) + recordCount(i)
  <2>1. Len(batch.entities) \in Nat /\ Len(batch.flows) \in Nat /\ Len(batch.checkpoints) \in Nat
    BY <1>1
  <2>2. BatchCount(b) = (Len(batch.entities) + One(i.entity # Absent)) + (Len(batch.flows) + One(i.flow # Absent))
                        + (Len(batch.checkpoints) + One(i.checkpoint # Absent)) + (batch.rejections + One(i.rejection))
    BY <1>3, <1>4, <1>5, <1>6, Zenon DEF BatchCount
  <2>3. recordCount(i) = One(i.entity # Absent) + One(i.flow # Absent) + One(i.checkpoint # Absent) + One(i.rejection)
    BY Zenon DEF recordCount
  <2>4. BatchCount(batch) = Len(batch.entities) + Len(batch.flows) + Len(batch.checkpoints) + batch.rejections
    BY Zenon DEF BatchCount
  <2>5. PICK n1, n2, n3, n4 : /\ n1 = One(i.entity # Absent) /\ n2 = One(i.flow # Absent)
                              /\ n3 = One(i.checkpoint # Absent) /\ n4 = One(i.rejection)
    BY Zenon
  <2>6. PICK l1, l2, l3 : l1 = Len(batch.entities) /\ l2 = Len(batch.flows) /\ l3 = Len(batch.checkpoints)
    BY Zenon
  <2>7. /\ n1 \in Nat /\ n2 \in Nat /\ n3 \in Nat /\ n4 \in Nat /\ l1 \in Nat /\ l2 \in Nat /\ l3 \in Nat
        /\ BatchCount(b) = (l1 + n1) + (l2 + n2) + (l3 + n3) + (batch.rejections + n4)
        /\ recordCount(i) = n1 + n2 + n3 + n4
        /\ BatchCount(batch) = l1 + l2 + l3 + batch.rejections
    BY <1>7, <2>1, <2>2, <2>3, <2>4, <2>5, <2>6, Zenon
  <2> QED BY <1>1, <2>7
<1>10. Range(b.flows) = Range(batch.flows) \cup ({i.flow} \ {Absent})
  <2>1. CASE i.flow = Absent
    BY <1>3, <2>1, Zenon
  <2>2. CASE i.flow # Absent
    <3>1. Range(b.flows) = Range(batch.flows) \cup {i.flow}
      BY <1>1, <1>3, <2>2, RangeAppend, ZenonT(60)
    <3> QED BY <2>2, <3>1, Zenon
  <2> QED BY <2>1, <2>2, Zenon
<1> QED BY <1>8, <1>9, <1>10, Zenon

LEMMA CollectKeeps ==
    ASSUME PipeInv, Collect
    PROVE  PipeInv'
<1> USE DEF PipeInv
<1>0. /\ writeCh # <<>> /\ writeCh' = Tail(writeCh) /\ writeCh \in Seq(Item) /\ batch \in Batches
      /\ writer = "select" /\ writer' \in {"select", "entities"} /\ batch' = Collected(Head(writeCh))
      /\ UNCHANGED <<life, geoCh, geoUp, rows, flowRows, received, written, dropped, stop>>
  BY Zenon DEF Collect, sourceVars, storeVars, PipeTypes
<1>1. PICK i : i = Head(writeCh)
  OBVIOUS
<1>2. /\ i \in Item /\ writeCh' \in Seq(Item)
      /\ Records(writeCh) = recordCount(i) + Records(writeCh')
      /\ Records(writeCh) \in Nat /\ Records(writeCh') \in Nat /\ recordCount(i) \in Nat
      /\ Queued(writeCh) = ({i.flow} \ {Absent}) \cup Queued(writeCh')
  BY <1>0, <1>1, HeadLeaves, Zenon
<1>3. /\ batch' \in Batches /\ BatchCount(batch') = BatchCount(batch) + recordCount(i)
      /\ Range(batch'.flows) = Range(batch.flows) \cup ({i.flow} \ {Absent})
  BY <1>0, <1>1, <1>2, CollectedBatch, Zenon
<1>4. BatchCount(batch) \in Nat /\ Records(geoCh) \in Nat
  BY BatchCountType, RecordsType, Zenon DEF PipeTypes
<1>5. ClosedFlows' = ClosedFlows
  BY <1>0, Zenon DEF ClosedFlows
<1>6. ExitInv' /\ RowInv'
  BY <1>0, Zenon DEF ExitInv, RowInv, closed
<1>7. PipeTypes'
  BY <1>0, <1>2, <1>3, Zenon DEF PipeTypes
<1>8. InFlight' = InFlight
  BY <1>0, <1>2, <1>3, <1>4, SMTT(60) DEF InFlight
<1>9. AuditAccounting'
  BY <1>0, <1>8, Zenon DEF AuditAccounting
<1>10. OnTheWay' = OnTheWay
  BY <1>0, <1>2, <1>3, Zenon DEF OnTheWay
<1>11. WayInv'
  BY <1>0, <1>5, <1>10, Zenon DEF WayInv
<1> QED BY <1>6, <1>7, <1>9, <1>11, Zenon

\* A transaction of flush: n records leave the batch, written or dropped.
LEMMA FlushedCounts ==
    ASSUME PipeInv, UNCHANGED <<geoCh, writeCh, geoUp, received, stop>>,
           NEW n \in Nat, batch' \in Batches, BatchCount(batch) = BatchCount(batch') + n,
           \/ written' = written + n /\ UNCHANGED dropped
           \/ dropped' = dropped + n /\ UNCHANGED written,
           rows' \in Tables, flowRows' \in SUBSET Flows, writer # "exited", writer' # "exited"
    PROVE  PipeTypes' /\ AuditAccounting' /\ ExitInv'
<1> USE DEF PipeInv
<1>1. written \in Nat /\ dropped \in Nat /\ written' \in Nat /\ dropped' \in Nat
  BY DEF PipeTypes
<1>2. PipeTypes'
  BY <1>1, Zenon DEF PipeTypes
<1>3. ExitInv'
  BY Zenon DEF ExitInv, closed
<1>4. PICK g, w, b, c : g = Records(geoCh) /\ w = Records(writeCh) /\ b = BatchCount(batch) /\ c = BatchCount(batch')
  BY Zenon
<1>5. g \in Nat /\ w \in Nat /\ b \in Nat /\ c \in Nat
  BY <1>4, BatchCountType, RecordsType, Zenon DEF PipeTypes
<1>6. received = written + dropped + (g + w + b) /\ b = c + n
  BY <1>4, Zenon DEF AuditAccounting, InFlight
<1>7. received' = written' + dropped' + (g + w + c)
  <2>1. received' = written + dropped + (g + w + (c + n))
    BY <1>6, Zenon
  <2>2. CASE written' = written + n /\ dropped' = dropped
    BY <1>1, <1>5, <2>1, <2>2
  <2>3. CASE dropped' = dropped + n /\ written' = written
    BY <1>1, <1>5, <2>1, <2>3
  <2> QED BY <2>2, <2>3, Zenon
<1>8. AuditAccounting'
  BY <1>4, <1>7, Zenon DEF AuditAccounting, InFlight
<1> QED BY <1>2, <1>3, <1>8, Zenon

\* Rows of closed flows stay when the tables change as upserts change them.
LEMMA RowsStay ==
    ASSUME PipeInv, Frozen(rows, rows'), UNCHANGED flowRows
    PROVE  RowInv'
<1>1. \A f \in flowRows : f \in Flows /\ rows[f] # Absent /\ rows[f].state = "closed"
  BY Zenon DEF PipeInv, PipeTypes, RowInv
<1> QED BY <1>1, Zenon DEF RowInv, Frozen

LEMMA FrozenSame == \A t : Frozen(t, t)
BY Zenon DEF Frozen

LEMMA BatchParts ==
    ASSUME batch \in Batches
    PROVE  /\ batch.entities \in Seq(Entity) /\ batch.flows \in Seq(Flows)
           /\ batch.checkpoints \in Seq(Flows) /\ batch.rejections \in Nat
BY Zenon DEF Batches

\* The parts of the batch that a transaction leaves.
LEMMA FlushedBatch ==
    ASSUME batch \in Batches
    PROVE  /\ batch' = [batch EXCEPT !["entities"] = <<>>] =>
                 /\ batch' \in Batches /\ batch'.flows = batch.flows
                 /\ BatchCount(batch) = BatchCount(batch') + Len(batch.entities)
           /\ batch' = [batch EXCEPT !["flows"] = <<>>] =>
                 /\ batch' \in Batches /\ batch'.flows = <<>>
                 /\ BatchCount(batch) = BatchCount(batch') + Len(batch.flows)
           /\ batch' = [batch EXCEPT !["checkpoints"] = <<>>] =>
                 /\ batch' \in Batches /\ batch'.flows = batch.flows
                 /\ BatchCount(batch) = BatchCount(batch') + Len(batch.checkpoints)
           /\ batch' = [batch EXCEPT !["rejections"] = 0] =>
                 /\ batch' \in Batches /\ batch'.flows = batch.flows
                 /\ BatchCount(batch) = BatchCount(batch') + batch.rejections
<1>1. PICK e, f, c, r : /\ e \in Seq(Entity) /\ f \in Seq(Flows) /\ c \in Seq(Flows) /\ r \in Nat
                        /\ batch = [entities |-> e, flows |-> f, checkpoints |-> c, rejections |-> r]
  BY Zenon DEF Batches
<1>2. Len(e) \in Nat /\ Len(f) \in Nat /\ Len(c) \in Nat /\ Len(<<>>) = 0
  BY <1>1
<1>3. ASSUME batch' = [batch EXCEPT !["entities"] = <<>>]
      PROVE  batch' \in Batches /\ batch'.flows = batch.flows /\ BatchCount(batch) = BatchCount(batch') + Len(batch.entities)
  <2>1. batch' = [entities |-> <<>>, flows |-> f, checkpoints |-> c, rejections |-> r]
    BY <1>1, <1>3, Zenon
  <2> QED BY <1>1, <1>2, <2>1, SMTT(60) DEF Batches, BatchCount
<1>4. ASSUME batch' = [batch EXCEPT !["flows"] = <<>>]
      PROVE  batch' \in Batches /\ batch'.flows = <<>> /\ BatchCount(batch) = BatchCount(batch') + Len(batch.flows)
  <2>1. batch' = [entities |-> e, flows |-> <<>>, checkpoints |-> c, rejections |-> r]
    BY <1>1, <1>4, Zenon
  <2> QED BY <1>1, <1>2, <2>1, SMTT(60) DEF Batches, BatchCount
<1>5. ASSUME batch' = [batch EXCEPT !["checkpoints"] = <<>>]
      PROVE  batch' \in Batches /\ batch'.flows = batch.flows /\ BatchCount(batch) = BatchCount(batch') + Len(batch.checkpoints)
  <2>1. batch' = [entities |-> e, flows |-> f, checkpoints |-> <<>>, rejections |-> r]
    BY <1>1, <1>5, Zenon
  <2> QED BY <1>1, <1>2, <2>1, SMTT(60) DEF Batches, BatchCount
<1>6. ASSUME batch' = [batch EXCEPT !["rejections"] = 0]
      PROVE  batch' \in Batches /\ batch'.flows = batch.flows /\ BatchCount(batch) = BatchCount(batch') + batch.rejections
  <2>1. batch' = [entities |-> e, flows |-> f, checkpoints |-> c, rejections |-> 0]
    BY <1>1, <1>6, Zenon
  <2> QED BY <1>1, <1>2, <2>1, SMTT(60) DEF Batches, BatchCount
<1> QED BY <1>3, <1>4, <1>5, <1>6, Zenon

\* The transactions that write no flow row.
LEMMA OtherFlushKeeps ==
    ASSUME PipeInv, FlushEntities \/ FlushCheckpoints \/ FlushRejections
    PROVE  PipeInv' /\ Frozen(rows, rows') /\ rows' \in Tables
<1>0. /\ UNCHANGED <<life, geoCh, writeCh, geoUp, received, stop>>
      /\ writer # "exited" /\ writer' # "exited" /\ UNCHANGED flowRows
  BY Zenon DEF FlushEntities, FlushCheckpoints, FlushRejections, FlushStep, sourceVars, storeVars, Written, Dropped
<1>1. batch \in Batches /\ rows \in Tables /\ flowRows \in SUBSET Flows /\ dropped \in Nat
  BY Zenon DEF PipeInv, PipeTypes
<1>2. /\ batch.entities \in Seq(Entity) /\ batch.checkpoints \in Seq(Flows) /\ batch.rejections \in Nat
      /\ Len(batch.entities) \in Nat /\ Len(batch.checkpoints) \in Nat
  BY <1>1, BatchParts
<1>3. rows' \in Tables /\ Frozen(rows, rows')
  <2>1. CASE UNCHANGED rows
    BY <1>1, <2>1, FrozenSame, Zenon
  <2>2. CASE rows' = upsertAll(rows, batch.entities)
    BY <1>1, <1>2, <2>2, UpsertAllFreezes, Zenon
  <2> QED BY <2>1, <2>2, ZenonT(60) DEF FlushEntities, FlushCheckpoints, FlushRejections, InsertFlowEntities, storeVars, Dropped
<1>4. PICK n \in Nat : /\ batch' \in Batches /\ batch'.flows = batch.flows /\ BatchCount(batch) = BatchCount(batch') + n
                       /\ \/ written' = written + n /\ UNCHANGED dropped
                          \/ dropped' = dropped + n /\ UNCHANGED written
  <2>1. CASE FlushEntities
    <3>1. /\ \/ written' = written + Len(batch.entities) /\ UNCHANGED dropped
             \/ dropped' = dropped + Len(batch.entities) /\ UNCHANGED written
          /\ batch' = [batch EXCEPT !["entities"] = <<>>]
      BY <2>1, Zenon DEF FlushEntities, FlushStep, Written, Dropped
    <3> QED BY <1>1, <1>2, <3>1, FlushedBatch, Zenon
  <2>2. CASE FlushCheckpoints
    <3>1. /\ \/ written' = written + Len(batch.checkpoints) /\ UNCHANGED dropped
             \/ dropped' = dropped + Len(batch.checkpoints) /\ UNCHANGED written
          /\ batch' = [batch EXCEPT !["checkpoints"] = <<>>]
      BY <2>2, Zenon DEF FlushCheckpoints, FlushStep, Written, Dropped
    <3> QED BY <1>1, <1>2, <3>1, FlushedBatch, Zenon
  <2>3. CASE FlushRejections
    <3>1. /\ \/ written' = written + batch.rejections /\ UNCHANGED dropped
             \/ dropped' = dropped + batch.rejections /\ UNCHANGED written
          /\ batch' = [batch EXCEPT !["rejections"] = 0]
      BY <2>3, Zenon DEF FlushRejections, FlushStep, Written, Dropped
    <3> QED BY <1>1, <1>2, <3>1, FlushedBatch, Zenon
  <2> QED BY <2>1, <2>2, <2>3, Zenon
<1>5. PipeTypes' /\ AuditAccounting' /\ ExitInv'
  <2>1. flowRows' \in SUBSET Flows
    BY <1>0, <1>1, Zenon
  <2> QED BY <1>0, <1>3, <1>4, <2>1, FlushedCounts, Zenon
<1>6. RowInv'
  BY <1>0, <1>3, RowsStay, Zenon
<1>7. WayInv'
  <2>1. OnTheWay' = OnTheWay /\ ClosedFlows' = ClosedFlows
    BY <1>0, <1>4, Zenon DEF OnTheWay, ClosedFlows
  <2>2. dropped' = 0 => dropped = 0
    BY <1>1, <1>4
  <2> QED BY <1>0, <2>1, <2>2, Zenon DEF WayInv, PipeInv
<1> QED BY <1>3, <1>5, <1>6, <1>7, Zenon DEF PipeInv

\* InsertFlows: the entities of the flows of the batch are closed.
LEMMA InsertedFlows ==
    ASSUME NEW fs \in Seq(Flows), rows \in Tables, NEW u, u = InsertFlows(fs)
    PROVE  /\ u \in Tables /\ Frozen(rows, u)
           /\ \A f \in Range(fs) : f \in Flows /\ u[f] # Absent /\ u[f].state = "closed"
<1>1. PICK es : es = [i \in 1..Len(fs) |-> PlainEntity(fs[i], "closed")]
  BY Zenon
<1>2. \A i \in 1..Len(fs) : fs[i] \in Flows
  OBVIOUS
<1>3. \A i \in 1..Len(fs) : PlainEntity(fs[i], "closed") \in Entity
  BY <1>2, SnapshotType, Zenon
<1>4. es \in Seq(Entity) /\ Len(es) = Len(fs)
  BY <1>1, <1>3
<1>5. \A i \in 1..Len(fs) : es[i].flow = fs[i] /\ es[i].state = "closed"
  BY <1>1, Zenon DEF PlainEntity
<1>6. u = upsertAll(rows, es)
  BY <1>1, Zenon DEF InsertFlows
<1>7. /\ u \in Tables /\ Frozen(rows, u)
      /\ \A i \in 1..Len(es) : es[i].state = "closed" => u[es[i].flow] # Absent /\ u[es[i].flow].state = "closed"
  BY <1>4, <1>6, UpsertAllFreezes, ZenonT(60)
<1>8. \A i \in 1..Len(fs) : u[fs[i]] # Absent /\ u[fs[i]].state = "closed"
  BY <1>4, <1>5, <1>7, Zenon
<1>9. \A f \in Range(fs) : \E i \in 1..Len(fs) : f = fs[i]
  BY DEF Range
<1> QED BY <1>2, <1>7, <1>8, <1>9, ZenonT(60)

LEMMA FlushFlowsKeeps ==
    ASSUME PipeInv, FlushFlows
    PROVE  PipeInv' /\ Frozen(rows, rows') /\ rows' \in Tables
<1>0. /\ UNCHANGED <<life, geoCh, writeCh, geoUp, received, stop>>
      /\ writer # "exited" /\ writer' # "exited" /\ batch' = [batch EXCEPT !["flows"] = <<>>]
  BY Zenon DEF FlushFlows, FlushStep, sourceVars
<1>1. batch \in Batches /\ rows \in Tables /\ flowRows \in SUBSET Flows /\ dropped \in Nat
  BY Zenon DEF PipeInv, PipeTypes
<1>2. batch.flows \in Seq(Flows) /\ Len(batch.flows) \in Nat
  BY <1>1, BatchParts
<1>3. batch' \in Batches /\ batch'.flows = <<>> /\ BatchCount(batch) = BatchCount(batch') + Len(batch.flows)
  BY <1>0, <1>1, FlushedBatch, Zenon
<1>4. OnTheWay = OnTheWay' \cup Range(batch.flows)
  <2>1. Range(<<>>) = {}
    BY DEF Range
  <2> QED BY <1>0, <1>3, <2>1, Zenon DEF OnTheWay
<1>5. ClosedFlows' = ClosedFlows
  BY <1>0, Zenon DEF ClosedFlows
<1>6. CASE /\ rows' = InsertFlows(batch.flows) /\ flowRows' = flowRows \cup Range(batch.flows)
           /\ Written(Len(batch.flows))
  <2>1. /\ rows' \in Tables /\ Frozen(rows, rows')
        /\ \A f \in Range(batch.flows) : f \in Flows /\ rows'[f] # Absent /\ rows'[f].state = "closed"
    BY <1>1, <1>2, <1>6, InsertedFlows, Zenon
  <2>2. flowRows' \in SUBSET Flows
    BY <1>1, <1>6, <2>1, Zenon
  <2>3. PipeTypes' /\ AuditAccounting' /\ ExitInv'
    BY <1>0, <1>2, <1>3, <1>6, <2>1, <2>2, FlushedCounts, Zenon DEF Written
  <2>4. RowInv'
    <3>1. \A f \in flowRows : f \in Flows /\ rows[f] # Absent /\ rows[f].state = "closed"
      BY Zenon DEF PipeInv, PipeTypes, RowInv
    <3>2. \A f \in flowRows : rows'[f] # Absent /\ rows'[f].state = "closed"
      BY <2>1, <3>1, Zenon DEF Frozen
    <3> QED BY <1>6, <2>1, <3>2, Zenon DEF RowInv
  <2>5. WayInv'
    BY <1>4, <1>5, <1>6, Zenon DEF WayInv, PipeInv, Written
  <2> QED BY <2>1, <2>3, <2>4, <2>5, Zenon DEF PipeInv
<1>7. CASE Dropped(Len(batch.flows))
  <2>0. UNCHANGED <<rows, flowRows, written>> /\ dropped' = dropped + Len(batch.flows)
    BY <1>7, Zenon DEF Dropped, storeVars
  <2>1. rows' \in Tables /\ Frozen(rows, rows') /\ flowRows' \in SUBSET Flows
    BY <1>1, <2>0, FrozenSame, Zenon
  <2>2. PipeTypes' /\ AuditAccounting' /\ ExitInv'
    BY <1>0, <1>2, <1>3, <2>0, <2>1, FlushedCounts, Zenon
  <2>3. RowInv'
    BY <2>0, <2>1, RowsStay, Zenon
  <2>4. dropped' = 0 => dropped = 0 /\ Range(batch.flows) = {}
    <3>1. dropped' = 0 => dropped = 0 /\ Len(batch.flows) = 0
      BY <1>1, <1>2, <2>0
    <3>2. Len(batch.flows) = 0 => Range(batch.flows) = {}
      BY <1>2 DEF Range
    <3> QED BY <3>1, <3>2, Zenon
  <2>5. WayInv'
    BY <1>4, <1>5, <2>0, <2>4, Zenon DEF WayInv, PipeInv
  <2> QED BY <2>1, <2>2, <2>3, <2>5, Zenon DEF PipeInv
<1> QED BY <1>6, <1>7, Zenon DEF FlushFlows

\* GeoExit, Flush, WriterExit, Shutdown and StoreClose move no record.
LEMMA QuietStepKeeps ==
    ASSUME PipeInv, GeoExit \/ Flush \/ WriterExit \/ Shutdown \/ StoreClose
    PROVE  PipeInv'
<1> USE DEF PipeInv
<1>1. UNCHANGED <<life, geoCh, writeCh, batch, rows, flowRows, received, written, dropped>>
  BY Zenon DEF GeoExit, Flush, WriterExit, Shutdown, StoreClose, sourceVars, storeVars
<1>2. InFlight' = InFlight /\ OnTheWay' = OnTheWay /\ ClosedFlows' = ClosedFlows
  BY <1>1, Zenon DEF InFlight, OnTheWay, ClosedFlows
<1>3. PipeTypes' /\ AuditAccounting' /\ WayInv' /\ RowInv'
  BY <1>1, <1>2, Zenon DEF PipeTypes, AuditAccounting, WayInv, RowInv
<1>4. ExitInv'
  BY <1>1, SMTT(60) DEF ExitInv, GeoExit, Flush, WriterExit, Shutdown, StoreClose, closed
<1> QED BY <1>3, <1>4, Zenon

LEMMA TagWriteKeeps ==
    ASSUME AuditInv, NEW f \in Flows, TagWrite(f)
    PROVE  AuditInv' /\ Frozen(rows, rows') /\ rows' \in Tables
<1>0. /\ UNCHANGED <<life, snaps, geoCh, writeCh, geoUp, batch, writer, flowRows, received, written, dropped, stop>>
      /\ tagging[f] # Absent /\ tagging' = [tagging EXCEPT ![f] = Absent]
      /\ rows' = upsertFlowEntity(rows, tagging[f]) \/ UNCHANGED rows
  BY Zenon DEF TagWrite
<1>1. SourceTypes'
  BY <1>0, Zenon DEF AuditInv, SourceTypes
<1>2. rows \in Tables /\ tagging[f] \in Entity
  BY <1>0, Zenon DEF AuditInv, SourceTypes, PipeInv, PipeTypes
<1>3. rows' \in Tables /\ Frozen(rows, rows')
  BY <1>0, <1>2, UpsertType, UpsertFreezes, FrozenSame, Zenon
<1>4. InFlight' = InFlight /\ OnTheWay' = OnTheWay /\ ClosedFlows' = ClosedFlows
  BY <1>0, Zenon DEF InFlight, OnTheWay, ClosedFlows
<1>5. PipeTypes' /\ AuditAccounting' /\ WayInv' /\ ExitInv'
  BY <1>0, <1>3, <1>4, Zenon DEF AuditInv, PipeInv, PipeTypes, AuditAccounting, WayInv, ExitInv, closed
<1>6. RowInv'
  BY <1>0, <1>3, RowsStay, Zenon DEF AuditInv
<1> QED BY <1>1, <1>3, <1>5, <1>6, Zenon DEF AuditInv, PipeInv

LEMMA SourceFrame ==
    ASSUME SourceTypes, UNCHANGED sourceVars
    PROVE  SourceTypes'
BY Zenon DEF SourceTypes, sourceVars

\* Every step keeps the invariant, and every step leaves closed rows as they are.
LEMMA AuditStep ==
    ASSUME AuditInv, [Next]_vars
    PROVE  AuditInv' /\ Frozen(rows, rows')
<1>0. ASSUME UNCHANGED rows PROVE Frozen(rows, rows')
  BY <1>0, FrozenSame, Zenon
<1>1. ASSUME NEW f \in Flows, SourceNext(f) PROVE AuditInv' /\ Frozen(rows, rows')
  <2>1. CASE Open(f)
    BY <1>0, <2>1, OpenStep, Zenon DEF Open, pipelineVars, storeVars
  <2>2. CASE Bind(f) \/ Replaced(f) \/ TagRead(f)
    BY <1>0, <2>2, RegistryStep, Zenon DEF Bind, Replaced, TagRead, pipelineVars, storeVars
  <2>3. CASE Update(f)
    BY <1>0, <2>3, ItemStep, Zenon DEF Update, pipelineVars, storeVars
  <2>4. CASE Close(f)
    BY <1>0, <2>4, CloseStep, Zenon DEF Close, pipelineVars, storeVars
  <2>5. CASE TagWrite(f)
    BY <2>5, TagWriteKeeps, Zenon
  <2>6. ASSUME NEW t \in Threads, PublishEntity(<<f, t>>) PROVE AuditInv' /\ Frozen(rows, rows')
    BY <1>0, <2>6, ItemStep, Zenon DEF PublishEntity, pipelineVars, storeVars
  <2> QED BY <1>1, <2>1, <2>2, <2>3, <2>4, <2>5, <2>6, Zenon DEF SourceNext
<1>2. CASE Reject
  BY <1>0, <1>2, ItemStep, Zenon DEF Reject, pipelineVars, storeVars
<1>3. CASE GeoStep
  <2>1. SourceTypes' /\ UNCHANGED rows
    BY <1>3, SourceFrame, Zenon DEF GeoStep, AuditInv, storeVars
  <2> QED BY <1>0, <1>3, <2>1, GeoStepKeeps, Zenon DEF AuditInv
<1>4. CASE Collect
  <2>1. SourceTypes' /\ UNCHANGED rows
    BY <1>4, SourceFrame, Zenon DEF Collect, AuditInv, storeVars
  <2> QED BY <1>0, <1>4, <2>1, CollectKeeps, Zenon DEF AuditInv
<1>5. CASE FlushEntities \/ FlushCheckpoints \/ FlushRejections
  <2>1. SourceTypes'
    BY <1>5, SourceFrame, Zenon DEF FlushEntities, FlushCheckpoints, FlushRejections, FlushStep, AuditInv
  <2> QED BY <1>5, <2>1, OtherFlushKeeps, Zenon DEF AuditInv
<1>6. CASE FlushFlows
  <2>1. SourceTypes'
    BY <1>6, SourceFrame, Zenon DEF FlushFlows, FlushStep, AuditInv
  <2> QED BY <1>6, <2>1, FlushFlowsKeeps, Zenon DEF AuditInv
<1>7. CASE GeoExit \/ Flush \/ WriterExit \/ Shutdown \/ StoreClose
  <2>1. SourceTypes' /\ UNCHANGED rows
    BY <1>7, SourceFrame, Zenon DEF GeoExit, Flush, WriterExit, Shutdown, StoreClose, AuditInv, storeVars
  <2> QED BY <1>0, <1>7, <2>1, QuietStepKeeps, Zenon DEF AuditInv
<1>8. CASE UNCHANGED vars
  <2>1. UNCHANGED <<sourceVars, life, geoCh, received, dropped, pipelineVars, rows>>
    BY <1>8, Zenon DEF vars, sourceVars, pipelineVars, storeVars
  <2>2. ClosedFlows' = ClosedFlows
    BY <2>1, Zenon DEF ClosedFlows
  <2> QED BY <1>0, <2>1, <2>2, SourceFrame, PipeFrame, Zenon DEF AuditInv
<1> QED BY <1>1, <1>2, <1>3, <1>4, <1>5, <1>6, <1>7, <1>8, Zenon DEF Next, GeoNext, WriterNext

(* The inductive invariant of pipeline and store, for any capacities and    *)
(* flows: types, accounting, ways of the closed flows, rows, exits.         *)
THEOREM AuditInvariant == Spec => []AuditInv
<1>1. AuditInv /\ [Next]_vars => AuditInv'
  BY AuditStep, Zenon
<1> QED BY <1>1, AuditInit, PTL DEF Spec

(* Every record the pipeline was given is written, counted as dropped, or   *)
(* still in a queue or in the batch, for queues and batches of any size and *)
(* any number of flows: enqueue, runGeoWorker and flush lose none.          *)
THEOREM AuditAccounted == Spec => []AuditAccounting
<1>1. AuditInv => AuditAccounting
  BY Zenon DEF AuditInv, PipeInv
<1> QED BY <1>1, AuditInvariant, PTL

(* When the write worker has returned and nothing was dropped, the flows    *)
(* with a row are exactly the closed ones; and a flow with a row is closed  *)
(* in flow_entities too, whatever late snapshots and tag operations write.  *)
THEOREM FlowRowsComplete == Spec => []RowsFollowFlows
<1>1. AuditInv => RowsFollowFlows
  <2> SUFFICES ASSUME AuditInv PROVE RowsFollowFlows
    OBVIOUS
  <2>1. ASSUME writer = "exited", dropped = 0 PROVE flowRows = ClosedFlows
    <3>1. geoCh = <<>> /\ writeCh = <<>> /\ batch.flows = <<>>
      BY <2>1 DEF AuditInv, PipeInv, ExitInv, EmptyBatch
    <3>2. Range(<<>>) = {}
      BY DEF Range
    <3>3. OnTheWay = {}
      BY <3>1, <3>2, QueuedEmpty, Zenon DEF OnTheWay
    <3> QED BY <2>1, <3>3, Zenon DEF AuditInv, PipeInv, WayInv
  <2> QED BY <2>1, Zenon DEF RowsFollowFlows, ClosedFlows, AuditInv, PipeInv, RowInv
<1> QED BY <1>1, AuditInvariant, PTL

(* No step changes the state, the tuple's key or the address of a closed    *)
(* row of flow_entities: the ON CONFLICT clause of upsertFlowEntityTx keeps *)
(* them against every snapshot, item and tag operation that comes late.     *)
THEOREM ClosedRowsFrozen == Spec => ClosedRowFrozen
<1> DEFINE Keeps == \A f \in Flows : rows[f] # Absent /\ rows[f].state = "closed" =>
                       rows'[f].state = "closed" /\ rows'[f].key = rows[f].key /\ rows'[f].local = rows[f].local
<1>1. AuditInv /\ [Next]_vars => [Keeps]_vars
  <2>1. Frozen(rows, rows') => Keeps
    BY Zenon DEF Frozen
  <2> QED BY <2>1, AuditStep, Zenon
<1> QED BY <1>1, AuditInvariant, PTL DEF Spec, ClosedRowFrozen

-----------------------------------------------------------------------------
\* The selection.

\* The smaller of two numbers.
LEMMA AtMostIs ==
    ASSUME NEW n \in Nat, NEW cap \in Nat
    PROVE  AtMost(n, cap) = IF n <= cap THEN n ELSE cap
  BY DEF AtMost, Min

\* The documented order, one criterion after the other.
Rank(t) == CASE EffectiveHealth(health[t]) = "healthy" -> 0
             [] EffectiveHealth(health[t]) = "stale" -> 1
             [] OTHER -> 2
Measured(t) == IF health[t].rtt = 0 THEN MaxRTT + 1 ELSE health[t].rtt
Place(t) == CHOOSE i \in DOMAIN Order : Order[i] = t

\* The candidates of the selection, and their health as far as it matters to it.
Ready(allowed) == {t \in allowed : Selectable(t, Refreshed)}
RankTypes == \A t \in Tags : health[t].rtt \in 0..MaxRTT /\ EffectiveHealth(health[t]) \in HealthState

LEMMA PrecedesIs ==
    ASSUME NEW a, NEW b
    PROVE  Precedes(a, b) <=>
              \/ Rank(a) < Rank(b)
              \/ Rank(a) = Rank(b) /\ Measured(a) < Measured(b)
              \/ Rank(a) = Rank(b) /\ Measured(a) = Measured(b) /\ -Priority[a] < -Priority[b]
              \/ /\ Rank(a) = Rank(b) /\ Measured(a) = Measured(b) /\ -Priority[a] = -Priority[b]
                 /\ Place(a) < Place(b)
<1> DEFINE K(t) == <<Rank(t), Measured(t), -Priority[t], Place(t)>>
<1>1. Precedes(a, b) <=> \E i \in 1..4 : K(a)[i] < K(b)[i] /\ \A k \in 1..(i - 1) : K(a)[k] = K(b)[k]
  BY Zenon DEF Precedes, Rank, Measured, Place
<1>2. PICK x1, x2, x3, x4, y1, y2, y3, y4 :
         /\ x1 = Rank(a) /\ x2 = Measured(a) /\ x3 = -Priority[a] /\ x4 = Place(a)
         /\ y1 = Rank(b) /\ y2 = Measured(b) /\ y3 = -Priority[b] /\ y4 = Place(b)
  BY Zenon
<1>3. PICK x, y : x = K(a) /\ y = K(b) /\ x = <<x1, x2, x3, x4>> /\ y = <<y1, y2, y3, y4>>
  BY <1>2, Zenon
<1>4. /\ x[1] = x1 /\ x[2] = x2 /\ x[3] = x3 /\ x[4] = x4
      /\ y[1] = y1 /\ y[2] = y2 /\ y[3] = y3 /\ y[4] = y4
  BY <1>3
<1>5. Precedes(a, b) <=> \E i \in 1..4 : x[i] < y[i] /\ \A k \in 1..(i - 1) : x[k] = y[k]
  BY <1>1, <1>3, Zenon
<1>6. /\ 1..4 = {1, 2, 3, 4}
      /\ 1..(1 - 1) = {} /\ 1..(2 - 1) = {1} /\ 1..(3 - 1) = {1, 2} /\ 1..(4 - 1) = {1, 2, 3}
  OBVIOUS
<1>7. Precedes(a, b) <=>
         \/ x1 < y1
         \/ x1 = y1 /\ x2 < y2
         \/ x1 = y1 /\ x2 = y2 /\ x3 < y3
         \/ x1 = y1 /\ x2 = y2 /\ x3 = y3 /\ x4 < y4
  BY <1>4, <1>5, <1>6, ZenonT(60)
<1> QED BY <1>2, <1>7, Zenon

\* A tag has one place in the configuration.
LEMMA PlaceIs ==
    ASSUME NEW i \in 1..Len(Order)
    PROVE  Order[i] \in Tags /\ Place(Order[i]) = i /\ Len(Order) \in Nat
<1>1. Len(Order) \in Nat /\ DOMAIN Order = 1..Len(Order)
  BY OrderAssumption
<1>2. \A k \in DOMAIN Order : Order[k] = Order[i] => k = i
  BY <1>1, UpstreamAssumption, Zenon DEF IsInjective
<1>3. Place(Order[i]) = i
  BY <1>1, <1>2, Zenon DEF Place
<1>4. Order[i] \in Tags
  BY <1>1, OrderAssumption
<1> QED BY <1>1, <1>3, <1>4, Zenon

LEMMA KeyTypes ==
    ASSUME RankTypes, NEW t \in Tags
    PROVE  Rank(t) \in 0..2 /\ Measured(t) \in Nat /\ Priority[t] \in Int /\ Place(t) \in Nat
<1>1. Rank(t) \in 0..2
  BY DEF Rank
<1>2. MaxRTT \in Nat /\ Priority[t] \in Int
  BY UpstreamAssumption, Zenon
<1>3. Measured(t) \in Nat
  BY <1>2 DEF Measured, RankTypes
<1>4. Place(t) \in Nat
  <2>1. Len(Order) \in Nat /\ DOMAIN Order = 1..Len(Order)
    BY OrderAssumption
  <2>2. \E i \in DOMAIN Order : Order[i] = t
    BY Zenon DEF Tags, Range
  <2>3. Place(t) \in DOMAIN Order
    BY <2>2, Zenon DEF Place
  <2> QED BY <2>1, <2>3
<1> QED BY <1>1, <1>2, <1>3, <1>4, Zenon

LEMMA PrecedesTransitive ==
    ASSUME RankTypes, NEW a \in Tags, NEW b \in Tags, NEW c \in Tags, Precedes(a, b), Precedes(b, c)
    PROVE  Precedes(a, c)
<1>1. PICK a1, a2, a3, a4 : a1 = Rank(a) /\ a2 = Measured(a) /\ a3 = -Priority[a] /\ a4 = Place(a)
  BY Zenon
<1>2. PICK b1, b2, b3, b4 : b1 = Rank(b) /\ b2 = Measured(b) /\ b3 = -Priority[b] /\ b4 = Place(b)
  BY Zenon
<1>3. PICK c1, c2, c3, c4 : c1 = Rank(c) /\ c2 = Measured(c) /\ c3 = -Priority[c] /\ c4 = Place(c)
  BY Zenon
<1>4. /\ a1 \in Int /\ a2 \in Int /\ a3 \in Int /\ a4 \in Int
      /\ b1 \in Int /\ b2 \in Int /\ b3 \in Int /\ b4 \in Int
      /\ c1 \in Int /\ c2 \in Int /\ c3 \in Int /\ c4 \in Int
  BY <1>1, <1>2, <1>3, KeyTypes
<1>5. a1 < b1 \/ (a1 = b1 /\ (a2 < b2 \/ (a2 = b2 /\ (a3 < b3 \/ (a3 = b3 /\ a4 < b4)))))
  BY <1>1, <1>2, PrecedesIs, Zenon
<1>6. b1 < c1 \/ (b1 = c1 /\ (b2 < c2 \/ (b2 = c2 /\ (b3 < c3 \/ (b3 = c3 /\ b4 < c4)))))
  BY <1>2, <1>3, PrecedesIs, Zenon
<1>7. \/ a1 < c1 \/ (a1 = c1 /\ a2 < c2)
      \/ (a1 = c1 /\ a2 = c2 /\ a3 < c3) \/ (a1 = c1 /\ a2 = c2 /\ a3 = c3 /\ a4 < c4)
  BY <1>4, <1>5, <1>6
<1> QED BY <1>1, <1>3, <1>7, PrecedesIs, Zenon

\* The rank of the code and the documented one order what can be selected alike.
LEMMA RanksAgree ==
    ASSUME NEW t, NEW h \in {"", "healthy", "stale"}, h = EffectiveHealth(health[t])
    PROVE  \/ HealthRank(h) = 0 /\ Rank(t) = 0
           \/ HealthRank(h) = 1 /\ Rank(t) = 1
           \/ HealthRank(h) = 3 /\ Rank(t) = 2
<1>2. Rank(t) = CASE h = "healthy" -> 0 [] h = "stale" -> 1 [] OTHER -> 2
  BY Zenon DEF Rank
<1>4. CASE h = ""
  BY <1>2, <1>4, Zenon DEF HealthRank
<1>5. CASE h = "healthy"
  BY <1>2, <1>5, Zenon DEF HealthRank
<1>6. CASE h = "stale"
  BY <1>2, <1>6, Zenon DEF HealthRank
<1> QED BY <1>4, <1>5, <1>6, Zenon

\* The comparison of the code, for candidates: a later tag must be better to precede.
LEMMA BetterPrecedes ==
    ASSUME RankTypes, NEW a \in Tags, NEW b \in Tags, Selectable(a, Refreshed), Selectable(b, Refreshed)
    PROVE  /\ Better(a, b, Refreshed) => Precedes(a, b)
           /\ ~Better(a, b, Refreshed) /\ Place(b) < Place(a) => Precedes(b, a)
<1>0. Refreshed[a] = EffectiveHealth(health[a]) /\ Refreshed[b] = EffectiveHealth(health[b])
  BY Zenon DEF Refreshed
<1>1. PICK ha, hb : ha = EffectiveHealth(health[a]) /\ hb = EffectiveHealth(health[b])
  BY Zenon
<1>2. ha \in {"", "healthy", "stale"} /\ hb \in {"", "healthy", "stale"}
  BY <1>0, <1>1, Zenon DEF RankTypes, HealthState, Selectable
<1>3. PICK ta, tb, pa, pb, qa, qb : /\ ta = health[a].rtt /\ tb = health[b].rtt /\ pa = Priority[a] /\ pb = Priority[b]
                                    /\ qa = Place(a) /\ qb = Place(b)
  BY Zenon
<1>4. /\ ta \in 0..MaxRTT /\ tb \in 0..MaxRTT /\ MaxRTT \in Nat /\ pa \in Int /\ pb \in Int /\ qa \in Int /\ qb \in Int
      /\ Measured(a) = (IF ta = 0 THEN MaxRTT + 1 ELSE ta) /\ Measured(b) = (IF tb = 0 THEN MaxRTT + 1 ELSE tb)
  BY <1>3, KeyTypes, UpstreamAssumption, SMTT(60) DEF Measured, RankTypes
<1>5. /\ HealthRank(ha) < HealthRank(hb) <=> Rank(a) < Rank(b)
      /\ HealthRank(ha) = HealthRank(hb) <=> Rank(a) = Rank(b)
      /\ HealthRank(hb) < HealthRank(ha) <=> Rank(b) < Rank(a)
      /\ HealthRank(ha) # HealthRank(hb) => HealthRank(ha) < HealthRank(hb) \/ HealthRank(hb) < HealthRank(ha)
  <2>1. PICK ka, kb, ra, rb : ka = HealthRank(ha) /\ kb = HealthRank(hb) /\ ra = Rank(a) /\ rb = Rank(b)
    BY Zenon
  <2>2. /\ (ka = 0 /\ ra = 0) \/ (ka = 1 /\ ra = 1) \/ (ka = 3 /\ ra = 2)
        /\ (kb = 0 /\ rb = 0) \/ (kb = 1 /\ rb = 1) \/ (kb = 3 /\ rb = 2)
    <3>1. \/ HealthRank(ha) = 0 /\ Rank(a) = 0
          \/ HealthRank(ha) = 1 /\ Rank(a) = 1
          \/ HealthRank(ha) = 3 /\ Rank(a) = 2
      BY <1>1, <1>2, RanksAgree, Zenon
    <3>2. \/ HealthRank(hb) = 0 /\ Rank(b) = 0
          \/ HealthRank(hb) = 1 /\ Rank(b) = 1
          \/ HealthRank(hb) = 3 /\ Rank(b) = 2
      BY <1>1, <1>2, RanksAgree, Zenon
    <3> QED BY <2>1, <3>1, <3>2, Zenon
  <2>3. /\ ka < kb <=> ra < rb
        /\ ka = kb <=> ra = rb
        /\ kb < ka <=> rb < ra
        /\ ka # kb => ka < kb \/ kb < ka
    BY <2>2
  <2> QED BY <2>1, <2>3, Zenon
<1>6. Better(a, b, Refreshed) <=>
         IF HealthRank(ha) # HealthRank(hb) THEN HealthRank(ha) < HealthRank(hb)
         ELSE IF ta # tb THEN ta > 0 /\ (tb = 0 \/ ta < tb) ELSE pa > pb
  BY <1>0, <1>1, <1>3, Zenon DEF Better
<1>7. PICK ma, mb : ma = Measured(a) /\ mb = Measured(b)
  BY Zenon
<1>8. /\ ma \in Int /\ mb \in Int /\ (ta = tb <=> ma = mb)
      /\ ta # tb => (ta > 0 /\ (tb = 0 \/ ta < tb) <=> ma < mb)
  BY <1>4, <1>7
<1>9. PICK ra, rb : ra = Rank(a) /\ rb = Rank(b)
  BY Zenon
<1>10. ra \in Int /\ rb \in Int
  BY <1>9, KeyTypes
<1>11. Better(a, b, Refreshed) <=> IF ra # rb THEN ra < rb ELSE IF ma # mb THEN ma < mb ELSE pa > pb
  BY <1>5, <1>6, <1>8, <1>9, Zenon
<1>12. Better(a, b, Refreshed) => ra < rb \/ (ra = rb /\ ma < mb) \/ (ra = rb /\ ma = mb /\ -pa < -pb)
  BY <1>4, <1>8, <1>10, <1>11
<1>13. ~Better(a, b, Refreshed) /\ qb < qa =>
          rb < ra \/ (rb = ra /\ mb < ma) \/ (rb = ra /\ mb = ma /\ -pb < -pa) \/ (rb = ra /\ mb = ma /\ -pb = -pa /\ qb < qa)
  BY <1>4, <1>8, <1>10, <1>11
<1>14. Better(a, b, Refreshed) => Precedes(a, b)
  BY <1>3, <1>7, <1>9, <1>12, PrecedesIs, Zenon
<1>15. ~Better(a, b, Refreshed) /\ Place(b) < Place(a) => Precedes(b, a)
  BY <1>3, <1>7, <1>9, <1>13, PrecedesIs, Zenon
<1> QED BY <1>14, <1>15, Zenon

\* b is the first in the order among the candidates of the first n tags.
BestUpTo(n, b, allowed) ==
    \/ b = None /\ \A j \in 1..n : Order[j] \notin Ready(allowed)
    \/ /\ \E i \in 1..n : b = Order[i]
       /\ b \in Ready(allowed)
       /\ \A j \in 1..n : Order[j] \in Ready(allowed) => Order[j] = b \/ Precedes(b, Order[j])

\* One turn of selectBestLocked's loop.
Turn(b, t, allowed) ==
    IF t \notin allowed \/ ~Selectable(t, Refreshed) THEN b
    ELSE IF b = None \/ Better(t, b, Refreshed) THEN t ELSE b

LEMMA TurnKeepsBest ==
    ASSUME RankTypes, NEW allowed, NEW n \in 1..Len(Order), NEW b, BestUpTo(n - 1, b, allowed),
           NEW c, c = Turn(b, Order[n], allowed)
    PROVE  BestUpTo(n, c, allowed)
<1>0. /\ 1..n = 1..(n - 1) \cup {n} /\ n \in Nat
      /\ \A j \in 1..(n - 1) : j \in 1..Len(Order) /\ j < n
  BY OrderAssumption
<1>1. PICK t : t = Order[n]
  BY Zenon
<1>2. t \in Tags /\ Place(t) = n
  BY <1>1, PlaceIs, Zenon
<1>3. \A j \in 1..(n - 1) : Order[j] \in Tags /\ Place(Order[j]) = j
  BY <1>0, PlaceIs, Zenon
<1>4. None \notin Tags
  BY UpstreamAssumption, Zenon
<1>5. CASE t \notin Ready(allowed)
  <2>1. c = b
    BY <1>1, <1>5, Zenon DEF Turn, Ready
  <2> QED BY <1>0, <1>1, <1>5, <2>1, Zenon DEF BestUpTo
<1>6. CASE t \in Ready(allowed)
  <2>0. t \in allowed /\ Selectable(t, Refreshed)
    BY <1>6, Zenon DEF Ready
  <2>1. CASE b = None
    <3>1. c = t
      BY <1>1, <2>0, <2>1, Zenon DEF Turn
    <3>2. \A j \in 1..(n - 1) : Order[j] \notin Ready(allowed)
      BY <1>3, <1>4, <2>1, Zenon DEF BestUpTo
    <3> QED BY <1>0, <1>1, <1>6, <3>1, <3>2, Zenon DEF BestUpTo
  <2>2. CASE b # None
    <3>1. PICK i \in 1..(n - 1) : b = Order[i]
      BY <2>2, Zenon DEF BestUpTo
    <3>2. /\ b \in Ready(allowed) /\ b \in Tags /\ Place(b) < n
          /\ \A j \in 1..(n - 1) : Order[j] \in Ready(allowed) => Order[j] = b \/ Precedes(b, Order[j])
      BY <1>0, <1>3, <2>2, <3>1, Zenon DEF BestUpTo
    <3>3. Selectable(b, Refreshed)
      BY <3>2, Zenon DEF Ready
    <3>4. CASE Better(t, b, Refreshed)
      <4>1. c = t /\ Precedes(t, b)
        BY <1>1, <1>2, <2>0, <3>2, <3>3, <3>4, BetterPrecedes, Zenon DEF Turn
      <4>2. ASSUME NEW j \in 1..(n - 1), Order[j] \in Ready(allowed) PROVE Precedes(t, Order[j])
        <5>1. Order[j] \in Tags /\ (Order[j] = b \/ Precedes(b, Order[j]))
          BY <1>3, <3>2, <4>2, Zenon
        <5> QED BY <1>2, <3>2, <4>1, <5>1, PrecedesTransitive, Zenon
      <4> QED BY <1>0, <1>1, <1>6, <4>1, <4>2, Zenon DEF BestUpTo
    <3>5. CASE ~Better(t, b, Refreshed)
      <4>1. c = b
        BY <1>1, <2>0, <2>2, <3>5, Zenon DEF Turn
      <4>2. Precedes(b, t)
        BY <1>2, <2>0, <3>2, <3>3, <3>5, BetterPrecedes, Zenon
      <4> QED BY <1>0, <1>1, <3>1, <3>2, <4>1, <4>2, Zenon DEF BestUpTo
    <3> QED BY <3>4, <3>5, Zenon
  <2> QED BY <2>1, <2>2, Zenon
<1> QED BY <1>5, <1>6, Zenon

\* The loop goes through Len(Order) turns.
LEMMA SelectBestTurns ==
    ASSUME NEW allowed
    PROVE  \E h : /\ h[0] = None /\ SelectBest(allowed, Refreshed) = h[Len(Order)]
                  /\ \A n \in 1..Len(Order) : h[n] = Turn(h[n - 1], Order[n], allowed)
<1> DEFINE N == Len(Order)
           S == Tags \cup {None}
           step == [n \in 1..N |-> [b \in S |-> Turn(b, Order[n], allowed)]]
           Eq(g) == g = [n \in 0..N |-> IF n = 0 THEN None ELSE Turn(g[n - 1], Order[n], allowed)]
           best == CHOOSE g : Eq(g)
<1>0. N \in Nat /\ \A n \in 1..N : Order[n] \in S
  BY OrderAssumption
<1>1. step \in StepsOn(N, S)
  <2>1. \A n \in 1..N, b \in S : Turn(b, Order[n], allowed) \in S
    BY <1>0, Zenon DEF Turn
  <2> QED BY <2>1, Zenon DEF StepsOn
<1>2. PICK g \in [0..N -> S] : g[0] = None /\ \A n \in 1..N : g[n] = step[n][g[n - 1]]
  <2>0. None \in S
    OBVIOUS
  <2> HIDE DEF step, N, S
  <2>1. \E g : Iteration(g, N, S, None, step)
    BY <1>0, <1>1, <2>0, Recursion, Zenon
  <2> QED BY <2>1, Zenon DEF Iteration
<1>3. \A n \in 1..N : g[n - 1] \in S /\ n - 1 \in 0..N
  BY <1>0
<1>4. \A n \in 1..N : g[n] = Turn(g[n - 1], Order[n], allowed)
  BY <1>2, <1>3, Zenon
<1>5. Eq(g)
  BY <1>0, <1>2, <1>4
<1>6. Eq(best)
  <2> HIDE DEF Eq
  <2> QED BY <1>5, Zenon
<1>7. best[0] = None /\ \A n \in 1..N : best[n] = Turn(best[n - 1], Order[n], allowed)
  <2> SUFFICES ASSUME NEW h, Eq(h)
               PROVE  h[0] = None /\ \A n \in 1..N : h[n] = Turn(h[n - 1], Order[n], allowed)
    BY <1>6, Zenon
  <2>1. PICK F : F = [n \in 0..N |-> IF n = 0 THEN None ELSE Turn(h[n - 1], Order[n], allowed)]
    BY Zenon
  <2>2. F[0] = None /\ \A n \in 1..N : F[n] = Turn(h[n - 1], Order[n], allowed)
    BY <1>0, <2>1
  <2> QED BY <2>1, <2>2, Zenon
<1>8. SelectBest(allowed, Refreshed) = best[N]
  BY Zenon DEF SelectBest, Turn
<1> QED BY <1>7, <1>8, Zenon

LEMMA SelectBestIs ==
    ASSUME RankTypes, NEW allowed
    PROVE  BestUpTo(Len(Order), SelectBest(allowed, Refreshed), allowed)
<1> DEFINE N == Len(Order)
<1>0. N \in Nat
  BY OrderAssumption
<1>1. PICK h : /\ h[0] = None /\ SelectBest(allowed, Refreshed) = h[N]
               /\ \A n \in 1..N : h[n] = Turn(h[n - 1], Order[n], allowed)
  BY SelectBestTurns, Zenon
<1> DEFINE P == {n \in 0..N : BestUpTo(n, h[n], allowed)}
<1>2. 0 \in P
  <2>1. 1..0 = {} /\ 0 \in 0..N
    BY <1>0
  <2> QED BY <1>1, <2>1, Zenon DEF BestUpTo
<1>3. \A n \in 1..N : n - 1 \in P => n \in P
  <2>1. \A n \in 1..N : n \in 0..N
    BY <1>0
  <2> QED BY <1>1, <2>1, TurnKeepsBest, Zenon
<1>4. \A n \in 0..N : n \in P
  <2> HIDE DEF P
  <2> QED BY <1>0, <1>2, <1>3, Climb, Zenon
<1>5. N \in 0..N
  BY <1>0
<1> QED BY <1>1, <1>4, <1>5, Zenon

-----------------------------------------------------------------------------
(* The invariant: the types, and an override of the route's own upstreams. *)

OverridesInv == \A r \in RouteNames : overrides[r] \in Range(Routes[r].upstreams) \cup {None}

UpstreamInv == UpstreamTypeOK /\ OverridesInv

LEMMA SnapshotParts ==
    ASSUME NEW h
    PROVE  h \in HealthSnapshot <=>
              /\ h = [state |-> h.state, rtt |-> h.rtt, since |-> h.since, successes |-> h.successes, failures |-> h.failures]
              /\ h.state \in {"", "healthy", "down"} /\ h.rtt \in 0..MaxRTT
              /\ h.since \in 0..(StaleThreshold + 1) \cup {None}
              /\ h.successes \in 0..RecoveryThreshold /\ h.failures \in 0..FailureThreshold
BY Zenon DEF HealthSnapshot, HealthState

LEMMA EffectiveOf ==
    ASSUME NEW h \in HealthSnapshot
    PROVE  EffectiveHealth(h) \in HealthState /\ (EffectiveHealth(h) = "down" <=> h.state = "down")
<1>1. h.state \in {"", "healthy", "down"}
  BY SnapshotParts, Zenon
<1> QED BY <1>1, Zenon DEF EffectiveHealth, HealthState

\* An estimate between two RTTs is one.
LEMMA EWMAOf ==
    ASSUME NEW rtt \in 0..MaxRTT, NEW observed \in 0..MaxRTT, NEW x \in EWMA(rtt, observed)
    PROVE  x \in 0..MaxRTT
<1>0. MaxRTT \in Nat
  BY UpstreamAssumption, Zenon
<1>1. Min({rtt, observed}) \in 0..MaxRTT /\ Max({rtt, observed}) \in 0..MaxRTT
  BY <1>0 DEF Min, Max
<1> QED BY <1>0, <1>1 DEF EWMA

LEMMA AtMostOf ==
    ASSUME NEW n \in Nat, NEW cap \in Nat
    PROVE  AtMost(n, cap) \in 0..cap
<1>1. AtMost(n, cap) = IF n <= cap THEN n ELSE cap
  BY AtMostIs, Zenon
<1> QED BY <1>1

LEMMA ObservedSnapshot ==
    ASSUME NEW h \in HealthSnapshot, NEW o \in Observations, NEW g \in ApplyObservation(h, o)
    PROVE  g \in HealthSnapshot
<1>0. /\ FailureThreshold \in Nat /\ RecoveryThreshold \in Nat /\ StaleThreshold \in Nat
      /\ h.state \in {"", "healthy", "down"} /\ h.rtt \in 0..MaxRTT
      /\ h.since \in 0..(StaleThreshold + 1) \cup {None}
      /\ h.successes \in 0..RecoveryThreshold /\ h.failures \in 0..FailureThreshold
  BY SnapshotParts, UpstreamAssumption, Zenon
<1>h. h = [state |-> h.state, rtt |-> h.rtt, since |-> h.since, successes |-> h.successes, failures |-> h.failures]
  BY SnapshotParts, Zenon
<1>n. FailureThreshold \in Nat /\ RecoveryThreshold \in Nat /\ StaleThreshold \in Nat /\ MaxRTT \in Nat
  BY UpstreamAssumption, Zenon
<1>z. 0 \in 0..FailureThreshold /\ 0 \in 0..RecoveryThreshold
  BY <1>n
<1>s. h.successes + 1 \in Nat /\ h.failures + 1 \in Nat
  <2>1. PICK x, y : x = h.successes /\ y = h.failures
    BY Zenon
  <2>2. x \in 0..RecoveryThreshold /\ y \in 0..FailureThreshold
    BY <1>0, <2>1, Zenon
  <2>3. x + 1 \in Nat /\ y + 1 \in Nat
    BY <1>n, <2>2
  <2> QED BY <2>1, <2>3, Zenon
<1>1. CASE o.success
  <2>1. PICK rtt \in EWMA(h.rtt, o.rtt) : g = Succeeded(h, rtt, o.age)
    BY <1>1, Zenon DEF ApplyObservation
  <2>2. o.rtt \in 0..MaxRTT /\ o.age \in 0..(StaleThreshold + 1)
    <3>0. o # [success |-> FALSE, rtt |-> 0, age |-> 0]
      BY <1>1
    <3>1. o.rtt \in 1..MaxRTT /\ o.age \in 0..(StaleThreshold + 1)
      BY <3>0, Zenon DEF Observations
    <3> QED BY <1>n, <3>1
  <2>3. rtt \in 0..MaxRTT
    BY <1>0, <2>1, <2>2, EWMAOf, Zenon
  <2>4. PICK n : n = AtMost(h.successes + 1, RecoveryThreshold)
    BY Zenon
  <2>5. n \in 0..RecoveryThreshold
    BY <1>n, <1>s, <2>4, AtMostOf, Zenon
  <2>6. PICK st \in {"healthy", "down"} :
           g = [h EXCEPT !.successes = n, !.failures = 0, !.rtt = rtt, !.since = o.age, !.state = st]
    BY <2>1, <2>4, Zenon DEF Succeeded
  <2>7. g = [state |-> st, rtt |-> rtt, since |-> o.age, successes |-> n, failures |-> 0]
    BY <1>h, <2>6, Zenon
  <2> QED BY <1>z, <2>2, <2>3, <2>5, <2>7, Zenon DEF HealthSnapshot, HealthState
<1>2. CASE ~o.success
  <2>1. g = Failed(h)
    BY <1>2, Zenon DEF ApplyObservation
  <2>4. PICK n : n = AtMost(h.failures + 1, FailureThreshold)
    BY Zenon
  <2>5. n \in 0..FailureThreshold
    BY <1>n, <1>s, <2>4, AtMostOf, Zenon
  <2>6. PICK st \in {"", "healthy", "down"} : g = [h EXCEPT !.failures = n, !.successes = 0, !.state = st]
    BY <1>0, <2>1, <2>4, Zenon DEF Failed
  <2>7. g = [state |-> st, rtt |-> h.rtt, since |-> h.since, successes |-> 0, failures |-> n]
    BY <1>h, <2>6, Zenon
  <2> QED BY <1>0, <1>z, <2>5, <2>7, Zenon DEF HealthSnapshot, HealthState
<1> QED BY <1>1, <1>2, Zenon

LEMMA UpstreamInitInv == UpstreamInit => UpstreamInv
<1> SUFFICES ASSUME UpstreamInit PROVE UpstreamInv
  OBVIOUS
<1>0. FailureThreshold \in Nat /\ RecoveryThreshold \in Nat /\ MaxRTT \in Nat /\ DialCooldown \in Nat
  BY UpstreamAssumption, Zenon
<1>1. [state |-> "", rtt |-> 0, since |-> None, successes |-> 0, failures |-> 0] \in HealthSnapshot
  BY <1>0 DEF HealthSnapshot, HealthState
<1>2. health \in [Tags -> HealthSnapshot] /\ callback \in Tags \cup {None} /\ activeIP \in [Tags -> IPs]
  BY <1>1, Zenon DEF UpstreamInit
<1>3. stats \in [Tags -> HealthState] /\ cooling \in [Tags -> 0..DialCooldown]
  <2>1. 0 \in 0..DialCooldown /\ "" \in HealthState
    BY <1>0 DEF HealthState
  <2> QED BY <2>1, Zenon DEF UpstreamInit
<1>4. overrides \in [RouteNames -> Tags \cup {None}] /\ OverridesInv
  BY Zenon DEF UpstreamInit, OverridesInv
<1> QED BY <1>2, <1>3, <1>4, Zenon DEF UpstreamInv, UpstreamTypeOK

LEMMA UpstreamStep ==
    ASSUME UpstreamInv, [UpstreamNext]_upstreamVars
    PROVE  UpstreamInv'
<1> USE DEF UpstreamInv, UpstreamTypeOK
<1>0. /\ DialCooldown \in Nat /\ StaleThreshold \in Nat
      /\ \A r \in RouteNames : Range(Routes[r].upstreams) \subseteq Tags
  BY UpstreamAssumption, Zenon
<1>1. ASSUME NEW t \in Tags, NEW o \in Observations, RecordProbe(t, o) PROVE UpstreamInv'
  <2>1. PICK h \in ApplyObservation(health[t], o) :
           /\ health' = [health EXCEPT ![t] = h]
           /\ stats' = [stats EXCEPT ![t] = EffectiveHealth(h)]
           /\ callback' = IF stats[t] = EffectiveHealth(h) THEN None ELSE t
    BY <1>1, Zenon DEF RecordProbe
  <2>2. h \in HealthSnapshot /\ EffectiveHealth(h) \in HealthState
    BY <2>1, ObservedSnapshot, EffectiveOf, Zenon
  <2>3. UNCHANGED <<cooling, activeIP, overrides>>
    BY <1>1, Zenon DEF RecordProbe
  <2>4. health' \in [Tags -> HealthSnapshot] /\ stats' \in [Tags -> HealthState] /\ callback' \in Tags \cup {None}
    BY <2>1, <2>2, Zenon
  <2> QED BY <2>3, <2>4, Zenon DEF OverridesInv
<1>2. CASE OnStateChange
  BY <1>2, Zenon DEF OnStateChange, OverridesInv
<1>3. CASE RefreshStats
  <2>1. stats' \in [Tags -> HealthState]
    BY <1>3, EffectiveOf, Zenon DEF RefreshStats, Refreshed
  <2> QED BY <1>3, <2>1, Zenon DEF RefreshStats, OverridesInv
<1>4. CASE UpstreamTick
  <2>1. ASSUME NEW t \in Tags
        PROVE  [health[t] EXCEPT !.since = IF @ = None THEN None ELSE AtMost(@ + 1, StaleThreshold + 1)] \in HealthSnapshot
    <3>1. PICK h : h = health[t]
      BY Zenon
    <3>2. h \in HealthSnapshot
      BY <3>1, Zenon
    <3>3. PICK x : x = IF h.since = None THEN None ELSE AtMost(h.since + 1, StaleThreshold + 1)
      BY Zenon
    <3>4. x \in 0..(StaleThreshold + 1) \cup {None}
      <4>1. h.since \in 0..(StaleThreshold + 1) \cup {None}
        BY <3>2, SnapshotParts, Zenon
      <4>2. h.since # None => h.since + 1 \in Nat
        BY <1>0, <4>1
      <4>3. StaleThreshold + 1 \in Nat
        BY <1>0
      <4> QED BY <3>3, <4>2, <4>3, AtMostOf, Zenon
    <3>5. [h EXCEPT !.since = x] \in HealthSnapshot
      BY <3>2, <3>4, Zenon DEF HealthSnapshot
    <3> QED BY <3>1, <3>3, <3>5, Zenon
  <2>2. health' \in [Tags -> HealthSnapshot]
    BY <1>4, <2>1, Zenon DEF UpstreamTick
  <2>3. cooling' \in [Tags -> 0..DialCooldown]
    <3>1. ASSUME NEW t \in Tags PROVE (IF cooling[t] = 0 THEN 0 ELSE cooling[t] - 1) \in 0..DialCooldown
      <4>1. PICK x : x = cooling[t]
        BY Zenon
      <4>2. x \in 0..DialCooldown
        BY <4>1, Zenon
      <4>3. (IF x = 0 THEN 0 ELSE x - 1) \in 0..DialCooldown
        BY <1>0, <4>2
      <4> QED BY <4>1, <4>3, Zenon
    <3> QED BY <1>4, <3>1, Zenon DEF UpstreamTick
  <2> QED BY <1>4, <2>2, <2>3, Zenon DEF UpstreamTick, OverridesInv
<1>5. ASSUME NEW t \in Tags, MarkDialFailure(t) \/ ClearDialFailure(t) PROVE UpstreamInv'
  <2>1. 0 \in 0..DialCooldown /\ DialCooldown \in 0..DialCooldown
    BY <1>0
  <2>2. cooling' \in [Tags -> 0..DialCooldown]
    BY <1>5, <2>1, Zenon DEF MarkDialFailure, ClearDialFailure
  <2> QED BY <1>5, <2>2, Zenon DEF MarkDialFailure, ClearDialFailure, OverridesInv
<1>6. ASSUME NEW t \in Tags, NEW ips \in SUBSET IPs, NEW first \in ips, UpdateResolved(t, ips, first) PROVE UpstreamInv'
  <2>1. activeIP' \in [Tags -> IPs]
    BY <1>6, Zenon DEF UpdateResolved
  <2> QED BY <1>6, <2>1, Zenon DEF UpdateResolved, OverridesInv
<1>7. ASSUME NEW r \in RouteNames, NEW x \in Range(Routes[r].upstreams) \cup {None},
             overrides' = [overrides EXCEPT ![r] = x], UNCHANGED <<health, stats, callback, cooling, activeIP>>
      PROVE  UpstreamInv'
  <2>1. overrides' \in [RouteNames -> Tags \cup {None}]
    BY <1>0, <1>7, Zenon
  <2>2. OverridesInv'
    BY <1>7, Zenon DEF OverridesInv
  <2> QED BY <1>7, <2>1, <2>2, Zenon
<1>8. ASSUME NEW r \in RouteNames, ClearOverride(r) PROVE UpstreamInv'
  BY <1>7, <1>8, Zenon DEF ClearOverride
<1>9. ASSUME NEW r \in RouteNames, NEW t \in Tags, SetOverride(r, t) PROVE UpstreamInv'
  BY <1>7, <1>9, Zenon DEF SetOverride
<1>10. CASE UNCHANGED upstreamVars
  BY <1>10, Zenon DEF upstreamVars, OverridesInv
<1> QED BY <1>1, <1>2, <1>3, <1>4, <1>5, <1>6, <1>8, <1>9, <1>10, Zenon DEF UpstreamNext

(* Whatever the probes report, dials fail and operators set: an adaptive    *)
(* route takes its override while that is up and not cooling, else the      *)
(* first of its upstreams in the documented order (healthy, stale, not      *)
(* measured; RTT; priority; configuration order), and refuses only when     *)
(* none is up; for any upstreams, routes, thresholds and RTTs.              *)
THEOREM AdaptivePickIsBestAlways == UpstreamSpec => []AdaptivePickIsBest
<1>1. ASSUME UpstreamInv, NEW r \in RouteNames, Routes[r].strategy = "adaptive"
      PROVE  LET ready == {t \in Range(Routes[r].upstreams) : health[t].state # "down" /\ cooling[t] = 0}
             IN IF overrides[r] \in ready THEN Pick(r) = overrides[r]
                ELSE IF ready = {} THEN Pick(r) = None
                ELSE Pick(r) \in ready /\ \A t \in ready \ {Pick(r)} : Precedes(Pick(r), t)
  <2> DEFINE own == Range(Routes[r].upstreams)
             ready == {t \in own : health[t].state # "down" /\ cooling[t] = 0}
             best == SelectBest(own, Refreshed)
  <2>0. /\ own \subseteq Tags /\ None \notin Tags /\ "adaptive" # "static"
        /\ \A t \in Tags : cooling[t] \in Nat /\ health[t] \in HealthSnapshot
    BY <1>1, UpstreamAssumption, SMTT(60) DEF UpstreamInv, UpstreamTypeOK
  <2>1. \A t \in Tags : /\ Refreshed[t] = EffectiveHealth(health[t])
                        /\ EffectiveHealth(health[t]) = "down" <=> health[t].state = "down"
                        /\ EffectiveHealth(health[t]) \in HealthState /\ health[t].rtt \in 0..MaxRTT
    BY <2>0, EffectiveOf, SnapshotParts, Zenon DEF Refreshed
  <2>2. RankTypes
    BY <2>1, Zenon DEF RankTypes
  <2>3. \A t : t \in Ready(own) <=> t \in ready
    BY <2>0, <2>1, Zenon DEF Ready, Selectable
  <2>4. \A t \in Tags : SelectOverride(t) # None <=> health[t].state # "down" /\ cooling[t] = 0
    <3>1. \A t \in Tags : cooling[t] > 0 <=> cooling[t] # 0
      BY <2>0
    <3> QED BY <2>0, <2>1, <3>1, Zenon DEF SelectOverride
  <2>5. overrides[r] \in own \cup {None}
    BY <1>1, Zenon DEF UpstreamInv, OverridesInv
  <2>6. Pick(r) = IF overrides[r] # None /\ SelectOverride(overrides[r]) # None THEN overrides[r] ELSE best
    BY <1>1, <2>0, Zenon DEF Pick, SelectAdaptiveFrom
  <2>7. overrides[r] # None /\ SelectOverride(overrides[r]) # None <=> overrides[r] \in ready
    BY <2>0, <2>4, <2>5, Zenon
  <2>8. /\ best = None => ready = {}
        /\ best # None => best \in ready /\ \A t \in ready \ {best} : Precedes(best, t)
        /\ ready = {} => best = None
    <3>1. BestUpTo(Len(Order), best, own)
      BY <2>2, SelectBestIs, Zenon
    <3>2. \A t \in ready : \E j \in 1..Len(Order) : Order[j] = t
      <4>1. DOMAIN Order = 1..Len(Order)
        BY OrderAssumption
      <4> QED BY <2>0, <4>1, Zenon DEF Tags, Range
    <3>3. None \notin ready
      BY <2>0, Zenon
    <3> HIDE DEF ready, best, own
    <3>4. CASE best = None
      <4>1. \A j \in 1..Len(Order) : Order[j] \notin ready
        BY <2>3, <3>1, <3>3, <3>4, Zenon DEF BestUpTo
      <4> QED BY <3>2, <3>4, <4>1, Zenon
    <3>5. CASE best # None
      <4>1. best \in ready /\ \A j \in 1..Len(Order) : Order[j] \in ready => Order[j] = best \/ Precedes(best, Order[j])
        BY <2>3, <3>1, <3>5, Zenon DEF BestUpTo
      <4> QED BY <3>2, <3>5, <4>1, Zenon
    <3> QED BY <3>4, <3>5, Zenon
  <2> HIDE DEF best
  <2> QED BY <2>6, <2>7, <2>8, Zenon
<1>2. UpstreamInv => AdaptivePickIsBest
  BY <1>1, Zenon DEF AdaptivePickIsBest
<1>3. UpstreamInv /\ [UpstreamNext]_upstreamVars => UpstreamInv'
  BY UpstreamStep, Zenon
<1> QED BY <1>2, <1>3, UpstreamInitInv, PTL DEF UpstreamSpec
=============================================================================
