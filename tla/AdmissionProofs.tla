---------------------------- MODULE AdmissionProofs ----------------------------
(***************************************************************************)
(* Proofs about admission and the two policies it consults, and about the  *)
(* measurement server and the UDP exchange, for any file contents, any set *)
(* of rules and flows, and any limits.                                     *)
(*                                                                         *)
(* The persistent policy: its three properties hold together only with     *)
(* what is known of a reload between its two steps.                        *)
(*                                                                         *)
(* The online rules: OnlineInv adds to the four properties that the rules  *)
(* of the snapshot have different identifiers, and what is known of a      *)
(* publication that is pending: its transaction is already in the table.   *)
(* A crash then loses the publication and Restart makes up for it.         *)
(*                                                                         *)
(* Admission: AdmissionInv ties the history of the flow being decided to   *)
(* the policies as they are now, and says what its past reads have found.  *)
(*                                                                         *)
(* MeasureServer: ServerLeavesNothing is not inductive: the accept loop    *)
(* must be known to hold only a connection that has no handler yet, and to *)
(* be over, or never begun, when Serve has returned; and a peer that has   *)
(* not dialled must have no handler. ServerInv adds that.                  *)
(***************************************************************************)
EXTENDS Admission, MeasureServer, MeasureUDP, FiniteSetTheorems, TLAPS

-----------------------------------------------------------------------------
\* The persistent policy.

\* What the argument needs of the types.
PolicyTypes ==
    /\ file \in Docs \cup {Unreadable}
    /\ installing \in Snapshot \cup {Unset}
    /\ DOMAIN status = {"state", "doc", "generation", "failed"}
    /\ status.generation \in 1..MaxGeneration

\* A reload between the status and the snapshot.
InstallInv ==
    installing # Unset =>
        Validate(installing.doc) /\ status.state = "active" /\ status.generation = installing.generation

PolicyInv == PolicyTypes /\ InstallInv /\ StatusNamesEnforced /\ DegradedDeniesAll /\ EnforcedIsValid

\* The two built-in documents validate.
LEMMA BuiltInsAreValid == Validate(AllowAll) /\ Validate(DenyAll)
  BY DEF Validate, AllowAll, DenyAll

\* NewProvider, whichever way it is configured, establishes the invariant.
LEMMA PolicyInitInv == PolicyFileInit => PolicyInv
  <1> SUFFICES ASSUME PolicyFileInit PROVE PolicyInv
    OBVIOUS
  <1>1. PolicyTypes /\ InstallInv
    BY PolicyAssumption DEF PolicyFileInit, Installed, PolicyTypes, InstallInv
  <1>2. StatusNamesEnforced /\ DegradedDeniesAll
    BY DEF PolicyFileInit, Installed, StatusNamesEnforced, DegradedDeniesAll
  <1>3. EnforcedIsValid
    BY BuiltInsAreValid DEF PolicyFileInit, Installed, EnforcedIsValid, Loadable
  <1> QED
    BY <1>1, <1>2, <1>3, Zenon DEF PolicyInv

\* A file that loads is a document, and its snapshot is one.
LEMMA ReadsSnapshot ==
  ASSUME PolicyTypes, ReloadReads
  PROVE  /\ installing' \in Snapshot /\ installing' # Unset
         /\ installing'.doc = file /\ installing'.generation = status'.generation /\ Validate(file)
         /\ status'.doc = file /\ status'.generation = status.generation + 1 /\ status'.state = "active"
         /\ status'.generation \in 1..MaxGeneration
         /\ DOMAIN status' = {"state", "doc", "generation", "failed"}
  <1>1. file \in Docs /\ Validate(file)
    BY Zenon DEF PolicyTypes, ReloadReads, Loadable
  <1>2. /\ status'.doc = file /\ status'.generation = status.generation + 1 /\ status'.state = "active"
        /\ DOMAIN status' = {"state", "doc", "generation", "failed"}
    BY Zenon DEF ReloadReads
  <1>3. status'.generation \in 1..MaxGeneration
    BY <1>2, PolicyAssumption DEF PolicyTypes, ReloadReads
  <1>4. installing' = [doc |-> file, generation |-> status'.generation]
    BY Zenon DEF ReloadReads
  <1>5. installing' \in Snapshot
    BY <1>1, <1>3, <1>4, Zenon DEF Snapshot, Document
  <1> QED
    BY <1>1, <1>2, <1>3, <1>4, <1>5, PolicyAssumption, Zenon

\* Every edit of the file and every step of a reload keeps the invariant.
LEMMA PolicyStepInv == PolicyInv /\ [PolicyFileNext]_fwVars => PolicyInv'
  <1> SUFFICES ASSUME PolicyInv, [PolicyFileNext]_fwVars PROVE PolicyInv'
    OBVIOUS
  <1>1. CASE FileChanges \/ UNCHANGED fwVars
    BY <1>1, Zenon DEF FileChanges, fwVars, PolicyInv, PolicyTypes, InstallInv, StatusNamesEnforced,
                DegradedDeniesAll, EnforcedIsValid
  <1>2. CASE ReloadReads
    <2>1. PolicyTypes' /\ InstallInv'
      BY <1>2, ReadsSnapshot, Zenon DEF PolicyInv, PolicyTypes, InstallInv, ReloadReads
    <2>2. status.generation = current.generation
      BY <1>2, Zenon DEF ReloadReads, PolicyInv, StatusNamesEnforced
    <2>3. StatusNamesEnforced' /\ DegradedDeniesAll' /\ EnforcedIsValid'
      BY <1>2, <2>2, ReadsSnapshot, Zenon
      DEF PolicyInv, StatusNamesEnforced, DegradedDeniesAll, EnforcedIsValid, ReloadReads
    <2> QED
      BY <2>1, <2>3, Zenon DEF PolicyInv
  <1>3. CASE ReloadStores
    BY <1>3, Zenon DEF ReloadStores, PolicyInv, PolicyTypes, InstallInv, StatusNamesEnforced,
                DegradedDeniesAll, EnforcedIsValid
  <1>4. CASE ReloadRefused
    <2>1. /\ status'.doc = status.doc /\ status'.generation = status.generation
          /\ status'.state = status.state /\ DOMAIN status' = DOMAIN status
      BY <1>4, Zenon DEF ReloadRefused, PolicyInv, PolicyTypes
    <2> QED
      BY <1>4, <2>1, Zenon DEF ReloadRefused, PolicyInv, PolicyTypes, InstallInv, StatusNamesEnforced,
                        DegradedDeniesAll, EnforcedIsValid
  <1> QED
    BY <1>1, <1>2, <1>3, <1>4, Zenon DEF PolicyFileNext

\* For any contents of the policy file, what GetFirewallStatus reports is what decisions use, one
\* generation ahead at most.
THEOREM StatusNamesEnforcedAlways == PolicyFileSpec => []StatusNamesEnforced
  <1>1. PolicyInv => StatusNamesEnforced
    BY Zenon DEF PolicyInv
  <1> QED
    BY <1>1, PolicyInitInv, PolicyStepInv, PTL DEF PolicyFileSpec

\* For any contents of the policy file, a degraded provider denies every address.
THEOREM DegradedDeniesAllAlways == PolicyFileSpec => []DegradedDeniesAll
  <1>1. PolicyInv => DegradedDeniesAll
    BY Zenon DEF PolicyInv
  <1> QED
    BY <1>1, PolicyInitInv, PolicyStepInv, PTL DEF PolicyFileSpec

\* For any contents of the policy file, only documents that validate reach the engine.
THEOREM EnforcedIsValidAlways == PolicyFileSpec => []EnforcedIsValid
  <1>1. PolicyInv => EnforcedIsValid
    BY Zenon DEF PolicyInv
  <1> QED
    BY <1>1, PolicyInitInv, PolicyStepInv, PTL DEF PolicyFileSpec

-----------------------------------------------------------------------------
\* The order of the online rules.

\* sortRuntimeRules orders rules totally: two different rules have different identifiers.
LEMMA BeforeOrders ==
    ASSUME NEW r \in Rule, NEW q \in Rule, NEW p \in Rule
    PROVE  /\ ~Before(r, r)
           /\ Before(r, q) /\ Before(q, p) => Before(r, p)
           /\ r.id # q.id => Before(r, q) \/ Before(q, r)
<1>1. \A x \in {r, q, p} : x.id \in Nat /\ x.created \in Nat /\ x.spec.priority \in Nat
  BY OnlineAssumption, ZenonT(60) DEF Rule
<1> QED BY <1>1 DEF Before

\* A finite set of rules with different identifiers that is not empty has a first rule,
\* so the scan of DecideDeny and DecideAction is the choice FirstOf makes.
LEMMA FirstExists ==
    ASSUME NEW S, S \subseteq Rule, IsFiniteSet(S), S # {},
           \A r, q \in S : r.id = q.id => r = q
    PROVE  FirstOf(S) \in S /\ \A q \in S \ {FirstOf(S)} : Before(FirstOf(S), q)
<1> DEFINE Earlier(r) == {q \in S : Before(q, r)}
           T == {Earlier(r) : r \in S}
<1>1. T \subseteq FiniteSubsetsOf(S) /\ T # {}
  <2>1. \A r \in S : Earlier(r) \in SUBSET S /\ IsFiniteSet(Earlier(r))
    BY FS_Subset, Zenon
  <2> HIDE DEF Earlier
  <2> QED BY <2>1, Zenon DEF FiniteSubsetsOf
<1>2. \E x \in T : \A y \in T : ~(<<y, x>> \in StrictSubsetOrdering(S))
  <2> HIDE DEF T
  <2> QED BY <1>1, FS_StrictSubsetOrderingWellFounded, WFMin, Zenon
<1>3. PICK r \in S : \A q \in S : ~(<<Earlier(q), Earlier(r)>> \in StrictSubsetOrdering(S))
  <2> HIDE DEF Earlier
  <2> QED BY <1>2, Zenon
<1>4. ASSUME NEW q \in S, Before(q, r) PROVE FALSE
  <2>1. Earlier(q) \subseteq Earlier(r) /\ q \in Earlier(r) /\ q \notin Earlier(q)
    BY <1>4, BeforeOrders, Zenon
  <2>2. <<Earlier(q), Earlier(r)>> \in StrictSubsetOrdering(S)
    BY <2>1, Zenon DEF StrictSubsetOrdering
  <2> QED BY <1>3, <2>2, Zenon
<1>5. \A q \in S \ {r} : Before(r, q)
  BY <1>4, BeforeOrders, Zenon
<1> QED BY <1>5, Zenon DEF FirstOf

-----------------------------------------------------------------------------
\* The online rules.

InForceRules == {r \in snapshot : InForce(r)}

RuleTypes ==
    /\ clock \in Nat
    /\ rows \in [RuleIds -> Row \cup {Absent}]
    /\ snapshot \subseteq Rule /\ IsFiniteSet(snapshot)
    /\ writer \in Writer \cup {Absent}
    /\ trail \in [RuleIds -> Event \cup {Absent}]

\* A row is stored under the identifier of its rule.
RowIds == \A i \in RuleIds : rows[i] # Absent => rows[i].rule.id = i

UniqueIds == \A r, q \in snapshot : r.id = q.id => r = q

\* A publication that is pending has its transaction in the table: what it removes is
\* disabled or gone, what it adds is enabled, new to the snapshot and within the limit.
PendingInv ==
    writer # Absent =>
        /\ \A i \in writer.remove : ~Enabled(i)
        /\ \A r \in writer.add : /\ Enabled(r.id) /\ rows[r.id].rule = r
                                 /\ \A q \in snapshot : q.id # r.id
        /\ writer.add # {} => /\ \E r \in writer.add : writer.add = {r}
                              /\ Cardinality(InForceRules) < MaxRules

OnlineInv ==
    /\ RuleTypes /\ RowIds /\ UniqueIds /\ PendingInv
    /\ SnapshotFollowsStore /\ TrailTellsState /\ ActiveIsSnapshot /\ CapacityHolds

\* NewOnlineProvider on an empty table establishes the invariant.
LEMMA OnlineInitInv == OnlineInit => OnlineInv
<1> SUFFICES ASSUME OnlineInit PROVE OnlineInv
  OBVIOUS
<1>1. RuleTypes
  BY FS_EmptySet, Zenon DEF OnlineInit, RuleTypes
<1>2. RowIds /\ UniqueIds /\ PendingInv /\ TrailTellsState
  BY Zenon DEF OnlineInit, RowIds, UniqueIds, PendingInv, TrailTellsState
<1>3. SnapshotFollowsStore
  BY Zenon DEF OnlineInit, SnapshotFollowsStore, Enabled
<1>4. {r \in snapshot : InForce(r)} = {} /\ Cardinality({}) = 0
  BY FS_EmptySet, Zenon DEF OnlineInit
<1>5. ActiveIsSnapshot /\ CapacityHolds
  BY <1>4, OnlineAssumption DEF OnlineInit, ActiveIsSnapshot, CapacityHolds
<1> QED BY <1>1, <1>2, <1>3, <1>5, Zenon DEF OnlineInv

\* What a transaction under writeMu does to the invariant, given its effect on the rows.
LEMMA CommitStep ==
    ASSUME OnlineInv, NEW op, NEW add \in SUBSET Rule, NEW remove \in SUBSET RuleIds,
           Committed(op, add, remove), writer' \in Writer,
           rows' \in [RuleIds -> Row \cup {Absent}],
           trail' \in [RuleIds -> Event \cup {Absent}],
           \A i \in RuleIds : i \notin remove \cup {r.id : r \in add} => rows'[i] = rows[i],
           \A i \in remove : ~Enabled(i)',
           add # {} => \E r \in add : /\ add = {r} /\ rows[r.id] = Absent
                                      /\ Enabled(r.id)' /\ rows'[r.id].rule = r
                                      /\ Cardinality(InForceRules) < MaxRules
    PROVE  /\ RuleTypes' /\ UniqueIds' /\ PendingInv'
           /\ SnapshotFollowsStore' /\ ActiveIsSnapshot' /\ CapacityHolds'
<1>1. /\ writer = Absent /\ writer' # Absent /\ writer'.add = add /\ writer'.remove = remove
      /\ UNCHANGED <<clock, snapshot, active>>
  BY OnlineAssumption, Zenon DEF Committed
<1>2. RuleTypes' /\ UniqueIds' /\ ActiveIsSnapshot' /\ CapacityHolds'
  BY <1>1, Zenon DEF OnlineInv, RuleTypes, UniqueIds, ActiveIsSnapshot, CapacityHolds, InForce
<1>3. \A r \in add, q \in snapshot : q.id # r.id
  <2> SUFFICES ASSUME NEW r \in add, NEW q \in snapshot, q.id = r.id PROVE FALSE
    BY Zenon
  <2>1. r.id \in RuleIds
    BY Zenon DEF Rule
  <2>2. ~InFlight(r.id)
    BY <1>1, Zenon DEF InFlight
  <2>3. rows[r.id] = Absent
    BY ZenonT(60)
  <2> QED BY <2>1, <2>2, <2>3, Zenon DEF OnlineInv, SnapshotFollowsStore, Enabled
<1>4. PendingInv'
  BY <1>1, <1>3, ZenonT(60) DEF PendingInv, InForceRules, InForce
<1>5. SnapshotFollowsStore'
  <2> SUFFICES ASSUME NEW i \in RuleIds, ~InFlight(i)'
               PROVE  /\ \A r \in snapshot' : r.id = i => Enabled(i)' /\ rows'[i].rule = r
                      /\ Enabled(i)' /\ rows'[i].rule.expires > clock' => rows'[i].rule \in snapshot'
    BY Zenon DEF SnapshotFollowsStore
  <2>1. rows'[i] = rows[i] /\ ~InFlight(i)
    BY <1>1, Zenon DEF InFlight
  <2>2. clock' = clock /\ snapshot' = snapshot /\ Enabled(i)' = Enabled(i)
    BY <1>1, <2>1, Zenon DEF Enabled
  <2>3. /\ \A r \in snapshot : r.id = i => Enabled(i) /\ rows[i].rule = r
        /\ Enabled(i) /\ rows[i].rule.expires > clock => rows[i].rule \in snapshot
    BY <2>1, Zenon DEF OnlineInv, SnapshotFollowsStore
  <2> QED BY <2>1, <2>2, <2>3, Zenon
<1> QED BY <1>2, <1>4, <1>5, Zenon

\* A row that a transaction leaves alone keeps its event, if that tells its state.
LEMMA TrailFrame ==
    ASSUME TrailTellsState, NEW i \in RuleIds, rows'[i] = rows[i], trail'[i] = trail[i],
           trail'[i] # Absent
    PROVE  /\ trail'[i].op = "create" => Enabled(i)'
           /\ trail'[i].op = "delete" => rows'[i] = Absent
           /\ trail'[i].op = "expire" => ~Enabled(i)'
BY Zenon DEF TrailTellsState, Enabled

\* Create: the new row is enabled, and within the limit.
LEMMA CreateInv ==
    ASSUME OnlineInv, NEW id \in RuleIds, NEW spec \in Specs, NEW built \in 0..clock,
           Create(id, spec, built)
    PROVE  OnlineInv'
<1> DEFINE rule == BuildOnlineRule(id, spec, built)
           row == [rule |-> rule, enabled |-> TRUE]
<1>1. rule \in Rule /\ rule.id = id /\ row \in Row /\ row # Absent /\ row.rule = rule /\ row.enabled
  <2>1. built \in Nat /\ built + spec.ttl \in Nat
    BY OnlineAssumption DEF OnlineInv, RuleTypes
  <2>2. rule \in Rule /\ rule.id = id
    BY <2>1, Zenon DEF BuildOnlineRule, Rule
  <2> HIDE DEF rule
  <2>3. row \in Row /\ row.rule = rule /\ row.enabled
    BY <2>2, Zenon DEF Row
  <2> QED BY <2>2, <2>3, OnlineAssumption, Zenon
<1> HIDE DEF rule, row
<1>2. /\ Committed("create", {rule}, {})
      /\ Cardinality(InForceRules) < MaxRules
      /\ rows[id] = Absent /\ rows' = [rows EXCEPT ![id] = row]
      /\ trail' = [trail EXCEPT ![id] = [op |-> "create", at |-> clock]]
  BY <1>1, Zenon DEF Create, CreateOnlineRule, rule, row, InForceRules
<1>3. rows \in [RuleIds -> Row \cup {Absent}] /\ trail \in [RuleIds -> Event \cup {Absent}]
      /\ [op |-> "create", at |-> clock] \in Event
  BY Zenon DEF Event, OnlineInv, RuleTypes
<1>4. /\ rows' \in [RuleIds -> Row \cup {Absent}] /\ rows'[id] = row
      /\ trail' \in [RuleIds -> Event \cup {Absent}] /\ trail'[id] = [op |-> "create", at |-> clock]
      /\ \A i \in RuleIds \ {id} : rows'[i] = rows[i] /\ trail'[i] = trail[i]
  BY <1>1, <1>2, <1>3, Zenon
<1>5. writer' \in Writer
  BY <1>1, <1>2, Zenon DEF Committed, Writer
<1>6. Enabled(id)' /\ rows'[id].rule = rule
  BY <1>1, <1>4, Zenon DEF Enabled
<1>7. /\ RuleTypes' /\ UniqueIds' /\ PendingInv'
      /\ SnapshotFollowsStore' /\ ActiveIsSnapshot' /\ CapacityHolds'
  <2>1. /\ {rule} \in SUBSET Rule /\ {} \in SUBSET RuleIds
        /\ \A i \in RuleIds : i \notin {} \cup {r.id : r \in {rule}} => rows'[i] = rows[i]
        /\ \A i \in {} : ~Enabled(i)'
    BY <1>1, <1>4, Zenon
  <2>2. {rule} # {} => \E r \in {rule} : /\ {rule} = {r} /\ rows[r.id] = Absent
                                        /\ Enabled(r.id)' /\ rows'[r.id].rule = r
                                        /\ Cardinality(InForceRules) < MaxRules
    BY <1>1, <1>2, <1>6, Zenon
  <2> QED BY <1>2, <1>4, <1>5, <2>1, <2>2, CommitStep, SMTT(60)
<1>8. RowIds'
  <2> SUFFICES ASSUME NEW i \in RuleIds, rows'[i] # Absent PROVE rows'[i].rule.id = i
    BY Zenon DEF RowIds
  <2>1. CASE i = id
    BY <1>1, <1>6, <2>1, Zenon
  <2>2. CASE i # id
    BY <1>4, <2>2, Zenon DEF OnlineInv, RowIds
  <2> QED BY <2>1, <2>2, Zenon
<1>9. TrailTellsState'
  <2> SUFFICES ASSUME NEW i \in RuleIds, trail'[i] # Absent
               PROVE  /\ trail'[i].op = "create" => Enabled(i)'
                      /\ trail'[i].op = "delete" => rows'[i] = Absent
                      /\ trail'[i].op = "expire" => ~Enabled(i)'
    BY Zenon DEF TrailTellsState
  <2>1. CASE i = id
    BY <1>4, <1>6, <2>1
  <2>2. CASE i # id
    BY <1>4, <2>2, TrailFrame, Zenon DEF OnlineInv
  <2> QED BY <2>1, <2>2, Zenon
<1> QED BY <1>7, <1>8, <1>9, Zenon DEF OnlineInv

\* Delete, Expire and expireDue disable or delete what they remove from the snapshot.
LEMMA WithdrawInv ==
    ASSUME OnlineInv, NEW op \in {"delete", "expire"}, NEW remove \in SUBSET RuleIds,
           Committed(op, {}, remove),
           rows' \in [RuleIds -> Row \cup {Absent}],
           trail' \in [RuleIds -> Event \cup {Absent}],
           \A i \in RuleIds \ remove : rows'[i] = rows[i] /\ trail'[i] = trail[i],
           \A i \in remove : /\ ~Enabled(i)' /\ trail'[i].op = op
                             /\ op = "delete" => rows'[i] = Absent
                             /\ rows'[i] # Absent => rows'[i].rule.id = i
    PROVE  OnlineInv'
<1>1. writer' \in Writer
  BY Zenon DEF Committed, Writer
<1>2. /\ RuleTypes' /\ UniqueIds' /\ PendingInv'
      /\ SnapshotFollowsStore' /\ ActiveIsSnapshot' /\ CapacityHolds'
  <2>1. {} \in SUBSET Rule /\ \A i \in RuleIds : i \notin remove \cup {r.id : r \in {}} => rows'[i] = rows[i]
    BY Zenon
  <2>2. {} # {} => \E r \in {} : /\ {} = {r} /\ rows[r.id] = Absent
                                 /\ Enabled(r.id)' /\ rows'[r.id].rule = r
                                 /\ Cardinality(InForceRules) < MaxRules
    OBVIOUS
  <2>3. \A i \in remove : ~Enabled(i)'
    OBVIOUS
  <2> QED BY <1>1, <2>1, <2>2, <2>3, CommitStep, Zenon
<1>3. RowIds'
  <2> SUFFICES ASSUME NEW i \in RuleIds, rows'[i] # Absent PROVE rows'[i].rule.id = i
    BY Zenon DEF RowIds
  <2>1. CASE i \in remove
    BY <2>1, Zenon
  <2>2. CASE i \notin remove
    BY <2>2, Zenon DEF OnlineInv, RowIds
  <2> QED BY <2>1, <2>2, Zenon
<1>4. TrailTellsState'
  <2> SUFFICES ASSUME NEW i \in RuleIds, trail'[i] # Absent
               PROVE  /\ trail'[i].op = "create" => Enabled(i)'
                      /\ trail'[i].op = "delete" => rows'[i] = Absent
                      /\ trail'[i].op = "expire" => ~Enabled(i)'
    BY Zenon DEF TrailTellsState
  <2>1. CASE i \in remove
    BY <2>1, Zenon
  <2>2. CASE i \notin remove
    BY <2>2, TrailFrame, Zenon DEF OnlineInv
  <2> QED BY <2>1, <2>2, Zenon
<1> QED BY <1>2, <1>3, <1>4, Zenon DEF OnlineInv

\* What is known of the row of a rule that exists.
LEMMA RowOf ==
    ASSUME OnlineInv, NEW i \in RuleIds, rows[i] # Absent
    PROVE  /\ rows[i] \in Row /\ rows[i].rule \in Rule /\ rows[i].rule.id = i
           /\ rows[i].enabled \in BOOLEAN
BY Zenon DEF OnlineInv, RuleTypes, RowIds, Row

\* Deleting a rule removes its row and queues the new set under the lock.
LEMMA DeleteInv ==
    ASSUME OnlineInv, NEW id \in RuleIds, Delete(id)
    PROVE  OnlineInv'
<1>1. /\ rows \in [RuleIds -> Row \cup {Absent}] /\ trail \in [RuleIds -> Event \cup {Absent}]
      /\ [op |-> "delete", at |-> clock] \in Event
  BY Zenon DEF Event, OnlineInv, RuleTypes
<1>2. /\ rows' = [rows EXCEPT ![id] = Absent]
      /\ trail' = [trail EXCEPT ![id] = [op |-> "delete", at |-> clock]]
      /\ Committed("delete", {}, {id})
  BY Zenon DEF Delete, DeleteOnlineRule
<1>3. /\ rows' \in [RuleIds -> Row \cup {Absent}] /\ rows'[id] = Absent
      /\ trail' \in [RuleIds -> Event \cup {Absent}] /\ trail'[id] = [op |-> "delete", at |-> clock]
      /\ \A i \in RuleIds \ {id} : rows'[i] = rows[i] /\ trail'[i] = trail[i]
  BY <1>1, <1>2, Zenon
<1>4. ~Enabled(id)' /\ trail'[id].op = "delete"
  BY <1>3 DEF Enabled
<1> QED BY <1>2, <1>3, <1>4, WithdrawInv

\* Expiring a rule by hand keeps its row, disabled from now on.
LEMMA ExpireInv ==
    ASSUME OnlineInv, NEW id \in RuleIds, Expire(id)
    PROVE  OnlineInv'
<1> DEFINE rule == [rows[id].rule EXCEPT !.expires = clock]
           row == [rule |-> rule, enabled |-> FALSE]
<1>1. /\ rows \in [RuleIds -> Row \cup {Absent}] /\ trail \in [RuleIds -> Event \cup {Absent}]
      /\ [op |-> "expire", at |-> clock] \in Event /\ clock \in Nat
  BY Zenon DEF Event, OnlineInv, RuleTypes
<1>2. /\ rows' = [rows EXCEPT ![id] = row] /\ rows[id] # Absent
      /\ trail' = [trail EXCEPT ![id] = [op |-> "expire", at |-> clock]]
      /\ Committed("expire", {}, {id})
  BY <1>1, Zenon DEF Expire, ExpireOnlineRule
<1>3. row \in Row /\ row.enabled = FALSE /\ row.rule.id = id
  <2>1. rows[id].rule \in Rule /\ rows[id].rule.id = id
    BY <1>2, RowOf, Zenon
  <2>2. rule \in Rule /\ rule.id = id
    BY <1>1, <2>1, Zenon DEF Rule
  <2> HIDE DEF rule
  <2> QED BY <2>2, Zenon DEF Row
<1> HIDE DEF row
<1>4. /\ rows' \in [RuleIds -> Row \cup {Absent}] /\ rows'[id] = row
      /\ trail' \in [RuleIds -> Event \cup {Absent}] /\ trail'[id] = [op |-> "expire", at |-> clock]
      /\ \A i \in RuleIds \ {id} : rows'[i] = rows[i] /\ trail'[i] = trail[i]
  BY <1>1, <1>2, <1>3, Zenon
<1>5. ~Enabled(id)' /\ trail'[id].op = "expire"
  BY <1>3, <1>4 DEF Enabled
<1> QED BY <1>2, <1>3, <1>4, <1>5, WithdrawInv

\* The expiry loop disables what is due and queues the set that remains.
LEMMA ExpireDueInv ==
    ASSUME OnlineInv, ExpireDue
    PROVE  OnlineInv'
<1>1. /\ rows \in [RuleIds -> Row \cup {Absent}] /\ trail \in [RuleIds -> Event \cup {Absent}]
      /\ [op |-> "expire", at |-> clock] \in Event
  BY Zenon DEF Event, OnlineInv, RuleTypes
<1>2. Committed("expire", {}, Due) /\ ExpireDueOnlineRules /\ Due \subseteq RuleIds
  BY Zenon DEF ExpireDue, Due
<1>3. \A i \in Due : rows[i] # Absent
  BY Zenon DEF Due
<1>4. \A i \in Due : /\ rows'[i] = [rows[i] EXCEPT !.enabled = FALSE]
                     /\ trail'[i] = [op |-> "expire", at |-> clock]
  BY <1>2, Zenon DEF ExpireDueOnlineRules
<1>5. \A i \in RuleIds \ Due : rows'[i] = rows[i] /\ trail'[i] = trail[i]
  BY <1>2, Zenon DEF ExpireDueOnlineRules
<1>6. \A i \in Due : /\ rows'[i] \in Row /\ rows'[i].enabled = FALSE /\ rows'[i].rule.id = i
                     /\ trail'[i].op = "expire" /\ trail'[i] \in Event
  <2> SUFFICES ASSUME NEW i \in Due
               PROVE  /\ rows'[i] \in Row /\ rows'[i].enabled = FALSE /\ rows'[i].rule.id = i
                      /\ trail'[i].op = "expire" /\ trail'[i] \in Event
    BY Zenon
  <2>1. rows[i] \in Row /\ rows[i].rule.id = i
    BY <1>2, <1>3, RowOf, Zenon
  <2>2. PICK x \in Rule, b \in BOOLEAN : rows[i] = [rule |-> x, enabled |-> b]
    BY <2>1, Zenon DEF Row
  <2>3. rows'[i] = [rule |-> x, enabled |-> FALSE]
    BY <1>4, <2>2
  <2> QED BY <1>1, <1>4, <2>1, <2>2, <2>3 DEF Row
<1>7. rows' \in [RuleIds -> Row \cup {Absent}] /\ trail' \in [RuleIds -> Event \cup {Absent}]
  <2>1. rows' = [i \in RuleIds |-> rows'[i]] /\ trail' = [i \in RuleIds |-> trail'[i]]
    BY <1>2, Zenon DEF ExpireDueOnlineRules
  <2>2. \A i \in RuleIds : rows'[i] \in Row \cup {Absent} /\ trail'[i] \in Event \cup {Absent}
    BY <1>1, <1>5, <1>6, Zenon
  <2> QED BY <2>1, <2>2, Zenon
<1>8. \A i \in Due : ~Enabled(i)'
  BY <1>6, Zenon DEF Enabled
<1> QED BY <1>2, <1>5, <1>6, <1>7, <1>8, WithdrawInv

\* The rules of the pending publication.
Added == IF writer = Absent THEN {} ELSE writer.add

\* An enabled rule that has not expired is in the snapshot, or about to be.
LEMMA LiveIsKnown ==
    ASSUME OnlineInv, NEW i \in RuleIds, Enabled(i), rows[i].rule.expires > clock
    PROVE  rows[i].rule \in snapshot \cup Added
<1>1. CASE ~InFlight(i)
  BY <1>1, Zenon DEF OnlineInv, SnapshotFollowsStore
<1>2. CASE InFlight(i)
  BY <1>2, ZenonT(60) DEF InFlight, OnlineInv, PendingInv, Added
<1> QED BY <1>1, <1>2, Zenon

\* The snapshot and the pending rule are finite and keep the limit together.
LEMMA WithinLimit ==
    ASSUME OnlineInv, NEW X, X \subseteq InForceRules \cup Added
    PROVE  Cardinality(X) <= MaxRules
<1>1. IsFiniteSet(InForceRules) /\ Cardinality(InForceRules) <= MaxRules
  BY FS_Subset, Zenon DEF OnlineInv, RuleTypes, InForceRules, CapacityHolds
<1>2. CASE Added = {}
  <2>1. IsFiniteSet(X) /\ Cardinality(X) <= Cardinality(InForceRules)
    BY <1>1, <1>2, FS_Subset, Zenon
  <2> QED BY <1>1, <2>1, FS_CardinalityType, OnlineAssumption
<1>3. CASE Added # {}
  <2>1. PICK r : Added = {r} /\ Cardinality(InForceRules) < MaxRules
    BY <1>3, Zenon DEF Added, OnlineInv, PendingInv
  <2>2. /\ IsFiniteSet(InForceRules \cup {r})
        /\ Cardinality(InForceRules \cup {r}) <= Cardinality(InForceRules) + 1
    BY <1>1, FS_AddElement, FS_CardinalityType
  <2>3. IsFiniteSet(X) /\ Cardinality(X) <= Cardinality(InForceRules \cup {r})
    BY <2>1, <2>2, FS_Subset, Zenon
  <2> QED BY <1>1, <2>1, <2>2, <2>3, FS_CardinalityType, OnlineAssumption
<1> QED BY <1>2, <1>3, Zenon

\* The snapshot with the pending rule is a finite set of rules.
LEMMA KnownRules ==
    ASSUME OnlineInv, NEW X, X \subseteq snapshot \cup Added
    PROVE  X \subseteq Rule /\ IsFiniteSet(X)
<1>1. Added \subseteq Rule
  BY Zenon DEF Added, OnlineInv, RuleTypes, Writer
<1>2. IsFiniteSet(Added)
  <2>1. Added = {} \/ \E r : Added = {r}
    BY Zenon DEF Added, OnlineInv, PendingInv
  <2>2. CASE Added = {}
    BY <2>2, FS_EmptySet, Zenon
  <2>3. ASSUME NEW r, Added = {r} PROVE IsFiniteSet(Added)
    BY <2>3, FS_Singleton, Zenon
  <2> QED BY <2>1, <2>2, <2>3, Zenon
<1>3. IsFiniteSet(snapshot \cup Added)
  BY <1>2, FS_Union, Zenon DEF OnlineInv, RuleTypes
<1> QED BY <1>1, <1>3, FS_Subset, Zenon DEF OnlineInv, RuleTypes

\* A snapshot that is stored with nothing pending: the conjuncts that only depend on
\* its agreement with the rows.
LEMMA StoredSnapshot ==
    ASSUME OnlineInv, writer' = Absent, UNCHANGED <<clock, rows, trail>>,
           snapshot' \subseteq snapshot \cup Added,
           active' = Cardinality(snapshot'), SnapshotFollowsStore'
    PROVE  OnlineInv'
<1>1. RuleTypes'
  BY KnownRules, Zenon DEF OnlineInv, RuleTypes
<1>2. RowIds' /\ PendingInv' /\ TrailTellsState' /\ ActiveIsSnapshot'
  BY Zenon DEF OnlineInv, RowIds, PendingInv, TrailTellsState, ActiveIsSnapshot, Enabled
<1>3. UniqueIds'
  <2>1. \A r \in snapshot' : r.id \in RuleIds
    BY <1>1, Zenon DEF RuleTypes, Rule
  <2>2. \A i \in RuleIds : ~InFlight(i)'
    BY Zenon DEF InFlight
  <2>3. \A r \in snapshot' : rows'[r.id].rule = r
    BY <2>1, <2>2, Zenon DEF SnapshotFollowsStore
  <2> QED BY <2>3, Zenon DEF UniqueIds
<1>4. CapacityHolds'
  <2>1. {r \in snapshot' : InForce(r)'} \subseteq InForceRules \cup Added
    BY Zenon DEF InForceRules, InForce
  <2> QED BY <2>1, WithinLimit, Zenon DEF CapacityHolds
<1> QED BY <1>1, <1>2, <1>3, <1>4, Zenon DEF OnlineInv

\* Publishing replaces the enforced set by the one computed with the commit.
LEMMA PublishInv ==
    ASSUME OnlineInv, Publish
    PROVE  OnlineInv'
<1>1. /\ writer # Absent /\ writer' = Absent /\ UNCHANGED <<clock, rows, trail>>
      /\ snapshot' = {r \in snapshot : r.id \notin writer.remove} \cup writer.add
      /\ active' = Cardinality(snapshot') /\ Added = writer.add
  BY Zenon DEF Publish, Added
<1>2. SnapshotFollowsStore'
  <2> SUFFICES ASSUME NEW i \in RuleIds
               PROVE  /\ \A r \in snapshot' : r.id = i => Enabled(i) /\ rows[i].rule = r
                      /\ Enabled(i) /\ rows[i].rule.expires > clock => rows[i].rule \in snapshot'
    BY <1>1, Zenon DEF SnapshotFollowsStore, Enabled
  <2>1. ASSUME NEW r \in snapshot', r.id = i PROVE Enabled(i) /\ rows[i].rule = r
    <3>1. CASE r \in writer.add
      BY <1>1, <2>1, <3>1, Zenon DEF OnlineInv, PendingInv
    <3>2. CASE r \notin writer.add
      <4>1. r \in snapshot /\ i \notin writer.remove
        BY <1>1, <2>1, <3>2, Zenon
      <4>2. ~InFlight(i)
        <5>1. \A q \in writer.add : q.id # i
          BY <1>1, <2>1, <4>1, Zenon DEF OnlineInv, PendingInv
        <5> QED BY <4>1, <5>1, Zenon DEF InFlight
      <4> QED BY <2>1, <4>1, <4>2, Zenon DEF OnlineInv, SnapshotFollowsStore
    <3> QED BY <3>1, <3>2, Zenon
  <2>2. ASSUME Enabled(i), rows[i].rule.expires > clock PROVE rows[i].rule \in snapshot'
    <3>1. rows[i].rule \in snapshot \cup Added /\ i \notin writer.remove /\ rows[i].rule.id = i
      BY <1>1, <2>2, LiveIsKnown, Zenon DEF OnlineInv, PendingInv, RowIds, Enabled
    <3> QED BY <1>1, <3>1, Zenon
  <2> QED BY <2>1, <2>2, Zenon
<1> QED BY <1>1, <1>2, StoredSnapshot, Zenon

\* A restart reloads from the rows exactly what is enabled and not due.
LEMMA RestartInv ==
    ASSUME OnlineInv, Restart
    PROVE  OnlineInv'
<1> DEFINE live == {j \in RuleIds : Enabled(j) /\ rows[j].rule.expires > clock}
<1>1. /\ writer' = Absent /\ UNCHANGED <<clock, rows, trail>>
      /\ snapshot' = {rows[i].rule : i \in live} /\ active' = Cardinality(snapshot')
  BY Zenon DEF Restart, Enabled
<1>2. snapshot' \subseteq snapshot \cup Added
  BY <1>1, LiveIsKnown, Zenon
<1>3. SnapshotFollowsStore'
  <2> SUFFICES ASSUME NEW i \in RuleIds
               PROVE  /\ \A r \in snapshot' : r.id = i => Enabled(i) /\ rows[i].rule = r
                      /\ Enabled(i) /\ rows[i].rule.expires > clock => rows[i].rule \in snapshot'
    BY <1>1, Zenon DEF SnapshotFollowsStore, Enabled
  <2>1. ASSUME NEW r \in snapshot', r.id = i PROVE Enabled(i) /\ rows[i].rule = r
    <3>1. PICK j \in live : r = rows[j].rule
      BY <1>1, <2>1, Zenon
    <3>2. j = i
      BY <2>1, <3>1, Zenon DEF OnlineInv, RowIds, Enabled
    <3> QED BY <3>1, <3>2, Zenon
  <2> QED BY <1>1, <2>1, Zenon
<1> QED BY <1>1, <1>2, <1>3, StoredSnapshot, Zenon

\* Pruning deletes only disabled rows and old events.
LEMMA PruneInv ==
    ASSUME OnlineInv, Prune
    PROVE  OnlineInv'
<1>1. /\ UNCHANGED <<clock, snapshot, writer, active>>
      /\ \A i \in RuleIds : \/ rows'[i] = rows[i]
                            \/ rows'[i] = Absent /\ ~Enabled(i)
      /\ \A i \in RuleIds : trail'[i] \in {trail[i], Absent}
      /\ rows' = [i \in RuleIds |-> rows'[i]] /\ trail' = [i \in RuleIds |-> trail'[i]]
  BY Zenon DEF Prune, Enabled
<1>2. RuleTypes'
  BY <1>1, Zenon DEF OnlineInv, RuleTypes
<1>3. \A i \in RuleIds : /\ Enabled(i)' = Enabled(i)
                         /\ Enabled(i) => rows'[i] = rows[i]
                         /\ rows'[i] # Absent => rows'[i] = rows[i]
                         /\ rows[i] = Absent => rows'[i] = Absent
                         /\ InFlight(i)' = InFlight(i)
  BY <1>1, Zenon DEF Enabled, InFlight
<1>4. RowIds' /\ UniqueIds' /\ ActiveIsSnapshot' /\ CapacityHolds'
  BY <1>1, <1>3, Zenon DEF OnlineInv, RowIds, UniqueIds, ActiveIsSnapshot, CapacityHolds, InForce
<1>5. TrailTellsState'
  <2> SUFFICES ASSUME NEW i \in RuleIds, trail'[i] # Absent
               PROVE  /\ trail'[i].op = "create" => Enabled(i)'
                      /\ trail'[i].op = "delete" => rows'[i] = Absent
                      /\ trail'[i].op = "expire" => ~Enabled(i)'
    BY Zenon DEF TrailTellsState
  <2>1. trail'[i] = trail[i]
    BY <1>1, Zenon
  <2> QED BY <1>3, <2>1, Zenon DEF OnlineInv, TrailTellsState
<1>6. SnapshotFollowsStore'
  <2> SUFFICES ASSUME NEW i \in RuleIds, ~InFlight(i)
               PROVE  /\ \A r \in snapshot : r.id = i => Enabled(i)' /\ rows'[i].rule = r
                      /\ Enabled(i)' /\ rows'[i].rule.expires > clock => rows'[i].rule \in snapshot
    BY <1>1, <1>3, Zenon DEF SnapshotFollowsStore
  <2>1. /\ \A r \in snapshot : r.id = i => Enabled(i) /\ rows[i].rule = r
        /\ Enabled(i) /\ rows[i].rule.expires > clock => rows[i].rule \in snapshot
    BY Zenon DEF OnlineInv, SnapshotFollowsStore
  <2> QED BY <1>3, <2>1, Zenon
<1>7. PendingInv'
  <2>1. ASSUME writer # Absent
        PROVE  /\ writer.remove \subseteq RuleIds /\ \A r \in writer.add : r.id \in RuleIds
    BY <2>1, Zenon DEF OnlineInv, RuleTypes, Writer, Rule
  <2>2. InForceRules' = InForceRules
    BY <1>1, Zenon DEF InForceRules, InForce
  <2> QED BY <1>1, <1>3, <2>1, <2>2, Zenon DEF OnlineInv, PendingInv
<1> QED BY <1>2, <1>4, <1>5, <1>6, <1>7, Zenon DEF OnlineInv

\* Time passes, or expireDue fails: rules only leave force.
LEMMA TickInv ==
    ASSUME OnlineInv, ClockTick \/ ExpireDueFails \/ UNCHANGED onlineVars
    PROVE  OnlineInv'
<1>1. /\ UNCHANGED <<rows, trail, snapshot, writer, active>>
      /\ clock \in Nat /\ clock' \in {clock, clock + 1}
  BY Zenon DEF ClockTick, ExpireDueFails, onlineVars, OnlineInv, RuleTypes
<1>2. RuleTypes' /\ \A r \in Rule : r.expires > clock' => r.expires > clock
  BY <1>1 DEF OnlineInv, RuleTypes, Rule
<1>3. RowIds' /\ UniqueIds' /\ ActiveIsSnapshot' /\ TrailTellsState'
  BY <1>1, Zenon DEF OnlineInv, RowIds, UniqueIds, ActiveIsSnapshot, TrailTellsState, Enabled
<1>4. InForceRules' \subseteq InForceRules
  BY <1>1, <1>2, Zenon DEF InForceRules, InForce, OnlineInv, RuleTypes
<1>5. Cardinality(InForceRules') <= MaxRules
  BY <1>4, WithinLimit, Zenon
<1>6. Cardinality(InForceRules) < MaxRules => Cardinality(InForceRules') < MaxRules
  <2>1. IsFiniteSet(InForceRules)
    BY FS_Subset, Zenon DEF OnlineInv, RuleTypes, InForceRules
  <2>2. IsFiniteSet(InForceRules') /\ Cardinality(InForceRules') <= Cardinality(InForceRules)
    BY <1>4, <2>1, FS_Subset, Zenon
  <2> QED BY <2>1, <2>2, FS_CardinalityType, OnlineAssumption
<1>7. PendingInv'
  BY <1>1, <1>6, Zenon DEF OnlineInv, PendingInv, Enabled
<1>8. SnapshotFollowsStore'
  <2> SUFFICES ASSUME NEW i \in RuleIds, ~InFlight(i)
               PROVE  /\ \A r \in snapshot : r.id = i => Enabled(i) /\ rows[i].rule = r
                      /\ Enabled(i) /\ rows[i].rule.expires > clock' => rows[i].rule \in snapshot
    BY <1>1, Zenon DEF SnapshotFollowsStore, InFlight, Enabled
  <2>1. ASSUME Enabled(i), rows[i].rule.expires > clock' PROVE rows[i].rule.expires > clock
    BY <1>2, <2>1, RowOf, Zenon DEF Enabled
  <2> QED BY <2>1, Zenon DEF OnlineInv, SnapshotFollowsStore
<1>9. CapacityHolds'
  BY <1>5, Zenon DEF CapacityHolds, InForceRules
<1> QED BY <1>2, <1>3, <1>7, <1>8, <1>9, Zenon DEF OnlineInv

\* Every step of the provider, the store and the clock keeps the invariant.
LEMMA OnlineStepInv == OnlineInv /\ [OnlineNext]_onlineVars => OnlineInv'
BY CreateInv, DeleteInv, ExpireInv, ExpireDueInv, PublishInv, RestartInv, PruneInv, TickInv, Zenon
   DEF OnlineNext

\* For any number of rules, any limit and any retention, and through crashes between the
\* transaction and the publication, the snapshot that admission reads, the table, the
\* event trail, the reported count and the limit agree.
THEOREM OnlineRulesAgreeAlways == OnlineSpec => []OnlineRulesAgree
<1>1. OnlineInv => OnlineRulesAgree
  BY Zenon DEF OnlineInv, OnlineRulesAgree
<1> QED BY <1>1, OnlineInitInv, OnlineStepInv, PTL DEF OnlineSpec

-----------------------------------------------------------------------------
\* Admission.

\* The history of a flow that is being decided.
HistoryInv ==
    Deliberating =>
        /\ flow.denyAll => OnlineDenies(flow.meta)
        /\ OnlineDenies(flow.meta) => flow.denySome
        /\ flow.fwAll => PersistentDenies(flow.meta)
        /\ PersistentDenies(flow.meta) => flow.fwSome

\* What the reads that are past have found.
ReadInv ==
    /\ flow.step \in {"persistent", "action"} => ~flow.denyAll
    /\ flow.step = "action" => (flow.fwAll => flow.raced)

FlowTypes == flow \in {Idle} \cup Deciding \cup Decided

AdmissionInv ==
    OnlineInv /\ FlowTypes /\ HistoryInv /\ ReadInv /\ DenyHoldsThroughout /\ RefusalsHaveCause

\* The records of a flow by its step.
LEMMA FlowSteps ==
    ASSUME FlowTypes
    PROVE  /\ Deliberating => flow \in Deciding
           /\ flow.step = "done" => flow \in Decided
           /\ flow = Idle => ~Deliberating /\ flow.step = "idle"
BY DEF FlowTypes, Idle, Deciding, Decided, Deliberating

\* DecideDeny and DecideAction find a rule when one matches, and it is the first that does.
LEMMA DecisionIsFirst ==
    ASSUME OnlineInv, NEW meta, NEW deny \in BOOLEAN,
           NEW rule, rule = FirstOf(MatchingRules(meta, deny))
    PROVE  /\ rule = Absent <=> MatchingRules(meta, deny) = {}
           /\ rule # Absent => /\ rule \in MatchingRules(meta, deny)
                               /\ \A r \in MatchingRules(meta, deny) : ~Before(r, rule)
           /\ rule \in Rule \cup {Absent}
<1> DEFINE S == MatchingRules(meta, deny)
<1>1. S \subseteq snapshot
  BY Zenon DEF MatchingRules
<1>2. S \subseteq Rule /\ IsFiniteSet(S) /\ \A r, q \in S : r.id = q.id => r = q
  BY <1>1, FS_Subset, Zenon DEF OnlineInv, RuleTypes, UniqueIds
<1> HIDE DEF S
<1>3. CASE S = {}
  BY <1>3, Zenon DEF FirstOf, S
<1>4. CASE S # {}
  <2>1. rule \in S /\ \A q \in S \ {rule} : Before(rule, q)
    BY <1>2, <1>4, FirstExists, Zenon DEF S
  <2>2. rule # Absent
    BY <1>2, <2>1, OnlineAssumption, Zenon
  <2>3. ASSUME NEW r \in S, Before(r, rule) PROVE FALSE
    <3>1. r \in Rule /\ rule \in Rule
      BY <1>2, <2>1, Zenon
    <3>2. ~Before(rule, rule)
      BY <3>1, BeforeOrders, Zenon
    <3> QED BY <2>1, <2>3, <3>1, <3>2, BeforeOrders, Zenon
  <2> QED BY <1>2, <1>4, <2>1, <2>2, <2>3, Zenon DEF S
<1> QED BY <1>3, <1>4, Zenon

\* Whatever changes while a flow is being decided, its history keeps up.
LEMMA WatchInv ==
    ASSUME FlowTypes, HistoryInv, ReadInv, DenyHoldsThroughout, RefusalsHaveCause,
           NEW race \in BOOLEAN, Watch(race)
    PROVE  FlowTypes' /\ HistoryInv' /\ ReadInv' /\ DenyHoldsThroughout' /\ RefusalsHaveCause'
<1>1. CASE ~Deliberating
  BY <1>1, Zenon DEF Watch, FlowTypes, HistoryInv, ReadInv, DenyHoldsThroughout,
                     RefusalsHaveCause, Deliberating
<1>2. CASE Deliberating
  <2>1. flow \in Deciding
    BY <1>2, FlowSteps, Zenon
  <2>2. PICK meta : meta = flow.meta
    OBVIOUS
  <2>3. flow' = [flow EXCEPT !.denyAll = @ /\ OnlineDenies(meta)', !.denySome = @ \/ OnlineDenies(meta)',
                             !.fwAll = @ /\ PersistentDenies(meta)', !.fwSome = @ \/ PersistentDenies(meta)',
                             !.raced = @ \/ race]
    BY <1>2, <2>2, ZenonT(60) DEF Watch
  <2>4. /\ flow' \in Deciding /\ flow'.step = flow.step /\ flow'.meta = meta
        /\ flow'.denyAll <=> flow.denyAll /\ OnlineDenies(meta)'
        /\ flow'.denySome <=> flow.denySome \/ OnlineDenies(meta)'
        /\ flow'.fwAll <=> flow.fwAll /\ PersistentDenies(meta)'
        /\ flow'.fwSome <=> flow.fwSome \/ PersistentDenies(meta)'
        /\ flow'.raced <=> flow.raced \/ race
    BY <2>1, <2>2, <2>3, ZenonT(60) DEF Deciding
  <2>5. HistoryInv'
    BY <2>2, <2>4, Zenon DEF HistoryInv
  <2>6. ReadInv'
    BY <2>4, Zenon DEF ReadInv
  <2>7. flow'.step # "done"
    BY <1>2, <2>4, Zenon DEF Deliberating
  <2> QED BY <2>4, <2>5, <2>6, <2>7, Zenon DEF FlowTypes, DenyHoldsThroughout, RefusalsHaveCause
<1> QED BY <1>1, <1>2, Zenon

\* What a step of Decide leaves alone: the policies, the databases and so the history.
LEMMA DecideFrame ==
    ASSUME OnlineInv, UNCHANGED <<onlineVars, fwVars, geo>>, NEW meta
    PROVE  /\ OnlineInv'
           /\ OnlineDenies(meta)' = OnlineDenies(meta)
           /\ PersistentDenies(meta)' = PersistentDenies(meta)
<1>1. OnlineInv'
  BY OnlineStepInv, Zenon
<1>2. OnlineDenies(meta)' = OnlineDenies(meta)
  BY Zenon DEF OnlineDenies, MatchingRules, IsRuleAvailable, onlineVars
<1>3. PersistentDenies(meta)' = PersistentDenies(meta)
  BY Zenon DEF PersistentDenies, fwVars
<1> QED BY <1>1, <1>2, <1>3, Zenon

\* The record of a decision.
LEMMA DecisionFields ==
    ASSUME flow \in Deciding, NEW allowed \in BOOLEAN, NEW rule \in Rule \cup {Absent},
           Decision(allowed, rule)
    PROVE  /\ flow' \in Decided /\ flow'.step = "done" /\ flow'.allowed = allowed /\ flow'.rule = rule
           /\ flow'.denyAll = flow.denyAll /\ flow'.denySome = flow.denySome
           /\ flow'.fwAll = flow.fwAll /\ flow'.fwSome = flow.fwSome /\ flow'.raced = flow.raced
BY Zenon DEF Decision, Deciding, Decided

\* The record of a flow that goes on to its next read.
LEMMA AdvanceFields ==
    ASSUME flow \in Deciding, NEW next \in {"persistent", "action"},
           flow' = [flow EXCEPT !.step = next]
    PROVE  /\ flow' \in Deciding /\ flow'.step = next /\ flow'.meta = flow.meta
           /\ flow'.denyAll = flow.denyAll /\ flow'.denySome = flow.denySome
           /\ flow'.fwAll = flow.fwAll /\ flow'.fwSome = flow.fwSome /\ flow'.raced = flow.raced
BY Zenon DEF Deciding

\* A flow that goes on keeps its history and both verdicts open.
LEMMA AdvanceInv ==
    ASSUME AdmissionInv, flow \in Deciding, Deliberating, NEW next \in {"persistent", "action"},
           flow' = [flow EXCEPT !.step = next], UNCHANGED <<onlineVars, fwVars, geo>>,
           ~flow.denyAll, next = "action" => (flow.fwAll => flow.raced)
    PROVE  AdmissionInv'
<1>1. /\ flow' \in Deciding /\ flow'.step = next /\ flow'.meta = flow.meta
      /\ flow'.denyAll = flow.denyAll /\ flow'.denySome = flow.denySome
      /\ flow'.fwAll = flow.fwAll /\ flow'.fwSome = flow.fwSome /\ flow'.raced = flow.raced
  BY AdvanceFields, Zenon
<1>2. PICK meta : meta = flow.meta
  OBVIOUS
<1>3. OnlineInv' /\ OnlineDenies(meta)' = OnlineDenies(meta) /\ PersistentDenies(meta)' = PersistentDenies(meta)
  BY DecideFrame, Zenon DEF AdmissionInv
<1>4. HistoryInv'
  BY <1>1, <1>2, <1>3, Zenon DEF AdmissionInv, HistoryInv
<1>5. ReadInv'
  BY <1>1, Zenon DEF ReadInv
<1>6. flow'.step # "done"
  BY <1>1, Zenon
<1> QED BY <1>1, <1>3, <1>4, <1>5, <1>6, Zenon
        DEF AdmissionInv, FlowTypes, DenyHoldsThroughout, RefusalsHaveCause

\* A decision that its history justifies.
LEMMA DecideInv ==
    ASSUME AdmissionInv, flow \in Deciding, NEW allowed \in BOOLEAN, NEW rule \in Rule \cup {Absent},
           Decision(allowed, rule), UNCHANGED <<onlineVars, fwVars, geo>>,
           allowed => ~flow.denyAll /\ (flow.fwAll => flow.raced),
           ~allowed => flow.denySome \/ flow.fwSome \/ flow.raced
    PROVE  AdmissionInv'
<1>1. /\ flow' \in Decided /\ flow'.step = "done" /\ flow'.allowed = allowed
      /\ flow'.denyAll = flow.denyAll /\ flow'.denySome = flow.denySome
      /\ flow'.fwAll = flow.fwAll /\ flow'.fwSome = flow.fwSome /\ flow'.raced = flow.raced
  BY DecisionFields, Zenon
<1>2. OnlineInv'
  BY DecideFrame, Zenon DEF AdmissionInv
<1>3. HistoryInv' /\ ReadInv'
  BY <1>1, Zenon DEF HistoryInv, ReadInv, Deliberating
<1>4. DenyHoldsThroughout' /\ RefusalsHaveCause'
  BY <1>1, Zenon DEF DenyHoldsThroughout, RefusalsHaveCause
<1> QED BY <1>1, <1>2, <1>3, <1>4, Zenon DEF AdmissionInv, FlowTypes

\* The history of a decision starts with what the rules say when the flow arrives.
LEMMA ArrivesInv ==
    ASSUME AdmissionInv, NEW meta \in Metas, Arrives(meta)
    PROVE  AdmissionInv'
<1>1. /\ flow' \in Deciding /\ flow'.step = "deny" /\ flow'.meta = meta
      /\ flow'.denyAll = OnlineDenies(meta) /\ flow'.denySome = OnlineDenies(meta)
      /\ flow'.fwAll = PersistentDenies(meta) /\ flow'.fwSome = PersistentDenies(meta)
  <2>1. OnlineDenies(meta) \in BOOLEAN /\ PersistentDenies(meta) \in BOOLEAN
    BY Zenon DEF OnlineDenies, PersistentDenies
  <2> QED BY <2>1, Zenon DEF Arrives, Deciding
<1>2. OnlineInv' /\ OnlineDenies(meta)' = OnlineDenies(meta) /\ PersistentDenies(meta)' = PersistentDenies(meta)
  BY DecideFrame, Zenon DEF AdmissionInv, Arrives
<1>3. HistoryInv'
  BY <1>1, <1>2, Zenon DEF HistoryInv
<1>4. ReadInv' /\ DenyHoldsThroughout' /\ RefusalsHaveCause'
  BY <1>1, Zenon DEF ReadInv, DenyHoldsThroughout, RefusalsHaveCause
<1> QED BY <1>1, <1>2, <1>3, <1>4, Zenon DEF AdmissionInv, FlowTypes

\* DecideDeny refuses only when an online rule denies, and goes on only when none does.
LEMMA DecidesDenyInv ==
    ASSUME AdmissionInv, DecidesDeny
    PROVE  AdmissionInv'
<1>1. flow.step = "deny" /\ Deliberating /\ flow \in Deciding
  BY FlowSteps, Zenon DEF AdmissionInv, DecidesDeny, Deliberating
<1>2. PICK deny, rule : deny = TRUE /\ rule = FirstOf(MatchingRules(flow.meta, deny))
  OBVIOUS
<1>3. (rule = Absent <=> ~OnlineDenies(flow.meta)) /\ rule \in Rule \cup {Absent}
  <2>1. (rule = Absent <=> MatchingRules(flow.meta, deny) = {}) /\ rule \in Rule \cup {Absent}
    BY <1>2, DecisionIsFirst, Zenon DEF AdmissionInv
  <2> QED BY <1>2, <2>1, Zenon DEF OnlineDenies
<1>4. /\ IF rule # Absent THEN Decision(FALSE, rule) ELSE flow' = [flow EXCEPT !.step = "persistent"]
      /\ UNCHANGED <<onlineVars, fwVars, geo>>
  BY <1>2, Zenon DEF DecidesDeny, DecideDeny
<1>5. CASE rule # Absent
  <2>1. flow.denySome
    BY <1>1, <1>3, <1>5, Zenon DEF AdmissionInv, HistoryInv
  <2>2. Decision(FALSE, rule)
    BY <1>4, <1>5, Zenon
  <2> QED BY <1>1, <1>3, <1>4, <2>1, <2>2, DecideInv, Zenon
<1>6. CASE rule = Absent
  <2>1. ~flow.denyAll
    BY <1>1, <1>3, <1>6, Zenon DEF AdmissionInv, HistoryInv
  <2> QED BY <1>1, <1>4, <1>6, <2>1, AdvanceInv, Zenon
<1> QED BY <1>5, <1>6, Zenon

\* The persistent policy refuses only what it denies, and goes on only with what it admits.
LEMMA DecidesPersistentInv ==
    ASSUME AdmissionInv, DecidesPersistent
    PROVE  AdmissionInv'
<1>1. flow.step = "persistent" /\ Deliberating /\ flow \in Deciding /\ ~flow.denyAll
  BY FlowSteps, Zenon DEF AdmissionInv, DecidesPersistent, Deliberating, ReadInv
<1>2. PICK found \in (IF flow.raced THEN SUBSET geo ELSE {geo}) :
          IF EngineAllows(current.doc, flow.meta.addr, LookupResult(flow.meta.addr, found))
          THEN flow' = [flow EXCEPT !.step = "action"]
          ELSE Decision(FALSE, Absent)
  BY Zenon DEF DecidesPersistent
<1> DEFINE allows == EngineAllows(current.doc, flow.meta.addr, LookupResult(flow.meta.addr, found))
<1>3. ~flow.raced => (PersistentDenies(flow.meta) <=> ~allows)
  BY Zenon DEF PersistentDenies
<1>4. UNCHANGED <<onlineVars, fwVars, geo>>
  BY Zenon DEF DecidesPersistent
<1> HIDE DEF allows
<1>5. CASE allows
  <2>1. flow.fwAll => flow.raced
    BY <1>1, <1>3, <1>5, Zenon DEF AdmissionInv, HistoryInv
  <2>2. flow' = [flow EXCEPT !.step = "action"]
    BY <1>2, <1>5, Zenon DEF allows
  <2> QED BY <1>1, <1>4, <2>1, <2>2, AdvanceInv, Zenon
<1>6. CASE ~allows
  <2>1. flow.fwSome \/ flow.raced
    BY <1>1, <1>3, <1>6, Zenon DEF AdmissionInv, HistoryInv
  <2>2. Decision(FALSE, Absent)
    BY <1>2, <1>6, Zenon DEF allows
  <2> QED BY <1>1, <1>4, <2>1, <2>2, DecideInv, Zenon
<1> QED BY <1>5, <1>6, Zenon

\* DecideAction admits a flow that got past both denials.
LEMMA DecidesActionInv ==
    ASSUME AdmissionInv, DecidesAction
    PROVE  AdmissionInv'
<1>1. /\ flow.step = "action" /\ flow \in Deciding /\ ~flow.denyAll /\ (flow.fwAll => flow.raced)
  BY FlowSteps, Zenon DEF AdmissionInv, DecidesAction, Deliberating, ReadInv
<1>2. DecideAction(flow.meta) \in Rule \cup {Absent}
  BY DecisionIsFirst, Zenon DEF AdmissionInv, DecideAction
<1>3. Decision(TRUE, DecideAction(flow.meta)) /\ UNCHANGED <<onlineVars, fwVars, geo>>
  BY Zenon DEF DecidesAction
<1> QED BY <1>1, <1>2, <1>3, DecideInv, Zenon

\* A flow that has been decided leaves nothing to justify.
LEMMA LeavesInv ==
    ASSUME AdmissionInv, Leaves
    PROVE  AdmissionInv'
<1>1. flow' = Idle /\ OnlineInv'
  BY DecideFrame, Zenon DEF AdmissionInv, Leaves
<1> QED BY <1>1, Zenon DEF AdmissionInv, FlowTypes, HistoryInv, ReadInv, DenyHoldsThroughout,
                    RefusalsHaveCause, Deliberating, Idle

\* The rules, the policy and the databases change; the flow watches.
LEMMA PolicyMovesInv ==
    ASSUME AdmissionInv, PolicyNext
    PROVE  AdmissionInv'
<1>1. OnlineInv'
  BY OnlineStepInv, Zenon DEF AdmissionInv, PolicyNext, OnlineStep, PolicyFileStep, GeoReloads
<1>2. \E race \in BOOLEAN : Watch(race)
  BY Zenon DEF PolicyNext, OnlineStep, PolicyFileStep, GeoReloads
<1> QED BY <1>1, <1>2, WatchInv, Zenon DEF AdmissionInv

\* No flow is being decided at the start.
LEMMA AdmissionInitInv == AdmissionInit => AdmissionInv
<1> SUFFICES ASSUME AdmissionInit PROVE AdmissionInv
  OBVIOUS
<1>1. OnlineInv /\ flow = Idle
  BY OnlineInitInv, Zenon DEF AdmissionInit
<1> QED BY <1>1, Zenon DEF AdmissionInv, FlowTypes, HistoryInv, ReadInv, DenyHoldsThroughout,
                    RefusalsHaveCause, Deliberating, Idle

\* Every step of the rules, of the policy file and of Decide keeps the invariant.
LEMMA AdmissionStepInv == AdmissionInv /\ [AdmissionNext]_admissionVars => AdmissionInv'
<1> SUFFICES ASSUME AdmissionInv, [AdmissionNext]_admissionVars PROVE AdmissionInv'
  OBVIOUS
<1>1. CASE UNCHANGED admissionVars
  <2>1. UNCHANGED <<onlineVars, fwVars, geo>> /\ flow' = flow
    BY <1>1, Zenon DEF admissionVars
  <2>2. PICK meta : meta = flow.meta
    OBVIOUS
  <2>3. OnlineInv' /\ OnlineDenies(meta)' = OnlineDenies(meta) /\ PersistentDenies(meta)' = PersistentDenies(meta)
    BY <2>1, DecideFrame, Zenon DEF AdmissionInv
  <2>4. HistoryInv'
    BY <2>1, <2>2, <2>3, Zenon DEF AdmissionInv, HistoryInv, Deliberating
  <2> QED BY <2>1, <2>3, <2>4, Zenon
          DEF AdmissionInv, FlowTypes, ReadInv, DenyHoldsThroughout, RefusalsHaveCause
<1> QED BY <1>1, ArrivesInv, DecidesDenyInv, DecidesPersistentInv, DecidesActionInv, LeavesInv,
           PolicyMovesInv, Zenon DEF AdmissionNext, FlowNext

\* The rule that decides a flow is the first in force that matches it.
LEMMA DecidingStep ==
    ASSUME AdmissionInv, [AdmissionNext]_admissionVars,
           flow'.step = "done", flow.step # "done", flow'.rule # Absent
    PROVE  /\ flow'.rule \in snapshot
           /\ flow'.rule.expires > clock
           /\ \A r \in snapshot : r.expires > clock /\ Before(r, flow'.rule)
                                  /\ (r.spec.action = "deny") = ~flow'.allowed /\ IsRuleAvailable(r)
                  => ~MatchesOnlineRule(r.spec, flow.meta)
<1>1. ASSUME NEW rule, NEW deny \in BOOLEAN, NEW allowed \in BOOLEAN, deny = ~allowed,
             flow \in Deciding, rule = FirstOf(MatchingRules(flow.meta, deny)),
             Decision(allowed, rule)
      PROVE  /\ flow'.rule \in snapshot
             /\ flow'.rule.expires > clock
             /\ \A r \in snapshot : r.expires > clock /\ Before(r, flow'.rule)
                                    /\ (r.spec.action = "deny") = ~flow'.allowed /\ IsRuleAvailable(r)
                    => ~MatchesOnlineRule(r.spec, flow.meta)
  <2>1. rule \in Rule \cup {Absent}
    BY <1>1, DecisionIsFirst, Zenon DEF AdmissionInv
  <2>2. flow'.rule = rule /\ flow'.allowed = allowed
    BY <1>1, <2>1, DecisionFields, Zenon
  <2>3. /\ rule \in MatchingRules(flow.meta, deny)
        /\ \A r \in MatchingRules(flow.meta, deny) : ~Before(r, rule)
    BY <1>1, <2>2, DecisionIsFirst, Zenon DEF AdmissionInv
  <2> QED BY <1>1, <2>2, <2>3, Zenon DEF MatchingRules
<1>2. CASE DecidesDeny
  <2>1. flow \in Deciding
    BY <1>2, FlowSteps, Zenon DEF AdmissionInv, DecidesDeny, Deliberating
  <2>2. CASE DecideDeny(flow.meta) # Absent
    BY <1>1, <1>2, <2>1, <2>2, Zenon DEF DecidesDeny, DecideDeny
  <2>3. CASE DecideDeny(flow.meta) = Absent
    <3>1. flow' = [flow EXCEPT !.step = "persistent"]
      BY <1>2, <2>3, Zenon DEF DecidesDeny
    <3>2. flow'.step = "persistent"
      BY <2>1, <3>1, AdvanceFields, Zenon
    <3> QED BY <3>2, Zenon
  <2> QED BY <2>2, <2>3, Zenon
<1>3. CASE DecidesPersistent
  <2>1. flow \in Deciding
    BY <1>3, FlowSteps, Zenon DEF AdmissionInv, DecidesPersistent, Deliberating
  <2>2. CASE Decision(FALSE, Absent)
    <3>1. flow'.rule = Absent
      BY <2>1, <2>2, DecisionFields, Zenon
    <3> QED BY <3>1, Zenon
  <2>3. CASE flow' = [flow EXCEPT !.step = "action"]
    <3>1. flow'.step = "action"
      BY <2>1, <2>3, AdvanceFields, Zenon
    <3> QED BY <3>1, Zenon
  <2> QED BY <1>3, <2>2, <2>3, Zenon DEF DecidesPersistent
<1>4. CASE DecidesAction
  <2>1. flow \in Deciding
    BY <1>4, FlowSteps, Zenon DEF AdmissionInv, DecidesAction, Deliberating
  <2> QED BY <1>1, <1>4, <2>1, Zenon DEF DecidesAction, DecideAction
<1>5. ASSUME NEW race \in BOOLEAN, Watch(race) PROVE FALSE
  <2>1. CASE ~Deliberating
    BY <1>5, <2>1, Zenon DEF Watch
  <2>2. CASE Deliberating
    <3>1. flow \in Deciding
      BY <2>2, FlowSteps, Zenon DEF AdmissionInv
    <3>2. flow'.step = flow.step
      BY <1>5, <2>2, <3>1, ZenonT(60) DEF Watch, Deciding
    <3> QED BY <3>2, Zenon
  <2> QED BY <2>1, <2>2, Zenon
<1>6. CASE (\E meta \in Metas : Arrives(meta)) \/ Leaves \/ UNCHANGED admissionVars
  BY <1>6, SMTT(60) DEF Arrives, Leaves, Idle, admissionVars
<1>7. PolicyNext => \E race \in BOOLEAN : Watch(race)
  BY Zenon DEF PolicyNext, OnlineStep, PolicyFileStep, GeoReloads
<1> QED BY <1>2, <1>3, <1>4, <1>5, <1>6, <1>7, Zenon DEF AdmissionNext, FlowNext

\* "Online deny cannot be bypassed": however rules, policy, databases and the clock move
\* between the three reads of Decide, a decision is justified by what was in force while it
\* was made, and a rule that decides was the first match in force.
THEOREM DecisionsJustified == AdmissionSpec => DecisionsAreJustified
<1>1. AdmissionInv => DenyHoldsThroughout /\ RefusalsHaveCause
  BY Zenon DEF AdmissionInv
<1>2. AdmissionInv /\ [AdmissionNext]_admissionVars =>
        [(flow'.step = "done" /\ flow.step # "done" /\ flow'.rule # Absent) =>
            /\ flow'.rule \in snapshot
            /\ flow'.rule.expires > clock
            /\ \A r \in snapshot : r.expires > clock /\ Before(r, flow'.rule)
                                   /\ (r.spec.action = "deny") = ~flow'.allowed /\ IsRuleAvailable(r)
                   => ~MatchesOnlineRule(r.spec, flow.meta)]_admissionVars
  BY DecidingStep, Zenon
<1> QED BY <1>1, <1>2, AdmissionInitInv, AdmissionStepInv, PTL
        DEF AdmissionSpec, DecisionsAreJustified, DecidingRuleInForce

-----------------------------------------------------------------------------
\* The measurement server.

\* What the argument needs of the types.
ServerTypes ==
    /\ acceptor \in {"off", "accepting", "returned"} \cup Conns
    /\ handler \in [Conns -> {"none", "backlog", "accepted", "looping", "reading", "leaving", "ended"}]
    /\ peer \in [Conns -> {"idle", "sending", "reading"} \cup Over]

\* The accept loop and Serve agree on who may still start a handler.
LoopInv ==
    /\ acceptor \in Conns => handler[acceptor] = "accepted"
    /\ serve = "idle" => acceptor = "off"
    /\ acceptor = "off" => \A c \in Conns : ~Live(c)
    /\ serve = "returned" => acceptor \in {"off", "returned"} /\ \A c \in Conns : ~Live(c)

DialInv == \A c \in Conns : peer[c] = "idle" => handler[c] = "none"

SemInv == connSem = Cardinality(Holders)

ListInv == conns = {c \in Conns : Live(c)}

ServerInv == ServerTypes /\ LoopInv /\ DialInv /\ SemInv /\ ListInv

\* The connections that hold a token are finitely many.
LEMMA HoldersFinite == IsFiniteSet(Holders)
  BY MeasureServerAssumption, FS_Subset, Zenon DEF Holders

\* The states of the accept loop are no connections.
LEMMA StatesAreNoConns == "off" \notin Conns /\ "accepting" \notin Conns /\ "returned" \notin Conns
  BY MeasureServerAssumption, Zenon

\* NewServer establishes the invariant.
LEMMA ServerInitInv == MeasureServerInit => ServerInv
  <1> SUFFICES ASSUME MeasureServerInit PROVE ServerInv
    OBVIOUS
  <1>1. Holders = {}
    BY Zenon DEF MeasureServerInit, Holders
  <1>2. ServerTypes /\ DialInv
    BY Zenon DEF MeasureServerInit, ServerTypes, DialInv
  <1>3. LoopInv /\ ListInv
    BY <1>1, StatesAreNoConns, Zenon DEF MeasureServerInit, LoopInv, ListInv, Live
  <1>4. SemInv
    BY <1>1, FS_EmptySet, Zenon DEF MeasureServerInit, SemInv
  <1> QED
    BY <1>2, <1>3, <1>4, Zenon DEF ServerInv

\* A step that moves no connection from one of these sets to another keeps what speaks of them.
LEMMA Frame1 ==
  ASSUME ServerInv, connSem' = connSem, conns' = conns, Holders' = Holders,
         \A c \in Conns : Live(c)' <=> Live(c)
  PROVE  SemInv' /\ ListInv'
  BY Zenon DEF ServerInv, SemInv, ListInv

\* A handler that gives its token back is one of those that hold one.
LEMMA LeavingLowersSem ==
  ASSUME ServerInv, NEW c \in Conns, NEW why, c \in Holders, HandlerLeaves(c, why)
  PROVE  ServerInv'
  <1> USE DEF HandlerLeaves
  <1>1. Holders' = Holders \ {c}
    BY Zenon DEF Holders, ServerInv, ServerTypes
  <1>2. SemInv'
    <2>1. Cardinality(Holders \ {c}) = Cardinality(Holders) - 1
      BY HoldersFinite, FS_RemoveElement, Zenon
    <2> QED
      BY <1>1, <2>1, Zenon DEF ServerInv, SemInv
  <1>3. \A d \in Conns : Live(d)' <=> Live(d)
    BY <1>1, Zenon DEF Live, ServerInv, ServerTypes
  <1>4. ListInv'
    BY <1>3, Zenon DEF ListInv, ServerInv
  <1>5. LoopInv'
    BY <1>3, Zenon DEF LoopInv, ServerInv, ServerTypes, Holders
  <1>6. ServerTypes' /\ DialInv'
    BY Zenon DEF ServerInv, ServerTypes, DialInv, Holders
  <1> QED
    BY <1>2, <1>4, <1>5, <1>6, Zenon DEF ServerInv

\* Serve, Close and the loops, which touch no handler but for the backlog.
LEMMA ServeKeepsInv ==
  ASSUME ServerInv, ServeBegins \/ Sweep \/ CancelServe \/ ServeStep \/ UDPLoopReturns \/ AcceptorReturns
  PROVE  ServerInv'
  <1> USE DEF ServerInv
  <1>1. CASE ServeBegins
    BY <1>1, StatesAreNoConns, Zenon
    DEF ServeBegins, ServerTypes, LoopInv, DialInv, SemInv, ListInv, Live, Holders, peerVars
  <1>2. CASE Sweep \/ CloseBySignal
    BY <1>2, ZenonT(60) DEF Sweep, CloseBySignal, ServerTypes, LoopInv, DialInv, SemInv, ListInv, Live, Holders, peerVars
  <1>3. CASE CancelServe
    BY <1>3, Zenon DEF CancelServe, ServerTypes, LoopInv, DialInv, SemInv, ListInv, Live, Holders, peerVars
  <1>4. CASE ServeWaits
    BY <1>4, Zenon DEF ServeWaits, ServerTypes, LoopInv, DialInv, SemInv, ListInv, Live, Holders, peerVars
  <1>5. CASE ServeReturns
    BY <1>5, Zenon DEF ServeReturns, ServerTypes, LoopInv, DialInv, SemInv, ListInv, Live, Holders, peerVars
  <1>6. CASE UDPLoopReturns
    BY <1>6, Zenon DEF UDPLoopReturns, ServerTypes, LoopInv, DialInv, SemInv, ListInv, Live, Holders, peerVars
  <1>7. CASE AcceptorReturns
    BY <1>7, StatesAreNoConns, Zenon
    DEF AcceptorReturns, ServerTypes, LoopInv, DialInv, SemInv, ListInv, Live, Holders, peerVars
  <1>8. CASE CloseSockets
    <2>1. Holders' = Holders /\ \A c \in Conns : Live(c)' <=> Live(c)
      BY <1>8, Zenon DEF CloseSockets, Holders, Live, ServerTypes
    <2>2. ServerTypes' /\ DialInv'
      BY <1>8, Zenon DEF CloseSockets, ServerTypes, DialInv, peerVars
    <2>3. LoopInv'
      BY <1>8, <2>1, Zenon DEF CloseSockets, LoopInv, ServerTypes
    <2> QED
      BY <1>8, <2>1, <2>2, <2>3, Frame1, Zenon DEF CloseSockets
  <1> QED
    BY <1>1, <1>2, <1>3, <1>4, <1>5, <1>6, <1>7, <1>8, Zenon DEF ServeStep

\* A connection that is accepted gets the token it is counted by, or none.
LEMMA AdmitKeepsInv ==
  ASSUME ServerInv, Admit
  PROVE  ServerInv'
  <1>1. acceptor \in Conns /\ handler[acceptor] = "accepted" /\ ~Live(acceptor) /\ acceptor \notin Holders
    BY Zenon DEF Admit, ServerInv, LoopInv, Live, Holders
  <1>2. acceptor' = "accepting" /\ acceptor' \notin Conns /\ acceptor' # "off"
    BY StatesAreNoConns, Zenon DEF Admit
  <1>3. serve # "idle" /\ serve # "returned" /\ serve' = serve
    BY <1>1, StatesAreNoConns, Zenon DEF Admit, ServerInv, LoopInv
  <1>4. LoopInv'
    BY <1>2, <1>3, Zenon DEF LoopInv
  <1>5. ServerTypes' /\ DialInv'
    BY <1>1, <1>2, Zenon DEF Admit, ServerInv, ServerTypes, DialInv, peerVars
  <1>6. CASE connSem < MaxTCPConnections
    <2>1. Holders' = Holders \cup {acceptor}
      BY <1>1, <1>6, Zenon DEF Admit, Holders, ServerInv, ServerTypes
    <2>2. \A c \in Conns : Live(c)' <=> (Live(c) \/ c = acceptor)
      BY <1>1, <1>6, <2>1, Zenon DEF Admit, Live, ServerInv, ServerTypes
    <2>3. Cardinality(Holders \cup {acceptor}) = Cardinality(Holders) + 1
      BY <1>1, HoldersFinite, FS_AddElement, Zenon
    <2>4. SemInv' /\ ListInv'
      BY <1>1, <1>6, <2>1, <2>2, <2>3, Zenon DEF Admit, SemInv, ListInv, ServerInv
    <2> QED
      BY <1>4, <1>5, <2>4, Zenon DEF ServerInv
  <1>7. CASE ~(connSem < MaxTCPConnections)
    <2>1. Holders' = Holders /\ \A c \in Conns : Live(c)' <=> Live(c)
      BY <1>1, <1>7, Zenon DEF Admit, Holders, Live, ServerInv, ServerTypes
    <2> QED
      BY <1>4, <1>5, <1>7, <2>1, Frame1, Zenon DEF Admit, ServerInv
  <1> QED
    BY <1>6, <1>7, Zenon

\* The accept loop takes a connection that has no handler.
LEMMA AcceptKeepsInv ==
  ASSUME ServerInv, NEW c \in Conns, Accept(c)
  PROVE  ServerInv'
  <1>1. Holders' = Holders /\ \A d \in Conns : Live(d)' <=> Live(d)
    BY Zenon DEF Accept, Holders, Live, ServerInv, ServerTypes
  <1>2. LoopInv'
    BY <1>1, StatesAreNoConns, Zenon DEF Accept, LoopInv, ServerInv, ServerTypes
  <1>3. ServerTypes' /\ DialInv'
    BY Zenon DEF Accept, ServerInv, ServerTypes, DialInv, peerVars
  <1> QED
    BY <1>1, <1>2, <1>3, Frame1, Zenon DEF ServerInv, Accept

\* The steps of a handler.
LEMMA HandlerKeepsInv ==
  ASSUME ServerInv, NEW c \in Conns, HandlerStep(c)
  PROVE  ServerInv'
  <1>1. CASE LoopTop(c) /\ (ctxDone \/ frames[c] = MaxTCPFrames)
    BY <1>1, LeavingLowersSem, Zenon DEF LoopTop, Holders
  <1>2. CASE ReadFails(c) \/ IdleOut(c)
    BY <1>2, LeavingLowersSem, Zenon DEF ReadFails, IdleOut, Holders
  <1>3. CASE (LoopTop(c) /\ ~(ctxDone \/ frames[c] = MaxTCPFrames)) \/ Echo(c)
    <2>1. Holders' = Holders /\ \A d \in Conns : Live(d)' <=> Live(d)
      BY <1>3, Zenon DEF LoopTop, Echo, Holders, Live, ServerInv, ServerTypes
    <2>2. LoopInv'
      BY <1>3, <2>1, ZenonT(60) DEF LoopTop, Echo, LoopInv, ServerInv, ServerTypes
    <2>3. ServerTypes' /\ DialInv'
      BY <1>3, Zenon DEF LoopTop, Echo, ServerInv, ServerTypes, DialInv, peerVars
    <2>4. connSem' = connSem /\ conns' = conns
      BY <1>3, Zenon DEF LoopTop, Echo
    <2> QED
      BY <2>1, <2>2, <2>3, <2>4, Frame1, Zenon DEF ServerInv
  <1>4. CASE HandlerEnds(c)
    <2>1. Holders' = Holders /\ \A d \in Conns : Live(d)' <=> (Live(d) /\ d # c)
      BY <1>4, Zenon DEF HandlerEnds, Holders, Live, ServerInv, ServerTypes
    <2>2. SemInv' /\ ListInv'
      BY <1>4, <2>1, Zenon DEF HandlerEnds, SemInv, ListInv, ServerInv
    <2>3. LoopInv'
      BY <1>4, <2>1, Zenon DEF HandlerEnds, LoopInv, ServerInv, ServerTypes
    <2>4. ServerTypes' /\ DialInv'
      BY <1>4, Zenon DEF HandlerEnds, ServerInv, ServerTypes, DialInv, peerVars
    <2> QED
      BY <2>2, <2>3, <2>4, Zenon DEF ServerInv
  <1> QED
    BY <1>1, <1>2, <1>3, <1>4, Zenon DEF HandlerStep

\* The other end changes nothing the invariant speaks of, but for a new connection.
LEMMA PeerKeepsInv ==
  ASSUME ServerInv, NEW c \in Conns,
         \/ Dial(c) \/ DialFails(c) \/ SendFrame(c) \/ SendJunk(c) \/ ReadEcho(c)
         \/ PeerFails(c) \/ PeerGivesUp(c)
  PROVE  ServerInv'
  <1>1. CASE Dial(c)
    <2>1. handler[c] = "none"
      BY <1>1, Zenon DEF Dial, ServerInv, DialInv
    <2>2. Holders' = Holders /\ \A d \in Conns : Live(d)' <=> Live(d)
      BY <1>1, <2>1, Zenon DEF Dial, Holders, Live, ServerInv, ServerTypes
    <2>3. LoopInv'
      BY <1>1, <2>1, <2>2, Zenon DEF Dial, LoopInv, ServerInv, ServerTypes
    <2>4. ServerTypes' /\ DialInv'
      BY <1>1, Zenon DEF Dial, ServerInv, ServerTypes, DialInv
    <2> QED
      BY <1>1, <2>2, <2>3, <2>4, Frame1, Zenon DEF ServerInv, Dial
  <1>2. CASE DialFails(c) \/ SendFrame(c) \/ SendJunk(c) \/ ReadEcho(c) \/ PeerFails(c) \/ PeerGivesUp(c)
    <2>1. UNCHANGED serverVars
      BY <1>2, Zenon DEF DialFails, SendFrame, SendJunk, ReadEcho, PeerFails, PeerGivesUp
    <2>2. ServerTypes' /\ DialInv'
      BY <1>2, <2>1, ZenonT(60) DEF DialFails, SendFrame, SendJunk, ReadEcho, PeerFails, PeerGivesUp, Finish,
                        serverVars, ServerInv, ServerTypes, DialInv, Over
    <2>3. LoopInv' /\ SemInv' /\ ListInv'
      BY <2>1, Zenon DEF serverVars, ServerInv, LoopInv, SemInv, ListInv, Live, Holders
    <2> QED
      BY <2>2, <2>3, Zenon DEF ServerInv
  <1> QED
    BY <1>1, <1>2, Zenon

\* Every step keeps the invariant.
LEMMA ServerStepInv == ServerInv /\ [MeasureServerNext]_measureServerVars => ServerInv'
  <1> SUFFICES ASSUME ServerInv, [MeasureServerNext]_measureServerVars PROVE ServerInv'
    OBVIOUS
  <1>1. CASE ServeBegins \/ Sweep \/ CancelServe \/ ServeStep \/ UDPLoopReturns \/ AcceptorReturns
    BY <1>1, ServeKeepsInv, Zenon
  <1>2. CASE Admit
    BY <1>2, AdmitKeepsInv, Zenon
  <1>3. ASSUME NEW c \in Conns, Accept(c) PROVE ServerInv'
    BY <1>3, AcceptKeepsInv, Zenon
  <1>4. ASSUME NEW c \in Conns, HandlerStep(c) PROVE ServerInv'
    BY <1>4, HandlerKeepsInv, Zenon
  <1>5. ASSUME NEW c \in Conns,
               \/ Dial(c) \/ DialFails(c) \/ SendFrame(c) \/ SendJunk(c) \/ ReadEcho(c)
               \/ PeerFails(c) \/ PeerGivesUp(c)
        PROVE  ServerInv'
    BY <1>5, PeerKeepsInv, Zenon
  <1>6. CASE UNCHANGED measureServerVars
    BY <1>6, Zenon DEF measureServerVars, serverVars, peerVars, ServerInv, ServerTypes, LoopInv, DialInv, SemInv,
                ListInv, Live, Holders
  <1> QED
    BY <1>1, <1>2, <1>3, <1>4, <1>5, <1>6, Zenon DEF MeasureServerNext, ServerStep, AcceptorStep

\* For any number of connections and tokens, connSem counts the handlers that hold a token,
\* Server.conns lists the running handlers, and a returned Serve leaves neither behind.
THEOREM ServerLeavesNothingAlways == ServerSpec => []ServerLeavesNothing
  <1>1. ServerInv => ServerLeavesNothing
    BY StatesAreNoConns, Zenon DEF ServerInv, LoopInv, SemInv, ListInv, ServerLeavesNothing
  <1> QED
    BY <1>1, ServerInitInv, ServerStepInv, PTL DEF ServerSpec

-----------------------------------------------------------------------------
(* The UDP probe.                                                          *)

\* The fields of a probe.
Fields == DOMAIN probe = {"number", "sequence", "step", "measured", "expired", "canceled", "result"}

\* SamplesAreEchoes is inductive once the network is known to carry back only what was answered.
EchoInv == Fields /\ echoes \subseteq echoed /\ SamplesAreEchoes

\* What ends or advances a probe keeps its number.
LEMMA AdvanceKeeps ==
  ASSUME Fields, NEW m
  PROVE  /\ DOMAIN Advance(m) = DOMAIN probe /\ Advance(m).number = probe.number /\ Advance(m).measured = m
         /\ DOMAIN EndProbe(m) = DOMAIN probe /\ EndProbe(m).number = probe.number /\ EndProbe(m).measured = m
  BY Zenon DEF Advance, EndProbe, Fields

\* No step measures what the server has not answered.
LEMMA EchoStepInv == EchoInv /\ [UDPProbeNext]_udpProbeVars => EchoInv'
  <1> SUFFICES ASSUME EchoInv, [UDPProbeNext]_udpProbeVars PROVE EchoInv'
    OBVIOUS
  <1> USE DEF EchoInv, SamplesAreEchoes, Fields
  <1>1. CASE BeginProbe
    BY <1>1, Zenon DEF BeginProbe
  <1>2. CASE WriteFrame
    BY <1>2, AdvanceKeeps DEF WriteFrame
  <1>3. CASE ReadRefused \/ ReadExpired
    BY <1>3, AdvanceKeeps, SMTT(60) DEF ReadRefused, ReadExpired
  <1>4. CASE Deadline \/ CancelProbe \/ WindowEnds \/ UNCHANGED udpProbeVars
    BY <1>4, Zenon DEF Deadline, CancelProbe, WindowEnds, udpProbeVars
  <1>5. ASSUME NEW f, NEW again \in BOOLEAN, ReadFrame(f, again) PROVE EchoInv'
    <2>1. echoes' \subseteq echoed' /\ echoed' = echoed
      BY <1>5, Zenon DEF ReadFrame
    <2>2. CASE ~IsEcho(f)
      BY <1>5, <2>1, <2>2, Zenon DEF ReadFrame
    <2>3. CASE IsEcho(f)
      <3>1. /\ DOMAIN probe' = DOMAIN probe /\ probe'.number = probe.number
            /\ probe'.measured = probe.measured \cup {probe.sequence}
        BY <1>5, <2>3, AdvanceKeeps, Zenon DEF ReadFrame
      <3>2. [probe |-> probe.number, sequence |-> probe.sequence] \in echoed
        BY <1>5, <2>3, Zenon DEF ReadFrame, IsEcho, Current
      <3> QED
        BY <2>1, <3>1, <3>2, Zenon
    <2> QED
      BY <2>2, <2>3, Zenon
  <1>6. ASSUME NEW f, NEW again \in BOOLEAN, ServeFrame(f, again) PROVE EchoInv'
    BY <1>6, Zenon DEF ServeFrame
  <1> QED
    BY <1>1, <1>2, <1>3, <1>4, <1>5, <1>6, Zenon DEF UDPProbeNext

\* For any number of probes, samples and datagrams in flight, ProbeUDP measures only the echoes of
\* its own frames.
THEOREM SamplesAreEchoesAlways == UDPProbeSpec => []SamplesAreEchoes
  <1>1. ASSUME UDPProbeInit PROVE EchoInv
    <2>1. probe.measured = {} /\ echoes = {}
      BY <1>1, Zenon DEF UDPProbeInit
    <2>2. Fields
      BY <1>1, Zenon DEF UDPProbeInit, Fields
    <2> QED
      BY <2>1, <2>2, Zenon DEF EchoInv, SamplesAreEchoes
  <1>2. EchoInv => SamplesAreEchoes
    BY Zenon DEF EchoInv
  <1> QED
    BY <1>1, <1>2, EchoStepInv, PTL DEF UDPProbeSpec
=============================================================================
