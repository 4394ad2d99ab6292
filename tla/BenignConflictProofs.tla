------------------------ MODULE BenignConflictProofs ------------------------
(***************************************************************************)
(* Theorems about BenignConflict for any records, ASes and alerts: what a  *)
(* benign verdict rests on, and that more evidence never weakens one.      *)
(*                                                                         *)
(* The verdict is the best of six results.  That there is a best one, and  *)
(* that it grows with each of the six, is shown once (BestOf, BestGrows);  *)
(* the rest is what each detector makes of its row.                        *)
(***************************************************************************)
EXTENDS BenignConflict, WellFoundedInduction, TLAPS

-----------------------------------------------------------------------------
(* Types. *)

LEMMA EnvironmentType ==
  ASSUME TypeOK, Tick \/ (\E row \in SourceRows : SourcesChange(row)) \/ UNCHANGED benignVars
  PROVE  TypeOK'
<1>1. CASE Tick
  BY <1>1, StoredAssumption DEF Tick, TypeOK, Times
<1>2. CASE \E row \in SourceRows : SourcesChange(row)
  BY <1>2, StoredAssumption DEF SourcesChange, TypeOK
<1>3. CASE UNCHANGED benignVars
  BY <1>3 DEF benignVars, TypeOK
<1> QED
  BY <1>1, <1>2, <1>3

LEMMA AuthorizationType ==
  ASSUME TypeOK, NEW i \in AuthIds,
         \/ \E row \in AuthRows : CreateAuthorization(i, row)
         \/ \E t \in Times, st \in {"active", "revoked"} : UpdateAuthorization(i, t, st)
         \/ DeleteAuthorization(i)
  PROVE  TypeOK'
<1>1. CASE \E row \in AuthRows : CreateAuthorization(i, row)
  BY <1>1, StoredAssumption DEF CreateAuthorization, TypeOK
<1>2. ASSUME NEW t \in Times, NEW st \in {"active", "revoked"}, UpdateAuthorization(i, t, st)
      PROVE  TypeOK'
  <2>1. auths[i] \in AuthType
    BY <1>2 DEF TypeOK, UpdateAuthorization
  <2>2. [auths[i] EXCEPT !.until = t, !.status = st] \in AuthType
    BY <2>1 DEF AuthType
  <2>3. auths' \in [AuthIds -> AuthType \union {None}]
    BY <1>2, <2>2 DEF TypeOK, UpdateAuthorization
  <2> QED
    BY <1>2, <2>3 DEF TypeOK, UpdateAuthorization
<1>3. CASE DeleteAuthorization(i)
  BY <1>3 DEF DeleteAuthorization, TypeOK
<1> QED
  BY <1>1, <1>2, <1>3

LEMMA WindowsType ==
  ASSUME TypeOK, NEW i \in WindowIds,
         \/ \E row \in WindowRows : CreateWindow(i, row)
         \/ \E b \in BOOLEAN, st \in {"scheduled", "cancelled"} : UpdateWindow(i, b, st)
         \/ DeleteWindow(i)
  PROVE  TypeOK'
<1>1. CASE \E row \in WindowRows : CreateWindow(i, row)
  BY <1>1, StoredAssumption DEF CreateWindow, TypeOK
<1>2. ASSUME NEW b \in BOOLEAN, NEW st \in {"scheduled", "cancelled"}, UpdateWindow(i, b, st)
      PROVE  TypeOK'
  <2>1. windows[i] \in WindowType
    BY <1>2 DEF TypeOK, UpdateWindow
  <2>2. [windows[i] EXCEPT !.approved = b, !.status = st] \in WindowType
    BY <2>1 DEF WindowType
  <2>3. windows' \in [WindowIds -> WindowType \union {None}]
    BY <1>2, <2>2 DEF TypeOK, UpdateWindow
  <2> QED
    BY <1>2, <2>3 DEF TypeOK, UpdateWindow
<1>3. CASE DeleteWindow(i)
  BY <1>3 DEF DeleteWindow, TypeOK
<1> QED
  BY <1>1, <1>2, <1>3

LEMMA NodesType ==
  ASSUME TypeOK, NEW i \in NodeIds,
         \/ \E row \in NodeRows : CreateNode(i, row)
         \/ \E st \in {"active", "inactive"} : UpdateNode(i, st)
         \/ DeleteNode(i)
  PROVE  TypeOK'
<1>1. CASE \E row \in NodeRows : CreateNode(i, row)
  BY <1>1, StoredAssumption DEF CreateNode, TypeOK
<1>2. ASSUME NEW st \in {"active", "inactive"}, UpdateNode(i, st) PROVE TypeOK'
  <2>1. nodes[i] \in NodeType
    BY <1>2 DEF TypeOK, UpdateNode
  <2>2. [nodes[i] EXCEPT !.status = st] \in NodeType
    BY <2>1 DEF NodeType
  <2>3. nodes' \in [NodeIds -> NodeType \union {None}]
    BY <1>2, <2>2 DEF TypeOK, UpdateNode
  <2> QED
    BY <1>2, <2>3 DEF TypeOK, UpdateNode
<1>3. CASE DeleteNode(i)
  BY <1>3 DEF DeleteNode, TypeOK
<1> QED
  BY <1>1, <1>2, <1>3

LEMMA RecordsType ==
  ASSUME TypeOK, NEW i \in RecordIds,
         \/ \E type \in RecordTypes, a \in RaisedIds \union {None} : CreateRecord(i, type, a)
         \/ \E st \in {"suspected", "confirmed", "dismissed"} : UpdateRecordStatus(i, st)
         \/ \E a \in RaisedIds : LinkAlert(i, a)
  PROVE  TypeOK'
<1>1. ASSUME NEW type \in RecordTypes, NEW a \in RaisedIds \union {None}, CreateRecord(i, type, a)
      PROVE  TypeOK'
  <2>1. [type |-> type, status |-> "suspected", alert |-> a] \in RecordType
    BY StoredAssumption DEF RecordType
  <2>2. records' \in [RecordIds -> RecordType \union {None}]
    BY <1>1, <2>1 DEF TypeOK, CreateRecord
  <2> QED
    BY <1>1, <2>2 DEF TypeOK, CreateRecord
<1>2. ASSUME NEW st \in {"suspected", "confirmed", "dismissed"}, UpdateRecordStatus(i, st)
      PROVE  TypeOK'
  <2>1. records[i] \in RecordType
    BY <1>2 DEF TypeOK, UpdateRecordStatus
  <2>2. [records[i] EXCEPT !.status = st] \in RecordType
    BY <2>1 DEF RecordType
  <2>3. records' \in [RecordIds -> RecordType \union {None}]
    BY <1>2, <2>2 DEF TypeOK, UpdateRecordStatus
  <2> QED
    BY <1>2, <2>3 DEF TypeOK, UpdateRecordStatus
<1>3. ASSUME NEW a \in RaisedIds, LinkAlert(i, a) PROVE TypeOK'
  <2>1. records[i] \in RecordType /\ raised[a] \in RaisedType
    BY <1>3 DEF TypeOK, LinkAlert
  <2>2. [records[i] EXCEPT !.alert = a] \in RecordType
    BY <2>1 DEF RecordType
  <2>3. [raised[a] EXCEPT !.benign = TRUE, !.kind = records[i].type] \in RaisedType
    BY <2>1 DEF RaisedType, RecordType
  <2>4. records' \in [RecordIds -> RecordType \union {None}]
    BY <1>3, <2>2 DEF TypeOK, LinkAlert
  <2>5. raised' \in [RaisedIds -> RaisedType \union {None}]
    BY <1>3, <2>3 DEF TypeOK, LinkAlert
  <2> QED
    BY <1>3, <2>4, <2>5 DEF TypeOK, LinkAlert
<1> QED
  BY <1>1, <1>2, <1>3

LEMMA AlertsType ==
  ASSUME TypeOK, NEW a \in RaisedIds,
         DropAlert(a) \/ \E row \in AlertRows : RaiseAlert(a, [row EXCEPT !.time = now])
  PROVE  TypeOK'
<1>1. CASE DropAlert(a)
  <2>1. raised' \in [RaisedIds -> RaisedType \union {None}]
    BY <1>1 DEF DropAlert, TypeOK
  <2>2. ASSUME NEW i \in RecordIds, records[i] # None, records[i].alert = a
        PROVE  [records[i] EXCEPT !.alert = None] \in RecordType
    <3>1. records[i] \in RecordType
      BY <2>2 DEF TypeOK
    <3> QED
      BY <3>1 DEF RecordType
  <2>3. records' \in [RecordIds -> RecordType \union {None}]
    BY <1>1, <2>2 DEF DropAlert, TypeOK
  <2> QED
    BY <1>1, <2>1, <2>3 DEF DropAlert, TypeOK
<1>2. ASSUME NEW row \in AlertRows, RaiseAlert(a, [row EXCEPT !.time = now]) PROVE TypeOK'
  <2>1. row \in RaisedType
    BY StoredAssumption
  <2>2. [row EXCEPT !.time = now] \in RaisedType
    BY <2>1 DEF RaisedType, TypeOK
  <2>3. raised' \in [RaisedIds -> RaisedType \union {None}]
    BY <1>2, <2>2 DEF RaiseAlert, TypeOK
  <2> QED
    BY <1>2, <2>3 DEF RaiseAlert, TypeOK
<1> QED
  BY <1>1, <1>2

LEMMA TypeInit == BenignInit => TypeOK
BY StoredAssumption DEF BenignInit, TypeOK, Times, Healthy, SourceType

LEMMA TypeNext == TypeOK /\ [BenignNext]_benignVars => TypeOK'
BY EnvironmentType, AuthorizationType, WindowsType, NodesType, RecordsType, AlertsType DEF BenignNext

(* Every row that is stored keeps its type: an update writes fields of a row that
   is there, and an alert that is dropped leaves its records. *)
THEOREM TypeCorrect == BenignSpec => []TypeOK
BY TypeInit, TypeNext, PTL DEF BenignSpec

-----------------------------------------------------------------------------
(* The best of the results. *)

LEMMA MinOf ==
  ASSUME NEW S, S \subseteq Nat, S # {}
  PROVE  Min(S) \in S /\ \A n \in S : Min(S) <= n
<1>1. PICK x \in S : \A y \in S : ~(<<y, x>> \in OpToRel(<, Nat))
  BY NatLessThanWellFounded, WFMin
<1>2. ASSUME NEW y \in S PROVE x <= y
  <2>1. <<y, x>> \in Nat \X Nat /\ ~(<<y, x>> \in OpToRel(<, Nat))
    BY <1>1
  <2>2. OpToRel(<, Nat) = {ss \in Nat \X Nat : ss[1] < ss[2]}
    BY DEF OpToRel
  <2>3. ~(y < x)
    BY <2>1, <2>2
  <2> QED
    BY <2>3
<1> QED
  BY <1>2 DEF Min

LEMMA CappedRange ==
  ASSUME NEW n \in Int
  PROVE  /\ Percent(n) \in 0..100
         /\ \A m \in Int : n <= m => Percent(n) <= Percent(m)
<1>1. ASSUME NEW k \in Int PROVE Percent(k) = IF k < 0 THEN 0 ELSE IF k > 100 THEN 100 ELSE k
  <2>1. Max({0, k}) = IF k < 0 THEN 0 ELSE k
    BY DEF Max
  <2>2. ASSUME NEW j \in Int PROVE Min({100, j}) = IF j > 100 THEN 100 ELSE j
    BY DEF Min
  <2> QED
    BY <2>1, <2>2 DEF Percent
<1> QED
  BY <1>1

IsResult(r) == r.benign \in BOOLEAN /\ r.confidence \in 0..100
Value(r) == IF r.benign THEN r.confidence ELSE 0

LEMMA ValueType == ASSUME NEW r, IsResult(r) PROVE Value(r) \in 0..100
BY DEF IsResult, Value

LEMMA BestOf ==
  ASSUME NEW results, DOMAIN results \subseteq Nat,
         \A i \in DOMAIN results : IsResult(results[i])
  PROVE  /\ \/ Best(results) = NotBenign
            \/ \E i \in DOMAIN results : results[i].benign /\ Best(results) = results[i]
         /\ IsResult(Best(results))
         /\ \A i \in DOMAIN results : Value(results[i]) <= Value(Best(results))
<1> DEFINE benign == {i \in DOMAIN results : results[i].benign}
           best == {i \in benign : \A j \in benign : results[j].confidence <= results[i].confidence}
           doubt == {100 - results[i].confidence : i \in benign}
<1>0. Best(results) = IF benign = {} THEN NotBenign ELSE results[Min(best)]
  BY DEF Best
<1>1. CASE benign = {}
  <2>1. \A i \in DOMAIN results : Value(results[i]) = 0
    BY <1>1 DEF Value, IsResult
  <2> QED
    BY <1>0, <1>1, <2>1 DEF NotBenign, IsResult, Value
<1>2. CASE benign # {}
  <2>1. doubt \subseteq Nat /\ doubt # {}
    BY <1>2 DEF IsResult
  <2>2. PICK i \in benign : \A d \in doubt : 100 - results[i].confidence <= d
    BY <2>1, MinOf
  <2>3. i \in best
    <3>1. ASSUME NEW j \in benign PROVE results[j].confidence <= results[i].confidence
      <4>1. 100 - results[i].confidence <= 100 - results[j].confidence
        BY <2>2
      <4> QED
        BY <4>1 DEF IsResult
    <3> QED
      BY <3>1
  <2>4. best \subseteq Nat /\ best # {}
    BY <2>3
  <2>5. Min(best) \in best
    BY <2>4, MinOf
  <2>6. PICK m : m = Min(best) /\ m \in benign /\ Best(results) = results[m]
                 /\ \A j \in benign : results[j].confidence <= results[m].confidence
    BY <1>0, <1>2, <2>5
  <2>7. ASSUME NEW j \in DOMAIN results PROVE Value(results[j]) <= Value(results[m])
    BY <2>6 DEF Value, IsResult
  <2> QED
    BY <2>6, <2>7
<1> QED
  BY <1>1, <1>2

(* The verdict is worth no less when no result is. *)
LEMMA BestGrows ==
  ASSUME NEW results, NEW others, DOMAIN results \subseteq Nat, DOMAIN others = DOMAIN results,
         \A i \in DOMAIN results : /\ IsResult(results[i]) /\ IsResult(others[i])
                                   /\ Value(results[i]) <= Value(others[i])
  PROVE  Value(Best(results)) <= Value(Best(others))
<1>1. /\ IsResult(Best(others)) /\ IsResult(Best(results))
      /\ \A i \in DOMAIN others : Value(others[i]) <= Value(Best(others))
  BY BestOf
<1>2. CASE Best(results) = NotBenign
  BY <1>1, <1>2 DEF NotBenign, Value, IsResult
<1>3. ASSUME NEW i \in DOMAIN results, Best(results) = results[i]
      PROVE  Value(Best(results)) <= Value(Best(others))
  <2>1. Value(results[i]) <= Value(others[i]) /\ Value(others[i]) <= Value(Best(others))
    BY <1>1
  <2> QED
    BY <1>1, <1>3, <2>1, ValueType
<1> QED
  BY <1>2, <1>3, BestOf

-----------------------------------------------------------------------------
(* The detectors. *)

LEMMA ResultOf ==
  ASSUME NEW type, NEW benign \in BOOLEAN, NEW n \in Int
  PROVE  /\ IsResult(Result(type, benign, n))
         /\ Result(type, benign, n).type = type
         /\ Result(type, benign, n).benign = benign
         /\ Result(type, benign, n).confidence = Percent(n)
BY CappedRange DEF IsResult, Result

LEMMA PointsOf == ASSUME NEW condition, NEW n \in Nat PROVE Worth(condition, n) \in {0, n}
BY DEF Worth

LEMMA DdosOf ==
  ASSUME NEW alert, NEW auth
  PROVE  /\ IsResult(DdosScrubbing(alert, auth))
         /\ DdosScrubbing(alert, auth).type = "ddos_scrubbing"
         /\ DdosScrubbing(alert, auth).benign =>
              TypeOf(alert.origin) = "scrubber" /\ auth # None /\ InWindow(auth, now)
<1> DEFINE scrubber == TypeOf(alert.origin) = "scrubber"
           inWindow == auth # None /\ InWindow(auth, now)
           ground == scrubber /\ inWindow
           extra == CASE auth = None -> 0 [] inWindow -> 60 [] OTHER -> 30
           n == Worth(scrubber, 30) + extra + Worth(ScrubberLike(alert), 10)
<1>1. extra \in {0, 30, 60}
  OBVIOUS
<1>2. n \in Int
  BY <1>1, PointsOf
<1>3. ground \in BOOLEAN
  OBVIOUS
<1>4. DdosScrubbing(alert, auth) = Result("ddos_scrubbing", ground, n)
  BY DEF DdosScrubbing
<1>5. ground => TypeOf(alert.origin) = "scrubber" /\ auth # None /\ InWindow(auth, now)
  OBVIOUS
<1> HIDE DEF n, ground
<1> QED
  BY <1>2, <1>3, <1>4, <1>5, ResultOf

LEMMA MaintenanceOf ==
  ASSUME NEW window, window # None => window.approved \in BOOLEAN
  PROVE  /\ IsResult(PlannedMaintenance(window))
         /\ PlannedMaintenance(window).benign =>
              window # None /\ PlannedMaintenance(window).type = "planned_maintenance"
<1>1. CASE window = None
  BY <1>1 DEF PlannedMaintenance, NotBenign, IsResult
<1>2. CASE window # None
  <2> DEFINE n == 60 + Worth(window.approved, 20) + Worth(window.order, 10)
  <2>1. n \in Int
    BY PointsOf
  <2>2. PlannedMaintenance(window) = Result("planned_maintenance", window.approved, n)
    BY <1>2 DEF PlannedMaintenance
  <2> HIDE DEF n
  <2> QED
    BY <1>2, <2>1, <2>2, ResultOf
<1> QED
  BY <1>1, <1>2

LEMMA AnycastOf ==
  ASSUME NEW alert, NEW node
  PROVE  /\ IsResult(AnycastExpansion(alert, node))
         /\ AnycastExpansion(alert, node).type = "anycast_expansion"
         /\ AnycastExpansion(alert, node).benign => node # None
<1> DEFINE ground == node # None
           many == Cardinality(Ledger.origins) > 1
           n == Worth(node # None, 40)
                + Worth(node # None /\ node.geo, 10) + Worth(node # None /\ node.tag, 10)
                + Worth(many, 20) + Worth(many /\ alert.origin \in Ledger.origins, 10)
                + Worth(AsnInfo[alert.origin] # None /\ AsnInfo[alert.origin].anycast, 10)
<1>1. n \in Int
  BY PointsOf
<1>2. AnycastExpansion(alert, node) = Result("anycast_expansion", ground, n)
  BY DEF AnycastExpansion
<1>3. ground \in BOOLEAN /\ (ground => node # None)
  OBVIOUS
<1> HIDE DEF n, ground
<1> QED
  BY <1>1, <1>2, <1>3, ResultOf

LEMMA TransferOf ==
  /\ IsResult(ResourceTransfer) /\ ResourceTransfer.type = "resource_transfer"
  /\ ResourceTransfer.benign => TransferOnRecord \/ Ledger.roaChanged
<1> DEFINE moving == Ledger.status \in {"reserved", "deprecated"}
           ground == TransferOnRecord \/ (Ledger.roaChanged /\ moving)
           n == Worth(moving, 20) + Worth(Ledger.roaChanged, 30) + Worth(TransferOnRecord, 30)
<1>1. n \in Int
  BY PointsOf
<1>2. ground \in BOOLEAN
  OBVIOUS
<1>3. ResourceTransfer = Result("resource_transfer", ground, n)
  BY DEF ResourceTransfer
<1>4. ground => TransferOnRecord \/ Ledger.roaChanged
  OBVIOUS
<1> HIDE DEF n, ground
<1> QED
  BY <1>1, <1>2, <1>3, <1>4, ResultOf

LEMMA CustomerOf ==
  ASSUME NEW alert
  PROVE  /\ IsResult(CustomerMisconfig(alert))
         /\ CustomerMisconfig(alert).type = "customer_misconfig"
         /\ CustomerMisconfig(alert).benign => TypeOf(alert.origin) = "customer"
<1> DEFINE ground == TypeOf(alert.origin) = "customer"
           customer == TypeOf(alert.origin) = "customer"
           crossed == Ledger.status # None /\ Ledger.parent # None /\ Ledger.parent # Ledger.customer
           n == Worth(customer, 30) + Worth(Ledger.customer # None, 20)
                + (IF alert.origin \in Ledger.origins THEN 20 ELSE 10) + Worth(crossed, 20)
<1>1. n \in Int
  BY PointsOf
<1>2. CustomerMisconfig(alert) = Result("customer_misconfig", ground, n)
  BY DEF CustomerMisconfig
<1>3. ground \in BOOLEAN /\ (ground => TypeOf(alert.origin) = "customer")
  OBVIOUS
<1> HIDE DEF n, ground
<1> QED
  BY <1>1, <1>2, <1>3, ResultOf

LEMMA DelayOf ==
  ASSUME sources \in SourceType
  PROVE  /\ IsResult(DataSourceDelay) /\ DataSourceDelay.type = "data_source_delay"
         /\ DataSourceDelay.benign => sources # Healthy
<1> DEFINE ground == sources.failed \/ sources.stale \/ sources.vrpStale
           n == Worth(sources.failed, 30) + Worth(sources.stale, 20)
                + Worth(sources.vrpStale, 30) + Worth(sources.old, 10)
<1>1. n \in Int
  BY PointsOf
<1>2. ground \in BOOLEAN /\ (ground => sources # Healthy)
  BY DEF SourceType, Healthy
<1>3. DataSourceDelay = Result("data_source_delay", ground, n)
  BY DEF DataSourceDelay
<1> HIDE DEF n, ground
<1> QED
  BY <1>1, <1>2, <1>3, ResultOf

(* What MoreEvidence does for the two detectors it concerns. *)
LEMMA MaintenanceGrows ==
  ASSUME NEW window \in WindowType
  PROVE  Value(PlannedMaintenance(window)) <= Value(PlannedMaintenance([window EXCEPT !.approved = TRUE]))
<1> DEFINE other == [window EXCEPT !.approved = TRUE]
           n == 60 + Worth(window.approved, 20) + Worth(window.order, 10)
           m == 60 + Worth(other.approved, 20) + Worth(other.order, 10)
<1>1. /\ window # None /\ other # None /\ other \in WindowType
      /\ other.approved /\ other.approved \in BOOLEAN /\ other.order = window.order
  BY StoredAssumption DEF WindowType
<1>2. window.approved \in BOOLEAN /\ window.order \in BOOLEAN
  BY DEF WindowType
<1> HIDE DEF other
<1>3. n \in Int /\ m \in Int /\ n <= m
  BY <1>1, <1>2 DEF Worth
<1>4. /\ PlannedMaintenance(window) = Result("planned_maintenance", window.approved, n)
      /\ PlannedMaintenance(other) = Result("planned_maintenance", other.approved, m)
  BY <1>1 DEF PlannedMaintenance
<1> HIDE DEF n, m
<1>5. Percent(n) \in 0..100 /\ Percent(m) \in 0..100 /\ Percent(n) <= Percent(m)
  BY <1>3, CappedRange
<1>6. PlannedMaintenance(window).confidence = Percent(n)
  BY <1>2, <1>3, <1>4, ResultOf
<1>7. PICK b \in BOOLEAN : b = other.approved /\ PlannedMaintenance(other) = Result("planned_maintenance", b, m)
  BY <1>1, <1>4
<1>8. PlannedMaintenance(other).confidence = Percent(m) /\ PlannedMaintenance(other).benign = b
  BY <1>3, <1>7, ResultOf
<1>9. b
  BY <1>1, <1>7
<1>10. Value(PlannedMaintenance(window)) <= Value(PlannedMaintenance(other))
  BY <1>5, <1>6, <1>8, <1>9 DEF Value
<1> QED
  BY <1>10 DEF other

LEMMA DelayGrows ==
  ASSUME sources \in SourceType, sources' \in SourceType,
         \A f \in {"failed", "stale", "vrpStale", "old"} : sources[f] => sources'[f]
  PROVE  Value(DataSourceDelay) <= Value(DataSourceDelay') /\ IsResult(DataSourceDelay')
<1> DEFINE ground(s) == s.failed \/ s.stale \/ s.vrpStale
           n(s) == Worth(s.failed, 30) + Worth(s.stale, 20) + Worth(s.vrpStale, 30) + Worth(s.old, 10)
<1>1. \A f \in {"failed", "stale", "vrpStale", "old"} : sources[f] \in BOOLEAN /\ sources'[f] \in BOOLEAN
  BY DEF SourceType
<1>2. /\ ground(sources) \in BOOLEAN /\ ground(sources') \in BOOLEAN
      /\ ground(sources) => ground(sources')
  BY <1>1
<1>3. n(sources) \in Int /\ n(sources') \in Int /\ n(sources) <= n(sources')
  BY <1>1 DEF Worth
<1>4. /\ DataSourceDelay = Result("data_source_delay", ground(sources), n(sources))
      /\ DataSourceDelay' = Result("data_source_delay", ground(sources'), n(sources'))
  BY DEF DataSourceDelay, Result, Percent, Worth
<1> HIDE DEF ground, n
<1>5. /\ Percent(n(sources)) \in 0..100 /\ Percent(n(sources')) \in 0..100
      /\ Percent(n(sources)) <= Percent(n(sources'))
  BY <1>3, CappedRange
<1>6. /\ DataSourceDelay.benign = ground(sources)
      /\ DataSourceDelay.confidence = Percent(n(sources))
      /\ DataSourceDelay'.benign = ground(sources')
      /\ DataSourceDelay'.confidence = Percent(n(sources'))
  BY <1>2, <1>3, <1>4, ResultOf
<1>7. IsResult(DataSourceDelay')
  BY <1>2, <1>3, <1>4, ResultOf
<1>8. ASSUME NEW x, NEW y, x.benign = ground(sources), y.benign = ground(sources'),
             x.confidence = Percent(n(sources)), y.confidence = Percent(n(sources'))
      PROVE  Value(x) <= Value(y)
  BY <1>2, <1>5, <1>8 DEF Value
<1> QED
  BY <1>6, <1>7, <1>8

-----------------------------------------------------------------------------
(* The six results for one alert. *)

Six(alert, auth, window, node) ==
  <<NeedsOrigin(alert, DdosScrubbing(alert, auth)),
    PlannedMaintenance(window),
    NeedsOrigin(alert, AnycastExpansion(alert, node)),
    ResourceTransfer,
    NeedsOrigin(alert, CustomerMisconfig(alert)),
    DataSourceDelay>>

LEMMA SixResults ==
  ASSUME sources \in SourceType, NEW alert, NEW auth, NEW node,
         NEW window, window # None => window.approved \in BOOLEAN
  PROVE  /\ DOMAIN Six(alert, auth, window, node) = 1..6 /\ DOMAIN Six(alert, auth, window, node) \subseteq Nat
         /\ \A i \in 1..6 : IsResult(Six(alert, auth, window, node)[i])
<1>1. ASSUME NEW r, IsResult(r) PROVE IsResult(NeedsOrigin(alert, r))
  <2>1. IsResult(NotBenign)
    BY DEF NotBenign, IsResult
  <2> QED
    BY <1>1, <2>1 DEF NeedsOrigin
<1>2. /\ IsResult(Six(alert, auth, window, node)[1]) /\ IsResult(Six(alert, auth, window, node)[2])
      /\ IsResult(Six(alert, auth, window, node)[3]) /\ IsResult(Six(alert, auth, window, node)[4])
      /\ IsResult(Six(alert, auth, window, node)[5]) /\ IsResult(Six(alert, auth, window, node)[6])
  BY <1>1, DdosOf, MaintenanceOf, AnycastOf, TransferOf, CustomerOf, DelayOf DEF Six
<1> QED
  BY <1>2 DEF Six

(* Rows the queries may give. *)
LEMMA WindowFound ==
  ASSUME TypeOK, NEW alert, NEW window \in OrNone(MatchingWindows(alert.origin, alert.time))
  PROVE  window # None => /\ window \in WindowType /\ UnderMaintenance(alert.origin, alert.time)
                          /\ window \in MatchingWindows(alert.origin, alert.time)
<1> SUFFICES ASSUME window # None
             PROVE  /\ window \in WindowType /\ UnderMaintenance(alert.origin, alert.time)
                    /\ window \in MatchingWindows(alert.origin, alert.time)
  OBVIOUS
<1>1. window \in MatchingWindows(alert.origin, alert.time)
  BY DEF OrNone
<1>2. /\ window \in Rows(windows) /\ LiveWindow(window)
      /\ Covers(window, alert.time) /\ Concerns(window, alert.origin)
  BY <1>1 DEF MatchingWindows
<1>3. window \in WindowType
  BY <1>2 DEF Rows, TypeOK
<1> QED
  BY <1>1, <1>2, <1>3 DEF UnderMaintenance

(* A benign verdict has its ground on record, whichever detector wins. *)
LEMMA Grounded == TypeOK => BenignGrounded
<1> SUFFICES ASSUME TypeOK, NEW a \in RaisedIds, raised[a] # None,
                    NEW r \in Analyses(raised[a]), r.benign
             PROVE  CASE r.type = "ddos_scrubbing" ->
                           TypeOf(raised[a].origin) = "scrubber" /\ Authorized(raised[a].origin, now)
                      [] r.type = "planned_maintenance" ->
                           UnderMaintenance(raised[a].origin, raised[a].time)
                      [] r.type = "anycast_expansion" -> ActiveNodes(raised[a].origin) # {}
                      [] r.type = "resource_transfer" -> TransferOnRecord \/ Ledger.roaChanged
                      [] r.type = "customer_misconfig" -> TypeOf(raised[a].origin) = "customer"
                      [] r.type = "data_source_delay" -> sources # Healthy
  BY DEF BenignGrounded
<1> DEFINE alert == raised[a]
<1>1. PICK auth \in OrNone(LastExpiring(alert.origin)),
           window \in OrNone(MatchingWindows(alert.origin, alert.time)),
           node \in OrNone(ActiveNodes(alert.origin)) :
             r = Best(Six(alert, auth, window, node))
  BY DEF Analyses, Opinions, Six
<1> HIDE DEF alert
<1>2. sources \in SourceType
  BY DEF TypeOK
<1>3. window # None => /\ window.approved \in BOOLEAN /\ UnderMaintenance(alert.origin, alert.time)
  BY WindowFound DEF WindowType
<1>4. auth # None => /\ auth \in Rows(auths) /\ auth.asn = alert.origin /\ auth.status = "active"
  BY DEF OrNone, LastExpiring
<1>5. node # None => ActiveNodes(alert.origin) # {}
  BY DEF OrNone
<1>6. PICK i \in 1..6 : r = Six(alert, auth, window, node)[i]
  <2>1. r # NotBenign
    BY DEF NotBenign
  <2> QED
    BY <1>1, <1>2, <1>3, <2>1, SixResults, BestOf
<1>7. \A x : NeedsOrigin(alert, x).benign => NeedsOrigin(alert, x) = x
  BY DEF NeedsOrigin, NotBenign
<1>8. \/ r = DdosScrubbing(alert, auth) \/ r = PlannedMaintenance(window)
      \/ r = AnycastExpansion(alert, node) \/ r = ResourceTransfer
      \/ r = CustomerMisconfig(alert) \/ r = DataSourceDelay
  BY <1>6, <1>7 DEF Six
<1>9. CASE r = DdosScrubbing(alert, auth)
  <2>1. /\ r.type = "ddos_scrubbing" /\ TypeOf(alert.origin) = "scrubber"
        /\ auth # None /\ InWindow(auth, now)
    BY <1>9, DdosOf
  <2>2. Authorized(alert.origin, now)
    BY <1>4, <2>1 DEF Authorized
  <2> QED
    BY <2>1, <2>2 DEF alert
<1>10. CASE r = PlannedMaintenance(window)
  <2>1. r.type = "planned_maintenance" /\ window # None
    BY <1>3, <1>10, MaintenanceOf
  <2> QED
    BY <1>3, <2>1 DEF alert
<1>11. CASE r = AnycastExpansion(alert, node)
  <2>1. r.type = "anycast_expansion" /\ node # None
    BY <1>11, AnycastOf
  <2> QED
    BY <1>5, <2>1 DEF alert
<1>12. CASE r = ResourceTransfer
  <2>1. r.type = "resource_transfer" /\ (TransferOnRecord \/ Ledger.roaChanged)
    BY <1>12, TransferOf
  <2> QED
    BY <2>1
<1>13. CASE r = CustomerMisconfig(alert)
  <2>1. r.type = "customer_misconfig" /\ TypeOf(alert.origin) = "customer"
    BY <1>13, CustomerOf
  <2> QED
    BY <2>1 DEF alert
<1>14. CASE r = DataSourceDelay
  <2>1. r.type = "data_source_delay" /\ sources # Healthy
    BY <1>2, <1>14, DelayOf
  <2> QED
    BY <2>1
<1> QED
  BY <1>8, <1>9, <1>10, <1>11, <1>12, <1>13, <1>14

(* However records are created, changed and deleted and whatever the sources do:
   a benign verdict rests on a record of that moment, one that the services' own
   checks would find as well. *)
THEOREM AlwaysGrounded == BenignSpec => []BenignGrounded
BY TypeCorrect, Grounded, PTL

-----------------------------------------------------------------------------
(* More evidence. *)

Fits(window, origin, time) ==
  window # None /\ LiveWindow(window) /\ Covers(window, time) /\ Concerns(window, origin)
Chosen(table, i, origin, time) ==
  /\ Fits(table[i], origin, time)
  /\ \A j \in WindowIds : Fits(table[j], origin, time) => table[j].start <= table[i].start

LEMMA Approving ==
  ASSUME NEW window \in WindowType
  PROVE  LET other == [window EXCEPT !.approved = TRUE]
         IN  /\ other \in WindowType /\ other # None /\ window # None
             /\ other.start = window.start /\ other.end = window.end
             /\ other.scope = window.scope /\ other.status = window.status
BY StoredAssumption DEF WindowType

(* The window found with more evidence was found before, perhaps not approved. *)
LEMMA WindowBefore ==
  ASSUME TypeOK, TypeOK', MoreEvidence, NEW origin, NEW time,
         NEW window \in OrNone(MatchingWindows(origin, time)')
  PROVE  \E w \in OrNone(MatchingWindows(origin, time)) :
           \/ window = w
           \/ w \in WindowType /\ window = [w EXCEPT !.approved = TRUE]
<1>0. DOMAIN windows = WindowIds /\ DOMAIN windows' = WindowIds
  BY DEF TypeOK
<1>1. \A w : w \in MatchingWindows(origin, time) <=>
               \E i \in WindowIds : w = windows[i] /\ Chosen(windows, i, origin, time)
  BY <1>0 DEF MatchingWindows, Rows, Fits, Chosen
<1>2. \A w : w \in MatchingWindows(origin, time)' <=>
               \E i \in WindowIds : w = windows'[i] /\ Chosen(windows', i, origin, time)
  BY <1>0 DEF MatchingWindows, Rows, Fits, Chosen
<1>3. ASSUME NEW i \in WindowIds
      PROVE  \/ windows'[i] = windows[i]
             \/ windows[i] \in WindowType /\ windows'[i] = [windows[i] EXCEPT !.approved = TRUE]
  BY DEF MoreEvidence, TypeOK
<1>4. ASSUME NEW i \in WindowIds
      PROVE  /\ Fits(windows'[i], origin, time) <=> Fits(windows[i], origin, time)
             /\ Fits(windows[i], origin, time) => windows'[i].start = windows[i].start
  <2>1. CASE windows'[i] = windows[i]
    BY <2>1
  <2>2. CASE windows[i] \in WindowType /\ windows'[i] = [windows[i] EXCEPT !.approved = TRUE]
    <3>1. /\ windows'[i] \in WindowType /\ windows'[i] # None /\ windows[i] # None
          /\ windows'[i].start = windows[i].start /\ windows'[i].end = windows[i].end
          /\ windows'[i].scope = windows[i].scope /\ windows'[i].status = windows[i].status
      BY <2>2, Approving
    <3> QED
      BY <3>1 DEF Fits, LiveWindow, Covers, Concerns
  <2> QED
    BY <1>3, <2>1, <2>2
<1>5. \A i \in WindowIds : Chosen(windows', i, origin, time) <=> Chosen(windows, i, origin, time)
  BY <1>4 DEF Chosen
<1>6. CASE MatchingWindows(origin, time)' = {}
  <2>1. MatchingWindows(origin, time) = {}
    BY <1>1, <1>2, <1>5, <1>6
  <2> QED
    BY <1>6, <2>1 DEF OrNone
<1>7. CASE MatchingWindows(origin, time)' # {}
  <2>1. PICK i \in WindowIds : window = windows'[i] /\ Chosen(windows', i, origin, time)
    BY <1>2, <1>7 DEF OrNone
  <2>2. windows[i] \in MatchingWindows(origin, time)
    BY <1>1, <1>5, <2>1
  <2>3. windows[i] \in OrNone(MatchingWindows(origin, time))
    BY <2>2 DEF OrNone
  <2> QED
    BY <1>3, <2>1, <2>3
<1> QED
  BY <1>6, <1>7

LEMMA AnalysisBefore ==
  ASSUME TypeOK, TypeOK', MoreEvidence, NEW alert, NEW r \in Analyses(alert)'
  PROVE  IsResult(r) /\ \E q \in Analyses(alert) : Value(q) <= Value(r)
<1>1. PICK auth \in OrNone(LastExpiring(alert.origin)'),
           window \in OrNone(MatchingWindows(alert.origin, alert.time)'),
           node \in OrNone(ActiveNodes(alert.origin)') :
             r = Best(Six(alert, auth, window, node)')
  BY DEF Analyses, Opinions, Six, OrNone
<1>2. PICK w \in OrNone(MatchingWindows(alert.origin, alert.time)) :
             \/ window = w
             \/ w \in WindowType /\ window = [w EXCEPT !.approved = TRUE]
  BY WindowBefore
<1>3. w # None => w \in WindowType
  BY WindowFound
<1>4. window # None => window.approved \in BOOLEAN
  BY <1>2, <1>3 DEF WindowType
<1>5. w # None => w.approved \in BOOLEAN
  BY <1>3 DEF WindowType
<1>6. sources \in SourceType /\ sources' \in SourceType
  BY DEF TypeOK
<1> DEFINE before == Six(alert, auth, w, node)
           after == Six(alert, auth, window, node)'
<1>7. /\ DdosScrubbing(alert, auth)' = DdosScrubbing(alert, auth)
      /\ AnycastExpansion(alert, node)' = AnycastExpansion(alert, node)
      /\ ResourceTransfer' = ResourceTransfer
      /\ CustomerMisconfig(alert)' = CustomerMisconfig(alert)
  BY DEF MoreEvidence, DdosScrubbing, InWindow, AnycastExpansion, ResourceTransfer, TransferOnRecord,
         Rows, CustomerMisconfig
<1>8. after = [Six(alert, auth, window, node) EXCEPT ![6] = DataSourceDelay']
  BY <1>7 DEF Six, PlannedMaintenance
<1>9. /\ DOMAIN before = 1..6 /\ DOMAIN after = 1..6 /\ 1..6 \subseteq Nat
      /\ \A i \in 1..6 : IsResult(before[i]) /\ IsResult(after[i])
  <2>1. IsResult(DataSourceDelay')
    BY <1>6, DelayGrows DEF MoreEvidence
  <2> QED
    BY <1>4, <1>5, <1>6, <1>8, <2>1, SixResults
<1>10. \A i \in 1..6 : Value(before[i]) <= Value(after[i])
  <2>1. Value(before[2]) <= Value(after[2])
    <3>1. before[2] = PlannedMaintenance(w) /\ after[2] = PlannedMaintenance(window)
      BY <1>8 DEF Six
    <3> QED
      BY <1>2, <1>9, <3>1, MaintenanceGrows, ValueType
  <2>2. Value(before[6]) <= Value(after[6])
    <3>1. before[6] = DataSourceDelay /\ after[6] = DataSourceDelay'
      BY <1>8 DEF Six
    <3> QED
      BY <1>6, <3>1, DelayGrows DEF MoreEvidence
  <2>3. \A i \in {1, 3, 4, 5} : before[i] = after[i]
    BY <1>8 DEF Six
  <2>4. \A i \in {1, 3, 4, 5} : Value(before[i]) <= Value(after[i])
    BY <1>9, <2>3, ValueType
  <2> QED
    BY <2>1, <2>2, <2>4
<1> HIDE DEF before, after
<1>11. Value(Best(before)) <= Value(Best(after)) /\ IsResult(Best(after))
  BY <1>9, <1>10, BestGrows, BestOf
<1>12. Best(before) \in Analyses(alert)
  <2>1. LastExpiring(alert.origin)' = LastExpiring(alert.origin)
        /\ ActiveNodes(alert.origin)' = ActiveNodes(alert.origin)
    BY DEF MoreEvidence, LastExpiring, ActiveNodes, Rows
  <2> QED
    BY <2>1 DEF Analyses, Opinions, Six, before
<1> QED
  BY <1>1, <1>11, <1>12 DEF after

LEMMA AnalysesTyped ==
  ASSUME TypeOK, NEW alert
  PROVE  Analyses(alert) # {} /\ \A r \in Analyses(alert) : IsResult(r)
<1>1. \A S : OrNone(S) # {}
  BY DEF OrNone
<1>2. ASSUME NEW auth \in OrNone(LastExpiring(alert.origin)),
             NEW window \in OrNone(MatchingWindows(alert.origin, alert.time)),
             NEW node \in OrNone(ActiveNodes(alert.origin))
      PROVE  Best(Six(alert, auth, window, node)) \in Analyses(alert)
  BY DEF Analyses, Opinions, Six
<1>3. ASSUME NEW r \in Analyses(alert) PROVE IsResult(r)
  <2>1. PICK auth \in OrNone(LastExpiring(alert.origin)),
             window \in OrNone(MatchingWindows(alert.origin, alert.time)),
             node \in OrNone(ActiveNodes(alert.origin)) :
               r = Best(Six(alert, auth, window, node))
    BY DEF Analyses, Opinions, Six
  <2>2. window # None => window.approved \in BOOLEAN
    BY WindowFound DEF WindowType
  <2> QED
    BY <2>1, <2>2, SixResults, BestOf DEF TypeOK
<1> QED
  BY <1>1, <1>2, <1>3

LEMMA WorstGrows ==
  ASSUME TypeOK, TypeOK', MoreEvidence, NEW a \in RaisedIds
  PROVE  Worst(raised[a]) <= Worst(raised[a])'
<1>1. PICK alert : alert = raised[a] /\ alert = raised'[a]
  BY DEF MoreEvidence
<1> DEFINE values == {Value(r) : r \in Analyses(alert)}
           later == {Value(r) : r \in Analyses(alert)'}
<1>2. Worst(raised[a]) = Min(values) /\ Worst(raised[a])' = Min(later)
  BY <1>1 DEF Worst, Value
<1>3. values \subseteq Nat /\ values # {}
  BY AnalysesTyped, ValueType
<1>4. later \subseteq Nat /\ later # {}
  <2>1. PICK auth \in OrNone(LastExpiring(alert.origin)'),
             window \in OrNone(MatchingWindows(alert.origin, alert.time)'),
             node \in OrNone(ActiveNodes(alert.origin)') : TRUE
    BY DEF OrNone
  <2>2. Best(Six(alert, auth, window, node)') \in Analyses(alert)'
    BY DEF Analyses, Opinions, Six, OrNone
  <2> QED
    BY <2>2, AnalysisBefore, ValueType
<1>5. PICK r \in Analyses(alert)' : Min(later) = Value(r)
  BY <1>4, MinOf
<1>6. PICK q \in Analyses(alert) : Value(q) <= Value(r)
  BY AnalysisBefore
<1>7. Min(values) <= Value(q) /\ Min(values) \in Nat /\ Value(q) \in Nat /\ Value(r) \in Nat
  BY <1>3, <1>4, MinOf
<1> QED
  BY <1>2, <1>5, <1>6, <1>7

(* When windows are approved or sources fail, and nothing else changes, no verdict
   falls back to an alarm or loses confidence, whichever of several rows the
   queries of detect_planned_maintenance and the other detectors return. *)
THEOREM EvidenceAlwaysCounts == BenignSpec => EvidenceCounts
<1>1. TypeOK /\ TypeOK' /\ [BenignNext]_benignVars =>
        [MoreEvidence => \A a \in RaisedIds : raised[a] # None => Worst(raised[a]) <= Worst(raised[a])']_benignVars
  BY WorstGrows
<1> QED
  BY <1>1, TypeCorrect, PTL DEF BenignSpec, EvidenceCounts
=============================================================================
