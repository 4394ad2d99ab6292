-------------------------- MODULE DetectionProofs ---------------------------
(***************************************************************************)
(* Theorems about RuleEngine, for any number of rules, alerts and scans:   *)
(* Kafka hears of what the database keeps, and a scan that is answered     *)
(* skipped no rule; and about DetectionTables, for any network, VRPs,      *)
(* announcements and bounds: the hijack detectors say what the tables      *)
(* support, and a VRP that makes an announcement invalid never lowers its  *)
(* risk.                                                                   *)
(*                                                                         *)
(* Neither of the two about scans is inductive.  IInv adds that alerts     *)
(* refer to rules that exist (RefsOK), what the session holds between its  *)
(* statements (PendingOK, StepOK), that a deletion in progress only owns   *)
(* alerts that are stored (DeletionOK), and, of a scan that is not over,   *)
(* what it has announced (AnnouncedSoFar) and which of its rules are still *)
(* to come (CompleteSoFar).                                                *)
(***************************************************************************)
EXTENDS RuleEngine, DetectionTables, FiniteSetTheorems, TLAPS

Steps == {"idle", "rules", "flush", "score", "commit", "send", "end"}

SessionType ==
  [pc : Steps, scan : Scans \union {None}, queue : Seq(RuleType),
   rule : RuleType \union {None}, alert : AlertIds \union {None},
   result : Results \union {Quiet},
   pending : UNION {[D -> AlertType] : D \in SUBSET AlertIds},
   loaded : SUBSET RuleType, made : SUBSET AlertIds, unsent : SUBSET AlertIds]

TypeOK ==
  /\ rules \in [RuleIds -> RuleType \union {None, Deleted}]
  /\ alerts \in [AlertIds -> AlertType \union {None}]
  /\ events \in Seq(AlertIds)
  /\ session \in SessionType
  /\ deletion \in DeletionType \union {None}
  /\ dropped \subseteq AlertIds

(* What is pending is not in the table yet, and its rule exists. *)
PendingOK ==
  \A a \in InUse :
    /\ ~Stored(a) /\ a \notin dropped
    /\ session.pending[a].rule # None /\ Exists(session.pending[a].rule)

(* Alerts refer to rules that exist, and those that went with their rule are gone. *)
RefsOK ==
  /\ \A a \in AlertIds : Stored(a) /\ alerts[a].rule # None => Exists(alerts[a].rule)
  /\ \A a \in dropped : ~Stored(a)

DeletionOK == deletion # None => \A a \in deletion.owned : Stored(a)

Scored(a) == a \in dropped \/ (Stored(a) /\ alerts[a].score # None)

(* What the scan holds of the rule whose alert it is writing. *)
StepOK ==
  /\ session.pc # "idle" => session.scan \in Scans
  /\ session.pc = "flush" => session.rule \in RuleType /\ session.result \in Results
  /\ session.pc \in {"score", "commit"} =>
       /\ session.rule \in RuleType
       /\ session.alert \in InUse \intersect session.made
       /\ session.pending[session.alert].rule = session.rule.id
       /\ session.pending[session.alert].type = session.rule.type
  /\ session.pc = "commit" => session.pending[session.alert].score # None
  /\ session.pc = "send" =>
       /\ session.alert \in AlertIds /\ Scored(session.alert)
       /\ session.alert \notin Sent \union session.unsent
  /\ \A a \in session.unsent : Scored(a)
  /\ session.pc = "end" => session.queue = <<>>
  /\ session.pc \in {"idle", "send", "end"} => InUse = {}

(* The alerts of the scan but the one in hand: scored and announced, unless the
   send raised, or neither. *)
InHand(a) == session.pc \in {"commit", "send"} /\ a = session.alert
AnnouncedSoFar ==
  \A a \in session.made : ~InHand(a) =>
    /\ Stored(a) => (a \in Sent <=> alerts[a].score # None /\ a \notin session.unsent)
    /\ a \in InUse => session.pending[a].score = None

(* Each rule that must report is still queued, or in hand, or has reported: its
   alert is stored, or waits without a score for the next commit. *)
Queued(rule) == \E i \in DOMAIN session.queue : session.queue[i] = rule
RuleInHand(rule) == session.pc \in {"flush", "score", "commit"} /\ session.rule = rule
Reported(rule) ==
  \E a \in session.made :
    \/ a \in dropped
    \/ Stored(a) /\ alerts[a].rule \in {rule.id, None} /\ alerts[a].type = rule.type
    \/ a \in InUse /\ session.pending[a].rule = rule.id /\ session.pending[a].type = rule.type
CompleteSoFar ==
  session.pc # "idle" =>
    \A rule \in session.loaded : Certain(rule, session.scan) =>
      Queued(rule) \/ RuleInHand(rule) \/ Reported(rule)

IInv ==
  /\ TypeOK /\ PendingOK /\ DeletionOK /\ StepOK
  /\ RefsOK /\ EventsStored /\ AnnouncedSoFar /\ CompleteSoFar

-----------------------------------------------------------------------------
(* Operators. *)

(* What exists has a row. *)
LEMMA ExistsRow ==
  ASSUME TypeOK, NEW r \in RuleIds
  PROVE  Exists(r) <=> rules[r] \in RuleType
  BY RowAssumption DEF TypeOK, Exists

(* Each dimension of a score is between 0 and 100, whatever the tables say. *)
LEMMA DimensionsBounded ==
  ASSUME NEW s, NEW ann, NEW evidence, NEW asset
  PROVE  /\ AssetScore(asset) \in 0..100 /\ RpkiScore(s, ann, evidence) \in 0..100
         /\ BgpScore(s, evidence) \in 0..100 /\ AuthScore(ann, evidence, asset) \in 0..100
         /\ HistoryScore(s, ann) \in 0..100 /\ ExternalScore(ann, evidence) \in 0..100
<1>1. AssetScore(asset) \in 0..100
  <2> DEFINE importance == Max({30, Bonus(Importance, asset.importance)})
  <2>1. Bonus(Importance, asset.importance) \in 0..70
    BY DEF Bonus, Importance
  <2>2. importance \in 0..70
    BY <2>1 DEF Max
  <2>3. Bonus(ServiceLevel, asset.level) \in 0..20 /\ Bonus(BusinessImportance, asset.business) \in 0..15
    BY DEF Bonus, ServiceLevel, BusinessImportance
  <2> HIDE DEF importance
  <2>4. Capped(Capped(importance + Bonus(ServiceLevel, asset.level))
               + Bonus(BusinessImportance, asset.business)) \in 0..100
    BY <2>2, <2>3 DEF Capped
  <2> QED
    BY <2>4 DEF AssetScore, importance
<1>2. RpkiScore(s, ann, evidence) \in 0..100
  BY DEF RpkiScore
<1>3. BgpScore(s, evidence) \in 0..100
  BY DEF BgpScore, Capped
<1>4. AuthScore(ann, evidence, asset) \in 0..100
  BY DEF AuthScore, Capped
<1>5. HistoryScore(s, ann) \in 0..100
  BY DEF HistoryScore
<1>6. ExternalScore(ann, evidence) \in 0..100
  BY DEF ExternalScore, Capped
<1> QED
  BY <1>1, <1>2, <1>3, <1>4, <1>5, <1>6

(* The weights add up: the score of an alert is a number of 0..100, here times
   a hundred, and so is its confidence. *)
LEMMA ScoreBounded ==
  ASSUME NEW type, NEW s, NEW ann, NEW evidence, NEW asset
  PROVE  RiskScoreRow(type, s, ann, evidence, asset) \in ScoreType
<1>1. TotalScore(s, ann, evidence, asset) \in Nat /\ TotalScore(s, ann, evidence, asset) <= 10000
  <2> DEFINE a == AssetScore(asset)   r == RpkiScore(s, ann, evidence)
             b == BgpScore(s, evidence)   u == AuthScore(ann, evidence, asset)
             h == HistoryScore(s, ann)   e == ExternalScore(ann, evidence)
  <2>1. a \in 0..100 /\ r \in 0..100 /\ b \in 0..100 /\ u \in 0..100 /\ h \in 0..100 /\ e \in 0..100
    BY DimensionsBounded
  <2>2. TotalScore(s, ann, evidence, asset) = 20 * a + 25 * r + 20 * b + 15 * u + 10 * h + 10 * e
    BY DEF TotalScore, Weights
  <2> HIDE DEF a, r, b, u, h, e
  <2> QED
    BY <2>1, <2>2
<1>2. Confidence(s, ann, evidence, asset) \in 0..100
  BY DEF Confidence
<1>3. RecommendedActions(type, s, ann, evidence, asset) \subseteq Advice
  <2> DEFINE total == TotalScore(s, ann, evidence, asset)
             byScore == CASE total >= 7000 -> {"contact_noc", "filter_upstream"}
                          [] total >= 4000 /\ total < 7000 -> {"investigate"}
                          [] OTHER -> {"observe"}
             byStatus == IF RpkiStatus(s, ann, evidence) = "invalid" THEN {"deploy_rov"} ELSE {}
             byScope == IF evidence.scope >= 10 THEN {"coordinate_withdrawal"} ELSE {}
             byType == CASE type = "moas" -> {"check_moas"}
                         [] type = "route_leak" -> {"check_policy"}
                         [] type = "withdraw_flap" -> {"check_stability"}
                         [] OTHER -> {}
  <2>1. byScore \subseteq Advice
    <3>1. total \in Int
      BY <1>1
    <3> HIDE DEF total
    <3>2. CASE total >= 7000
      BY <3>1, <3>2 DEF Advice
    <3>3. CASE ~(total >= 7000) /\ total >= 4000
      BY <3>1, <3>3 DEF Advice
    <3>4. CASE ~(total >= 7000) /\ ~(total >= 4000)
      BY <3>1, <3>4 DEF Advice
    <3> QED
      BY <3>2, <3>3, <3>4
  <2>2. byStatus \subseteq Advice /\ byScope \subseteq Advice /\ byType \subseteq Advice
    BY DEF Advice
  <2>3. RecommendedActions(type, s, ann, evidence, asset) = byScore \union byStatus \union byScope \union byType
    BY DEF RecommendedActions
  <2> QED
    BY <2>1, <2>2, <2>3
<1> QED
  BY <1>1, <1>2, <1>3 DEF RiskScoreRow, ScoreType

(* The order of a finite set of rules has each of them. *)
LEMMA OrderHasAll ==
  ASSUME NEW set, IsFiniteSet(set), NEW queue \in ByPriority(set)
  PROVE  /\ queue \in Seq(set)
         /\ \A rule \in set : \E i \in DOMAIN queue : queue[i] = rule
<1> DEFINE n == Cardinality(set)
<1>1. n \in Nat
  BY FS_CardinalityType
<1>2. queue \in [1..n -> set] /\ \A i, j \in DOMAIN queue : i # j => queue[i] # queue[j]
  BY DEF ByPriority
<1> HIDE DEF n
<1>3. queue \in Injection(1..n, set)
  BY <1>2 DEF Injection, IsInjective
<1>4. Cardinality(1..n) = n
  BY <1>1, FS_Interval
<1>5. queue \in Surjection(1..n, set)
  BY <1>3, <1>4, FS_Injection DEF n
<1> QED
  BY <1>1, <1>2, <1>5 DEF Surjection

(* The rules that a scan loads are finitely many rows. *)
LEMMA LoadedRows ==
  ASSUME TypeOK, NEW types
  PROVE  Loaded(types) \subseteq RuleType /\ IsFiniteSet(Loaded(types))
<1>1. Enabled \subseteq RuleType
  BY ExistsRow DEF Enabled
<1>2. Loaded(types) \subseteq Enabled
  BY DEF Loaded, Of
<1>3. IsFiniteSet({rules[r] : r \in RuleIds})
  <2>1. rules \in Surjection(RuleIds, {rules[r] : r \in RuleIds})
    BY DEF TypeOK, Surjection
  <2> QED
    BY <2>1, RowAssumption, FS_Surjection
<1>4. Enabled \subseteq {rules[r] : r \in RuleIds}
  BY DEF Enabled
<1> QED
  BY <1>1, <1>2, <1>3, <1>4, FS_Subset

(* An alert is a row of the table, and stays one with a score or without its rule. *)
LEMMA AlertRows ==
  /\ \A rule \in RuleType, scan \in Scans, result \in Results :
       NewAlert(rule, scan, result) \in AlertType
  /\ \A alert \in AlertType, score \in ScoreType : [alert EXCEPT !.score = score] \in AlertType
  /\ \A alert \in AlertType : [alert EXCEPT !.rule = None] \in AlertType
<1>1. ASSUME NEW rule \in RuleType, NEW scan \in Scans, NEW result \in Results
      PROVE  NewAlert(rule, scan, result) \in AlertType
  BY DEF NewAlert, AlertType, RuleType, RowsWithId
<1>2. ASSUME NEW alert \in AlertType, NEW score \in ScoreType
      PROVE  [alert EXCEPT !.score = score] \in AlertType
  BY DEF AlertType
<1>3. ASSUME NEW alert \in AlertType
      PROVE  [alert EXCEPT !.rule = None] \in AlertType
  BY DEF AlertType
<1> QED
  BY <1>1, <1>2, <1>3

(* What is pending is a function of some alerts. *)
LEMMA PendingRows ==
  ASSUME TypeOK
  PROVE  /\ InUse \subseteq AlertIds /\ session.pending \in [InUse -> AlertType]
         /\ <<>> \in UNION {[D -> AlertType] : D \in SUBSET AlertIds} /\ DOMAIN <<>> = {}
<1>1. PICK D \in SUBSET AlertIds : session.pending \in [D -> AlertType]
  BY DEF TypeOK, SessionType
<1>2. <<>> \in [{} -> AlertType] /\ DOMAIN <<>> = {}
  OBVIOUS
<1> QED
  BY <1>1, <1>2 DEF InUse

(* A commit leaves rows in the table. *)
LEMMA CommittedRows ==
  ASSUME TypeOK
  PROVE  Committed \in [AlertIds -> AlertType \union {None}]
  BY PendingRows DEF Committed, TypeOK

(* The initial state satisfies the invariant. *)
LEMMA InitInv == Init => IInv
<1> SUFFICES ASSUME Init PROVE IInv
  OBVIOUS
<1>1. Idle.pending = <<>> /\ DOMAIN <<>> = {}
  BY DEF Idle
<1>2. TypeOK
  <2>1. <<>> \in UNION {[D -> AlertType] : D \in SUBSET AlertIds}
    OBVIOUS
  <2>2. Idle \in SessionType
    BY <2>1 DEF Idle, SessionType, Steps
  <2> QED
    BY <2>2 DEF Init, TypeOK
<1>3. InUse = {} /\ Sent = {}
  BY <1>1 DEF Init, InUse, Sent
<1>4. session.pc = "idle" /\ session.unsent = {} /\ session.made = {}
  BY DEF Init, Idle
<1>5. PendingOK /\ DeletionOK /\ StepOK
  BY <1>3, <1>4 DEF Init, PendingOK, DeletionOK, StepOK
<1>6. RefsOK /\ EventsStored /\ AnnouncedSoFar /\ CompleteSoFar
  BY <1>3, <1>4 DEF Init, RefsOK, EventsStored, AnnouncedSoFar, CompleteSoFar, Stored
<1> QED
  BY <1>2, <1>5, <1>6 DEF IInv

-----------------------------------------------------------------------------
(* The rule endpoints. *)

(* A step that only gives a rule another row keeps the invariant. *)
LEMMA RowKeeps ==
  ASSUME IInv, NEW r \in RuleIds, NEW row \in RuleType, rules' = [rules EXCEPT ![r] = row],
         UNCHANGED <<alerts, events, session, deletion, dropped>>
  PROVE  IInv'
<1>1. TypeOK'
  BY DEF IInv, TypeOK
<1>2. \A x : Exists(x) /\ x \in RuleIds => Exists(x)'
  BY RowAssumption DEF Exists, IInv, TypeOK
<1>3. \A a \in AlertIds : Stored(a) /\ alerts[a].rule # None => alerts[a].rule \in RuleIds
  BY DEF IInv, TypeOK, AlertType, Stored
<1>4. \A a \in InUse : session.pending[a].rule # None => session.pending[a].rule \in RuleIds
  BY PendingRows DEF IInv, AlertType
<1>5. PendingOK'
  BY <1>2, <1>4 DEF IInv, PendingOK, InUse, Stored
<1>6. RefsOK'
  BY <1>2, <1>3 DEF IInv, RefsOK, Stored
<1>7. DeletionOK' /\ StepOK'
  BY DEF IInv, DeletionOK, StepOK, InUse, Scored, Sent, Stored
<1>8. EventsStored' /\ AnnouncedSoFar'
  BY DEF IInv, EventsStored, AnnouncedSoFar, InHand, InUse, Sent, Stored
<1>9. CompleteSoFar'
  BY DEF IInv, CompleteSoFar, Queued, RuleInHand, Reported, InUse, Stored
<1> QED
  BY <1>1, <1>5, <1>6, <1>7, <1>8, <1>9 DEF IInv

(* Rules are created, changed, enabled and disabled. *)
LEMMA EndpointsKeep ==
  ASSUME IInv, NEW r \in RuleIds,
         \/ \E row \in RuleRows : CreateRule(r, row) \/ UpdateRule(r, row)
         \/ \E on \in BOOLEAN : SetEnabled(r, on)
  PROVE  IInv'
<1>1. ASSUME NEW row \in RuleRows, CreateRule(r, row) PROVE IInv'
  <2>1. [row EXCEPT !.id = r] \in RuleType
    BY RowAssumption DEF RuleType, RowsWithId
  <2> QED
    BY <1>1, <2>1, RowKeeps DEF CreateRule
<1>2. ASSUME NEW row \in RuleRows, UpdateRule(r, row) PROVE IInv'
  <2>1. rules[r] \in RuleType
    BY <1>2, ExistsRow DEF UpdateRule, IInv
  <2>2. [row EXCEPT !.id = r, !.type = rules[r].type] \in RuleType
    BY <2>1, RowAssumption DEF RuleType, RowsWithId
  <2> QED
    BY <1>2, <2>2, RowKeeps DEF UpdateRule
<1>3. ASSUME NEW on \in BOOLEAN, SetEnabled(r, on) PROVE IInv'
  <2>1. rules[r] \in RuleType
    BY <1>3, ExistsRow DEF SetEnabled, IInv
  <2>2. [rules[r] EXCEPT !.enabled = on] \in RuleType
    BY <2>1 DEF RuleType, RowsWithId
  <2>3. rules' = [rules EXCEPT ![r] = [rules[r] EXCEPT !.enabled = on]]
    BY <1>3 DEF SetEnabled
  <2> QED
    BY <1>3, <2>2, <2>3, RowKeeps DEF SetEnabled
<1> QED
  BY <1>1, <1>2, <1>3

(* A deletion that begins owns alerts that are stored. *)
LEMMA BeginDeleteKeeps ==
  ASSUME IInv, NEW r \in RuleIds, BeginDeleteRule(r)
  PROVE  IInv'
<1>1. [rule |-> r, owned |-> Owned(r)] \in DeletionType
  BY DEF DeletionType, Owned
<1>2. TypeOK'
  BY <1>1 DEF IInv, TypeOK, BeginDeleteRule
<1>3. DeletionOK'
  BY DEF DeletionOK, BeginDeleteRule, Owned, Stored
<1>4. PendingOK' /\ RefsOK'
  BY DEF BeginDeleteRule, IInv, PendingOK, InUse, Stored, RefsOK, Exists
<1>5. StepOK'
  BY DEF BeginDeleteRule, IInv, StepOK, InUse, Scored, Sent, Stored
<1>6. EventsStored' /\ AnnouncedSoFar'
  BY DEF BeginDeleteRule, IInv, EventsStored, AnnouncedSoFar, InHand, InUse, Sent, Stored
<1>7. CompleteSoFar'
  BY DEF BeginDeleteRule, IInv, CompleteSoFar, Queued, RuleInHand, Reported, InUse, Stored
<1> QED
  BY <1>2, <1>3, <1>4, <1>5, <1>6, <1>7 DEF IInv

(* What the deletion of a rule does to an alert: nothing, or it goes with the
   rule, or loses it. *)
LEMMA DeletedRows ==
  ASSUME IInv, CommitDeleteRule
  PROVE  /\ deletion.rule \in RuleIds /\ deletion.owned \subseteq AlertIds
         /\ \A a \in deletion.owned : alerts'[a] = None /\ a \in dropped'
         /\ \A a \in AlertIds \ deletion.owned :
              \/ alerts'[a] = alerts[a] /\ (Stored(a) => alerts[a].rule # deletion.rule)
              \/ Stored(a) /\ alerts'[a] = [alerts[a] EXCEPT !.rule = None]
         /\ dropped' = dropped \union deletion.owned
<1>1. deletion \in DeletionType
  BY DEF CommitDeleteRule, IInv, TypeOK
<1> QED
  BY <1>1 DEF CommitDeleteRule, DeletionType, Owned, Stored

(* The deletion commits: what was owned goes, the others lose their rule. *)
LEMMA CommitDeleteKeeps ==
  ASSUME IInv, CommitDeleteRule
  PROVE  IInv'
<1> DEFINE gone == deletion.owned
<1>1. \A a \in AlertIds : Stored(a)' => /\ Stored(a) /\ a \notin gone
                                        /\ alerts'[a] \in AlertType
                                        /\ alerts'[a].score = alerts[a].score
                                        /\ alerts'[a].type = alerts[a].type
                                        /\ alerts'[a].rule \in {alerts[a].rule, None} \ {deletion.rule}
  <2>1. \A a \in AlertIds : Stored(a) => alerts[a] \in AlertType
    BY DEF IInv, TypeOK, Stored
  <2>2. None # deletion.rule
    BY DeletedRows, RowAssumption
  <2>3. ASSUME NEW a \in AlertIds, Stored(a), alerts'[a] = [alerts[a] EXCEPT !.rule = None]
        PROVE  /\ alerts'[a] \in AlertType /\ alerts'[a].score = alerts[a].score
               /\ alerts'[a].type = alerts[a].type /\ alerts'[a].rule = None
    <3>1. alerts[a] \in AlertType
      BY <2>1, <2>3
    <3>2. alerts'[a] \in AlertType
      BY <2>3, <3>1, AlertRows
    <3> QED
      BY <2>3, <3>1, <3>2 DEF AlertType
  <2> QED
    BY <2>1, <2>2, <2>3, DeletedRows DEF Stored
<1>2. \A a \in AlertIds : Stored(a) /\ a \notin gone => Stored(a)'
  <2>1. \A a \in AlertIds : Stored(a) => [alerts[a] EXCEPT !.rule = None] \in AlertType
    BY AlertRows DEF IInv, TypeOK, Stored
  <2> QED
    BY <2>1, DeletedRows, AlertAssumption DEF Stored
<1>3. TypeOK'
  <2>1. alerts' \in [AlertIds -> AlertType \union {None}]
    <3>1. alerts' = [a \in AlertIds |-> alerts'[a]]
      BY DEF CommitDeleteRule
    <3>2. \A a \in AlertIds : alerts'[a] \in AlertType \union {None}
      BY <1>1 DEF Stored
    <3> QED
      BY <3>1, <3>2
  <2>2. dropped' \subseteq AlertIds
    BY DeletedRows DEF IInv, TypeOK
  <2> QED
    BY <2>1, <2>2 DEF IInv, TypeOK, CommitDeleteRule
<1>4. \A x : Exists(x) /\ x # deletion.rule => Exists(x)'
  BY DEF CommitDeleteRule, Exists
<1>5. RefsOK'
  BY <1>1, <1>4, DeletedRows DEF RefsOK, IInv, Stored, TypeOK
<1>6. InUse' = InUse /\ session' = session /\ events' = events
  BY DEF CommitDeleteRule, InUse
<1>7. PendingOK'
  <2> SUFFICES ASSUME NEW a \in InUse
               PROVE  /\ ~Stored(a)' /\ a \notin dropped'
                      /\ session.pending[a].rule # None
                      /\ rules'[session.pending[a].rule] \notin {None, Deleted}
    BY <1>6 DEF PendingOK, Stored, Exists
  <2>1. a \in AlertIds /\ ~Stored(a) /\ a \notin dropped
    BY PendingRows DEF IInv, PendingOK
  <2>2. a \notin gone
    BY <2>1 DEF IInv, DeletionOK, CommitDeleteRule
  <2>3. session.pending[a].rule # deletion.rule
    BY DEF CommitDeleteRule, InUse
  <2>4. session.pending[a].rule # None /\ Exists(session.pending[a].rule)
    BY DEF IInv, PendingOK
  <2>5. rules'[session.pending[a].rule] \notin {None, Deleted}
    BY <2>3, <2>4 DEF CommitDeleteRule, Exists
  <2> QED
    BY <1>1, <2>1, <2>2, <2>4, <2>5, DeletedRows
<1>8. \A a \in AlertIds : Scored(a) => Scored(a)'
  BY <1>1, <1>2, DeletedRows DEF Scored
<1>9. DeletionOK'
  BY DEF CommitDeleteRule, DeletionOK
<1>10. StepOK'
  <2>1. session.unsent \subseteq AlertIds
    BY DEF IInv, TypeOK, SessionType
  <2>2. \A a \in session.unsent : Scored(a)'
    BY <1>8, <2>1 DEF IInv, StepOK
  <2> QED
    BY <1>6, <1>8, <2>2 DEF IInv, StepOK, Sent
<1>11. EventsStored'
  <2>1. \A i \in DOMAIN events : events[i] \in AlertIds
    BY DEF IInv, TypeOK
  <2>2. \A i \in DOMAIN events : Scored(events[i])
    BY DEF IInv, EventsStored, Scored
  <2>3. \A i \in DOMAIN events : events[i] \in dropped' \/ (alerts'[events[i]] # None /\ alerts'[events[i]].score # None)
    BY <1>8, <2>1, <2>2 DEF Scored, Stored
  <2>4. \A i, j \in DOMAIN events : i # j => events[i] # events[j]
    BY DEF IInv, EventsStored
  <2> QED
    BY <1>6, <2>3, <2>4 DEF EventsStored, Stored
<1>12. AnnouncedSoFar'
  <2>1. session.made \subseteq AlertIds
    BY DEF IInv, TypeOK, SessionType
  <2> QED
    BY <1>1, <1>6, <2>1 DEF IInv, AnnouncedSoFar, InHand, Sent
<1>13. CompleteSoFar'
  <2>1. session.made \subseteq AlertIds
    BY DEF IInv, TypeOK, SessionType
  <2>2. ASSUME NEW rule, Reported(rule) PROVE Reported(rule)'
    BY <1>1, <1>2, <1>6, <2>1, <2>2, DeletedRows DEF Reported, Stored
  <2>3. \A rule : (Queued(rule) => Queued(rule)') /\ (RuleInHand(rule) => RuleInHand(rule)')
    BY <1>6 DEF Queued, RuleInHand
  <2>4. session'.pc # "idle" => \A rule \in session'.loaded : Certain(rule, session'.scan) =>
          Queued(rule) \/ RuleInHand(rule) \/ Reported(rule)
    BY <1>6 DEF IInv, CompleteSoFar
  <2> QED
    BY <2>2, <2>3, <2>4 DEF CompleteSoFar
<1> QED
  BY <1>3, <1>5, <1>7, <1>9, <1>10, <1>11, <1>12, <1>13 DEF IInv

-----------------------------------------------------------------------------
(* The scan. *)

(* A step that moves the session alone leaves the tables' invariants. *)
LEMMA TablesKept ==
  ASSUME IInv, session' \in SessionType, UNCHANGED <<rules, alerts, events, deletion, dropped>>
  PROVE  TypeOK' /\ RefsOK' /\ DeletionOK' /\ EventsStored'
  BY DEF IInv, TypeOK, RefsOK, DeletionOK, EventsStored, Stored, Exists

(* A scan starts with every rule that it loads in its queue. *)
LEMMA StartKeeps ==
  ASSUME IInv, NEW scan \in Scans, NEW types, StartScan(scan, types)
  PROVE  IInv'
<1>1. PICK queue \in ByPriority(Loaded(types)) :
        session' = [Idle EXCEPT !.pc = "rules", !.scan = scan, !.queue = queue, !.loaded = Loaded(types)]
  BY DEF StartScan
<1>2. /\ queue \in Seq(Loaded(types)) /\ Loaded(types) \subseteq RuleType
      /\ \A rule \in Loaded(types) : \E i \in DOMAIN queue : queue[i] = rule
  BY LoadedRows, OrderHasAll DEF IInv
<1>3. queue \in Seq(RuleType)
  BY <1>2
<1>4. /\ session'.pc = "rules" /\ session'.scan = scan /\ session'.queue = queue
      /\ session'.loaded = Loaded(types) /\ session'.pending = <<>>
      /\ session'.unsent = {} /\ session'.made = {}
  BY <1>1 DEF Idle
<1>5. session' \in SessionType
  BY <1>1, <1>2, <1>3, PendingRows DEF Idle, SessionType, Steps, IInv
<1>6. /\ UNCHANGED <<rules, alerts, events, deletion, dropped>>
  BY DEF StartScan
<1>7. TypeOK' /\ RefsOK' /\ DeletionOK' /\ EventsStored'
  BY <1>5, <1>6, TablesKept
<1>8. InUse' = {}
  BY <1>4, PendingRows DEF InUse, IInv
<1>9. PendingOK' /\ StepOK' /\ AnnouncedSoFar'
  BY <1>4, <1>8 DEF PendingOK, StepOK, AnnouncedSoFar
<1>10. CompleteSoFar'
  BY <1>2, <1>4 DEF CompleteSoFar, Queued
<1> QED
  BY <1>7, <1>9, <1>10 DEF IInv

(* A session that is closed, or that a failed flush ends, holds nothing. *)
LEMMA CloseKeeps ==
  ASSUME IInv, CloseSession \/ FlushFails
  PROVE  IInv'
<1>1. session' = Idle /\ UNCHANGED <<rules, alerts, events, deletion, dropped>>
  BY DEF CloseSession, FlushFails
<1>2. /\ session'.pc = "idle" /\ session'.pending = <<>>
      /\ session'.unsent = {} /\ session'.made = {}
  BY <1>1 DEF Idle
<1>3. session' \in SessionType
  BY <1>1, PendingRows DEF Idle, SessionType, Steps, IInv
<1>4. TypeOK' /\ RefsOK' /\ DeletionOK' /\ EventsStored'
  BY <1>1, <1>3, TablesKept
<1>5. InUse' = {}
  BY <1>2, PendingRows DEF InUse, IInv
<1>6. PendingOK' /\ StepOK' /\ AnnouncedSoFar' /\ CompleteSoFar'
  BY <1>2, <1>5 DEF PendingOK, StepOK, AnnouncedSoFar, CompleteSoFar
<1> QED
  BY <1>4, <1>6 DEF IInv

(* What a queue still holds when its first rule is taken. *)
LEMMA QueueMoves ==
  ASSUME NEW S, NEW queue \in Seq(S), queue # <<>>
  PROVE  /\ Head(queue) \in S /\ Tail(queue) \in Seq(S)
         /\ \A i \in DOMAIN queue :
              queue[i] = Head(queue) \/ \E j \in DOMAIN Tail(queue) : Tail(queue)[j] = queue[i]
<1>1. Head(queue) \in S /\ Tail(queue) \in Seq(S) /\ Head(queue) = queue[1]
  OBVIOUS
<1>2. ASSUME NEW i \in DOMAIN queue, i # 1
      PROVE  i - 1 \in DOMAIN Tail(queue) /\ Tail(queue)[i - 1] = queue[i]
  BY <1>2
<1> QED
  BY <1>1, <1>2

(* The next rule does not apply, has nothing to report, or reports. *)
LEMMA NextRuleSteps ==
  ASSUME IInv, NextRule
  PROVE  LET rule == Head(session.queue)
             rest == [session EXCEPT !.queue = Tail(@)]
         IN  \/ session' = rest /\ ~Certain(rule, session.scan)
             \/ \E result \in Results :
                  session' = [rest EXCEPT !.pc = "flush", !.rule = rule, !.result = result]
<1> DEFINE rule == Head(session.queue)
           rest == [session EXCEPT !.queue = Tail(@)]
<1>1. rule \in RuleType /\ session.scan \in Scans
  BY QueueMoves DEF IInv, TypeOK, SessionType, StepOK, NextRule
<1>2. \A result \in Judgements(rule, session.scan) : result \in Results
  BY <1>1 DEF Results
<1>3. CASE ~Applies(rule, session.scan.ann) /\ session' = rest
  BY <1>3 DEF Certain
<1>4. ASSUME NEW result \in Judgements(rule, session.scan),
             session' = IF result.detected
                        THEN [rest EXCEPT !.pc = "flush", !.rule = rule, !.result = result]
                        ELSE rest
      PROVE  \/ session' = rest /\ ~Certain(rule, session.scan)
             \/ \E r \in Results : session' = [rest EXCEPT !.pc = "flush", !.rule = rule, !.result = r]
  BY <1>2, <1>4 DEF Certain
<1>5. \/ ~Applies(rule, session.scan.ann) /\ session' = rest
      \/ \E result \in Judgements(rule, session.scan) :
           session' = IF result.detected
                      THEN [rest EXCEPT !.pc = "flush", !.rule = rule, !.result = result]
                      ELSE rest
  BY DEF NextRule
<1> QED
  BY <1>3, <1>4, <1>5

(* The loop takes a rule off its queue, and owes it nothing or has it in hand. *)
LEMMA NextRuleKeeps ==
  ASSUME IInv, NextRule
  PROVE  IInv'
<1> DEFINE rule == Head(session.queue)
<1>1. /\ session.pc = "rules" /\ session.queue # <<>> /\ session.queue \in Seq(RuleType)
      /\ UNCHANGED <<rules, alerts, events, deletion, dropped>>
  BY DEF NextRule, IInv, TypeOK, SessionType
<1>2. /\ rule \in RuleType /\ Tail(session.queue) \in Seq(RuleType)
      /\ \A i \in DOMAIN session.queue :
           session.queue[i] = rule \/ \E j \in DOMAIN Tail(session.queue) : Tail(session.queue)[j] = session.queue[i]
  BY <1>1, QueueMoves
<1> HIDE DEF rule
<1>3. \/ session' = [session EXCEPT !.queue = Tail(@)] /\ ~Certain(rule, session.scan)
      \/ \E result \in Results :
           session' = [session EXCEPT !.queue = Tail(@), !.pc = "flush", !.rule = rule, !.result = result]
  BY NextRuleSteps DEF rule
<1> DEFINE
      Moved == /\ session'.scan = session.scan /\ session'.loaded = session.loaded
               /\ session'.made = session.made /\ session'.pending = session.pending
               /\ session'.unsent = session.unsent /\ session'.queue = Tail(session.queue)
               /\ session'.pc \in {"rules", "flush"}
      Found == session'.rule = rule /\ session'.result \in Results
<1>4. session \in SessionType
  BY DEF IInv, TypeOK
<1>5. ASSUME session' = [session EXCEPT !.queue = Tail(@)], ~Certain(rule, session.scan)
      PROVE  session' \in SessionType /\ Moved /\ session'.pc # "flush" /\ ~Certain(rule, session.scan)
  BY <1>4, <1>1, <1>2, <1>5 DEF SessionType
<1>6. ASSUME NEW result \in Results,
             session' = [session EXCEPT !.queue = Tail(@), !.pc = "flush", !.rule = rule, !.result = result]
      PROVE  session' \in SessionType /\ Moved /\ session'.pc = "flush" /\ Found
  BY <1>4, <1>1, <1>2, <1>6 DEF SessionType, Steps
<1>8. session' \in SessionType
  BY <1>3, <1>5, <1>6
<1>9. /\ Moved /\ (session'.pc = "flush" => Found)
      /\ ~Certain(rule, session.scan) \/ session'.pc = "flush"
  BY <1>3, <1>5, <1>6
<1>10. TypeOK' /\ RefsOK' /\ DeletionOK' /\ EventsStored'
  BY <1>1, <1>8, TablesKept
<1>11. PendingOK'
  BY <1>1, <1>9 DEF IInv, PendingOK, InUse, Stored, Exists
<1>12. StepOK'
  BY <1>1, <1>2, <1>9 DEF IInv, StepOK, InUse, Scored, Stored
<1>13. AnnouncedSoFar'
  BY <1>1, <1>9 DEF IInv, AnnouncedSoFar, InHand, InUse, Sent, Stored
<1>14. CompleteSoFar'
  <2> SUFFICES ASSUME NEW r \in session.loaded, Certain(r, session.scan)
               PROVE  Queued(r)' \/ RuleInHand(r)' \/ Reported(r)'
    BY <1>9 DEF CompleteSoFar
  <2>1. Queued(r) \/ Reported(r)
    BY <1>1 DEF IInv, CompleteSoFar, RuleInHand
  <2>2. Queued(r) => r = rule \/ Queued(r)'
    BY <1>2, <1>9 DEF Queued
  <2>3. Reported(r) => Reported(r)'
    BY <1>1, <1>9 DEF Reported, Stored, InUse
  <2>4. r = rule => RuleInHand(r)'
    BY <1>9 DEF RuleInHand
  <2> QED
    BY <2>1, <2>2, <2>3, <2>4
<1> QED
  BY <1>10, <1>11, <1>12, <1>13, <1>14 DEF IInv

(* A flush puts a new alert in hand. *)
LEMMA FlushKeeps ==
  ASSUME IInv, FlushAlert
  PROVE  IInv'
<1>1. /\ session.pc = "flush" /\ session.rule \in RuleType /\ session.result \in Results /\ session.scan \in Scans
      /\ session \in SessionType /\ Exists(session.rule.id)
      /\ UNCHANGED <<rules, alerts, events, deletion, dropped>>
  BY DEF FlushAlert, IInv, StepOK, TypeOK
<1>2. PICK a \in Fresh :
             session' = [session EXCEPT
               !.pc = "score", !.alert = a, !.made = @ \union {a},
               !.pending = [x \in InUse \union {a} |->
                  IF x = a THEN NewAlert(session.rule, session.scan, session.result) ELSE @[x]]]
  BY DEF FlushAlert
<1> DEFINE new == NewAlert(session.rule, session.scan, session.result)
           pending == [x \in InUse \union {a} |-> IF x = a THEN new ELSE session.pending[x]]
<1>3. a \in AlertIds /\ ~Stored(a) /\ a \notin dropped /\ a \notin InUse
  BY DEF Fresh, Stored
<1>4. new \in AlertType
  BY <1>1, AlertRows
<1>5. new.rule = session.rule.id /\ new.type = session.rule.type /\ new.score = None /\ session.rule.id \in RuleIds
  BY <1>1 DEF NewAlert, RuleType, RowsWithId
<1> HIDE DEF new
<1>6. pending \in UNION {[D -> AlertType] : D \in SUBSET AlertIds}
  <2>1. InUse \union {a} \in SUBSET AlertIds
    BY <1>3, PendingRows DEF IInv
  <2>2. pending \in [InUse \union {a} -> AlertType]
    BY <1>4, PendingRows DEF IInv
  <2> QED
    BY <2>1, <2>2
<1>7. session' = [session EXCEPT !.pc = "score", !.alert = a, !.made = @ \union {a}, !.pending = pending]
  BY <1>1, <1>2 DEF new, SessionType
<1>8. DOMAIN pending = InUse \union {a} /\ pending[a] = new /\ \A x \in InUse : pending[x] = session.pending[x]
  BY <1>3
<1> HIDE DEF pending
<1>9. session' \in SessionType
  BY <1>1, <1>3, <1>6, <1>7 DEF SessionType, Steps
<1>10. /\ session'.scan = session.scan /\ session'.loaded = session.loaded
      /\ session'.made = session.made \union {a} /\ session'.rule = session.rule
      /\ session'.pending = pending /\ session'.alert = a /\ session'.unsent = session.unsent
      /\ session'.queue = session.queue /\ session'.pc = "score"
  BY <1>1, <1>7 DEF SessionType
<1>11. InUse' = InUse \union {a}
  BY <1>8, <1>10 DEF InUse
<1>12. TypeOK' /\ RefsOK' /\ DeletionOK' /\ EventsStored'
  BY <1>1, <1>9, TablesKept
<1>13. PendingOK'
  <2> SUFFICES ASSUME NEW x \in InUse \union {a}
               PROVE  /\ alerts[x] = None /\ x \notin dropped
                      /\ pending[x].rule # None /\ rules[pending[x].rule] \notin {None, Deleted}
    BY <1>1, <1>10, <1>11 DEF PendingOK, Stored, Exists
  <2>1. CASE x = a
    BY <1>1, <1>3, <1>5, <1>8, <2>1, RowAssumption DEF Exists, Stored
  <2>2. CASE x \in InUse
    BY <1>8, <2>2 DEF IInv, PendingOK, Exists, Stored
  <2> QED
    BY <2>1, <2>2
<1>14. StepOK'
  BY <1>1, <1>5, <1>8, <1>10, <1>11 DEF IInv, StepOK, Scored, Stored
<1>15. AnnouncedSoFar'
  BY <1>1, <1>3, <1>5, <1>8, <1>10, <1>11 DEF IInv, AnnouncedSoFar, InHand, Sent, Stored
<1>16. CompleteSoFar'
  <2> SUFFICES ASSUME NEW r \in session.loaded, Certain(r, session.scan)
               PROVE  Queued(r)' \/ RuleInHand(r)' \/ Reported(r)'
    BY <1>10 DEF CompleteSoFar
  <2>1. Queued(r) \/ r = session.rule \/ Reported(r)
    BY <1>1 DEF IInv, CompleteSoFar, RuleInHand
  <2>2. (Queued(r) => Queued(r)') /\ (r = session.rule => RuleInHand(r)')
    BY <1>10 DEF Queued, RuleInHand
  <2>3. Reported(r) => Reported(r)'
    BY <1>1, <1>8, <1>10, <1>11 DEF Reported, Stored
  <2> QED
    BY <2>1, <2>2, <2>3
<1> QED
  BY <1>12, <1>13, <1>14, <1>15, <1>16 DEF IInv

(* The alert in hand gets its score, or stays without one. *)
LEMMA ScoreKeeps ==
  ASSUME IInv, ScoreAlert
  PROVE  IInv'
<1>1. /\ session.pc = "score" /\ session.rule \in RuleType /\ session \in SessionType
      /\ session.scan \in Scans /\ session.alert \in InUse \intersect session.made
      /\ session.pending[session.alert].rule = session.rule.id
      /\ session.pending[session.alert].type = session.rule.type
      /\ UNCHANGED <<rules, alerts, events, deletion, dropped>>
  BY DEF ScoreAlert, IInv, StepOK, TypeOK
<1>2. ASSUME Unscorable(session.scan.asset),
             session' = [session EXCEPT !.pc = "rules"]
      PROVE  IInv'
  <2>1. session' \in SessionType
    BY <1>1, <1>2 DEF SessionType, Steps
  <2>2. /\ session'.scan = session.scan /\ session'.loaded = session.loaded /\ session'.made = session.made
        /\ session'.pending = session.pending /\ session'.unsent = session.unsent
        /\ session'.queue = session.queue /\ session'.pc = "rules"
    BY <1>1, <1>2 DEF SessionType
  <2>3. TypeOK' /\ RefsOK' /\ DeletionOK' /\ EventsStored'
    BY <1>1, <2>1, TablesKept
  <2>4. PendingOK' /\ StepOK'
    BY <1>1, <2>2 DEF IInv, PendingOK, InUse, Stored, Exists, StepOK, Scored
  <2>5. AnnouncedSoFar'
    BY <1>1, <2>2 DEF IInv, AnnouncedSoFar, InHand, InUse, Sent, Stored
  <2>6. CompleteSoFar'
    <3> SUFFICES ASSUME NEW r \in session.loaded, Certain(r, session.scan)
                 PROVE  Queued(r)' \/ Reported(r)'
      BY <2>2 DEF CompleteSoFar
    <3>1. Queued(r) \/ r = session.rule \/ Reported(r)
      BY <1>1 DEF IInv, CompleteSoFar, RuleInHand
    <3>2. Queued(r) => Queued(r)'
      BY <2>2 DEF Queued
    <3>3. Reported(r) \/ r = session.rule => Reported(r)'
      BY <1>1, <2>2 DEF Reported, Stored, InUse
    <3> QED
      BY <3>1, <3>2, <3>3
  <2> QED
    BY <2>3, <2>4, <2>5, <2>6 DEF IInv
<1>3. ASSUME NEW score \in ScoreType,
             session' = [session EXCEPT !.pc = "commit", !.pending[session.alert].score = score]
      PROVE  IInv'
  <2> DEFINE a == session.alert
             pending == [session.pending EXCEPT ![a] = [@ EXCEPT !.score = score]]
  <2>1. session.pending[a] \in AlertType /\ [session.pending[a] EXCEPT !.score = score] \in AlertType
    BY <1>1, PendingRows, AlertRows DEF IInv
  <2>2. pending \in [InUse -> AlertType]
    BY <1>1, <2>1, PendingRows DEF IInv
  <2>3. pending \in UNION {[D -> AlertType] : D \in SUBSET AlertIds}
    BY <2>2, PendingRows DEF IInv
  <2>4. \A x \in InUse : /\ pending[x].rule = session.pending[x].rule /\ pending[x].type = session.pending[x].type
                         /\ x # a => pending[x] = session.pending[x]
    BY <2>1, PendingRows DEF IInv, AlertType
  <2>5. pending[a].score = score /\ score # None
    BY <1>1, <2>1, PendingRows, RowAssumption DEF IInv, AlertType
  <2>6. session' = [session EXCEPT !.pc = "commit", !.pending = pending]
    BY <1>1, <1>3 DEF SessionType
  <2> HIDE DEF pending
  <2>7. session' \in SessionType
    BY <1>1, <2>3, <2>6 DEF SessionType, Steps
  <2>8. /\ session'.scan = session.scan /\ session'.loaded = session.loaded
        /\ session'.made = session.made /\ session'.rule = session.rule
        /\ session'.pending = pending /\ session'.alert = a /\ session'.unsent = session.unsent
        /\ session'.queue = session.queue /\ session'.pc = "commit"
    BY <1>1, <2>6 DEF SessionType
  <2>9. InUse' = InUse
    BY <2>2, <2>8 DEF InUse
  <2>10. TypeOK' /\ RefsOK' /\ DeletionOK' /\ EventsStored'
    BY <1>1, <2>7, TablesKept
  <2>11. PendingOK'
    BY <1>1, <2>4, <2>8, <2>9 DEF IInv, PendingOK, Stored, Exists
  <2>12. StepOK'
    BY <1>1, <2>4, <2>5, <2>8, <2>9 DEF IInv, StepOK, Scored, Stored
  <2>13. AnnouncedSoFar'
    BY <1>1, <2>4, <2>8, <2>9 DEF IInv, AnnouncedSoFar, InHand, Sent, Stored
  <2>14. CompleteSoFar'
    <3> SUFFICES ASSUME NEW r \in session.loaded, Certain(r, session.scan)
                 PROVE  Queued(r)' \/ RuleInHand(r)' \/ Reported(r)'
      BY <2>8 DEF CompleteSoFar
    <3>1. Queued(r) \/ r = session.rule \/ Reported(r)
      BY <1>1 DEF IInv, CompleteSoFar, RuleInHand
    <3>2. (Queued(r) => Queued(r)') /\ (r = session.rule => RuleInHand(r)')
      BY <2>8 DEF Queued, RuleInHand
    <3>3. Reported(r) => Reported(r)'
      BY <1>1, <2>4, <2>8, <2>9 DEF Reported, Stored
    <3> QED
      BY <3>1, <3>2, <3>3
  <2> QED
    BY <2>10, <2>11, <2>12, <2>13, <2>14 DEF IInv
<1> QED
  BY <1>2, <1>3, ScoreBounded DEF ScoreAlert

(* A commit keeps what is stored and stores what is pending. *)
LEMMA CommitFacts ==
  ASSUME IInv, alerts' = Committed
  PROVE  \A a \in AlertIds :
           /\ a \in InUse => alerts'[a] = session.pending[a] /\ alerts'[a] # None /\ ~Stored(a) /\ a \notin dropped
           /\ a \notin InUse => alerts'[a] = alerts[a]
  BY PendingRows, AlertAssumption DEF IInv, PendingOK, Committed

(* So it keeps what holds of the tables, if the session's alerts are let go. *)
LEMMA CommitTables ==
  ASSUME IInv, alerts' = Committed, session' \in SessionType, session'.pending = <<>>,
         UNCHANGED <<rules, events, deletion, dropped>>
  PROVE  TypeOK' /\ PendingOK' /\ RefsOK' /\ DeletionOK' /\ EventsStored' /\ InUse' = {}
<1>1. InUse' = {}
  BY PendingRows DEF InUse, IInv
<1>2. TypeOK' /\ PendingOK'
  BY <1>1, CommittedRows DEF IInv, TypeOK, PendingOK
<1>3. RefsOK'
  <2>1. \A a \in InUse : Exists(session.pending[a].rule)
    BY DEF IInv, PendingOK
  <2> QED
    BY <2>1, CommitFacts DEF IInv, RefsOK, TypeOK, Stored, Exists
<1>4. DeletionOK'
  <2>1. deletion # None => deletion.owned \subseteq AlertIds
    BY DEF IInv, TypeOK, DeletionType
  <2> QED
    BY <2>1, CommitFacts DEF IInv, DeletionOK, Stored
<1>5. EventsStored'
  <2>1. \A i \in DOMAIN events : events[i] \in AlertIds
    BY DEF IInv, TypeOK
  <2> QED
    BY <2>1, CommitFacts DEF IInv, EventsStored, Stored
<1> QED
  BY <1>1, <1>2, <1>3, <1>4, <1>5

(* What is pending has not been announced. *)
LEMMA PendingUnsent ==
  ASSUME IInv, NEW a \in InUse
  PROVE  a \notin Sent
  BY DEF IInv, PendingOK, EventsStored, Sent

(* What has been reported stays reported when the pending alerts are stored. *)
LEMMA ReportedKept ==
  ASSUME IInv, alerts' = Committed, UNCHANGED dropped, session'.made = session.made,
         NEW rule, Reported(rule)
  PROVE  Reported(rule)'
<1>1. session.made \subseteq AlertIds
  BY DEF IInv, TypeOK, SessionType
<1> QED
  BY <1>1, CommitFacts DEF Reported, Stored

(* The alert in hand is committed with its score, others without. *)
LEMMA CommitKeeps ==
  ASSUME IInv, CommitAlert
  PROVE  IInv'
<1>1. /\ session.pc = "commit" /\ session.rule \in RuleType /\ session \in SessionType
      /\ session.scan \in Scans /\ session.alert \in InUse \intersect session.made
      /\ session.pending[session.alert].rule = session.rule.id
      /\ session.pending[session.alert].type = session.rule.type
      /\ session.pending[session.alert].score # None
      /\ alerts' = Committed
      /\ UNCHANGED <<rules, events, deletion, dropped>>
  BY DEF CommitAlert, IInv, StepOK, TypeOK
<1>2. session' = [session EXCEPT !.pc = "send", !.pending = <<>>]
  BY DEF CommitAlert
<1>3. session' \in SessionType
  BY <1>1, <1>2, PendingRows DEF IInv, SessionType, Steps
<1>4. /\ session'.scan = session.scan /\ session'.loaded = session.loaded
      /\ session'.made = session.made /\ session'.rule = session.rule /\ session'.result = session.result
      /\ session'.pending = <<>> /\ session'.alert = session.alert /\ session'.unsent = session.unsent
      /\ session'.queue = session.queue /\ session'.pc = "send"
  BY <1>1, <1>2 DEF SessionType
<1>5. TypeOK' /\ PendingOK' /\ RefsOK' /\ DeletionOK' /\ EventsStored' /\ InUse' = {}
  BY <1>1, <1>3, <1>4, CommitTables
<1>6. InUse \subseteq AlertIds /\ session.made \subseteq AlertIds /\ session.unsent \subseteq AlertIds
  BY PendingRows DEF IInv, TypeOK, SessionType
<1>7. StepOK'
  <2>1. \A a \in session.unsent : Scored(a)' /\ a \notin InUse
    BY <1>1, <1>6, CommitFacts DEF IInv, StepOK, Scored, Stored
  <2>2. Scored(session.alert)' /\ session.alert \in AlertIds /\ session.alert \notin Sent \union session.unsent
    <3>1. session.alert \in InUse /\ session.alert \in AlertIds
      BY <1>1, <1>6
    <3>2. session.alert \notin Sent
      BY <3>1, PendingUnsent
    <3>3. alerts'[session.alert] = session.pending[session.alert] /\ alerts'[session.alert] # None
      BY <1>1, <3>1, CommitFacts
    <3>4. session.alert \notin session.unsent
      BY <2>1, <3>1
    <3>5. Scored(session.alert)'
      BY <1>1, <1>4, <3>3 DEF Scored, Stored
    <3> QED
      BY <3>1, <3>2, <3>4, <3>5
  <2> QED
    BY <1>1, <1>4, <1>5, <2>1, <2>2 DEF StepOK, Sent
<1>8. AnnouncedSoFar'
  BY <1>1, <1>4, <1>5, <1>6, CommitFacts, PendingUnsent DEF IInv, AnnouncedSoFar, InHand, Stored, Sent
<1>9. CompleteSoFar'
  <2> SUFFICES ASSUME NEW r \in session.loaded, Certain(r, session.scan)
               PROVE  Queued(r)' \/ Reported(r)'
    BY <1>4 DEF CompleteSoFar
  <2>1. Queued(r) \/ r = session.rule \/ Reported(r)
    BY <1>1 DEF IInv, CompleteSoFar, RuleInHand
  <2>2. Queued(r) => Queued(r)'
    BY <1>4 DEF Queued
  <2>3. r = session.rule => Reported(r)'
    BY <1>1, <1>4, <1>6, CommitFacts DEF Reported, Stored
  <2>4. Reported(r) => Reported(r)'
    BY <1>1, <1>4, ReportedKept
  <2> QED
    BY <2>1, <2>2, <2>3, <2>4
<1> QED
  BY <1>5, <1>7, <1>8, <1>9 DEF IInv

(* The event goes out for an alert that no event has named, or is not taken. *)
LEMMA SendKeeps ==
  ASSUME IInv, SendAlertEvent
  PROVE  IInv'
<1>1. /\ session.pc = "send" /\ session \in SessionType /\ session.alert \in AlertIds /\ session.scan \in Scans
      /\ Scored(session.alert) /\ session.alert \notin Sent \union session.unsent /\ InUse = {}
      /\ events \in Seq(AlertIds)
      /\ UNCHANGED <<rules, alerts, deletion, dropped>>
  BY DEF SendAlertEvent, IInv, StepOK, TypeOK
<1>2. \/ /\ events' = Append(events, session.alert)
         /\ session' = [session EXCEPT !.pc = "rules", !.rule = None, !.alert = None]
      \/ /\ events' = events
         /\ session' = [session EXCEPT !.pc = "rules", !.rule = None, !.alert = None,
                                       !.unsent = @ \union {session.alert}]
  BY DEF SendAlertEvent
<1>3. session' \in SessionType
  <2>1. CASE session' = [session EXCEPT !.pc = "rules", !.rule = None, !.alert = None]
    BY <1>1, <2>1 DEF SessionType, Steps
  <2>2. CASE session' = [session EXCEPT !.pc = "rules", !.rule = None, !.alert = None,
                                        !.unsent = @ \union {session.alert}]
    <3>1. session.unsent \union {session.alert} \in SUBSET AlertIds
      BY <1>1 DEF SessionType
    <3> QED
      BY <1>1, <2>2, <3>1 DEF SessionType, Steps
  <2> QED
    BY <1>2, <2>1, <2>2
<1>4. /\ session'.scan = session.scan /\ session'.loaded = session.loaded /\ session'.made = session.made
      /\ session'.pending = session.pending /\ session'.queue = session.queue /\ session'.pc = "rules"
  BY <1>1, <1>2 DEF SessionType
<1>5. \/ /\ events' = Append(events, session.alert) /\ session'.unsent = session.unsent
         /\ Sent' = Sent \union {session.alert}
      \/ /\ events' = events /\ session'.unsent = session.unsent \union {session.alert}
         /\ Sent' = Sent
  <2>1. CASE events' = events /\ session'.unsent = session.unsent \union {session.alert}
    BY <2>1 DEF Sent
  <2>2. CASE events' = Append(events, session.alert) /\ session'.unsent = session.unsent
    <3>1. /\ DOMAIN events' = DOMAIN events \union {Len(events) + 1}
          /\ events'[Len(events) + 1] = session.alert /\ \A i \in DOMAIN events : events'[i] = events[i]
      BY <1>1, <2>2
    <3>2. Sent' = Sent \union {session.alert}
      BY <3>1 DEF Sent
    <3> QED
      BY <2>2, <3>2
  <2> QED
    BY <1>1, <1>2, <2>1, <2>2 DEF SessionType
<1>6. events' \in Seq(AlertIds)
  BY <1>1, <1>5
<1>7. TypeOK'
  BY <1>1, <1>3, <1>6 DEF IInv, TypeOK
<1>8. InUse' = {}
  BY <1>1, <1>4 DEF InUse
<1>9. PendingOK' /\ StepOK' /\ RefsOK' /\ DeletionOK'
  BY <1>1, <1>4, <1>5, <1>8
     DEF IInv, PendingOK, StepOK, RefsOK, DeletionOK, Scored, Stored, Exists
<1>10. EventsStored'
  <2>1. CASE events' = events
    BY <1>1, <2>1 DEF IInv, EventsStored, Stored
  <2>2. CASE events' = Append(events, session.alert)
    <3>1. /\ DOMAIN events' = DOMAIN events \union {Len(events) + 1} /\ Len(events) + 1 \notin DOMAIN events
          /\ events'[Len(events) + 1] = session.alert /\ \A i \in DOMAIN events : events'[i] = events[i]
      BY <1>1, <2>2
    <3> QED
      BY <1>1, <3>1 DEF IInv, EventsStored, Scored, Stored, Sent
  <2> QED
    BY <1>5, <2>1, <2>2
<1>11. AnnouncedSoFar'
  <2> SUFFICES ASSUME NEW a \in session.made, Stored(a)
               PROVE  a \in Sent' <=> alerts[a].score # None /\ a \notin session'.unsent
    BY <1>1, <1>4, <1>8 DEF AnnouncedSoFar, Stored
  <2>1. CASE a = session.alert
    <3>1. alerts[a].score # None
      BY <1>1, <2>1 DEF IInv, RefsOK, Scored
    <3> QED
      BY <1>1, <1>5, <2>1, <3>1
  <2>2. CASE a # session.alert
    <3>1. a \in Sent <=> alerts[a].score # None /\ a \notin session.unsent
      BY <2>2 DEF IInv, AnnouncedSoFar, InHand
    <3> QED
      BY <1>5, <2>2, <3>1
  <2> QED
    BY <2>1, <2>2
<1>12. CompleteSoFar'
  <2> SUFFICES ASSUME NEW r \in session.loaded, Certain(r, session.scan)
               PROVE  Queued(r)' \/ Reported(r)'
    BY <1>4 DEF CompleteSoFar
  <2>1. Queued(r) \/ Reported(r)
    BY <1>1 DEF IInv, CompleteSoFar, RuleInHand
  <2>2. (Queued(r) => Queued(r)') /\ (Reported(r) => Reported(r)')
    BY <1>1, <1>4, <1>8 DEF Queued, Reported, Stored
  <2> QED
    BY <2>1, <2>2
<1> QED
  BY <1>7, <1>9, <1>10, <1>11, <1>12 DEF IInv

(* The end of the request commits what is pending, none of which has a score. *)
LEMMA FinishKeeps ==
  ASSUME IInv, FinishScan
  PROVE  IInv'
<1>1. /\ session.pc = "rules" /\ session \in SessionType /\ session.scan \in Scans /\ session.queue = <<>>
      /\ UNCHANGED <<rules, events, deletion, dropped>>
  BY DEF FinishScan, IInv, StepOK, TypeOK
<1>2. alerts' = Committed
  BY DEF FinishScan
<1>3. session' = [session EXCEPT !.pc = "end", !.pending = <<>>]
  BY DEF FinishScan
<1>4. session' \in SessionType
  BY <1>1, <1>3, PendingRows DEF IInv, SessionType, Steps
<1>5. /\ session'.scan = session.scan /\ session'.loaded = session.loaded /\ session'.made = session.made
      /\ session'.pending = <<>> /\ session'.unsent = session.unsent
      /\ session'.queue = session.queue /\ session'.pc = "end"
  BY <1>1, <1>3 DEF SessionType
<1>6. TypeOK' /\ PendingOK' /\ RefsOK' /\ DeletionOK' /\ EventsStored' /\ InUse' = {}
  BY <1>1, <1>2, <1>4, <1>5, CommitTables
<1>8. session.made \subseteq AlertIds /\ session.unsent \subseteq AlertIds
  BY DEF IInv, TypeOK, SessionType
<1>7. StepOK'
  BY <1>1, <1>2, <1>5, <1>6, <1>8, CommitFacts DEF IInv, StepOK, Scored, Stored
<1>9. AnnouncedSoFar'
  BY <1>1, <1>2, <1>5, <1>6, <1>8, CommitFacts, PendingUnsent DEF IInv, AnnouncedSoFar, InHand, Stored, Sent
<1>10. CompleteSoFar'
  <2> SUFFICES ASSUME NEW r \in session.loaded, Certain(r, session.scan)
               PROVE  Queued(r)' \/ Reported(r)'
    BY <1>5 DEF CompleteSoFar
  <2>1. Queued(r) \/ Reported(r)
    BY <1>1 DEF IInv, CompleteSoFar, RuleInHand
  <2>2. Queued(r) => Queued(r)'
    BY <1>5 DEF Queued
  <2>3. Reported(r) => Reported(r)'
    BY <1>1, <1>2, <1>5, ReportedKept
  <2> QED
    BY <2>1, <2>2, <2>3
<1> QED
  BY <1>6, <1>7, <1>9, <1>10 DEF IInv

-----------------------------------------------------------------------------
(* A step that changes nothing changes no conjunct. *)
LEMMA StutterKeeps ==
  ASSUME IInv, UNCHANGED vars
  PROVE  IInv'
<1>1. session \in SessionType /\ UNCHANGED <<rules, alerts, events, session, deletion, dropped>>
  BY DEF vars, IInv, TypeOK
<1>2. TypeOK' /\ RefsOK' /\ DeletionOK' /\ EventsStored'
  BY <1>1, TablesKept
<1>3. PendingOK' /\ StepOK'
  BY <1>1 DEF IInv, PendingOK, StepOK, InUse, Scored, Sent, Stored, Exists
<1>4. AnnouncedSoFar' /\ CompleteSoFar'
  BY <1>1 DEF IInv, AnnouncedSoFar, InHand, InUse, Sent, Stored, CompleteSoFar, Queued, RuleInHand, Reported
<1> QED
  BY <1>2, <1>3, <1>4 DEF IInv

(* Every step keeps the invariant. *)
LEMMA NextInv == IInv /\ [Next]_vars => IInv'
<1> SUFFICES ASSUME IInv, [Next]_vars PROVE IInv'
  OBVIOUS
<1> QED
  BY StutterKeeps, EndpointsKeep, BeginDeleteKeeps, CommitDeleteKeeps, StartKeeps, NextRuleKeeps,
     FlushKeeps, ScoreKeeps, CommitKeeps, SendKeeps, FinishKeeps, CloseKeeps DEF Next

(* IInv holds in every reachable state: what the session holds between two of
   its statements, and what it still owes to the rules it loaded. *)
THEOREM Inductive == Spec => []IInv
  BY InitInv, NextInv, PTL DEF Spec

(* Kafka hears at most once of an alert, and of none that is not scored and
   committed: evaluate commits before it sends.  Of the alerts of a scan that is
   answered, those without an event could not be scored, or their send raised. *)
THEOREM EventsAlwaysFaithful == Spec => []EventsFaithful
<1>1. IInv => ScanAnnounced
  BY DEF IInv, AnnouncedSoFar, InHand, ScanAnnounced
<1>2. IInv => EventsFaithful
  BY <1>1 DEF IInv, EventsFaithful
<1> QED
  BY <1>2, Inductive, PTL

(* A scan that is answered skipped no rule: each that applies and is certain to
   detect left an alert, unless the alert went away with its rule. *)
THEOREM ScanAlwaysComplete == Spec => []ScanComplete
<1>1. IInv => ScanComplete
  <2> SUFFICES ASSUME IInv, session.pc = "end", NEW rule \in session.loaded,
                      Certain(rule, session.scan)
               PROVE  Reported(rule) /\ InUse = {}
    BY DEF ScanComplete, Reported
  <2>1. DOMAIN session.queue = {} /\ InUse = {}
    BY DEF IInv, StepOK
  <2> QED
    BY <2>1 DEF IInv, CompleteSoFar, Queued, RuleInHand
<1> QED
  BY <1>1, Inductive, PTL

-----------------------------------------------------------------------------
VrpType ==
  [net : [addr : Nat, len : Nat], origin : {v.origin : v \in PossibleVrps},
   max : Nat \union {None}, revoked : BOOLEAN]

(* Revocation keeps the row, and time its age within the classes.          *)
TablesType ==
  /\ vrps \subseteq VrpType /\ IsFiniteSet(vrps)
  /\ \A a \in announcements : DOMAIN a = {"id", "origin", "point", "status", "age"} /\ a.age \in Ages

-----------------------------------------------------------------------------
LEMMA PublishType ==
  ASSUME TablesType, NEW p \in PossibleVrps, PublishVrp(p)
  PROVE  TablesType'
<1>1. p \in VrpType
  BY TablesAssumption DEF VrpType
<1>2. vrps' \subseteq VrpType
  BY <1>1 DEF TablesType, PublishVrp
<1>3. IsFiniteSet(vrps')
  BY FS_AddElement, FS_Subset DEF TablesType, PublishVrp
<1> QED
  BY <1>2, <1>3 DEF TablesType, PublishVrp

LEMMA RevokeType ==
  ASSUME TablesType, NEW v \in vrps, RevokeVrp(v)
  PROVE  TablesType'
<1>1. [v EXCEPT !.revoked = TRUE] \in VrpType
  BY DEF TablesType, VrpType
<1>2. vrps' \subseteq VrpType
  BY <1>1 DEF TablesType, RevokeVrp
<1>3. IsFiniteSet(vrps')
  BY FS_AddElement, FS_Subset DEF TablesType, RevokeVrp
<1> QED
  BY <1>2, <1>3 DEF TablesType, RevokeVrp

(* Types are kept by every step.                                           *)
THEOREM TablesTypeCorrect == TablesSpec => []TablesType
<1>1. TablesInit => TablesType
  BY FS_EmptySet DEF TablesInit, TablesType
<1>2. TablesType /\ [TablesNext]_tableVars => TablesType'
  <2> SUFFICES ASSUME TablesType, [TablesNext]_tableVars PROVE TablesType'
    OBVIOUS
  <2>1. ASSUME NEW o \in Origins, NEW p \in Points, StoreAnnouncement(o, p) PROVE TablesType'
    BY <2>1 DEF StoreAnnouncement, TablesType, Ages, Hour
  <2>2. ASSUME NEW p \in Points, StoreWithdraw(p) PROVE TablesType'
    BY <2>2 DEF StoreWithdraw, TablesType
  <2>3. ASSUME TimePasses PROVE TablesType'
    BY <2>3 DEF TimePasses, TablesType, Older, Ages
  <2>4. CASE UNCHANGED tableVars
    BY <2>4 DEF tableVars, TablesType
  <2> QED
    BY <2>1, <2>2, <2>3, <2>4, PublishType, RevokeType DEF TablesNext
<1> QED
  BY <1>1, <1>2, PTL DEF TablesSpec

-----------------------------------------------------------------------------
(* One covering VRP, of another prefix: both detectors look at it alone.   *)
LEMMA SubprefixAgrees == TablesType => SubprefixAgreesWithRpki
<1> SUFFICES ASSUME TablesType, NEW ann \in Probes, Cardinality(Parents(ann)) = 1,
                    {v \in Live : SubnetOf(ann.net, v.net)} = Parents(ann),
                    NEW r \in Verdicts("subprefix_hijack", ann)
             PROVE  r.detected = (Validation(vrps, ann).status = "invalid")
  BY DEF SubprefixAgreesWithRpki
<1>1. ann.origin # None
  BY TablesAssumption
<1>2. PICK s \in Situations(ann) : r \in SubprefixHijack(s, ann)
  BY <1>1 DEF Verdicts, Detect
<1>3. s.vrps = vrps
  BY DEF Situations
<1>4. IsFiniteSet(Parents(ann))
  BY FS_Subset DEF TablesType, Parents, Live
<1>5. PICK v : Parents(ann) = {v}
  BY <1>4, FS_Singleton
<1>6. v \in vrps /\ ~v.revoked /\ v.net \in Ancestors(ann.net) /\ v \in VrpType
  BY <1>5 DEF TablesType, Parents, Live, SubnetOf
<1>7. {w \in vrps : ~w.revoked /\ w.net \in Ancestors(ann.net) \ {ann.net}} = {v}
  BY <1>5 DEF Parents, Live, SubnetOf
<1>8. {w \in {w \in vrps : w.net \in Ancestors(ann.net)} : ~w.revoked} = {v}
  BY <1>5 DEF Parents, Live, SubnetOf
<1> DEFINE Guilty == v.origin # ann.origin \/ ann.net.len > EffectiveMax(v)
<1>9. r.detected = Guilty
  <2>1. CASE Guilty
    <3>1. {w \in {v} : w.origin # ann.origin \/ ann.net.len > EffectiveMax(w)} = {v}
      BY <2>1
    <3>2. \E w \in {v} : r.detected
      BY <1>2, <1>3, <1>7, <3>1 DEF SubprefixHijack, Quiet
    <3> QED
      BY <2>1, <3>2
  <2>2. CASE ~Guilty
    <3>1. {w \in {v} : w.origin # ann.origin \/ ann.net.len > EffectiveMax(w)} = {}
      BY <2>2
    <3>2. r = Quiet
      BY <1>2, <1>3, <1>7, <3>1 DEF SubprefixHijack
    <3> QED
      BY <2>2, <3>2 DEF Quiet
  <2> QED
    BY <2>1, <2>2
<1>10. (Validation(vrps, ann).status = "invalid") = Guilty
  <2> DEFINE same == {w \in {v} : w.origin = ann.origin}
  <2>1. {w \in vrps : w.net \in Ancestors(ann.net)} # {}
    BY <1>6
  <2>2. EffectiveMax(v) \in Int /\ ann.net.len \in Int
    BY <1>6, TablesAssumption DEF VrpType, EffectiveMax
  <2>3. ASSUME Guilty PROVE Validation(vrps, ann).status = "invalid"
    <3>1. ~\E w \in same : ann.net.len <= EffectiveMax(w)
      BY <2>2, <2>3
    <3> QED
      BY <1>8, <2>1, <3>1 DEF Validation
  <2>4. ASSUME ~Guilty PROVE Validation(vrps, ann).status = "valid"
    <3>1. \E w \in same : ann.net.len <= EffectiveMax(w)
      BY <2>2, <2>4
    <3> QED
      BY <1>8, <2>1, <3>1 DEF Validation
  <2> QED
    BY <2>3, <2>4
<1> QED
  BY <1>9, <1>10

(* What the hijack detector says, as far as later steps read it.           *)
LEMMA HijackFields ==
  ASSUME NEW s, NEW ann, NEW r \in Hijack(s, ann)
  PROVE  /\ r.status = Validation(s.vrps, ann).status /\ r.scope = s.scope
         /\ r.mutation = FALSE /\ r.transit = FALSE
         /\ r.detected /\ r.severity = "P1" => ann.origin \notin s.origins
<1> DEFINE rpki == Validation(s.vrps, ann)
           new == ann.origin \notin s.origins
           invalid == rpki.status = "invalid" /\ rpki.reason \in {"origin_as_mismatch", "length_exceeded"}
           foreign(auth) == auth # None /\ ann.origin # auth /\ new
           found(auth) == invalid \/ foreign(auth) \/ (new /\ s.scope >= 3)
           severity(auth) == IF invalid \/ foreign(auth) \/ (found(auth) /\ s.scope >= 10) THEN "P0"
                             ELSE IF found(auth) THEN "P1" ELSE "P3"
<1>1. PICK auth \in AuthorizedOrigins(s, ann.net) :
        r = [Quiet EXCEPT !.detected = found(auth), !.severity = severity(auth),
                          !.status = rpki.status, !.scope = s.scope, !.authorized = auth]
  BY DEF Hijack
<1> HIDE DEF rpki
<1>2. /\ r.status = rpki.status /\ r.scope = s.scope /\ r.mutation = FALSE /\ r.transit = FALSE
      /\ r.detected = found(auth) /\ r.severity = severity(auth)
  <2> HIDE DEF found, severity
  <2> QED
    BY <1>1 DEF Quiet
<1>3. severity(auth) = "P1" /\ found(auth) => new
  OBVIOUS
<1> QED
  BY <1>2, <1>3 DEF rpki

(* What makes a hijack of the second severity: a new origin, seen by some. *)
LEMMA SpreadAges == TablesType => SpreadIsOld
<1> SUFFICES ASSUME TablesType, NEW ann \in Probes, NEW r \in Verdicts("hijack", ann),
                    r.detected, r.severity = "P1",
                    NEW a \in announcements, a.origin = ann.origin
             PROVE  a.age > Month
  BY DEF SpreadIsOld
<1>1. PICK s \in Situations(ann) : r \in Hijack(s, ann)
  BY TablesAssumption DEF Verdicts, Detect
<1>2. ann.origin \notin s.origins
  BY <1>1, HijackFields
<1>3. s.origins = HistoricalOrigins
  BY <1>1 DEF Situations
<1>4. ~(a.age <= Month)
  BY <1>2, <1>3 DEF HistoricalOrigins
<1> QED
  BY <1>4 DEF TablesType, Ages, Month

(* However the tables change, the hijack detectors say what they support:  *)
(* the announcements that are invalid, and origins seen long ago.          *)
THEOREM DetectorsAlwaysSound == TablesSpec => []DetectorsSound
<1>1. TablesType => DetectorsSound
  BY SubprefixAgrees, SpreadAges DEF DetectorsSound
<1> QED
  BY <1>1, TablesTypeCorrect, PTL

-----------------------------------------------------------------------------
(* The six dimensions are numbers, and what each of them depends on.       *)
LEMMA CappedBounds == \A n \in Int : Capped(n) \in Int /\ Capped(n) <= n /\ (n <= 100 => Capped(n) = n)
  BY DEF Capped

LEMMA MaxOfTwo == \A a, b \in Int : Max({a, b}) \in {a, b}
<1> SUFFICES ASSUME NEW a \in Int, NEW b \in Int PROVE Max({a, b}) \in {a, b}
  OBVIOUS
<1>1. \E x \in {a, b} : \A y \in {a, b} : x >= y
  BY a >= b \/ b >= a
<1> QED
  BY <1>1 DEF Max

LEMMA AssetScoreNumber == ASSUME NEW asset PROVE AssetScore(asset) \in Int
<1> DEFINE importance == Bonus(Importance, asset.importance)
           level == Bonus(ServiceLevel, asset.level)
           business == Bonus(BusinessImportance, asset.business)
<1>1. importance \in Int /\ level \in Int /\ business \in Int
  BY DEF Bonus, Importance, ServiceLevel, BusinessImportance
<1>2. Max({30, importance}) \in Int
  BY <1>1, MaxOfTwo
<1>3. Capped(Capped(Max({30, importance}) + level) + business) \in Int
  <2> HIDE DEF importance, level, business
  <2>1. Capped(Max({30, importance}) + level) \in Int
    BY <1>1, <1>2, CappedBounds
  <2> QED
    BY <1>1, <2>1, CappedBounds
<1> QED
  BY <1>3 DEF AssetScore

LEMMA BgpScoreNumber ==
  ASSUME NEW s, NEW e, NEW t, NEW f, s.withdraws = t.withdraws,
         e.scope = f.scope, e.mutation = f.mutation, e.transit = f.transit
  PROVE  BgpScore(s, e) = BgpScore(t, f) /\ BgpScore(s, e) \in Int
  BY DEF BgpScore, Capped

LEMMA AuthScoreMoves ==
  ASSUME NEW ann, NEW asset, NEW e, NEW f
  PROVE  /\ AuthScore(ann, e, asset) \in Int /\ AuthScore(ann, f, asset) \in Int
         /\ AuthScore(ann, e, asset) <= AuthScore(ann, f, asset) + 60
  BY DEF AuthScore, Capped

LEMMA HistoryScoreNumber ==
  ASSUME NEW ann, NEW s, NEW t, s.origins = t.origins
  PROVE  HistoryScore(s, ann) = HistoryScore(t, ann) /\ HistoryScore(s, ann) \in Int
  BY DEF HistoryScore

LEMMA ExternalScoreNumber ==
  ASSUME NEW ann, NEW e, NEW f, e.transit = f.transit
  PROVE  ExternalScore(ann, e) = ExternalScore(ann, f) /\ ExternalScore(ann, e) \in Int
  BY DEF ExternalScore, Capped

(* An announcement that turns invalid gains at least 50 in the dimension of *)
(* weight 25 and loses at most 60 in the one of weight 15.                 *)
LEMMA InvalidScoresMore ==
  ASSUME NEW ann, NEW s, NEW t, NEW r \in Hijack(s, ann), NEW q \in Hijack(t, ann), NEW asset,
         s.origins = t.origins, s.withdraws = t.withdraws, s.scope = t.scope,
         Validation(s.vrps, ann).status # "invalid", Validation(t.vrps, ann).status = "invalid"
  PROVE  TotalScore(s, ann, r, asset) <= TotalScore(t, ann, q, asset)
<1>1. /\ r.status = Validation(s.vrps, ann).status /\ q.status = Validation(t.vrps, ann).status
      /\ r.scope = q.scope /\ r.mutation = q.mutation /\ r.transit = q.transit
  BY HijackFields
<1>2. RpkiScore(s, ann, r) \in Int /\ RpkiScore(s, ann, r) <= 40
  <2>1. RpkiStatus(s, ann, r) # "invalid"
    BY <1>1 DEF RpkiStatus
  <2> QED
    BY <2>1 DEF RpkiScore
<1>3. RpkiScore(t, ann, q) \in Int /\ RpkiScore(t, ann, q) >= 90
  <2>1. RpkiStatus(t, ann, q) = "invalid"
    BY <1>1 DEF RpkiStatus
  <2> QED
    BY <2>1 DEF RpkiScore
<1>4. AssetScore(asset) \in Int
  BY AssetScoreNumber
<1>5. BgpScore(s, r) = BgpScore(t, q) /\ BgpScore(s, r) \in Int
  BY <1>1, BgpScoreNumber
<1>6. /\ AuthScore(ann, r, asset) \in Int /\ AuthScore(ann, q, asset) \in Int
      /\ AuthScore(ann, r, asset) <= AuthScore(ann, q, asset) + 60
  BY AuthScoreMoves
<1>7. HistoryScore(s, ann) = HistoryScore(t, ann) /\ HistoryScore(s, ann) \in Int
  BY HistoryScoreNumber
<1>8. ExternalScore(ann, r) = ExternalScore(ann, q) /\ ExternalScore(ann, r) \in Int
  BY <1>1, ExternalScoreNumber
<1> QED
  BY <1>2, <1>3, <1>4, <1>5, <1>6, <1>7, <1>8 DEF TotalScore, Weights

LEMMA TotalNumber ==
  ASSUME NEW ann, NEW s, NEW e, NEW asset
  PROVE  TotalScore(s, ann, e, asset) \in Int
<1>1. RpkiScore(s, ann, e) \in Int
  BY DEF RpkiScore
<1>2. /\ AssetScore(asset) \in Int /\ BgpScore(s, e) \in Int /\ AuthScore(ann, e, asset) \in Int
      /\ HistoryScore(s, ann) \in Int /\ ExternalScore(ann, e) \in Int
  BY AssetScoreNumber, BgpScoreNumber, AuthScoreMoves, HistoryScoreNumber, ExternalScoreNumber
<1> QED
  BY <1>1, <1>2 DEF TotalScore, Weights

(* The situations of one state differ in the baseline alone, which no      *)
(* dimension of the score looks at.                                        *)
LEMMA BaselineUnseen ==
  ASSUME NEW ann, NEW e, NEW asset, NEW S, NEW t \in S,
         \A s \in S : s.vrps = t.vrps /\ s.origins = t.origins /\ s.withdraws = t.withdraws
  PROVE  Max({TotalScore(s, ann, e, asset) : s \in S}) = TotalScore(t, ann, e, asset)
<1>1. ASSUME NEW s \in S PROVE TotalScore(s, ann, e, asset) = TotalScore(t, ann, e, asset)
  <2>1. s.vrps = t.vrps /\ s.origins = t.origins /\ s.withdraws = t.withdraws
    OBVIOUS
  <2>2. RpkiScore(s, ann, e) = RpkiScore(t, ann, e)
    BY <2>1 DEF RpkiScore, RpkiStatus
  <2>3. BgpScore(s, e) = BgpScore(t, e) /\ HistoryScore(s, ann) = HistoryScore(t, ann)
    BY <2>1, BgpScoreNumber, HistoryScoreNumber
  <2> QED
    BY <2>2, <2>3 DEF TotalScore
<1>2. {TotalScore(s, ann, e, asset) : s \in S} = {TotalScore(t, ann, e, asset)}
  BY <1>1
<1>3. TotalScore(t, ann, e, asset) >= TotalScore(t, ann, e, asset)
  BY TotalNumber
<1> QED
  BY <1>2, <1>3 DEF Max

(* Publishing or revoking a VRP never lowers the risk of an announcement   *)
(* that it makes invalid.                                                  *)
THEOREM RiskAlwaysFollows == TablesSpec => RiskFollowsRpki
<1> SUFFICES ASSUME [TablesNext]_tableVars
             PROVE  [vrps # vrps' => \A ann \in Probes :
                       /\ Validation(vrps, ann).status # "invalid"
                       /\ Validation(vrps, ann)'.status = "invalid"
                       => \A r \in Verdicts("hijack", ann), q \in Verdicts("hijack", ann)' :
                            Score(ann, r) <= Score(ann, q)']_tableVars
  BY PTL DEF TablesSpec, RiskFollowsRpki
<1> SUFFICES ASSUME TablesNext, NEW ann \in Probes,
                    Validation(vrps, ann).status # "invalid", Validation(vrps, ann)'.status = "invalid",
                    NEW r \in Verdicts("hijack", ann), NEW q \in Verdicts("hijack", ann)'
             PROVE  Score(ann, r) <= Score(ann, q)'
  OBVIOUS
<1>1. announcements' = announcements /\ withdraws' = withdraws
  <2>1. vrps' # vrps
    OBVIOUS
  <2> QED
    BY <2>1 DEF TablesNext, StoreAnnouncement, StoreWithdraw, PublishVrp, RevokeVrp, TimePasses
<1>2. ann.origin # None
  BY TablesAssumption
<1>3. PICK s \in Situations(ann) : r \in Hijack(s, ann)
  BY <1>2 DEF Verdicts, Detect
<1>4. PICK t \in Situations(ann)' : q \in Hijack(t, ann)
  BY <1>2 DEF Verdicts, Detect
<1>5. s.vrps = vrps /\ t.vrps = vrps'
  BY DEF Situations
<1>6. s.origins = t.origins /\ s.withdraws = t.withdraws /\ s.scope = t.scope
  <2>1. s.origins = HistoricalOrigins /\ s.withdraws = Cardinality(withdraws) /\ s.scope = PropagationScope(ann.origin)
    BY DEF Situations
  <2>2. t.origins = HistoricalOrigins' /\ t.withdraws = Cardinality(withdraws') /\ t.scope = PropagationScope(ann.origin)'
    BY DEF Situations
  <2>3. HistoricalOrigins' = HistoricalOrigins /\ PropagationScope(ann.origin)' = PropagationScope(ann.origin)
    BY <1>1 DEF HistoricalOrigins, PropagationScope
  <2> QED
    BY <1>1, <2>1, <2>2, <2>3
<1>7. TotalScore(s, ann, r, Asset) <= TotalScore(t, ann, q, Asset)
  BY <1>3, <1>4, <1>5, <1>6, InvalidScoresMore
<1>8. Score(ann, r) = TotalScore(s, ann, r, Asset)
  <2>1. \A u \in Situations(ann) : u.vrps = s.vrps /\ u.origins = s.origins /\ u.withdraws = s.withdraws
    BY DEF Situations
  <2> QED
    BY <2>1, BaselineUnseen DEF Score
<1>9. Score(ann, q)' = TotalScore(t, ann, q, Asset)
  <2>1. \A u \in Situations(ann)' : u.vrps = t.vrps /\ u.origins = t.origins /\ u.withdraws = t.withdraws
    BY DEF Situations
  <2> QED
    BY <2>1, BaselineUnseen DEF Score
<1> QED
  BY <1>7, <1>8, <1>9
=============================================================================
