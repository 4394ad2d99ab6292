------------------------------ MODULE RiskScore ------------------------------
(***************************************************************************)
(* services/detection/risk_scorer.py: the explainable risk score of an     *)
(* alert.  The six dimensions are numbers of 0..100, the hundredfold of    *)
(* the code's 0.0..1.0; the weights are per cent, so that the total is the *)
(* hundredfold of alert.risk_score and the code's rounding changes nothing.*)
(*                                                                         *)
(* evidence is a result of Detectors.  asset is the row of prefixes, with  *)
(* the service level of its customer and the importance of its business    *)
(* service, or None.                                                       *)
(***************************************************************************)
EXTENDS Detectors

Weights == [asset |-> 20, rpki |-> 25, bgp |-> 20, auth |-> 15, history |-> 10, external |-> 10]

Capped(n) == IF n > 100 THEN 100 ELSE n

Importance == [critical |-> 70, important |-> 50, normal |-> 30, low |-> 10]
ServiceLevel == [platinum |-> 20, gold |-> 15, silver |-> 10, standard |-> 5]
BusinessImportance == [critical |-> 15, important |-> 10, normal |-> 5, low |-> 0]

Bonus(table, key) == IF key \in DOMAIN table THEN table[key] ELSE 0

(* _score_asset_importance *)
AssetScore(asset) ==
  IF asset = None THEN 30
  ELSE LET importance == Max({30, Bonus(Importance, asset.importance)})
       IN  Capped(Capped(importance + Bonus(ServiceLevel, asset.level))
                  + Bonus(BusinessImportance, asset.business))

(* The evidence's status, else a validation now. *)
RpkiStatus(s, ann, evidence) ==
  IF evidence.status = None /\ ann.origin # None THEN Validation(s.vrps, ann).status
  ELSE evidence.status

\* Mutant of RpkiScore: invalid and not_found are swapped.
RpkiScoreSwapped(s, ann, evidence) ==
  CASE RpkiStatus(s, ann, evidence) = "invalid" -> 40
    [] RpkiStatus(s, ann, evidence) = "not_found" -> 90
    [] RpkiStatus(s, ann, evidence) = "valid" -> 10
    [] OTHER -> 30

(* _score_rpki_evidence *)
RpkiScore(s, ann, evidence) ==
  LET status == RpkiStatus(s, ann, evidence)
  IN  CASE status = "invalid" ->
             IF Validation(s.vrps, ann).reason = "origin_as_mismatch" THEN 100 ELSE 90
        [] status = "not_found" -> 40
        [] status = "valid" -> 10
        [] OTHER -> 30

(* _score_bgp_propagation: withdraws are those of the last hour. *)
BgpScore(s, evidence) ==
  LET reach == CASE evidence.scope >= 10 -> 90
                 [] evidence.scope \in 5..9 -> 70
                 [] evidence.scope \in 3..4 -> 50
                 [] OTHER -> 30
      paths == CASE evidence.mutation -> 15
                 [] evidence.transit /\ ~evidence.mutation -> 10
                 [] OTHER -> 0
  IN  Capped(Capped(reach + (IF s.withdraws >= 5 THEN 20 ELSE 0)) + paths)

(* _score_authorization *)
AuthScore(ann, evidence, asset) ==
  LET base == IF asset = None THEN 70 ELSE 30
  IN  IF evidence.authorized = None THEN base
      ELSE IF ann.origin = evidence.authorized THEN base - 20
      ELSE IF ann.origin # None THEN Capped(base + 40)
      ELSE base

(* _score_historical_baseline *)
HistoryScore(s, ann) ==
  (IF ann.origin # None /\ ann.origin \notin s.origins THEN 70 ELSE 30)
    - (IF Cardinality(s.origins) >= 2 THEN 5 ELSE 0)

(* _score_external_risk *)
ExternalScore(ann, evidence) ==
  IF ann.origin = None THEN 20
  ELSE Capped((CASE Info(ann.origin) = None -> 60
                 [] HighRisk(ann.origin) -> 80
                 [] Info(ann.origin) # None /\ Info(ann.origin).risk = "medium_risk" -> 50
                 [] OTHER -> 20)
              + (IF evidence.transit THEN 20 ELSE 0))

(* _calculate_confidence: propagation_scope always has a value. *)
Confidence(s, ann, evidence, asset) ==
  55 + (IF RpkiStatus(s, ann, evidence) # None THEN 20 ELSE 0)
     + (IF asset # None THEN 10 ELSE 0)
     + (IF s.origins # {} THEN 10 ELSE 0)
     + (IF evidence.authorized # None THEN 5 ELSE 0)

(* calculate_risk_score *)
TotalScore(s, ann, evidence, asset) ==
    Weights.asset    * AssetScore(asset)
  + Weights.rpki     * RpkiScore(s, ann, evidence)
  + Weights.bgp      * BgpScore(s, evidence)
  + Weights.auth     * AuthScore(ann, evidence, asset)
  + Weights.history  * HistoryScore(s, ann)
  + Weights.external * ExternalScore(ann, evidence)

(* _generate_recommended_actions: the advice by score, evidence and type. *)
RecommendedActions(type, s, ann, evidence, asset) ==
  LET total == TotalScore(s, ann, evidence, asset)
  IN  (CASE total >= 7000 -> {"contact_noc", "filter_upstream"}
         [] total >= 4000 /\ total < 7000 -> {"investigate"}
         [] OTHER -> {"observe"})
      \union (IF RpkiStatus(s, ann, evidence) = "invalid" THEN {"deploy_rov"} ELSE {})
      \union (IF evidence.scope >= 10 THEN {"coordinate_withdrawal"} ELSE {})
      \union (CASE type = "moas" -> {"check_moas"}
                [] type = "route_leak" -> {"check_policy"}
                [] type = "withdraw_flap" -> {"check_stability"}
                [] OTHER -> {})

(* The row of risk_scores, as calculate_risk_score writes it. *)
RiskScoreRow(type, s, ann, evidence, asset) ==
  [total      |-> TotalScore(s, ann, evidence, asset),
   confidence |-> Confidence(s, ann, evidence, asset),
   actions    |-> RecommendedActions(type, s, ann, evidence, asset)]

=============================================================================
