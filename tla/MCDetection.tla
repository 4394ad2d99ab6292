----------------------------- MODULE MCDetection -----------------------------
(***************************************************************************)
(* Instances of the detection modules for TLC.  No action of one of the    *)
(* three reads what another keeps, so that a behaviour is one of           *)
(* DetectionTables, of RuleEngine or of BenignConflict; which one is drawn *)
(* at the start, and the other two stand still.                            *)
(***************************************************************************)
EXTENDS RuleEngine, DetectionTables, BenignConflict, TLC

CONSTANTS a1, a2, a3, a4, a5, x1, x2, x3, y1, y2

VARIABLE part

detectionVars == <<part, vars, tableVars, benignVars>>

DetectionInit ==
  /\ part \in {"tables", "rules", "benign"}
  /\ TablesInit /\ Init /\ BenignInit

DetectionNext ==
  /\ UNCHANGED part
  /\ \/ part = "tables" /\ TablesNext /\ UNCHANGED <<vars, benignVars>>
     \/ part = "rules" /\ Next /\ UNCHANGED <<tableVars, benignVars>>
     \/ part = "benign" /\ BenignNext /\ UNCHANGED <<vars, tableVars>>

DetectionSpec == DetectionInit /\ [][DetectionNext]_detectionVars

N(addr, len) == [addr |-> addr, len |-> len]
V(net, origin, max) == [net |-> net, origin |-> origin, max |-> max, revoked |-> FALSE]

\* Our own AS, a stranger, a provider, one that swallows traffic, a scrubber.
SomeAsns ==
  [a \in {a1, a2, a3, a4, a5} |->
     CASE a = a1 -> [type |-> "own", anycast |-> FALSE, risk |-> "low_risk"]
       [] a = a2 -> None
       [] a = a3 -> [type |-> "provider", anycast |-> FALSE, risk |-> "high_risk"]
       [] a = a4 -> [type |-> "unknown", anycast |-> FALSE, risk |-> "blackhole"]
       [] a = a5 -> [type |-> "scrubber", anycast |-> TRUE, risk |-> "low_risk"]]

-----------------------------------------------------------------------------
(* DetectionTables: addresses of two bits. *)

ObservedNet == N(0, 1)

\* A network that covers the prefix, and the prefix itself.
SomeVrps == {V(N(0, 0), a1, None), V(N(0, 1), a1, 2)}
SomeProbes == {[net |-> ObservedNet, origin |-> a1, path |-> <<a3, a1>>, point |-> x1],
               [net |-> ObservedNet, origin |-> a2, path |-> <<a3, a2>>, point |-> x1]}

SomePaths == [a \in {a1, a2} |-> <<a3, a>>]

SomeAsset == [importance |-> "important", level |-> "gold", business |-> "normal"]

-----------------------------------------------------------------------------
(* RuleEngine. *)

RuleRow(type, priority) ==
  [id |-> None, type |-> type, enabled |-> TRUE, priority |-> priority, severity |-> "P4",
   thresholds |-> FALSE, window |-> 60, whitelist |-> None, scope |-> None]

\* A plain rule, and one with a white list, a scope and thresholds.
SomeRules ==
  {RuleRow("hijack", 1),
   [RuleRow("hijack", 1) EXCEPT !.thresholds = TRUE,
       !.whitelist = [nets |-> {N(2, 1)}, origins |-> {a1}, points |-> {y2}],
       !.scope = [nets |-> {N(0, 0)}, origins |-> {}, lens |-> {1}]]}

Seen ==
  [vrps |-> {V(N(0, 1), a1, None)}, origins |-> {}, recent |-> {}, scope |-> 12, baseline |-> None,
   withdraws |-> 6, announces |-> 0, withdrawPoints |-> 5, announcePoints |-> 0, invalids |-> 5]

Announcement(point) == [net |-> N(0, 1), origin |-> a4, path |-> <<a4>>, point |-> point]
Service(business) == [importance |-> "critical", level |-> "gold", business |-> business]

\* A hijack that both rules see, and one that a rule ignores and that cannot be
\* scored.
SomeScans ==
  {[ann |-> Announcement(y1), s |-> Seen, asset |-> None],
   [ann |-> Announcement(y2), s |-> Seen, asset |-> Service("ambiguous")]}

-----------------------------------------------------------------------------
(* BenignConflict. *)

SomeLedger == [status |-> "active", customer |-> "c1", parent |-> "c2",
               roaChanged |-> TRUE, origins |-> {a5, a2}]

Auth(from, until) == [asn |-> a5, from |-> from, until |-> until, status |-> "active"]
SomeAuths == {Auth(0, 1), Auth(0, 2)}

Window(start, end, scope, approved) ==
  [start |-> start, end |-> end, scope |-> scope, approved |-> approved, order |-> FALSE,
   status |-> "scheduled"]
SomeWindows == {Window(0, 1, "prefix", TRUE), Window(0, 2, a2, FALSE)}

SomeNodes == {[asn |-> a5, geo |-> TRUE, tag |-> FALSE, status |-> "active"]}

SomeAlerts == {[origin |-> a5, path |-> <<a5>>, time |-> 0,  benign |-> FALSE, kind |-> None],
               [origin |-> None, path |-> <<>>, time |-> 0, benign |-> FALSE, kind |-> None]}

SomeSources == {Healthy, [Healthy EXCEPT !.failed = TRUE]}

Symmetry == Permutations(Points) \union Permutations(RuleIds) \union Permutations(AlertIds)
=============================================================================
