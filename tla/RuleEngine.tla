------------------------------ MODULE RuleEngine ------------------------------
(***************************************************************************)
(* services/detection/rule_engine.py and the rule endpoints of             *)
(* api/v1/endpoints/detection.py: a scan of one announcement by the        *)
(* enabled rules, each with its alert, its score, its commit and its event,*)
(* while rules are created, changed, disabled and deleted.                 *)
(*                                                                         *)
(* The scan holds the rules as they were loaded (a commit expires nothing) *)
(* and one database session.  A failed flush ends it: the handler of the   *)
(* exception reads the expired rule, which raises again, and the request   *)
(* is rolled back.                                                         *)
(***************************************************************************)
EXTENDS RiskScore

CONSTANTS
  Deleted,      \* what is left of a rule: ids are not used again
  RuleIds,
  AlertIds,
  RuleRows,     \* rows a create or update may ask for
  Scans,        \* what is scanned: [ann, s, asset]
  TypeFilters   \* rule_types of a scan: sets of rule types, {} for all

(* Rows of the tables.  What a detector may report is left to the detectors. *)
RowsWithId(ids) ==
  LET Values(field) == {row[field] : row \in RuleRows}
  IN  [id : ids, type : Values("type"), enabled : BOOLEAN, priority : Values("priority"),
       severity : Values("severity"), thresholds : BOOLEAN, window : Values("window"),
       whitelist : Values("whitelist"), scope : Values("scope")]
RuleType == RowsWithId(RuleIds)
Advice == {"contact_noc", "filter_upstream", "investigate", "observe", "deploy_rov",
           "coordinate_withdrawal", "check_moas", "check_policy", "check_stability"}
ScoreType == [total : {n \in Nat : n <= 10000}, confidence : 0..100, actions : SUBSET Advice]
DeletionType == [rule : RuleIds, owned : SUBSET AlertIds]

ASSUME RowAssumption ==
  /\ IsFiniteSet(RuleIds)
  /\ RuleRows \subseteq RowsWithId({None})
  /\ None \notin RuleIds \union AlertIds \union RuleType \union {Deleted}
  /\ Deleted \notin RuleType
  /\ None \notin ScoreType /\ None \notin DeletionType

VARIABLES
  rules,     \* rule id -> row of detection_rules, None before it is created, or Deleted
  alerts,    \* alert id -> committed row of alerts, or None
  events,    \* alert ids the Kafka producer took, in order
  session,   \* the scan in progress, see Idle
  deletion,  \* a rule's deletion between its reads and its deletes, or None
  dropped    \* ghost: the alerts that went away with their rule

vars == <<rules, alerts, events, session, deletion, dropped>>

Idle == [pc |-> "idle", scan |-> None, queue |-> <<>>, rule |-> None, alert |-> None,
         result |-> Quiet, pending |-> <<>>, loaded |-> {}, made |-> {}, unsent |-> {}]

Exists(r) == rules[r] \notin {None, Deleted}

Init ==
  /\ rules = [r \in RuleIds |-> None]
  /\ alerts = [a \in AlertIds |-> None]
  /\ events = <<>>
  /\ session = Idle
  /\ deletion = None
  /\ dropped = {}

-----------------------------------------------------------------------------
(* Which rules apply. *)

(* check_whitelist *)
Whitelisted(rule, ann) ==
  /\ rule.whitelist # None
  /\ \/ \E net \in rule.whitelist.nets : SubnetOf(ann.net, net)
     \/ ann.origin # None /\ ann.origin \in rule.whitelist.origins
     \/ ann.point # None /\ ann.point \in rule.whitelist.points

(* check_scope; an empty list does not restrict. *)
InScope(rule, ann) ==
  rule.scope # None =>
     /\ rule.scope.nets # {} => \E net \in rule.scope.nets : SubnetOf(ann.net, net)
     /\ rule.scope.origins # {} => ann.origin # None /\ ann.origin \in rule.scope.origins
     /\ ann.net.len \in rule.scope.lens

Applies(rule, ann) == ~Whitelisted(rule, ann) /\ InScope(rule, ann)

(* apply_rule after the filters: the detector, and the rule's severity when it
   has thresholds. *)
Judgements(rule, scan) ==
  {IF rule.thresholds THEN [r EXCEPT !.severity = rule.severity] ELSE r :
     r \in Detect(rule.type, scan.s, scan.ann, rule.window)}

(* What a rule may report of a scan, and the row of an alert about it. *)
Results == UNION {Judgements(rule, scan) : rule \in RuleType, scan \in Scans}
AlertType ==
  [rule : RuleIds \union {None}, type : {row.type : row \in RuleRows},
   severity : {r.severity : r \in Results}, scan : Scans, result : Results,
   score : ScoreType \union {None}, status : {"new"}]

ASSUME AlertAssumption == None \notin AlertType

-----------------------------------------------------------------------------
(* The rule endpoints.  Each is one transaction of its own. *)

CreateRule(r, row) ==
  /\ rules[r] = None
  /\ rules' = [rules EXCEPT ![r] = [row EXCEPT !.id = r]]
  /\ UNCHANGED <<alerts, events, session, deletion, dropped>>

(* update_detection_rule: neither the code nor the type changes. *)
UpdateRule(r, row) ==
  /\ Exists(r)
  /\ rules' = [rules EXCEPT ![r] = [row EXCEPT !.id = r, !.type = rules[r].type]]
  /\ UNCHANGED <<alerts, events, session, deletion, dropped>>

SetEnabled(r, on) ==
  /\ Exists(r)
  /\ rules' = [rules EXCEPT ![r].enabled = on]
  /\ UNCHANGED <<alerts, events, session, deletion, dropped>>

Owned(r) == {a \in AlertIds : alerts[a] # None /\ alerts[a].rule = r}

(* delete_detection_rule: the ORM reads the rule's alerts, then deletes them,
   their scores and the rule. *)
BeginDeleteRule(r) ==
  /\ deletion = None
  /\ Exists(r)
  /\ deletion' = [rule |-> r, owned |-> Owned(r)]
  /\ UNCHANGED <<rules, alerts, events, session, dropped>>

(* An insert that is not committed holds its rule.  The foreign key of an alert
   that was committed in between is set to NULL. *)
CommitDeleteRule ==
  /\ deletion # None
  /\ \A a \in DOMAIN session.pending : session.pending[a].rule # deletion.rule
  /\ rules' = [rules EXCEPT ![deletion.rule] = Deleted]
  /\ alerts' = [a \in AlertIds |->
       CASE a \in deletion.owned -> None
         [] a \in Owned(deletion.rule) \ deletion.owned -> [alerts[a] EXCEPT !.rule = None]
         [] OTHER -> alerts[a]]
  /\ dropped' = dropped \union deletion.owned
  /\ deletion' = None
  /\ UNCHANGED <<events, session>>

-----------------------------------------------------------------------------
(* A scan. *)

Enabled == {rules[r] : r \in {x \in RuleIds : Exists(x) /\ rules[x].enabled}}

(* ORDER BY priority; equal priorities in any order. *)
ByPriority(set) ==
  {q \in [1..Cardinality(set) -> set] :
     /\ \A i, j \in DOMAIN q : i # j => q[i] # q[j]
     /\ \A i, j \in DOMAIN q : i < j => q[i].priority <= q[j].priority}

Of(types) == {r \in Enabled : r.type \in types}

(* evaluate_announcement and load_rules.  A filter that leaves no rule leaves
   engine.rules empty, and evaluate then loads all enabled rules. *)
Loaded(types) ==
  IF types = {} \/ Of(types) = {} THEN Enabled ELSE Of(types)

StartScan(scan, types) ==
  /\ session.pc = "idle"
  /\ \E queue \in ByPriority(Loaded(types)) :
       session' = [Idle EXCEPT !.pc = "rules", !.scan = scan,
                               !.queue = queue, !.loaded = Loaded(types)]
  /\ UNCHANGED <<rules, alerts, events, deletion, dropped>>

(* The loop takes the next rule. *)
NextRule ==
  /\ session.pc = "rules"
  /\ session.queue # <<>>
  /\ LET rule == Head(session.queue)
         rest == [session EXCEPT !.queue = Tail(@)]
     IN  \/ /\ ~Applies(rule, session.scan.ann)
            /\ session' = rest
         \/ /\ Applies(rule, session.scan.ann)
            /\ \E result \in Judgements(rule, session.scan) :
                 session' = IF result.detected
                            THEN [rest EXCEPT !.pc = "flush", !.rule = rule, !.result = result]
                            ELSE rest
  /\ UNCHANGED <<rules, alerts, events, deletion, dropped>>

InUse == DOMAIN session.pending

Fresh == {a \in AlertIds : alerts[a] = None /\ a \notin InUse /\ a \notin dropped}

NewAlert(rule, scan, result) ==
  [rule |-> rule.id, type |-> rule.type, severity |-> result.severity, scan |-> scan,
   result |-> result, score |-> None, status |-> "new"]

(* _create_alert_from_result.  Bound: AlertIds. *)
FlushAlert ==
  /\ session.pc = "flush"
  /\ Exists(session.rule.id)
  /\ \E a \in Fresh :
       session' = [session EXCEPT
         !.pc = "score", !.alert = a, !.made = @ \union {a},
         !.pending = [x \in InUse \union {a} |->
            IF x = a THEN NewAlert(session.rule, session.scan, session.result) ELSE @[x]]]
  /\ UNCHANGED <<rules, alerts, events, deletion, dropped>>

(* The rule was deleted since it was loaded and the flush fails: the exception
   leaves evaluate, get_db rolls back, and the rules still to come never run. *)
FlushFails ==
  /\ session.pc = "flush"
  /\ ~Exists(session.rule.id)
  /\ session' = Idle
  /\ UNCHANGED <<rules, alerts, events, deletion, dropped>>

(* A service name that several business services have makes the lookup raise. *)
Unscorable(asset) == asset # None /\ asset.business = "ambiguous"

\* Mutant of ScoreAlert: a rule that fails ends the loop.
ScoreAlertBreaks ==
  /\ session.pc = "score"
  /\ IF Unscorable(session.scan.asset)
     THEN session' = [session EXCEPT !.pc = "rules", !.queue = <<>>]
     ELSE session' = [session EXCEPT
            !.pc = "commit",
            !.pending[session.alert].score =
               RiskScoreRow(session.rule.type, session.scan.s, session.scan.ann, session.result,
                            session.scan.asset)]
  /\ UNCHANGED <<rules, alerts, events, deletion, dropped>>

(* calculate_risk_score: an exception leaves the alert pending and unscored, and
   the loop goes on. *)
ScoreAlert ==
  /\ session.pc = "score"
  /\ IF Unscorable(session.scan.asset)
     THEN session' = [session EXCEPT !.pc = "rules"]
     ELSE session' = [session EXCEPT
            !.pc = "commit",
            !.pending[session.alert].score =
               RiskScoreRow(session.rule.type, session.scan.s, session.scan.ann, session.result,
                            session.scan.asset)]
  /\ UNCHANGED <<rules, alerts, events, deletion, dropped>>

(* A commit writes everything pending. *)
Committed == [a \in AlertIds |-> IF a \in InUse THEN session.pending[a] ELSE alerts[a]]

\* Mutant of CommitAlert: the event goes out before the commit, which may fail.
CommitAlertAfterSend ==
  /\ session.pc = "commit"
  /\ events' = Append(events, session.alert)
  /\ \/ /\ alerts' = Committed
        /\ session' = [session EXCEPT !.pc = "rules", !.pending = <<>>]
     \/ session' = Idle /\ UNCHANGED alerts
  /\ UNCHANGED <<rules, deletion, dropped>>

CommitAlert ==
  /\ session.pc = "commit"
  /\ alerts' = Committed
  /\ session' = [session EXCEPT !.pc = "send", !.pending = <<>>]
  /\ UNCHANGED <<rules, events, deletion, dropped>>

(* _send_alert_event: the producer takes the event, or its send raises (no
   metadata, a full buffer) and the loop goes on. *)
SendAlertEvent ==
  /\ session.pc = "send"
  /\ \/ /\ events' = Append(events, session.alert)
        /\ session' = [session EXCEPT !.pc = "rules", !.rule = None, !.alert = None]
     \/ /\ UNCHANGED events
        /\ session' = [session EXCEPT !.pc = "rules", !.rule = None, !.alert = None,
                                      !.unsent = @ \union {session.alert}]
  /\ UNCHANGED <<rules, alerts, deletion, dropped>>

(* The loop is over; get_db commits what an exception left pending. *)
FinishScan ==
  /\ session.pc = "rules"
  /\ session.queue = <<>>
  /\ alerts' = Committed
  /\ session' = [session EXCEPT !.pc = "end", !.pending = <<>>]
  /\ UNCHANGED <<rules, events, deletion, dropped>>

(* The request ends, or dies: the process or its connection to the database. *)
CloseSession ==
  /\ session.pc # "idle"
  /\ session' = Idle
  /\ UNCHANGED <<rules, alerts, events, deletion, dropped>>

Next ==
  \/ \E r \in RuleIds, row \in RuleRows : CreateRule(r, row) \/ UpdateRule(r, row)
  \/ \E r \in RuleIds, on \in BOOLEAN : SetEnabled(r, on)
  \/ \E r \in RuleIds : BeginDeleteRule(r)
  \/ CommitDeleteRule
  \/ \E scan \in Scans, types \in TypeFilters : StartScan(scan, types)
  \/ NextRule
  \/ FlushAlert \/ FlushFails \/ ScoreAlert \/ CommitAlert \/ SendAlertEvent
  \/ FinishScan \/ CloseSession

Spec == Init /\ [][Next]_vars

-----------------------------------------------------------------------------
(* Properties. *)

Stored(a) == alerts[a] # None

(* Kafka hears only of what the database keeps: an event names an alert that is
   committed and scored, or that was deleted with its rule, and no alert is
   announced twice (evaluate commits before it sends). *)
EventsStored ==
  /\ \A i \in DOMAIN events : events[i] \in dropped \/ (Stored(events[i]) /\ alerts[events[i]].score # None)
  /\ \A i, j \in DOMAIN events : i # j => events[i] # events[j]

Sent == {events[i] : i \in DOMAIN events}

(* Of the alerts that a finished scan leaves in the table, those that no event
   announces are those whose scoring or whose own send raised: an exception of
   one rule silences no other.  A scan that a failed flush or a crash ends says
   nothing of the alert that it had committed last. *)
ScanAnnounced ==
  session.pc = "end" =>
    \A a \in session.made : Stored(a) =>
      (a \in Sent <=> alerts[a].score # None /\ a \notin session.unsent)

(* Kafka and the database tell the same story, see the two parts. *)
EventsFaithful == EventsStored /\ ScanAnnounced

Certain(rule, scan) == Applies(rule, scan.ann) /\ \A r \in Judgements(rule, scan) : r.detected

(* A scan that is answered skipped no rule: each rule it loaded that applies and
   is certain to detect left its alert in the table, scored or not and announced
   or not, unless the alert went away with its rule.  A failure to score or to
   send ends only the work on its own rule.  (A failed flush ends the request, of
   which nothing is claimed: FlushFails.) *)
ScanComplete ==
  session.pc = "end" =>
    \A rule \in session.loaded : Certain(rule, session.scan) =>
      \E a \in session.made :
        a \in dropped \/ (Stored(a) /\ alerts[a].rule \in {rule.id, None} /\ alerts[a].type = rule.type)
=============================================================================
