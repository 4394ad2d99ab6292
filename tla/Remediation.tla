----------------------------- MODULE Remediation -----------------------------
(***************************************************************************)
(* services/remediation_service.py, services/incident_review_service.py,   *)
(* services/forensic_service.py and services/forensics_service.py: what is *)
(* suggested and done about an incident, the evidence collected for it,    *)
(* and the review that closes it.                                          *)
(*                                                                         *)
(* The recommended actions of a risk score do not appear: they are looked  *)
(* up by the score's incident, which no code sets.                         *)
(***************************************************************************)
EXTENDS Incidents

CONSTANTS
  Data,           \* prefix -> the evidence types whose tables hold rows of it
  KnownPrefixes,  \* prefixes that are registered assets
  KnownAsns,      \* origin ASes that are registered
  Ambiguous,      \* prefixes whose service has a name that several services have
  TypeRequests,   \* requests of collect_forensic_evidence: sets of types
  ActionStatuses, \* statuses that requests set
  ActivePoints,   \* whether an observation point is active
  MaxActions,     \* bound: rows of remediation_actions when suggestions are made
  MaxExecutions,  \* bound: executions
  MaxEvidence,    \* bound: rows of forensic_evidences when a collection begins
  MaxReviews,
  MaxCases

(* The tables are finite, and so is what a request lists. *)
ASSUME RemediationAssumption == IsFiniteSet(DOMAIN Data) /\ \A types \in TypeRequests : IsFiniteSet(types)

VARIABLES
  actions,    \* rows of remediation_actions in the order they were created
  evidence,   \* rows of forensic_evidences in the order they were created
  reviews,    \* rows of incident_reviews
  cases,      \* rows of case_library, or Gone
  executions  \* ghost: how many executions there were

remediationVars == <<actions, evidence, reviews, cases, executions>>

RemediationInit ==
  /\ actions = <<>>
  /\ evidence = <<>>
  /\ reviews = <<>>
  /\ cases = <<>>
  /\ executions = 0

(* The elements of a finite set in an order that is given by what comes before
   each of them. *)
InOrder(before) ==
  [n \in 1..Cardinality(DOMAIN before) |->
     CHOOSE x \in DOMAIN before : Cardinality(before[x]) = n - 1]

-----------------------------------------------------------------------------
(* Suggestions. *)

Suggestion(type, target, priority) == [type |-> type, target |-> target, priority |-> priority]

(* _extract_target_asn: the first affected AS, or else the first origin among the
   alerts, newest first. *)
TargetAsn(row, linked) ==
  LET known == {a \in linked : alerts[a].origin # None}
  IN  IF row.asns # <<>> THEN Head(row.asns) ELSE IF known # {} THEN alerts[Max(known)].origin ELSE None

Coordination == Suggestion("scrubber_coordination", None, "high")

(* _build_type_specific_suggestions *)
Suggestions(type, target) ==
  CASE type \in {"hijack", "subprefix_hijack"} ->
         <<Suggestion("contact_asn", target, "immediate"),
           Suggestion("contact_upstream", None, "high"),
           Suggestion("fix_roa", None, "high"),
           Suggestion("announce_legitimate_prefix", None, "high")>>
    [] type = "moas" ->
         <<Suggestion("contact_asn", target, "medium"),
           Suggestion("customer_notification", None, "medium")>>
    [] type = "route_leak" ->
         <<Suggestion("adjust_policy", "border", "high"),
           Suggestion("contact_upstream", None, "high")>>
    [] type = "rpki_invalid" ->
         <<Suggestion("adjust_policy", "border", "high"),
           Suggestion("fix_roa", None, "medium")>>
    [] type = "withdraw_flap" -> <<Suggestion("contact_asn", target, "medium")>>
    [] type = "path_anomaly" -> <<Suggestion("adjust_policy", "border", "medium")>>
    [] OTHER -> <<>>

ForType(type, target, severity) ==
  Suggestions(type, target) \o (IF severity \in {"P0", "P1"} THEN <<Coordination>> ELSE <<>>)

SameTask(s, t) == s.type = t.type /\ s.target = t.target

(* What types that are walked in this order ask for; each suggestion has a place:
   the type's, and its own in the list for the type. *)
Asked(order, target, severity) == [n \in DOMAIN order |-> ForType(order[n], target, severity)]
Places(asked) == UNION {{n} \X DOMAIN asked[n] : n \in DOMAIN asked}
Preceding(p, places) == {q \in places : q[1] < p[1] \/ (q[1] = p[1] /\ q[2] < p[2])}
At(asked, place) == asked[place[1]][place[2]]

\* Mutant of FirstOfEach: the type is not compared.
FirstOfEachTarget(asked) ==
  {p \in Places(asked) : \A q \in Preceding(p, Places(asked)) : At(asked, q).target # At(asked, p).target}

(* The places of the first of each type and target. *)
FirstOfEach(asked) ==
  {p \in Places(asked) : \A q \in Preceding(p, Places(asked)) : ~SameTask(At(asked, q), At(asked, p))}

Kept(asked) ==
  LET order == InOrder([p \in FirstOfEach(asked) |-> Preceding(p, FirstOfEach(asked))])
  IN  [n \in DOMAIN order |-> At(asked, order[n])]

(* _build_suggestions: the types of the alerts form a set of strings, and what
   order that is walked in differs from run to run. *)
Suggested(row, i) ==
  {Kept(Asked(order, TargetAsn(row, Linked(i)), row.severity)) :
     order \in SetToSeqs({alerts[a].type : a \in Linked(i)})}

NewAction(i, s) ==
  [incident |-> i, type |-> s.type, target |-> s.target, priority |-> s.priority,
   status |-> "pending", executedAt |-> None]

BeginSuggest(o, i) ==
  /\ Len(actions) < MaxActions
  /\ BeginOnIncident(o, "suggest", i, None)
  /\ UNCHANGED remediationVars

(* generate_remediation_suggestions, called by a GET request: the suggestions are
   stored as new actions each time. *)
CommitSuggest(o) ==
  /\ Running(o, "suggest")
  /\ \E list \in Suggested(calls[o].incident, calls[o].id) :
       actions' = actions \o [n \in DOMAIN list |-> NewAction(calls[o].id, list[n])]
  /\ Return(o)
  /\ UNCHANGED <<alerts, incidents, clock, clients, evidence, reviews, cases, executions>>

Outcomes == {"completed", "failed", "skipped"}

(* execute_action: neither the status nor an earlier execution is looked at. *)
ExecuteAction(k, status) ==
  /\ "execute" \in clients.kinds
  /\ executions < MaxExecutions
  /\ actions' = [actions EXCEPT ![k].status = status, ![k].executedAt = clock]
  /\ executions' = executions + 1
  /\ UNCHANGED <<incidentVars, evidence, reviews, cases>>

CreateAction(i, s) ==
  /\ "execute" \in clients.kinds
  /\ Len(actions) < MaxActions
  /\ incidents[i] # None
  /\ actions' = Append(actions, NewAction(i, s))
  /\ UNCHANGED <<incidentVars, evidence, reviews, cases, executions>>

(* update_action: a status of completed says nothing about executed_at. *)
UpdateAction(k, status) ==
  /\ "execute" \in clients.kinds
  /\ actions[k].status # status
  /\ actions' = [actions EXCEPT ![k].status = status]
  /\ UNCHANGED <<incidentVars, evidence, reviews, cases, executions>>

-----------------------------------------------------------------------------
(* Evidence. *)

PerPrefix == {"roa_vrp", "bgp_sample", "as_path", "propagation_scope", "historical_baseline"}
EvidenceTypes == PerPrefix \union {"observation_point", "asset_relation", "change_record"}

(* One row for each prefix that has data. *)
RowsOfPrefixes(type, prefixes) == {p \in prefixes \cap DOMAIN Data : type \in Data[p]}

RowsOfAssets(prefixes, asns) ==
  {x \in {"prefixes"} : prefixes \cap KnownPrefixes # {}} \union {x \in {"asns"} : asns \cap KnownAsns # {}}

(* The collectors: one row for each prefix that has data, one for the points, one
   each for the prefixes and the ASes that are assets, and a placeholder.  A type
   that is not known is an error in the result. *)
Subjects(type, prefixes, asns) ==
  CASE type \in PerPrefix -> RowsOfPrefixes(type, prefixes)
    [] type = "observation_point" -> {x \in {"points"} : ActivePoints}
    [] type = "asset_relation" -> RowsOfAssets(prefixes, asns)
    [] type = "change_record" -> {"changes"}
    [] OTHER -> {}

(* The lookup of an ambiguous service raises before a row is made, and the loop
   goes on with the next type. *)
Fails(type, prefixes) == type = "asset_relation" /\ prefixes \cap KnownPrefixes \cap Ambiguous # {}

Scope(row, set) ==
  [prefixes |-> row.prefixes \union {alerts[a].prefix : a \in set},
   asns |-> ToSet(row.asns) \union ({alerts[a].origin : a \in set} \ {None})]

Found(scope, types) ==
  {[type |-> t, subject |-> s] : t \in types, s \in UNION {Subjects(u, scope.prefixes, scope.asns) : u \in types}}

Collected(scope, types) ==
  {x \in Found(scope, types) : /\ ~Fails(x.type, scope.prefixes)
                               /\ x.subject \in Subjects(x.type, scope.prefixes, scope.asns)}

(* collect_forensic_evidence goes by the alerts the incident lists, and stops when
   it has no prefix.  The rows carry the time the incident was first seen; what
   else they say is not looked at again. *)
CollectForensic(i, types) ==
  /\ "forensic" \in clients.kinds
  /\ Len(evidence) < MaxEvidence
  /\ incidents[i] # None
  /\ LET scope == Scope(incidents[i], {a \in Listed(incidents[i]) : Exists(a)})
         row == [incident |-> i, collectedAt |-> incidents[i].firstSeen]
     IN  evidence' = IF scope.prefixes = {} THEN evidence
                     ELSE evidence \o [n \in 1..Cardinality(Collected(scope, types)) |-> row]
  /\ UNCHANGED <<incidentVars, actions, reviews, cases, executions>>

(* collect_evidence goes by the alerts linked to the incident, and replaces what
   the incident held. *)
BeginCollect(o, i) ==
  /\ BeginOnIncident(o, "collect", i, None)
  /\ UNCHANGED remediationVars

CommitCollect(o) ==
  /\ Running(o, "collect")
  /\ LET c == calls[o]
         scope == Scope(c.incident, Linked(c.id))
     IN  WriteIncident(c, Noted([c.incident EXCEPT
           !.evidence = Collected(scope, EvidenceTypes \ {"change_record"})], "evidence_collected"))
  /\ Return(o)
  /\ UNCHANGED <<alerts, clock, clients, remediationVars>>

-----------------------------------------------------------------------------
(* Reviews and cases. *)

ActionItem(k) == [kind |-> "action", row |-> k, at |-> IF actions[k].executedAt = None THEN 0 ELSE actions[k].executedAt]
EvidenceItem(k) == [kind |-> "evidence", row |-> k, at |-> evidence[k].collectedAt]

ActionsOf(i) == {k \in DOMAIN actions : actions[k].incident = i}
EvidenceOf(i) == {k \in DOMAIN evidence : evidence[k].incident = i}
Items(i) == {ActionItem(k) : k \in ActionsOf(i)} \union {EvidenceItem(k) : k \in EvidenceOf(i)}

(* _build_operation_chain: actions, then evidence, sorted by time; an action that
   was not executed has the empty string for a time, which comes first.  The sort
   is stable. *)
Earlier(x, y) ==
  \/ x.at < y.at
  \/ x.at = y.at /\ x.kind = "action" /\ y.kind = "evidence"
  \/ x.at = y.at /\ x.kind = y.kind /\ x.row < y.row

SortedByTime(items) == InOrder([x \in items |-> {y \in items : Earlier(y, x)}])

\* Mutant of OperationChain: only what was executed.
OperationChainDone(i) == SortedByTime({x \in Items(i) : x.at # 0})

OperationChain(i) == SortedByTime(Items(i))

NewReview(i, chain, preserved) == [incident |-> i, chain |-> chain, preserved |-> preserved]

ReviewKinds == {"close_with_review", "close_and_review"}

BeginReview(o, kind, i, save) ==
  /\ kind \in ReviewKinds
  /\ Len(reviews) < MaxReviews
  /\ BeginOnIncident(o, kind, i, [save |-> save, chain |-> None, before |-> Items(i)])
  /\ UNCHANGED remediationVars

(* The incident is closed first, in the same transaction, then the chain is read. *)
ReadChain(o) ==
  /\ \E kind \in ReviewKinds : Running(o, kind)
  /\ calls[o].arg.chain = None
  /\ calls' = [calls EXCEPT ![o].arg.chain = OperationChain(calls[o].id)]
  /\ UNCHANGED <<alerts, incidents, clock, clients, remediationVars>>

StoreReview(c, preserved) ==
  /\ c.arg.chain # None
  /\ reviews' = Append(reviews, NewReview(c.id, c.arg.chain, preserved))
  /\ cases' = IF c.arg.save /\ Len(cases) < MaxCases
              THEN Append(cases, [incident |-> c.id, severity |-> c.incident.severity, published |-> FALSE])
              ELSE cases

(* close_incident_with_review *)
CommitCloseWithReview(o) ==
  /\ Running(o, "close_with_review")
  /\ WriteIncident(calls[o], [Closed(calls[o].incident) EXCEPT !.rootCause = TRUE])
  /\ StoreReview(calls[o], TRUE)
  /\ Return(o)
  /\ UNCHANGED <<alerts, clock, clients, actions, evidence, executions>>

(* close_and_review: the cause stays in the review, and the caller says whether
   the evidence is preserved. *)
CommitCloseAndReview(o) ==
  /\ Running(o, "close_and_review")
  /\ WriteIncident(calls[o], Closed(calls[o].incident))
  /\ \E preserved \in BOOLEAN : StoreReview(calls[o], preserved)
  /\ Return(o)
  /\ UNCHANGED <<alerts, clock, clients, actions, evidence, executions>>

(* create_review without a chain of its own: nothing is closed. *)
CreateReview(i) ==
  /\ "review" \in clients.kinds
  /\ Len(reviews) < MaxReviews
  /\ incidents[i] # None
  /\ reviews' = Append(reviews, NewReview(i, OperationChain(i), TRUE))
  /\ UNCHANGED <<incidentVars, actions, evidence, cases, executions>>

UpdateReview(k, preserved) ==
  /\ "review" \in clients.kinds
  /\ reviews[k].preserved # preserved
  /\ reviews' = [reviews EXCEPT ![k].preserved = preserved]
  /\ UNCHANGED <<incidentVars, actions, evidence, cases, executions>>

(* create_case, for an incident or for none. *)
CreateCase(i) ==
  /\ "review" \in clients.kinds
  /\ Len(cases) < MaxCases
  /\ cases' = Append(cases, [incident |-> i, severity |-> None, published |-> FALSE])
  /\ UNCHANGED <<incidentVars, actions, evidence, reviews, executions>>

UpdateCase(k) ==
  /\ "review" \in clients.kinds
  /\ cases[k] # Gone
  /\ cases' = [cases EXCEPT ![k].published = ~@]
  /\ UNCHANGED <<incidentVars, actions, evidence, reviews, executions>>

DeleteCase(k) ==
  /\ "review" \in clients.kinds
  /\ cases[k] # Gone
  /\ cases' = [cases EXCEPT ![k] = Gone]
  /\ UNCHANGED <<incidentVars, actions, evidence, reviews, executions>>

-----------------------------------------------------------------------------
RemediationNext ==
  \/ \E o \in Ops :
       \/ \E i \in IncidentIds :
            \/ BeginSuggest(o, i)
            \/ BeginCollect(o, i)
            \/ \E kind \in ReviewKinds, save \in BOOLEAN : BeginReview(o, kind, i, save)
       \/ CommitSuggest(o)
       \/ CommitCollect(o)
       \/ ReadChain(o)
       \/ CommitCloseWithReview(o)
       \/ CommitCloseAndReview(o)
  \/ \E k \in DOMAIN actions :
       \/ \E status \in ActionStatuses \cap Outcomes : ExecuteAction(k, status)
       \/ \E status \in ActionStatuses : UpdateAction(k, status)
  \/ \E i \in IncidentIds :
       \/ CreateAction(i, Suggestion("other", None, "low"))
       \/ \E types \in TypeRequests : CollectForensic(i, types)
       \/ CreateReview(i)
       \/ CreateCase(i)
  \/ \E k \in DOMAIN reviews, preserved \in BOOLEAN : UpdateReview(k, preserved)
  \/ \E k \in DOMAIN cases : UpdateCase(k) \/ DeleteCase(k)

-----------------------------------------------------------------------------
(* The kinds of task that the comments of _build_type_specific_suggestions name for
   a type of alert (remediation_service.py:396, 435, 457, 478, 499 and 512). *)
Promised(type) ==
  CASE type \in {"hijack", "subprefix_hijack"} ->
         {"contact_asn", "contact_upstream", "fix_roa", "announce_legitimate_prefix"}
    [] type \in {"moas", "withdraw_flap"} -> {"contact_asn", "customer_notification"}
    [] type = "route_leak" -> {"adjust_policy", "contact_upstream"}
    [] type = "rpki_invalid" -> {"adjust_policy", "fix_roa"}
    [] type = "path_anomaly" -> {"adjust_policy"}
    [] OTHER -> {}

(* What one call of generate_remediation_suggestions stores, whatever order the
   types are walked in and whatever alerts came since the incident was read: no
   task twice; every kind of task that is promised for a linked type, and no other;
   a scrubber for a severe incident with alerts; and the call to the hijacker is
   immediate unless another type asks for the same call less urgently.  The notice
   to the customers is the exception: line 499 promises it for withdrawals, and the
   code makes it for multiple origins alone.  A second call stores its tasks again,
   whatever the first has stored: of two calls nothing is said. *)
SuggestionsHold ==
  \A o \in Ops :
    Running(o, "suggest") /\ calls'[o] = None =>
      LET severity == calls[o].incident.severity
          types == {alerts[a].type : a \in Linked(calls[o].id)}
          promised == UNION {Promised(t) : t \in types}
          made == SubSeq(actions', Len(actions) + 1, Len(actions'))
          kinds == {made[n].type : n \in DOMAIN made}
      IN  /\ \A m, n \in DOMAIN made : m # n => ~SameTask(made[m], made[n])
          /\ promised \ {"customer_notification"} \subseteq kinds
          /\ kinds \subseteq promised \union {"scrubber_coordination"}
          /\ "customer_notification" \in kinds <=> "moas" \in types
          /\ "scrubber_coordination" \in kinds <=> severity \in {"P0", "P1"} /\ types # {}
          /\ "hijack" \in types /\ types \cap {"moas", "withdraw_flap"} = {} =>
               \E n \in DOMAIN made : made[n].type = "contact_asn" /\ made[n].priority = "immediate"

(* SuggestionsHold whenever a call of generate_remediation_suggestions returns. *)
SuggestionsSound == [][SuggestionsHold]_calls

(* A review tells what was done: every action and every piece of evidence that
   the incident had when the review was begun is in it, once, not earlier than it
   was then, whatever was executed, added or collected meanwhile; and in order of
   time, with the open actions first. *)
SameItem(x, y) == x.kind = y.kind /\ x.row = y.row
Tells(chain, items) == \A x \in items : \E n \in DOMAIN chain : SameItem(x, chain[n]) /\ chain[n].at >= x.at
InOrderOfTime(chain) ==
  \A m, n \in DOMAIN chain : m < n => ~SameItem(chain[m], chain[n]) /\ chain[m].at <= chain[n].at

ReviewHolds ==
  Len(reviews') > Len(reviews) =>
    LET new == Last(reviews')
        closing == {o \in Ops : calls[o] # None /\ calls'[o] = None}
        before == UNION {calls[o].arg.before : o \in closing}
    IN  /\ Tells(new.chain, IF closing = {} THEN Items(new.incident) ELSE before)
        /\ InOrderOfTime(new.chain)

(* ReviewHolds for every review that a call closes its incident with, or creates. *)
ReviewsComplete == [][ReviewHolds]_reviews
=============================================================================
