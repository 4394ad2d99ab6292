----------------------------- MODULE MCResponse -----------------------------
(***************************************************************************)
(* Instances of Response for TLC.  A behaviour has one kind of clients, so *)
(* that the parts that do not meet are not multiplied with each other.     *)
(***************************************************************************)
EXTENDS Response, TLC

CONSTANTS o1, o2, i1, i2, p1, p2, as1, as2, c1, c2, c3, g1, g2, s1, s2

Row(type, prefix, origin) == [type |-> type, prefix |-> prefix, origin |-> origin]

Request(severity, prefixes, asns, alertIds) ==
  [severity |-> severity, prefixes |-> prefixes, asns |-> asns, alertIds |-> alertIds]

Plain == Request("P2", {}, <<>>, None)

Client(kinds, ops, rows, ids, requests, time) ==
  [kinds |-> kinds, ops |-> ops, rows |-> rows, ids |-> ids, requests |-> requests, time |-> time]

\* Two writers of one incident.
Writers == Client({"update", "assign", "close"}, {o1, o2}, {}, {i1}, {Plain}, 1)
Editors == Client({"update", "escalate", "timeline", "close"}, {o1}, {}, {i1}, {Plain}, 1)

\* Alerts that are linked by two calls, or closed and dropped while they are.
Linkers ==
  Client({"assign_alert", "alert_status"}, {o1, o2}, {Row("hijack", p1, as1)},
         {i1, i2}, {Request("P2", {}, <<>>, <<1>>), Request("P2", {}, <<>>, <<>>)}, 1)
Droppers == [Linkers EXCEPT !.kinds = @ \union {"drop"}, !.ops = {o1}]

\* Suggestions for an incident whose alerts change.
Planners ==
  Client({"suggest", "assign_alert"}, {o1, o2},
         {Row("hijack", p1, as1), Row("moas", p1, as2), Row("rpki_invalid", p2, None),
          Row("route_leak", p2, as1), Row("withdraw_flap", p1, None), Row("path_anomaly", p1, as1)},
         {i1}, {Plain, Request("P1", {p1}, <<as2>>, <<1>>)}, 1)

\* Evidence, actions and the review.
Responders ==
  Client({"execute", "forensic", "close_with_review"},
         {o1}, {Row("hijack", p1, as1)}, {i1}, {Request("P1", {p2}, <<>>, <<1>>)}, 2)
Librarians == [Responders EXCEPT !.kinds = {"forensic", "collect", "review", "close_and_review"}]

Notifiers == Client({"notify"}, {}, {}, {i1}, {Plain}, 1)
Publishers == Client({"publish"}, {}, {}, {}, {}, 1)
Testers == Client({"test"}, {}, {}, {}, {}, 1)

AllClients == {Writers, Editors, Linkers, Droppers, Planners, Responders, Librarians, Notifiers, Publishers, Testers}

SomeUpdates == {[status |-> "closed"], [status |-> "open"], [severity |-> "P1", status |-> "mitigating"]}

Symmetry == Permutations({o1, o2}) \union Permutations({g1, g2}) \union Permutations({s1, s2})

SomeAlertUpdates ==
  {[status |-> "false_positive", benign |-> TRUE]}

SomeTypeRequests == {EvidenceTypes, {"as_path"}}

SomeData == [p \in {p1, p2} |-> IF p = p1 THEN {"roa_vrp", "as_path"} ELSE {"roa_vrp"}]

SomeChannels ==
  [c \in {c1, c2, c3} |->
     CASE c = c1 -> [type |-> "webhook", configured |-> TRUE]
       [] c = c2 -> [type |-> "webhook", configured |-> FALSE]
       [] c = c3 -> [type |-> "slack", configured |-> FALSE]]

SomeIntegrations ==
  {[code |-> "a", type |-> "webhook", enabled |-> TRUE, configured |-> TRUE, tested |-> None],
   [code |-> "b", type |-> "syslog", enabled |-> TRUE, configured |-> TRUE, tested |-> None],
   [code |-> "b", type |-> "siem", enabled |-> FALSE, configured |-> FALSE, tested |-> None]}

SomeEventChannels == {<<"email", "webhook", "syslog">>, <<"webhook", "webhook">>}
=============================================================================
