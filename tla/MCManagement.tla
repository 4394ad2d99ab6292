---------------------------- MODULE MCManagement ----------------------------
(***************************************************************************)
(* An instance of Management for TLC: small tables for every part.         *)
(***************************************************************************)
EXTENDS Management, TLC

CONSTANTS x, y

Template(name, type, simple, variables, enabled) ==
  [name |-> name, vendor |-> "frr", type |-> type,
   text |-> simple, variables |-> variables, enabled |-> enabled]

\* One name requested twice, and a template that is there but disabled.
SomeTemplates ==
  {Template("a", "rov_policy", {"asn", "site"}, None, TRUE),
   Template("a", "rov_policy", {"site"}, [site |-> [required |-> TRUE, default |-> None]], TRUE),
   Template("b", "rtr_client", {"site"}, [site |-> [required |-> FALSE, default |-> 0]], FALSE)}

\* Too little, all that is required, a value of the caller's, and nulls.
SomeVariables ==
  {[asn |-> 0],
   [asn |-> 0, rtr_server |-> 0, rtr_port |-> 0],
   [asn |-> 0, rtr_server |-> 0, localpref_invalid |-> 0],
   [asn |-> None, localpref_valid |-> None]}

\* A user whose name is the address of the administrator.
SomeRegistrations == {[name |-> "mail", email |-> "other", password |-> "p"]}
SomeRoleLists == {{"super_admin", "no_such_role"}}
SomeUserUpdates == {[password |-> Unset, active |-> FALSE], [password |-> "q", active |-> TRUE]}

\* Many logins of one user; few, with two users and two sessions.
SomeAccountBounds ==
  {[users |-> 1, sessions |-> 1, logins |-> 3, time |-> 2],
   [users |-> 2, sessions |-> 2, logins |-> 1, time |-> 1]}

-----------------------------------------------------------------------------
(* Prefixes of two families with addresses of two bits; the last spelling  *)
(* of each list has host bits.                                             *)
V4(addr, len) == [family |-> 4, addr |-> addr, len |-> len]
V6(addr, len) == [family |-> 6, addr |-> addr, len |-> len]

SomeSpellings == {V4(0, 0), V4(1, 2), V4(0, 1), V4(2, 2), V6(0, 0), V6(0, 1), V4(3, 1)}
SomeRegistered == {V4(0, 0), V4(0, 2), V4(1, 1)}
SomeAnnounced == <<V4(0, 2), V4(1, 1)>>

\* Two trust anchors; spellings that name one, a part of one, both and none.
SomeTals == <<"arin", "ripe">>
SomePartly ==
  ("arin" :> {"arin"}) @@ ("ripe-rpki" :> {"ripe"}) @@ ("i" :> {"ripe", "arin"}) @@ ("" :> {})

SomeTargets == <<1, 2>>
SomeRoutes == (1 :> <<V4(2, 2)>>) @@ (2 :> <<V4(1, 1), V4(0, 2)>>)

Record(prefix, origin, max, anchor) ==
  [prefix |-> prefix, origin |-> origin, max |-> max, anchor |-> anchor]
SomeRoas ==
  (1 :> <<Record(V4(2, 1), 1, 0, "arin"), Record(V4(0, 0), 2, 2, "ripe-rpki")>>)
    @@ (2 :> <<Record(V4(3, 1), 2, 2, "i"), Record(V4(0, 1), 2, 1, "")>>)

\* A download that is well at once, after errors of the server and the network,
\* one refused, and one of a file without an address.
SomeDownloads ==
  {[responses |-> <<"ok">>, text |-> <<"comment", "rsync", "key">>],
   [responses |-> <<"server", "network", "ok">>, text |-> <<"rsync", "key", "key">>],
   [responses |-> <<"client", "ok">>, text |-> <<"rsync", "key">>],
   [responses |-> <<"ok">>, text |-> <<"key">>]}

\* A request that is answered at the last attempt, and one that cannot be read.
SomeAnswers == {<<"network", "server", "network", "ok">>, <<"unreadable", "ok">>}
=============================================================================
