----------------------------- MODULE MCROAChange -----------------------------
(***************************************************************************)
(* Instances of ROAChange for TLC: contents, changes and approval rules.   *)
(***************************************************************************)
EXTENDS ROAChange, TLC

CONSTANTS p1, p2, a1, a2, m1

Content(p, a, m) == [f \in Fields |-> CASE f = "prefix" -> p [] f = "origin" -> a [] f = "max" -> m]

\* A ROA without a max_length: the second change gives it one.
OneContent == {Content(p1, a1, None)}

\* Another origin, a full content, a bad prefix p2.
SomeChanges == {Content(None, a2, None), Content(p1, a2, m1), Content(p2, a1, None)}
OneChange == {Content(p1, a2, m1)}

\* A rule that applies to every request of low or medium risk, or to all.
Rule(type, risks) == [type |-> type, enabled |-> TRUE, priority |-> 100,
                      types |-> ChangeTypes, risks |-> risks,
                      importances |-> Importances \union {None}]

\* Automatic approval with a second rule, two approvals, behind it; and either
\* no rule at all or the committee's three approvals for creations alone.
Strict == {Rule("auto_approve", Risks), [Rule("dual_approval", Risks) EXCEPT !.priority = 200]}
TwoRules == {{}, Strict}
CommitteeRules == {Strict, {[Rule("committee", Risks) EXCEPT !.types = {"create"}]}}

Symmetry == Permutations(Ops) \union Permutations(VoteIds)
              \union Permutations(Requests) \union Permutations(Roas)
=============================================================================
