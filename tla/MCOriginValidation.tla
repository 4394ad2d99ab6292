-------------------------- MODULE MCOriginValidation --------------------------
(***************************************************************************)
(* Instances of OriginValidation for TLC: addresses of two bits, prefixes  *)
(* of every length, one of them spelled with a host bit.                   *)
(***************************************************************************)
EXTENDS OriginValidation, TLC

CONSTANTS all, half, one, other, loose, a1, a2

SomePrefixes == {all, half, one, other, loose}
SomeASNs == {a1, a2}
SomeLengths == 0..Width

SomeSpelled ==
  [p \in SomePrefixes |->
     CASE p = all   -> [addr |-> 0, len |-> 0]
       [] p = half  -> [addr |-> 2, len |-> 1]
       [] p = one   -> [addr |-> 2, len |-> 2]
       [] p = other -> [addr |-> 3, len |-> 2]
       [] p = loose -> [addr |-> 3, len |-> 1]]

Content(p, a, m) == [f \in Fields |-> CASE f = "prefix" -> p [] f = "origin" -> a [] f = "max" -> m]

\* Minimal, wide and default ROAs.
SomeContents == {Content(all, a1, 1), Content(half, a1, 2), Content(one, a2, None)}

\* Origin, max_length (0 and too small ones too), prefix of the same and of
\* another length, a spelling with a host bit, a whole ROA.
SomeChanges == {Content(None, a2, None), Content(None, None, 0), Content(None, None, 1),
                Content(other, a1, None), Content(half, a2, 2), Content(loose, a1, None)}

\* Requests of low or medium risk are approved at once.
Automatic == {{[type |-> "auto_approve", enabled |-> TRUE, priority |-> 100,
                types |-> ChangeTypes, risks |-> Risks,
                importances |-> Importances \union {None}]}}

Symmetry == Permutations(Requests) \union Permutations(Roas)
=============================================================================
