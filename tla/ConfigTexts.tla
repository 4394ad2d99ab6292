----------------------------- MODULE ConfigTexts -----------------------------
(***************************************************************************)
(* The two functions of services/device_config_service.py that look at a   *)
(* finished text: diff_configs and validate_config.                        *)
(***************************************************************************)
EXTENDS Naturals, FiniteSets, SequencesExt

-----------------------------------------------------------------------------
(* diff_configs.  Lines are values; which equal lines of the two texts are held
   to be the same is difflib's choice. *)

(* The opcodes for an increasing matching of equal lines, a set of pairs of
   positions: the stretches between two matches, 1-based and inclusive. *)
Ends(a, b, matching) == matching \union {<<0, 0>>, <<Len(a) + 1, Len(b) + 1>>}

Neighbours(ends, p, q) == p[1] < q[1] /\ \A r \in ends : r[1] <= p[1] \/ q[1] <= r[1]

Stretch(p, q) == [i1 |-> p[1] + 1, i2 |-> q[1] - 1, j1 |-> p[2] + 1, j2 |-> q[2] - 1]

Stretches(a, b, matching) ==
  LET ends == Ends(a, b, matching)
  IN  {Stretch(pair[1], pair[2]) : pair \in {p \in ends \X ends : Neighbours(ends, p[1], p[2])}}

Tag(s) ==
  CASE s.i1 > s.i2 /\ s.j1 > s.j2 -> "equal"
    [] s.i1 > s.i2 /\ s.j1 <= s.j2 -> "insert"
    [] s.i1 <= s.i2 /\ s.j1 > s.j2 -> "delete"
    [] OTHER -> "replace"

(* 0 stands for no line. *)
Entry(type, m, n) == [type |-> type, a |-> m, b |-> n]

EntriesOf(s) ==
  LET height == s.i2 + 1 - s.i1
      depth == s.j2 + 1 - s.j1
      longest == IF height > depth THEN height ELSE depth
  IN  CASE Tag(s) = "equal" -> {}
        [] Tag(s) = "delete" -> {Entry("removed", m, 0) : m \in s.i1..s.i2}
        [] Tag(s) = "insert" -> {Entry("added", 0, n) : n \in s.j1..s.j2}
        [] Tag(s) = "replace" ->
             {Entry("modified", IF k < height THEN s.i1 + k ELSE 0, IF k < depth THEN s.j1 + k ELSE 0) :
                k \in 0..(longest - 1)}

Entries(a, b, matching) == UNION {EntriesOf(s) : s \in Stretches(a, b, matching)}

Counted(entries, type) == Cardinality({e \in entries : e.type = type})

Identical(a, b, matching) == Entries(a, b, matching) = {}

(* What the caller can do with the answer: every line the entries do not take away
   and every line they bring, in the order of the second text. *)
Position(places, n) == Cardinality({k \in places : k < n})

Applied(a, b, entries) ==
  LET kept == {m \in DOMAIN a : \A e \in entries : e.a # m}
      brought == {e.b : e \in entries} \ {0}
  IN  [n \in DOMAIN b |->
         IF n \in brought THEN b[n]
         ELSE a[CHOOSE m \in kept : Position(kept, m) = Position(DOMAIN b \ brought, n)]]

-----------------------------------------------------------------------------
(* validate_config.  A text is the sequence of its brackets; the placeholders left
   in it lead to warnings, which make no text invalid. *)

Closing == [o \in {"{", "(", "["} |-> CASE o = "{" -> "}" [] o = "(" -> ")" [] o = "[" -> "]"]
Openings == DOMAIN Closing
Closings == {Closing[o] : o \in Openings}

Unopened == [stack |-> <<>>, errors |-> 0]

\* Mutant of Scanned: what was opened need not fit.
ScannedAny(scan, c) ==
  IF c \in Openings THEN [scan EXCEPT !.stack = Append(@, c)]
  ELSE IF scan.stack = <<>> THEN [scan EXCEPT !.errors = @ + 1]
  ELSE [scan EXCEPT !.stack = Front(@)]

(* One bracket of the text. *)
Scanned(scan, c) ==
  IF c \in Openings THEN [scan EXCEPT !.stack = Append(@, c)]
  ELSE IF scan.stack = <<>> THEN [scan EXCEPT !.errors = @ + 1]
  ELSE [stack |-> Front(scan.stack), errors |-> scan.errors + IF Closing[Last(scan.stack)] = c THEN 0 ELSE 1]

BracketScan(text) ==
  LET scan[n \in 0..Len(text)] == IF n = 0 THEN Unopened ELSE Scanned(scan[n - 1], text[n])
  IN  scan[Len(text)]

(* Empty texts are refused; an open bracket is an error. *)
Valid(text) ==
  LET scan == BracketScan(text)
  IN  text # <<>> /\ scan.errors + Len(scan.stack) = 0

(* Reference: the balanced texts of at most n brackets, each enclosed by two brackets
   or made of two, from those that are shorter. *)
Enclosed(texts) == UNION {{<<o>> \o t \o <<Closing[o]>> : t \in texts} : o \in Openings}
Joined(texts) == UNION {{t \o u : u \in texts} : t \in texts}

Balanced[n \in Nat] ==
  IF n < 2 THEN {<<>>} ELSE Balanced[n - 2] \union Enclosed(Balanced[n - 2]) \union Joined(Balanced[n - 2])
=============================================================================
