------------------------- MODULE DeviceConfigProofs -------------------------
(***************************************************************************)
(* The theorem about device configurations, for any templates, variables,  *)
(* lines and bounds: TextsSound.                                           *)
(*                                                                         *)
(* TextInv says that no answer of a generation has a hole, and what is     *)
(* compared and validated.  A diff is sound since the ends of its          *)
(* stretches rise in both texts, so that each line lies in one stretch or  *)
(* is matched.  Brackets are valid just when they are balanced, by         *)
(* induction over the text in both directions.                             *)
(***************************************************************************)
EXTENDS ManagementProofs

LEMMA GreatestOne ==
  ASSUME NEW S \in SUBSET Nat, IsFiniteSet(S), S # {}
  PROVE  \E m \in S : \A n \in S : n <= m
<1> DEFINE P == {n \in Nat : \A Q \in SUBSET Nat :
                   IsFiniteSet(Q) /\ Cardinality(Q) = n + 1 => \E m \in Q : \A k \in Q : k <= m}
<1>1. 0 \in P
  <2>1. ASSUME NEW Q \in SUBSET Nat, IsFiniteSet(Q), Cardinality(Q) = 1 PROVE \E m \in Q : \A k \in Q : k <= m
    <3>1. PICK q : Q = {q}
      BY <2>1, FS_Singleton
    <3> QED
      BY <3>1
  <2> QED
    BY <2>1
<1>2. ASSUME NEW n \in P PROVE n + 1 \in P
  <2>1. ASSUME NEW Q \in SUBSET Nat, IsFiniteSet(Q), Cardinality(Q) = n + 2 PROVE \E m \in Q : \A k \in Q : k <= m
    <3>1. PICK q \in Q : TRUE
      <4>1. n + 2 # 0 /\ Q # {}
        BY <2>1, FS_EmptySet
      <4> QED
        BY <4>1
    <3>2. IsFiniteSet(Q \ {q}) /\ Cardinality(Q \ {q}) = n + 1
      BY <2>1, FS_RemoveElement
    <3>3. PICK m \in Q \ {q} : \A k \in Q \ {q} : k <= m
      BY <3>2
    <3>4. CASE q <= m
      BY <3>3, <3>4
    <3>5. CASE ~(q <= m)
      BY <3>3, <3>5
    <3> QED
      BY <3>4, <3>5
  <2> QED
    BY <2>1
<1>3. \A n \in Nat : n \in P
  <2> HIDE DEF P
  <2>1. P \in SUBSET Nat
    BY DEF P
  <2> QED
    BY <1>1, <1>2, <2>1, SetInduction
<1>4. Cardinality(S) - 1 \in Nat /\ (Cardinality(S) - 1) + 1 = Cardinality(S)
  BY FS_EmptySet, FS_CardinalityType
<1> QED
  BY <1>3, <1>4

(* A hole is noticed.  Of the placeholders of the built-in texts the       *)
(* preferences have defaults, the time of the generation is added, and the *)
(* others are required.                                                    *)
NoHole(result) ==
  result.success /\ result.source = None => Blank(result.text, result.values) \subseteq result.warnings

Ours == Server \cup Local \cup Preferences \cup {"generated_at"}

LEMMA DefaultPlaceholders ==
  \A vendor \in Vendors :
    /\ DOMAIN DefaultTemplates[vendor] = TemplateTypes
    /\ \A type \in TemplateTypes : DefaultTemplates[vendor][type] \subseteq Ours
<1>1. ASSUME NEW rov, NEW rollback, rov \subseteq Ours, rollback \subseteq Ours
      PROVE  /\ DOMAIN Four(rov, rollback) = TemplateTypes
             /\ \A type \in TemplateTypes : Four(rov, rollback)[type] \subseteq Ours
  BY <1>1 DEF Four, TemplateTypes, Ours
<1>2. \A vendor \in Vendors : \E rov, rollback \in SUBSET Ours : DefaultTemplates[vendor] = Four(rov, rollback)
  <2>1. \A vendor \in Vendors : DefaultTemplates[vendor] \in
          {CiscoIosXe, CiscoIosXr, JuniperJunos, HuaweiVrp, H3c, AristaEos, NokiaSros, Frr, Bird, OpenBgpd}
    BY DEF DefaultTemplates, Vendors
  <2>2. /\ {} \in SUBSET Ours /\ Local \in SUBSET Ours /\ Server \in SUBSET Ours
        /\ (Server \cup Local) \in SUBSET Ours /\ (Local \cup {"rtr_server"}) \in SUBSET Ours
    BY DEF Ours, Server, Local
  <2>3. \A table \in {CiscoIosXe, CiscoIosXr, JuniperJunos, HuaweiVrp, H3c, AristaEos, NokiaSros, Frr, Bird, OpenBgpd} :
          \E rov, rollback \in SUBSET Ours : table = Four(rov, rollback)
    BY <2>2 DEF CiscoIosXe, CiscoIosXr, JuniperJunos, HuaweiVrp, H3c, AristaEos, NokiaSros, Frr, Bird, OpenBgpd
  <2> QED
    BY <2>1, <2>3
<1> QED
  BY <1>1, <1>2

LEMMA PolicyPlaceholders ==
  \A vendor \in Vendors : \A policy \in Policies : PolicyTemplates[vendor][policy] \subseteq Ours
<1>1. ASSUME NEW drop, NEW lower, NEW monitor, drop \subseteq Ours, lower \subseteq Ours, monitor \subseteq Ours
      PROVE  \A policy \in Policies : Three(drop, lower, monitor)[policy] \subseteq Ours
  BY <1>1 DEF Three, Policies
<1>2. \A vendor \in Vendors :
        \E drop, lower, monitor \in SUBSET Ours : PolicyTemplates[vendor] = Three(drop, lower, monitor)
  <2>1. \A vendor \in Vendors : PolicyTemplates[vendor] \in
          {CiscoIosXePolicies, CiscoIosXrPolicies, JuniperJunosPolicies, HuaweiVrpPolicies, H3cPolicies,
           AristaEosPolicies, NokiaSrosPolicies, FrrPolicies, BirdPolicies, OpenBgpdPolicies}
    BY DEF PolicyTemplates, DefaultTemplates, Vendors
  <2>2. /\ {} \in SUBSET Ours /\ Local \in SUBSET Ours /\ Server \in SUBSET Ours
        /\ Preferences \in SUBSET Ours /\ (Local \cup Preferences) \in SUBSET Ours
    BY DEF Ours, Server, Local
  <2>3. \A table \in {CiscoIosXePolicies, CiscoIosXrPolicies, JuniperJunosPolicies, HuaweiVrpPolicies, H3cPolicies,
                      AristaEosPolicies, NokiaSrosPolicies, FrrPolicies, BirdPolicies, OpenBgpdPolicies} :
          \E drop, lower, monitor \in SUBSET Ours : table = Three(drop, lower, monitor)
    BY <2>2 DEF CiscoIosXePolicies, CiscoIosXrPolicies, JuniperJunosPolicies, HuaweiVrpPolicies, H3cPolicies,
                AristaEosPolicies, NokiaSrosPolicies, FrrPolicies, BirdPolicies, OpenBgpdPolicies
  <2> QED
    BY <2>1, <2>3
<1> QED
  BY <1>1, <1>2

LEMMA CommonOnes ==
  LET variables == CommonVariables IN
  /\ \A v \in Preferences : v \in DOMAIN variables /\ variables[v].default # None
  /\ \A v \in Server \cup Local : v \in DOMAIN variables /\ variables[v].required
BY ConfigsAssumption DEF CommonVariables, Variable, Preferences, Server, Local

LEMMA DefaultsFilled ==
  ASSUME NEW values, "generated_at" \in DOMAIN values, NEW text, text \subseteq Ours,
         NEW vendor, NEW kind, NEW source
  PROVE  NoHole(Result(vendor, kind, source, text, WithDefaults(values, CommonVariables), CommonVariables))
<1> DEFINE variables == CommonVariables
           filled == WithDefaults(values, variables)
           result == Result(vendor, kind, source, text, filled, variables)
<1>1. DOMAIN filled = DOMAIN values \cup {v \in DOMAIN variables \ DOMAIN values : variables[v].default # None}
  BY DEF WithDefaults
<1>2. result.text = text /\ result.values = filled /\ result.warnings = Missing(filled, variables)
  BY DEF Result
<1> HIDE DEF result, filled, variables
<1>3. ASSUME NEW v \in text, v \notin DOMAIN filled PROVE v \in Missing(filled, variables)
  <2>1. v \in Ours /\ v # "generated_at"
    BY <1>1, <1>3
  <2>2. v \notin Preferences
    BY <1>1, <1>3, CommonOnes DEF variables
  <2>3. v \in Server \cup Local
    BY <2>1, <2>2 DEF Ours
  <2> QED
    BY <1>3, <2>3, CommonOnes DEF Missing, variables
<1>4. NoHole(result)
  BY <1>2, <1>3 DEF NoHole, Blank
<1> QED
  BY <1>4 DEF result, filled, variables

LEMMA GeneratedWhole ==
  ASSUME NEW vendor \in Vendors, NEW type, NEW given
  PROVE  NoHole(Generate(vendor, type, given))
<1> DEFINE values == Add(given, "generated_at", 0)
           found == Candidates(vendor, type)
           newest == CHOOSE t \in found : \A u \in found : u <= t
           result == Generate(vendor, type, given)
           text == DefaultTemplates[vendor][type]
<1>1. "generated_at" \in DOMAIN values
  BY DEF Add
<1>2. CASE found # {}
  <2>1. result.source = newest
    BY <1>2 DEF Generate, Result
  <2>2. found \in SUBSET Nat /\ IsFiniteSet(found)
    BY ConfigsAssumption, FS_Subset DEF Candidates
  <2>3. newest \in found
    <3> HIDE DEF found
    <3> QED
      BY <1>2, <2>2, GreatestOne
  <2>4. newest # None
    BY <2>2, <2>3, ConfigsAssumption
  <2> HIDE DEF newest, result, found
  <2>5. result.source # None
    BY <2>1, <2>4
  <2> QED
    BY <2>5 DEF NoHole, result
<1>3. CASE found = {} /\ type \in DOMAIN DefaultTemplates[vendor]
  <2>1. result = Result(vendor, type, None, text, WithDefaults(values, CommonVariables), CommonVariables)
    BY <1>3 DEF Generate
  <2>2. text \subseteq Ours
    BY <1>3, DefaultPlaceholders
  <2> HIDE DEF values, result, text
  <2> QED
    <3>1. NoHole(result)
      BY <1>1, <2>1, <2>2, DefaultsFilled
    <3> QED
      BY <3>1 DEF result
<1>4. CASE found = {} /\ type \notin DOMAIN DefaultTemplates[vendor]
  BY <1>4 DEF Generate, Failure, NoHole
<1> QED
  BY <1>2, <1>3, <1>4

LEMMA PolicyWhole ==
  ASSUME NEW vendor \in Vendors, NEW policy \in Policies, NEW given
  PROVE  NoHole(GenerateByPolicy(vendor, policy, given))
<1> DEFINE values == Add(Add(given, "generated_at", 0), "policy", 0)
           text == PolicyTemplates[vendor][policy]
<1>1. "generated_at" \in DOMAIN values
  BY DEF Add
<1>2. text \subseteq Ours
  BY PolicyPlaceholders
<1>3. GenerateByPolicy(vendor, policy, given) =
        Result(vendor, policy, None, text, WithDefaults(values, CommonVariables), CommonVariables)
  BY DEF GenerateByPolicy
<1> HIDE DEF values, text
<1> QED
  BY <1>1, <1>2, <1>3, DefaultsFilled

TextInv ==
  /\ \A n \in DOMAIN generated : NoHole(generated[n])
  /\ compared.a \in Texts(Lines, MaxLines) /\ compared.b \in Texts(Lines, MaxLines)
  /\ compared.matching \in Matchings(compared.a, compared.b)
  /\ validated \in Texts(Openings \cup Closings, MaxBrackets)

LEMMA TextInitInv == DevicesInit => TextInv
<1> SUFFICES ASSUME DevicesInit PROVE TextInv
  OBVIOUS
<1>1. \A letters : <<>> \in Texts(letters, MaxLines) /\ <<>> \in Texts(letters, MaxBrackets)
  <2>1. \A letters : <<>> \in [1 .. 0 -> letters]
    OBVIOUS
  <2>2. 0 \in 0 .. MaxLines /\ 0 \in 0 .. MaxBrackets
    BY ConfigsAssumption
  <2> QED
    BY <2>1, <2>2 DEF Texts
<1>2. {} \in Matchings(<<>>, <<>>)
  BY DEF Matchings
<1> QED
  BY <1>1, <1>2 DEF DevicesInit, TextInv, Same

LEMMA TextNextInv == TextInv /\ [DevicesNext]_deviceVars => TextInv'
<1> SUFFICES ASSUME TextInv, [DevicesNext]_deviceVars PROVE TextInv'
  OBVIOUS
<1>1. CASE UNCHANGED <<generated, compared, validated>>
  BY <1>1 DEF TextInv
<1>2. ASSUME UNCHANGED <<compared, validated>>, NEW R, \A n \in DOMAIN generated' : generated'[n] \in R, \A r \in R : NoHole(r)
      PROVE  TextInv'
  BY <1>2 DEF TextInv
<1>3. ASSUME NEW vendor \in Vendors, NEW type, NEW given, GenerateOne(vendor, type, given) PROVE TextInv'
  <2> DEFINE r == Generate(vendor, type, given)
  <2>1. NoHole(r)
    BY GeneratedWhole
  <2>2. generated' = <<r>> /\ UNCHANGED <<compared, validated>>
    BY <1>3 DEF GenerateOne
  <2> HIDE DEF r
  <2>3. \A n \in DOMAIN generated' : generated'[n] = r
    BY <2>2
  <2> QED
    BY <2>1, <2>2, <2>3 DEF TextInv
<1>4. ASSUME NEW vendor \in Vendors, NEW policy \in Policies, NEW given, GenerateForPolicy(vendor, policy, given) PROVE TextInv'
  <2> DEFINE r == GenerateByPolicy(vendor, policy, given)
  <2>1. NoHole(r)
    BY PolicyWhole
  <2>2. generated' = <<r>> /\ UNCHANGED <<compared, validated>>
    BY <1>4 DEF GenerateForPolicy
  <2> HIDE DEF r
  <2>3. \A n \in DOMAIN generated' : generated'[n] = r
    BY <2>2
  <2> QED
    BY <2>1, <2>2, <2>3 DEF TextInv
<1>5. ASSUME NEW vendor \in Vendors, NEW items, GenerateBatch(vendor, items) PROVE TextInv'
  <2> DEFINE g == CHOOSE given \in Given : TRUE
             R == {Generate(vendor, items[n], g) : n \in DOMAIN items}
  <2>1. \A r \in R : NoHole(r)
    BY GeneratedWhole
  <2>2. generated' = [n \in DOMAIN items |-> Generate(vendor, items[n], g)] /\ UNCHANGED <<compared, validated>>
    BY <1>5 DEF GenerateBatch
  <2>3. \A n \in DOMAIN generated' : generated'[n] \in R
    BY <2>2
  <2> HIDE DEF R
  <2> QED
    BY <1>2, <2>1, <2>2, <2>3
<1>6. ASSUME NEW a \in Texts(Lines, MaxLines), NEW b \in Texts(Lines, MaxLines), Compare(a, b) PROVE TextInv'
  <2>1. PICK m \in Matchings(a, b) : compared' = [a |-> a, b |-> b, matching |-> m]
    BY <1>6 DEF Compare
  <2> QED
    BY <1>6, <2>1 DEF Compare, TextInv
<1>7. ASSUME NEW text \in Texts(Openings \cup Closings, MaxBrackets), Validate(text) PROVE TextInv'
  BY <1>7 DEF Validate, TextInv
<1>8. ASSUME NEW t, NEW row, BeginCreateTemplate(t, row) \/ UpdateTemplate(t, row) PROVE TextInv'
  BY <1>1, <1>8 DEF BeginCreateTemplate, UpdateTemplate
<1>9. ASSUME NEW t, CommitCreateTemplate \/ DeleteTemplate(t) PROVE TextInv'
  BY <1>1, <1>9 DEF CommitCreateTemplate, DeleteTemplate
<1>10. CASE UNCHANGED deviceVars
  BY <1>1, <1>10 DEF deviceVars
<1> QED
  BY <1>3, <1>4, <1>5, <1>6, <1>7, <1>8, <1>9, <1>10 DEF DevicesNext

-----------------------------------------------------------------------------
(* Comparisons.  The ends of the stretches rise in both texts; a line that *)
(* is not matched lies in one stretch, between the last end before it and  *)
(* the first one after it.                                                 *)
LEMMA EndsOf ==
  ASSUME NEW A, NEW a \in Seq(A), NEW b \in Seq(A), NEW m \in Matchings(a, b), NEW p \in Ends(a, b, m)
  PROVE  /\ p[1] \in 0 .. Len(a) + 1 /\ p[2] \in 0 .. Len(b) + 1 /\ p = <<p[1], p[2]>>
         /\ p[1] \in 1 .. Len(a) \/ p[2] \in 1 .. Len(b) => p \in m /\ p \in (DOMAIN a) \X (DOMAIN b) /\ a[p[1]] = b[p[2]]
         /\ p \notin m => (p[1] = 0 /\ p[2] = 0) \/ (p[1] = Len(a) + 1 /\ p[2] = Len(b) + 1)
<1>1. p \in m \/ p = <<0, 0>> \/ p = <<Len(a) + 1, Len(b) + 1>>
  BY DEF Ends
<1>2. p \in m => p \in (DOMAIN a) \X (DOMAIN b) /\ a[p[1]] = b[p[2]]
  BY DEF Matchings
<1>3. p \in m => p[1] \in 1 .. Len(a) /\ p[2] \in 1 .. Len(b) /\ p = <<p[1], p[2]>>
  BY <1>2
<1>4. Len(a) \in Nat /\ Len(b) \in Nat
  OBVIOUS
<1> QED
  BY <1>1, <1>2, <1>3, <1>4

LEMMA EndsOrder ==
  ASSUME NEW A, NEW a \in Seq(A), NEW b \in Seq(A), NEW m \in Matchings(a, b),
         NEW p \in Ends(a, b, m), NEW q \in Ends(a, b, m)
  PROVE  (p[1] < q[1] <=> p[2] < q[2]) /\ (p[1] = q[1] => p = q) /\ (p[2] = q[2] => p = q)
<1>1. Len(a) \in Nat /\ Len(b) \in Nat
  OBVIOUS
<1>2. /\ p[1] \in 0 .. Len(a) + 1 /\ p[2] \in 0 .. Len(b) + 1 /\ p = <<p[1], p[2]>>
      /\ p[1] \in 1 .. Len(a) \/ p[2] \in 1 .. Len(b) => p \in m
      /\ p \notin m => (p[1] = 0 /\ p[2] = 0) \/ (p[1] = Len(a) + 1 /\ p[2] = Len(b) + 1)
      /\ p \in m => p[1] \in 1 .. Len(a) /\ p[2] \in 1 .. Len(b)
  BY EndsOf DEF Matchings
<1>3. /\ q[1] \in 0 .. Len(a) + 1 /\ q[2] \in 0 .. Len(b) + 1 /\ q = <<q[1], q[2]>>
      /\ q[1] \in 1 .. Len(a) \/ q[2] \in 1 .. Len(b) => q \in m
      /\ q \notin m => (q[1] = 0 /\ q[2] = 0) \/ (q[1] = Len(a) + 1 /\ q[2] = Len(b) + 1)
      /\ q \in m => q[1] \in 1 .. Len(a) /\ q[2] \in 1 .. Len(b)
  BY EndsOf DEF Matchings
<1>4. p \in m /\ q \in m /\ p # q => (p[1] < q[1] /\ p[2] < q[2]) \/ (q[1] < p[1] /\ q[2] < p[2])
  BY DEF Matchings
<1>5. /\ p[1] \in Int /\ p[2] \in Int /\ q[1] \in Int /\ q[2] \in Int
  BY <1>1, <1>2, <1>3
<1>6. CASE p \in m /\ q \in m
  BY <1>4, <1>5, <1>6
<1>7. CASE ~(p \in m /\ q \in m)
  BY <1>1, <1>2, <1>3, <1>5, <1>7
<1> QED
  BY <1>6, <1>7

LEMMA EndsAll ==
  ASSUME NEW a, NEW b, NEW m
  PROVE  m \subseteq Ends(a, b, m) /\ <<0, 0>> \in Ends(a, b, m) /\ <<Len(a) + 1, Len(b) + 1>> \in Ends(a, b, m)
BY DEF Ends

LEMMA LeastOne ==
  ASSUME NEW S \in SUBSET Nat, S # {}
  PROVE  \E m \in S : \A n \in S : m <= n
<1>1. PICK m \in S : \A n \in S : ~(<<n, m>> \in OpToRel(<, Nat))
  BY NatLessThanWellFounded, WFMin
<1>2. \A n \in S : ~(n < m)
  BY <1>1 DEF OpToRel
<1> QED
  BY <1>2

LEMMA AroundOne ==
  ASSUME NEW S \in SUBSET Nat, NEW low \in S, NEW high \in S, NEW i \in Nat, low < i, i < high, i \notin S
  PROVE  \E u, w \in S : u < i /\ i < w /\ \A r \in S : r <= u \/ w <= r
<1> DEFINE before == {r \in S : r < i}
           after == {r \in S : i < r}
<1>1. IsFiniteSet(before)
  <2>1. before \subseteq 0 .. i
    <3> SUFFICES ASSUME NEW r \in S, r < i PROVE r \in 0 .. i
      OBVIOUS
    <3>1. r \in Nat
      OBVIOUS
    <3> QED
      BY <3>1
  <2>2. IsFiniteSet(0 .. i)
    BY FS_Interval
  <2> HIDE DEF before
  <2> QED
    BY <2>1, <2>2, FS_Subset
<1>2. PICK u \in before : \A r \in before : r <= u
  <2>1. before \in SUBSET Nat /\ before # {}
    OBVIOUS
  <2> QED
    BY <1>1, <2>1, GreatestOne
<1>3. PICK w \in after : \A r \in after : w <= r
  <2>1. after \in SUBSET Nat /\ after # {}
    OBVIOUS
  <2> HIDE DEF after
  <2> QED
    BY <2>1, LeastOne
<1>4. \A r \in S : r \in before \/ r \in after
  OBVIOUS
<1> QED
  BY <1>2, <1>3, <1>4

LEMMA StretchTypes ==
  ASSUME NEW A, NEW a \in Seq(A), NEW b \in Seq(A), NEW m \in Matchings(a, b), NEW s \in Stretches(a, b, m)
  PROVE  /\ s.i1 \in Nat \ {0} /\ s.i2 \in Nat /\ s.i1 <= s.i2 + 1 /\ s.i2 <= Len(a)
         /\ s.j1 \in Nat \ {0} /\ s.j2 \in Nat /\ s.j1 <= s.j2 + 1 /\ s.j2 <= Len(b)
         /\ \A p \in m : p[1] \notin s.i1 .. s.i2 /\ p[2] \notin s.j1 .. s.j2
<1> DEFINE ends == Ends(a, b, m)
<1>1. PICK p \in ends, q \in ends : Neighbours(ends, p, q) /\ s = Stretch(p, q)
  BY DEF Stretches
<1>2. s.i1 = p[1] + 1 /\ s.i2 = q[1] - 1 /\ s.j1 = p[2] + 1 /\ s.j2 = q[2] - 1
  BY <1>1 DEF Stretch
<1>3. p[1] < q[1] /\ \A r \in ends : r[1] <= p[1] \/ q[1] <= r[1]
  BY <1>1 DEF Neighbours
<1>4. /\ \A r \in ends : r[1] \in 0 .. Len(a) + 1 /\ r[2] \in 0 .. Len(b) + 1
      /\ \A r, t \in ends : (r[1] < t[1] <=> r[2] < t[2]) /\ (r[1] = t[1] => r = t)
  <2>1. \A r \in ends : r[1] \in 0 .. Len(a) + 1 /\ r[2] \in 0 .. Len(b) + 1
    BY EndsOf
  <2>2. ASSUME NEW r \in ends, NEW t \in ends
        PROVE  (r[1] < t[1] <=> r[2] < t[2]) /\ (r[1] = t[1] => r = t)
    BY EndsOrder
  <2> QED
    BY <2>1, <2>2
<1>5. m \subseteq ends /\ Len(a) \in Nat /\ Len(b) \in Nat
  <2>1. m \subseteq Ends(a, b, m)
    BY EndsAll
  <2>2. Len(a) \in Nat /\ Len(b) \in Nat
    OBVIOUS
  <2> QED
    BY <2>1, <2>2
<1> HIDE DEF ends
<1>6. \A r \in ends : r[1] \in Int /\ r[2] \in Int /\ p[2] < q[2]
  BY <1>3, <1>4, <1>5
<1>7. \A r \in ends : r[2] <= p[2] \/ q[2] <= r[2]
  <2> SUFFICES ASSUME NEW r \in ends, ~(r[2] <= p[2]), ~(q[2] <= r[2]) PROVE FALSE
    OBVIOUS
  <2>1. p[2] < r[2] /\ r[2] < q[2]
    BY <1>6
  <2>2. p[1] < r[1] /\ r[1] < q[1]
    BY <1>4, <2>1
  <2> QED
    BY <1>3, <1>6, <2>2
<1>8. ASSUME NEW r \in m PROVE r[1] \notin s.i1 .. s.i2 /\ r[2] \notin s.j1 .. s.j2
  <2>1. /\ r[1] \in Int /\ r[2] \in Int /\ p[1] \in Int /\ p[2] \in Int /\ q[1] \in Int /\ q[2] \in Int
        /\ r[1] <= p[1] \/ q[1] <= r[1]
        /\ r[2] <= p[2] \/ q[2] <= r[2]
    BY <1>3, <1>5, <1>6, <1>7
  <2> QED
    BY <1>2, <2>1
<1>9. /\ p[1] \in 0 .. Len(a) + 1 /\ p[2] \in 0 .. Len(b) + 1 /\ q[1] \in 0 .. Len(a) + 1 /\ q[2] \in 0 .. Len(b) + 1
  BY <1>4
<1>10. p[1] < q[1] /\ p[2] < q[2]
  BY <1>3, <1>6
<1>11. /\ s.i1 \in Nat \ {0} /\ s.i2 \in Nat /\ s.i1 <= s.i2 + 1 /\ s.i2 <= Len(a)
       /\ s.j1 \in Nat \ {0} /\ s.j2 \in Nat /\ s.j1 <= s.j2 + 1 /\ s.j2 <= Len(b)
  <2>1. /\ p[1] \in Nat /\ p[2] \in Nat /\ q[1] \in Nat \ {0} /\ q[2] \in Nat \ {0}
        /\ p[1] + 1 <= q[1] /\ p[2] + 1 <= q[2] /\ q[1] - 1 <= Len(a) /\ q[2] - 1 <= Len(b)
    BY <1>5, <1>9, <1>10
  <2>2. s.i1 \in Nat \ {0} /\ s.j1 \in Nat \ {0}
    BY <1>2, <2>1
  <2>3. s.i2 \in Nat /\ s.j2 \in Nat
    BY <1>2, <2>1
  <2>4. s.i2 <= Len(a) /\ s.j2 <= Len(b) /\ s.i1 <= s.i2 + 1 /\ s.j1 <= s.j2 + 1
    BY <1>2, <2>1
  <2> QED
    BY <2>2, <2>3, <2>4
<1> QED
  BY <1>8, <1>11

LEMMA StretchCovers ==
  ASSUME NEW A, NEW a \in Seq(A), NEW b \in Seq(A), NEW m \in Matchings(a, b)
  PROVE  /\ \A i \in 1 .. Len(a) : (\A p \in m : p[1] # i) => \E s \in Stretches(a, b, m) : i \in s.i1 .. s.i2
         /\ \A j \in 1 .. Len(b) : (\A p \in m : p[2] # j) => \E s \in Stretches(a, b, m) : j \in s.j1 .. s.j2
<1> DEFINE ends == Ends(a, b, m)
           last == <<Len(a) + 1, Len(b) + 1>>
           firsts == {p[1] : p \in ends}
           seconds == {p[2] : p \in ends}
<1>1. /\ \A r \in ends : r[1] \in 0 .. Len(a) + 1 /\ r[2] \in 0 .. Len(b) + 1
      /\ \A p, q \in ends : p[1] < q[1] <=> p[2] < q[2]
      /\ \A p \in ends : (p[1] \in 1 .. Len(a) \/ p[2] \in 1 .. Len(b)) => p \in m
      /\ <<0, 0>> \in ends /\ last \in ends
  BY EndsOf, EndsOrder, EndsAll
<1>2. Len(a) \in Nat /\ Len(b) \in Nat /\ last[1] = Len(a) + 1 /\ last[2] = Len(b) + 1
  OBVIOUS
<1>3. /\ firsts \in SUBSET Nat /\ 0 \in firsts /\ Len(a) + 1 \in firsts
      /\ seconds \in SUBSET Nat /\ 0 \in seconds /\ Len(b) + 1 \in seconds
  BY <1>1, <1>2
<1>4. \A p, q \in ends : Neighbours(ends, p, q) => Stretch(p, q) \in Stretches(a, b, m)
  <2> SUFFICES ASSUME NEW p \in ends, NEW q \in ends, Neighbours(ends, p, q)
               PROVE  Stretch(p, q) \in Stretches(a, b, m)
    OBVIOUS
  <2>1. /\ <<p, q>> \in {pair \in ends \X ends : Neighbours(ends, pair[1], pair[2])}
        /\ <<p, q>>[1] = p /\ <<p, q>>[2] = q
    OBVIOUS
  <2> QED
    BY <2>1 DEF Stretches
<1> HIDE DEF ends, last
<1>5. ASSUME NEW i \in 1 .. Len(a), \A p \in m : p[1] # i PROVE \E s \in Stretches(a, b, m) : i \in s.i1 .. s.i2
  <2>1. i \notin firsts
    BY <1>1, <1>5
  <2>2. PICK u \in firsts, w \in firsts : u < i /\ i < w /\ \A r \in firsts : r <= u \/ w <= r
    <3> HIDE DEF firsts
    <3>1. i \in Nat /\ 0 < i /\ i < Len(a) + 1
      BY <1>2
    <3> QED
      BY <1>3, <2>1, <3>1, AroundOne
  <2>3. PICK p \in ends, q \in ends : p[1] = u /\ q[1] = w
    OBVIOUS
  <2>4. Neighbours(ends, p, q)
    <3>1. \A r \in ends : r[1] \in firsts
      OBVIOUS
    <3> HIDE DEF firsts
    <3>2. u < w
      <4>1. u \in Nat /\ w \in Nat /\ i \in Nat
        BY <1>3
      <4> QED
        BY <2>2, <4>1
    <3> QED
      BY <2>2, <2>3, <3>1, <3>2 DEF Neighbours
  <2>5. i \in Stretch(p, q).i1 .. Stretch(p, q).i2
    <3> HIDE DEF firsts
    <3>1. u \in Nat /\ w \in Nat /\ i \in Nat
      BY <1>3
    <3> QED
      BY <2>2, <2>3, <3>1 DEF Stretch
  <2> QED
    BY <1>4, <2>4, <2>5
<1>6. ASSUME NEW j \in 1 .. Len(b), \A p \in m : p[2] # j PROVE \E s \in Stretches(a, b, m) : j \in s.j1 .. s.j2
  <2>1. j \notin seconds
    BY <1>1, <1>6
  <2>2. PICK u \in seconds, w \in seconds : u < j /\ j < w /\ \A r \in seconds : r <= u \/ w <= r
    <3> HIDE DEF seconds
    <3>1. j \in Nat /\ 0 < j /\ j < Len(b) + 1
      BY <1>2
    <3> QED
      BY <1>3, <2>1, <3>1, AroundOne
  <2>3. PICK p \in ends, q \in ends : p[2] = u /\ q[2] = w
    OBVIOUS
  <2>4. Neighbours(ends, p, q)
    <3>1. p[1] < q[1]
      BY <1>1, <1>3, <2>2, <2>3
    <3>2. ASSUME NEW r \in ends PROVE r[1] <= p[1] \/ q[1] <= r[1]
      <4>1. r[2] <= p[2] \/ q[2] <= r[2]
        BY <2>2, <2>3
      <4>2. /\ r[1] \in Int /\ r[2] \in Int /\ p[1] \in Int /\ p[2] \in Int /\ q[1] \in Int /\ q[2] \in Int
        BY <1>1, <1>2
      <4>3. (p[1] < r[1] <=> p[2] < r[2]) /\ (r[1] < q[1] <=> r[2] < q[2])
        BY <1>1
      <4> QED
        BY <4>1, <4>2, <4>3
    <3> QED
      BY <3>1, <3>2 DEF Neighbours
  <2>5. j \in Stretch(p, q).j1 .. Stretch(p, q).j2
    <3> HIDE DEF seconds
    <3>1. u \in Nat /\ w \in Nat /\ j \in Nat
      BY <1>3
    <3> QED
      BY <2>2, <2>3, <3>1 DEF Stretch
  <2> QED
    BY <1>4, <2>4, <2>5
<1> QED
  BY <1>5, <1>6

LEMMA StretchOne ==
  ASSUME NEW A, NEW a \in Seq(A), NEW b \in Seq(A), NEW m \in Matchings(a, b),
         NEW s \in Stretches(a, b, m), NEW t \in Stretches(a, b, m), NEW i,
         \/ i \in s.i1 .. s.i2 /\ i \in t.i1 .. t.i2
         \/ i \in s.j1 .. s.j2 /\ i \in t.j1 .. t.j2
  PROVE  s = t
<1> DEFINE ends == Ends(a, b, m)
<1>1. PICK p \in ends, q \in ends : Neighbours(ends, p, q) /\ s = Stretch(p, q)
  BY DEF Stretches
<1>2. PICK u \in ends, w \in ends : Neighbours(ends, u, w) /\ t = Stretch(u, w)
  BY DEF Stretches
<1>3. /\ s.i1 = p[1] + 1 /\ s.i2 = q[1] - 1 /\ s.j1 = p[2] + 1 /\ s.j2 = q[2] - 1
      /\ t.i1 = u[1] + 1 /\ t.i2 = w[1] - 1 /\ t.j1 = u[2] + 1 /\ t.j2 = w[2] - 1
  BY <1>1, <1>2 DEF Stretch
<1>4. /\ p[1] \in Int /\ p[2] \in Int /\ q[1] \in Int /\ q[2] \in Int
      /\ u[1] \in Int /\ u[2] \in Int /\ w[1] \in Int /\ w[2] \in Int
  BY EndsOf
<1>5. /\ u[1] <= p[1] \/ q[1] <= u[1]
      /\ w[1] <= p[1] \/ q[1] <= w[1]
      /\ p[1] <= u[1] \/ w[1] <= p[1]
      /\ q[1] <= u[1] \/ w[1] <= q[1]
  <2> HIDE DEF ends
  <2> QED
    BY <1>1, <1>2 DEF Neighbours
<1>6. (p[1] < w[1] <=> p[2] < w[2]) /\ (u[1] < q[1] <=> u[2] < q[2])
  BY EndsOrder
<1>7. p[1] < w[1] /\ u[1] < q[1]
  <2>1. CASE i \in s.i1 .. s.i2 /\ i \in t.i1 .. t.i2
    <3>1. i \in p[1] + 1 .. q[1] - 1 /\ i \in u[1] + 1 .. w[1] - 1
      BY <1>3, <2>1
    <3> QED
      BY <1>4, <3>1
  <2>2. CASE i \in s.j1 .. s.j2 /\ i \in t.j1 .. t.j2
    <3>1. i \in p[2] + 1 .. q[2] - 1 /\ i \in u[2] + 1 .. w[2] - 1
      BY <1>3, <2>2
    <3>2. p[2] < w[2] /\ u[2] < q[2]
      BY <1>4, <3>1
    <3> QED
      BY <1>6, <3>2
  <2> QED
    BY <2>1, <2>2
<1>8. p[1] = u[1] /\ q[1] = w[1]
  BY <1>4, <1>5, <1>7
<1>9. p = u /\ q = w
  BY <1>8, EndsOrder
<1> QED
  BY <1>1, <1>2, <1>9

(* The entries of one stretch mention each of its lines once.              *)
LEMMA EntriesOfOne ==
  ASSUME NEW s, s.i1 \in Nat \ {0}, s.i2 \in Nat, s.i1 <= s.i2 + 1, s.j1 \in Nat \ {0}, s.j2 \in Nat, s.j1 <= s.j2 + 1
  PROVE  /\ \A e \in EntriesOf(s) : (e.a = 0 \/ e.a \in s.i1 .. s.i2) /\ (e.b = 0 \/ e.b \in s.j1 .. s.j2)
         /\ \A i \in s.i1 .. s.i2 : \E e \in EntriesOf(s) : e.a = i
         /\ \A j \in s.j1 .. s.j2 : \E e \in EntriesOf(s) : e.b = j
         /\ \A d, e \in EntriesOf(s) : d # e => (d.a # e.a \/ d.a = 0) /\ (d.b # e.b \/ d.b = 0)
<1> DEFINE height == s.i2 + 1 - s.i1
           depth == s.j2 + 1 - s.j1
           longest == IF height > depth THEN height ELSE depth
           Modified(k) == Entry("modified", IF k < height THEN s.i1 + k ELSE 0, IF k < depth THEN s.j1 + k ELSE 0)
<1>1. height \in Nat /\ depth \in Nat /\ longest \in Nat /\ height <= longest /\ depth <= longest
  OBVIOUS
<1>2. \A type, i, j : Entry(type, i, j).a = i /\ Entry(type, i, j).b = j /\ Entry(type, i, j).type = type
  BY DEF Entry
<1>3. CASE s.i1 > s.i2 /\ s.j1 > s.j2
  <2>1. EntriesOf(s) = {}
    BY <1>3 DEF EntriesOf, Tag
  <2> QED
    BY <1>3, <2>1
<1>4. CASE s.i1 <= s.i2 /\ s.j1 > s.j2
  <2>1. EntriesOf(s) = {Entry("removed", i, 0) : i \in s.i1 .. s.i2}
    BY <1>4 DEF EntriesOf, Tag
  <2> QED
    BY <1>2, <1>4, <2>1
<1>5. CASE s.i1 > s.i2 /\ s.j1 <= s.j2
  <2>1. EntriesOf(s) = {Entry("added", 0, j) : j \in s.j1 .. s.j2}
    BY <1>5 DEF EntriesOf, Tag
  <2> QED
    BY <1>2, <1>5, <2>1
<1>6. CASE s.i1 <= s.i2 /\ s.j1 <= s.j2
  <2>1. EntriesOf(s) = {Modified(k) : k \in 0 .. longest - 1}
    BY <1>6 DEF EntriesOf, Tag
  <2>2. \A k \in 0 .. longest - 1 : /\ Modified(k).a = IF k < height THEN s.i1 + k ELSE 0
                                    /\ Modified(k).b = IF k < depth THEN s.j1 + k ELSE 0
    BY <1>2
  <2>3. /\ \A k \in 0 .. longest - 1 : (k < height => s.i1 + k \in s.i1 .. s.i2) /\ (k < depth => s.j1 + k \in s.j1 .. s.j2)
        /\ \A i \in s.i1 .. s.i2 : i - s.i1 \in 0 .. longest - 1 /\ i - s.i1 < height /\ s.i1 + (i - s.i1) = i
        /\ \A j \in s.j1 .. s.j2 : j - s.j1 \in 0 .. longest - 1 /\ j - s.j1 < depth /\ s.j1 + (j - s.j1) = j
    BY <1>1
  <2> HIDE DEF height, depth, longest, Modified
  <2>4. \A e \in EntriesOf(s) : (e.a = 0 \/ e.a \in s.i1 .. s.i2) /\ (e.b = 0 \/ e.b \in s.j1 .. s.j2)
    BY <2>1, <2>2, <2>3
  <2>5. \A i \in s.i1 .. s.i2 : \E e \in EntriesOf(s) : e.a = i
    BY <2>1, <2>2, <2>3
  <2>6. \A j \in s.j1 .. s.j2 : \E e \in EntriesOf(s) : e.b = j
    BY <2>1, <2>2, <2>3
  <2>7. ASSUME NEW k \in 0 .. longest - 1, NEW l \in 0 .. longest - 1, k # l
        PROVE  /\ Modified(k).a # Modified(l).a \/ Modified(k).a = 0
               /\ Modified(k).b # Modified(l).b \/ Modified(k).b = 0
    <3>1. k \in Nat /\ l \in Nat
      BY <1>1
    <3> QED
      BY <1>1, <2>2, <2>7, <3>1
  <2>8. \A d, e \in EntriesOf(s) : d # e => (d.a # e.a \/ d.a = 0) /\ (d.b # e.b \/ d.b = 0)
    BY <2>1, <2>7
  <2> QED
    BY <2>4, <2>5, <2>6, <2>8
<1> QED
  BY <1>3, <1>4, <1>5, <1>6

(* The lines the entries leave alone are the matched ones, and the matching *)
(* keeps their order.                                                      *)
LEMMA EntriesAll ==
  ASSUME NEW A, NEW a \in Seq(A), NEW b \in Seq(A), NEW m \in Matchings(a, b)
  PROVE  LET entries == Entries(a, b, m) IN
         /\ {i \in DOMAIN a : \A e \in entries : e.a # i} = {p[1] : p \in m}
         /\ DOMAIN b \ ({e.b : e \in entries} \ {0}) = {p[2] : p \in m}
         /\ \A d, e \in entries : d # e => (d.a # e.a \/ d.a = 0) /\ (d.b # e.b \/ d.b = 0)
<1> DEFINE entries == Entries(a, b, m)
           stretches == Stretches(a, b, m)
<1>1. \A e \in entries : \E s \in stretches : e \in EntriesOf(s)
  BY DEF Entries
<1>2. \A s \in stretches : \A e \in EntriesOf(s) : e \in entries
  BY DEF Entries
<1>3. DOMAIN a = 1 .. Len(a) /\ DOMAIN b = 1 .. Len(b)
  OBVIOUS
<1>4. \A p \in m : p[1] \in DOMAIN a /\ p[2] \in DOMAIN b
  BY DEF Matchings
<1> HIDE DEF entries, stretches
<1>5. ASSUME NEW s \in stretches
      PROVE  /\ \A e \in EntriesOf(s) : (e.a = 0 \/ e.a \in s.i1 .. s.i2) /\ (e.b = 0 \/ e.b \in s.j1 .. s.j2)
             /\ \A i \in s.i1 .. s.i2 : \E e \in EntriesOf(s) : e.a = i
             /\ \A j \in s.j1 .. s.j2 : \E e \in EntriesOf(s) : e.b = j
             /\ \A d, e \in EntriesOf(s) : d # e => (d.a # e.a \/ d.a = 0) /\ (d.b # e.b \/ d.b = 0)
             /\ \A p \in m : p[1] \notin s.i1 .. s.i2 /\ p[2] \notin s.j1 .. s.j2
  <2>1. /\ s.i1 \in Nat \ {0} /\ s.i2 \in Nat /\ s.i1 <= s.i2 + 1
        /\ s.j1 \in Nat \ {0} /\ s.j2 \in Nat /\ s.j1 <= s.j2 + 1
        /\ \A p \in m : p[1] \notin s.i1 .. s.i2 /\ p[2] \notin s.j1 .. s.j2
    BY StretchTypes DEF stretches
  <2> QED
    BY <2>1, EntriesOfOne
<1>6. \A i \in DOMAIN a : (\A e \in entries : e.a # i) <=> \E p \in m : p[1] = i
  <2> SUFFICES ASSUME NEW i \in DOMAIN a PROVE (\A e \in entries : e.a # i) <=> \E p \in m : p[1] = i
    OBVIOUS
  <2>1. ASSUME \A p \in m : p[1] # i PROVE \E e \in entries : e.a = i
    <3>1. PICK s \in stretches : i \in s.i1 .. s.i2
      BY <1>3, <2>1, StretchCovers DEF stretches
    <3> QED
      BY <1>2, <1>5, <3>1
  <2>2. ASSUME NEW p \in m, NEW e \in entries, e.a = p[1] PROVE FALSE
    <3>1. PICK s \in stretches : e \in EntriesOf(s)
      BY <1>1
    <3>2. e.a # 0
      BY <1>3, <1>4, <2>2
    <3> QED
      BY <1>5, <2>2, <3>1, <3>2
  <2> QED
    BY <2>1, <2>2
<1>7. \A j \in DOMAIN b : (\A e \in entries : e.b # j) <=> \E p \in m : p[2] = j
  <2> SUFFICES ASSUME NEW j \in DOMAIN b PROVE (\A e \in entries : e.b # j) <=> \E p \in m : p[2] = j
    OBVIOUS
  <2>1. ASSUME \A p \in m : p[2] # j PROVE \E e \in entries : e.b = j
    <3>1. PICK s \in stretches : j \in s.j1 .. s.j2
      BY <1>3, <2>1, StretchCovers DEF stretches
    <3> QED
      BY <1>2, <1>5, <3>1
  <2>2. ASSUME NEW p \in m, NEW e \in entries, e.b = p[2] PROVE FALSE
    <3>1. PICK s \in stretches : e \in EntriesOf(s)
      BY <1>1
    <3>2. e.b # 0
      BY <1>3, <1>4, <2>2
    <3> QED
      BY <1>5, <2>2, <3>1, <3>2
  <2> QED
    BY <2>1, <2>2
<1>8. ASSUME NEW d \in entries, NEW e \in entries, d # e
      PROVE  (d.a # e.a \/ d.a = 0) /\ (d.b # e.b \/ d.b = 0)
  <2>1. PICK s \in stretches, t \in stretches : d \in EntriesOf(s) /\ e \in EntriesOf(t)
    BY <1>1
  <2>2. CASE s = t
    BY <1>5, <1>8, <2>1, <2>2
  <2>3. CASE s # t
    <3>1. \A i : ~(i \in s.i1 .. s.i2 /\ i \in t.i1 .. t.i2) /\ ~(i \in s.j1 .. s.j2 /\ i \in t.j1 .. t.j2)
      BY <2>3, StretchOne DEF stretches
    <3> QED
      BY <1>5, <2>1, <3>1
  <2> QED
    BY <2>2, <2>3
<1>9. {i \in DOMAIN a : \A e \in entries : e.a # i} = {p[1] : p \in m}
  BY <1>4, <1>6
<1>10. DOMAIN b \ ({e.b : e \in entries} \ {0}) = {p[2] : p \in m}
  <2>1. 0 \notin DOMAIN b
    BY <1>3
  <2> QED
    BY <1>4, <1>7, <2>1
<1> QED
  BY <1>8, <1>9, <1>10 DEF entries

LEMMA MatchedPosition ==
  ASSUME NEW A, NEW a \in Seq(A), NEW b \in Seq(A), NEW m \in Matchings(a, b), NEW p \in m
  PROVE  LET kept == {q[1] : q \in m}
             left == {q[2] : q \in m}
         IN  /\ Position(kept, p[1]) = Position(left, p[2])
             /\ \A i \in kept : Position(kept, i) = Position(left, p[2]) => i = p[1]
<1> DEFINE kept == {q[1] : q \in m}
           left == {q[2] : q \in m}
           low(i) == {k \in kept : k < i}
           under == {k \in left : k < p[2]}
           pair(i) == CHOOSE q \in m : q[1] = i
           f == [i \in low(p[1]) |-> pair(i)[2]]
<1>1. \A q \in m : q[1] \in 1 .. Len(a) /\ q[2] \in 1 .. Len(b)
  BY DEF Matchings
<1>2. \A q, r \in m : (q[1] < r[1] <=> q[2] < r[2]) /\ (q[1] = r[1] => q = r) /\ (q[2] = r[2] => q = r)
  <2> SUFFICES ASSUME NEW q \in m, NEW r \in m
               PROVE  (q[1] < r[1] <=> q[2] < r[2]) /\ (q[1] = r[1] => q = r) /\ (q[2] = r[2] => q = r)
    OBVIOUS
  <2>1. q \in Ends(a, b, m) /\ r \in Ends(a, b, m)
    BY EndsAll
  <2> HIDE DEF kept, left
  <2> QED
    BY <2>1, EndsOrder
<1>3. \A i \in kept : pair(i) \in m /\ pair(i)[1] = i
  OBVIOUS
<1>4. /\ \A i \in kept : i \in 1 .. Len(a)
      /\ \A q \in m : q[1] \in kept /\ q[2] \in left
      /\ \A j \in left : \E q \in m : q[2] = j
  BY <1>1
<1>5. \A i \in Nat : IsFiniteSet(low(i)) /\ Cardinality(low(i)) \in Nat
  <2> SUFFICES ASSUME NEW i \in Nat PROVE IsFiniteSet(low(i)) /\ Cardinality(low(i)) \in Nat
    OBVIOUS
  <2>1. low(i) \subseteq 1 .. Len(a)
    BY <1>4
  <2>2. IsFiniteSet(1 .. Len(a))
    BY FS_Interval
  <2> HIDE DEF low
  <2> QED
    BY <2>1, <2>2, FS_Subset, FS_CardinalityType
<1> HIDE DEF kept, left, pair
<1>6. \A i \in low(p[1]) : i \in kept /\ i < p[1]
  OBVIOUS
<1>7. f \in Bijection(low(p[1]), under)
  <2>1. ASSUME NEW i \in low(p[1]) PROVE f[i] \in under
    <3>1. pair(i) \in m /\ pair(i)[1] = i /\ i < p[1]
      BY <1>3, <1>6
    <3>2. pair(i)[2] \in left /\ pair(i)[2] < p[2]
      BY <1>2, <1>4, <3>1
    <3> QED
      BY <3>2
  <2>2. \A i, j \in low(p[1]) : f[i] = f[j] => i = j
    BY <1>2, <1>3, <1>6
  <2>3. ASSUME NEW j \in under PROVE \E i \in low(p[1]) : f[i] = j
    <3>1. PICK q \in m : q[2] = j
      BY <1>4
    <3>2. q[1] \in low(p[1])
      BY <1>2, <1>4, <3>1
    <3>3. pair(q[1]) = q
      BY <1>2, <1>3, <1>4
    <3> QED
      BY <3>1, <3>2, <3>3
  <2>4. f \in [low(p[1]) -> under]
    BY <2>1
  <2>5. \A i \in low(p[1]) : f[i] = pair(i)[2]
    OBVIOUS
  <2> HIDE DEF f, low, under
  <2> QED
    BY <2>2, <2>3, <2>4 DEF Bijection, Injection, Surjection, IsInjective
<1>8. Cardinality(under) = Cardinality(low(p[1]))
  <2>1. IsFiniteSet(low(p[1]))
    BY <1>1, <1>5
  <2> HIDE DEF f, low, under
  <2> QED
    BY <1>7, <2>1, FS_Bijection DEF ExistsBijection
<1>9. \A i : Position(kept, i) = Cardinality(low(i)) /\ Position(left, p[2]) = Cardinality(under)
  BY DEF Position
<1>10. ASSUME NEW i \in kept, NEW j \in kept, i < j PROVE Cardinality(low(i)) # Cardinality(low(j))
  <2>1. i \in Nat /\ j \in Nat
    BY <1>4
  <2>2. low(i) \subseteq low(j) /\ i \in low(j) /\ i \notin low(i)
    BY <1>4, <1>10
  <2>3. IsFiniteSet(low(j)) /\ low(i) # low(j)
    BY <1>5, <2>1, <2>2
  <2> HIDE DEF low
  <2> QED
    BY <2>2, <2>3, FS_Subset
<1>11. \A i \in kept : Cardinality(low(i)) = Cardinality(low(p[1])) => i = p[1]
  <2> SUFFICES ASSUME NEW i \in kept, i # p[1] PROVE Cardinality(low(i)) # Cardinality(low(p[1]))
    OBVIOUS
  <2>1. i < p[1] \/ p[1] < i
    BY <1>1, <1>4
  <2> HIDE DEF low
  <2> QED
    BY <1>4, <1>10, <2>1
<1> HIDE DEF low, under
<1> QED
  BY <1>8, <1>9, <1>11 DEF kept, left

LEMMA PositionAlone ==
  ASSUME NEW n \in Nat, NEW i \in 1 .. n PROVE Position(1 .. n, i) = i - 1
<1>1. {k \in 1 .. n : k < i} = 1 .. i - 1
  OBVIOUS
<1>2. Cardinality(1 .. i - 1) = i - 1
  <2>1. 1 \in Int /\ i - 1 \in Int /\ i - 1 \in Nat
    OBVIOUS
  <2> QED
    BY <2>1, FS_Interval
<1> QED
  BY <1>1, <1>2 DEF Position

LEMMA DiffSound ==
  ASSUME NEW A, NEW a \in Seq(A), NEW b \in Seq(A), NEW m \in Matchings(a, b)
  PROVE  LET entries == Entries(a, b, m) IN
         /\ Applied(a, b, entries) = b
         /\ \A d, e \in entries : d # e => (d.a # e.a \/ d.a = 0) /\ (d.b # e.b \/ d.b = 0)
         /\ entries = {} => a = b
<1> DEFINE entries == Entries(a, b, m)
           kept == {i \in DOMAIN a : \A e \in entries : e.a # i}
           brought == {e.b : e \in entries} \ {0}
           left == DOMAIN b \ brought
<1>1. /\ kept = {p[1] : p \in m} /\ left = {p[2] : p \in m}
      /\ \A d, e \in entries : d # e => (d.a # e.a \/ d.a = 0) /\ (d.b # e.b \/ d.b = 0)
  <2>1. {i \in DOMAIN a : \A e \in entries : e.a # i} = {p[1] : p \in m}
    BY EntriesAll
  <2>2. DOMAIN b \ ({e.b : e \in entries} \ {0}) = {p[2] : p \in m}
    BY EntriesAll
  <2>3. \A d, e \in entries : d # e => (d.a # e.a \/ d.a = 0) /\ (d.b # e.b \/ d.b = 0)
    BY EntriesAll
  <2> HIDE DEF entries
  <2> QED
    BY <2>1, <2>2, <2>3
<1>2. Applied(a, b, entries) =
        [n \in DOMAIN b |-> IF n \in brought THEN b[n] ELSE a[CHOOSE i \in kept : Position(kept, i) = Position(left, n)]]
  BY DEF Applied
<1>3. entries = {} => kept = DOMAIN a /\ left = DOMAIN b
  OBVIOUS
<1>4. \A n \in DOMAIN b : n \notin brought => n \in left
  OBVIOUS
<1> HIDE DEF entries, kept, brought, left
<1>5. \A p \in m : a[p[1]] = b[p[2]] /\ p[1] \in DOMAIN a /\ p[2] \in DOMAIN b
  BY DEF Matchings
<1>6. ASSUME NEW p \in m
      PROVE  p[1] \in kept /\ Position(kept, p[1]) = Position(left, p[2])
             /\ \A i \in kept : Position(kept, i) = Position(left, p[2]) => i = p[1]
  BY <1>1, MatchedPosition
<1>7. ASSUME NEW n \in left PROVE a[CHOOSE i \in kept : Position(kept, i) = Position(left, n)] = b[n]
  <2>1. PICK p \in m : n = p[2]
    BY <1>1
  <2>2. (CHOOSE i \in kept : Position(kept, i) = Position(left, n)) = p[1]
    BY <1>6, <2>1
  <2> QED
    BY <1>5, <2>1, <2>2
<1>8. Applied(a, b, entries) = b
  <2>1. \A n \in DOMAIN b : Applied(a, b, entries)[n] = b[n]
    BY <1>2, <1>4, <1>7
  <2>2. Applied(a, b, entries) = [n \in DOMAIN b |-> Applied(a, b, entries)[n]]
    BY <1>2
  <2>3. b = [n \in DOMAIN b |-> b[n]]
    OBVIOUS
  <2> QED
    BY <2>1, <2>2, <2>3
<1>9. ASSUME entries = {} PROVE a = b
  <2>1. DOMAIN a = 1 .. Len(a) /\ DOMAIN b = 1 .. Len(b) /\ Len(a) \in Nat /\ Len(b) \in Nat
    OBVIOUS
  <2>2. ASSUME NEW p \in m PROVE p[1] = p[2]
    <3>1. Position(1 .. Len(a), p[1]) = Position(1 .. Len(b), p[2])
      BY <1>3, <1>6, <1>9, <2>1
    <3>2. p[1] \in 1 .. Len(a) /\ p[2] \in 1 .. Len(b)
      BY <1>5, <2>1
    <3>3. p[1] - 1 = p[2] - 1
      BY <2>1, <3>1, <3>2, PositionAlone
    <3> QED
      BY <2>1, <3>2, <3>3
  <2>3. \A p \in m : p[1] = p[2] /\ p[1] \in DOMAIN a /\ p[1] \in DOMAIN b /\ a[p[1]] = b[p[1]]
    BY <1>5, <2>2
  <2>4. ASSUME NEW i \in DOMAIN a PROVE i \in DOMAIN b /\ a[i] = b[i]
    <3>1. PICK p \in m : p[1] = i
      BY <1>1, <1>3, <1>9
    <3> QED
      BY <2>3, <3>1
  <2>5. ASSUME NEW i \in DOMAIN b PROVE i \in DOMAIN a
    <3>1. PICK p \in m : p[2] = i
      BY <1>1, <1>3, <1>9
    <3> QED
      BY <2>3, <3>1
  <2>6. DOMAIN a = DOMAIN b
    BY <2>4, <2>5
  <2>7. Len(a) = Len(b)
    <3>1. Cardinality(1 .. Len(a)) = Len(a) /\ Cardinality(1 .. Len(b)) = Len(b)
      BY <2>1, FirstNumbers
    <3> QED
      BY <2>1, <2>6, <3>1
  <2> QED
    BY <2>1, <2>4, <2>7
<1> QED
  BY <1>1, <1>8, <1>9 DEF entries

-----------------------------------------------------------------------------
(* Brackets.  What is known after each bracket of a text.                  *)
Brackets == Openings \cup Closings
Scans == [stack : Seq(Openings), errors : Nat]
IsScan(f, text) ==
  f \in [0 .. Len(text) -> Scans] /\ f[0] = Unopened /\ \A n \in 1 .. Len(text) : f[n] = Scanned(f[n - 1], text[n])

LEMMA FrontOf ==
  ASSUME NEW A, NEW s \in Seq(A), s # <<>>
  PROVE  /\ Front(s) \in Seq(A) /\ Len(Front(s)) = Len(s) - 1 /\ Last(s) \in A /\ Last(s) = s[Len(s)]
         /\ \A i \in 1 .. Len(s) - 1 : Front(s)[i] = s[i]
<1>1. Len(s) \in Nat \ {0} /\ \A i \in 1 .. Len(s) : s[i] \in A
  OBVIOUS
<1>2. Front(s) = [i \in 1 .. Len(s) - 1 |-> s[i]]
  BY DEF Front
<1>3. Len(s) - 1 \in Nat /\ \A i \in 1 .. Len(s) - 1 : i \in 1 .. Len(s)
  BY <1>1
<1>4. Front(s) \in [1 .. Len(s) - 1 -> A]
  BY <1>1, <1>2, <1>3
<1>5. Front(s) \in Seq(A) /\ Len(Front(s)) = Len(s) - 1
  BY <1>2, <1>3, <1>4
<1> QED
  BY <1>1, <1>2, <1>5 DEF Last

LEMMA ScannedType ==
  ASSUME NEW scan \in Scans, NEW c \in Brackets
  PROVE  Scanned(scan, c) \in Scans
<1>1. scan.stack \in Seq(Openings) /\ scan.errors \in Nat /\ scan = [stack |-> scan.stack, errors |-> scan.errors]
  BY DEF Scans
<1>2. CASE c \in Openings
  <2>1. Scanned(scan, c) = [stack |-> Append(scan.stack, c), errors |-> scan.errors]
    BY <1>1, <1>2 DEF Scanned
  <2> QED
    BY <1>1, <1>2, <2>1 DEF Scans
<1>3. CASE c \notin Openings /\ scan.stack = <<>>
  <2>1. Scanned(scan, c) = [stack |-> scan.stack, errors |-> scan.errors + 1]
    BY <1>1, <1>3 DEF Scanned
  <2> QED
    BY <1>1, <2>1 DEF Scans
<1>4. CASE c \notin Openings /\ scan.stack # <<>>
  <2>1. Scanned(scan, c) = [stack |-> Front(scan.stack),
                            errors |-> scan.errors + IF Closing[Last(scan.stack)] = c THEN 0 ELSE 1]
    BY <1>4 DEF Scanned
  <2>2. Front(scan.stack) \in Seq(Openings)
    BY <1>1, <1>4, FrontOf
  <2> QED
    BY <1>1, <2>1, <2>2 DEF Scans
<1> QED
  BY <1>2, <1>3, <1>4

LEMMA UnopenedType == Unopened \in Scans
BY DEF Unopened, Scans

LEMMA ScanExists ==
  ASSUME NEW text \in Seq(Brackets)
  PROVE  \E f : IsScan(f, text) /\ BracketScan(text) = f[Len(text)]
<1> DEFINE last == Len(text)
           Body(f) == [n \in 0 .. last |-> IF n = 0 THEN Unopened ELSE Scanned(f[n - 1], text[n])]
           f == CHOOSE g : g = Body(g)
           step == [n \in Nat |-> [scan \in Scans |-> IF n < last THEN Scanned(scan, text[n + 1]) ELSE scan]]
<1>1. last \in Nat /\ \A n \in 1 .. last : text[n] \in Brackets
  OBVIOUS
<1>2. step \in [Nat -> [Scans -> Scans]]
  <2> SUFFICES ASSUME NEW n \in Nat, NEW scan \in Scans
               PROVE  (IF n < last THEN Scanned(scan, text[n + 1]) ELSE scan) \in Scans
    OBVIOUS
  <2>1. n < last => n + 1 \in 1 .. last
    BY <1>1
  <2> QED
    BY <1>1, <2>1, ScannedType
<1>3. PICK g : Follows(g, Scans, Unopened, step)
  <2> HIDE DEF step
  <2> QED
    BY <1>2, UnopenedType, RecursionExists
<1> DEFINE h == [n \in 0 .. last |-> g[n]]
<1>4. h = Body(h)
  <2>1. ASSUME NEW n \in 0 .. last PROVE g[n] = IF n = 0 THEN Unopened ELSE Scanned(h[n - 1], text[n])
    <3>1. CASE n = 0
      BY <1>3, <3>1 DEF Follows
    <3>2. CASE n # 0
      <4>1. n - 1 \in Nat /\ n - 1 < last /\ (n - 1) + 1 = n /\ n - 1 \in 0 .. last
        BY <1>1, <3>2
      <4>2. g[n] = step[n - 1][g[n - 1]] /\ g[n - 1] \in Scans
        BY <1>3, <4>1 DEF Follows
      <4>3. g[n] = Scanned(g[n - 1], text[n])
        BY <4>1, <4>2
      <4> QED
        BY <3>2, <4>1, <4>3
    <3> QED
      BY <3>1, <3>2
  <2> QED
    BY <2>1
<1> HIDE DEF h
<1>5. f = Body(f)
  BY <1>4
<1>6. BracketScan(text) = f[last]
  BY DEF BracketScan
<1> HIDE DEF f, step
<1>7. f[0] = Unopened /\ \A n \in 1 .. last : f[n] = Scanned(f[n - 1], text[n])
  BY <1>1, <1>5
<1>8. \A n \in 0 .. last : f[n] \in Scans
  <2> DEFINE P == {n \in Nat : n <= last => f[n] \in Scans}
  <2>1. 0 \in P
    BY <1>7, UnopenedType
  <2>2. ASSUME NEW n \in P PROVE n + 1 \in P
    <3> SUFFICES ASSUME n + 1 <= last PROVE f[n + 1] \in Scans
      OBVIOUS
    <3>1. n + 1 \in 1 .. last /\ n \in Nat /\ (n + 1) - 1 = n
      BY <1>1
    <3>2. f[n] \in Scans /\ text[n + 1] \in Brackets /\ f[n + 1] = Scanned(f[n], text[n + 1])
      BY <1>1, <1>7, <3>1
    <3> QED
      BY <3>2, ScannedType
  <2>3. P \in SUBSET Nat
    OBVIOUS
  <2>4. \A n \in Nat : n \in P
    <3> HIDE DEF P
    <3> QED
      BY <2>1, <2>2, <2>3, SetInduction
  <2> QED
    BY <1>1, <2>4
<1>9. f = [n \in 0 .. last |-> f[n]]
  BY <1>5
<1>10. f \in [0 .. last -> Scans]
  BY <1>8, <1>9
<1> QED
  BY <1>6, <1>7, <1>10 DEF IsScan

LEMMA BracketSets ==
  /\ Openings = {"{", "(", "["} /\ Closings = {"}", ")", "]"}
  /\ \A o \in Openings : Closing[o] \in Closings /\ Closing[o] \notin Openings
  /\ \A c \in Closings : c \notin Openings
  /\ Brackets = Openings \cup Closings
BY DEF Openings, Closings, Closing, Brackets

(* The balanced texts grow from those of two brackets less.                *)
Grown(B) == B \cup Enclosed(B) \cup Joined(B)

LEMMA GrownType == \A B \in SUBSET Seq(Brackets) : Grown(B) \in SUBSET Seq(Brackets)
<1> SUFFICES ASSUME NEW B \in SUBSET Seq(Brackets) PROVE Grown(B) \in SUBSET Seq(Brackets)
  OBVIOUS
<1>1. ASSUME NEW o \in Openings, NEW t \in B PROVE <<o>> \o t \o <<Closing[o]>> \in Seq(Brackets)
  <2>1. <<o>> \in Seq(Brackets) /\ <<Closing[o]>> \in Seq(Brackets) /\ t \in Seq(Brackets)
    <3>1. o \in Brackets /\ Closing[o] \in Brackets
      BY BracketSets
    <3>2. \A c \in Brackets : <<c>> \in Seq(Brackets)
      OBVIOUS
    <3> QED
      BY <3>1, <3>2
  <2> QED
    BY <2>1
<1>2. \A t, u \in B : t \o u \in Seq(Brackets)
  OBVIOUS
<1>3. ASSUME NEW w \in Grown(B) PROVE w \in Seq(Brackets)
  <2>1. \/ w \in B
        \/ \E o \in Openings, t \in B : w = <<o>> \o t \o <<Closing[o]>>
        \/ \E t, u \in B : w = t \o u
    BY DEF Grown, Enclosed, Joined
  <2> QED
    BY <1>1, <1>2, <2>1
<1> QED
  BY <1>3

LEMMA BalancedIs ==
  /\ Balanced[0] = {<<>>} /\ Balanced[1] = {<<>>}
  /\ \A n \in Nat : Balanced[n] \in SUBSET Seq(Brackets) /\ Balanced[n + 2] = Grown(Balanced[n])
<1> DEFINE T == (SUBSET Seq(Brackets)) \X (SUBSET Seq(Brackets))
           first == <<{<<>>}, {<<>>}>>
           step == [n \in Nat |-> [p \in T |-> <<p[2], Grown(p[1])>>]]
           Body(f) == [n \in Nat |-> IF n < 2 THEN {<<>>} ELSE Grown(f[n - 2])]
           f == CHOOSE g : g = Body(g)
<1>1. first \in T
  <2>1. <<>> \in Seq(Brackets)
    OBVIOUS
  <2>2. {<<>>} \in SUBSET Seq(Brackets)
    BY <2>1
  <2> QED
    BY <2>2
<1>2. step \in [Nat -> [T -> T]]
  <2> SUFFICES ASSUME NEW p \in T PROVE <<p[2], Grown(p[1])>> \in T
    OBVIOUS
  <2> QED
    BY GrownType
<1>3. PICK g : Follows(g, T, first, step)
  <2> HIDE DEF step, first, T
  <2> QED
    BY <1>1, <1>2, RecursionExists
<1>4. /\ g[0] = first /\ \A n \in Nat : g[n] \in T /\ g[n + 1] = <<g[n][2], Grown(g[n][1])>>
  BY <1>3 DEF Follows
<1> DEFINE h == [n \in Nat |-> g[n][1]]
<1>5. h = Body(h)
  <2> SUFFICES ASSUME NEW n \in Nat PROVE g[n][1] = IF n < 2 THEN {<<>>} ELSE Grown(h[n - 2])
    OBVIOUS
  <2> HIDE DEF step, T
  <2>1. g[0][1] = {<<>>} /\ g[1][1] = {<<>>}
    <3>1. g[0][1] = {<<>>} /\ g[0][2] = {<<>>}
      BY <1>4
    <3>2. g[0 + 1] = <<g[0][2], Grown(g[0][1])>>
      BY <1>4
    <3> QED
      BY <3>1, <3>2
  <2>2. CASE n < 2
    BY <2>1, <2>2
  <2>3. CASE ~(n < 2)
    <3> DEFINE k == n - 2
    <3>1. k \in Nat /\ k + 1 \in Nat /\ (k + 1) + 1 = n
      BY <2>3
    <3> HIDE DEF k
    <3>2. g[(k + 1) + 1] = <<g[k + 1][2], Grown(g[k + 1][1])>> /\ g[k + 1] = <<g[k][2], Grown(g[k][1])>>
      BY <1>4, <3>1
    <3>3. g[n][1] = g[k + 1][2] /\ g[k + 1][2] = Grown(g[k][1])
      BY <3>1, <3>2
    <3>4. h[k] = g[k][1]
      BY <3>1
    <3> QED
      BY <2>3, <3>3, <3>4 DEF k
  <2> QED
    BY <2>2, <2>3
<1>6. f = Body(f)
  <2> HIDE DEF h
  <2> QED
    BY <1>5
<1>7. Balanced = f
  BY DEF Balanced, Grown
<1> HIDE DEF f, h, step, first
<1>8. f[0] = {<<>>} /\ f[1] = {<<>>} /\ \A n \in Nat : f[n + 2] = Grown(f[n])
  <2>1. \A n \in Nat : f[n] = IF n < 2 THEN {<<>>} ELSE Grown(f[n - 2])
    BY <1>6
  <2>2. ASSUME NEW n \in Nat PROVE f[n + 2] = Grown(f[n])
    <3>1. n + 2 \in Nat /\ ~(n + 2 < 2) /\ (n + 2) - 2 = n
      OBVIOUS
    <3> QED
      BY <2>1, <3>1
  <2> QED
    BY <2>1, <2>2
<1>9. \A n \in Nat : f[n] \in SUBSET Seq(Brackets)
  <2> DEFINE P == {n \in Nat : f[n] \in SUBSET Seq(Brackets) /\ f[n + 1] \in SUBSET Seq(Brackets)}
  <2>1. 0 \in P
    <3>1. {<<>>} \in SUBSET Seq(Brackets) /\ f[0 + 1] = f[1]
      OBVIOUS
    <3> QED
      BY <1>8, <3>1
  <2>2. ASSUME NEW n \in P PROVE n + 1 \in P
    <3>1. n \in Nat /\ (n + 1) + 1 = n + 2
      OBVIOUS
    <3>2. f[(n + 1) + 1] = Grown(f[n])
      BY <1>8, <3>1
    <3> QED
      BY <3>2, GrownType
  <2>3. P \in SUBSET Nat
    OBVIOUS
  <2>4. \A n \in Nat : n \in P
    <3> HIDE DEF P
    <3> QED
      BY <2>1, <2>2, <2>3, SetInduction
  <2> QED
    BY <2>4
<1> QED
  BY <1>7, <1>8, <1>9

(* A balanced stretch of a text leaves what is open as it was.             *)
Spells(text, k, t) == k + Len(t) <= Len(text) /\ \A i \in 1 .. Len(t) : text[k + i] = t[i]

LEMMA AtBoth ==
  ASSUME NEW A, NEW text \in Seq(A), NEW k \in Nat, NEW t \in Seq(A), NEW u \in Seq(A), Spells(text, k, t \o u)
  PROVE  Spells(text, k, t) /\ Spells(text, k + Len(t), u)
<1>1. /\ Len(t) \in Nat /\ Len(u) \in Nat /\ Len(text) \in Nat /\ Len(t \o u) = Len(t) + Len(u)
      /\ \A i \in 1 .. Len(t) : (t \o u)[i] = t[i]
      /\ \A i \in 1 .. Len(u) : (t \o u)[Len(t) + i] = u[i]
  OBVIOUS
<1>2. k + (Len(t) + Len(u)) <= Len(text) /\ \A i \in 1 .. Len(t) + Len(u) : text[k + i] = (t \o u)[i]
  BY <1>1 DEF Spells
<1>3. \A i \in 1 .. Len(u) : Len(t) + i \in 1 .. Len(t) + Len(u) /\ k + (Len(t) + i) = (k + Len(t)) + i
  BY <1>1
<1>4. \A i \in 1 .. Len(t) : i \in 1 .. Len(t) + Len(u)
  BY <1>1
<1>5. \A i \in 1 .. Len(u) : text[(k + Len(t)) + i] = u[i]
  BY <1>1, <1>2, <1>3
<1>6. \A i \in 1 .. Len(t) : text[k + i] = t[i]
  BY <1>1, <1>2, <1>4
<1> QED
  BY <1>1, <1>2, <1>5, <1>6 DEF Spells

Passed(before, after, c) ==
  /\ before.stack \in Seq(Openings) /\ before.errors \in Nat
  /\ after.stack \in Seq(Openings) /\ after.errors \in Nat
  /\ before = [stack |-> before.stack, errors |-> before.errors] /\ after = [stack |-> after.stack, errors |-> after.errors]
  /\ c \in Openings => after.stack = Append(before.stack, c) /\ after.errors = before.errors
  /\ c \notin Openings /\ before.stack = <<>> => after.errors = before.errors + 1
  /\ c \notin Openings /\ before.stack # <<>> =>
       /\ after.stack = Front(before.stack)
       /\ after.errors = before.errors + IF Closing[Last(before.stack)] = c THEN 0 ELSE 1

LEMMA ScanSteps ==
  ASSUME NEW text \in Seq(Brackets), NEW f, IsScan(f, text), NEW n \in 1 .. Len(text)
  PROVE  n - 1 \in 0 .. Len(text) /\ text[n] \in Brackets /\ Passed(f[n - 1], f[n], text[n])
<1>1. n - 1 \in 0 .. Len(text) /\ n \in 0 .. Len(text) /\ text[n] \in Brackets
  OBVIOUS
<1>2. f[n - 1] \in Scans /\ f[n] \in Scans /\ f[n] = Scanned(f[n - 1], text[n])
  BY <1>1 DEF IsScan
<1>3. \A scan \in Scans : scan.stack \in Seq(Openings) /\ scan.errors \in Nat /\ scan = [stack |-> scan.stack, errors |-> scan.errors]
  BY DEF Scans
<1>4. text[n] \in Openings => f[n].stack = Append(f[n - 1].stack, text[n]) /\ f[n].errors = f[n - 1].errors
  BY <1>2, <1>3 DEF Scanned
<1>5. text[n] \notin Openings /\ f[n - 1].stack = <<>> => f[n].errors = f[n - 1].errors + 1
  BY <1>2, <1>3 DEF Scanned
<1>6. text[n] \notin Openings /\ f[n - 1].stack # <<>> =>
        /\ f[n].stack = Front(f[n - 1].stack)
        /\ f[n].errors = f[n - 1].errors + IF Closing[Last(f[n - 1].stack)] = text[n] THEN 0 ELSE 1
  BY <1>2, <1>3 DEF Scanned
<1> QED
  BY <1>1, <1>2, <1>3, <1>4, <1>5, <1>6 DEF Passed

LEMMA ScanReturns ==
  ASSUME NEW text \in Seq(Brackets), NEW f, IsScan(f, text)
  PROVE  \A n \in Nat : \A t \in Balanced[n], k \in Nat : Spells(text, k, t) => f[k + Len(t)] = f[k]
<1> DEFINE Returns(n) == \A t \in Balanced[n], k \in Nat : Spells(text, k, t) => f[k + Len(t)] = f[k]
           P == {n \in Nat : Returns(n) /\ Returns(n + 1)}
<1>1. \A k \in Nat : f[k + Len(<<>>)] = f[k]
  OBVIOUS
<1>2. 0 \in P
  <2>1. Returns(0) /\ Returns(1)
    BY <1>1, BalancedIs
  <2> HIDE DEF Returns
  <2> QED
    BY <2>1
<1>3. ASSUME NEW n \in Nat, Returns(n) PROVE Returns(n + 2)
  <2>1. Balanced[n] \in SUBSET Seq(Brackets) /\ Balanced[n + 2] = Grown(Balanced[n])
    BY BalancedIs
  <2> SUFFICES ASSUME NEW w \in Balanced[n + 2], NEW k \in Nat, Spells(text, k, w) PROVE f[k + Len(w)] = f[k]
    OBVIOUS
  <2>2. CASE w \in Balanced[n]
    BY <1>3, <2>2
  <2>3. ASSUME NEW t \in Balanced[n], NEW u \in Balanced[n], w = t \o u PROVE f[k + Len(w)] = f[k]
    <3>1. /\ Spells(text, k, t) /\ Spells(text, k + Len(t), u) /\ Len(t) \in Nat /\ Len(u) \in Nat
      BY <2>1, <2>3, AtBoth
    <3>2. f[k + Len(t)] = f[k] /\ f[(k + Len(t)) + Len(u)] = f[k + Len(t)]
      BY <1>3, <3>1
    <3>3. k + Len(w) = (k + Len(t)) + Len(u)
      BY <2>1, <2>3, <3>1
    <3> QED
      BY <3>2, <3>3
  <2>4. ASSUME NEW o \in Openings, NEW t \in Balanced[n], w = <<o>> \o t \o <<Closing[o]>> PROVE f[k + Len(w)] = f[k]
    <3> DEFINE c == Closing[o]
               last == (k + 1) + Len(t) + 1
    <3>1. t \in Seq(Brackets) /\ o \in Brackets /\ c \in Brackets /\ c \notin Openings
      BY <2>1, BracketSets
    <3> HIDE DEF c
    <3>2. <<o>> \in Seq(Brackets) /\ <<c>> \in Seq(Brackets) /\ <<o>> \o t \in Seq(Brackets) /\ Len(t) \in Nat
          /\ Len(<<o>> \o t) = 1 + Len(t) /\ Len(<<o>>) = 1 /\ Len(<<c>>) = 1 /\ Len((<<o>> \o t) \o <<c>>) = 2 + Len(t)
      BY <3>1
    <3>3. Spells(text, k, (<<o>> \o t) \o <<c>>)
      BY <2>4 DEF c
    <3>4. Spells(text, k, <<o>> \o t) /\ Spells(text, k + (1 + Len(t)), <<c>>)
      BY <3>2, <3>3, AtBoth
    <3>5. Spells(text, k, <<o>>) /\ Spells(text, k + 1, t)
      BY <3>1, <3>2, <3>4, AtBoth
    <3>6. k + 1 <= Len(text) /\ text[k + 1] = o
      BY <3>2, <3>5 DEF Spells
    <3>7. k + (1 + Len(t)) + 1 <= Len(text) /\ text[k + (1 + Len(t)) + 1] = c
      BY <3>2, <3>4 DEF Spells
    <3>8. /\ k + 1 \in 1 .. Len(text) /\ (k + 1) - 1 = k
          /\ last \in 1 .. Len(text) /\ last - 1 = (k + 1) + Len(t) /\ text[last] = c
          /\ k + (2 + Len(t)) = last
      BY <3>2, <3>6, <3>7
    <3> HIDE DEF last
    <3>9. /\ f[k].stack \in Seq(Openings) /\ f[k] = [stack |-> f[k].stack, errors |-> f[k].errors]
          /\ f[k + 1].stack = Append(f[k].stack, o) /\ f[k + 1].errors = f[k].errors /\ f[k].errors \in Nat
      <4>1. Passed(f[(k + 1) - 1], f[k + 1], text[k + 1])
        BY <3>8, ScanSteps
      <4> QED
        BY <3>6, <3>8, <4>1 DEF Passed
    <3>10. f[(k + 1) + Len(t)] = f[k + 1]
      BY <1>3, <3>5
    <3>11. /\ f[last] = [stack |-> f[last].stack, errors |-> f[last].errors]
           /\ f[k + 1].stack # <<>> =>
                /\ f[last].stack = Front(f[k + 1].stack)
                /\ f[last].errors = f[k + 1].errors + IF Closing[Last(f[k + 1].stack)] = c THEN 0 ELSE 1
      <4>1. Passed(f[last - 1], f[last], text[last])
        BY <3>8, ScanSteps
      <4>2. Passed(f[k + 1], f[last], c)
        BY <3>8, <3>10, <4>1
      <4> QED
        BY <3>1, <4>2 DEF Passed
    <3>12. ASSUME NEW s \in Seq(Openings) PROVE Append(s, o) # <<>> /\ Front(Append(s, o)) = s /\ Last(Append(s, o)) = o
      BY DEF Front, Last
    <3>13. f[last].stack = f[k].stack /\ f[last].errors = f[k].errors
      <4>1. f[k + 1].stack # <<>> /\ Front(f[k + 1].stack) = f[k].stack /\ Last(f[k + 1].stack) = o
        BY <3>9, <3>12
      <4>2. f[last].stack = f[k].stack /\ f[last].errors = f[k].errors + 0
        BY <3>9, <3>11, <4>1 DEF c
      <4> QED
        BY <3>9, <4>2
    <3>14. f[last] = f[k]
      BY <3>9, <3>11, <3>13
    <3> QED
      BY <2>4, <3>2, <3>8, <3>14 DEF c
  <2>5. \/ w \in Balanced[n]
        \/ \E o \in Openings, t \in Balanced[n] : w = <<o>> \o t \o <<Closing[o]>>
        \/ \E t, u \in Balanced[n] : w = t \o u
    BY <2>1 DEF Grown, Enclosed, Joined
  <2> QED
    BY <2>2, <2>3, <2>4, <2>5
<1> HIDE DEF Returns
<1>4. ASSUME NEW n \in P PROVE n + 1 \in P
  <2>1. n \in Nat /\ Returns(n) /\ Returns(n + 1) /\ (n + 1) + 1 = n + 2
    OBVIOUS
  <2>2. Returns((n + 1) + 1)
    BY <1>3, <2>1
  <2> QED
    BY <2>1, <2>2
<1>5. P \in SUBSET Nat
  OBVIOUS
<1>6. \A n \in Nat : n \in P
  <2> HIDE DEF P
  <2> QED
    BY <1>2, <1>4, <1>5, SetInduction
<1> QED
  BY <1>6 DEF Returns

(* The other way round: what is opened is closed by the first bracket that *)
(* leaves no more open than there was.                                     *)
Part(text, a, b) == [i \in 1 .. b - a |-> text[a + i]]

LEMMA PartIs ==
  ASSUME NEW A, NEW text \in Seq(A), NEW a \in Nat, NEW b \in Nat, a <= b, b <= Len(text)
  PROVE  /\ Part(text, a, b) \in Seq(A) /\ Len(Part(text, a, b)) = b - a
         /\ \A i \in 1 .. b - a : Part(text, a, b)[i] = text[a + i]
<1>1. b - a \in Nat /\ Len(text) \in Nat
  OBVIOUS
<1>2. ASSUME NEW i \in 1 .. b - a PROVE text[a + i] \in A
  <2>1. a + i \in 1 .. Len(text)
    BY <1>1
  <2> QED
    BY <2>1
<1>3. Part(text, a, b) \in [1 .. b - a -> A]
  BY <1>2 DEF Part
<1>4. Part(text, a, b) \in Seq(A)
  BY <1>1, <1>3
<1>5. Len(Part(text, a, b)) = b - a
  BY <1>1, <1>3, <1>4
<1> QED
  BY <1>4, <1>5 DEF Part

LEMMA PartJoin ==
  ASSUME NEW A, NEW text \in Seq(A), NEW a \in Nat, NEW c \in Nat, NEW b \in Nat, a <= c, c <= b, b <= Len(text)
  PROVE  Part(text, a, b) = Part(text, a, c) \o Part(text, c, b)
<1> DEFINE whole == Part(text, a, b)
           u == Part(text, a, c)
           w == Part(text, c, b)
<1>1. c <= Len(text) /\ Len(text) \in Nat /\ a <= b
  OBVIOUS
<1>2. /\ whole \in Seq(A) /\ Len(whole) = b - a /\ \A i \in 1 .. b - a : whole[i] = text[a + i]
      /\ u \in Seq(A) /\ Len(u) = c - a /\ \A i \in 1 .. c - a : u[i] = text[a + i]
      /\ w \in Seq(A) /\ Len(w) = b - c /\ \A i \in 1 .. b - c : w[i] = text[c + i]
  <2>1. whole \in Seq(A) /\ Len(whole) = b - a /\ \A i \in 1 .. b - a : whole[i] = text[a + i]
    BY <1>1, PartIs
  <2>2. u \in Seq(A) /\ Len(u) = c - a /\ \A i \in 1 .. c - a : u[i] = text[a + i]
    BY <1>1, PartIs
  <2>3. w \in Seq(A) /\ Len(w) = b - c /\ \A i \in 1 .. b - c : w[i] = text[c + i]
    BY <1>1, PartIs
  <2> HIDE DEF whole, u, w
  <2> QED
    BY <2>1, <2>2, <2>3
<1> HIDE DEF whole, u, w
<1>3. /\ u \o w \in Seq(A) /\ Len(u \o w) = b - a
      /\ \A i \in 1 .. b - a : (u \o w)[i] = IF i <= c - a THEN u[i] ELSE w[i - (c - a)]
  <2>1. Len(u) + Len(w) = b - a
    BY <1>2
  <2> QED
    BY <1>2, <2>1, JoinIs
<1>4. ASSUME NEW i \in 1 .. b - a PROVE (u \o w)[i] = whole[i]
  <2>1. CASE i <= c - a
    <3>1. i \in 1 .. c - a
      BY <2>1
    <3> QED
      BY <1>2, <1>3, <2>1, <3>1
  <2>2. CASE ~(i <= c - a)
    <3>1. i - (c - a) \in 1 .. b - c /\ c + (i - (c - a)) = a + i
      BY <2>2
    <3> QED
      BY <1>2, <1>3, <2>2, <3>1
  <2> QED
    BY <2>1, <2>2
<1>5. whole = u \o w
  <2>1. whole = [i \in 1 .. Len(whole) |-> whole[i]]
    BY <1>2
  <2>2. u \o w = [i \in 1 .. Len(u \o w) |-> (u \o w)[i]]
    BY <1>3, AsFunction
  <2> QED
    BY <1>2, <1>3, <1>4, <2>1, <2>2
<1> QED
  BY <1>5 DEF whole, u, w

LEMMA PartOne ==
  ASSUME NEW A, NEW text \in Seq(A), NEW a \in Nat, a < Len(text)
  PROVE  Part(text, a, a + 1) = <<text[a + 1]>>
<1>1. (a + 1) - a = 1
  OBVIOUS
<1> QED
  BY <1>1 DEF Part

LEMMA PartAll ==
  ASSUME NEW A, NEW text \in Seq(A)
  PROVE  Part(text, 0, Len(text)) = text
<1>1. Len(text) - 0 = Len(text) /\ \A i \in 1 .. Len(text) : 0 + i = i
  OBVIOUS
<1>2. Part(text, 0, Len(text)) = [i \in 1 .. Len(text) |-> text[i]]
  BY <1>1 DEF Part
<1> QED
  BY <1>2

LEMMA BalancedMore ==
  ASSUME NEW m \in Nat, NEW n \in Nat, m <= n
  PROVE  Balanced[m] \subseteq Balanced[n] /\ <<>> \in Balanced[n]
<1> DEFINE P == {k \in Nat : /\ Balanced[k] \subseteq Balanced[k + 1] /\ <<>> \in Balanced[k]
                             /\ Balanced[k + 1] \subseteq Balanced[k + 2]}
<1>1. \A k \in Nat : Balanced[k + 2] = Grown(Balanced[k]) /\ k + 1 \in Nat /\ (k + 1) + 1 = k + 2 /\ (k + 1) + 2 = (k + 2) + 1
  BY BalancedIs
<1>2. ASSUME NEW B, NEW C, B \subseteq C PROVE B \subseteq Grown(B) /\ Grown(B) \subseteq Grown(C)
  <2>1. Enclosed(B) \subseteq Enclosed(C)
    <3> SUFFICES ASSUME NEW w \in Enclosed(B) PROVE w \in Enclosed(C)
      OBVIOUS
    <3>1. PICK o \in Openings : w \in {<<o>> \o t \o <<Closing[o]>> : t \in B}
      BY DEF Enclosed
    <3>2. w \in {<<o>> \o t \o <<Closing[o]>> : t \in C}
      BY <1>2, <3>1
    <3> QED
      BY <3>2 DEF Enclosed
  <2>2. Joined(B) \subseteq Joined(C)
    BY <1>2 DEF Joined
  <2> QED
    BY <1>2, <2>1, <2>2 DEF Grown
<1>3. 0 \in P
  <2>1. Balanced[0] = {<<>>} /\ Balanced[0 + 1] = {<<>>} /\ Balanced[0 + 2] = Grown(Balanced[0])
    <3>1. 0 + 1 = 1 /\ 0 \in Nat
      OBVIOUS
    <3> QED
      BY <3>1, BalancedIs
  <2>2. Balanced[0] \subseteq Grown(Balanced[0])
    BY <1>2
  <2>3. Balanced[0] \subseteq Balanced[0 + 1] /\ <<>> \in Balanced[0] /\ Balanced[0 + 1] \subseteq Balanced[0 + 2]
    BY <2>1, <2>2
  <2> QED
    BY <2>3
<1>4. ASSUME NEW k \in P PROVE k + 1 \in P
  <2>1. k \in Nat /\ Balanced[k] \subseteq Balanced[k + 1] /\ Balanced[k + 1] \subseteq Balanced[k + 2] /\ <<>> \in Balanced[k]
    OBVIOUS
  <2>2. Grown(Balanced[k]) \subseteq Grown(Balanced[k + 1])
    BY <1>2, <2>1
  <2>3. Balanced[k + 2] = Grown(Balanced[k]) /\ Balanced[(k + 1) + 2] = Grown(Balanced[k + 1])
    BY <1>1, <2>1
  <2>4. Balanced[(k + 1) + 1] \subseteq Balanced[(k + 1) + 2] /\ Balanced[k + 1] \subseteq Balanced[(k + 1) + 1]
    BY <1>1, <2>1, <2>2, <2>3
  <2> QED
    BY <2>1, <2>4
<1>5. \A k \in Nat : k \in P
  <2>1. P \in SUBSET Nat
    OBVIOUS
  <2> HIDE DEF P
  <2> QED
    BY <1>3, <1>4, <2>1, SetInduction
<1> DEFINE Q == {k \in Nat : Balanced[m] \subseteq Balanced[m + k]}
<1>6. \A k \in Nat : k \in Q
  <2>1. 0 \in Q
    OBVIOUS
  <2>2. ASSUME NEW k \in Q PROVE k + 1 \in Q
    <3>1. k \in Nat /\ m + k \in Nat /\ (m + k) + 1 = m + (k + 1)
      OBVIOUS
    <3>2. Balanced[m + k] \subseteq Balanced[(m + k) + 1]
      BY <1>5, <3>1
    <3> QED
      BY <3>1, <3>2
  <2>3. Q \in SUBSET Nat
    OBVIOUS
  <2> HIDE DEF Q
  <2> QED
    BY <2>1, <2>2, <2>3, SetInduction
<1>7. n - m \in Nat /\ m + (n - m) = n
  OBVIOUS
<1> QED
  BY <1>5, <1>6, <1>7

NoErrors(f, text) == \A i \in 0 .. Len(text) : f[i].errors = 0

LEMMA ScanMoves ==
  ASSUME NEW text \in Seq(Brackets), NEW f, IsScan(f, text), NoErrors(f, text), NEW n \in 1 .. Len(text)
  PROVE  /\ f[n].stack \in Seq(Openings) /\ f[n - 1].stack \in Seq(Openings)
         /\ \/ /\ text[n] \in Openings /\ f[n].stack = Append(f[n - 1].stack, text[n])
               /\ Len(f[n].stack) = Len(f[n - 1].stack) + 1
            \/ /\ f[n - 1].stack # <<>> /\ f[n].stack = Front(f[n - 1].stack)
               /\ Len(f[n].stack) = Len(f[n - 1].stack) - 1
               /\ Closing[Last(f[n - 1].stack)] = text[n] /\ text[n] \notin Openings
<1>1. n - 1 \in 0 .. Len(text) /\ n \in 0 .. Len(text) /\ Passed(f[n - 1], f[n], text[n])
  BY ScanSteps
<1>2. f[n].errors = 0 /\ f[n - 1].errors = 0
  BY <1>1 DEF NoErrors
<1>3. f[n].stack \in Seq(Openings) /\ f[n - 1].stack \in Seq(Openings)
  BY <1>1 DEF Passed
<1>4. CASE text[n] \in Openings
  BY <1>1, <1>3, <1>4 DEF Passed
<1>5. CASE text[n] \notin Openings
  <2>1. f[n - 1].stack # <<>>
    BY <1>1, <1>2, <1>5 DEF Passed
  <2>2. f[n].stack = Front(f[n - 1].stack) /\ Closing[Last(f[n - 1].stack)] = text[n]
    BY <1>1, <1>2, <1>5, <2>1 DEF Passed
  <2>3. Len(Front(f[n - 1].stack)) = Len(f[n - 1].stack) - 1
    BY <1>3, <2>1, FrontOf
  <2> QED
    BY <1>3, <1>5, <2>1, <2>2, <2>3
<1> QED
  BY <1>4, <1>5

(* What was open stays below what is opened later.                         *)
LEMMA ScanKeeps ==
  ASSUME NEW text \in Seq(Brackets), NEW f, IsScan(f, text), NoErrors(f, text),
         NEW a \in 0 .. Len(text), NEW b \in a .. Len(text), NEW d \in Nat,
         \A i \in a .. b : d <= Len(f[i].stack)
  PROVE  \A j \in 1 .. d : f[b].stack[j] = f[a].stack[j]
<1> DEFINE P == {k \in Nat : a + k <= b => \A j \in 1 .. d : f[a + k].stack[j] = f[a].stack[j]}
<1>1. a \in Nat /\ b \in Nat /\ a <= b /\ Len(text) \in Nat /\ b <= Len(text)
  OBVIOUS
<1>2. 0 \in P
  BY <1>1
<1>3. ASSUME NEW k \in P PROVE k + 1 \in P
  <2> SUFFICES ASSUME a + (k + 1) <= b, NEW j \in 1 .. d PROVE f[a + (k + 1)].stack[j] = f[a].stack[j]
    OBVIOUS
  <2> DEFINE n == a + (k + 1)
  <2>1. k \in Nat /\ n \in 1 .. Len(text) /\ n - 1 = a + k /\ n \in a .. b /\ a + k \in a .. b /\ a + k <= b
    BY <1>1
  <2>2. f[a + k].stack[j] = f[a].stack[j]
    BY <2>1
  <2> HIDE DEF n, P
  <2>3. d <= Len(f[n].stack) /\ d <= Len(f[n - 1].stack)
    BY <2>1
  <2>4. f[n].stack[j] = f[n - 1].stack[j]
    <3>1. f[n].stack \in Seq(Openings) /\ f[n - 1].stack \in Seq(Openings)
      BY <2>1, ScanMoves
    <3>2. CASE f[n].stack = Append(f[n - 1].stack, text[n])
      <4>1. j \in 1 .. Len(f[n - 1].stack)
        BY <2>3, <3>1
      <4> QED
        BY <3>1, <3>2, <4>1
    <3>3. CASE /\ f[n - 1].stack # <<>> /\ f[n].stack = Front(f[n - 1].stack)
               /\ Len(f[n].stack) = Len(f[n - 1].stack) - 1
      <4>1. j \in 1 .. Len(f[n - 1].stack) - 1
        BY <2>3, <3>1, <3>3
      <4> QED
        BY <3>1, <3>3, <4>1, FrontOf
    <3>4. \/ f[n].stack = Append(f[n - 1].stack, text[n])
          \/ /\ f[n - 1].stack # <<>> /\ f[n].stack = Front(f[n - 1].stack)
             /\ Len(f[n].stack) = Len(f[n - 1].stack) - 1
      BY <2>1, ScanMoves
    <3> QED
      BY <3>2, <3>3, <3>4
  <2> QED
    BY <2>1, <2>2, <2>4 DEF n
<1>4. \A k \in Nat : k \in P
  <2>1. P \in SUBSET Nat
    OBVIOUS
  <2> HIDE DEF P
  <2> QED
    BY <1>2, <1>3, <2>1, SetInduction
<1>5. b - a \in Nat /\ a + (b - a) = b
  BY <1>1
<1> QED
  BY <1>1, <1>4, <1>5

Level(f, a, b) == f[b].stack = f[a].stack /\ \A i \in a .. b : Len(f[a].stack) <= Len(f[i].stack)

(* The first bracket of a stretch and the one that closes it.              *)
LEMMA FirstPair ==
  ASSUME NEW text \in Seq(Brackets), NEW f, IsScan(f, text), NoErrors(f, text),
         NEW a \in Nat, NEW b \in Nat, a < b, b <= Len(text), Level(f, a, b)
  PROVE  \E c \in Nat : /\ a + 2 <= c /\ c <= b /\ text[a + 1] \in Openings /\ text[c] = Closing[text[a + 1]]
                        /\ Level(f, a + 1, c - 1) /\ Level(f, c, b) /\ (c # b => c + 2 <= b)
<1> DEFINE D(i) == Len(f[i].stack)
           s == f[a].stack
           o == text[a + 1]
<1>1. /\ Len(text) \in Nat /\ a \in 0 .. Len(text) /\ a + 1 \in 1 .. Len(text) /\ a + 1 \in 0 .. Len(text) /\ (a + 1) - 1 = a
      /\ a \in a .. b /\ a + 1 \in a .. b /\ b \in a .. b
  OBVIOUS
<1>2. \A i \in a .. b : f[i].stack \in Seq(Openings) /\ D(i) \in Nat
  <2>1. \A i \in 0 .. Len(text) : f[i].stack \in Seq(Openings)
    BY DEF IsScan, Scans
  <2>2. \A i \in a .. b : i \in 0 .. Len(text)
    BY <1>1
  <2> QED
    BY <2>1, <2>2
<1>3. \A i \in a .. b : D(a) <= D(i)
  BY DEF Level
<1>4. \A n \in a + 1 .. b : \/ text[n] \in Openings /\ f[n].stack = Append(f[n - 1].stack, text[n]) /\ D(n) = D(n - 1) + 1
                            \/ /\ f[n - 1].stack # <<>> /\ f[n].stack = Front(f[n - 1].stack) /\ D(n) = D(n - 1) - 1
                               /\ Closing[Last(f[n - 1].stack)] = text[n]
  <2> SUFFICES ASSUME NEW n \in a + 1 .. b
               PROVE  \/ text[n] \in Openings /\ f[n].stack = Append(f[n - 1].stack, text[n]) /\ D(n) = D(n - 1) + 1
                      \/ /\ f[n - 1].stack # <<>> /\ f[n].stack = Front(f[n - 1].stack) /\ D(n) = D(n - 1) - 1
                         /\ Closing[Last(f[n - 1].stack)] = text[n]
    OBVIOUS
  <2>1. n \in 1 .. Len(text)
    BY <1>1
  <2> QED
    BY <2>1, ScanMoves
<1>5. o \in Openings /\ f[a + 1].stack = Append(s, o) /\ D(a + 1) = D(a) + 1
  <2>1. a + 1 \in a + 1 .. b /\ D(a) <= D(a + 1) /\ D(a) \in Nat
    BY <1>1, <1>2, <1>3
  <2> QED
    BY <1>1, <1>4, <2>1
<1> DEFINE S == {i \in a + 1 .. b : D(i) = D(a)}
<1>6. PICK c \in S : \A i \in S : c <= i
  <2>1. S \in SUBSET Nat /\ S # {}
    <3>1. b \in a + 1 .. b /\ D(b) = D(a)
      BY DEF Level
    <3> QED
      BY <3>1
  <2> HIDE DEF S
  <2> QED
    BY <2>1, LeastOne
<1>7. c \in a + 1 .. b /\ D(c) = D(a) /\ c # a + 1 /\ \A i \in a + 1 .. c - 1 : D(i) # D(a)
  <2>1. c \in a + 1 .. b /\ D(c) = D(a) /\ \A i \in a + 1 .. b : D(i) = D(a) => c <= i
    BY <1>6
  <2>2. c # a + 1
    BY <1>1, <1>2, <1>5, <2>1
  <2>3. \A i \in a + 1 .. c - 1 : i \in a + 1 .. b /\ ~(c <= i)
    BY <2>1
  <2> QED
    BY <2>1, <2>2, <2>3
<1> HIDE DEF D, s, o, S
<1>8. /\ c \in Nat /\ a + 2 <= c /\ c <= b /\ c - 1 \in a .. b /\ c \in a .. b /\ c - 1 \in a + 1 .. c - 1 /\ c \in 1 .. Len(text)
      /\ c - 1 \in a + 1 .. Len(text)
  BY <1>1, <1>7
<1>9. \A i \in a + 1 .. c - 1 : D(a) + 1 <= D(i)
  <2> SUFFICES ASSUME NEW i \in a + 1 .. c - 1 PROVE D(a) + 1 <= D(i)
    OBVIOUS
  <2>1. i \in a .. b
    BY <1>8
  <2>2. D(a) <= D(i) /\ D(a) # D(i) /\ D(a) \in Nat /\ D(i) \in Nat
    BY <1>1, <1>2, <1>3, <1>7, <2>1
  <2> QED
    BY <2>2
<1>10. /\ f[c - 1].stack # <<>> /\ f[c].stack = Front(f[c - 1].stack) /\ D(c) = D(c - 1) - 1
       /\ Closing[Last(f[c - 1].stack)] = text[c]
  <2>1. D(c - 1) \in Nat /\ D(c) \in Nat /\ D(c) < D(c - 1)
    BY <1>1, <1>2, <1>7, <1>8, <1>9
  <2> QED
    BY <1>4, <1>7, <2>1
<1>11. f[c - 1].stack = f[a + 1].stack
  <2>1. D(c - 1) = D(a) + 1 /\ D(a + 1) = D(a) + 1 /\ D(a) + 1 \in Nat
    BY <1>1, <1>2, <1>5, <1>7, <1>8, <1>10
  <2>2. \A j \in 1 .. D(a) + 1 : f[c - 1].stack[j] = f[a + 1].stack[j]
    <3> DEFINE d == D(a) + 1
               m == a + 1
               n == c - 1
    <3>1. \A i \in m .. n : d <= Len(f[i].stack)
      BY <1>9 DEF D
    <3>2. m \in 0 .. Len(text) /\ n \in m .. Len(text) /\ d \in Nat
      BY <1>1, <1>8, <2>1
    <3> HIDE DEF d, m, n
    <3>3. \A j \in 1 .. d : f[n].stack[j] = f[m].stack[j]
      BY <3>1, <3>2, ScanKeeps
    <3> QED
      BY <3>3 DEF d, m, n
  <2>3. f[c - 1].stack \in Seq(Openings) /\ f[a + 1].stack \in Seq(Openings)
    BY <1>1, <1>2, <1>8
  <2>4. Len(f[c - 1].stack) = D(a) + 1 /\ Len(f[a + 1].stack) = D(a) + 1
    BY <2>1 DEF D
  <2>5. f[c - 1].stack = [j \in 1 .. D(a) + 1 |-> f[c - 1].stack[j]]
    BY <2>3, <2>4, AsFunction
  <2>6. f[a + 1].stack = [j \in 1 .. D(a) + 1 |-> f[a + 1].stack[j]]
    BY <2>3, <2>4, AsFunction
  <2> QED
    BY <2>2, <2>5, <2>6
<1>12. Front(Append(s, o)) = s /\ Last(Append(s, o)) = o
  <2>1. s \in Seq(Openings)
    BY <1>1, <1>2 DEF s
  <2> QED
    BY <1>5, <2>1 DEF Front, Last
<1>13. f[c].stack = s /\ text[c] = Closing[o]
  BY <1>5, <1>10, <1>11, <1>12
<1>14. Level(f, a + 1, c - 1)
  <2>1. \A i \in a + 1 .. c - 1 : D(a + 1) <= D(i)
    BY <1>5, <1>9
  <2> QED
    BY <1>11, <2>1 DEF Level, D
<1>15. Level(f, c, b)
  <2>1. f[b].stack = f[c].stack
    BY <1>13 DEF Level, s
  <2>2. \A i \in c .. b : i \in a .. b
    BY <1>8
  <2>3. \A i \in c .. b : D(c) <= D(i)
    BY <1>3, <1>7, <2>2
  <2> QED
    BY <2>1, <2>3 DEF Level, D
<1>16. ASSUME c # b PROVE c + 2 <= b
  <2>1. CASE c + 1 = b
    <3>1. b \in a + 1 .. b /\ b - 1 = c
      BY <1>8, <2>1
    <3>2. D(b) = D(c) + 1 \/ D(b) = D(c) - 1
      BY <1>4, <3>1
    <3>3. D(b) = D(c) /\ D(c) \in Nat
      BY <1>2, <1>8, <1>15 DEF Level, D
    <3> QED
      BY <3>2, <3>3
  <2> QED
    BY <1>8, <1>16, <2>1
<1> QED
  BY <1>5, <1>8, <1>13, <1>14, <1>15, <1>16 DEF o

LEMMA LevelBalanced ==
  ASSUME NEW text \in Seq(Brackets), NEW f, IsScan(f, text), NoErrors(f, text)
  PROVE  \A n \in Nat : \A a, b \in Nat :
           b = a + n /\ b <= Len(text) /\ Level(f, a, b) => Part(text, a, b) \in Balanced[n]
<1> DEFINE Good(n) == \A a, b \in Nat : b = a + n /\ b <= Len(text) /\ Level(f, a, b) => Part(text, a, b) \in Balanced[n]
           P == {n \in Nat : \A m \in 0 .. n : Good(m)}
<1>1. ASSUME NEW n \in Nat, \A m \in 0 .. n - 1 : Good(m) PROVE Good(n)
  <2> SUFFICES ASSUME NEW a \in Nat, NEW b \in Nat, b = a + n, b <= Len(text), Level(f, a, b)
               PROVE  Part(text, a, b) \in Balanced[n]
    OBVIOUS
  <2>1. CASE n = 0
    <3>1. Part(text, a, b) = <<>>
      BY <2>1 DEF Part
    <3> QED
      BY <2>1, <3>1, BalancedMore
  <2>2. CASE n # 0
    <3>1. PICK c \in Nat : /\ a + 2 <= c /\ c <= b /\ text[a + 1] \in Openings /\ text[c] = Closing[text[a + 1]]
                           /\ Level(f, a + 1, c - 1) /\ Level(f, c, b) /\ (c # b => c + 2 <= b)
      <4>1. a < b
        BY <2>2
      <4> QED
        BY <4>1, FirstPair
    <3> DEFINE o == text[a + 1]
               k == c - 1 - (a + 1)
    <3>2. /\ a + 1 \in Nat /\ c - 1 \in Nat /\ k \in Nat /\ k + 2 = c - a /\ k \in 0 .. n - 1 /\ c - 1 = (a + 1) + k
          /\ Len(text) \in Nat /\ c - 1 < Len(text) /\ a < Len(text) /\ (c - 1) + 1 = c /\ a + 1 <= c - 1 /\ a <= c - 1
          /\ c <= Len(text) /\ a <= c /\ c - 1 <= c /\ c - 1 <= Len(text) /\ a <= a + 1
      <4>1. Len(text) \in Nat /\ a + 2 <= c /\ c <= b /\ b <= Len(text) /\ b = a + n
        BY <3>1
      <4> HIDE <3>1
      <4>2. k \in Nat /\ k + 2 = c - a /\ k \in 0 .. n - 1 /\ c - 1 = (a + 1) + k
        BY <4>1
      <4> QED
        BY <4>1, <4>2
    <3> HIDE DEF o, k, Good
    <3>3. Part(text, a + 1, c - 1) \in Balanced[k]
      BY <1>1, <3>1, <3>2 DEF Good
    <3>4. Part(text, a, c) = <<o>> \o Part(text, a + 1, c - 1) \o <<Closing[o]>>
      <4>1. Part(text, a, a + 1) = <<o>>
        BY <3>2, PartOne DEF o
      <4>2. Part(text, c - 1, c) = <<Closing[o]>>
        <5>1. Part(text, c - 1, (c - 1) + 1) = <<text[(c - 1) + 1]>>
          BY <3>2, PartOne
        <5> QED
          BY <3>1, <3>2, <5>1 DEF o
      <4>3. Part(text, a, c - 1) = Part(text, a, a + 1) \o Part(text, a + 1, c - 1)
        <5> DEFINE m == a + 1
                   l == c - 1
        <5>1. m \in Nat /\ l \in Nat /\ a <= m /\ m <= l /\ l <= Len(text)
          BY <3>2
        <5> HIDE DEF m, l
        <5>2. Part(text, a, l) = Part(text, a, m) \o Part(text, m, l)
          BY <5>1, PartJoin
        <5> QED
          BY <5>2 DEF m, l
      <4>4. Part(text, a, c) = Part(text, a, c - 1) \o Part(text, c - 1, c)
        BY <3>2, PartJoin
      <4> QED
        BY <4>1, <4>2, <4>3, <4>4
    <3>5. Part(text, a, c) \in Balanced[k + 2]
      <4>1. Part(text, a, c) \in Enclosed(Balanced[k])
        <5>1. o \in Openings
          BY <3>1 DEF o
        <5> QED
          BY <3>3, <3>4, <5>1 DEF Enclosed
      <4>2. Balanced[k + 2] = Grown(Balanced[k])
        BY <3>2, BalancedIs
      <4> QED
        BY <4>1, <4>2 DEF Grown
    <3>6. CASE c = b
      <4>1. k + 2 = n
        BY <3>2, <3>6
      <4> QED
        BY <3>5, <3>6, <4>1
    <3>7. CASE c # b
      <4> DEFINE l == b - c
                 r == n - 2
      <4>1. /\ l \in Nat /\ l \in 0 .. n - 1 /\ b = c + l /\ r \in Nat /\ r + 2 = n /\ l <= r /\ k + 2 <= r /\ k + 2 \in Nat
        BY <3>1, <3>2, <3>7
      <4> HIDE DEF l, r
      <4>2. Part(text, c, b) \in Balanced[l]
        BY <1>1, <3>1, <4>1 DEF Good
      <4>3. Part(text, c, b) \in Balanced[r] /\ Part(text, a, c) \in Balanced[r]
        BY <3>5, <4>1, <4>2, BalancedMore
      <4>4. Part(text, a, b) = Part(text, a, c) \o Part(text, c, b)
        <5>1. a <= c /\ c <= b /\ b <= Len(text)
          BY <3>1, <3>2
        <5> QED
          BY <5>1, PartJoin
      <4>5. Part(text, a, b) \in Joined(Balanced[r])
        BY <4>3, <4>4 DEF Joined
      <4>6. Balanced[r + 2] = Grown(Balanced[r])
        BY <4>1, BalancedIs
      <4> QED
        BY <4>1, <4>5, <4>6 DEF Grown
    <3> QED
      BY <3>6, <3>7
  <2> QED
    BY <2>1, <2>2
<1> HIDE DEF Good
<1>2. 0 \in P
  <2>1. Good(0)
    BY <1>1
  <2> QED
    BY <2>1
<1>3. ASSUME NEW n \in P PROVE n + 1 \in P
  <2>1. n \in Nat /\ n + 1 \in Nat /\ \A m \in 0 .. n : Good(m)
    OBVIOUS
  <2>2. (n + 1) - 1 = n
    BY <2>1
  <2>3. Good(n + 1)
    BY <1>1, <2>1, <2>2
  <2>4. \A m \in 0 .. n + 1 : m \in 0 .. n \/ m = n + 1
    BY <2>1
  <2> QED
    BY <2>1, <2>3, <2>4
<1>4. P \in SUBSET Nat
  OBVIOUS
<1>5. \A n \in Nat : n \in P
  <2> HIDE DEF P
  <2> QED
    BY <1>2, <1>3, <1>4, SetInduction
<1>6. \A n \in Nat : Good(n)
  BY <1>5
<1> QED
  BY <1>6 DEF Good

(* A text is valid exactly when it is balanced.                            *)
LEMMA ErrorsStay ==
  ASSUME NEW text \in Seq(Brackets), NEW f, IsScan(f, text), f[Len(text)].errors = 0
  PROVE  NoErrors(f, text)
<1> DEFINE P == {k \in Nat : k <= Len(text) => f[Len(text) - k].errors = 0}
<1>1. 0 \in P
  OBVIOUS
<1>2. ASSUME NEW k \in P PROVE k + 1 \in P
  <2> SUFFICES ASSUME k + 1 <= Len(text) PROVE f[Len(text) - (k + 1)].errors = 0
    OBVIOUS
  <2> DEFINE n == Len(text) - k
  <2>1. n \in 1 .. Len(text) /\ n - 1 = Len(text) - (k + 1) /\ f[n].errors = 0
    OBVIOUS
  <2> HIDE DEF n, P
  <2>2. Passed(f[n - 1], f[n], text[n])
    BY <2>1, ScanSteps
  <2>3. f[n - 1].errors \in Nat /\ (f[n].errors = f[n - 1].errors \/ f[n].errors = f[n - 1].errors + 1
                                    \/ f[n].errors = f[n - 1].errors + 0)
    BY <2>2 DEF Passed
  <2> QED
    BY <2>1, <2>3
<1>3. \A k \in Nat : k \in P
  <2>1. P \in SUBSET Nat
    OBVIOUS
  <2> HIDE DEF P
  <2> QED
    BY <1>1, <1>2, <2>1, SetInduction
<1>4. \A i \in 0 .. Len(text) : Len(text) - i \in Nat /\ Len(text) - i <= Len(text) /\ Len(text) - (Len(text) - i) = i
  OBVIOUS
<1> QED
  BY <1>3, <1>4 DEF NoErrors

LEMMA ValidBalanced ==
  ASSUME NEW n \in Nat, NEW text \in Seq(Brackets), Len(text) <= n, text # <<>>
  PROVE  Valid(text) <=> text \in Balanced[n]
<1>1. PICK f : IsScan(f, text) /\ BracketScan(text) = f[Len(text)]
  BY ScanExists
<1> DEFINE last == Len(text)
<1>2. last \in Nat /\ f[0] = Unopened /\ \A i \in 0 .. last : f[i].stack \in Seq(Openings) /\ f[i].errors \in Nat
  BY <1>1 DEF IsScan, Scans
<1>3. Unopened.stack = <<>> /\ Unopened.errors = 0
  BY DEF Unopened
<1>4. Valid(text) <=> f[last].errors + Len(f[last].stack) = 0
  BY <1>1 DEF Valid
<1>5. ASSUME text \in Balanced[n] PROVE Valid(text)
  <2>1. Spells(text, 0, text)
    BY DEF Spells
  <2>2. f[0 + last] = f[0] /\ 0 + last = last
    BY <1>1, <1>5, <2>1, ScanReturns
  <2>3. f[last].errors = 0 /\ f[last].stack = <<>>
    BY <1>2, <1>3, <2>2
  <2> QED
    BY <1>4, <2>3
<1>6. ASSUME Valid(text) PROVE text \in Balanced[n]
  <2>1. last \in 0 .. last
    BY <1>2
  <2>2. f[last].errors \in Nat /\ Len(f[last].stack) \in Nat /\ f[last].stack \in Seq(Openings)
    BY <1>2, <2>1
  <2>3. f[last].errors = 0 /\ f[last].stack = <<>>
    BY <1>4, <1>6, <2>2
  <2>4. NoErrors(f, text)
    BY <1>1, <2>3, ErrorsStay
  <2>5. Level(f, 0, last)
    <3>1. f[last].stack = f[0].stack /\ Len(f[0].stack) = 0
      BY <1>2, <1>3, <2>3
    <3>2. \A i \in 0 .. last : 0 <= Len(f[i].stack)
      BY <1>2
    <3> QED
      BY <3>1, <3>2 DEF Level
  <2>6. Part(text, 0, last) \in Balanced[last]
    <3>1. last = 0 + last /\ last <= Len(text) /\ 0 \in Nat
      BY <1>2
    <3> QED
      BY <1>1, <1>2, <2>4, <2>5, <3>1, LevelBalanced
  <2>7. Part(text, 0, last) = text
    BY PartAll
  <2> QED
    BY <1>2, <2>6, <2>7, BalancedMore
<1> QED
  BY <1>5, <1>6

LEMMA TextsAreSound == TextInv => TextsSound
<1> SUFFICES ASSUME TextInv PROVE TextsSound
  OBVIOUS
<1>1. /\ MaxLines \in Nat /\ MaxBrackets \in Nat
  BY ConfigsAssumption
<1>2. ASSUME NEW A, NEW n \in Nat, NEW t \in Texts(A, n) PROVE t \in Seq(A) /\ Len(t) <= n
  <2>1. PICK k \in 0 .. n : t \in [1 .. k -> A]
    BY DEF Texts
  <2>2. k \in Nat /\ k <= n
    OBVIOUS
  <2> QED
    BY <2>1, <2>2
<1>3. \A n \in DOMAIN generated :
        generated[n].success /\ generated[n].source = None =>
          Blank(generated[n].text, generated[n].values) \subseteq generated[n].warnings
  BY DEF TextInv, NoHole
<1>4. LET entries == Entries(compared.a, compared.b, compared.matching)
      IN  /\ Applied(compared.a, compared.b, entries) = compared.b
          /\ \A d, e \in entries : d # e => (d.a # e.a \/ d.a = 0) /\ (d.b # e.b \/ d.b = 0)
          /\ entries = {} => compared.a = compared.b
  <2> DEFINE a == compared.a
             b == compared.b
             m == compared.matching
  <2>1. a \in Seq(Lines) /\ b \in Seq(Lines) /\ m \in Matchings(a, b)
    <3>1. a \in Texts(Lines, MaxLines) /\ b \in Texts(Lines, MaxLines) /\ m \in Matchings(a, b)
      BY DEF TextInv
    <3> HIDE DEF a, b, m
    <3> QED
      BY <1>1, <1>2, <3>1
  <2> HIDE DEF a, b, m
  <2>2. LET entries == Entries(a, b, m)
        IN  /\ Applied(a, b, entries) = b
            /\ \A d, e \in entries : d # e => (d.a # e.a \/ d.a = 0) /\ (d.b # e.b \/ d.b = 0)
            /\ entries = {} => a = b
    BY <2>1, DiffSound
  <2> QED
    BY <2>2 DEF a, b, m
<1>5. validated # <<>> => (Valid(validated) <=> validated \in Balanced[MaxBrackets])
  <2>1. validated \in Texts(Brackets, MaxBrackets)
    BY DEF TextInv, Brackets
  <2>2. validated \in Seq(Brackets) /\ Len(validated) <= MaxBrackets
    BY <1>1, <1>2, <2>1
  <2> QED
    BY <1>1, <2>2, ValidBalanced
<1> QED
  BY <1>3, <1>4, <1>5 DEF TextsSound

(* For every vendor, every stored template, every matching of difflib's    *)
(* choice and every text of brackets: no placeholder of a built-in text is *)
(* left empty unnoticed, a diff is exact and validate_config accepts the   *)
(* balanced texts (device_config_service.py).                              *)
THEOREM TextsAlwaysSound == ManagementSpec => []TextsSound
<1>1. ManagementInit => TextInv
  BY TextInitInv DEF ManagementInit
<1>2. TextInv /\ [ManagementNext]_managementVars => TextInv'
  <2>1. [ManagementNext]_managementVars => [DevicesNext]_deviceVars
    BY DEF ManagementNext, managementVars
  <2> QED
    BY <2>1, TextNextInv
<1> QED
  BY <1>1, <1>2, TextsAreSound, PTL DEF ManagementSpec
=============================================================================
