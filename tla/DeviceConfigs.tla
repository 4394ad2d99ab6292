---------------------------- MODULE DeviceConfigs ----------------------------
(***************************************************************************)
(* services/device_config_service.py: templates in the database, texts     *)
(* made from them or from the built-in ones, and the comparison and the    *)
(* validation of texts.                                                    *)
(*                                                                         *)
(* A value is 0 or null: what it says does not matter.  A placeholder that *)
(* fits neither pattern of _render_template stays in the text and is       *)
(* warned about; the texts have none.                                      *)
(***************************************************************************)
EXTENDS DeviceTemplates, ConfigTexts

CONSTANTS
  None, Gone,
  TemplateIds,
  TemplateRows,   \* requests of create_template: [name, vendor, type, text, variables, enabled]
  Given,          \* variables of requests: functions from names to values or None
  Lines,          \* lines of the texts that are compared
  MaxLines,       \* bound: lines of these texts
  MaxBrackets     \* bound: brackets of the texts that are validated

ASSUME ConfigsAssumption ==
  /\ TemplateIds \subseteq Nat /\ IsFiniteSet(TemplateIds) /\ None \notin Nat
  /\ MaxLines \in Nat /\ MaxBrackets \in Nat

VARIABLES
  templates,   \* id -> row of device_config_templates, None, or Gone
  creating,    \* the call of create_template in progress, or None
  generated,   \* the answer of the last generation, a sequence of results
  compared,    \* the last comparison of two texts
  validated,   \* the last validated text
  devices      \* the part of the module a behaviour is about: "templates" or "texts"

deviceVars == <<templates, creating, generated, compared, validated, devices>>

Stored(t) == templates[t] \notin {None, Gone}
Named(name) == {t \in TemplateIds : Stored(t) /\ templates[t].name = name}

Same == [a |-> <<>>, b |-> <<>>, matching |-> {}]

DevicesInit ==
  /\ templates = [t \in TemplateIds |-> None]
  /\ creating = None
  /\ generated = <<>>
  /\ devices \in {"templates", "texts"}
  /\ compared = Same
  /\ validated = <<>>

-----------------------------------------------------------------------------
(* Templates.  Nothing in the database keeps two from having one name. *)

(* create_template finds a template of the name, one or more, and raises. *)
BeginCreateTemplate(t, row) ==
  /\ devices = "templates"
  /\ creating = None
  /\ templates[t] = None
  /\ Named(row.name) = {}
  /\ creating' = [id |-> t, row |-> row]
  /\ UNCHANGED <<templates, generated, compared, validated, devices>>

CommitCreateTemplate ==
  /\ creating # None
  /\ templates' = [templates EXCEPT ![creating.id] = creating.row]
  /\ creating' = None
  /\ UNCHANGED <<generated, compared, validated, devices>>

(* update_template: any field, the name included, without a look at the others. *)
UpdateTemplate(t, row) ==
  /\ devices = "templates"
  /\ Stored(t)
  /\ templates' = [templates EXCEPT ![t] = row]
  /\ UNCHANGED <<creating, generated, compared, validated, devices>>

DeleteTemplate(t) ==
  /\ devices = "templates"
  /\ Stored(t)
  /\ templates' = [templates EXCEPT ![t] = Gone]
  /\ UNCHANGED <<creating, generated, compared, validated, devices>>

-----------------------------------------------------------------------------
(* Generation. *)

Variable(required, default) == [required |-> required, default |-> default]

CommonVariables ==
  [asn |-> Variable(TRUE, None), rtr_server |-> Variable(TRUE, None), rtr_port |-> Variable(TRUE, 0),
   refresh_interval |-> Variable(FALSE, 0), retry_interval |-> Variable(FALSE, 0),
   expire_interval |-> Variable(FALSE, 0), router_id |-> Variable(FALSE, None),
   policy |-> Variable(FALSE, 0), localpref_valid |-> Variable(FALSE, 0),
   localpref_invalid |-> Variable(FALSE, 0), localpref_not_found |-> Variable(FALSE, 0)]

Add(values, name, value) == [v \in DOMAIN values \union {name} |-> IF v \in DOMAIN values THEN values[v] ELSE value]

WithDefaults(values, variables) ==
  LET absent == {v \in DOMAIN variables \ DOMAIN values : variables[v].default # None}
  IN  [v \in DOMAIN values \union absent |-> IF v \in DOMAIN values THEN values[v] ELSE variables[v].default]

(* _get_required_variables and the check that follows it. *)
Missing(values, variables) ==
  {v \in DOMAIN variables : variables[v].required /\ (v \notin DOMAIN values \/ values[v] = None)}

(* The placeholders that _render_template replaces by the empty string. *)
Blank(text, values) == text \ DOMAIN values

Result(vendor, kind, source, text, values, variables) ==
  [success |-> TRUE, vendor |-> vendor, kind |-> kind, source |-> source, text |-> text,
   values |-> values, warnings |-> Missing(values, variables)]

Failure(vendor, kind) == [success |-> FALSE, vendor |-> vendor, kind |-> kind]

(* The enabled template with the greatest id, or else the built-in one. *)
Candidates(vendor, type) ==
  {t \in TemplateIds : Stored(t) /\ templates[t].vendor = vendor /\ templates[t].type = type /\ templates[t].enabled}

Generate(vendor, type, given) ==
  LET values == Add(given, "generated_at", 0)
      found == Candidates(vendor, type)
      newest == CHOOSE t \in found : \A u \in found : u <= t
      row == templates[newest]
  IN  IF found # {}
      THEN IF row.variables = None
           THEN Result(vendor, type, newest, row.text, values, CommonVariables)
           ELSE Result(vendor, type, newest, row.text, WithDefaults(values, row.variables), row.variables)
      ELSE IF type \in DOMAIN DefaultTemplates[vendor]
           THEN Result(vendor, type, None, DefaultTemplates[vendor][type],
                       WithDefaults(values, CommonVariables), CommonVariables)
           ELSE Failure(vendor, type)

\* Mutant of GenerateByPolicy: the defaults are not filled in.
GenerateByPolicyBare(vendor, policy, given) ==
  LET values == Add(Add(given, "generated_at", 0), "policy", 0)
  IN  Result(vendor, policy, None, PolicyTemplates[vendor][policy], values, CommonVariables)

GenerateByPolicy(vendor, policy, given) ==
  LET values == Add(Add(given, "generated_at", 0), "policy", 0)
  IN  Result(vendor, policy, None, PolicyTemplates[vendor][policy],
             WithDefaults(values, CommonVariables), CommonVariables)

GenerateOne(vendor, type, given) ==
  /\ devices = "templates"
  /\ generated' = <<Generate(vendor, type, given)>>
  /\ UNCHANGED <<templates, creating, compared, validated, devices>>

GenerateForPolicy(vendor, policy, given) ==
  /\ devices = "templates"
  /\ generated' = <<GenerateByPolicy(vendor, policy, given)>>
  /\ UNCHANGED <<templates, creating, compared, validated, devices>>

(* generate_batch_configs: a device that fails, for a type nobody has, fails alone. *)
GenerateBatch(vendor, items) ==
  /\ devices = "templates"
  /\ generated' = [n \in DOMAIN items |-> Generate(vendor, items[n], CHOOSE g \in Given : TRUE)]
  /\ UNCHANGED <<templates, creating, compared, validated, devices>>

-----------------------------------------------------------------------------
(* Texts. *)

Texts(letters, n) == UNION {[1..k -> letters] : k \in 0..n}

Matchings(a, b) ==
  {m \in SUBSET {p \in (DOMAIN a) \X (DOMAIN b) : a[p[1]] = b[p[2]]} :
     \A p, q \in m : p # q => (p[1] < q[1] /\ p[2] < q[2]) \/ (q[1] < p[1] /\ q[2] < p[2])}

(* One text for each behaviour. *)
Untried == compared = Same /\ validated = <<>>

Compare(a, b) ==
  /\ devices = "texts"
  /\ \E m \in Matchings(a, b) : compared' = [a |-> a, b |-> b, matching |-> m]
  /\ UNCHANGED <<templates, creating, generated, validated, devices>>

Validate(text) ==
  /\ devices = "texts"
  /\ validated' = text
  /\ UNCHANGED <<templates, creating, generated, compared, devices>>

-----------------------------------------------------------------------------
DevicesNext ==
  \/ \E t \in TemplateIds, row \in TemplateRows :
       BeginCreateTemplate(t, row) \/ UpdateTemplate(t, row)
  \/ CommitCreateTemplate
  \/ \E t \in TemplateIds : DeleteTemplate(t)
  \/ \E vendor \in Vendors :
       \/ \E given \in Given :
            \/ \E type \in TemplateTypes : GenerateOne(vendor, type, given)
            \/ \E policy \in Policies : GenerateForPolicy(vendor, policy, given)
       \/ GenerateBatch(vendor, <<"rtr_client", "unknown", "rov_policy">>)
  \/ Untried /\ \E a, b \in Texts(Lines, MaxLines) : Compare(a, b)
  \/ Untried /\ \E text \in Texts(Openings \union Closings, MaxBrackets) : Validate(text)

-----------------------------------------------------------------------------
(* A built-in text is not left with a hole unnoticed: every placeholder that is
   rendered as the empty string is among the warnings, although the search for
   unfilled placeholders comes after all of them were replaced and finds none; of
   the templates of the database, whose placeholders may be anything, this is not
   said.  A diff takes the first text to the second, mentions each changed line
   once, and is empty only for equal texts, whichever equal lines difflib matches.
   A text that is not empty is valid exactly when its brackets are balanced. *)
TextsSound ==
  /\ \A n \in DOMAIN generated :
       generated[n].success /\ generated[n].source = None =>
         Blank(generated[n].text, generated[n].values) \subseteq generated[n].warnings
  /\ LET entries == Entries(compared.a, compared.b, compared.matching)
     IN  /\ Applied(compared.a, compared.b, entries) = compared.b
         /\ \A d, e \in entries : d # e => (d.a # e.a \/ d.a = 0) /\ (d.b # e.b \/ d.b = 0)
         /\ entries = {} => compared.a = compared.b
  /\ validated # <<>> => (Valid(validated) <=> validated \in Balanced[MaxBrackets])
=============================================================================
