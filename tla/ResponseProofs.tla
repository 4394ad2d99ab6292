--------------------------- MODULE ResponseProofs ---------------------------
(***************************************************************************)
(* Theorems about Response for any number of alerts, incidents, channels,  *)
(* integrations and overlapping calls, whatever the clients ask for:       *)
(*  - LInv: what calls on alerts and incidents may rely on.                *)
(*  - NInv, PInv: what a notification and a publication in progress have   *)
(*    sent so far, and what of it is on record.                            *)
(*  - RInv: what a call that closes with a review may rely on.             *)
(***************************************************************************)
EXTENDS Response, FiniteSetTheorems, SequenceTheorems, TLAPS

(***************************************************************************)
(* Alerts and incidents.  A call in flight holds the incident as it was    *)
(* when the call began; what it may rely on since is that the incident is  *)
(* there and that a list of alerts that had an entry has one still; an     *)
(* alert that was linked to it already then had made it list one.          *)
(***************************************************************************)
NotAFunction(x) == x # [y \in DOMAIN x |-> x[y]]
IsList(s) == \E S : s \in Seq(S)
AlertLists == {None} \union Seq(AlertIds)
IsRow(row) ==
  /\ row = [f \in DOMAIN row |-> row[f]]
  /\ {"status", "alertIds", "firstSeen"} \subseteq DOMAIN row
  /\ row.alertIds \in AlertLists /\ row.firstSeen \in Nat
IsAlert(row) == "incident" \in DOMAIN row

CallFields == {"kind", "id", "incident", "alert", "row", "arg", "now"}
OnIncident == IncidentKinds \union {"suggest", "collect"} \union ReviewKinds

CallOK(c, rows) ==
  /\ DOMAIN c = CallFields
  /\ c.kind \in OnIncident \union {"alert_status", "assign_alert"}
  /\ c.kind # "alert_status" =>
       /\ c.id \in IncidentIds /\ rows[c.id] # None /\ IsRow(c.incident)
       /\ Listed(c.incident) # {} => Listed(rows[c.id]) # {}
  /\ c.kind \in {"alert_status", "assign_alert"} => c.alert \in AlertIds /\ IsAlert(c.row)
  /\ c.kind = "assign_alert" /\ c.row.incident = c.id => Listed(c.incident) # {}
  /\ c.kind = "update" => c.arg \in Updates

RowsOK ==
  /\ IsList(alerts) /\ Len(alerts) \in 0..MaxAlerts
  /\ \A a \in 1..Len(alerts) : Exists(a) => IsAlert(alerts[a])
  /\ DOMAIN incidents = IncidentIds /\ DOMAIN calls = Ops
  /\ \A i \in IncidentIds : incidents[i] # None => IsRow(incidents[i])
CallsOK == \A o \in Ops : calls[o] # None => CallOK(calls[o], incidents)
LinksOK ==
  \A a \in 1..Len(alerts) : Exists(a) /\ alerts[a].incident \in IncidentIds =>
    incidents[alerts[a].incident] # None /\ Listed(incidents[alerts[a].incident]) # {}
LInv == RowsOK /\ CallsOK /\ LinksOK /\ clients \in Clients

-----------------------------------------------------------------------------
(* Lists that are appended to or changed in one place. *)
LEMMA AppendIsList ==
  ASSUME NEW s, IsList(s), NEW x
  PROVE  /\ IsList(Append(s, x)) /\ Len(s) \in Nat /\ Len(Append(s, x)) = Len(s) + 1
         /\ \A n \in 1..Len(s) : Append(s, x)[n] = s[n]
         /\ Append(s, x)[Len(s) + 1] = x
<1>1. PICK S : s \in Seq(S)
  BY DEF IsList
<1>2. s \in Seq(S \union {x}) /\ Append(s, x) \in Seq(S \union {x})
  BY <1>1
<1> QED
  BY <1>2 DEF IsList

LEMMA ChangedIsList ==
  ASSUME IsList(alerts), NEW a \in 1..Len(alerts), NEW x, alerts' = [alerts EXCEPT ![a] = x]
  PROVE  /\ IsList(alerts') /\ Len(alerts') = Len(alerts)
         /\ \A b \in 1..Len(alerts) : alerts'[b] = IF b = a THEN x ELSE alerts[b]
<1>1. PICK S : alerts \in Seq(S)
  BY DEF IsList
<1>2. alerts \in Seq(S \union {x}) /\ alerts' \in Seq(S \union {x})
  BY <1>1
<1> QED
  BY <1>1, <1>2 DEF IsList

LEMMA FunctionIsList ==
  ASSUME NEW k \in Nat, NEW S, NEW t \in [1..k -> S]
  PROVE  IsList(t) /\ Len(t) = k
<1>1. t \in Seq(S)
  OBVIOUS
<1> QED
  BY <1>1 DEF IsList

(* A commit leaves a row a row, and does not empty its list: what it writes over
   the list is the list of the loaded row, which is no change, or one with an
   entry. *)
LEMMA FlushedKeepsList ==
  ASSUME NEW row, IsRow(row), NEW loaded, IsRow(loaded), NEW new,
         new.alertIds = loaded.alertIds \/ (new.alertIds \in AlertLists /\ Listed(new) # {}),
         new.firstSeen = loaded.firstSeen
  PROVE  /\ IsRow(Flushed(row, loaded, new))
         /\ Listed(row) # {} => Listed(Flushed(row, loaded, new)) # {}
         /\ new.alertIds # loaded.alertIds => Listed(Flushed(row, loaded, new)) # {}
<1> DEFINE f == Flushed(row, loaded, new)
<1>1. DOMAIN f = DOMAIN row /\ {"status", "alertIds", "firstSeen"} \subseteq DOMAIN row
      /\ f = [x \in DOMAIN f |-> f[x]]
      /\ f.firstSeen = row.firstSeen /\ row.firstSeen \in Nat
      /\ f.alertIds = IF new.alertIds = loaded.alertIds THEN row.alertIds ELSE new.alertIds
  BY DEF Flushed, IsRow
<1> HIDE DEF f
<1>2. IsRow(f)
  BY <1>1 DEF IsRow
<1>3. CASE new.alertIds = loaded.alertIds
  <2>1. Listed(f) = Listed(row)
    BY <1>1, <1>3 DEF Listed
  <2> QED
    BY <1>2, <1>3, <2>1 DEF f
<1>4. CASE new.alertIds # loaded.alertIds
  <2>1. Listed(f) = Listed(new)
    BY <1>1, <1>4 DEF Listed
  <2> QED
    BY <1>2, <1>4, <2>1 DEF f
<1> QED
  BY <1>3, <1>4

(* A list without an entry gets one. *)
LEMMA AppendedHasEntry ==
  ASSUME NotAFunction(None), NEW list \in AlertLists, NEW a \in AlertIds,
         (IF list = None THEN {} ELSE ToSet(list)) = {}
  PROVE  AppendedInPlace(list, a) = <<a>> /\ <<a>> \in AlertLists /\ <<a>> # None /\ a \in ToSet(<<a>>)
<1>1. list \in {None, <<>>}
  <2> SUFFICES ASSUME list # None PROVE list = <<>>
    OBVIOUS
  <2>1. list \in Seq(AlertIds) /\ ToSet(list) = {}
    BY DEF AlertLists
  <2>2. Len(list) \in Nat /\ DOMAIN list = 1..Len(list)
    BY <2>1
  <2>3. 1 \notin DOMAIN list
    BY <2>1 DEF ToSet
  <2>4. Len(list) = 0
    BY <2>2, <2>3
  <2> QED
    BY <2>1, <2>4
<1>2. <<a>> # None /\ <<a>> \in Seq(AlertIds)
  <2>1. <<a>> \in Seq(AlertIds)
    OBVIOUS
  <2> QED
    BY <2>1 DEF NotAFunction
<1>3. a \in ToSet(<<a>>)
  <2>1. <<a>>[1] = a /\ 1 \in DOMAIN <<a>>
    OBVIOUS
  <2> QED
    BY <2>1 DEF ToSet
<1> QED
  BY <1>1, <1>2, <1>3 DEF AppendedInPlace, AlertLists

-----------------------------------------------------------------------------
(* What calls know survives a write that empties no list. *)
LEMMA CallsKeepKnowing ==
  ASSUME RowsOK, CallsOK, NEW o \in Ops, Return(o),
         DOMAIN incidents' = IncidentIds,
         \A i \in IncidentIds : incidents[i] # None =>
           incidents'[i] # None /\ (Listed(incidents[i]) # {} => Listed(incidents'[i]) # {})
  PROVE  DOMAIN calls' = Ops /\ CallsOK'
<1>1. DOMAIN calls' = Ops /\ \A p \in Ops : calls'[p] = IF p = o THEN None ELSE calls[p]
  BY DEF RowsOK, Return
<1>2. ASSUME NEW p \in Ops, NEW c, c = calls[p], c # None PROVE CallOK(c, incidents')
  <2>1. CallOK(c, incidents)
    BY <1>2 DEF CallsOK
  <2>2. CASE c.kind = "alert_status"
    BY <2>1, <2>2 DEF CallOK
  <2>3. CASE c.kind # "alert_status"
    <3>1. /\ c.id \in IncidentIds /\ incidents[c.id] # None /\ IsRow(c.incident)
          /\ Listed(c.incident) # {} => Listed(incidents[c.id]) # {}
      BY <2>1, <2>3 DEF CallOK
    <3>2. incidents'[c.id] # None /\ (Listed(incidents[c.id]) # {} => Listed(incidents'[c.id]) # {})
      BY <3>1
    <3> QED
      BY <2>1, <2>3, <3>1, <3>2 DEF CallOK
  <2> QED
    BY <2>2, <2>3
<1> QED
  BY <1>1, <1>2 DEF CallsOK

(* A call on an incident that leaves its list alone. *)
LEMMA WriteKeepsLinks ==
  ASSUME NotAFunction(None), LInv, NEW o \in Ops, calls[o] # None, calls[o].kind \in OnIncident, NEW new,
         new.alertIds = calls[o].incident.alertIds, new.firstSeen = calls[o].incident.firstSeen,
         WriteIncident(calls[o], new), Return(o), UNCHANGED <<alerts, clients>>
  PROVE  LInv'
<1> DEFINE c == calls[o]
<1>1. RowsOK /\ CallsOK /\ LinksOK /\ clients \in Clients
  BY DEF LInv
<1>2. /\ c.id \in IncidentIds /\ incidents[c.id] # None /\ IsRow(c.incident)
  <2>1. c.kind # "alert_status"
    BY DEF OnIncident, IncidentKinds, ReviewKinds
  <2> QED
    BY <1>1, <2>1 DEF CallsOK, CallOK
<1>3. IsRow(incidents[c.id])
  BY <1>1, <1>2 DEF RowsOK
<1> DEFINE row == Flushed(incidents[c.id], c.incident, new)
<1>4. IsRow(row) /\ (Listed(incidents[c.id]) # {} => Listed(row) # {})
  BY <1>2, <1>3, FlushedKeepsList
<1>5. incidents' = [incidents EXCEPT ![c.id] = row]
  BY DEF WriteIncident
<1> HIDE DEF row
<1>6. DOMAIN incidents' = IncidentIds /\ \A i \in IncidentIds : incidents'[i] = IF i = c.id THEN row ELSE incidents[i]
  BY <1>1, <1>2, <1>5 DEF RowsOK
<1>7. row # None
  BY <1>4 DEF IsRow, NotAFunction
<1>8. \A i \in IncidentIds : incidents[i] # None =>
        incidents'[i] # None /\ (Listed(incidents[i]) # {} => Listed(incidents'[i]) # {})
  BY <1>4, <1>6, <1>7
<1>9. DOMAIN calls' = Ops /\ CallsOK'
  BY <1>1, <1>6, <1>8, CallsKeepKnowing
<1>10. RowsOK'
  BY <1>1, <1>4, <1>6, <1>9 DEF RowsOK, Exists
<1>11. LinksOK'
  BY <1>1, <1>8 DEF LinksOK, Exists
<1> QED
  BY <1>1, <1>9, <1>10, <1>11 DEF LInv

-----------------------------------------------------------------------------
(* The other steps. *)
LEMMA BeginKeepsLinks ==
  ASSUME LInv, NEW o \in Ops, NEW kind, NEW i \in IncidentIds \union {None}, NEW a, NEW arg,
         Begin(o, kind, i, a, arg),
         kind \in OnIncident \union {"alert_status", "assign_alert"},
         kind # "alert_status" => i \in IncidentIds /\ incidents[i] # None,
         kind \in {"alert_status", "assign_alert"} => a # None /\ a \in 1..Len(alerts) /\ Exists(a),
         kind = "update" => arg \in Updates
  PROVE  LInv'
<1> DEFINE c == [kind |-> kind, id |-> i, incident |-> IF i = None THEN None ELSE incidents[i],
                 alert |-> a, row |-> IF a = None THEN None ELSE alerts[a], arg |-> arg, now |-> clock]
<1>1. RowsOK /\ CallsOK /\ LinksOK /\ clients \in Clients
  BY DEF LInv
<1>2. calls' = [calls EXCEPT ![o] = c] /\ UNCHANGED <<alerts, incidents, clients>>
  BY DEF Begin
<1>3. /\ DOMAIN c = CallFields /\ c.kind = kind /\ c.id = i /\ c.arg = arg /\ c.alert = a
      /\ c.incident = IF i = None THEN None ELSE incidents[i]
      /\ c.row = IF a = None THEN None ELSE alerts[a]
  BY DEF CallFields
<1> HIDE DEF c
<1>4. c.kind # "alert_status" =>
        /\ c.id \in IncidentIds /\ incidents[c.id] # None /\ IsRow(c.incident)
        /\ Listed(c.incident) # {} => Listed(incidents[c.id]) # {}
  BY <1>1, <1>3, IncidentsAssumption DEF RowsOK
<1>5. c.kind \in {"alert_status", "assign_alert"} => c.alert \in AlertIds /\ IsAlert(c.row)
  BY <1>1, <1>3, IncidentsAssumption DEF RowsOK, AlertIds
<1>9. c.kind = "assign_alert" /\ c.row.incident = c.id => Listed(c.incident) # {}
  BY <1>1, <1>3, IncidentsAssumption DEF LinksOK
<1>6. CallOK(c, incidents)
  BY <1>3, <1>4, <1>5, <1>9 DEF CallOK
<1>7. DOMAIN calls' = Ops /\ \A p \in Ops : calls'[p] = IF p = o THEN c ELSE calls[p]
  BY <1>1, <1>2 DEF RowsOK
<1>8. CallsOK'
  BY <1>1, <1>2, <1>6, <1>7 DEF CallsOK
<1> QED
  BY <1>1, <1>2, <1>7, <1>8 DEF LInv, RowsOK, LinksOK, Exists

LEMMA CreateAlertKeepsLinks ==
  ASSUME LInv, NEW row, CreateAlert(row)
  PROVE  LInv'
<1> DEFINE new == NewAlert(row)
<1>1. RowsOK /\ CallsOK /\ LinksOK /\ clients \in Clients
  BY DEF LInv
<1>2. Len(alerts) < MaxAlerts /\ alerts' = Append(alerts, new) /\ UNCHANGED <<incidents, calls, clients>>
  BY DEF CreateAlert
<1>3. IsAlert(new) /\ new.incident = None
  BY DEF NewAlert, IsAlert
<1> HIDE DEF new
<1>4. /\ IsList(alerts') /\ Len(alerts) \in Nat /\ Len(alerts') = Len(alerts) + 1
      /\ \A n \in 1..Len(alerts) : alerts'[n] = alerts[n]
      /\ alerts'[Len(alerts) + 1] = new
  BY <1>1, <1>2, AppendIsList DEF RowsOK
<1>5. \A a \in 1..Len(alerts') :
        \/ a \in 1..Len(alerts) /\ alerts'[a] = alerts[a]
        \/ IsAlert(alerts'[a]) /\ alerts'[a].incident = None
  BY <1>3, <1>4
<1>6. RowsOK'
  <2>1. Len(alerts') \in 0..MaxAlerts
    BY <1>2, <1>4, IncidentsAssumption
  <2>2. \A a \in 1..Len(alerts') : Exists(a)' => IsAlert(alerts'[a])
    BY <1>1, <1>5 DEF RowsOK, Exists
  <2> QED
    BY <1>1, <1>2, <1>4, <2>1, <2>2 DEF RowsOK
<1>7. LinksOK'
  BY <1>1, <1>2, <1>5, IncidentsAssumption DEF LinksOK, Exists
<1> QED
  BY <1>1, <1>2, <1>6, <1>7 DEF LInv, CallsOK

LEMMA DropAlertKeepsLinks ==
  ASSUME LInv, NEW a \in 1..Len(alerts), DropAlert(a)
  PROVE  LInv'
<1>1. RowsOK /\ CallsOK /\ LinksOK /\ clients \in Clients
  BY DEF LInv
<1>2. alerts' = [alerts EXCEPT ![a] = Gone] /\ UNCHANGED <<incidents, calls, clients>>
  BY DEF DropAlert
<1>3. /\ IsList(alerts') /\ Len(alerts') = Len(alerts)
      /\ \A b \in 1..Len(alerts) : alerts'[b] = IF b = a THEN Gone ELSE alerts[b]
  <2>1. IsList(alerts)
    BY <1>1 DEF RowsOK
  <2> QED
    BY ONLY <1>2, <2>1, ChangedIsList, a \in 1..Len(alerts)
<1>4. RowsOK'
  BY <1>1, <1>2, <1>3 DEF RowsOK, Exists
<1>5. LinksOK'
  BY <1>1, <1>2, <1>3 DEF LinksOK, Exists
<1> QED
  BY <1>1, <1>2, <1>4, <1>5 DEF LInv, CallsOK

(* A new status is all that changes of an alert: its link is written only when the
   call changed it. *)
LEMMA AlertStatusKeepsLinks ==
  ASSUME LInv, NEW o \in Ops, CommitAlertStatus(o)
  PROVE  LInv'
<1> DEFINE c == calls[o]
           new == [c.row EXCEPT !.status = c.arg.status, !.benign = IF c.arg.benign = None THEN @ ELSE c.arg.benign]
           row == Flushed(alerts[c.alert], c.row, new)
<1>1. RowsOK /\ CallsOK /\ LinksOK /\ clients \in Clients
  BY DEF LInv
<1>2. c # None /\ c.kind = "alert_status"
  BY DEF CommitAlertStatus, Running
<1>3. IsAlert(c.row)
  BY <1>1, <1>2 DEF CallsOK, CallOK
<1>4. /\ alerts' = IF Exists(c.alert) THEN [alerts EXCEPT ![c.alert] = row] ELSE alerts
      /\ Return(o) /\ UNCHANGED <<incidents, clients>>
  BY DEF CommitAlertStatus
<1>5. DOMAIN calls' = Ops /\ CallsOK'
  BY <1>1, <1>4, CallsKeepKnowing DEF RowsOK
<1>6. CASE ~Exists(c.alert)
  BY <1>1, <1>4, <1>5, <1>6 DEF LInv, RowsOK, LinksOK, Exists
<1>7. CASE Exists(c.alert)
  <2>1. c.alert \in 1..Len(alerts) /\ IsAlert(alerts[c.alert])
    BY <1>1, <1>7 DEF RowsOK, Exists
  <2>2. IsAlert(row) /\ row.incident = alerts[c.alert].incident
    <3>1. new.incident = c.row.incident
      BY <1>3 DEF IsAlert
    <3> QED
      BY <2>1, <3>1 DEF IsAlert, Flushed
  <2> HIDE DEF row
  <2>3. /\ IsList(alerts') /\ Len(alerts') = Len(alerts)
        /\ \A b \in 1..Len(alerts) : alerts'[b] = IF b = c.alert THEN row ELSE alerts[b]
    <3>1. IsList(alerts) /\ alerts' = [alerts EXCEPT ![c.alert] = row]
      BY <1>1, <1>4, <1>7 DEF RowsOK
    <3> HIDE DEF c
    <3> QED
      BY <2>1, <3>1, ChangedIsList
  <2>4. RowsOK'
    BY <1>1, <1>4, <1>5, <2>2, <2>3 DEF RowsOK, Exists
  <2>5. LinksOK'
    BY <1>1, <1>4, <1>7, <2>2, <2>3 DEF LinksOK, Exists
  <2> QED
    BY <1>1, <1>4, <1>5, <2>4, <2>5 DEF LInv
<1> QED
  BY <1>6, <1>7

(* The incident an alert is assigned to lists an alert afterwards: its list has got
   its first entry, or it had one when it was loaded and has one still. *)
LEMMA AssignAlertKeepsLinks ==
  ASSUME NotAFunction(None), LInv, NEW o \in Ops, CommitAssignAlert(o)
  PROVE  LInv'
<1> DEFINE c == calls[o]
           list == IF c.alert \in Listed(c.incident) THEN c.incident.alertIds
                   ELSE AppendedInPlace(c.incident.alertIds, c.alert)
           new == [c.incident EXCEPT !.alertIds = list]
           row == Flushed(incidents[c.id], c.incident, new)
           link == Flushed(alerts[c.alert], c.row, [c.row EXCEPT !.incident = c.id, !.status = "assigned"])
<1>1. RowsOK /\ CallsOK /\ LinksOK /\ clients \in Clients
  BY DEF LInv
<1>2. c # None /\ c.kind = "assign_alert"
  BY DEF CommitAssignAlert, Running
<1>3. /\ c.id \in IncidentIds /\ incidents[c.id] # None /\ IsRow(c.incident)
      /\ Listed(c.incident) # {} => Listed(incidents[c.id]) # {}
      /\ c.alert \in AlertIds /\ IsAlert(c.row)
  BY <1>1, <1>2 DEF CallsOK, CallOK
<1>4. /\ IF Exists(c.alert)
         THEN alerts' = [alerts EXCEPT ![c.alert] = link] /\ incidents' = [incidents EXCEPT ![c.id] = row]
         ELSE UNCHANGED <<alerts, incidents>>
      /\ Return(o) /\ UNCHANGED clients
  BY DEF CommitAssignAlert, WriteIncident
<1>5. IsRow(incidents[c.id])
  BY <1>1, <1>3 DEF RowsOK
<1>6. new.alertIds = list /\ "alertIds" \in DOMAIN c.incident /\ new.firstSeen = c.incident.firstSeen
  BY <1>3 DEF IsRow
<1>7. IsRow(row) /\ Listed(row) # {}
  <2>1. CASE Listed(c.incident) # {}
    <3>1. c.incident.alertIds \notin {None, <<>>}
      BY <2>1 DEF Listed, ToSet
    <3>2. list = c.incident.alertIds
      BY <3>1 DEF AppendedInPlace
    <3> HIDE DEF list, new
    <3> QED
      BY <1>3, <1>5, <1>6, <2>1, <3>2, FlushedKeepsList
  <2>2. CASE Listed(c.incident) = {}
    <3>1. list = <<c.alert>> /\ <<c.alert>> \in AlertLists /\ <<c.alert>> # None /\ c.alert \in ToSet(<<c.alert>>)
      BY <1>3, <2>2, AppendedHasEntry DEF IsRow, Listed
    <3> HIDE DEF list, new
    <3>2. new.alertIds \in AlertLists /\ Listed(new) # {}
      BY <1>6, <3>1 DEF Listed
    <3>3. new.alertIds # c.incident.alertIds
      BY <2>2, <3>2 DEF Listed
    <3> QED
      BY <1>3, <1>5, <1>6, <3>2, <3>3, FlushedKeepsList
  <2> QED
    BY <2>1, <2>2
<1>8. row # None
  BY <1>7 DEF IsRow, NotAFunction
<1> HIDE DEF row, new, list
<1>9. CASE ~Exists(c.alert)
  <2>1. DOMAIN calls' = Ops /\ CallsOK'
    BY <1>1, <1>4, <1>9, CallsKeepKnowing DEF RowsOK
  <2> QED
    BY <1>1, <1>4, <1>9, <2>1 DEF LInv, RowsOK, LinksOK, Exists
<1>10. CASE Exists(c.alert)
  <2>1. c.alert \in 1..Len(alerts) /\ IsAlert(alerts[c.alert])
    BY <1>1, <1>10 DEF RowsOK, Exists
  <2>2. IsAlert(link) /\ link.incident \in {alerts[c.alert].incident, c.id}
    BY <1>3, <2>1 DEF IsAlert, Flushed
  <2> HIDE DEF link
  <2>3. /\ IsList(alerts') /\ Len(alerts') = Len(alerts)
        /\ \A b \in 1..Len(alerts) : alerts'[b] = IF b = c.alert THEN link ELSE alerts[b]
    <3>1. IsList(alerts) /\ alerts' = [alerts EXCEPT ![c.alert] = link]
      BY <1>1, <1>4, <1>10 DEF RowsOK
    <3> HIDE DEF c
    <3> QED
      BY <2>1, <3>1, ChangedIsList
  <2>4. DOMAIN incidents' = IncidentIds /\ \A i \in IncidentIds : incidents'[i] = IF i = c.id THEN row ELSE incidents[i]
    BY <1>1, <1>3, <1>4, <1>10 DEF RowsOK
  <2>5. \A i \in IncidentIds : incidents[i] # None =>
          incidents'[i] # None /\ (Listed(incidents[i]) # {} => Listed(incidents'[i]) # {})
    BY <1>7, <1>8, <2>4
  <2>6. DOMAIN calls' = Ops /\ CallsOK'
    BY <1>1, <1>4, <2>4, <2>5, CallsKeepKnowing
  <2>7. RowsOK'
    BY <1>1, <1>7, <2>2, <2>3, <2>4, <2>6 DEF RowsOK, Exists
  <2>8. LinksOK'
    <3> SUFFICES ASSUME NEW b \in 1..Len(alerts), Exists(b)', NEW i \in IncidentIds, i = alerts'[b].incident
                 PROVE  incidents'[i] # None /\ Listed(incidents'[i]) # {}
      BY <2>3 DEF LinksOK
    <3>1. CASE i = c.id
      BY <1>7, <1>8, <2>4, <3>1
    <3>2. CASE i # c.id
      <4>1. Exists(b) /\ alerts[b].incident = i
        BY <1>10, <2>1, <2>2, <2>3, <3>2 DEF Exists
      <4> QED
        BY <1>1, <2>5, <4>1 DEF LinksOK
    <3> QED
      BY <3>1, <3>2
  <2> QED
    BY <1>1, <1>4, <2>6, <2>7, <2>8 DEF LInv
<1> QED
  BY <1>9, <1>10

(* A new incident lists the alerts that are linked to it. *)
LEMMA CreateIncidentKeepsLinks ==
  ASSUME NotAFunction(None), LInv, clock \in Nat,
         NEW i \in IncidentIds, NEW request \in clients.requests, CreateIncident(i, request)
  PROVE  LInv'
<1> DEFINE row == NewIncident(request)
           Links(a) == a \in Listed(request) /\ Exists(a)
           linked == [a \in 1..Len(alerts) |->
                        IF Links(a)
                        THEN [alerts[a] EXCEPT !.incident = i, !.status = IF @ = "new" THEN "assigned" ELSE @]
                        ELSE alerts[a]]
<1>1. RowsOK /\ CallsOK /\ LinksOK /\ clients \in Clients
  BY DEF LInv
<1>2. /\ incidents[i] = None /\ incidents' = [incidents EXCEPT ![i] = row]
      /\ alerts' = linked /\ UNCHANGED <<calls, clients>>
  BY DEF CreateIncident
<1>3. IsRow(row) /\ row.alertIds = request.alertIds
  <2>1. request.alertIds \in AlertLists
    BY <1>1, IncidentsAssumption DEF AlertLists
  <2>2. row = [f \in DOMAIN row |-> row[f]] /\ {"status", "alertIds", "firstSeen"} \subseteq DOMAIN row
        /\ row.alertIds = request.alertIds /\ row.firstSeen = clock
    BY DEF NewIncident
  <2> QED
    BY <2>1, <2>2 DEF IsRow
<1> HIDE DEF row
<1>4. row # None
  BY <1>3 DEF IsRow, NotAFunction
<1>5. Len(alerts) \in Nat
  BY <1>1 DEF RowsOK
<1>6. /\ DOMAIN linked = 1..Len(alerts)
      /\ \A a \in 1..Len(alerts) : ~Links(a) => linked[a] = alerts[a]
      /\ \A a \in 1..Len(alerts) : Links(a) => DOMAIN linked[a] = DOMAIN alerts[a]
      /\ \A a \in 1..Len(alerts) : Links(a) /\ "incident" \in DOMAIN alerts[a] => linked[a].incident = i
  OBVIOUS
<1>7. IsList(linked) /\ Len(linked) = Len(alerts)
  <2> DEFINE S == {linked[a] : a \in 1..Len(alerts)}
  <2>1. linked \in [1..Len(alerts) -> S]
    OBVIOUS
  <2> HIDE DEF linked, S
  <2> QED
    BY <1>5, <2>1, FunctionIsList
<1> HIDE DEF linked
<1>8. DOMAIN incidents' = IncidentIds /\ \A j \in IncidentIds : incidents'[j] = IF j = i THEN row ELSE incidents[j]
  BY <1>1, <1>2 DEF RowsOK
<1>9. RowsOK'
  <2>1. ASSUME NEW a \in 1..Len(alerts), Exists(a)' PROVE IsAlert(alerts'[a])
    <3>1. CASE Links(a)
      <4>1. IsAlert(alerts[a])
        BY <1>1, <3>1 DEF RowsOK
      <4> QED
        BY <1>2, <1>6, <3>1, <4>1 DEF IsAlert
    <3>2. CASE ~Links(a)
      <4>1. Exists(a) /\ alerts'[a] = alerts[a]
        BY <1>2, <1>6, <2>1, <3>2 DEF Exists
      <4> QED
        BY <1>1, <4>1 DEF RowsOK
    <3> QED
      BY <3>1, <3>2
  <2> QED
    BY <1>1, <1>2, <1>3, <1>7, <1>8, <2>1 DEF RowsOK
<1>10. CallsOK'
  <2> SUFFICES ASSUME NEW p \in Ops, calls[p] # None PROVE CallOK(calls[p], incidents')
    BY <1>2 DEF CallsOK
  <2>1. CallOK(calls[p], incidents)
    BY <1>1 DEF CallsOK
  <2>2. calls[p].kind # "alert_status" => calls[p].id # i /\ calls[p].id \in IncidentIds
    BY <1>2, <2>1 DEF CallOK
  <2> QED
    BY <1>8, <2>1, <2>2 DEF CallOK
<1>11. LinksOK'
  <2> SUFFICES ASSUME NEW a \in 1..Len(alerts), Exists(a)', NEW j \in IncidentIds, j = alerts'[a].incident
               PROVE  incidents'[j] # None /\ Listed(incidents'[j]) # {}
    BY <1>2, <1>7 DEF LinksOK
  <2>1. CASE Links(a)
    <3>1. "incident" \in DOMAIN alerts[a]
      BY <1>1, <2>1 DEF RowsOK, IsAlert
    <3>2. j = i
      BY <1>2, <1>6, <2>1, <3>1
    <3>3. Listed(row) = Listed(request)
      BY <1>3 DEF Listed
    <3> QED
      BY <1>4, <1>8, <2>1, <3>2, <3>3
  <2>2. CASE ~Links(a)
    <3>1. Exists(a) /\ alerts[a].incident = j
      BY <1>2, <1>6, <1>7, <2>2 DEF Exists
    <3>2. incidents[j] # None /\ Listed(incidents[j]) # {}
      BY <1>1, <3>1 DEF LinksOK
    <3> QED
      BY <1>2, <1>8, <3>2
  <2> QED
    BY <2>1, <2>2
<1> QED
  BY <1>1, <1>2, <1>9, <1>10, <1>11 DEF LInv

LEMMA ReadChainKeepsLinks ==
  ASSUME LInv, NEW o \in Ops, ReadChain(o)
  PROVE  LInv'
<1> DEFINE c == calls[o]
           chain == OperationChain(c.id)
           new == [c EXCEPT !.arg = [@ EXCEPT !.chain = chain]]
<1>1. RowsOK /\ CallsOK /\ LinksOK /\ clients \in Clients
  BY DEF LInv
<1>2. c # None /\ c.kind \in ReviewKinds /\ calls' = [calls EXCEPT ![o] = new]
      /\ UNCHANGED <<alerts, incidents, clients>>
  <2> HIDE DEF chain
  <2> QED
    BY DEF ReadChain, Running, chain
<1>3. CallOK(c, incidents)
  BY <1>1, <1>2 DEF CallsOK
<1> HIDE DEF chain
<1>4. /\ DOMAIN new = CallFields /\ new.kind = c.kind /\ new.id = c.id /\ new.incident = c.incident
      /\ new.alert = c.alert /\ new.row = c.row
  BY <1>3 DEF CallOK, CallFields
<1> HIDE DEF new
<1>5. CallOK(new, incidents)
  <2>1. c.kind # "update"
    BY <1>2 DEF ReviewKinds
  <2> QED
    BY <1>3, <1>4, <2>1 DEF CallOK
<1>6. DOMAIN calls' = Ops /\ \A p \in Ops : calls'[p] = IF p = o THEN new ELSE calls[p]
  BY <1>1, <1>2 DEF RowsOK
<1> HIDE DEF c
<1> QED
  BY <1>1, <1>2, <1>5, <1>6 DEF LInv, RowsOK, CallsOK, LinksOK, Exists

-----------------------------------------------------------------------------
(* What the commits on an incident write: the list of the row they loaded, and a
   status that differs from the loaded one in the two cases the code says. *)
NewStatus(c, status) ==
  \/ status \in {c.incident.status, "closed"}
  \/ c.kind = "update" /\ "status" \in DOMAIN c.arg
  \/ c.kind = "assign" /\ c.incident.status = "open"

Writes(o, new) ==
  /\ calls[o] # None /\ calls[o].kind \in OnIncident
  /\ new.alertIds = calls[o].incident.alertIds /\ new.firstSeen = calls[o].incident.firstSeen
  /\ NewStatus(calls[o], new.status)
  /\ WriteIncident(calls[o], new) /\ Return(o) /\ UNCHANGED <<alerts, clients>>

IncidentCommit(o) ==
  \/ CommitUpdate(o) \/ CommitAssign(o) \/ CommitEscalate(o) \/ CommitClose(o) \/ CommitTimelineEvent(o)
  \/ CommitCollect(o) \/ CommitCloseWithReview(o) \/ CommitCloseAndReview(o)

LEMMA NotedKeeps ==
  ASSUME NEW row, IsRow(row), NEW event
  PROVE  /\ Noted(row, event).alertIds = row.alertIds /\ Noted(row, event).status = row.status
         /\ Noted(row, event).firstSeen = row.firstSeen /\ DOMAIN Noted(row, event) = DOMAIN row
BY DEF Noted, IsRow

LEMMA CommitWrites ==
  ASSUME LInv, NEW o \in Ops, IncidentCommit(o)
  PROVE  \E new : Writes(o, new)
<1> DEFINE c == calls[o]
           row == c.incident
<1>1. c # None /\ c.kind \in OnIncident
  BY DEF IncidentCommit, CommitUpdate, CommitAssign, CommitEscalate, CommitClose, CommitTimelineEvent,
     CommitCollect, CommitCloseWithReview, CommitCloseAndReview, Running, OnIncident, IncidentKinds, ReviewKinds
<1>2. CallOK(c, incidents)
  BY <1>1 DEF LInv, CallsOK
<1>3. IsRow(row)
  BY <1>1, <1>2 DEF CallOK, OnIncident, IncidentKinds, ReviewKinds
<1>4. /\ Closed(row).alertIds = row.alertIds /\ Closed(row).status = "closed"
      /\ Closed(row).firstSeen = row.firstSeen
      /\ {"status", "alertIds", "firstSeen"} \subseteq DOMAIN Closed(row)
  <2> DEFINE x == [row EXCEPT !.status = "closed", !.resolution = TRUE, !.closedAt = TRUE]
  <2>1. IsRow(x) /\ x.alertIds = row.alertIds /\ x.firstSeen = row.firstSeen /\ x.status = "closed"
    BY <1>3 DEF IsRow
  <2> HIDE DEF x
  <2>2. Closed(row) = Noted(x, "closed")
    BY DEF Closed, x
  <2> QED
    BY <2>1, <2>2, NotedKeeps DEF IsRow
<1>5. CASE CommitUpdate(o)
  <2> DEFINE x == [f \in DOMAIN row |-> IF f \in DOMAIN c.arg THEN c.arg[f] ELSE row[f]]
  <2>1. c.kind = "update" /\ c.arg \in Updates
    BY <1>2, <1>5 DEF CommitUpdate, Running, CallOK
  <2>2. "alertIds" \notin DOMAIN c.arg /\ "firstSeen" \notin DOMAIN c.arg
    BY <2>1, IncidentsAssumption
  <2>3. IsRow(x) /\ x.alertIds = row.alertIds /\ x.firstSeen = row.firstSeen
        /\ ("status" \notin DOMAIN c.arg => x.status = row.status)
    BY <1>3, <2>2 DEF IsRow
  <2>4. WriteIncident(c, Noted(x, "updated")) /\ Return(o) /\ UNCHANGED <<alerts, clients>>
    BY <1>5 DEF CommitUpdate
  <2> HIDE DEF x
  <2>5. Writes(o, Noted(x, "updated"))
    BY <1>1, <2>1, <2>3, <2>4, NotedKeeps DEF Writes, NewStatus
  <2> QED
    BY <2>5
<1>6. CASE CommitAssign(o)
  <2> DEFINE x == [row EXCEPT !.assignee = TRUE, !.status = IF @ = "open" THEN "investigating" ELSE @]
  <2>1. c.kind = "assign"
    BY <1>6 DEF CommitAssign, Running
  <2>2. IsRow(x) /\ x.alertIds = row.alertIds /\ x.firstSeen = row.firstSeen
        /\ (row.status # "open" => x.status = row.status)
    BY <1>3 DEF IsRow
  <2>3. WriteIncident(c, Noted(x, "assigned")) /\ Return(o) /\ UNCHANGED <<alerts, clients>>
    BY <1>6 DEF CommitAssign
  <2> HIDE DEF x
  <2>4. Writes(o, Noted(x, "assigned"))
    BY <1>1, <2>1, <2>2, <2>3, NotedKeeps DEF Writes, NewStatus
  <2> QED
    BY <2>4
<1>7. CASE CommitEscalate(o)
  <2> DEFINE x == [row EXCEPT !.severity = OneLevelUp(@)]
  <2>1. IsRow(x) /\ x.alertIds = row.alertIds /\ x.firstSeen = row.firstSeen /\ x.status = row.status
    BY <1>3 DEF IsRow
  <2>2. WriteIncident(c, Noted(x, "escalated")) /\ Return(o) /\ UNCHANGED <<alerts, clients>>
    BY <1>7 DEF CommitEscalate
  <2> HIDE DEF x
  <2>3. Writes(o, Noted(x, "escalated"))
    BY <1>1, <2>1, <2>2, NotedKeeps DEF Writes, NewStatus
  <2> QED
    BY <2>3
<1>8. CASE CommitClose(o) \/ CommitCloseAndReview(o)
  <2>1. WriteIncident(c, Closed(row)) /\ Return(o) /\ UNCHANGED <<alerts, clients>>
    BY <1>8 DEF CommitClose, CommitCloseAndReview
  <2>2. Writes(o, Closed(row))
    BY <1>1, <1>4, <2>1 DEF Writes, NewStatus
  <2> QED
    BY <2>2
<1>9. CASE CommitCloseWithReview(o)
  <2> DEFINE x == [Closed(row) EXCEPT !.rootCause = TRUE]
  <2>1. WriteIncident(c, x) /\ Return(o) /\ UNCHANGED <<alerts, clients>>
    BY <1>9 DEF CommitCloseWithReview
  <2>2. x.alertIds = row.alertIds /\ x.firstSeen = row.firstSeen /\ x.status = "closed"
    BY <1>4
  <2> HIDE DEF x
  <2>3. Writes(o, x)
    BY <1>1, <2>1, <2>2 DEF Writes, NewStatus
  <2> QED
    BY <2>3
<1>10. CASE CommitTimelineEvent(o)
  <2>1. WriteIncident(c, Noted(row, "event")) /\ Return(o) /\ UNCHANGED <<alerts, clients>>
    BY <1>10 DEF CommitTimelineEvent
  <2>2. Writes(o, Noted(row, "event"))
    BY <1>1, <1>3, <2>1, NotedKeeps DEF Writes, NewStatus
  <2> QED
    BY <2>2
<1>11. CASE CommitCollect(o)
  <2> DEFINE found == Collected(Scope(row, Linked(c.id)), EvidenceTypes \ {"change_record"})
             x == [row EXCEPT !.evidence = found]
  <2>1. WriteIncident(c, Noted(x, "evidence_collected")) /\ Return(o) /\ UNCHANGED <<alerts, clients>>
    <3> HIDE DEF found
    <3> QED
      BY <1>11 DEF CommitCollect, found
  <2> HIDE DEF found
  <2>2. IsRow(x) /\ x.alertIds = row.alertIds /\ x.firstSeen = row.firstSeen /\ x.status = row.status
    BY <1>3 DEF IsRow
  <2> HIDE DEF x
  <2>3. Writes(o, Noted(x, "evidence_collected"))
    BY <1>1, <2>1, <2>2, NotedKeeps DEF Writes, NewStatus
  <2> QED
    BY <2>3
<1> QED
  BY <1>5, <1>6, <1>7, <1>8, <1>9, <1>10, <1>11 DEF IncidentCommit

-----------------------------------------------------------------------------
(* Every step of Response is one of these, as far as alerts, incidents and calls
   are concerned. *)
BeginsWith(o, kind, i, a, arg) ==
  /\ Begin(o, kind, i, a, arg)
  /\ kind \in OnIncident \union {"alert_status", "assign_alert"} /\ i \in IncidentIds \union {None}
  /\ kind # "alert_status" => i \in IncidentIds /\ incidents[i] # None
  /\ kind \in {"alert_status", "assign_alert"} => a # None /\ a \in 1..Len(alerts) /\ Exists(a)
  /\ kind = "update" => arg \in Updates
Begins(o) == \E kind, i, a, arg : BeginsWith(o, kind, i, a, arg)

Touches ==
  \/ UNCHANGED <<alerts, incidents, calls, clients>>
  \/ \E row : CreateAlert(row)
  \/ \E a \in 1..Len(alerts) : DropAlert(a)
  \/ \E i \in IncidentIds, request \in clients.requests : CreateIncident(i, request)
  \/ \E o \in Ops :
       \/ Begins(o) \/ CommitAlertStatus(o) \/ CommitAssignAlert(o) \/ IncidentCommit(o) \/ ReadChain(o)
       \/ Return(o) /\ UNCHANGED <<alerts, incidents, clients>>

LEMMA IncidentsTouch ==
  ASSUME LInv, IncidentsNext
  PROVE  Touches
<1>1. None \notin 1..Len(alerts)
  BY IncidentsAssumption DEF LInv, RowsOK, AlertIds
<1>2. CASE Tick
  BY <1>2 DEF Touches, Tick
<1>3. ASSUME NEW o \in Ops, NEW a \in 1..Len(alerts), NEW request \in AlertUpdates, BeginAlertStatus(o, a, request)
      PROVE  Touches
  <2>1. BeginsWith(o, "alert_status", None, a, request)
    BY <1>1, <1>3 DEF BeginsWith, BeginAlertStatus
  <2> QED
    BY <2>1 DEF Touches, Begins
<1>4. ASSUME NEW o \in Ops, NEW a \in 1..Len(alerts), NEW i \in IncidentIds, BeginAssignAlert(o, a, i)
      PROVE  Touches
  <2>1. BeginsWith(o, "assign_alert", i, a, None)
    BY <1>1, <1>4 DEF BeginsWith, BeginAssignAlert
  <2> QED
    BY <2>1 DEF Touches, Begins
<1>5. ASSUME NEW o \in Ops, NEW kind \in IncidentKinds, NEW i \in IncidentIds,
             NEW arg \in IF kind = "update" THEN Updates ELSE {None}, BeginOnIncident(o, kind, i, arg)
      PROVE  Touches
  <2>1. BeginsWith(o, kind, i, None, arg)
    BY <1>5 DEF BeginsWith, BeginOnIncident, OnIncident, IncidentKinds
  <2> QED
    BY <2>1 DEF Touches, Begins
<1> QED
  BY <1>2, <1>3, <1>4, <1>5 DEF IncidentsNext, Touches, IncidentCommit

LEMMA RemediationTouches ==
  ASSUME LInv, RemediationNext
  PROVE  Touches
<1>1. ASSUME NEW o \in Ops, NEW i \in IncidentIds, NEW kind, NEW arg,
             BeginOnIncident(o, kind, i, arg), kind \in OnIncident \ {"update"}
      PROVE  Touches
  <2>1. BeginsWith(o, kind, i, None, arg)
    BY <1>1 DEF BeginsWith, BeginOnIncident, OnIncident, IncidentKinds, ReviewKinds
  <2> QED
    BY <2>1 DEF Touches, Begins
<1>2. ASSUME NEW o \in Ops, NEW i \in IncidentIds, BeginSuggest(o, i) \/ BeginCollect(o, i)
      PROVE  Touches
  BY <1>1, <1>2 DEF BeginSuggest, BeginCollect, OnIncident, IncidentKinds, ReviewKinds
<1>3. ASSUME NEW o \in Ops, NEW i \in IncidentIds, NEW kind \in ReviewKinds, NEW save \in BOOLEAN,
             BeginReview(o, kind, i, save)
      PROVE  Touches
  <2>1. \E arg : BeginOnIncident(o, kind, i, arg)
    BY <1>3 DEF BeginReview
  <2>2. kind \in OnIncident \ {"update"}
    BY DEF ReviewKinds, OnIncident
  <2> QED
    BY <1>1, <2>1, <2>2
<1>4. ASSUME NEW o \in Ops, CommitSuggest(o)
      PROVE  Touches
  BY <1>4 DEF CommitSuggest, Touches
<1>5. ASSUME NEW o \in Ops, \/ CommitCollect(o) \/ ReadChain(o)
                            \/ CommitCloseWithReview(o) \/ CommitCloseAndReview(o)
      PROVE  Touches
  BY <1>5 DEF Touches, IncidentCommit
<1>6. ASSUME NEW k, NEW status, ExecuteAction(k, status) \/ UpdateAction(k, status)
      PROVE  Touches
  BY <1>6 DEF ExecuteAction, UpdateAction, Touches, incidentVars
<1>7. ASSUME NEW i, NEW s, CreateAction(i, s)
      PROVE  Touches
  BY <1>7 DEF CreateAction, Touches, incidentVars
<1>8. ASSUME NEW i, NEW types, CollectForensic(i, types)
      PROVE  Touches
  BY <1>8 DEF CollectForensic, Touches, incidentVars
<1>9. ASSUME NEW i, CreateReview(i) \/ CreateCase(i)
      PROVE  Touches
  BY <1>9 DEF CreateReview, CreateCase, Touches, incidentVars
<1>10. ASSUME NEW k, NEW preserved, UpdateReview(k, preserved) \/ UpdateCase(k) \/ DeleteCase(k)
       PROVE  Touches
  BY <1>10 DEF UpdateReview, UpdateCase, DeleteCase, Touches, incidentVars
<1> QED
  BY <1>2, <1>3, <1>4, <1>5, <1>6, <1>7, <1>8, <1>9, <1>10 DEF RemediationNext

LEMMA OthersTouchNothing ==
  ASSUME NotificationsNext \/ IntegrationsNext
  PROVE  UNCHANGED incidentVars
<1>1. ASSUME NEW c, SwitchChannel(c) PROVE UNCHANGED incidentVars
  BY <1>1 DEF SwitchChannel
<1>2. ASSUME NEW i, NEW types, BeginNotify(i, types) PROVE UNCHANGED incidentVars
  BY <1>2 DEF BeginNotify
<1>3. ASSUME NEW reply, DispatchNext(reply) \/ SendEvent(reply) PROVE UNCHANGED incidentVars
  BY <1>3 DEF DispatchNext, SendEvent
<1>4. CASE CommitNotify \/ AbandonNotify
  BY <1>4 DEF CommitNotify, AbandonNotify
<1>5. ASSUME NEW i, NEW row, CreateIntegration(i, row) \/ UpdateIntegration(i, row) PROVE UNCHANGED incidentVars
  BY <1>5 DEF CreateIntegration, UpdateIntegration
<1>6. ASSUME NEW i, NEW x, TestIntegration(i, x) \/ DeleteIntegration(i) \/ Subscribe(x, i) \/ SwitchSubscription(x)
      PROVE  UNCHANGED incidentVars
  BY <1>6 DEF TestIntegration, DeleteIntegration, Subscribe, SwitchSubscription
<1>7. ASSUME NEW types, BeginPublish(types) PROVE UNCHANGED incidentVars
  BY <1>7 DEF BeginPublish
<1>8. CASE NextType \/ EndOfType \/ FindSubscription \/ FlushDelivery \/ CommitPublish \/ AbandonPublish
  BY <1>8 DEF NextType, EndOfType, FindSubscription, FlushDelivery, CommitPublish, AbandonPublish
<1> QED
  BY <1>1, <1>2, <1>3, <1>4, <1>5, <1>6, <1>7, <1>8 DEF NotificationsNext, IntegrationsNext

(* Time passes in no call. *)
LEMMA ClockTicks ==
  ASSUME clock \in Nat, [ResponseNext]_responseVars
  PROVE  clock' \in Nat /\ clock <= clock'
<1>1. ASSUME UNCHANGED clock PROVE clock' \in Nat /\ clock <= clock'
  BY <1>1
<1>2. CASE Tick
  BY <1>2 DEF Tick
<1>3. ASSUME NEW row, NEW a, NEW i, NEW request, CreateAlert(row) \/ DropAlert(a) \/ CreateIncident(i, request)
      PROVE  UNCHANGED clock
  BY <1>3 DEF CreateAlert, DropAlert, CreateIncident
<1>4. ASSUME NEW p, NEW a, NEW i, NEW request, NEW kind, NEW arg,
             BeginAlertStatus(p, a, request) \/ BeginAssignAlert(p, a, i) \/ BeginOnIncident(p, kind, i, arg)
      PROVE  UNCHANGED clock
  BY <1>4 DEF BeginAlertStatus, BeginAssignAlert, BeginOnIncident, Begin
<1>5. ASSUME NEW p, \/ CommitAlertStatus(p) \/ CommitAssignAlert(p) \/ CommitUpdate(p) \/ CommitAssign(p)
                    \/ CommitEscalate(p) \/ CommitClose(p) \/ CommitTimelineEvent(p)
      PROVE  UNCHANGED clock
  BY <1>5 DEF CommitAlertStatus, CommitAssignAlert, CommitUpdate, CommitAssign, CommitEscalate, CommitClose,
     CommitTimelineEvent
<1>6. ASSUME NEW p, NEW i, NEW kind, NEW save, BeginSuggest(p, i) \/ BeginCollect(p, i) \/ BeginReview(p, kind, i, save)
      PROVE  UNCHANGED clock
  BY <1>6 DEF BeginSuggest, BeginCollect, BeginReview, BeginOnIncident, Begin
<1>7. ASSUME NEW p, \/ CommitSuggest(p) \/ CommitCollect(p) \/ ReadChain(p)
                    \/ CommitCloseWithReview(p) \/ CommitCloseAndReview(p)
      PROVE  UNCHANGED clock
  BY <1>7 DEF CommitSuggest, CommitCollect, ReadChain, CommitCloseWithReview, CommitCloseAndReview
<1>8. ASSUME NEW k, NEW status, NEW i, NEW s, ExecuteAction(k, status) \/ UpdateAction(k, status) \/ CreateAction(i, s)
      PROVE  UNCHANGED clock
  BY <1>8 DEF ExecuteAction, UpdateAction, CreateAction, incidentVars
<1>9. ASSUME NEW k, NEW types, NEW i, NEW preserved,
             \/ CollectForensic(i, types) \/ CreateReview(i) \/ CreateCase(i)
             \/ UpdateReview(k, preserved) \/ UpdateCase(k) \/ DeleteCase(k)
      PROVE  UNCHANGED clock
  BY <1>9 DEF CollectForensic, CreateReview, CreateCase, UpdateReview, UpdateCase, DeleteCase, incidentVars
<1>10. CASE NotificationsNext \/ IntegrationsNext
  BY <1>1, <1>10, OthersTouchNothing DEF incidentVars
<1>11. CASE IncidentsNext
  BY <1>1, <1>2, <1>3, <1>4, <1>5, <1>11 DEF IncidentsNext
<1>12. CASE RemediationNext
  BY <1>1, <1>6, <1>7, <1>8, <1>9, <1>12 DEF RemediationNext
<1>13. CASE UNCHANGED responseVars
  BY <1>1, <1>13 DEF responseVars, incidentVars
<1> QED
  BY <1>10, <1>11, <1>12, <1>13 DEF ResponseNext

LEMMA ResponseTouches ==
  ASSUME LInv, [ResponseNext]_responseVars
  PROVE  Touches
<1>1. CASE UNCHANGED responseVars
  BY <1>1 DEF responseVars, incidentVars, Touches
<1>2. CASE NotificationsNext \/ IntegrationsNext
  BY <1>2, OthersTouchNothing DEF incidentVars, Touches
<1> QED
  BY <1>1, <1>2, IncidentsTouch, RemediationTouches DEF ResponseNext

LEMMA TouchesKeepLinks ==
  ASSUME NotAFunction(None), LInv, clock \in Nat, Touches
  PROVE  LInv'
<1>1. CASE UNCHANGED <<alerts, incidents, calls, clients>>
  BY <1>1 DEF LInv, RowsOK, CallsOK, LinksOK, Exists
<1>2. ASSUME NEW o \in Ops, NEW kind, NEW i, NEW a, NEW arg, BeginsWith(o, kind, i, a, arg) PROVE LInv'
  BY <1>2, BeginKeepsLinks DEF BeginsWith
<1>3. ASSUME NEW o \in Ops, IncidentCommit(o) PROVE LInv'
  BY <1>3, CommitWrites, WriteKeepsLinks DEF Writes
<1>4. ASSUME NEW o \in Ops, Return(o), UNCHANGED <<alerts, incidents, clients>> PROVE LInv'
  <2>1. RowsOK /\ CallsOK /\ LinksOK /\ clients \in Clients
    BY DEF LInv
  <2>2. DOMAIN calls' = Ops /\ CallsOK'
    BY <1>4, <2>1, CallsKeepKnowing DEF RowsOK
  <2> QED
    BY <1>4, <2>1, <2>2 DEF LInv, RowsOK, LinksOK, Exists
<1> QED
  BY <1>1, <1>2, <1>3, <1>4, CreateAlertKeepsLinks, DropAlertKeepsLinks, AlertStatusKeepsLinks,
     AssignAlertKeepsLinks, CreateIncidentKeepsLinks, ReadChainKeepsLinks DEF Touches, Begins

LEMMA LinksBegin ==
  ASSUME ResponseInit
  PROVE  LInv /\ clock \in Nat
<1>1. alerts = <<>> /\ incidents = [i \in IncidentIds |-> None] /\ calls = [o \in Ops |-> None]
      /\ clients \in Clients /\ clock = 1
  BY DEF ResponseInit, IncidentsInit
<1>2. IsList(alerts) /\ Len(alerts) = 0
  <2>1. alerts \in Seq({})
    BY <1>1
  <2> QED
    BY <1>1, <2>1 DEF IsList
<1> QED
  BY <1>1, <1>2, IncidentsAssumption DEF LInv, RowsOK, CallsOK, LinksOK

(* What an assignment writes over the list of its incident: nothing, unless the
   list was empty when it was loaded, and then the alert that it links. *)
LEMMA AssignAlertLists ==
  ASSUME NotAFunction(None), NotAFunction(Gone), LInv, NEW o \in Ops, CommitAssignAlert(o),
         NEW i \in IncidentIds, incidents[i] # None, incidents'[i].alertIds # incidents[i].alertIds
  PROVE  \E a \in 1..Len(alerts) : incidents'[i].alertIds = <<a>> /\ Exists(a)' /\ alerts'[a].incident = i
<1> DEFINE c == calls[o]
           list == IF c.alert \in Listed(c.incident) THEN c.incident.alertIds
                   ELSE AppendedInPlace(c.incident.alertIds, c.alert)
           new == [c.incident EXCEPT !.alertIds = list]
           row == Flushed(incidents[c.id], c.incident, new)
           linked == [c.row EXCEPT !.incident = c.id, !.status = "assigned"]
           link == Flushed(alerts[c.alert], c.row, linked)
<1>1. RowsOK /\ CallsOK /\ c # None /\ c.kind = "assign_alert"
  BY DEF LInv, CommitAssignAlert, Running
<1>2. /\ c.id \in IncidentIds /\ IsRow(c.incident) /\ c.alert \in AlertIds /\ IsAlert(c.row)
      /\ c.row.incident = c.id => Listed(c.incident) # {}
  BY <1>1 DEF CallsOK, CallOK
<1>3. IF Exists(c.alert)
      THEN alerts' = [alerts EXCEPT ![c.alert] = link] /\ incidents' = [incidents EXCEPT ![c.id] = row]
      ELSE UNCHANGED <<alerts, incidents>>
  BY DEF CommitAssignAlert, WriteIncident
<1>4. DOMAIN incidents = IncidentIds /\ IsList(alerts) /\ IsRow(incidents[i])
  BY <1>1 DEF RowsOK
<1>5. Exists(c.alert) /\ c.id = i /\ incidents'[i] = row
  <2> HIDE DEF row, link
  <2> QED
    BY <1>3, <1>4
<1>6. new.alertIds = list
  BY <1>2 DEF IsRow
<1>7. row.alertIds = IF list = c.incident.alertIds THEN incidents[i].alertIds ELSE list
  <2> HIDE DEF new, list
  <2> QED
    BY <1>4, <1>5, <1>6 DEF Flushed, IsRow
<1>8. list # c.incident.alertIds /\ row.alertIds = list
  <2> HIDE DEF list, row
  <2> QED
    BY <1>5, <1>7
<1>9. Listed(c.incident) = {}
  <2> SUFFICES ASSUME Listed(c.incident) # {} PROVE FALSE
    OBVIOUS
  <2>1. c.incident.alertIds \notin {None, <<>>}
    BY DEF Listed, ToSet
  <2> QED
    BY <1>8, <2>1 DEF AppendedInPlace
<1>10. list = <<c.alert>>
  BY <1>2, <1>9, AppendedHasEntry DEF IsRow, Listed
<1>11. c.alert \in 1..Len(alerts) /\ IsAlert(alerts[c.alert])
  BY <1>1, <1>5 DEF RowsOK, Exists
<1>12. link.incident = i /\ link # Gone
  <2>1. linked.incident = c.id /\ c.row.incident # c.id
    BY <1>2, <1>9 DEF IsAlert
  <2> HIDE DEF linked
  <2>2. link.incident = c.id
    BY <1>11, <2>1 DEF Flushed, IsAlert
  <2>3. link = [f \in DOMAIN link |-> link[f]]
    BY DEF Flushed
  <2> HIDE DEF link
  <2> QED
    BY <1>5, <2>2, <2>3 DEF NotAFunction
<1> HIDE DEF link, row, list
<1>13. alerts'[c.alert] = link /\ Len(alerts') = Len(alerts)
  <2>1. alerts' = [alerts EXCEPT ![c.alert] = link]
    BY <1>3, <1>5
  <2> HIDE DEF c
  <2> QED
    BY <1>4, <1>11, <2>1, ChangedIsList
<1> QED
  BY <1>5, <1>8, <1>10, <1>11, <1>12, <1>13 DEF Exists

(* Nothing else writes the list of an incident that is there. *)
LEMMA OnlyLinking ==
  ASSUME NotAFunction(None), NotAFunction(Gone), LInv, Touches, NEW i \in IncidentIds,
         incidents[i] # None, incidents'[i].alertIds # incidents[i].alertIds
  PROVE  \E a \in 1..Len(alerts) : incidents'[i].alertIds = <<a>> /\ Exists(a)' /\ alerts'[a].incident = i
<1>1. RowsOK /\ CallsOK
  BY DEF LInv
<1>2. CASE \/ UNCHANGED <<alerts, incidents, calls, clients>>
           \/ \E row : CreateAlert(row)
           \/ \E a \in 1..Len(alerts) : DropAlert(a)
  BY <1>2 DEF CreateAlert, DropAlert
<1>3. ASSUME NEW j \in IncidentIds, NEW request \in clients.requests, CreateIncident(j, request)
      PROVE  FALSE
  <2>1. incidents' = [incidents EXCEPT ![j] = NewIncident(request)] /\ incidents[j] = None
    BY <1>3 DEF CreateIncident
  <2> QED
    BY <1>1, <2>1 DEF RowsOK
<1>4. ASSUME NEW o \in Ops,
             \/ Begins(o) \/ CommitAlertStatus(o) \/ ReadChain(o)
             \/ Return(o) /\ UNCHANGED <<alerts, incidents, clients>>
      PROVE  FALSE
  BY <1>4 DEF Begins, BeginsWith, Begin, CommitAlertStatus, ReadChain
<1>5. ASSUME NEW o \in Ops, IncidentCommit(o)
      PROVE  FALSE
  <2>1. PICK new : Writes(o, new)
    BY <1>5, CommitWrites
  <2>2. calls[o] # None /\ calls[o].kind # "alert_status" /\ new.alertIds = calls[o].incident.alertIds
    BY <2>1 DEF Writes, OnIncident, IncidentKinds, ReviewKinds
  <2>3. calls[o].id \in IncidentIds
    BY <1>1, <2>2 DEF CallsOK, CallOK
  <2> DEFINE row == Flushed(incidents[calls[o].id], calls[o].incident, new)
  <2>4. incidents' = [incidents EXCEPT ![calls[o].id] = row]
    BY <2>1 DEF Writes, WriteIncident
  <2> HIDE DEF row
  <2>5. calls[o].id = i /\ incidents'[i] = row
    BY <1>1, <2>3, <2>4 DEF RowsOK
  <2>6. IsRow(incidents[i])
    BY <1>1 DEF RowsOK
  <2>7. row.alertIds = incidents[i].alertIds
    BY <2>2, <2>5, <2>6 DEF row, Flushed, IsRow
  <2> QED
    BY <2>5, <2>7
<1> QED
  BY <1>2, <1>3, <1>4, <1>5, AssignAlertLists DEF Touches

(* However calls overlap, an incident that alerts are linked to names an alert in
   its own list: assign_alert_to_incident and create_incident leave the list with
   an entry, and no commit of an outdated row empties it. *)
THEOREM LinkedAlwaysNamed ==
  ASSUME NotAFunction(None)
  PROVE  ResponseSpec => []LinkedAreNamed
<1>1. ResponseInit => LInv /\ clock \in Nat
  BY LinksBegin
<1>2. LInv /\ clock \in Nat /\ [ResponseNext]_responseVars => LInv' /\ (clock \in Nat)'
  BY ResponseTouches, TouchesKeepLinks, ClockTicks
<1>3. LInv => LinkedAreNamed
  BY DEF LInv, LinksOK, LinkedAreNamed, Linked
<1> QED
  BY <1>1, <1>2, <1>3, PTL DEF ResponseSpec

(* However calls overlap, what an incident names anew once it is there is an alert
   that the same step links to it: only assign_alert_to_incident writes the list,
   with the alert of the call and only if the call links it now. *)
THEOREM ListedAlwaysLinked ==
  ASSUME NotAFunction(None), NotAFunction(Gone)
  PROVE  ResponseSpec => ListedAreLinked
<1> DEFINE Lists ==
      \A i \in IncidentIds :
        incidents[i] # None =>
          \A a \in Listed(incidents'[i]) \ Listed(incidents[i]) :
            Exists(a)' /\ alerts'[a].incident = i
<1>1. ResponseInit => LInv /\ clock \in Nat
  BY LinksBegin
<1>2. LInv /\ clock \in Nat /\ [ResponseNext]_responseVars => LInv' /\ (clock \in Nat)'
  BY ResponseTouches, TouchesKeepLinks, ClockTicks
<1>3. LInv /\ [ResponseNext]_responseVars => Lists
  <2> SUFFICES ASSUME LInv, [ResponseNext]_responseVars, NEW i \in IncidentIds, incidents[i] # None,
                      NEW a \in Listed(incidents'[i]) \ Listed(incidents[i])
               PROVE  Exists(a)' /\ alerts'[a].incident = i
    OBVIOUS
  <2>1. Touches
    BY ResponseTouches
  <2>2. incidents'[i].alertIds # incidents[i].alertIds
    BY DEF Listed
  <2>3. PICK b \in 1..Len(alerts) : incidents'[i].alertIds = <<b>> /\ Exists(b)' /\ alerts'[b].incident = i
    BY <2>1, <2>2, OnlyLinking
  <2>4. a \in ToSet(<<b>>)
    BY <2>3 DEF Listed
  <2>5. a = b
    BY <2>4 DEF ToSet
  <2> QED
    BY <2>3, <2>5
<1> QED
  BY <1>1, <1>2, <1>3, PTL DEF ResponseSpec, ListedAreLinked

-----------------------------------------------------------------------------
(* Which steps reopen an incident. *)
Reopening(i, o) ==
  /\ calls[o] # None /\ calls'[o] = None /\ calls[o].id = i
  /\ \/ calls[o].kind = "update" /\ "status" \in DOMAIN calls[o].arg
     \/ calls[o].kind = "assign" /\ calls[o].incident.status = "open"

LEMMA OnlyKnowingly ==
  ASSUME LInv, Touches, NEW i \in IncidentIds, incidents'[i] # incidents[i], incidents[i] # None,
         incidents[i].status = "closed", incidents'[i].status # "closed"
  PROVE  \E o \in Ops : Reopening(i, o)
<1>1. RowsOK /\ CallsOK
  BY DEF LInv
<1>2. CASE \/ UNCHANGED <<alerts, incidents, calls, clients>>
           \/ \E row : CreateAlert(row)
           \/ \E a \in 1..Len(alerts) : DropAlert(a)
  BY <1>2 DEF CreateAlert, DropAlert
<1>3. ASSUME NEW j \in IncidentIds, NEW request \in clients.requests, CreateIncident(j, request)
      PROVE  FALSE
  <2>1. incidents' = [incidents EXCEPT ![j] = NewIncident(request)] /\ incidents[j] = None
    BY <1>3 DEF CreateIncident
  <2> QED
    BY <1>1, <2>1 DEF RowsOK
<1>4. ASSUME NEW o \in Ops,
             \/ Begins(o) \/ CommitAlertStatus(o) \/ ReadChain(o)
             \/ Return(o) /\ UNCHANGED <<alerts, incidents, clients>>
      PROVE  FALSE
  BY <1>4 DEF Begins, BeginsWith, Begin, CommitAlertStatus, ReadChain
<1>5. ASSUME NEW o \in Ops, calls[o] # None, calls[o].kind # "alert_status", NEW new,
             WriteIncident(calls[o], new)
      PROVE  calls[o].id = i /\ new.status \notin {calls[o].incident.status, "closed"}
  <2>1. CallOK(calls[o], incidents)
    BY <1>1, <1>5 DEF CallsOK
  <2>2. calls[o].id \in IncidentIds
    BY <1>5, <2>1 DEF CallOK
  <2> DEFINE row == Flushed(incidents[calls[o].id], calls[o].incident, new)
  <2>3. incidents' = [incidents EXCEPT ![calls[o].id] = row]
    BY <1>5 DEF WriteIncident
  <2> HIDE DEF row
  <2>4. calls[o].id = i /\ incidents'[i] = row
    BY <1>1, <2>2, <2>3 DEF RowsOK
  <2>5. IsRow(incidents[i])
    BY <1>1 DEF RowsOK
  <2>6. row.status = IF new.status = calls[o].incident.status THEN incidents[i].status ELSE new.status
    BY <2>4, <2>5 DEF row, Flushed, IsRow
  <2> QED
    BY <2>4, <2>6
<1>6. ASSUME NEW o \in Ops, CommitAssignAlert(o)
      PROVE  FALSE
  <2> DEFINE c == calls[o]
             list == IF c.alert \in Listed(c.incident) THEN c.incident.alertIds
                     ELSE AppendedInPlace(c.incident.alertIds, c.alert)
             new == [c.incident EXCEPT !.alertIds = list]
  <2>1. c # None /\ c.kind = "assign_alert"
    BY <1>6 DEF CommitAssignAlert, Running
  <2>2. IsRow(c.incident)
    BY <1>1, <2>1 DEF CallsOK, CallOK
  <2>3. WriteIncident(c, new)
    BY <1>6 DEF CommitAssignAlert
  <2> HIDE DEF list
  <2>4. new.status = c.incident.status
    BY <2>2 DEF IsRow
  <2> HIDE DEF new
  <2> QED
    BY <1>5, <2>1, <2>3, <2>4
<1>7. ASSUME NEW o \in Ops, IncidentCommit(o)
      PROVE  Reopening(i, o)
  <2>1. PICK new : Writes(o, new)
    BY <1>7, CommitWrites
  <2>2. calls[o] # None /\ calls[o].kind # "alert_status"
    BY <2>1 DEF Writes, OnIncident, IncidentKinds, ReviewKinds
  <2>3. calls[o].id = i /\ new.status \notin {calls[o].incident.status, "closed"}
    BY <1>5, <2>1, <2>2 DEF Writes
  <2>4. calls'[o] = None
    BY <1>1, <2>1 DEF Writes, Return, RowsOK
  <2> QED
    BY <2>1, <2>2, <2>3, <2>4 DEF Reopening, Writes, NewStatus
<1> QED
  BY <1>2, <1>3, <1>4, <1>6, <1>7 DEF Touches

(* However calls on an incident overlap, a closed one is reopened only by an
   update_incident that was given a status, or by an assign_incident that had
   loaded it while it was open. *)
THEOREM NeverReopenedUnknowingly ==
  ASSUME NotAFunction(None)
  PROVE  ResponseSpec => ReopenedKnowingly
<1>1. ResponseInit => LInv /\ clock \in Nat
  BY LinksBegin
<1>2. LInv /\ clock \in Nat /\ [ResponseNext]_responseVars => LInv' /\ (clock \in Nat)'
  BY ResponseTouches, TouchesKeepLinks, ClockTicks
<1> DEFINE Knowingly ==
      \A i \in IncidentIds :
        incidents'[i] # incidents[i] /\ incidents[i] # None =>
          (incidents[i].status = "closed" /\ incidents'[i].status # "closed" =>
             \E o \in Ops : /\ calls[o] # None /\ calls'[o] = None
                            /\ calls[o].id = i
                            /\ \/ calls[o].kind = "update" /\ "status" \in DOMAIN calls[o].arg
                               \/ calls[o].kind = "assign" /\ calls[o].incident.status = "open")
<1>3. LInv /\ [ResponseNext]_responseVars => Knowingly
  BY ResponseTouches, OnlyKnowingly DEF Reopening
<1> QED
  BY <1>1, <1>2, <1>3, PTL DEF ResponseSpec, ReopenedKnowingly

-----------------------------------------------------------------------------
(* Notifications.  Of the channels a call has resolved, in the order it goes
   through them, the first ones have a pending log and the others are queued. *)
LogOK(log, n, c, got) ==
  /\ log.incident = n.incident /\ log.call = n.call /\ log.channel = c
  /\ Channels[c].type = "webhook" /\ log.status = "sent" => <<n.call, c>> \in got

GoneThrough(n, order, got) ==
  /\ order \in SetToSeqs(n.resolved)
  /\ Len(n.pending) + Len(n.queue) = Cardinality(n.resolved)
  /\ \A k \in 1..Len(n.pending) : LogOK(n.pending[k], n, order[k], got)
  /\ \A k \in 1..Len(n.queue) : n.queue[k] = order[Len(n.pending) + k]

NotifyFields == {"incident", "call", "queue", "resolved", "pending"}
NotifyOK(n, got) ==
  /\ DOMAIN n = NotifyFields
  /\ n.resolved \subseteq DOMAIN Channels
  /\ n.queue \in Seq(n.resolved) /\ IsList(n.pending)
  /\ \E order : GoneThrough(n, order, got)

NInv ==
  /\ IsList(notificationLogs)
  /\ enabledChannels \subseteq DOMAIN Channels
  /\ notifying # None => NotifyOK(notifying, received)

(* A sequence that names each element of a finite set once names them all. *)
LEMMA OrderNamesAll ==
  ASSUME NEW S, IsFiniteSet(S), NEW order \in SetToSeqs(S)
  PROVE  /\ Cardinality(S) \in Nat /\ order \in [1..Cardinality(S) -> S]
         /\ \A x \in S : \E k \in 1..Cardinality(S) : order[k] = x
<1> DEFINE D == 1..Cardinality(S)
<1>1. Cardinality(S) \in Nat
  BY FS_CardinalityType
<1>2. order \in [D -> S] /\ \A i, j \in D : i # j => order[i] # order[j]
  BY DEF SetToSeqs
<1>3. order \in Injection(D, S)
  BY <1>2 DEF Injection, IsInjective
<1>4. Cardinality(D) = Cardinality(S)
  BY <1>1, FS_Interval
<1>5. order \in Surjection(D, S)
  BY <1>3, <1>4, FS_Injection
<1> QED
  BY <1>1, <1>2, <1>5 DEF Surjection

(* What is left of a queue when its first entry is taken. *)
LEMMA QueueMoves ==
  ASSUME NEW S, NEW q \in Seq(S), q # <<>>
  PROVE  /\ Len(q) \in Nat /\ Len(q) >= 1 /\ Head(q) = q[1]
         /\ Tail(q) \in Seq(S) /\ Len(Tail(q)) = Len(q) - 1
         /\ \A k \in 1..Len(Tail(q)) : k + 1 \in 1..Len(q) /\ Tail(q)[k] = q[k + 1]
<1>1. Len(q) \in Nat /\ Len(q) >= 1 /\ Head(q) = q[1]
  OBVIOUS
<1>2. Tail(q) \in Seq(S) /\ Len(Tail(q)) = Len(q) - 1
  BY HeadTailProperties
<1>3. \A k \in 1..Len(Tail(q)) : Tail(q)[k] = q[k + 1]
  BY HeadTailProperties
<1> QED
  BY <1>1, <1>2, <1>3

LEMMA BeginNotifyKeeps ==
  ASSUME NInv, NEW i \in IncidentIds, NEW types, BeginNotify(i, types)
  PROVE  NInv'
<1>1. PICK queue \in SetToSeqs(Resolved(types)) :
        notifying' = [incident |-> i, call |-> notifies + 1, queue |-> queue,
                      resolved |-> Resolved(types), pending |-> <<>>]
  BY DEF BeginNotify
<1> DEFINE n == [incident |-> i, call |-> notifies + 1, queue |-> queue,
                 resolved |-> Resolved(types), pending |-> <<>>]
<1>2. /\ DOMAIN n = NotifyFields /\ n.queue = queue /\ n.resolved = Resolved(types) /\ n.pending = <<>>
  BY DEF NotifyFields
<1>3. notifying' = n
  BY <1>1
<1> HIDE DEF n
<1>4. n.resolved \subseteq DOMAIN Channels
  BY <1>2 DEF NInv, Resolved
<1>5. IsFiniteSet(n.resolved)
  BY <1>4, ChannelsAssumption, FS_Subset
<1>6. /\ Cardinality(n.resolved) \in Nat /\ queue \in [1..Cardinality(n.resolved) -> n.resolved]
  BY <1>2, <1>5, OrderNamesAll
<1>7. n.queue \in Seq(n.resolved) /\ Len(n.queue) = Cardinality(n.resolved)
  BY <1>2, <1>6
<1>8. IsList(n.pending) /\ Len(n.pending) = 0
  <2>1. <<>> \in Seq({})
    OBVIOUS
  <2> QED
    BY <1>2, <2>1 DEF IsList
<1>9. GoneThrough(n, queue, received)
  BY <1>1, <1>2, <1>6, <1>7, <1>8 DEF GoneThrough
<1>10. NotifyOK(n, received)
  BY <1>2, <1>4, <1>7, <1>8, <1>9 DEF NotifyOK
<1>11. UNCHANGED <<enabledChannels, notificationLogs, received>>
  BY DEF BeginNotify
<1> QED
  BY <1>3, <1>10, <1>11 DEF NInv

LEMMA DispatchNextKeeps ==
  ASSUME NInv, NEW reply \in Replies, DispatchNext(reply)
  PROVE  NInv'
<1> DEFINE n == notifying
           c == Head(n.queue)
           log == NewLog(c, Succeeds(Channels[c], reply))
           m == [n EXCEPT !.queue = Tail(@), !.pending = Append(@, log)]
<1>1. /\ n # None /\ n.queue # <<>> /\ notifying' = m
      /\ received' = IF reply = "lost" THEN received ELSE received \union {<<n.call, c>>}
      /\ UNCHANGED <<enabledChannels, notificationLogs>>
  BY DEF DispatchNext
<1>2. NotifyOK(n, received)
  BY <1>1 DEF NInv
<1>3. PICK order : GoneThrough(n, order, received)
  BY <1>2 DEF NotifyOK
<1>4. /\ Len(n.queue) \in Nat /\ Len(n.queue) >= 1 /\ c = n.queue[1]
      /\ Tail(n.queue) \in Seq(n.resolved) /\ Len(Tail(n.queue)) = Len(n.queue) - 1
      /\ \A k \in 1..Len(Tail(n.queue)) : k + 1 \in 1..Len(n.queue) /\ Tail(n.queue)[k] = n.queue[k + 1]
  <2>1. n.queue \in Seq(n.resolved)
    BY <1>2 DEF NotifyOK
  <2> HIDE DEF n
  <2> QED
    BY <1>1, <2>1, QueueMoves
<1>5. c = order[Len(n.pending) + 1]
  BY <1>3, <1>4 DEF GoneThrough
<1>6. LogOK(log, n, c, received')
  <2>1. log.incident = n.incident /\ log.call = n.call /\ log.channel = c
        /\ (log.status = "sent" => Succeeds(Channels[c], reply))
    BY DEF NewLog
  <2>2. Channels[c].type = "webhook" /\ Succeeds(Channels[c], reply) => reply = "ok"
    BY DEF Succeeds
  <2> QED
    BY <1>1, <2>1, <2>2 DEF LogOK
<1>7. /\ DOMAIN m = NotifyFields /\ m.incident = n.incident /\ m.call = n.call /\ m.resolved = n.resolved
      /\ m.queue = Tail(n.queue) /\ m.pending = Append(n.pending, log)
  BY <1>2 DEF NotifyOK, NotifyFields
<1> HIDE DEF log, m, n
<1>8. /\ IsList(m.pending) /\ Len(n.pending) \in Nat /\ Len(m.pending) = Len(n.pending) + 1
      /\ \A k \in 1..Len(n.pending) : m.pending[k] = n.pending[k]
      /\ m.pending[Len(n.pending) + 1] = log
  BY <1>2, <1>7, AppendIsList DEF NotifyOK
<1>9. \A k \in 1..Len(m.pending) : LogOK(m.pending[k], m, order[k], received')
  <2> SUFFICES ASSUME NEW k \in 1..Len(m.pending) PROVE LogOK(m.pending[k], m, order[k], received')
    OBVIOUS
  <2>1. CASE k \in 1..Len(n.pending)
    <3>1. LogOK(m.pending[k], n, order[k], received)
      BY <1>3, <1>8, <2>1 DEF GoneThrough
    <3> QED
      BY <1>1, <1>7, <3>1 DEF LogOK
  <2>2. CASE k = Len(n.pending) + 1
    BY <1>5, <1>6, <1>7, <1>8, <2>2 DEF LogOK
  <2> QED
    BY <1>8, <2>1, <2>2
<1>10. \A k \in 1..Len(m.queue) : m.queue[k] = order[Len(m.pending) + k]
  <2> SUFFICES ASSUME NEW k \in 1..Len(m.queue) PROVE m.queue[k] = order[Len(m.pending) + k]
    OBVIOUS
  <2>1. m.queue[k] = n.queue[k + 1] /\ k + 1 \in 1..Len(n.queue)
    BY <1>4, <1>7
  <2>2. n.queue[k + 1] = order[Len(n.pending) + (k + 1)]
    BY <1>3, <2>1 DEF GoneThrough
  <2>3. Len(n.pending) + (k + 1) = Len(m.pending) + k
    <3>1. k \in Nat /\ Len(m.queue) \in Nat
      BY <1>4, <1>7
    <3>2. Len(m.pending) = Len(n.pending) + 1 /\ Len(n.pending) \in Nat
      BY <1>8
    <3> DEFINE a == Len(n.pending)
               b == Len(m.pending)
    <3>3. b = a + 1 /\ a \in Nat
      BY <3>2
    <3> HIDE DEF a, b
    <3>4. a + (k + 1) = b + k
      BY <3>1, <3>3
    <3> QED
      BY <3>4 DEF a, b
  <2> QED
    BY <2>1, <2>2, <2>3
<1>11. GoneThrough(m, order, received')
  <2>1. order \in SetToSeqs(m.resolved)
    BY <1>3, <1>7 DEF GoneThrough
  <2>2. Len(n.pending) + Len(n.queue) = Cardinality(m.resolved)
    BY <1>3, <1>7 DEF GoneThrough
  <2>3. Len(m.queue) = Len(n.queue) - 1 /\ Len(m.pending) = Len(n.pending) + 1
    BY <1>4, <1>7, <1>8
  <2>4. Len(m.pending) + Len(m.queue) = Cardinality(m.resolved)
    <3>1. Len(n.pending) \in Nat /\ Len(n.queue) \in Nat
      BY <1>4, <1>8
    <3> DEFINE a == Len(n.pending)
               b == Len(n.queue)
               a1 == Len(m.pending)
               b1 == Len(m.queue)
    <3>2. a \in Nat /\ b \in Nat /\ a + b = Cardinality(m.resolved) /\ b1 = b - 1 /\ a1 = a + 1
      BY <2>2, <2>3, <3>1
    <3> HIDE DEF a, b, a1, b1
    <3>3. a1 + b1 = Cardinality(m.resolved)
      BY <3>2
    <3> QED
      BY <3>3 DEF a1, b1
  <2> QED
    BY <1>9, <1>10, <2>1, <2>4 DEF GoneThrough
<1>12. NotifyOK(m, received')
  BY <1>2, <1>4, <1>7, <1>8, <1>11 DEF NotifyOK
<1> QED
  BY <1>1, <1>12 DEF NInv

(* A list with another appended: its length, and the part that is new. *)
LEMMA AppendedPart ==
  ASSUME NEW s, IsList(s), NEW t, IsList(t)
  PROVE  /\ IsList(s \o t)
         /\ LET new == SubSeq(s \o t, Len(s) + 1, Len(s \o t))
            IN  Len(new) = Len(t) /\ Len(t) \in Nat /\ IsList(new) /\ \A k \in 1..Len(t) : new[k] = t[k]
<1>1. PICK S : s \in Seq(S)
  BY DEF IsList
<1>2. PICK T : t \in Seq(T)
  BY DEF IsList
<1> DEFINE U == S \union T
           all == s \o t
           a == Len(s)
           b == Len(t)
<1>3. s \in Seq(U) /\ t \in Seq(U) /\ a \in Nat /\ b \in Nat
  BY <1>1, <1>2
<1>4. all \in Seq(U) /\ Len(all) = a + b
      /\ \A k \in 1..a + b : all[k] = IF k <= a THEN s[k] ELSE t[k - a]
  BY <1>3, ConcatProperties
<1> DEFINE new == SubSeq(all, a + 1, Len(all))
<1> HIDE DEF all, U, a, b
<1>5. \A k \in a + 1..a + b : k \in 1..a + b /\ all[k] \in U
  BY <1>3, <1>4
<1>6. new \in Seq(U) /\ Len(new) = (IF a + 1 <= a + b THEN (a + b) - (a + 1) + 1 ELSE 0)
      /\ \A k \in 1..(a + b) - (a + 1) + 1 : new[k] = all[(a + 1) + k - 1]
  <2>1. a + 1 \in Int /\ a + b \in Int
    BY <1>3
  <2> QED
    BY <1>4, <1>5, <2>1, SubSeqProperties
<1> HIDE DEF new
<1>7. Len(new) = b
  BY <1>3, <1>6
<1>8. ASSUME NEW k \in 1..b PROVE new[k] = t[k]
  <2>1. k \in 1..(a + b) - (a + 1) + 1 /\ (a + 1) + k - 1 = a + k /\ a + k \in 1..a + b /\ ~(a + k <= a) /\ (a + k) - a = k
    BY <1>3
  <2> QED
    BY <1>4, <1>6, <2>1
<1>9. IsList(all) /\ IsList(new)
  BY <1>4, <1>6 DEF IsList
<1> QED
  BY <1>3, <1>7, <1>8, <1>9 DEF all, new, a, b

LEMMA CommitNotifyKeeps ==
  ASSUME NInv, CommitNotify
  PROVE  NInv' /\ LogsWhole
<1> DEFINE n == notifying
           new == SubSeq(notificationLogs \o n.pending, Len(notificationLogs) + 1, Len(notificationLogs \o n.pending))
<1>1. /\ n # None /\ n.queue = <<>> /\ notificationLogs' = notificationLogs \o n.pending /\ notifying' = None
      /\ UNCHANGED <<enabledChannels, received>>
  BY DEF CommitNotify
<1>2. NotifyOK(n, received) /\ IsList(notificationLogs)
  BY <1>1 DEF NInv
<1>3. IsList(notificationLogs \o n.pending) /\ Len(new) = Len(n.pending) /\ Len(n.pending) \in Nat
      /\ IsList(new) /\ \A k \in 1..Len(n.pending) : new[k] = n.pending[k]
  BY <1>2, AppendedPart DEF NotifyOK
<1>4. NInv'
  BY <1>1, <1>3 DEF NInv
<1>5. PICK order : GoneThrough(n, order, received)
  BY <1>2 DEF NotifyOK
<1>6. IsFiniteSet(n.resolved)
  BY <1>2, ChannelsAssumption, FS_Subset DEF NotifyOK
<1> HIDE DEF new, n
<1>7. Len(n.queue) = 0
  BY <1>1
<1>8. Len(n.pending) = Cardinality(n.resolved)
  <2> DEFINE a == Len(n.pending)
  <2>1. a \in Nat /\ a + 0 = Cardinality(n.resolved)
    BY <1>3, <1>5, <1>7 DEF GoneThrough
  <2> HIDE DEF a
  <2>2. a = Cardinality(n.resolved)
    BY <2>1
  <2> QED
    BY <2>2 DEF a
<1>9. /\ order \in [1..Len(new) -> n.resolved]
      /\ \A x \in n.resolved : \E k \in 1..Len(new) : order[k] = x
  BY <1>3, <1>5, <1>6, <1>8, OrderNamesAll DEF GoneThrough
<1>10. DOMAIN new = 1..Len(new)
  BY <1>3 DEF IsList
<1>11. \A k \in 1..Len(new) : LogOK(new[k], n, order[k], received)
  BY <1>3, <1>5 DEF GoneThrough
<1>12. {log.channel : log \in ToSet(new)} = n.resolved
  <2>1. \A k \in 1..Len(new) : new[k].channel = order[k]
    BY <1>11 DEF LogOK
  <2> QED
    BY <1>9, <1>10, <2>1 DEF ToSet
<1>13. \A k \in DOMAIN new :
         /\ new[k].incident = n.incident
         /\ Channels[new[k].channel].type = "webhook" /\ new[k].status = "sent" =>
              <<new[k].call, new[k].channel>> \in received
  BY <1>10, <1>11 DEF LogOK
<1> QED
  BY <1>1, <1>3, <1>4, <1>8, <1>12, <1>13 DEF LogsWhole, new, n

(* Every step leaves honest logs. *)
LEMMA LogsStep ==
  ASSUME NInv, [ResponseNext]_responseVars
  PROVE  NInv' /\ LogsWhole
<1>1. CASE UNCHANGED notifyVars
  BY <1>1 DEF NInv, notifyVars, LogsWhole
<1>2. CASE NotificationsNext
  <2>1. ASSUME NEW c \in DOMAIN Channels, SwitchChannel(c) PROVE NInv' /\ LogsWhole
    BY <2>1 DEF NInv, SwitchChannel, LogsWhole
  <2>2. ASSUME NEW i \in IncidentIds, NEW types \in ChannelTypes, BeginNotify(i, types) PROVE NInv' /\ LogsWhole
    <3>1. notificationLogs' = notificationLogs
      BY <2>2 DEF BeginNotify
    <3> QED
      BY <2>2, <3>1, BeginNotifyKeeps DEF LogsWhole
  <2>3. ASSUME NEW reply \in Replies, DispatchNext(reply) PROVE NInv' /\ LogsWhole
    <3>1. notificationLogs' = notificationLogs
      BY <2>3 DEF DispatchNext
    <3> QED
      BY <2>3, <3>1, DispatchNextKeeps DEF LogsWhole
  <2>4. CASE AbandonNotify
    BY <2>4 DEF NInv, AbandonNotify, LogsWhole
  <2> QED
    BY <1>2, <2>1, <2>2, <2>3, <2>4, CommitNotifyKeeps DEF NotificationsNext
<1> QED
  BY <1>1, <1>2 DEF ResponseNext, responseVars

-----------------------------------------------------------------------------
(* Publication.  The events that were sent have one pending delivery each, but for
   the one that is being recorded. *)
SubscriptionRow == [integration : IntegrationIds, enabled : BOOLEAN]
PublishFields ==
  {"pc", "call", "types", "queue", "success", "subscription", "pending", "sent"}

Told(call, config, got) == <<call, config.id>> \in got \/ config.row.type = "syslog"
Recorded(p) == IF p.pc \in {"record", "flush"} THEN Len(p.sent) - 1 ELSE Len(p.sent)

(* The event that is being recorded is the last that was sent. *)
RecordingOK(p, subs, got) ==
  /\ p.pc \in {"record", "flush"} =>
       /\ p.queue # <<>> /\ Len(p.sent) >= 1 /\ p.sent[Len(p.sent)] = p.queue[1]
       /\ p.success => Told(p.call, p.queue[1], got)
  /\ p.pc = "flush" /\ p.subscription # None =>
       /\ p.subscription \in SubscriptionIds
       /\ subs[p.subscription] \in SubscriptionRow \union {Gone}
       /\ subs[p.subscription] \in SubscriptionRow =>
            subs[p.subscription].integration = p.queue[1].id

DeliveryOK(d, p, subs, got) ==
  /\ d.call = p.call /\ d.nth \in 1..Recorded(p)
  /\ d.subscription \in SubscriptionIds /\ subs[d.subscription] \in SubscriptionRow
  /\ subs[d.subscription].integration = p.sent[d.nth].id
  /\ d.success => Told(p.call, p.sent[d.nth], got)

PendingOK(p, subs, got) ==
  /\ IsFiniteSet(p.pending) /\ \A d \in p.pending : DeliveryOK(d, p, subs, got)
  /\ {d.nth : d \in p.pending} = 1..Recorded(p) /\ Cardinality(p.pending) = Recorded(p)

PublishOK(p, subs, got) ==
  /\ DOMAIN p = PublishFields /\ p.pc \in {"types", "configs", "record", "flush"}
  /\ IsList(p.queue) /\ IsList(p.sent)
  /\ RecordingOK(p, subs, got) /\ PendingOK(p, subs, got)

PInv ==
  /\ subscriptions \in [SubscriptionIds -> SubscriptionRow \union {None, Gone}]
  /\ publishes \in Nat
  /\ \A d \in deliveries : d.call \in Nat /\ d.call <= publishes
  /\ publishing # None =>
       /\ PublishOK(publishing, subscriptions, arrived) /\ publishing.call = publishes
       /\ \A d \in deliveries : d.call < publishing.call

(* A subscription keeps its integration, and one that is gone does not come back. *)
Stays(old, new) ==
  old \in SubscriptionRow \union {Gone} =>
    /\ new \in SubscriptionRow \union {Gone}
    /\ new \in SubscriptionRow => old \in SubscriptionRow /\ new.integration = old.integration

(* What a publication relies on is not taken back: its subscriptions stay, with the
   integration they are of, and what has arrived has arrived. *)
LEMMA PublishKeeps ==
  ASSUME NEW p, NEW subs, NEW got, PublishOK(p, subs, got), NEW subs2, NEW got2,
         got \subseteq got2,
         \A s \in SubscriptionIds : Stays(subs[s], subs2[s]),
         \A d \in p.pending : subs2[d.subscription] \in SubscriptionRow
  PROVE  PublishOK(p, subs2, got2)
<1>1. \A call, config : Told(call, config, got) => Told(call, config, got2)
  BY DEF Told
<1>2. RecordingOK(p, subs2, got2)
  BY <1>1 DEF RecordingOK, PublishOK, Stays
<1>3. \A d \in p.pending : DeliveryOK(d, p, subs2, got2)
  <2> SUFFICES ASSUME NEW d \in p.pending PROVE DeliveryOK(d, p, subs2, got2)
    OBVIOUS
  <2>1. DeliveryOK(d, p, subs, got)
    BY DEF PublishOK, PendingOK
  <2> QED
    BY <1>1, <2>1 DEF DeliveryOK, Stays
<1> QED
  BY <1>2, <1>3 DEF PublishOK, PendingOK

(* Before an event is sent and after it is recorded, a publication depends on
   neither its types nor its queue. *)
LEMMA PublishMoves ==
  ASSUME NEW p, NEW q, NEW subs, NEW got, PublishOK(p, subs, got),
         p.pc \in {"types", "configs"}, q.pc \in {"types", "configs"}, DOMAIN q = PublishFields,
         IsList(q.queue), q.call = p.call, q.pending = p.pending, q.sent = p.sent
  PROVE  PublishOK(q, subs, got)
<1>1. Recorded(q) = Recorded(p)
  BY DEF Recorded
<1>2. \A d \in p.pending : DeliveryOK(d, p, subs, got) => DeliveryOK(d, q, subs, got)
  BY <1>1 DEF DeliveryOK
<1>3. PendingOK(q, subs, got)
  BY <1>1, <1>2 DEF PublishOK, PendingOK
<1> QED
  BY <1>3 DEF PublishOK, RecordingOK

-----------------------------------------------------------------------------
(* The steps of publish_event. *)
LEMMA BeginPublishKeeps ==
  ASSUME PInv, NEW types, BeginPublish(types)
  PROVE  PInv'
<1> DEFINE p == [pc |-> "types", call |-> publishes + 1, types |-> types, queue |-> <<>>,
                 success |-> FALSE, subscription |-> None, pending |-> {}, sent |-> <<>>]
<1>1. publishing' = p /\ publishes' = publishes + 1 /\ UNCHANGED <<subscriptions, deliveries, arrived>>
  BY DEF BeginPublish
<1>2. /\ DOMAIN p = PublishFields /\ p.pc = "types" /\ p.call = publishes + 1 /\ p.queue = <<>>
      /\ p.pending = {} /\ p.sent = <<>>
  BY DEF PublishFields
<1> HIDE DEF p
<1>3. IsList(p.queue) /\ IsList(p.sent) /\ Len(p.sent) = 0
  <2>1. <<>> \in Seq({})
    OBVIOUS
  <2> QED
    BY <1>2, <2>1 DEF IsList
<1>4. RecordingOK(p, subscriptions, arrived)
  BY <1>2 DEF RecordingOK
<1>5. Recorded(p) = 0
  BY <1>2, <1>3 DEF Recorded
<1>6. PendingOK(p, subscriptions, arrived)
  BY <1>2, <1>5, FS_EmptySet DEF PendingOK
<1>7. PublishOK(p, subscriptions, arrived)
  BY <1>2, <1>3, <1>4, <1>6 DEF PublishOK
<1>8. \A d \in deliveries : d.call \in Nat /\ d.call < publishes + 1 /\ d.call <= publishes + 1
  BY DEF PInv
<1> QED
  BY <1>1, <1>2, <1>7, <1>8 DEF PInv

LEMMA NextTypeKeeps ==
  ASSUME PInv, NextType
  PROVE  PInv'
<1> DEFINE p == publishing
           rest == [p EXCEPT !.types = Tail(@)]
           wanted == {i \in IntegrationIds : /\ Configured(i)
                                             /\ integrations[i].type = Head(p.types) /\ integrations[i].enabled}
           Entries(queue) == [n \in DOMAIN queue |-> [id |-> queue[n], row |-> integrations[queue[n]]]]
           Next(queue) == [rest EXCEPT !.pc = "configs", !.queue = Entries(queue)]
<1>1. /\ p # None /\ p.pc = "types" /\ UNCHANGED <<subscriptions, deliveries, arrived, publishes>>
      /\ publishing' = rest \/ \E queue \in SetToSeqs(wanted) : publishing' = Next(queue)
  BY DEF NextType
<1>2. PublishOK(p, subscriptions, arrived)
  BY <1>1 DEF PInv
<1>3. DOMAIN p = PublishFields
  BY <1>2 DEF PublishOK
<1>5. CASE publishing' = rest
  <2>1. /\ rest.pc = "types" /\ DOMAIN rest = PublishFields /\ rest.queue = p.queue /\ rest.call = p.call
        /\ rest.pending = p.pending /\ rest.sent = p.sent
    BY <1>1, <1>3 DEF PublishFields
  <2> HIDE DEF rest, p
  <2>2. PublishOK(rest, subscriptions, arrived)
    BY <1>1, <1>2, <2>1, PublishMoves DEF PublishOK
  <2> QED
    BY <1>1, <1>5, <2>1, <2>2 DEF PInv, p
<1>6. ASSUME NEW queue \in SetToSeqs(wanted), publishing' = Next(queue)
      PROVE  PInv'
  <2> DEFINE q == Next(queue)
             entries == Entries(queue)
             k == Cardinality(wanted)
  <2>1. k \in Nat /\ DOMAIN queue = 1..k
    <3>1. IsFiniteSet(wanted)
      BY IntegrationsAssumption, FS_Subset
    <3> HIDE DEF wanted
    <3> QED
      BY <3>1, OrderNamesAll
  <2>2. IsList(entries)
    <3> DEFINE S == {entries[n] : n \in 1..k}
    <3> HIDE DEF k
    <3>1. entries \in [1..k -> S]
      BY <2>1
    <3> HIDE DEF entries, S
    <3> QED
      BY <2>1, <3>1, FunctionIsList
  <2> HIDE DEF entries, k
  <2>3. q = [rest EXCEPT !.pc = "configs", !.queue = entries]
    BY DEF entries
  <2> HIDE DEF q
  <2>4. /\ q.pc = "configs" /\ DOMAIN q = PublishFields /\ q.queue = entries /\ q.call = p.call
        /\ q.pending = p.pending /\ q.sent = p.sent
    BY <1>3, <2>3 DEF PublishFields
  <2>5. PublishOK(q, subscriptions, arrived)
    <3> HIDE DEF p
    <3> QED
      BY <1>1, <1>2, <2>2, <2>4, PublishMoves
  <2>6. publishing' = q
    BY <1>6 DEF q
  <2> QED
    BY <1>1, <2>4, <2>5, <2>6 DEF PInv
<1> QED
  BY <1>1, <1>5, <1>6

LEMMA EndOfTypeKeeps ==
  ASSUME PInv, EndOfType
  PROVE  PInv'
<1> DEFINE p == publishing
           q == [p EXCEPT !.pc = "types"]
<1>1. /\ p # None /\ p.pc = "configs" /\ publishing' = q
      /\ UNCHANGED <<subscriptions, deliveries, arrived, publishes>>
  BY DEF EndOfType
<1>2. PublishOK(p, subscriptions, arrived)
  BY <1>1 DEF PInv
<1>3. /\ q.pc = "types" /\ DOMAIN q = PublishFields /\ q.queue = p.queue /\ q.call = p.call
      /\ q.pending = p.pending /\ q.sent = p.sent
  BY <1>2 DEF PublishOK, PublishFields
<1>4. IsList(p.queue)
  BY <1>2 DEF PublishOK
<1> HIDE DEF q
<1>5. PublishOK(q, subscriptions, arrived)
  BY <1>1, <1>2, <1>3, <1>4, PublishMoves
<1> QED
  BY <1>1, <1>3, <1>5 DEF PInv

(* An event is sent: it is the last of sent until its delivery is recorded. *)
LEMMA SendEventKeeps ==
  ASSUME PInv, NEW reply \in Replied, SendEvent(reply)
  PROVE  PInv'
<1> DEFINE p == publishing
           config == Head(p.queue)
           q == [p EXCEPT !.pc = "record", !.success = Delivers(config.row, reply), !.sent = Append(@, config)]
<1>1. /\ p # None /\ p.pc = "configs" /\ p.queue # <<>> /\ publishing' = q
      /\ arrived' = IF reply = "lost" THEN arrived ELSE arrived \union {<<p.call, config.id>>}
      /\ UNCHANGED <<subscriptions, deliveries, publishes>>
  BY DEF SendEvent
<1>2. PublishOK(p, subscriptions, arrived)
  BY <1>1 DEF PInv
<1>3. Delivers(config.row, reply) => Told(p.call, config, arrived')
  BY <1>1 DEF Delivers, Answered, SentBlindly, Told
<1>4. /\ q.pc = "record" /\ DOMAIN q = PublishFields /\ q.queue = p.queue /\ q.call = p.call
      /\ q.pending = p.pending /\ q.sent = Append(p.sent, config)
      /\ (q.success => Delivers(config.row, reply))
  BY <1>2 DEF PublishOK, PublishFields
<1>5. /\ IsList(q.sent) /\ Len(p.sent) \in Nat /\ Len(q.sent) = Len(p.sent) + 1
      /\ \A k \in 1..Len(p.sent) : q.sent[k] = p.sent[k]
      /\ q.sent[Len(p.sent) + 1] = config
  BY <1>2, <1>4, AppendIsList DEF PublishOK
<1>6. config = p.queue[1]
  <2>1. IsList(p.queue)
    BY <1>2 DEF PublishOK
  <2>2. PICK S : p.queue \in Seq(S)
    BY <2>1 DEF IsList
  <2> QED
    BY <1>1, <2>2, QueueMoves
<1> HIDE DEF q, config
<1>7. RecordingOK(q, subscriptions, arrived')
  BY <1>1, <1>3, <1>4, <1>5, <1>6 DEF RecordingOK
<1>8. Recorded(q) = Recorded(p) /\ Recorded(p) = Len(p.sent)
  BY <1>1, <1>4, <1>5 DEF Recorded
<1>9. \A d \in p.pending : DeliveryOK(d, q, subscriptions, arrived')
  <2> SUFFICES ASSUME NEW d \in p.pending PROVE DeliveryOK(d, q, subscriptions, arrived')
    OBVIOUS
  <2>1. DeliveryOK(d, p, subscriptions, arrived)
    BY <1>2 DEF PublishOK, PendingOK
  <2>2. \A call, entry : Told(call, entry, arrived) => Told(call, entry, arrived')
    BY <1>1 DEF Told
  <2>3. q.sent[d.nth] = p.sent[d.nth]
    BY <1>5, <1>8, <2>1 DEF DeliveryOK
  <2> QED
    BY <1>4, <1>8, <2>1, <2>2, <2>3 DEF DeliveryOK
<1>10. PublishOK(q, subscriptions, arrived')
  BY <1>2, <1>4, <1>5, <1>7, <1>8, <1>9 DEF PublishOK, PendingOK
<1> QED
  BY <1>1, <1>4, <1>10 DEF PInv

LEMMA TailIsList ==
  ASSUME NEW q, IsList(q), q # <<>>
  PROVE  IsList(Tail(q))
<1>1. PICK S : q \in Seq(S)
  BY DEF IsList
<1> QED
  BY <1>1, QueueMoves DEF IsList

LEMMA FindSubscriptionKeeps ==
  ASSUME PInv, FindSubscription
  PROVE  PInv'
<1> DEFINE p == publishing
           found == {s \in SubscriptionsOf(Head(p.queue).id) : subscriptions[s].enabled}
           with(s) == [p EXCEPT !.pc = "flush", !.subscription = s]
<1>1. /\ p # None /\ p.pc = "record" /\ UNCHANGED <<subscriptions, deliveries, arrived, publishes>>
      /\ \E s \in IF found = {} THEN {None} ELSE found : publishing' = with(s)
  BY DEF FindSubscription
<1>2. PublishOK(p, subscriptions, arrived)
  BY <1>1 DEF PInv
<1>3. p.queue # <<>> /\ IsList(p.queue) /\ DOMAIN p = PublishFields
  BY <1>1, <1>2 DEF PublishOK, RecordingOK
<1>4. PICK s \in IF found = {} THEN {None} ELSE found : publishing' = with(s)
  BY <1>1
<1> DEFINE q == with(s)
<1>5. /\ q.pc = "flush" /\ DOMAIN q = PublishFields /\ q.queue = p.queue /\ q.call = p.call
      /\ q.pending = p.pending /\ q.sent = p.sent /\ q.success = p.success
      /\ q.subscription = s
  BY <1>3 DEF PublishFields
<1>6. p.queue[1] = Head(p.queue)
  <2>1. PICK S : p.queue \in Seq(S)
    BY <1>3 DEF IsList
  <2> QED
    BY <1>3, <2>1, QueueMoves
<1>7. s # None => /\ s \in SubscriptionIds /\ subscriptions[s].integration = p.queue[1].id
                  /\ subscriptions[s] \in SubscriptionRow
  BY <1>6 DEF SubscriptionsOf, Subscribed, PInv
<1> HIDE DEF q
<1>8. RecordingOK(q, subscriptions, arrived)
  BY <1>1, <1>2, <1>5, <1>7 DEF PublishOK, RecordingOK
<1>9. Recorded(q) = Recorded(p)
  BY <1>1, <1>5 DEF Recorded
<1>10. \A d \in p.pending : DeliveryOK(d, p, subscriptions, arrived) => DeliveryOK(d, q, subscriptions, arrived)
  BY <1>5, <1>9 DEF DeliveryOK
<1>11. PublishOK(q, subscriptions, arrived)
  BY <1>2, <1>5, <1>8, <1>9, <1>10 DEF PublishOK, PendingOK
<1>12. publishing' = q
  BY <1>4 DEF q
<1> QED
  BY <1>1, <1>5, <1>11, <1>12 DEF PInv

LEMMA FlushDeliveryKeeps ==
  ASSUME PInv, FlushDelivery
  PROVE  PInv'
<1> DEFINE p == publishing
           s == p.subscription
           next == [p EXCEPT !.pc = "configs", !.queue = Tail(@), !.subscription = None]
           d == Delivery(s)
           q == [next EXCEPT !.pending = @ \union {d}]
<1>1. /\ p # None /\ p.pc = "flush" /\ UNCHANGED <<subscriptions, deliveries, arrived, publishes>>
      /\ publishing' = IF s = None \/ ~Subscribed(s) THEN None ELSE q
  BY DEF FlushDelivery
<1>2. PublishOK(p, subscriptions, arrived)
  BY <1>1 DEF PInv
<1>3. /\ p.queue # <<>> /\ IsList(p.queue) /\ DOMAIN p = PublishFields
      /\ Len(p.sent) >= 1 /\ p.sent[Len(p.sent)] = p.queue[1] /\ IsList(p.sent)
      /\ (p.success => Told(p.call, p.queue[1], arrived))
      /\ (s # None => /\ s \in SubscriptionIds
                      /\ subscriptions[s] \in SubscriptionRow => subscriptions[s].integration = p.queue[1].id)
  BY <1>1, <1>2 DEF PublishOK, RecordingOK
<1>4. IsList(Tail(p.queue))
  BY <1>3, TailIsList
<1>5. CASE s = None \/ ~Subscribed(s)
  BY <1>1, <1>5 DEF PInv
<1>6. CASE s # None /\ Subscribed(s)
  <2> DEFINE k == Len(p.sent)
  <2>1. /\ q.pc = "configs" /\ DOMAIN q = PublishFields /\ q.queue = Tail(p.queue) /\ q.call = p.call
        /\ q.pending = p.pending \union {d} /\ q.sent = p.sent
    BY <1>3 DEF PublishFields
  <2>2. /\ d.call = p.call /\ d.nth = k /\ d.subscription = s
        /\ (d.success => p.success)
    BY DEF Delivery
  <2>3. publishing' = q
    BY <1>1, <1>6
  <2>4. s \in SubscriptionIds /\ subscriptions[s] \in SubscriptionRow
    BY <1>3, <1>6 DEF PInv, Subscribed
  <2>5. k \in Nat /\ k >= 1
    BY <1>3 DEF IsList
  <2> HIDE DEF q, d
  <2>6. Recorded(p) = k - 1 /\ Recorded(q) = k
    BY <1>1, <2>1 DEF Recorded
  <2>7. DeliveryOK(d, q, subscriptions, arrived)
    BY <1>3, <1>6, <2>1, <2>2, <2>4, <2>5, <2>6 DEF DeliveryOK
  <2>8. \A x \in p.pending : DeliveryOK(x, q, subscriptions, arrived) /\ x.nth \in 1..k - 1
    <3> SUFFICES ASSUME NEW x \in p.pending PROVE DeliveryOK(x, q, subscriptions, arrived) /\ x.nth \in 1..k - 1
      OBVIOUS
    <3>1. DeliveryOK(x, p, subscriptions, arrived)
      BY <1>2 DEF PublishOK, PendingOK
    <3>2. x.nth \in 1..k - 1 /\ x.nth \in 1..k
      BY <2>5, <2>6, <3>1 DEF DeliveryOK
    <3> QED
      BY <2>1, <2>6, <3>1, <3>2 DEF DeliveryOK
  <2>9. d \notin p.pending
    BY <2>2, <2>5, <2>8
  <2>10. {x.nth : x \in p.pending} = 1..k - 1 /\ Cardinality(p.pending) = k - 1 /\ IsFiniteSet(p.pending)
    BY <1>2, <1>3, <2>6 DEF PublishOK, PendingOK
  <2>11. {x.nth : x \in q.pending} = 1..k
    <3>1. {x.nth : x \in q.pending} = {x.nth : x \in p.pending} \union {d.nth}
      BY <2>1
    <3>2. (1..k - 1) \union {k} = 1..k
      BY <2>5
    <3> QED
      BY <2>2, <2>10, <3>1, <3>2
  <2>12. IsFiniteSet(q.pending) /\ Cardinality(q.pending) = k
    <3>1. IsFiniteSet(q.pending) /\ Cardinality(q.pending) = Cardinality(p.pending) + 1
      BY <2>1, <2>9, <2>10, FS_AddElement
    <3> HIDE DEF k
    <3> QED
      BY <2>5, <2>10, <3>1
  <2>13. PendingOK(q, subscriptions, arrived)
    BY <2>1, <2>6, <2>7, <2>8, <2>11, <2>12 DEF PendingOK
  <2>14. PublishOK(q, subscriptions, arrived)
    BY <1>3, <1>4, <2>1, <2>13 DEF PublishOK, RecordingOK
  <2> QED
    BY <1>1, <2>1, <2>3, <2>14 DEF PInv
<1> QED
  BY <1>5, <1>6

(* All deliveries of a call are committed, or none. *)
LEMMA CommitPublishKeeps ==
  ASSUME NotAFunction(None), NotAFunction(Gone), PInv, CommitPublish
  PROVE  PInv' /\ DeliveriesWhole
<1> DEFINE p == publishing
           new == deliveries' \ deliveries
<1>1. /\ p # None /\ p.pc = "types" /\ deliveries' = deliveries \union p.pending /\ publishing' = None
      /\ UNCHANGED <<subscriptions, arrived, publishes>>
  BY DEF CommitPublish
<1>2. PublishOK(p, subscriptions, arrived) /\ p.call = publishes /\ publishes \in Nat
      /\ \A d \in deliveries : d.call < p.call /\ d.call \in Nat
  BY <1>1 DEF PInv
<1>3. \A d \in p.pending : DeliveryOK(d, p, subscriptions, arrived)
  BY <1>2 DEF PublishOK, PendingOK
<1>4. \A d \in p.pending : d.call = p.call
  BY <1>3 DEF DeliveryOK
<1>5. \A d \in deliveries' : d.call \in Nat /\ d.call <= publishes
  BY <1>1, <1>2, <1>4
<1>6. PInv'
  BY <1>1, <1>5 DEF PInv
<1>7. p.pending \cap deliveries = {}
  BY <1>2, <1>4
<1>8. new = p.pending
  BY <1>1, <1>7
<1>9. Recorded(p) = Len(p.sent)
  BY <1>1 DEF Recorded
<1>10. DOMAIN p.sent = 1..Len(p.sent)
  BY <1>2 DEF PublishOK, IsList
<1>11. p.pending # {} => {d.nth : d \in p.pending} = DOMAIN p.sent /\ Cardinality(p.pending) = Len(p.sent)
  BY <1>2, <1>9, <1>10 DEF PublishOK, PendingOK
<1>12. \A d \in p.pending :
         /\ Subscribed(d.subscription) /\ subscriptions[d.subscription].integration = p.sent[d.nth].id
         /\ d.success => <<d.call, p.sent[d.nth].id>> \in arrived \/ p.sent[d.nth].row.type = "syslog"
  <2> SUFFICES ASSUME NEW d \in p.pending
               PROVE  /\ Subscribed(d.subscription) /\ subscriptions[d.subscription].integration = p.sent[d.nth].id
                      /\ d.success => <<d.call, p.sent[d.nth].id>> \in arrived \/ p.sent[d.nth].row.type = "syslog"
    OBVIOUS
  <2>1. DeliveryOK(d, p, subscriptions, arrived)
    BY <1>3
  <2>2. subscriptions[d.subscription] \notin {None, Gone}
    BY <2>1 DEF DeliveryOK, SubscriptionRow, NotAFunction
  <2> QED
    BY <2>1, <2>2 DEF DeliveryOK, Subscribed, Told
<1> QED
  BY <1>6, <1>8, <1>11, <1>12 DEF DeliveriesWhole

-----------------------------------------------------------------------------
(* The steps of the operators who manage integrations and subscriptions. *)
LEMMA SubscriptionsKeep ==
  ASSUME PInv, UNCHANGED <<publishing, arrived, publishes>>, deliveries' \subseteq deliveries,
         subscriptions' \in [SubscriptionIds -> SubscriptionRow \union {None, Gone}],
         \A s \in SubscriptionIds : Stays(subscriptions[s], subscriptions'[s]),
         \A s \in SubscriptionIds : s \in Held /\ subscriptions[s] \in SubscriptionRow =>
           subscriptions'[s] \in SubscriptionRow
  PROVE  PInv' /\ DeliveriesWhole
<1>1. ASSUME publishing # None
      PROVE  PublishOK(publishing, subscriptions', arrived)
  <2>1. PublishOK(publishing, subscriptions, arrived)
    BY <1>1 DEF PInv
  <2>2. \A d \in publishing.pending : subscriptions'[d.subscription] \in SubscriptionRow
    <3> SUFFICES ASSUME NEW d \in publishing.pending PROVE subscriptions'[d.subscription] \in SubscriptionRow
      OBVIOUS
    <3>1. d.subscription \in Held
      BY <1>1 DEF Held
    <3>2. d.subscription \in SubscriptionIds /\ subscriptions[d.subscription] \in SubscriptionRow
      BY <2>1 DEF PublishOK, PendingOK, DeliveryOK
    <3> QED
      BY <3>1, <3>2
  <2> QED
    BY <2>1, <2>2, PublishKeeps
<1> QED
  BY <1>1 DEF PInv, DeliveriesWhole

LEMMA DeleteIntegrationKeeps ==
  ASSUME NotAFunction(Gone), PInv, NEW i \in IntegrationIds, DeleteIntegration(i)
  PROVE  PInv' /\ DeliveriesWhole
<1> DEFINE dropped == SubscriptionsOf(i)
<1>1. /\ dropped \cap Held = {} /\ UNCHANGED <<publishing, arrived, publishes>>
      /\ subscriptions' = [s \in SubscriptionIds |-> IF s \in dropped THEN Gone ELSE subscriptions[s]]
      /\ deliveries' \subseteq deliveries
  BY DEF DeleteIntegration
<1>2. subscriptions \in [SubscriptionIds -> SubscriptionRow \union {None, Gone}]
  BY DEF PInv
<1> HIDE DEF dropped
<1>3. subscriptions' \in [SubscriptionIds -> SubscriptionRow \union {None, Gone}]
  BY <1>1, <1>2
<1>4. Gone \notin SubscriptionRow
  BY DEF SubscriptionRow, NotAFunction
<1>5. \A s \in SubscriptionIds : Stays(subscriptions[s], subscriptions'[s])
  BY <1>1, <1>4 DEF Stays
<1>6. \A s \in SubscriptionIds : s \in Held /\ subscriptions[s] \in SubscriptionRow => subscriptions'[s] \in SubscriptionRow
  BY <1>1
<1> QED
  BY <1>1, <1>3, <1>5, <1>6, SubscriptionsKeep

LEMMA SubscribeKeeps ==
  ASSUME NotAFunction(None), PInv, NEW s \in SubscriptionIds, NEW i \in IntegrationIds, Subscribe(s, i)
  PROVE  PInv' /\ DeliveriesWhole
<1> DEFINE row == [integration |-> i, enabled |-> TRUE]
<1>1. /\ subscriptions[s] = None /\ subscriptions' = [subscriptions EXCEPT ![s] = row]
      /\ UNCHANGED <<deliveries, publishing, arrived, publishes>>
  BY DEF Subscribe
<1>2. row \in SubscriptionRow
  BY DEF SubscriptionRow
<1> HIDE DEF row
<1>3. subscriptions \in [SubscriptionIds -> SubscriptionRow \union {None, Gone}]
  BY DEF PInv
<1>4. None \notin SubscriptionRow /\ None # Gone
  BY IncidentsAssumption DEF SubscriptionRow, NotAFunction
<1>5. subscriptions' \in [SubscriptionIds -> SubscriptionRow \union {None, Gone}]
  BY <1>1, <1>2, <1>3
<1>6. \A x \in SubscriptionIds : subscriptions[x] \in SubscriptionRow \union {Gone} => subscriptions'[x] = subscriptions[x]
  BY <1>1, <1>3, <1>4
<1>7. \A x \in SubscriptionIds : Stays(subscriptions[x], subscriptions'[x])
  BY <1>6 DEF Stays
<1>8. \A x \in SubscriptionIds : x \in Held /\ subscriptions[x] \in SubscriptionRow => subscriptions'[x] \in SubscriptionRow
  BY <1>6
<1> QED
  BY <1>1, <1>5, <1>7, <1>8, SubscriptionsKeep

LEMMA SwitchSubscriptionKeeps ==
  ASSUME PInv, NEW s \in SubscriptionIds, SwitchSubscription(s)
  PROVE  PInv' /\ DeliveriesWhole
<1> DEFINE row == [subscriptions[s] EXCEPT !.enabled = ~@]
<1>1. /\ Subscribed(s) /\ subscriptions' = [subscriptions EXCEPT ![s] = row]
      /\ UNCHANGED <<deliveries, publishing, arrived, publishes>>
  BY DEF SwitchSubscription
<1>2. subscriptions \in [SubscriptionIds -> SubscriptionRow \union {None, Gone}]
  BY DEF PInv
<1>3. subscriptions[s] \in SubscriptionRow
  BY <1>1, <1>2 DEF Subscribed
<1>4. row \in SubscriptionRow /\ row.integration = subscriptions[s].integration
  BY <1>3 DEF SubscriptionRow
<1> HIDE DEF row
<1>5. subscriptions' \in [SubscriptionIds -> SubscriptionRow \union {None, Gone}]
  BY <1>1, <1>2, <1>4
<1>6. \A x \in SubscriptionIds : Stays(subscriptions[x], subscriptions'[x])
  BY <1>1, <1>2, <1>3, <1>4 DEF Stays
<1>7. \A x \in SubscriptionIds : x \in Held /\ subscriptions[x] \in SubscriptionRow => subscriptions'[x] \in SubscriptionRow
  BY <1>1, <1>2, <1>4
<1> QED
  BY <1>1, <1>5, <1>6, <1>7, SubscriptionsKeep

(* Every step leaves deliveries that are whole. *)
LEMMA DeliveriesStep ==
  ASSUME NotAFunction(None), NotAFunction(Gone), PInv, [ResponseNext]_responseVars
  PROVE  PInv' /\ DeliveriesWhole
<1>1. CASE UNCHANGED <<subscriptions, deliveries, publishing, arrived, publishes>>
  BY <1>1 DEF PInv, DeliveriesWhole
<1>2. CASE IntegrationsNext
  <2>1. ASSUME NEW i \in IntegrationIds, NEW row, CreateIntegration(i, row) \/ UpdateIntegration(i, row)
        PROVE  PInv' /\ DeliveriesWhole
    BY <1>1, <2>1 DEF CreateIntegration, UpdateIntegration
  <2>2. ASSUME NEW i \in IntegrationIds, NEW success \in BOOLEAN, TestIntegration(i, success)
        PROVE  PInv' /\ DeliveriesWhole
    BY <1>1, <2>2 DEF TestIntegration
  <2>3. ASSUME PInv', deliveries' = deliveries
        PROVE  PInv' /\ DeliveriesWhole
    BY <2>3 DEF DeliveriesWhole
  <2>4. ASSUME NEW types \in EventChannels, BeginPublish(types)
        PROVE  PInv' /\ DeliveriesWhole
    BY <2>3, <2>4, BeginPublishKeeps DEF BeginPublish
  <2>5. ASSUME NEW reply \in Replied, SendEvent(reply)
        PROVE  PInv' /\ DeliveriesWhole
    BY <2>3, <2>5, SendEventKeeps DEF SendEvent
  <2>6. CASE NextType
    BY <2>3, <2>6, NextTypeKeeps DEF NextType
  <2>7. CASE EndOfType
    BY <2>3, <2>7, EndOfTypeKeeps DEF EndOfType
  <2>8. CASE FindSubscription
    BY <2>3, <2>8, FindSubscriptionKeeps DEF FindSubscription
  <2>9. CASE FlushDelivery
    BY <2>3, <2>9, FlushDeliveryKeeps DEF FlushDelivery
  <2>10. CASE AbandonPublish
    BY <2>10 DEF AbandonPublish, PInv, DeliveriesWhole
  <2> QED
    BY <1>2, <2>1, <2>2, <2>4, <2>5, <2>6, <2>7, <2>8, <2>9, <2>10, DeleteIntegrationKeeps, SubscribeKeeps,
       SwitchSubscriptionKeeps, CommitPublishKeeps DEF IntegrationsNext
<1> QED
  BY <1>1, <1>2 DEF ResponseNext, responseVars, publishVars

-----------------------------------------------------------------------------
LEMMA RecordsBegin ==
  ASSUME ResponseInit
  PROVE  NInv /\ PInv
<1>1. /\ enabledChannels = DOMAIN Channels /\ notifying = None /\ notificationLogs = <<>>
      /\ subscriptions = [s \in SubscriptionIds |-> None] /\ deliveries = {} /\ publishing = None /\ publishes = 0
  BY DEF ResponseInit, NotificationsInit, IntegrationsInit
<1>2. IsList(notificationLogs)
  <2>1. notificationLogs \in Seq({})
    BY <1>1
  <2> QED
    BY <2>1 DEF IsList
<1> QED
  BY <1>1, <1>2 DEF NInv, PInv

(* Whatever is switched, added or deleted while a call runs, whatever is answered
   and wherever the process dies: notify_incident commits one log for each channel
   it had resolved, publish_event commits a delivery for each event it sent or none
   at all, and a webhook or a Kafka message is recorded as a success only when it
   was received.  Of placeholder channels and of syslog this says nothing. *)
THEOREM RecordsAlwaysWhole ==
  ASSUME NotAFunction(None), NotAFunction(Gone)
  PROVE  ResponseSpec => RecordsWhole
<1>1. ResponseInit => NInv /\ PInv
  BY RecordsBegin
<1>2. NInv /\ PInv /\ [ResponseNext]_responseVars => (NInv /\ PInv)' /\ (LogsWhole /\ DeliveriesWhole)
  BY LogsStep, DeliveriesStep
<1> QED
  BY <1>1, <1>2, PTL DEF ResponseSpec, RecordsWhole

-----------------------------------------------------------------------------
(***************************************************************************)
(* Suggestions and reviews put things in order.  InOrder lists the         *)
(* elements of a finite set, each once and after those that come before    *)
(* it, if what comes before is a strict total order.                       *)
(***************************************************************************)
StrictOrder(before) ==
  /\ \A x \in DOMAIN before : before[x] \subseteq DOMAIN before /\ x \notin before[x]
  /\ \A x, y \in DOMAIN before : x # y => x \in before[y] \/ y \in before[x]
  /\ \A x, y \in DOMAIN before : x \in before[y] => before[x] \subseteq before[y]

LEMMA InOrderLists ==
  ASSUME NEW before, IsFiniteSet(DOMAIN before), StrictOrder(before)
  PROVE  /\ Cardinality(DOMAIN before) \in Nat /\ DOMAIN InOrder(before) = 1..Cardinality(DOMAIN before)
         /\ \A n \in DOMAIN InOrder(before) : InOrder(before)[n] \in DOMAIN before
         /\ \A x \in DOMAIN before : \E n \in DOMAIN InOrder(before) : InOrder(before)[n] = x
         /\ \A m, n \in DOMAIN InOrder(before) : m < n => InOrder(before)[m] \in before[InOrder(before)[n]]
<1> DEFINE S == DOMAIN before
           D == 1..Cardinality(S)
           rank == [x \in S |-> Cardinality(before[x]) + 1]
           s == InOrder(before)
<1>1. Cardinality(S) \in Nat
  BY FS_CardinalityType
<1>2. \A x \in S : IsFiniteSet(before[x]) /\ Cardinality(before[x]) \in Nat
  <2> SUFFICES ASSUME NEW x \in S PROVE IsFiniteSet(before[x]) /\ Cardinality(before[x]) \in Nat
    OBVIOUS
  <2>1. before[x] \in SUBSET S
    BY DEF StrictOrder
  <2> QED
    BY <2>1, FS_Subset, FS_CardinalityType
<1>3. \A x, y \in S : x \in before[y] => Cardinality(before[x]) < Cardinality(before[y])
  <2> SUFFICES ASSUME NEW x \in S, NEW y \in S, x \in before[y]
               PROVE  Cardinality(before[x]) < Cardinality(before[y])
    OBVIOUS
  <2>1. before[x] \in SUBSET before[y] /\ x \notin before[x]
    BY DEF StrictOrder
  <2>2. /\ Cardinality(before[x]) <= Cardinality(before[y])
        /\ Cardinality(before[y]) = Cardinality(before[x]) => before[y] = before[x]
    BY <1>2, <2>1, FS_Subset
  <2> QED
    BY <1>2, <2>1, <2>2
<1>4. \A x \in S : Cardinality(before[x]) < Cardinality(S)
  <2> SUFFICES ASSUME NEW x \in S PROVE Cardinality(before[x]) < Cardinality(S)
    OBVIOUS
  <2>1. before[x] \in SUBSET S /\ x \notin before[x]
    BY DEF StrictOrder
  <2>2. /\ Cardinality(before[x]) <= Cardinality(S)
        /\ Cardinality(S) = Cardinality(before[x]) => S = before[x]
    BY <2>1, FS_Subset
  <2> QED
    BY <1>1, <1>2, <2>1, <2>2
<1>5. rank \in [S -> D]
  BY <1>1, <1>2, <1>4
<1>6. \A x, y \in S : rank[x] = rank[y] => x = y
  BY <1>2, <1>3 DEF StrictOrder
<1>7. rank \in Surjection(S, D)
  <2>1. rank \in Injection(S, D)
    BY <1>5, <1>6 DEF Injection, IsInjective
  <2>2. IsFiniteSet(D) /\ Cardinality(D) = Cardinality(S)
    BY <1>1, FS_Interval
  <2> QED
    BY <2>1, <2>2, FS_Injection
<1>8. \A n \in D : \E x \in S : Cardinality(before[x]) = n - 1
  <2>1. \A n \in D : \E x \in S : rank[x] = n
    BY <1>7 DEF Surjection
  <2>2. \A x \in S : rank[x] = Cardinality(before[x]) + 1
    OBVIOUS
  <2> HIDE DEF rank
  <2> QED
    BY <1>1, <1>2, <2>1, <2>2
<1>9. DOMAIN s = D /\ \A n \in D : s[n] = CHOOSE x \in S : Cardinality(before[x]) = n - 1
  BY DEF InOrder
<1>10. \A n \in D : s[n] \in S /\ Cardinality(before[s[n]]) = n - 1
  BY <1>8, <1>9
<1> HIDE DEF s
<1>11. ASSUME NEW x \in S PROVE \E n \in D : s[n] = x
  <2>1. rank[x] \in D /\ rank[x] = Cardinality(before[x]) + 1
    BY <1>5
  <2>2. s[rank[x]] \in S /\ Cardinality(before[s[rank[x]]]) = rank[x] - 1
    BY <1>10, <2>1
  <2>3. rank[s[rank[x]]] = rank[x]
    BY <1>2, <2>1, <2>2
  <2>4. s[rank[x]] = x
    BY <1>6, <2>2, <2>3
  <2> QED
    BY <2>1, <2>4
<1>12. ASSUME NEW m \in D, NEW n \in D, m < n PROVE s[m] \in before[s[n]]
  <2>1. s[m] \in S /\ s[n] \in S /\ Cardinality(before[s[m]]) < Cardinality(before[s[n]])
    BY <1>1, <1>10, <1>12
  <2>2. s[n] \notin before[s[m]]
    BY <1>2, <1>3, <2>1
  <2>3. s[m] # s[n]
    BY <1>2, <2>1
  <2> QED
    BY <2>1, <2>2, <2>3 DEF StrictOrder
<1> QED
  BY <1>1, <1>9, <1>10, <1>11, <1>12 DEF s

-----------------------------------------------------------------------------
(* What the list for a type looks like. *)
Unurgent == {"moas", "withdraw_flap"}
Calls(list) == {m \in DOMAIN list : list[m].type = "contact_asn"}
Scrubber(severity) == IF severity \in {"P0", "P1"} THEN {"scrubber_coordination"} ELSE {}
Made(type) == IF type = "withdraw_flap" THEN {"contact_asn"} ELSE Promised(type)
ListOK(list, type) ==
  /\ IsList(list) /\ Len(list) \in 0..4
  /\ {list[m].type : m \in DOMAIN list} = Made(type)
  /\ type \notin Unurgent => \A m \in Calls(list) : list[m].priority = "immediate"

LEMMA SuggestionsListed ==
  ASSUME NEW type, NEW target
  PROVE  ListOK(Suggestions(type, target), type)
<1> DEFINE list == Suggestions(type, target)
<1>1. CASE type \in {"hijack", "subprefix_hijack"}
  <2> DEFINE a == Suggestion("contact_asn", target, "immediate")
             b == Suggestion("contact_upstream", None, "high")
             c == Suggestion("fix_roa", None, "high")
             d == Suggestion("announce_legitimate_prefix", None, "high")
  <2>1. list = <<a, b, c, d>>
    BY <1>1 DEF Suggestions
  <2>2. /\ a.type = "contact_asn" /\ a.priority = "immediate"
        /\ b.type # "contact_asn" /\ c.type # "contact_asn" /\ d.type # "contact_asn"
    BY DEF Suggestion
  <2> HIDE DEF a, b, c, d, list
  <2>3. /\ list \in Seq({a, b, c, d}) /\ Len(list) = 4 /\ DOMAIN list = 1..4
        /\ list[1] = a /\ list[2] = b /\ list[3] = c /\ list[4] = d
    BY <2>1
  <2>4. \A m \in DOMAIN list : list[m].type = "contact_asn" => m = 1
    BY <2>2, <2>3
  <2>5. {list[m].type : m \in DOMAIN list} = {a.type, b.type, c.type, d.type}
    BY <2>3
  <2>6. Made(type) = {a.type, b.type, c.type, d.type}
    BY <1>1 DEF Made, Promised, Suggestion, a, b, c, d
  <2> QED
    BY <2>2, <2>3, <2>4, <2>5, <2>6 DEF ListOK, IsList, Calls, list
<1>2. CASE type \in {"moas", "route_leak", "rpki_invalid"}
  <2>1. PICK a, b : /\ list = <<a, b>> /\ (type # "moas" => a.type # "contact_asn" /\ b.type # "contact_asn")
                    /\ Made(type) = {a.type, b.type}
    <3>1. CASE type = "moas"
      BY <3>1 DEF Suggestions, Suggestion, Made, Promised
    <3>2. CASE type = "route_leak"
      BY <3>2 DEF Suggestions, Suggestion, Made, Promised
    <3>3. CASE type = "rpki_invalid"
      BY <3>3 DEF Suggestions, Suggestion, Made, Promised
    <3> QED
      BY <1>2, <3>1, <3>2, <3>3
  <2>2. list \in Seq({a, b}) /\ Len(list) = 2 /\ DOMAIN list = 1..2 /\ list[1] = a /\ list[2] = b
    BY <2>1
  <2> HIDE DEF list
  <2>3. type # "moas" => \A m \in DOMAIN list : list[m].type # "contact_asn"
    BY <2>1, <2>2
  <2>4. {list[m].type : m \in DOMAIN list} = Made(type)
    BY <2>1, <2>2
  <2> QED
    BY <1>2, <2>2, <2>3, <2>4 DEF ListOK, IsList, Calls, list, Unurgent
<1>3. CASE type \in {"withdraw_flap", "path_anomaly"}
  <2>1. PICK a : list = <<a>> /\ (type # "withdraw_flap" => a.type # "contact_asn") /\ Made(type) = {a.type}
    BY <1>3 DEF Suggestions, Suggestion, Made, Promised
  <2>2. list \in Seq({a}) /\ Len(list) = 1 /\ DOMAIN list = 1..1 /\ list[1] = a
    BY <2>1
  <2> HIDE DEF list
  <2>3. type # "withdraw_flap" => \A m \in DOMAIN list : list[m].type # "contact_asn"
    BY <2>1, <2>2
  <2>4. {list[m].type : m \in DOMAIN list} = Made(type)
    BY <2>1, <2>2
  <2> QED
    BY <1>3, <2>2, <2>3, <2>4 DEF ListOK, IsList, Calls, list, Unurgent
<1>4. CASE type \notin {"hijack", "subprefix_hijack", "moas", "route_leak", "rpki_invalid", "withdraw_flap", "path_anomaly"}
  <2>1. list = <<>>
    BY <1>4 DEF Suggestions
  <2>2. list \in Seq({}) /\ Len(list) = 0 /\ DOMAIN list = {}
    BY <2>1
  <2>3. Made(type) = {}
    BY <1>4 DEF Made, Promised
  <2> QED
    BY <1>4, <2>2, <2>3 DEF ListOK, IsList, Calls
<1> QED
  BY <1>1, <1>2, <1>3, <1>4

LEMMA ListForType ==
  ASSUME NEW type, NEW target, NEW severity, NEW list, list = ForType(type, target, severity)
  PROVE  /\ DOMAIN list \subseteq 1..5
         /\ {list[m].type : m \in DOMAIN list} = Made(type) \union Scrubber(severity)
         /\ type \notin Unurgent => \A m \in Calls(list) : list[m].priority = "immediate"
<1> DEFINE first == Suggestions(type, target)
           tail == IF severity \in {"P0", "P1"} THEN <<Coordination>> ELSE <<>>
<1>1. ListOK(first, type)
  BY SuggestionsListed
<1>2. Coordination.type = "scrubber_coordination"
  BY DEF Coordination, Suggestion
<1>3. list = first \o tail
  BY DEF ForType
<1>4. PICK S : first \in Seq(S)
  BY <1>1 DEF ListOK, IsList
<1> HIDE DEF first
<1>5. /\ tail \in Seq({Coordination}) /\ Len(tail) \in 0..1
      /\ IF severity \in {"P0", "P1"} THEN Len(tail) = 1 ELSE Len(tail) = 0
      /\ Len(tail) = 1 => tail[1] = Coordination
  <2> HIDE DEF first
  <2>1. CASE severity \in {"P0", "P1"}
    <3>1. tail = <<Coordination>>
      BY <2>1
    <3> HIDE DEF tail
    <3>2. tail \in Seq({Coordination}) /\ Len(tail) = 1 /\ tail[1] = Coordination
      BY <3>1
    <3> QED
      BY <2>1, <3>2
  <2>2. CASE severity \notin {"P0", "P1"}
    <3>1. tail = <<>>
      BY <2>2
    <3>2. tail \in Seq({Coordination}) /\ Len(tail) = 0
      BY ONLY <3>1
    <3> QED
      BY <2>2, <3>2
  <2> QED
    BY <2>1, <2>2
<1> HIDE DEF tail
<1>6. first \in Seq(S \union {Coordination}) /\ tail \in Seq(S \union {Coordination})
  BY <1>4, <1>5
<1>7. /\ Len(first) \in 0..4 /\ DOMAIN first = 1..Len(first) /\ DOMAIN list = 1..Len(first) + Len(tail)
      /\ \A m \in 1..Len(first) : list[m] = first[m]
      /\ Len(tail) = 1 => list[Len(first) + 1] = Coordination
  BY <1>1, <1>3, <1>5, <1>6 DEF ListOK
<1>8. PICK j \in 0..4, k \in 0..1 : Len(first) = j /\ Len(tail) = k
  BY <1>5, <1>7
<1>9. \A m \in DOMAIN list : (m \in DOMAIN first /\ list[m] = first[m]) \/ list[m] = Coordination
  <2> SUFFICES ASSUME NEW m \in 1..(Len(first) + Len(tail))
               PROVE  (m \in 1..Len(first) /\ list[m] = first[m]) \/ list[m] = Coordination
    BY <1>7
  <2>1. m \in 1..Len(first) \/ (m = Len(first) + 1 /\ Len(tail) = 1)
    <3>1. m \in 1..(j + k)
      BY <1>8
    <3>2. m \in 1..j \/ (m = j + 1 /\ k = 1)
      BY <3>1
    <3> QED
      BY <1>8, <3>2
  <2> QED
    BY <1>7, <2>1
<1>10. {list[m].type : m \in DOMAIN list} = Made(type) \union Scrubber(severity)
  <2>1. {first[m].type : m \in DOMAIN first} = Made(type)
    BY <1>1 DEF ListOK
  <2>2. {list[m].type : m \in DOMAIN list} \subseteq Made(type) \union {"scrubber_coordination"}
    BY <1>2, <1>9, <2>1
  <2>3. Made(type) \subseteq {list[m].type : m \in DOMAIN list}
    BY <1>7, <1>8, <2>1
  <2>4. CASE severity \in {"P0", "P1"}
    <3>1. Len(first) + 1 \in DOMAIN list /\ list[Len(first) + 1].type = "scrubber_coordination"
      BY <1>2, <1>5, <1>7, <2>4
    <3> QED
      BY <2>2, <2>3, <2>4, <3>1 DEF Scrubber
  <2>5. CASE severity \notin {"P0", "P1"}
    <3>1. DOMAIN list = DOMAIN first /\ \A m \in DOMAIN first : list[m] = first[m]
      BY <1>5, <1>7, <2>5
    <3> QED
      BY <2>1, <2>5, <3>1 DEF Scrubber
  <2> QED
    BY <2>4, <2>5
<1>11. DOMAIN list \subseteq 1..5
  <2>1. DOMAIN list = 1..(j + k)
    BY <1>7, <1>8
  <2> QED
    BY <2>1
<1>13. type \notin Unurgent => \A m \in Calls(list) : list[m].priority = "immediate"
  BY <1>1, <1>2, <1>9 DEF ListOK, Calls
<1> QED
  BY <1>10, <1>11, <1>13

(* A finite set that is ordered has a first element. *)
LEMMA FirstExists ==
  ASSUME NEW before, IsFiniteSet(DOMAIN before), StrictOrder(before), DOMAIN before # {}
  PROVE  \E x \in DOMAIN before : before[x] = {}
<1> DEFINE S == DOMAIN before
           s == InOrder(before)
<1>1. /\ Cardinality(S) \in Nat /\ DOMAIN s = 1..Cardinality(S)
      /\ \A n \in DOMAIN s : s[n] \in S
      /\ \A x \in S : \E n \in DOMAIN s : s[n] = x
      /\ \A m, n \in DOMAIN s : m < n => s[m] \in before[s[n]]
  BY InOrderLists
<1> HIDE DEF s
<1>2. 1 \in DOMAIN s
  BY <1>1
<1>3. ASSUME NEW y \in before[s[1]] PROVE FALSE
  <2>1. y \in S /\ y # s[1]
    BY <1>1, <1>2 DEF StrictOrder
  <2>2. PICK n \in DOMAIN s : s[n] = y
    BY <1>1, <2>1
  <2>3. 1 < n
    BY <1>1, <2>1, <2>2
  <2>4. s[1] \in before[y]
    BY <1>1, <1>2, <2>2, <2>3
  <2> QED
    BY <1>1, <1>2, <2>1, <2>4 DEF StrictOrder
<1> QED
  BY <1>1, <1>2, <1>3

-----------------------------------------------------------------------------
(* Places come one before the other. *)
LEMMA PrecedingOrders ==
  ASSUME NEW F, F \subseteq Nat \X Nat
  PROVE  StrictOrder([p \in F |-> Preceding(p, F)])
<1> DEFINE before == [p \in F |-> Preceding(p, F)]
<1>1. \A p \in F : p[1] \in Nat /\ p[2] \in Nat /\ p = <<p[1], p[2]>>
  OBVIOUS
<1>2. \A p, q \in F : q \in before[p] <=> q[1] < p[1] \/ (q[1] = p[1] /\ q[2] < p[2])
  BY DEF Preceding
<1>3. DOMAIN before = F /\ \A p \in F : before[p] \subseteq F
  BY DEF Preceding
<1> HIDE DEF before
<1>4. \A p \in F : p \notin before[p]
  BY <1>1, <1>2
<1>5. \A p, q \in F : p # q => p \in before[q] \/ q \in before[p]
  BY <1>1, <1>2
<1>6. ASSUME NEW p \in F, NEW q \in F, p \in before[q], NEW r \in before[p] PROVE r \in before[q]
  BY <1>1, <1>2, <1>3, <1>6
<1> QED
  BY <1>3, <1>4, <1>5, <1>6 DEF StrictOrder, before

(* What is stored for the types of the alerts, in whatever order they come: the
   first of each task that one of them asks for. *)
AskedOf(types, target, severity) == UNION {ToSet(ForType(t, target, severity)) : t \in types}

LEMMA KeptTells ==
  ASSUME NEW types, IsFiniteSet(types), NEW order \in SetToSeqs(types), NEW target, NEW severity,
         NEW kept, kept = Kept(Asked(order, target, severity))
  PROVE  /\ \E k \in Nat : DOMAIN kept = 1..k
         /\ \A m, n \in DOMAIN kept : m # n => ~SameTask(kept[m], kept[n])
         /\ \A s \in AskedOf(types, target, severity) : \E n \in DOMAIN kept : SameTask(s, kept[n])
         /\ \A n \in DOMAIN kept : kept[n] \in AskedOf(types, target, severity)
<1> DEFINE k == Cardinality(types)
           asked == Asked(order, target, severity)
           P == Places(asked)
           F == FirstOfEach(asked)
           before == [p \in F |-> Preceding(p, F)]
           places == InOrder(before)
<1>1. k \in Nat /\ order \in [1..k -> types] /\ \A t \in types : \E n \in 1..k : order[n] = t
  BY OrderNamesAll
<1>2. DOMAIN asked = 1..k /\ \A n \in 1..k : asked[n] = ForType(order[n], target, severity)
  BY <1>1 DEF Asked
<1>3. \A n \in 1..k : DOMAIN asked[n] \subseteq 1..5
  BY <1>2, ListForType
<1> HIDE DEF asked, k
<1>4. P \subseteq (1..k) \X (1..5) /\ P \subseteq Nat \X Nat
      /\ \A p : p \in P <=> \E n \in 1..k : \E m \in DOMAIN asked[n] : p = <<n, m>>
  BY <1>1, <1>2, <1>3 DEF Places
<1>5. IsFiniteSet(P)
  <2>1. IsFiniteSet(1..k) /\ IsFiniteSet(1..5)
    <3>1. 1 \in Int /\ 5 \in Int /\ k \in Int
      BY <1>1
    <3> QED
      BY ONLY <3>1, FS_Interval
  <2>2. IsFiniteSet((1..k) \X (1..5))
    BY <2>1, FS_Product
  <2> QED
    BY <1>4, <2>2, FS_Subset
<1> HIDE DEF P
<1>6. F = {p \in P : \A q \in Preceding(p, P) : ~SameTask(At(asked, q), At(asked, p))}
  BY DEF FirstOfEach, P
<1> HIDE DEF F
<1>7. F \subseteq P /\ IsFiniteSet(F)
  BY <1>5, <1>6, FS_Subset
<1>8. StrictOrder(before)
  BY <1>4, <1>7, PrecedingOrders
<1>9. DOMAIN before = F /\ \A p \in F : before[p] \subseteq P
  BY <1>7 DEF Preceding
<1>10. \A p, q \in F : p \in before[q] => p \in Preceding(q, P)
  BY <1>7 DEF Preceding
<1> HIDE DEF before
<1>11. /\ Cardinality(F) \in Nat /\ DOMAIN places = 1..Cardinality(F)
       /\ \A n \in DOMAIN places : places[n] \in F
       /\ \A p \in F : \E n \in DOMAIN places : places[n] = p
       /\ \A m, n \in DOMAIN places : m < n => places[m] \in before[places[n]]
  BY <1>7, <1>8, <1>9, InOrderLists
<1>12. DOMAIN kept = DOMAIN places /\ \A n \in DOMAIN places : kept[n] = At(asked, places[n])
  BY DEF Kept, places, before, F, asked
<1> HIDE DEF places
<1>13. \A p : p \in P => At(asked, p) \in AskedOf(types, target, severity)
  <2> SUFFICES ASSUME NEW n \in 1..k, NEW m \in DOMAIN asked[n], NEW p, p = <<n, m>>
               PROVE  At(asked, p) \in AskedOf(types, target, severity)
    BY <1>4
  <2>1. At(asked, p) = ForType(order[n], target, severity)[m] /\ m \in DOMAIN ForType(order[n], target, severity)
    BY <1>2 DEF At
  <2>2. order[n] \in types
    BY <1>1
  <2> QED
    BY <2>1, <2>2 DEF AskedOf, ToSet
<1>14. ASSUME NEW s \in AskedOf(types, target, severity) PROVE \E p \in P : At(asked, p) = s
  <2>1. PICK t \in types : s \in ToSet(ForType(t, target, severity))
    BY <1>14 DEF AskedOf
  <2>2. PICK m \in DOMAIN ForType(t, target, severity) : s = ForType(t, target, severity)[m]
    BY <2>1 DEF ToSet
  <2>3. PICK n \in 1..k : order[n] = t
    BY <1>1
  <2>4. m \in DOMAIN asked[n] /\ asked[n][m] = s
    BY <1>2, <2>2, <2>3
  <2>5. <<n, m>> \in P /\ At(asked, <<n, m>>) = s
    BY <1>4, <2>4 DEF At
  <2> QED
    BY <2>5
<1>15. ASSUME NEW p \in P PROVE \E q \in F : SameTask(At(asked, p), At(asked, q))
  <2> DEFINE same == {q \in P : SameTask(At(asked, q), At(asked, p))}
             order2 == [q \in same |-> Preceding(q, same)]
  <2>1. same \subseteq P /\ IsFiniteSet(same) /\ p \in same
    BY <1>5, FS_Subset DEF SameTask
  <2>2. StrictOrder(order2) /\ DOMAIN order2 = same
    BY <1>4, <2>1, PrecedingOrders
  <2>3. PICK q \in same : Preceding(q, same) = {}
    BY <2>1, <2>2, FirstExists
  <2>4. ASSUME NEW r \in Preceding(q, P), SameTask(At(asked, r), At(asked, q)) PROVE FALSE
    <3>1. r \in same
      BY <2>4 DEF Preceding, SameTask
    <3> QED
      BY <2>3, <2>4, <3>1 DEF Preceding
  <2> QED
    BY <1>6, <2>3, <2>4 DEF SameTask
<1>16. ASSUME NEW m \in DOMAIN kept, NEW n \in DOMAIN kept, m # n PROVE ~SameTask(kept[m], kept[n])
  <2>1. ASSUME NEW a \in DOMAIN places, NEW b \in DOMAIN places, a < b
        PROVE  ~SameTask(At(asked, places[a]), At(asked, places[b]))
    BY <1>6, <1>10, <1>11, <2>1
  <2>2. m < n \/ n < m
    BY <1>11, <1>12, <1>16
  <2> QED
    BY <1>12, <2>1, <2>2 DEF SameTask
<1>17. ASSUME NEW s \in AskedOf(types, target, severity) PROVE \E n \in DOMAIN kept : SameTask(s, kept[n])
  BY <1>11, <1>12, <1>14, <1>15
<1> QED
  BY <1>7, <1>11, <1>12, <1>13, <1>16, <1>17

(* The comments promise what is made, but for one kind of task of one type. *)
LEMMA MadeFits ==
  ASSUME NEW t
  PROVE  /\ Promised(t) \ {"customer_notification"} \subseteq Made(t) /\ Made(t) \subseteq Promised(t)
         /\ "customer_notification" \in Made(t) <=> t = "moas"
         /\ "scrubber_coordination" \notin Made(t)
<1>1. CASE t = "withdraw_flap"
  BY <1>1 DEF Made, Promised
<1>2. CASE t # "withdraw_flap"
  BY <1>2 DEF Made, Promised
<1> QED
  BY <1>1, <1>2

(* So what is stored is what the types ask for. *)
Kinds(list) == {list[n].type : n \in DOMAIN list}
KindsFit(kinds, types, severity) ==
  LET promised == UNION {Promised(t) : t \in types}
  IN  /\ promised \ {"customer_notification"} \subseteq kinds
      /\ kinds \subseteq promised \union {"scrubber_coordination"}
      /\ "customer_notification" \in kinds <=> "moas" \in types
      /\ "scrubber_coordination" \in kinds <=> severity \in {"P0", "P1"} /\ types # {}

LEMMA KeptSuits ==
  ASSUME NEW types, IsFiniteSet(types), NEW order \in SetToSeqs(types), NEW target, NEW severity,
         NEW kept, kept = Kept(Asked(order, target, severity))
  PROVE  /\ KindsFit(Kinds(kept), types, severity)
         /\ "hijack" \in types /\ types \cap Unurgent = {} =>
              \E n \in DOMAIN kept : kept[n].type = "contact_asn" /\ kept[n].priority = "immediate"
<1> DEFINE asks == AskedOf(types, target, severity)
           kinds == Kinds(kept)
           made == UNION {Made(t) : t \in types}
           scrubber == IF types = {} THEN {} ELSE Scrubber(severity)
<1>1. /\ \A s \in asks : \E n \in DOMAIN kept : SameTask(s, kept[n])
      /\ \A n \in DOMAIN kept : kept[n] \in asks
  BY KeptTells
<1>2. kinds = {s.type : s \in asks}
  BY <1>1 DEF SameTask, Kinds
<1>3. \A t : {s.type : s \in ToSet(ForType(t, target, severity))} = Made(t) \union Scrubber(severity)
  <2> SUFFICES ASSUME NEW t, NEW list, list = ForType(t, target, severity)
               PROVE  {s.type : s \in ToSet(list)} = Made(t) \union Scrubber(severity)
    OBVIOUS
  <2>1. {list[m].type : m \in DOMAIN list} = Made(t) \union Scrubber(severity)
    BY ListForType
  <2>2. {s.type : s \in ToSet(list)} = {list[m].type : m \in DOMAIN list}
    BY DEF ToSet
  <2> QED
    BY <2>1, <2>2
<1>4. kinds = made \union scrubber
  <2>1. {s.type : s \in asks} = UNION {{s.type : s \in ToSet(ForType(t, target, severity))} : t \in types}
    BY DEF AskedOf
  <2>2. {s.type : s \in asks} = UNION {Made(t) \union Scrubber(severity) : t \in types}
    BY <1>3, <2>1
  <2>3. UNION {Made(t) \union Scrubber(severity) : t \in types} = made \union scrubber
    <3> DEFINE more == Scrubber(severity)
    <3> HIDE DEF more
    <3>1. UNION {Made(t) \union more : t \in types} = made \union IF types = {} THEN {} ELSE more
      OBVIOUS
    <3> QED
      BY <3>1 DEF more
  <2> QED
    BY <1>2, <2>2, <2>3
<1>5. KindsFit(kinds, types, severity)
  <2> DEFINE promised == UNION {Promised(t) : t \in types}
  <2> SUFFICES /\ promised \ {"customer_notification"} \subseteq kinds
               /\ kinds \subseteq promised \union {"scrubber_coordination"}
               /\ "customer_notification" \in kinds <=> "moas" \in types
               /\ "scrubber_coordination" \in kinds <=> severity \in {"P0", "P1"} /\ types # {}
    BY DEF KindsFit
  <2>1. /\ promised \ {"customer_notification"} \subseteq made /\ made \subseteq promised
        /\ "customer_notification" \in made <=> "moas" \in types
        /\ "scrubber_coordination" \notin made
    BY MadeFits
  <2>2. /\ scrubber \subseteq {"scrubber_coordination"}
        /\ "scrubber_coordination" \in scrubber <=> severity \in {"P0", "P1"} /\ types # {}
    BY DEF Scrubber
  <2> HIDE DEF made, scrubber, kinds, promised
  <2> QED
    BY <1>4, <2>1, <2>2
<1>6. ASSUME "hijack" \in types, types \cap Unurgent = {}
      PROVE  \E n \in DOMAIN kept : kept[n].type = "contact_asn" /\ kept[n].priority = "immediate"
  <2>1. "contact_asn" \in made
    <3>1. "contact_asn" \in Made("hijack")
      BY DEF Made, Promised
    <3> QED
      BY <1>6, <3>1
  <2>2. PICK n \in DOMAIN kept : kept[n].type = "contact_asn"
    BY <1>4, <2>1 DEF Kinds
  <2>3. PICK t \in types : kept[n] \in ToSet(ForType(t, target, severity))
    BY <1>1 DEF AskedOf
  <2>4. PICK j \in DOMAIN ForType(t, target, severity) : kept[n] = ForType(t, target, severity)[j]
    BY <2>3 DEF ToSet
  <2>5. kept[n].priority = "immediate"
    BY <1>6, <2>2, <2>4, ListForType DEF Calls
  <2> QED
    BY <2>2, <2>5
<1> QED
  BY <1>5, <1>6

-----------------------------------------------------------------------------
(* What a step does to a call. *)
Handled(p) ==
  \/ \E kind, i, a, arg : kind \notin ReviewKinds /\ Begin(p, kind, i, a, arg)
  \/ \E kind \in ReviewKinds, i \in IncidentIds, save \in BOOLEAN : BeginReview(p, kind, i, save)
  \/ \E kind : kind # "suggest" /\ Running(p, kind) /\ Return(p)
  \/ CommitSuggest(p)
  \/ ReadChain(p)

LEMMA CallsMove ==
  ASSUME [ResponseNext]_responseVars
  PROVE  UNCHANGED calls \/ \E p \in Ops : Handled(p)
<1> DEFINE Goal == UNCHANGED calls \/ \E p \in Ops : Handled(p)
<1>1. ASSUME UNCHANGED calls PROVE Goal
  BY <1>1
<1>2. ASSUME NEW p \in Ops, NEW kind, kind \notin ReviewKinds, NEW i, NEW a, NEW arg, Begin(p, kind, i, a, arg)
      PROVE  Goal
  BY <1>2 DEF Handled
<1>3. ASSUME NEW p \in Ops, NEW kind, kind # "suggest", Running(p, kind), Return(p) PROVE Goal
  BY <1>3 DEF Handled
<1>4. ASSUME NEW p \in Ops, CommitSuggest(p) \/ ReadChain(p) PROVE Goal
  BY <1>4 DEF Handled
<1>5. ASSUME NEW p \in Ops, NEW kind \in ReviewKinds, NEW i \in IncidentIds, NEW save \in BOOLEAN,
             BeginReview(p, kind, i, save)
      PROVE  Goal
  BY <1>5 DEF Handled
<1> HIDE DEF Goal
<1>6. ASSUME IncidentsNext PROVE Goal
  <2>1. ASSUME NEW row, NEW a, NEW i, NEW request,
               Tick \/ CreateAlert(row) \/ DropAlert(a) \/ CreateIncident(i, request)
        PROVE  Goal
    BY <1>1, <2>1 DEF Tick, CreateAlert, DropAlert, CreateIncident
  <2>2. ASSUME NEW p \in Ops, NEW a, NEW i, NEW request, BeginAlertStatus(p, a, request) \/ BeginAssignAlert(p, a, i)
        PROVE  Goal
    BY <1>2, <2>2 DEF BeginAlertStatus, BeginAssignAlert, ReviewKinds
  <2>3. ASSUME NEW p \in Ops, NEW kind \in IncidentKinds, NEW i, NEW arg, BeginOnIncident(p, kind, i, arg)
        PROVE  Goal
    BY <1>2, <2>3 DEF BeginOnIncident, ReviewKinds, IncidentKinds
  <2>4. ASSUME NEW p \in Ops,
               \/ CommitAlertStatus(p) \/ CommitAssignAlert(p) \/ CommitUpdate(p) \/ CommitAssign(p)
               \/ CommitEscalate(p) \/ CommitClose(p) \/ CommitTimelineEvent(p)
        PROVE  Goal
    BY <1>3, <2>4 DEF CommitAlertStatus, CommitAssignAlert, CommitUpdate, CommitAssign, CommitEscalate, CommitClose,
       CommitTimelineEvent
  <2> QED
    BY <1>6, <2>1, <2>2, <2>3, <2>4 DEF IncidentsNext
<1>7. ASSUME RemediationNext PROVE Goal
  <2>1. ASSUME NEW p \in Ops, NEW i, BeginSuggest(p, i) \/ BeginCollect(p, i)
        PROVE  Goal
    BY <1>2, <2>1 DEF BeginSuggest, BeginCollect, BeginOnIncident, ReviewKinds
  <2>2. ASSUME NEW p \in Ops, CommitCollect(p) \/ CommitCloseWithReview(p) \/ CommitCloseAndReview(p)
        PROVE  Goal
    BY <1>3, <2>2 DEF CommitCollect, CommitCloseWithReview, CommitCloseAndReview
  <2>3. ASSUME NEW k, NEW status, NEW i, NEW s,
               ExecuteAction(k, status) \/ UpdateAction(k, status) \/ CreateAction(i, s)
        PROVE  Goal
    BY <1>1, <2>3 DEF ExecuteAction, UpdateAction, CreateAction, incidentVars
  <2>4. ASSUME NEW k, NEW types, NEW i, NEW preserved,
               \/ CollectForensic(i, types) \/ CreateReview(i) \/ CreateCase(i)
               \/ UpdateReview(k, preserved) \/ UpdateCase(k) \/ DeleteCase(k)
        PROVE  Goal
    BY <1>1, <2>4 DEF CollectForensic, CreateReview, CreateCase, UpdateReview, UpdateCase, DeleteCase, incidentVars
  <2> QED
    BY <1>4, <1>5, <1>7, <2>1, <2>2, <2>3, <2>4 DEF RemediationNext
<1>8. ASSUME NotificationsNext \/ IntegrationsNext PROVE Goal
  BY <1>1, <1>8, OthersTouchNothing DEF incidentVars
<1>9. ASSUME UNCHANGED responseVars PROVE Goal
  BY <1>1, <1>9 DEF responseVars, incidentVars
<1> QED
  BY <1>6, <1>7, <1>8, <1>9 DEF ResponseNext, Goal

LEMMA OthersStay ==
  ASSUME RowsOK, NEW o \in Ops, NEW p \in Ops, p # o, Handled(p)
  PROVE  calls'[o] = calls[o]
<1>1. DOMAIN calls = Ops
  BY DEF RowsOK
<1>2. ASSUME NEW kind, NEW i, NEW a, NEW arg, Begin(p, kind, i, a, arg) PROVE calls'[o] = calls[o]
  BY <1>1, <1>2 DEF Begin
<1>3. CASE Return(p)
  BY <1>1, <1>3 DEF Return
<1>4. CASE ReadChain(p)
  <2> DEFINE chain == OperationChain(calls[p].id)
  <2>1. calls' = [calls EXCEPT ![p].arg.chain = chain]
    BY <1>4 DEF ReadChain
  <2> HIDE DEF chain
  <2> QED
    BY <1>1, <2>1
<1> QED
  BY <1>2, <1>3, <1>4 DEF Handled, BeginReview, BeginOnIncident, CommitSuggest

(* A call that suggests ends with its own commit. *)
LEMMA SuggestReturns ==
  ASSUME RowsOK, [ResponseNext]_responseVars, NEW o \in Ops, Running(o, "suggest"), calls'[o] = None
  PROVE  CommitSuggest(o)
<1>1. calls[o] # None /\ calls[o].kind = "suggest"
  BY DEF Running
<1>2. PICK p \in Ops : Handled(p)
  BY <1>1, CallsMove
<1>3. p = o
  BY <1>1, <1>2, OthersStay
<1>4. \A kind, i, a, arg : ~Begin(o, kind, i, a, arg)
  BY <1>1 DEF Begin
<1>5. \A kind, i, save : ~BeginReview(o, kind, i, save)
  BY <1>4 DEF BeginReview, BeginOnIncident
<1>6. ~ReadChain(o)
  BY <1>1 DEF ReadChain, Running, ReviewKinds
<1> QED
  BY <1>1, <1>2, <1>3, <1>4, <1>5, <1>6 DEF Handled, Running

(* The types of the alerts that are linked to an incident are finitely many. *)
LEMMA TypesFinite ==
  ASSUME RowsOK, NEW i
  PROVE  IsFiniteSet({alerts[a].type : a \in Linked(i)})
<1> DEFINE S == Linked(i)
           T == {alerts[a].type : a \in S}
           f == [a \in S |-> alerts[a].type]
<1>1. S \in SUBSET (1..Len(alerts)) /\ Len(alerts) \in Int
  BY DEF Linked, RowsOK
<1> HIDE DEF S
<1>2. IsFiniteSet(S)
  <2>1. IsFiniteSet(1..Len(alerts))
    <3>1. 1 \in Int
      OBVIOUS
    <3> QED
      BY ONLY <1>1, <3>1, FS_Interval
  <2> QED
    BY ONLY <1>1, <2>1, FS_Subset
<1>3. f \in Surjection(S, T)
  BY DEF Surjection
<1> QED
  BY <1>2, <1>3, FS_Surjection DEF S

(* What the commit stores. *)
LEMMA CommitSuggestSuits ==
  ASSUME RowsOK, IsList(actions), NEW o \in Ops, CommitSuggest(o)
  PROVE  LET i == calls[o].id
             types == {alerts[a].type : a \in Linked(i)}
             severity == calls[o].incident.severity
             made == SubSeq(actions', Len(actions) + 1, Len(actions'))
         IN  /\ IsList(actions')
             /\ \A m, n \in DOMAIN made : m # n => ~SameTask(made[m], made[n])
             /\ KindsFit(Kinds(made), types, severity)
             /\ "hijack" \in types /\ types \cap Unurgent = {} =>
                  \E n \in DOMAIN made : made[n].type = "contact_asn" /\ made[n].priority = "immediate"
<1> DEFINE i == calls[o].id
           types == {alerts[a].type : a \in Linked(i)}
           target == TargetAsn(calls[o].incident, Linked(i))
           severity == calls[o].incident.severity
           made == SubSeq(actions', Len(actions) + 1, Len(actions'))
<1>1. PICK list \in Suggested(calls[o].incident, i) :
             actions' = actions \o [n \in DOMAIN list |-> NewAction(i, list[n])]
  BY DEF CommitSuggest
<1>2. PICK order \in SetToSeqs(types) : list = Kept(Asked(order, target, severity))
  BY <1>1 DEF Suggested
<1>3. IsFiniteSet(types)
  BY TypesFinite
<1> HIDE DEF types, target, severity
<1>4. \A m, n \in DOMAIN list : m # n => ~SameTask(list[m], list[n])
  BY <1>2, <1>3, KeptTells
<1>5. PICK k \in Nat : DOMAIN list = 1..k
  BY <1>2, <1>3, KeptTells
<1>6. /\ KindsFit(Kinds(list), types, severity)
      /\ "hijack" \in types /\ types \cap Unurgent = {} =>
           \E n \in DOMAIN list : list[n].type = "contact_asn" /\ list[n].priority = "immediate"
  BY <1>2, <1>3, KeptSuits
<1> DEFINE new == [n \in 1..k |-> NewAction(i, list[n])]
<1>7. IsList(new) /\ Len(new) = k
  <2> DEFINE S == {NewAction(i, list[n]) : n \in 1..k}
  <2>1. new \in [1..k -> S]
    OBVIOUS
  <2> HIDE DEF new, S
  <2> QED
    BY <2>1, FunctionIsList
<1>8. \A n \in 1..k : new[n].type = list[n].type /\ new[n].target = list[n].target /\ new[n].priority = list[n].priority
  BY DEF NewAction
<1>9. actions' = actions \o new
  BY <1>1, <1>5
<1> HIDE DEF new
<1>10. IsList(actions') /\ Len(made) = k /\ IsList(made) /\ \A n \in 1..k : made[n] = new[n]
  <2> DEFINE part == SubSeq(actions \o new, Len(actions) + 1, Len(actions \o new))
  <2>1. IsList(actions \o new) /\ Len(part) = k /\ IsList(part) /\ \A n \in 1..k : part[n] = new[n]
    BY <1>7, AppendedPart
  <2>2. made = part
    BY <1>9
  <2> HIDE DEF part, made
  <2> QED
    BY <1>9, <2>1, <2>2
<1>11. DOMAIN made = DOMAIN list
  BY <1>5, <1>10 DEF IsList
<1>12. \A n \in DOMAIN list : /\ made[n].type = list[n].type /\ made[n].target = list[n].target
                              /\ made[n].priority = list[n].priority
  BY <1>5, <1>8, <1>10
<1> HIDE DEF made
<1>13. \A m, n \in DOMAIN made : m # n => ~SameTask(made[m], made[n])
  BY <1>4, <1>11, <1>12 DEF SameTask
<1>14. Kinds(made) = Kinds(list)
  BY <1>11, <1>12 DEF Kinds
<1>15. "hijack" \in types /\ types \cap Unurgent = {} =>
         \E n \in DOMAIN made : made[n].type = "contact_asn" /\ made[n].priority = "immediate"
  BY <1>6, <1>11, <1>12
<1> QED
  BY <1>6, <1>10, <1>13, <1>14, <1>15 DEF types, severity, made

-----------------------------------------------------------------------------
(* Reviews.  Rows of actions and evidence are added, and an action is changed in
   place: its time is then that of the clock. *)
LEMMA JoinedIsList ==
  ASSUME NEW s, IsList(s), NEW t, IsList(t)
  PROVE  /\ IsList(s \o t)
         /\ \A k \in DOMAIN s : k \in DOMAIN (s \o t) /\ (s \o t)[k] = s[k]
         /\ \A k \in DOMAIN (s \o t) :
              \/ k \in DOMAIN s /\ (s \o t)[k] = s[k]
              \/ \E n \in DOMAIN t : (s \o t)[k] = t[n]
<1>1. PICK S : s \in Seq(S)
  BY DEF IsList
<1>2. PICK T : t \in Seq(T)
  BY DEF IsList
<1> DEFINE U == S \union T
           all == s \o t
           a == Len(s)
           b == Len(t)
<1>3. s \in Seq(U) /\ t \in Seq(U) /\ a \in Nat /\ b \in Nat /\ DOMAIN s = 1..a /\ DOMAIN t = 1..b
  BY <1>1, <1>2
<1>4. all \in Seq(U) /\ Len(all) = a + b
      /\ \A k \in 1..a + b : all[k] = IF k <= a THEN s[k] ELSE t[k - a]
  BY <1>3, ConcatProperties
<1>5. DOMAIN all = 1..a + b
  BY <1>4
<1> HIDE DEF all, a, b
<1>6. \A k \in 1..a : k \in 1..a + b /\ all[k] = s[k]
  BY <1>3, <1>4
<1>7. ASSUME NEW k \in 1..a + b, k \notin 1..a PROVE k - a \in 1..b /\ all[k] = t[k - a]
  BY <1>3, <1>4, <1>7
<1> QED
  BY <1>3, <1>4, <1>5, <1>6, <1>7 DEF IsList, all

LEMMA ReplacedIsList ==
  ASSUME NEW s, IsList(s), NEW k \in DOMAIN s, NEW x, NEW t, t = [s EXCEPT ![k] = x]
  PROVE  /\ IsList(t) /\ DOMAIN t = DOMAIN s /\ Len(t) = Len(s)
         /\ \A n \in DOMAIN s : t[n] = IF n = k THEN x ELSE s[n]
<1>1. PICK S : s \in Seq(S)
  BY DEF IsList
<1>2. s \in Seq(S \union {x}) /\ t \in Seq(S \union {x})
  BY <1>1
<1> QED
  BY <1>1, <1>2 DEF IsList

IsTask(t, now) == {"incident", "executedAt"} \subseteq DOMAIN t /\ t.executedAt \in {None} \union 0..now
TasksOK == IsList(actions) /\ \A k \in DOMAIN actions : IsTask(actions[k], clock)
TasksStay ==
  \A k \in DOMAIN actions :
    /\ k \in DOMAIN actions' /\ actions'[k].incident = actions[k].incident
    /\ actions'[k].executedAt \in {actions[k].executedAt, clock}

LEMMA TaskIsNew ==
  ASSUME clock \in Nat, NEW i, NEW s
  PROVE  IsTask(NewAction(i, s), clock)
BY DEF IsTask, NewAction

LEMMA TasksAdded ==
  ASSUME TasksOK, UNCHANGED clock, NEW t, IsList(t), \A n \in DOMAIN t : IsTask(t[n], clock), actions' = actions \o t
  PROVE  TasksOK' /\ TasksStay
<1>1. IsList(actions') /\ \A k \in DOMAIN actions' :
        (k \in DOMAIN actions /\ actions'[k] = actions[k]) \/ \E n \in DOMAIN t : actions'[k] = t[n]
  BY JoinedIsList DEF TasksOK
<1>2. \A k \in DOMAIN actions : k \in DOMAIN actions' /\ actions'[k] = actions[k]
  BY JoinedIsList DEF TasksOK
<1>3. \A k \in DOMAIN actions' : IsTask(actions'[k], clock)
  BY <1>1 DEF TasksOK
<1> QED
  BY <1>1, <1>2, <1>3 DEF TasksOK, TasksStay

LEMMA TasksGrow ==
  ASSUME RowsOK, clock \in Nat, TasksOK, [ResponseNext]_responseVars
  PROVE  TasksOK' /\ TasksStay
<1>1. ASSUME UNCHANGED actions PROVE TasksOK' /\ TasksStay
  <2>1. clock' \in Nat /\ clock <= clock'
    BY ClockTicks
  <2>2. \A x \in {None} \union 0..clock : x \in {None} \union 0..clock'
    BY <2>1
  <2>3. \A k \in DOMAIN actions : IsTask(actions[k], clock')
    BY <2>2 DEF TasksOK, IsTask
  <2> QED
    BY <1>1, <2>3 DEF TasksOK, TasksStay
<1>2. ASSUME NEW o \in Ops, CommitSuggest(o) PROVE TasksOK' /\ TasksStay
  <2>1. PICK list \in Suggested(calls[o].incident, calls[o].id) :
               actions' = actions \o [n \in DOMAIN list |-> NewAction(calls[o].id, list[n])]
    BY <1>2 DEF CommitSuggest
  <2> DEFINE types == {alerts[a].type : a \in Linked(calls[o].id)}
             target == TargetAsn(calls[o].incident, Linked(calls[o].id))
  <2>2. PICK order \in SetToSeqs(types) : list = Kept(Asked(order, target, calls[o].incident.severity))
    BY <2>1 DEF Suggested
  <2>3. IsFiniteSet(types)
    BY TypesFinite
  <2> HIDE DEF types, target
  <2>4. PICK k \in Nat : DOMAIN list = 1..k
    BY <2>2, <2>3, KeptTells
  <2> DEFINE new == [n \in 1..k |-> NewAction(calls[o].id, list[n])]
             S == {NewAction(calls[o].id, list[n]) : n \in 1..k}
  <2>5. DOMAIN new = 1..k /\ \A n \in DOMAIN new : IsTask(new[n], clock)
    BY TaskIsNew
  <2>6. new \in [1..k -> S]
    OBVIOUS
  <2>7. actions' = actions \o new /\ UNCHANGED clock
    BY <1>2, <2>1, <2>4 DEF CommitSuggest
  <2> HIDE DEF new, S
  <2>8. IsList(new)
    BY <2>6, FunctionIsList
  <2> QED
    BY <2>5, <2>7, <2>8, TasksAdded
<1>3. ASSUME NEW i, NEW s, CreateAction(i, s) PROVE TasksOK' /\ TasksStay
  <2> DEFINE row == NewAction(i, s)
  <2>1. actions' = Append(actions, row) /\ UNCHANGED clock
    BY <1>3 DEF CreateAction, incidentVars
  <2>2. IsTask(row, clock)
    BY TaskIsNew
  <2> HIDE DEF row
  <2>3. /\ IsList(actions') /\ Len(actions) \in Nat /\ Len(actions') = Len(actions) + 1
        /\ \A n \in 1..Len(actions) : actions'[n] = actions[n]
        /\ actions'[Len(actions) + 1] = row
    BY <2>1, AppendIsList DEF TasksOK
  <2>4. DOMAIN actions = 1..Len(actions) /\ DOMAIN actions' = 1..Len(actions) + 1
    BY <2>3 DEF TasksOK, IsList
  <2>5. \A k \in DOMAIN actions' : IsTask(actions'[k], clock)
    BY <2>2, <2>3, <2>4 DEF TasksOK
  <2>6. \A k \in DOMAIN actions : k \in DOMAIN actions' /\ actions'[k] = actions[k]
    BY <2>3, <2>4
  <2> QED
    BY <2>1, <2>3, <2>5, <2>6 DEF TasksOK, TasksStay
<1>4. ASSUME NEW k \in DOMAIN actions, NEW status, ExecuteAction(k, status) \/ UpdateAction(k, status)
      PROVE  TasksOK' /\ TasksStay
  <2> DEFINE old == actions[k]
  <2>1. IsTask(old, clock) /\ IsList(actions)
    BY DEF TasksOK
  <2>2. PICK row : /\ actions' = [actions EXCEPT ![k] = row]
                   /\ row \in {[old EXCEPT !.status = status, !.executedAt = clock], [old EXCEPT !.status = status]}
    BY <1>4 DEF ExecuteAction, UpdateAction
  <2>3. row.incident = old.incident /\ row.executedAt \in {old.executedAt, clock} /\ DOMAIN row = DOMAIN old
    BY <2>1, <2>2 DEF IsTask
  <2>4. IsTask(row, clock)
    BY <2>1, <2>3 DEF IsTask
  <2>5. IsList(actions') /\ DOMAIN actions' = DOMAIN actions
        /\ \A n \in DOMAIN actions : actions'[n] = IF n = k THEN row ELSE actions[n]
    <3> HIDE DEF old
    <3> QED
      BY <2>1, <2>2, ReplacedIsList
  <2>6. UNCHANGED clock
    BY <1>4 DEF ExecuteAction, UpdateAction, incidentVars
  <2>7. \A n \in DOMAIN actions : IsTask(actions'[n], clock)
    BY <2>4, <2>5 DEF TasksOK
  <2>8. TasksStay
    BY <2>3, <2>5 DEF TasksStay
  <2> QED
    BY <2>5, <2>6, <2>7, <2>8 DEF TasksOK
<1>5. CASE RemediationNext
  <2>1. ASSUME NEW p \in Ops, NEW i, NEW kind, NEW save,
               BeginSuggest(p, i) \/ BeginCollect(p, i) \/ BeginReview(p, kind, i, save)
        PROVE  UNCHANGED actions
    BY <2>1 DEF BeginSuggest, BeginCollect, BeginReview, remediationVars
  <2>2. ASSUME NEW p \in Ops, CommitCollect(p) \/ ReadChain(p) \/ CommitCloseWithReview(p) \/ CommitCloseAndReview(p)
        PROVE  UNCHANGED actions
    BY <2>2 DEF CommitCollect, ReadChain, CommitCloseWithReview, CommitCloseAndReview, remediationVars
  <2>3. ASSUME NEW k, NEW types, NEW i, NEW preserved,
               \/ CollectForensic(i, types) \/ CreateReview(i) \/ CreateCase(i)
               \/ UpdateReview(k, preserved) \/ UpdateCase(k) \/ DeleteCase(k)
        PROVE  UNCHANGED actions
    BY <2>3 DEF CollectForensic, CreateReview, CreateCase, UpdateReview, UpdateCase, DeleteCase
  <2> QED
    BY <1>1, <1>2, <1>3, <1>4, <1>5, <2>1, <2>2, <2>3 DEF RemediationNext
<1> QED
  BY <1>1, <1>5 DEF ResponseNext, responseVars, remediationVars

EvidenceOK == IsList(evidence) /\ \A k \in DOMAIN evidence : evidence[k].collectedAt \in Nat
EvidenceStays == \A k \in DOMAIN evidence : k \in DOMAIN evidence' /\ evidence'[k] = evidence[k]

LEMMA CollectedFinite ==
  ASSUME NEW types \in TypeRequests, NEW scope
  PROVE  IsFiniteSet(Collected(scope, types))
<1> DEFINE U == DOMAIN Data \union {"points"} \union {"prefixes"} \union {"asns"} \union {"changes"}
           C == Collected(scope, types)
           f == [x \in C |-> <<x.type, x.subject>>]
<1>1. IsFiniteSet(U) /\ IsFiniteSet(types)
  BY RemediationAssumption, FS_AddElement
<1>2. IsFiniteSet(types \X U)
  BY <1>1, FS_Product
<1>3. \A type : Subjects(type, scope.prefixes, scope.asns) \subseteq U
  <2> SUFFICES ASSUME NEW type PROVE Subjects(type, scope.prefixes, scope.asns) \subseteq U
    OBVIOUS
  <2>1. RowsOfPrefixes(type, scope.prefixes) \subseteq U
    BY DEF RowsOfPrefixes
  <2>2. RowsOfAssets(scope.prefixes, scope.asns) \subseteq U
    BY DEF RowsOfAssets
  <2> QED
    BY <2>1, <2>2 DEF Subjects
<1> HIDE DEF U
<1>4. \A x \in C : x.type \in types /\ x.subject \in U /\ x = [type |-> x.type, subject |-> x.subject]
  BY <1>3 DEF Collected, Found
<1> HIDE DEF C
<1>5. f \in Injection(C, types \X U)
  BY <1>4 DEF Injection, IsInjective
<1> QED
  BY <1>2, <1>5, FS_Injection DEF C

LEMMA EvidenceGrows ==
  ASSUME RowsOK, EvidenceOK, [ResponseNext]_responseVars
  PROVE  EvidenceOK' /\ EvidenceStays
<1>1. ASSUME UNCHANGED evidence PROVE EvidenceOK' /\ EvidenceStays
  BY <1>1 DEF EvidenceOK, EvidenceStays
<1>2. ASSUME NEW i \in IncidentIds, NEW types \in TypeRequests, CollectForensic(i, types) PROVE EvidenceOK' /\ EvidenceStays
  <2> DEFINE row == [incident |-> i, collectedAt |-> incidents[i].firstSeen]
             found == Collected(Scope(incidents[i], {a \in Listed(incidents[i]) : Exists(a)}), types)
             k == Cardinality(found)
             new == [n \in 1..k |-> row]
  <2>1. UNCHANGED evidence \/ evidence' = evidence \o new
    BY <1>2 DEF CollectForensic
  <2>2. row.collectedAt \in Nat
    BY <1>2 DEF CollectForensic, RowsOK, IsRow
  <2> HIDE DEF row
  <2>3. k \in Nat
    BY CollectedFinite, FS_CardinalityType
  <2> HIDE DEF k
  <2>4. DOMAIN new = 1..k /\ \A n \in DOMAIN new : new[n] = row
    OBVIOUS
  <2>5. IsList(new)
    <3>1. new \in [1..k -> {row}]
      OBVIOUS
    <3> HIDE DEF new
    <3> QED
      BY <2>3, <3>1, FunctionIsList
  <2>6. CASE evidence' = evidence \o new
    <3> HIDE DEF new
    <3>1. IsList(evidence) /\ \A n \in DOMAIN evidence : evidence[n].collectedAt \in Nat
      BY DEF EvidenceOK
    <3>2. /\ IsList(evidence') /\ \A n \in DOMAIN evidence : n \in DOMAIN evidence' /\ evidence'[n] = evidence[n]
          /\ \A n \in DOMAIN evidence' :
               (n \in DOMAIN evidence /\ evidence'[n] = evidence[n]) \/ \E m \in DOMAIN new : evidence'[n] = new[m]
      BY <2>6, <2>5, <3>1, JoinedIsList
    <3>3. \A n \in DOMAIN evidence' : evidence'[n].collectedAt \in Nat
      BY <2>2, <2>4, <3>1, <3>2
    <3> QED
      BY <3>2, <3>3 DEF EvidenceOK, EvidenceStays
  <2> QED
    BY <1>1, <2>1, <2>6
<1>3. CASE RemediationNext
  <2>1. ASSUME NEW p \in Ops, NEW i, NEW kind, NEW save,
               BeginSuggest(p, i) \/ BeginCollect(p, i) \/ BeginReview(p, kind, i, save)
        PROVE  UNCHANGED evidence
    BY <2>1 DEF BeginSuggest, BeginCollect, BeginReview, remediationVars
  <2>2. ASSUME NEW p \in Ops,
               \/ CommitSuggest(p) \/ CommitCollect(p) \/ ReadChain(p)
               \/ CommitCloseWithReview(p) \/ CommitCloseAndReview(p)
        PROVE  UNCHANGED evidence
    BY <2>2 DEF CommitSuggest, CommitCollect, ReadChain, CommitCloseWithReview, CommitCloseAndReview, remediationVars
  <2>3. ASSUME NEW k, NEW status, NEW i, NEW s, NEW preserved,
               \/ ExecuteAction(k, status) \/ UpdateAction(k, status) \/ CreateAction(i, s)
               \/ CreateReview(i) \/ CreateCase(i)
               \/ UpdateReview(k, preserved) \/ UpdateCase(k) \/ DeleteCase(k)
        PROVE  UNCHANGED evidence
    BY <2>3 DEF ExecuteAction, UpdateAction, CreateAction, CreateReview, CreateCase, UpdateReview, UpdateCase, DeleteCase
  <2> QED
    BY <1>1, <1>2, <1>3, <2>1, <2>2, <2>3 DEF RemediationNext
<1> QED
  BY <1>1, <1>3 DEF ResponseNext, responseVars, remediationVars
(* What there is to tell of an incident: an item for each of its rows. *)
LEMMA ItemsKnown ==
  ASSUME TasksOK, EvidenceOK, clock \in Nat, NEW i
  PROVE  /\ \A x \in Items(i) : x.kind \in {"action", "evidence"} /\ x.row \in Nat /\ x.at \in Nat
         /\ \A x, y \in Items(i) : SameItem(x, y) => x = y
         /\ IsFiniteSet(Items(i))
<1> DEFINE A == ActionsOf(i)
           E == EvidenceOf(i)
           f == [x \in Items(i) |-> <<x.kind, x.row>>]
           T == {"action", "evidence"} \X (DOMAIN actions \union DOMAIN evidence)
<1>1. \A x \in Items(i) : (\E k \in A : x = ActionItem(k)) \/ (\E k \in E : x = EvidenceItem(k))
  BY DEF Items
<1>2. Len(actions) \in Nat /\ DOMAIN actions = 1..Len(actions) /\ Len(evidence) \in Nat /\ DOMAIN evidence = 1..Len(evidence)
  BY DEF TasksOK, EvidenceOK, IsList
<1>3. A \subseteq DOMAIN actions /\ E \subseteq DOMAIN evidence /\ A \subseteq Nat /\ E \subseteq Nat
  BY <1>2 DEF ActionsOf, EvidenceOf
<1>4. ASSUME NEW k \in A
      PROVE  ActionItem(k).kind = "action" /\ ActionItem(k).row = k /\ ActionItem(k).at \in Nat
  BY <1>3 DEF ActionItem, TasksOK, IsTask
<1>5. ASSUME NEW k \in E
      PROVE  EvidenceItem(k).kind = "evidence" /\ EvidenceItem(k).row = k /\ EvidenceItem(k).at \in Nat
  BY <1>3 DEF EvidenceItem, EvidenceOK
<1> HIDE DEF A, E
<1>6. \A x \in Items(i) : /\ x.kind \in {"action", "evidence"} /\ x.row \in Nat /\ x.at \in Nat
                          /\ x.row \in DOMAIN actions \union DOMAIN evidence
  BY <1>1, <1>3, <1>4, <1>5
<1>7. ASSUME NEW x \in Items(i), NEW y \in Items(i), SameItem(x, y) PROVE x = y
  <2>1. CASE x.kind = "action"
    <3>1. PICK k \in A : x = ActionItem(k)
      BY <1>1, <1>5, <2>1
    <3>2. PICK m \in A : y = ActionItem(m)
      BY <1>1, <1>5, <1>7, <2>1 DEF SameItem
    <3>3. k = m
      BY <1>4, <1>7, <3>1, <3>2 DEF SameItem
    <3> QED
      BY <3>1, <3>2, <3>3
  <2>2. CASE x.kind = "evidence"
    <3>1. PICK k \in E : x = EvidenceItem(k)
      BY <1>1, <1>4, <2>2
    <3>2. PICK m \in E : y = EvidenceItem(m)
      BY <1>1, <1>4, <1>7, <2>2 DEF SameItem
    <3>3. k = m
      BY <1>5, <1>7, <3>1, <3>2 DEF SameItem
    <3> QED
      BY <3>1, <3>2, <3>3
  <2> QED
    BY <1>6, <2>1, <2>2
<1>8. IsFiniteSet(T)
  <2>1. IsFiniteSet(DOMAIN actions) /\ IsFiniteSet(DOMAIN evidence)
    <3>1. 1 \in Int /\ Len(actions) \in Int /\ Len(evidence) \in Int
      BY <1>2
    <3> QED
      BY <1>2, <3>1, FS_Interval
  <2>2. IsFiniteSet({"action"} \union {"evidence"})
    BY FS_Singleton, FS_AddElement
  <2>3. {"action"} \union {"evidence"} = {"action", "evidence"}
    OBVIOUS
  <2>4. IsFiniteSet(DOMAIN actions \union DOMAIN evidence)
    BY <2>1, FS_Union
  <2> QED
    BY <2>2, <2>3, <2>4, FS_Product
<1>9. f \in Injection(Items(i), T)
  <2>1. f \in [Items(i) -> T]
    BY <1>6
  <2>2. \A x, y \in Items(i) : f[x] = f[y] => x = y
    BY <1>7 DEF SameItem
  <2> QED
    BY <2>1, <2>2 DEF Injection, IsInjective
<1> QED
  BY <1>6, <1>7, <1>8, <1>9, FS_Injection

(* The chain that is read tells all of it, in order of time. *)
LEMMA ChainTells ==
  ASSUME TasksOK, EvidenceOK, clock \in Nat, NEW i
  PROVE  /\ \A x \in Items(i) : \E n \in DOMAIN OperationChain(i) : OperationChain(i)[n] = x
         /\ InOrderOfTime(OperationChain(i))
<1> DEFINE S == Items(i)
           before == [x \in S |-> {y \in S : Earlier(y, x)}]
           chain == OperationChain(i)
<1>1. /\ \A x \in S : x.kind \in {"action", "evidence"} /\ x.row \in Nat /\ x.at \in Nat
      /\ \A x, y \in S : SameItem(x, y) => x = y
      /\ IsFiniteSet(S)
  BY ItemsKnown
<1>2. chain = InOrder(before)
  BY DEF OperationChain, SortedByTime
<1> HIDE DEF S, chain
<1>3. DOMAIN before = S /\ \A x \in S : before[x] \subseteq S
  OBVIOUS
<1>4. \A x, y \in S : y \in before[x] <=> Earlier(y, x)
  OBVIOUS
<1> HIDE DEF before
<1>5. \A x, y \in S : x # y => Earlier(x, y) \/ Earlier(y, x)
  BY <1>1 DEF Earlier, SameItem
<1>6. \A x, y \in S : Earlier(x, y) => ~SameItem(x, y) /\ x.at <= y.at
  BY <1>1 DEF Earlier, SameItem
<1>7. \A x, y, z \in S : Earlier(x, y) /\ Earlier(y, z) => Earlier(x, z)
  BY <1>1 DEF Earlier
<1>8. \A x \in S : ~Earlier(x, x)
  BY <1>1 DEF Earlier
<1>9. StrictOrder(before)
  BY <1>3, <1>4, <1>5, <1>7, <1>8 DEF StrictOrder
<1>10. /\ \A n \in DOMAIN chain : chain[n] \in S
       /\ \A x \in S : \E n \in DOMAIN chain : chain[n] = x
       /\ \A m, n \in DOMAIN chain : m < n => chain[m] \in before[chain[n]]
  BY <1>1, <1>2, <1>3, <1>9, InOrderLists
<1>11. InOrderOfTime(chain)
  BY <1>4, <1>6, <1>10 DEF InOrderOfTime
<1> QED
  BY <1>10, <1>11 DEF S, chain

(* What was told of an incident stays true: its items are there after a step, and
   their times are not earlier. *)
LEMMA ItemsStay ==
  ASSUME TasksOK, EvidenceOK, clock \in Nat, TasksStay, EvidenceStays, NEW i, NEW x \in Items(i)
  PROVE  \E y \in Items(i)' : SameItem(x, y) /\ x.at <= y.at /\ y.at \in Nat
<1>1. ASSUME NEW k \in ActionsOf(i), x = ActionItem(k)
      PROVE  \E y \in Items(i)' : SameItem(x, y) /\ x.at <= y.at /\ y.at \in Nat
  <2>1. k \in DOMAIN actions /\ actions[k].incident = i
    BY DEF ActionsOf
  <2>2. k \in DOMAIN actions' /\ actions'[k].incident = i /\ actions'[k].executedAt \in {actions[k].executedAt, clock}
    BY <2>1 DEF TasksStay
  <2>3. ActionItem(k)' \in Items(i)'
    BY <2>2 DEF Items, ActionsOf
  <2>4. actions[k].executedAt \in {None} \union 0..clock
    BY <2>1 DEF TasksOK, IsTask
  <2>5. SameItem(x, ActionItem(k)')
    BY <1>1 DEF ActionItem, SameItem
  <2>6. x.at = IF actions[k].executedAt = None THEN 0 ELSE actions[k].executedAt
    BY <1>1 DEF ActionItem
  <2>7. ActionItem(k)'.at = IF actions'[k].executedAt = None THEN 0 ELSE actions'[k].executedAt
    BY DEF ActionItem
  <2>8. clock # None
    BY IncidentsAssumption
  <2>9. x.at <= ActionItem(k)'.at /\ ActionItem(k)'.at \in Nat
    BY <2>2, <2>4, <2>6, <2>7, <2>8
  <2> QED
    BY <2>3, <2>5, <2>9
<1>2. ASSUME NEW k \in EvidenceOf(i), x = EvidenceItem(k)
      PROVE  \E y \in Items(i)' : SameItem(x, y) /\ x.at <= y.at /\ y.at \in Nat
  <2>1. k \in DOMAIN evidence /\ evidence[k].incident = i /\ evidence[k].collectedAt \in Nat
    BY DEF EvidenceOf, EvidenceOK
  <2>2. k \in DOMAIN evidence' /\ evidence'[k] = evidence[k]
    BY <2>1 DEF EvidenceStays
  <2>3. EvidenceItem(k)' \in Items(i)'
    BY <2>1, <2>2 DEF Items, EvidenceOf
  <2>4. EvidenceItem(k)' = x /\ x.at \in Nat
    BY <1>2, <2>1, <2>2 DEF EvidenceItem
  <2> QED
    BY <2>3, <2>4 DEF SameItem
<1> QED
  BY <1>1, <1>2 DEF Items
-----------------------------------------------------------------------------
(* A call that closes with a review holds what the incident had when it began, of
   which nothing was lost since, and tells all of it once it has read the chain. *)
Reviewing(c, items) ==
  /\ {"save", "chain", "before"} \subseteq DOMAIN c.arg
  /\ \A x \in c.arg.before : x.at \in Nat /\ \E y \in items : SameItem(x, y) /\ x.at <= y.at /\ y.at \in Nat
  /\ c.arg.chain # None => Tells(c.arg.chain, c.arg.before) /\ InOrderOfTime(c.arg.chain)

ReviewCallsOK ==
  \A o \in Ops : calls[o] # None /\ calls[o].kind \in ReviewKinds => Reviewing(calls[o], Items(calls[o].id))
RInv == TasksOK /\ EvidenceOK /\ ReviewCallsOK /\ IsList(reviews)

(* Where a call that closes with a review comes from. *)
LEMMA ReviewCallMoves ==
  ASSUME RowsOK, [ResponseNext]_responseVars, NEW o \in Ops, calls'[o] # None, calls'[o].kind \in ReviewKinds
  PROVE  \/ calls'[o] = calls[o]
         \/ ReadChain(o)
         \/ \E kind \in ReviewKinds, i \in IncidentIds, save \in BOOLEAN : BeginReview(o, kind, i, save)
<1>1. DOMAIN calls = Ops
  BY DEF RowsOK
<1>2. CASE UNCHANGED calls
  BY <1>2
<1>3. ASSUME NEW p \in Ops, p # o, Handled(p) PROVE calls'[o] = calls[o]
  BY <1>3, OthersStay
<1>4. CASE Handled(o)
  <2>1. ASSUME NEW kind, kind \notin ReviewKinds, NEW i, NEW a, NEW arg, Begin(o, kind, i, a, arg) PROVE FALSE
    <3>1. calls'[o].kind = kind
      BY <1>1, <2>1 DEF Begin
    <3> QED
      BY <2>1, <3>1
  <2>2. ~Return(o)
    BY <1>1 DEF Return
  <2> QED
    BY <1>4, <2>1, <2>2 DEF Handled, CommitSuggest
<1> QED
  BY <1>2, <1>3, <1>4, CallsMove

LEMMA ReviewCallsKeep ==
  ASSUME RowsOK, CallsOK, clock \in Nat, TasksOK, EvidenceOK, ReviewCallsOK, [ResponseNext]_responseVars
  PROVE  ReviewCallsOK'
<1> SUFFICES ASSUME NEW o \in Ops, calls'[o] # None, calls'[o].kind \in ReviewKinds
             PROVE  Reviewing(calls[o], Items(calls[o].id))'
  BY DEF ReviewCallsOK
<1>1. TasksStay /\ EvidenceStays
  BY TasksGrow, EvidenceGrows
<1>2. \A i : \A x \in Items(i) : x.at \in Nat
  BY ItemsKnown
<1>3. \A i : \A x \in Items(i) : \E y \in Items(i)' : SameItem(x, y) /\ x.at <= y.at /\ y.at \in Nat
  BY <1>1, ItemsStay
<1>4. DOMAIN calls = Ops
  BY DEF RowsOK
<1>5. ASSUME NEW c, c = calls[o], c # None, c.kind \in ReviewKinds, NEW before, before = c.arg.before
      PROVE  \A x \in before : x.at \in Nat /\ \E y \in Items(c.id)' : SameItem(x, y) /\ x.at <= y.at /\ y.at \in Nat
  <2> SUFFICES ASSUME NEW x \in before
               PROVE  x.at \in Nat /\ \E y \in Items(c.id)' : SameItem(x, y) /\ x.at <= y.at /\ y.at \in Nat
    OBVIOUS
  <2>1. PICK y \in Items(c.id) : x.at \in Nat /\ SameItem(x, y) /\ x.at <= y.at /\ y.at \in Nat
    BY <1>5 DEF ReviewCallsOK, Reviewing
  <2>2. PICK z \in Items(c.id)' : SameItem(y, z) /\ y.at <= z.at /\ z.at \in Nat
    BY <1>3
  <2>3. SameItem(x, z) /\ x.at <= z.at
    BY <2>1, <2>2 DEF SameItem
  <2> QED
    BY <2>1, <2>2, <2>3
<1>6. CASE calls'[o] = calls[o]
  <2> DEFINE c == calls[o]
  <2>1. Reviewing(c, Items(c.id))
    BY <1>6 DEF ReviewCallsOK
  <2>2. \A x \in c.arg.before : x.at \in Nat /\ \E y \in Items(c.id)' : SameItem(x, y) /\ x.at <= y.at /\ y.at \in Nat
    BY <1>5, <1>6
  <2> QED
    BY <1>6, <2>1, <2>2 DEF Reviewing
<1>7. CASE ReadChain(o)
  <2> DEFINE c == calls[o]
             chain == OperationChain(c.id)
             new == [c EXCEPT !.arg = [@ EXCEPT !.chain = chain]]
  <2>1. c # None /\ c.kind \in ReviewKinds /\ calls' = [calls EXCEPT ![o] = new]
    <3> HIDE DEF chain
    <3> QED
      BY <1>7 DEF ReadChain, Running, chain
  <2>2. Reviewing(c, Items(c.id))
    BY <2>1 DEF ReviewCallsOK
  <2>3. \A x \in c.arg.before : x.at \in Nat /\ \E y \in Items(c.id)' : SameItem(x, y) /\ x.at <= y.at /\ y.at \in Nat
    BY <1>5, <2>1
  <2>4. (\A x \in Items(c.id) : \E n \in DOMAIN chain : chain[n] = x) /\ InOrderOfTime(chain)
    BY ChainTells
  <2> HIDE DEF chain
  <2>5. calls'[o] = new
    BY <1>4, <2>1
  <2>6. Tells(chain, c.arg.before)
    <3> SUFFICES ASSUME NEW x \in c.arg.before
                 PROVE  \E n \in DOMAIN chain : SameItem(x, chain[n]) /\ chain[n].at >= x.at
      BY DEF Tells
    <3>1. PICK y \in Items(c.id) : x.at \in Nat /\ SameItem(x, y) /\ x.at <= y.at /\ y.at \in Nat
      BY <2>2 DEF Reviewing
    <3>2. PICK n \in DOMAIN chain : chain[n] = y
      BY <2>4
    <3> QED
      BY <3>1, <3>2
  <2>7. /\ new.arg.before = c.arg.before /\ new.arg.chain = chain /\ new.id = c.id
        /\ DOMAIN new.arg = DOMAIN c.arg
    <3>1. DOMAIN c = CallFields
      BY <2>1 DEF CallsOK, CallOK
    <3> QED
      BY <2>2, <3>1 DEF Reviewing, CallFields
  <2> HIDE DEF new
  <2> QED
    BY <2>2, <2>3, <2>4, <2>5, <2>6, <2>7 DEF Reviewing
<1>8. ASSUME NEW kind \in ReviewKinds, NEW i \in IncidentIds, NEW save \in BOOLEAN, BeginReview(o, kind, i, save)
      PROVE  Reviewing(calls[o], Items(calls[o].id))'
  <2> DEFINE items == Items(i)
             arg == [save |-> save, chain |-> None, before |-> items]
  <2>1. calls'[o].id = i /\ calls'[o].arg = arg
    <3> HIDE DEF arg
    <3>1. Begin(o, kind, i, None, arg)
      BY <1>8 DEF BeginReview, BeginOnIncident, arg
    <3> QED
      BY <1>4, <3>1 DEF Begin
  <2>2. \A x \in items : x.at \in Nat /\ \E y \in Items(i)' : SameItem(x, y) /\ x.at <= y.at /\ y.at \in Nat
    BY <1>2, <1>3
  <2> HIDE DEF items
  <2>3. arg.before = items /\ arg.chain = None /\ {"save", "chain", "before"} \subseteq DOMAIN arg
    OBVIOUS
  <2> HIDE DEF arg
  <2> QED
    BY <2>1, <2>2, <2>3 DEF Reviewing
<1> QED
  BY <1>6, <1>7, <1>8, ReviewCallMoves
(* The steps that store a review. *)
Stores(o) == CommitCloseWithReview(o) \/ CommitCloseAndReview(o)

LEMMA ReviewSteps ==
  ASSUME IsList(reviews), [ResponseNext]_responseVars
  PROVE  \/ IsList(reviews') /\ Len(reviews') = Len(reviews)
         \/ \E o \in Ops : Stores(o)
         \/ \E i \in IncidentIds : CreateReview(i)
<1> DEFINE Goal ==
      \/ IsList(reviews') /\ Len(reviews') = Len(reviews)
      \/ \E o \in Ops : Stores(o)
      \/ \E i \in IncidentIds : CreateReview(i)
<1>1. ASSUME UNCHANGED reviews PROVE Goal
  BY <1>1
<1>2. ASSUME NEW k \in DOMAIN reviews, NEW preserved \in BOOLEAN, UpdateReview(k, preserved) PROVE Goal
  <2>1. PICK row : reviews' = [reviews EXCEPT ![k] = row]
    BY <1>2 DEF UpdateReview
  <2>2. IsList(reviews') /\ DOMAIN reviews' = DOMAIN reviews /\ Len(reviews') = Len(reviews)
    <3> DEFINE t == [reviews EXCEPT ![k] = row]
    <3>1. IsList(t) /\ DOMAIN t = DOMAIN reviews /\ Len(t) = Len(reviews)
      BY ONLY IsList(reviews), k \in DOMAIN reviews, ReplacedIsList
    <3> HIDE DEF t
    <3> QED
      BY <2>1, <3>1 DEF t
  <2> QED
    BY <2>2
<1>3. ASSUME NEW o \in Ops, Stores(o) PROVE Goal
  BY <1>3
<1>4. ASSUME NEW i \in IncidentIds, CreateReview(i) PROVE Goal
  BY <1>4
<1> HIDE DEF Goal
<1>5. ASSUME RemediationNext PROVE Goal
  <2>1. ASSUME NEW p \in Ops, NEW i, NEW kind, NEW save,
               BeginSuggest(p, i) \/ BeginCollect(p, i) \/ BeginReview(p, kind, i, save)
        PROVE  Goal
    BY <1>1, <2>1 DEF BeginSuggest, BeginCollect, BeginReview, remediationVars
  <2>2. ASSUME NEW p \in Ops, CommitSuggest(p) \/ CommitCollect(p) \/ ReadChain(p)
        PROVE  Goal
    BY <1>1, <2>2 DEF CommitSuggest, CommitCollect, ReadChain, remediationVars
  <2>3. ASSUME NEW k, NEW status, NEW i, NEW s, NEW types,
               \/ ExecuteAction(k, status) \/ UpdateAction(k, status) \/ CreateAction(i, s)
               \/ CollectForensic(i, types) \/ CreateCase(i) \/ UpdateCase(k) \/ DeleteCase(k)
        PROVE  Goal
    BY <1>1, <2>3 DEF ExecuteAction, UpdateAction, CreateAction, CollectForensic, CreateCase, UpdateCase, DeleteCase
  <2> QED
    BY <1>2, <1>3, <1>4, <1>5, <2>1, <2>2, <2>3 DEF RemediationNext, Stores
<1>6. ASSUME UNCHANGED remediationVars PROVE Goal
  BY <1>1, <1>6 DEF remediationVars
<1> QED
  BY <1>5, <1>6 DEF ResponseNext, responseVars, Goal

(* What a review that was added says. *)
ReviewTells(i, chain, items) ==
  /\ IsList(reviews') /\ Len(reviews) \in Nat /\ Len(reviews') = Len(reviews) + 1
  /\ Last(reviews').incident = i /\ Last(reviews').chain = chain
  /\ Tells(chain, items) /\ InOrderOfTime(chain)

LEMMA ReviewAppended ==
  ASSUME IsList(reviews), NEW i, NEW chain, NEW preserved,
         reviews' = Append(reviews, NewReview(i, chain, preserved)),
         NEW items, Tells(chain, items), InOrderOfTime(chain)
  PROVE  ReviewTells(i, chain, items)
<1> DEFINE row == NewReview(i, chain, preserved)
<1>1. row.incident = i /\ row.chain = chain
  BY DEF NewReview
<1> HIDE DEF row
<1>2. /\ IsList(reviews') /\ Len(reviews) \in Nat /\ Len(reviews') = Len(reviews) + 1
      /\ reviews'[Len(reviews) + 1] = row
  BY AppendIsList DEF row
<1>3. Last(reviews') = row
  BY <1>2 DEF Last
<1> QED
  BY <1>1, <1>2, <1>3 DEF ReviewTells

LEMMA CloseTells ==
  ASSUME RowsOK, ReviewCallsOK, IsList(reviews), NEW o \in Ops, Stores(o)
  PROVE  /\ ReviewTells(calls[o].id, calls[o].arg.chain, calls[o].arg.before)
         /\ {p \in Ops : calls[p] # None /\ calls'[p] = None} = {o}
<1> DEFINE c == calls[o]
<1>1. c # None /\ c.kind \in ReviewKinds /\ Return(o)
  BY DEF Stores, CommitCloseWithReview, CommitCloseAndReview, Running, ReviewKinds
<1>2. PICK preserved \in BOOLEAN : StoreReview(c, preserved)
  BY DEF Stores, CommitCloseWithReview, CommitCloseAndReview
<1>3. Tells(c.arg.chain, c.arg.before) /\ InOrderOfTime(c.arg.chain)
  BY <1>1, <1>2 DEF ReviewCallsOK, Reviewing, StoreReview
<1>4. \A p \in Ops : calls'[p] = IF p = o THEN None ELSE calls[p]
  BY <1>1 DEF Return, RowsOK
<1>5. reviews' = Append(reviews, NewReview(c.id, c.arg.chain, preserved))
  BY <1>2 DEF StoreReview
<1>6. ReviewTells(c.id, c.arg.chain, c.arg.before)
  <2> HIDE DEF c
  <2> QED
    BY <1>3, <1>5, ReviewAppended
<1> QED
  BY <1>1, <1>4, <1>6

LEMMA CreateReviewTells ==
  ASSUME clock \in Nat, TasksOK, EvidenceOK, IsList(reviews), NEW i \in IncidentIds, CreateReview(i)
  PROVE  /\ ReviewTells(i, OperationChain(i), Items(i))
         /\ {p \in Ops : calls[p] # None /\ calls'[p] = None} = {}
<1> DEFINE chain == OperationChain(i)
<1>1. reviews' = Append(reviews, NewReview(i, chain, TRUE)) /\ UNCHANGED calls
  BY DEF CreateReview, incidentVars
<1>2. (\A x \in Items(i) : \E n \in DOMAIN chain : chain[n] = x) /\ InOrderOfTime(chain)
  BY ChainTells
<1> HIDE DEF chain
<1>3. Tells(chain, Items(i))
  <2>1. \A x \in Items(i) : x.at \in Nat /\ x.at >= x.at
    BY ItemsKnown
  <2> QED
    BY <1>2, <2>1 DEF Tells, SameItem
<1>4. ReviewTells(i, chain, Items(i))
  BY <1>1, <1>2, <1>3, ReviewAppended
<1> QED
  BY <1>1, <1>4 DEF chain

LEMMA ReviewsStep ==
  ASSUME RowsOK, CallsOK, clock \in Nat, RInv, [ResponseNext]_responseVars
  PROVE  RInv' /\ ReviewHolds
<1>1. TasksOK /\ EvidenceOK /\ ReviewCallsOK /\ IsList(reviews)
  BY DEF RInv
<1>2. TasksOK' /\ EvidenceOK' /\ ReviewCallsOK'
  BY <1>1, TasksGrow, EvidenceGrows, ReviewCallsKeep
<1> DEFINE new == Last(reviews')
           closing == {o \in Ops : calls[o] # None /\ calls'[o] = None}
           before == UNION {calls[o].arg.before : o \in closing}
<1>3. CASE IsList(reviews') /\ Len(reviews') = Len(reviews)
  <2>1. Len(reviews) \in Nat
    BY <1>1 DEF IsList
  <2>2. ~(Len(reviews') > Len(reviews))
    BY <1>3, <2>1
  <2> QED
    BY <1>2, <1>3, <2>2 DEF RInv, ReviewHolds
<1>4. ASSUME NEW o \in Ops, Stores(o) PROVE RInv' /\ ReviewHolds
  <2>1. ReviewTells(calls[o].id, calls[o].arg.chain, calls[o].arg.before) /\ closing = {o}
    BY <1>1, <1>4, CloseTells
  <2>2. before = calls[o].arg.before
    BY <2>1
  <2> HIDE DEF closing, before
  <2>3. Tells(new.chain, IF closing = {} THEN Items(new.incident) ELSE before) /\ InOrderOfTime(new.chain)
    BY <2>1, <2>2 DEF ReviewTells
  <2>4. IsList(reviews')
    BY <2>1 DEF ReviewTells
  <2> QED
    BY <1>2, <2>3, <2>4 DEF RInv, ReviewHolds, closing, before
<1>5. ASSUME NEW i \in IncidentIds, CreateReview(i) PROVE RInv' /\ ReviewHolds
  <2>1. ReviewTells(i, OperationChain(i), Items(i)) /\ closing = {}
    BY <1>1, <1>5, CreateReviewTells
  <2> HIDE DEF closing, before
  <2>2. Tells(new.chain, IF closing = {} THEN Items(new.incident) ELSE before) /\ InOrderOfTime(new.chain)
    BY <2>1 DEF ReviewTells
  <2>3. IsList(reviews')
    BY <2>1 DEF ReviewTells
  <2> QED
    BY <1>2, <2>2, <2>3 DEF RInv, ReviewHolds, closing, before
<1> QED
  BY <1>1, <1>3, <1>4, <1>5, ReviewSteps

LEMMA ReviewsBegin ==
  ASSUME ResponseInit
  PROVE  RInv
<1>1. actions = <<>> /\ evidence = <<>> /\ reviews = <<>> /\ calls = [o \in Ops |-> None]
  BY DEF ResponseInit, IncidentsInit, RemediationInit
<1>2. \A s : s = <<>> => IsList(s) /\ DOMAIN s = {}
  <2>1. <<>> \in Seq({})
    OBVIOUS
  <2> QED
    BY <2>1 DEF IsList
<1> QED
  BY <1>1, <1>2 DEF RInv, TasksOK, EvidenceOK, ReviewCallsOK

(* The review of an incident tells every action and every piece of evidence that
   the incident had when the call began, each once and in order of time, whatever
   was executed, added or collected while the call ran. *)
THEOREM ReviewsAlwaysComplete ==
  ASSUME NotAFunction(None)
  PROVE  ResponseSpec => ReviewsComplete
<1> DEFINE Inv == LInv /\ clock \in Nat /\ RInv
<1>1. ResponseInit => Inv
  BY LinksBegin, ReviewsBegin
<1>2. Inv /\ [ResponseNext]_responseVars => Inv' /\ ReviewHolds
  <2> SUFFICES ASSUME Inv, [ResponseNext]_responseVars PROVE Inv' /\ ReviewHolds
    OBVIOUS
  <2>1. LInv' /\ clock' \in Nat
    BY ResponseTouches, TouchesKeepLinks, ClockTicks
  <2>2. RInv' /\ ReviewHolds
    BY ReviewsStep DEF LInv
  <2> QED
    BY <2>1, <2>2
<1> QED
  BY <1>1, <1>2, PTL DEF ResponseSpec, ReviewsComplete

-----------------------------------------------------------------------------
LEMMA SuggestionsStep ==
  ASSUME RowsOK, TasksOK, [ResponseNext]_responseVars
  PROVE  SuggestionsHold
<1> SUFFICES ASSUME NEW o \in Ops, Running(o, "suggest"), calls'[o] = None
             PROVE  CommitSuggest(o)
  BY CommitSuggestSuits DEF TasksOK, SuggestionsHold, Kinds, KindsFit, Unurgent
<1> QED
  BY SuggestReturns

(* One call of generate_remediation_suggestions stores no task twice, and of each
   kind of task that the comments of the code promise for the types of the linked
   alerts, but for the notice to customers about withdrawals, there is one, in
   whatever order the set of types is walked and however many alerts there are; a
   severe incident gets the scrubber, and the AS that announces a hijacked prefix
   is called at once, unless another type had asked for that with less urgency. *)
THEOREM SuggestionsAlwaysSound ==
  ASSUME NotAFunction(None)
  PROVE  ResponseSpec => SuggestionsSound
<1> DEFINE Inv == LInv /\ clock \in Nat /\ TasksOK
<1>1. ResponseInit => Inv
  BY LinksBegin, ReviewsBegin DEF RInv
<1>2. Inv /\ [ResponseNext]_responseVars => Inv' /\ SuggestionsHold
  <2> SUFFICES ASSUME Inv, [ResponseNext]_responseVars PROVE Inv' /\ SuggestionsHold
    OBVIOUS
  <2>1. LInv' /\ clock' \in Nat
    BY ResponseTouches, TouchesKeepLinks, ClockTicks
  <2>2. TasksOK' /\ SuggestionsHold
    BY TasksGrow, SuggestionsStep DEF LInv
  <2> QED
    BY <2>1, <2>2
<1> QED
  BY <1>1, <1>2, PTL DEF ResponseSpec, SuggestionsSound
=============================================================================
