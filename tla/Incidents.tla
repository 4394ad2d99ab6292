------------------------------ MODULE Incidents ------------------------------
(***************************************************************************)
(* services/alert_service.py and services/incident_service.py with their   *)
(* endpoints: alerts, the incidents they are linked to, and the life of    *)
(* an incident.                                                            *)
(*                                                                         *)
(* A call loads the rows it changes, works on the loaded objects and       *)
(* commits.  The commit writes the columns whose value differs from the    *)
(* loaded one and no others, so a list that was changed in place is not    *)
(* written.  Calls overlap: nothing locks a row or checks a version.       *)
(* last_seen_at, titles and texts other than given or not are left out.    *)
(***************************************************************************)
EXTENDS Naturals, FiniteSets, SequencesExt

CONSTANTS
  None,
  Gone,          \* what is left of a row that was deleted: ids are not used again
  Ops,           \* calls that may overlap
  IncidentIds,
  MaxAlerts,     \* bound: alerts detected
  AlertUpdates,  \* requests of update_alert_status: [status, benign]
  Updates,       \* requests of update_incident: records of the given fields
  Clients        \* what the clients of one behaviour do, see clients

Severities == <<"P0", "P1", "P2", "P3", "P4">>
AlertIds == 1..MaxAlerts

(* NULL is neither an id nor a time, a request lists alert ids or nothing, and the
   schema of an update has no field for them, nor for when the incident was seen. *)
ASSUME IncidentsAssumption ==
  /\ MaxAlerts \in Nat
  /\ None \notin IncidentIds \union Nat /\ None # Gone
  /\ \A c \in Clients : \A r \in c.requests : r.alertIds = None \/ r.alertIds \in Seq(AlertIds)
  /\ \A u \in Updates : {"alertIds", "firstSeen"} \cap DOMAIN u = {}

VARIABLES
  alerts,     \* rows of the table alerts in the order they were created, or Gone
  incidents,  \* incident id -> row, or None before it is created
  calls,      \* op -> the call in progress, or None
  clock,      \* what datetime.now gives
  clients     \* one of Clients, constant along a behaviour: the kinds of call they
              \* make, the ops they use, the rows of alerts [type, prefix, origin]
              \* detection finds, the incidents there may be, the requests of
              \* create_incident, and how far the clock may go (a bound)

incidentVars == <<alerts, incidents, calls, clock, clients>>

Exists(a) == a \in 1..Len(alerts) /\ alerts[a] # Gone
Linked(i) == {a \in 1..Len(alerts) : Exists(a) /\ alerts[a].incident = i}
Listed(row) == IF row.alertIds = None THEN {} ELSE ToSet(row.alertIds)

IncidentsInit ==
  /\ alerts = <<>>
  /\ incidents = [i \in IncidentIds |-> None]
  /\ calls = [o \in Ops |-> None]
  /\ clock = 1
  /\ clients \in Clients

Tick ==
  /\ clock < clients.time
  /\ clock' = clock + 1
  /\ UNCHANGED <<alerts, incidents, calls, clients>>

-----------------------------------------------------------------------------
(* Alerts. *)

NewAlert(row) ==
  [type |-> row.type, prefix |-> row.prefix, origin |-> row.origin,
   status |-> "new", incident |-> None, benign |-> FALSE]

CreateAlert(row) ==
  /\ Len(alerts) < MaxAlerts
  /\ alerts' = Append(alerts, NewAlert(row))
  /\ UNCHANGED <<incidents, calls, clock, clients>>

(* Deleting a detection rule deletes its alerts. *)
DropAlert(a) ==
  /\ "drop" \in clients.kinds
  /\ Exists(a)
  /\ alerts' = [alerts EXCEPT ![a] = Gone]
  /\ UNCHANGED <<incidents, calls, clock, clients>>

-----------------------------------------------------------------------------
(* What a commit writes. *)

\* Mutant of AppendedInPlace: only NULL makes a new list.
AppendedUnlessNull(list, x) == IF list = None THEN <<x>> ELSE list

(* x appended to a list that was loaded, and the list assigned back: a list that
   was not empty is the loaded object itself, so nothing has changed. *)
AppendedInPlace(list, x) == IF list \in {None, <<>>} THEN <<x>> ELSE list

(* The columns of new that differ from loaded, over the row as it is by now. *)
Flushed(row, loaded, new) == [f \in DOMAIN row |-> IF new[f] = loaded[f] THEN row[f] ELSE new[f]]

Noted(row, event) == [row EXCEPT !.timeline = AppendedInPlace(@, event)]

Begin(o, kind, i, a, arg) ==
  /\ kind \in clients.kinds
  /\ o \in clients.ops
  /\ calls[o] = None
  /\ calls' = [calls EXCEPT ![o] =
       [kind |-> kind, id |-> i, incident |-> IF i = None THEN None ELSE incidents[i],
        alert |-> a, row |-> IF a = None THEN None ELSE alerts[a], arg |-> arg, now |-> clock]]
  /\ UNCHANGED <<alerts, incidents, clock, clients>>

Running(o, kind) == calls[o] # None /\ calls[o].kind = kind

Return(o) == calls' = [calls EXCEPT ![o] = None]

WriteIncident(c, new) ==
  incidents' = [incidents EXCEPT ![c.id] = Flushed(@, c.incident, new)]

-----------------------------------------------------------------------------
(* Calls on alerts. *)

BeginAlertStatus(o, a, request) ==
  /\ Exists(a)
  /\ Begin(o, "alert_status", None, a, request)

(* update_alert_status: any status may follow any other.  An alert that is gone
   by now fails the call. *)
CommitAlertStatus(o) ==
  /\ Running(o, "alert_status")
  /\ LET c == calls[o]
         new == [c.row EXCEPT !.status = c.arg.status, !.benign = IF c.arg.benign = None THEN @ ELSE c.arg.benign]
     IN  alerts' = IF Exists(c.alert)
                   THEN [alerts EXCEPT ![c.alert] = Flushed(@, c.row, new)] ELSE alerts
  /\ Return(o)
  /\ UNCHANGED <<incidents, clock, clients>>

(* An unknown alert or incident fails the call without an effect. *)
BeginAssignAlert(o, a, i) ==
  /\ Exists(a)
  /\ incidents[i] # None
  /\ Begin(o, "assign_alert", i, a, None)

\* Mutant of CommitAssignAlert: the update of an alert that is gone changes no row.
CommitAssignAlertAnyway(o) ==
  /\ Running(o, "assign_alert")
  /\ LET c == calls[o]
         new == [c.incident EXCEPT !.alertIds =
                   IF c.alert \in Listed(c.incident) THEN @ ELSE AppendedInPlace(@, c.alert)]
     IN  /\ alerts' = IF Exists(c.alert)
                      THEN [alerts EXCEPT ![c.alert] =
                              Flushed(@, c.row, [c.row EXCEPT !.incident = c.id, !.status = "assigned"])]
                      ELSE alerts
         /\ WriteIncident(c, new)
  /\ Return(o)
  /\ UNCHANGED <<clock, clients>>

(* assign_alert_to_incident.  An alert that is gone by now fails the call; the
   incident the alert had keeps it in its list. *)
CommitAssignAlert(o) ==
  /\ Running(o, "assign_alert")
  /\ LET c == calls[o]
         new == [c.incident EXCEPT !.alertIds =
                   IF c.alert \in Listed(c.incident) THEN @ ELSE AppendedInPlace(@, c.alert)]
     IN  IF Exists(c.alert)
         THEN /\ alerts' = [alerts EXCEPT ![c.alert] =
                   Flushed(@, c.row, [c.row EXCEPT !.incident = c.id, !.status = "assigned"])]
              /\ WriteIncident(c, new)
         ELSE UNCHANGED <<alerts, incidents>>
  /\ Return(o)
  /\ UNCHANGED <<clock, clients>>

-----------------------------------------------------------------------------
(* Calls on incidents. *)

NewIncident(request) ==
  [severity |-> request.severity, status |-> "open", alertIds |-> request.alertIds,
   prefixes |-> request.prefixes, asns |-> request.asns, assignee |-> FALSE,
   rootCause |-> FALSE, resolution |-> FALSE, closedAt |-> FALSE, evidence |-> None,
   timeline |-> <<"created">>, firstSeen |-> clock]

(* create_incident with _link_alerts_to_incident: the listed alerts that exist
   are linked, new ones become assigned. *)
CreateIncident(i, request) ==
  /\ i \in clients.ids
  /\ incidents[i] = None
  /\ incidents' = [incidents EXCEPT ![i] = NewIncident(request)]
  /\ alerts' = [a \in 1..Len(alerts) |->
       IF a \in Listed(request) /\ Exists(a)
       THEN [alerts[a] EXCEPT !.incident = i, !.status = IF @ = "new" THEN "assigned" ELSE @]
       ELSE alerts[a]]
  /\ UNCHANGED <<calls, clock, clients>>

IncidentKinds == {"update", "assign", "escalate", "close", "timeline"}

BeginOnIncident(o, kind, i, arg) ==
  /\ incidents[i] # None
  /\ Begin(o, kind, i, None, arg)

(* update_incident: the given fields, whatever they were; closed_at is not among
   them. *)
CommitUpdate(o) ==
  /\ Running(o, "update")
  /\ LET c == calls[o]
     IN  WriteIncident(c, Noted([f \in DOMAIN c.incident |->
           IF f \in DOMAIN c.arg THEN c.arg[f] ELSE c.incident[f]], "updated"))
  /\ Return(o)
  /\ UNCHANGED <<alerts, clock, clients>>

\* Mutant of CommitAssign: the status is always set.
CommitAssignAlways(o) ==
  /\ Running(o, "assign")
  /\ LET c == calls[o]
     IN  WriteIncident(c, Noted([c.incident EXCEPT
           !.assignee = TRUE, !.status = "investigating"], "assigned"))
  /\ Return(o)
  /\ UNCHANGED <<alerts, clock, clients>>

(* assign_incident: only an open incident changes its status. *)
CommitAssign(o) ==
  /\ Running(o, "assign")
  /\ LET c == calls[o]
     IN  WriteIncident(c, Noted([c.incident EXCEPT
           !.assignee = TRUE, !.status = IF @ = "open" THEN "investigating" ELSE @], "assigned"))
  /\ Return(o)
  /\ UNCHANGED <<alerts, clock, clients>>

Level(severity) == CHOOSE n \in DOMAIN Severities : Severities[n] = severity
OneLevelUp(severity) == IF severity = "P0" THEN "P0" ELSE Severities[Level(severity) - 1]

CommitEscalate(o) ==
  /\ Running(o, "escalate")
  /\ LET c == calls[o]
     IN  WriteIncident(c, Noted([c.incident EXCEPT !.severity = OneLevelUp(@)], "escalated"))
  /\ Return(o)
  /\ UNCHANGED <<alerts, clock, clients>>

(* close_incident on the loaded row. *)
Closed(row) ==
  Noted([row EXCEPT !.status = "closed", !.resolution = TRUE, !.closedAt = TRUE], "closed")

CommitClose(o) ==
  /\ Running(o, "close")
  /\ WriteIncident(calls[o], Closed(calls[o].incident))
  /\ Return(o)
  /\ UNCHANGED <<alerts, clock, clients>>

CommitTimelineEvent(o) ==
  /\ Running(o, "timeline")
  /\ WriteIncident(calls[o], Noted(calls[o].incident, "event"))
  /\ Return(o)
  /\ UNCHANGED <<alerts, clock, clients>>

-----------------------------------------------------------------------------
IncidentsNext ==
  \/ Tick
  \/ \E row \in clients.rows : CreateAlert(row)
  \/ \E a \in 1..Len(alerts) : DropAlert(a)
  \/ \E i \in IncidentIds, request \in clients.requests : CreateIncident(i, request)
  \/ \E o \in Ops :
       \/ \E a \in 1..Len(alerts), request \in AlertUpdates : BeginAlertStatus(o, a, request)
       \/ CommitAlertStatus(o)
       \/ \E a \in 1..Len(alerts), i \in IncidentIds : BeginAssignAlert(o, a, i)
       \/ CommitAssignAlert(o)
       \/ \E kind \in IncidentKinds, i \in IncidentIds :
            \E arg \in IF kind = "update" THEN Updates ELSE {None} : BeginOnIncident(o, kind, i, arg)
       \/ CommitUpdate(o)
       \/ CommitAssign(o)
       \/ CommitEscalate(o)
       \/ CommitClose(o)
       \/ CommitTimelineEvent(o)

-----------------------------------------------------------------------------
(* An incident that alerts are linked to names an alert in its own list, however
   assignments overlap.  The collector of evidence goes by the list, remediation by
   the links of the alerts: with an empty list the evidence would be looked for
   nowhere.  The list is not the set of the linked alerts, though alert_service.py:263
   says that it is kept in step with them: an alert that is linked later is not
   appended, the second of two overlapping first assignments replaces the entry of
   the first, and an entry stays when its alert moves to another incident or is
   dropped. *)
LinkedAreNamed ==
  \A i \in IncidentIds : Linked(i) # {} => Listed(incidents[i]) # {}

(* Once an incident is there, an alert that it names anew is linked to it by the
   same step: an assignment writes both or none, even when the alert or the
   incident has changed since they were loaded.  What the request that created the
   incident listed may name alerts that never existed. *)
ListedAreLinked ==
  [][\A i \in IncidentIds :
       incidents[i] # None =>
         \A a \in Listed(incidents'[i]) \ Listed(incidents[i]) :
           Exists(a)' /\ alerts'[a].incident = i]_incidents

(* A closed incident is reopened by an update that says so, or by an assignment
   that had loaded it open before it was closed; never by another call. *)
ReopenedKnowingly ==
  [][\A i \in IncidentIds :
       incidents'[i] # incidents[i] /\ incidents[i] # None =>
         (incidents[i].status = "closed" /\ incidents'[i].status # "closed" =>
            \E o \in Ops : /\ calls[o] # None /\ calls'[o] = None
                           /\ calls[o].id = i
                           /\ \/ calls[o].kind = "update" /\ "status" \in DOMAIN calls[o].arg
                              \/ calls[o].kind = "assign" /\ calls[o].incident.status = "open")]_incidents
=============================================================================
