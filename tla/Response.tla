------------------------------ MODULE Response ------------------------------
(***************************************************************************)
(* What follows an alert: incidents, remediation and review, notification  *)
(* and the publication of events, over one database.                       *)
(***************************************************************************)
EXTENDS Remediation, Notifications, Integrations

responseVars == <<incidentVars, remediationVars, notifyVars, publishVars>>

ResponseInit ==
  IncidentsInit /\ RemediationInit /\ NotificationsInit /\ IntegrationsInit

ResponseNext ==
  \/ IncidentsNext /\ UNCHANGED <<remediationVars, notifyVars, publishVars>>
  \/ RemediationNext /\ UNCHANGED <<notifyVars, publishVars>>
  \/ NotificationsNext /\ UNCHANGED <<remediationVars, publishVars>>
  \/ IntegrationsNext /\ UNCHANGED <<remediationVars, notifyVars>>

ResponseSpec == ResponseInit /\ [][ResponseNext]_responseVars

(* The records of a notification or a publication tell the whole of what the call
   did, or it leaves none, see the two parts for what each counts as sent. *)
RecordsWhole ==
  [][LogsWhole /\ DeliveriesWhole]_<<notificationLogs, deliveries>>
=============================================================================
