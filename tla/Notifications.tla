---------------------------- MODULE Notifications ----------------------------
(***************************************************************************)
(* services/notification_service.py: an incident is told to the enabled    *)
(* channels, one after the other, and a log of each is written; all logs   *)
(* are committed together at the end of the request.                       *)
(*                                                                         *)
(* E-mail, text messages, enterprise chat and ITSM are placeholders in the *)
(* code: they report success and send nothing.  No code creates or changes *)
(* a channel.  The filters of a channel by severity and by type of event   *)
(* are not looked at, and are left out.                                    *)
(***************************************************************************)
EXTENDS Incidents

CONSTANTS
  Channels,      \* channel -> [type, configured]: whether it has a URL or recipients
  ChannelTypes,  \* requests of notify_incident: sets of types, {} for all
  MaxNotifies    \* bound: calls of notify_incident

ASSUME ChannelsAssumption == IsFiniteSet(DOMAIN Channels)

VARIABLES
  enabledChannels,   \* channels with enabled set
  notifying,         \* the call in progress, or None
  notificationLogs,  \* committed rows of notification_logs
  received,          \* ghost: <<call, channel>> of every webhook that was received
  notifies           \* ghost: calls so far

notifyVars == <<enabledChannels, notifying, notificationLogs, received, notifies>>

NotificationsInit ==
  /\ enabledChannels = DOMAIN Channels
  /\ notifying = None
  /\ notificationLogs = <<>>
  /\ received = {}
  /\ notifies = 0

(* An operator changes the table by hand. *)
SwitchChannel(c) ==
  /\ "notify" \in clients.kinds
  /\ enabledChannels' = IF c \in enabledChannels THEN enabledChannels \ {c} ELSE enabledChannels \union {c}
  /\ UNCHANGED <<incidentVars, notifying, notificationLogs, received, notifies>>

(* _resolve_channels *)
Resolved(types) == {c \in enabledChannels : types = {} \/ Channels[c].type \in types}

(* An unknown incident, and a request that no channel answers, have no effect. *)
BeginNotify(i, types) ==
  /\ "notify" \in clients.kinds
  /\ notifying = None
  /\ notifies < MaxNotifies
  /\ incidents[i] # None
  /\ \E queue \in SetToSeqs(Resolved(types)) :
       /\ queue # <<>>
       /\ notifying' = [incident |-> i, call |-> notifies + 1, queue |-> queue,
                        resolved |-> Resolved(types), pending |-> <<>>]
  /\ notifies' = notifies + 1
  /\ UNCHANGED <<incidentVars, enabledChannels, notificationLogs, received>>

Placeholders == {"wechat_work", "dingtalk", "slack", "teams", "itsm", "soc"}

(* What becomes of a request: an answer below 400, another answer, a timeout after
   it was received, or nothing that was received. *)
Replies == {"ok", "error", "late", "lost"}

\* Mutant of Succeeds: only an answer can be a failure.
SucceedsUnlessRefused(row, reply) ==
  CASE row.type = "webhook" -> row.configured /\ reply # "error"
    [] row.type \in {"email", "sms"} -> row.configured
    [] OTHER -> row.type \in Placeholders

(* _dispatch_to_channel, send_webhook and the placeholders. *)
Succeeds(row, reply) ==
  CASE row.type = "webhook" -> row.configured /\ reply = "ok"
    [] row.type \in {"email", "sms"} -> row.configured
    [] OTHER -> row.type \in Placeholders

NewLog(c, success) ==
  [incident |-> notifying.incident, call |-> notifying.call, channel |-> c,
   status |-> IF success THEN "sent" ELSE "failed"]

Requests(row) == row.type = "webhook" /\ row.configured

DispatchNext(reply) ==
  /\ notifying # None
  /\ notifying.queue # <<>>
  /\ LET c == Head(notifying.queue)
     IN  /\ Requests(Channels[c]) \/ reply = "lost"
         /\ notifying' = [notifying EXCEPT !.queue = Tail(@),
                            !.pending = Append(@, NewLog(c, Succeeds(Channels[c], reply)))]
         /\ received' = IF reply = "lost" THEN received ELSE received \union {<<notifying.call, c>>}
  /\ UNCHANGED <<incidentVars, enabledChannels, notificationLogs, notifies>>

CommitNotify ==
  /\ notifying # None
  /\ notifying.queue = <<>>
  /\ notificationLogs' = notificationLogs \o notifying.pending
  /\ notifying' = None
  /\ UNCHANGED <<incidentVars, enabledChannels, received, notifies>>

(* The process dies in the call: what was sent was sent, its logs are lost. *)
AbandonNotify ==
  /\ notifying # None
  /\ notifying' = None
  /\ UNCHANGED <<incidentVars, enabledChannels, notificationLogs, received, notifies>>

NotificationsNext ==
  \/ \E c \in DOMAIN Channels : SwitchChannel(c)
  \/ \E i \in IncidentIds, types \in ChannelTypes : BeginNotify(i, types)
  \/ \E reply \in Replies : DispatchNext(reply)
  \/ CommitNotify
  \/ AbandonNotify

-----------------------------------------------------------------------------
(* The logs a call leaves are one for each channel that was enabled and asked for
   when it began, whatever was switched since, and a webhook is logged as sent
   only when it was received.  Of the other channels, the placeholders of
   notification_service.py:76-161, no log says anything: each reads sent although
   nothing was sent. *)
LogsWhole ==
  notificationLogs' # notificationLogs =>
    LET new == SubSeq(notificationLogs', Len(notificationLogs) + 1, Len(notificationLogs'))
    IN  /\ {log.channel : log \in ToSet(new)} = notifying.resolved
        /\ Len(new) = Cardinality(notifying.resolved)
        /\ \A n \in DOMAIN new :
             /\ new[n].incident = notifying.incident
             /\ Channels[new[n].channel].type = "webhook" /\ new[n].status = "sent" =>
                  <<new[n].call, new[n].channel>> \in received
=============================================================================
