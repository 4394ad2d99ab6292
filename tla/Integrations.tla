---------------------------- MODULE Integrations ----------------------------
(***************************************************************************)
(* services/integration_config_service.py, services/event_publisher.py and *)
(* services/event_channels: the configured integrations, and an event that *)
(* is sent to those of the requested types with a record of each delivery. *)
(*                                                                         *)
(* A delivery is recorded under some enabled subscription of the           *)
(* integration, or under 0 when it has none; 0 breaks the foreign key.     *)
(* The failed flush is caught, but the handler then reads the id of a row  *)
(* that the rollback of the flush has expired, which raises: the request   *)
(* ends in an error and nothing of it is committed.  No code creates a     *)
(* subscription, filters or retries: these columns are left out.           *)
(***************************************************************************)
EXTENDS Incidents

CONSTANTS
  IntegrationIds,
  IntegrationRows,   \* requests of create_integration: [code, type, enabled, configured]
  SubscriptionIds,
  EventChannels,     \* requests of publish_event: sequences of channel types
  MaxPublishes       \* bound: calls of publish_event

ASSUME IntegrationsAssumption == IsFiniteSet(IntegrationIds)

PushTypes == {"webhook", "syslog", "kafka"}

VARIABLES
  integrations,    \* id -> row of integration_configs, None, or Gone
  subscriptions,   \* id -> row of event_subscriptions, None, or Gone
  deliveries,      \* committed rows of event_deliveries
  publishing,      \* the call in progress, or None
  arrived,         \* ghost: <<call, integration>> of every event that was received
  publishes        \* ghost: calls so far

publishVars == <<integrations, subscriptions, deliveries, publishing, arrived, publishes>>

IntegrationsInit ==
  /\ integrations = [i \in IntegrationIds |-> None]
  /\ subscriptions = [s \in SubscriptionIds |-> None]
  /\ deliveries = {}
  /\ publishing = None
  /\ arrived = {}
  /\ publishes = 0

Configured(i) == integrations[i] \notin {None, Gone}
Subscribed(s) == subscriptions[s] \notin {None, Gone}

-----------------------------------------------------------------------------
(* integration_config_service *)

(* A code that is taken is refused. *)
CreateIntegration(i, row) ==
  /\ clients.kinds \cap {"publish", "test"} # {}
  /\ integrations[i] = None
  /\ \A j \in IntegrationIds : Configured(j) => integrations[j].code # row.code
  /\ integrations' = [integrations EXCEPT ![i] = [row EXCEPT !.tested = None]]
  /\ UNCHANGED <<incidentVars, subscriptions, deliveries, publishing, arrived, publishes>>

(* update_integration: every field but the code; the last test stays. *)
UpdateIntegration(i, row) ==
  /\ clients.kinds \cap {"publish", "test"} # {}
  /\ Configured(i)
  /\ integrations' = [integrations EXCEPT ![i] =
       [row EXCEPT !.code = integrations[i].code, !.tested = integrations[i].tested]]
  /\ UNCHANGED <<incidentVars, subscriptions, deliveries, publishing, arrived, publishes>>

(* test_integration: the adapters' tests are noted in the row, those of a push
   channel are not. *)
TestIntegration(i, success) ==
  /\ "test" \in clients.kinds
  /\ Configured(i)
  /\ integrations[i].type \notin PushTypes
  /\ integrations' = [integrations EXCEPT ![i].tested = success]
  /\ UNCHANGED <<incidentVars, subscriptions, deliveries, publishing, arrived, publishes>>

SubscriptionsOf(i) == {s \in SubscriptionIds : Subscribed(s) /\ subscriptions[s].integration = i}

(* A delivery that is flushed and not committed holds its subscription. *)
Held == IF publishing = None THEN {} ELSE {d.subscription : d \in publishing.pending}

(* delete_integration, with the subscriptions and their deliveries. *)
DeleteIntegration(i) ==
  /\ "publish" \in clients.kinds
  /\ Configured(i)
  /\ SubscriptionsOf(i) \cap Held = {}
  /\ integrations' = [integrations EXCEPT ![i] = Gone]
  /\ subscriptions' = [s \in SubscriptionIds |-> IF s \in SubscriptionsOf(i) THEN Gone ELSE subscriptions[s]]
  /\ deliveries' = {d \in deliveries : d.subscription \notin SubscriptionsOf(i)}
  /\ UNCHANGED <<incidentVars, publishing, arrived, publishes>>

(* Subscriptions are rows that an operator adds and switches by hand. *)
Subscribe(s, i) ==
  /\ "publish" \in clients.kinds
  /\ subscriptions[s] = None
  /\ Configured(i)
  /\ subscriptions' = [subscriptions EXCEPT ![s] = [integration |-> i, enabled |-> TRUE]]
  /\ UNCHANGED <<incidentVars, integrations, deliveries, publishing, arrived, publishes>>

SwitchSubscription(s) ==
  /\ "publish" \in clients.kinds
  /\ Subscribed(s)
  /\ subscriptions' = [subscriptions EXCEPT ![s].enabled = ~@]
  /\ UNCHANGED <<incidentVars, integrations, deliveries, publishing, arrived, publishes>>

-----------------------------------------------------------------------------
(* publish_event *)

BeginPublish(types) ==
  /\ "publish" \in clients.kinds
  /\ publishing = None
  /\ publishes < MaxPublishes
  /\ publishing' = [pc |-> "types", call |-> publishes + 1, types |-> types, queue |-> <<>>,
                    success |-> FALSE, subscription |-> None, pending |-> {}, sent |-> <<>>]
  /\ publishes' = publishes + 1
  /\ UNCHANGED <<incidentVars, integrations, subscriptions, deliveries, arrived>>

(* The next requested type: an unsupported one is skipped. *)
NextType ==
  /\ publishing # None
  /\ publishing.pc = "types"
  /\ publishing.types # <<>>
  /\ LET type == Head(publishing.types)
         rest == [publishing EXCEPT !.types = Tail(@)]
         wanted == {i \in IntegrationIds : /\ Configured(i)
                                           /\ integrations[i].type = type /\ integrations[i].enabled}
     IN  IF type \notin PushTypes
         THEN publishing' = rest
         ELSE \E queue \in SetToSeqs(wanted) :
                publishing' = [rest EXCEPT !.pc = "configs",
                  !.queue = [n \in DOMAIN queue |-> [id |-> queue[n], row |-> integrations[queue[n]]]]]
  /\ UNCHANGED <<incidentVars, integrations, subscriptions, deliveries, arrived, publishes>>

EndOfType ==
  /\ publishing # None
  /\ publishing.pc = "configs"
  /\ publishing.queue = <<>>
  /\ publishing' = [publishing EXCEPT !.pc = "types"]
  /\ UNCHANGED <<incidentVars, integrations, subscriptions, deliveries, arrived, publishes>>

Replied == {"ok", "error", "late", "lost"}

(* A webhook: another answer, a timeout and a broken connection are failures. *)
Answered(reply) == reply = "ok"

(* A datagram of syslog is sent whether it is received or not. *)
SentBlindly(row, reply) == row.type = "syslog" /\ reply = "lost"

Delivers(row, reply) == row.configured /\ (Answered(reply) \/ SentBlindly(row, reply))

SendEvent(reply) ==
  /\ publishing # None
  /\ publishing.pc = "configs"
  /\ publishing.queue # <<>>
  /\ LET config == Head(publishing.queue)
     IN  /\ config.row.configured \/ reply = "lost"
         /\ publishing' = [publishing EXCEPT !.pc = "record", !.success = Delivers(config.row, reply),
                                             !.sent = Append(@, config)]
         /\ arrived' = IF reply = "lost" THEN arrived ELSE arrived \union {<<publishing.call, config.id>>}
  /\ UNCHANGED <<incidentVars, integrations, subscriptions, deliveries, publishes>>

(* _record_delivery, its query: any enabled subscription. *)
FindSubscription ==
  /\ publishing # None
  /\ publishing.pc = "record"
  /\ LET found == {s \in SubscriptionsOf(Head(publishing.queue).id) : subscriptions[s].enabled}
     IN  \E s \in IF found = {} THEN {None} ELSE found :
           publishing' = [publishing EXCEPT !.pc = "flush", !.subscription = s]
  /\ UNCHANGED <<incidentVars, integrations, subscriptions, deliveries, arrived, publishes>>

Delivery(s) ==
  [call |-> publishing.call, nth |-> Len(publishing.sent), subscription |-> s,
   success |-> publishing.success]

\* Mutant of FlushDelivery: the handler rolls the session back and goes on.
FlushDeliveryRolledBack ==
  /\ publishing # None
  /\ publishing.pc = "flush"
  /\ LET s == publishing.subscription
         next == [publishing EXCEPT !.pc = "configs", !.queue = Tail(@), !.subscription = None]
     IN  publishing' = IF s = None \/ ~Subscribed(s) THEN [next EXCEPT !.pending = {}]
                       ELSE [next EXCEPT !.pending = @ \union {Delivery(s)}]
  /\ UNCHANGED <<incidentVars, integrations, subscriptions, deliveries, arrived, publishes>>

(* The insert.  When it fails, so does the handler of the failure, and the request
   ends: what was sent was sent, nothing is recorded. *)
FlushDelivery ==
  /\ publishing # None
  /\ publishing.pc = "flush"
  /\ LET s == publishing.subscription
         next == [publishing EXCEPT !.pc = "configs", !.queue = Tail(@), !.subscription = None]
     IN  publishing' = IF s = None \/ ~Subscribed(s) THEN None
                       ELSE [next EXCEPT !.pending = @ \union {Delivery(s)}]
  /\ UNCHANGED <<incidentVars, integrations, subscriptions, deliveries, arrived, publishes>>

(* The end of the request. *)
CommitPublish ==
  /\ publishing # None
  /\ publishing.pc = "types"
  /\ publishing.types = <<>>
  /\ deliveries' = deliveries \union publishing.pending
  /\ publishing' = None
  /\ UNCHANGED <<incidentVars, integrations, subscriptions, arrived, publishes>>

AbandonPublish ==
  /\ publishing # None
  /\ publishing' = None
  /\ UNCHANGED <<incidentVars, integrations, subscriptions, deliveries, arrived, publishes>>

IntegrationsNext ==
  \/ \E i \in IntegrationIds :
       \/ \E row \in IntegrationRows : CreateIntegration(i, row) \/ UpdateIntegration(i, row)
       \/ \E success \in BOOLEAN : TestIntegration(i, success)
       \/ DeleteIntegration(i)
       \/ \E s \in SubscriptionIds : Subscribe(s, i)
  \/ \E s \in SubscriptionIds : SwitchSubscription(s)
  \/ \E types \in EventChannels : BeginPublish(types)
  \/ NextType
  \/ EndOfType
  \/ \E reply \in Replied : SendEvent(reply)
  \/ FindSubscription
  \/ FlushDelivery
  \/ CommitPublish
  \/ AbandonPublish

-----------------------------------------------------------------------------
(* The deliveries of a call are all of them or none: the nth is for the nth event
   that was sent, under a subscription of its integration, and of a webhook or
   Kafka it is noted as a success only when the event was received.  Syslog, over
   UDP or TCP, has no answer: nothing is said of its successes.  None are left when
   one cannot be recorded, which is what the code does and not what
   event_publisher.py:325-326 says of it, that this is only logged and does not
   affect the publication. *)
DeliveriesWhole ==
  LET new == deliveries' \ deliveries
  IN  new # {} =>
        /\ {d.nth : d \in new} = DOMAIN publishing.sent
        /\ Cardinality(new) = Len(publishing.sent)
        /\ \A d \in new :
             LET config == publishing.sent[d.nth]
             IN  /\ Subscribed(d.subscription) /\ subscriptions[d.subscription].integration = config.id
                 /\ d.success => <<d.call, config.id>> \in arrived \/ config.row.type = "syslog"
=============================================================================
