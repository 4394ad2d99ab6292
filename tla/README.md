# Formal verification of the RPKI platform

TLA+ models of the backend of this repository (`src/backend/app`, a FastAPI
service in Python over PostgreSQL), the TLC configurations that check them on
small instances, and TLAPS proofs of the invariants that should hold for
every instance. Paths below are relative to `src/backend/app` unless they start
with `src/`.

The platform stores ROAs and the VRPs derived from them, serves the VRPs to
routers over the RTR protocol (RFC 8210), validates BGP announcements against
them, and lets operators change ROAs by reviewed change requests. Around that
core it collects BGP and RPKI data, detects anomalies, manages alerts, incidents
and remediation, generates device configurations, and keeps accounts, tenants
and registered prefixes.

## 1. Inventory

### 1.1 Components that are modelled

**RTR engine** (`core/rtr_server.py`, class `RTRServerEngine`). State: the VRP
list `_vrps`, `_current_serial`, `_running`, the asyncio server, the connected
clients with the serial each was last sent, whitelist and mTLS settings.
Operations: `start`, `stop`, `update_vrps`, `notify_clients`, and per
connection `handle_client`, `process_query`, `send_vrps`. Hard: one event loop
interleaves service calls and connections at every `await` (every `drain`); a
response is written while an update may arrive; `stop` and `notify_clients` wait
for peers without a timeout. Correct when a response is one version of the VRPs
under the serial of that version, no notification is lost, and a stopped engine
leaves no router behind.

**RTR service** (`services/rtr_service.py`, `models/rtr.py`). State: a row of
`rtr_servers` (settings, status, `current_serial`, `vrp_count`), rows of
`rtr_serial_histories`, and the in-memory pool `_running_engines` that belongs
to the process. Operations: create, start, stop, delete, update settings, update
VRPs, roll a serial back, read status. It calls the engine, and reads the `vrps`
table that the VRP service writes. Hard: each call reads the row, waits, and
commits what it computed from that reading; a row, a pool entry and a socket
must agree although they are updated in three steps; a crash forgets the pool
and keeps the row. Correct when every listening engine is the one in the pool,
rows tell the truth, and serials grow and identify content.

**ROA change workflow** (`services/roa_change_service.py`, `models/roa_change.py`)
and **ROA approval rules** (`services/roa_approval_service.py`). State: change
requests with status, required approvals and a JSON list of approval records,
and, through them, rows of `roas`, `vrps` and `audit_logs`. Operations: create
(assess the impact, match a rule), approve or reject, execute, verify, roll back.
Hard: two users decide or execute at once, a JSON column edited in place, an
execution that fails half way, two requests on one ROA, rollback after something
else changed the ROA, the audit record in a transaction of its own. Correct when
nothing is executed without the approvals its rule demands, the documented flow
of states is kept, VRPs follow their ROA, rollback restores, and the audit log
is complete.

**VRP service** (`services/vrp_service.py`). State: the `vrps` table. Operations:
`generate_vrps` rebuilds the table from the valid ROAs;
`validate_bgp_announcement` walks the ancestors of a prefix and classifies an
announcement; snapshots record counts. Correct when the classification is that
of RFC 6811 and of the routers, and no VRP outlives its ROA.

**ROV simulation** (`services/rov_simulation_service.py`). No state of its own:
it builds the VRP table a ROA change would lead to, finds the announcements in
the affected ranges and validates them again. Correct when the forecast is what
execution then does, and nothing outside the ranges changes.

**Prefix tree, prefix assets** (`core/prefix_tree.py`,
`services/prefix_service.py`). State: a binary trie per address family in memory;
rows of `prefixes` with a `parent_id`. Operations: insert, remove, clear and three
queries; registration, new address, parent by hand, deletion, import by a
collection. Hard: empty nodes that removal leaves, spellings with host bits; the
parent is searched in one step and stored in a later one, and nothing looks again
when another row comes between. Correct when a query returns what was hung around
a prefix, and a parent contains its children.

**RPKI data** (`services/real_data_collector.py`, `tal_downloader.py`,
`ripestat_client.py`, `rpki_sync_service.py`, `rpki_health_service.py`). State:
TALs, repositories, RPKI objects, ROAs, VRPs, announcements. Operations: a
collection that downloads with retries and fills all tables in one transaction;
adding, disabling and syncing trust anchors; two health reports. Hard: any
download may fail, operators act while a collection is under way, rows are found
by names that nothing keeps unique. Correct when a committed collection is whole
and consistent with itself, whatever failed.

**BGP data sources and storage** (`services/bgp_collector_service.py`,
`bgp_storage_service.py`). State: a row with a status and an entry in
`_running_tasks` of the process. Operations: create, start, stop, update, delete,
observation points; deduplication of a batch. Hard: row and dictionary are
changed in different steps, calls overlap, a restart empties the dictionary.
Correct when row and dictionary agree; whether data come in is not the question,
since start and stop only keep the dictionary so far.

**Detection** (`services/detection`). Seven detectors, a risk score of six
dimensions, and the rule engine: a scan loads the enabled rules by priority, and
for each one that fires stores an alert, scores it, commits and sends an event.
Hard: six queries over tables that change meanwhile, windows of an hour to thirty
days, a rule deleted while a scan holds it, a flush, a score or a send that
fails. Correct when verdicts follow the tables, an answered scan skipped no rule,
and events and alerts tell the same story.

**Benign conflict detection** (`services/benign_conflict` and the services of its
records). State: scrubbing authorisations, maintenance windows, anycast nodes,
conflict records. Operations: CRUD of each, and `analyze`, the best of six
detectors. Hard: detectors and services ask the tables by different queries.
Correct when a benign verdict has a ground on record.

**Incidents and alerts, remediation, forensics** (`services/alert_service.py`,
`incident_service.py`, `remediation_service.py`, `forensic_service.py`,
`forensics_service.py`, `incident_review_service.py`). State: alerts, incidents
with a JSON timeline and list of alert ids, actions, evidence, reviews, cases.
Hard: calls overlap and nothing locks a row or checks a version; a list appended
in place is not written; a review walks tables that other calls fill. Correct
when an incident knows of its alerts, a closed incident stays closed unless
somebody says otherwise, suggestions fit the alerts, and a review omits nothing.

**Notification, event publishing, integration settings**
(`services/notification_service.py`, `event_publisher.py`, `event_channels`,
`integration_config_service.py`). State: channels, logs, integrations,
subscriptions, deliveries. Hard: sending is not undone by a rollback, one missing
subscription ends the request. Correct when a call records all that it sent or
nothing, and no success that was none.

**Device configuration** (`core/device_templates.py`,
`services/device_config_service.py`). Built-in texts of ten vendors, stored
templates, generation by template, policy and batch, diff and validation of
texts. Hard: placeholders that disappear without a value, a diff over lines that
repeat. Correct when no text has a hole unnoticed and a diff restores the text.

**Accounts and access control, tenants, request limits, external data**
(`services/auth_service.py`, `user_service.py`, `core/rbac.py`, `api/deps.py`;
`tenant_service.py`; `middleware/rate_limit.py`;
`services/integrations/external_info.py`). State: users with failed-login
counters and locks, a token blacklist in memory; members and their limits; request
times in memory; a cache table. Hard: limits checked on a stale count, rows
written back as they were loaded, memory lost at a restart, clocks at their
boundaries, a cache without a unique key. Correct when a limit is passed by no
more than the overlapping calls, a lock stands, and a cached answer is never older
than its time.

### 1.2 Components that are not modelled

Every component is listed with its files in `PROJECT.json`. What is left has no
state of its own that two steps could disagree about, or cannot run at all:

| Component | Why it is left out |
|---|---|
| ROA service reports (`roa_service.py` and two neighbours) | read-only reports; the impact assessment enters `ROAChange` as any value it can return |
| RPKI object validation (`core/rpki_validator.py`) | ASN.1 and signatures, reached only from `parse_rpki_object`, which nothing calls |
| BGP stream collectors (`bgp_parser.py`, `bgp_peer_service.py`, `bmp_collector.py`, `ripe_ris_collector.py`, `routeviews_collector.py`) | `connect` and `start` raise `NotImplementedError` where a stream would be opened, and nothing starts them; what is left is byte layout |
| Anomaly statistics, dashboard, audit log queries | aggregating queries; the audit log's append is in `ROAChange` |
| Device adapters, external integrations, infrastructure clients | requests to other systems without state, and connection handling |
| API keys | the endpoint that creates a key fails on `current_user.tenant_id`, and its permission has no row: no key ever exists |
| Key rotation (`key_rotation_service.py`, `core/key_rotation.py`) | nothing imports it: tokens are signed and verified with `SECRET_KEY` alone (`core/security.py:75`, `auth_service.py:104`), and `PREVIOUS_SECRET_KEYS` (`config.py:75`) is ignored |
| Identity providers and secrets | encryption and calls to providers |
| Other assets | CRUD over one table each with a uniqueness check before the insert; `DeviceConfigs` and `PrefixAssets` show what becomes of such a check |
| Other middleware | one audit row per request; an address list fixed at start-up |
| API endpoints and schemas | they translate requests to the calls modelled; where one commits or decides itself it is mapped with its service |
| Sample data, migrations, frontend, deployment, tests | fixtures, schema, a client, and files that are not part of the running program |

### 1.3 How the components interact

```
 sync, collectors, users
        |                         approve / execute / rollback
        v                                    |
  roas  <------------- roa_change_service <--+        audit_logs
    |   (row updates)          |    `----------------> (second transaction)
    | generate_vrps            | VRP rows of the ROA
    v                          v
  vrps table <-----------------+
    |         \----> validate_bgp_announcement, ROV simulation
    | _load_vrps_from_db (status valid)
    v
  rtr_service -- update_vrps / notify_clients --> RTRServerEngine --> routers
```

The rest hangs on these tables:

```
 RIPEstat, TAL files ---> real_data_collector ---> tals, repositories, objects, roas, vrps,
                                                   announcements, prefixes, data sources
 announcements, vrps, asns ---> detectors ---> rule_engine ---> alerts ---> Kafka
 scrubbing, maintenance, anycast rows ---> benign conflict ---> verdict on an alert
 alerts <---> incidents ---> suggestions, actions, evidence, review
                 `---> notification channels; published events ---> integrations
```

All arrows between services are direct calls inside one event loop, or shared
tables. Every API call has a database session of its own with
`expire_on_commit=False` and `autoflush=False`: it goes on using the values it
once read, an UPDATE writes only attributes whose value differs from the one
loaded, an UPDATE of a deleted row fails at the flush, transactions are READ
COMMITTED, and no JSON column tracks mutations. These rules are in every model as
`Flush(seen, want)`, applied to the row as it is at the commit.

## 2. Plan

All modules below exist. Each is one component; a module that composes others
names them in the last column.

| Module | Content | Composes |
|---|---|---|
| `RTREngine` | engine objects, connections, routers | |
| `RTRService` | the row, the history, the pool, all service calls, crash | `RTREngine` |
| `RequestLifecycle` | abstract: what the workflow promises of a request | |
| `ROAChange` | requests, ROAs, VRPs, audit log; implements `RequestLifecycle` | |
| `OriginValidation` | validation and simulation over the table `ROAChange` maintains | `ROAChange` |
| `Detectors`, `RiskScore` | the detectors and the score as operators | |
| `DetectionTables` | the tables the detectors query, as they change | `RiskScore` |
| `RuleEngine` | rules, scans, alerts, events, one session | `RiskScore` |
| `BenignConflict` | six detectors over the records they consult | |
| `Incidents` | alerts and incidents, calls split at load and commit | |
| `Remediation`, `Notifications`, `Integrations` | what follows an incident | `Incidents` |
| `Response` | the four above over one database | all four |
| `DeviceTemplates`, `ConfigTexts`, `DeviceConfigs` | placeholders of the built-in texts; diff and validation; stored templates and generation | the third the first two |
| `Accounts`, `Tenants`, `RequestLimits`, `ExternalData` | one each | |
| `PrefixTree` | prefixes and the trie | |
| `PrefixAssets`, `Collection` | registered prefixes; where RPKI data come from | `PrefixTree` |
| `Sources` | data sources, and the deduplication of a batch | |
| `Management` | the ten parts that only share the process | all of them |
| `MCDetection` | one behaviour of `DetectionTables`, `RuleEngine` or `BenignConflict` | the three |
| `RTRServiceProofs` | theorems about the RTR service | `RTRService` |
| `ROAChangeProofs` | theorems about the workflow, validation and the forecast | `OriginValidation` |
| `DetectionProofs` | theorems about scans, events, the hijack detectors and the score | `RuleEngine`, `DetectionTables` |
| `BenignConflictProofs` | theorems about verdicts | `BenignConflict` |
| `ResponseProofs` | theorems about incidents, suggestions, reviews, logs and deliveries | `Response` |
| `ManagementProofs` | theorems about sources, external data, seats, requests, prefixes, accounts | `Management` |
| `DeviceConfigProofs` | the theorem about generated, compared and validated texts | `Management`, `ManagementProofs` |
| `SupplyProofs` | theorems about the tree, batches and collections | `Management`, `ManagementProofs` |

The stream collectors become worth a module when they are implemented.

## 3. The modules and the code

### 3.1 `RTREngine`, `RTRService`

`RTREngine` has no next-state relation of its own for service calls: `Bind`,
`Run`, `Publish`, `Notify`, `StopEngine`, `Shut` and `CloseEngine` are what the
service calls, `Query`, `Respond`, `RespondError`, `Drained`, `Connect` and `Disconnect`
are actions of connections and routers.

| TLA+ | Code |
|---|---|
| `engines[e]` | an `RTRServerEngine`: constructor arguments, `_vrps`, `_current_serial`, and `state` for `_running` together with the listening socket (`bound`: listening, `start` not yet resumed; `closing`: `stop` waits) |
| `conn[r]` | the client session of router `r`; `phase` says which `await` its handler is in, `due` which loops of `notify_clients` and `stop` still have it in their copy, `owes` that it has a question to ask |
| `held[r]`, `served` | external: what router `r` holds; every complete response ever sent |
| `row`, `history`, `table` | `rtr_servers`, `rtr_serial_histories`, valid rows of `vrps` |
| `pool` | `_running_engines.get(server_id)` |
| `op[o]` | a service call in flight: `pc` the await it is suspended in, `seen` the row as it read it, `want` the row as it will commit it |
| `Begin`, `StartCheck` ... `StartCommit` | `start_rtr_server` |
| `StopPop`, `CloseOne`, `StopClose`, `StopCommit` | `stop_rtr_server` and `engine.stop`: the first client is closed at once, each further one when the one before is gone (`DrainedAt`), the socket last. A client that still waits is attached to an engine that no longer runs, and is answered |
| `DeleteCheck`, `DeleteCommit` | `delete_rtr_server`, with the cascade to the history |
| `LoadVrps`, `ApplyVrps`, `NotifyStep`, `UpdateCommit`, `RecordHistory` | `update_vrps`, `_record_serial_history` |
| `RollbackTarget` | `rollback_serial`, which then publishes the current table under a new serial like an update |
| `ConfigCommit` | `update_rtr_server`: the running engine keeps its old settings |
| `Crash` | the process ends, by shutdown or not: `lifespan` stops no engine |

Abstractions: a VRP is a value; PDU bytes are left out, except that encoding may
raise (`Malformed`); counters and timestamps of sessions are left out; the
whitelist is a set of routers; one RTR server row (calls about different rows
share nothing but ports). Routers are external and follow RFC 8210: they keep
the last complete response, merge the answer to a Serial Query, replace after a
Reset Query. Nothing makes a router read or ask.

### 3.2 `RequestLifecycle`, `ROAChange`

One element of `Ops` is one API call. It reads the request in its first step
(`BeginCreate`, `BeginApprove`, `BeginExecute`, `BeginRollback`, each with its
early returns as guards), may read the ROA (`LoadRoa`), commits (`Commit...`,
`StaleRoa`) and writes the audit record in a second transaction (`Audit`). From
the flush that locks a ROA's row to the commit nothing else can write that row,
so that is one step. `Recorded` is what the approvals column holds after the
flush: the list is appended in place, so a list that was not empty is compared
with itself and never written; the full list is in the history variable `votes`.
An approval record has no author: `approve_change_request` stores one and asks
nobody whose it is. `Flows` is `match_approval_rule` with its order by priority
over one of the rule tables of `RuleTables`, drawn at the start; the impact
assessment is any value its code can return. `GenerateVrps` is
`vrp_service.generate_vrps` as one step (it is one transaction; the interleaving
inside it is listed among the hazards).

`RequestLifecycle` is the abstract specification: the flow of states that
`models/roa_change.py:44-47` documents, where an approval moves the request
exactly when it completes the required number; but for the committee's three,
which the code never sees together. `Lifecycle` in `ROAChange`
instantiates it with `status`, `required` and `cast` computed from the requests
and the votes, and `FollowsLifecycle` is a PROPERTY of the run `ROASequential`.

### 3.3 `OriginValidation`

It extends `ROAChange` and keeps its next-state relation; what it adds are the
pure functions of the two services. A prefix becomes a *spelling* (address as
written, length), because the code compares strings: `CoveringPrefixes` is the
chain of ancestors as `_get_covering_prefixes` spells them, `Validate` is
`validate_bgp_announcement` with `_validate_against_vrps` (a revoked VRP matches
but authorises nothing), `Simulated` is `_apply_roa_change`, `Affected` is
`_filter_affected_announcements`. The reference they are compared with,
`Rfc6811`, is written from the RFC in arithmetic on address bits, without strings
and without an ancestor chain.

### 3.4 `Detectors`, `RiskScore`, `DetectionTables`, `RuleEngine`

A detector is an operator from an announcement and a *situation* (the answers of
its queries) to a result, one per class of `services/detection`; `RiskScore` adds
the six dimensions as per cent. `DetectionTables` gives the situations: VRPs are
published and revoked, announcements and withdrawals stored, and ages move
through the classes the queries tell apart (an hour, a day, a week, 30 days,
older). In `RuleEngine` a scan is `StartScan`, then per rule `NextRule`,
`FlushAlert`, `ScoreAlert`, `CommitAlert`, `SendAlertEvent`, then `FinishScan`: the
awaits of `evaluate`. A score that raises leaves the alert in the session, where
the next commit stores it; a send that raises leaves a stored alert unannounced;
the scan goes on after both. A flush that fails (`FlushFails`) ends the request,
because the handler of `rule_engine.py:110` reads the rule of a session that must
be rolled back. The scan holds the rules as loaded. A rule's deletion is two
steps, its reads and its deletes.

### 3.5 `BenignConflict`

Rows of one prefix in six tables with the calls that edit them and a clock.
`Judgements` are the six detectors in turn; `Best` the choice among them;
`Authorized` and `UnderMaintenance` the checks of the services, which ask the same
tables by other queries.

### 3.6 `Response`: `Incidents`, `Remediation`, `Notifications`, `Integrations`

A call on an alert or incident is a `Begin...` (it loads its rows) and a
`Commit...` (it writes the columns that differ from the loaded ones, `Flushed`;
a non-empty JSON list appended in place does not differ, `AppendedInPlace`).
`BeginSuggest`/`CommitSuggest` are `generate_remediation_suggestions`;
`BeginReview`, `ReadChain` and the two commits are the review with or without the
closing, `OperationChain` walks actions, then evidence. `CollectForensic` and
`BeginCollect`/`CommitCollect` are the two evidence collectors. A notification is
`BeginNotify`, one `DispatchNext` per channel, `CommitNotify`; a publication
`BeginPublish`, `NextType`, `SendEvent`, `FindSubscription`, `FlushDelivery`,
`CommitPublish`; either can be abandoned between sending and commit, and a
`FlushDelivery` that fails ends the request, since its handler reads the
integration of a session that must be rolled back (`event_publisher.py:358`).

### 3.7 `Management`

Ten parts that share the process and the database server but no row. The part
that moves is drawn at the start (`part`): the state space is the sum of the
parts' instead of their product, and nothing is lost because no action reads
another part's variables.

| Part | Module | State and steps |
|---|---|---|
| devices | `DeviceConfigs` | `templates` rows (`create_template` split between its check and its insert), `generated` answers: of a text the placeholders without a default, the values given and the warnings; the texts `compared` and `validated`. What a router makes of a text is no code of the repository and is not modelled |
| accounts | `Accounts` | `users`, `sessions` (tokens by their claims), the blacklist in memory. A login loads the row (`LoginLoad`), awaits, decides (`LoginLocked`, `LoginWrong`, `LoginRight`) and writes changed columns only; `Restart` empties the blacklist |
| tenants | `Tenants` | `add_member` in three steps: load the limit, count, insert; the unique pair is left to the database |
| limits | `RequestLimits` | `hits` is `_memory_store`, `CheckRate` its sliding window |
| external | `ExternalData` | cache rows without a unique key, a query in four steps, facts that change by the hour |
| tree | `PrefixTree` | `nodes` named by their path; `hung` is the abstract bag the queries are compared with |
| assets | `PrefixAssets` | rows with a parent; search (`BeginRegister`, `BeginReaddress`) and write (`CommitPrefix`) apart; `GeneratePrefixAssets` of a collection |
| supply | `Collection` | TALs, repositories, objects; `BeginCollection` fixes what the downloads and requests met, `CommitCollection` writes it all, operators' calls and syncs between |
| sources | `Sources` | `sources` rows and `running` (`_running_tasks`); start, stop, update, delete in their steps, `RestartCollector` |
| storage | `Sources` | `batch`, and what `_deduplicate_announcements` keeps of it |

### 3.8 What the code does here, as read

Reading for the models turned up behaviour that a maintainer should know. The
models contain it, and the properties are stated so that they hold with it.

- *The RTR server.* A server that is stopped and started keeps its session id and
  counts on from its serial with the table of the moment, where `models/rtr.py:61`
  asks for a new id (run `RTRRestart`). Stopping waits for each client in turn,
  without a timeout. A Serial Query is answered with everything and without
  withdrawals.
- *Approvals.* The module and `endpoints/roa_changes.py:216` speak of a committee;
  its third record never counts, and such a request stays pending for ever. Two
  different people, whom `models/roa_change.py:118` and `168` ask for, are not
  checked: one person may give both records, the requester too. Rolling back does
  not restore a `max_length` that was not set, where the docstring at
  `roa_change_service.py:729` says that the original fields come back.
- *Lists in place.* Appends to an incident's timeline or alert list are lost
  unless the list was empty, although `alert_service.py:263` says that the list is
  kept in step; `LinkedAreNamed` says what is left of the promise. A status update
  to `closed` leaves `closed_at` empty.
- *Rules.* A `rule_types` filter that no enabled rule matches runs all rules. The
  MOAS detector compares the last hour with a history that contains it, and never
  fires. A rule deleted while a scan holds it ends the scan with an error. A crash
  or a failed send after the commit loses the event.
- *Suggestions.* Reading an incident's suggestions stores them again. The comment
  at `remediation_service.py:499` promises a notice to customers for withdrawals;
  none is made.
- *Records of what was sent.* They are committed after sending: an integration
  without a subscription ends the request and with it the records of all its
  deliveries, not the deliveries, where the docstring at `event_publisher.py:325`
  says that this does not disturb the publication. Email, SMS, Slack and other
  placeholders log "sent" and send nothing; syslog has no answer at all.
- *Devices.* The search for unfilled placeholders runs after all were replaced and
  finds nothing; of a text from the database, holes go unnoticed. What follows is
  read off the texts and not modelled: H3C's `drop_invalid` rejects invalids of
  both families (`device_templates.py:898-906`), and the two milder policies undo
  that for IPv4 only (916-919); the rollback of IOS XE removes a server from IPv4
  only (153-158); Huawei's preferences are written as if the larger won; the route
  policy of IOS XR is attached to no neighbour. Two requests may create one
  template name.
- *Accounts.* Overlapping logins each set the failed-login count back to one more
  than they loaded, and one that had loaded an expired lock lifts a newer one; two
  tokens of one second are the same token, so one logout ends both; a restart
  forgets every logout. `rate_limit` of `api/deps.py` is used by no endpoint, the
  key rotation by nothing.
- *RPKI data.* A second TAL of one name makes every later collection raise;
  a collection activates a disabled TAL again; the docstring of `delete_tal`
  speaks of a cascade, the code only disables; a sync is recorded as a success
  whether or not anything was fetched; one health report leaves aside what was
  never synced. A ROA spelled with host bits is never found by the collector's
  dictionary. A TAL whose download failed takes its registry's ROAs with it.
- *Sources.* A restart forgets the tasks and leaves the rows active; a start that
  overlaps a stop or a delete leaves a task that no row tells of. The health
  report looks at status and last error, where the comment at
  `bgp_collector_service.py:331` asks for a recent connection too.

## 4. The runs

| Run | Bounds | Properties | What it shows |
|---|---|---|---|
| `RTRSequential` | 1 call, 2 engines, no router, 1 VRP, 3 settings, 2 serials, 1 crash | `SerialAgrees`, `ContentCurrent`, `StatusHonest`, `DeletedStopped`, `HistoryComplete` | without overlap, row, pool, engine and history agree after every sequence of all six calls, table changes and a crash at any step |
| `RTRLive` | 1 call, 1 engine, 1 router, 2 VRPs one of them malformed, 2 serials; start, update, rollback | `SyncedCovers`, `RoutersConverge` | updates against a router that queries, drains and reconnects at any moment: no torn response; a router that reads and asks gets the last serial |
| `RTRReturns` | 2 calls, 1 engine, 1 router; start, stop, update | `CallsReturn` | overlapping calls, of which each waits for a router in turn, return if the router reads |
| `RTRConcurrent` | 2 calls, 2 engines, 2 routers, one port; start, stop, delete | `IInv`, `OnlyPoolRuns`, `NoOrphanEngine`, `PoolServes` | overlapping starts, stops and deletes; the invariant that is then proved |
| `RTREncoding` | 1 call, 1 malformed VRP | `AnsweredWhole` violated | a VRP as the services store it stops the response half way |
| `RTRRestart` | 1 call, 1 engine, 1 router, 1 VRP; start, stop, update | `SerialIdentifies` violated | a server that was stopped serves another table under the session id and serial it had |
| `ROASequential` | 1 call, 2 requests, 1 ROA, 3 approval records, 1 crash; rules for none, one and two records, and for the committee's three | `VrpsFollowRoa`, `DecidedByVotes`, `AuditTrail`, `RollbackRestores`, `FollowsLifecycle` | any order of calls on two requests that share a ROA, with a crash between any two steps |
| `ROAConcurrent` | 2 calls, 2 requests, 1 ROA, 2 approval records | `Reviewed` | whatever is overwritten, nothing is executed without its approval records |
| `OriginValidation` | 1 call, 2 requests, 2 ROAs, 2-bit addresses, 5 prefixes, 2 ASNs | `AgreesWithRouters`, `AuthorizedOnly`, `ForecastTrue` | validation equals RFC 6811 for the VRPs routers get; what a simulation shows comes true, what it does not show stays |
| `Detection` | 2-bit addresses, 2 VRPs, 3 stored announcements of 2 origins, 3 points, 1 withdrawal; 2 rules, 2 alerts, 2 scans; one row per table of benign evidence, 2 ticks | `DetectorsSound`, `RiskFollowsRpki`, `EventsFaithful`, `ScanComplete`, `BenignGrounded`, `EvidenceCounts` | two implementations of "covered by a VRP" agree, and what becomes invalid never loses risk; scans while rules are edited and deleted and flushes and sends fail; verdicts have their ground on record |
| `Response` | 2 overlapping calls, 2 incidents, 2 alerts, 2 actions, 2 pieces of evidence, 1 review, 3 channels, 2 integrations, 2 subscriptions | `LinkedAreNamed`, `ListedAreLinked`, `ReopenedKnowingly`, `SuggestionsSound`, `ReviewsComplete`, `RecordsWhole` | see below |
| `Management` | per part, below | `TextsSound`, `LockoutBounded`, `LocksStand`, `WithinLimits`, `ParentsContain`, `SupplyHolds`, `TasksFollowRows` | each part against the overlaps, failures, restarts and clocks of its own |

Deadlock checking is off where all requests can be finished, the server row
deleted or the counters at their bounds: nothing is then left to do.

**Bounds of the RTR and ROA runs.** `MaxSerial`, `MaxHistory` and `MaxCrashes` cap
counters and appear only in guards (`Begin`, `Crash`). Two serials give an update
after an update, hence every stale reading of one; two engines give an engine
that replaces another; two calls give every pairwise overlap, and no guard of the
code counts calls. Two routers give one that is still attached, and asks, while
`stop` waits for the other. `RTRReturns` has no VRPs: a response of one PDU fills a
buffer as well as one of many. The second request, on the same ROA, is what makes
saved values and the loaded ROA stale. Three approval records and the rules for one
and for two give the last record that decides and the one before it, and the rule
for three the case that never decides. Two-bit addresses have every relation of two
prefixes (equal, nested, disjoint) at every length including /0 and the full length;
one prefix is spelled with a host bit. Symmetry is used only in runs of safety
properties and of `[][...]` properties whose formulas are symmetric in the permuted
sets.

**Bounds of `Detection`.** Tables, rule engine and benign analysis share no state in
the code but the alerts, which only the rule engine writes; a behaviour draws at its
start the one that moves (`part`). Two rules give one that is edited or deleted while
the scan is at the other, two alerts a failure after a success. A scan asks for all
types or for one. One row of each kind is enough for a verdict and for its loss.

**Bounds of `Response`.** A behaviour has one kind of clients (`Clients`), so that
parts that do not meet are not multiplied: two writers of one incident; two calls
that link alerts; the same with alerts that are dropped; suggestions while alerts
arrive; execution, evidence and review by three paths; notification; publication.
Two overlapping calls are enough for every lost write, because a call overwrites
with what it loaded once. Two alerts of different types give the merging of
suggestions.

**Bounds of `Management`.** Devices: 2 stored templates of one name, 3 rows they may
have, 4 sets of variables, diffs of at most 3 lines, 4 brackets. Accounts: lock
after 3, 2 overlapping logins, 2 users, 2 sessions. Tenants: limits 1 and 2, 2
overlapping additions, 3 users, so that the limit is reached and passed. Limits:
2 requests in 2 ticks over 4. External: 1 key, 2 sites, 2
overlapping queries, a lifetime of 2 hours of 3. Tree: two families, 2 bits, 7
spellings one of them with host bits, 3 entries. Assets: 3 rows, 2 overlapping
calls, 2 changes, 2 announced prefixes: a row between two others needs three.
Supply: 2 TALs, 2 collections, 2 calls of operators, 4 outcomes of a download, 2
of a request. Sources: 2 rows, 2 overlapping calls of 3. Storage: batches of 4,
with and without timestamps.

**What the merged properties say.** `TextsSound`: a built-in text has no hole without
a warning, a diff takes one text to the other, a text is valid when its brackets
balance. `LockoutBounded`: an account is locked before a stated number of wrong
answers, however many logins overlap; `LocksStand`: what is locked stays so until the
lock ends. `WithinLimits`: seats are exceeded by no more than the overlapping calls,
no window of time holds more requests than the limit, and nothing is served that was
not said within its lifetime. `ParentsContain`: a registered prefix lies strictly
within its parent, and nothing known then lies between them. `SupplyHolds`: a
collection is whole whatever failed, its searches find one row of its own, the
health reports agree; the trie equals a bag of prefixes and the collector's
dictionary equals the trie; of a batch the newest announcement stays.
`TasksFollowRows`: what the status answer says of a source's row and of its task is the
same. `LinkedAreNamed`: an incident with linked alerts names one; `ListedAreLinked`: an
alert that is newly named is linked by the same step. `ForecastTrue`,
`DetectorsSound`, `EventsFaithful` and `RecordsWhole` are conjunctions of the
named parts defined just before them.

**Fairness** (`FairSpec` of `RTRService`). Weak fairness of each call's steps: the
event loop runs every ready task and the database answers. Strong fairness of
`NotifyStep`: a task waiting in `drain` is woken when the buffer falls below its
limit, because asyncio's `resume_writing` completes every waiter, whatever is
written afterwards. Weak fairness of a handler that has a query to answer
(`Respond`, `RespondError`). No fairness is assumed of routers: the code's waits have
no timeout, so that a router that stops reading blocks a call for ever, and this is
listed as a hazard. That a router reads (`Reads`: it is not for ever behind a full
buffer) and asks what it owes (`Asks`) are premises written into `CallsReturn` and
`RoutersConverge`. No fairness is assumed of calls beginning, of crashes, connects
and disconnects. The other modules state safety only: their calls are request
handlers that the framework may cancel at any await, and nothing in them waits for
another.

**Restrictions that make a property true**, each stated in its comment:

- `SerialAgrees`, `ContentCurrent`, `StatusHonest`, `DeletedStopped` and
  `HistoryComplete` speak of states without a call in flight and are run with one
  call at a time: two overlapping updates publish one serial twice, and rows go stale
  by the overlaps listed among the hazards. `StatusHonest`, `HistoryComplete` and
  `AuditTrail` say the most until the first crash.
- `SyncedCovers` holds while no engine is stopped, deleted or lost; so would
  `SerialIdentifies`, which `RTRRestart` shows to fail otherwise. `OnlyPoolRuns` and
  `NoOrphanEngine` assume that no update moves the port.
- `VrpsFollowRoa`, `AuthorizedOnly`, `DecidedByVotes`, `RollbackRestores`,
  `ForecastTrue` and `FollowsLifecycle` are run with one call at a time: of two
  overlapping decisions an approval overwrites a rejection.
- `DecidedByVotes` says that one or two records decide, and that the committee's
  three never do: the column keeps one record. `Reviewed` counts records; that they
  are of two people is not in the code. `RollbackRestores` says of a `max_length` that
  was not set that it is *not* restored, and speaks of ROAs that are, when the request
  is executed, as they were when it was created.
- `AgreesWithRouters` assumes prefixes without host bits and lengths a PDU can
  express. `ForecastTrue` is about a simulation right before the execution; it leaves
  aside changes of the prefix length, a `max_length` below the length and ROAs without
  a VRP, and of a revocation which of the others become invalid (the simulation shows
  not_found).
- The subprefix detector is compared where exactly one VRP covers. `EventsFaithful`
  leaves out alerts whose score or send failed, `ScanComplete` scans that a failed
  flush or a crash ended: both are not answered or not announced in the code.
- `LinkedAreNamed` says of the list only that it is not empty. `SuggestionsSound`
  leaves out the notice to customers for withdrawals, which is never made.
  `RecordsWhole` says nothing of placeholders and of syslog but that they are logged.
- `TextsSound` says of built-in templates alone that no hole is left unnoticed, and
  nothing about what a device does with a text. `LocksStand` excepts the answer to a login
  that had loaded an earlier lock, expired by then.
- `ParentsContain` leaves aside parents set by hand, moved since, or given by two
  overlapping calls; `TasksFollowRows` holds from a start, stop or deletion that ran
  alone until calls overlap, the status is written by an update, or the process ends,
  and says nothing about data: start and stop are placeholders.

### Findings

Two disagreements between the code and its own documentation have a run of their
own. `RTREncoding`: the prefix as the services store it gets its length appended
twice before encoding, so that a router receives a Cache Response and an error but
never End of Data. `RTRRestart`: `models/rtr.py:61` asks for a new session id after
a restart, the code keeps it, so that a router which comes back with the old serial
takes itself to be up to date, and the answer to its Serial Query withdraws nothing.
The other disagreements met are in section 3.8; the properties say what is left of
the promise.

## 5. The proofs

The theorems hold for every value of the constants: any sets of calls, requests,
rows, routers and settings, any bounds. Each proof has an inductive invariant,
because none of the properties is inductive by itself: what a suspended call will do
next depends on what it read, and a property of the tables says nothing of that. The
runs check the properties themselves on small instances. The assumptions are the
named `ASSUME`s of the modules, which say what the constants are (a marker such as
`None` is not a row, a set is finite, a limit is a number), and the hypotheses named
with the theorem. Three say more than that: `CollectionAssumption`, that no trust
anchor is listed twice (`TAL_SOURCES` is a dictionary) and that the prefixes
RIPEstat answers with parse; `AssetsAssumption`, that the prefixes registered and
announced are among the spellings the parser accepts; `AccountsAssumption`, that
requests have the fields of their schemas.

| Module | Theorem | Property |
|---|---|---|
| `RTRServiceProofs` | `TypeCorrect`, `Inductive`, `PoolAlwaysServes` | `TypeOK`, `IInv`, `PoolServes` |
| | `OnlyPool`, `NoOrphan` (one port) | `OnlyPoolRuns`, `NoOrphanEngine` |
| | `SerialAlwaysAgrees`, `ContentAlwaysCurrent`, `StatusAlwaysHonest`, `DeletedAlwaysStopped`, `HistoryAlwaysComplete` (one call at a time) | `SerialAgrees`, `ContentCurrent`, `StatusHonest`, `DeletedStopped`, `HistoryComplete` |
| | `SyncedAlwaysCovers`, `SerialAlwaysIdentifies` (one call at a time, never stopped) | `SyncedCovers`, and `SerialIdentifies`, which `RTRRestart` refutes without the hypothesis |
| `ROAChangeProofs` | `TypeCorrect`, `AlwaysReviewed`, `AlwaysAudited` | `TypeOK`, `Reviewed`, `AuditTrail` |
| | `VrpsAlwaysFollow`, `RollbackAlwaysRestores` (one call at a time) | `VrpsFollowRoa`, `RollbackRestores` |
| | `AlwaysDecided`, `ImplementsLifecycle` (one call at a time) | `DecidedByVotes`, `FollowsLifecycle` |
| | `AlwaysAgreesWithRouters` | `AgreesWithRouters` |
| | `AlwaysAuthorizedOnly`, `ForecastAlwaysTrue` (one call at a time) | `AuthorizedOnly`, `ForecastTrue` |
| `DetectionProofs` | `Inductive`, `EventsAlwaysFaithful`, `ScanAlwaysComplete` | the invariant of scans, `EventsFaithful`, `ScanComplete` |
| | `DetectorsAlwaysSound`, `RiskAlwaysFollows` | `DetectorsSound`, `RiskFollowsRpki` |
| `BenignConflictProofs` | `AlwaysGrounded`, `EvidenceAlwaysCounts` | `BenignGrounded`, `EvidenceCounts` |
| `ResponseProofs` | `LinkedAlwaysNamed`, `ListedAlwaysLinked`, `NeverReopenedUnknowingly`, `RecordsAlwaysWhole` | `LinkedAreNamed`, `ListedAreLinked`, `ReopenedKnowingly`, `RecordsWhole` |
| | `SuggestionsAlwaysSound`, `ReviewsAlwaysComplete` | `SuggestionsSound`, `ReviewsComplete` |
| `ManagementProofs` | `TasksAgree` | `TasksFollowRows` |
| | `LimitsAlwaysHold` (with `FactsAlwaysFresh`) | `WithinLimits` |
| | `ParentsAlwaysContain` | `ParentsContain` |
| | `LockoutAlwaysBounded`, `LocksAlwaysStand` | `LockoutBounded`, `LocksStand` |
| `DeviceConfigProofs` | `TextsAlwaysSound` | `TextsSound` |
| `SupplyProofs` | `SupplyAlwaysHolds` (with `TreeAlwaysFaithful`) | `SupplyHolds` |

**One call at a time.** Where a theorem has the form `Spec /\ []OneAtATime =>
...`, `OneAtATime` says that at most one service call is in flight. It is the
hypothesis under which the property is run, stated in the logic, and it leaves
every other interleaving in: crashes between any two steps of a call, the
rebuilding of the `vrps` table, routers that connect, query, drain and leave.
Without it these properties fail, since the code locks no row and checks no
version: two updates publish one serial twice, and an approval overwrites a
rejection. `NeverStopped` leaves out stop, delete and crashes: an
engine that is started again counts on from the serial of the row with the table
of the moment, so that a serial of one session can name two tables.

### 5.1 The RTR service

`PoolServes` alone is not inductive: that the pool's engine runs is broken by a
`StopClose` or a `StartRegister` of a call about which nothing is known. `IInv` adds
(a) `CallOK`: a call suspended before registering holds an engine that is bound, one
suspended in closing holds one that is closing, and a call that will increment the
serial read one below the bound; (b) `Ownership`: each bound or closing engine
belongs to exactly one call, and two listening engines never share a port; (c)
`ConnOK`: a router without an engine has no connection. `PoolServes` itself is
stronger than its first line: each client of an engine that is being stopped is one
that its stop call has still to close, or waits for (`WillClose`). This survives a
query, a lost connection and a new stop only because a closing engine belongs to one
call and takes no new client. The proof has one lemma per group of actions that
touch the same state, typing apart, and `NextInv` puts them together. `OnlyPoolRuns`
needs one more step: a second engine can be registered only if it was bound while
the first listened, which the shared port excludes; this is why `OnePort` (all
settings name one port) is assumed, and with a second port TLC finds the engine that
is lost. `NoOrphanEngine` then follows from `IInv`: an engine that listens is
running, hence the pool's, or bound or closing, hence held by a call.

`SeqInv` has two halves. `AtRest` says what the five properties say of states
without a call. `InMotion` says the same of the call in flight: how far row,
pool, engine and history have come with it, what it read and is still to write.
A crash ends the call wherever it is, which is why `AtRest` speaks of `crashes`
where a row may be left behind. `RouterInv` adds what was served and what routers
hold: everything served under the serial of the pool's engine is the engine's
table, nothing served is ahead of it, and what a response in progress is made of
is still what the serial names, or the serial has moved on.

### 5.2 ROA changes

`IInv` of `ROAChange` says what a call may rely on although everything can change
under it: a request keeps its type, its risk and the number of approvals it
needs; approval records are never taken back; the id of a request being created is
known to no other call. With `ColumnOK` (what the approvals column holds was
really voted) this makes `Reviewed` inductive with any number of overlapping
calls. `AuditOK` follows each record from the commit that owes it.

`SInv` adds that what the one call has read is still so, and that every content
that may be written into a ROA is whole; `RollbackAlwaysRestores` follows from it
step by step. `VInv` relates the column to the records (`Counted`): as long as a
request is pending and needs one or two, the column holds all of them, none or one; of
the committee's it holds the first, and so few never pass, for any table of rules.
`ImplementsLifecycle` shows that initial states map to initial states and every
step of `ROAChange` to a step of `RequestLifecycle` or a stutter, under the
mapping of `Lifecycle`.

### 5.3 Validation

The platform looks for a VRP in the chain of an announcement's ancestors, each a
masked address; RFC 6811 compares leading bits. That both agree, for addresses of
any width, is arithmetic: masks are multiples of powers of two (`PowerPositive`,
`Multiple`), masking again with a shorter mask changes nothing (`MaskKeeps`), and
two addresses have one mask just when their quotients agree (`MaskSame`).
`ChainCovers` puts this together. It holds only for a prefix without host bits,
hence the hypothesis `Encodable` inside the property. `WInv` says that
whatever becomes a VRP has a prefix and an origin, wherever it comes from: a
request, a saved copy, a call in flight. It needs no restriction on calls.

`ForecastTrue` compares the table that the simulation draws with the one the
execution leaves. The proof lists what an execution can do (`ExecutedBy`), shows
that each of these leaves the drawn table (`DrawnLike`), that a status depends on
the table's VRPs only through those that match (`ValidateSame`), and that a VRP
that matches an announcement puts it into the affected ranges (`MatchAffects`).
`FInv` is needed because a ROA that was never created must have no VRPs for the
simulated creation to be the real one.

### 5.4 Detection and benign conflicts

`IInv` of `RuleEngine` says what a session holds between its statements
(`PendingOK`, `StepOK`), that a deletion in progress only owns alerts that are
stored (`DeletionOK`) and what alerts refer to (`RefsOK`), which alerts of the scan
Kafka has heard of so far and which raised when they were sent (`AnnouncedSoFar`,
with `unsent`), and which of the rules it loaded are still to come
(`CompleteSoFar`). The last two are the properties at every step of a scan
instead of at its end; a flush that fails ends the scan, which is why nothing has to be
said of the rules after it. Rules may be created, edited and deleted between any
two steps.

Of `DetectionTables`, too, types are all the induction that is needed: that the
VRPs are finitely many, and that ages are within their classes. `DetectorsSound`
then holds of each state: the one covering VRP is the one that both detectors
look at (`SubprefixAgrees`). `RiskFollowsRpki` compares the six dimensions of the
score before and after a change of the VRPs (`InvalidScoresMore`): an
announcement that turns invalid gains at least 50 in the dimension of weight 25
and loses at most 60 in the one of weight 15, the authorised origin being the
only other thing that the change moves; the baseline path, the one answer that the
database is free to choose, enters no dimension (`BaselineUnseen`).

Of `BenignConflict` types are all the induction that is needed; the rest is about
the verdict in one state or in two. Six confidences have a greatest (`BestOf`,
from the well-foundedness of the naturals), the best of the results grows with
each of them (`BestGrows`), and a result says what its detector needed
(`DdosOf` to `DelayOf`). For `EvidenceCounts`, each analysis with more evidence
has one without that is worth no more (`AnalysisBefore`): an approval changes
neither which windows fit nor which of them began last (`WindowBefore`).

### 5.5 Incidents, remediation, notification, publication

`LInv`: a call holds an incident as it was, but the incident still exists, and a
list of alerts that had an entry has one still; this is all that survives of the
list, since a commit may put back an older one. `NInv` and `PInv` say how many of
the messages a notification or a publication has to send are sent, in which order,
and which logs and deliveries the session still holds; a failed flush ends the
request and with it all of them, and a commit has one record per channel gone
through. The hypotheses `NotAFunction(None)` and `NotAFunction(Gone)` say that the
two markers are not functions, hence neither rows nor lists; TLC cannot evaluate
that, so it stands in the theorems and not in an `ASSUME`. Every model value
satisfies it.

Suggestions and operation chains are lists in an order. `InOrder` gives the
elements of a finite set by what comes before each of them, and `InOrderLists`
shows, for any strict order of a finite set, that this lists each element once and
the lesser one first. That the walk over the alerts' types keeps the first
suggestion of each task (`FirstOfEach`) then means that the task of every
suggestion is kept exactly once (`KeptTells`), and that the one kept for a task was
asked for by some type (`KeptSuits`); from these `SuggestionsHold` follows for
every order in which the set of types may be walked. `ReviewHolds` compares a
review with the rows of the moment its call began. The invariant `RInv` carries
this to the commit: no step removes an action or a piece of evidence or moves it to
another incident, an execution stamps it with the time of the clock, which does not
go back, so that the items a call saw at its beginning are still items, no earlier
than they were (`ItemsStay`), when it reads the chain.

### 5.6 Sources, external data, seats, requests, prefixes, accounts

`TasksFollowRows` says nothing about a source while a call on it is in progress,
so the step that ends the call could not be shown to establish it. `IInv` adds
(a) `CallOK`: what a call that has run alone so far has done (the row still has
the status it loaded until it writes, is active before the task is registered,
and has no task once a stop has taken it out of the dictionary); (b) `AloneOnly`:
no other call on the source is in progress while one runs alone; and the types.

`FreshInv` says of each cached row, expired or not, when its fact was said, and of
a query that what it is about to write is being said at this hour. `SeatsInv`
counts the members together with the requests that are past their check
(`Bound`): each of those was let through when there was a seat, so that members
and bound requests pass the limit by less than the number of requests that may
add. `RateInv` counts, for every moment, the requests let through since: those
within the window are all among the times kept, which the limit bounds.

`ParentsContain` speaks of rows, but a row gets the parent that a call found some
time before, among the rows of that moment. `ParentsInv` says the same of what a
call holds (`FoundFor`), and that a row is still as the call that is to change it
loaded it, unless two calls were on it together. It stays so because no step gives
an id again or another prefix to a row that was not moved (`IdsKept`), which
leaves every finding true (`FoundStays`). Addresses have any width.

`LockoutBounded` says how many wrong answers overlapping logins can get before the
lock holds. Say that a login stands at the count it will start from: the one it
loaded, no more than the row's, or 0 if it loaded a lock. A wrong answer at count g
moves one login to g + 1, and those that are free with it, so that fewer logins
stand at g or below and no more than before at any lower count: the profile of these
numbers (`Standing`) goes down in the lexicographic order, and only what resets the
count may raise it. `Rank` counts the growing sequences that come before a profile,
of which there are `choose(MaxFailed + n - 1, n)` (`GrowingChoices`), hence the
binomial coefficient. `LockInv` says that the wrong answers so far and the rank
together stay below the bound. The one answer that does not lower the profile is
that of a login which loaded an expired lock with a count of 1 when a right answer
has since set the count to 0; `Unwritten` counts these logins.

`LocksStand` needs that no lock outlasts one that would be made now (`LocksEnd`): an
answer writes a new lock, leaves the column as it is, or, if it had loaded a lock that
has expired, writes that there is none (`AnswerLocks`); so a written lock never shortens
one in force.

### 5.7 Device configurations

`TextInv` follows the holes of a rendered text to the variables: those without a
default are required, and a missing one is reported.

A diff is made of the matched lines in both texts, which are `difflib`'s choice: any
increasing matching. Two matches that follow each other bound a stretch of lines
without a match (`Neighbours`); the ends of the stretches rise in both texts, so
that a line that is not matched lies in exactly one stretch (`AroundOne`) and is
entered once, and the position of a matched line in the result is its number of
predecessors, matched or added (`MatchedPosition`). `DiffSound` puts this together.

`validate_config` pops a stack of brackets; a text is balanced when it is empty, two
balanced texts in a row, or one in a pair of brackets. That a balanced text is
accepted is shown by induction over its length with what is open before it
(`BalancedIs`, `LevelBalanced`); the other way round, the first bracket is closed by
the first one after which no more is open than before, and the text between the
two is accepted (`FirstPair`).

### 5.8 Trees, batches and collections

An answer of the model is a list of the entries at some places of another list
(`EntriesAt`). `EntriesPut` and `EntriesWithout` say what appending an entry or
taking one out does to such a list, and `Count`, how many entries are among some
values, is what is preserved when only the order may differ.

`TreeFaithful` speaks of all queries and is not inductive; `TreeInv` says of each
node that it holds the data of what hangs at its path, in order, and that the nodes
on the way exist. A path has a turn for each bit, so that one network lies in another
just when its path begins with the other's (`SubnetOf` compares first and last
addresses; `Wider` and the lemmas on powers of two connect the two). A lookup then
collects what hangs on the beginnings of a path (`LookupIs`), and the subtree below a
node, by induction from its leaves, what hangs on the continuations
(`SubtreeCounted`). The dictionary of `_find_covering_roas` asks for the same networks
from the longest to the shortest (`FindCoveringIs`), and is right where every key is
spelt without host bits.

`NewestFollows` is an induction over a batch: what is kept after so many announcements
is the first of the newest so far (`BestStays`), whichever of them lack a timestamp.

`CollectionInv` is about two calls that overlap. `collect_tals` reads which trust
anchors and objects exist and adds the rest only when it commits, minutes later;
meanwhile trust anchors are created, disabled and synchronised, and ROAs are created
by hand. `FoundInv` says that what was found is still there under its own name, and
that what was missing is missing among the rows a collection made, which no other
call adds to (`RowsKept`); this is why a commit makes no duplicate. `CommitStores`
then follows each stored ROA to its trust anchor and object, each VRP to its ROA,
and each status to the ROAs that cover the announcement.

### 5.9 Induction over data

The library's induction theorems take an operator as a parameter, which no prover
at hand instantiates. Two lemmas replace them where a proof needs one:
`SetInduction`, a set of naturals with 0 and each successor has them all, and
`RecursionExists`, that a function given by its first value and by what each value
makes of the next exists. Functions on finite sets, texts and lists are brought to
these two by their size or length.

### 5.10 What only TLC shows

The liveness properties `CallsReturn` and `RoutersConverge`: liveness under fairness
is beyond the prover. Every invariant that a passing run checks is a theorem.

## 6. What is left out

PDU bytes, parsing, wording, logging, statistics; several RTR servers and several
worker processes (each process has its own pool and its own memory: two workers
are two copies of the model that share the rows); database failures other than
the constraint, stale-row and broken-session errors named above; the confidences
of detection results; the contents and hashes of evidence; authentication headers
and formats of published events; rows that no code creates (subscriptions'
filters, RPKI caches); the components of section 1.2, each for the reason given
there.
