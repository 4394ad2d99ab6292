---------------------------- MODULE BenignConflict ----------------------------
(***************************************************************************)
(* services/benign_conflict: is an alert about one prefix a benign         *)
(* conflict?  Six detectors judge the alert by what the platform has on    *)
(* record - scrubbing authorisations, maintenance windows, anycast nodes,  *)
(* transfers, customers, the health of the RPKI sources - while those      *)
(* records are created, changed and deleted and time passes.               *)
(*                                                                         *)
(* All rows are about the prefix of the alert.  Confidence is per cent.    *)
(* The alerts are called raised here; AsnInfo is the table of Detectors.   *)
(***************************************************************************)
EXTENDS Detectors

CONSTANTS
  Asns,        \* origins; AsnInfo says what is registered of them
  Ledger,      \* what the asset tables say of the prefix, see LedgerType
  AuthIds, WindowIds, NodeIds, RecordIds, RaisedIds,
  AuthRows, WindowRows, NodeRows, AlertRows, SourceRows, RecordTypes,   \* what may be stored
  MaxTime      \* bound on the clock

VARIABLES
  now,
  auths,       \* id -> row of scrubber_authorizations, or None
  windows,     \* id -> row of maintenance_windows, or None
  nodes,       \* id -> row of anycast_nodes, or None
  sources,     \* health of repositories and VRPs
  records,     \* id -> row of benign_conflict_records, or None
  raised       \* id -> row of alerts, or None

benignVars == <<now, auths, windows, nodes, sources, records, raised>>

Times == 0..MaxTime

ConflictTypes == {"ddos_scrubbing", "planned_maintenance", "anycast_expansion",
                  "resource_transfer", "customer_misconfig", "data_source_delay"}

(* status and customer of the row of prefixes (None without one), the customer
   of its parent, whether its ROAs changed in 30 days, who announced it. *)
LedgerType == [status : {"active", "reserved", "deprecated", None}, customer : {None, "c1", "c2"},
               parent : {None, "c1", "c2"}, roaChanged : BOOLEAN, origins : SUBSET Asns]

AuthType == [asn : Asns, from : Times, until : Times, status : {"active", "revoked"}]

(* scope: what the window names - the prefix, an AS, something else, nothing. *)
WindowType == [start : Times, end : Times, scope : Asns \union {"prefix", "other", "all"},
               approved : BOOLEAN, order : BOOLEAN,
               status : {"scheduled", "active", "completed", "cancelled"}]

NodeType == [asn : Asns, geo : BOOLEAN, tag : BOOLEAN, status : {"active", "inactive"}]

SourceType == [failed : BOOLEAN, stale : BOOLEAN, vrpStale : BOOLEAN, old : BOOLEAN]

RecordType == [type : ConflictTypes, status : {"suspected", "confirmed", "dismissed"},
               alert : RaisedIds \union {None}]

RaisedType == [origin : Asns \union {None}, path : Seq(Asns), time : Times,
              benign : BOOLEAN, kind : ConflictTypes \union {None}]

Healthy == [failed |-> FALSE, stale |-> FALSE, vrpStale |-> FALSE, old |-> FALSE]

ASSUME StoredAssumption ==
  /\ MaxTime \in Nat
  /\ AuthRows \subseteq AuthType /\ WindowRows \subseteq WindowType /\ NodeRows \subseteq NodeType
  /\ AlertRows \subseteq RaisedType /\ SourceRows \subseteq SourceType
  /\ RecordTypes \subseteq ConflictTypes
  /\ None \notin AuthType \union WindowType \union NodeType \union RecordType \union RaisedType

TypeOK ==
  /\ now \in Times
  /\ auths \in [AuthIds -> AuthType \union {None}]
  /\ windows \in [WindowIds -> WindowType \union {None}]
  /\ nodes \in [NodeIds -> NodeType \union {None}]
  /\ sources \in SourceType
  /\ records \in [RecordIds -> RecordType \union {None}]
  /\ raised \in [RaisedIds -> RaisedType \union {None}]

BenignInit ==
  /\ now = 0
  /\ auths = [i \in AuthIds |-> None]
  /\ windows = [i \in WindowIds |-> None]
  /\ nodes = [i \in NodeIds |-> None]
  /\ sources = Healthy
  /\ records = [i \in RecordIds |-> None]
  /\ raised = [i \in RaisedIds |-> None]

Rows(table) == {table[i] : i \in DOMAIN table} \ {None}

-----------------------------------------------------------------------------
(* The detectors.  Each gives [type, benign, confidence]. *)

Percent(n) == Min({100, Max({0, n})})
Worth(condition, n) == IF condition THEN n ELSE 0

Result(type, benign, confidence) ==
  [type |-> type, benign |-> benign, confidence |-> Percent(confidence)]

NotBenign == [type |-> None, benign |-> FALSE, confidence |-> 0]

TypeOf(asn) == IF AsnInfo[asn] = None THEN None ELSE AsnInfo[asn].type

(* _check_scrubber_authorization: active, the one that expires last. *)
LastExpiring(asn) ==
  LET rows == {r \in Rows(auths) : r.asn = asn /\ r.status = "active"}
  IN  {r \in rows : \A q \in rows : q.until <= r.until}

InWindow(auth, time) == auth.from <= time /\ time <= auth.until

(* _check_as_path_pattern *)
ScrubberLike(alert) ==
  /\ alert.path # <<>>
  /\ Len(alert.path) <= 4
  /\ alert.path[Len(alert.path)] = alert.origin

(* detect_ddos_scrubbing *)
DdosScrubbing(alert, auth) ==
  LET scrubber == TypeOf(alert.origin) = "scrubber"
      inWindow == auth # None /\ InWindow(auth, now)
  IN  Result("ddos_scrubbing", scrubber /\ inWindow,
        Worth(scrubber, 30)
        + (CASE auth = None -> 0 [] inWindow -> 60 [] OTHER -> 30)
        + Worth(ScrubberLike(alert), 10))

LiveWindow(window) == window.status \in {"scheduled", "active"}

Covers(window, time) == window.start <= time /\ time <= window.end

Concerns(window, origin) ==
  window.scope \in {"prefix", "all"} \union (IF origin = None THEN {} ELSE {origin})

\* Mutant of MatchingWindows: the window's end is not looked at.
MatchingWindowsEndless(origin, time) ==
  LET rows == {w \in Rows(windows) : LiveWindow(w) /\ w.start <= time /\ Concerns(w, origin)}
  IN  {w \in rows : \A q \in rows : q.start <= w.start}

(* _find_matching_maintenance: the live window over the time of the alert that
   began last. *)
MatchingWindows(origin, time) ==
  LET rows == {w \in Rows(windows) : LiveWindow(w) /\ Covers(w, time) /\ Concerns(w, origin)}
  IN  {w \in rows : \A q \in rows : q.start <= w.start}

(* detect_planned_maintenance *)
PlannedMaintenance(window) ==
  IF window = None THEN NotBenign
  ELSE Result("planned_maintenance", window.approved,
         60 + Worth(window.approved, 20) + Worth(window.order, 10))

(* _check_anycast_node *)
ActiveNodes(asn) == {n \in Rows(nodes) : n.asn = asn /\ n.status = "active"}

(* detect_anycast_expansion *)
AnycastExpansion(alert, node) ==
  LET many == Cardinality(Ledger.origins) > 1
  IN  Result("anycast_expansion", node # None,
        Worth(node # None, 40)
        + Worth(node # None /\ node.geo, 10) + Worth(node # None /\ node.tag, 10)
        + Worth(many, 20) + Worth(many /\ alert.origin \in Ledger.origins, 10)
        + Worth(AsnInfo[alert.origin] # None /\ AsnInfo[alert.origin].anycast, 10))

(* _check_existing_transfer_record *)
TransferOnRecord ==
  \E r \in Rows(records) : r.type = "resource_transfer" /\ r.status \in {"suspected", "confirmed"}

(* detect_resource_transfer *)
ResourceTransfer ==
  LET moving == Ledger.status \in {"reserved", "deprecated"}
  IN  Result("resource_transfer", TransferOnRecord \/ (Ledger.roaChanged /\ moving),
        Worth(moving, 20) + Worth(Ledger.roaChanged, 30) + Worth(TransferOnRecord, 30))

(* detect_customer_misconfig: any customer AS will do. *)
CustomerMisconfig(alert) ==
  LET customer == TypeOf(alert.origin) = "customer"
      crossed  == Ledger.status # None /\ Ledger.parent # None /\ Ledger.parent # Ledger.customer
  IN  Result("customer_misconfig", customer,
        Worth(customer, 30) + Worth(Ledger.customer # None, 20)
        + (IF alert.origin \in Ledger.origins THEN 20 ELSE 10) + Worth(crossed, 20))

(* detect_data_source_delay *)
DataSourceDelay ==
  Result("data_source_delay", sources.failed \/ sources.stale \/ sources.vrpStale,
    Worth(sources.failed, 30) + Worth(sources.stale, 20)
    + Worth(sources.vrpStale, 30) + Worth(sources.old, 10))

OrNone(set) == IF set = {} THEN {None} ELSE set

NeedsOrigin(alert, result) == IF alert.origin = None THEN NotBenign ELSE result

\* Mutant of Best: the first benign result will do.
BestFirst(results) ==
  LET benign == {i \in DOMAIN results : results[i].benign}
  IN  IF benign = {} THEN NotBenign ELSE results[Min(benign)]

(* BenignConflictDetector.analyze: the first of the most confident benign
   results, in the order of _DETECTORS. *)
Best(results) ==
  LET benign == {i \in DOMAIN results : results[i].benign}
      best == {i \in benign : \A j \in benign : results[j].confidence <= results[i].confidence}
  IN  IF benign = {} THEN NotBenign ELSE results[Min(best)]

(* The six results, for every row the queries may give. *)
Opinions(alert) ==
  {<<NeedsOrigin(alert, DdosScrubbing(alert, auth)),
     PlannedMaintenance(window),
     NeedsOrigin(alert, AnycastExpansion(alert, node)),
     ResourceTransfer,
     NeedsOrigin(alert, CustomerMisconfig(alert)),
     DataSourceDelay>> :
     auth \in OrNone(LastExpiring(alert.origin)),
     window \in OrNone(MatchingWindows(alert.origin, alert.time)),
     node \in OrNone(ActiveNodes(alert.origin))}

Analyses(alert) == {Best(results) : results \in Opinions(alert)}

-----------------------------------------------------------------------------
(* scrubber_service, maintenance_service, anycast_service: each call is one
   transaction.  A creation needs its end after its start; an update that gives
   only one of the two is not checked against the other. *)

CreateAuthorization(i, row) ==
  /\ auths[i] = None
  /\ row.from < row.until
  /\ auths' = [auths EXCEPT ![i] = row]
  /\ UNCHANGED <<now, windows, nodes, sources, records, raised>>

UpdateAuthorization(i, until, status) ==
  /\ auths[i] # None
  /\ auths' = [auths EXCEPT ![i].until = until, ![i].status = status]
  /\ UNCHANGED <<now, windows, nodes, sources, records, raised>>

DeleteAuthorization(i) ==
  /\ auths[i] # None
  /\ auths' = [auths EXCEPT ![i] = None]
  /\ UNCHANGED <<now, windows, nodes, sources, records, raised>>

CreateWindow(i, row) ==
  /\ windows[i] = None
  /\ row.start < row.end
  /\ windows' = [windows EXCEPT ![i] = row]
  /\ UNCHANGED <<now, auths, nodes, sources, records, raised>>

UpdateWindow(i, approved, status) ==
  /\ windows[i] # None
  /\ windows' = [windows EXCEPT ![i].approved = approved, ![i].status = status]
  /\ UNCHANGED <<now, auths, nodes, sources, records, raised>>

DeleteWindow(i) ==
  /\ windows[i] # None
  /\ windows' = [windows EXCEPT ![i] = None]
  /\ UNCHANGED <<now, auths, nodes, sources, records, raised>>

CreateNode(i, row) ==
  /\ nodes[i] = None
  /\ nodes' = [nodes EXCEPT ![i] = row]
  /\ UNCHANGED <<now, auths, windows, sources, records, raised>>

UpdateNode(i, status) ==
  /\ nodes[i] # None
  /\ nodes' = [nodes EXCEPT ![i].status = status]
  /\ UNCHANGED <<now, auths, windows, sources, records, raised>>

DeleteNode(i) ==
  /\ nodes[i] # None
  /\ nodes' = [nodes EXCEPT ![i] = None]
  /\ UNCHANGED <<now, auths, windows, sources, records, raised>>

(* check_scrubber_authorization, check_active_maintenance: what the services
   themselves answer. *)
Authorized(asn, time) ==
  \E r \in Rows(auths) : r.asn = asn /\ r.status = "active" /\ InWindow(r, time)

UnderMaintenance(origin, time) ==
  \E w \in Rows(windows) : LiveWindow(w) /\ Covers(w, time) /\ Concerns(w, origin)

-----------------------------------------------------------------------------
(* benign_conflict_service *)

CreateRecord(i, type, a) ==
  /\ records[i] = None
  /\ a # None => raised[a] # None
  /\ records' = [records EXCEPT ![i] = [type |-> type, status |-> "suspected", alert |-> a]]
  /\ UNCHANGED <<now, auths, windows, nodes, sources, raised>>

UpdateRecordStatus(i, status) ==
  /\ records[i] # None
  /\ records' = [records EXCEPT ![i].status = status]
  /\ UNCHANGED <<now, auths, windows, nodes, sources, raised>>

(* link_alert_to_benign_conflict; the foreign key refuses an unknown alert.  The
   alert that the record was about keeps its mark. *)
LinkAlert(i, a) ==
  /\ records[i] # None
  /\ raised[a] # None
  /\ records' = [records EXCEPT ![i].alert = a]
  /\ raised' = [raised EXCEPT ![a].benign = TRUE, ![a].kind = records[i].type]
  /\ UNCHANGED <<now, auths, windows, nodes, sources>>

(* The rest of the platform: an alert is raised, or deleted with its rule (the
   record's foreign key becomes NULL); sources fail, grow old and recover. *)
RaiseAlert(a, row) ==
  /\ raised[a] = None
  /\ raised' = [raised EXCEPT ![a] = row]
  /\ UNCHANGED <<now, auths, windows, nodes, sources, records>>

DropAlert(a) ==
  /\ raised[a] # None
  /\ raised' = [raised EXCEPT ![a] = None]
  /\ records' = [i \in RecordIds |-> IF records[i] # None /\ records[i].alert = a
                                     THEN [records[i] EXCEPT !.alert = None] ELSE records[i]]
  /\ UNCHANGED <<now, auths, windows, nodes, sources>>

SourcesChange(s) ==
  /\ sources' = s
  /\ UNCHANGED <<now, auths, windows, nodes, records, raised>>

Tick ==
  /\ now < MaxTime
  /\ now' = now + 1
  /\ UNCHANGED <<auths, windows, nodes, sources, records, raised>>

BenignNext ==
  \/ \E i \in AuthIds : \/ \E row \in AuthRows : CreateAuthorization(i, row)
                        \/ \E t \in Times, st \in {"active", "revoked"} : UpdateAuthorization(i, t, st)
                        \/ DeleteAuthorization(i)
  \/ \E i \in WindowIds : \/ \E row \in WindowRows : CreateWindow(i, row)
                          \/ \E b \in BOOLEAN, st \in {"scheduled", "cancelled"} : UpdateWindow(i, b, st)
                          \/ DeleteWindow(i)
  \/ \E i \in NodeIds : \/ \E row \in NodeRows : CreateNode(i, row)
                        \/ \E st \in {"active", "inactive"} : UpdateNode(i, st)
                        \/ DeleteNode(i)
  \/ \E i \in RecordIds :
       \/ \E type \in RecordTypes, a \in RaisedIds \union {None} : CreateRecord(i, type, a)
       \/ \E st \in {"suspected", "confirmed", "dismissed"} : UpdateRecordStatus(i, st)
       \/ \E a \in RaisedIds : LinkAlert(i, a)
  \/ \E a \in RaisedIds : DropAlert(a) \/ \E row \in AlertRows : RaiseAlert(a, [row EXCEPT !.time = now])
  \/ \E row \in SourceRows : SourcesChange(row)
  \/ Tick

BenignSpec == BenignInit /\ [][BenignNext]_benignVars

-----------------------------------------------------------------------------
(* Properties. *)

(* A benign verdict has its ground on record at that moment, whichever detector
   wins: an authorisation or a window that the services' own checks would find
   for the alert, an active node, a transfer, a customer, an unhealthy source.
   The detectors and the services have queries of their own for this
   (ddos_scrubbing_detector.py and scrubber_service.py order and limit theirs
   differently). *)
BenignGrounded ==
  \A a \in RaisedIds : raised[a] # None =>
    \A r \in Analyses(raised[a]) : r.benign =>
      CASE r.type = "ddos_scrubbing" ->
             TypeOf(raised[a].origin) = "scrubber" /\ Authorized(raised[a].origin, now)
        [] r.type = "planned_maintenance" -> UnderMaintenance(raised[a].origin, raised[a].time)
        [] r.type = "anycast_expansion" -> ActiveNodes(raised[a].origin) # {}
        [] r.type = "resource_transfer" -> TransferOnRecord \/ Ledger.roaChanged
        [] r.type = "customer_misconfig" -> TypeOf(raised[a].origin) = "customer"
        [] r.type = "data_source_delay" -> sources # Healthy

Worst(alert) == Min({IF r.benign THEN r.confidence ELSE 0 : r \in Analyses(alert)})

(* More evidence never makes an alert look worse: when windows are approved or
   sources fail, and nothing else changes, no verdict falls back to an alarm or
   loses confidence. *)
MoreEvidence ==
  /\ <<windows', sources'>> # <<windows, sources>>
  /\ now' = now /\ auths' = auths /\ nodes' = nodes /\ records' = records /\ raised' = raised
  /\ \A f \in {"failed", "stale", "vrpStale", "old"} : sources[f] => sources'[f]
  /\ \A i \in WindowIds : \/ windows'[i] = windows[i]
                          \/ windows[i] # None /\ windows'[i] = [windows[i] EXCEPT !.approved = TRUE]

EvidenceCounts ==
  [][MoreEvidence => \A a \in RaisedIds : raised[a] # None => Worst(raised[a]) <= Worst(raised[a])']_benignVars
=============================================================================
