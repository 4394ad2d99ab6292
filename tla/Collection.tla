------------------------------ MODULE Collection ------------------------------
(***************************************************************************)
(* Where the platform's RPKI data come from: services/tal_downloader.py,   *)
(* ripestat_client.py and real_data_collector.py, which fill the tables in *)
(* one transaction, and rpki_sync_service.py and rpki_health_service.py,   *)
(* which add and disable trust anchors, sync repositories and report on    *)
(* them, with models/rpki.py.                                              *)
(*                                                                         *)
(* A collection looks for its rows by name and type with a search that     *)
(* raises an error on two, and neither is unique.  Trust anchors it found  *)
(* stay locked until it commits.                                           *)
(***************************************************************************)
EXTENDS PrefixTree

CONSTANTS
  TalSources,       \* the names of TAL_SOURCES, in order
  Partly,           \* spelling of a trust anchor -> the names it is part of, or that are part of it
  Targets,          \* TARGET_ASNS, in order
  RoutesOf,         \* target -> the prefixes it announces, in order
  RoasOf,           \* target -> its ROA records, [prefix, origin, max, anchor], in order
  TalResponses,     \* what the attempts at a download may meet, and the text it ends with
  ApiResponses,     \* what the attempts at a request to RIPEstat may meet
  StaleAfter,       \* SYNC_STALE_THRESHOLD_HOURS
  MaxTals, MaxCollections,  \* bound the tables
  MaxCalls          \* bounds the calls of operators and the moves of the clock

ASSUME CollectionAssumption ==
  /\ TalSources \in Seq(ToSet(TalSources)) /\ \A i, j \in DOMAIN TalSources : TalSources[i] = TalSources[j] => i = j
  /\ Targets \in Seq(DOMAIN RoutesOf \cap DOMAIN RoasOf)
  /\ \A a \in DOMAIN RoutesOf : RoutesOf[a] \in Seq(Spelt)
  /\ \A a \in DOMAIN RoasOf :
       RoasOf[a] \in Seq([prefix : Spelt, origin : Nat, max : Nat, anchor : ToSet(TalSources) \cup DOMAIN Partly])
  /\ StaleAfter \in Nat

VARIABLES
  tals,            \* tals: [name, status, own], own: made by a collection
  repositories,    \* rpki_repositories: [tal, protocol, sync, synced]
  objects,         \* rpki_objects: [repository, type, own]
  collected,       \* the last committed collection's rows of roas, vrps, bgp_announcements
  collections,     \* how many were committed
  collection,      \* the collection in progress, if any: what it found
  tick,            \* the clock, in parts of the time after which a sync is stale
  calls            \* calls of operators and moves of the clock so far

supplyVars == <<tals, repositories, objects, collected, collections, collection, tick, calls>>

Never == -1
NoRows == [roas |-> <<>>, vrps |-> <<>>, announcements |-> <<>>]

SupplyInit ==
  /\ tals = <<>> /\ repositories = <<>> /\ objects = <<>>
  /\ collected = NoRows /\ collections = 0 /\ collection = <<>>
  /\ tick = 0 /\ calls = 0

-----------------------------------------------------------------------------
(* Requests.  _fetch_with_retry: three attempts, and only an error of the  *)
(* server or the network leads to the next.                                *)
Fetched(responses) ==
  \E i \in DOMAIN responses \cap 1 .. 3 :
    responses[i] = "ok" /\ \A j \in 1 .. i - 1 : responses[j] \in {"server", "network"}

(* parse_tal_content: what is neither blank, a comment nor a URI is key.   *)
Parsed(lines) ==
  /\ \E i \in DOMAIN lines : lines[i] = "rsync"
  /\ \E i \in DOMAIN lines : lines[i] = "key"
  /\ \A i \in DOMAIN lines : lines[i] # "garbled"

(* download_tal                                                            *)
Downloaded(answer) == Fetched(answer.responses) /\ Parsed(answer.text)

(* RIPEstatClient._request: the first attempt and three more; an answer    *)
(* that cannot be read, or is not ok, is final.                            *)
Answered(responses) ==
  \E i \in DOMAIN responses \cap 1 .. 4 :
    responses[i] = "ok" /\ \A j \in 1 .. i - 1 : responses[j] \in {"server", "network"}

-----------------------------------------------------------------------------
(* Validation by the ROAs of one collection.  A row is [prefix, origin,    *)
(* max, tal, object]; a length of 0 stands for that of the prefix.         *)
MaxLength(roa) == IF roa.max > 0 THEN roa.max ELSE roa.prefix.len

(* _prefix_covered_by_roa and compute_rpki_validation_status.              *)
Covering(prefix, roas) ==
  {i \in DOMAIN roas : SubnetOf(Network(prefix), Network(roas[i].prefix))}
ComputedStatus(prefix, origin, roas) ==
  CASE Covering(prefix, roas) = {} -> "not_found"
    [] \E i \in Covering(prefix, roas) :
         roas[i].origin = origin /\ prefix.len <= MaxLength(roas[i]) -> "valid"
    [] OTHER -> "invalid"

\* Mutant of FindCovering: the walk stops short of the widest prefix.
FindCoveringShort(prefix, roas) ==
  LET net == Network(prefix)
      parent(n) == Network([net EXCEPT !.len = n])
  IN FlattenSeq([n \in 1 .. net.len |->
       EntriesAt(roas, {i \in DOMAIN roas : roas[i].prefix = parent(net.len + 1 - n)})])

(* _find_covering_roas: the prefix and its parents, the longest first, in  *)
(* a dictionary of the ROAs by the string of their prefix.                 *)
FindCovering(prefix, roas) ==
  LET net == Network(prefix)
      parent(n) == Network([net EXCEPT !.len = n])
  IN FlattenSeq([n \in 1 .. net.len + 1 |->
       EntriesAt(roas, {i \in DOMAIN roas : roas[i].prefix = parent(net.len + 1 - n)})])

(* _compute_invalid_reason_from_list: the first covering ROA decides.      *)
InvalidReason(origin, covering) ==
  IF covering[1].origin # origin THEN "origin_as_mismatch" ELSE "length_exceeded"

(* _update_validation_status for one announcement.                         *)
Judged(route, roas) ==
  LET covering == FindCovering(route.prefix, roas)
      matched == \E i \in DOMAIN covering :
        covering[i].origin = route.origin /\ route.prefix.len <= MaxLength(covering[i])
      status == CASE covering = <<>> -> "not_found" [] matched -> "valid" [] OTHER -> "invalid"
  IN [prefix |-> route.prefix, origin |-> route.origin, status |-> status,
      reason |-> IF status = "invalid" THEN InvalidReason(route.origin, covering) ELSE ""]

-----------------------------------------------------------------------------
(* Collection.                                                             *)
\* Mutant of TalsNamed: a disabled trust anchor is not found.
TalsNamedActive(name) == {t \in DOMAIN tals : tals[t].name = name /\ tals[t].status = "active"}

TalsNamed(name) == {t \in DOMAIN tals : tals[t].name = name}
RepositoriesOf(t) == {r \in DOMAIN repositories : repositories[r].tal = t}
RoaObjectsOf(r) == {o \in DOMAIN objects : objects[o].repository = r /\ objects[o].type = "roa"}

One(rows) == IF rows = {} THEN 0 ELSE CHOOSE row \in rows : TRUE

(* collect_all and collect_tals: the trust anchors that can be downloaded, *)
(* with the rows there are for them; two rows where one is looked for end  *)
(* the collection, which has then changed nothing.                         *)
BeginCollection(answers) ==
  LET names == {name \in DOMAIN answers : Downloaded(answers[name])}
      objectsFor(name) == UNION {RoaObjectsOf(r) : r \in
        UNION {RepositoriesOf(t) : t \in TalsNamed(name)}} IN
  /\ collection = <<>> /\ collections < MaxCollections
  /\ \A name \in names :
       Cardinality(TalsNamed(name)) <= 1 /\ Cardinality(objectsFor(name)) <= 1
  /\ collection' = <<[name \in names |->
       [tal |-> One(TalsNamed(name)), object |-> One(objectsFor(name)), at |-> tick]]>>
  /\ UNCHANGED <<tals, repositories, objects, collected, collections, tick, calls>>

(* _match_tal_for_roa: the name itself, or else the first that is part of  *)
(* the spelling or of which the spelling is part.                          *)
MatchTal(anchor, names) ==
  IF anchor \in names THEN <<anchor>>
  ELSE LET partly == EntriesAt(TalSources,
                       {i \in DOMAIN TalSources : TalSources[i] \in names \cap Partly[anchor]})
       IN IF partly = <<>> THEN <<>> ELSE <<Head(partly)>>

\* Mutant of DeriveVrps: the trust anchor of the first ROA stands in all.
DeriveVrpsFirst(roas, named) ==
  [i \in DOMAIN roas |->
     [prefix |-> roas[i].prefix, origin |-> roas[i].origin, max |-> roas[i].max,
      roa |-> i, anchor |-> named[roas[1].tal]]]

(* derive_vrps_from_roas                                                   *)
DeriveVrps(roas, named) ==
  [i \in DOMAIN roas |->
     [prefix |-> roas[i].prefix, origin |-> roas[i].origin, max |-> roas[i].max,
      roa |-> i, anchor |-> named[roas[i].tal]]]

(* collect_bgp_announcements: a target whose request fails is left out.    *)
CollectRoutes(answered) ==
  FlattenSeq([i \in DOMAIN Targets |->
    IF Targets[i] \notin answered THEN <<>>
    ELSE [j \in DOMAIN RoutesOf[Targets[i]] |->
            [prefix |-> RoutesOf[Targets[i]][j], origin |-> Targets[i]]]])

(* collect_roas: so is a ROA of a trust anchor that was not downloaded.    *)
CollectRoas(answered, names, talOf, objectOf) ==
  FlattenSeq([i \in DOMAIN Targets |->
    IF Targets[i] \notin answered THEN <<>>
    ELSE LET records == RoasOf[Targets[i]]
             matched == EntriesAt(records,
                          {j \in DOMAIN records : MatchTal(records[j].anchor, names) # <<>>}) IN
         [j \in DOMAIN matched |->
            LET name == MatchTal(matched[j].anchor, names)[1] IN
            [prefix |-> matched[j].prefix, origin |-> matched[j].origin,
             max |-> MaxLength(matched[j]), tal |-> talOf[name], object |-> objectOf[name]]]])

(* What collect_tals adds, for what it found: the trust anchors without a  *)
(* row and those without an object, and the rows each then has.            *)
FreshTals(found) ==
  EntriesAt(TalSources,
    {i \in DOMAIN TalSources : TalSources[i] \in DOMAIN found /\ found[TalSources[i]].tal = 0})
BareTals(found) ==
  EntriesAt(TalSources,
    {i \in DOMAIN TalSources : TalSources[i] \in DOMAIN found /\ found[TalSources[i]].object = 0})

PlaceOf(name, list) == CHOOSE i \in DOMAIN list : list[i] = name

TalOf(found) == [name \in DOMAIN found |->
  IF found[name].tal # 0 THEN found[name].tal ELSE Len(tals) + PlaceOf(name, FreshTals(found))]
ObjectOf(found) == [name \in DOMAIN found |->
  IF found[name].object # 0 THEN found[name].object ELSE Len(objects) + PlaceOf(name, BareTals(found))]
RepositoryOf(found, name) ==
  IF found[name].tal # 0 THEN One(RepositoriesOf(found[name].tal))
  ELSE Len(repositories) + PlaceOf(name, FreshTals(found))
NamesOf(found) ==
  [t \in {TalOf(found)[name] : name \in DOMAIN found} |->
     CHOOSE name \in DOMAIN found : TalOf(found)[name] = t]

(* The rest of collect_all, with the rows that collect_tals has added: a   *)
(* trust anchor it found is active again, one it did not find comes with a *)
(* repository, and each has an object its ROAs belong to.                  *)
CommitCollection(routesFrom, roasFrom) ==
  LET found == collection[1]
      fresh == FreshTals(found)
      bare == BareTals(found)
      routes == CollectRoutes({a \in DOMAIN RoutesOf : Answered(routesFrom[a])})
      roas == CollectRoas({a \in DOMAIN RoasOf : Answered(roasFrom[a])}, DOMAIN found,
                          TalOf(found), ObjectOf(found))
  IN
  /\ collection # <<>> /\ collection' = <<>>
  /\ Len(tals) + Len(fresh) <= MaxTals
  /\ tals' = [t \in DOMAIN tals |->
                IF \E name \in DOMAIN found : found[name].tal = t
                THEN [tals[t] EXCEPT !.status = "active"] ELSE tals[t]]
             \o [i \in DOMAIN fresh |->
                   [name |-> fresh[i], status |-> "active", own |-> TRUE]]
  /\ repositories' = repositories \o [i \in DOMAIN fresh |->
       [tal |-> TalOf(found)[fresh[i]], protocol |-> "rrdp", sync |-> "success",
        synced |-> found[fresh[i]].at]]
  /\ objects' = objects \o [i \in DOMAIN bare |->
       [repository |-> RepositoryOf(found, bare[i]), type |-> "roa", own |-> TRUE]]
  /\ collected' =
       [roas |-> roas, vrps |-> DeriveVrps(roas, NamesOf(found)),
        announcements |-> [i \in DOMAIN routes |-> Judged(routes[i], roas)]]
  /\ collections' = collections + 1
  /\ UNCHANGED <<tick, calls>>

(* Any exception outside the loops over targets, and any error of the      *)
(* database within, rolls all of it back.                                  *)
AbortCollection ==
  /\ collection # <<>> /\ collection' = <<>>
  /\ UNCHANGED <<tals, repositories, objects, collected, collections, tick, calls>>

-----------------------------------------------------------------------------
(* rpki_sync_service, and what else writes these tables.                   *)

(* init_tal: names may repeat.                                             *)
InitTal(name) ==
  /\ Len(tals) < MaxTals
  /\ tals' = Append(tals, [name |-> name, status |-> "active", own |-> FALSE])
  /\ repositories' = Append(repositories,
       [tal |-> Len(tals) + 1, protocol |-> "rrdp", sync |-> "pending", synced |-> Never])
  /\ UNCHANGED <<objects, collected, collections, collection, tick>>

Locked(t) == collection # <<>> /\ \E name \in DOMAIN collection[1] : collection[1][name].tal = t

(* delete_tal: it is disabled, and its repositories stay as they are.      *)
DeleteTal(t) ==
  /\ t \in DOMAIN tals /\ tals[t].status = "active" /\ ~Locked(t)
  /\ tals' = [tals EXCEPT ![t].status = "disabled"]
  /\ UNCHANGED <<repositories, objects, collected, collections, collection, tick>>

(* sync_repository: _sync_rrdp_repository asks for the notification and    *)
(* takes any answer, or none, for a success; "running" is not committed.   *)
SyncOutcome(protocol) == IF protocol \in {"rrdp", "rsync"} THEN "success" ELSE "failed"
Synced(repository) ==
  [repository EXCEPT !.sync = SyncOutcome(repository.protocol),
                     !.synced = IF SyncOutcome(repository.protocol) = "success" THEN tick ELSE @]

(* sync_tal: the first repository of the trust anchor.                     *)
SyncTal(t) ==
  /\ t \in DOMAIN tals /\ RepositoriesOf(t) # {}
  /\ LET r == CHOOSE r \in RepositoriesOf(t) : \A s \in RepositoriesOf(t) : r <= s IN
     repositories' = [repositories EXCEPT ![r] = Synced(@)]
  /\ UNCHANGED <<tals, objects, collected, collections, collection, tick>>

(* sync_all_repositories: repositories are never disabled.                 *)
SyncAll ==
  /\ repositories # <<>>
  /\ repositories' = [r \in DOMAIN repositories |-> Synced(repositories[r])]
  /\ UNCHANGED <<tals, objects, collected, collections, collection, tick>>

(* A ROA that a change request creates gets an object of its own in some   *)
(* repository.                                                             *)
CreateLocalRoa(r) ==
  /\ r \in DOMAIN repositories
  /\ objects' = Append(objects, [repository |-> r, type |-> "roa", own |-> FALSE])
  /\ UNCHANGED <<tals, repositories, collected, collections, collection, tick>>

SyncsAge ==
  /\ tick' = tick + 1
  /\ UNCHANGED <<tals, repositories, objects, collected, collections, collection>>

SupplyNext ==
  \/ \E answers \in [{TalSources[i] : i \in DOMAIN TalSources} -> TalResponses] :
       BeginCollection(answers)
  \/ \E routesFrom \in [DOMAIN RoutesOf -> ApiResponses], roasFrom \in [DOMAIN RoasOf -> ApiResponses] :
       CommitCollection(routesFrom, roasFrom)
  \/ AbortCollection
  \/ /\ calls < MaxCalls /\ calls' = calls + 1
     /\ \/ \E i \in DOMAIN TalSources : InitTal(TalSources[i])
        \/ \E t \in DOMAIN tals : DeleteTal(t) \/ SyncTal(t)
        \/ SyncAll
        \/ \E r \in DOMAIN repositories : CreateLocalRoa(r)
        \/ SyncsAge

-----------------------------------------------------------------------------
(* Health.                                                                 *)
StaleRepositories ==
  {r \in DOMAIN repositories :
     repositories[r].synced # Never /\ tick - repositories[r].synced > StaleAfter}

(* check_sync_health                                                       *)
SyncHealthy ==
  StaleRepositories = {} /\ \A r \in DOMAIN repositories : repositories[r].sync # "failed"

(* check_repository_health                                                 *)
RepositoryHealthy(r) ==
  CASE repositories[r].sync = "failed" -> FALSE
    [] repositories[r].sync = "running" -> TRUE
    [] OTHER -> repositories[r].synced # Never /\ tick - repositories[r].synced <= StaleAfter

(* get_overall_health; no cache is ever entered in rpki_caches.            *)
OverallHealthy == \A r \in DOMAIN repositories : RepositoryHealthy(r)

-----------------------------------------------------------------------------
CanonicalRoas(roas) == EntriesAt(roas, {i \in DOMAIN roas : Canonical(roas[i].prefix)})

(* WHOLE: whichever downloads and requests failed, a committed collection  *)
(* has a VRP for each of its ROAs, equal to it and under the name of the   *)
(* trust anchor whose repository holds the ROA's object; and every         *)
(* announcement has the status that the ROAs of the same collection give   *)
(* it, those whose prefix is spelt with host bits left aside.              *)
CollectionsWhole ==
  LET roas == collected.roas
      vrps == collected.vrps IN
  /\ DOMAIN vrps = DOMAIN roas
  /\ \A i \in DOMAIN roas :
       /\ vrps[i].roa = i /\ vrps[i].prefix = roas[i].prefix
       /\ vrps[i].origin = roas[i].origin /\ vrps[i].max = roas[i].max
       /\ vrps[i].anchor = tals[roas[i].tal].name
       /\ repositories[objects[roas[i].object].repository].tal = roas[i].tal
  /\ \A i \in DOMAIN collected.announcements :
       LET route == collected.announcements[i] IN
       route.status = ComputedStatus(route.prefix, route.origin, CanonicalRoas(roas))

(* NO OWN DUPLICATES: the searches that fail on two rows find at most one  *)
(* that a collection has made, whatever was disabled, added, synced or     *)
(* created between its reading and its commit, and before.                 *)
NoOwnDuplicates ==
  /\ \A t, u \in DOMAIN tals :
       t # u /\ tals[t].own /\ tals[u].own => tals[t].name # tals[u].name
  /\ \A o, p \in DOMAIN objects :
       o # p /\ objects[o].own /\ objects[p].own => objects[o].repository # objects[p].repository

(* HEALTH AGREES: the two reports differ in nothing but the repositories   *)
(* that were never synced, which one of them leaves aside.                 *)
HealthAgrees ==
  OverallHealthy <=>
    SyncHealthy /\ \A r \in DOMAIN repositories : repositories[r].synced # Never

SupplySound == CollectionsWhole /\ NoOwnDuplicates /\ HealthAgrees

(* COVERING AGREES: the tree of prefix_tree.py is faithful, and on the     *)
(* same prefixes, spelt without host bits, the collector's dictionary      *)
(* finds what the tree does.                                               *)
CoveringAgrees ==
  /\ TreeFaithful
  /\ (\A i \in DOMAIN hung : Canonical(hung[i].prefix)) =>
       \A query \in Spelt :
         DataOf(FindCovering(query, hung)) = DataOf(FindCovering(Network(query), hung))
           /\ \A data \in Data :
                CountOf(DataOf(FindCovering(query, hung)), data) = CountOf(Lookup(query), data)
==============================================================================
