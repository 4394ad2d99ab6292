------------------------------- MODULE Sources -------------------------------
(***************************************************************************)
(* Where announcements come from: services/bgp_collector_service.py, which *)
(* keeps the data sources in a table and the tasks that collect from them  *)
(* in a dictionary of the process, with the data source the collection of  *)
(* real data adds; and what bgp_storage_service.py makes of a batch.       *)
(*                                                                         *)
(* A call reads its row, and other calls run until it commits, and again   *)
(* until it goes on.  It writes the columns that it changed, if any.       *)
(***************************************************************************)
EXTENDS Integers, Sequences, FiniteSets

CONSTANTS
  Controllers,   \* calls in progress together
  MaxSources,    \* bounds the data sources ever created
  MaxControls,   \* bounds the calls that start, stop, update or delete one
  NoTime,        \* model value: an announcement without a timestamp
  Origins,       \* of announcements of one prefix at one observation point
  Stamps,        \* their timestamps
  MaxBatch       \* bounds a batch

ASSUME SourcesAssumption == Stamps \subseteq Nat /\ NoTime \notin Nat

VARIABLES
  sources,       \* bgp_data_sources: id -> status, the rows that exist
  created,       \* the last id given
  running,       \* _running_tasks: the data sources that have a task
  points,        \* observation_points: the data source of each, in order
  controls,      \* per call in progress: [op, source, at, loaded, status, alone]
  begun,         \* calls begun so far
  unlinked,      \* history: sources whose row and task may say different things
  batch          \* the announcements of a batch: [origin, timestamp]

sourceVars == <<sources, created, running, points, controls, begun, unlinked>>
storageVars == <<batch>>

\* f with x mapped to y.
Entered(f, x, y) == [z \in DOMAIN f \cup {x} |-> IF z = x THEN y ELSE f[z]]

SourcesInit ==
  /\ sources = <<>> /\ created = 0 /\ running = {} /\ points = <<>>
  /\ controls = <<>> /\ begun = 0 /\ unlinked = {}

-----------------------------------------------------------------------------
(* create_data_source: disabled.                                           *)
CreateSource ==
  /\ created < MaxSources /\ created' = created + 1
  /\ sources' = Entered(sources, created', "disabled")
  /\ UNCHANGED <<running, points, controls, begun, unlinked>>

(* _get_or_create_data_source and its observation point, by a script that  *)
(* runs in another process: active, and no task collects from it.          *)
CollectorSource ==
  /\ created < MaxSources /\ created' = created + 1
  /\ sources' = Entered(sources, created', "active")
  /\ points' = Append(points, created')
  /\ unlinked' = unlinked \cup {created'}
  /\ UNCHANGED <<running, controls, begun>>

(* create_observation_point                                                *)
CreatePoint(s) ==
  /\ s \in DOMAIN sources /\ Len(points) < MaxSources
  /\ points' = Append(points, s)
  /\ UNCHANGED <<sources, created, running, controls, begun, unlinked>>

(* get_data_source, with which each of the calls begins.                   *)
Begin(c, op, s, status) ==
  /\ c \notin DOMAIN controls /\ s \in DOMAIN sources
  /\ begun < MaxControls /\ begun' = begun + 1
  /\ LET others == {d \in DOMAIN controls : controls[d].source = s}
         first == CASE op = "stop" -> "pop" [] op = "delete" -> "look" [] OTHER -> "write"
         call == [op |-> op, source |-> s, at |-> first, loaded |-> sources[s],
                  status |-> status, alone |-> others = {}]
     IN controls' = Entered([d \in DOMAIN controls |->
                               IF d \in others THEN [controls[d] EXCEPT !.alone = FALSE]
                               ELSE controls[d]], c, call)
  /\ UNCHANGED <<sources, created, running, points, unlinked>>

Over(c) == controls' = [d \in DOMAIN controls \ {c} |-> controls[d]]
GoesTo(c, step) == controls' = [controls EXCEPT ![c].at = step]
At(c, step) == c \in DOMAIN controls /\ controls[c].at = step

\* The row and the task agree after a call that ran alone, and may not after others.
Linked(c) == IF controls[c].alone THEN unlinked \ {controls[c].source}
             ELSE unlinked \cup {controls[c].source}

(* The rest of start_data_source: the row is written, for the time of the  *)
(* connection changes always; then the task is registered.                 *)
StartWrite(c) ==
  /\ At(c, "write") /\ controls[c].op = "start"
  /\ LET s == controls[c].source IN
     IF s \in DOMAIN sources
     THEN sources' = [sources EXCEPT ![s] = "active"] /\ GoesTo(c, "register") /\ UNCHANGED unlinked
     ELSE Over(c) /\ unlinked' = unlinked \cup {s} /\ UNCHANGED sources
  /\ UNCHANGED <<created, running, points, begun>>

StartRegister(c) ==
  /\ At(c, "register") /\ Over(c)
  /\ running' = running \cup {controls[c].source}
  /\ unlinked' = Linked(c)
  /\ UNCHANGED <<sources, created, points, begun>>

\* Mutant of StopPop: the task stays registered.
StopPopNothing(c) ==
  /\ At(c, "pop") /\ GoesTo(c, "write")
  /\ UNCHANGED <<sources, created, running, points, begun, unlinked>>

(* The rest of stop_data_source, on its own or within a deletion.          *)
StopPop(c) ==
  /\ At(c, "pop") /\ GoesTo(c, "write")
  /\ running' = running \ {controls[c].source}
  /\ UNCHANGED <<sources, created, points, begun, unlinked>>

StopWrite(c) ==
  /\ At(c, "write") /\ controls[c].op \in {"stop", "delete"}
  /\ LET s == controls[c].source
         changed == controls[c].loaded # "disabled"
         failed == changed /\ s \notin DOMAIN sources IN
     /\ sources' = IF changed /\ ~failed THEN [sources EXCEPT ![s] = "disabled"] ELSE sources
     /\ IF controls[c].op = "delete" /\ ~failed
        THEN GoesTo(c, "remove") /\ UNCHANGED unlinked
        ELSE Over(c) /\ unlinked' = Linked(c)
  /\ UNCHANGED <<created, running, points, begun>>

(* delete_data_source: with a task it stops the source first, which it     *)
(* reads again and leaves alone when the row has gone.                     *)
DeleteLook(c) ==
  /\ At(c, "look")
  /\ LET s == controls[c].source IN
     GoesTo(c, IF s \in running /\ s \in DOMAIN sources THEN "pop" ELSE "remove")
  /\ UNCHANGED <<sources, created, running, points, begun, unlinked>>

(* The observation points go with the row; a row that has gone is no error.*)
DeleteRemove(c) ==
  /\ At(c, "remove") /\ Over(c)
  /\ LET s == controls[c].source IN
     /\ sources' = [t \in DOMAIN sources \ {s} |-> sources[t]]
     /\ points' = SelectSeq(points, LAMBDA p : p # s)
  /\ unlinked' = Linked(c)
  /\ UNCHANGED <<created, running, begun>>

(* The rest of update_data_source: the caller may give any status.         *)
UpdateWrite(c) ==
  /\ At(c, "write") /\ controls[c].op = "update" /\ Over(c)
  /\ LET s == controls[c].source
         changed == controls[c].loaded # controls[c].status /\ s \in DOMAIN sources IN
     /\ sources' = IF changed THEN [sources EXCEPT ![s] = controls[c].status] ELSE sources
     /\ unlinked' = IF changed \/ ~controls[c].alone THEN unlinked \cup {s} ELSE unlinked
  /\ UNCHANGED <<created, running, points, begun>>

(* The process ends and starts again: with it go the tasks and the calls.  *)
RestartCollector ==
  /\ running \cup DOMAIN controls # {}
  /\ running' = {} /\ controls' = <<>>
  /\ unlinked' = unlinked \cup 1 .. created
  /\ UNCHANGED <<sources, created, points, begun>>

SourcesNext ==
  \/ CreateSource \/ CollectorSource \/ RestartCollector
  \/ \E s \in DOMAIN sources : CreatePoint(s)
  \/ \E c \in Controllers :
       \/ \E s \in DOMAIN sources :
            \/ \E op \in {"start", "stop", "delete"} : Begin(c, op, s, sources[s])
            \/ \E status \in {"active", "disabled", "error"} : Begin(c, "update", s, status)
       \/ StartWrite(c) \/ StartRegister(c) \/ StopPop(c) \/ StopWrite(c)
       \/ DeleteLook(c) \/ DeleteRemove(c) \/ UpdateWrite(c)

SourcesSpec == SourcesInit /\ [][SourcesNext]_sourceVars

(* get_data_source_status; what start registers is an id, and nothing      *)
(* collects under it yet.                                                  *)
Reported(s) == [active |-> sources[s] = "active", is_running |-> s \in running]

-----------------------------------------------------------------------------
(* deduplicate_announcements, for one prefix and observation point: which  *)
(* of the batch is kept for an origin.                                     *)
\* Mutant of Supersedes: a record of the same time takes the place as well.
SupersedesEqual(old, new) ==
  \/ old.timestamp = NoTime
  \/ new.timestamp # NoTime /\ new.timestamp >= old.timestamp

Supersedes(old, new) ==
  \/ old.timestamp = NoTime
  \/ new.timestamp # NoTime /\ new.timestamp > old.timestamp

\* The place in the batch of the one that is kept, 0 while there is none.
Seen(origin) ==
  LET seen[n \in 0 .. Len(batch)] ==
        IF n = 0 THEN 0
        ELSE IF /\ batch[n].origin = origin
                /\ seen[n - 1] # 0 => Supersedes(batch[seen[n - 1]], batch[n])
             THEN n ELSE seen[n - 1]
  IN seen[Len(batch)]

StorageInit == batch = <<>>

Receive(ann) == Len(batch) < MaxBatch /\ batch' = Append(batch, ann)

StorageNext ==
  \E origin \in Origins, timestamp \in Stamps \cup {NoTime} :
    Receive([origin |-> origin, timestamp |-> timestamp])

-----------------------------------------------------------------------------
(* TASKS FOLLOW ROWS: the two answers of get_data_source_status agree, a   *)
(* source is reported active just when it is reported running, and none is *)
(* running of a source that was deleted: from each start, stop or deletion *)
(* that ran alone, until calls for the source overlap, its status is       *)
(* written by update_data_source, or the process ends.  Of other times     *)
(* nothing is said, since they do disagree then, and nothing of whether    *)
(* data come in: start and stop are placeholders (TODO at 199 and 233).    *)
TasksFollowRows ==
  \A s \in (1 .. created) \ unlinked :
    (\A c \in DOMAIN controls : controls[c].source # s) =>
      IF s \in DOMAIN sources THEN Reported(s).active = Reported(s).is_running ELSE s \notin running

(* NEWEST KEPT: of the announcements of a batch that an origin made of one *)
(* prefix at one observation point, and of which some have a timestamp,    *)
(* the first of the newest is kept, in whichever order they come.  Batches *)
(* are not compared with one another.                                      *)
NewestKept ==
  \A origin \in {batch[i].origin : i \in DOMAIN batch} :
    LET kept == Seen(origin)
        timed == {i \in DOMAIN batch : batch[i].origin = origin /\ batch[i].timestamp # NoTime} IN
    timed # {} =>
      /\ kept \in timed
      /\ \A i \in timed : batch[i].timestamp <= batch[kept].timestamp
      /\ \A i \in timed : batch[i].timestamp = batch[kept].timestamp => kept <= i
=============================================================================
