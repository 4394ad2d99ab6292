----------------------------- MODULE RTRService ------------------------------
(***************************************************************************)
(* services/rtr_service.py for one RTR server: its row in rtr_servers, the *)
(* serial history, the pool _running_engines, and the service calls that   *)
(* act on them.  Calls run concurrently in one event loop; each element of *)
(* Ops is one call in flight, split at its awaits: op[o].pc names the      *)
(* await the call is suspended in.  Every call reads the row first and     *)
(* keeps that copy (op[o].seen); what it commits later is only what it     *)
(* changed against that copy.                                              *)
(***************************************************************************)
EXTENDS RTREngine, Sequences

CONSTANTS
  Kinds,        \* which service calls are made
  MaxHistory,   \* bound on rows of rtr_serial_histories
  MaxCrashes,   \* bound on process crashes
  NoRow

AllKinds == {"start", "stop", "delete", "update", "rollback", "config"}

ASSUME ServiceAssumption ==
  /\ Kinds \subseteq AllKinds
  /\ IsFiniteSet(Vrp)
  /\ MaxHistory \in Nat /\ MaxCrashes \in Nat

VARIABLES
  row,       \* the row: [settings, status, serial, count], or NoRow once deleted
  history,   \* serial numbers of rtr_serial_histories, in insertion order
  table,     \* rows of the vrps table with validation_status "valid"
  pool,      \* _running_engines.get(server_id)
  op,        \* call -> [kind, pc, seen, want, vrps, engine, at]
  crashes,   \* number of crashes so far
  current    \* history variable: table unchanged since a call last loaded it

svars == <<row, history, table, pool, op, crashes, current>>
vars == <<engines, conn, held, served, row, history, table, pool, op, crashes, current>>

Statuses == {"stopped", "running", "error"}
PCs == {"idle", "check", "pop", "bind", "register", "close", "failed", "target",
        "load", "apply", "notify", "commit", "record", "delete"}
RowType == [settings : Settings, status : Statuses, serial : Serials, count : Nat]
CallType == [kind : Kinds \union {None}, pc : PCs,
             seen : RowType \union {NoRow}, want : RowType \union {NoRow},
             vrps : SUBSET Vrp, engine : Engines \union {None},
             at : Routers \union {None}]

ASSUME RowAssumption == NoRow \notin RowType

Idle == [kind |-> None, pc |-> "idle", seen |-> NoRow, want |-> NoRow,
         vrps |-> {}, engine |-> None, at |-> None]

TypeOK ==
  /\ TypeOKEngine
  /\ row \in RowType \union {NoRow}
  /\ history \in Seq(Serials)
  /\ table \subseteq Vrp
  /\ pool \in Engines \union {None}
  /\ op \in [Ops -> CallType]
  /\ crashes \in 0..MaxCrashes
  /\ current \in BOOLEAN

(* create_rtr_server: the row as inserted. *)
Init ==
  /\ InitEngine
  /\ \E s \in Settings :
       row = [settings |-> s, status |-> "stopped", serial |-> 0, count |-> 0]
  /\ history = << >>
  /\ table \in SUBSET Vrp
  /\ pool = None
  /\ op = [o \in Ops |-> Idle]
  /\ crashes = 0
  /\ current = FALSE

-----------------------------------------------------------------------------
At(o, pc)    == op[o].pc = pc
Kind(o, ks)  == op[o].kind \in ks
Goto(o, pc)  == op' = [op EXCEPT ![o].pc = pc]
Finish(o)    == op' = [op EXCEPT ![o] = Idle]
InUse(e)     == Listening(e) \/ \E o \in Ops : op[o].engine = e
Deleted      == row = NoRow
Updating     == {o \in Ops : Kind(o, {"update", "rollback"})}

(* The session's flush: an UPDATE of the attributes whose value differs from
   the loaded one.  The commit fails when the row is gone. *)
Flush(seen, want) ==
  [f \in DOMAIN row |-> IF want[f] # seen[f] THEN want[f] ELSE row[f]]

UnchangedEngine == UNCHANGED evars
UnchangedDB     == UNCHANGED <<row, history, table, crashes>>

(* A call begins: get_rtr_server, which must find the row. *)
Begin(o, k) ==
  LET next == CASE k = "start" -> "check" [] k = "stop" -> "pop"
                [] k = "delete" -> "check" [] k = "update" -> "load"
                [] k = "rollback" -> "target" [] k = "config" -> "commit"
  IN  /\ At(o, "idle") /\ ~Deleted
      /\ k \in {"update", "rollback"} =>
           row.serial < MaxSerial /\ Len(history) + Cardinality(Updating) < MaxHistory
      /\ \E s \in IF k = "config" THEN Settings ELSE {row.settings} :
           op' = [op EXCEPT ![o] = [Idle EXCEPT !.kind = k, !.pc = next, !.seen = row,
                                                !.want = [row EXCEPT !.settings = s]]]
      /\ UNCHANGED <<pool, current>> /\ UnchangedDB /\ UnchangedEngine

(* update_rtr_server commits; the running engine keeps its settings. *)
ConfigCommit(o) ==
  /\ At(o, "commit") /\ Kind(o, {"config"})
  /\ row' = IF Deleted THEN row ELSE Flush(op[o].seen, op[o].want)
  /\ Finish(o)
  /\ UNCHANGED <<history, table, pool, crashes, current>> /\ UnchangedEngine

-----------------------------------------------------------------------------
(* start_rtr_server *)

\* Mutant of StartCheck: the engine starts with an empty VRP list.
StartCheckEmpty(o) ==
  /\ At(o, "check") /\ Kind(o, {"start"})
  /\ IF pool # None
     THEN Finish(o) /\ UNCHANGED current
     ELSE Goto(o, "bind") /\ current' = TRUE
  /\ UNCHANGED pool /\ UnchangedDB /\ UnchangedEngine

StartCheck(o) ==
  /\ At(o, "check") /\ Kind(o, {"start"})
  /\ IF pool # None
     THEN Finish(o) /\ UNCHANGED current
     ELSE /\ op' = [op EXCEPT ![o].pc = "bind", ![o].vrps = table]
          /\ current' = TRUE
  /\ UNCHANGED pool /\ UnchangedDB /\ UnchangedEngine

\* Mutant of StartBind: the port may be shared (reuse_port).
StartBindShared(o) ==
  /\ At(o, "bind")
  /\ \E e \in Engines :
       /\ ~InUse(e)
       /\ Bind(e, op[o].seen.settings, op[o].vrps, op[o].seen.serial)
       /\ op' = [op EXCEPT ![o].pc = "register", ![o].engine = e]
  /\ UNCHANGED <<pool, current, conn, held, served>> /\ UnchangedDB

\* Mutant of StartBind: a new engine counts its serials from 0.
StartBindZero(o) ==
  /\ At(o, "bind")
  /\ PortFree(op[o].seen.settings.port)
  /\ \E e \in Engines :
       /\ ~InUse(e)
       /\ Bind(e, op[o].seen.settings, op[o].vrps, 0)
       /\ op' = [op EXCEPT ![o].pc = "register", ![o].engine = e]
  /\ UNCHANGED <<pool, current, conn, held, served>> /\ UnchangedDB

StartBind(o) ==
  /\ At(o, "bind")
  /\ PortFree(op[o].seen.settings.port)
  /\ \E e \in Engines :
       /\ ~InUse(e)
       /\ Bind(e, op[o].seen.settings, op[o].vrps, op[o].seen.serial)
       /\ op' = [op EXCEPT ![o].pc = "register", ![o].engine = e]
  /\ UNCHANGED <<pool, current, conn, held, served>> /\ UnchangedDB

StartBindFails(o) ==
  /\ At(o, "bind")
  /\ ~PortFree(op[o].seen.settings.port)
  /\ op' = [op EXCEPT ![o].pc = "failed", ![o].want.status = "error"]
  /\ UNCHANGED <<pool, current>> /\ UnchangedDB /\ UnchangedEngine

StartFailedCommit(o) ==
  /\ At(o, "failed")
  /\ row' = IF Deleted THEN row ELSE Flush(op[o].seen, op[o].want)
  /\ Finish(o)
  /\ UNCHANGED <<history, table, pool, crashes, current>> /\ UnchangedEngine

\* Mutant of StartRegister: the row is not marked running.
StartRegisterQuiet(o) ==
  /\ At(o, "register")
  /\ Run(op[o].engine)
  /\ pool' = op[o].engine
  /\ Goto(o, "commit")
  /\ UNCHANGED <<current, conn, held, served>> /\ UnchangedDB

StartRegister(o) ==
  /\ At(o, "register")
  /\ Run(op[o].engine)
  /\ pool' = op[o].engine
  /\ op' = [op EXCEPT ![o].pc = "commit", ![o].want.status = "running",
                      ![o].want.count = Cardinality(op[o].vrps)]
  /\ UNCHANGED <<current, conn, held, served>> /\ UnchangedDB

StartCommit(o) ==
  /\ At(o, "commit") /\ Kind(o, {"start"})
  /\ row' = IF Deleted THEN row ELSE Flush(op[o].seen, op[o].want)
  /\ Finish(o)
  /\ UNCHANGED <<history, table, pool, crashes, current>> /\ UnchangedEngine

-----------------------------------------------------------------------------
(* stop_rtr_server, also as called by delete_rtr_server *)

\* Mutant of StopPop: the engine leaves the pool and is never stopped.
StopPopOnly(o) ==
  /\ At(o, "pop")
  /\ op' = [op EXCEPT ![o].pc = "commit", ![o].want.status = "stopped"]
  /\ pool' = None
  /\ UNCHANGED current /\ UnchangedEngine /\ UnchangedDB

StopPop(o) ==
  /\ At(o, "pop") /\ pool # None
  /\ \E first \in IF Clients(pool) = {} THEN {None} ELSE Clients(pool) :
       /\ StopEngine(o, pool, first)
       /\ op' = [op EXCEPT ![o].pc = IF first = None THEN "commit" ELSE "close",
                           ![o].engine = IF first = None THEN None ELSE pool,
                           ![o].at = first, ![o].want.status = "stopped"]
  /\ pool' = None
  /\ UNCHANGED <<current, held, served>> /\ UnchangedDB

StopNothing(o) ==
  /\ At(o, "pop") /\ pool = None
  /\ op' = [op EXCEPT ![o].pc = "commit", ![o].want.status = "stopped"]
  /\ UNCHANGED <<pool, current>> /\ UnchangedDB /\ UnchangedEngine

\* Mutant of DrainedAt: the wait is for the router's answer to a notification.
AnsweredAt(o) ==
  \A r \in Routers : r = op[o].at /\ conn[r].engine = op[o].engine
                      => conn[r].phase # "draining" /\ ~conn[r].owes

(* wait_closed or drain has returned for the client last closed or notified. *)
DrainedAt(o) ==
  \A r \in Routers : r = op[o].at /\ conn[r].engine = op[o].engine
                      => conn[r].phase # "draining"

(* The next client of the copy is closed once the one before is gone. *)
CloseOne(o, r) ==
  /\ At(o, "close") /\ DrainedAt(o)
  /\ o \in conn[r].due
  /\ conn' = [conn EXCEPT ![r] = Shut(o, conn[r])]
  /\ op' = [op EXCEPT ![o].at = r]
  /\ UNCHANGED <<pool, current, engines, held, served>> /\ UnchangedDB

(* After the last of them, the server socket. *)
StopClose(o) ==
  /\ At(o, "close") /\ DrainedAt(o)
  /\ \A r \in Routers : o \notin conn[r].due
  /\ CloseEngine(op[o].engine)
  /\ op' = [op EXCEPT ![o].pc = "commit", ![o].engine = None, ![o].at = None]
  /\ UNCHANGED <<pool, current, conn, held, served>> /\ UnchangedDB

StopCommit(o) ==
  /\ At(o, "commit") /\ Kind(o, {"stop", "delete"})
  /\ row' = IF Deleted THEN row ELSE Flush(op[o].seen, op[o].want)
  /\ IF Kind(o, {"delete"}) /\ ~Deleted THEN Goto(o, "delete") ELSE Finish(o)
  /\ UNCHANGED <<history, table, pool, crashes, current>> /\ UnchangedEngine

\* Mutant of DeleteCheck: the running engine is not looked for.
DeleteUnchecked(o) ==
  /\ At(o, "check") /\ Kind(o, {"delete"})
  /\ Goto(o, "delete")
  /\ UNCHANGED <<pool, current>> /\ UnchangedDB /\ UnchangedEngine

(* delete_rtr_server looks into the pool; stop_rtr_server, which it then
   calls, reads the row again and raises when it is gone. *)
DeleteCheck(o) ==
  /\ At(o, "check") /\ Kind(o, {"delete"})
  /\ CASE pool = None            -> Goto(o, "delete")
       [] pool # None /\ Deleted -> Finish(o)
       [] OTHER                  -> Goto(o, "pop")
  /\ UNCHANGED <<pool, current>> /\ UnchangedDB /\ UnchangedEngine

(* The row and, by ON DELETE CASCADE, its serial history go. *)
DeleteCommit(o) ==
  /\ At(o, "delete")
  /\ row' = NoRow
  /\ history' = << >>
  /\ Finish(o)
  /\ UNCHANGED <<table, pool, crashes, current>> /\ UnchangedEngine

-----------------------------------------------------------------------------
(* update_vrps and rollback_serial *)

(* rollback_serial looks for a history row of the target serial. *)
RollbackTarget(o) ==
  /\ At(o, "target")
  /\ \/ history # << >> /\ Goto(o, "load")
     \/ Finish(o)
  /\ UNCHANGED <<pool, current>> /\ UnchangedDB /\ UnchangedEngine

LoadVrps(o) ==
  /\ At(o, "load")
  /\ op' = [op EXCEPT ![o].pc = "apply", ![o].vrps = table]
  /\ current' = TRUE
  /\ UNCHANGED pool /\ UnchangedDB /\ UnchangedEngine

\* Mutant of ApplyVrps: the serial is only incremented when the count changed.
ApplyVrpsByCount(o) ==
  LET n == Cardinality(op[o].vrps)
      serial == IF n = op[o].seen.count THEN op[o].seen.serial ELSE op[o].seen.serial + 1
  IN  /\ At(o, "apply")
      /\ op' = [op EXCEPT ![o].pc = IF pool # None THEN "notify" ELSE "commit",
                          ![o].engine = pool, ![o].want.serial = serial,
                          ![o].want.count = n]
      /\ IF pool # None THEN Publish(o, pool, op[o].vrps, serial)
                        ELSE UNCHANGED <<engines, conn>>
      /\ UNCHANGED <<pool, current, held, served>> /\ UnchangedDB

(* The new serial comes from the row as first read. *)
ApplyVrps(o) ==
  LET serial == op[o].seen.serial + 1
  IN  /\ At(o, "apply")
      /\ op' = [op EXCEPT ![o].pc = IF pool # None THEN "notify" ELSE "commit",
                          ![o].engine = pool, ![o].want.serial = serial,
                          ![o].want.count = Cardinality(op[o].vrps)]
      /\ IF pool # None THEN Publish(o, pool, op[o].vrps, serial)
                        ELSE UNCHANGED <<engines, conn>>
      /\ UNCHANGED <<pool, current, held, served>> /\ UnchangedDB

(* notify_clients serves the snapshot one client at a time: the next write
   waits for the drain of the one before. *)
NotifyOne(o, r) ==
  /\ At(o, "notify") /\ DrainedAt(o)
  /\ Notify(o, r)
  /\ op' = [op EXCEPT ![o].at = r]
  /\ UNCHANGED <<pool, current, engines, held, served>> /\ UnchangedDB

NotifyDone(o) ==
  /\ At(o, "notify") /\ DrainedAt(o)
  /\ \A r \in Routers : o \notin conn[r].due
  /\ op' = [op EXCEPT ![o].pc = "commit", ![o].at = None, ![o].engine = None]
  /\ UNCHANGED <<pool, current>> /\ UnchangedDB /\ UnchangedEngine

NotifyStep(o) == NotifyDone(o) \/ \E r \in Routers : NotifyOne(o, r)

UpdateCommit(o) ==
  /\ At(o, "commit") /\ Kind(o, {"update", "rollback"})
  /\ row' = IF Deleted THEN row ELSE Flush(op[o].seen, op[o].want)
  /\ IF Deleted THEN Finish(o) ELSE Goto(o, "record")
  /\ UNCHANGED <<history, table, pool, crashes, current>> /\ UnchangedEngine

(* _record_serial_history, a transaction of its own; the foreign key fails
   when the row is gone. *)
RecordHistory(o) ==
  /\ At(o, "record")
  /\ history' = IF Deleted THEN history ELSE Append(history, op[o].want.serial)
  /\ Finish(o)
  /\ UNCHANGED <<row, table, pool, crashes, current>> /\ UnchangedEngine

-----------------------------------------------------------------------------
(* ROA execution, generate_vrps and the collectors rewrite the vrps table. *)
TableChange ==
  /\ table' \in SUBSET Vrp \ {table}
  /\ current' = FALSE
  /\ UNCHANGED <<row, history, pool, op, crashes>> /\ UnchangedEngine

(* The process dies, or shuts down: lifespan stops no engine and resets no
   row, and the next process starts with an empty pool. *)
Crash ==
  /\ crashes < MaxCrashes
  /\ crashes' = crashes + 1
  /\ engines' = [e \in Engines |-> [engines[e] EXCEPT !.state = "closed"]]
  /\ conn' = [r \in Routers |-> Off]
  /\ pool' = None
  /\ op' = [o \in Ops |-> Idle]
  /\ UNCHANGED <<row, history, table, current, held, served>>

OpStep(o) ==
  \/ StartCheck(o) \/ StartBind(o) \/ StartBindFails(o) \/ StartFailedCommit(o)
  \/ StartRegister(o) \/ StartCommit(o)
  \/ StopPop(o) \/ StopNothing(o) \/ (\E r \in Routers : CloseOne(o, r)) \/ StopClose(o)
  \/ StopCommit(o) \/ DeleteCheck(o) \/ DeleteCommit(o) \/ ConfigCommit(o)
  \/ RollbackTarget(o) \/ LoadVrps(o) \/ ApplyVrps(o)
  \/ NotifyStep(o) \/ UpdateCommit(o) \/ RecordHistory(o)

EngineStep == EngineNext /\ UNCHANGED svars

Next ==
  \/ \E o \in Ops : OpStep(o) \/ \E k \in Kinds : Begin(o, k)
  \/ EngineStep
  \/ TableChange
  \/ Crash

Spec == Init /\ [][Next]_vars

(* The event loop runs every ready task and the database answers; a drain
   that waits is woken the first time its buffer empties, whatever is written
   next, hence strong fairness there.  Nothing makes a router read or ask: no
   wait of the engine has a timeout. *)
Fairness ==
  /\ \A o \in Ops : WF_vars(OpStep(o)) /\ SF_vars(NotifyStep(o))
  /\ \A r \in Routers : WF_vars((Respond(r) \/ RespondError(r)) /\ UNCHANGED svars)
FairSpec == Spec /\ Fairness

-----------------------------------------------------------------------------
(* Properties *)

Quiet == \A o \in Ops : At(o, "idle")

(* Every engine that holds its port is the one in _running_engines, or a start
   or stop call still in flight answers for it: nothing listens that no call
   can stop any more, as long as no settings update moves the port. *)
NoOrphanEngine ==
  \A e \in Engines : Listening(e) =>
    \/ pool = e
    \/ \E o \in Ops : op[o].engine = e /\ op[o].pc \in {"register", "close"}

(* The stop call o still has to close router r, or waits for it to read. *)
WillClose(o, r) ==
  /\ At(o, "close") /\ op[o].engine = conn[r].engine
  /\ o \in conn[r].due \/ (op[o].at = r /\ conn[r].phase = "draining")

(* The engine the service publishes to accepts routers; and a router attached to
   an engine that no longer runs, to which nothing will be published, is one that
   a stop call in flight has still to close: stops that wait for one client after
   another while others query, and that overlap with starts, deletes and lost
   connections, forget no client. *)
PoolServes ==
  /\ pool # None => Running(pool)
  /\ \A r \in Routers : conn[r].engine # None =>
       Running(conn[r].engine) \/ \E o \in Ops : WillClose(o, r)

(* The inductive strengthening of TypeOK, NoOrphanEngine and PoolServes.  What
   a call holds fits the await it is suspended in ... *)
CallOK(o) ==
  /\ ~At(o, "idle") => op[o].seen \in RowType /\ op[o].want \in RowType
  /\ op[o].pc \in {"target", "load", "apply"} => op[o].seen.serial < MaxSerial
  /\ At(o, "register") => op[o].engine # None /\ engines[op[o].engine].state = "bound"
  /\ At(o, "close") => op[o].engine # None /\ engines[op[o].engine].state = "closing"

(* ... an engine between two states belongs to one call, and two engines never
   share a port. *)
Ownership ==
  /\ \A e \in Engines : engines[e].state = "bound" =>
       \E o \in Ops : At(o, "register") /\ op[o].engine = e
  /\ \A e \in Engines : engines[e].state = "closing" =>
       \E o \in Ops : At(o, "close") /\ op[o].engine = e
  /\ \A o, q \in Ops : /\ op[o].pc \in {"register", "close"} /\ op[q].pc \in {"register", "close"}
                        /\ op[o].engine = op[q].engine
                       => o = q
  /\ \A e, f \in Engines : Listening(e) /\ Listening(f) /\ Port(e) = Port(f) => e = f

ConnOK == \A r \in Routers :
  /\ conn[r].engine = None <=> conn[r].phase = "off"
  /\ conn[r].phase = "serial" => held[r].session # None

IInv == TypeOK /\ (\A o \in Ops : CallOK(o)) /\ Ownership /\ ConnOK /\ PoolServes

(* Every settings record names the same port: update_rtr_server moves none. *)
OnePort == \A s, t \in Settings : s.port = t.port

(* As long as no settings update moves the port, a second start cannot bind, so
   only the pool's engine runs, whatever calls overlap.  (With a second port two
   starts that overlap leave an engine that runs outside the pool.) *)
OnlyPoolRuns == \A e \in Engines : Running(e) => pool = e

(* The next five speak of states with no call in flight, and hold while calls do
   not overlap: two updates at once publish one serial twice, and the overlaps
   listed in the README leave the row behind the engine.

   A running engine publishes the serial that the row reports
   (get_rtr_server_status reads one or the other). *)
SerialAgrees ==
  Quiet /\ pool # None /\ ~Deleted => engines[pool].serial = row.serial

(* Unless the vrps table has changed since a call last loaded it,
   check_consistency finds nothing: the engine publishes the table. *)
ContentCurrent == Quiet /\ pool # None /\ current => engines[pool].vrps = table

(* A running engine has a row that says so; and until a crash, after which
   nothing resets the row, a row that says so an engine. *)
StatusHonest ==
  Quiet => /\ pool # None => ~Deleted /\ row.status = "running"
           /\ crashes = 0 /\ ~Deleted /\ row.status = "running" => pool # None

(* A deleted server was stopped first: nothing listens once it is gone. *)
DeletedStopped ==
  Quiet /\ Deleted => \A e \in Engines : ~Listening(e)

(* rtr_serial_histories lists serials of the row in increasing order, and until
   a crash all of them: rollback_serial finds every serial that was published. *)
HistoryComplete ==
  Quiet /\ ~Deleted => /\ \A i \in 1..Len(history) : i <= history[i] /\ history[i] <= row.serial
                       /\ crashes = 0 => /\ Len(history) = row.serial
                                         /\ \A i \in 1..Len(history) : history[i] = i

(* Two complete responses with the same session id and serial carry the same
   VRPs; otherwise a router that holds that serial has no reason to ask again.
   This is what models/rtr.py asks of the session id, which has to change when
   the cache restarts.  The code keeps the id, so that this holds only as long as
   no engine is stopped, deleted or lost and calls do not overlap. *)
SerialIdentifies ==
  \A a, b \in served : a.session = b.session /\ a.serial = b.serial => a.vrps = b.vrps

(* A router that holds the engine's session and serial holds all its VRPs, as
   long as no engine is stopped, deleted or lost and calls do not overlap.  It may
   hold more: a response to a Serial Query withdraws nothing. *)
SyncedCovers ==
  \A r \in Routers :
    LET e == conn[r].engine
    IN  e # None /\ held[r].session = engines[e].settings.session
          /\ held[r].serial = engines[e].serial
        => engines[e].vrps \subseteq held[r].vrps

(* A query is answered by a response that runs from Cache Response to End of
   Data, or the connection ends. *)
AnsweredWhole ==
  [][\A r \in Routers : conn[r].phase \in {"reset", "serial"}
        => conn'[r].phase \in {conn[r].phase, "draining", "off"}]_vars

(* Router r reads what it is sent, or its connection ends; and it sends the
   query that it owes. *)
Reads(r) == []<>(conn[r].phase # "draining")
Asks(r)  == []<>~conn[r].owes

(* As long as every router reads, every call returns: the awaits of notify_clients
   and stop on one client after another never wait for one another. *)
CallsReturn ==
  (\A r \in Routers : Reads(r)) => \A o \in Ops : ~At(o, "idle") ~> At(o, "idle")

(* No notification is lost: where every router reads, one that asks what it owes
   and stays connected to a running engine whose VRPs can all be encoded ends up
   with its serial. *)
Serves(e) == Running(e) /\ engines[e].vrps \intersect Malformed = {}
RoutersConverge ==
  (\A r \in Routers : Reads(r)) =>
    \A r \in Routers, e \in Engines :
      Asks(r) /\ <>[](conn[r].engine = e /\ Serves(e))
        => <>[](held[r].serial = engines[e].serial /\ held[r].session # None)
=============================================================================
