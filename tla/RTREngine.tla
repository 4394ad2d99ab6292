------------------------------ MODULE RTREngine ------------------------------
(***************************************************************************)
(* The RTR TCP engine of core/rtr_server.py and the routers that talk to   *)
(* it.  Every element of Engines is one RTRServerEngine object.  The       *)
(* operators that the service layer calls (Bind, Run, Publish, ...) give   *)
(* the next value of the variables; the actions a connection or a router   *)
(* takes by itself are complete.                                           *)
(*                                                                         *)
(* A VRP is an opaque value; Malformed holds those whose encoding raises   *)
(* ValueError (encode_vrp builds "prefix/length" from a prefix that        *)
(* already contains a length, or finds max_length < prefix_length).        *)
(* Routers are external: they keep the data of the last complete response, *)
(* apply the announcements that answer a Serial Query to what they hold,   *)
(* replace everything after a Reset Query, and owe a query (owes) when they *)
(* connect, are notified, or had to drop their data.                       *)
(***************************************************************************)
EXTENDS Integers, FiniteSets

CONSTANTS
  Engines,     \* engine objects the process may construct
  Routers,     \* RTR clients
  Vrp,         \* validated ROA payloads
  Malformed,   \* those of Vrp that encode_vrp rejects
  Settings,    \* [port, session, whitelist, mtls]: constructor arguments
  Ops,         \* service calls that may be in flight
  MaxSerial,   \* bound on serial numbers
  None

ASSUME EngineAssumption ==
  /\ Malformed \subseteq Vrp
  /\ None \notin Engines /\ None \notin Routers /\ None \notin Ops
  /\ MaxSerial \in Nat
  /\ \A s \in Settings : /\ s.whitelist \subseteq Routers
                         /\ s.mtls \in BOOLEAN
                         /\ s.session \in Nat \ {None} /\ s.port \in Nat

VARIABLES
  engines,   \* engine -> [state, settings, vrps, serial]
  conn,      \* router -> its connection: [engine, phase, reply, last, due, owes]
  held,      \* router -> what it holds: [session, serial, vrps]
  served     \* history variable: every [session, serial, vrps] sent whole

evars == <<engines, conn, held, served>>

Serials == 0..MaxSerial
EngineStates == {"closed", "bound", "running", "closing"}
Phases == {"off", "idle", "reset", "serial", "draining"}

NoReply == [vrps |-> {}, serial |-> 0, full |-> FALSE]
Off     == [engine |-> None, phase |-> "off", reply |-> NoReply,
            last |-> None, due |-> {}, owes |-> FALSE]
Fresh(e) == [Off EXCEPT !.engine = e, !.phase = "idle", !.owes = TRUE]
NoData  == [session |-> None, serial |-> 0, vrps |-> {}]

EngineType == [state : EngineStates, settings : Settings,
               vrps : SUBSET Vrp, serial : Serials]
ReplyType  == [vrps : SUBSET Vrp, serial : Serials, full : BOOLEAN]
ConnType   == [engine : Engines \union {None}, phase : Phases, reply : ReplyType,
               last : Serials \union {None}, due : SUBSET Ops, owes : BOOLEAN]
HeldType   == [session : Nat \union {None}, serial : Serials, vrps : SUBSET Vrp]
ServedType == [session : Nat, serial : Serials, vrps : SUBSET Vrp]

TypeOKEngine ==
  /\ engines \in [Engines -> EngineType]
  /\ conn \in [Routers -> ConnType]
  /\ held \in [Routers -> HeldType]
  /\ served \subseteq ServedType

InitEngine ==
  /\ \E s \in Settings :
       engines = [e \in Engines |-> [state |-> "closed", settings |-> s,
                                     vrps |-> {}, serial |-> 0]]
  /\ conn = [r \in Routers |-> Off]
  /\ held = [r \in Routers |-> NoData]
  /\ served = {}

-----------------------------------------------------------------------------
(* What the service layer calls. *)

Listening(e) == engines[e].state # "closed"
Running(e)   == engines[e].state = "running"
Port(e)      == engines[e].settings.port
PortFree(p)  == \A e \in Engines : Listening(e) => Port(e) # p
Clients(e)   == {r \in Routers : conn[r].engine = e}

(* The constructor, update_vrps with the row's serial and the first half of
   start: the socket listens, _running is still False. *)
Bind(e, s, vrps, serial) ==
  engines' = [engines EXCEPT ![e] = [state |-> "bound", settings |-> s,
                                     vrps |-> vrps, serial |-> serial]]

(* start resumes after asyncio.start_server. *)
Run(e) == engines' = [engines EXCEPT ![e].state = "running"]

\* Mutant of Publish: the snapshot of clients is empty, nobody is notified.
PublishSilently(o, e, vrps, serial) ==
  /\ engines' = [engines EXCEPT ![e].vrps = vrps, ![e].serial = serial]
  /\ UNCHANGED conn

(* update_vrps(vrps, serial), then the snapshot of the clients that
   notify_clients(serial) takes for call o before its first await. *)
Publish(o, e, vrps, serial) ==
  /\ engines' = [engines EXCEPT ![e].vrps = vrps, ![e].serial = serial]
  /\ conn' = [r \in Routers |->
                IF conn[r].engine = e
                THEN [conn[r] EXCEPT !.due = @ \union {o}] ELSE conn[r]]

(* notify_clients writes the Serial Notify of call o to router r. *)
Notify(o, r) ==
  /\ o \in conn[r].due
  /\ conn' = [conn EXCEPT ![r].due = @ \ {o}, ![r].owes = TRUE]

(* writer.close by the stop call o: a transport whose response is not read yet
   stays until that is flushed. *)
Shut(o, c) == IF c.phase = "draining" THEN [c EXCEPT !.due = @ \ {o}] ELSE Off

\* Mutant of StopEngine: the snapshot of clients is taken once it was cleared.
StopForgetsClients(o, e, first) ==
  /\ engines' = [engines EXCEPT ![e].state = IF first = None THEN "closed" ELSE "closing"]
  /\ conn' = [r \in Routers |-> IF r = first THEN Shut(o, conn[r]) ELSE conn[r]]

(* stop up to its first await, for call o: _running is cleared, the clients are
   copied, and the first of them is closed.  Without clients the server socket
   is closed at once. *)
StopEngine(o, e, first) ==
  /\ engines' = [engines EXCEPT ![e].state = IF first = None THEN "closed" ELSE "closing"]
  /\ conn' = [r \in Routers |->
                CASE r = first -> Shut(o, conn[r])
                  [] r # first /\ conn[r].engine = e ->
                       [conn[r] EXCEPT !.due = @ \union {o}]
                  [] OTHER -> conn[r]]

(* The server socket is closed. *)
CloseEngine(e) == engines' = [engines EXCEPT ![e].state = "closed"]

-----------------------------------------------------------------------------
(* Connections: _handle_client_wrapper, handle_client and process_query. *)

(* check_whitelist and check_mtls.  No TLS context is given to start_server,
   so the peer certificate is None and mtls_enabled refuses everyone. *)
Admits(e, r) ==
  LET s == engines[e].settings
  IN  /\ s.whitelist = {} \/ r \in s.whitelist
      /\ ~s.mtls

Connect(r, e) ==
  /\ conn[r].engine = None
  /\ Running(e) /\ Admits(e, r)
  /\ conn' = [conn EXCEPT ![r] = Fresh(e)]
  /\ UNCHANGED <<engines, held, served>>

(* The router closes or loses the connection; handle_client's finally block
   removes the client. *)
Disconnect(r) ==
  /\ conn[r].engine # None
  /\ conn' = [conn EXCEPT ![r] = Off]
  /\ UNCHANGED <<engines, held, served>>

(* The router sends a Reset Query or, when it holds data, a Serial Query. *)
Query(r) ==
  /\ conn[r].phase = "idle"
  /\ \E kind \in {"reset", "serial"} :
       /\ kind = "serial" => held[r].session # None
       /\ conn' = [conn EXCEPT ![r].phase = kind, ![r].owes = FALSE]
  /\ UNCHANGED <<engines, held, served>>

(* process_query up to the drain in send_vrps.  Both query types are answered
   with the whole VRP set; the set and the serial are read together. *)
Respond(r) ==
  LET e == conn[r].engine
      asked == IF conn[r].phase = "serial" THEN held[r].serial ELSE conn[r].last
  IN  /\ conn[r].phase \in {"reset", "serial"}
      /\ engines[e].vrps \intersect Malformed = {}
      /\ conn' = [conn EXCEPT ![r].phase = "draining", ![r].last = asked,
                    ![r].reply = [vrps |-> engines[e].vrps, serial |-> engines[e].serial,
                                  full |-> conn[r].phase = "reset"]]
      /\ served' = served \union
           {[session |-> engines[e].settings.session,
             serial |-> engines[e].serial, vrps |-> engines[e].vrps]}
      /\ UNCHANGED <<engines, held>>

(* encode_vrps raises after the Cache Response was written: the client gets
   an Error Report and no End of Data.  The handler reads on while _running. *)
RespondError(r) ==
  LET asked == IF conn[r].phase = "serial" THEN held[r].serial ELSE conn[r].last
  IN  /\ conn[r].phase \in {"reset", "serial"}
      /\ engines[conn[r].engine].vrps \intersect Malformed # {}
      /\ conn' = [conn EXCEPT ![r] = IF Running(conn[r].engine)
                                     THEN [conn[r] EXCEPT !.phase = "idle", !.last = asked]
                                     ELSE Off]
      /\ UNCHANGED <<engines, held, served>>

(* What a router makes of a complete response of session id s. *)
Apply(h, reply, s) ==
  IF reply.full THEN [session |-> s, serial |-> reply.serial, vrps |-> reply.vrps]
  ELSE IF h.session = s
       THEN [session |-> s, serial |-> reply.serial, vrps |-> h.vrps \union reply.vrps]
       ELSE NoData

\* Mutant of Drained: the serial of End of Data is read after the drain.
DrainedLate(r) ==
  LET e == conn[r].engine
      late == [conn[r].reply EXCEPT !.serial = engines[e].serial]
  IN  /\ conn[r].phase = "draining" /\ Running(e)
      /\ held' = [held EXCEPT ![r] = Apply(held[r], late, engines[e].settings.session)]
      /\ conn' = [conn EXCEPT ![r].phase = "idle", ![r].reply = NoReply,
                              ![r].last = engines[e].serial]
      /\ UNCHANGED <<engines, served>>

(* The router has read the response and the drain returns: process_query
   then stores _current_serial as it is now.  The handler of an engine being
   stopped ends instead. *)
Drained(r) ==
  LET e == conn[r].engine
  IN  /\ conn[r].phase = "draining"
      /\ held' = [held EXCEPT ![r] = Apply(held[r], conn[r].reply,
                                           engines[e].settings.session)]
      /\ conn' = [conn EXCEPT ![r] =
                    IF Running(e)
                    THEN [conn[r] EXCEPT !.phase = "idle", !.reply = NoReply,
                                         !.last = engines[e].serial,
                                         !.owes = @ \/ held'[r] = NoData]
                    ELSE Off]
      /\ UNCHANGED <<engines, served>>

ConnStep(r) == Respond(r) \/ RespondError(r) \/ Drained(r)
RouterStep(r) == Query(r) \/ Disconnect(r) \/ \E e \in Engines : Connect(r, e)
EngineNext == \E r \in Routers : ConnStep(r) \/ RouterStep(r)
=============================================================================
