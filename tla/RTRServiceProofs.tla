--------------------------- MODULE RTRServiceProofs ---------------------------
(***************************************************************************)
(* Theorems about RTRService for any number of calls, engines, routers and *)
(* VRPs: type correctness, PoolServes, and, when no update moves the port, *)
(* NoOrphanEngine, which follow from the inductive invariant IInv; then,   *)
(* where calls do not overlap, what row, engine, history and routers have  *)
(* of one another, from SeqInv and RouterInv.                              *)
(***************************************************************************)
EXTENDS RTRService, FiniteSetTheorems, TLAPS

(* The number of VRPs loaded is a natural number. *)
LEMMA CountNat == ASSUME NEW S \in SUBSET Vrp PROVE Cardinality(S) \in Nat
  BY FS_Subset, FS_CardinalityType, ServiceAssumption

(* A commit of values of the row's type leaves a row of that type. *)
LEMMA FlushType ==
  ASSUME row \in RowType, NEW seen \in RowType, NEW want \in RowType
  PROVE  Flush(seen, want) \in RowType
  BY DEF Flush, RowType

(* The initial states satisfy the invariant. *)
LEMMA InitInv == Init => IInv
<1> SUFFICES ASSUME Init PROVE IInv
  OBVIOUS
<1>1. TypeOK
  <2>1. engines \in [Engines -> EngineType]
    BY EngineAssumption DEF Init, InitEngine, EngineType, EngineStates, Serials
  <2>2. Off \in ConnType /\ NoData \in HeldType
    BY EngineAssumption DEF Off, NoReply, NoData, ConnType, ReplyType, HeldType, Phases, Serials
  <2>3. TypeOKEngine
    BY <2>1, <2>2 DEF Init, InitEngine, TypeOKEngine
  <2>4. Idle \in CallType
    BY DEF Idle, CallType, PCs
  <2>5. row \in RowType
    BY EngineAssumption DEF Init, RowType, Statuses, Serials
  <2>6. history \in Seq(Serials)
    BY DEF Init
  <2>7. current \in BOOLEAN
    BY DEF Init
  <2>8. crashes \in 0..MaxCrashes
    BY ServiceAssumption DEF Init
  <2>9. op \in [Ops -> CallType]
    BY <2>4 DEF Init
  <2>10. table \subseteq Vrp /\ pool \in Engines \union {None}
    BY DEF Init
  <2> QED
    BY <2>3, <2>5, <2>6, <2>7, <2>8, <2>9, <2>10 DEF TypeOK
<1>2. Ownership
  BY DEF Init, InitEngine, Ownership, Idle, Listening
<1>3. ConnOK /\ PoolServes /\ \A o \in Ops : CallOK(o)
  BY DEF Init, InitEngine, ConnOK, PoolServes, CallOK, At, Idle, Off
<1> QED
  BY <1>1, <1>2, <1>3 DEF IInv

-----------------------------------------------------------------------------
(* Type correctness, action by action.  A call record keeps its type. *)
LEMMA CallsTyped ==
  ASSUME op \in [Ops -> CallType], NEW o \in Ops, NEW c \in CallType,
         op' = [op EXCEPT ![o] = c]
  PROVE  op' \in [Ops -> CallType]
  OBVIOUS

LEMMA BeginType ==
  ASSUME IInv, NEW o \in Ops, NEW k \in Kinds, Begin(o, k)
  PROVE  TypeOK'
<1>1. row \in RowType
  BY DEF IInv, TypeOK, Begin, Deleted
<1>2. PICK s \in Settings, n \in PCs :
        op' = [op EXCEPT ![o] = [Idle EXCEPT !.kind = k, !.pc = n, !.seen = row,
                                             !.want = [row EXCEPT !.settings = s]]]
  BY <1>1, ServiceAssumption DEF Begin, PCs, RowType, AllKinds
<1>3. [row EXCEPT !.settings = s] \in RowType
  BY <1>1 DEF RowType
<1>4. [Idle EXCEPT !.kind = k, !.pc = n, !.seen = row,
                   !.want = [row EXCEPT !.settings = s]] \in CallType
  BY <1>1, <1>2, <1>3 DEF Idle, CallType
<1>5. op' \in [Ops -> CallType]
  BY <1>2, <1>4 DEF IInv, TypeOK
<1> QED
  BY <1>5 DEF IInv, TypeOK, TypeOKEngine, Begin, UnchangedDB, UnchangedEngine, evars

(* Moving a call to another await, or ending it, keeps every call typed. *)
LEMMA GotoType ==
  ASSUME op \in [Ops -> CallType], NEW o \in Ops, NEW pc \in PCs, Goto(o, pc)
  PROVE  op' \in [Ops -> CallType]
<1>1. [op[o] EXCEPT !.pc = pc] \in CallType
  BY DEF CallType
<1> QED
  BY <1>1 DEF Goto

LEMMA FinishType ==
  ASSUME op \in [Ops -> CallType], NEW o \in Ops, Finish(o)
  PROVE  op' \in [Ops -> CallType]
<1>1. Idle \in CallType
  BY DEF Idle, CallType, PCs
<1> QED
  BY <1>1 DEF Finish

(* What a suspended call carries. *)
LEMMA Carries ==
  ASSUME IInv, NEW o \in Ops, ~At(o, "idle")
  PROVE  /\ op[o] \in CallType
         /\ op[o].seen \in RowType /\ op[o].want \in RowType
         /\ op[o].vrps \subseteq Vrp
  BY DEF IInv, TypeOK, CallOK, CallType

(* The row after a commit of call o. *)
LEMMA CommitType ==
  ASSUME IInv, NEW o \in Ops, ~At(o, "idle"),
         row' = IF Deleted THEN row ELSE Flush(op[o].seen, op[o].want)
  PROVE  row' \in RowType \union {NoRow}
<1>1. row \in RowType \union {NoRow}
  BY DEF IInv, TypeOK
<1>2. CASE Deleted
  BY <1>1, <1>2 DEF Deleted
<1>3. CASE ~Deleted
  BY <1>1, <1>3, Carries, FlushType DEF Deleted
<1> QED
  BY <1>2, <1>3

(* Actions that touch neither an engine nor a connection. *)
LEMMA RowStepType ==
  ASSUME IInv, NEW o \in Ops,
         \/ ConfigCommit(o) \/ StartCheck(o) \/ StartBindFails(o) \/ StartFailedCommit(o)
         \/ StartCommit(o) \/ StopNothing(o) \/ StopCommit(o) \/ DeleteCheck(o)
         \/ DeleteCommit(o) \/ RollbackTarget(o) \/ LoadVrps(o) \/ NotifyDone(o) \/ UpdateCommit(o)
         \/ RecordHistory(o)
  PROVE  TypeOK'
<1> USE DEF At
<1>1. op \in [Ops -> CallType] /\ TypeOKEngine /\ pool \in Engines \union {None}
      /\ row \in RowType \union {NoRow} /\ history \in Seq(Serials)
      /\ table \subseteq Vrp /\ crashes \in 0..MaxCrashes /\ current \in BOOLEAN
  BY DEF IInv, TypeOK
<1>2. TypeOKEngine' /\ pool' \in Engines \union {None}
      /\ table' \subseteq Vrp /\ crashes' \in 0..MaxCrashes
  BY <1>1 DEF TypeOKEngine, ConfigCommit, StartCheck, StartBindFails, StartFailedCommit,
       StartCommit, StopNothing, StopCommit, DeleteCheck, DeleteCommit, RollbackTarget, LoadVrps,
       NotifyDone, UpdateCommit, RecordHistory, UnchangedDB, UnchangedEngine, evars
<1>3. current' \in BOOLEAN
  BY <1>1 DEF ConfigCommit, StartCheck, StartBindFails, StartFailedCommit,
       StartCommit, StopNothing, StopCommit, DeleteCheck, DeleteCommit, RollbackTarget, LoadVrps,
       NotifyDone, UpdateCommit, RecordHistory
<1>4. row' \in RowType \union {NoRow}
  BY <1>1, CommitType DEF ConfigCommit, StartCheck, StartBindFails, StartFailedCommit,
       StartCommit, StopNothing, StopCommit, DeleteCheck, DeleteCommit, RollbackTarget, LoadVrps,
       NotifyDone, UpdateCommit, RecordHistory, UnchangedDB
<1>5. history' \in Seq(Serials)
  <2>1. CASE RecordHistory(o)
    <3>1. op[o].want.serial \in Serials
      BY <2>1, Carries DEF RecordHistory, RowType
    <3> QED
      BY <1>1, <2>1, <3>1 DEF RecordHistory
  <2>2. CASE DeleteCommit(o)
    BY <2>2 DEF DeleteCommit
  <2>3. CASE ~RecordHistory(o) /\ ~DeleteCommit(o)
    BY <1>1, <2>3 DEF ConfigCommit, StartCheck, StartBindFails, StartFailedCommit,
       StartCommit, StopNothing, StopCommit, DeleteCheck, RollbackTarget, LoadVrps,
       NotifyDone, UpdateCommit, UnchangedDB
  <2> QED
    BY <2>1, <2>2, <2>3
<1>6. op' \in [Ops -> CallType]
  <2>1. CASE ConfigCommit(o) \/ StartFailedCommit(o) \/ StartCommit(o) \/ DeleteCommit(o)
             \/ RecordHistory(o)
    BY <1>1, <2>1, FinishType DEF ConfigCommit, StartFailedCommit, StartCommit,
         DeleteCommit, RecordHistory
  <2>2. CASE StopCommit(o) \/ DeleteCheck(o) \/ RollbackTarget(o) \/ UpdateCommit(o)
    BY <1>1, <2>2, FinishType, GotoType DEF StopCommit, DeleteCheck, RollbackTarget,
         UpdateCommit, PCs
  <2>3. CASE StartCheck(o)
    <3>1. [op[o] EXCEPT !.pc = "bind", !.vrps = table] \in CallType
      BY <1>1 DEF CallType, PCs
    <3> QED
      BY <1>1, <2>3, <3>1, FinishType DEF StartCheck
  <2>4. CASE StartBindFails(o)
    <3>1. [op[o].want EXCEPT !.status = "error"] \in RowType
      BY <2>4, Carries DEF StartBindFails, RowType, Statuses
    <3>2. [op[o] EXCEPT !.pc = "failed", !.want = [@ EXCEPT !.status = "error"]] \in CallType
      BY <1>1, <3>1 DEF CallType, PCs
    <3> QED
      BY <1>1, <2>4, <3>2 DEF StartBindFails
  <2>7. CASE StopNothing(o)
    <3>1. [op[o].want EXCEPT !.status = "stopped"] \in RowType
      BY <2>7, Carries DEF StopNothing, RowType, Statuses
    <3>2. [op[o] EXCEPT !.pc = "commit", !.want = [@ EXCEPT !.status = "stopped"]] \in CallType
      BY <1>1, <3>1 DEF CallType, PCs
    <3> QED
      BY <1>1, <2>7, <3>2 DEF StopNothing
  <2>5. CASE LoadVrps(o)
    <3>1. [op[o] EXCEPT !.pc = "apply", !.vrps = table] \in CallType
      BY <1>1 DEF CallType, PCs
    <3> QED
      BY <1>1, <2>5, <3>1 DEF LoadVrps
  <2>6. CASE NotifyDone(o)
    <3>1. [op[o] EXCEPT !.pc = "commit", !.at = None, !.engine = None] \in CallType
      BY <1>1 DEF CallType, PCs
    <3> QED
      BY <1>1, <2>6, <3>1 DEF NotifyDone
  <2> QED
    BY <2>1, <2>2, <2>3, <2>4, <2>5, <2>6, <2>7
<1> QED
  BY <1>2, <1>3, <1>4, <1>5, <1>6 DEF TypeOK

(* A transport that is closed, or about to be, is a connection. *)
LEMMA ShutType ==
  ASSUME NEW o \in Ops, NEW c \in ConnType PROVE Shut(o, c) \in ConnType
<1>1. Off \in ConnType
  BY EngineAssumption DEF Off, NoReply, ConnType, ReplyType, Phases, Serials
<1> QED
  BY <1>1 DEF Shut, ConnType

(* Actions of calls that act on an engine. *)
LEMMA EngineCallType ==
  ASSUME IInv, NEW o \in Ops,
         \/ StartBind(o) \/ StartRegister(o) \/ StopPop(o) \/ StopClose(o) \/ ApplyVrps(o)
         \/ \E r \in Routers : CloseOne(o, r) \/ NotifyOne(o, r)
  PROVE  TypeOK'
<1>1. op \in [Ops -> CallType] /\ engines \in [Engines -> EngineType]
      /\ conn \in [Routers -> ConnType] /\ pool \in Engines \union {None}
  BY DEF IInv, TypeOK, TypeOKEngine
<1>2. ~At(o, "idle")
  BY DEF At, StartBind, StartRegister, StopPop, CloseOne, StopClose, ApplyVrps, NotifyOne
<1>3. /\ op[o] \in CallType /\ op[o].seen \in RowType /\ op[o].want \in RowType
      /\ op[o].vrps \subseteq Vrp
  BY <1>2, Carries
<1>4. /\ held' \in [Routers -> HeldType] /\ served' \subseteq ServedType
      /\ row' \in RowType \union {NoRow} /\ history' \in Seq(Serials)
      /\ table' \subseteq Vrp /\ crashes' \in 0..MaxCrashes
  BY DEF IInv, TypeOK, TypeOKEngine, StartBind, StartRegister, StopPop, CloseOne, StopClose,
       ApplyVrps, NotifyOne, UnchangedDB
<1>5. current' \in BOOLEAN
  BY DEF IInv, TypeOK, StartBind, StartRegister, StopPop, CloseOne, StopClose, ApplyVrps,
       NotifyOne
<1>6. /\ engines' \in [Engines -> EngineType] /\ conn' \in [Routers -> ConnType]
      /\ op' \in [Ops -> CallType] /\ pool' \in Engines \union {None}
  <2>1. CASE StartBind(o)
    <3>1. PICK e \in Engines :
            /\ Bind(e, op[o].seen.settings, op[o].vrps, op[o].seen.serial)
            /\ op' = [op EXCEPT ![o].pc = "register", ![o].engine = e]
      BY <2>1 DEF StartBind
    <3>2. [state |-> "bound", settings |-> op[o].seen.settings, vrps |-> op[o].vrps,
           serial |-> op[o].seen.serial] \in EngineType
      BY <1>3 DEF EngineType, EngineStates, RowType
    <3>3. engines' \in [Engines -> EngineType]
      BY <1>1, <3>1, <3>2 DEF Bind
    <3>4. [op[o] EXCEPT !.pc = "register", !.engine = e] \in CallType
      BY <1>3 DEF CallType, PCs
    <3> QED
      BY <1>1, <2>1, <3>1, <3>3, <3>4 DEF StartBind
  <2>2. CASE StartRegister(o)
    <3>1. op[o].engine \in Engines
      BY <1>3, <2>2 DEF StartRegister, IInv, CallOK, At, CallType
    <3>2. engines' \in [Engines -> EngineType]
      BY <1>1, <2>2, <3>1 DEF StartRegister, Run, EngineType, EngineStates
    <3>3. [op[o].want EXCEPT !.status = "running", !.count = Cardinality(op[o].vrps)] \in RowType
      BY <1>3, CountNat DEF RowType, Statuses
    <3>4. [op[o] EXCEPT !.pc = "commit", !.want =
             [@ EXCEPT !.status = "running", !.count = Cardinality(op[o].vrps)]] \in CallType
      BY <1>3, <3>3 DEF CallType, PCs
    <3> QED
      BY <1>1, <2>2, <3>1, <3>2, <3>4 DEF StartRegister
  <2>3. CASE StopPop(o)
    <3>1. [op[o].want EXCEPT !.status = "stopped"] \in RowType
      BY <1>3 DEF RowType, Statuses
    <3>2. PICK first \in Routers \union {None} :
            /\ StopEngine(o, pool, first)
            /\ op' = [op EXCEPT ![o].pc = IF first = None THEN "commit" ELSE "close",
                                ![o].engine = IF first = None THEN None ELSE pool,
                                ![o].at = first, ![o].want.status = "stopped"]
      BY <2>3 DEF StopPop, Clients
    <3>3. \A pc \in PCs, e \in Engines \union {None} :
            [op[o] EXCEPT !.pc = pc, !.engine = e, !.at = first,
                          !.want = [@ EXCEPT !.status = "stopped"]] \in CallType
      BY <1>3, <3>1 DEF CallType
    <3> DEFINE pc == IF first = None THEN "commit" ELSE "close"
               e == IF first = None THEN None ELSE pool
    <3>4. pc \in PCs /\ e \in Engines \union {None}
      BY <1>1 DEF PCs
    <3>5. op' = [op EXCEPT ![o].pc = pc, ![o].engine = e, ![o].at = first,
                           ![o].want.status = "stopped"]
      BY <3>2
    <3>6. op' \in [Ops -> CallType]
      <4> HIDE DEF pc, e
      <4>1. [op[o] EXCEPT !.pc = pc, !.engine = e, !.at = first,
                          !.want = [@ EXCEPT !.status = "stopped"]] \in CallType
        BY <3>3, <3>4
      <4> QED
        BY <1>1, <3>5, <4>1
    <3>7. engines' \in [Engines -> EngineType]
      BY <1>1, <3>2 DEF StopEngine, EngineType, EngineStates
    <3>8. conn' \in [Routers -> ConnType]
      <4>1. \A r \in Routers : [conn[r] EXCEPT !.due = @ \union {o}] \in ConnType
        BY <1>1 DEF ConnType
      <4> QED
        BY <1>1, <3>2, <4>1, ShutType DEF StopEngine
    <3> QED
      BY <2>3, <3>6, <3>7, <3>8 DEF StopPop
  <2>7. CASE \E r \in Routers : CloseOne(o, r)
    <3>1. PICK r \in Routers : CloseOne(o, r)
      BY <2>7
    <3>2. [op[o] EXCEPT !.at = r] \in CallType
      BY <1>3 DEF CallType
    <3> QED
      BY <1>1, <3>1, <3>2, ShutType DEF CloseOne
  <2>4. CASE StopClose(o)
    <3>1. [op[o] EXCEPT !.pc = "commit", !.engine = None, !.at = None] \in CallType
      BY <1>3 DEF CallType, PCs
    <3> QED
      BY <1>1, <2>4, <3>1 DEF StopClose, CloseEngine, EngineType, EngineStates
  <2>5. CASE ApplyVrps(o)
    <3>1. op[o].seen.serial + 1 \in Serials
      BY <1>3, <2>5, EngineAssumption DEF ApplyVrps, IInv, CallOK, At, RowType, Serials
    <3>2. [op[o].want EXCEPT !.serial = op[o].seen.serial + 1,
                             !.count = Cardinality(op[o].vrps)] \in RowType
      BY <1>3, <3>1, CountNat DEF RowType
    <3>3. \A pc \in PCs : [op[o] EXCEPT !.pc = pc, !.engine = pool,
             !.want = [@ EXCEPT !.serial = op[o].seen.serial + 1,
                                !.count = Cardinality(op[o].vrps)]] \in CallType
      BY <1>1, <1>3, <3>2 DEF CallType
    <3> DEFINE c == [op[o] EXCEPT !.pc = IF pool # None THEN "notify" ELSE "commit",
                       !.engine = pool,
                       !.want = [@ EXCEPT !.serial = op[o].seen.serial + 1,
                                          !.count = Cardinality(op[o].vrps)]]
    <3>6. c \in CallType
      BY <3>3 DEF PCs
    <3>7. op' = [op EXCEPT ![o] = c]
      BY <1>1, <2>5 DEF ApplyVrps
    <3>4. op' \in [Ops -> CallType]
      BY <1>1, <3>6, <3>7
    <3>5. CASE pool # None
      <4>1. engines' \in [Engines -> EngineType]
        BY <1>1, <1>3, <2>5, <3>1, <3>5 DEF ApplyVrps, Publish, EngineType
      <4>2. \A k \in ConnType : [k EXCEPT !.due = @ \union {o}] \in ConnType
        BY DEF ConnType
      <4>3. conn' \in [Routers -> ConnType]
        BY <1>1, <2>5, <3>5, <4>2 DEF ApplyVrps, Publish
      <4> QED
        BY <1>1, <2>5, <3>4, <4>1, <4>3 DEF ApplyVrps
    <3> QED
      BY <1>1, <2>5, <3>4, <3>5 DEF ApplyVrps
  <2>6. CASE \E r \in Routers : NotifyOne(o, r)
    <3>1. PICK r \in Routers : NotifyOne(o, r)
      BY <2>6
    <3>2. [op[o] EXCEPT !.at = r] \in CallType
      BY <1>3 DEF CallType
    <3>3. [conn[r] EXCEPT !.due = @ \ {o}, !.owes = TRUE] \in ConnType
      BY <1>1 DEF ConnType
    <3> QED
      BY <1>1, <3>1, <3>2, <3>3 DEF NotifyOne, Notify
  <2> QED
    BY <2>1, <2>2, <2>3, <2>4, <2>5, <2>6, <2>7
<1> QED
  BY <1>4, <1>5, <1>6 DEF TypeOK, TypeOKEngine

(* Steps of connections and routers, the table, and the crash. *)
LEMMA OtherType ==
  ASSUME IInv, EngineStep \/ TableChange \/ Crash
  PROVE  TypeOK'
<1>1. TypeOK /\ TypeOKEngine /\ Off \in ConnType
  BY EngineAssumption DEF IInv, TypeOK, Off, NoReply, ConnType, ReplyType, Phases, Serials
<1>2. CASE TableChange
  BY <1>1, <1>2 DEF TableChange, TypeOK, TypeOKEngine, UnchangedEngine, evars
<1>3. CASE Crash
  <2>1. engines' \in [Engines -> EngineType] /\ conn' \in [Routers -> ConnType]
    BY <1>1, <1>3 DEF Crash, TypeOKEngine, EngineType, EngineStates
  <2>2. Idle \in CallType
    BY DEF Idle, CallType, PCs
  <2>3. op' \in [Ops -> CallType] /\ crashes' \in 0..MaxCrashes
    BY <1>1, <1>3, <2>2, ServiceAssumption DEF Crash, TypeOK
  <2> QED
    BY <1>1, <1>3, <2>1, <2>3 DEF Crash, TypeOK, TypeOKEngine
<1>4. CASE EngineStep
  <2>1. PICK r \in Routers : ConnStep(r) \/ RouterStep(r)
    BY <1>4 DEF EngineStep, EngineNext
  <2>2. UNCHANGED svars
    BY <1>4 DEF EngineStep
  <2>3. conn[r] \in ConnType /\ held[r] \in HeldType
    BY <1>1 DEF TypeOKEngine
  <2>4. conn[r].phase # "off" => conn[r].engine \in Engines
    BY <2>3 DEF IInv, ConnOK, ConnType
  <2>5. ASSUME NEW e \in Engines
        PROVE  engines[e] \in EngineType /\ engines[e].settings.session \in Nat
    BY <1>1, EngineAssumption DEF TypeOKEngine, EngineType
  <2>6. TypeOKEngine'
    <3>1. CASE Query(r)
      <4>1. PICK kind \in {"reset", "serial"} :
              conn' = [conn EXCEPT ![r].phase = kind, ![r].owes = FALSE]
        BY <3>1 DEF Query
      <4>2. [conn[r] EXCEPT !.phase = kind, !.owes = FALSE] \in ConnType
        BY <2>3 DEF ConnType, Phases
      <4> QED
        BY <1>1, <3>1, <4>1, <4>2 DEF Query, TypeOKEngine
    <3>2. CASE Disconnect(r)
      BY <1>1, <3>2 DEF Disconnect, TypeOKEngine
    <3>3. CASE \E e \in Engines : Connect(r, e)
      <4>1. PICK e \in Engines : Connect(r, e)
        BY <3>3
      <4>2. Fresh(e) \in ConnType
        BY <1>1 DEF Fresh, Off, ConnType, Phases
      <4> QED
        BY <1>1, <4>1, <4>2 DEF Connect, TypeOKEngine
    <3>4. CASE Respond(r) \/ RespondError(r)
      <4> DEFINE e == conn[r].engine
      <4>1. e \in Engines /\ engines[e] \in EngineType /\ engines[e].settings.session \in Nat
        BY <2>4, <2>5, <3>4 DEF Respond, RespondError
      <4>2. [vrps |-> engines[e].vrps, serial |-> engines[e].serial,
             full |-> conn[r].phase = "reset"] \in ReplyType
        BY <4>1 DEF ReplyType, EngineType
      <4>3. held[r].serial \in Serials /\ conn[r].last \in Serials \union {None}
        BY <2>3 DEF ConnType, HeldType
      <4>4. conn' \in [Routers -> ConnType]
        <5>1. CASE Respond(r)
          BY <1>1, <2>3, <4>2, <4>3, <5>1 DEF Respond, TypeOKEngine, ConnType, Phases
        <5>2. CASE RespondError(r)
          <6>1. Off \in ConnType
            BY <1>1 DEF Off, ConnType, Phases
          <6>2. \A n \in Serials \union {None} :
                  [conn[r] EXCEPT !.phase = "idle", !.last = n] \in ConnType
            BY <2>3 DEF ConnType, Phases
          <6> QED
            BY <1>1, <4>3, <5>2, <6>1, <6>2 DEF RespondError, TypeOKEngine
        <5> QED
          BY <3>4, <5>1, <5>2
      <4>5. served' \subseteq ServedType
        BY <1>1, <3>4, <4>1 DEF Respond, RespondError, TypeOKEngine, ServedType, EngineType
      <4> QED
        BY <1>1, <3>4, <4>4, <4>5 DEF Respond, RespondError, TypeOKEngine
    <3>5. CASE Drained(r)
      <4> DEFINE e == conn[r].engine
      <4>1. e \in Engines /\ engines[e] \in EngineType /\ engines[e].settings.session \in Nat
        BY <2>4, <2>5, <3>5 DEF Drained
      <4>2. Apply(held[r], conn[r].reply, engines[e].settings.session) \in HeldType
        BY <2>3, <4>1, EngineAssumption DEF Apply, HeldType, ConnType, ReplyType, NoData, Serials
      <4>3. NoReply \in ReplyType
        BY EngineAssumption DEF NoReply, ReplyType, Serials
      <4>4. \A b \in BOOLEAN : [conn[r] EXCEPT !.phase = "idle", !.reply = NoReply,
              !.last = engines[e].serial, !.owes = b] \in ConnType
        BY <2>3, <4>1, <4>3 DEF ConnType, EngineType, Phases
      <4>5. (conn[r].owes \/ held'[r] = NoData) \in BOOLEAN
        OBVIOUS
      <4>6. conn' \in [Routers -> ConnType]
        BY <1>1, <3>5, <4>4, <4>5 DEF Drained, TypeOKEngine
      <4> QED
        BY <1>1, <3>5, <4>2, <4>6 DEF Drained, TypeOKEngine
    <3> QED
      BY <2>1, <3>1, <3>2, <3>3, <3>4, <3>5 DEF ConnStep, RouterStep
  <2> QED
    BY <1>1, <2>2, <2>6 DEF TypeOK, svars
<1> QED
  BY <1>2, <1>3, <1>4

-----------------------------------------------------------------------------
(* A call's step that changes no engine's state or settings and no connection's
   engine or phase, and starts and ends outside the awaits that own an engine. *)
LEMMA StableStep ==
  ASSUME IInv, TypeOK', NEW o \in Ops,
         \A q \in Ops : q # o => op'[q] = op[q],
         \A e \in Engines : /\ engines'[e].state = engines[e].state
                            /\ engines'[e].settings = engines[e].settings,
         \A r \in Routers : /\ conn'[r].engine = conn[r].engine
                            /\ conn'[r].phase = conn[r].phase
                            /\ \A q \in Ops \ {o} : q \in conn[r].due => q \in conn'[r].due,
         held' = held, pool' = pool,
         op[o].pc \notin {"register", "close"}, op'[o].pc \notin {"register", "close"},
         op'[o].pc # "idle" =>
           op'[o].seen \in RowType /\ op'[o].want \in RowType,
         op'[o].pc \in {"target", "load", "apply"} => op'[o].seen.serial < MaxSerial
  PROVE  IInv'
<1>1. \A q \in Ops : CallOK(q)'
  <2> SUFFICES ASSUME NEW q \in Ops PROVE CallOK(q)'
    OBVIOUS
  <2>1. CASE q = o
    BY <2>1 DEF CallOK, At
  <2>2. CASE q # o
    <3>1. op[q].engine \in Engines \union {None}
      BY DEF IInv, TypeOK, CallType
    <3> QED
      BY <2>2, <3>1 DEF CallOK, At, IInv
  <2> QED
    BY <2>1, <2>2
<1>2. Ownership'
  BY DEF IInv, Ownership, Listening, Port, At
<1>3. ConnOK'
  BY DEF IInv, ConnOK
<1>4. \A e \in Engines : Running(e) => Running(e)'
  BY DEF Running
<1>5. \A r \in Routers, q \in Ops : WillClose(q, r) => WillClose(q, r)'
  <2> SUFFICES ASSUME NEW r \in Routers, NEW q \in Ops, WillClose(q, r) PROVE WillClose(q, r)'
    OBVIOUS
  <2>1. q # o
    BY DEF WillClose, At
  <2> QED
    BY <2>1 DEF WillClose, At
<1>6. PoolServes'
  BY <1>4, <1>5 DEF IInv, PoolServes, TypeOK, TypeOKEngine, ConnType
<1> QED
  BY <1>1, <1>2, <1>3, <1>6 DEF IInv

LEMMA BeginInv ==
  ASSUME IInv, NEW o \in Ops, NEW k \in Kinds, Begin(o, k)
  PROVE  IInv'
<1>1. TypeOK'
  BY BeginType
<1>2. op \in [Ops -> CallType] /\ row \in RowType
  BY DEF IInv, TypeOK, Begin, Deleted
<1>3. PICK s \in Settings, n \in PCs :
        /\ op' = [op EXCEPT ![o] = [Idle EXCEPT !.kind = k, !.pc = n, !.seen = row,
                                                !.want = [row EXCEPT !.settings = s]]]
        /\ n \notin {"register", "close", "apply"}
        /\ n \in {"target", "load"} => k \in {"update", "rollback"}
  BY <1>2, ServiceAssumption DEF Begin, PCs, RowType, AllKinds
<1>4. op'[o] = [Idle EXCEPT !.kind = k, !.pc = n, !.seen = row,
                            !.want = [row EXCEPT !.settings = s]]
  BY <1>2, <1>3
<1>5. op'[o].pc = n /\ op'[o].seen = row /\ op'[o].want \in RowType
  BY <1>2, <1>4 DEF Idle, RowType
<1>6. n \in {"target", "load", "apply"} => row.serial < MaxSerial
  BY <1>3 DEF Begin
<1>7. op[o].pc \notin {"register", "close"} /\ \A q \in Ops : q # o => op'[q] = op[q]
  BY <1>2, <1>3 DEF Begin, At
<1>8. UNCHANGED <<engines, conn, held, pool>>
  BY DEF Begin, UnchangedEngine, evars
<1> QED
  BY <1>1, <1>2, <1>3, <1>5, <1>6, <1>7, <1>8, StableStep

LEMMA RowStepInv ==
  ASSUME IInv, NEW o \in Ops,
         \/ ConfigCommit(o) \/ StartCheck(o) \/ StartBindFails(o) \/ StartFailedCommit(o)
         \/ StartCommit(o) \/ StopNothing(o) \/ StopCommit(o) \/ DeleteCheck(o)
         \/ DeleteCommit(o) \/ RollbackTarget(o) \/ LoadVrps(o) \/ NotifyDone(o) \/ UpdateCommit(o)
         \/ RecordHistory(o)
  PROVE  IInv'
<1> USE DEF At
<1>1. TypeOK' /\ op \in [Ops -> CallType]
  BY RowStepType DEF IInv, TypeOK
<1>2. op[o].pc \notin {"register", "close", "idle"}
  BY DEF ConfigCommit, StartCheck, StartBindFails, StartFailedCommit, StartCommit,
       StopNothing, StopCommit, DeleteCheck, DeleteCommit, RollbackTarget, LoadVrps, NotifyDone,
       UpdateCommit, RecordHistory
<1>3. op[o].seen \in RowType /\ op[o].want \in RowType
  BY <1>2, Carries
<1>4. UNCHANGED <<engines, conn, held, pool>>
  BY DEF ConfigCommit, StartCheck, StartBindFails, StartFailedCommit, StartCommit,
       StopNothing, StopCommit, DeleteCheck, DeleteCommit, RollbackTarget, LoadVrps, NotifyDone,
       UpdateCommit, RecordHistory, UnchangedEngine, evars
<1>5. /\ \A q \in Ops : q # o => op'[q] = op[q]
      /\ op'[o].pc \notin {"register", "close"}
      /\ op'[o].pc # "idle" => op'[o].seen \in RowType /\ op'[o].want \in RowType
      /\ op'[o].pc \in {"target", "load", "apply"} => op'[o].seen.serial < MaxSerial
  <2>1. CASE ConfigCommit(o) \/ StartFailedCommit(o) \/ StartCommit(o) \/ DeleteCommit(o)
             \/ RecordHistory(o)
    BY <1>1, <2>1 DEF ConfigCommit, StartFailedCommit, StartCommit, DeleteCommit,
         RecordHistory, Finish, Idle
  <2>2. CASE StopCommit(o) \/ DeleteCheck(o) \/ UpdateCommit(o)
    BY <1>1, <1>3, <2>2 DEF StopCommit, DeleteCheck, UpdateCommit, Finish, Goto, Idle, CallType
  <2>3. CASE RollbackTarget(o)
    <3>1. op[o].seen.serial < MaxSerial
      BY <2>3 DEF RollbackTarget, IInv, CallOK
    <3>2. CASE Goto(o, "load")
      BY <1>1, <1>3, <3>1, <3>2 DEF Goto, CallType
    <3>3. CASE Finish(o)
      BY <1>1, <3>3 DEF Finish, Idle
    <3> QED
      BY <2>3, <3>2, <3>3 DEF RollbackTarget
  <2>4. CASE LoadVrps(o)
    <3>1. op[o].seen.serial < MaxSerial
      BY <2>4 DEF LoadVrps, IInv, CallOK
    <3> QED
      BY <1>1, <1>3, <2>4, <3>1 DEF LoadVrps
  <2>5. CASE StartCheck(o)
    <3>1. CASE pool # None
      BY <1>1, <2>5, <3>1 DEF StartCheck, Finish, Idle
    <3>2. CASE pool = None
      BY <1>1, <1>3, <2>5, <3>2 DEF StartCheck, CallType
    <3> QED
      BY <3>1, <3>2
  <2>6. CASE StartBindFails(o)
    BY <1>1, <1>3, <2>6 DEF StartBindFails, RowType, Statuses
  <2>8. CASE StopNothing(o)
    BY <1>1, <1>3, <2>8 DEF StopNothing, RowType, Statuses
  <2>7. CASE NotifyDone(o)
    BY <1>1, <1>3, <2>7 DEF NotifyDone
  <2> QED
    BY <2>1, <2>2, <2>3, <2>4, <2>5, <2>6, <2>7, <2>8
<1> QED
  BY <1>1, <1>2, <1>4, <1>5, StableStep

LEMMA PublishInv ==
  ASSUME IInv, NEW o \in Ops, ApplyVrps(o) \/ \E r \in Routers : NotifyOne(o, r)
  PROVE  IInv'
<1>1. TypeOK' /\ op \in [Ops -> CallType] /\ engines \in [Engines -> EngineType]
      /\ conn \in [Routers -> ConnType] /\ pool \in Engines \union {None}
  BY EngineCallType DEF IInv, TypeOK, TypeOKEngine
<1>2. op[o].pc \in {"apply", "notify"}
  BY DEF ApplyVrps, NotifyOne, At
<1>3. op[o] \in CallType /\ op[o].seen \in RowType /\ op[o].want \in RowType
  BY <1>2, Carries DEF At
<1>4. /\ \A e \in Engines : /\ engines'[e].state = engines[e].state
                            /\ engines'[e].settings = engines[e].settings
      /\ \A r \in Routers : /\ conn'[r].engine = conn[r].engine
                            /\ conn'[r].phase = conn[r].phase
                            /\ \A q \in Ops \ {o} : q \in conn[r].due => q \in conn'[r].due
      /\ held' = held /\ pool' = pool
  <2>1. CASE ApplyVrps(o)
    <3>1. CASE pool = None
      BY <2>1, <3>1 DEF ApplyVrps
    <3>2. CASE pool # None
      <4>1. \A e \in Engines : /\ engines'[e].state = engines[e].state
                               /\ engines'[e].settings = engines[e].settings
        BY <1>1, <2>1, <3>2 DEF ApplyVrps, Publish, EngineType
      <4>2. \A r \in Routers :
              /\ conn'[r].engine = conn[r].engine
              /\ conn'[r].phase = conn[r].phase
              /\ \A q \in Ops \ {o} : q \in conn[r].due => q \in conn'[r].due
        BY <1>1, <2>1, <3>2 DEF ApplyVrps, Publish, ConnType
      <4> QED
        BY <2>1, <4>1, <4>2 DEF ApplyVrps
    <3> QED
      BY <3>1, <3>2
  <2>2. CASE \E r \in Routers : NotifyOne(o, r)
    BY <1>1, <2>2 DEF NotifyOne, Notify, ConnType
  <2> QED
    BY <2>1, <2>2
<1>5. /\ \A q \in Ops : q # o => op'[q] = op[q]
      /\ op'[o].pc \in {"notify", "commit"}
      /\ op'[o].seen = op[o].seen
  BY <1>1, <1>2, <1>3 DEF ApplyVrps, NotifyOne, CallType, At
<1>6. op'[o].want \in RowType
  <2>1. CASE ApplyVrps(o)
    <3>1. op[o].seen.serial + 1 \in Serials
      BY <1>3, <2>1, EngineAssumption DEF ApplyVrps, IInv, CallOK, At, RowType, Serials
    <3>2. [op[o].want EXCEPT !.serial = op[o].seen.serial + 1,
                             !.count = Cardinality(op[o].vrps)] \in RowType
      BY <1>3, <3>1, CountNat DEF RowType, CallType
    <3> QED
      BY <1>1, <1>3, <2>1, <3>2 DEF ApplyVrps, CallType
  <2>2. CASE \E r \in Routers : NotifyOne(o, r)
    BY <1>1, <1>3, <2>2 DEF NotifyOne
  <2> QED
    BY <2>1, <2>2
<1> QED
  BY <1>1, <1>2, <1>3, <1>4, <1>5, <1>6, StableStep

-----------------------------------------------------------------------------
(* The four steps that move an engine from one owner to the next. *)
LEMMA StartBindInv ==
  ASSUME IInv, NEW o \in Ops, StartBind(o)
  PROVE  IInv'
<1>1. TypeOK' /\ op \in [Ops -> CallType] /\ engines \in [Engines -> EngineType]
      /\ conn \in [Routers -> ConnType] /\ pool \in Engines \union {None}
  BY EngineCallType DEF IInv, TypeOK, TypeOKEngine
<1>2. op[o] \in CallType /\ op[o].seen \in RowType /\ op[o].want \in RowType /\ op[o].pc = "bind"
  BY Carries DEF StartBind, At
<1>3. PICK e \in Engines :
        /\ ~InUse(e)
        /\ Bind(e, op[o].seen.settings, op[o].vrps, op[o].seen.serial)
        /\ op' = [op EXCEPT ![o].pc = "register", ![o].engine = e]
  BY DEF StartBind
<1>4. /\ engines[e].state = "closed" /\ \A q \in Ops : op[q].engine # e
  BY <1>3 DEF InUse, Listening
<1>5. /\ engines'[e].state = "bound"
      /\ engines'[e].settings = op[o].seen.settings
      /\ \A f \in Engines : f # e => engines'[f] = engines[f]
  BY <1>1, <1>3 DEF Bind
<1>6. /\ op'[o].pc = "register" /\ op'[o].engine = e /\ op'[o].seen = op[o].seen
      /\ op'[o].want = op[o].want /\ \A q \in Ops : q # o => op'[q] = op[q]
  BY <1>1, <1>2, <1>3 DEF CallType
<1>7. UNCHANGED <<conn, held, pool>>
  BY DEF StartBind
<1>8. \A q \in Ops : CallOK(q)'
  <2> SUFFICES ASSUME NEW q \in Ops PROVE CallOK(q)'
    OBVIOUS
  <2>1. CASE q = o
    BY <1>2, <1>5, <1>6, <2>1, EngineAssumption DEF CallOK, At
  <2>2. CASE q # o
    <3>1. op[q].engine \in Engines \union {None} /\ op[q].engine # e
      BY <1>1, <1>4 DEF CallType
    <3> QED
      BY <1>5, <1>6, <2>2, <3>1 DEF CallOK, At, IInv
  <2> QED
    BY <2>1, <2>2
<1>9. Ownership'
  <2>1. \A f \in Engines : Listening(f) => Port(f) # op[o].seen.settings.port
    BY DEF StartBind, PortFree
  <2>2. \A f, g \in Engines : Listening(f)' /\ Listening(g)' /\ Port(f)' = Port(g)' => f = g
    BY <1>5, <2>1 DEF IInv, Ownership, Listening, Port
  <2>3. /\ \A f \in Engines : engines'[f].state = "bound" =>
             \E q \in Ops : op'[q].pc = "register" /\ op'[q].engine = f
        /\ \A f \in Engines : engines'[f].state = "closing" =>
             \E q \in Ops : op'[q].pc = "close" /\ op'[q].engine = f
    BY <1>2, <1>5, <1>6 DEF IInv, Ownership, At
  <2>4. \A q, p \in Ops : /\ op'[q].pc \in {"register", "close"}
                          /\ op'[p].pc \in {"register", "close"}
                          /\ op'[q].engine = op'[p].engine
                         => q = p
    BY <1>4, <1>6 DEF IInv, Ownership
  <2> QED
    BY <2>2, <2>3, <2>4 DEF Ownership, At
<1>10. ConnOK' /\ PoolServes'
  <2>1. ConnOK'
    BY <1>7 DEF IInv, ConnOK
  <2>2. PoolServes'
    <3>1. \A f \in Engines : Running(f) => Running(f)'
      BY <1>4, <1>5 DEF Running
    <3>2. \A q \in Ops, r \in Routers : WillClose(q, r) => WillClose(q, r)'
      BY <1>2, <1>6, <1>7 DEF WillClose, At
    <3> QED
      BY <1>1, <1>7, <3>1, <3>2 DEF IInv, PoolServes, ConnType
  <2> QED
    BY <2>1, <2>2
<1> QED
  BY <1>1, <1>8, <1>9, <1>10 DEF IInv

LEMMA StartRegisterInv ==
  ASSUME IInv, NEW o \in Ops, StartRegister(o)
  PROVE  IInv'
<1> DEFINE e == op[o].engine
<1>1. TypeOK' /\ op \in [Ops -> CallType] /\ engines \in [Engines -> EngineType]
      /\ conn \in [Routers -> ConnType] /\ pool \in Engines \union {None}
  BY EngineCallType DEF IInv, TypeOK, TypeOKEngine
<1>2. op[o] \in CallType /\ op[o].seen \in RowType /\ op[o].want \in RowType
      /\ op[o].pc = "register"
  BY Carries DEF StartRegister, At
<1>3. e \in Engines /\ engines[e].state = "bound"
  BY <1>2 DEF IInv, CallOK, At, CallType
<1>4. /\ engines'[e].state = "running"
      /\ \A f \in Engines : /\ f # e => engines'[f].state = engines[f].state
                            /\ engines'[f].settings = engines[f].settings
  BY <1>1, <1>3 DEF StartRegister, Run, EngineType
<1>5. [op[o].want EXCEPT !.status = "running", !.count = Cardinality(op[o].vrps)] \in RowType
  BY <1>2, CountNat DEF RowType, Statuses, CallType
<1>6. /\ op'[o].pc = "commit" /\ op'[o].seen = op[o].seen
      /\ op'[o].want \in RowType /\ \A q \in Ops : q # o => op'[q] = op[q]
  BY <1>1, <1>2, <1>5 DEF StartRegister, CallType
<1>7. conn' = conn /\ held' = held /\ pool' = e
  BY DEF StartRegister
<1>8. \A q \in Ops : q # o /\ op[q].pc \in {"register", "close"} => op[q].engine # e
  BY <1>2 DEF IInv, Ownership
<1>9. \A q \in Ops : CallOK(q)'
  <2> SUFFICES ASSUME NEW q \in Ops PROVE CallOK(q)'
    OBVIOUS
  <2>1. CASE q = o
    BY <1>2, <1>6, <2>1 DEF CallOK, At
  <2>2. CASE q # o
    <3>1. op[q].engine \in Engines \union {None}
      BY <1>1 DEF CallType
    <3> QED
      BY <1>4, <1>6, <1>8, <2>2, <3>1 DEF CallOK, At, IInv
  <2> QED
    BY <2>1, <2>2
<1>10. Ownership'
  <2>1. \A f, g \in Engines : Listening(f)' /\ Listening(g)' /\ Port(f)' = Port(g)' => f = g
    BY <1>3, <1>4 DEF IInv, Ownership, Listening, Port
  <2>2. /\ \A f \in Engines : engines'[f].state = "bound" =>
             \E q \in Ops : op'[q].pc = "register" /\ op'[q].engine = f
        /\ \A f \in Engines : engines'[f].state = "closing" =>
             \E q \in Ops : op'[q].pc = "close" /\ op'[q].engine = f
    BY <1>2, <1>4, <1>6 DEF IInv, Ownership, At
  <2>3. \A q, p \in Ops : /\ op'[q].pc \in {"register", "close"}
                          /\ op'[p].pc \in {"register", "close"}
                          /\ op'[q].engine = op'[p].engine
                         => q = p
    BY <1>6 DEF IInv, Ownership
  <2> QED
    BY <2>1, <2>2, <2>3 DEF Ownership, At
<1>11. ConnOK'
  BY <1>7 DEF IInv, ConnOK
<1>12. PoolServes'
  <2>1. \A f \in Engines : Running(f) => Running(f)'
    BY <1>4 DEF Running
  <2>2. \A q \in Ops, r \in Routers : WillClose(q, r) => WillClose(q, r)'
    BY <1>2, <1>6, <1>7 DEF WillClose, At
  <2>3. engines'[e].state = "running"
    BY <1>4
  <2> QED
    BY <1>1, <1>3, <1>7, <2>1, <2>2, <2>3 DEF IInv, PoolServes, ConnType, Running
<1> QED
  BY <1>1, <1>9, <1>10, <1>11, <1>12 DEF IInv

LEMMA StopPopInv ==
  ASSUME IInv, NEW o \in Ops, StopPop(o)
  PROVE  IInv'
<1>1. TypeOK' /\ op \in [Ops -> CallType] /\ engines \in [Engines -> EngineType]
      /\ conn \in [Routers -> ConnType] /\ pool \in Engines /\ None \notin Routers
      /\ None \notin Engines
  BY EngineCallType, EngineAssumption DEF IInv, TypeOK, TypeOKEngine, StopPop
<1>2. op[o] \in CallType /\ op[o].seen \in RowType /\ op[o].want \in RowType /\ op[o].pc = "pop"
  BY Carries DEF StopPop, At
<1>3. PICK first \in IF Clients(pool) = {} THEN {None} ELSE Clients(pool) :
        /\ StopEngine(o, pool, first)
        /\ op' = [op EXCEPT ![o].pc = IF first = None THEN "commit" ELSE "close",
                            ![o].engine = IF first = None THEN None ELSE pool,
                            ![o].at = first, ![o].want.status = "stopped"]
  BY DEF StopPop
<1>4. \A q \in Ops : q # o => op'[q] = op[q]
  BY <1>1, <1>3
<1>5. /\ op'[o].pc = (IF first = None THEN "commit" ELSE "close")
      /\ op'[o].engine = (IF first = None THEN None ELSE pool)
      /\ op'[o].at = first /\ op'[o].seen = op[o].seen
  BY <1>1, <1>2, <1>3 DEF CallType
<1>6. op'[o].want \in RowType
  BY <1>1, <1>2, <1>3 DEF CallType, RowType, Statuses
<1>7. pool' = None /\ held' = held
  BY DEF StopPop
<1>8. engines[pool].state = "running"
  BY <1>1 DEF IInv, PoolServes, Running
<1>9. /\ engines'[pool].state = IF first = None THEN "closed" ELSE "closing"
      /\ \A f \in Engines : /\ f # pool => engines'[f].state = engines[f].state
                            /\ engines'[f].settings = engines[f].settings
  BY <1>1, <1>3 DEF StopEngine, EngineType
<1>10. \A q \in Ops : op[q].pc \in {"register", "close"} => op[q].engine # pool
  BY <1>1, <1>8 DEF IInv, CallOK, At
<1>11. /\ first = None => \A r \in Routers : conn[r].engine # pool
       /\ first # None => first \in Routers /\ conn[first].engine = pool
  BY <1>1 DEF Clients
<1>12. \A r \in Routers :
         /\ r = first => conn'[r] = Shut(o, conn[r])
         /\ r # first /\ conn[r].engine = pool =>
              conn'[r] = [conn[r] EXCEPT !.due = @ \union {o}]
         /\ r # first /\ conn[r].engine # pool => conn'[r] = conn[r]
  BY <1>3 DEF StopEngine
<1>13. \A r \in Routers :
         \/ conn'[r] = Off /\ r = first
         \/ /\ conn'[r].engine = conn[r].engine /\ conn'[r].phase = conn[r].phase
            /\ \A q \in Ops \ {o} : q \in conn[r].due => q \in conn'[r].due
            /\ r = first => conn'[r].phase = "draining"
            /\ r # first /\ conn[r].engine = pool => o \in conn'[r].due
  <2> SUFFICES ASSUME NEW r \in Routers
               PROVE  \/ conn'[r] = Off /\ r = first
                      \/ /\ conn'[r].engine = conn[r].engine /\ conn'[r].phase = conn[r].phase
                         /\ \A q \in Ops \ {o} : q \in conn[r].due => q \in conn'[r].due
                         /\ r = first => conn'[r].phase = "draining"
                         /\ r # first /\ conn[r].engine = pool => o \in conn'[r].due
    OBVIOUS
  <2>1. conn[r] \in ConnType
    BY <1>1
  <2>2. CASE r = first
    <3>1. conn'[r] = Shut(o, conn[r])
      BY <1>12, <2>2
    <3>2. CASE conn[r].phase = "draining"
      BY <2>1, <2>2, <3>1, <3>2 DEF Shut, ConnType
    <3>3. CASE conn[r].phase # "draining"
      BY <2>2, <3>1, <3>3 DEF Shut
    <3> QED
      BY <3>2, <3>3
  <2>3. CASE r # first /\ conn[r].engine = pool
    BY <1>12, <2>1, <2>3 DEF ConnType
  <2>4. CASE r # first /\ conn[r].engine # pool
    BY <1>12, <2>4
  <2> QED
    BY <2>2, <2>3, <2>4
<1>14. \A q \in Ops : CallOK(q)'
  <2> SUFFICES ASSUME NEW q \in Ops PROVE CallOK(q)'
    OBVIOUS
  <2>1. CASE q = o
    BY <1>1, <1>2, <1>5, <1>6, <1>9, <2>1 DEF CallOK, At
  <2>2. CASE q # o
    <3>1. op[q].engine \in Engines \union {None}
      BY <1>1 DEF CallType
    <3> QED
      BY <1>4, <1>9, <1>10, <2>2, <3>1 DEF CallOK, At, IInv
  <2> QED
    BY <2>1, <2>2
<1>15. Ownership'
  <2>1. \A f, g \in Engines : Listening(f)' /\ Listening(g)' /\ Port(f)' = Port(g)' => f = g
    BY <1>8, <1>9 DEF IInv, Ownership, Listening, Port
  <2>2. \A f \in Engines : engines'[f].state = "bound" =>
             \E q \in Ops : op'[q].pc = "register" /\ op'[q].engine = f
    BY <1>2, <1>4, <1>9 DEF IInv, Ownership, At
  <2>3. \A f \in Engines : engines'[f].state = "closing" =>
             \E q \in Ops : op'[q].pc = "close" /\ op'[q].engine = f
    BY <1>2, <1>4, <1>5, <1>9 DEF IInv, Ownership, At
  <2>4. \A q, p \in Ops : /\ op'[q].pc \in {"register", "close"}
                          /\ op'[p].pc \in {"register", "close"}
                          /\ op'[q].engine = op'[p].engine
                         => q = p
    BY <1>4, <1>5, <1>10 DEF IInv, Ownership
  <2> QED
    BY <2>1, <2>2, <2>3, <2>4 DEF Ownership, At
<1>16. ConnOK'
  BY <1>7, <1>13 DEF IInv, ConnOK, Off
<1>17. PoolServes'
  <2> SUFFICES ASSUME NEW r \in Routers, conn'[r].engine # None
               PROVE  Running(conn[r].engine)' \/ \E q \in Ops : WillClose(q, r)'
    BY <1>7 DEF PoolServes
  <2>1. /\ conn'[r].engine = conn[r].engine /\ conn'[r].phase = conn[r].phase
        /\ \A q \in Ops \ {o} : q \in conn[r].due => q \in conn'[r].due
        /\ r = first => conn'[r].phase = "draining"
        /\ r # first /\ conn[r].engine = pool => o \in conn'[r].due
        /\ conn[r].engine \in Engines
    BY <1>1, <1>13 DEF Off, ConnType
  <2>2. CASE conn[r].engine = pool
    BY <1>5, <1>11, <2>1, <2>2 DEF WillClose, At
  <2>3. CASE conn[r].engine # pool /\ Running(conn[r].engine)
    BY <1>9, <2>1, <2>3 DEF Running
  <2>4. ASSUME NEW q \in Ops, WillClose(q, r) PROVE WillClose(q, r)'
    <3>1. q # o
      BY <1>2, <2>4 DEF WillClose, At
    <3> QED
      BY <1>4, <2>1, <2>4, <3>1 DEF WillClose, At
  <2> QED
    BY <2>1, <2>2, <2>3, <2>4 DEF IInv, PoolServes
<1> QED
  BY <1>1, <1>14, <1>15, <1>16, <1>17 DEF IInv

(* The next client of the copy: it is closed, or the stop call waits for it. *)
LEMMA CloseOneInv ==
  ASSUME IInv, NEW o \in Ops, NEW r \in Routers, CloseOne(o, r)
  PROVE  IInv'
<1>1. TypeOK' /\ op \in [Ops -> CallType] /\ engines \in [Engines -> EngineType]
      /\ conn \in [Routers -> ConnType] /\ pool \in Engines \union {None}
  BY EngineCallType DEF IInv, TypeOK, TypeOKEngine
<1>2. op[o] \in CallType /\ conn[r] \in ConnType /\ op[o].pc = "close"
  BY <1>1 DEF CloseOne, At
<1>3. /\ \A q \in Ops \ {o} : op'[q] = op[q]
      /\ op'[o].pc = "close" /\ op'[o].seen = op[o].seen /\ op'[o].want = op[o].want
      /\ op'[o].engine = op[o].engine /\ op'[o].at = r
  BY <1>1, <1>2 DEF CloseOne, CallType
<1>4. UNCHANGED <<engines, held, pool>>
  BY DEF CloseOne
<1>5. /\ \A q \in Routers \ {r} : conn'[q] = conn[q]
      /\ \/ conn'[r] = Off
         \/ /\ conn'[r].engine = conn[r].engine /\ conn'[r].phase = "draining"
            /\ conn[r].phase = "draining" /\ conn'[r].due = conn[r].due \ {o}
  BY <1>1, <1>2 DEF CloseOne, Shut, ConnType
<1>6. \A q \in Ops : CallOK(q)'
  BY <1>2, <1>3, <1>4 DEF IInv, CallOK, At
<1>7. Ownership'
  BY <1>2, <1>3, <1>4 DEF IInv, Ownership, Listening, Port, At
<1>8. ConnOK'
  BY <1>4, <1>5 DEF IInv, ConnOK, Off
<1>9. PoolServes'
  <2> SUFFICES ASSUME NEW p \in Routers, conn'[p].engine # None
               PROVE  Running(conn[p].engine)' \/ \E q \in Ops : WillClose(q, p)'
    BY <1>4 DEF IInv, PoolServes, Running
  <2>1. conn'[p].engine = conn[p].engine /\ conn'[p].phase = conn[p].phase
    BY <1>5 DEF Off
  <2>2. CASE Running(conn[p].engine)
    BY <1>4, <2>1, <2>2 DEF Running
  <2>3. ASSUME NEW q \in Ops, WillClose(q, p) PROVE WillClose(q, p)'
    <3>1. CASE q # o
      <4>1. op'[q] = op[q] /\ (q \in conn[p].due => q \in conn'[p].due)
        BY <1>3, <1>5, <3>1 DEF Off
      <4> QED
        BY <2>1, <2>3, <4>1 DEF WillClose, At
    <3>2. CASE q = o /\ p = r
      BY <1>3, <1>5, <2>1, <2>3, <3>2 DEF WillClose, At, Off
    <3>3. CASE q = o /\ p # r
      <4>1. ~(op[o].at = p /\ conn[p].phase = "draining")
        BY <2>3, <3>3 DEF WillClose, CloseOne, DrainedAt
      <4> QED
        BY <1>3, <1>5, <2>1, <2>3, <3>3, <4>1 DEF WillClose, At
    <3> QED
      BY <3>1, <3>2, <3>3
  <2> QED
    BY <2>1, <2>2, <2>3 DEF IInv, PoolServes
<1> QED
  BY <1>1, <1>6, <1>7, <1>8, <1>9 DEF IInv

(* When the server socket is closed no client is left. *)
LEMMA NoClientLeft ==
  ASSUME IInv, NEW o \in Ops, StopClose(o), NEW r \in Routers
  PROVE  conn[r].engine # op[o].engine
<1> SUFFICES ASSUME conn[r].engine = op[o].engine PROVE FALSE
  OBVIOUS
<1>1. At(o, "close") /\ op[o].engine # None /\ engines[op[o].engine].state = "closing"
  BY DEF StopClose, IInv, CallOK
<1>2. PICK q \in Ops : WillClose(q, r)
  BY <1>1 DEF IInv, PoolServes, Running
<1>3. q = o
  BY <1>1, <1>2 DEF WillClose, IInv, Ownership, At
<1> QED
  BY <1>2, <1>3 DEF WillClose, StopClose, DrainedAt

LEMMA StopCloseInv ==
  ASSUME IInv, NEW o \in Ops, StopClose(o)
  PROVE  IInv'
<1> DEFINE e == op[o].engine
<1>1. TypeOK' /\ op \in [Ops -> CallType] /\ engines \in [Engines -> EngineType]
      /\ conn \in [Routers -> ConnType] /\ pool \in Engines \union {None}
  BY EngineCallType DEF IInv, TypeOK, TypeOKEngine
<1>2. op[o] \in CallType /\ op[o].seen \in RowType /\ op[o].want \in RowType /\ op[o].pc = "close"
  BY Carries DEF StopClose, At
<1>3. e \in Engines /\ engines[e].state = "closing" /\ pool # e
  BY <1>2 DEF IInv, CallOK, At, CallType, PoolServes, Running
<1>4. /\ engines'[e].state = "closed"
      /\ \A f \in Engines : /\ f # e => engines'[f].state = engines[f].state
                            /\ engines'[f].settings = engines[f].settings
  BY <1>1, <1>3 DEF StopClose, CloseEngine, EngineType
<1>5. /\ op'[o].pc = "commit" /\ op'[o].seen = op[o].seen /\ op'[o].want = op[o].want
      /\ \A q \in Ops : q # o => op'[q] = op[q]
  BY <1>1, <1>2 DEF StopClose, CallType
<1>6. conn' = conn /\ held' = held /\ pool' = pool
  BY DEF StopClose
<1>7. \A q \in Ops : q # o /\ op[q].pc \in {"register", "close"} => op[q].engine # e
  BY <1>2 DEF IInv, Ownership
<1>8. \A q \in Ops : CallOK(q)'
  <2> SUFFICES ASSUME NEW q \in Ops PROVE CallOK(q)'
    OBVIOUS
  <2>1. CASE q = o
    BY <1>2, <1>5, <2>1 DEF CallOK, At
  <2>2. CASE q # o
    <3>1. op[q].engine \in Engines \union {None}
      BY <1>1 DEF CallType
    <3> QED
      BY <1>4, <1>5, <1>7, <2>2, <3>1 DEF CallOK, At, IInv
  <2> QED
    BY <2>1, <2>2
<1>9. Ownership'
  <2>1. \A f, g \in Engines : Listening(f)' /\ Listening(g)' /\ Port(f)' = Port(g)' => f = g
    BY <1>3, <1>4 DEF IInv, Ownership, Listening, Port
  <2>2. /\ \A f \in Engines : engines'[f].state = "bound" =>
             \E q \in Ops : op'[q].pc = "register" /\ op'[q].engine = f
        /\ \A f \in Engines : engines'[f].state = "closing" =>
             \E q \in Ops : op'[q].pc = "close" /\ op'[q].engine = f
    BY <1>2, <1>4, <1>5 DEF IInv, Ownership, At
  <2>3. \A q, p \in Ops : /\ op'[q].pc \in {"register", "close"}
                          /\ op'[p].pc \in {"register", "close"}
                          /\ op'[q].engine = op'[p].engine
                         => q = p
    BY <1>5 DEF IInv, Ownership
  <2> QED
    BY <2>1, <2>2, <2>3 DEF Ownership, At
<1>10. ConnOK'
  BY <1>6 DEF IInv, ConnOK
<1>11. PoolServes'
  <2>1. \A r \in Routers : conn[r].engine # e
    BY NoClientLeft
  <2>2. \A f \in Engines : f # e /\ Running(f) => Running(f)'
    BY <1>4 DEF Running
  <2>3. \A q \in Ops, r \in Routers : conn[r].engine # e /\ WillClose(q, r) => WillClose(q, r)'
    BY <1>5, <1>6 DEF WillClose, At
  <2> HIDE DEF e
  <2> QED
    BY <1>1, <1>3, <1>6, <2>1, <2>2, <2>3 DEF IInv, PoolServes, ConnType
<1> QED
  BY <1>1, <1>8, <1>9, <1>10, <1>11 DEF IInv

-----------------------------------------------------------------------------
(* After an Error Report the handler reads on, or ends with its engine. *)
LEMMA ErrorEffect ==
  ASSUME IInv, NEW r \in Routers, RespondError(r)
  PROVE  /\ held' = held /\ served' = served
         /\ Running(conn[r].engine) =>
              /\ conn'[r].engine = conn[r].engine /\ conn'[r].due = conn[r].due
              /\ conn'[r].phase = "idle"
         /\ ~Running(conn[r].engine) => conn'[r].engine = None /\ conn'[r].phase = "off"
<1>1. conn \in [Routers -> ConnType] /\ conn[r] \in ConnType
  BY DEF IInv, TypeOK, TypeOKEngine
<1> DEFINE asked == IF conn[r].phase = "serial" THEN held[r].serial ELSE conn[r].last
<1>2. conn'[r] = IF Running(conn[r].engine)
                 THEN [conn[r] EXCEPT !.phase = "idle", !.last = asked] ELSE Off
  BY <1>1 DEF RespondError
<1>3. CASE Running(conn[r].engine)
  <2>1. conn'[r] = [conn[r] EXCEPT !.phase = "idle", !.last = asked]
    BY <1>2, <1>3
  <2> HIDE DEF asked
  <2> QED
    BY <1>1, <1>3, <2>1 DEF RespondError, ConnType
<1>4. CASE ~Running(conn[r].engine)
  BY <1>2, <1>4 DEF RespondError, Off
<1> QED
  BY <1>3, <1>4

(* Steps of connections and routers leave engines and calls alone. *)
LEMMA EngineStepInv ==
  ASSUME IInv, EngineStep
  PROVE  IInv'
<1>1. TypeOK' /\ conn \in [Routers -> ConnType] /\ engines \in [Engines -> EngineType]
      /\ held \in [Routers -> HeldType]
  BY OtherType DEF IInv, TypeOK, TypeOKEngine
<1>2. UNCHANGED svars
  BY DEF EngineStep
<1>3. engines' = engines
  BY DEF EngineStep, EngineNext, ConnStep, RouterStep, Respond, RespondError, Drained,
       Query, Disconnect, Connect
<1>4. (\A o \in Ops : CallOK(o)') /\ Ownership'
  BY <1>2, <1>3 DEF IInv, CallOK, Ownership, At, Listening, Port, svars
<1>5. PICK r \in Routers : ConnStep(r) \/ RouterStep(r)
  BY DEF EngineStep, EngineNext
<1>6. conn[r] \in ConnType /\ \A q \in Routers : q # r => conn'[q] = conn[q] /\ held'[q] = held[q]
  BY <1>1, <1>5 DEF ConnStep, RouterStep, Respond, RespondError, Drained,
       Query, Disconnect, Connect
<1>12. Disconnect(r) \/ (\E e \in Engines : Connect(r, e)) =>
         \/ conn'[r].engine = None /\ conn'[r].phase = "off"
         \/ \E e \in Engines : /\ conn'[r].engine = e /\ conn'[r].phase = "idle"
                              /\ engines[e].state = "running"
  <2>1. Off.engine = None /\ Off.phase = "off"
    BY DEF Off
  <2>2. \A e \in Engines : Fresh(e).engine = e /\ Fresh(e).phase = "idle"
    BY DEF Fresh, Off
  <2> QED
    BY <1>1, <2>1, <2>2 DEF Disconnect, Connect, Running
<1>7. conn'[r].engine = None <=> conn'[r].phase = "off"
  <2>1. CASE Query(r) \/ Respond(r)
    BY <1>1, <1>6, <2>1 DEF IInv, ConnOK, Query, Respond, ConnType
  <2>4. CASE RespondError(r)
    BY <2>4, ErrorEffect DEF IInv, ConnOK, RespondError
  <2>2. CASE Disconnect(r) \/ \E e \in Engines : Connect(r, e)
    BY <1>12, <2>2, EngineAssumption
  <2>3. CASE Drained(r)
    BY <1>1, <1>6, <2>3 DEF IInv, ConnOK, Drained, Off, ConnType
  <2> QED
    BY <1>5, <2>1, <2>2, <2>3, <2>4 DEF ConnStep, RouterStep
<1>8. conn'[r].phase = "serial" => held'[r].session # None
  <2>1. CASE Query(r)
    BY <1>1, <1>6, <2>1 DEF Query, ConnType
  <2>2. CASE Respond(r) \/ RespondError(r)
    BY <1>1, <1>6, <2>2, ErrorEffect DEF Respond, ConnType
  <2>3. CASE Disconnect(r) \/ \E e \in Engines : Connect(r, e)
    BY <1>12, <2>3
  <2>4. CASE Drained(r)
    BY <1>1, <1>6, <2>4 DEF Drained, Off, ConnType
  <2> QED
    BY <1>5, <2>1, <2>2, <2>3, <2>4 DEF ConnStep, RouterStep
<1>9. ConnOK'
  BY <1>6, <1>7, <1>8 DEF IInv, ConnOK
<1>10. conn'[r].engine # None =>
         \/ engines[conn'[r].engine].state = "running"
         \/ \E q \in Ops : WillClose(q, r)'
  <2>1. CASE Query(r) \/ Respond(r) \/ (RespondError(r) /\ Running(conn[r].engine))
    <3>1. conn'[r].engine = conn[r].engine /\ conn'[r].due = conn[r].due
      BY <1>1, <1>6, <2>1, ErrorEffect DEF Query, Respond, ConnType
    <3>2. \A q \in Ops : ~(op[q].at = r /\ conn[r].phase = "draining")
      BY <2>1 DEF Query, Respond, RespondError
    <3>3. \A q \in Ops : WillClose(q, r) => WillClose(q, r)'
      BY <1>2, <3>1, <3>2 DEF WillClose, At, svars
    <3> QED
      BY <3>1, <3>3 DEF IInv, PoolServes, Running
  <2>2. CASE Disconnect(r) \/ \E e \in Engines : Connect(r, e)
    BY <1>12, <2>2
  <2>3. CASE Drained(r)
    BY <1>1, <1>6, <2>3 DEF Drained, Off, Running, ConnType
  <2>4. CASE RespondError(r) /\ ~Running(conn[r].engine)
    BY <2>4, ErrorEffect
  <2> QED
    BY <1>5, <2>1, <2>2, <2>3, <2>4 DEF ConnStep, RouterStep
<1>11. PoolServes'
  <2>1. \A p \in Routers \ {r}, q \in Ops : WillClose(q, p) => WillClose(q, p)'
    BY <1>2, <1>6 DEF WillClose, At, svars
  <2> QED
    BY <1>2, <1>3, <1>6, <1>10, <2>1 DEF IInv, PoolServes, Running, svars
<1> QED
  BY <1>1, <1>4, <1>9, <1>11 DEF IInv

LEMMA EnvironmentInv ==
  ASSUME IInv, TableChange \/ Crash
  PROVE  IInv'
<1>1. TypeOK' /\ engines \in [Engines -> EngineType] /\ held \in [Routers -> HeldType]
  BY OtherType DEF IInv, TypeOK, TypeOKEngine
<1>2. CASE TableChange
  BY <1>1, <1>2 DEF TableChange, UnchangedEngine, evars, IInv, CallOK, Ownership, ConnOK,
       PoolServes, WillClose, At, Listening, Running, Port
<1>3. CASE Crash
  <2>1. \A e \in Engines : engines'[e].state = "closed"
    BY <1>1, <1>3 DEF Crash, EngineType
  <2>2. (\A o \in Ops : CallOK(o)') /\ Ownership'
    BY <1>3, <2>1 DEF Crash, Idle, CallOK, Ownership, At, Listening
  <2>3. ConnOK' /\ PoolServes'
    BY <1>3 DEF Crash, Off, ConnOK, PoolServes
  <2> QED
    BY <1>1, <2>2, <2>3 DEF IInv
<1> QED
  BY <1>2, <1>3

LEMMA StutterInv ==
  ASSUME IInv, UNCHANGED vars
  PROVE  IInv'
  BY DEF vars, IInv, TypeOK, TypeOKEngine, CallOK, Ownership, ConnOK, PoolServes, WillClose,
       At, Listening, Running, Port

(* Every step keeps the invariant. *)
LEMMA NextInv == IInv /\ [Next]_vars => IInv'
<1> SUFFICES ASSUME IInv, [Next]_vars PROVE IInv'
  OBVIOUS
<1>1. ASSUME NEW o \in Ops, OpStep(o) PROVE IInv'
  BY <1>1, RowStepInv, PublishInv, StartBindInv, StartRegisterInv, StopPopInv, CloseOneInv,
     StopCloseInv DEF OpStep, NotifyStep
<1>2. ASSUME NEW o \in Ops, NEW k \in Kinds, Begin(o, k) PROVE IInv'
  BY <1>2, BeginInv
<1> QED
  BY <1>1, <1>2, EngineStepInv, EnvironmentInv, StutterInv DEF Next

THEOREM Inductive == Spec => []IInv
  BY InitInv, NextInv, PTL DEF Spec

-----------------------------------------------------------------------------
(* Types hold in every reachable state of the composed service. *)
THEOREM TypeCorrect == Spec => []TypeOK
<1>1. IInv => TypeOK
  BY DEF IInv
<1> QED
  BY <1>1, Inductive, PTL

(* However start, stop, delete and crashes interleave, the pool's engine runs
   and every router is on a running engine or on one flushing its response. *)
THEOREM PoolAlwaysServes == Spec => []PoolServes
<1>1. IInv => PoolServes
  BY DEF IInv
<1> QED
  BY <1>1, Inductive, PTL

(* With a single port, registering an engine never replaces a running one. *)
LEMMA OnlyPoolStep ==
  ASSUME OnePort, IInv, OnlyPoolRuns, [Next]_vars
  PROVE  OnlyPoolRuns'
<1>1. engines \in [Engines -> EngineType] /\ op \in [Ops -> CallType]
      /\ pool \in Engines \union {None}
  BY DEF IInv, TypeOK, TypeOKEngine
<1>2. ASSUME NEW o \in Ops, StartRegister(o) PROVE OnlyPoolRuns'
  <2> DEFINE e == op[o].engine
  <2>1. e \in Engines /\ engines[e].state = "bound"
    BY <1>1, <1>2 DEF StartRegister, IInv, CallOK, At, CallType
  <2>2. \A f \in Engines : Listening(f) => f = e
    <3>1. \A f \in Engines : Port(f) = Port(e)
      BY <1>1, <2>1 DEF OnePort, Port, EngineType
    <3> QED
      BY <2>1, <3>1 DEF IInv, Ownership, Listening
  <2>3. pool' = e /\ \A f \in Engines : f # e => engines'[f].state = engines[f].state
    BY <1>1, <1>2, <2>1 DEF StartRegister, Run
  <2> QED
    BY <2>2, <2>3 DEF OnlyPoolRuns, Running, Listening
<1>3. ASSUME NEW o \in Ops, StopPop(o) PROVE OnlyPoolRuns'
  <2>1. pool \in Engines
    BY <1>1, <1>3 DEF StopPop
  <2>2. engines'[pool].state \in {"closed", "closing"}
        /\ \A f \in Engines : f # pool => engines'[f].state = engines[f].state
    BY <1>1, <1>3, <2>1 DEF StopPop, StopEngine, EngineType
  <2> QED
    BY <2>1, <2>2 DEF OnlyPoolRuns, Running
<1>4. ASSUME pool' = pool, \A f \in Engines : engines'[f].state = "running" =>
                                              engines[f].state = "running"
      PROVE  OnlyPoolRuns'
  BY <1>4 DEF OnlyPoolRuns, Running
<1>5. ASSUME NEW o \in Ops, OpStep(o), ~StartRegister(o), ~StopPop(o)
      PROVE  /\ pool' = pool
             /\ \A f \in Engines : engines'[f].state = "running" => engines[f].state = "running"
  <2>1. CASE StartBind(o)
    BY <1>1, <2>1 DEF StartBind, Bind
  <2>2. CASE StopClose(o)
    BY <1>1, <2>2 DEF StopClose, CloseEngine, EngineType
  <2>3. CASE ApplyVrps(o)
    BY <1>1, <2>3 DEF ApplyVrps, Publish, EngineType
  <2>4. CASE ~StartBind(o) /\ ~StopClose(o) /\ ~ApplyVrps(o)
    BY <1>5, <2>4 DEF OpStep, NotifyStep, ConfigCommit, StartCheck, StartBindFails,
         StartFailedCommit, StartCommit, StopNothing, CloseOne, StopCommit, DeleteCheck,
         DeleteCommit, RollbackTarget, LoadVrps, NotifyDone, NotifyOne, UpdateCommit,
         RecordHistory, UnchangedEngine, evars
  <2> QED
    BY <2>1, <2>2, <2>3, <2>4
<1>6. ASSUME NEW o \in Ops, NEW k \in Kinds, Begin(o, k) PROVE OnlyPoolRuns'
  BY <1>4, <1>6 DEF Begin, UnchangedEngine, evars
<1>7. ASSUME EngineStep PROVE OnlyPoolRuns'
  BY <1>4, <1>7 DEF EngineStep, EngineNext, ConnStep, RouterStep, Respond, RespondError,
       Drained, Query, Disconnect, Connect, svars
<1>8. ASSUME TableChange PROVE OnlyPoolRuns'
  BY <1>4, <1>8 DEF TableChange, UnchangedEngine, evars
<1>9. ASSUME Crash PROVE OnlyPoolRuns'
  BY <1>1, <1>9 DEF Crash, OnlyPoolRuns, Running, EngineType
<1>10. ASSUME UNCHANGED vars PROVE OnlyPoolRuns'
  BY <1>4, <1>10 DEF vars
<1>11. ASSUME NEW o \in Ops, OpStep(o) PROVE OnlyPoolRuns'
  BY <1>2, <1>3, <1>4, <1>5, <1>11
<1> QED
  BY <1>6, <1>7, <1>8, <1>9, <1>10, <1>11 DEF Next

(* When no update moves the port, no interleaving of calls and crashes makes an
   engine accept routers that the pool does not know. *)
THEOREM OnlyPool == ASSUME OnePort PROVE Spec => []OnlyPoolRuns
<1>1. Init => OnlyPoolRuns
  BY DEF Init, InitEngine, OnlyPoolRuns, Running
<1>2. IInv /\ OnlyPoolRuns /\ [Next]_vars => OnlyPoolRuns'
  BY OnlyPoolStep
<1> QED
  BY <1>1, <1>2, Inductive, PTL DEF Spec

(* When no update moves the port, no interleaving of calls leaves an engine
   listening that neither the pool nor a call in flight answers for. *)
THEOREM NoOrphan == ASSUME OnePort PROVE Spec => []NoOrphanEngine
<1>1. IInv /\ OnlyPoolRuns => NoOrphanEngine
  BY DEF IInv, TypeOK, TypeOKEngine, EngineType, EngineStates, Ownership, OnlyPoolRuns,
       NoOrphanEngine, Running, Listening, At
<1> QED
  BY <1>1, Inductive, OnlyPool, PTL

-----------------------------------------------------------------------------
(***************************************************************************)
(* Where service calls do not overlap: what the row, the pool, the engine  *)
(* and the serial history say of one another, and what routers hold.       *)
(***************************************************************************)
(* At most one service call is in flight. *)
OneAtATime == \A o, q \in Ops : ~At(o, "idle") /\ ~At(q, "idle") => o = q

Updates(o) == Kind(o, {"update", "rollback"})

(* Every row of the history was a serial of the server in its turn, and none is
   missing up to n unless the process died. *)
Recorded(n) ==
  /\ Len(history) <= n
  /\ \A i \in 1..Len(history) : i <= history[i] /\ history[i] <= n
  /\ crashes = 0 => Len(history) = n /\ \A i \in 1..Len(history) : history[i] = i

(* Only engine e, or none, holds its port. *)
Only(e) == \A f \in Engines : Listening(f) => f = e

(* What the pool's engine publishes. *)
Publishes(serial) == pool # None => engines[pool].serial = serial
PublishesTable == pool # None /\ current => engines[pool].vrps = table

(* The row says that the server runs when it does. *)
SaysRunning == pool # None => row.status = "running"
SaysStopped == crashes = 0 /\ row.status = "running" => pool # None

(* Where no call is in flight. *)
AtRest ==
  /\ Only(pool) /\ PublishesTable
  /\ Deleted => pool = None
  /\ ~Deleted => Recorded(row.serial) /\ Publishes(row.serial) /\ SaysRunning /\ SaysStopped

(* How far a call has come. *)
Committing(o, kinds) == At(o, "commit") /\ Kind(o, kinds)
Published(o) == op[o].pc \in {"notify", "record"} \/ Committing(o, {"update", "rollback"})
Stopping(o)  == At(o, "close") \/ Committing(o, {"stop", "delete"})
Started(o)   == Committing(o, {"start"})

(* The kind of the call fits the await. *)
KindFits(o) ==
  /\ op[o].kind \in AllKinds
  /\ op[o].pc = "check" => Kind(o, {"start", "delete"})
  /\ op[o].pc \in {"bind", "register", "failed"} => Kind(o, {"start"})
  /\ op[o].pc \in {"pop", "close"} => Kind(o, {"stop", "delete"})
  /\ op[o].pc = "delete" => Kind(o, {"delete"})
  /\ op[o].pc \in {"target", "load", "apply", "notify", "record"} => Updates(o)

(* What a call is about to write. *)
Intends(o) ==
  /\ op[o].pc \notin {"record", "delete"} => row = op[o].seen
  /\ op[o].want.serial = op[o].seen.serial + (IF Published(o) THEN 1 ELSE 0)
  /\ At(o, "failed") => op[o].want.status = "error"
  /\ Started(o) => op[o].want.status = "running"
  /\ Stopping(o) => op[o].want.status = "stopped"
  /\ At(o, "record") => row.serial = op[o].want.serial
  /\ \/ op[o].pc \in {"target", "load", "apply", "notify"}
     \/ Committing(o, {"update", "rollback", "config"})
     => op[o].want.status = op[o].seen.status

(* The state around call o in flight. *)
InMotion(o) ==
  /\ ~Deleted /\ KindFits(o) /\ Intends(o)
  /\ Recorded(IF At(o, "record") THEN row.serial - 1 ELSE row.serial)
  /\ Only(IF op[o].pc \in {"register", "close"} THEN op[o].engine ELSE pool)
  /\ Publishes(IF Published(o) THEN op[o].want.serial ELSE row.serial)
  /\ ~At(o, "apply") => PublishesTable
  /\ ~Started(o) => SaysRunning
  /\ ~Stopping(o) => SaysStopped
  /\ op[o].pc \in {"bind", "register", "failed", "delete"} => pool = None
  /\ Stopping(o) => pool = None
  /\ op[o].pc \in {"bind", "apply"} /\ current => op[o].vrps = table
  /\ At(o, "register") => /\ engines[op[o].engine].serial = row.serial
                          /\ current => engines[op[o].engine].vrps = table
  /\ Started(o) => pool # None

SeqInv == (Quiet => AtRest) /\ \A o \in Ops : ~At(o, "idle") => InMotion(o)

-----------------------------------------------------------------------------
(* A step of a call finds the other calls idle and leaves them so. *)
LEMMA Alone ==
  ASSUME IInv, OneAtATime, OneAtATime', NEW o \in Ops,
         OpStep(o) \/ \E k \in Kinds : Begin(o, k)
  PROVE  /\ \A p \in Ops \ {o} : At(p, "idle") /\ op'[p] = op[p]
         /\ OpStep(o) => ~At(o, "idle")
         /\ (\E k \in Kinds : Begin(o, k)) => Quiet
<1>1. op \in [Ops -> CallType]
  BY DEF IInv, TypeOK
<1>2. OpStep(o) => ~At(o, "idle")
  BY DEF OpStep, NotifyStep, ConfigCommit, StartCheck, StartBind, StartBindFails,
     StartFailedCommit, StartRegister, StartCommit, StopPop, StopNothing, CloseOne, StopClose, StopCommit,
     DeleteCheck, DeleteCommit, RollbackTarget, LoadVrps, ApplyVrps, NotifyDone, NotifyOne,
     UpdateCommit, RecordHistory, At
<1>3. OpStep(o) => \A p \in Ops \ {o} : op'[p] = op[p]
  BY <1>1 DEF OpStep, NotifyStep, ConfigCommit, StartCheck, StartBind, StartBindFails,
     StartFailedCommit, StartRegister, StartCommit, StopPop, StopNothing, CloseOne, StopClose, StopCommit,
     DeleteCheck, DeleteCommit, RollbackTarget, LoadVrps, ApplyVrps, NotifyDone, NotifyOne,
     UpdateCommit, RecordHistory, Goto, Finish
<1>4. ASSUME NEW k \in Kinds, Begin(o, k)
      PROVE  ~At(o, "idle")' /\ At(o, "idle") /\ \A p \in Ops \ {o} : op'[p] = op[p]
  <2>1. k \in AllKinds /\ At(o, "idle")
    BY <1>4, ServiceAssumption DEF Begin
  <2>2. PICK n \in {"check", "pop", "load", "target", "commit"},
             s \in Settings \union {row.settings} :
          op' = [op EXCEPT ![o] = [Idle EXCEPT !.kind = k, !.pc = n, !.seen = row,
                                               !.want = [row EXCEPT !.settings = s]]]
    BY <1>4, <2>1 DEF Begin, AllKinds
  <2>3. op'[o].pc = n /\ \A p \in Ops \ {o} : op'[p] = op[p]
    BY <1>1, <2>2 DEF Idle
  <2> QED
    BY <2>1, <2>3 DEF At
<1> QED
  BY <1>2, <1>3, <1>4 DEF OneAtATime, At, Quiet

(* What is to be shown of a step of call o. *)
Follows(o) == IF At(o, "idle") THEN AtRest ELSE InMotion(o)

LEMMA Settled ==
  ASSUME NEW o \in Ops, \A p \in Ops \ {o} : At(p, "idle") /\ op'[p] = op[p], Follows(o)'
  PROVE  SeqInv'
  BY DEF Follows, SeqInv, Quiet, At

(* A commit writes what the call wants, if the row is what it had read. *)
LEMMA FlushExact ==
  ASSUME NEW seen \in RowType, NEW want \in RowType, row = seen
  PROVE  Flush(seen, want) = want
  BY DEF Flush, RowType

(* The types that the steps below use. *)
LEMMA Types ==
  ASSUME IInv, NEW o \in Ops, ~At(o, "idle"), ~Deleted
  PROVE  /\ op \in [Ops -> CallType] /\ op[o] \in CallType
         /\ op[o].seen \in RowType /\ op[o].want \in RowType /\ row \in RowType
         /\ row.serial \in Nat /\ op[o].seen.serial \in Nat /\ op[o].want.serial \in Nat
         /\ engines \in [Engines -> EngineType]
         /\ pool \in Engines \union {None} /\ None \notin Engines
         /\ crashes \in Nat /\ history \in Seq(Serials)
         /\ NoRow \notin RowType
  BY EngineAssumption, ServiceAssumption, RowAssumption
     DEF IInv, TypeOK, TypeOKEngine, CallOK, Deleted, CallType, RowType, Serials

(* Most steps of a call are small enough to be seen through at once. *)
USE DEF Follows, AtRest, InMotion, KindFits, Intends, Recorded, Only, Publishes, PublishesTable,
         SaysRunning, SaysStopped, Committing, Published, Stopping, Started, Updates, Kind, At,
         Deleted, Listening, AllKinds

(* Steps that read, and look into the pool. *)
LEMMA ReadStepFollows ==
  ASSUME IInv, NEW o \in Ops, ~At(o, "idle"), InMotion(o),
         \/ StartCheck(o) \/ StartBindFails(o) \/ DeleteCheck(o) \/ RollbackTarget(o)
         \/ LoadVrps(o) \/ NotifyDone(o) \/ StopNothing(o)
         \/ (\E r \in Routers : CloseOne(o, r) \/ NotifyOne(o, r))
  PROVE  Follows(o)'
<1>1. ~Deleted
  BY DEF InMotion
<1>2. CASE StartCheck(o)
  BY <1>1, <1>2, Types DEF StartCheck, Goto, Finish, Idle, CallType, UnchangedDB,
     UnchangedEngine, evars
<1>3. CASE StartBindFails(o)
  BY <1>1, <1>3, Types DEF StartBindFails, CallType, UnchangedDB, UnchangedEngine, evars
<1>4. CASE DeleteCheck(o)
  BY <1>1, <1>4, Types DEF DeleteCheck, Goto, Finish, Idle, CallType, UnchangedDB,
     UnchangedEngine, evars
<1>5. CASE RollbackTarget(o)
  BY <1>1, <1>5, Types DEF RollbackTarget, Goto, Finish, Idle, CallType, UnchangedDB,
     UnchangedEngine, evars
<1>6. CASE LoadVrps(o)
  BY <1>1, <1>6, Types DEF LoadVrps, CallType, UnchangedDB, UnchangedEngine, evars
<1>7. CASE NotifyDone(o)
  BY <1>1, <1>7, Types DEF NotifyDone, CallType, UnchangedDB, UnchangedEngine, evars
<1>8. CASE \E r \in Routers : NotifyOne(o, r)
  BY <1>1, <1>8, Types DEF NotifyOne, CallType, UnchangedDB
<1>9. CASE \E r \in Routers : CloseOne(o, r)
  BY <1>1, <1>9, Types DEF CloseOne, CallType, UnchangedDB
<1>10. CASE StopNothing(o)
  BY <1>1, <1>10, Types DEF StopNothing, CallType, UnchangedDB, UnchangedEngine, evars
<1> QED
  BY <1>2, <1>3, <1>4, <1>5, <1>6, <1>7, <1>8, <1>9, <1>10

(* Commits of the row. *)
LEMMA StartFailedCommitFollows ==
  ASSUME IInv, NEW o \in Ops, ~At(o, "idle"), InMotion(o), StartFailedCommit(o)
  PROVE  Follows(o)'
<1>1. ~Deleted /\ row = op[o].seen
  BY DEF InMotion, Intends, StartFailedCommit, At
<1>2. row' = op[o].want
  BY <1>1, Types, FlushExact DEF StartFailedCommit
<1> QED
  BY <1>1, <1>2, Types DEF StartFailedCommit, Goto, Finish, Idle, CallType, UnchangedEngine, evars

LEMMA StartCommitFollows ==
  ASSUME IInv, NEW o \in Ops, ~At(o, "idle"), InMotion(o), StartCommit(o)
  PROVE  Follows(o)'
<1>1. ~Deleted /\ row = op[o].seen
  BY DEF InMotion, Intends, StartCommit, At
<1>2. row' = op[o].want
  BY <1>1, Types, FlushExact DEF StartCommit
<1> QED
  BY <1>1, <1>2, Types DEF StartCommit, Goto, Finish, Idle, CallType, UnchangedEngine, evars

LEMMA StopCommitFollows ==
  ASSUME IInv, NEW o \in Ops, ~At(o, "idle"), InMotion(o), StopCommit(o)
  PROVE  Follows(o)'
<1>1. ~Deleted /\ row = op[o].seen
  BY DEF InMotion, Intends, StopCommit, At
<1>2. row' = op[o].want
  BY <1>1, Types, FlushExact DEF StopCommit
<1> QED
  BY <1>1, <1>2, Types DEF StopCommit, Goto, Finish, Idle, CallType, UnchangedEngine, evars

LEMMA ConfigCommitFollows ==
  ASSUME IInv, NEW o \in Ops, ~At(o, "idle"), InMotion(o), ConfigCommit(o)
  PROVE  Follows(o)'
<1>1. ~Deleted /\ row = op[o].seen
  BY DEF InMotion, Intends, ConfigCommit, At
<1>2. row' = op[o].want
  BY <1>1, Types, FlushExact DEF ConfigCommit
<1> QED
  BY <1>1, <1>2, Types DEF ConfigCommit, Goto, Finish, Idle, CallType, UnchangedEngine, evars

LEMMA UpdateCommitFollows ==
  ASSUME IInv, NEW o \in Ops, ~At(o, "idle"), InMotion(o), UpdateCommit(o)
  PROVE  Follows(o)'
<1>1. ~Deleted /\ row = op[o].seen
  BY DEF InMotion, Intends, UpdateCommit, At
<1>2. row' = op[o].want
  BY <1>1, Types, FlushExact DEF UpdateCommit
<1> QED
  BY <1>1, <1>2, Types DEF UpdateCommit, Goto, Finish, Idle, CallType, UnchangedEngine, evars

(* Deletion, and what is done to an engine. *)
LEMMA EngineCallFollows ==
  ASSUME IInv, NEW o \in Ops, ~At(o, "idle"), InMotion(o),
         \/ DeleteCommit(o) \/ StartBind(o) \/ StopPop(o) \/ StopClose(o)
         \/ ApplyVrps(o)
  PROVE  Follows(o)'
<1>1. ~Deleted
  BY DEF InMotion
<1>2. CASE DeleteCommit(o)
  BY <1>1, <1>2, Types DEF DeleteCommit, Finish, Idle, CallType, UnchangedEngine, evars
<1>3. CASE StartBind(o)
  BY <1>1, <1>3, Types DEF StartBind, CallType, EngineType, UnchangedDB, Bind, InUse
<1>4. CASE StopPop(o)
  <2>1. PICK first :
          /\ StopEngine(o, pool, first)
          /\ op' = [op EXCEPT ![o].pc = IF first = None THEN "commit" ELSE "close",
                              ![o].engine = IF first = None THEN None ELSE pool,
                              ![o].at = first, ![o].want.status = "stopped"]
    BY <1>4 DEF StopPop
  <2>2. pool \in Engines /\ op[o].pc = "pop" /\ op[o].kind \in {"stop", "delete"}
    BY <1>1, <1>4, Types DEF StopPop
  <2>3. /\ engines'[pool].state = (IF first = None THEN "closed" ELSE "closing")
        /\ \A e \in Engines \ {pool} : engines'[e] = engines[e]
    BY <1>1, <2>1, <2>2, Types DEF StopEngine, EngineType
  <2>4. /\ op'[o].pc = (IF first = None THEN "commit" ELSE "close")
        /\ op'[o].engine = (IF first = None THEN None ELSE pool)
        /\ op'[o].kind = op[o].kind /\ op'[o].seen = op[o].seen
        /\ op'[o].want.serial = op[o].want.serial /\ op'[o].want.status = "stopped"
    BY <1>1, <2>1, Types DEF CallType, RowType
  <2>5. pool' = None /\ UNCHANGED <<row, history, table, crashes, current>>
    BY <1>4 DEF StopPop, UnchangedDB
  <2>6. \A e \in Engines : engines'[e].state # "closed" => e = pool
    BY <2>2, <2>3
  <2>7. \A e \in Engines : engines'[e].state # "closed" =>
             e = IF op'[o].pc \in {"register", "close"} THEN op'[o].engine ELSE pool'
    BY <2>3, <2>4, <2>6
  <2> QED
    BY <1>1, <2>2, <2>4, <2>5, <2>7, Types
<1>5. CASE StopClose(o)
  BY <1>1, <1>5, Types DEF StopClose, CallType, EngineType, UnchangedDB, CloseEngine
<1>6. CASE ApplyVrps(o)
  BY <1>1, <1>6, Types DEF ApplyVrps, CallType, EngineType, UnchangedDB, Publish
<1> QED
  BY <1>2, <1>3, <1>4, <1>5, <1>6

HIDE DEF Follows, AtRest, InMotion, KindFits, Intends, Recorded, Only, Publishes, PublishesTable,
         SaysRunning, SaysStopped, Committing, Published, Stopping, Started, Updates, Kind, At,
         Deleted, Listening, AllKinds

(* The history grows by the serial that the row got. *)
LEMMA RecordHistoryFollows ==
  ASSUME IInv, NEW o \in Ops, ~At(o, "idle"), InMotion(o), RecordHistory(o)
  PROVE  Follows(o)'
<1> DEFINE serial == op[o].want.serial
           len == Len(history)
<1>1. /\ ~Deleted /\ row.serial = serial /\ Recorded(serial - 1) /\ At(o, "record")
      /\ Publishes(serial) /\ Only(pool) /\ PublishesTable /\ SaysRunning /\ SaysStopped
  BY DEF InMotion, Intends, RecordHistory, At, Published, Started, Stopping, Committing
<1>2. serial \in Nat /\ len \in Nat /\ history \in Seq(Serials)
      /\ crashes \in Nat /\ op \in [Ops -> CallType]
  BY <1>1, Types
<1>3. /\ history' = Append(history, serial)
      /\ UNCHANGED <<row, table, pool, crashes, current, engines>> /\ op'[o] = Idle
  BY <1>1, <1>2 DEF RecordHistory, Finish, UnchangedEngine, evars
<1>4. /\ Len(history') = len + 1 /\ history'[len + 1] = serial
      /\ \A i \in 1..len : history'[i] = history[i]
  BY <1>2, <1>3
<1>5. Recorded(row.serial)'
  <2> HIDE DEF serial, len
  <2>1. len <= serial - 1
        /\ (\A i \in 1..len : i <= history[i] /\ history[i] <= serial - 1)
        /\ (crashes = 0 => len = serial - 1 /\ \A i \in 1..len : history[i] = i)
    BY <1>1 DEF Recorded, len
  <2>2. \A i \in 1..len : history[i] \in Nat
    <3>1. \A i \in 1..len : history[i] \in Serials
      BY <1>2 DEF len
    <3> QED
      BY <3>1, EngineAssumption DEF Serials
  <2>3. \A i \in 1..(len + 1) : i \in 1..len \/ i = len + 1
    BY <1>2
  <2>4. \A i \in 1..(len + 1) : i <= history'[i] /\ history'[i] <= serial
    BY <1>2, <1>4, <2>1, <2>2, <2>3
  <2>5. crashes = 0 => len + 1 = serial /\ \A i \in 1..(len + 1) : history'[i] = i
    BY <1>2, <1>4, <2>1, <2>3
  <2>6. row'.serial = serial /\ crashes' = crashes
    BY <1>1, <1>3 DEF serial
  <2> QED
    BY <1>2, <1>4, <2>1, <2>4, <2>5, <2>6 DEF Recorded
<1>6. AtRest'
  BY <1>1, <1>3, <1>5 DEF AtRest, Publishes, Only, PublishesTable, SaysRunning, SaysStopped,
     Listening, Deleted
<1> QED
  BY <1>3, <1>6 DEF Follows, At, Idle

(* The engine that was bound runs, and is the one of the pool. *)
LEMMA StartRegisterFollows ==
  ASSUME IInv, NEW o \in Ops, ~At(o, "idle"), InMotion(o), StartRegister(o)
  PROVE  Follows(o)'
<1> DEFINE e == op[o].engine
<1>1. ~Deleted /\ e # None
  BY DEF InMotion, IInv, CallOK, StartRegister
<1>2. e \in Engines
  BY <1>1, Types DEF CallType
<1>3. /\ engines' = [engines EXCEPT ![e].state = "running"] /\ pool' = e
      /\ op' = [op EXCEPT ![o].pc = "commit", ![o].want.status = "running",
                          ![o].want.count = Cardinality(op[o].vrps)]
  BY DEF StartRegister, Run
<1>4. /\ engines'[e].serial = engines[e].serial /\ engines'[e].vrps = engines[e].vrps
      /\ \A f \in Engines \ {e} : engines'[f] = engines[f]
  BY <1>1, <1>2, <1>3, Types DEF EngineType
<1>5. /\ op'[o].pc = "commit" /\ op'[o].kind = op[o].kind /\ op'[o].seen = op[o].seen
      /\ op'[o].want.serial = op[o].want.serial /\ op'[o].want.status = "running"
  BY <1>1, <1>3, Types DEF CallType, RowType
<1>6. UNCHANGED <<row, history, table, crashes, current>> /\ At(o, "register") /\ Kind(o, {"start"})
  BY DEF StartRegister, UnchangedDB, InMotion, KindFits, At
<1> HIDE DEF e
<1>7. /\ row = op[o].seen /\ op[o].want.serial = op[o].seen.serial
      /\ engines[e].serial = row.serial /\ (current => engines[e].vrps = table)
      /\ Recorded(row.serial) /\ \A f \in Engines : Listening(f) => f = e
  BY <1>1, <1>6, Types DEF InMotion, Intends, Only, Published, Committing, Kind, At, Updates, e
<1>8. op[o].seen.serial \in Nat
  BY <1>1, Types
<1>9. KindFits(o)'
  BY <1>5, <1>6 DEF KindFits, AllKinds, Updates, Kind, At
<1>10. Intends(o)'
  BY <1>5, <1>6, <1>7, <1>8 DEF Intends, Published, Started, Stopping, Updates, Committing, Kind, At
<1>11. Only(pool)'
  BY <1>2, <1>3, <1>4, <1>7 DEF Only, Listening
<1>12. /\ Recorded(row.serial)' /\ Publishes(row.serial)' /\ PublishesTable'
       /\ SaysStopped' /\ pool' # None /\ ~Deleted'
  BY <1>1, <1>3, <1>4, <1>6, <1>7 DEF Recorded, Publishes, PublishesTable, SaysStopped, Deleted
<1> QED
  BY <1>5, <1>6, <1>9, <1>10, <1>11, <1>12 DEF Follows, InMotion, Published, Started,
     Stopping, Updates, Committing, Kind, At

-----------------------------------------------------------------------------
(* A call begins where none is in flight, with a copy of the row. *)
LEMMA BeginFollows ==
  ASSUME IInv, NEW o \in Ops, AtRest, NEW k \in Kinds, Begin(o, k)
  PROVE  Follows(o)'
<1>1. ~Deleted /\ row \in RowType /\ op \in [Ops -> CallType] /\ k \in AllKinds
  BY ServiceAssumption DEF Begin, IInv, TypeOK, Deleted
<1>2. PICK n \in {"check", "pop", "load", "target", "commit"},
             s \in Settings \union {row.settings} :
        /\ op' = [op EXCEPT ![o] = [Idle EXCEPT !.kind = k, !.pc = n, !.seen = row,
                                                !.want = [row EXCEPT !.settings = s]]]
        /\ n = "check" => k \in {"start", "delete"}
        /\ n = "pop" => k = "stop"
        /\ n \in {"load", "target"} => k \in {"update", "rollback"}
        /\ n = "commit" => k = "config"
  BY <1>1 DEF Begin, AllKinds
<1>3. /\ op'[o].pc = n /\ op'[o].kind = k /\ op'[o].seen = row
      /\ op'[o].want.serial = row.serial /\ op'[o].want.status = row.status
  BY <1>1, <1>2 DEF Idle, RowType
<1>4. UNCHANGED <<row, history, table, pool, crashes, current, engines>>
  BY DEF Begin, UnchangedDB, UnchangedEngine, evars
<1>5. row.serial \in Nat
  BY <1>1, EngineAssumption DEF RowType, Serials
<1>6. KindFits(o)' /\ Intends(o)'
  BY <1>1, <1>2, <1>3, <1>4, <1>5 DEF KindFits, Intends, AllKinds, Published, Started, Stopping,
     Updates, Committing, Kind, At
<1>7. AtRest' /\ ~Deleted'
  BY <1>1, <1>4 DEF AtRest, Recorded, Only, Publishes, PublishesTable, SaysRunning, SaysStopped,
     Listening, Deleted
<1> QED
  BY <1>2, <1>3, <1>6, <1>7 DEF Follows, AtRest, InMotion, Published, Started, Stopping,
     Updates, Committing, Kind, At

LEMMA OpFollows ==
  ASSUME IInv, NEW o \in Ops, ~At(o, "idle"), InMotion(o), OpStep(o)
  PROVE  Follows(o)'
  BY ReadStepFollows, StartFailedCommitFollows, StartCommitFollows, StopCommitFollows,
     ConfigCommitFollows, UpdateCommitFollows, EngineCallFollows, StartRegisterFollows,
     RecordHistoryFollows
     DEF OpStep, NotifyStep

(* Routers and their connections touch nothing of this. *)
LEMMA RouterKeeps ==
  ASSUME SeqInv, EngineStep \/ UNCHANGED vars
  PROVE  SeqInv'
<1>1. UNCHANGED <<row, history, table, pool, op, crashes, current, engines>>
  BY DEF EngineStep, EngineNext, ConnStep, RouterStep, Respond, RespondError, Drained, Query,
     Disconnect, Connect, svars, vars
<1> QED
  BY <1>1 DEF SeqInv, Quiet, AtRest, InMotion, KindFits, Intends, Recorded, Only, Publishes,
     PublishesTable, SaysRunning, SaysStopped, Committing, Published, Stopping, Started, Updates,
     Kind, At, Deleted, Listening

(* Neither does the vrps table, whose change is remembered in current. *)
LEMMA TableKeeps ==
  ASSUME SeqInv, TableChange
  PROVE  SeqInv'
<1>1. UNCHANGED <<row, history, pool, op, crashes, engines>> /\ current' = FALSE
  BY DEF TableChange, UnchangedEngine, evars
<1> QED
  BY <1>1 DEF SeqInv, Quiet, AtRest, InMotion, KindFits, Intends, Recorded, Only, Publishes,
     PublishesTable, SaysRunning, SaysStopped, Committing, Published, Stopping, Started, Updates,
     Kind, At, Deleted, Listening

(* A crash leaves the row and the history, which may miss the last serial. *)
LEMMA CrashKeeps ==
  ASSUME IInv, SeqInv, Crash
  PROVE  SeqInv'
<1>1. /\ crashes \in Nat /\ engines \in [Engines -> EngineType]
  BY ServiceAssumption DEF IInv, TypeOK, TypeOKEngine
<1>2. /\ row' = row /\ history' = history /\ crashes' = crashes + 1 /\ pool' = None
      /\ \A e \in Engines : ~Listening(e)'
      /\ \A o \in Ops : At(o, "idle")'
  <2>1. \A e \in Engines : engines'[e].state = "closed"
    BY <1>1 DEF Crash, EngineType
  <2>2. \A o \in Ops : op'[o] = Idle
    BY DEF Crash
  <2> QED
    BY <2>1, <2>2 DEF Crash, Listening, At, Idle
<1>3. ASSUME ~Deleted
      PROVE  Len(history) <= row.serial
             /\ \A i \in 1..Len(history) : i <= history[i] /\ history[i] <= row.serial
  <2>1. row \in RowType /\ history \in Seq(Serials)
    BY <1>3 DEF IInv, TypeOK, Deleted
  <2>2. row.serial \in Nat /\ Len(history) \in Nat
    BY <2>1, EngineAssumption DEF RowType, Serials
  <2>3. \A i \in 1..Len(history) : history[i] \in Nat
    <3>1. \A i \in 1..Len(history) : history[i] \in Serials
      BY <2>1
    <3> QED
      BY <3>1, EngineAssumption DEF Serials
  <2>4. Recorded(row.serial) \/ Recorded(row.serial - 1)
    BY <1>3 DEF SeqInv, Quiet, AtRest, InMotion
  <2> DEFINE len == Len(history)
             serial == row.serial
  <2>5. len \in Nat /\ serial \in Nat /\ \A i \in 1..len : history[i] \in Nat
    BY <2>2, <2>3
  <2>6. \/ len <= serial /\ \A i \in 1..len : i <= history[i] /\ history[i] <= serial
        \/ len <= serial - 1 /\ \A i \in 1..len : i <= history[i] /\ history[i] <= serial - 1
    BY <2>4 DEF Recorded
  <2>7. len <= serial /\ \A i \in 1..len : i <= history[i] /\ history[i] <= serial
    <3> HIDE DEF len, serial
    <3> QED
      BY <2>5, <2>6
  <2> QED
    BY <2>7
<1>4. ~Deleted => Recorded(row.serial)'
  BY <1>1, <1>2, <1>3 DEF Recorded
<1>5. Only(pool)'
  BY <1>2 DEF Only
<1>6. /\ Deleted' <=> Deleted
      /\ PublishesTable' /\ Publishes(row.serial)' /\ SaysRunning' /\ SaysStopped'
  BY <1>1, <1>2 DEF Publishes, PublishesTable, SaysRunning, SaysStopped, Deleted
<1>7. AtRest'
  BY <1>2, <1>4, <1>5, <1>6 DEF AtRest
<1> QED
  BY <1>2, <1>7 DEF SeqInv

LEMMA SeqInit == Init => SeqInv
<1> SUFFICES ASSUME Init PROVE SeqInv
  OBVIOUS
<1>1. AtRest
  <2>1. row # NoRow /\ row.serial = 0 /\ row.status = "stopped"
    <3>1. PICK s \in Settings :
            row = [settings |-> s, status |-> "stopped", serial |-> 0, count |-> 0]
      BY DEF Init
    <3>2. row \in RowType
      BY <3>1, EngineAssumption DEF RowType, Statuses, Serials
    <3> QED
      BY <3>1, <3>2, RowAssumption
  <2>2. Len(history) = 0
    BY DEF Init
  <2> QED
    BY <2>1, <2>2 DEF Init, InitEngine, AtRest, Recorded, Only, Publishes, PublishesTable, SaysRunning,
       SaysStopped, Listening, Deleted
<1>2. \A o \in Ops : At(o, "idle")
  BY DEF Init, At, Idle
<1> QED
  BY <1>1, <1>2 DEF SeqInv

LEMMA SeqStep ==
  IInv /\ OneAtATime /\ OneAtATime' /\ SeqInv /\ [Next]_vars => SeqInv'
<1> SUFFICES ASSUME IInv, OneAtATime, OneAtATime', SeqInv, [Next]_vars
             PROVE  SeqInv'
  OBVIOUS
<1>1. ASSUME NEW o \in Ops, OpStep(o) PROVE SeqInv'
  BY <1>1, Alone, OpFollows, Settled DEF SeqInv
<1>2. ASSUME NEW o \in Ops, NEW k \in Kinds, Begin(o, k) PROVE SeqInv'
  BY <1>2, Alone, BeginFollows, Settled DEF SeqInv
<1> QED
  BY <1>1, <1>2, RouterKeeps, TableKeeps, CrashKeeps DEF Next

(* Where calls do not overlap, SeqInv holds in every reachable state: at rest
   the row, the pool, the history and the serving engine tell one story, and
   between two awaits the one call in flight holds what it still has to write. *)
THEOREM SeqInductive == Spec /\ []OneAtATime => []SeqInv
  BY SeqInit, SeqStep, Inductive, PTL DEF Spec

(* Where calls do not overlap, the engine that serves publishes the serial that
   the row reports, whatever settings were written and whatever failed. *)
THEOREM SerialAlwaysAgrees == Spec /\ []OneAtATime => []SerialAgrees
<1>1. SeqInv => SerialAgrees
  BY DEF SeqInv, AtRest, Publishes, SerialAgrees
<1> QED
  BY <1>1, SeqInductive, PTL

(* Where calls do not overlap, the engine publishes the vrps table as long as it
   has not changed since a call last loaded it. *)
THEOREM ContentAlwaysCurrent == Spec /\ []OneAtATime => []ContentCurrent
<1>1. SeqInv => ContentCurrent
  BY DEF SeqInv, AtRest, PublishesTable, ContentCurrent
<1> QED
  BY <1>1, SeqInductive, PTL

(* Where calls do not overlap, a row says that the server runs when it does and,
   until a crash, only then. *)
THEOREM StatusAlwaysHonest == Spec /\ []OneAtATime => []StatusHonest
<1>1. SeqInv => StatusHonest
  BY DEF SeqInv, AtRest, SaysRunning, SaysStopped, StatusHonest
<1> QED
  BY <1>1, SeqInductive, PTL

(* Where calls do not overlap, a server is deleted only once nothing of it
   listens. *)
THEOREM DeletedAlwaysStopped == Spec /\ []OneAtATime => []DeletedStopped
<1>1. IInv /\ SeqInv => DeletedStopped
  BY EngineAssumption DEF SeqInv, AtRest, Only, DeletedStopped
<1> QED
  BY <1>1, Inductive, SeqInductive, PTL

(* Where calls do not overlap, the history lists the serials of the row in their
   order and, until a crash, all of them. *)
THEOREM HistoryAlwaysComplete == Spec /\ []OneAtATime => []HistoryComplete
<1>1. SeqInv => HistoryComplete
  BY DEF SeqInv, AtRest, Recorded, HistoryComplete
<1> QED
  BY <1>1, SeqInductive, PTL

-----------------------------------------------------------------------------
(* What routers are sent, where calls do not overlap and the server is neither
   stopped nor restarted: a new engine would count on from the serial of the row
   with another table. *)
NeverStopped == Kinds \intersect {"stop", "delete"} = {} /\ MaxCrashes = 0

(* No response is ahead of the engine, and one of its serial is its table. *)
Behind(serial, vrps) ==
  /\ serial <= engines[pool].serial
  /\ serial = engines[pool].serial => engines[pool].vrps \subseteq vrps

ServedOK ==
  /\ \A s \in served : /\ s.session = engines[pool].settings.session
                       /\ s.serial <= engines[pool].serial
                       /\ s.serial = engines[pool].serial => s.vrps = engines[pool].vrps
  /\ \A a, b \in served : a.serial = b.serial => a.vrps = b.vrps
HeldOK ==
  \A r \in Routers :
    /\ held[r].session # None => Behind(held[r].serial, held[r].vrps)
    /\ conn[r].phase = "draining" => Behind(conn[r].reply.serial, conn[r].reply.vrps)

RouterInv ==
  /\ \A o \in Ops : ~At(o, "idle") => op[o].kind \in Kinds
  /\ pool = None => served = {} /\ \A r \in Routers : held[r].session = None
  /\ pool # None => ServedOK /\ HeldOK

(* No call stops an engine. *)
LEMMA NoStop ==
  ASSUME NeverStopped, SeqInv, RouterInv, NEW o \in Ops, ~At(o, "idle")
  PROVE  /\ op[o].pc \notin {"pop", "close", "delete"}
         /\ ~Kind(o, {"stop", "delete"})
  BY DEF NeverStopped, SeqInv, InMotion, KindFits, RouterInv, Kind, At

(* Every router is on the pool's engine. *)
LEMMA Attached ==
  ASSUME NeverStopped, IInv, SeqInv, RouterInv, NEW r \in Routers, conn[r].engine # None
  PROVE  conn[r].engine = pool /\ pool \in Engines
<1> DEFINE e == conn[r].engine
<1>1. e \in Engines
  BY DEF IInv, TypeOK, TypeOKEngine, ConnType
<1>2. engines[e].state \in {"running", "closing"}
  BY DEF IInv, PoolServes, Running, WillClose, CallOK
<1>3. engines[e].state # "closing"
  BY <1>1, NoStop DEF IInv, Ownership, At
<1>4. CASE Quiet
  BY <1>1, <1>2, <1>4 DEF SeqInv, AtRest, Only, Listening
<1>5. ASSUME NEW o \in Ops, ~At(o, "idle") PROVE e = pool
  <2>1. op[o].pc # "close" /\ Only(IF op[o].pc \in {"register", "close"} THEN op[o].engine ELSE pool)
    BY <1>5, NoStop DEF SeqInv, InMotion
  <2>2. At(o, "register") => e # op[o].engine
    BY <1>2, <1>3 DEF IInv, CallOK
  <2> QED
    BY <1>1, <1>2, <2>1, <2>2 DEF Only, Listening, At
<1> QED
  BY <1>1, <1>4, <1>5 DEF Quiet

(* A step that leaves this state alone keeps the invariant. *)
LEMMA RouterStutter ==
  ASSUME RouterInv, UNCHANGED <<engines, held, served, pool>>,
         \A r \in Routers : conn'[r].phase = conn[r].phase /\ conn'[r].reply = conn[r].reply,
         \A o \in Ops : ~At(o, "idle")' => op'[o].kind \in Kinds
  PROVE  RouterInv'
<1>1. HeldOK => HeldOK'
  BY DEF HeldOK, Behind
<1> QED
  BY <1>1 DEF RouterInv, ServedOK

(* A call keeps its kind. *)
LEMMA KindKept ==
  ASSUME IInv, RouterInv, NEW o \in Ops, OpStep(o) \/ \E k \in Kinds : Begin(o, k)
  PROVE  \A p \in Ops : ~At(p, "idle")' => op'[p].kind \in Kinds
<1>1. op \in [Ops -> CallType] /\ op[o] \in CallType
  BY DEF IInv, TypeOK
<1>2. ASSUME NEW k \in Kinds, Begin(o, k)
      PROVE  op'[o].kind \in Kinds /\ \A p \in Ops \ {o} : op'[p] = op[p]
  <2>1. PICK n \in {"check", "pop", "load", "target", "commit"},
             s \in Settings \union {row.settings} :
          op' = [op EXCEPT ![o] = [Idle EXCEPT !.kind = k, !.pc = n, !.seen = row,
                                               !.want = [row EXCEPT !.settings = s]]]
    BY <1>2, ServiceAssumption DEF Begin, AllKinds
  <2> QED
    BY <1>1, <2>1 DEF Idle
<1>3. ASSUME OpStep(o)
      PROVE  (op'[o].kind = op[o].kind \/ op'[o] = Idle) /\ \A p \in Ops \ {o} : op'[p] = op[p]
  <2>1. CASE StartCheck(o) \/ StartBindFails(o) \/ StartFailedCommit(o) \/ StartCommit(o)
    BY <1>1, <2>1 DEF StartCheck, StartBindFails, StartFailedCommit, StartCommit, Goto, Finish,
       CallType
  <2>2. CASE StartBind(o) \/ StartRegister(o)
    BY <1>1, <2>2 DEF StartBind, StartRegister, CallType
  <2>7. CASE StopPop(o)
    <3>1. PICK first :
            op' = [op EXCEPT ![o].pc = IF first = None THEN "commit" ELSE "close",
                             ![o].engine = IF first = None THEN None ELSE pool,
                             ![o].at = first, ![o].want.status = "stopped"]
      BY <2>7 DEF StopPop
    <3> QED
      BY <1>1, <3>1 DEF CallType
  <2>3. CASE \/ StopNothing(o) \/ (\E r \in Routers : CloseOne(o, r))
             \/ StopClose(o) \/ StopCommit(o)
    BY <1>1, <2>3 DEF StopNothing, CloseOne, StopClose, StopCommit, Goto, Finish, CallType
  <2>4. CASE DeleteCheck(o) \/ DeleteCommit(o) \/ ConfigCommit(o) \/ RollbackTarget(o)
    BY <1>1, <2>4 DEF DeleteCheck, DeleteCommit, ConfigCommit, RollbackTarget, Goto, Finish,
       CallType
  <2>5. CASE LoadVrps(o) \/ ApplyVrps(o)
    BY <1>1, <2>5 DEF LoadVrps, ApplyVrps, CallType
  <2>6. CASE NotifyStep(o) \/ UpdateCommit(o) \/ RecordHistory(o)
    BY <1>1, <2>6 DEF NotifyStep, NotifyDone, NotifyOne, UpdateCommit, RecordHistory, Goto,
       Finish, CallType
  <2> QED
    BY <1>3, <2>1, <2>2, <2>3, <2>4, <2>5, <2>6, <2>7 DEF OpStep
<1>4. OpStep(o) => ~At(o, "idle")
  BY DEF OpStep, NotifyStep, ConfigCommit, StartCheck, StartBind, StartBindFails,
     StartFailedCommit, StartRegister, StartCommit, StopPop, StopNothing, CloseOne, StopClose, StopCommit,
     DeleteCheck, DeleteCommit, RollbackTarget, LoadVrps, ApplyVrps, NotifyDone, NotifyOne,
     UpdateCommit, RecordHistory, At
<1> QED
  BY <1>2, <1>3, <1>4 DEF RouterInv, At, Idle

(* Publishing moves the engine ahead of everything sent before. *)
LEMMA ApplyRouters ==
  ASSUME NeverStopped, IInv, SeqInv, RouterInv, NEW o \in Ops, ApplyVrps(o),
         \A p \in Ops : ~At(p, "idle")' => op'[p].kind \in Kinds
  PROVE  RouterInv'
<1>1. ~At(o, "idle") /\ InMotion(o) /\ UNCHANGED <<held, served, pool>>
  BY DEF ApplyVrps, At, SeqInv
<1>2. CASE pool = None
  BY <1>1, <1>2, RouterStutter DEF ApplyVrps
<1>3. CASE pool # None
  <2> DEFINE serial == op[o].seen.serial + 1
  <2>1. /\ ~Deleted /\ row = op[o].seen /\ engines[pool].serial = row.serial
    BY <1>1, <1>3 DEF InMotion, Intends, ApplyVrps, At, Publishes, Published, Committing
  <2>2. pool \in Engines /\ engines[pool] \in EngineType /\ op[o].seen.serial \in Nat
    BY <1>1, <1>3, <2>1, Types
  <2>3. /\ engines'[pool].serial = serial
        /\ engines'[pool].settings = engines[pool].settings
    <3>1. engines' = [engines EXCEPT ![pool].vrps = op[o].vrps, ![pool].serial = serial]
      BY <1>3 DEF ApplyVrps, Publish
    <3> QED
      BY <1>1, <2>1, <2>2, <3>1, Types DEF EngineType
  <2>4. \A r \in Routers : conn'[r].phase = conn[r].phase /\ conn'[r].reply = conn[r].reply
    BY <1>3 DEF ApplyVrps, Publish, IInv, TypeOK, TypeOKEngine, ConnType
  <2>5. ServedOK'
    <3>1. \A s \in served : s.serial \in Nat
      BY EngineAssumption DEF IInv, TypeOK, TypeOKEngine, ServedType, Serials
    <3>2. \A s \in served : s.serial < serial
      <4>1. \A s \in served : s.serial <= op[o].seen.serial
        BY <1>3, <2>1 DEF RouterInv, ServedOK
      <4> QED
        BY <2>2, <3>1, <4>1
    <3>3. \A s \in served : s.serial <= serial /\ s.serial # serial
      BY <2>2, <3>1, <3>2
    <3> HIDE DEF serial
    <3> QED
      BY <1>1, <1>3, <2>3, <3>3 DEF RouterInv, ServedOK
  <2>6. HeldOK'
    <3>1. ASSUME NEW n \in Nat, NEW v, Behind(n, v) PROVE n <= serial /\ n # serial
      BY <2>1, <2>2, <3>1 DEF Behind
    <3>2. \A r \in Routers : held[r].serial \in Nat /\ conn[r].reply.serial \in Nat
      BY EngineAssumption DEF IInv, TypeOK, TypeOKEngine, HeldType, ConnType, ReplyType, Serials
    <3>3. \A r \in Routers :
            /\ held[r].session # None => held[r].serial <= serial /\ held[r].serial # serial
            /\ conn[r].phase = "draining" =>
                 conn[r].reply.serial <= serial /\ conn[r].reply.serial # serial
      BY <1>3, <3>1, <3>2 DEF RouterInv, HeldOK
    <3> HIDE DEF serial
    <3> QED
      BY <1>1, <2>3, <2>4, <3>3 DEF HeldOK, Behind
  <2> QED
    BY <1>1, <1>3, <2>5, <2>6 DEF RouterInv
<1> QED
  BY <1>2, <1>3

(* Until an engine is in the pool no router has anything. *)
LEMMA RegisterRouters ==
  ASSUME NeverStopped, IInv, SeqInv, RouterInv, NEW o \in Ops, StartRegister(o),
         \A p \in Ops : ~At(p, "idle")' => op'[p].kind \in Kinds
  PROVE  RouterInv'
<1>1. InMotion(o) /\ At(o, "register") /\ UNCHANGED <<conn, held, served>> /\ pool' # None
  BY DEF StartRegister, At, SeqInv, IInv, CallOK
<1>2. pool = None
  BY <1>1 DEF InMotion, At
<1>3. served = {} /\ \A r \in Routers : held[r].session = None
  BY <1>2 DEF RouterInv
<1>4. \A r \in Routers : conn[r].phase # "draining"
  <2>1. ASSUME NEW r \in Routers, conn[r].engine # None PROVE FALSE
    BY <1>2, <2>1, Attached, EngineAssumption
  <2> QED
    BY <2>1 DEF IInv, ConnOK
<1> QED
  BY <1>1, <1>3, <1>4 DEF RouterInv, ServedOK, HeldOK

(* Connections: a response is cut from the engine as it is, and a router that has
   read it holds it. *)
LEMMA ConnectionRouters ==
  ASSUME NeverStopped, IInv, SeqInv, RouterInv, EngineStep
  PROVE  RouterInv'
<1>1. /\ UNCHANGED <<pool, op, engines>> /\ conn \in [Routers -> ConnType]
      /\ held \in [Routers -> HeldType]
  BY DEF EngineStep, svars, EngineNext, ConnStep, RouterStep, Respond, RespondError, Drained,
     Query, Disconnect, Connect, IInv, TypeOK, TypeOKEngine
<1>2. \A o \in Ops : ~At(o, "idle")' => op'[o].kind \in Kinds
  BY <1>1 DEF RouterInv, At
<1>3. PICK r \in Routers : ConnStep(r) \/ RouterStep(r)
  BY DEF EngineStep, EngineNext
<1>4. conn[r] \in ConnType /\ held[r] \in HeldType
      /\ \A q \in Routers \ {r} : conn'[q] = conn[q] /\ held'[q] = held[q]
  BY <1>1, <1>3 DEF ConnStep, RouterStep, Respond, RespondError, Drained, Query, Disconnect, Connect
<1>5. CASE RouterStep(r) \/ RespondError(r)
  <2>1. Query(r) \/ RespondError(r) => UNCHANGED <<held, served>> /\ conn'[r].phase # "draining"
    BY <1>1, <1>4, ErrorEffect DEF Query, ConnType
  <2>2. Disconnect(r) \/ (\E e \in Engines : Connect(r, e)) =>
          UNCHANGED <<held, served>> /\ conn'[r].phase # "draining"
    <3>1. Off.phase # "draining" /\ \A e \in Engines : Fresh(e).phase # "draining"
      BY DEF Off, Fresh
    <3> QED
      BY <1>1, <1>4, <3>1 DEF Disconnect, Connect
  <2>3. UNCHANGED <<held, served>> /\ conn'[r].phase # "draining"
    BY <1>5, <2>1, <2>2 DEF RouterStep
  <2>4. HeldOK => HeldOK'
    BY <1>1, <1>4, <2>3 DEF HeldOK, Behind
  <2> QED
    BY <1>1, <1>2, <2>3, <2>4 DEF RouterInv, ServedOK
<1>6. CASE Respond(r)
  <2>1. conn[r].engine = pool /\ pool \in Engines /\ pool # None
    BY <1>6, Attached, EngineAssumption DEF Respond, IInv, ConnOK
  <2>2. engines[pool].serial \in Nat
    BY <2>1, EngineAssumption DEF IInv, TypeOK, TypeOKEngine, EngineType, Serials
  <2> DEFINE new == [session |-> engines[pool].settings.session, serial |-> engines[pool].serial,
                     vrps |-> engines[pool].vrps]
  <2>3. served' = served \union {new} /\ held' = held
    BY <1>6, <2>1 DEF Respond
  <2>4. /\ conn'[r].reply.serial = engines[pool].serial
        /\ conn'[r].reply.vrps = engines[pool].vrps
    BY <1>1, <1>6, <2>1 DEF Respond, ConnType
  <2>5. ServedOK'
    BY <1>1, <2>1, <2>2, <2>3 DEF RouterInv, ServedOK
  <2>6. HeldOK'
    BY <1>1, <1>4, <2>1, <2>2, <2>3, <2>4 DEF RouterInv, HeldOK, Behind
  <2> QED
    BY <1>1, <1>2, <2>1, <2>5, <2>6 DEF RouterInv
<1>7. CASE Drained(r)
  <2>1. conn[r].engine = pool /\ pool \in Engines /\ pool # None
    BY <1>7, Attached, EngineAssumption DEF Drained, IInv, ConnOK
  <2> DEFINE reply == conn[r].reply
             session == engines[pool].settings.session
  <2>2. Behind(reply.serial, reply.vrps) /\ ServedOK /\ HeldOK
    BY <1>7, <2>1 DEF Drained, RouterInv, HeldOK
  <2>3. held'[r] = Apply(held[r], reply, session) /\ served' = served
    BY <1>1, <1>7, <2>1 DEF Drained
  <2>4. conn'[r].phase # "draining"
    BY <1>1, <1>7 DEF Drained, Off, ConnType
  <2>5. \/ held'[r].serial = reply.serial /\ reply.vrps \subseteq held'[r].vrps
        \/ held'[r].session = None
    BY <2>3 DEF Apply, NoData
  <2>6. HeldOK'
    BY <1>1, <1>4, <2>2, <2>4, <2>5 DEF HeldOK, Behind
  <2> QED
    BY <1>1, <1>2, <2>1, <2>2, <2>3, <2>6 DEF RouterInv, ServedOK
<1> QED
  BY <1>3, <1>5, <1>6, <1>7 DEF ConnStep

LEMMA RouterInit == Init => RouterInv
  BY DEF Init, InitEngine, RouterInv, At, Idle, NoData

LEMMA RouterStepInv ==
  ASSUME NeverStopped
  PROVE  IInv /\ SeqInv /\ RouterInv /\ [Next]_vars => RouterInv'
<1> SUFFICES ASSUME IInv, SeqInv, RouterInv, [Next]_vars
             PROVE  RouterInv'
  OBVIOUS
<1>1. ASSUME NEW o \in Ops, OpStep(o), ~ApplyVrps(o), ~StartRegister(o) PROVE RouterInv'
  <2>1. ~At(o, "idle")
    BY <1>1 DEF OpStep, NotifyStep, ConfigCommit, StartCheck, StartBind, StartBindFails,
       StartFailedCommit, StartCommit, StopPop, StopNothing, CloseOne, StopClose, StopCommit,
       DeleteCheck, DeleteCommit, RollbackTarget, LoadVrps, NotifyDone, NotifyOne,
       UpdateCommit, RecordHistory, At
  <2>2. \A p \in Ops : ~At(p, "idle")' => op'[p].kind \in Kinds
    BY <1>1, KindKept
  <2>3. CASE StartBind(o)
    <3>1. pool = None /\ UNCHANGED <<pool, conn, held, served>>
      BY <2>1, <2>3 DEF SeqInv, InMotion, StartBind, At
    <3> QED
      BY <2>2, <3>1 DEF RouterInv
  <2>4. /\ ~StopPop(o) /\ ~StopNothing(o) /\ ~StopClose(o)
        /\ \A r \in Routers : ~CloseOne(o, r)
    BY <2>1, NoStop DEF StopPop, StopNothing, CloseOne, StopClose, At
  <2>5. CASE \E r \in Routers : NotifyOne(o, r)
    <3>1. /\ UNCHANGED <<engines, held, served, pool>>
          /\ \A r \in Routers : conn'[r].phase = conn[r].phase /\ conn'[r].reply = conn[r].reply
      BY <2>5 DEF NotifyOne, Notify, IInv, TypeOK, TypeOKEngine, ConnType
    <3> QED
      BY <2>2, <3>1, RouterStutter
  <2>6. CASE ~StartBind(o) /\ ~\E r \in Routers : NotifyOne(o, r)
    <3>1. UNCHANGED <<engines, conn, held, served, pool>>
      BY <1>1, <2>4, <2>6 DEF OpStep, NotifyStep, ConfigCommit, StartCheck, StartBindFails,
         StartFailedCommit, StartCommit, StopCommit, DeleteCheck, DeleteCommit, RollbackTarget,
         LoadVrps, NotifyDone, UpdateCommit, RecordHistory, UnchangedEngine, evars
    <3> QED
      BY <2>2, <3>1, RouterStutter
  <2> QED
    BY <2>3, <2>5, <2>6
<1>2. ASSUME NEW o \in Ops, ApplyVrps(o) \/ StartRegister(o) PROVE RouterInv'
  BY <1>2, KindKept, ApplyRouters, RegisterRouters DEF OpStep
<1>3. ASSUME NEW o \in Ops, NEW k \in Kinds, Begin(o, k) PROVE RouterInv'
  <2>1. UNCHANGED <<engines, conn, held, served, pool>>
    BY <1>3 DEF Begin, UnchangedEngine, evars
  <2> QED
    BY <1>3, <2>1, KindKept, RouterStutter
<1>4. ~Crash
  BY ServiceAssumption DEF Crash, NeverStopped, IInv, TypeOK
<1>5. CASE TableChange \/ UNCHANGED vars
  <2>1. UNCHANGED <<engines, conn, held, served, pool, op>>
    BY <1>5 DEF TableChange, UnchangedEngine, evars, vars
  <2> QED
    BY <2>1, RouterStutter DEF RouterInv, At
<1> QED
  BY <1>1, <1>2, <1>3, <1>4, <1>5, ConnectionRouters DEF Next

LEMMA RouterInductive ==
  ASSUME NeverStopped
  PROVE  Spec /\ []OneAtATime => []RouterInv
  BY RouterInit, RouterStepInv, Inductive, SeqInductive, PTL DEF Spec

(* Where calls do not overlap and the server is not stopped, two responses of one
   session and serial are the same, so that a router that holds the serial misses
   nothing by not asking. *)
THEOREM SerialAlwaysIdentifies ==
  ASSUME NeverStopped
  PROVE  Spec /\ []OneAtATime => []SerialIdentifies
<1>1. RouterInv => SerialIdentifies
  BY DEF RouterInv, ServedOK, SerialIdentifies
<1> QED
  BY <1>1, RouterInductive, PTL

(* Where calls do not overlap and the server is not stopped, a router that holds
   the session and serial of its engine holds every VRP of it, however updates
   and responses interleave. *)
THEOREM SyncedAlwaysCovers ==
  ASSUME NeverStopped
  PROVE  Spec /\ []OneAtATime => []SyncedCovers
<1>1. IInv /\ SeqInv /\ RouterInv => SyncedCovers
  <2> SUFFICES ASSUME IInv, SeqInv, RouterInv, NEW r \in Routers, conn[r].engine # None,
                      held[r].session = engines[conn[r].engine].settings.session,
                      held[r].serial = engines[conn[r].engine].serial
               PROVE  engines[conn[r].engine].vrps \subseteq held[r].vrps
    BY DEF SyncedCovers
  <2>1. conn[r].engine = pool /\ pool \in Engines /\ pool # None
    BY Attached, EngineAssumption
  <2>2. held[r].session # None
    BY <2>1, EngineAssumption DEF IInv, TypeOK, TypeOKEngine, EngineType
  <2> QED
    BY <2>1, <2>2 DEF RouterInv, HeldOK, Behind
<1> QED
  BY <1>1, Inductive, SeqInductive, RouterInductive, PTL
=============================================================================
