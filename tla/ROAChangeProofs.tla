--------------------------- MODULE ROAChangeProofs ---------------------------
(***************************************************************************)
(* Theorems about ROAChange for any number of requests, ROAs, calls and    *)
(* approval records, whatever rules there are, and about OriginValidation, *)
(* which reads the ROAs they leave.                                        *)
(***************************************************************************)
EXTENDS OriginValidation, FiniteSetTheorems, TLAPS

(***************************************************************************)
(* The inductive invariant.  A call in flight knows the request as it was  *)
(* when the call began; what it may rely on since is that a request, once  *)
(* there, keeps its type, its risk and the number of approvals it needs,   *)
(* and that approval records are never taken back.                         *)
(***************************************************************************)
Calls == {"create", "approve", "execute", "rollback"}
InFlight(o) == op[o].pc \in {"load", "commit"}
Fixed(row, now) == row.type = now.type /\ row.risk = now.risk /\ row.required = now.required

(* The request has the approvals that Reviewed asks for. *)
Backed(q) ==
  LET n == Cardinality(Approving(votes[q]))
  IN  n >= requests[q].required /\ (High(requests[q].risk) => n >= 1)

(* The request of a creation is not there, and no other call knows its id. *)
CreateOK(o) ==
  LET new == op[o].want
  IN  /\ requests[op[o].req].status = "none"
      /\ \A p \in Ops : op[p].req = op[o].req => p = o
      /\ new.status \in {"approved", "pending_approval"} /\ new.approvals = {}
      /\ new.status = "approved" => new.required = 0 /\ ~High(new.risk)

KnownOK(o) ==
  LET now == requests[op[o].req]
  IN  now.status # "none" /\ Fixed(op[o].seen, now) /\ Fixed(op[o].want, now)

(* An approval that decides has counted records that are there for good. *)
ApproveOK(o) ==
  LET c == op[o]
      known == votes[c.req] \union {c.vote}
  IN  /\ KnownOK(o) /\ c.vote \in VoteType
      /\ c.want.approvals \subseteq known
      /\ c.seen.status = "pending_approval"
      /\ c.want.status \in {"pending_approval", "approved", "rejected"}
      /\ c.want.status = "approved" =>
           c.vote.approves /\ Cardinality(Approving(known)) >= c.want.required

(* An execution or rollback has seen a request that was reviewed. *)
ExecuteOK(o) ==
  /\ KnownOK(o) /\ Backed(op[o].req) /\ op[o].vote = None
  /\ op[o].want.approvals = op[o].seen.approvals
  /\ op[o].seen.status = "approved" /\ op[o].want.status \in {"executed", "failed"}
RollbackOK(o) ==
  /\ KnownOK(o) /\ Backed(op[o].req) /\ op[o].vote = None
  /\ op[o].want.approvals = op[o].seen.approvals
  /\ op[o].seen.status = "executed" /\ op[o].want.status = "rolled_back"

CallOK(o) ==
  /\ At(o, "idle") \/ (op[o].kind \in Calls /\ op[o].req # None)
  /\ At(o, "idle") => op[o].req = None
  /\ At(o, "load") => op[o].kind \in {"execute", "rollback"}
  /\ At(o, "commit") /\ op[o].roa # None => op[o].seen.roa # None
  /\ InFlight(o) /\ Kind(o, "create") => CreateOK(o)
  /\ InFlight(o) /\ Kind(o, "approve") => ApproveOK(o)
  /\ InFlight(o) /\ Kind(o, "execute") => ExecuteOK(o)
  /\ InFlight(o) /\ Kind(o, "rollback") => RollbackOK(o)
CallsOK == \A o \in Ops : CallOK(o)

(* The column never says more than the records. *)
ColumnOK == \A q \in Requests : requests[q].approvals \subseteq votes[q]

(* Until a crash, what was done is in the audit log or about to be. *)
Noted(q, k, v) ==
  \/ [req |-> q, kind |-> k, vote |-> v] \in audit
  \/ \E o \in Ops : At(o, "audit") /\ op[o].req = q /\ op[o].kind = k /\ op[o].vote = v
DoneNoted ==
  \A q \in Requests :
    /\ \A v \in votes[q] : Noted(q, "approve", v)
    /\ requests[q].status \in {"executed", "failed", "rolled_back"} => Noted(q, "execute", None)
    /\ requests[q].status = "rolled_back" => Noted(q, "rollback", None)
RollbacksNoted ==
  \A o \in Ops : InFlight(o) /\ Kind(o, "rollback") => Noted(op[o].req, "execute", None)
AuditOK == crashes = 0 => DoneNoted /\ RollbacksNoted

IInv == TypeOK /\ CallsOK /\ ColumnOK /\ Reviewed /\ AuditOK

-----------------------------------------------------------------------------
(* Approval records. *)

LEMMA VoteTypeFinite == IsFiniteSet(VoteType)
<1> DEFINE With(yes) == {v \in VoteType : v.approves = yes}
           f(yes) == [v \in VoteIds |-> [id |-> v, approves |-> yes]]
<1>1. ASSUME NEW yes \in BOOLEAN PROVE IsFiniteSet(With(yes))
  <2>1. ASSUME NEW v \in With(yes) PROVE v.id \in VoteIds /\ f(yes)[v.id] = v
    BY DEF VoteType
  <2>2. f(yes) \in [VoteIds -> With(yes)]
    BY DEF VoteType
  <2> HIDE DEF f, With
  <2>3. f(yes) \in Surjection(VoteIds, With(yes))
    BY <2>1, <2>2 DEF Surjection
  <2> QED
    BY <2>3, FS_Surjection, ChangeAssumption
<1>2. VoteType = With(TRUE) \union With(FALSE)
  BY DEF VoteType
<1> HIDE DEF With
<1> QED
  BY <1>1, <1>2, FS_Union

LEMMA VotesFinite ==
  ASSUME NEW V \in SUBSET VoteType
  PROVE  IsFiniteSet(Approving(V)) /\ Cardinality(Approving(V)) \in Nat
  BY VoteTypeFinite, FS_Subset, FS_CardinalityType DEF Approving

(* More records do not approve less. *)
LEMMA VotesGrow ==
  ASSUME NEW V \in SUBSET VoteType, NEW W \in SUBSET VoteType, V \subseteq W
  PROVE  Cardinality(Approving(V)) <= Cardinality(Approving(W))
<1>1. Approving(V) \subseteq Approving(W)
  BY DEF Approving
<1> QED
  BY <1>1, VotesFinite, FS_Subset

-----------------------------------------------------------------------------
(* Types of what the operators return. *)

LEMMA FlushType ==
  ASSUME NEW seen \in RequestType, NEW want \in RequestType, NEW now \in RequestType
  PROVE  Flush(seen, want, now) \in RequestType
  BY DEF Flush, RequestType

LEMMA ContentFlushType ==
  ASSUME NEW seen \in ContentType, NEW want \in ContentType, NEW now \in ContentType
  PROVE  Flush(seen, want, now) \in ContentType
  BY DEF Flush, ContentType

LEMMA MergeType ==
  ASSUME NEW asked \in ContentType, NEW old \in ContentType
  PROVE  Merge(asked, old) \in ContentType
<1> DEFINE new == Merge(asked, old)
<1>1. new = [f \in Fields |-> new[f]]
  BY DEF Merge
<1>2. new["prefix"] \in Prefixes \union {None}
  BY DEF Merge, ContentType, Fields
<1>3. new["origin"] \in Origins \union {None}
  BY DEF Merge, ContentType, Fields
<1>4. new["max"] \in Lengths \union {None}
  BY DEF Merge, ContentType, Fields
<1> HIDE DEF new
<1>5. new = [prefix |-> new["prefix"], origin |-> new["origin"], max |-> new["max"]]
  BY <1>1 DEF Fields
<1>6. [prefix |-> new["prefix"], origin |-> new["origin"], max |-> new["max"]] \in ContentType
  BY <1>2, <1>3, <1>4 DEF ContentType
<1> QED
  BY <1>5, <1>6 DEF new

LEMMA NoTypes ==
  /\ NoFields \in ContentType
  /\ NoRequest \in RequestType
  /\ Idle \in CallType
<1>1. NoFields \in ContentType
  BY DEF NoFields, ContentType, Fields
<1>2. NoRequest \in RequestType
  BY <1>1 DEF NoRequest, RequestType, ChangeTypes, Risks, Statuses
<1> QED
  BY <1>1, <1>2 DEF Idle, CallType, PCs

LEMMA NewRequestTyped ==
  ASSUME TypeOK, NEW type \in ChangeTypes, NEW r \in Roas \union {None},
         NEW change \in ContentType, NEW risk \in Risks, NEW flow \in RuleTypes
  PROVE  NewRequest(type, r, change, risk, flow) \in RequestType
<1>1. RequiredApprovals(flow) \in 0..3
  BY DEF RequiredApprovals, RuleTypes
<1>2. (IF r = None THEN NoFields ELSE roas[r].content) \in ContentType
  BY NoTypes DEF TypeOK, RoaType
<1> QED
  BY <1>1, <1>2 DEF NewRequest, RequestType, Statuses

(* The flow of a request of high risk is never automatic approval, and is the
   committee's only if a rule says so. *)
LEMMA FlowFacts ==
  ASSUME NEW rules \in RuleTables, NEW type, NEW a, NEW flow \in Flows(rules, type, a)
  PROVE  /\ flow \in RuleTypes
         /\ ~(High(RiskLevel(a)) /\ flow = "auto_approve")
         /\ (\A t \in RuleTables : \A u \in t : u.type # "committee") => flow # "committee"
<1>1. CASE flow = "single_approval"
  BY <1>1 DEF RuleTypes
<1>2. CASE flow # "single_approval"
  <2>1. PICK u \in Applicable(rules, type, a) : flow = u.type
    BY <1>2 DEF Flows
  <2>2. u \in rules /\ u \in RuleType /\ ~(High(RiskLevel(a)) /\ u.type = "auto_approve")
    BY <2>1, ChangeAssumption DEF Applicable
  <2> QED
    BY <2>1, <2>2 DEF RuleType
<1> QED
  BY <1>1, <1>2

LEMMA RiskTyped == ASSUME NEW a PROVE RiskLevel(a) \in Risks
  BY DEF RiskLevel, Risks

-----------------------------------------------------------------------------
(* Type correctness, one lemma per group of actions. *)

LEMMA InitType == Init => TypeOK
<1> SUFFICES ASSUME Init PROVE TypeOK
  OBVIOUS
<1>0. PICK S \in SUBSET Roas : \E c \in [S -> Contents] :
        /\ roas = [r \in Roas |-> IF r \in S THEN [content |-> c[r], status |-> "valid"]
                                  ELSE [content |-> NoFields, status |-> "unused"]]
        /\ vrps = [r \in Roas |-> IF r \in S THEN {[content |-> c[r], valid |-> TRUE]} ELSE {}]
  BY DEF Init
<1>1. PICK c \in [S -> Contents] :
        /\ roas = [r \in Roas |-> IF r \in S THEN [content |-> c[r], status |-> "valid"]
                                  ELSE [content |-> NoFields, status |-> "unused"]]
        /\ vrps = [r \in Roas |-> IF r \in S THEN {[content |-> c[r], valid |-> TRUE]} ELSE {}]
  BY <1>0
<1>2. \A r \in S : c[r] \in ContentType
  BY ChangeAssumption
<1>3. roas \in [Roas -> RoaType]
  BY <1>1, <1>2, NoTypes DEF RoaType, RoaStatuses
<1>4. vrps \in [Roas -> SUBSET VrpType]
  BY <1>1, <1>2 DEF VrpType
<1>5. crashes \in 0..MaxCrashes
  BY ChangeAssumption DEF Init
<1> QED
  BY <1>3, <1>4, <1>5, NoTypes DEF Init, TypeOK

(* A call that begins. *)
LEMMA StartType ==
  ASSUME TypeOK, NEW o \in Ops, NEW k \in Kinds, NEW q \in Requests, NEW pc \in PCs,
         NEW want \in RequestType, NEW vote \in VoteType \union {None},
         Start(o, k, q, pc, want, vote)
  PROVE  TypeOK'
<1> DEFINE c == [kind |-> k, pc |-> pc, req |-> q, seen |-> requests[q],
                 want |-> want, roa |-> None, vote |-> vote]
<1>1. c \in CallType
  BY DEF TypeOK, CallType
<1>2. op' = [op EXCEPT ![o] = c]
  BY DEF Start
<1> HIDE DEF c
<1>3. op' \in [Ops -> CallType]
  BY <1>1, <1>2 DEF TypeOK
<1> QED
  BY <1>3 DEF Start, TypeOK

(* What a creation has chosen: the request needs a review if its risk is high. *)
LEMMA CreateFacts ==
  ASSUME NEW o, NEW q, BeginCreate(o, q)
  PROVE  /\ requests[q].status = "none" /\ \A p \in Ops : op[p].req # q
         /\ \E type \in ChangeTypes, r \in Roas \union {None}, change \in ContentType,
               risk \in Risks, flow \in RuleTypes :
              /\ type = "create" => change["prefix"] # None /\ change["origin"] # None
              /\ type # "create" => r # None
              /\ r # None => Exists(r)
              /\ ~(High(risk) /\ flow = "auto_approve")
              /\ (\A t \in RuleTables : \A u \in t : u.type # "committee") => flow # "committee"
              /\ Start(o, "create", q, "commit", NewRequest(type, r, change, risk, flow), None)
<1>1. PICK type \in Types, r \in Roas \union {None} :
        \E change \in IF type = "revoke" THEN {NoFields} ELSE Changes :
        \E a \in Assessments(type), rules \in RuleTables :
        \E flow \in Flows(rules, type, a) :
          /\ type = "create" => change["prefix"] # None /\ change["origin"] # None
          /\ type # "create" => r # None
          /\ r # None => Exists(r)
          /\ Start(o, "create", q, "commit",
                   NewRequest(type, r, change, RiskLevel(a), flow), None)
  BY DEF BeginCreate
<1>2. PICK change \in IF type = "revoke" THEN {NoFields} ELSE Changes :
        \E a \in Assessments(type), rules \in RuleTables :
        \E flow \in Flows(rules, type, a) :
          /\ type = "create" => change["prefix"] # None /\ change["origin"] # None
          /\ type # "create" => r # None
          /\ r # None => Exists(r)
          /\ Start(o, "create", q, "commit",
                   NewRequest(type, r, change, RiskLevel(a), flow), None)
  BY <1>1
<1>3. PICK a \in Assessments(type), rules \in RuleTables :
        \E flow \in Flows(rules, type, a) :
          /\ type = "create" => change["prefix"] # None /\ change["origin"] # None
          /\ type # "create" => r # None
          /\ r # None => Exists(r)
          /\ Start(o, "create", q, "commit",
                   NewRequest(type, r, change, RiskLevel(a), flow), None)
  BY <1>2
<1>4. PICK flow \in Flows(rules, type, a) :
          /\ type = "create" => change["prefix"] # None /\ change["origin"] # None
          /\ type # "create" => r # None
          /\ r # None => Exists(r)
          /\ Start(o, "create", q, "commit",
                   NewRequest(type, r, change, RiskLevel(a), flow), None)
  BY <1>3
<1>5. type \in ChangeTypes /\ change \in ContentType
  BY ChangeAssumption, NoTypes
<1>6. /\ flow \in RuleTypes
      /\ ~(High(RiskLevel(a)) /\ flow = "auto_approve")
      /\ (\A t \in RuleTables : \A u \in t : u.type # "committee") => flow # "committee"
  BY FlowFacts
<1>7. requests[q].status = "none" /\ \A p \in Ops : op[p].req # q
  BY DEF BeginCreate
<1> QED
  BY <1>4, <1>5, <1>6, <1>7, RiskTyped

(* What an approval that begins has counted and is about to write. *)
LEMMA ApproveFacts ==
  ASSUME TypeOK, NEW o, NEW q \in Requests, BeginApprove(o, q)
  PROVE  \E vote \in VoteType, want \in RequestType :
           LET seen == requests[q]
               count == Cardinality(Approving(seen.approvals \union {vote}))
           IN  /\ seen.status = "pending_approval"
               /\ \A p \in Requests : \A w \in votes[p] : w.id # vote.id
               /\ \A p \in Ops : op[p].vote # None => op[p].vote.id # vote.id
               /\ Fixed(seen, want) /\ want.approvals = Recorded(seen, vote)
               /\ want.roa = seen.roa /\ want.saved = seen.saved /\ want.change = seen.change
               /\ ~vote.approves => want.status = "rejected"
               /\ vote.approves =>
                    want.status = IF count >= seen.required THEN "approved" ELSE "pending_approval"
               /\ Start(o, "approve", q, "commit", want, vote)
<1> DEFINE seen == requests[q]
           vote(v, yes) == [id |-> v, approves |-> yes]
           count(v, yes) == Cardinality(Approving(seen.approvals \union {vote(v, yes)}))
<1>1. PICK v \in VoteIds, yes \in BOOLEAN :
        /\ \A p \in Requests : \A w \in votes[p] : w.id # v
        /\ \A p \in Ops : op[p].vote # None => op[p].vote.id # v
        /\ Start(o, "approve", q, "commit",
                [seen EXCEPT !.approvals = Recorded(seen, vote(v, yes)),
                   !.status = CASE ~yes                                 -> "rejected"
                                [] yes /\ count(v, yes) >= seen.required -> "approved"
                                [] yes /\ count(v, yes) < seen.required  -> @], vote(v, yes))
  BY DEF BeginApprove
<1>2. seen \in RequestType /\ seen.required \in Int /\ seen.status = "pending_approval"
  BY DEF TypeOK, RequestType, BeginApprove
<1>3. /\ vote(v, yes) \in VoteType /\ vote(v, yes).id = v /\ vote(v, yes).approves = yes
      /\ seen.approvals \union {vote(v, yes)} \in SUBSET VoteType
  BY <1>2 DEF VoteType, RequestType
<1>4. count(v, yes) \in Nat
  BY <1>3, VotesFinite
<1> DEFINE n == count(v, yes)
           x == vote(v, yes)
           new == CASE ~yes                      -> "rejected"
                    [] yes /\ n >= seen.required -> "approved"
                    [] yes /\ n < seen.required  -> seen.status
           want == [seen EXCEPT !.approvals = Recorded(seen, x), !.status = new]
<1>5. Start(o, "approve", q, "commit", want, x)
  BY <1>1
<1> HIDE DEF n, vote, x
<1>6. /\ ~yes => new = "rejected"
      /\ yes => new = IF n >= seen.required THEN "approved" ELSE "pending_approval"
  BY <1>2, <1>4 DEF n
<1>7. new \in Statuses
  BY <1>6 DEF Statuses
<1> HIDE DEF new
<1>8. Recorded(seen, x) \in SUBSET VoteType
  BY <1>2, <1>3 DEF Recorded, RequestType, x
<1>9. /\ want \in RequestType /\ Fixed(seen, want) /\ want.approvals = Recorded(seen, x)
      /\ want.roa = seen.roa /\ want.saved = seen.saved /\ want.change = seen.change
      /\ want.status = new
  BY <1>2, <1>7, <1>8 DEF RequestType, Fixed
<1> HIDE DEF want, seen
<1> QED
  BY <1>1, <1>2, <1>3, <1>5, <1>6, <1>9 DEF n, x, seen

LEMMA BeginType ==
  ASSUME TypeOK, NEW o \in Ops, NEW q \in Requests, BeginCall(o, q)
  PROVE  TypeOK'
<1>1. requests[q] \in RequestType
  BY DEF TypeOK
<1>2. CASE BeginCreate(o, q)
  <2>1. PICK type \in ChangeTypes, r \in Roas \union {None}, change \in ContentType,
             risk \in Risks, flow \in RuleTypes :
          Start(o, "create", q, "commit", NewRequest(type, r, change, risk, flow), None)
    BY <1>2, CreateFacts
  <2>3. NewRequest(type, r, change, risk, flow) \in RequestType
    BY NewRequestTyped
  <2> QED
    BY <2>1, <2>3, StartType DEF Kinds, PCs
<1>3. CASE BeginApprove(o, q)
  <2>1. PICK vote \in VoteType, want \in RequestType : Start(o, "approve", q, "commit", want, vote)
    BY <1>3, ApproveFacts
  <2> QED
    BY <2>1, StartType DEF Kinds, PCs
<1>4. CASE BeginExecute(o, q)
  <2>1. [requests[q] EXCEPT !.status = "executed"] \in RequestType
    BY <1>1 DEF RequestType, Statuses
  <2> QED
    BY <1>4, <2>1, StartType DEF BeginExecute, Kinds, PCs
<1>5. CASE BeginRollback(o, q)
  <2>1. [requests[q] EXCEPT !.status = "rolled_back"] \in RequestType
    BY <1>1 DEF RequestType, Statuses
  <2> QED
    BY <1>5, <2>1, StartType DEF BeginRollback, Kinds, PCs
<1> QED
  BY <1>2, <1>3, <1>4, <1>5 DEF BeginCall

-----------------------------------------------------------------------------
(* What the steps of a call write, in types. *)

LEMMA GotoType ==
  ASSUME TypeOK, NEW o \in Ops, NEW pc \in PCs, Goto(o, pc)
  PROVE  op' \in [Ops -> CallType]
<1>1. [op[o] EXCEPT !.pc = pc] \in CallType
  BY DEF TypeOK, CallType
<1> QED
  BY <1>1 DEF Goto, TypeOK

LEMMA FinishType ==
  ASSUME TypeOK, NEW o \in Ops, Finish(o)
  PROVE  op' \in [Ops -> CallType]
  BY NoTypes DEF Finish, TypeOK

LEMMA CommittedType ==
  ASSUME TypeOK, NEW o \in Ops, NEW w \in RequestType
  PROVE  Committed(o, w) \in [Requests -> RequestType]
<1> DEFINE q == op[o].req
           new == Flush(op[o].seen, w, requests[q])
<1>1. op[o].seen \in RequestType /\ requests \in [Requests -> RequestType]
  BY DEF TypeOK, CallType
<1>2. q \in Requests => new \in RequestType
  BY <1>1, FlushType
<1>3. Committed(o, w) = [requests EXCEPT ![q] = new]
  BY DEF Committed
<1> HIDE DEF new
<1> QED
  BY <1>1, <1>2, <1>3

LEMMA CallFacts ==
  ASSUME IInv, NEW o \in Ops
  PROVE  /\ TypeOK /\ op[o] \in CallType /\ CallOK(o)
         /\ op[o].seen \in RequestType /\ op[o].want \in RequestType
         /\ ~At(o, "idle") => op[o].kind \in Calls /\ op[o].req \in Requests
  BY DEF IInv, TypeOK, CallsOK, CallOK, CallType

LEMMA CommitCreateType ==
  ASSUME IInv, NEW o \in Ops, CommitCreate(o)
  PROVE  TypeOK'
<1>1. requests' \in [Requests -> RequestType]
  BY CallFacts DEF CommitCreate, TypeOK
<1>2. op' \in [Ops -> CallType]
  BY CallFacts, GotoType, FinishType DEF CommitCreate, PCs
<1> QED
  BY <1>1, <1>2, CallFacts DEF CommitCreate, TypeOK

LEMMA CommitApproveType ==
  ASSUME IInv, NEW o \in Ops, CommitApprove(o)
  PROVE  TypeOK'
<1>1. requests' \in [Requests -> RequestType]
  BY CallFacts, CommittedType DEF CommitApprove
<1>2. op' \in [Ops -> CallType]
  BY CallFacts, GotoType DEF CommitApprove, PCs
<1>3. op[o].vote \in VoteType
  BY CallFacts DEF CommitApprove, CallOK, ApproveOK, InFlight, At, CallType
<1>4. votes' \in [Requests -> SUBSET VoteType]
  BY <1>3, CallFacts DEF CommitApprove, TypeOK
<1> QED
  BY <1>1, <1>2, <1>4, CallFacts DEF CommitApprove, TypeOK

LEMMA LoadRoaType ==
  ASSUME IInv, NEW o \in Ops, LoadRoa(o)
  PROVE  TypeOK'
<1>1. PICK roa \in RoaType \union {None}, status \in Statuses :
        op' = [op EXCEPT ![o].pc = "commit", ![o].roa = roa, ![o].want.status = status]
  <2>1. roas[op[o].seen.roa] \in RoaType \/ op[o].seen.roa = None
    BY CallFacts DEF TypeOK, RequestType
  <2>2. op[o].want.status \in Statuses
    BY CallFacts DEF RequestType
  <2> QED
    BY <2>1, <2>2 DEF LoadRoa, Statuses
<1>2. [op[o].want EXCEPT !.status = status] \in RequestType
  BY CallFacts DEF RequestType
<1>3. [op[o] EXCEPT !.pc = "commit", !.roa = roa, !.want = [op[o].want EXCEPT !.status = status]]
        \in CallType
  BY <1>2, CallFacts DEF CallType, PCs
<1>4. op' \in [Ops -> CallType]
  BY <1>1, <1>3, CallFacts DEF TypeOK
<1> QED
  BY <1>4, CallFacts DEF LoadRoa, TypeOK

LEMMA ExecuteCreateType ==
  ASSUME IInv, NEW o \in Ops, CommitExecuteCreate(o) \/ CommitExecuteCreateFails(o)
  PROVE  TypeOK'
<1>1. op' \in [Ops -> CallType]
  BY CallFacts, GotoType DEF CommitExecuteCreate, CommitExecuteCreateFails, PCs
<1>2. CASE CommitExecuteCreate(o)
  <2>1. PICK r \in Roas :
          /\ roas' = [roas EXCEPT ![r] = [content |-> op[o].seen.change, status |-> "valid"]]
          /\ vrps' = [vrps EXCEPT ![r] = {[content |-> op[o].seen.change, valid |-> TRUE]}]
          /\ requests' = Committed(o, [op[o].want EXCEPT !.roa = r])
    BY <1>2 DEF CommitExecuteCreate
  <2>2. /\ [op[o].want EXCEPT !.roa = r] \in RequestType
        /\ op[o].seen.change \in ContentType
    BY CallFacts DEF RequestType
  <2>3. requests' \in [Requests -> RequestType]
    BY <2>1, <2>2, CallFacts, CommittedType
  <2>4. roas' \in [Roas -> RoaType] /\ vrps' \in [Roas -> SUBSET VrpType]
    BY <2>1, <2>2, CallFacts DEF TypeOK, RoaType, VrpType, RoaStatuses
  <2> QED
    BY <1>1, <1>2, <2>3, <2>4, CallFacts DEF CommitExecuteCreate, TypeOK
<1>3. CASE CommitExecuteCreateFails(o)
  <2>1. [op[o].want EXCEPT !.status = "failed"] \in RequestType
    BY CallFacts DEF RequestType, Statuses
  <2>2. requests' \in [Requests -> RequestType]
    BY <1>3, <2>1, CallFacts, CommittedType DEF CommitExecuteCreateFails
  <2> QED
    BY <1>1, <1>3, <2>2, CallFacts DEF CommitExecuteCreateFails, TypeOK
<1> QED
  BY <1>2, <1>3

LEMMA NewRoaType ==
  ASSUME IInv, NEW o \in Ops, ChangesRoa(o)
  PROVE  /\ NewRoa(o) \in RoaType /\ op[o].roa \in RoaType
         /\ \A v \in VrpType : NewVrp(o, v) \in VrpType
<1>1. /\ op[o].roa \in RoaType /\ op[o].seen.type \in {"modify", "revoke"}
      /\ op[o].kind \in {"execute", "rollback"}
      /\ op[o].seen.change \in ContentType /\ op[o].seen.saved \in ContentType
  BY CallFacts DEF ChangesRoa, CallType, RequestType, ChangeTypes
<1>2. /\ op[o].roa.content \in ContentType
      /\ Merge(op[o].seen.change, op[o].roa.content) \in ContentType
      /\ Merge(op[o].seen.saved, op[o].roa.content) \in ContentType
  BY <1>1, MergeType DEF RoaType
<1>3. NewRoa(o) \in RoaType
  BY <1>1, <1>2 DEF NewRoa, Kind, RoaType, RoaStatuses
<1>4. ASSUME NEW v \in VrpType PROVE NewVrp(o, v) \in VrpType
  <2>1. Merge(op[o].seen.change, v.content) \in ContentType
    BY <1>1, MergeType DEF VrpType
  <2>2. CASE op[o].seen.type = "modify" /\ Kind(o, "execute")
    BY <2>1, <2>2 DEF NewVrp, VrpType, Kind
  <2>3. CASE op[o].seen.type = "modify" /\ Kind(o, "rollback")
    BY <1>3, <2>3 DEF NewVrp, VrpType, RoaType, Kind
  <2>4. CASE op[o].seen.type = "revoke"
    BY <2>4 DEF NewVrp, VrpType, Kind
  <2> QED
    BY <1>1, <2>2, <2>3, <2>4 DEF Kind
<1> QED
  BY <1>1, <1>3, <1>4

LEMMA RoaChangeType ==
  ASSUME IInv, NEW o \in Ops, CommitRoaChange(o)
  PROVE  TypeOK'
<1> DEFINE r == op[o].seen.roa
<1>0. ChangesRoa(o)
  BY DEF CommitRoaChange
<1>1. op' \in [Ops -> CallType] /\ requests' \in [Requests -> RequestType]
  BY CallFacts, GotoType, CommittedType DEF CommitRoaChange, PCs
<1>2. roas' \in [Roas -> RoaType]
  <2> DEFINE new == NewRoa(o)
             old == op[o].roa
             row == [content |-> Flush(old.content, new.content, roas[r].content),
                     status  |-> IF new.status # old.status THEN new.status ELSE roas[r].status]
  <2>1. new \in RoaType /\ old \in RoaType
    BY <1>0, NewRoaType
  <2>2. r \in Roas => row \in RoaType
    <3> SUFFICES ASSUME r \in Roas PROVE row \in RoaType
      OBVIOUS
    <3>1. roas[r] \in RoaType
      BY CallFacts DEF TypeOK
    <3>2. Flush(old.content, new.content, roas[r].content) \in ContentType
      BY <2>1, <3>1, ContentFlushType DEF RoaType
    <3> HIDE DEF new, old
    <3> QED
      BY <2>1, <3>1, <3>2 DEF RoaType
  <2>3. FlushRoa(o) = [roas EXCEPT ![r] = row]
    BY DEF FlushRoa
  <2> HIDE DEF row, r
  <2>4. FlushRoa(o) \in [Roas -> RoaType]
    BY <2>2, <2>3, CallFacts DEF TypeOK
  <2> QED
    BY <2>4, CallFacts DEF CommitRoaChange, TypeOK
<1>3. vrps' \in [Roas -> SUBSET VrpType]
  <2> DEFINE news == {NewVrp(o, v) : v \in vrps[r]}
  <2>1. r \in Roas => news \in SUBSET VrpType
    BY <1>0, NewRoaType, CallFacts DEF TypeOK
  <2>2. vrps' = [vrps EXCEPT ![r] = news]
    BY DEF CommitRoaChange
  <2> HIDE DEF news, r
  <2> QED
    BY <2>1, <2>2, CallFacts DEF TypeOK
<1>4. before' \in [Requests -> ContentType]
  <2>1. r \in Roas
    BY <1>0, CallFacts DEF ChangesRoa, CallOK, RequestType
  <2>2. roas[r].content \in ContentType
    BY <2>1, CallFacts DEF TypeOK, RoaType
  <2> QED
    BY <2>2, CallFacts DEF CommitRoaChange, TypeOK
<1> QED
  BY <1>1, <1>2, <1>3, <1>4, CallFacts DEF CommitRoaChange, TypeOK

LEMMA DeleteRoaType ==
  ASSUME IInv, NEW o \in Ops, CommitDeleteRoa(o)
  PROVE  TypeOK'
<1> DEFINE r == op[o].seen.roa
           flushed == Committed(o, op[o].want)
<1>1. op' \in [Ops -> CallType] /\ flushed \in [Requests -> RequestType]
  BY CallFacts, GotoType, CommittedType DEF CommitDeleteRoa, PCs
<1>2. requests' = [q \in Requests |-> IF flushed[q].roa = r THEN [flushed[q] EXCEPT !.roa = None]
                                      ELSE flushed[q]]
  BY DEF CommitDeleteRoa
<1> HIDE DEF flushed
<1>3. requests' \in [Requests -> RequestType]
  <2> SUFFICES ASSUME NEW q \in Requests PROVE requests'[q] \in RequestType
    BY <1>2
  <2>1. flushed[q] \in RequestType
    BY <1>1
  <2>2. [flushed[q] EXCEPT !.roa = None] \in RequestType
    BY <2>1 DEF RequestType
  <2> QED
    BY <1>2, <2>1, <2>2
<1>4. roas' \in [Roas -> RoaType] /\ vrps' \in [Roas -> SUBSET VrpType]
  BY CallFacts, NoTypes DEF CommitDeleteRoa, TypeOK, RoaType, RoaStatuses
<1> QED
  BY <1>1, <1>3, <1>4, CallFacts DEF CommitDeleteRoa, TypeOK

LEMMA OtherStepType ==
  ASSUME IInv, NEW o \in Ops, CommitWithoutRoa(o) \/ StaleRoa(o) \/ Audit(o)
  PROVE  TypeOK'
<1>1. CASE CommitWithoutRoa(o)
  <2>1. requests' \in [Requests -> RequestType] /\ op' \in [Ops -> CallType]
    BY <1>1, CallFacts, CommittedType, GotoType DEF CommitWithoutRoa, PCs
  <2> QED
    BY <1>1, <2>1, CallFacts DEF CommitWithoutRoa, TypeOK
<1>2. CASE StaleRoa(o)
  BY <1>2, CallFacts, FinishType DEF StaleRoa, TypeOK
<1>3. CASE Audit(o)
  <2>1. [req |-> op[o].req, kind |-> op[o].kind, vote |-> op[o].vote] \in AuditType
    BY <1>3, CallFacts DEF Audit, AuditType, CallType, At, Calls, Kinds
  <2>2. op' \in [Ops -> CallType]
    BY <1>3, CallFacts, FinishType DEF Audit
  <2> QED
    BY <1>3, <2>1, <2>2, CallFacts DEF Audit, TypeOK
<1> QED
  BY <1>1, <1>2, <1>3

LEMMA EnvironmentType ==
  ASSUME TypeOK, GenerateVrps \/ Crash
  PROVE  TypeOK'
<1>1. CASE GenerateVrps
  <2>1. vrps' \in [Roas -> SUBSET VrpType]
    BY <1>1 DEF GenerateVrps, TypeOK, RoaType, VrpType
  <2> QED
    BY <1>1, <2>1 DEF GenerateVrps, TypeOK
<1>2. CASE Crash
  BY <1>2, ChangeAssumption, NoTypes DEF Crash, TypeOK
<1> QED
  BY <1>1, <1>2

LEMMA NextType == IInv /\ [Next]_vars => TypeOK'
<1> SUFFICES ASSUME IInv, [Next]_vars PROVE TypeOK'
  OBVIOUS
<1>0. TypeOK
  BY DEF IInv
<1>1. CASE \E o \in Ops : OpStep(o)
  BY <1>1, CommitCreateType, CommitApproveType, LoadRoaType, ExecuteCreateType, RoaChangeType,
     DeleteRoaType, OtherStepType DEF OpStep
<1>2. CASE \E o \in Ops, q \in Requests : BeginCall(o, q)
  BY <1>0, <1>2, BeginType
<1>3. CASE GenerateVrps \/ Crash
  BY <1>0, <1>3, EnvironmentType
<1>4. CASE UNCHANGED vars
  BY <1>0, <1>4 DEF vars, TypeOK
<1> QED
  BY <1>1, <1>2, <1>3, <1>4 DEF Next

-----------------------------------------------------------------------------
(* What a call relies on, kept by every step. *)

(* Requests that are there stay, with what is fixed of them; records stay. *)
Grows ==
  /\ \A q \in Requests : requests[q].status # "none" =>
       requests'[q].status # "none" /\ Fixed(requests[q], requests'[q])
  /\ \A q \in Requests : votes[q] \subseteq votes'[q]

LEMMA BackedStable ==
  ASSUME TypeOK, TypeOK', Grows, NEW q \in Requests, requests[q].status # "none", Backed(q)
  PROVE  Backed(q)'
<1>1. /\ votes[q] \in SUBSET VoteType /\ votes'[q] \in SUBSET VoteType
      /\ votes[q] \subseteq votes'[q] /\ Fixed(requests[q], requests'[q])
      /\ requests[q].required \in Int
  BY DEF TypeOK, RequestType, Grows
<1>2. Cardinality(Approving(votes[q])) <= Cardinality(Approving(votes'[q]))
  BY <1>1, VotesGrow
<1>3. Cardinality(Approving(votes[q])) \in Nat /\ Cardinality(Approving(votes'[q])) \in Nat
  BY <1>1, VotesFinite
<1> QED
  BY <1>1, <1>2, <1>3 DEF Backed, Fixed, High

(* A call that does not move. *)
LEMMA CallStable ==
  ASSUME IInv, TypeOK', Grows, NEW p \in Ops, op'[p] = op[p],
         InFlight(p) /\ Kind(p, "create") =>
           /\ requests'[op[p].req].status = "none"
           /\ \A x \in Ops : op'[x].req = op[p].req => x = p
  PROVE  CallOK(p)'
<1>1. TypeOK /\ CallOK(p) /\ op[p] \in CallType /\ (~At(p, "idle") => op[p].req \in Requests)
  BY CallFacts
<1>2. InFlight(p) => ~At(p, "idle")
  BY DEF InFlight, At
<1>3. ASSUME KnownOK(p), InFlight(p) PROVE KnownOK(p)'
  BY <1>1, <1>2, <1>3 DEF KnownOK, Grows, Fixed
<1>4. ASSUME KnownOK(p), InFlight(p), Backed(op[p].req) PROVE Backed(op[p].req)'
  <2>1. op'[p].req = op[p].req /\ op[p].req \in Requests /\ requests[op[p].req].status # "none"
    BY <1>1, <1>2, <1>4 DEF KnownOK
  <2> DEFINE q == op[p].req
  <2>2. \A x \in Requests : requests[x].status # "none" /\ Backed(x) => Backed(x)'
    BY <1>1, BackedStable
  <2> QED
    BY <2>1, <2>2, <1>4 DEF Backed
<1>5. ASSUME InFlight(p), Kind(p, "create") PROVE CreateOK(p)'
  BY <1>1, <1>5 DEF CallOK, CreateOK, InFlight, Kind, High
<1>6. ASSUME InFlight(p), Kind(p, "approve") PROVE ApproveOK(p)'
  <2> DEFINE c == op[p]
  <2>1. ApproveOK(p) /\ c.req \in Requests
    BY <1>1, <1>2, <1>6 DEF CallOK
  <2>2. votes[c.req] \subseteq votes'[c.req] /\ c.vote \in VoteType
    BY <1>1, <2>1 DEF Grows, ApproveOK, CallType
  <2>3. /\ votes[c.req] \union {c.vote} \in SUBSET VoteType
        /\ votes'[c.req] \union {c.vote} \in SUBSET VoteType
    BY <1>1, <2>1, <2>2 DEF TypeOK
  <2>4. /\ Cardinality(Approving(votes[c.req] \union {c.vote}))
             <= Cardinality(Approving(votes'[c.req] \union {c.vote}))
        /\ Cardinality(Approving(votes[c.req] \union {c.vote})) \in Nat
        /\ Cardinality(Approving(votes'[c.req] \union {c.vote})) \in Nat
    BY <2>2, <2>3, VotesGrow, VotesFinite
  <2>5. c.want.required \in Int
    BY <1>1 DEF CallType, RequestType
  <2>6. KnownOK(p)'
    BY <1>3, <1>6, <2>1 DEF ApproveOK
  <2>7. c.want.status = "approved" =>
          c.vote.approves /\ Cardinality(Approving(votes'[c.req] \union {c.vote})) >= c.want.required
    BY <2>1, <2>4, <2>5 DEF ApproveOK
  <2> QED
    BY <2>1, <2>2, <2>6, <2>7 DEF ApproveOK
<1>7. ASSUME InFlight(p), Kind(p, "execute") PROVE ExecuteOK(p)'
  BY <1>1, <1>3, <1>4, <1>7 DEF CallOK, ExecuteOK
<1>8. ASSUME InFlight(p), Kind(p, "rollback") PROVE RollbackOK(p)'
  BY <1>1, <1>3, <1>4, <1>8 DEF CallOK, RollbackOK
<1> QED
  BY <1>1, <1>5, <1>6, <1>7, <1>8 DEF CallOK, InFlight, Kind, At

(* A call ends its part and changes at most its own request's state. *)
LEMMA CallsAfterCommit ==
  ASSUME IInv, TypeOK', Grows, NEW o \in Ops, ~At(o, "idle"), Goto(o, "audit") \/ Finish(o),
         \A q \in Requests : q # op[o].req => requests'[q].status = requests[q].status
  PROVE  CallsOK'
<1>1. op \in [Ops -> CallType] /\ CallOK(o) /\ op[o] \in CallType
  BY CallFacts DEF TypeOK
<1>2. /\ \A p \in Ops : p # o => op'[p] = op[p]
      /\ op'[o] = [op[o] EXCEPT !.pc = "audit"] \/ op'[o] = Idle
  BY <1>1 DEF Goto, Finish
<1>3. /\ op'[o].req \in {op[o].req, None}
      /\ \/ op'[o].pc = "audit" /\ op'[o].kind = op[o].kind /\ op'[o].req = op[o].req
         \/ op'[o].pc = "idle" /\ op'[o].req = None
  <2>1. CASE op'[o] = Idle
    BY <2>1 DEF Idle
  <2>2. CASE op'[o] = [op[o] EXCEPT !.pc = "audit"]
    BY <1>1, <2>2 DEF CallType
  <2> QED
    BY <1>2, <2>1, <2>2
<1>4. CallOK(o)'
  BY <1>1, <1>3 DEF CallOK, InFlight, At
<1>5. ASSUME NEW p \in Ops, p # o PROVE CallOK(p)'
  <2>1. ASSUME InFlight(p), Kind(p, "create")
        PROVE  /\ requests'[op[p].req].status = "none"
               /\ \A x \in Ops : op'[x].req = op[p].req => x = p
    <3>1. CreateOK(p) /\ op[p].req \in Requests
      BY <2>1, CallFacts DEF CallOK, InFlight, At
    <3>2. op[p].req # op[o].req
      BY <1>5, <3>1 DEF CreateOK
    <3>3. requests'[op[p].req].status = "none"
      BY <3>1, <3>2 DEF CreateOK
    <3>4. \A x \in Ops : op'[x].req = op[p].req => x = p
      BY <1>2, <1>3, <1>5, <3>1, <3>2, ChangeAssumption DEF CreateOK
    <3> QED
      BY <3>3, <3>4
  <2> QED
    BY <1>2, <1>5, <2>1, CallStable
<1> QED
  BY <1>4, <1>5 DEF CallsOK

(* The request of a call in what Committed(o, w) makes of the table. *)
LEMMA CommittedFacts ==
  ASSUME IInv, NEW o \in Ops, NEW w \in RequestType, op[o].req \in Requests,
         NEW rows, rows = Committed(o, w)
  PROVE  LET q == op[o].req
             seen == op[o].seen
             now == requests[q]
         IN  /\ \A p \in Requests \ {q} : rows[p] = requests[p]
             /\ Fixed(seen, now) /\ Fixed(w, now) => Fixed(now, rows[q])
             /\ rows[q].status = IF w.status # seen.status THEN w.status ELSE now.status
             /\ rows[q].approvals =
                  IF w.approvals # seen.approvals THEN w.approvals ELSE now.approvals
             /\ rows[q].roa = IF w.roa # seen.roa THEN w.roa ELSE now.roa
             /\ rows[q].saved = IF w.saved # seen.saved THEN w.saved ELSE now.saved
             /\ rows[q].change = IF w.change # seen.change THEN w.change ELSE now.change
<1> DEFINE q == op[o].req
           new == Flush(op[o].seen, w, requests[q])
<1>1. requests \in [Requests -> RequestType]
  BY CallFacts DEF TypeOK
<1>2. rows = [requests EXCEPT ![q] = new]
  BY DEF Committed
<1>3. rows[q] = new /\ \A p \in Requests \ {q} : rows[p] = requests[p]
  BY <1>1, <1>2
<1>4. DOMAIN requests[q] = {"type", "roa", "change", "saved", "risk", "required", "status", "approvals"}
  BY <1>1 DEF RequestType
<1>5. /\ Fixed(op[o].seen, requests[q]) /\ Fixed(w, requests[q]) => Fixed(requests[q], new)
      /\ new.status = IF w.status # op[o].seen.status THEN w.status ELSE requests[q].status
      /\ new.approvals = IF w.approvals # op[o].seen.approvals THEN w.approvals ELSE requests[q].approvals
      /\ new.roa = IF w.roa # op[o].seen.roa THEN w.roa ELSE requests[q].roa
      /\ new.saved = IF w.saved # op[o].seen.saved THEN w.saved ELSE requests[q].saved
      /\ new.change = IF w.change # op[o].seen.change THEN w.change ELSE requests[q].change
  BY <1>4 DEF Flush, Fixed
<1> QED
  BY <1>3, <1>5

(* What a commit does to the rows, as far as the invariant tells. *)
RowMoves(o, w) ==
  LET q == op[o].req
      seen == op[o].seen
      now == requests[q]
  IN  /\ \A p \in Requests \ {q} : /\ Fixed(requests[p], requests'[p])
                                   /\ requests'[p].status = requests[p].status
                                   /\ requests'[p].approvals = requests[p].approvals
      /\ Fixed(now, requests'[q])
      /\ requests'[q].status = IF w.status # seen.status THEN w.status ELSE now.status
      /\ requests'[q].approvals = IF w.approvals # seen.approvals THEN w.approvals ELSE now.approvals

LEMMA CommitMoves ==
  ASSUME IInv, NEW o \in Ops, At(o, "commit"),
         op[o].kind \in {"approve", "execute", "rollback"},
         NEW w \in RequestType, Fixed(w, op[o].want),
         NEW rows, rows = Committed(o, w),
         \A q \in Requests : /\ Fixed(rows[q], requests'[q])
                             /\ requests'[q].status = rows[q].status
                             /\ requests'[q].approvals = rows[q].approvals
  PROVE  RowMoves(o, w)
<1>1. op[o].req \in Requests /\ KnownOK(o)
  BY CallFacts DEF CallOK, InFlight, At, Kind, ApproveOK, ExecuteOK, RollbackOK
<1> DEFINE q == op[o].req
           seen == op[o].seen
           now == requests[q]
<1>2. /\ \A p \in Requests \ {q} : rows[p] = requests[p]
      /\ Fixed(seen, now) /\ Fixed(w, now) => Fixed(now, rows[q])
      /\ rows[q].status = IF w.status # seen.status THEN w.status ELSE now.status
      /\ rows[q].approvals = IF w.approvals # seen.approvals THEN w.approvals ELSE now.approvals
  BY <1>1, CommittedFacts
<1>3. Fixed(seen, now) /\ Fixed(w, now)
  BY <1>1 DEF KnownOK, Fixed
<1>4. Fixed(now, requests'[q])
  BY <1>1, <1>2, <1>3 DEF Fixed
<1> HIDE DEF now, seen
<1> QED
  BY <1>1, <1>2, <1>4 DEF RowMoves, Fixed, now, seen

(* What was noted stays noted. *)
LEMMA NotedStable ==
  ASSUME IInv, NEW o \in Ops, \A p \in Ops \ {o} : op'[p] = op[p], audit \subseteq audit',
         At(o, "audit") => [req |-> op[o].req, kind |-> op[o].kind, vote |-> op[o].vote] \in audit',
         NEW q, NEW k, NEW v, Noted(q, k, v)
  PROVE  Noted(q, k, v)'
  BY DEF Noted, At

(* A record of the kind k in which the vote is what the call holds. *)
LEMMA NotedNow ==
  ASSUME IInv, NEW o \in Ops, Goto(o, "audit")
  PROVE  /\ \A q, k, v : q = op[o].req /\ k = op[o].kind /\ v = op[o].vote => Noted(q, k, v)'
         /\ \A p \in Ops \ {o} : op'[p] = op[p]
         /\ op'[o].pc = "audit" /\ op'[o].req = op[o].req /\ op'[o].kind = op[o].kind
<1>1. op \in [Ops -> CallType] /\ op[o] \in CallType
  BY CallFacts DEF TypeOK
<1>2. op'[o] = [op[o] EXCEPT !.pc = "audit"] /\ \A p \in Ops \ {o} : op'[p] = op[p]
  BY <1>1 DEF Goto
<1>3. /\ op'[o].pc = "audit" /\ op'[o].req = op[o].req
      /\ op'[o].kind = op[o].kind /\ op'[o].vote = op[o].vote
  BY <1>1, <1>2 DEF CallType
<1> QED
  BY <1>2, <1>3 DEF Noted, At

(* A call ends and has noted what it had to note. *)
LEMMA FinishNoted ==
  ASSUME IInv, NEW o \in Ops, ~At(o, "idle"), Finish(o), UNCHANGED <<requests, votes, crashes>>,
         audit \subseteq audit',
         At(o, "audit") => [req |-> op[o].req, kind |-> op[o].kind, vote |-> op[o].vote] \in audit'
  PROVE  AuditOK'
<1> SUFFICES ASSUME crashes = 0 PROVE DoneNoted' /\ RollbacksNoted'
  BY DEF AuditOK
<1>1. DoneNoted /\ RollbacksNoted
  BY DEF IInv, AuditOK
<1>2. (\A p \in Ops \ {o} : op'[p] = op[p]) /\ op'[o] = Idle
  BY CallFacts DEF TypeOK, Finish
<1>3. \A q, k, v : Noted(q, k, v) => Noted(q, k, v)'
  BY <1>2, NotedStable
<1>4. DoneNoted'
  BY <1>1, <1>3 DEF DoneNoted
<1>5. ASSUME NEW p \in Ops, InFlight(p)', Kind(p, "rollback")'
      PROVE  Noted(op[p].req, "execute", None)'
  <2>1. op'[p] = op[p] /\ Noted(op[p].req, "execute", None)
    BY <1>1, <1>2, <1>5 DEF RollbacksNoted, InFlight, Kind, Idle
  <2>2. \A q : q = op[p].req => Noted(q, "execute", None)'
    BY <1>3, <2>1
  <2> QED
    BY <2>1, <2>2 DEF Noted
<1> QED
  BY <1>4, <1>5 DEF RollbacksNoted

(* The commit of an approval, an execution or a rollback. *)
LEMMA CommitInv ==
  ASSUME IInv, TypeOK', NEW o \in Ops, At(o, "commit"), Goto(o, "audit"),
         op[o].kind \in {"approve", "execute", "rollback"},
         NEW w, RowMoves(o, w), w.approvals = op[o].want.approvals,
         w.status = op[o].want.status \/ (Kind(o, "execute") /\ w.status = "failed"),
         \A q \in Requests : votes'[q] = IF q = op[o].req /\ Kind(o, "approve")
                                         THEN votes[q] \union {op[o].vote} ELSE votes[q],
         UNCHANGED <<audit, crashes>>
  PROVE  CallsOK' /\ ColumnOK' /\ Reviewed' /\ AuditOK'
<1> DEFINE c == op[o]
           r == c.req
<1>1. /\ TypeOK /\ CallOK(o) /\ c \in CallType /\ r \in Requests
      /\ ~At(o, "idle") /\ InFlight(o)
  BY CallFacts DEF At, InFlight
<1>2. /\ \/ Kind(o, "approve") /\ ApproveOK(o)
         \/ Kind(o, "execute") /\ ExecuteOK(o)
         \/ Kind(o, "rollback") /\ RollbackOK(o)
      /\ KnownOK(o)
  BY <1>1 DEF CallOK, Kind, ApproveOK, ExecuteOK, RollbackOK
<1>3. requests'[r].status # "none"
  BY <1>1, <1>2 DEF RowMoves, KnownOK, ApproveOK, ExecuteOK, RollbackOK, Kind
<1>4. Grows
  BY <1>1, <1>3 DEF RowMoves, Grows
<1>5. CallsOK'
  BY <1>1, <1>4, CallsAfterCommit DEF RowMoves
<1>6. ColumnOK'
  <2> SUFFICES ASSUME NEW q \in Requests PROVE requests'[q].approvals \subseteq votes'[q]
    BY DEF ColumnOK
  <2>1. requests[q].approvals \subseteq votes[q] /\ votes[q] \subseteq votes'[q]
    BY <1>4 DEF IInv, ColumnOK, Grows
  <2>2. CASE q # r \/ w.approvals = c.seen.approvals
    BY <2>1, <2>2 DEF RowMoves
  <2>3. CASE q = r /\ w.approvals # c.seen.approvals
    <3>1. Kind(o, "approve") /\ ApproveOK(o)
      BY <1>2, <2>3 DEF ExecuteOK, RollbackOK
    <3>2. w.approvals \subseteq votes[r] \union {c.vote}
      BY <3>1 DEF ApproveOK
    <3>3. requests'[r].approvals = w.approvals
      BY <2>3 DEF RowMoves
    <3> QED
      BY <1>1, <2>3, <3>1, <3>2, <3>3
  <2> QED
    BY <2>2, <2>3
<1>7. Reviewed'
  <2> SUFFICES ASSUME NEW q \in Requests, requests'[q].status \in Passed
               PROVE  Backed(q)'
    BY DEF Reviewed, Backed
  <2>1. \A x \in Requests : requests[x].status # "none" /\ Backed(x) => Backed(x)'
    BY <1>1, <1>4, BackedStable
  <2>2. \A x \in Requests : requests[x].status \in Passed => Backed(x)'
    BY <2>1 DEF IInv, Reviewed, Passed, Backed
  <2>3. CASE q # r \/ w.status = c.seen.status
    BY <2>2, <2>3 DEF RowMoves
  <2>4. CASE q = r /\ Kind(o, "approve") /\ ApproveOK(o) /\ w.status = "approved"
    <3> DEFINE known == votes[r] \union {c.vote}
    <3>1. /\ votes'[r] = known /\ c.vote \in Approving(known)
          /\ Cardinality(Approving(known)) >= c.want.required
          /\ requests'[r].required = c.want.required
          /\ known \in SUBSET VoteType
      BY <1>1, <2>4 DEF ApproveOK, Approving, KnownOK, Fixed, RowMoves, Kind, TypeOK, CallType
    <3>2. IsFiniteSet(Approving(known)) /\ Cardinality(Approving(known)) \in Nat
      BY <3>1, VotesFinite
    <3>3. Cardinality(Approving(known)) # 0
      BY <3>1, <3>2, FS_EmptySet
    <3> QED
      BY <2>4, <3>1, <3>2, <3>3 DEF Backed
  <2>5. CASE q = r /\ Kind(o, "approve") /\ ApproveOK(o)
             /\ w.status # c.seen.status /\ w.status # "approved"
    BY <2>5 DEF RowMoves, ApproveOK, Passed, Kind
  <2>6. CASE q = r /\ (ExecuteOK(o) \/ RollbackOK(o))
    BY <1>1, <2>1, <2>6 DEF ExecuteOK, RollbackOK, KnownOK
  <2> QED
    BY <1>2, <2>3, <2>4, <2>5, <2>6
<1>8. AuditOK'
  <2> SUFFICES ASSUME crashes = 0 PROVE DoneNoted' /\ RollbacksNoted'
    BY DEF AuditOK
  <2>1. DoneNoted /\ RollbacksNoted
    BY DEF IInv, AuditOK
  <2>2. \A q, k, v : Noted(q, k, v) => Noted(q, k, v)'
    BY NotedNow, NotedStable DEF At
  <2>3. /\ \A q, k, v : q = r /\ k = c.kind /\ v = c.vote => Noted(q, k, v)'
        /\ \A p \in Ops \ {o} : op'[p] = op[p]
    BY NotedNow
  <2>4. ASSUME NEW q \in Requests, NEW v \in votes'[q] PROVE Noted(q, "approve", v)'
    BY <2>1, <2>2, <2>3, <2>4 DEF DoneNoted, Kind
  <2>5. ASSUME NEW q \in Requests, requests'[q].status \in {"executed", "failed", "rolled_back"}
        PROVE  Noted(q, "execute", None)'
    <3>1. CASE requests[q].status \in {"executed", "failed", "rolled_back"}
      BY <2>1, <2>2, <3>1 DEF DoneNoted
    <3>2. CASE q = r /\ Kind(o, "execute") /\ ExecuteOK(o)
      BY <2>3, <3>2 DEF ExecuteOK, Kind
    <3>3. CASE q = r /\ Kind(o, "rollback")
      BY <1>1, <2>1, <2>2, <3>3 DEF RollbacksNoted
    <3>4. CASE requests[q].status \notin {"executed", "failed", "rolled_back"}
               /\ (q # r \/ (Kind(o, "approve") /\ ApproveOK(o)))
      BY <2>5, <3>4 DEF RowMoves, ApproveOK, Kind
    <3> QED
      BY <1>2, <3>1, <3>2, <3>3, <3>4
  <2>6. ASSUME NEW q \in Requests, requests'[q].status = "rolled_back"
        PROVE  Noted(q, "rollback", None)'
    <3>1. CASE requests[q].status = "rolled_back"
      BY <2>1, <2>2, <3>1 DEF DoneNoted
    <3>2. CASE q = r /\ Kind(o, "rollback") /\ RollbackOK(o)
      BY <2>3, <3>2 DEF RollbackOK, Kind
    <3>3. CASE requests[q].status # "rolled_back"
               /\ (q # r \/ (Kind(o, "approve") /\ ApproveOK(o)) \/ (Kind(o, "execute") /\ ExecuteOK(o)))
      BY <2>6, <3>3 DEF RowMoves, ApproveOK, ExecuteOK, Kind
    <3> QED
      BY <1>2, <3>1, <3>2, <3>3
  <2>7. ASSUME NEW p \in Ops, InFlight(p)', Kind(p, "rollback")'
        PROVE  Noted(op[p].req, "execute", None)'
    <3>1. p # o
      BY <2>7, NotedNow DEF InFlight
    <3>2. op'[p] = op[p] /\ Noted(op[p].req, "execute", None)
      BY <2>1, <2>3, <2>7, <3>1 DEF RollbacksNoted, InFlight, Kind
    <3>3. \A q : q = op[p].req => Noted(q, "execute", None)'
      BY <2>2, <3>2
    <3> QED
      BY <3>2, <3>3 DEF Noted
  <2> QED
    BY <2>4, <2>5, <2>6, <2>7 DEF DoneNoted, RollbacksNoted
<1> QED
  BY <1>5, <1>6, <1>7, <1>8

LEMMA CommitApproveInv ==
  ASSUME IInv, TypeOK', NEW o \in Ops, CommitApprove(o)
  PROVE  IInv'
<1>1. op[o].want \in RequestType /\ op[o].req \in Requests
  BY CallFacts DEF CommitApprove, At
<1>2. RowMoves(o, op[o].want)
  BY <1>1, CommitMoves DEF CommitApprove, Kind, Fixed
<1>3. \A q \in Requests : votes'[q] = IF q = op[o].req /\ Kind(o, "approve")
                                      THEN votes[q] \union {op[o].vote} ELSE votes[q]
  BY <1>1, CallFacts DEF CommitApprove, TypeOK
<1> QED
  BY <1>2, <1>3, CommitInv DEF CommitApprove, Kind, IInv

(* The commit of an execution or a rollback, and the row that it writes. *)
Executing(o) ==
  \/ CommitExecuteCreate(o) \/ CommitExecuteCreateFails(o)
  \/ CommitRoaChange(o) \/ CommitDeleteRoa(o) \/ CommitWithoutRoa(o)

LEMMA ExecutionMoves ==
  ASSUME IInv, NEW o \in Ops, Executing(o)
  PROVE  /\ At(o, "commit") /\ op[o].kind \in {"execute", "rollback"} /\ Goto(o, "audit")
         /\ UNCHANGED <<votes, audit, crashes>>
         /\ \E w \in RequestType :
              /\ RowMoves(o, w) /\ w.approvals = op[o].want.approvals
              /\ w.status = op[o].want.status \/ (Kind(o, "execute") /\ w.status = "failed")
<1>0. op[o].want \in RequestType
  BY CallFacts
<1>1. /\ At(o, "commit") /\ op[o].kind \in {"execute", "rollback"} /\ Goto(o, "audit")
      /\ UNCHANGED <<votes, audit, crashes>>
  BY DEF Executing, CommitExecuteCreate, CommitExecuteCreateFails, CommitRoaChange, ChangesRoa,
     CommitDeleteRoa, CommitWithoutRoa, Kind
<1>2. CASE CommitExecuteCreate(o)
  <2>1. PICK r \in Roas : requests' = Committed(o, [op[o].want EXCEPT !.roa = r])
    BY <1>2 DEF CommitExecuteCreate
  <2> DEFINE w == [op[o].want EXCEPT !.roa = r]
  <2>2. /\ w \in RequestType /\ Fixed(w, op[o].want) /\ w.approvals = op[o].want.approvals
        /\ w.status = op[o].want.status
    BY <1>0 DEF RequestType, Fixed
  <2>3. requests' = Committed(o, w)
    BY <2>1
  <2> HIDE DEF w
  <2> QED
    BY <1>1, <2>2, <2>3, CommitMoves DEF Fixed
<1>3. CASE CommitExecuteCreateFails(o)
  <2> DEFINE w == [op[o].want EXCEPT !.status = "failed"]
  <2>1. /\ w \in RequestType /\ Fixed(w, op[o].want) /\ w.approvals = op[o].want.approvals
        /\ w.status = "failed"
    BY <1>0 DEF RequestType, Fixed, Statuses
  <2>2. requests' = Committed(o, w)
    BY <1>3 DEF CommitExecuteCreateFails
  <2> HIDE DEF w
  <2> QED
    BY <1>1, <1>3, <2>1, <2>2, CommitMoves DEF Fixed, CommitExecuteCreateFails
<1>4. CASE CommitRoaChange(o) \/ CommitWithoutRoa(o)
  <2>1. requests' = Committed(o, op[o].want)
    BY <1>4 DEF CommitRoaChange, CommitWithoutRoa
  <2> QED
    BY <1>0, <1>1, <2>1, CommitMoves DEF Fixed
<1>5. CASE CommitDeleteRoa(o)
  <2> DEFINE flushed == Committed(o, op[o].want)
  <2>1. flushed \in [Requests -> RequestType]
    BY <1>0, <1>1, CallFacts, CommittedType
  <2>2. requests' = [q \in Requests |-> IF flushed[q].roa = op[o].seen.roa
                                        THEN [flushed[q] EXCEPT !.roa = None] ELSE flushed[q]]
    BY <1>5 DEF CommitDeleteRoa
  <2> HIDE DEF flushed
  <2>3. \A q \in Requests : /\ Fixed(flushed[q], requests'[q])
                            /\ requests'[q].status = flushed[q].status
                            /\ requests'[q].approvals = flushed[q].approvals
    BY <2>1, <2>2 DEF Fixed, RequestType
  <2>4. flushed = Committed(o, op[o].want)
    BY DEF flushed
  <2> QED
    BY <1>0, <1>1, <2>3, <2>4, CommitMoves DEF Fixed
<1> QED
  BY <1>1, <1>2, <1>3, <1>4, <1>5 DEF Executing

LEMMA ExecutionInv ==
  ASSUME IInv, TypeOK', NEW o \in Ops, Executing(o)
  PROVE  IInv'
<1>1. /\ At(o, "commit") /\ op[o].kind \in {"execute", "rollback"} /\ Goto(o, "audit")
      /\ UNCHANGED <<votes, audit, crashes>>
  BY ExecutionMoves
<1>2. PICK w \in RequestType :
        /\ RowMoves(o, w) /\ w.approvals = op[o].want.approvals
        /\ w.status = op[o].want.status \/ (Kind(o, "execute") /\ w.status = "failed")
  BY ExecutionMoves
<1>3. \A q \in Requests : votes'[q] = IF q = op[o].req /\ Kind(o, "approve")
                                      THEN votes[q] \union {op[o].vote} ELSE votes[q]
  BY <1>1 DEF Kind
<1> QED
  BY <1>1, <1>2, <1>3, CommitInv DEF IInv

(* A step that leaves the requests and records alone leaves them reviewed. *)
LEMMA RowsStable ==
  ASSUME IInv, UNCHANGED <<requests, votes>>
  PROVE  Grows /\ ColumnOK' /\ Reviewed'
  BY DEF IInv, Grows, Fixed, ColumnOK, Reviewed, Passed

LEMMA CommitCreateInv ==
  ASSUME IInv, TypeOK', NEW o \in Ops, CommitCreate(o)
  PROVE  IInv'
<1> DEFINE c == op[o]
           r == c.req
<1>1. /\ TypeOK /\ CallOK(o) /\ c \in CallType /\ r \in Requests /\ CreateOK(o)
      /\ ~At(o, "idle")
  BY CallFacts DEF CommitCreate, CallOK, InFlight, At
<1>2. CASE requests' = [requests EXCEPT ![r] = c.want] /\ Goto(o, "audit")
  <2>1. requests'[r] = c.want /\ \A q \in Requests : q # r => requests'[q] = requests[q]
    BY <1>1, <1>2 DEF TypeOK
  <2>2. Grows
    BY <1>1, <2>1 DEF Grows, Fixed, CreateOK, CommitCreate
  <2>3. CallsOK'
    BY <1>1, <1>2, <2>1, <2>2, CallsAfterCommit
  <2>4. ColumnOK'
    BY <1>1, <2>1 DEF IInv, ColumnOK, CreateOK, CommitCreate
  <2>5. Reviewed'
    <3> SUFFICES ASSUME NEW q \in Requests, requests'[q].status \in Passed
                 PROVE  Backed(q)'
      BY DEF Reviewed, Backed
    <3>1. CASE q # r
      BY <2>1, <3>1 DEF IInv, Reviewed, Backed, CommitCreate
    <3>2. CASE q = r
      <4>1. c.want.required = 0 /\ ~High(c.want.risk)
        BY <1>1, <2>1, <3>2 DEF CreateOK, Passed
      <4>2. Cardinality(Approving(votes'[r])) \in Nat
        BY <1>1, VotesFinite DEF TypeOK
      <4> QED
        BY <2>1, <3>2, <4>1, <4>2 DEF Backed, High
    <3> QED
      BY <3>1, <3>2
  <2>6. AuditOK'
    <3> SUFFICES ASSUME crashes = 0 PROVE DoneNoted' /\ RollbacksNoted'
      BY DEF AuditOK, CommitCreate
    <3>1. DoneNoted /\ RollbacksNoted
      BY DEF IInv, AuditOK
    <3>2. \A q, k, v : Noted(q, k, v) => Noted(q, k, v)'
      BY <1>2, NotedNow, NotedStable DEF At, CommitCreate
    <3>3. (\A p \in Ops \ {o} : op'[p] = op[p]) /\ op'[o].pc = "audit"
      BY <1>2, NotedNow
    <3>4. DoneNoted'
      BY <1>1, <2>1, <3>1, <3>2 DEF DoneNoted, CreateOK, CommitCreate
    <3>5. RollbacksNoted'
      <4> SUFFICES ASSUME NEW p \in Ops, InFlight(p)', Kind(p, "rollback")'
                   PROVE  Noted(op[p].req, "execute", None)'
        BY DEF RollbacksNoted
      <4>1. op'[p] = op[p] /\ Noted(op[p].req, "execute", None)
        BY <3>1, <3>3 DEF RollbacksNoted, InFlight, Kind
      <4>2. \A q : q = op[p].req => Noted(q, "execute", None)'
        BY <3>2, <4>1
      <4> QED
        BY <4>1, <4>2 DEF Noted
    <3> QED
      BY <3>4, <3>5
  <2> QED
    BY <2>3, <2>4, <2>5, <2>6 DEF IInv
<1>3. CASE Finish(o) /\ UNCHANGED requests
  <2>1. Grows /\ ColumnOK' /\ Reviewed'
    BY <1>3, RowsStable DEF CommitCreate
  <2>2. CallsOK'
    BY <1>1, <1>3, <2>1, CallsAfterCommit
  <2>3. AuditOK'
    BY <1>1, <1>3, FinishNoted DEF CommitCreate, At
  <2> QED
    BY <2>1, <2>2, <2>3 DEF IInv
<1> QED
  BY <1>2, <1>3 DEF CommitCreate

LEMMA StaleOrAuditInv ==
  ASSUME IInv, TypeOK', NEW o \in Ops, StaleRoa(o) \/ Audit(o)
  PROVE  IInv'
<1>1. Grows /\ ColumnOK' /\ Reviewed'
  BY RowsStable DEF StaleRoa, Audit
<1>2. CallsOK'
  BY <1>1, CallsAfterCommit DEF StaleRoa, Audit, ChangesRoa, At
<1>3. AuditOK'
  BY FinishNoted DEF StaleRoa, Audit, ChangesRoa, At
<1> QED
  BY <1>1, <1>2, <1>3 DEF IInv

LEMMA LoadRoaInv ==
  ASSUME IInv, TypeOK', NEW o \in Ops, LoadRoa(o)
  PROVE  IInv'
<1> DEFINE c == op[o]
<1>1. /\ TypeOK /\ CallOK(o) /\ c \in CallType /\ c.req \in Requests
      /\ At(o, "load") /\ InFlight(o) /\ c.want \in RequestType
      /\ c.kind \in {"execute", "rollback"}
  BY CallFacts DEF LoadRoa, InFlight, At, CallOK
<1>2. PICK roa \in RoaType \union {None}, status \in {c.want.status, "failed"} :
        /\ op' = [op EXCEPT ![o].pc = "commit", ![o].roa = roa, ![o].want.status = status]
        /\ roa # None => c.seen.roa # None
        /\ Kind(o, "rollback") => status = c.want.status
  <2>1. roas[c.seen.roa] \in RoaType \/ c.seen.roa = None
    BY CallFacts DEF TypeOK, RequestType
  <2> QED
    BY <1>1, <2>1 DEF LoadRoa, Kind
<1>3. \A p \in Ops \ {o} : op'[p] = op[p]
  BY <1>1, <1>2 DEF TypeOK
<1>4. /\ op'[o].pc = "commit" /\ op'[o].roa = roa /\ op'[o].kind = c.kind
      /\ op'[o].req = c.req /\ op'[o].seen = c.seen /\ op'[o].vote = c.vote
      /\ op'[o].want = [c.want EXCEPT !.status = status]
  BY <1>1, <1>2 DEF TypeOK, CallType
<1>5. /\ op'[o].want.status = status /\ op'[o].want.approvals = c.want.approvals
      /\ Fixed(c.want, op'[o].want)
  BY <1>1, <1>4 DEF RequestType, Fixed
<1>6. Grows /\ ColumnOK' /\ Reviewed'
  BY RowsStable DEF LoadRoa
<1>7. ASSUME KnownOK(o), Backed(c.req) PROVE KnownOK(o)' /\ Backed(op[o].req)'
  BY <1>4, <1>5, <1>7 DEF KnownOK, Fixed, Backed, LoadRoa
<1>8. CallOK(o)'
  <2>1. CASE Kind(o, "execute") /\ ExecuteOK(o)
    <3>1. ExecuteOK(o)'
      BY <1>2, <1>4, <1>5, <1>7, <2>1 DEF ExecuteOK
    <3> QED
      BY <1>1, <1>2, <1>4, <2>1, <3>1 DEF CallOK, At, Kind
  <2>2. CASE Kind(o, "rollback") /\ RollbackOK(o)
    <3>1. RollbackOK(o)'
      BY <1>2, <1>4, <1>5, <1>7, <2>2 DEF RollbackOK
    <3> QED
      BY <1>1, <1>2, <1>4, <2>2, <3>1 DEF CallOK, At, Kind
  <2> QED
    BY <1>1, <2>1, <2>2 DEF CallOK, Kind
<1>9. CallsOK'
  <2>1. ASSUME NEW p \in Ops \ {o} PROVE CallOK(p)'
    <3>1. InFlight(p) /\ Kind(p, "create") => CreateOK(p)
      BY <1>1 DEF IInv, CallsOK, CallOK
    <3>2. \A x \in Ops : op'[x].req = op[x].req
      BY <1>3, <1>4
    <3> QED
      BY <1>3, <1>6, <3>1, <3>2, CallStable DEF CreateOK, LoadRoa
  <2> QED
    BY <1>8, <2>1 DEF CallsOK
<1>10. AuditOK'
  <2> SUFFICES ASSUME crashes = 0 PROVE DoneNoted' /\ RollbacksNoted'
    BY DEF AuditOK, LoadRoa
  <2>1. DoneNoted /\ RollbacksNoted
    BY DEF IInv, AuditOK
  <2>2. \A q, k, v : Noted(q, k, v) => Noted(q, k, v)'
    BY <1>1, <1>3, NotedStable DEF LoadRoa, At
  <2>3. DoneNoted'
    BY <2>1, <2>2 DEF DoneNoted, LoadRoa
  <2>4. ASSUME NEW p \in Ops, InFlight(p)', Kind(p, "rollback")'
        PROVE  Noted(op[p].req, "execute", None)'
    <3>1. op'[p].req = op[p].req /\ Noted(op[p].req, "execute", None)
      BY <1>1, <1>3, <1>4, <2>1, <2>4 DEF RollbacksNoted, InFlight, Kind
    <3>2. \A q : q = op[p].req => Noted(q, "execute", None)'
      BY <2>2, <3>1
    <3> QED
      BY <3>1, <3>2 DEF Noted
  <2> QED
    BY <2>3, <2>4 DEF RollbacksNoted
<1> QED
  BY <1>6, <1>9, <1>10 DEF IInv

-----------------------------------------------------------------------------
(* Calls that begin. *)

LEMMA StartFields ==
  ASSUME TypeOK, NEW o \in Ops, NEW k, NEW q, NEW pc, NEW want, NEW vote,
         Start(o, k, q, pc, want, vote)
  PROVE  /\ op'[o].kind = k /\ op'[o].pc = pc /\ op'[o].req = q /\ op'[o].seen = requests[q]
         /\ op'[o].want = want /\ op'[o].roa = None /\ op'[o].vote = vote
         /\ \A p \in Ops \ {o} : op'[p] = op[p]
         /\ At(o, "idle") /\ UNCHANGED <<requests, roas, vrps, votes, before, audit, crashes>>
<1> DEFINE c == [kind |-> k, pc |-> pc, req |-> q, seen |-> requests[q],
                 want |-> want, roa |-> None, vote |-> vote]
<1>1. op' = [op EXCEPT ![o] = c]
  BY DEF Start
<1> HIDE DEF c
<1>2. op'[o] = c /\ \A p \in Ops \ {o} : op'[p] = op[p]
  BY <1>1 DEF TypeOK
<1> USE DEF c
<1> QED
  BY <1>2 DEF Start

LEMMA StartInv ==
  ASSUME IInv, TypeOK', NEW o \in Ops, NEW q \in Requests, CallOK(o)',
         op'[o].req = q, \A p \in Ops \ {o} : op'[p] = op[p],
         At(o, "idle"), UNCHANGED <<requests, roas, vrps, votes, before, audit, crashes>>,
         requests[q].status # "none" \/ \A p \in Ops : op[p].req # q,
         InFlight(o)' /\ Kind(o, "rollback")' => requests[q].status = "executed"
  PROVE  IInv'
<1>1. Grows /\ ColumnOK' /\ Reviewed'
  BY RowsStable
<1>2. ASSUME NEW p \in Ops \ {o} PROVE CallOK(p)'
  <2>1. ASSUME InFlight(p), Kind(p, "create")
        PROVE  /\ requests'[op[p].req].status = "none"
               /\ \A x \in Ops : op'[x].req = op[p].req => x = p
    <3>1. CreateOK(p)
      BY <2>1 DEF IInv, CallsOK, CallOK
    <3> QED
      BY <3>1 DEF CreateOK
  <2> QED
    BY <1>1, <2>1, CallStable
<1>3. AuditOK'
  <2> SUFFICES ASSUME crashes = 0 PROVE DoneNoted' /\ RollbacksNoted'
    BY DEF AuditOK
  <2>1. DoneNoted /\ RollbacksNoted
    BY DEF IInv, AuditOK
  <2>2. \A x, k, v : Noted(x, k, v) => Noted(x, k, v)'
    BY NotedStable DEF At
  <2>3. DoneNoted'
    BY <2>1, <2>2 DEF DoneNoted
  <2>4. ASSUME NEW p \in Ops, InFlight(p)', Kind(p, "rollback")'
        PROVE  Noted(op[p].req, "execute", None)'
    <3>1. CASE p = o
      BY <2>3, <2>4, <3>1 DEF DoneNoted
    <3>2. CASE p # o
      <4>1. op'[p] = op[p] /\ Noted(op[p].req, "execute", None)
        BY <2>1, <2>4, <3>2 DEF RollbacksNoted, InFlight, Kind
      <4>2. \A x : x = op[p].req => Noted(x, "execute", None)'
        BY <2>2, <4>1
      <4> QED
        BY <4>1, <4>2 DEF Noted
    <3> QED
      BY <3>1, <3>2
  <2> QED
    BY <2>3, <2>4 DEF RollbacksNoted
<1> QED
  BY <1>1, <1>2, <1>3 DEF IInv, CallsOK

LEMMA BeginCreateInv ==
  ASSUME IInv, TypeOK', NEW o \in Ops, NEW q \in Requests, BeginCreate(o, q)
  PROVE  IInv'
<1>0. TypeOK
  BY DEF IInv
<1>1. PICK type \in ChangeTypes, r \in Roas \union {None}, change \in ContentType,
           risk \in Risks, flow \in RuleTypes :
        /\ ~(High(risk) /\ flow = "auto_approve")
        /\ Start(o, "create", q, "commit", NewRequest(type, r, change, risk, flow), None)
  BY CreateFacts
<1>2. requests[q].status = "none" /\ \A p \in Ops : op[p].req # q
  BY CreateFacts
<1> DEFINE new == NewRequest(type, r, change, risk, flow)
<1>3. /\ new.status \in {"approved", "pending_approval"} /\ new.approvals = {}
      /\ new.status = "approved" => new.required = 0 /\ ~High(new.risk)
  BY <1>1 DEF NewRequest, RequiredApprovals, High
<1> HIDE DEF new
<1>4. /\ op'[o].kind = "create" /\ op'[o].pc = "commit" /\ op'[o].req = q /\ op'[o].want = new
      /\ op'[o].roa = None /\ \A p \in Ops \ {o} : op'[p] = op[p]
      /\ At(o, "idle") /\ UNCHANGED <<requests, roas, vrps, votes, before, audit, crashes>>
  BY <1>0, <1>1, StartFields DEF new
<1>5. CreateOK(o)'
  BY <1>2, <1>3, <1>4 DEF CreateOK, High
<1>6. CallOK(o)'
  BY <1>4, <1>5, ChangeAssumption DEF CallOK, At, Kind, Calls
<1> QED
  BY <1>2, <1>4, <1>6, StartInv DEF InFlight, Kind

LEMMA BeginApproveInv ==
  ASSUME IInv, TypeOK', NEW o \in Ops, NEW q \in Requests, BeginApprove(o, q)
  PROVE  IInv'
<1>0. TypeOK /\ requests[q].approvals \subseteq votes[q] /\ votes[q] \in SUBSET VoteType
      /\ requests[q] \in RequestType /\ requests[q].required \in Int
  BY DEF IInv, ColumnOK, TypeOK, RequestType
<1>1. PICK vote \in VoteType, want \in RequestType :
        /\ requests[q].status = "pending_approval"
        /\ Fixed(requests[q], want) /\ want.approvals = Recorded(requests[q], vote)
        /\ ~vote.approves => want.status = "rejected"
        /\ vote.approves =>
             want.status = IF Cardinality(Approving(requests[q].approvals \union {vote}))
                                >= requests[q].required THEN "approved" ELSE "pending_approval"
        /\ Start(o, "approve", q, "commit", want, vote)
  BY <1>0, ApproveFacts
<1>2. /\ op'[o].kind = "approve" /\ op'[o].pc = "commit" /\ op'[o].req = q
      /\ op'[o].seen = requests[q] /\ op'[o].want = want /\ op'[o].vote = vote
      /\ op'[o].roa = None /\ \A p \in Ops \ {o} : op'[p] = op[p]
      /\ At(o, "idle") /\ UNCHANGED <<requests, roas, vrps, votes, before, audit, crashes>>
  BY <1>0, <1>1, StartFields
<1>3. want.approvals \subseteq votes[q] \union {vote}
  BY <1>0, <1>1 DEF Recorded
<1>5. want.status = "approved" =>
        vote.approves /\ Cardinality(Approving(votes[q] \union {vote})) >= want.required
  <2> DEFINE V == requests[q].approvals \union {vote}
             W == votes[q] \union {vote}
  <2>1. V \in SUBSET VoteType /\ W \in SUBSET VoteType /\ V \subseteq W
    BY <1>0
  <2>2. /\ Cardinality(Approving(V)) <= Cardinality(Approving(W))
        /\ Cardinality(Approving(V)) \in Nat /\ Cardinality(Approving(W)) \in Nat
    BY <2>1, VotesFinite, VotesGrow
  <2> HIDE DEF W
  <2>3. want.status = "approved" => vote.approves /\ Cardinality(Approving(W)) >= requests[q].required
    BY <1>0, <1>1, <2>2
  <2> QED
    BY <1>1, <2>3 DEF Fixed, W
<1>6. ApproveOK(o)'
  BY <1>1, <1>2, <1>3, <1>5 DEF ApproveOK, KnownOK, Fixed
<1>7. CallOK(o)'
  BY <1>2, <1>6, ChangeAssumption DEF CallOK, At, Kind, Calls
<1> QED
  BY <1>1, <1>2, <1>7, StartInv DEF InFlight, Kind

LEMMA BeginExecuteInv ==
  ASSUME IInv, TypeOK', NEW o \in Ops, NEW q \in Requests, BeginExecute(o, q) \/ BeginRollback(o, q)
  PROVE  IInv'
<1>0. TypeOK /\ requests[q] \in RequestType
  BY DEF IInv, TypeOK
<1>1. PICK k \in {"execute", "rollback"}, pc \in {"load", "commit"}, want \in RequestType :
        /\ want = [requests[q] EXCEPT !.status = IF k = "execute" THEN "executed" ELSE "rolled_back"]
        /\ requests[q].status = IF k = "execute" THEN "approved" ELSE "executed"
        /\ Start(o, k, q, pc, want, None)
        /\ k = "rollback" => pc = "load"
  <2> DEFINE w(status) == [requests[q] EXCEPT !.status = status]
  <2>1. w("executed") \in RequestType /\ w("rolled_back") \in RequestType
    BY <1>0 DEF RequestType, Statuses
  <2> HIDE DEF w
  <2>2. CASE BeginExecute(o, q)
    BY <2>1, <2>2 DEF BeginExecute, w
  <2>3. CASE BeginRollback(o, q)
    BY <2>1, <2>3 DEF BeginRollback, w
  <2> QED
    BY <2>2, <2>3
<1>2. /\ want.status = IF k = "execute" THEN "executed" ELSE "rolled_back"
      /\ want.approvals = requests[q].approvals /\ Fixed(requests[q], want)
  BY <1>0, <1>1 DEF RequestType, Fixed
<1>3. /\ op'[o].kind = k /\ op'[o].pc = pc /\ op'[o].req = q
      /\ op'[o].seen = requests[q] /\ op'[o].want = want /\ op'[o].vote = None
      /\ op'[o].roa = None /\ \A p \in Ops \ {o} : op'[p] = op[p]
      /\ At(o, "idle") /\ UNCHANGED <<requests, roas, vrps, votes, before, audit, crashes>>
  BY <1>0, <1>1, StartFields
<1>4. KnownOK(o)'
  BY <1>1, <1>2, <1>3 DEF KnownOK, Fixed
<1>5. Backed(q)
  BY <1>1 DEF IInv, Reviewed, Passed, Backed
<1>6. Backed(op[o].req)'
  BY <1>3, <1>5 DEF Backed
<1>7. k = "execute" => ExecuteOK(o)'
  BY <1>1, <1>2, <1>3, <1>4, <1>6 DEF ExecuteOK
<1>8. k = "rollback" => RollbackOK(o)'
  BY <1>1, <1>2, <1>3, <1>4, <1>6 DEF RollbackOK
<1>9. CallOK(o)'
  BY <1>1, <1>3, <1>7, <1>8, ChangeAssumption DEF CallOK, At, Kind, Calls
<1> QED
  BY <1>1, <1>3, <1>9, StartInv DEF InFlight, Kind

LEMMA EnvironmentInv ==
  ASSUME IInv, TypeOK', GenerateVrps \/ Crash \/ UNCHANGED vars
  PROVE  IInv'
<1>1. CASE GenerateVrps \/ UNCHANGED vars
  <2>1. UNCHANGED <<requests, op, votes, audit, crashes>>
    BY <1>1 DEF GenerateVrps, vars
  <2>2. ColumnOK' /\ Reviewed' /\ Grows
    BY <2>1, RowsStable
  <2>3. ASSUME NEW p \in Ops PROVE CallOK(p)'
    BY <2>1, <2>2, CallStable DEF IInv, CallsOK, CallOK, CreateOK
  <2>4. AuditOK'
    BY <2>1 DEF IInv, AuditOK, DoneNoted, RollbacksNoted, Noted, InFlight, At, Kind
  <2> QED
    BY <2>2, <2>3, <2>4 DEF IInv, CallsOK
<1>2. CASE Crash
  <2>1. ColumnOK' /\ Reviewed'
    BY <1>2, RowsStable DEF Crash
  <2>2. CallsOK'
    BY <1>2 DEF Crash, CallsOK, CallOK, Idle, At, InFlight
  <2>3. AuditOK'
    BY <1>2 DEF Crash, AuditOK, IInv, TypeOK
  <2> QED
    BY <2>1, <2>2, <2>3 DEF IInv
<1> QED
  BY <1>1, <1>2

LEMMA InitInv == Init => IInv
<1> SUFFICES ASSUME Init PROVE IInv
  OBVIOUS
<1>1. TypeOK
  BY InitType
<1>2. CallsOK
  BY DEF Init, CallsOK, CallOK, Idle, At, InFlight
<1>3. ColumnOK /\ Reviewed /\ AuditOK
  BY DEF Init, NoRequest, ColumnOK, Reviewed, Passed, AuditOK, DoneNoted, RollbacksNoted, Idle,
     InFlight, Kind
<1> QED
  BY <1>1, <1>2, <1>3 DEF IInv

LEMMA NextInv == IInv /\ [Next]_vars => IInv'
<1> SUFFICES ASSUME IInv, [Next]_vars PROVE IInv'
  OBVIOUS
<1>0. TypeOK'
  BY NextType
<1>1. CASE \E o \in Ops : OpStep(o)
  BY <1>0, <1>1, CommitCreateInv, CommitApproveInv, LoadRoaInv, ExecutionInv,
     StaleOrAuditInv DEF OpStep, Executing
<1>2. CASE \E o \in Ops, q \in Requests : BeginCall(o, q)
  BY <1>0, <1>2, BeginCreateInv, BeginApproveInv, BeginExecuteInv DEF BeginCall
<1>3. CASE GenerateVrps \/ Crash \/ UNCHANGED vars
  BY <1>0, <1>3, EnvironmentInv
<1> QED
  BY <1>1, <1>2, <1>3 DEF Next

(* The invariant holds whatever calls overlap and wherever a crash cuts. *)
THEOREM Inductive == Spec => []IInv
  BY InitInv, NextInv, PTL DEF Spec

(* Every row, call and record has its type in every reachable state. *)
THEOREM TypeCorrect == Spec => []TypeOK
<1>1. IInv => TypeOK
  BY DEF IInv
<1> QED
  BY <1>1, Inductive, PTL

(* No request is approved, executed or rolled back without the approvals its
   rule asks for, and none of high risk without one, although overlapping
   approvals lose each other's records in the approvals column. *)
THEOREM AlwaysReviewed == Spec => []Reviewed
<1>1. IInv => Reviewed
  BY DEF IInv
<1> QED
  BY <1>1, Inductive, PTL

(* With no crash and nothing in flight, the audit log is complete: every
   approval record, execution and rollback, under any interleaving of calls. *)
THEOREM AlwaysAudited == Spec => []AuditTrail
<1>1. IInv => AuditTrail
  BY DEF IInv, AuditOK, AuditTrail, Quiet, DoneNoted, Noted, At
<1> QED
  BY <1>1, Inductive, PTL

-----------------------------------------------------------------------------
(* Where API calls do not overlap: what the workflow means to do with ROAs,  *)
(* VRPs and approvals, call by call.                                         *)

(* At most one call is in progress, the one that writes its audit record
   included. *)
OneAtATime == \A o, p \in Ops : ~At(o, "idle") /\ ~At(p, "idle") => o = p

(* A content has its prefix and origin; a request has the values that its
   execution or rollback will write. *)
Whole(c) == c["prefix"] # None /\ c["origin"] # None
Sound(row) ==
  /\ row.type = "create" => Whole(row.change)
  /\ row.type = "modify" => Whole(row.saved)
SameData(seen, want) ==
  want.roa = seen.roa /\ want.saved = seen.saved /\ want.change = seen.change

(* What a call has read is still so. *)
CurrentCall(o) ==
  /\ InFlight(o) /\ ~Kind(o, "create") =>
       op[o].seen = requests[op[o].req] /\ SameData(op[o].seen, op[o].want)
  /\ InFlight(o) /\ Kind(o, "create") =>
       Sound(op[o].want) /\ (op[o].want.roa # None => Exists(op[o].want.roa))
  /\ InFlight(o) /\ Kind(o, "approve") =>
       \A q \in Requests : \A w \in votes[q] : w.id # op[o].vote.id
  /\ At(o, "commit") /\ op[o].roa # None =>
       Exists(op[o].seen.roa) /\ op[o].roa = roas[op[o].seen.roa]
  /\ At(o, "commit") /\ Kind(o, "rollback") /\ op[o].roa = None => op[o].seen.roa = None

(* Rows refer to ROAs that are there. *)
DataOK ==
  /\ \A q \in Requests : requests[q].status # "none" => Sound(requests[q])
  /\ \A q \in Requests : requests[q].roa # None => Exists(requests[q].roa)
  /\ \A r \in Roas : Exists(r) => Whole(roas[r].content)

SInv == DataOK /\ VrpsFollowRoa /\ \A o \in Ops : CurrentCall(o)

-----------------------------------------------------------------------------
(* A step of a call leaves the other calls idle. *)
LEMMA OnlyCall ==
  ASSUME IInv, OneAtATime, OneAtATime', NEW o \in Ops,
         OpStep(o) \/ \E q \in Requests : BeginCall(o, q)
  PROVE  \A p \in Ops \ {o} : At(p, "idle") /\ op'[p] = op[p]
<1>0. TypeOK /\ op \in [Ops -> CallType]
  BY DEF IInv, TypeOK
<1>1. CASE OpStep(o)
  <2>1. ~At(o, "idle")
    BY <1>1 DEF OpStep, CommitCreate, CommitApprove, LoadRoa, CommitExecuteCreate,
       CommitExecuteCreateFails, CommitRoaChange, StaleRoa, ChangesRoa, CommitDeleteRoa,
       CommitWithoutRoa, Audit, At
  <2>2. \A p \in Ops \ {o} : op'[p] = op[p]
    BY <1>0, <1>1 DEF OpStep, CommitCreate, CommitApprove, LoadRoa, CommitExecuteCreate,
       CommitExecuteCreateFails, CommitRoaChange, StaleRoa, CommitDeleteRoa,
       CommitWithoutRoa, Audit, Goto, Finish
  <2> QED
    BY <2>1, <2>2 DEF OneAtATime
<1>2. CASE \E q \in Requests : BeginCall(o, q)
  <2>1. (\A p \in Ops \ {o} : op'[p] = op[p]) /\ op'[o].pc \in {"load", "commit"}
    <3>1. PICK q \in Requests : BeginCall(o, q)
      BY <1>2
    <3>2. CASE BeginCreate(o, q)
      BY <1>0, <3>2, CreateFacts, StartFields
    <3>3. CASE BeginApprove(o, q)
      <4>1. PICK vote \in VoteType, want \in RequestType : Start(o, "approve", q, "commit", want, vote)
        BY <1>0, <3>3, ApproveFacts
      <4> QED
        BY <1>0, <4>1, StartFields
    <3>4. CASE BeginExecute(o, q)
      BY <1>0, <3>4, StartFields DEF BeginExecute
    <3>5. CASE BeginRollback(o, q)
      BY <1>0, <3>5, StartFields DEF BeginRollback
    <3> QED
      BY <3>1, <3>2, <3>3, <3>4, <3>5 DEF BeginCall
  <2> QED
    BY <2>1 DEF OneAtATime, At
<1> QED
  BY <1>1, <1>2

(* Without overlap, a commit writes the row as the call wants it. *)
LEMMA FlushAll ==
  ASSUME NEW seen \in RequestType, NEW want \in RequestType
  PROVE  Flush(seen, want, seen) = want
  BY DEF Flush, RequestType

LEMMA ContentFlushAll ==
  ASSUME NEW seen \in ContentType, NEW want \in ContentType
  PROVE  Flush(seen, want, seen) = want
  BY DEF Flush, ContentType

LEMMA OwnCommit ==
  ASSUME IInv, SInv, NEW o \in Ops, InFlight(o), ~Kind(o, "create"), NEW w \in RequestType
  PROVE  Committed(o, w) = [requests EXCEPT ![op[o].req] = w]
<1>1. op[o].seen = requests[op[o].req] /\ op[o].seen \in RequestType
  BY CallFacts DEF SInv, CurrentCall
<1>2. Flush(op[o].seen, w, requests[op[o].req]) = w
  BY <1>1, FlushAll
<1> QED
  BY <1>2 DEF Committed

-----------------------------------------------------------------------------
(* The data, kept by every step. *)

LEMMA CallsQuiet ==
  ASSUME NEW o \in Ops, \A p \in Ops \ {o} : At(p, "idle") /\ op'[p] = op[p],
         InFlight(o)' => CurrentCall(o)'
  PROVE  \A p \in Ops : CurrentCall(p)'
<1>1. ASSUME NEW p \in Ops, ~InFlight(p)' PROVE CurrentCall(p)'
  BY <1>1 DEF CurrentCall, InFlight, At
<1>2. ASSUME NEW p \in Ops \ {o} PROVE ~InFlight(p)'
  BY DEF InFlight, At
<1> QED
  BY <1>1, <1>2

LEMMA EndsQuiet ==
  ASSUME IInv, NEW o \in Ops, Goto(o, "audit") \/ Finish(o)
  PROVE  ~InFlight(o)'
<1>1. op \in [Ops -> CallType] /\ op[o] \in CallType
  BY CallFacts DEF TypeOK
<1> QED
  BY <1>1 DEF Goto, Finish, InFlight, Idle, CallType

(* What an approval, an execution or a rollback is about to write. *)
LEMMA OwnRow ==
  ASSUME IInv, SInv, NEW o \in Ops, At(o, "commit"), ~Kind(o, "create")
  PROVE  /\ op[o].req \in Requests /\ op[o].seen = requests[op[o].req] /\ InFlight(o)
         /\ SameData(op[o].seen, op[o].want) /\ op[o].want.type = op[o].seen.type
         /\ op[o].seen.status # "none" /\ Sound(op[o].seen) /\ Sound(op[o].want)
         /\ op[o].want.roa # None => Exists(op[o].want.roa)
<1>1. op[o].req \in Requests /\ InFlight(o) /\ CallOK(o) /\ op[o].kind \in Calls
  BY CallFacts DEF At, InFlight
<1>2. op[o].seen = requests[op[o].req] /\ SameData(op[o].seen, op[o].want)
  BY <1>1 DEF SInv, CurrentCall
<1>3. KnownOK(o)
  BY <1>1 DEF CallOK, ApproveOK, ExecuteOK, RollbackOK, Kind, Calls
<1>4. op[o].seen.status # "none" /\ op[o].want.type = op[o].seen.type
  BY <1>2, <1>3 DEF KnownOK, Fixed
<1> QED
  BY <1>1, <1>2, <1>4 DEF SInv, DataOK, Sound, SameData

LEMMA RowWritten ==
  ASSUME IInv, SInv, NEW q \in Requests, NEW w, Sound(w), w.roa # None => Exists(w.roa),
         requests' = [requests EXCEPT ![q] = w], UNCHANGED roas
  PROVE  DataOK'
<1>1. requests \in [Requests -> RequestType]
  BY DEF IInv, TypeOK
<1>2. requests'[q] = w /\ \A p \in Requests \ {q} : requests'[p] = requests[p]
  BY <1>1
<1> QED
  BY <1>2 DEF SInv, DataOK, Exists

(* A step of a call that writes its row and nothing else. *)
LEMMA RowOnly ==
  ASSUME IInv, SInv, NEW o \in Ops, \A p \in Ops \ {o} : At(p, "idle") /\ op'[p] = op[p],
         At(o, "commit"), ~Kind(o, "create"), Goto(o, "audit"), UNCHANGED <<roas, vrps>>,
         NEW w \in RequestType, requests' = Committed(o, w),
         SameData(op[o].want, w), w.type = op[o].want.type
  PROVE  SInv'
<1>1. Sound(w) /\ (w.roa # None => Exists(w.roa)) /\ op[o].req \in Requests /\ InFlight(o)
  BY OwnRow DEF Sound, SameData
<1>2. DataOK'
  BY <1>1, OwnCommit, RowWritten
<1>3. VrpsFollowRoa'
  BY DEF SInv, VrpsFollowRoa
<1> QED
  BY <1>2, <1>3, EndsQuiet, CallsQuiet DEF SInv

LEMMA CommitCreateData ==
  ASSUME IInv, SInv, NEW o \in Ops, \A p \in Ops \ {o} : At(p, "idle") /\ op'[p] = op[p],
         CommitCreate(o)
  PROVE  SInv'
<1>1. op[o].req \in Requests /\ Sound(op[o].want)
  BY CallFacts DEF SInv, CurrentCall, CommitCreate, At, InFlight
<1>2. VrpsFollowRoa'
  BY DEF SInv, VrpsFollowRoa, CommitCreate
<1>3. DataOK'
  <2>1. CASE op[o].want.roa = None \/ Exists(op[o].want.roa)
    BY <1>1, <2>1, RowWritten DEF CommitCreate
  <2>2. CASE UNCHANGED requests
    BY <2>2 DEF SInv, DataOK, Exists, CommitCreate
  <2> QED
    BY <2>1, <2>2 DEF CommitCreate
<1> QED
  BY <1>2, <1>3, EndsQuiet, CallsQuiet DEF SInv, CommitCreate

LEMMA RowOnlyData ==
  ASSUME IInv, SInv, NEW o \in Ops, \A p \in Ops \ {o} : At(p, "idle") /\ op'[p] = op[p],
         CommitApprove(o) \/ CommitExecuteCreateFails(o) \/ CommitWithoutRoa(o)
  PROVE  SInv'
<1>0. op[o].want \in RequestType
  BY CallFacts
<1>1. CASE CommitApprove(o) \/ CommitWithoutRoa(o)
  BY <1>0, <1>1, RowOnly DEF CommitApprove, CommitWithoutRoa, SameData, Kind
<1>2. CASE CommitExecuteCreateFails(o)
  <2> DEFINE w == [op[o].want EXCEPT !.status = "failed"]
  <2>1. w \in RequestType /\ SameData(op[o].want, w) /\ w.type = op[o].want.type
    BY <1>0 DEF RequestType, Statuses, SameData
  <2> HIDE DEF w
  <2> QED
    BY <1>2, <2>1, RowOnly DEF CommitExecuteCreateFails, Kind, w
<1> QED
  BY <1>1, <1>2

LEMMA ExecuteCreateData ==
  ASSUME IInv, SInv, NEW o \in Ops, \A p \in Ops \ {o} : At(p, "idle") /\ op'[p] = op[p],
         CommitExecuteCreate(o)
  PROVE  SInv'
<1> DEFINE q == op[o].req
           new == op[o].seen.change
<1>1. /\ TypeOK /\ op[o].want \in RequestType /\ q \in Requests /\ InFlight(o) /\ Whole(new)
      /\ Sound(op[o].want)
  BY CallFacts, OwnRow DEF CommitExecuteCreate, Sound, Kind
<1>2. PICK r \in Roas :
        /\ roas[r].status = "unused"
        /\ roas' = [roas EXCEPT ![r] = [content |-> new, status |-> "valid"]]
        /\ vrps' = [vrps EXCEPT ![r] = {[content |-> new, valid |-> TRUE]}]
        /\ requests' = Committed(o, [op[o].want EXCEPT !.roa = r])
  BY DEF CommitExecuteCreate
<1> DEFINE w == [op[o].want EXCEPT !.roa = r]
<1>3. w \in RequestType /\ w.roa = r /\ Sound(w)
  <2>1. /\ w \in RequestType /\ w.roa = r /\ w.type = op[o].want.type
        /\ w.change = op[o].want.change /\ w.saved = op[o].want.saved
    BY <1>1 DEF RequestType
  <2> QED
    BY <1>1, <2>1 DEF Sound
<1> HIDE DEF w
<1>4. requests' = [requests EXCEPT ![q] = w]
  BY <1>1, <1>2, <1>3, OwnCommit DEF CommitExecuteCreate, Kind, w
<1>5. requests'[q] = w /\ \A p \in Requests \ {q} : requests'[p] = requests[p]
  BY <1>1, <1>4 DEF TypeOK
<1>6. /\ roas'[r].content = new /\ roas'[r].status = "valid"
      /\ \A x \in Roas \ {r} : roas'[x] = roas[x] /\ vrps'[x] = vrps[x]
      /\ vrps'[r] = {[content |-> new, valid |-> TRUE]}
  BY <1>1, <1>2 DEF TypeOK
<1>7. \A x \in Roas : Exists(x) => Exists(x)'
  BY <1>2, <1>6 DEF Exists
<1>8. DataOK'
  <2>1. ASSUME NEW p \in Requests, requests'[p].roa # None
        PROVE  roas'[requests'[p].roa].status \in {"valid", "revoked"}
    <3>1. CASE p = q
      BY <1>3, <1>5, <1>6, <3>1
    <3>2. CASE p # q
      BY <1>1, <1>5, <1>7, <2>1, <3>2 DEF SInv, DataOK, Exists, TypeOK, RequestType
    <3> QED
      BY <3>1, <3>2
  <2>2. \A x \in Roas : Exists(x)' => Whole(roas'[x].content)
    BY <1>1, <1>6 DEF SInv, DataOK, Exists
  <2>3. \A p \in Requests : requests'[p].status # "none" => Sound(requests'[p])
    BY <1>3, <1>5 DEF SInv, DataOK
  <2> QED
    BY <2>1, <2>2, <2>3 DEF DataOK, Exists
<1>9. VrpsFollowRoa'
  BY <1>6 DEF SInv, VrpsFollowRoa
<1> QED
  BY <1>8, <1>9, EndsQuiet, CallsQuiet DEF SInv, CommitExecuteCreate

(* What the change of a ROA that is as the call loaded it comes to. *)
LEMMA RoaChanged ==
  ASSUME IInv, SInv, NEW o \in Ops, CommitRoaChange(o)
  PROVE  LET r == op[o].seen.roa
         IN  /\ r \in Roas /\ Exists(r) /\ op[o].roa = roas[r] /\ NewRoa(o) \in RoaType
             /\ roas' = [roas EXCEPT ![r] = NewRoa(o)]
<1> DEFINE r == op[o].seen.roa
<1>1. /\ r # None /\ r \in Roas /\ Exists(r) /\ op[o].roa = roas[r]
      /\ NewRoa(o) \in RoaType /\ roas[r] \in RoaType
  BY CallFacts, NewRoaType DEF CommitRoaChange, ChangesRoa, CallOK, SInv, CurrentCall, RequestType,
     TypeOK
<1> DEFINE new == NewRoa(o)
           row == [content |-> Flush(roas[r].content, new.content, roas[r].content),
                   status |-> IF new.status # roas[r].status THEN new.status ELSE roas[r].status]
<1>2. roas' = [roas EXCEPT ![r] = row]
  BY <1>1 DEF CommitRoaChange, FlushRoa
<1>3. Flush(roas[r].content, new.content, roas[r].content) = new.content
  BY <1>1, ContentFlushAll DEF RoaType
<1> HIDE DEF new
<1>4. row = new
  BY <1>1, <1>3 DEF RoaType, new
<1> QED
  BY <1>1, <1>2, <1>4 DEF new

LEMMA MergeWhole ==
  ASSUME NEW asked, NEW old, Whole(asked) \/ Whole(old)
  PROVE  Whole(Merge(asked, old))
  BY DEF Merge, Whole, Fields

LEMMA RoaChangeData ==
  ASSUME IInv, SInv, NEW o \in Ops, \A p \in Ops \ {o} : At(p, "idle") /\ op'[p] = op[p],
         CommitRoaChange(o)
  PROVE  SInv'
<1> DEFINE r == op[o].seen.roa
           new == NewRoa(o)
           seen == op[o].seen
<1>1. /\ r \in Roas /\ Exists(r) /\ op[o].roa = roas[r] /\ new \in RoaType
      /\ roas' = [roas EXCEPT ![r] = new]
  BY RoaChanged
<1>2. /\ TypeOK /\ roas[r] \in RoaType
      /\ seen \in RequestType /\ seen.type \in {"modify", "revoke"}
      /\ op[o].kind \in {"execute", "rollback"}
  BY <1>1, CallFacts DEF CommitRoaChange, ChangesRoa, RequestType, ChangeTypes, TypeOK
<1>3. roas'[r] = new /\ \A x \in Roas \ {r} : roas'[x] = roas[x]
  BY <1>1, <1>2 DEF TypeOK
<1>4. /\ new.content = CASE seen.type = "modify" /\ Kind(o, "execute") ->
                               Merge(seen.change, roas[r].content)
                          [] seen.type = "modify" /\ Kind(o, "rollback") ->
                               Merge(seen.saved, roas[r].content)
                          [] seen.type = "revoke" -> roas[r].content
      /\ new.status = CASE seen.type = "modify" -> roas[r].status
                         [] seen.type = "revoke" /\ Kind(o, "execute") -> "revoked"
                         [] seen.type = "revoke" /\ Kind(o, "rollback") -> "valid"
  BY <1>1, <1>2 DEF NewRoa, RoaType, Kind
<1> HIDE DEF new
<1>5. new.status \in {"valid", "revoked"} /\ Whole(new.content)
  <2>1. Whole(roas[r].content)
    BY <1>1 DEF SInv, DataOK
  <2> QED
    BY <1>1, <1>2, <1>4, <2>1, MergeWhole DEF Exists, Kind
<1>6. DataOK'
  <2> DEFINE q == op[o].req
  <2>1. /\ q \in Requests /\ Sound(op[o].want) /\ op[o].want \in RequestType
        /\ (op[o].want.roa # None => Exists(op[o].want.roa)) /\ ~Kind(o, "create")
        /\ requests' = [requests EXCEPT ![q] = op[o].want]
    BY <1>2, CallFacts, OwnRow, OwnCommit DEF CommitRoaChange, ChangesRoa, Kind
  <2>2. requests'[q] = op[o].want /\ \A p \in Requests \ {q} : requests'[p] = requests[p]
    BY <1>2, <2>1 DEF TypeOK
  <2>3. ASSUME NEW x \in Roas, Exists(x) PROVE roas'[x].status \in {"valid", "revoked"}
    BY <1>3, <1>5, <2>3 DEF Exists
  <2>4. ASSUME NEW p \in Requests, requests'[p].roa # None
        PROVE  roas'[requests'[p].roa].status \in {"valid", "revoked"}
    BY <1>2, <2>1, <2>2, <2>3, <2>4 DEF SInv, DataOK, TypeOK, RequestType
  <2>5. \A p \in Requests : requests'[p].status # "none" => Sound(requests'[p])
    BY <2>1, <2>2 DEF SInv, DataOK
  <2>6. ASSUME NEW x \in Roas, roas'[x].status \in {"valid", "revoked"} PROVE Whole(roas'[x].content)
    BY <1>3, <1>5, <2>6 DEF SInv, DataOK, Exists
  <2> QED
    BY <2>4, <2>5, <2>6 DEF DataOK, Exists
<1>7. VrpsFollowRoa'
  <2>1. /\ vrps'[r] = {NewVrp(o, v) : v \in vrps[r]}
        /\ \A x \in Roas \ {r} : vrps'[x] = vrps[x]
    BY <1>1, <1>2 DEF CommitRoaChange, TypeOK
  <2>2. ASSUME NEW v \in vrps[r]
        PROVE  /\ NewVrp(o, v).content = new.content
               /\ NewVrp(o, v).valid <=> new.status = "valid"
    <3>1. v \in VrpType /\ v.content = roas[r].content /\ (v.valid <=> roas[r].status = "valid")
      BY <1>1, <1>2 DEF SInv, VrpsFollowRoa, TypeOK
    <3>2. CASE seen.type = "modify" /\ Kind(o, "execute")
      <4>1. NewVrp(o, v) = [v EXCEPT !.content = Merge(seen.change, v.content)]
        BY <3>2 DEF NewVrp, Kind
      <4>2. /\ NewVrp(o, v).content = Merge(seen.change, v.content)
            /\ NewVrp(o, v).valid = v.valid
        BY <3>1, <4>1 DEF VrpType
      <4>3. new.content = Merge(seen.change, roas[r].content) /\ new.status = roas[r].status
        BY <1>4, <3>2 DEF Kind
      <4> QED
        BY <3>1, <4>2, <4>3
    <3>3. CASE seen.type = "modify" /\ Kind(o, "rollback")
      <4>1. NewVrp(o, v) = [v EXCEPT !.content = new.content]
        BY <3>3 DEF NewVrp, Kind, new
      <4> QED
        BY <1>4, <3>1, <3>3, <4>1 DEF VrpType
    <3>4. CASE seen.type = "revoke"
      <4>1. NewVrp(o, v) = [v EXCEPT !.valid = Kind(o, "rollback")]
        BY <3>4 DEF NewVrp
      <4>2. NewVrp(o, v).content = v.content /\ NewVrp(o, v).valid = Kind(o, "rollback")
        BY <3>1, <4>1 DEF VrpType
      <4> QED
        BY <1>2, <1>4, <3>1, <3>4, <4>2 DEF Kind
    <3> QED
      BY <1>2, <3>2, <3>3, <3>4 DEF Kind
  <2> QED
    BY <1>3, <2>1, <2>2 DEF SInv, VrpsFollowRoa
<1> QED
  BY <1>6, <1>7, EndsQuiet, CallsQuiet DEF SInv, CommitRoaChange

LEMMA DeleteRoaData ==
  ASSUME IInv, SInv, NEW o \in Ops, \A p \in Ops \ {o} : At(p, "idle") /\ op'[p] = op[p],
         CommitDeleteRoa(o)
  PROVE  SInv'
<1> DEFINE r == op[o].seen.roa
           q == op[o].req
           want == op[o].want
           flushed == [requests EXCEPT ![q] = want]
<1>1. /\ TypeOK /\ r # None /\ r \in Roas /\ q \in Requests /\ Sound(want) /\ want \in RequestType
      /\ (want.roa # None => Exists(want.roa))
  BY CallFacts, OwnRow DEF CommitDeleteRoa, CallOK, Kind, RequestType
<1>2. Committed(o, want) = flushed
  BY <1>1, OwnRow, OwnCommit DEF CommitDeleteRoa, Kind
<1>3. requests' = [p \in Requests |-> IF flushed[p].roa = r THEN [flushed[p] EXCEPT !.roa = None]
                                      ELSE flushed[p]]
  BY <1>2 DEF CommitDeleteRoa
<1>4. /\ roas'[r].status = "deleted" /\ \A x \in Roas \ {r} : roas'[x] = roas[x] /\ vrps'[x] = vrps[x]
      /\ vrps'[r] = {}
  BY <1>1 DEF CommitDeleteRoa, TypeOK
<1>5. /\ flushed[q] = want /\ flushed \in [Requests -> RequestType]
      /\ \A p \in Requests \ {q} : flushed[p] = requests[p]
  BY <1>1 DEF TypeOK
<1> HIDE DEF flushed
<1>6. \A p \in Requests : /\ requests'[p].roa = IF flushed[p].roa = r THEN None ELSE flushed[p].roa
                          /\ requests'[p].type = flushed[p].type /\ requests'[p].status = flushed[p].status
                          /\ requests'[p].change = flushed[p].change /\ requests'[p].saved = flushed[p].saved
  BY <1>3, <1>5 DEF RequestType
<1>7. \A p \in Requests : /\ flushed[p].status # "none" => Sound(flushed[p])
                          /\ flushed[p].roa # None => Exists(flushed[p].roa)
                          /\ flushed[p].roa \in Roas \union {None}
  BY <1>1, <1>5 DEF SInv, DataOK, RequestType
<1>8. DataOK'
  <2>1. ASSUME NEW p \in Requests, requests'[p].roa # None
        PROVE  roas'[requests'[p].roa].status \in {"valid", "revoked"}
    BY <1>4, <1>6, <1>7, <2>1 DEF Exists
  <2>2. \A p \in Requests : requests'[p].status # "none" => Sound(requests'[p])
    BY <1>6, <1>7 DEF Sound
  <2>3. ASSUME NEW x \in Roas, roas'[x].status \in {"valid", "revoked"} PROVE Whole(roas'[x].content)
    BY <1>4, <2>3 DEF SInv, DataOK, Exists
  <2> QED
    BY <2>1, <2>2, <2>3 DEF DataOK, Exists
<1>9. VrpsFollowRoa'
  BY <1>4 DEF SInv, VrpsFollowRoa
<1> QED
  BY <1>8, <1>9, EndsQuiet, CallsQuiet DEF SInv, CommitDeleteRoa

LEMMA DataStable == ASSUME SInv, UNCHANGED <<requests, roas, vrps>> PROVE DataOK' /\ VrpsFollowRoa'
  BY DEF SInv, DataOK, Exists, VrpsFollowRoa

LEMMA LoadRoaData ==
  ASSUME IInv, SInv, NEW o \in Ops, \A p \in Ops \ {o} : At(p, "idle") /\ op'[p] = op[p],
         LoadRoa(o)
  PROVE  SInv'
<1> DEFINE c == op[o]
           found == c.seen.roa # None /\ Exists(c.seen.roa)
<1>1. /\ TypeOK /\ c \in CallType /\ c.req \in Requests /\ InFlight(o) /\ At(o, "load")
      /\ c.want \in RequestType /\ c.kind \in {"execute", "rollback"}
  BY CallFacts DEF LoadRoa, InFlight, At, CallOK
<1>2. c.seen = requests[c.req] /\ SameData(c.seen, c.want)
  BY <1>1 DEF SInv, CurrentCall, Kind
<1>3. PICK roa, status :
        /\ op' = [op EXCEPT ![o].pc = "commit", ![o].roa = roa, ![o].want.status = status]
        /\ roa # None => found /\ roa = roas[c.seen.roa]
        /\ roa = None /\ Kind(o, "rollback") => ~found
  <2>1. c.seen.roa # None => roas[c.seen.roa] # None
    BY <1>1, CallFacts, ChangeAssumption DEF TypeOK, RequestType, RoaType
  <2> QED
    BY <2>1 DEF LoadRoa, Kind
<1>4. /\ op'[o].pc = "commit" /\ op'[o].roa = roa /\ op'[o].kind = c.kind
      /\ op'[o].req = c.req /\ op'[o].seen = c.seen
      /\ op'[o].want = [c.want EXCEPT !.status = status]
  BY <1>1, <1>3 DEF TypeOK, CallType
<1>5. SameData(c.seen, op'[o].want)
  BY <1>1, <1>2, <1>4 DEF SameData, RequestType
<1>6. c.seen.roa # None => Exists(c.seen.roa)
  BY <1>1, <1>2 DEF SInv, DataOK
<1>7. CurrentCall(o)'
  BY <1>1, <1>2, <1>3, <1>4, <1>5, <1>6 DEF CurrentCall, LoadRoa, Exists, At, Kind
<1> QED
  BY <1>7, CallsQuiet, DataStable DEF SInv, LoadRoa

(* A call that begins has read the tables as they are. *)
LEMMA BeginData ==
  ASSUME IInv, SInv, NEW o \in Ops, \A p \in Ops \ {o} : At(p, "idle") /\ op'[p] = op[p],
         NEW q \in Requests, BeginCall(o, q)
  PROVE  SInv'
<1>0. TypeOK /\ requests[q] \in RequestType
  BY DEF IInv, TypeOK
<1>1. CASE BeginCreate(o, q)
  <2>1. PICK type \in ChangeTypes, r \in Roas \union {None}, change \in ContentType,
             risk \in Risks, flow \in RuleTypes :
          /\ type = "create" => change["prefix"] # None /\ change["origin"] # None
          /\ type # "create" => r # None
          /\ r # None => Exists(r)
          /\ Start(o, "create", q, "commit", NewRequest(type, r, change, risk, flow), None)
    BY <1>1, CreateFacts
  <2> DEFINE new == NewRequest(type, r, change, risk, flow)
  <2>2. Sound(new) /\ new.roa = r
    <3>1. type = "modify" => r # None /\ Whole(roas[r].content)
      BY <2>1 DEF SInv, DataOK
    <3>2. /\ new.roa = r /\ new.type = type /\ new.change = change
          /\ r # None => new.saved = roas[r].content
      BY DEF NewRequest
    <3> HIDE DEF new
    <3> QED
      BY <2>1, <3>1, <3>2 DEF Sound, Whole
  <2> HIDE DEF new
  <2>3. /\ op'[o].kind = "create" /\ op'[o].pc = "commit" /\ op'[o].want = new /\ op'[o].roa = None
        /\ UNCHANGED <<requests, roas, vrps>>
    BY <1>0, <2>1, StartFields DEF new
  <2>4. CurrentCall(o)'
    BY <2>1, <2>2, <2>3 DEF CurrentCall, Kind, At, Exists
  <2> QED
    BY <2>3, <2>4, CallsQuiet, DataStable DEF SInv
<1>2. CASE BeginApprove(o, q)
  <2>1. PICK vote \in VoteType, want \in RequestType :
          /\ \A p \in Requests : \A w \in votes[p] : w.id # vote.id
          /\ SameData(requests[q], want)
          /\ Start(o, "approve", q, "commit", want, vote)
    BY <1>0, <1>2, ApproveFacts DEF SameData
  <2>2. /\ op'[o].kind = "approve" /\ op'[o].pc = "commit" /\ op'[o].want = want /\ op'[o].roa = None
        /\ op'[o].seen = requests[q] /\ op'[o].vote = vote /\ op'[o].req = q
        /\ UNCHANGED <<requests, roas, vrps, votes>>
    BY <1>0, <2>1, StartFields
  <2>3. CurrentCall(o)'
    BY <2>1, <2>2 DEF CurrentCall, Kind, At
  <2> QED
    BY <2>2, <2>3, CallsQuiet, DataStable DEF SInv
<1>3. CASE BeginExecute(o, q) \/ BeginRollback(o, q)
  <2>1. PICK k \in {"execute", "rollback"}, pc \in {"load", "commit"}, status \in Statuses :
          /\ Start(o, k, q, pc, [requests[q] EXCEPT !.status = status], None)
          /\ k = "rollback" => pc = "load"
    BY <1>3 DEF BeginExecute, BeginRollback, Statuses
  <2> DEFINE want == [requests[q] EXCEPT !.status = status]
  <2>2. SameData(requests[q], want)
    BY <1>0 DEF SameData, RequestType
  <2> HIDE DEF want
  <2>3. /\ op'[o].kind = k /\ op'[o].pc = pc /\ op'[o].want = want /\ op'[o].roa = None
        /\ op'[o].seen = requests[q] /\ op'[o].req = q
        /\ UNCHANGED <<requests, roas, vrps, votes>>
    BY <1>0, <2>1, StartFields DEF want
  <2>4. CurrentCall(o)'
    BY <2>1, <2>2, <2>3 DEF CurrentCall, Kind, At
  <2> QED
    BY <2>3, <2>4, CallsQuiet, DataStable DEF SInv
<1> QED
  BY <1>1, <1>2, <1>3 DEF BeginCall

LEMMA BeginReads ==
  ASSUME NEW o, NEW q, BeginCall(o, q)
  PROVE  UNCHANGED <<requests, roas, vrps, votes, before, audit, crashes>>
<1>1. CASE BeginCreate(o, q)
  BY <1>1, CreateFacts DEF Start
<1>2. CASE BeginApprove(o, q)
  BY <1>2 DEF BeginApprove, Start
<1>3. CASE BeginExecute(o, q) \/ BeginRollback(o, q)
  BY <1>3 DEF BeginExecute, BeginRollback, Start
<1> QED
  BY <1>1, <1>2, <1>3 DEF BeginCall

LEMMA EnvironmentData ==
  ASSUME IInv, SInv, GenerateVrps \/ Crash \/ UNCHANGED vars
  PROVE  SInv'
<1>1. CASE GenerateVrps
  <2>1. \A r \in Roas : vrps'[r] = IF roas[r].status = "valid"
                                   THEN {[content |-> roas[r].content, valid |-> TRUE]} ELSE {}
    BY <1>1 DEF GenerateVrps
  <2>2. VrpsFollowRoa'
    BY <1>1, <2>1 DEF GenerateVrps, VrpsFollowRoa
  <2>3. DataOK' /\ \A o \in Ops : CurrentCall(o)'
    BY <1>1 DEF GenerateVrps, SInv, DataOK, Exists, CurrentCall, InFlight, At, Kind
  <2> QED
    BY <2>2, <2>3 DEF SInv
<1>2. CASE Crash
  BY <1>2, DataStable DEF Crash, SInv, CurrentCall, InFlight, At, Idle
<1>3. CASE UNCHANGED vars
  BY <1>3 DEF vars, SInv, DataOK, Exists, VrpsFollowRoa, CurrentCall, InFlight, At, Kind
<1> QED
  BY <1>1, <1>2, <1>3

LEMMA InitData == Init => SInv
<1> SUFFICES ASSUME Init PROVE SInv
  OBVIOUS
<1>1. PICK S \in SUBSET Roas : \E c \in [S -> Contents] :
        /\ roas = [r \in Roas |-> IF r \in S THEN [content |-> c[r], status |-> "valid"]
                                  ELSE [content |-> NoFields, status |-> "unused"]]
        /\ vrps = [r \in Roas |-> IF r \in S THEN {[content |-> c[r], valid |-> TRUE]} ELSE {}]
  BY DEF Init
<1>2. PICK c \in [S -> Contents] :
        /\ roas = [r \in Roas |-> IF r \in S THEN [content |-> c[r], status |-> "valid"]
                                  ELSE [content |-> NoFields, status |-> "unused"]]
        /\ vrps = [r \in Roas |-> IF r \in S THEN {[content |-> c[r], valid |-> TRUE]} ELSE {}]
  BY <1>1
<1>3. VrpsFollowRoa
  BY <1>2 DEF VrpsFollowRoa
<1>4. \A r \in S : Whole(c[r])
  BY ChangeAssumption DEF Whole
<1>5. DataOK
  BY <1>2, <1>4 DEF Init, NoRequest, DataOK, Exists
<1> QED
  BY <1>3, <1>5 DEF Init, SInv, CurrentCall, InFlight, At, Idle

LEMMA NextData == IInv /\ SInv /\ OneAtATime /\ OneAtATime' /\ [Next]_vars => SInv'
<1> SUFFICES ASSUME IInv, SInv, OneAtATime, OneAtATime', [Next]_vars PROVE SInv'
  OBVIOUS
<1>1. ASSUME NEW o \in Ops, OpStep(o) PROVE SInv'
  <2>1. \A p \in Ops \ {o} : At(p, "idle") /\ op'[p] = op[p]
    BY <1>1, OnlyCall
  <2>2. CASE StaleRoa(o) \/ Audit(o)
    BY <2>1, <2>2, EndsQuiet, CallsQuiet, DataStable DEF StaleRoa, Audit, SInv
  <2> QED
    BY <1>1, <2>1, <2>2, CommitCreateData, RowOnlyData, ExecuteCreateData, RoaChangeData,
       DeleteRoaData, LoadRoaData DEF OpStep
<1>2. ASSUME NEW o \in Ops, NEW q \in Requests, BeginCall(o, q) PROVE SInv'
  <2>1. \A p \in Ops \ {o} : At(p, "idle") /\ op'[p] = op[p]
    BY <1>2, OnlyCall
  <2> QED
    BY <1>2, <2>1, BeginData
<1> QED
  BY <1>1, <1>2, EnvironmentData DEF Next

LEMMA DataInductive == Spec /\ []OneAtATime => [](IInv /\ SInv)
<1>1. Init => SInv
  BY InitData
<1>2. IInv /\ SInv /\ OneAtATime /\ OneAtATime' /\ [Next]_vars => SInv'
  BY NextData
<1> QED
  BY <1>1, <1>2, Inductive, PTL DEF Spec

(* Where calls do not overlap, VRPs say what their ROA says and are valid when
   it is: after any sequence of creations, modifications, revocations and
   rollbacks, with the table rebuilt and processes killed in between. *)
THEOREM VrpsAlwaysFollow == Spec /\ []OneAtATime => []VrpsFollowRoa
<1>1. SInv => VrpsFollowRoa
  BY DEF SInv
<1> QED
  BY <1>1, DataInductive, PTL

-----------------------------------------------------------------------------
(* Rolling back. *)

Restored(q) ==
  LET r == requests[q].roa
  IN  /\ requests[q].type = "modify" /\ r # None
      /\ requests[q].status = "executed" /\ requests'[q].status = "rolled_back"
      /\ before[q] = requests[q].saved
      => /\ \A f \in Fields : before[q][f] # None => roas'[r].content[f] = before[q][f]
         /\ before[q]["max"] = None => roas'[r].content["max"] = roas[r].content["max"]

(* The request q gets the status s, and nothing else changes of what a request
   needs or has of approvals. *)
Moved(q, s) ==
  \A p \in Requests : /\ requests'[p].status = IF p = q THEN s ELSE requests[p].status
                      /\ requests'[p].required = requests[p].required
                      /\ requests'[p].approvals = requests[p].approvals

LEMMA OwnMoves ==
  ASSUME IInv, SInv, NEW o \in Ops, Executing(o)
  PROVE  LET q == op[o].req
         IN  /\ q \in Requests /\ UNCHANGED votes
             /\ \E s \in Statuses :
                  /\ \/ Kind(o, "execute") /\ requests[q].status = "approved" /\ s \in {"executed", "failed"}
                     \/ Kind(o, "rollback") /\ requests[q].status = "executed" /\ s = "rolled_back"
                  /\ Moved(q, s)
<1> DEFINE q == op[o].req
           seen == op[o].seen
<1>1. /\ At(o, "commit") /\ op[o].kind \in {"execute", "rollback"} /\ UNCHANGED votes
  BY ExecutionMoves
<1>2. PICK w \in RequestType :
        /\ RowMoves(o, w) /\ w.approvals = op[o].want.approvals
        /\ w.status = op[o].want.status \/ (Kind(o, "execute") /\ w.status = "failed")
  BY ExecutionMoves
<1>3. q \in Requests /\ seen = requests[q] /\ InFlight(o)
  BY <1>1, OwnRow DEF Kind
<1>4. /\ op[o].want.approvals = seen.approvals
      /\ \/ /\ Kind(o, "execute") /\ seen.status = "approved"
            /\ w.status \in {"executed", "failed"}
         \/ Kind(o, "rollback") /\ seen.status = "executed" /\ w.status = "rolled_back"
  BY <1>1, <1>2, <1>3, CallFacts DEF CallOK, ExecuteOK, RollbackOK, Kind
<1>5. Moved(q, w.status)
  BY <1>2, <1>3, <1>4 DEF RowMoves, Moved, Fixed
<1>6. w.status \in Statuses
  BY DEF RequestType
<1> QED
  BY <1>1, <1>3, <1>4, <1>5, <1>6

(* Only the commit of a rollback makes a request rolled back. *)
LEMMA RolledBackBy ==
  ASSUME IInv, SInv, NEW o \in Ops, OpStep(o), NEW q \in Requests,
         requests[q].status = "executed", requests'[q].status = "rolled_back"
  PROVE  /\ q = op[o].req /\ Kind(o, "rollback") /\ At(o, "commit")
         /\ CommitRoaChange(o) \/ CommitDeleteRoa(o) \/ CommitWithoutRoa(o)
<1>0. requests \in [Requests -> RequestType] /\ op[o].want \in RequestType
  BY CallFacts DEF TypeOK
<1>1. CASE CommitCreate(o)
  <2>1. CreateOK(o) /\ op[o].req \in Requests
    BY <1>1, CallFacts DEF CommitCreate, CallOK, InFlight, At
  <2> QED
    BY <1>0, <1>1, <2>1 DEF CommitCreate, CreateOK
<1>2. CASE CommitApprove(o)
  <2>1. /\ op[o].req \in Requests /\ op[o].want.status # "rolled_back"
        /\ requests' = [requests EXCEPT ![op[o].req] = op[o].want]
    BY <1>0, <1>2, CallFacts, OwnRow, OwnCommit DEF CommitApprove, CallOK, ApproveOK, InFlight, At, Kind
  <2> QED
    BY <1>0, <2>1
<1>3. CASE Executing(o)
  <2>1. q = op[o].req /\ Kind(o, "rollback") /\ At(o, "commit")
    BY <1>3, OwnMoves, ExecutionMoves DEF Moved
  <2> QED
    BY <1>3, <2>1 DEF Executing, CommitExecuteCreate, CommitExecuteCreateFails, Kind
<1>4. CASE LoadRoa(o) \/ StaleRoa(o) \/ Audit(o)
  BY <1>4 DEF LoadRoa, StaleRoa, Audit
<1> QED
  BY <1>1, <1>2, <1>3, <1>4 DEF OpStep, Executing

LEMMA RollbackStep ==
  ASSUME IInv, SInv, [Next]_vars, NEW q \in Requests
  PROVE  Restored(q)
<1> DEFINE r == requests[q].roa
<1> SUFFICES ASSUME requests[q].type = "modify", r # None,
                    requests[q].status = "executed", requests'[q].status = "rolled_back",
                    before[q] = requests[q].saved
             PROVE  /\ \A f \in Fields : before[q][f] # None => roas'[r].content[f] = before[q][f]
                    /\ before[q]["max"] = None => roas'[r].content["max"] = roas[r].content["max"]
  BY DEF Restored
<1>1. PICK o \in Ops : OpStep(o)
  <2>1. CASE \E o \in Ops, p \in Requests : BeginCall(o, p)
    BY <2>1, BeginReads
  <2> QED
    BY <2>1 DEF Next, GenerateVrps, Crash, vars
<1>2. /\ q = op[o].req /\ Kind(o, "rollback") /\ At(o, "commit")
      /\ CommitRoaChange(o) \/ CommitDeleteRoa(o) \/ CommitWithoutRoa(o)
  BY <1>1, RolledBackBy
<1>3. /\ op[o].seen = requests[q] /\ TypeOK /\ Whole(requests[q].saved)
      /\ requests[q].saved \in ContentType
  BY <1>2, OwnRow, CallFacts DEF Kind, Sound, TypeOK, RequestType
<1>4. CASE CommitRoaChange(o)
  <2>1. /\ r \in Roas /\ op[o].roa = roas[r] /\ roas' = [roas EXCEPT ![r] = NewRoa(o)]
    BY <1>3, <1>4, RoaChanged
  <2>2. NewRoa(o) = [roas[r] EXCEPT !.content = Merge(requests[q].saved, roas[r].content)]
    BY <1>2, <1>3, <2>1 DEF NewRoa, Kind
  <2>3. roas'[r].content = Merge(requests[q].saved, roas[r].content)
    BY <1>3, <2>1, <2>2 DEF TypeOK, RoaType
  <2> QED
    BY <2>3 DEF Merge, Fields
<1>5. CASE CommitDeleteRoa(o)
  BY <1>3, <1>5 DEF CommitDeleteRoa
<1>6. CASE CommitWithoutRoa(o)
  BY <1>2, <1>3, <1>6 DEF CommitWithoutRoa, SInv, CurrentCall
<1> QED
  BY <1>2, <1>4, <1>5, <1>6

(* Where calls do not overlap, rolling a modification back gives the ROA every
   field that had a value when the request was executed, if it had that content
   when the request was created and is still there; a max_length that was not
   set is not restored, and the one there is stays. *)
THEOREM RollbackAlwaysRestores == Spec /\ []OneAtATime => RollbackRestores
<1>1. IInv /\ SInv /\ [Next]_vars => \A q \in Requests : Restored(q)
  BY RollbackStep
<1>2. (\A q \in Requests : Restored(q)) =>
        [\A q \in Requests :
           LET r == requests[q].roa
           IN  /\ requests[q].type = "modify" /\ r # None
               /\ requests[q].status = "executed" /\ requests'[q].status = "rolled_back"
               /\ before[q] = requests[q].saved
               => /\ \A f \in Fields : before[q][f] # None => roas'[r].content[f] = before[q][f]
                  /\ before[q]["max"] = None => roas'[r].content["max"] = roas[r].content["max"]]_vars
  BY DEF Restored
<1> QED
  BY <1>1, <1>2, DataInductive, PTL DEF Spec, RollbackRestores

-----------------------------------------------------------------------------
(* Counting approvals.  The column holds the first record only.  That is enough
   for a request that needs one or two: while it is pending it has no record, or
   the first of two.  It is never enough for one that needs the committee's
   three, whose count is two at most. *)

Counted(q) ==
  /\ requests[q].status = "none" => votes[q] = {}
  /\ requests[q].status = "pending_approval" =>
       /\ requests[q].required \in {1, 2, 3} /\ requests[q].approvals \subseteq votes[q]
       /\ votes[q] # {} => /\ requests[q].required # 1
                          /\ \E v \in VoteType : v.approves /\ requests[q].approvals = {v}
       /\ requests[q].required # 3 => requests[q].approvals = votes[q]
  /\ requests[q].required = 3 => requests[q].status \notin Passed

(* Whether one more approving record completes the number. *)
Completes(required, q) == required # 3 /\ (votes[q] # {} \/ required = 1)

CountingCall(o) ==
  LET want == op[o].want
  IN  /\ InFlight(o) /\ Kind(o, "create") =>
           /\ want.required \in 0..3
           /\ want.status = IF want.required = 0 THEN "approved" ELSE "pending_approval"
      /\ InFlight(o) /\ Kind(o, "approve") =>
           /\ ~op[o].vote.approves => want.status = "rejected"
           /\ op[o].vote.approves =>
                want.status = IF Completes(want.required, op[o].req)
                              THEN "approved" ELSE "pending_approval"
           /\ want.approvals = Recorded(op[o].seen, op[o].vote)

VInv == (\A q \in Requests : Counted(q)) /\ (\A o \in Ops : CountingCall(o))

(* One record, and a second that is not the first. *)
LEMMA OneOrTwo ==
  ASSUME NEW v, NEW w
  PROVE  /\ Cardinality({v}) = 1
         /\ v # w => Cardinality({v, w}) = 2
<1>1. IsFiniteSet({v}) /\ Cardinality({v}) = 1
  BY FS_Singleton
<1>2. ASSUME v # w PROVE Cardinality({v, w}) = 2
  <2>1. w \notin {v} /\ {v, w} = {v} \union {w}
    BY <1>2
  <2>2. Cardinality({v} \union {w}) = Cardinality({v}) + 1
    BY <1>1, <2>1, FS_AddElement
  <2> QED
    BY <1>1, <2>1, <2>2
<1> QED
  BY <1>1, <1>2

LEMMA ApprovingFew ==
  ASSUME NEW v, v.approves, NEW w, v # w
  PROVE  /\ Approving({}) = {} /\ Approving({v}) = {v}
         /\ w.approves => Approving({v, w}) = {v, w}
         /\ ~w.approves => Approving({v, w}) = {v} /\ Approving({w}) = {}
  BY DEF Approving

(* What a call that begins to approve decides. *)
LEMMA Decides ==
  ASSUME IInv, VInv, NEW q \in Requests, requests[q].status = "pending_approval",
         NEW vote \in VoteType, \A w \in votes[q] : w.id # vote.id, vote.approves
  PROVE  Cardinality(Approving(requests[q].approvals \union {vote})) >= requests[q].required
           <=> Completes(requests[q].required, q)
<1>1. Counted(q)
  BY DEF VInv
<1>2. CASE votes[q] = {}
  <2>1. requests[q].approvals \union {vote} = {vote} /\ Approving({vote}) = {vote}
    BY <1>1, <1>2 DEF Counted, Approving
  <2>2. Cardinality({vote}) = 1
    BY OneOrTwo
  <2>3. Cardinality(Approving(requests[q].approvals \union {vote})) = 1
    BY <2>1, <2>2
  <2>4. requests[q].required \in {1, 2, 3}
    BY <1>1 DEF Counted
  <2> QED
    BY <1>2, <2>3, <2>4 DEF Completes
<1>3. CASE votes[q] # {}
  <2>1. PICK v \in VoteType : v.approves /\ requests[q].approvals = {v} /\ v \in votes[q]
    BY <1>1, <1>3 DEF Counted
  <2>2. v # vote /\ requests[q].approvals \union {vote} = {v, vote}
    BY <2>1
  <2>3. Approving({v, vote}) = {v, vote}
    BY <2>1 DEF Approving
  <2>4. Cardinality({v, vote}) = 2
    BY <2>2, OneOrTwo
  <2>5. Cardinality(Approving(requests[q].approvals \union {vote})) = 2
    BY <2>2, <2>3, <2>4
  <2>6. requests[q].required \in {2, 3}
    BY <1>1, <1>3 DEF Counted
  <2> QED
    BY <1>3, <2>5, <2>6 DEF Completes
<1> QED
  BY <1>2, <1>3

LEMMA BeginCounts ==
  ASSUME IInv, VInv, NEW o \in Ops, \A p \in Ops \ {o} : At(p, "idle") /\ op'[p] = op[p],
         NEW q \in Requests, BeginCall(o, q)
  PROVE  VInv'
<1>0. TypeOK /\ requests[q] \in RequestType /\ requests[q].required \in Int
  BY DEF IInv, TypeOK, RequestType
<1>1. \A p \in Requests : Counted(p)'
  BY BeginReads DEF VInv, Counted
<1>2. \A p \in Ops \ {o} : CountingCall(p)'
  BY DEF CountingCall, InFlight, At
<1>3. CASE BeginCreate(o, q)
  <2>1. PICK type \in ChangeTypes, r \in Roas \union {None}, change \in ContentType,
             risk \in Risks, flow \in RuleTypes :
          /\ ~(High(risk) /\ flow = "auto_approve")
          /\ Start(o, "create", q, "commit", NewRequest(type, r, change, risk, flow), None)
    BY <1>3, CreateFacts
  <2> DEFINE new == NewRequest(type, r, change, risk, flow)
  <2>2. /\ new.required \in 0..3
        /\ new.status = IF new.required = 0 THEN "approved" ELSE "pending_approval"
    BY <2>1 DEF NewRequest, RequiredApprovals, RuleTypes
  <2> HIDE DEF new
  <2>3. op'[o].kind = "create" /\ op'[o].want = new
    BY <1>0, <2>1, StartFields DEF new
  <2>4. CountingCall(o)'
    BY <2>2, <2>3 DEF CountingCall, Kind
  <2> QED
    BY <1>1, <1>2, <2>4 DEF VInv
<1>4. CASE BeginApprove(o, q)
  <2>1. PICK vote \in VoteType, want \in RequestType :
          /\ requests[q].status = "pending_approval"
          /\ \A p \in Requests : \A w \in votes[p] : w.id # vote.id
          /\ Fixed(requests[q], want) /\ want.approvals = Recorded(requests[q], vote)
          /\ ~vote.approves => want.status = "rejected"
          /\ vote.approves =>
               want.status = IF Cardinality(Approving(requests[q].approvals \union {vote}))
                                  >= requests[q].required THEN "approved" ELSE "pending_approval"
          /\ Start(o, "approve", q, "commit", want, vote)
    BY <1>0, <1>4, ApproveFacts
  <2>2. vote.approves =>
          want.status = IF Completes(requests[q].required, q)
                        THEN "approved" ELSE "pending_approval"
    BY <2>1, Decides
  <2>3. /\ op'[o].kind = "approve" /\ op'[o].want = want /\ op'[o].vote = vote /\ op'[o].req = q
        /\ op'[o].seen = requests[q] /\ votes' = votes
    BY <1>0, <2>1, StartFields
  <2>4. CountingCall(o)'
    BY <2>1, <2>2, <2>3 DEF CountingCall, Kind, Fixed, Recorded, Completes
  <2> QED
    BY <1>1, <1>2, <2>4 DEF VInv
<1>5. CASE BeginExecute(o, q) \/ BeginRollback(o, q)
  <2>1. op'[o].kind \in {"execute", "rollback"}
    BY <1>0, <1>5, StartFields DEF BeginExecute, BeginRollback
  <2>2. CountingCall(o)'
    BY <2>1 DEF CountingCall, Kind
  <2> QED
    BY <1>1, <1>2, <2>2 DEF VInv
<1> QED
  BY <1>3, <1>4, <1>5 DEF BeginCall

(* What the commits of a creation and of an approval do to the counts. *)
LEMMA CreateCounts ==
  ASSUME IInv, VInv, NEW o \in Ops, CommitCreate(o)
  PROVE  \/ UNCHANGED <<requests, votes>>
         \/ LET q == op[o].req
                new == op[o].want
            IN  /\ q \in Requests /\ requests[q].status = "none" /\ votes[q] = {} /\ UNCHANGED votes
                /\ new.required \in 0..3 /\ new.approvals = {}
                /\ new.status = IF new.required = 0 THEN "approved" ELSE "pending_approval"
                /\ requests'[q] = new /\ \A p \in Requests \ {q} : requests'[p] = requests[p]
<1>1. CreateOK(o) /\ op[o].req \in Requests /\ InFlight(o) /\ Kind(o, "create")
  BY CallFacts DEF CommitCreate, CallOK, InFlight, At
<1>2. Counted(op[o].req) /\ CountingCall(o)
  BY <1>1 DEF VInv
<1>3. requests \in [Requests -> RequestType]
  BY DEF IInv, TypeOK
<1> QED
  BY <1>1, <1>2, <1>3 DEF CommitCreate, CreateOK, Counted, CountingCall

LEMMA ApproveCounts ==
  ASSUME IInv, SInv, VInv, NEW o \in Ops, CommitApprove(o)
  PROVE  LET q == op[o].req
             want == op[o].want
             vote == op[o].vote
         IN  /\ q \in Requests /\ vote \in VoteType /\ requests[q].status = "pending_approval"
             /\ \A p \in Requests : \A w \in votes[p] : w.id # vote.id
             /\ requests'[q] = want /\ want.required = requests[q].required
             /\ \A p \in Requests \ {q} : requests'[p] = requests[p] /\ votes'[p] = votes[p]
             /\ votes'[q] = votes[q] \union {vote}
             /\ want.approvals = Recorded(requests[q], vote)
             /\ ~vote.approves => want.status = "rejected"
             /\ vote.approves =>
                  want.status = IF Completes(requests[q].required, q)
                                THEN "approved" ELSE "pending_approval"
<1> DEFINE q == op[o].req
           want == op[o].want
<1>1. /\ q \in Requests /\ op[o].seen = requests[q] /\ want \in RequestType
      /\ InFlight(o) /\ Kind(o, "approve") /\ TypeOK
  BY CallFacts, OwnRow DEF CommitApprove, Kind
<1>2. ApproveOK(o) /\ CountingCall(o) /\ CurrentCall(o)
  BY <1>1, CallFacts DEF CallOK, VInv, SInv
<1>3. requests' = [requests EXCEPT ![q] = want]
  BY <1>1, OwnCommit DEF CommitApprove, Kind
<1>4. want.required = requests[q].required
  BY <1>2 DEF ApproveOK, KnownOK, Fixed
<1>5. /\ requests'[q] = want /\ votes'[q] = votes[q] \union {op[o].vote}
      /\ \A p \in Requests \ {q} : requests'[p] = requests[p] /\ votes'[p] = votes[p]
  BY <1>1, <1>3 DEF CommitApprove, TypeOK
<1> QED
  BY <1>1, <1>2, <1>4, <1>5 DEF ApproveOK, CountingCall, CurrentCall

LEMMA StepCounts ==
  ASSUME IInv, SInv, VInv, NEW o \in Ops, \A p \in Ops \ {o} : At(p, "idle") /\ op'[p] = op[p],
         OpStep(o)
  PROVE  VInv'
<1> SUFFICES (\A q \in Requests : Counted(q)') /\ CountingCall(o)'
  BY DEF VInv, CountingCall, InFlight, At
<1>1. CASE CommitCreate(o)
  <2>1. CountingCall(o)'
    BY <1>1, EndsQuiet DEF CommitCreate, CountingCall
  <2>2. CASE UNCHANGED <<requests, votes>>
    BY <2>1, <2>2 DEF VInv, Counted
  <2>3. ASSUME ~UNCHANGED <<requests, votes>>, NEW q \in Requests PROVE Counted(q)'
    <3> DEFINE r == op[o].req
               new == op[o].want
    <3>1. /\ requests[r].status = "none" /\ votes[r] = {} /\ UNCHANGED votes
          /\ new.required \in 0..3 /\ new.approvals = {}
          /\ new.status = IF new.required = 0 THEN "approved" ELSE "pending_approval"
          /\ requests'[r] = new /\ \A p \in Requests \ {r} : requests'[p] = requests[p]
      BY <1>1, <2>3, CreateCounts
    <3>2. CASE q = r
      <4>1. /\ new.status \in {"pending_approval", "approved"}
            /\ new.status = "pending_approval" <=> new.required \in {1, 2, 3}
        BY <3>1
      <4>2. requests'[q] = new /\ votes'[q] = {} /\ new.approvals = {}
        BY <3>1, <3>2
      <4> HIDE DEF new
      <4> QED
        BY <4>1, <4>2 DEF Counted, Passed
    <3>3. CASE q # r
      BY <3>1, <3>3 DEF VInv, Counted
    <3> QED
      BY <3>2, <3>3
  <2> QED
    BY <2>1, <2>2, <2>3
<1>2. CASE CommitApprove(o)
  <2> DEFINE r == op[o].req
  <2>1. ASSUME NEW q \in Requests \ {r} PROVE Counted(q)'
    BY <1>2, ApproveCounts DEF VInv, Counted
  <2>2. ASSUME NEW q \in Requests, q = r PROVE Counted(q)'
    <3>1. Counted(q) /\ requests[q].status = "pending_approval"
      BY <1>2, <2>2, ApproveCounts DEF VInv
    <3>2. requests'[q].status # "none"
      BY <1>2, <2>2, ApproveCounts
    <3> DEFINE vote == op[o].vote
    <3>3. /\ requests'[q].required = requests[q].required
          /\ requests'[q].approvals = Recorded(requests[q], vote)
          /\ votes'[q] = votes[q] \union {vote} /\ vote \in VoteType
          /\ ~vote.approves => requests'[q].status = "rejected"
          /\ vote.approves =>
               requests'[q].status = IF Completes(requests[q].required, q)
                                     THEN "approved" ELSE "pending_approval"
      BY <1>2, <2>2, ApproveCounts
    <3> HIDE DEF vote
    <3>4. ASSUME requests'[q].status = "pending_approval"
          PROVE  /\ vote.approves /\ requests'[q].required \in {2, 3}
                 /\ requests'[q].approvals \subseteq votes'[q]
                 /\ \E v \in VoteType : v.approves /\ requests'[q].approvals = {v}
                 /\ requests'[q].required # 3 => requests'[q].approvals = votes'[q]
      <4>1. vote.approves /\ ~Completes(requests[q].required, q)
        BY <3>3, <3>4
      <4>2. CASE votes[q] = {}
        <5>1. requests'[q].approvals = {vote} /\ votes'[q] = {vote}
          BY <3>1, <3>3, <4>2 DEF Counted, Recorded
        <5> QED
          BY <3>1, <3>3, <4>1, <5>1 DEF Counted, Completes
      <4>3. CASE votes[q] # {}
        <5>1. requests[q].required = 3
          BY <3>1, <4>1, <4>3 DEF Counted, Completes
        <5>2. requests'[q].approvals = requests[q].approvals
          BY <3>1, <3>3, <4>3 DEF Counted, Recorded
        <5> QED
          BY <3>1, <3>3, <4>1, <4>3, <5>1, <5>2 DEF Counted
      <4> QED
        BY <4>2, <4>3
    <3>5. requests'[q].required = 3 => requests'[q].status \notin Passed
      BY <3>3 DEF Completes, Passed
    <3> QED
      BY <3>2, <3>4, <3>5 DEF Counted
  <2>3. CountingCall(o)'
    BY <1>2, EndsQuiet DEF CommitApprove, CountingCall
  <2> QED
    BY <2>1, <2>2, <2>3
<1>3. CASE Executing(o)
  <2>1. \A q \in Requests : Counted(q)'
    BY <1>3, OwnMoves DEF VInv, Counted, Moved, Passed
  <2>2. CountingCall(o)'
    BY <1>3, ExecutionMoves, EndsQuiet DEF CountingCall
  <2> QED
    BY <2>1, <2>2
<1>4. CASE StaleRoa(o) \/ Audit(o)
  BY <1>4, EndsQuiet DEF StaleRoa, Audit, VInv, Counted, CountingCall
<1>5. CASE LoadRoa(o)
  <2>1. op'[o].kind = op[o].kind /\ op[o].kind \in {"execute", "rollback"}
    BY <1>5, CallFacts DEF LoadRoa, TypeOK, CallType, CallOK
  <2> QED
    BY <1>5, <2>1 DEF LoadRoa, VInv, Counted, CountingCall, Kind
<1> QED
  BY <1>1, <1>2, <1>3, <1>4, <1>5 DEF OpStep, Executing

LEMMA NextCounts ==
  IInv /\ SInv /\ VInv /\ OneAtATime /\ OneAtATime' /\ [Next]_vars => VInv'
<1> SUFFICES ASSUME IInv, SInv, VInv, OneAtATime, OneAtATime', [Next]_vars
             PROVE VInv'
  OBVIOUS
<1>1. ASSUME NEW o \in Ops, OpStep(o) PROVE VInv'
  BY <1>1, OnlyCall, StepCounts
<1>2. ASSUME NEW o \in Ops, NEW q \in Requests, BeginCall(o, q) PROVE VInv'
  BY <1>2, OnlyCall, BeginCounts
<1>3. CASE GenerateVrps \/ UNCHANGED vars
  BY <1>3 DEF GenerateVrps, vars, VInv, Counted, CountingCall, InFlight, Kind, Completes
<1>4. CASE Crash
  BY <1>4 DEF Crash, VInv, Counted, CountingCall, InFlight, Idle
<1> QED
  BY <1>1, <1>2, <1>3, <1>4 DEF Next

LEMMA InitCounts == Init => VInv
  BY DEF Init, VInv, Counted, CountingCall, NoRequest, Idle, InFlight, Passed

LEMMA CountsInductive == Spec /\ []OneAtATime => [](IInv /\ SInv /\ VInv)
<1>1. Init => VInv
  BY InitCounts
<1>2. IInv /\ SInv /\ VInv /\ OneAtATime /\ OneAtATime' /\ [Next]_vars => VInv'
  BY NextCounts
<1> QED
  BY <1>1, <1>2, DataInductive, PTL DEF Spec

(* Where calls do not overlap, the approval records of a request that needs one
   or two suffice as soon as there are as many, although the approvals column
   keeps the first only; a request that needs the committee's three is never
   approved, whoever approves it and how often. *)
THEOREM AlwaysDecided == Spec /\ []OneAtATime => []DecidedByVotes
<1>1. VInv => DecidedByVotes
  <2> SUFFICES ASSUME VInv, NEW q \in Requests, requests[q].status = "pending_approval",
                      requests[q].required # 3
               PROVE  Cardinality(Approving(votes[q])) < requests[q].required
    BY DEF DecidedByVotes, VInv, Counted
  <2>1. Counted(q)
    BY DEF VInv
  <2>2. CASE votes[q] = {}
    <3>1. Approving(votes[q]) = {} /\ Cardinality({}) = 0
      BY <2>2, FS_EmptySet DEF Approving
    <3>2. requests[q].required \in {1, 2}
      BY <2>1 DEF Counted
    <3> QED
      BY <3>1, <3>2
  <2>3. CASE votes[q] # {}
    <3>1. PICK v \in VoteType : v.approves /\ votes[q] = {v}
      BY <2>1, <2>3 DEF Counted
    <3>2. Approving(votes[q]) = {v} /\ Cardinality({v}) = 1
      BY <3>1, OneOrTwo DEF Approving
    <3>3. requests[q].required = 2
      BY <2>1, <2>3 DEF Counted
    <3> QED
      BY <3>2, <3>3
  <2> QED
    BY <2>2, <2>3
<1> QED
  BY <1>1, CountsInductive, PTL

-----------------------------------------------------------------------------
(* The lifecycle of a request. *)

StatusOf == [q \in Requests |-> requests[q].status]
RequiredOf == [q \in Requests |-> requests[q].required]
CastOf == [q \in Requests |-> {v.id : v \in Approving(votes[q])}]
LifecycleView == <<StatusOf, RequiredOf, CastOf>>

(* The instance's cardinality is the library's. *)
LEMMA SameCardinality == ASSUME NEW S PROVE Lifecycle!Cardinality(S) = Cardinality(S)
  BY DEF Lifecycle!Cardinality, Cardinality

LEMMA SubmitStep ==
  ASSUME IInv, VInv, NEW o \in Ops, CommitCreate(o)
  PROVE  Lifecycle!LifecycleNext \/ UNCHANGED LifecycleView
<1> DEFINE q == op[o].req
           new == op[o].want
<1>1. CASE UNCHANGED <<requests, votes>>
  BY <1>1 DEF LifecycleView, StatusOf, RequiredOf, CastOf
<1>2. CASE ~UNCHANGED <<requests, votes>>
  <2>1. /\ q \in Requests /\ requests[q].status = "none" /\ UNCHANGED votes /\ new.required \in 0..3
        /\ new.status = IF new.required = 0 THEN "approved" ELSE "pending_approval"
        /\ requests'[q] = new /\ \A p \in Requests \ {q} : requests'[p] = requests[p]
    BY <1>2, CreateCounts
  <2> HIDE DEF new
  <2>2. PICK x \in Requests, n \in 0..3 : x = q /\ n = new.required
    BY <2>1
  <2> HIDE DEF q
  <2>3. /\ [p \in Requests |-> requests'[p].status] =
             [[p \in Requests |-> requests[p].status] EXCEPT ![x] =
                IF n = 0 THEN "approved" ELSE "pending_approval"]
        /\ [p \in Requests |-> requests'[p].required] =
             [[p \in Requests |-> requests[p].required] EXCEPT ![x] = n]
        /\ [p \in Requests |-> requests[p].status][x] = "none"
        /\ [p \in Requests |-> {v.id : v \in Approving(votes'[p])}]
             = [p \in Requests |-> {v.id : v \in Approving(votes[p])}]
    BY <2>1, <2>2
  <2>4. Lifecycle!Submit(x)
    BY <2>3 DEF Lifecycle!Submit, Lifecycle!Move
  <2> QED
    BY <2>4 DEF Lifecycle!LifecycleNext
<1> QED
  BY <1>1, <1>2

LEMMA VoteStep ==
  ASSUME IInv, SInv, VInv, NEW o \in Ops, CommitApprove(o), NEW q \in Requests, q = op[o].req
  PROVE  Lifecycle!LifecycleNext
<1> DEFINE want == op[o].want
           vote == op[o].vote
           st == [p \in Requests |-> requests[p].status]
           cast == [p \in Requests |-> {v.id : v \in Approving(votes[p])}]
<1>1. /\ vote \in VoteType /\ requests[q].status = "pending_approval"
      /\ \A p \in Requests : \A w \in votes[p] : w.id # vote.id
      /\ requests'[q] = want /\ want.required = requests[q].required
      /\ \A p \in Requests \ {q} : requests'[p] = requests[p] /\ votes'[p] = votes[p]
      /\ votes'[q] = votes[q] \union {vote}
      /\ ~vote.approves => want.status = "rejected"
      /\ vote.approves =>
           want.status = IF Completes(requests[q].required, q)
                         THEN "approved" ELSE "pending_approval"
  BY ApproveCounts
<1>2. Counted(q)
  BY <1>1 DEF VInv
<1> HIDE DEF want, vote
<1>3. /\ st' = [st EXCEPT ![q] = want.status]
      /\ [p \in Requests |-> requests'[p].required] = [p \in Requests |-> requests[p].required]
  BY <1>1
<1>4. CASE ~vote.approves
  <2>1. Approving(votes[q] \union {vote}) = Approving(votes[q])
    BY <1>4 DEF Approving
  <2>2. cast' = cast
    BY <1>1, <2>1
  <2>3. Lifecycle!Reject(q)
    BY <1>1, <1>3, <1>4, <2>2 DEF Lifecycle!Reject, Lifecycle!Move
  <2> QED
    BY <2>3 DEF Lifecycle!LifecycleNext
<1>5. CASE vote.approves
  <2>1. Approving(votes[q] \union {vote}) = Approving(votes[q]) \union {vote}
    BY <1>5 DEF Approving
  <2>2. {v.id : v \in Approving(votes[q]) \union {vote}}
          = {v.id : v \in Approving(votes[q])} \union {vote.id}
    OBVIOUS
  <2>3. /\ cast'[q] = cast[q] \union {vote.id} /\ \A p \in Requests \ {q} : cast'[p] = cast[p]
        /\ cast = [p \in Requests |-> cast[p]] /\ cast' = [p \in Requests |-> cast'[p]]
        /\ vote.id \in VoteIds \ cast[q]
    <3>1. cast'[q] = cast[q] \union {vote.id}
      BY <1>1, <2>1, <2>2
    <3>2. \A p \in Requests \ {q} : cast'[p] = cast[p]
      BY <1>1
    <3>3. vote.id \in VoteIds \ cast[q]
      BY <1>1 DEF Approving, VoteType
    <3> QED
      BY <3>1, <3>2, <3>3
  <2>4. requests[q].required # 3 =>
          /\ votes[q] = {} => cast[q] = {}
          /\ votes[q] # {} => \E v \in VoteType : cast[q] = {v.id} /\ v.id # vote.id
    <3>1. votes[q] = {} => cast[q] = {}
      BY DEF Approving
    <3>2. ASSUME requests[q].required # 3, votes[q] # {}
          PROVE  \E v \in VoteType : cast[q] = {v.id} /\ v.id # vote.id
      <4>1. PICK v \in VoteType : v.approves /\ votes[q] = {v}
        BY <1>1, <1>2, <3>2 DEF Counted
      <4>2. cast[q] = {v.id}
        BY <4>1 DEF Approving
      <4>3. v.id # vote.id
        BY <1>1, <4>1
      <4> QED
        BY <4>2, <4>3
    <3> QED
      BY <3>1, <3>2
  <2>5. Completes(requests[q].required, q)
          <=> requests[q].required # 3 /\ Cardinality(cast'[q]) >= requests[q].required
    <3> HIDE DEF cast
    <3>1. requests[q].required \in {1, 2, 3} /\ (votes[q] # {} => requests[q].required # 1)
      BY <1>1, <1>2 DEF Counted
    <3>2. CASE requests[q].required = 3
      BY <3>2 DEF Completes
    <3>3. CASE requests[q].required # 3 /\ votes[q] = {}
      <4>1. cast'[q] = {vote.id}
        BY <2>3, <2>4, <3>3
      <4>2. Cardinality(cast'[q]) = 1
        <5>1. Cardinality({vote.id}) = 1
          BY OneOrTwo
        <5> QED
          BY <4>1, <5>1
      <4> QED
        BY <3>1, <3>3, <4>2 DEF Completes
    <3>4. CASE requests[q].required # 3 /\ votes[q] # {}
      <4>1. PICK v \in VoteType : cast[q] = {v.id} /\ v.id # vote.id
        BY <2>4, <3>4
      <4>2. cast'[q] = {v.id, vote.id}
        BY <2>3, <4>1
      <4>3. Cardinality(cast'[q]) = 2
        <5>1. Cardinality({v.id, vote.id}) = 2
          BY <4>1, OneOrTwo
        <5> QED
          BY <4>2, <5>1
      <4> QED
        BY <3>1, <3>4, <4>3 DEF Completes
    <3> QED
      BY <3>2, <3>3, <3>4
  <2>6. want.status = IF requests[q].required # 3 /\ Cardinality(cast'[q]) >= requests[q].required
                      THEN "approved" ELSE "pending_approval"
    BY <1>1, <1>5, <2>5
  <2>7. st' = [st EXCEPT ![q] =
                 IF /\ [p \in Requests |-> requests[p].required][q] # 3
                    /\ Cardinality(cast'[q]) >= [p \in Requests |-> requests[p].required][q]
                 THEN "approved" ELSE "pending_approval"]
    BY <1>1, <1>3, <2>6
  <2>8. st[q] = "pending_approval"
    BY <1>1
  <2>9. cast' = [cast EXCEPT ![q] = @ \union {vote.id}]
    <3> HIDE DEF cast
    <3> QED
      BY <2>3
  <2>10. Lifecycle!Approve(q)
    BY <1>3, <2>3, <2>7, <2>8, <2>9, SameCardinality DEF Lifecycle!Approve, Lifecycle!Move,
       Lifecycle!Complete, Lifecycle!Committee
  <2> QED
    BY <2>10 DEF Lifecycle!LifecycleNext
<1> QED
  BY <1>4, <1>5

LEMMA ExecutionStep ==
  ASSUME IInv, SInv, NEW o \in Ops, Executing(o), NEW q \in Requests, q = op[o].req
  PROVE  Lifecycle!LifecycleNext
<1>1. UNCHANGED votes
  BY OwnMoves
<1>2. PICK s \in Statuses :
        /\ \/ requests[q].status = "approved" /\ s \in {"executed", "failed"}
           \/ requests[q].status = "executed" /\ s = "rolled_back"
        /\ Moved(q, s)
  BY OwnMoves
<1>3. /\ [p \in Requests |-> requests'[p].status] =
           [[p \in Requests |-> requests[p].status] EXCEPT ![q] = s]
      /\ [p \in Requests |-> requests'[p].required] = [p \in Requests |-> requests[p].required]
  BY <1>1, <1>2 DEF Moved
<1>4. Lifecycle!Execute(q) \/ Lifecycle!Rollback(q)
  BY <1>1, <1>2, <1>3 DEF Lifecycle!Execute, Lifecycle!Rollback, Lifecycle!Move
<1> QED
  BY <1>4 DEF Lifecycle!LifecycleNext

LEMMA LifecycleStep ==
  IInv /\ SInv /\ VInv /\ [Next]_vars => Lifecycle!LifecycleNext \/ UNCHANGED LifecycleView
<1> SUFFICES ASSUME IInv, SInv, VInv, [Next]_vars
             PROVE  Lifecycle!LifecycleNext \/ UNCHANGED LifecycleView
  OBVIOUS
<1>1. UNCHANGED <<requests, votes>> => UNCHANGED LifecycleView
  BY DEF LifecycleView, StatusOf, RequiredOf, CastOf
<1>2. ASSUME NEW o \in Ops, OpStep(o) PROVE Lifecycle!LifecycleNext \/ UNCHANGED LifecycleView
  <2>1. CASE LoadRoa(o) \/ StaleRoa(o) \/ Audit(o)
    BY <1>1, <2>1 DEF LoadRoa, StaleRoa, Audit
  <2>2. CASE CommitApprove(o)
    BY <2>2, ApproveCounts, VoteStep
  <2>3. CASE Executing(o)
    BY <2>3, OwnMoves, ExecutionStep
  <2> QED
    BY <1>2, <2>1, <2>2, <2>3, SubmitStep DEF OpStep, Executing
<1>3. CASE \E o \in Ops, q \in Requests : BeginCall(o, q)
  BY <1>1, <1>3, BeginReads
<1>4. CASE GenerateVrps \/ Crash \/ UNCHANGED vars
  BY <1>1, <1>4 DEF GenerateVrps, Crash, vars
<1> QED
  BY <1>2, <1>3, <1>4 DEF Next

(* Where calls do not overlap, the workflow implements the lifecycle that the
   model documents, the committee's approvals apart: no state is skipped, and the
   record that completes the required number is the one that approves. *)
THEOREM ImplementsLifecycle == Spec /\ []OneAtATime => FollowsLifecycle
<1>1. Init => Lifecycle!LifecycleInit
  <2> SUFFICES ASSUME Init PROVE Lifecycle!LifecycleInit
    OBVIOUS
  <2>1. \A q \in Requests : Approving(votes[q]) = {}
    BY DEF Init, Approving
  <2> QED
    BY <2>1 DEF Init, NoRequest, Lifecycle!LifecycleInit
<1>2. IInv /\ SInv /\ VInv /\ [Next]_vars =>
        [Lifecycle!LifecycleNext]_(Lifecycle!lifecycleVars)
  BY LifecycleStep DEF LifecycleView, StatusOf, RequiredOf, CastOf, Lifecycle!lifecycleVars
<1> QED
  BY <1>1, <1>2, CountsInductive, PTL DEF Spec, FollowsLifecycle, Lifecycle!LifecycleSpec

(***************************************************************************)
(* Theorems about OriginValidation for addresses of any width and any      *)
(* spelling of the prefixes: what the platform says of an announcement is  *)
(* what the ROAs authorise and what the routers that hold its VRPs say.    *)
(*                                                                         *)
(* The platform looks a prefix up in the chain of an announcement's        *)
(* ancestors; RFC 6811 compares the leading bits of two addresses.  That   *)
(* both come to the same is a matter of division by powers of two          *)
(* (MaskKeeps, MaskSame), and only for a prefix without host bits.         *)
(***************************************************************************)
(* A power of two is positive: it counts the subsets of a set. *)
LEMMA PowerPositive == \A k \in Nat : 2^k \in Nat \ {0}
<1> SUFFICES ASSUME NEW k \in Nat PROVE 2^k \in Nat \ {0}
  OBVIOUS
<1>1. IsFiniteSet(1..k) /\ Cardinality(1..k) = k
  BY FS_Interval
<1>2. IsFiniteSet(SUBSET (1..k)) /\ Cardinality(SUBSET (1..k)) = 2^k
  BY <1>1, FS_SUBSET
<1>3. {} \in SUBSET (1..k)
  OBVIOUS
<1> QED
  BY <1>2, <1>3, FS_CardinalityType, FS_EmptySet

LEMMA Division ==
  ASSUME NEW a \in Nat, NEW p \in Nat \ {0}
  PROVE  /\ a \div p \in Nat /\ a % p \in 0 .. (p - 1)
         /\ a = p * (a \div p) + (a % p)
  OBVIOUS

LEMMA Multiple ==
  ASSUME NEW q \in Nat, NEW p \in Nat \ {0}
  PROVE  p * q \in Nat /\ (p * q) % p = 0 /\ (p * q) \div p = q
  OBVIOUS

(* Masking clears the last bits and keeps the first ones; doing it twice
   changes nothing more. *)
LEMMA MaskKeeps ==
  ASSUME NEW a \in Nat, NEW n \in 0..Width
  PROVE  /\ Masked(a, n) \in Nat
         /\ Masked(a, n) \div 2^(Width - n) = a \div 2^(Width - n)
         /\ Masked(Masked(a, n), n) = Masked(a, n)
<1> DEFINE p == 2^(Width - n)
           q == a \div p
<1>1. p \in Nat \ {0}
  BY PowerPositive, ValidationAssumption
<1>2. q \in Nat /\ a - (a % p) = p * q
  <2> HIDE DEF p
  <2>1. q \in Nat /\ a % p \in 0 .. (p - 1) /\ a = p * q + (a % p)
    BY <1>1, Division
  <2>2. p * q \in Nat
    BY <1>1, <2>1
  <2> HIDE DEF q
  <2> QED
    BY <1>1, <2>1, <2>2
<1>3. p * q \in Nat /\ (p * q) % p = 0 /\ (p * q) \div p = q
  <2> HIDE DEF p, q
  <2> QED
    BY <1>1, <1>2, Multiple
<1>4. Masked(a, n) = p * q
  BY <1>2 DEF Masked
<1>5. Masked(Masked(a, n), n) = p * q - ((p * q) % p)
  BY <1>4 DEF Masked
<1> HIDE DEF p, q
<1>6. p * q - ((p * q) % p) = p * q
  BY <1>3
<1> QED
  BY <1>3, <1>4, <1>5, <1>6 DEF p, q

(* An address without bits past n is determined by its first n bits. *)
LEMMA MaskSame ==
  ASSUME NEW a \in Nat, NEW b \in Nat, NEW n \in 0..Width,
         Masked(b, n) = b, a \div 2^(Width - n) = b \div 2^(Width - n)
  PROVE  b = Masked(a, n)
<1> DEFINE p == 2^(Width - n)
<1>1. p \in Nat \ {0}
  BY PowerPositive, ValidationAssumption
<1>2. Masked(a, n) = a - (a % p) /\ b - (b % p) = b /\ a \div p = b \div p
  BY DEF Masked
<1> HIDE DEF p
<1>3. a \div p \in Nat /\ a % p \in 0 .. (p - 1) /\ a = p * (a \div p) + (a % p)
  BY <1>1, Division
<1>4. b % p \in 0 .. (p - 1) /\ b = p * (b \div p) + (b % p)
  BY <1>1, Division
<1>5. p * (a \div p) \in Nat /\ p * (b \div p) = p * (a \div p)
  BY <1>1, <1>2, <1>3
<1> QED
  BY <1>1, <1>2, <1>3, <1>4, <1>5

LEMMA SpelledTyped ==
  ASSUME NEW s \in Spellings
  PROVE  s.addr \in Nat /\ s.len \in 0..Width /\ s = [addr |-> s.addr, len |-> s.len]
<1>1. 2^Width \in Nat
  BY PowerPositive, ValidationAssumption
<1> QED
  BY <1>1 DEF Spellings, Addresses

LEMMA NetworkTyped ==
  ASSUME NEW net \in Networks
  PROVE  net.addr \in Nat /\ net.len \in 0..Width
<1>1. PICK s \in Spellings : net = Network(s)
  BY DEF Networks
<1> QED
  BY <1>1, SpelledTyped, MaskKeeps DEF Network

(* A prefix without host bits is in the chain of an announcement's ancestors
   just when the announced address has its leading bits. *)
LEMMA ChainCovers ==
  ASSUME NEW s \in Spellings, NEW net \in Networks
  PROVE  /\ s \in CoveringPrefixes(net) =>
              s.len <= net.len /\ s = Network(s)
                /\ net.addr \div 2^(Width - s.len) = s.addr \div 2^(Width - s.len)
         /\ s = Network(s) /\ s.len <= net.len
              /\ net.addr \div 2^(Width - s.len) = s.addr \div 2^(Width - s.len)
            => s \in CoveringPrefixes(net)
<1>1. s.addr \in Nat /\ s.len \in 0..Width /\ net.addr \in Nat /\ net.len \in 0..Width
  BY SpelledTyped, NetworkTyped
<1>2. ASSUME s \in CoveringPrefixes(net)
      PROVE  s.len <= net.len /\ s = Network(s)
               /\ net.addr \div 2^(Width - s.len) = s.addr \div 2^(Width - s.len)
  <2>1. PICK n \in 0..net.len : s = [addr |-> Masked(net.addr, n), len |-> n]
    BY <1>2 DEF CoveringPrefixes
  <2>2. s.len = n /\ s.addr = Masked(net.addr, n) /\ n \in 0..Width /\ n <= net.len
    BY <1>1, <2>1, ValidationAssumption
  <2>3. /\ Masked(net.addr, n) \div 2^(Width - n) = net.addr \div 2^(Width - n)
        /\ Masked(Masked(net.addr, n), n) = Masked(net.addr, n)
    BY <1>1, <2>2, MaskKeeps
  <2> QED
    BY <2>1, <2>2, <2>3 DEF Network
<1>3. ASSUME s = Network(s), s.len <= net.len,
             net.addr \div 2^(Width - s.len) = s.addr \div 2^(Width - s.len)
      PROVE  s \in CoveringPrefixes(net)
  <2>1. Masked(s.addr, s.len) = s.addr
    BY <1>3 DEF Network
  <2>2. s.addr = Masked(net.addr, s.len)
    BY <1>1, <1>3, <2>1, MaskSame
  <2>3. s = [addr |-> Masked(net.addr, s.len), len |-> s.len]
    BY <2>2, SpelledTyped
  <2>4. s.len \in 0..net.len
    BY <1>1, <1>3
  <2> QED
    BY <2>3, <2>4 DEF CoveringPrefixes
<1> QED
  BY <1>2, <1>3

-----------------------------------------------------------------------------
(* A ROA, a VRP and what a call holds of a ROA have a prefix and an origin,
   whatever calls overlap: a request to create asks for both, a modification
   replaces a field by one that is there, and a flush keeps the fields it
   does not write. *)
Asked(row) == row.type = "create" => Whole(row.change)
CallWhole(o) ==
  InFlight(o) =>
    /\ Asked(op[o].want)
    /\ ~Kind(o, "create") => op[o].want.change = op[o].seen.change
    /\ op[o].roa # None => Whole(op[o].roa.content)
RequestsAsked == \A q \in Requests : requests[q].status # "none" => Asked(requests[q])
RoasWhole == \A r \in Roas : Exists(r) => Whole(roas[r].content)
VrpsWhole == \A r \in Roas : \A v \in vrps[r] : Whole(v.content)
WInv == RequestsAsked /\ RoasWhole /\ VrpsWhole /\ \A o \in Ops : CallWhole(o)

LEMMA InitWhole == Init => WInv
<1> SUFFICES ASSUME Init PROVE WInv
  OBVIOUS
<1>1. PICK S \in SUBSET Roas : \E c \in [S -> Contents] :
        /\ roas = [r \in Roas |-> IF r \in S THEN [content |-> c[r], status |-> "valid"]
                                  ELSE [content |-> NoFields, status |-> "unused"]]
        /\ vrps = [r \in Roas |-> IF r \in S THEN {[content |-> c[r], valid |-> TRUE]} ELSE {}]
  BY DEF Init
<1>2. PICK c \in [S -> Contents] :
        /\ roas = [r \in Roas |-> IF r \in S THEN [content |-> c[r], status |-> "valid"]
                                  ELSE [content |-> NoFields, status |-> "unused"]]
        /\ vrps = [r \in Roas |-> IF r \in S THEN {[content |-> c[r], valid |-> TRUE]} ELSE {}]
  BY <1>1
<1>3. \A r \in S : Whole(c[r])
  BY ChangeAssumption DEF Whole
<1>4. RoasWhole
  BY <1>2, <1>3 DEF RoasWhole, Exists
<1>5. VrpsWhole
  BY <1>2, <1>3 DEF VrpsWhole
<1> QED
  BY <1>4, <1>5 DEF Init, WInv, RequestsAsked, NoRequest, CallWhole, InFlight, Idle

(* Calls that do not step keep what they hold; one that ends holds nothing. *)
LEMMA EndWhole ==
  ASSUME IInv, WInv, NEW o \in Ops, Goto(o, "audit") \/ Finish(o)
  PROVE  \A p \in Ops : CallWhole(p)'
<1>1. ~InFlight(o)'
  BY EndsQuiet
<1>2. \A p \in Ops \ {o} : op'[p] = op[p]
  BY DEF IInv, TypeOK, Goto, Finish
<1>3. ASSUME NEW p \in Ops \ {o} PROVE CallWhole(p)'
  BY <1>2 DEF WInv, CallWhole, InFlight, Kind
<1> QED
  BY <1>1, <1>3 DEF CallWhole

(* A commit leaves what a request asks for. *)
LEMMA RowsAsked ==
  ASSUME IInv, WInv, NEW o \in Ops, InFlight(o), ~Kind(o, "create"),
         NEW w \in RequestType, w.change = op[o].want.change, w.type = op[o].want.type,
         NEW rows, rows = Committed(o, w)
  PROVE  \A q \in Requests : rows[q].status # "none" => Asked(rows[q])
<1> DEFINE c == op[o]
           now == requests[c.req]
           new == Flush(c.seen, w, now)
<1>1. /\ TypeOK /\ c.req \in Requests /\ now \in RequestType /\ c.seen \in RequestType
      /\ KnownOK(o)
  BY CallFacts DEF InFlight, At, TypeOK, CallOK, ApproveOK, ExecuteOK, RollbackOK, Kind, Calls
<1>2. c.want.change = c.seen.change /\ now.status # "none" /\ c.want.type = now.type /\ Asked(now)
  BY <1>1 DEF WInv, CallWhole, RequestsAsked, KnownOK, Fixed
<1>3. new.type = now.type /\ new.change = now.change
  BY <1>1, <1>2 DEF Flush, RequestType, KnownOK, Fixed
<1>4. rows[c.req] = new /\ \A q \in Requests \ {c.req} : rows[q] = requests[q]
  BY <1>1 DEF Committed, TypeOK
<1> HIDE DEF new
<1> QED
  BY <1>2, <1>3, <1>4 DEF WInv, RequestsAsked, Asked

LEMMA CommitCreateWhole == ASSUME IInv, WInv, NEW o \in Ops, CommitCreate(o) PROVE WInv'
<1>1. Asked(op[o].want) /\ op[o].req \in Requests /\ TypeOK
  BY CallFacts DEF CommitCreate, WInv, CallWhole, InFlight, At
<1>2. RequestsAsked'
  BY <1>1 DEF CommitCreate, WInv, RequestsAsked, TypeOK
<1>3. (\A p \in Ops : CallWhole(p)') /\ RoasWhole' /\ VrpsWhole'
  BY EndWhole DEF CommitCreate, WInv, RoasWhole, VrpsWhole, Exists
<1> QED
  BY <1>2, <1>3 DEF WInv

LEMMA RowWhole ==
  ASSUME IInv, WInv, NEW o \in Ops,
         CommitApprove(o) \/ CommitExecuteCreateFails(o) \/ CommitWithoutRoa(o)
  PROVE  WInv'
<1>1. InFlight(o) /\ ~Kind(o, "create") /\ op[o].want \in RequestType
  BY CallFacts DEF CommitApprove, CommitExecuteCreateFails, CommitWithoutRoa, InFlight, At, Kind
<1>2. PICK w \in RequestType :
        /\ w.change = op[o].want.change /\ w.type = op[o].want.type
        /\ requests' = Committed(o, w)
  <2>1. CASE CommitApprove(o) \/ CommitWithoutRoa(o)
    BY <1>1, <2>1 DEF CommitApprove, CommitWithoutRoa
  <2>2. CASE CommitExecuteCreateFails(o)
    <3> DEFINE w == [op[o].want EXCEPT !.status = "failed"]
    <3>1. w \in RequestType /\ w.change = op[o].want.change /\ w.type = op[o].want.type
      BY <1>1 DEF RequestType, Statuses
    <3> QED
      BY <2>2, <3>1 DEF CommitExecuteCreateFails
  <2> QED
    BY <2>1, <2>2
<1>3. RequestsAsked'
  BY <1>1, <1>2, RowsAsked DEF RequestsAsked
<1>4. (\A p \in Ops : CallWhole(p)') /\ RoasWhole' /\ VrpsWhole'
  BY EndWhole DEF CommitApprove, CommitExecuteCreateFails, CommitWithoutRoa, WInv, RoasWhole,
     VrpsWhole, Exists
<1> QED
  BY <1>3, <1>4 DEF WInv

LEMMA ExecuteCreateWhole == ASSUME IInv, WInv, NEW o \in Ops, CommitExecuteCreate(o) PROVE WInv'
<1> DEFINE new == op[o].seen.change
<1>1. /\ InFlight(o) /\ ~Kind(o, "create") /\ op[o].want \in RequestType /\ TypeOK
      /\ KnownOK(o)
  BY CallFacts DEF CommitExecuteCreate, InFlight, At, Kind, CallOK, ExecuteOK
<1>2. Whole(new)
  BY <1>1 DEF CommitExecuteCreate, WInv, CallWhole, Asked, KnownOK, Fixed
<1>3. PICK r \in Roas :
        /\ roas' = [roas EXCEPT ![r] = [content |-> new, status |-> "valid"]]
        /\ vrps' = [vrps EXCEPT ![r] = {[content |-> new, valid |-> TRUE]}]
        /\ requests' = Committed(o, [op[o].want EXCEPT !.roa = r])
  BY DEF CommitExecuteCreate
<1> DEFINE w == [op[o].want EXCEPT !.roa = r]
<1>4. w \in RequestType /\ w.change = op[o].want.change /\ w.type = op[o].want.type
  BY <1>1 DEF RequestType
<1>5. RequestsAsked'
  BY <1>1, <1>3, <1>4, RowsAsked DEF RequestsAsked
<1> HIDE DEF new
<1>6. RoasWhole' /\ VrpsWhole'
  BY <1>1, <1>2, <1>3 DEF WInv, RoasWhole, VrpsWhole, Exists, TypeOK
<1>7. \A p \in Ops : CallWhole(p)'
  BY EndWhole DEF CommitExecuteCreate
<1> QED
  BY <1>5, <1>6, <1>7 DEF WInv

(* What a call makes of a ROA or a VRP that has a prefix and an origin. *)
LEMMA ChangedWhole ==
  ASSUME IInv, WInv, NEW o \in Ops, CommitRoaChange(o)
  PROVE  /\ Whole(NewRoa(o).content) /\ op[o].roa \in RoaType /\ NewRoa(o) \in RoaType
         /\ \A r \in Roas : \A v \in vrps[r] : Whole(NewVrp(o, v).content)
<1>1. /\ op[o].roa \in RoaType /\ NewRoa(o) \in RoaType /\ Whole(op[o].roa.content)
      /\ op[o].seen.type \in {"modify", "revoke"} /\ op[o].kind \in {"execute", "rollback"}
      /\ TypeOK
  BY CallFacts, NewRoaType DEF CommitRoaChange, ChangesRoa, WInv, CallWhole, InFlight, At,
     RequestType, ChangeTypes
<1>2. NewRoa(o).content \in {op[o].roa.content, Merge(op[o].seen.change, op[o].roa.content),
                              Merge(op[o].seen.saved, op[o].roa.content)}
  BY <1>1 DEF NewRoa, RoaType, Kind
<1>3. Whole(NewRoa(o).content)
  BY <1>1, <1>2, MergeWhole
<1>4. ASSUME NEW r \in Roas, NEW v \in vrps[r]
      PROVE  NewVrp(o, v).content \in {v.content, Merge(op[o].seen.change, v.content),
                                       NewRoa(o).content}
  <2>1. v \in VrpType
    BY <1>1 DEF TypeOK
  <2> HIDE DEF NewRoa
  <2> QED
    BY <1>1, <2>1 DEF NewVrp, VrpType, Kind
<1>5. ASSUME NEW r \in Roas, NEW v \in vrps[r] PROVE Whole(NewVrp(o, v).content)
  <2>1. Whole(v.content)
    BY DEF WInv, VrpsWhole
  <2> QED
    BY <1>3, <1>4, <2>1, MergeWhole
<1> QED
  BY <1>1, <1>3, <1>5

LEMMA RoaChangeWhole == ASSUME IInv, WInv, NEW o \in Ops, CommitRoaChange(o) PROVE WInv'
<1> DEFINE r == op[o].seen.roa
           new == NewRoa(o)
           old == op[o].roa
<1>1. /\ InFlight(o) /\ ~Kind(o, "create") /\ op[o].want \in RequestType /\ TypeOK
      /\ r \in Roas /\ old \in RoaType /\ new \in RoaType /\ Whole(new.content)
  BY CallFacts, ChangedWhole DEF CommitRoaChange, ChangesRoa, InFlight, At, Kind, CallOK,
     RequestType
<1>2. RequestsAsked'
  BY <1>1, RowsAsked DEF RequestsAsked, CommitRoaChange
<1>3. /\ vrps'[r] = {NewVrp(o, v) : v \in vrps[r]}
      /\ \A x \in Roas \ {r} : vrps'[x] = vrps[x]
  BY <1>1 DEF CommitRoaChange, TypeOK
<1>4. VrpsWhole'
  BY <1>3, ChangedWhole DEF WInv, VrpsWhole
<1> HIDE DEF new, old
<1>5. RoasWhole'
  <2>1. CASE ~Exists(r)
    BY <2>1 DEF CommitRoaChange, WInv, RoasWhole, Exists
  <2>2. CASE Exists(r)
    <3> DEFINE content == Flush(old.content, new.content, roas[r].content)
    <3>1. roas'[r].content = content /\ \A x \in Roas \ {r} : roas'[x] = roas[x]
      BY <1>1, <2>2 DEF CommitRoaChange, FlushRoa, TypeOK, new, old
    <3>2. roas[r].content \in ContentType /\ Whole(roas[r].content)
      BY <1>1, <2>2 DEF WInv, RoasWhole, TypeOK, RoaType
    <3>3. Whole(content)
      BY <1>1, <3>2 DEF Flush, Whole, ContentType
    <3> QED
      BY <3>1, <3>3 DEF WInv, RoasWhole, Exists
  <2> QED
    BY <2>1, <2>2
<1>6. \A p \in Ops : CallWhole(p)'
  BY EndWhole DEF CommitRoaChange
<1> QED
  BY <1>2, <1>4, <1>5, <1>6 DEF WInv

LEMMA DeleteRoaWhole == ASSUME IInv, WInv, NEW o \in Ops, CommitDeleteRoa(o) PROVE WInv'
<1> DEFINE r == op[o].seen.roa
           flushed == Committed(o, op[o].want)
<1>1. /\ InFlight(o) /\ ~Kind(o, "create") /\ op[o].want \in RequestType /\ TypeOK
      /\ r \in Roas
  BY CallFacts DEF CommitDeleteRoa, InFlight, At, Kind, CallOK, RequestType
<1>2. flushed \in [Requests -> RequestType]
  BY <1>1, CommittedType
<1>3. \A q \in Requests : flushed[q].status # "none" => Asked(flushed[q])
  BY <1>1, RowsAsked
<1>4. requests' = [q \in Requests |-> IF flushed[q].roa = r
                                      THEN [flushed[q] EXCEPT !.roa = None] ELSE flushed[q]]
  BY DEF CommitDeleteRoa
<1> HIDE DEF flushed
<1>5. \A q \in Requests : /\ requests'[q].type = flushed[q].type
                          /\ requests'[q].status = flushed[q].status
                          /\ requests'[q].change = flushed[q].change
  BY <1>2, <1>4 DEF RequestType
<1>6. RequestsAsked'
  BY <1>3, <1>5 DEF RequestsAsked, Asked
<1>7. RoasWhole' /\ VrpsWhole'
  BY <1>1 DEF CommitDeleteRoa, WInv, RoasWhole, VrpsWhole, Exists, TypeOK
<1>8. \A p \in Ops : CallWhole(p)'
  BY EndWhole DEF CommitDeleteRoa
<1> QED
  BY <1>6, <1>7, <1>8 DEF WInv

LEMMA LoadRoaWhole == ASSUME IInv, WInv, NEW o \in Ops, LoadRoa(o) PROVE WInv'
<1> DEFINE c == op[o]
           found == c.seen.roa # None /\ Exists(c.seen.roa)
<1>1. /\ TypeOK /\ c \in CallType /\ InFlight(o) /\ c.kind \in {"execute", "rollback"}
      /\ c.seen \in RequestType /\ c.want \in RequestType
  BY CallFacts DEF LoadRoa, InFlight, At, CallOK
<1>2. PICK roa, status :
        /\ op' = [op EXCEPT ![o].pc = "commit", ![o].roa = roa, ![o].want.status = status]
        /\ roa # None => found /\ roa = roas[c.seen.roa]
  BY DEF LoadRoa
<1>3. roa # None => Whole(roa.content)
  BY <1>1, <1>2 DEF WInv, RoasWhole, RequestType
<1>4. /\ op'[o].roa = roa /\ op'[o].kind = c.kind /\ op'[o].seen = c.seen
      /\ op'[o].want = [c.want EXCEPT !.status = status]
      /\ \A p \in Ops \ {o} : op'[p] = op[p]
  BY <1>1, <1>2 DEF TypeOK, CallType
<1>5. op'[o].want.type = c.want.type /\ op'[o].want.change = c.want.change
  BY <1>1, <1>4 DEF RequestType
<1>6. CallWhole(o)'
  BY <1>1, <1>3, <1>4, <1>5 DEF WInv, CallWhole, Asked, Kind
<1>7. ASSUME NEW p \in Ops \ {o} PROVE CallWhole(p)'
  BY <1>4 DEF WInv, CallWhole, InFlight, Kind
<1>8. RequestsAsked' /\ RoasWhole' /\ VrpsWhole'
  BY DEF LoadRoa, WInv, RequestsAsked, RoasWhole, VrpsWhole, Exists
<1> QED
  BY <1>6, <1>7, <1>8 DEF WInv

LEMMA BeginWhole ==
  ASSUME IInv, WInv, NEW o \in Ops, NEW q \in Requests, BeginCall(o, q)
  PROVE  WInv'
<1>0. TypeOK /\ requests[q] \in RequestType
  BY DEF IInv, TypeOK
<1>1. RequestsAsked' /\ RoasWhole' /\ VrpsWhole'
  BY BeginReads DEF WInv, RequestsAsked, RoasWhole, VrpsWhole, Exists
<1>2. CallWhole(o)' /\ \A p \in Ops \ {o} : op'[p] = op[p]
  <2>1. CASE BeginCreate(o, q)
    <3>1. PICK type \in ChangeTypes, r \in Roas \union {None}, change \in ContentType,
               risk \in Risks, flow \in RuleTypes :
            /\ type = "create" => change["prefix"] # None /\ change["origin"] # None
            /\ Start(o, "create", q, "commit", NewRequest(type, r, change, risk, flow), None)
      BY <2>1, CreateFacts
    <3> DEFINE new == NewRequest(type, r, change, risk, flow)
    <3>2. new.type = type /\ new.change = change
      BY DEF NewRequest
    <3> HIDE DEF new
    <3>3. /\ op'[o].kind = "create" /\ op'[o].want = new /\ op'[o].roa = None
          /\ \A p \in Ops \ {o} : op'[p] = op[p]
      BY <1>0, <3>1, StartFields DEF new
    <3> QED
      BY <3>1, <3>2, <3>3 DEF CallWhole, Asked, Whole, Kind
  <2>2. CASE BeginApprove(o, q)
    <3>1. PICK vote \in VoteType, want \in RequestType :
            /\ want.type = requests[q].type /\ want.change = requests[q].change
            /\ requests[q].status # "none"
            /\ Start(o, "approve", q, "commit", want, vote)
      BY <1>0, <2>2, ApproveFacts DEF Fixed
    <3>2. /\ op'[o].want = want /\ op'[o].roa = None /\ op'[o].seen = requests[q]
          /\ \A p \in Ops \ {o} : op'[p] = op[p]
      BY <1>0, <3>1, StartFields
    <3> QED
      BY <3>1, <3>2 DEF WInv, RequestsAsked, CallWhole, Asked
  <2>3. CASE BeginExecute(o, q) \/ BeginRollback(o, q)
    <3>1. PICK k \in {"execute", "rollback"}, pc \in {"load", "commit"}, status \in Statuses :
            Start(o, k, q, pc, [requests[q] EXCEPT !.status = status], None)
      BY <2>3 DEF BeginExecute, BeginRollback, Statuses
    <3>2. requests[q].status # "none"
      BY <2>3 DEF BeginExecute, BeginRollback
    <3> DEFINE want == [requests[q] EXCEPT !.status = status]
    <3>3. want.type = requests[q].type /\ want.change = requests[q].change
      BY <1>0 DEF RequestType
    <3> HIDE DEF want
    <3>4. /\ op'[o].want = want /\ op'[o].roa = None /\ op'[o].seen = requests[q]
          /\ \A p \in Ops \ {o} : op'[p] = op[p]
      BY <1>0, <3>1, StartFields DEF want
    <3> QED
      BY <3>2, <3>3, <3>4 DEF WInv, RequestsAsked, CallWhole, Asked
  <2> QED
    BY <2>1, <2>2, <2>3 DEF BeginCall
<1>3. ASSUME NEW p \in Ops \ {o} PROVE CallWhole(p)'
  BY <1>2 DEF WInv, CallWhole, InFlight, Kind
<1> QED
  BY <1>1, <1>2, <1>3 DEF WInv

LEMMA EnvironmentWhole ==
  ASSUME IInv, WInv, GenerateVrps \/ Crash \/ UNCHANGED vars
  PROVE  WInv'
<1>1. CASE GenerateVrps
  <2>1. \A r \in Roas : vrps'[r] = IF roas[r].status = "valid"
                                   THEN {[content |-> roas[r].content, valid |-> TRUE]} ELSE {}
    BY <1>1 DEF GenerateVrps
  <2>2. ASSUME NEW r \in Roas, NEW v \in vrps'[r] PROVE Whole(v.content)
    <3>1. roas[r].status = "valid" /\ v = [content |-> roas[r].content, valid |-> TRUE]
      BY <2>1, <2>2
    <3> QED
      BY <3>1 DEF WInv, RoasWhole, Exists
  <2> QED
    BY <1>1, <2>2 DEF GenerateVrps, WInv, RequestsAsked, RoasWhole, VrpsWhole, Exists, CallWhole,
       InFlight, Kind
<1>2. CASE Crash
  BY <1>2 DEF Crash, WInv, RequestsAsked, RoasWhole, VrpsWhole, Exists, CallWhole, InFlight, Idle
<1>3. CASE UNCHANGED vars
  BY <1>3 DEF vars, WInv, RequestsAsked, RoasWhole, VrpsWhole, Exists, CallWhole, InFlight, Kind
<1> QED
  BY <1>1, <1>2, <1>3

LEMMA NextWhole == IInv /\ WInv /\ [Next]_vars => WInv'
<1> SUFFICES ASSUME IInv, WInv, [Next]_vars PROVE WInv'
  OBVIOUS
<1>1. ASSUME NEW o \in Ops, OpStep(o) PROVE WInv'
  <2>1. CASE StaleRoa(o) \/ Audit(o)
    BY <2>1, EndWhole DEF StaleRoa, Audit, WInv, RequestsAsked, RoasWhole, VrpsWhole, Exists
  <2> QED
    BY <1>1, <2>1, CommitCreateWhole, RowWhole, ExecuteCreateWhole, RoaChangeWhole,
       DeleteRoaWhole, LoadRoaWhole DEF OpStep
<1> QED
  BY <1>1, BeginWhole, EnvironmentWhole DEF Next

LEMMA AlwaysWhole == Spec => [](IInv /\ WInv)
<1> QED
  BY InitWhole, NextWhole, Inductive, PTL DEF Spec

-----------------------------------------------------------------------------
(* What a VRP of the table covers, by the chain of ancestors and by its bits. *)
Matches(v, ann) == Spelled[v.content["prefix"]] \in CoveringPrefixes(ann.prefix)

LEMMA MatchCovers ==
  ASSUME TypeOK, VrpsWhole, NEW v \in Table(vrps), NEW ann \in Announcements
  PROVE  /\ v \in VrpType /\ v.content["prefix"] \in Prefixes
         /\ Spelled[v.content["prefix"]] \in Spellings
         /\ Matches(v, ann) => Covers(v, ann)
         /\ Canonical(v) /\ Covers(v, ann) => Matches(v, ann)
<1> DEFINE s == Spelled[v.content["prefix"]]
           net == ann.prefix
<1>1. v \in VrpType /\ Whole(v.content)
  BY DEF TypeOK, VrpsWhole, Table
<1>2. v.content["prefix"] \in Prefixes
  BY <1>1 DEF VrpType, ContentType, Whole
<1>3. s \in Spellings /\ net \in Networks
  BY <1>2, ValidationAssumption DEF Announcements
<1> HIDE DEF s, net
<1>4. Matches(v, ann) <=> s \in CoveringPrefixes(net)
  BY DEF Matches, s, net
<1>5. Canonical(v) <=> s = Network(s)
  BY DEF Canonical, s
<1>6. Covers(v, ann) <=>
        /\ Network(s).len <= net.len
        /\ net.addr \div 2^(Width - Network(s).len) = Network(s).addr \div 2^(Width - Network(s).len)
  BY DEF Covers, s, net
<1> QED
  BY <1>1, <1>2, <1>3, <1>4, <1>5, <1>6, ChainCovers DEF s

(* The platform's answer, said without CASE. *)
LEMMA StatusMeans ==
  ASSUME NEW ann
  PROVE  /\ Status(ann) = "valid" <=>
              \E v \in Table(vrps) : /\ Matches(v, ann) /\ v.valid
                                     /\ v.content["origin"] = ann.origin
                                     /\ ann.prefix.len <= EffectiveMax(v)
         /\ Status(ann) = "not_found" => \A v \in Table(vrps) : ~Matches(v, ann)
<1> DEFINE matched == {v \in Table(vrps) : Matches(v, ann)}
           authorised == \E v \in {x \in {y \in matched : y.valid} : x.content["origin"] = ann.origin} :
                           ann.prefix.len <= EffectiveMax(v)
<1>1. Status(ann) = CASE matched = {} -> "not_found" [] authorised -> "valid" [] OTHER -> "invalid"
  BY DEF Status, Validate, Matches
<1>2. authorised => matched # {}
  OBVIOUS
<1>3. authorised <=> \E v \in Table(vrps) : /\ Matches(v, ann) /\ v.valid
                                            /\ v.content["origin"] = ann.origin
                                            /\ ann.prefix.len <= EffectiveMax(v)
  OBVIOUS
<1>4. matched = {} => \A v \in Table(vrps) : ~Matches(v, ann)
  OBVIOUS
<1> HIDE DEF matched, authorised
<1>5. /\ Status(ann) = "valid" <=> authorised
      /\ Status(ann) = "not_found" => matched = {}
  BY <1>1, <1>2
<1> QED
  BY <1>3, <1>4, <1>5

LEMMA RouterMeans ==
  ASSUME NEW ann
  PROVE  /\ Rfc6811(Published, ann) = "valid" <=>
              \E v \in Table(vrps) : /\ v.valid /\ Covers(v, ann)
                                     /\ v.content["origin"] = ann.origin
                                     /\ ann.prefix.len <= MaxOf(v)
         /\ (\A v \in Table(vrps) : v.valid => ~Covers(v, ann)) =>
              Rfc6811(Published, ann) = "not_found"
<1> DEFINE covering == {v \in Published : Covers(v, ann)}
           authorised == \E v \in covering : v.content["origin"] = ann.origin
                                            /\ ann.prefix.len <= MaxOf(v)
<1>1. Rfc6811(Published, ann) =
        CASE covering = {} -> "not_found" [] authorised -> "valid" [] OTHER -> "invalid"
  BY DEF Rfc6811
<1>2. authorised => covering # {}
  OBVIOUS
<1>3. authorised <=> \E v \in Table(vrps) : /\ v.valid /\ Covers(v, ann)
                                            /\ v.content["origin"] = ann.origin
                                            /\ ann.prefix.len <= MaxOf(v)
  BY DEF Published
<1>4. (\A v \in Table(vrps) : v.valid => ~Covers(v, ann)) => covering = {}
  BY DEF Published
<1> HIDE DEF covering, authorised
<1>5. /\ Rfc6811(Published, ann) = "valid" <=> authorised
      /\ covering = {} => Rfc6811(Published, ann) = "not_found"
  BY <1>1, <1>2
<1> QED
  BY <1>3, <1>4, <1>5

(* For a VRP that a PDU can express, None and 0 and the length are one. *)
LEMMA SameMaximum ==
  ASSUME NEW v \in VrpType, Spelled[v.content["prefix"]] \in Spellings, Encodable(v)
  PROVE  EffectiveMax(v) = MaxOf(v)
<1> DEFINE length == Spelled[v.content["prefix"]].len
           max == v.content["max"]
<1>1. length \in Nat /\ max \in Lengths \union {None} /\ Lengths \subseteq Nat
  BY SpelledTyped, ValidationAssumption DEF VrpType, ContentType
<1>2. EffectiveMax(v) = IF max \in {None, 0} THEN length ELSE max
  BY DEF EffectiveMax
<1>3. MaxOf(v) = (IF max = None THEN length ELSE max) /\ MaxOf(v) >= length
  BY DEF MaxOf, Encodable
<1> HIDE DEF length, max
<1> QED
  BY <1>1, <1>2, <1>3

(* Whatever calls overlap and however the table is rebuilt: while every VRP can
   be sent, the platform and the routers that hold its VRPs say valid of the
   same announcements, and the platform says not_found of none that they drop. *)
THEOREM AlwaysAgreesWithRouters == Spec => []AgreesWithRouters
<1>1. IInv /\ WInv => AgreesWithRouters
  <2> SUFFICES ASSUME TypeOK, VrpsWhole, \A v \in Table(vrps) : Encodable(v),
                      NEW ann \in Announcements
               PROVE  /\ Status(ann) = "valid" <=> Rfc6811(Published, ann) = "valid"
                      /\ Status(ann) = "not_found" => Rfc6811(Published, ann) = "not_found"
    BY DEF IInv, WInv, AgreesWithRouters
  <2>1. \A v \in Table(vrps) : /\ Matches(v, ann) <=> Covers(v, ann)
                               /\ EffectiveMax(v) = MaxOf(v)
    BY MatchCovers, SameMaximum DEF Encodable
  <2> QED
    BY <2>1, StatusMeans, RouterMeans
<1> QED
  BY <1>1, AlwaysWhole, PTL

(* Where calls do not overlap, nothing is valid without a valid ROA that
   authorises it: no VRP outlives what its ROA says. *)
THEOREM AlwaysAuthorizedOnly == Spec /\ []OneAtATime => []AuthorizedOnly
<1>1. IInv /\ WInv /\ VrpsFollowRoa => AuthorizedOnly
  <2> SUFFICES ASSUME TypeOK, VrpsWhole, VrpsFollowRoa, NEW ann \in Announcements,
                      Status(ann) = "valid"
               PROVE  \E r \in Roas :
                        LET v == [content |-> roas[r].content, valid |-> TRUE]
                        IN  /\ roas[r].status = "valid"
                            /\ Covers(v, ann) /\ v.content["origin"] = ann.origin
                            /\ ann.prefix.len <= EffectiveMax(v)
    BY DEF IInv, WInv, AuthorizedOnly
  <2>1. PICK v \in Table(vrps) : /\ Matches(v, ann) /\ v.valid
                                 /\ v.content["origin"] = ann.origin
                                 /\ ann.prefix.len <= EffectiveMax(v)
    BY StatusMeans
  <2>2. PICK r \in Roas : v \in vrps[r]
    BY DEF Table
  <2>3. v.content = roas[r].content /\ roas[r].status = "valid" /\ v \in VrpType
    BY <2>1, <2>2 DEF VrpsFollowRoa, TypeOK
  <2>4. v = [content |-> roas[r].content, valid |-> TRUE]
    BY <2>1, <2>3 DEF VrpType
  <2>5. Covers(v, ann)
    BY <2>1, MatchCovers
  <2> QED
    BY <2>1, <2>3, <2>4, <2>5
<1> QED
  BY <1>1, AlwaysWhole, VrpsAlwaysFollow, PTL

-----------------------------------------------------------------------------
(* The forecast of rov_simulation_service.  An execution that succeeds commits
   a ROA: a call that found none, or a prefix that does not parse, has failed,
   and an id that was never used has no VRPs yet. *)
FailsWithoutRoa(o) ==
  At(o, "commit") /\ Kind(o, "execute") /\ op[o].seen.type # "create" /\ op[o].roa = None
    => op[o].want.status = "failed"
UnusedEmpty == \A r \in Roas : roas[r].status = "unused" => vrps[r] = {}
FInv == UnusedEmpty /\ \A o \in Ops : FailsWithoutRoa(o)

LEMMA InitFails == Init => FInv
<1> SUFFICES ASSUME Init PROVE FInv
  OBVIOUS
<1>1. PICK S \in SUBSET Roas : \E c \in [S -> Contents] :
        /\ roas = [r \in Roas |-> IF r \in S THEN [content |-> c[r], status |-> "valid"]
                                  ELSE [content |-> NoFields, status |-> "unused"]]
        /\ vrps = [r \in Roas |-> IF r \in S THEN {[content |-> c[r], valid |-> TRUE]} ELSE {}]
  BY DEF Init
<1>2. UnusedEmpty
  BY <1>1 DEF UnusedEmpty
<1> QED
  BY <1>2 DEF Init, FInv, FailsWithoutRoa, At, Idle

LEMMA EndFails ==
  ASSUME IInv, FInv, NEW o \in Ops, Goto(o, "audit") \/ Finish(o)
  PROVE  \A p \in Ops : FailsWithoutRoa(p)'
<1>1. ~InFlight(o)'
  BY EndsQuiet
<1>2. \A p \in Ops \ {o} : op'[p] = op[p]
  BY DEF IInv, TypeOK, Goto, Finish
<1>3. ASSUME NEW p \in Ops \ {o} PROVE FailsWithoutRoa(p)'
  BY <1>2 DEF FInv, FailsWithoutRoa, At, Kind
<1> QED
  BY <1>1, <1>3 DEF FailsWithoutRoa, InFlight, At

LEMMA RoaChangeUnused == ASSUME IInv, FInv, NEW o \in Ops, CommitRoaChange(o) PROVE UnusedEmpty'
<1> DEFINE r == op[o].seen.roa
           new == NewRoa(o)
           old == op[o].roa
<1>1. /\ TypeOK /\ r \in Roas /\ old \in RoaType /\ op[o].seen.type \in {"modify", "revoke"}
      /\ op[o].kind \in {"execute", "rollback"}
  BY CallFacts, NewRoaType DEF CommitRoaChange, ChangesRoa, CallOK, RequestType, ChangeTypes
<1>2. new.status = CASE op[o].seen.type = "modify" -> old.status
                     [] op[o].seen.type = "revoke" /\ Kind(o, "execute") -> "revoked"
                     [] op[o].seen.type = "revoke" /\ Kind(o, "rollback") -> "valid"
  BY <1>1 DEF NewRoa, RoaType, Kind
<1>3. new.status = old.status \/ new.status \in {"valid", "revoked"}
  BY <1>1, <1>2 DEF Kind
<1>4. /\ vrps'[r] = {NewVrp(o, v) : v \in vrps[r]}
      /\ \A x \in Roas \ {r} : vrps'[x] = vrps[x]
  BY <1>1 DEF CommitRoaChange, TypeOK
<1> HIDE DEF new, old
<1>5. \A x \in Roas : roas'[x].status = "unused" => roas[x].status = "unused"
  <2>1. CASE ~Exists(r)
    BY <2>1 DEF CommitRoaChange
  <2>2. CASE Exists(r)
    <3>1. /\ roas'[r].status = IF new.status # old.status THEN new.status ELSE roas[r].status
          /\ \A x \in Roas \ {r} : roas'[x] = roas[x]
      BY <1>1, <2>2 DEF CommitRoaChange, FlushRoa, TypeOK, new, old
    <3> QED
      BY <1>3, <3>1
  <2> QED
    BY <2>1, <2>2
<1> QED
  BY <1>4, <1>5 DEF FInv, UnusedEmpty

LEMMA LoadRoaFails == ASSUME IInv, FInv, NEW o \in Ops, LoadRoa(o) PROVE FInv'
<1> DEFINE c == op[o]
           found == c.seen.roa # None /\ Exists(c.seen.roa)
           fails == Kind(o, "execute") /\ (~found \/ c.seen.change["prefix"] \in Unparsable)
           roa == IF found /\ ~fails THEN roas[c.seen.roa] ELSE None
           status == IF fails THEN "failed" ELSE c.want.status
<1>1. TypeOK /\ c \in CallType /\ c.want \in RequestType /\ c.seen \in RequestType
  BY CallFacts
<1>2. op' = [op EXCEPT ![o].pc = "commit", ![o].roa = roa, ![o].want.status = status]
  BY DEF LoadRoa
<1>3. found => roas[c.seen.roa] # None
  BY <1>1, ChangeAssumption DEF TypeOK, RequestType, RoaType
<1>4. Kind(o, "execute") /\ roa = None => status = "failed"
  BY <1>3
<1> HIDE DEF roa, status
<1>5. /\ op'[o].roa = roa /\ op'[o].kind = c.kind /\ op'[o].want.status = status
      /\ \A p \in Ops \ {o} : op'[p] = op[p]
  BY <1>1, <1>2 DEF TypeOK, CallType, RequestType
<1>6. FailsWithoutRoa(o)'
  BY <1>4, <1>5 DEF FailsWithoutRoa, Kind
<1>7. ASSUME NEW p \in Ops \ {o} PROVE FailsWithoutRoa(p)'
  BY <1>5 DEF FInv, FailsWithoutRoa, At, Kind
<1> QED
  BY <1>6, <1>7 DEF LoadRoa, FInv, UnusedEmpty

LEMMA BeginFails ==
  ASSUME IInv, FInv, NEW o \in Ops, NEW q \in Requests, BeginCall(o, q)
  PROVE  FInv'
<1>0. TypeOK /\ requests[q] \in RequestType
  BY DEF IInv, TypeOK
<1>1. PICK k, pc, want, vote :
        /\ Start(o, k, q, pc, want, vote)
        /\ k = "execute" => pc = IF requests[q].type = "create" THEN "commit" ELSE "load"
  <2>1. CASE BeginCreate(o, q)
    BY <2>1, CreateFacts
  <2>2. CASE BeginApprove(o, q)
    <3>1. PICK vote, want : Start(o, "approve", q, "commit", want, vote)
      BY <1>0, <2>2, ApproveFacts
    <3> QED
      BY <3>1
  <2>3. CASE BeginExecute(o, q) \/ BeginRollback(o, q)
    BY <2>3 DEF BeginExecute, BeginRollback
  <2> QED
    BY <2>1, <2>2, <2>3 DEF BeginCall
<1>2. /\ op'[o].kind = k /\ op'[o].pc = pc /\ op'[o].seen = requests[q]
      /\ \A p \in Ops \ {o} : op'[p] = op[p]
  BY <1>0, <1>1, StartFields
<1>3. FailsWithoutRoa(o)'
  BY <1>1, <1>2 DEF FailsWithoutRoa, At, Kind
<1>4. ASSUME NEW p \in Ops \ {o} PROVE FailsWithoutRoa(p)'
  BY <1>2 DEF FInv, FailsWithoutRoa, At, Kind
<1>5. UnusedEmpty'
  BY BeginReads DEF FInv, UnusedEmpty
<1> QED
  BY <1>3, <1>4, <1>5 DEF FInv

LEMMA NextFails == IInv /\ FInv /\ [Next]_vars => FInv'
<1> SUFFICES ASSUME IInv, FInv, [Next]_vars PROVE FInv'
  OBVIOUS
<1>1. ASSUME NEW o \in Ops, OpStep(o) PROVE FInv'
  <2>0. TypeOK
    BY CallFacts
  <2>1. CASE CommitCreate(o) \/ CommitApprove(o) \/ CommitExecuteCreateFails(o) \/ StaleRoa(o)
             \/ CommitWithoutRoa(o) \/ Audit(o)
    <3>1. (Goto(o, "audit") \/ Finish(o)) /\ UNCHANGED <<roas, vrps>>
      BY <2>1 DEF CommitCreate, CommitApprove, CommitExecuteCreateFails, StaleRoa,
         CommitWithoutRoa, Audit
    <3> QED
      BY <3>1, EndFails DEF FInv, UnusedEmpty
  <2>2. CASE CommitExecuteCreate(o)
    BY <2>0, <2>2, EndFails DEF CommitExecuteCreate, FInv, UnusedEmpty, TypeOK
  <2>3. CASE CommitRoaChange(o)
    BY <2>3, EndFails, RoaChangeUnused DEF CommitRoaChange, FInv
  <2>4. CASE CommitDeleteRoa(o)
    <3>1. UnusedEmpty'
      BY <2>0, <2>4 DEF CommitDeleteRoa, FInv, UnusedEmpty, TypeOK
    <3> QED
      BY <2>4, <3>1, EndFails DEF CommitDeleteRoa, FInv
  <2>5. CASE LoadRoa(o)
    BY <2>5, LoadRoaFails
  <2> QED
    BY <1>1, <2>1, <2>2, <2>3, <2>4, <2>5 DEF OpStep
<1>2. CASE GenerateVrps
  <2>1. UnusedEmpty'
    BY <1>2 DEF GenerateVrps, UnusedEmpty
  <2> QED
    BY <1>2, <2>1 DEF GenerateVrps, FInv, FailsWithoutRoa, At, Kind
<1>3. CASE Crash
  BY <1>3 DEF Crash, FInv, UnusedEmpty, FailsWithoutRoa, At, Idle
<1>4. CASE UNCHANGED vars
  BY <1>4 DEF vars, FInv, UnusedEmpty, FailsWithoutRoa, At, Kind
<1> QED
  BY <1>1, <1>2, <1>3, <1>4, BeginFails DEF Next

LEMMA AlwaysFails == Spec => [](IInv /\ FInv)
<1> QED
  BY InitFails, NextFails, Inductive, PTL DEF Spec

(* Only the commit of an execution with its ROA makes a request executed. *)
LEMMA ExecutedBy ==
  ASSUME IInv, SInv, FInv, [Next]_vars, NEW q \in Requests, Executes(q)
  PROVE  \E o \in Ops :
           /\ op[o].req = q /\ op[o].seen = requests[q] /\ Kind(o, "execute") /\ At(o, "commit")
           /\ CommitExecuteCreate(o) \/ CommitRoaChange(o)
<1>1. PICK o \in Ops : OpStep(o)
  <2>1. CASE \E o \in Ops, p \in Requests : BeginCall(o, p)
    BY <2>1, BeginReads DEF Executes
  <2> QED
    BY <2>1 DEF Next, GenerateVrps, Crash, vars, Executes
<1>2. requests \in [Requests -> RequestType] /\ op[o].want \in RequestType
  BY CallFacts DEF TypeOK
<1>3. Executing(o)
  <2>1. CASE CommitCreate(o)
    <3>1. CreateOK(o) /\ op[o].req \in Requests
      BY <2>1, CallFacts DEF CommitCreate, CallOK, InFlight, At
    <3> QED
      BY <1>2, <2>1, <3>1 DEF CommitCreate, CreateOK, Executes
  <2>2. CASE CommitApprove(o)
    <3>1. /\ op[o].req \in Requests /\ op[o].want.status # "executed"
          /\ requests' = [requests EXCEPT ![op[o].req] = op[o].want]
      BY <1>2, <2>2, CallFacts, OwnRow, OwnCommit DEF CommitApprove, CallOK, ApproveOK, InFlight, At,
         Kind
    <3> QED
      BY <1>2, <3>1 DEF Executes
  <2>3. CASE LoadRoa(o) \/ StaleRoa(o) \/ Audit(o)
    BY <2>3 DEF LoadRoa, StaleRoa, Audit, Executes
  <2> QED
    BY <1>1, <2>1, <2>2, <2>3 DEF OpStep, Executing
<1>4. q = op[o].req /\ Kind(o, "execute") /\ At(o, "commit")
  BY <1>3, OwnMoves, ExecutionMoves DEF Moved, Executes
<1>5. op[o].seen = requests[q]
  BY <1>4, OwnRow DEF Kind
<1>6. ~CommitExecuteCreateFails(o)
  <2> SUFFICES ASSUME CommitExecuteCreateFails(o) PROVE FALSE
    OBVIOUS
  <2> DEFINE w == [op[o].want EXCEPT !.status = "failed"]
  <2>1. w \in RequestType /\ w.status = "failed"
    BY <1>2 DEF RequestType, Statuses
  <2>2. requests' = Committed(o, w)
    BY DEF CommitExecuteCreateFails
  <2> HIDE DEF w
  <2>3. requests' = [requests EXCEPT ![q] = w]
    BY <1>4, <2>1, <2>2, OwnCommit DEF InFlight, At, Kind
  <2> QED
    BY <1>2, <2>1, <2>3 DEF Executes
<1>7. ~CommitWithoutRoa(o)
  <2> SUFFICES ASSUME CommitWithoutRoa(o) PROVE FALSE
    OBVIOUS
  <2>1. op[o].want.status = "failed"
    BY <1>4 DEF FInv, FailsWithoutRoa, CommitWithoutRoa
  <2>2. requests' = [requests EXCEPT ![q] = op[o].want]
    BY <1>2, <1>4, OwnCommit DEF InFlight, At, Kind, CommitWithoutRoa
  <2> QED
    BY <1>2, <2>1, <2>2 DEF Executes
<1>8. ~CommitDeleteRoa(o)
  BY <1>4 DEF CommitDeleteRoa, Kind
<1> QED
  BY <1>3, <1>4, <1>5, <1>6, <1>7, <1>8 DEF Executing

-----------------------------------------------------------------------------
(* Two tables give an announcement the same status when what matches it in the
   one has its like in the other. *)
Like(v, w, ann) ==
  /\ Matches(w, ann) /\ w.valid = v.valid /\ w.content["origin"] = v.content["origin"]
  /\ EffectiveMax(w) = EffectiveMax(v)
Follows(T, U, ann) == \A v \in T : Matches(v, ann) => \E w \in U : Like(v, w, ann)

LEMMA ValidateSame ==
  ASSUME NEW T, NEW U, NEW ann, Follows(T, U, ann), Follows(U, T, ann)
  PROVE  Validate(T, ann) = Validate(U, ann)
<1> DEFINE matched(X) == {v \in X : Matches(v, ann)}
           authorised(X) ==
             \E v \in {x \in {y \in matched(X) : y.valid} : x.content["origin"] = ann.origin} :
               ann.prefix.len <= EffectiveMax(v)
<1>1. ASSUME NEW X
      PROVE  Validate(X, ann) = CASE matched(X) = {} -> "not_found"
                                  [] authorised(X) -> "valid" [] OTHER -> "invalid"
  BY DEF Validate, Matches
<1>2. ASSUME NEW X, NEW Y, Follows(X, Y, ann)
      PROVE  (matched(Y) = {} => matched(X) = {}) /\ (authorised(X) => authorised(Y))
  BY <1>2 DEF Follows, Like
<1>3. ASSUME NEW X PROVE authorised(X) => matched(X) # {}
  OBVIOUS
<1> HIDE DEF matched, authorised
<1>4. (matched(T) = {} <=> matched(U) = {}) /\ (authorised(T) <=> authorised(U))
  BY <1>2
<1> QED
  BY <1>1, <1>3, <1>4

(* The VRP that the simulation draws is like the one that an execution writes,
   for a prefix of the length it takes and a max_length not below it. *)
LEMMA DrawnLike ==
  ASSUME NEW asked \in ContentType, NEW old \in ContentType, NEW ann,
         LET new == Merge(asked, old)
             length == Spelled[IF old["prefix"] # None THEN old["prefix"] ELSE new["prefix"]].len
         IN  /\ new["prefix"] \in Prefixes
             /\ Spelled[new["prefix"]].len = length
             /\ new["max"] = None \/ new["max"] >= length,
         NEW v, v = [content |-> Merge(asked, old), valid |-> TRUE]
  PROVE  /\ Matches(v, ann) => Like(v, SimulatedVrp(asked, old), ann)
         /\ Matches(SimulatedVrp(asked, old), ann) => Like(SimulatedVrp(asked, old), v, ann)
<1> DEFINE new == Merge(asked, old)
           length == Spelled[IF old["prefix"] # None THEN old["prefix"] ELSE new["prefix"]].len
           drawn == SimulatedVrp(asked, old)
           max == SimulatedMax(asked, old, length)
<1>1. /\ new \in ContentType /\ Spelled[new["prefix"]].len = length
      /\ Spelled[new["prefix"]] \in Spellings
      /\ new["max"] = None \/ new["max"] >= length
  BY MergeType, ValidationAssumption
<1>2. length \in Nat
  BY <1>1, SpelledTyped
<1>3. max = IF new["max"] # None THEN new["max"] ELSE length
  <2>1. new["max"] # None => new["max"] \in Nat
    BY <1>1, ValidationAssumption DEF ContentType
  <2> HIDE DEF length
  <2> QED
    BY <1>1, <1>2, <2>1 DEF SimulatedMax
<1>4. drawn = [content |-> [new EXCEPT !["max"] = max], valid |-> TRUE]
  BY DEF SimulatedVrp
<1> HIDE DEF max
<1>5. /\ drawn.content["prefix"] = new["prefix"] /\ drawn.content["origin"] = new["origin"]
      /\ drawn.content["max"] = max /\ drawn.valid = TRUE
  BY <1>1, <1>4 DEF ContentType
<1>6. v.content = new /\ v.valid = TRUE
  OBVIOUS
<1> HIDE DEF new, length, drawn
<1>7. EffectiveMax(v) = IF new["max"] \in {None, 0} THEN length ELSE new["max"]
  BY <1>1, <1>6 DEF EffectiveMax
<1>8. EffectiveMax(drawn) = IF max \in {None, 0} THEN length ELSE max
  BY <1>1, <1>5 DEF EffectiveMax
<1>9. EffectiveMax(drawn) = EffectiveMax(v)
  BY <1>1, <1>2, <1>3, <1>7, <1>8
<1> QED
  BY <1>5, <1>6, <1>9 DEF Like, Matches, drawn

(* A prefix within the ranges that the simulation examines matches only what it
   examines. *)
LEMMA MatchAffects ==
  ASSUME NEW req, NEW ann \in Announcements, NEW v,
         v.content["prefix"] \in PrefixRanges(req), v.content["prefix"] \in Prefixes,
         Matches(v, ann)
  PROVE  ann \in Affected(req)
<1> DEFINE p == v.content["prefix"]
           s == Spelled[p]
           net == ann.prefix
<1>1. s \in Spellings /\ net \in Networks
  BY ValidationAssumption DEF Announcements
<1>2. s \in CoveringPrefixes(net)
  BY DEF Matches
<1> HIDE DEF s, net
<1>3. s.len <= net.len /\ s = Network(s)
  BY <1>1, <1>2, ChainCovers
<1>4. Masked(net.addr, s.len) = s.addr
  <2>1. PICK n \in 0..net.len : s = [addr |-> Masked(net.addr, n), len |-> n]
    BY <1>2 DEF CoveringPrefixes
  <2> QED
    BY <2>1
<1>5. Network(Spelled[p]).len <= net.len /\ Masked(net.addr, Network(Spelled[p]).len) = Network(Spelled[p]).addr
  BY <1>3, <1>4 DEF s
<1> QED
  BY <1>5 DEF Affected, net

(* What an execution does to the table of VRPs, next to what was drawn. *)
LEMMA CreationEffect ==
  ASSUME IInv, SInv, FInv, NEW o \in Ops, CommitExecuteCreate(o), op[o].seen = requests[op[o].req]
  PROVE  LET req == requests[op[o].req]
             new == [content |-> req.change, valid |-> TRUE]
         IN  /\ req.type = "create" /\ req.change \in ContentType /\ Whole(req.change)
             /\ Table(vrps') = Table(vrps) \union {new}
<1> DEFINE req == requests[op[o].req]
           new == [content |-> req.change, valid |-> TRUE]
<1>1. PICK r \in Roas :
        /\ roas[r].status = "unused"
        /\ vrps' = [vrps EXCEPT ![r] = {new}]
  BY DEF CommitExecuteCreate
<1>2. /\ TypeOK /\ req.type = "create" /\ req \in RequestType /\ Whole(req.change)
  BY CallFacts, OwnRow DEF CommitExecuteCreate, Kind, Sound
<1>3. vrps[r] = {}
  BY <1>1 DEF FInv, UnusedEmpty
<1> HIDE DEF req, new
<1>4. vrps'[r] = {new} /\ \A x \in Roas \ {r} : vrps'[x] = vrps[x]
  BY <1>1, <1>2 DEF TypeOK
<1>5. Table(vrps') = Table(vrps) \union {new}
  BY <1>3, <1>4 DEF Table
<1> QED
  BY <1>2, <1>5 DEF req, new, RequestType

LEMMA ChangeEffect ==
  ASSUME IInv, SInv, NEW o \in Ops, CommitRoaChange(o), Kind(o, "execute"),
         op[o].seen = requests[op[o].req]
  PROVE  LET req == requests[op[o].req]
             r == req.roa
             old == roas[r].content
         IN  /\ req.type \in {"modify", "revoke"} /\ req.change \in ContentType
             /\ r \in Roas /\ old \in ContentType /\ Whole(old)
             /\ \A v \in vrps[r] : v \in VrpType /\ v.content = old /\ (v.valid <=> roas[r].status = "valid")
             /\ \A x \in Roas \ {r} : vrps'[x] = vrps[x]
             /\ vrps'[r] = {NewVrp(o, v) : v \in vrps[r]}
             /\ \A v \in vrps[r] :
                  /\ NewVrp(o, v) \in VrpType /\ NewVrp(o, v).content \in {old, Merge(req.change, old)}
                  /\ req.type = "modify" => /\ NewVrp(o, v).content = Merge(req.change, old)
                                            /\ NewVrp(o, v).valid = v.valid
<1> DEFINE req == requests[op[o].req]
           r == req.roa
           old == roas[r].content
<1>1. /\ TypeOK /\ req.type \in {"modify", "revoke"} /\ req \in RequestType /\ r \in Roas
      /\ Exists(r)
  BY CallFacts, RoaChanged DEF CommitRoaChange, ChangesRoa, RequestType, ChangeTypes
<1>2. old \in ContentType /\ Whole(old)
  BY <1>1 DEF TypeOK, RoaType, SInv, DataOK
<1>3. ASSUME NEW v \in vrps[r]
      PROVE  v \in VrpType /\ v.content = old /\ (v.valid <=> roas[r].status = "valid")
  BY <1>1 DEF TypeOK, SInv, VrpsFollowRoa
<1>4. /\ vrps'[r] = {NewVrp(o, v) : v \in vrps[r]}
      /\ \A x \in Roas \ {r} : vrps'[x] = vrps[x]
  BY <1>1 DEF CommitRoaChange, TypeOK
<1>5. ASSUME NEW v \in vrps[r]
      PROVE  /\ NewVrp(o, v).content \in {old, Merge(req.change, old)}
             /\ req.type = "modify" => /\ NewVrp(o, v).content = Merge(req.change, old)
                                       /\ NewVrp(o, v).valid = v.valid
             /\ NewVrp(o, v) \in VrpType
  <2>1. v \in VrpType /\ v.content = old
    BY <1>3
  <2>2. NewVrp(o, v) \in VrpType
    BY <2>1, NewRoaType DEF CommitRoaChange
  <2>3. CASE req.type = "modify"
    <3>1. NewVrp(o, v) = [v EXCEPT !.content = Merge(req.change, v.content)]
      <4>1. op[o].seen.type = "modify" /\ op[o].seen.change = req.change
        BY <2>3
      <4> HIDE DEF req
      <4> QED
        BY <4>1 DEF NewVrp, Kind
    <3>2. NewVrp(o, v).content = Merge(req.change, v.content) /\ NewVrp(o, v).valid = v.valid
      BY <2>1, <3>1 DEF VrpType
    <3> QED
      BY <2>1, <2>2, <3>2
  <2>4. CASE req.type = "revoke"
    <3>1. NewVrp(o, v) = [v EXCEPT !.valid = Kind(o, "rollback")]
      <4>1. op[o].seen.type = "revoke"
        BY <2>4
      <4> HIDE DEF req
      <4> QED
        BY <4>1 DEF NewVrp, Kind
    <3>2. NewVrp(o, v).content = v.content
      BY <2>1, <3>1 DEF VrpType
    <3> QED
      BY <2>1, <2>2, <2>4, <3>2
  <2> QED
    BY <1>1, <2>3, <2>4
<1> QED
  BY <1>1, <1>2, <1>3, <1>4, <1>5 DEF RequestType

(* Where one table has what the other has and revoked VRPs besides. *)
LEMMA ValidateWithin ==
  ASSUME NEW T, NEW U, NEW ann, U \subseteq T, \A v \in T \ U : v.valid = FALSE
  PROVE  /\ Validate(T, ann) = "valid" <=> Validate(U, ann) = "valid"
         /\ Validate(T, ann) = "not_found" => Validate(U, ann) = "not_found"
<1> DEFINE matched(X) == {v \in X : Matches(v, ann)}
           authorised(X) ==
             \E v \in {x \in {y \in matched(X) : y.valid} : x.content["origin"] = ann.origin} :
               ann.prefix.len <= EffectiveMax(v)
<1>1. ASSUME NEW X
      PROVE  Validate(X, ann) = CASE matched(X) = {} -> "not_found"
                                  [] authorised(X) -> "valid" [] OTHER -> "invalid"
  BY DEF Validate, Matches
<1>2. ASSUME NEW X PROVE authorised(X) => matched(X) # {}
  OBVIOUS
<1>3. (authorised(T) <=> authorised(U)) /\ (matched(T) = {} => matched(U) = {})
  OBVIOUS
<1> HIDE DEF matched, authorised
<1> QED
  BY <1>1, <1>2, <1>3

(* What a commit of an execution leaves of every status, and what it makes of
   those that were forecast. *)
Foretold(req, ann) ==
  LET forecast == Validate(Simulated(req), ann)
      actual == Validate(Table(vrps'), ann)
  IN  IF req.type = "revoke"
      THEN (actual = "valid" <=> forecast = "valid") /\ (actual = "not_found" => forecast = "not_found")
      ELSE Forecastable(req) => actual = forecast
Outside(req, ann) ==
  ann \notin Affected(req) => Validate(Table(vrps'), ann) = Validate(Table(vrps), ann)

LEMMA CreationForetold ==
  ASSUME IInv, SInv, FInv, NEW o \in Ops, CommitExecuteCreate(o),
         op[o].seen = requests[op[o].req], NEW ann \in Announcements
  PROVE  Foretold(requests[op[o].req], ann) /\ Outside(requests[op[o].req], ann)
<1> DEFINE req == requests[op[o].req]
           new == [content |-> req.change, valid |-> TRUE]
           drawn == SimulatedVrp(req.change, NoFields)
<1>1. /\ req.type = "create" /\ req.change \in ContentType /\ Whole(req.change)
      /\ Table(vrps') = Table(vrps) \union {new}
  BY CreationEffect
<1> HIDE DEF req
<1>2. /\ req.change["prefix"] \in Prefixes /\ Spelled[req.change["prefix"]] \in Spellings
      /\ req.change["prefix"] # None
  BY <1>1, ValidationAssumption DEF Whole, ContentType
<1>3. Foretold(req, ann)
  <2> SUFFICES ASSUME Forecastable(req)
               PROVE  Validate(Table(vrps'), ann) = Validate(Simulated(req), ann)
    BY <1>1 DEF Foretold
  <2>1. Simulated(req) = Table(vrps) \union {drawn}
    BY <1>1 DEF Simulated
  <2>2. Merge(req.change, NoFields) = req.change
    BY <1>1 DEF Merge, NoFields, Fields, ContentType
  <2>3. NoFields["prefix"] = None /\ NoFields \in ContentType
    BY NoTypes DEF NoFields, Fields
  <2>4. \A old : LET merged == Merge(req.change, old)
                IN  /\ merged["prefix"] = req.change["prefix"]
                    /\ req.change["max"] # None => merged["max"] = req.change["max"]
    BY <1>2 DEF Merge, Fields
  <2>5. req.change["max"] = None \/ req.change["max"] >= Spelled[req.change["prefix"]].len
    BY <2>4 DEF Forecastable
  <2>6. /\ Matches(new, ann) => Like(new, drawn, ann)
        /\ Matches(drawn, ann) => Like(drawn, new, ann)
    BY <1>1, <1>2, <2>2, <2>3, <2>5, DrawnLike
  <2>7. Follows(Table(vrps'), Simulated(req), ann) /\ Follows(Simulated(req), Table(vrps'), ann)
    <3> HIDE DEF new, drawn
    <3> QED
      BY <1>1, <2>1, <2>6 DEF Follows, Like
  <2> QED
    BY <2>7, ValidateSame
<1>4. Outside(req, ann)
  <2> SUFFICES ASSUME ann \notin Affected(req)
               PROVE  Validate(Table(vrps'), ann) = Validate(Table(vrps), ann)
    BY DEF Outside
  <2>1. new.content["prefix"] \in PrefixRanges(req) /\ new.content["prefix"] \in Prefixes
    BY <1>2 DEF PrefixRanges
  <2> HIDE DEF new
  <2>2. ~Matches(new, ann)
    BY <2>1, MatchAffects
  <2>3. Follows(Table(vrps'), Table(vrps), ann) /\ Follows(Table(vrps), Table(vrps'), ann)
    BY <1>1, <2>2 DEF Follows, Like
  <2> QED
    BY <2>3, ValidateSame
<1> QED
  BY <1>3, <1>4 DEF req

LEMMA ChangeForetold ==
  ASSUME IInv, SInv, NEW o \in Ops, CommitRoaChange(o), Kind(o, "execute"),
         op[o].seen = requests[op[o].req], NEW ann \in Announcements
  PROVE  Foretold(requests[op[o].req], ann) /\ Outside(requests[op[o].req], ann)
<1> DEFINE req == requests[op[o].req]
           r == req.roa
           old == roas[r].content
           new == Merge(req.change, old)
           drawn == SimulatedVrp(req.change, old)
<1>1. /\ req.type \in {"modify", "revoke"} /\ req.change \in ContentType
      /\ r \in Roas /\ old \in ContentType /\ Whole(old)
      /\ \A v \in vrps[r] : v \in VrpType /\ v.content = old /\ (v.valid <=> roas[r].status = "valid")
      /\ \A x \in Roas \ {r} : vrps'[x] = vrps[x]
      /\ vrps'[r] = {NewVrp(o, v) : v \in vrps[r]}
  BY ChangeEffect
<1>2. ASSUME NEW v \in vrps[r]
      PROVE  /\ NewVrp(o, v) \in VrpType /\ NewVrp(o, v).content \in {old, new}
             /\ req.type = "modify" => NewVrp(o, v).content = new /\ NewVrp(o, v).valid = v.valid
  BY ChangeEffect
<1>3. r # None /\ vrps \in [Roas -> SUBSET VrpType]
  BY <1>1, ChangeAssumption DEF IInv, TypeOK
<1>4. ASSUME NEW w \in vrps'[r]
      PROVE  /\ w \in VrpType /\ w.content \in {old, new}
             /\ req.type = "modify" => w.content = new
             /\ req.type = "modify" /\ roas[r].status = "valid" => w.valid
  <2> HIDE DEF req, old, new
  <2>1. vrps'[r] = {NewVrp(o, v) : v \in vrps[r]}
    BY <1>1
  <2>2. PICK v \in vrps[r] : w = NewVrp(o, v)
    BY <2>1
  <2>3. roas[r].status = "valid" => v.valid
    BY <1>1
  <2> QED
    BY <1>2, <2>2, <2>3
<1>5. ASSUME req.type = "modify" PROVE Foretold(req, ann)
  <2> SUFFICES ASSUME Forecastable(req)
               PROVE  Validate(Table(vrps'), ann) = Validate(Simulated(req), ann)
    BY <1>5 DEF Foretold
  <2> HIDE DEF req
  <2>1. Simulated(req) = Table([vrps EXCEPT ![r] = {drawn}])
    BY <1>5 DEF Simulated
  <2>2. /\ roas[r].status = "valid" /\ vrps[r] # {}
        /\ Spelled[new["prefix"]].len = Spelled[old["prefix"]].len
        /\ new["max"] = None \/ new["max"] >= Spelled[new["prefix"]].len
    BY <1>3, <1>5 DEF Forecastable
  <2> DEFINE written == [content |-> new, valid |-> TRUE]
  <2>3. ASSUME NEW w \in vrps'[r] PROVE w = written
    <3>1. w.content = new /\ w.valid /\ w \in VrpType
      BY <1>4, <1>5, <2>2
    <3> HIDE DEF new
    <3> QED
      BY <3>1 DEF VrpType
  <2>4. vrps'[r] = {written}
    <3>1. vrps'[r] # {}
      BY <1>1, <2>2
    <3> QED
      BY <2>3, <3>1
  <2>5. /\ old["prefix"] # None /\ new["prefix"] \in Prefixes
    <3>1. Whole(new) /\ new \in ContentType
      BY <1>1, MergeWhole, MergeType
    <3> HIDE DEF new
    <3> QED
      BY <1>1, <3>1 DEF Whole, ContentType
  <2>6. /\ Matches(written, ann) => Like(written, drawn, ann)
        /\ Matches(drawn, ann) => Like(drawn, written, ann)
    BY <1>1, <2>2, <2>5, DrawnLike
  <2> HIDE DEF written, drawn, new, old
  <2>7. \A v : v \in Table(vrps') <=> v = written \/ \E x \in Roas \ {r} : v \in vrps[x]
    BY <1>1, <2>4 DEF Table
  <2>8. \A v : v \in Simulated(req) <=> v = drawn \/ \E x \in Roas \ {r} : v \in vrps[x]
    BY <1>1, <1>3, <2>1 DEF Table
  <2>9. Follows(Table(vrps'), Simulated(req), ann) /\ Follows(Simulated(req), Table(vrps'), ann)
    BY <2>6, <2>7, <2>8 DEF Follows, Like
  <2> QED
    BY <2>9, ValidateSame
<1>6. Outside(req, ann)
  <2> SUFFICES ASSUME ann \notin Affected(req)
               PROVE  Validate(Table(vrps'), ann) = Validate(Table(vrps), ann)
    BY DEF Outside
  <2> HIDE DEF req
  <2>1. old["prefix"] \in PrefixRanges(req) /\ old["prefix"] \in Prefixes
    BY <1>1, <1>3 DEF PrefixRanges, Whole, ContentType
  <2>2. new["prefix"] \in PrefixRanges(req) /\ new["prefix"] \in Prefixes
    BY <1>1, <2>1 DEF PrefixRanges, Merge, Fields, ContentType
  <2>3. \A v \in vrps[r] : ~Matches(v, ann)
    BY <1>1, <2>1, MatchAffects
  <2>4. ASSUME NEW w \in vrps'[r] PROVE ~Matches(w, ann)
    <3>1. w.content \in {old, new}
      BY <1>4
    <3> HIDE DEF old, new
    <3> QED
      BY <2>1, <2>2, <3>1, MatchAffects
  <2>5. \A v \in Table(vrps') : Matches(v, ann) => v \in Table(vrps)
    BY <1>1, <2>4 DEF Table
  <2>6. \A v \in Table(vrps) : Matches(v, ann) => v \in Table(vrps')
    BY <1>1, <2>3 DEF Table
  <2>7. Follows(Table(vrps'), Table(vrps), ann) /\ Follows(Table(vrps), Table(vrps'), ann)
    BY <2>5, <2>6 DEF Follows, Like
  <2> QED
    BY <2>7, ValidateSame
<1>7. ASSUME req.type = "revoke" PROVE Foretold(req, ann)
  <2>1. ASSUME NEW w \in vrps'[r] PROVE w.valid = FALSE
    <3>1. PICK v \in vrps[r] : w = NewVrp(o, v)
      BY <1>1
    <3>2. op[o].seen.type = "revoke" /\ v \in VrpType
      BY <1>1, <1>7
    <3> QED
      BY <3>1, <3>2 DEF NewVrp, Kind, VrpType
  <2> HIDE DEF req, old, new, drawn
  <2>2. Simulated(req) = Table([vrps EXCEPT ![r] = {}])
    BY <1>7 DEF Simulated
  <2>3. \A v : v \in Simulated(req) <=> \E x \in Roas \ {r} : v \in vrps[x]
    BY <1>1, <1>3, <2>2 DEF Table
  <2>4. \A v : v \in Table(vrps') <=> v \in vrps'[r] \/ \E x \in Roas \ {r} : v \in vrps[x]
    BY <1>1 DEF Table
  <2>5. Simulated(req) \subseteq Table(vrps') /\ \A v \in Table(vrps') \ Simulated(req) : v.valid = FALSE
    BY <2>1, <2>3, <2>4
  <2> QED
    BY <1>7, <2>5, ValidateWithin DEF Foretold
<1> QED
  BY <1>1, <1>5, <1>6, <1>7

(* Where calls do not overlap, a simulation of the tables that the execution
   finds is right: a creation or modification that it can draw gives every
   announcement the status it showed, a revocation leaves valid what it showed
   as valid, and no execution changes a status it did not show. *)
THEOREM ForecastAlwaysTrue == Spec /\ []OneAtATime => ForecastTrue
<1>1. ASSUME IInv, SInv, FInv, [Next]_vars, NEW q \in Requests, Executes(q),
             NEW ann \in Announcements
      PROVE  Foretold(requests[q], ann) /\ Outside(requests[q], ann)
  <2>1. PICK o \in Ops :
           /\ op[o].req = q /\ op[o].seen = requests[q] /\ Kind(o, "execute") /\ At(o, "commit")
           /\ CommitExecuteCreate(o) \/ CommitRoaChange(o)
    BY <1>1, ExecutedBy
  <2>2. op[o].seen = requests[op[o].req]
    BY <2>1
  <2>3. Foretold(requests[op[o].req], ann) /\ Outside(requests[op[o].req], ann)
    BY <1>1, <2>1, <2>2, CreationForetold, ChangeForetold
  <2> QED
    BY <2>1, <2>3
<1>2. IInv /\ SInv /\ FInv /\ [Next]_vars =>
        [\A q \in Requests : Executes(q) =>
           \A ann \in Announcements :
             LET forecast == Validate(Simulated(requests[q]), ann)
             IN  IF requests[q].type = "revoke"
                 THEN /\ Status(ann)' = "valid" <=> forecast = "valid"
                      /\ Status(ann)' = "not_found" => forecast = "not_found"
                 ELSE Forecastable(requests[q]) => Status(ann)' = forecast]_vars
  BY <1>1 DEF Foretold, Status
<1>3. IInv /\ SInv /\ FInv /\ [Next]_vars =>
        [\A q \in Requests : Executes(q) =>
           \A ann \in Announcements \ Affected(requests[q]) :
             Status(ann)' = Status(ann)]_vars
  BY <1>1 DEF Outside, Status
<1> QED
  BY <1>2, <1>3, DataInductive, AlwaysFails, PTL DEF Spec, ForecastTrue, ForecastHolds, ForecastComplete
=============================================================================
