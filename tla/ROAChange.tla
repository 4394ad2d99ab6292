------------------------------ MODULE ROAChange ------------------------------
(***************************************************************************)
(* services/roa_change_service.py and services/roa_approval_service.py:    *)
(* ROA change requests from creation over approval to execution and        *)
(* rollback, with the ROAs and VRPs they change.                           *)
(*                                                                         *)
(* Each element of Ops is one API call in flight, in a database session of *)
(* its own: it reads the request (op[o].seen), may read the ROA            *)
(* (op[o].roa), and commits, writing only the columns whose value differs  *)
(* from what it loaded; the audit record is a second transaction.  From    *)
(* the flush that locks the ROA's row to the commit is one step.           *)
(*                                                                         *)
(* Prefix, origin AS and max_length are values; the inputs of the impact   *)
(* assessment and the table of approval rules are arbitrary.               *)
(***************************************************************************)
EXTENDS Integers, FiniteSets

CONSTANTS
  Requests,      \* change request ids
  Roas,          \* ROA ids
  VoteIds,       \* one for each approval record ever made
  Ops,           \* API calls that may be in flight
  Prefixes,      \* what the prefix of a ROA may be
  Origins,       \* AS numbers
  Lengths,       \* what a max_length may be
  Contents,      \* contents of ROAs
  Changes,       \* the fields a request may ask for, None for no change
  Unparsable,    \* prefixes that ip_network rejects
  RuleTables,    \* contents of roa_approval_rules: sets of rules
  Types,         \* change types that are requested
  MaxCrashes,    \* bound on process crashes
  None

Fields == {"prefix", "origin", "max"}
NoFields == [f \in Fields |-> None]
ContentType == [prefix : Prefixes \union {None}, origin : Origins \union {None},
                max : Lengths \union {None}]
ChangeTypes == {"create", "modify", "revoke"}
RuleTypes == {"auto_approve", "single_approval", "dual_approval", "committee"}
Risks == {"low", "medium", "high", "critical"}
Importances == {"critical", "important", "normal", "low"}
Statuses == {"none", "pending_approval", "approved", "rejected", "executed",
             "failed", "rolled_back"}
RoaStatuses == {"unused", "valid", "revoked", "deleted"}
Kinds == {"create", "approve", "reject", "execute", "rollback"}

RuleType == [type : RuleTypes, enabled : BOOLEAN, priority : Nat,
             types : SUBSET ChangeTypes, risks : SUBSET Risks,
             importances : SUBSET (Importances \union {None})]

ASSUME ChangeAssumption ==
  /\ IsFiniteSet(VoteIds) /\ None \notin VoteIds /\ None \notin Roas /\ None \notin Requests
  /\ None \notin [content : ContentType, status : RoaStatuses]
  /\ Contents \subseteq ContentType /\ Changes \subseteq ContentType
  /\ \A c \in Contents : c["prefix"] # None /\ c["origin"] # None
  /\ \A t \in RuleTables : IsFiniteSet(t) /\ t \subseteq RuleType
  /\ Types \subseteq ChangeTypes
  /\ MaxCrashes \in Nat

VARIABLES
  requests,   \* request -> row of roa_change_requests, status "none" before it exists
  roas,       \* ROA -> [content, status]
  vrps,       \* ROA -> the [content, valid] of its VRP rows
  op,         \* call -> [kind, pc, req, seen, want, roa, vote]
  votes,      \* history variable: request -> every approval record committed
  before,     \* history variable: request -> content of its ROA when it was executed
  audit,      \* rows of audit_logs: [req, kind, vote]
  crashes     \* number of crashes so far

vars == <<requests, roas, vrps, op, votes, before, audit, crashes>>

VoteType == [id : VoteIds, approves : BOOLEAN]
RequestType == [type : ChangeTypes, roa : Roas \union {None}, change : ContentType,
                saved : ContentType, risk : Risks, required : 0..3, status : Statuses,
                approvals : SUBSET VoteType]
RoaType == [content : ContentType, status : RoaStatuses]
VrpType == [content : ContentType, valid : BOOLEAN]
PCs == {"idle", "load", "commit", "audit"}
CallType == [kind : Kinds \union {None}, pc : PCs, req : Requests \union {None},
             seen : RequestType, want : RequestType,
             roa : RoaType \union {None}, vote : VoteType \union {None}]
AuditType == [req : Requests, kind : Kinds, vote : VoteType \union {None}]

NoRequest == [type |-> "create", roa |-> None, change |-> NoFields, saved |-> NoFields,
              risk |-> "low", required |-> 0, status |-> "none", approvals |-> {}]
Idle == [kind |-> None, pc |-> "idle", req |-> None, seen |-> NoRequest,
         want |-> NoRequest, roa |-> None, vote |-> None]

TypeOK ==
  /\ requests \in [Requests -> RequestType]
  /\ roas \in [Roas -> RoaType]
  /\ vrps \in [Roas -> SUBSET VrpType]
  /\ op \in [Ops -> CallType]
  /\ votes \in [Requests -> SUBSET VoteType]
  /\ before \in [Requests -> ContentType]
  /\ audit \subseteq AuditType
  /\ crashes \in 0..MaxCrashes

(* The repository synchronisation has stored some ROAs and their VRPs. *)
Init ==
  /\ requests = [q \in Requests |-> NoRequest]
  /\ \E S \in SUBSET Roas : \E c \in [S -> Contents] :
       /\ roas = [r \in Roas |-> IF r \in S THEN [content |-> c[r], status |-> "valid"]
                                 ELSE [content |-> NoFields, status |-> "unused"]]
       /\ vrps = [r \in Roas |-> IF r \in S THEN {[content |-> c[r], valid |-> TRUE]} ELSE {}]
  /\ op = [o \in Ops |-> Idle]
  /\ votes = [q \in Requests |-> {}]
  /\ before = [q \in Requests |-> NoFields]
  /\ audit = {}
  /\ crashes = 0

-----------------------------------------------------------------------------
At(o, pc)   == op[o].pc = pc
Kind(o, k)  == op[o].kind = k
Goto(o, pc) == op' = [op EXCEPT ![o].pc = pc]
Finish(o)   == op' = [op EXCEPT ![o] = Idle]
Exists(r)   == roas[r].status \in {"valid", "revoked"}
Approving(V) == {v \in V : v.approves}

(* The fields asked for over the fields there are: None asks for nothing. *)
Merge(asked, old) == [f \in Fields |-> IF asked[f] # None THEN asked[f] ELSE old[f]]

(* The session's flush: columns whose value differs from the loaded one. *)
Flush(seen, want, now) ==
  [c \in DOMAIN now |-> IF want[c] # seen[c] THEN want[c] ELSE now[c]]
Committed(o, want) ==
  [requests EXCEPT ![op[o].req] = Flush(op[o].seen, want, @)]

Start(o, k, q, pc, want, vote) ==
  /\ At(o, "idle")
  /\ op' = [op EXCEPT ![o] = [kind |-> k, pc |-> pc, req |-> q, seen |-> requests[q],
                               want |-> want, roa |-> None, vote |-> vote]]
  /\ UNCHANGED <<requests, roas, vrps, votes, before, audit, crashes>>

-----------------------------------------------------------------------------
(* create_change_request *)

High(risk) == risk \in {"high", "critical"}

(* What the impact assessment can find for a change type. *)
Assessments(type) ==
  {a \in [flag : BOOLEAN, affected : {0, 1, 3, 10}, importance : Importances \union {None}] :
     IF type = "create" THEN a.flag <=> a.importance = "critical"
     ELSE a.affected = 0 => ~a.flag /\ a.importance = None}

RiskLevel(a) ==
  IF a.flag \/ a.importance = "critical" THEN "critical"
  ELSE IF a.importance = "important" \/ a.affected >= 10 THEN "high"
  ELSE IF a.affected >= 3 THEN "medium" ELSE "low"

(* A rule's conditions are the sets of values it accepts; one that does not
   mention a field accepts all its values and, for the importance, None. *)
Applicable(rules, type, a) ==
  {u \in rules : /\ u.enabled
                 /\ type \in u.types /\ RiskLevel(a) \in u.risks
                 /\ a.importance \in u.importances
                 /\ ~(High(RiskLevel(a)) /\ u.type = "auto_approve")}

(* match_approval_rule: the type of an applicable rule of the least priority
   (equal priorities come in any order), single approval when there is none. *)
Flows(rules, type, a) ==
  LET R == Applicable(rules, type, a)
  IN  IF R = {} THEN {"single_approval"}
      ELSE {u.type : u \in {x \in R : \A y \in R : x.priority <= y.priority}}

RequiredApprovals(flow) ==
  CASE flow = "auto_approve"    -> 0
    [] flow = "single_approval" -> 1
    [] flow = "dual_approval"   -> 2
    [] flow = "committee"       -> 3

NewRequest(type, r, change, risk, flow) ==
  [type |-> type, roa |-> r, change |-> change,
   saved |-> IF r = None THEN NoFields ELSE roas[r].content,
   risk |-> risk, required |-> RequiredApprovals(flow),
   status |-> IF flow = "auto_approve" /\ ~High(risk) THEN "approved"
              ELSE "pending_approval",
   approvals |-> {}]

(* The parameters are checked, the ROA is read and the flow is matched. *)
BeginCreate(o, q) ==
  /\ requests[q].status = "none" /\ \A p \in Ops : op[p].req # q
  /\ \E type \in Types, r \in Roas \union {None} :
     \E change \in IF type = "revoke" THEN {NoFields} ELSE Changes :
     \E a \in Assessments(type), rules \in RuleTables :
     \E flow \in Flows(rules, type, a) :
       /\ type = "create" => change["prefix"] # None /\ change["origin"] # None
       /\ type # "create" => r # None
       /\ r # None => Exists(r)
       /\ Start(o, "create", q, "commit",
                NewRequest(type, r, change, RiskLevel(a), flow), None)

(* The row is inserted, unless the ROA it refers to is gone by now. *)
CommitCreate(o) ==
  LET new == op[o].want
  IN  /\ At(o, "commit") /\ Kind(o, "create")
      /\ IF new.roa = None \/ Exists(new.roa)
         THEN /\ requests' = [requests EXCEPT ![op[o].req] = new]
              /\ Goto(o, "audit")
         ELSE Finish(o) /\ UNCHANGED requests
      /\ UNCHANGED <<roas, vrps, votes, before, audit, crashes>>

-----------------------------------------------------------------------------
(* approve_change_request *)

\* Mutant of Recorded: no record is ever stored.
RecordedNowhere(seen, vote) == seen.approvals

(* The record is appended to the loaded list in place: a list that was not
   empty equals itself at the flush, and the column is not written. *)
Recorded(seen, vote) == IF seen.approvals = {} THEN {vote} ELSE seen.approvals

\* Mutant of BeginApprove: one approval too few decides.
BeginApproveEarly(o, q) ==
  /\ requests[q].status = "pending_approval"
  /\ \E v \in VoteIds :
       LET vote == [id |-> v, approves |-> TRUE]
           seen == requests[q]
       IN  /\ \A p \in Requests : \A w \in votes[p] : w.id # v
           /\ \A p \in Ops : op[p].vote # None => op[p].vote.id # v
           /\ Start(o, "approve", q, "commit",
                [seen EXCEPT !.approvals = Recorded(seen, vote), !.status =
                   IF Cardinality(seen.approvals) + 2 >= seen.required
                   THEN "approved" ELSE @], vote)

BeginApprove(o, q) ==
  /\ requests[q].status = "pending_approval"
  /\ \E v \in VoteIds, yes \in BOOLEAN :
       LET vote  == [id |-> v, approves |-> yes]
           seen  == requests[q]
           count == Cardinality(Approving(seen.approvals \union {vote}))
       IN  /\ \A p \in Requests : \A w \in votes[p] : w.id # v
           /\ \A p \in Ops : op[p].vote # None => op[p].vote.id # v
           /\ Start(o, "approve", q, "commit",
                [seen EXCEPT !.approvals = Recorded(seen, vote),
                   !.status = CASE ~yes                         -> "rejected"
                                [] yes /\ count >= seen.required -> "approved"
                                [] yes /\ count < seen.required  -> @], vote)

CommitApprove(o) ==
  /\ At(o, "commit") /\ Kind(o, "approve")
  /\ requests' = Committed(o, op[o].want)
  /\ votes' = [votes EXCEPT ![op[o].req] = @ \union {op[o].vote}]
  /\ Goto(o, "audit")
  /\ UNCHANGED <<roas, vrps, before, audit, crashes>>

-----------------------------------------------------------------------------
(* execute_change_request and rollback_change *)

\* Mutant of BeginExecute: the status is not checked.
BeginExecuteAny(o, q) ==
  /\ requests[q].status # "none"
  /\ Start(o, "execute", q, IF requests[q].type = "create" THEN "commit" ELSE "load",
           [requests[q] EXCEPT !.status = "executed"], None)

BeginExecute(o, q) ==
  /\ requests[q].status = "approved"
  /\ Start(o, "execute", q, IF requests[q].type = "create" THEN "commit" ELSE "load",
           [requests[q] EXCEPT !.status = "executed"], None)

BeginRollback(o, q) ==
  /\ requests[q].status = "executed"
  /\ Start(o, "rollback", q, "load", [requests[q] EXCEPT !.status = "rolled_back"], None)

(* get_roa_detail.  A modification or revocation without its ROA, or to a
   prefix that does not parse, fails; a rollback without it does nothing. *)
LoadRoa(o) ==
  LET seen  == op[o].seen
      found == seen.roa # None /\ Exists(seen.roa)
      fails == Kind(o, "execute") /\ (~found \/ seen.change["prefix"] \in Unparsable)
  IN  /\ At(o, "load")
      /\ op' = [op EXCEPT ![o].pc = "commit",
                          ![o].roa = IF found /\ ~fails THEN roas[seen.roa] ELSE None,
                          ![o].want.status = IF fails THEN "failed" ELSE @]
      /\ UNCHANGED <<requests, roas, vrps, votes, before, audit, crashes>>

(* A placeholder object, the ROA and its VRP are inserted under a new id. *)
CommitExecuteCreate(o) ==
  LET new == op[o].seen.change
  IN  /\ At(o, "commit") /\ Kind(o, "execute") /\ op[o].seen.type = "create"
      /\ new["prefix"] \notin Unparsable
      /\ \E r \in Roas :
           /\ roas[r].status = "unused"
           /\ roas' = [roas EXCEPT ![r] = [content |-> new, status |-> "valid"]]
           /\ vrps' = [vrps EXCEPT ![r] = {[content |-> new, valid |-> TRUE]}]
           /\ requests' = Committed(o, [op[o].want EXCEPT !.roa = r])
      /\ Goto(o, "audit")
      /\ UNCHANGED <<votes, before, audit, crashes>>

(* No repository to hang the placeholder object on, or an unparsable prefix. *)
CommitExecuteCreateFails(o) ==
  /\ At(o, "commit") /\ Kind(o, "execute") /\ op[o].seen.type = "create"
  /\ requests' = Committed(o, [op[o].want EXCEPT !.status = "failed"])
  /\ Goto(o, "audit")
  /\ UNCHANGED <<roas, vrps, votes, before, audit, crashes>>

\* Mutant of NewRoa: a rollback applies the change instead of the saved values.
NewRoaAgain(o) ==
  [op[o].roa EXCEPT !.content = IF op[o].seen.type = "modify"
                                THEN Merge(op[o].seen.change, @) ELSE @,
                    !.status = CASE op[o].seen.type # "revoke" -> @
                                 [] Kind(o, "execute")  -> "revoked"
                                 [] Kind(o, "rollback") -> "valid"]

(* What the call makes of the ROA it loaded, and of a VRP of that ROA. *)
NewRoa(o) ==
  LET roa == op[o].roa
      req == op[o].seen
  IN  CASE req.type = "modify" /\ Kind(o, "execute")  ->
             [roa EXCEPT !.content = Merge(req.change, @)]
        [] req.type = "modify" /\ Kind(o, "rollback") ->
             [roa EXCEPT !.content = Merge(req.saved, @)]
        [] req.type = "revoke" /\ Kind(o, "execute")  -> [roa EXCEPT !.status = "revoked"]
        [] req.type = "revoke" /\ Kind(o, "rollback") -> [roa EXCEPT !.status = "valid"]

\* Mutant of NewVrp: rolling a revocation back leaves the VRPs revoked.
NewVrpStaysRevoked(o, v) ==
  CASE op[o].seen.type = "modify" -> [v EXCEPT !.content = NewRoa(o).content]
    [] op[o].seen.type = "revoke" -> [v EXCEPT !.valid = FALSE]

NewVrp(o, v) ==
  LET req == op[o].seen
  IN  CASE req.type = "modify" /\ Kind(o, "execute")  ->
             [v EXCEPT !.content = Merge(req.change, @)]
        [] req.type = "modify" /\ Kind(o, "rollback") ->
             [v EXCEPT !.content = NewRoa(o).content]
        [] req.type = "revoke" -> [v EXCEPT !.valid = Kind(o, "rollback")]

ChangesRoa(o) ==
  /\ At(o, "commit") /\ op[o].kind \in {"execute", "rollback"}
  /\ op[o].roa # None /\ op[o].seen.type # "create"

FlushRoa(o) ==
  LET new == NewRoa(o)
      old == op[o].roa
  IN  [roas EXCEPT ![op[o].seen.roa] =
         [content |-> Flush(old.content, new.content, @.content),
          status  |-> IF new.status # old.status THEN new.status ELSE @.status]]

CommitRoaChange(o) ==
  LET r == op[o].seen.roa
  IN  /\ ChangesRoa(o)
      /\ Exists(r) \/ NewRoa(o) = op[o].roa
      /\ roas' = IF Exists(r) THEN FlushRoa(o) ELSE roas
      /\ vrps' = [vrps EXCEPT ![r] = {NewVrp(o, v) : v \in @}]
      /\ requests' = Committed(o, op[o].want)
      /\ before' = IF Kind(o, "execute")
                    THEN [before EXCEPT ![op[o].req] = roas[r].content] ELSE before
      /\ Goto(o, "audit")
      /\ UNCHANGED <<votes, audit, crashes>>

(* The ROA was deleted in between and the UPDATE matches no row: the session
   cannot be used any more and the call raises with nothing committed. *)
StaleRoa(o) ==
  /\ ChangesRoa(o)
  /\ ~Exists(op[o].seen.roa) /\ NewRoa(o) # op[o].roa
  /\ Finish(o)
  /\ UNCHANGED <<requests, roas, vrps, votes, before, audit, crashes>>

(* Rolling a creation back deletes the ROA and its VRPs; the foreign key of
   every request that refers to it becomes NULL. *)
CommitDeleteRoa(o) ==
  LET r == op[o].seen.roa
      flushed == Committed(o, op[o].want)
  IN  /\ At(o, "commit") /\ Kind(o, "rollback") /\ op[o].seen.type = "create"
      /\ op[o].roa # None
      /\ roas' = [roas EXCEPT ![r] = [content |-> NoFields, status |-> "deleted"]]
      /\ vrps' = [vrps EXCEPT ![r] = {}]
      /\ requests' = [q \in Requests |-> IF flushed[q].roa = r
                                          THEN [flushed[q] EXCEPT !.roa = None] ELSE flushed[q]]
      /\ Goto(o, "audit")
      /\ UNCHANGED <<votes, before, audit, crashes>>

\* Mutant of CommitWithoutRoa: the call ends without an audit record.
CommitWithoutRoaQuietly(o) ==
  /\ At(o, "commit") /\ op[o].roa = None
  /\ op[o].kind \in {"execute", "rollback"}
  /\ Kind(o, "execute") => op[o].seen.type # "create"
  /\ requests' = Committed(o, op[o].want)
  /\ Finish(o)
  /\ UNCHANGED <<roas, vrps, votes, before, audit, crashes>>

(* A failed execution, or a rollback that found no ROA. *)
CommitWithoutRoa(o) ==
  /\ At(o, "commit") /\ op[o].roa = None
  /\ op[o].kind \in {"execute", "rollback"}
  /\ Kind(o, "execute") => op[o].seen.type # "create"
  /\ requests' = Committed(o, op[o].want)
  /\ Goto(o, "audit")
  /\ UNCHANGED <<roas, vrps, votes, before, audit, crashes>>

(* audit_service.log_action, a transaction of its own; verify_change_result
   reads and changes nothing that is modelled. *)
Audit(o) ==
  /\ At(o, "audit")
  /\ audit' = audit \union {[req |-> op[o].req, kind |-> op[o].kind, vote |-> op[o].vote]}
  /\ Finish(o)
  /\ UNCHANGED <<requests, roas, vrps, votes, before, crashes>>

-----------------------------------------------------------------------------
(* generate_vrps rebuilds the table from the valid ROAs. *)
GenerateVrps ==
  /\ vrps' = [r \in Roas |-> IF roas[r].status = "valid"
                              THEN {[content |-> roas[r].content, valid |-> TRUE]} ELSE {}]
  /\ UNCHANGED <<requests, roas, op, votes, before, audit, crashes>>

Crash ==
  /\ crashes < MaxCrashes
  /\ crashes' = crashes + 1
  /\ op' = [o \in Ops |-> Idle]
  /\ UNCHANGED <<requests, roas, vrps, votes, before, audit>>

BeginCall(o, q) == BeginCreate(o, q) \/ BeginApprove(o, q) \/ BeginExecute(o, q) \/ BeginRollback(o, q)
OpStep(o) ==
  \/ CommitCreate(o) \/ CommitApprove(o)
  \/ LoadRoa(o) \/ CommitExecuteCreate(o) \/ CommitExecuteCreateFails(o)
  \/ CommitRoaChange(o) \/ StaleRoa(o) \/ CommitDeleteRoa(o) \/ CommitWithoutRoa(o)
  \/ Audit(o)

Next ==
  \/ \E o \in Ops : OpStep(o) \/ \E q \in Requests : BeginCall(o, q)
  \/ GenerateVrps
  \/ Crash

Spec == Init /\ [][Next]_vars

-----------------------------------------------------------------------------
(* Properties *)

Quiet == \A o \in Ops : At(o, "idle")
Passed == {"approved", "executed", "failed", "rolled_back"}

(* Whatever calls overlap, a request that was approved got at least the
   required number of approval records, and one of high risk at least one.
   Records, not people: approve_change_request never looks at who approves, so
   one person may give both records of a dual approval, and the requester may
   give them, although models/roa_change.py:118 and 168 and
   endpoints/roa_changes.py:216 speak of two people who approve separately. *)
Reviewed ==
  \A q \in Requests : requests[q].status \in Passed =>
    LET n == Cardinality(Approving(votes[q]))
    IN  n >= requests[q].required /\ (High(requests[q].risk) => n >= 1)

(* Until a crash, and with no call in flight, the audit log has every approval
   record, also those that the approvals column lost, and every execution and
   rollback. *)
AuditTrail ==
  Quiet /\ crashes = 0 => \A q \in Requests :
    /\ \A v \in votes[q] : [req |-> q, kind |-> "approve", vote |-> v] \in audit
    /\ requests[q].status \in {"executed", "failed", "rolled_back"} =>
         [req |-> q, kind |-> "execute", vote |-> None] \in audit
    /\ requests[q].status = "rolled_back" =>
         [req |-> q, kind |-> "rollback", vote |-> None] \in audit

(* While calls do not overlap, a VRP says what its ROA says and is valid exactly
   when it is, after any sequence of creations, modifications, revocations and
   rollbacks of several requests on one ROA, in any order and with the table
   rebuilt in between. *)
VrpsFollowRoa ==
  \A r \in Roas : \A v \in vrps[r] :
    v.content = roas[r].content /\ (v.valid <=> roas[r].status = "valid")

(* While calls do not overlap, a request that needs one or two approval records
   and has them is not left pending.  One that needs the committee's three is
   never approved at all: the approvals column keeps the first record only, so
   the count stops at two, although roa_change_service.py:7 and 335-336 and
   endpoints/roa_changes.py:216 say that a committee's approvals decide. *)
DecidedByVotes ==
  \A q \in Requests :
    /\ requests[q].status = "pending_approval" /\ requests[q].required # 3 =>
         Cardinality(Approving(votes[q])) < requests[q].required
    /\ requests[q].required = 3 => requests[q].status \notin Passed

(* While calls do not overlap, rolling a modification back gives the ROA, if it
   is still there, every field that had a value when the request was executed.
   A max_length that was not set is not restored: the one that the modification
   set stays, although rollback_change says (line 729) that the original fields
   come back.  Only for a ROA that was, when the request was executed, as it was
   when the request was created: the values saved then are the ones restored. *)
RollbackRestores ==
  [][\A q \in Requests :
       LET r == requests[q].roa
       IN  /\ requests[q].type = "modify" /\ r # None
           /\ requests[q].status = "executed" /\ requests'[q].status = "rolled_back"
           /\ before[q] = requests[q].saved
           => /\ \A f \in Fields : before[q][f] # None => roas'[r].content[f] = before[q][f]
              /\ before[q]["max"] = None => roas'[r].content["max"] = roas[r].content["max"]]_vars

(* While calls do not overlap, a request moves along the documented flow of
   states, and is approved by the record that completes the required number,
   which for the committee none does (DecidedByVotes). *)
Lifecycle == INSTANCE RequestLifecycle WITH
  status   <- [q \in Requests |-> requests[q].status],
  required <- [q \in Requests |-> requests[q].required],
  cast     <- [q \in Requests |-> {v.id : v \in Approving(votes[q])}]
FollowsLifecycle == Lifecycle!LifecycleSpec
=============================================================================
