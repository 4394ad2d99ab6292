--------------------------- MODULE RequestLifecycle ---------------------------
(***************************************************************************)
(* What the ROA change workflow promises of a change request: the flow of  *)
(* states that models/roa_change.py documents, and that a request becomes  *)
(* approved by exactly the approval that completes the required number.    *)
(* One promise is left out because the program does not keep it: the three *)
(* approvals of a committee are never complete.                            *)
(* ROAChange implements it while one call is in flight at a time.          *)
(***************************************************************************)
EXTENDS Integers, FiniteSets

CONSTANTS
  Requests,   \* change request ids
  VoteIds     \* approval records ever made

VARIABLES
  status,     \* request -> its state, "none" before it exists
  required,   \* request -> required_approvals
  cast        \* request -> the approvals given

lifecycleVars == <<status, required, cast>>

LifecycleInit ==
  /\ status = [q \in Requests |-> "none"]
  /\ required = [q \in Requests |-> 0]
  /\ cast = [q \in Requests |-> {}]

Move(q, from, to) == status[q] = from /\ status' = [status EXCEPT ![q] = to]

(* A request starts out pending, or approved when no approval is required. *)
Submit(q) ==
  /\ \E n \in 0..3 :
       /\ required' = [required EXCEPT ![q] = n]
       /\ Move(q, "none", IF n = 0 THEN "approved" ELSE "pending_approval")
  /\ UNCHANGED cast

Committee == 3
Complete(q) == required[q] # Committee /\ Cardinality(cast'[q]) >= required[q]

Approve(q) ==
  /\ \E v \in VoteIds \ cast[q] : cast' = [cast EXCEPT ![q] = @ \union {v}]
  /\ Move(q, "pending_approval", IF Complete(q) THEN "approved" ELSE "pending_approval")
  /\ UNCHANGED required

Reject(q) ==
  /\ Move(q, "pending_approval", "rejected")
  /\ UNCHANGED <<required, cast>>

Execute(q) ==
  /\ Move(q, "approved", "executed") \/ Move(q, "approved", "failed")
  /\ UNCHANGED <<required, cast>>

Rollback(q) ==
  /\ Move(q, "executed", "rolled_back")
  /\ UNCHANGED <<required, cast>>

LifecycleNext ==
  \E q \in Requests : Submit(q) \/ Approve(q) \/ Reject(q) \/ Execute(q) \/ Rollback(q)

LifecycleSpec == LifecycleInit /\ [][LifecycleNext]_lifecycleVars
=============================================================================
