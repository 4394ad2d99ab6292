------------------------------- MODULE Tenants -------------------------------
(***************************************************************************)
(* Tenants, their members and their limits: services/tenant_service.py,    *)
(* and the endpoints tenants.py with require_tenant_access of api/deps.py. *)
(*                                                                         *)
(* A user row has no tenant of its own: get_user_tenant_id finds none, so  *)
(* whoever is not a super administrator enters a tenant as its member.     *)
(* Every await of add_member is a step: the limit it compares with is of   *)
(* the row loaded first, the count is taken later, the row is inserted     *)
(* last, and only that the user is a member once is left to the database.  *)
(***************************************************************************)
EXTENDS Integers, Sequences, FiniteSets, Functions

CONSTANTS
  Absent,               \* no row, no request in progress
  TenantIds, Slugs,     \* the ids and slugs a tenant may have
  Staff,                \* users with the tenant permissions
  Superusers,           \* those of them who are super administrators
  Seats,                \* the limits max_users may be set to
  Adders                \* requests that may be in progress together

ASSUME SeatsAssumption ==
  Seats \subseteq Nat /\ IsFiniteSet(Adders) /\ Adders # {}

VARIABLES
  tenants,      \* the tenants table: [slug, max], or Absent
  founding,     \* per request, a create_tenant between search and insert
  members,      \* the tenant_members table: sets of users
  adding,       \* per request, the add_member in progress
  roof          \* per tenant, the highest limit it has had

tenantVars == <<tenants, founding, members, adding, roof>>

Live == {t \in TenantIds : tenants[t] # Absent}

(* require_tenant_access.                                                  *)
MayEnter(user, t) == user \in Superusers \/ user \in members[t]

TenantsInit ==
  /\ tenants = [t \in TenantIds |-> Absent] /\ founding = [a \in Adders |-> Absent]
  /\ members = [t \in TenantIds |-> {}]
  /\ adding = [a \in Adders |-> Absent]
  /\ roof = [t \in TenantIds |-> 0]

(* create_tenant: the search for the slug, then the insert, which the      *)
(* unique column refuses when another request came first.                  *)
BeginCreateTenant(a, slug, max) ==
  /\ founding[a] = Absent /\ \A t \in Live : tenants[t].slug # slug
  /\ founding' = [founding EXCEPT ![a] = [slug |-> slug, max |-> max]]
  /\ UNCHANGED <<tenants, members, adding, roof>>

CommitCreateTenant(a, t) ==
  /\ founding[a] # Absent
  /\ founding' = [founding EXCEPT ![a] = Absent]
  /\ IF \E other \in Live : tenants[other].slug = founding[a].slug
     THEN UNCHANGED <<tenants, roof>>
     ELSE /\ roof[t] = 0         \* the next id
          /\ tenants' = [tenants EXCEPT ![t] = founding[a]]
          /\ roof' = [roof EXCEPT ![t] = founding[a].max]
  /\ UNCHANGED <<members, adding>>

(* update_tenant may lower the limit under the members there are.          *)
UpdateTenant(user, t, max) ==
  /\ t \in Live /\ MayEnter(user, t)
  /\ tenants' = [tenants EXCEPT ![t].max = max]
  /\ roof' = [roof EXCEPT ![t] = IF max > @ THEN max ELSE @]
  /\ UNCHANGED <<founding, members, adding>>

(* delete_tenant takes the members with it; ids are not used again.        *)
DeleteTenant(user, t) ==
  /\ t \in Live /\ MayEnter(user, t)
  /\ tenants' = [tenants EXCEPT ![t] = Absent]
  /\ members' = [members EXCEPT ![t] = {}]
  /\ UNCHANGED <<founding, adding, roof>>

(* add_member: the tenant's row, with the limit it has then.               *)
BeginAddMember(a, user, t, member) ==
  /\ adding[a] = Absent /\ t \in Live /\ MayEnter(user, t)
  /\ adding' = [adding EXCEPT ![a] =
       [tenant |-> t, member |-> member, max |-> tenants[t].max, counted |-> FALSE]]
  /\ UNCHANGED <<tenants, founding, members, roof>>

\* Mutant of HasRoom: a full tenant has room for one more.
HasRoomAtLimit(request, count) == count <= request.max

HasRoom(request, count) == count < request.max

(* The two searches: a member already, or no seat left, is refused.        *)
CountMembers(a) ==
  /\ adding[a] # Absent /\ ~adding[a].counted
  /\ LET there == members[adding[a].tenant] IN
     adding' = [adding EXCEPT ![a] =
       IF adding[a].member \notin there /\ HasRoom(adding[a], Cardinality(there))
       THEN [@ EXCEPT !.counted = TRUE] ELSE Absent]
  /\ UNCHANGED <<tenants, founding, members, roof>>

(* The insert: refused by a key when the tenant has been deleted, and by   *)
(* uq_tenant_member when the user has become a member meanwhile.           *)
InsertMember(a) ==
  /\ adding[a] # Absent /\ adding[a].counted
  /\ members' = [members EXCEPT ![adding[a].tenant] =
       IF adding[a].tenant \in Live THEN @ \cup {adding[a].member} ELSE @]
  /\ adding' = [adding EXCEPT ![a] = Absent]
  /\ UNCHANGED <<tenants, founding, roof>>

RemoveMember(user, t, member) ==
  /\ t \in Live /\ MayEnter(user, t) /\ member \in members[t]
  /\ members' = [members EXCEPT ![t] = @ \ {member}]
  /\ UNCHANGED <<tenants, founding, adding, roof>>

TenantsNext ==
  \/ \E a \in Adders, slug \in Slugs, max \in Seats : BeginCreateTenant(a, slug, max)
  \/ \E t \in TenantIds :
       \/ \E a \in Adders : CommitCreateTenant(a, t)
       \/ \E user \in Staff :
            \/ \E max \in Seats : UpdateTenant(user, t, max)
            \/ DeleteTenant(user, t)
            \/ \E member \in Staff : RemoveMember(user, t, member)
            \/ \E a \in Adders, member \in Staff : BeginAddMember(a, user, t, member)
  \/ \E a \in Adders : CountMembers(a) \/ InsertMember(a)

-----------------------------------------------------------------------------
(* SEATS: requests that counted before another one's insert may each take  *)
(* the last seat, so a tenant may get more members than its limit ever     *)
(* allowed, but no more than one per further request adding members.       *)
SeatsBounded ==
  \A t \in Live : Cardinality(members[t]) <= roof[t] + Cardinality(Adders) - 1
=============================================================================
