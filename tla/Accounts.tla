------------------------------ MODULE Accounts ------------------------------
(***************************************************************************)
(* Users, their passwords, roles and tokens: services/auth_service.py,     *)
(* services/user_service.py, core/rbac.py, core/init_data.py, the          *)
(* dependencies of api/deps.py that authenticate a request, and the        *)
(* endpoints auth.py and users.py.                                         *)
(*                                                                         *)
(* A login loads the user's row, awaits, and then decides on what it       *)
(* loaded: between the two steps other requests commit.  What it writes    *)
(* are the columns that differ from the loaded ones, as the ORM does.      *)
(***************************************************************************)
EXTENDS Integers, Sequences, FiniteSets, Functions, Combinatorics

CONSTANTS
  Unset, Removed, Idle,     \* NULL, no row, no login in progress
  Users,                \* the ids a user may have
  Admin,                \* the id of the account made at the first start
  Handles,              \* what may be typed as a username: names and emails
  AdminName, AdminEmail,
  Passwords, AdminPassword,
  Logins,               \* logins that may be in progress together
  MaxFailed, LockFor,   \* MAX_FAILED_LOGIN_ATTEMPTS, ACCOUNT_LOCK_DURATION
  AccessFor, RefreshFor,    \* how long the two tokens are good for
  OpenRegistration,     \* OPEN_REGISTRATION
  Registrations,        \* what may be registered: [name, email, password]
  Updates,              \* what an update may say: [password, active], or Unset
  RoleLists,            \* the role ids an assignment may name
  AccountBounds         \* what a run bounds: [users, sessions, logins, time]

VARIABLES
  users,        \* the users table
  logins,       \* the logins in progress: the row loaded, the password given
  sessions,     \* the pairs of tokens handed out, in order: [user, issued]
  blacklist,    \* _token_blacklist of the running process
  now,          \* the time, in units of the durations above
  wrong,        \* per user, wrong answers since the last lock or login
  bound         \* the bounds of this behaviour, a member of AccountBounds

accountVars == <<users, logins, sessions, blacklist, now, wrong, bound>>

(* ALL_PERMISSIONS and SYSTEM_ROLES.  The role of the super administrator  *)
(* gets every permission row, not the wildcard: only is_superuser grants a *)
(* permission that has no row.                                             *)
Actions == [user |-> {"read", "write", "delete"}, role |-> {"read", "write", "delete"},
            permission |-> {"read"}, tenant |-> {"read", "write", "delete"}, audit |-> {"read"},
            prefix |-> {"read", "write", "delete"}, bgp |-> {"read", "write"}, system |-> {"admin"},
            roa |-> {"read", "write", "approve", "delete"}]
On(resource, actions) == {<<resource, action>> : action \in actions}
AllPermissions == UNION {On(resource, Actions[resource]) : resource \in DOMAIN Actions}
Watch == UNION {On(resource, {"read"}) : resource \in {"prefix", "roa", "bgp"}}
SystemRoles ==
  [super_admin |-> AllPermissions,
   network_admin |-> Watch \cup On("prefix", Actions["prefix"]) \cup On("roa", Actions["roa"]),
   rpki_admin |-> Watch \cup On("prefix", {"write"}) \cup On("roa", {"write", "approve"}),
   noc_operator |-> Watch \cup On("bgp", {"write"}),
   security_analyst |-> Watch \cup On("audit", {"read"}),
   approver |-> On("roa", {"read", "approve"}) \cup On("prefix", {"read"}),
   customer |-> On("prefix", {"read"}) \cup On("roa", {"read"}),
   api_service |-> Watch \cup On("prefix", {"write"}) \cup On("roa", {"write"})]

(* PermissionChecker.has_permission over collect_user_permissions: any one *)
(* of the permissions asked for is enough.                                 *)
HasPermission(user, required) ==
  \/ user.super
  \/ \E role \in user.roles : SystemRoles[role] \cap required # {}

(* A row of the users table.                                               *)
UserRow ==
  [name : Handles, email : Handles, password : Passwords, active : BOOLEAN, super : BOOLEAN,
   roles : SUBSET DOMAIN SystemRoles, failed : Nat, locked : Nat \cup {Unset}, must_change : BOOLEAN]

ASSUME AccountsAssumption ==
  /\ Removed \notin UserRow /\ Unset \notin Nat
  /\ Admin \in Users /\ {AdminName, AdminEmail} \subseteq Handles /\ AdminPassword \in Passwords
  /\ MaxFailed \in Nat \ {0} /\ LockFor \in Nat \ {0}
  /\ IsFiniteSet(Logins) /\ Logins # {}
  /\ Registrations \subseteq [name : Handles, email : Handles, password : Passwords]
  /\ Updates \subseteq [password : Passwords \cup {Unset}, active : BOOLEAN \cup {Unset}]

Existing == {u \in Users : users[u] # Removed}
Token(session, type) == [user |-> session.user, issued |-> session.issued, type |-> type]
Unexpired(token) == now <= token.issued + (IF token.type = "access" THEN AccessFor ELSE RefreshFor)

(* get_current_user and get_current_active_user: the token must be one     *)
(* this process has not blacklisted, in date, an access token, and of a    *)
(* user whose row is active now.                                           *)
Accepts(token) ==
  /\ token \notin blacklist /\ Unexpired(token) /\ token.type = "access"
  /\ users[token.user] # Removed /\ users[token.user].active

(* A signed-in user with one of the permissions: require_permissions.      *)
Signed(session, required) ==
  /\ Accepts(Token(session, "access"))
  /\ HasPermission(users[session.user], required)

-----------------------------------------------------------------------------
(* init_system_data on an empty database: one super administrator, who is  *)
(* asked to change the password.                                           *)
NewUser(name, email, password) ==
  [name |-> name, email |-> email, password |-> password, active |-> TRUE, super |-> FALSE,
   roles |-> {}, failed |-> 0, locked |-> Unset, must_change |-> FALSE]
DefaultAdmin ==
  [NewUser(AdminName, AdminEmail, AdminPassword)
     EXCEPT !.super = TRUE, !.roles = {"super_admin"}, !.must_change = TRUE]

AccountsInit ==
  /\ bound \in AccountBounds
  /\ users = [u \in Users |-> IF u = Admin THEN DefaultAdmin ELSE Removed]
  /\ logins = [l \in Logins |-> Idle]
  /\ sessions = <<>> /\ blacklist = {} /\ now = 0
  /\ wrong = [u \in Users |-> 0]

(* A new pair of tokens.  The times in a token are whole seconds, so two   *)
(* pairs of one user issued together are the same strings.                 *)
Open(u) == sessions' = Append(sessions, [user |-> u, issued |-> now])

(* authenticate_user, first step: the row whose username or email is what  *)
(* was typed.  No row is a refusal and two are an error; neither leaves a  *)
(* trace here.                                                             *)
Matches(handle) == {u \in Existing : handle \in {users[u].name, users[u].email}}
LoginLoad(l, handle, password) ==
  /\ logins[l] = Idle /\ Cardinality({k \in Logins : logins[k] # Idle}) < bound.logins
  /\ \E u \in Matches(handle) :
       /\ Matches(handle) = {u}
       /\ logins' = [logins EXCEPT ![l] = [user |-> u, row |-> users[u], given |-> password]]
  /\ UNCHANGED <<users, sessions, blacklist, now, wrong, bound>>

(* An expired lock is dropped, and the count with it.                      *)
Unlocked(row) == IF row.locked = Unset THEN row ELSE [row EXCEPT !.locked = Unset, !.failed = 0]
\* Mutant of CountedWrong: one wrong answer too many.
CountedWrongLate(row) ==
  [row EXCEPT !.failed = @ + 1,
              !.locked = IF row.failed + 1 > MaxFailed THEN now + LockFor ELSE @]

(* A wrong password counts, and the last one allowed locks the account.    *)
CountedWrong(row) ==
  [row EXCEPT !.failed = @ + 1,
              !.locked = IF row.failed + 1 >= MaxFailed THEN now + LockFor ELSE @]
\* Mutant of Written: every column of the row is written, as loaded.
WrittenWhole(current, loaded, row) ==
  [current EXCEPT !.failed = row.failed, !.locked = row.locked]

(* The columns in which the answer differs from what was loaded.           *)
Written(current, loaded, row) ==
  [current EXCEPT !.failed = IF row.failed # loaded.failed THEN row.failed ELSE @,
                  !.locked = IF row.locked # loaded.locked THEN row.locked ELSE @]

InForce(row) == row.locked # Unset /\ row.locked > now

(* authenticate_user, second step, and the endpoint's answer.              *)
LoginLocked(l) ==
  /\ logins[l] # Idle /\ InForce(logins[l].row)
  /\ logins' = [logins EXCEPT ![l] = Idle]
  /\ UNCHANGED <<users, sessions, blacklist, now, wrong, bound>>

LoginWrong(l) ==
  /\ logins[l] # Idle /\ ~InForce(logins[l].row)
  /\ logins[l].given # logins[l].row.password
  /\ LET u == logins[l].user
         loaded == logins[l].row
         after == Written(users[u], loaded, CountedWrong(Unlocked(loaded)))
     IN /\ users' = [users EXCEPT ![u] = after]
        /\ wrong' = [wrong EXCEPT ![u] = IF InForce(users[u]) \/ InForce(after) THEN 0 ELSE @ + 1]
  /\ logins' = [logins EXCEPT ![l] = Idle]
  /\ UNCHANGED <<sessions, blacklist, now, bound>>

(* The right password resets the count even of a user who turns out to be  *)
(* disabled; only then is is_active, as loaded, looked at.                 *)
LoginRight(l) ==
  /\ logins[l] # Idle /\ ~InForce(logins[l].row)
  /\ logins[l].given = logins[l].row.password
  /\ Len(sessions) < bound.sessions
  /\ LET u == logins[l].user
         loaded == logins[l].row
     IN /\ users' = [users EXCEPT ![u] =
                       Written(@, loaded, [Unlocked(loaded) EXCEPT !.failed = 0])]
        /\ wrong' = [wrong EXCEPT ![u] = 0]
        /\ IF loaded.active THEN Open(u) ELSE UNCHANGED sessions
  /\ logins' = [logins EXCEPT ![l] = Idle]
  /\ UNCHANGED <<blacklist, now, bound>>

(* The refresh endpoint: verify_token, then the user as it is now.  The    *)
(* refresh token stays good, and logout never blacklists one.              *)
Refresh(i) ==
  LET token == Token(sessions[i], "refresh") IN
  /\ Len(sessions) < bound.sessions
  /\ token \notin blacklist /\ Unexpired(token) /\ users[token.user].active
  /\ Open(token.user)
  /\ UNCHANGED <<users, logins, blacklist, now, wrong, bound>>

(* The logout endpoint blacklists the access token it was called with.     *)
Logout(i) ==
  /\ Accepts(Token(sessions[i], "access"))
  /\ blacklist' = blacklist \cup {Token(sessions[i], "access")}
  /\ UNCHANGED <<users, logins, sessions, now, wrong, bound>>

(* register: open to all, or to a super administrator.  The search and the *)
(* unique columns both refuse a name or an email that is taken; an email   *)
(* may well be somebody's name.                                            *)
Register(u, form) ==
  /\ users[u] = Removed /\ Cardinality(Existing) < bound.users
  /\ \/ OpenRegistration
     \/ \E i \in DOMAIN sessions : Accepts(Token(sessions[i], "access")) /\ users[sessions[i].user].super
  /\ \A v \in Existing : users[v].name # form.name /\ users[v].email # form.email
  /\ users' = [users EXCEPT ![u] = NewUser(form.name, form.email, form.password)]
  /\ UNCHANGED <<logins, sessions, blacklist, now, wrong, bound>>

(* change_password asks for the old one; the tokens handed out stay good.  *)
ChangePassword(i, old, new) ==
  LET u == sessions[i].user IN
  /\ Accepts(Token(sessions[i], "access")) /\ old = users[u].password
  /\ users' = [users EXCEPT ![u].password = new, ![u].must_change = FALSE]
  /\ UNCHANGED <<logins, sessions, blacklist, now, wrong, bound>>

(* update_user: a new password (the lock stays), or is_active.             *)
UpdateUser(i, u, form) ==
  /\ Signed(sessions[i], On("user", {"write"})) /\ u \in Existing
  /\ users' = [users EXCEPT ![u].password = IF form.password = Unset THEN @ ELSE form.password,
                            ![u].active = IF form.active = Unset THEN @ ELSE form.active]
  /\ UNCHANGED <<logins, sessions, blacklist, now, wrong, bound>>

(* assign_roles replaces the roles; an id that is no role is dropped.      *)
AssignRoles(i, u, roles) ==
  /\ Signed(sessions[i], On("user", {"write"})) /\ u \in Existing
  /\ users' = [users EXCEPT ![u].roles = roles \cap DOMAIN SystemRoles]
  /\ UNCHANGED <<logins, sessions, blacklist, now, wrong, bound>>

(* A restart forgets the blacklist and the logins in progress.             *)
Restart ==
  /\ blacklist # {}
  /\ blacklist' = {} /\ logins' = [l \in Logins |-> Idle]
  /\ UNCHANGED <<users, sessions, now, wrong, bound>>

(* Time in units a login fits in: none lasts as long as a lock does.       *)
Tick ==
  /\ now < bound.time /\ \A l \in Logins : logins[l] = Idle
  /\ now' = now + 1
  /\ UNCHANGED <<users, logins, sessions, blacklist, wrong, bound>>

AccountsNext ==
  \/ \E l \in Logins :
       \/ \E handle \in Handles, password \in Passwords : LoginLoad(l, handle, password)
       \/ LoginLocked(l) \/ LoginWrong(l) \/ LoginRight(l)
  \/ \E i \in DOMAIN sessions :
       \/ Refresh(i) \/ Logout(i)
       \/ \E old, new \in Passwords : ChangePassword(i, old, new)
       \/ \E u \in Users :
            \/ \E form \in Updates : UpdateUser(i, u, form)
            \/ \E roles \in RoleLists : AssignRoles(i, u, roles)
  \/ \E u \in Users, form \in Registrations : Register(u, form)
  \/ Restart \/ Tick

-----------------------------------------------------------------------------
(* LOCKOUT: authenticate_user promises a lock after MaxFailed wrong        *)
(* answers.  Of n logins that overlap each may answer from a stale row: it *)
(* sets the count back to one more than it loaded, and one that loaded an  *)
(* expired lock may write no count at all.  Still the account is locked    *)
(* before more than this many wrong answers, which is MaxFailed - 1 when   *)
(* logins do not overlap.                                                  *)
LockoutBounded ==
  LET n == Cardinality(Logins) IN
  \A u \in Users : wrong[u] <= choose(MaxFailed + n - 1, n) + n - 2

(* LOCKS: a lock in force is neither lifted nor shortened, whatever is     *)
(* written by answers, right or wrong, to logins that loaded the row       *)
(* before it was locked, and by updates, new passwords and restarts.  One  *)
(* kind of answer does lift it: that to a login which had loaded an        *)
(* earlier lock, expired by then, and so writes that there is none.        *)
LocksStand ==
  [][\A u \in Existing :
       InForce(users[u]) =>
         \/ users'[u].locked # Unset /\ users'[u].locked >= users[u].locked
         \/ \E l \in Logins :
              /\ logins[l] # Idle /\ logins'[l] = Idle /\ logins[l].user = u
              /\ logins[l].row.locked # Unset /\ ~InForce(logins[l].row)]_accountVars
=============================================================================
