------------------------------- MODULE Identity -------------------------------
(***************************************************************************)
(* Accounts, sessions and roles: the authentication service, the session   *)
(* and permission middlewares, user administration, and the bootstrap of   *)
(* the first administrator.                                                *)
(*                                                                         *)
(* Nothing here is one transaction.  A login reads the account, compares   *)
(* the password (bcrypt, slow), writes the counters it computed from the   *)
(* row it read, then inserts a session.  A request passes the session      *)
(* middleware, which reads session, account and roles one after the other, *)
(* and its handler runs with what was read.  The permission middleware     *)
(* serves requests with the legacy X-User-Id header from a role cache with *)
(* a time to live, which a role change empties while a load may be under   *)
(* way.  A crash drops the requests and the cache.                         *)
(***************************************************************************)
EXTENDS Naturals, FiniteSets

CONSTANTS
  Users,          \* user ids; the user name is the user id
  Root,           \* BootstrapAdminUserID
  Passwords,      \* passwords that meet the policy
  RootPassword,   \* BootstrapAdminPassword
  Sessions,       \* session ids
  Requests,       \* requests in flight
  Routes,         \* the routes asked for, see RequiredPermission
  RoleSets,       \* the sets of roles an administrator may assign
  LegacyHeader,   \* METALDOCS_AUTH_LEGACY_HEADER_ENABLED
  MaxFailed,      \* LoginMaxFailedAttempts
  LockDuration,   \* LoginLockDuration
  SessionTTL,     \* SessionTTL
  CacheTTL,       \* ttl of CachedRoleProvider
  MaxTime,        \* bound on the clock
  MaxRequests,    \* bound on the requests sent
  MaxCrashes      \* bound on the crashes

Roles == {"admin", "editor", "reviewer", "viewer"}

ASSUME IdentityAssumption ==
  /\ Root \in Users /\ RootPassword \in Passwords
  /\ RoleSets \subseteq (SUBSET Roles) \ {{}} /\ LegacyHeader \in BOOLEAN
  /\ Routes \subseteq STRING /\ IsFiniteSet(Requests)
  /\ {MaxFailed, LockDuration, SessionTTL, CacheTTL} \subseteq Nat \ {0}
  /\ {MaxTime, MaxRequests, MaxCrashes} \subseteq Nat

VARIABLES
  now,      \* the clock
  ident,    \* auth_identities
  roles,    \* iam_user_roles
  sess,     \* auth_sessions
  cache,    \* items of CachedRoleProvider
  req,      \* requests in flight
  boot,     \* where the start of the server is, see Serving
  crashes,  \* crashes so far
  held,     \* history: the role sets each user had in each tick
  wrong,    \* history: wrong passwords presented for each user
  sent,     \* requests sent
  demoted   \* history: an administrator took the role from the last one

db == <<ident, roles, sess>>
history == <<held, wrong, demoted>>
ivars == <<now, db, cache, req, boot, crashes, sent, history>>

NoIdentity == [none |-> "identity"]
NoSession == [none |-> "session"]
NoEntry == [none |-> "entry"]
Idle == [phase |-> "idle"]
Known == {u \in Users : ident[u] # NoIdentity}
Admins == {u \in Users : "admin" \in roles[u]}

Account(pw) == [pw |-> pw, must |-> TRUE, fails |-> 0, lock |-> 0, active |-> TRUE]

IdInit ==
  /\ now = 0 /\ crashes = 0 /\ sent = 0 /\ demoted = FALSE /\ boot = "check"
  /\ ident = [u \in Users |-> NoIdentity] /\ roles = [u \in Users |-> {}]
  /\ sess = [s \in Sessions |-> NoSession]
  /\ cache = [u \in Users |-> NoEntry] /\ req = [r \in Requests |-> Idle]
  /\ held = [u \in Users |-> [t \in 0..MaxTime |-> {{}}]]
  /\ wrong = [u \in Users |-> 0]

(* The server is up: after a bootstrap, or without one. *)
Serving == boot \in {"up", "unchecked"}

(* A request begins on an idle slot of a server that serves. *)
Start(r) == Serving /\ req[r] = Idle /\ sent < MaxRequests /\ sent' = sent + 1

To(r, next) == req' = [req EXCEPT ![r] = next]

-----------------------------------------------------------------------------
(* What a role may do: the static authorizer.                                *)
Permissions(role) ==
  LET viewer == {"document:read", "version:read", "search:read"}
      reviewer == viewer \cup {"workflow:transition", "template:view", "template:export"}
      editor == reviewer \cup {"document:create", "document:edit",
                               "document:upload_attachment"}
  IN CASE role = "viewer" -> viewer
       [] role = "reviewer" -> reviewer
       [] role = "editor" -> editor
       [] role = "admin" -> editor \cup {"document:manage_permissions",
                              "iam:manage_roles", "template:edit", "template:publish"}
       [] OTHER -> {}

HasPermission(rs, perm) == \E role \in rs : perm \in Permissions(role)

(* The permission a route of the first API version asks for, by kind of      *)
(* route; the password routes need a session only.                           *)
RequiredPermission(route) ==
  CASE route \in {"read", "notifications", "export"} -> {"document:read"}
    [] route = "create" -> {"document:create"}
    [] route = "edit" -> {"document:edit"}
    [] route = "attach" -> {"document:upload_attachment"}
    [] route = "policies" -> {"document:manage_permissions"}
    [] route = "versions" -> {"version:read"}
    [] route = "search" -> {"search:read"}
    [] route = "submit" -> {"workflow:transition"}
    [] route \in {"manage", "metrics"} -> {"iam:manage_roles"}
    [] OTHER -> {}

Guarded(route) == RequiredPermission(route) # {}
IsPasswordChangeAllowedPath(route) == route = "password"

-----------------------------------------------------------------------------
(* The statements of the repositories. *)

(* Roles change in one transaction; the history follows. *)
SetRoles(u, rs) ==
  /\ roles' = [roles EXCEPT ![u] = rs]
  /\ held' = [held EXCEPT ![u][now] = @ \cup {rs}]
  /\ demoted' = (demoted \/ (Admins = {u} /\ "admin" \notin rs))

ReplaceUserRoles(u, rs) == SetRoles(u, rs)
UpsertUserAndAssignRole(u, role) == SetRoles(u, roles[u] \cup {role})
RolesByUserID(u) == roles[u]

RecordFailedLogin(u, attempts, lockedUntil) ==
  ident' = [ident EXCEPT ![u].fails = attempts, ![u].lock = lockedUntil]

RecordSuccessfulLogin(u) ==
  ident' = [ident EXCEPT ![u].fails = 0, ![u].lock = 0]

CreateSession(s, u) ==
  sess' = [sess EXCEPT ![s] = [user |-> u, expires |-> now + SessionTTL,
                               revoked |-> FALSE, cookie |-> roles[u] # {}]]

RevokeSession(s) == sess' = [sess EXCEPT ![s].revoked = TRUE]
RevokeSessionsByUserID(u) ==
  sess' = [s \in Sessions |-> IF sess[s] # NoSession /\ sess[s].user = u
                              THEN [sess[s] EXCEPT !.revoked = TRUE] ELSE sess[s]]

(* UpdateUser: a new password clears the counters; the lock state alone is   *)
(* not looked at, so a call that only resets it changes nothing.  No row, no *)
(* change.                                                                   *)
UpdateUser(u, change) ==
  ident' = [ident EXCEPT ![u] =
              IF u \notin Known THEN @
              ELSE [pw |-> IF "pw" \in DOMAIN change THEN change.pw ELSE @.pw,
                    must |-> IF "must" \in DOMAIN change THEN change.must ELSE @.must,
                    active |-> IF "active" \in DOMAIN change THEN change.active ELSE @.active,
                    fails |-> IF "pw" \in DOMAIN change THEN 0 ELSE @.fails,
                    lock |-> IF "pw" \in DOMAIN change THEN 0 ELSE @.lock]]

InsertIdentity(u, pw) == ident' = [ident EXCEPT ![u] = Account(pw)]

(* ON CONFLICT keeps the counters of the row that is there. *)
BootstrapAdmin ==
  ident' = [ident EXCEPT ![Root] =
              IF Root \notin Known THEN Account(RootPassword)
              ELSE [@ EXCEPT !.pw = RootPassword, !.must = TRUE, !.active = TRUE]]

-----------------------------------------------------------------------------
(* The start of the server. *)

(* Mutant: an account of the bootstrap administrator counts as an admin. *)
BootstrapLocalAdmin_ByAccount ==
  /\ boot = "check"
  /\ \/ boot' = "unchecked" /\ UNCHANGED ident
     \/ Root \in Known /\ boot' = "up" /\ UNCHANGED ident
     \/ Root \notin Known /\ BootstrapAdmin /\ boot' = "assign"
  /\ UNCHANGED <<now, roles, sess, cache, req, crashes, sent, history>>

(* Each start has its configuration.  The bootstrap is off unless it is      *)
(* enabled, as it is by default in the local environment only, and has a     *)
(* password: then the server serves whoever its administrators are.          *)
BootstrapLocalAdmin ==
  /\ boot = "check"
  /\ \/ boot' = "unchecked" /\ UNCHANGED ident
     \/ Admins # {} /\ boot' = "up" /\ UNCHANGED ident
     \/ Admins = {} /\ BootstrapAdmin /\ boot' = "assign"
  /\ UNCHANGED <<now, roles, sess, cache, req, crashes, sent, history>>

AssignBootstrapRole ==
  /\ boot = "assign" /\ boot' = "up"
  /\ UpsertUserAndAssignRole(Root, "admin")
  /\ UNCHANGED <<now, ident, sess, cache, req, crashes, sent, wrong>>

Crash ==
  /\ crashes < MaxCrashes /\ crashes' = crashes + 1
  /\ boot' = "check" /\ cache' = [u \in Users |-> NoEntry]
  /\ req' = [r \in Requests |-> Idle]
  /\ UNCHANGED <<now, db, sent, history>>

Tick ==
  /\ now < MaxTime /\ now' = now + 1
  /\ held' = [u \in Users |-> [held[u] EXCEPT ![now + 1] = {roles[u]}]]
  /\ UNCHANGED <<db, cache, req, boot, crashes, sent, wrong, demoted>>

-----------------------------------------------------------------------------
(* Login: Authenticate, in the steps that other requests can come between.   *)

Authenticate(r, u, pw) ==
  /\ Start(r)
  /\ u \in Known /\ ident[u].active /\ ~(ident[u].lock > now)
  /\ To(r, [phase |-> "login", u |-> u, pw |-> pw, id |-> ident[u]])
  /\ UNCHANGED <<now, db, cache, boot, crashes, history>>

(* Mutant: a failure is counted before and after the comparison. *)
LoginFailed_Twice(r) ==
  /\ req[r].phase = "login" /\ req[r].pw # req[r].id.pw
  /\ LET attempts == req[r].id.fails + 2
     IN RecordFailedLogin(req[r].u, attempts,
                          IF attempts >= MaxFailed THEN now + LockDuration ELSE 0)
  /\ wrong' = [wrong EXCEPT ![req[r].u] = @ + 1]
  /\ To(r, Idle)
  /\ UNCHANGED <<now, roles, sess, cache, boot, crashes, sent, held, demoted>>

LoginFailed(r) ==
  /\ req[r].phase = "login" /\ req[r].pw # req[r].id.pw
  /\ LET attempts == req[r].id.fails + 1
     IN RecordFailedLogin(req[r].u, attempts,
                          IF attempts >= MaxFailed THEN now + LockDuration ELSE 0)
  /\ wrong' = [wrong EXCEPT ![req[r].u] = @ + 1]
  /\ To(r, Idle)
  /\ UNCHANGED <<now, roles, sess, cache, boot, crashes, sent, held, demoted>>

LoginSucceeded(r) ==
  /\ req[r].phase = "login" /\ req[r].pw = req[r].id.pw
  /\ RecordSuccessfulLogin(req[r].u)
  /\ To(r, [phase |-> "session", u |-> req[r].u])
  /\ UNCHANGED <<now, roles, sess, cache, boot, crashes, sent, history>>

(* The cookie is handed out when the account has roles. *)
NewSession(r, s) ==
  /\ req[r].phase = "session" /\ sess[s] = NoSession
  /\ CreateSession(s, req[r].u) /\ To(r, Idle)
  /\ UNCHANGED <<now, ident, roles, cache, boot, crashes, sent, history>>

Logout(s) ==
  /\ Serving /\ sess[s] # NoSession /\ sess[s].cookie /\ ~sess[s].revoked
  /\ RevokeSession(s)
  /\ UNCHANGED <<now, ident, roles, cache, req, boot, crashes, sent, history>>

-----------------------------------------------------------------------------
(* The middlewares.  An admitted request keeps the user and the roles it was *)
(* admitted with, when it began and when it was admitted.                    *)

Admitted(r, u, rs, must, route, since) ==
  /\ Guarded(route) => \E p \in RequiredPermission(route) : HasPermission(rs, p)
  /\ To(r, [phase |-> "act", u |-> u, roles |-> rs, must |-> must,
            route |-> route, since |-> since, at |-> now])

(* ResolveSession up to the touch of the session. *)
FindSession(r, s, route) ==
  /\ Start(r) /\ sess[s] # NoSession /\ sess[s].cookie
  /\ ~sess[s].revoked /\ ~(sess[s].expires < now)
  /\ To(r, [phase |-> "resolve", u |-> sess[s].user, route |-> route, since |-> now])
  /\ UNCHANGED <<now, db, cache, boot, crashes, history>>

(* buildCurrentUser and the rest of both middlewares; a refusal is a Drop.   *)
BuildCurrentUser(r) ==
  LET u == req[r].u
  IN /\ req[r].phase = "resolve"
     /\ RolesByUserID(u) # {}
     /\ ident[u].must => IsPasswordChangeAllowedPath(req[r].route)
     /\ Admitted(r, u, RolesByUserID(u), ident[u].must, req[r].route, req[r].since)
     /\ UNCHANGED <<now, db, cache, boot, crashes, sent, history>>

(* The legacy header: the roles come from the cache while the entry lives.   *)
LegacyHit(r, u, route) ==
  /\ LegacyHeader /\ Start(r) /\ Guarded(route)
  /\ cache[u] # NoEntry /\ now < cache[u].expires
  /\ Admitted(r, u, cache[u].roles, FALSE, route, now)
  /\ UNCHANGED <<now, db, cache, boot, crashes, history>>

LegacyMiss(r, u, route) ==
  /\ LegacyHeader /\ Start(r) /\ Guarded(route)
  /\ cache[u] # NoEntry => ~(now < cache[u].expires)
  /\ To(r, [phase |-> "load", u |-> u, route |-> route, since |-> now])
  /\ UNCHANGED <<now, db, cache, boot, crashes, history>>

(* A user without roles is an error, which is not cached. *)
LoadRoles(r) ==
  /\ req[r].phase = "load" /\ RolesByUserID(req[r].u) # {}
  /\ To(r, [phase |-> "store", u |-> req[r].u, route |-> req[r].route,
            since |-> req[r].since, roles |-> RolesByUserID(req[r].u)])
  /\ UNCHANGED <<now, db, cache, boot, crashes, sent, history>>

(* Mutant: the entry lives for its time after it is stored. *)
CacheEntry_FromNow(r) == [roles |-> req[r].roles, expires |-> now + CacheTTL]

(* The entry lives from the time the lookup began, before the roles were     *)
(* read.                                                                     *)
CacheEntry(r) == [roles |-> req[r].roles, expires |-> req[r].since + CacheTTL]

StoreRoles(r) ==
  LET u == req[r].u
      may == \E p \in RequiredPermission(req[r].route) : HasPermission(req[r].roles, p)
  IN /\ req[r].phase = "store"
     /\ cache' = [cache EXCEPT ![u] = CacheEntry(r)]
     /\ IF may THEN Admitted(r, u, req[r].roles, FALSE, req[r].route, req[r].since)
        ELSE To(r, Idle)
     /\ UNCHANGED <<now, db, boot, crashes, sent, history>>

InvalidateUser(u) == cache' = [cache EXCEPT ![u] = NoEntry]

-----------------------------------------------------------------------------
(* The handlers, which run with what the middlewares read. *)

Acting(r, route) == req[r].phase = "act" /\ req[r].route = route

(* Any handler that reads, an error, a refusal, a client that goes away. *)
Drop(r) ==
  /\ req[r] # Idle /\ To(r, Idle)
  /\ UNCHANGED <<now, db, cache, boot, crashes, sent, history>>

(* current is the current password given, or none.  It may be left out by a  *)
(* request that was resolved when a change was required.                     *)
ChangePasswordForUser(r, current, new) ==
  LET u == req[r].u
  IN /\ Acting(r, "password") /\ u \in Known
     /\ IF current = {} THEN req[r].must ELSE current = {ident[u].pw}
     /\ UpdateUser(u, [pw |-> new, must |-> FALSE]) /\ To(r, Idle)
     /\ UNCHANGED <<now, roles, sess, cache, boot, crashes, sent, history>>

HandleChangePassword(r) ==
  \E new \in Passwords, current \in {{}} \cup {{p} : p \in Passwords} :
    ChangePasswordForUser(r, current, new)

(* CreateUser inserts the account, then the roles without telling the cache. *)
CreateUser(r, u, pw, rs) ==
  /\ Acting(r, "manage") /\ u \notin Known
  /\ InsertIdentity(u, pw)
  /\ To(r, [phase |-> "roles", u |-> u, roles |-> rs])
  /\ UNCHANGED <<now, roles, sess, cache, boot, crashes, sent, history>>

CreateUserRoles(r) ==
  /\ req[r].phase = "roles"
  /\ ReplaceUserRoles(req[r].u, req[r].roles) /\ To(r, Idle)
  /\ UNCHANGED <<now, ident, sess, cache, boot, crashes, sent, wrong>>

(* AdminService: the roles in one transaction, then the cache. *)
AdminReplaceUserRoles(r, u, rs) ==
  /\ Acting(r, "manage") /\ ReplaceUserRoles(u, rs)
  /\ To(r, [phase |-> "invalidate", u |-> u])
  /\ UNCHANGED <<now, ident, sess, cache, boot, crashes, sent, wrong>>

AdminAssignRole(r, u, role) ==
  /\ Acting(r, "manage") /\ UpsertUserAndAssignRole(u, role)
  /\ To(r, [phase |-> "invalidate", u |-> u])
  /\ UNCHANGED <<now, ident, sess, cache, boot, crashes, sent, wrong>>

Invalidate(r) ==
  /\ req[r].phase = "invalidate" /\ InvalidateUser(req[r].u) /\ To(r, Idle)
  /\ UNCHANGED <<now, db, boot, crashes, sent, history>>

AdminResetPassword(r, u, pw) ==
  /\ Acting(r, "manage") /\ UpdateUser(u, [pw |-> pw, must |-> TRUE])
  /\ To(r, [phase |-> "revoke", u |-> u])
  /\ UNCHANGED <<now, roles, sess, cache, boot, crashes, sent, history>>

RevokeAfterReset(r) ==
  /\ req[r].phase = "revoke" /\ RevokeSessionsByUserID(req[r].u) /\ To(r, Idle)
  /\ UNCHANGED <<now, ident, roles, cache, boot, crashes, sent, history>>

UnlockUser(r, u) ==
  /\ Acting(r, "manage") /\ UpdateUser(u, << >>) /\ To(r, Idle)
  /\ UNCHANGED <<now, roles, sess, cache, boot, crashes, sent, history>>

PatchUser(r, u, change) ==
  /\ Acting(r, "manage") /\ UpdateUser(u, change) /\ To(r, Idle)
  /\ UNCHANGED <<now, roles, sess, cache, boot, crashes, sent, history>>

(* The routes of the administration, with what they decode. *)
HandleCreateUser(r) ==
  \E u \in Users, pw \in Passwords, rs \in RoleSets : CreateUser(r, u, pw, rs)
HandlePatchUser(r) ==
  \E u \in Users : \/ \E b \in BOOLEAN : PatchUser(r, u, [active |-> b])
                   \/ \E pw \in Passwords : PatchUser(r, u, [pw |-> pw])
HandleUserRoleUpsert(r) == \E u \in Users, role \in Roles :
  {role} \in RoleSets /\ AdminAssignRole(r, u, role)
HandleReplaceUserRoles(r) == \E u \in Users, rs \in RoleSets : AdminReplaceUserRoles(r, u, rs)
HandleResetPassword(r) == \E u \in Users, pw \in Passwords : AdminResetPassword(r, u, pw)
HandleUnlockUser(r) == \E u \in Users : UnlockUser(r, u)

HandleUserRoute(r) ==
  \/ HandleCreateUser(r) \/ HandlePatchUser(r) \/ HandleUserRoleUpsert(r)
  \/ HandleReplaceUserRoles(r) \/ HandleResetPassword(r) \/ HandleUnlockUser(r)

(* The login and logout routes, which need no session. *)
HandleLogin(r) == \E u \in Users, pw \in Passwords : Authenticate(r, u, pw)
HandleLogout == \E s \in Sessions : Logout(s)

AuthMiddleware(r) ==
  \/ \E route \in Routes :
       \/ \E s \in Sessions : FindSession(r, s, route)
       \/ \E u \in Users : LegacyHit(r, u, route) \/ LegacyMiss(r, u, route)
  \/ BuildCurrentUser(r) \/ LoadRoles(r) \/ StoreRoles(r)

IdNext ==
  \/ BootstrapLocalAdmin \/ AssignBootstrapRole \/ Crash \/ Tick \/ HandleLogout
  \/ \E r \in Requests :
       \/ HandleLogin(r) \/ LoginFailed(r) \/ LoginSucceeded(r)
       \/ \E s \in Sessions : NewSession(r, s)
       \/ AuthMiddleware(r) \/ Drop(r)
       \/ HandleChangePassword(r) \/ HandleUserRoute(r)
       \/ CreateUserRoles(r) \/ Invalidate(r) \/ RevokeAfterReset(r)

IdSpec == IdInit /\ [][IdNext]_ivars

-----------------------------------------------------------------------------
Times == 0..(MaxTime + SessionTTL + LockDuration + CacheTTL)

IdTypeOK ==
  /\ now \in 0..MaxTime /\ boot \in {"check", "assign", "up", "unchecked"}
  /\ roles \in [Users -> SUBSET Roles]
  /\ \A u \in Known : ident[u] \in [pw : Passwords, must : BOOLEAN,
                         fails : 0..MaxRequests, lock : Times, active : BOOLEAN]
  /\ \A s \in Sessions : sess[s] # NoSession =>
       /\ sess[s] \in [user : Users, expires : Times, revoked : BOOLEAN, cookie : BOOLEAN]
       /\ sess[s].user \in Known
  /\ \A u \in Users : cache[u] # NoEntry =>
       cache[u] \in [roles : (SUBSET Roles) \ {{}}, expires : Times]

(* How stale an authorization may be: a request admitted by either           *)
(* middleware was admitted with roles its user held at some moment less than *)
(* CacheTTL before it began, or while it was being admitted, although an     *)
(* invalidation may come between the load of the roles and their storing     *)
(* (cached_role_provider.go, both middlewares).                              *)
AdmittedHeld ==
  /\ IdTypeOK
  /\ \A r \in Requests : req[r].phase = "act" =>
       \E t \in 0..req[r].at :
         t + CacheTTL > req[r].since /\ req[r].roles \in held[req[r].u][t]

(* A lock is earned: the counter never exceeds the wrong passwords presented *)
(* and an account that is locked saw at least MaxFailed of them, although    *)
(* every login writes a counter computed from the row it read (service.go).  *)
LockEarned ==
  \A u \in Known : /\ ident[u].fails <= wrong[u]
                   /\ ident[u].lock > 0 => wrong[u] >= MaxFailed

(* A server that was started with the bootstrap enabled has an administrator *)
(* when it serves, whatever crash interrupted this or an earlier bootstrap   *)
(* and whatever starts without one came between, unless an administrator     *)
(* removed the last one (BootstrapLocalAdmin).                               *)
AdminAfterBoot == boot = "up" /\ ~demoted => Admins # {}

===============================================================================
