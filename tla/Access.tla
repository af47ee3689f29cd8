------------------------------- MODULE Access -------------------------------
(***************************************************************************)
(* Who may do what: users and their roles, the sign-in of an operator, API *)
(* tokens, and the handlers that change any of them.  A request loads its  *)
(* permissions once, in the middleware, and its handler acts on them later *)
(* while other requests change roles and revoke tokens.                    *)
(*                                                                         *)
(* Every action is one SQL statement.  The identity provider is external:  *)
(* it vouches for a subject and for whatever e-mail address it has for it. *)
(***************************************************************************)
EXTENDS Naturals, FiniteSets

CONSTANTS
    Users,       \* ids of rows of users
    Subjects,    \* subjects of the identity provider
    Emails,      \* e-mail addresses
    Tokens,      \* rows of api_tokens
    Requests,    \* requests in flight
    MaxCalls     \* bound: requests of a behaviour

None == "none"

ASSUME AccessAssumption ==
    /\ IsFiniteSet(Users) /\ IsFiniteSet(Tokens) /\ IsFiniteSet(Requests)
    /\ MaxCalls \in Nat
    /\ None \notin Users \cup Subjects \cup Emails   \* a NULL is no value of a column

Roles == {"admin", "operator"}
Blank == "blank"   \* an entry of a role list that is empty once trimmed

VARIABLES
    open,    \* no OIDC and ALLOW_OPEN_API: there is no middleware
    users,   \* users: e-mail and linked subject of a row
    roles,   \* user_roles
    token,   \* api_tokens
    seeding, \* the user a running seed-admin has inserted
    req,     \* the requests
    held,    \* history: the roles a user had at some time since a request came
    calls    \* requests so far

vars == <<open, users, roles, token, seeding, req, held, calls>>

Idle == [pc |-> "idle", user |-> None, sub |-> None, email |-> None, tok |-> None,
         perms |-> {}, scope |-> {}, target |-> None, counted |-> {}]
NoRow == [email |-> None, sub |-> None]
NoToken == [state |-> "absent", owner |-> None, scope |-> {}]

Exists(u) == users[u].email # None
RoleSets == [Users -> SUBSET Roles]
Steps == {"idle", "token", "update", "insert", "load", "handler", "revoke", "create"}
Permissions == {"*", "apitoken.write", "machine.read"}

\* The roles seeded by the migrations; the other permissions of an operator
\* make no difference here.
RolePermissions(role) ==
    IF role = "admin" THEN {"*"} ELSE {"apitoken.write", "machine.read"}

PermissionsOf(rs) == UNION {RolePermissions(role) : role \in rs}

TypeOK ==
    /\ open \in BOOLEAN
    /\ users \in [Users -> [email : Emails \cup {None}, sub : Subjects \cup {None}]]
    /\ \A u, v \in Users : u # v /\ Exists(u) =>
          /\ users[u].email # users[v].email
          /\ users[u].sub # None => users[u].sub # users[v].sub
    /\ roles \in RoleSets
    /\ \A u \in Users : roles[u] # {} => Exists(u)
    /\ token \in [Tokens -> [state : {"absent", "live", "expired", "revoked"},
                             owner : Users \cup {None}, scope : SUBSET Roles]]
    /\ \A t \in Tokens : token[t].state # "absent" => token[t].owner \in Users
    /\ req \in [Requests ->
                  [pc : Steps, user : Users \cup {None}, sub : Subjects \cup {None},
                   email : Emails \cup {None}, tok : Tokens \cup {None},
                   perms : SUBSET Permissions, scope : SUBSET Roles,
                   target : Users \cup {None}, counted : SUBSET Users]]
    /\ seeding \in Users \cup {None}
    /\ held \in [Requests -> RoleSets]
    /\ calls \in 0..MaxCalls

Nobody == [u \in Users |-> {}]

Init ==
    /\ open \in BOOLEAN
    /\ users = [u \in Users |-> NoRow]
    /\ roles = Nobody
    /\ token = [t \in Tokens |-> NoToken]
    /\ seeding = None
    /\ req = [r \in Requests |-> Idle]
    /\ held = [r \in Requests |-> Nobody]
    /\ calls = 0

Admins == {u \in Users : "admin" \in roles[u]}
Done(r) ==
    /\ req' = [req EXCEPT ![r] = Idle]
    /\ held' = [held EXCEPT ![r] = Nobody]

\* user_roles changes while the requests in flight look on.
SetRoles(u, rs, gone) ==
    /\ roles' = [roles EXCEPT ![u] = rs]
    /\ held' = [r \in Requests |->
                  IF r \in gone \/ req[r].pc = "idle" THEN Nobody
                  ELSE [held[r] EXCEPT ![u] = @ \cup rs]]

-----------------------------------------------------------------------------
(***************************************************************************)
(* The middleware.                                                         *)
(***************************************************************************)

\* A request comes with an API token, with an ID token, or to an open API.
Arrive(r) ==
    /\ req[r].pc = "idle" /\ calls < MaxCalls
    /\ \/ /\ ~open
          /\ \E t \in Tokens : req' = [req EXCEPT ![r] = [Idle EXCEPT !.pc = "token", !.tok = t]]
       \/ /\ ~open
          /\ \E s \in Subjects, e \in Emails :
               req' = [req EXCEPT ![r] = [Idle EXCEPT !.pc = "update", !.sub = s, !.email = e]]
       \/ /\ open
          /\ req' = [req EXCEPT ![r] = [Idle EXCEPT !.pc = "handler", !.perms = {"*"}]]
    /\ held' = [held EXCEPT ![r] = roles]
    /\ calls' = calls + 1
    /\ UNCHANGED <<open, seeding, users, roles, token>>

\* UPDATE ... SET last_used_at; RETURNING the owner and the scope.
AuthenticateAPIToken(r) ==
    /\ req[r].pc = "token"
    /\ LET t == token[req[r].tok]
       IN  \/ /\ t.state = "live"
              /\ req' = [req EXCEPT ![r] = [@ EXCEPT !.pc = "load", !.user = t.owner,
                                                     !.scope = t.scope]]
              /\ UNCHANGED held
           \/ /\ t.state # "live"
              /\ Done(r)
    /\ UNCHANGED <<open, seeding, users, roles, token, calls>>

\* The row of the subject takes the address the provider has now.  The
\* UPDATE finds no row, or breaks the unique index when another row has the
\* address: the resolver goes on with its second statement either way.
ResolveBySubject(r) ==
    /\ req[r].pc = "update"
    /\ LET mine == {u \in Users : users[u].sub = req[r].sub}
           free == \A u \in Users \ mine : users[u].email # req[r].email
       IN  \/ /\ mine = {} \/ ~free
              /\ req' = [req EXCEPT ![r].pc = "insert"]
              /\ UNCHANGED users
           \/ /\ free
              /\ \E u \in mine :
                   /\ users' = [users EXCEPT ![u].email = req[r].email]
                   /\ req' = [req EXCEPT ![r] = [@ EXCEPT !.pc = "load", !.user = u]]
    /\ UNCHANGED <<open, seeding, roles, token, held, calls>>

\* SET oidc_subject = COALESCE(users.oidc_subject, EXCLUDED.oidc_subject)
Link(row, s) == IF row.sub = None THEN [row EXCEPT !.sub = s] ELSE row

\* INSERT ... ON CONFLICT (email) DO UPDATE.  It breaks the unique index on
\* the subject when a concurrent sign-in has linked it to another row.
ResolveByEmail(r) ==
    /\ req[r].pc = "insert"
    /\ \E u \in Users :
         LET s == req[r].sub
             found == \E v \in Users : users[v].email = req[r].email
             row == IF found THEN Link(users[u], s) ELSE [email |-> req[r].email, sub |-> s]
         IN  /\ IF found THEN users[u].email = req[r].email ELSE ~Exists(u)
             /\ \/ /\ \E v \in Users \ {u} : users[v].sub = s /\ row.sub = s
                   /\ Done(r)
                   /\ UNCHANGED users
                \/ /\ ~\E v \in Users \ {u} : users[v].sub = s /\ row.sub = s
                   /\ users' = [users EXCEPT ![u] = row]
                   /\ req' = [req EXCEPT ![r] = [@ EXCEPT !.pc = "load", !.user = u]]
                   /\ UNCHANGED held
    /\ UNCHANGED <<open, seeding, roles, token, calls>>

\* Mutant: the permissions of the named roles, whoever holds them.
LoadScopeOnly(user, scope) == PermissionsOf(IF scope = {} THEN roles[user] ELSE scope)

\* LoadUserPermissions, LoadUserPermissionsScoped
LoadUserPermissions(user, scope) ==
    PermissionsOf(IF scope = {} THEN roles[user] ELSE roles[user] \cap scope)

LoadPermissions(r) ==
    /\ req[r].pc = "load"
    /\ LET perms == LoadUserPermissions(req[r].user, req[r].scope)
       IN  req' = [req EXCEPT ![r] = [Idle EXCEPT !.pc = "handler", !.user = req[r].user,
                                                  !.perms = perms]]
    /\ UNCHANGED <<open, seeding, users, roles, token, held, calls>>

\* Without a principal every check passes.
HasPerm(r, perm) == "*" \in req[r].perms \/ perm \in req[r].perms
UserID(r) == req[r].user
Calls(r, perm) == req[r].pc = "handler" /\ HasPerm(r, perm)

-----------------------------------------------------------------------------
(***************************************************************************)
(* The handlers.                                                           *)
(***************************************************************************)

\* INSERT INTO user_roles ... SELECT, ON CONFLICT DO NOTHING.
GrantRole(r, u, role) ==
    /\ SetRoles(u, roles[u] \cup {role}, {r})
    /\ req' = [req EXCEPT ![r] = Idle]

\* DELETE FROM user_roles; it may find no row.
RevokeRole(r, u, role) ==
    /\ SetRoles(u, roles[u] \ {role}, {r})
    /\ req' = [req EXCEPT ![r] = Idle]

\* The foreign key refuses a user that does not exist.
GrantUserRole(r, u, role) ==
    /\ Calls(r, "user.write")
    /\ \/ /\ Exists(u)
          /\ GrantRole(r, u, role)
       \/ /\ ~Exists(u)
          /\ Done(r)
          /\ UNCHANGED roles
    /\ UNCHANGED <<open, seeding, users, token, calls>>

\* Mutant: the guard counts the administrators, the user among them.
CountAdmins(u) == Admins

CountOtherAdmins(u) == Admins \ {u}

\* The count of the lockout guard; the model keeps whom it counted.
RevokeUserRoleGuard(r, u) ==
    /\ Calls(r, "user.write")
    /\ \/ /\ CountOtherAdmins(u) = {}
          /\ Done(r)
       \/ /\ CountOtherAdmins(u) # {}
          /\ req' = [req EXCEPT ![r] = [@ EXCEPT !.pc = "revoke", !.target = u,
                                                 !.counted = CountOtherAdmins(u)]]
          /\ UNCHANGED held
    /\ UNCHANGED <<open, seeding, users, roles, token, calls>>

\* The role admin, after the count.
RevokeAdmin(r) ==
    /\ req[r].pc = "revoke"
    /\ RevokeRole(r, req[r].target, "admin")
    /\ UNCHANGED <<open, seeding, users, token, calls>>

\* Any other role, at once.
RevokeOtherRole(r, u, role) ==
    /\ Calls(r, "user.write") /\ role # "admin"
    /\ RevokeRole(r, u, role)
    /\ UNCHANGED <<open, seeding, users, token, calls>>

ListUserRoleNames(user) == roles[user]

\* Mutant: any role there is may be asked for.
ValidateTokenScopeAny(owned, asked) ==
    [ok |-> asked \ {Blank} \subseteq Roles, scope |-> asked \ {Blank}]

\* Blanks are skipped; every other role must be one the owner has.
ValidateTokenScope(owned, asked) ==
    [ok |-> asked \ {Blank} \subseteq owned, scope |-> asked \ {Blank}]

\* The roles are read, and the token is inserted by the next statement; no
\* roles are read when none was asked for.  An open API has no owner for it.
CreateAPIToken(r, asked) ==
    /\ Calls(r, "apitoken.write")
    /\ LET v == ValidateTokenScope(ListUserRoleNames(UserID(r)), asked)
       IN  \/ /\ UserID(r) # None /\ v.ok
              /\ req' = [req EXCEPT ![r] = [@ EXCEPT !.pc = "create", !.scope = v.scope]]
              /\ UNCHANGED held
           \/ /\ UserID(r) # None /\ ~v.ok
              /\ Done(r)
           \/ /\ UserID(r) = None
              /\ Done(r)
    /\ UNCHANGED <<open, seeding, users, roles, token, calls>>

InsertAPIToken(r, t) ==
    /\ req[r].pc = "create"
    /\ token[t].state = "absent"
    /\ token' = [token EXCEPT ![t] = [state |-> "live", owner |-> UserID(r),
                                      scope |-> req[r].scope]]
    /\ Done(r)
    /\ UNCHANGED <<open, seeding, users, roles, calls>>

\* WHERE of the UPDATE: a token of the user that was not revoked before.
Revocable(user, t) == token[t].owner = user /\ token[t].state \in {"live", "expired"}

RevokeAPIToken(r, t) ==
    /\ Calls(r, "apitoken.write")
    /\ \/ /\ UserID(r) # None /\ Revocable(UserID(r), t)
          /\ token' = [token EXCEPT ![t].state = "revoked"]
       \/ /\ ~(UserID(r) # None /\ Revocable(UserID(r), t))
          /\ UNCHANGED token
    /\ Done(r)
    /\ UNCHANGED <<open, seeding, users, roles, calls>>

\* Listings, and calls the permissions do not cover.
Read(r) ==
    /\ req[r].pc = "handler"
    /\ Done(r)
    /\ UNCHANGED <<open, seeding, users, roles, token, calls>>

\* expires_at passes.
Expire(t) ==
    /\ token[t].state = "live"
    /\ token' = [token EXCEPT ![t].state = "expired"]
    /\ UNCHANGED <<open, seeding, users, roles, req, held, calls>>

\* "api seed-admin <email>": two statements.
SeedAdminUser(e) ==
    /\ seeding = None
    /\ \E u \in Users :
         /\ IF \E v \in Users : users[v].email = e THEN users[u].email = e ELSE ~Exists(u)
         /\ users' = [users EXCEPT ![u].email = e]
         /\ seeding' = u
    /\ UNCHANGED <<open, roles, token, req, held, calls>>

SeedAdminRole ==
    /\ seeding # None
    /\ SetRoles(seeding, roles[seeding] \cup {"admin"}, {})
    /\ seeding' = None
    /\ UNCHANGED <<open, users, token, req, calls>>

-----------------------------------------------------------------------------
Next ==
    \/ \E r \in Requests :
         \/ Arrive(r) \/ AuthenticateAPIToken(r)
         \/ ResolveBySubject(r) \/ ResolveByEmail(r) \/ LoadPermissions(r)
         \/ \E u \in Users : \/ RevokeUserRoleGuard(r, u)
                             \/ \E role \in Roles : \/ GrantUserRole(r, u, role)
                                                    \/ RevokeOtherRole(r, u, role)
         \/ RevokeAdmin(r)
         \/ \E asked \in SUBSET (Roles \cup {Blank}) : CreateAPIToken(r, asked)
         \/ \E t \in Tokens : InsertAPIToken(r, t) \/ RevokeAPIToken(r, t)
         \/ Read(r)
    \/ \E t \in Tokens : Expire(t)
    \/ \E e \in Emails : SeedAdminUser(e)
    \/ SeedAdminRole

Spec == Init /\ [][Next]_vars

-----------------------------------------------------------------------------
(***************************************************************************)
(* Properties.                                                             *)
(***************************************************************************)

\* Roles are changed by seed-admin, in an open API, or by a request whose user
\* was an administrator at some time since it came: neither a scoped token
\* nor permissions loaded before a revocation give more than that.
RoleChangesByAdmins ==
    [][roles' # roles =>
         \/ open
         \/ SeedAdminRole
         \/ \E r \in Requests : /\ req[r].pc # "idle" /\ req'[r].pc = "idle"
                                /\ "admin" \in held[r][UserID(r)]]_vars

\* Revoking admin "is refused when it would leave zero admins": it is lost all
\* the same only to two revocations that overlap, when everyone the guard
\* counted has been revoked between its count and its DELETE.
LastAdminNeedsRace ==
    [][Admins # {} /\ Admins' = {} =>
         \E r \in Requests : /\ req[r].pc = "revoke"
                             /\ req[r].counted # {}
                             /\ req[r].counted \cap Admins = {}]_vars

\* "Revoking the admin role is refused when it would leave zero admins."
NeverLockedOut == [][Admins # {} => Admins' # {}]_vars

\* "cannot scope token to role: you do not hold it": a token is made for the
\* user of its request, and names only roles this user held at some time
\* since the request came, although they are read one statement earlier and
\* may be revoked in between.
TokenScopeWasHeld ==
    [][\A t \in Tokens : token[t].state = "absent" /\ token'[t].state # "absent" =>
         \E r \in Requests : /\ req[r].pc # "idle" /\ req'[r].pc = "idle"
                             /\ token'[t].owner = UserID(r)
                             /\ token'[t].scope \subseteq held[r][UserID(r)]]_vars

\* Not so: "adopt the pre-seeded row (seed-admin creates users by email with a
\* NULL oidc_subject; the first OIDC login from that email must link)", that is,
\* a subject is signed in as a row linked to it.  The row adopted for its
\* address may be linked to another subject, and keeps that one.
SubjectKeepsUser ==
    [][\A r \in Requests :
         req[r].sub # None /\ req[r].pc # "load" /\ req'[r].pc = "load" =>
             users'[req'[r].user].sub = req[r].sub]_vars

=============================================================================
