---------------------------- MODULE AccessProofs ----------------------------
(***************************************************************************)
(* Users, roles and tokens, for any number of users, subjects, addresses,  *)
(* tokens and requests: no two rows share an address or a subject, roles   *)
(* are changed by administrators only, the last administrator is lost only *)
(* to overlapping revocations, and a token names roles its owner held.     *)
(***************************************************************************)
EXTENDS Access, TLAPS

Rows == [email : Emails \cup {None}, sub : Subjects \cup {None}]
TokenRows == [state : {"absent", "live", "expired", "revoked"},
              owner : Users \cup {None}, scope : SUBSET Roles]
Reqs == [pc : Steps, user : Users \cup {None}, sub : Subjects \cup {None},
         email : Emails \cup {None}, tok : Tokens \cup {None},
         perms : SUBSET Permissions, scope : SUBSET Roles,
         target : Users \cup {None}, counted : SUBSET Users]

\* The unique indexes of users, and a subject only in a row that exists.
Identities ==
    /\ users \in [Users -> Rows]
    /\ \A u, v \in Users : u # v /\ Exists(u) =>
          /\ users[u].email # users[v].email
          /\ users[u].sub # None => users[u].sub # users[v].sub
    /\ \A u \in Users : users[u].sub # None => Exists(u)

\* Roles, also the one seed-admin is about to grant, belong to existing rows.
Grants ==
    /\ roles \in RoleSets
    /\ \A u \in Users : roles[u] # {} => Exists(u)
    /\ seeding \in Users \cup {None}
    /\ seeding # None => Exists(seeding)

TokensOK ==
    /\ token \in [Tokens -> TokenRows]
    /\ \A t \in Tokens : token[t].state # "absent" => token[t].owner \in Users

\* What request r has been vouched for at each of its steps.
Vouched(r) ==
    /\ req[r].pc # "idle" => \A u \in Users : roles[u] \subseteq held[r][u]
    /\ req[r].pc = "token" => req[r].tok \in Tokens
    /\ req[r].pc \in {"update", "insert"} => req[r].sub \in Subjects /\ req[r].email \in Emails
    /\ req[r].pc \in {"load", "create"} => req[r].user \in Users
    /\ req[r].pc \in {"handler", "revoke"} /\ ~open /\ "*" \in req[r].perms =>
          req[r].user \in Users /\ "admin" \in held[r][req[r].user]
    /\ req[r].pc = "create" => req[r].scope \subseteq held[r][req[r].user]
    /\ req[r].pc = "revoke" =>
          /\ "*" \in req[r].perms
          /\ req[r].target \in Users
          /\ req[r].counted # {} /\ req[r].target \notin req[r].counted

Shapes ==
    /\ open \in BOOLEAN
    /\ req \in [Requests -> Reqs]
    /\ held \in [Requests -> RoleSets]
    /\ calls \in 0..MaxCalls

IInv ==
    /\ Shapes
    /\ Identities
    /\ Grants
    /\ TokensOK
    /\ \A r \in Requests : Vouched(r)

-----------------------------------------------------------------------------
(***************************************************************************)
(* Lemmas about requests.                                                  *)
(***************************************************************************)

\* A fresh database satisfies the invariant.
LEMMA InitIInv == Init => IInv
<1> SUFFICES ASSUME Init PROVE IInv
  OBVIOUS
<1>1. Idle \in Reqs
  BY DEF Idle, Reqs, Steps
<1>2. Nobody \in RoleSets
  BY DEF Nobody, RoleSets
<1>3. NoRow \in Rows /\ NoToken \in TokenRows
  BY DEF NoRow, NoToken, Rows, TokenRows
<1>4. Shapes
  BY <1>1, <1>2, AccessAssumption DEF Init, Shapes
<1>5. Identities /\ Grants /\ TokensOK
  BY <1>2, <1>3 DEF Init, Identities, Grants, TokensOK, Exists, NoRow, NoToken, Nobody
<1>6. \A r \in Requests : Vouched(r)
  BY DEF Init, Vouched, Idle
<1> QED BY <1>4, <1>5, <1>6 DEF IInv

\* A step of request r that leaves the roles alone keeps what the others have.
LEMMA RequestStep ==
    ASSUME IInv, NEW r \in Requests,
           UNCHANGED <<open, roles>>,
           req' \in [Requests -> Reqs],
           held' \in [Requests -> RoleSets],
           calls' \in 0..MaxCalls,
           \A q \in Requests \ {r} : req'[q] = req[q] /\ held'[q] = held[q],
           Vouched(r)', Identities', Grants', TokensOK'
    PROVE  IInv'
<1>1. Shapes'
  BY DEF IInv, Shapes
<1>2. ASSUME NEW q \in Requests, q # r PROVE Vouched(q)'
  <2>1. Vouched(q) /\ req'[q] = req[q] /\ held'[q] = held[q]
    BY <1>2 DEF IInv
  <2> QED BY <2>1 DEF Vouched
<1> QED BY <1>1, <1>2 DEF IInv

\* The end of a request.
LEMMA DoneMove ==
    ASSUME IInv, NEW r \in Requests, Done(r)
    PROVE  /\ req' \in [Requests -> Reqs] /\ held' \in [Requests -> RoleSets]
           /\ \A q \in Requests \ {r} : req'[q] = req[q] /\ held'[q] = held[q]
           /\ req'[r] = Idle
           /\ Vouched(r)'
<1>1. Idle \in Reqs /\ Nobody \in RoleSets
  BY DEF Idle, Reqs, Steps, Nobody, RoleSets
<1>2. req \in [Requests -> Reqs] /\ held \in [Requests -> RoleSets]
  BY DEF IInv, Shapes
<1>3. /\ req' \in [Requests -> Reqs] /\ held' \in [Requests -> RoleSets]
      /\ \A q \in Requests \ {r} : req'[q] = req[q] /\ held'[q] = held[q]
      /\ req'[r] = Idle
  BY <1>1, <1>2 DEF Done
<1>4. Vouched(r)'
  BY <1>3 DEF Vouched, Idle
<1> QED BY <1>3, <1>4

\* A request that ends without touching a table.
LEMMA DoneStep ==
    ASSUME IInv, NEW r \in Requests, Done(r),
           UNCHANGED <<open, roles, users, seeding, token, calls>>
    PROVE  IInv'
<1>1. Identities' /\ Grants' /\ TokensOK' /\ calls' \in 0..MaxCalls
  BY DEF IInv, Shapes, Identities, Grants, TokensOK, Exists
<1> QED BY <1>1, DoneMove, RequestStep

\* A request that moves on without touching a table.
LEMMA MoveStep ==
    ASSUME IInv, NEW r \in Requests, NEW q \in Reqs,
           req' = [req EXCEPT ![r] = q],
           UNCHANGED <<open, roles, users, seeding, token, held, calls>>,
           req[r].pc # "idle",
           q.pc \in {"handler", "revoke"} /\ ~open /\ "*" \in q.perms =>
               q.user \in Users /\ "admin" \in held[r][q.user],
           q.pc \in {"insert", "load", "handler", "revoke", "create"},
           q.pc = "insert" => q.sub \in Subjects /\ q.email \in Emails,
           q.pc \in {"load", "create"} => q.user \in Users,
           q.pc = "create" => q.scope \subseteq held[r][q.user],
           q.pc = "revoke" => /\ "*" \in q.perms /\ q.target \in Users
                              /\ q.counted # {} /\ q.target \notin q.counted
    PROVE  IInv'
<1>1. Identities' /\ Grants' /\ TokensOK' /\ calls' \in 0..MaxCalls /\ held' \in [Requests -> RoleSets]
  BY DEF IInv, Shapes, Identities, Grants, TokensOK, Exists
<1>2. /\ req' \in [Requests -> Reqs] /\ req'[r] = q
      /\ \A p \in Requests \ {r} : req'[p] = req[p] /\ held'[p] = held[p]
  BY DEF IInv, Shapes
<1>3. \A u \in Users : roles'[u] \subseteq held'[r][u]
  BY DEF IInv, Vouched
<1>4. Vouched(r)'
  BY <1>2, <1>3 DEF Vouched
<1> QED BY <1>1, <1>2, <1>4, RequestStep

-----------------------------------------------------------------------------
(***************************************************************************)
(* The middleware.                                                         *)
(***************************************************************************)

\* A request starts with the roles of that moment.
LEMMA ArriveIInv ==
    ASSUME IInv, NEW r \in Requests, Arrive(r)
    PROVE  IInv'
<1>1. PICK q \in Reqs :
        /\ req' = [req EXCEPT ![r] = q]
        /\ q.pc \in {"token", "update", "handler"}
        /\ q.pc = "token" => q.tok \in Tokens
        /\ q.pc = "update" => q.sub \in Subjects /\ q.email \in Emails
        /\ q.pc = "handler" => open
  <2>1. ASSUME NEW t \in Tokens, req' = [req EXCEPT ![r] = [Idle EXCEPT !.pc = "token", !.tok = t]]
        PROVE  \E q \in Reqs : req' = [req EXCEPT ![r] = q] /\ q.pc = "token" /\ q.tok \in Tokens
    <3> DEFINE q == [Idle EXCEPT !.pc = "token", !.tok = t]
    <3>1. q \in Reqs /\ q.pc = "token" /\ q.tok = t
      BY DEF Idle, Reqs, Steps
    <3> QED BY <2>1, <3>1
  <2>2. ASSUME NEW s \in Subjects, NEW e \in Emails,
               req' = [req EXCEPT ![r] = [Idle EXCEPT !.pc = "update", !.sub = s, !.email = e]]
        PROVE  \E q \in Reqs : /\ req' = [req EXCEPT ![r] = q] /\ q.pc = "update"
                               /\ q.sub \in Subjects /\ q.email \in Emails
    <3> DEFINE q == [Idle EXCEPT !.pc = "update", !.sub = s, !.email = e]
    <3>1. q \in Reqs /\ q.pc = "update" /\ q.sub = s /\ q.email = e
      BY DEF Idle, Reqs, Steps
    <3> QED BY <2>2, <3>1
  <2>3. ASSUME req' = [req EXCEPT ![r] = [Idle EXCEPT !.pc = "handler", !.perms = {"*"}]]
        PROVE  \E q \in Reqs : req' = [req EXCEPT ![r] = q] /\ q.pc = "handler"
    <3> DEFINE q == [Idle EXCEPT !.pc = "handler", !.perms = {"*"}]
    <3>1. q \in Reqs /\ q.pc = "handler"
      BY DEF Idle, Reqs, Steps, Permissions
    <3> QED BY <2>3, <3>1
  <2> QED BY <2>1, <2>2, <2>3 DEF Arrive
<1>2. /\ req' \in [Requests -> Reqs] /\ held' \in [Requests -> RoleSets]
      /\ req'[r] = q /\ held'[r] = roles
      /\ \A p \in Requests \ {r} : req'[p] = req[p] /\ held'[p] = held[p]
  BY <1>1 DEF Arrive, IInv, Shapes, Grants
<1>3. Vouched(r)'
  <2>1. open' = open /\ roles' = roles
    BY DEF Arrive
  <2> QED BY <1>1, <1>2, <2>1 DEF Vouched
<1>4. Identities' /\ Grants' /\ TokensOK'
  BY DEF Arrive, IInv, Identities, Grants, TokensOK, Exists
<1>5. calls' \in 0..MaxCalls
  <2>1. calls < MaxCalls /\ calls' = calls + 1
    BY DEF Arrive
  <2>2. calls \in 0..MaxCalls /\ MaxCalls \in Nat
    BY AccessAssumption DEF IInv, Shapes
  <2> QED BY <2>1, <2>2
<1>6. UNCHANGED <<open, roles>>
  BY DEF Arrive
<1> QED BY <1>2, <1>3, <1>4, <1>5, <1>6, RequestStep

\* The owner of a live token is a user.
LEMMA AuthenticateIInv ==
    ASSUME IInv, NEW r \in Requests, AuthenticateAPIToken(r)
    PROVE  IInv'
<1>1. CASE Done(r)
  BY <1>1, DoneStep DEF AuthenticateAPIToken
<1>2. CASE ~Done(r)
  <2> DEFINE t == token[req[r].tok]
             q == [req[r] EXCEPT !.pc = "load", !.user = t.owner, !.scope = t.scope]
  <2>1. req' = [req EXCEPT ![r] = q] /\ t.state = "live" /\ UNCHANGED held /\ req[r].pc = "token"
    BY <1>2 DEF AuthenticateAPIToken
  <2>2. t \in TokenRows /\ t.owner \in Users
    BY <2>1 DEF IInv, TokensOK, Vouched
  <2>3. req[r] \in Reqs
    BY DEF IInv, Shapes
  <2>4. q \in Reqs /\ q.pc = "load" /\ q.user = t.owner
    BY <2>2, <2>3 DEF Reqs, TokenRows, Steps
  <2> QED BY <2>1, <2>2, <2>4, MoveStep DEF AuthenticateAPIToken
<1> QED BY <1>1, <1>2

\* A step of a request that has found its row: links and addresses change,
\* roles and tokens do not.
LEMMA SignInStep ==
    ASSUME IInv, NEW r \in Requests, NEW u \in Users,
           req[r].pc \in {"update", "insert"},
           req' = [req EXCEPT ![r] = [@ EXCEPT !.pc = "load", !.user = u]],
           UNCHANGED <<open, roles, seeding, token, held, calls>>,
           Identities',
           \A v \in Users : Exists(v) => Exists(v)'
    PROVE  IInv'
<1>1. req[r] \in Reqs
  BY DEF IInv, Shapes
<1>2. /\ req' \in [Requests -> Reqs]
      /\ req'[r].pc = "load" /\ req'[r].user = u
      /\ \A q \in Requests \ {r} : req'[q] = req[q] /\ held'[q] = held[q]
  BY <1>1 DEF IInv, Shapes, Reqs, Steps
<1>3. \A v \in Users : roles'[v] \subseteq held'[r][v]
  BY DEF IInv, Vouched
<1>4. Vouched(r)'
  BY <1>2, <1>3 DEF Vouched
<1>5. Grants' /\ TokensOK' /\ calls' \in 0..MaxCalls /\ held' \in [Requests -> RoleSets]
  BY DEF IInv, Shapes, Grants, TokensOK
<1> QED BY <1>2, <1>4, <1>5, RequestStep

\* A row takes an address nobody else has: the unique indexes hold.
LEMMA ChangeAddress ==
    ASSUME IInv, NEW u \in Users, NEW e \in Emails,
           \A v \in Users \ {u} : users[v].email # e,
           users' = [users EXCEPT ![u].email = e]
    PROVE  Identities' /\ \A v \in Users : Exists(v) => Exists(v)'
<1>1. users \in [Users -> Rows] /\ e # None
  BY AccessAssumption DEF IInv, Identities
<1>2. /\ users' \in [Users -> Rows]
      /\ users'[u].email = e /\ users'[u].sub = users[u].sub
      /\ \A v \in Users \ {u} : users'[v] = users[v]
  BY <1>1 DEF Rows
<1>3. \A v \in Users : Exists(v) => Exists(v)'
  BY <1>1, <1>2 DEF Exists
<1>4. ASSUME NEW v \in Users, NEW w \in Users, v # w, Exists(v)'
      PROVE  /\ users'[v].email # users'[w].email
             /\ users'[v].sub # None => users'[v].sub # users'[w].sub
  <2>1. CASE v # u
    BY <1>2, <1>4, <2>1 DEF IInv, Identities, Exists
  <2>2. CASE v = u
    <3>1. users'[v].email # users'[w].email
      BY <1>2, <1>4, <2>2
    <3>2. users'[v].sub # None => users'[v].sub # users'[w].sub
      BY <1>2, <1>4, <2>2 DEF IInv, Identities
    <3> QED BY <3>1, <3>2
  <2> QED BY <2>1, <2>2
<1>5. \A v \in Users : users'[v].sub # None => Exists(v)'
  BY <1>1, <1>2 DEF IInv, Identities, Exists
<1> QED BY <1>2, <1>3, <1>4, <1>5 DEF Identities

\* The row of the subject is one row, so its new address is unique.
LEMMA ResolveBySubjectIInv ==
    ASSUME IInv, NEW r \in Requests, ResolveBySubject(r)
    PROVE  IInv'
<1> DEFINE mine == {u \in Users : users[u].sub = req[r].sub}
           free == \A u \in Users \ mine : users[u].email # req[r].email
<1>1. req[r] \in Reqs /\ req[r].pc = "update" /\ req[r].sub \in Subjects /\ req[r].email \in Emails
  BY DEF ResolveBySubject, IInv, Shapes, Vouched
<1>2. CASE UNCHANGED users /\ req' = [req EXCEPT ![r].pc = "insert"]
  <2> DEFINE q == [req[r] EXCEPT !.pc = "insert"]
  <2>1. q \in Reqs /\ q.pc = "insert" /\ q.sub = req[r].sub /\ q.email = req[r].email
    BY <1>1 DEF Reqs, Steps
  <2>2. req' = [req EXCEPT ![r] = q]
    BY <1>2
  <2> QED BY <1>1, <1>2, <2>1, <2>2, MoveStep DEF ResolveBySubject
<1>3. CASE free /\ \E u \in mine :
             /\ users' = [users EXCEPT ![u].email = req[r].email]
             /\ req' = [req EXCEPT ![r] = [@ EXCEPT !.pc = "load", !.user = u]]
  <2>1. PICK u \in mine :
             /\ users' = [users EXCEPT ![u].email = req[r].email]
             /\ req' = [req EXCEPT ![r] = [@ EXCEPT !.pc = "load", !.user = u]]
    BY <1>3
  <2>2. req[r].sub # None
    BY <1>1, AccessAssumption
  <2>3. \A v \in mine : v = u
    BY <2>1, <2>2 DEF IInv, Identities
  <2>4. \A v \in Users \ {u} : users[v].email # req[r].email
    BY <1>3, <2>3
  <2>5. Identities' /\ \A v \in Users : Exists(v) => Exists(v)'
    BY <1>1, <2>1, <2>4, ChangeAddress
  <2> QED BY <1>1, <2>1, <2>5, SignInStep DEF ResolveBySubject
<1> QED BY <1>2, <1>3 DEF ResolveBySubject


\* The row found by its address keeps its link, a row without one is linked to
\* a subject no other row has.
LEMMA ResolveByEmailIInv ==
    ASSUME IInv, NEW r \in Requests, ResolveByEmail(r)
    PROVE  IInv'
<1>1. CASE Done(r) /\ UNCHANGED users
  BY <1>1, DoneStep DEF ResolveByEmail
<1>2. CASE ~(Done(r) /\ UNCHANGED users)
  <2> DEFINE s == req[r].sub
             e == req[r].email
             found == \E v \in Users : users[v].email = e
             row(u) == IF found THEN Link(users[u], s) ELSE [email |-> e, sub |-> s]
  <2>1. PICK u \in Users :
          /\ IF found THEN users[u].email = e ELSE ~Exists(u)
          /\ ~\E v \in Users \ {u} : users[v].sub = s /\ row(u).sub = s
          /\ users' = [users EXCEPT ![u] = row(u)]
          /\ req' = [req EXCEPT ![r] = [@ EXCEPT !.pc = "load", !.user = u]]
          /\ UNCHANGED held
    BY <1>2 DEF ResolveByEmail
  <2>2. req[r].pc = "insert" /\ s \in Subjects /\ e \in Emails
    BY DEF ResolveByEmail, IInv, Vouched
  <2>3. s # None /\ e # None /\ users \in [Users -> Rows]
    BY <2>2, AccessAssumption DEF IInv, Identities
  <2>4. /\ row(u) \in Rows /\ row(u).email = e
        /\ users[u].sub # None => row(u).sub = users[u].sub
        /\ row(u).sub \in {s, users[u].sub}
        /\ Exists(u) => users[u].email = e
    <3>1. CASE found
      BY <2>1, <2>2, <2>3, <3>1 DEF Link, Rows, Exists
    <3>2. CASE ~found
      <4>1. users[u].sub = None
        BY <2>1, <3>2 DEF IInv, Identities
      <4> QED BY <2>1, <2>2, <2>3, <3>2, <4>1 DEF Rows
    <3> QED BY <3>1, <3>2
  <2>5. \A v \in Users \ {u} : users[v].email # e
    BY <2>1, <2>3 DEF IInv, Identities, Exists
  <2>6. row(u).sub # None => \A v \in Users \ {u} : users[v].sub # row(u).sub
    <3>1. CASE row(u).sub = s
      BY <2>1, <3>1
    <3>2. CASE row(u).sub = users[u].sub
      BY <3>2 DEF IInv, Identities
    <3> QED BY <2>4, <3>1, <3>2
  <2> HIDE DEF row, found
  <2>7. /\ users' \in [Users -> Rows] /\ users'[u] = row(u)
        /\ \A v \in Users \ {u} : users'[v] = users[v]
    BY <2>1, <2>3, <2>4
  <2>8. \A v \in Users : Exists(v) => Exists(v)'
    BY <2>3, <2>4, <2>7 DEF Exists
  <2>9. Identities'
    <3>1. ASSUME NEW v \in Users, NEW w \in Users, v # w, Exists(v)'
          PROVE  /\ users'[v].email # users'[w].email
                 /\ users'[v].sub # None => users'[v].sub # users'[w].sub
      <4>1. CASE v = u
        BY <2>4, <2>5, <2>6, <2>7, <3>1, <4>1
      <4>2. CASE w = u
        <5>1. users'[v] = users[v] /\ users[v].email # e
          BY <2>5, <2>7, <3>1, <4>2
        <5>2. users'[v].sub # None => users'[v].sub # row(u).sub
          BY <2>6, <2>7, <3>1, <4>2
        <5> QED BY <2>4, <2>7, <4>2, <5>1, <5>2
      <4>3. CASE v # u /\ w # u
        BY <2>7, <3>1, <4>3 DEF IInv, Identities, Exists
      <4> QED BY <4>1, <4>2, <4>3
    <3>2. \A v \in Users : users'[v].sub # None => Exists(v)'
      BY <2>3, <2>4, <2>7 DEF IInv, Identities, Exists
    <3> QED BY <2>7, <3>1, <3>2 DEF Identities
  <2> QED BY <2>1, <2>2, <2>8, <2>9, SignInStep DEF ResolveByEmail
<1> QED BY <1>1, <1>2

\* Only the role admin gives "*", and only to a user who has it.
LEMMA LoadPermissionsFacts ==
    ASSUME NEW u \in Users, NEW scope \in SUBSET Roles, roles \in RoleSets
    PROVE  /\ LoadUserPermissions(u, scope) \in SUBSET Permissions
           /\ "*" \in LoadUserPermissions(u, scope) => "admin" \in roles[u]
<1> DEFINE rs == IF scope = {} THEN roles[u] ELSE roles[u] \cap scope
<1>1. rs \subseteq roles[u] /\ rs \subseteq Roles
  BY DEF RoleSets
<1>2. \A role \in Roles : /\ RolePermissions(role) \subseteq Permissions
                          /\ "*" \in RolePermissions(role) => role = "admin"
  BY DEF Roles, RolePermissions, Permissions
<1>3. PermissionsOf(rs) \subseteq Permissions
  BY <1>1, <1>2 DEF PermissionsOf
<1>4. "*" \in PermissionsOf(rs) => "admin" \in rs
  BY <1>1, <1>2 DEF PermissionsOf
<1> QED BY <1>1, <1>3, <1>4 DEF LoadUserPermissions

\* The permissions of a handler are those of roles its user has just now.
LEMMA LoadPermissionsIInv ==
    ASSUME IInv, NEW r \in Requests, LoadPermissions(r)
    PROVE  IInv'
<1> DEFINE perms == LoadUserPermissions(req[r].user, req[r].scope)
           q == [Idle EXCEPT !.pc = "handler", !.user = req[r].user, !.perms = perms]
<1>1. req[r].pc = "load" /\ req' = [req EXCEPT ![r] = q]
  BY DEF LoadPermissions
<1>2. req[r].user \in Users /\ req[r].scope \in SUBSET Roles /\ roles \in RoleSets
  BY <1>1 DEF IInv, Shapes, Reqs, Vouched, Grants
<1>3. perms \in SUBSET Permissions /\ ("*" \in perms => "admin" \in roles[req[r].user])
  BY <1>2, LoadPermissionsFacts
<1> HIDE DEF perms
<1>4. q \in Reqs /\ q.pc = "handler" /\ q.user = req[r].user /\ q.perms = perms
  BY <1>2, <1>3 DEF Idle, Reqs, Steps
<1>5. "*" \in perms => "admin" \in held[r][req[r].user]
  BY <1>1, <1>2, <1>3 DEF IInv, Vouched
<1> HIDE DEF q
<1> QED BY <1>1, <1>2, <1>4, <1>5, MoveStep DEF LoadPermissions
-----------------------------------------------------------------------------
(***************************************************************************)
(* The handlers.                                                           *)
(***************************************************************************)

\* A change of user_roles that ends the requests in gone: what the others
\* looked at grows.
LEMMA RolesStep ==
    ASSUME IInv, NEW u \in Users, NEW rs \in SUBSET Roles, NEW gone \in SUBSET Requests,
           SetRoles(u, rs, gone),
           rs # {} => Exists(u),
           UNCHANGED <<open, users, token, calls>>, seeding' \in {seeding, None},
           req' \in [Requests -> Reqs],
           \A q \in Requests : req'[q] = IF q \in gone THEN Idle ELSE req[q]
    PROVE  IInv'
<1>1. roles \in RoleSets /\ held \in [Requests -> RoleSets] /\ Nobody \in RoleSets
  BY DEF IInv, Grants, Shapes, Nobody, RoleSets
<1>2. /\ roles' \in RoleSets /\ roles'[u] = rs
      /\ \A v \in Users \ {u} : roles'[v] = roles[v]
  BY <1>1 DEF SetRoles, RoleSets
<1>3. held' \in [Requests -> RoleSets]
  BY <1>1 DEF SetRoles, RoleSets, Nobody
<1>4. Shapes' /\ Identities' /\ TokensOK'
  BY <1>3 DEF IInv, Shapes, Identities, TokensOK, Exists
<1>5. Grants'
  BY <1>2 DEF IInv, Grants, Exists
<1>6. ASSUME NEW q \in Requests PROVE Vouched(q)'
  <2>1. CASE q \in gone
    BY <2>1 DEF Vouched, Idle
  <2>2. CASE q \notin gone /\ req[q].pc = "idle"
    BY <2>2 DEF Vouched
  <2>3. CASE q \notin gone /\ req[q].pc # "idle"
    <3>1. req'[q] = req[q] /\ held'[q] = [held[q] EXCEPT ![u] = @ \cup rs] /\ held[q] \in RoleSets
      BY <1>1, <2>3 DEF SetRoles
    <3>2. held'[q][u] = held[q][u] \cup rs /\ \A v \in Users \ {u} : held'[q][v] = held[q][v]
      BY <3>1 DEF RoleSets
    <3>3. Vouched(q)
      BY DEF IInv
    <3>4. \A v \in Users : roles'[v] \subseteq held'[q][v]
      BY <1>2, <2>3, <3>2, <3>3 DEF Vouched
    <3>5. \A v \in Users : held[q][v] \subseteq held'[q][v]
      BY <3>2
    <3> QED BY <3>1, <3>3, <3>4, <3>5 DEF Vouched
  <2> QED BY <2>1, <2>2, <2>3
<1> QED BY <1>4, <1>5, <1>6 DEF IInv

\* A handler that changes the roles of a user ends its request.
LEMMA HandlerRolesStep ==
    ASSUME IInv, NEW r \in Requests, NEW u \in Users, NEW rs \in SUBSET Roles,
           SetRoles(u, rs, {r}), req' = [req EXCEPT ![r] = Idle],
           rs # {} => Exists(u),
           UNCHANGED <<open, seeding, users, token, calls>>
    PROVE  IInv'
<1>1. req \in [Requests -> Reqs] /\ Idle \in Reqs
  BY DEF IInv, Shapes, Idle, Reqs, Steps
<1>2. req' \in [Requests -> Reqs] /\ \A q \in Requests : req'[q] = IF q \in {r} THEN Idle ELSE req[q]
  BY <1>1
<1> QED BY <1>2, RolesStep

\* Grants and revocations of a role.
LEMMA ChangeRolesIInv ==
    ASSUME IInv, NEW r \in Requests, NEW u \in Users, NEW role \in Roles,
           GrantUserRole(r, u, role) \/ RevokeOtherRole(r, u, role) \/ RevokeAdmin(r)
    PROVE  IInv'
<1>1. \A v \in Users : roles[v] \in SUBSET Roles /\ (roles[v] # {} => Exists(v))
  BY DEF IInv, Grants, RoleSets
<1>2. CASE GrantUserRole(r, u, role)
  <2>1. CASE Done(r) /\ UNCHANGED roles
    BY <1>2, <2>1, DoneStep DEF GrantUserRole
  <2>2. CASE Exists(u) /\ GrantRole(r, u, role)
    <3>1. roles[u] \cup {role} \in SUBSET Roles
      BY <1>1
    <3> QED BY <1>2, <2>2, <3>1, HandlerRolesStep DEF GrantUserRole, GrantRole
  <2> QED BY <1>2, <2>1, <2>2 DEF GrantUserRole
<1>3. CASE RevokeOtherRole(r, u, role)
  <2>1. roles[u] \ {role} \in SUBSET Roles /\ (roles[u] \ {role} # {} => Exists(u))
    BY <1>1
  <2> QED BY <1>3, <2>1, HandlerRolesStep DEF RevokeOtherRole, RevokeRole
<1>4. CASE RevokeAdmin(r)
  <2> DEFINE v == req[r].target
  <2>1. v \in Users
    BY <1>4 DEF RevokeAdmin, IInv, Vouched
  <2>2. roles[v] \ {"admin"} \in SUBSET Roles /\ (roles[v] \ {"admin"} # {} => Exists(v))
    BY <1>1, <2>1
  <2> QED BY <1>4, <2>1, <2>2, HandlerRolesStep DEF RevokeAdmin, RevokeRole
<1> QED BY <1>2, <1>3, <1>4

\* The guard counts others than the user whose role goes.
LEMMA GuardIInv ==
    ASSUME IInv, NEW r \in Requests, NEW u \in Users, RevokeUserRoleGuard(r, u)
    PROVE  IInv'
<1>1. CASE Done(r)
  BY <1>1, DoneStep DEF RevokeUserRoleGuard
<1>2. CASE ~Done(r)
  <2> DEFINE q == [req[r] EXCEPT !.pc = "revoke", !.target = u, !.counted = CountOtherAdmins(u)]
  <2>1. CountOtherAdmins(u) # {} /\ req' = [req EXCEPT ![r] = q] /\ UNCHANGED held
    BY <1>2 DEF RevokeUserRoleGuard
  <2>2. CountOtherAdmins(u) \in SUBSET Users /\ u \notin CountOtherAdmins(u)
    BY DEF CountOtherAdmins, Admins
  <2>3. req[r] \in Reqs /\ req[r].pc = "handler" /\ HasPerm(r, "user.write")
    BY DEF RevokeUserRoleGuard, Calls, IInv, Shapes
  <2>4. "*" \in req[r].perms
    BY <2>3 DEF HasPerm, Reqs, Permissions
  <2>5. /\ q \in Reqs /\ q.pc = "revoke" /\ q.perms = req[r].perms /\ q.user = req[r].user
        /\ q.target = u /\ q.counted = CountOtherAdmins(u)
    BY <2>2, <2>3 DEF Reqs, Steps
  <2>6. ~open => req[r].user \in Users /\ "admin" \in held[r][req[r].user]
    BY <2>3, <2>4 DEF IInv, Vouched
  <2> HIDE DEF q
  <2> QED BY <2>1, <2>2, <2>3, <2>4, <2>5, <2>6, MoveStep DEF RevokeUserRoleGuard
<1> QED BY <1>1, <1>2

\* A token is created for a user, with roles.
LEMMA CreateTokenIInv ==
    ASSUME IInv, NEW r \in Requests, NEW asked \in SUBSET (Roles \cup {Blank}), CreateAPIToken(r, asked)
    PROVE  IInv'
<1>1. CASE Done(r)
  BY <1>1, DoneStep DEF CreateAPIToken
<1>2. CASE ~Done(r)
  <2> DEFINE sc == asked \ {Blank}
             q == [req[r] EXCEPT !.pc = "create", !.scope = sc]
  <2>1. /\ req[r].user # None /\ req' = [req EXCEPT ![r] = q] /\ UNCHANGED held
        /\ sc \subseteq roles[req[r].user]
    BY <1>2 DEF CreateAPIToken, UserID, ValidateTokenScope, ListUserRoleNames
  <2>2. req[r] \in Reqs /\ req[r].pc = "handler" /\ sc \in SUBSET Roles
    BY DEF CreateAPIToken, Calls, IInv, Shapes
  <2>3. req[r].user \in Users
    BY <2>1, <2>2 DEF Reqs
  <2>4. q \in Reqs /\ q.pc = "create" /\ q.user = req[r].user /\ q.scope = sc
    BY <2>2 DEF Reqs, Steps
  <2>5. sc \subseteq held[r][req[r].user]
    BY <2>1, <2>2, <2>3 DEF IInv, Vouched
  <2> HIDE DEF q
  <2> QED BY <2>1, <2>2, <2>3, <2>4, <2>5, MoveStep DEF CreateAPIToken
<1> QED BY <1>1, <1>2

\* The rows of api_tokens.
LEMMA TokenRowsIInv ==
    ASSUME IInv, NEW r \in Requests, NEW t \in Tokens, InsertAPIToken(r, t) \/ RevokeAPIToken(r, t)
    PROVE  IInv'
<1>1. Done(r) /\ UNCHANGED <<open, seeding, users, roles, calls>>
  BY DEF InsertAPIToken, RevokeAPIToken
<1>2. token \in [Tokens -> TokenRows] /\ req[r] \in Reqs
  BY DEF IInv, TokensOK, Shapes
<1>3. TokensOK'
  <2>1. CASE InsertAPIToken(r, t)
    <3>1. req[r].user \in Users /\ req[r].scope \in SUBSET Roles
      BY <1>2, <2>1 DEF InsertAPIToken, IInv, Vouched, Reqs
    <3>2. token' = [token EXCEPT ![t] = [state |-> "live", owner |-> req[r].user, scope |-> req[r].scope]]
      BY <2>1 DEF InsertAPIToken, UserID
    <3> QED BY <1>2, <3>1, <3>2 DEF IInv, TokensOK, TokenRows
  <2>2. CASE UNCHANGED token
    BY <2>2 DEF IInv, TokensOK
  <2>3. CASE RevokeAPIToken(r, t) /\ token' # token
    <3>1. token' = [token EXCEPT ![t].state = "revoked"] /\ token[t].state # "absent"
      BY <2>3 DEF RevokeAPIToken, Revocable
    <3> QED BY <1>2, <3>1 DEF IInv, TokensOK, TokenRows
  <2> QED BY <2>1, <2>2, <2>3
<1>4. Identities' /\ Grants' /\ calls' \in 0..MaxCalls
  BY <1>1 DEF IInv, Shapes, Identities, Grants, Exists
<1> QED BY <1>1, <1>3, <1>4, DoneMove, RequestStep

\* Steps that leave the requests and user_roles alone.
LEMMA TableStep ==
    ASSUME IInv, UNCHANGED <<open, roles, req, held, calls>>, Identities', Grants', TokensOK'
    PROVE  IInv'
<1>1. \A r \in Requests : Vouched(r)'
  BY DEF IInv, Vouched
<1> QED BY <1>1 DEF IInv, Shapes

\* Time passes, and the two statements of seed-admin.
LEMMA OtherIInv ==
    ASSUME IInv, \/ \E t \in Tokens : Expire(t)
                 \/ \E e \in Emails : SeedAdminUser(e)
                 \/ SeedAdminRole
    PROVE  IInv'
<1>1. ASSUME NEW t \in Tokens, Expire(t) PROVE IInv'
  <2>1. token' = [token EXCEPT ![t].state = "expired"] /\ token[t].state = "live"
    BY <1>1 DEF Expire
  <2>2. TokensOK'
    BY <2>1 DEF IInv, TokensOK, TokenRows
  <2>3. Identities' /\ Grants'
    BY <1>1 DEF Expire, IInv, Identities, Grants, Exists
  <2> QED BY <1>1, <2>2, <2>3, TableStep DEF Expire
<1>2. ASSUME NEW e \in Emails, SeedAdminUser(e) PROVE IInv'
  <2>1. PICK u \in Users :
          /\ IF \E v \in Users : users[v].email = e THEN users[u].email = e ELSE ~Exists(u)
          /\ users' = [users EXCEPT ![u].email = e]
          /\ seeding' = u
    BY <1>2 DEF SeedAdminUser
  <2>2. e # None
    BY AccessAssumption
  <2>3. \A v \in Users \ {u} : users[v].email # e
    BY <2>1, <2>2 DEF IInv, Identities, Exists
  <2>4. Identities' /\ \A v \in Users : Exists(v) => Exists(v)'
    BY <2>1, <2>3, ChangeAddress
  <2>5. Exists(u)'
    BY <2>1, <2>2 DEF IInv, Identities, Rows, Exists
  <2>6. Grants' /\ TokensOK'
    BY <1>2, <2>1, <2>4, <2>5 DEF SeedAdminUser, IInv, Grants, TokensOK
  <2> QED BY <1>2, <2>4, <2>6, TableStep DEF SeedAdminUser
<1>3. CASE SeedAdminRole
  <2>1. seeding \in Users /\ Exists(seeding) /\ roles[seeding] \cup {"admin"} \in SUBSET Roles
    BY <1>3 DEF SeedAdminRole, IInv, Grants, RoleSets, Roles
  <2>2. req' \in [Requests -> Reqs] /\ \A q \in Requests : req'[q] = IF q \in {} THEN Idle ELSE req[q]
    BY <1>3 DEF SeedAdminRole, IInv, Shapes
  <2> QED BY <1>3, <2>1, <2>2, RolesStep DEF SeedAdminRole
<1> QED BY <1>1, <1>2, <1>3
-----------------------------------------------------------------------------
(***************************************************************************)
(* The theorems.                                                           *)
(***************************************************************************)

\* The invariant is inductive.
LEMMA NextIInv == IInv /\ [Next]_vars => IInv'
<1> SUFFICES ASSUME IInv, [Next]_vars PROVE IInv'
  OBVIOUS
<1>1. CASE UNCHANGED vars
  <2>1. UNCHANGED <<open, users, roles, token, seeding, req, held, calls>>
    BY <1>1 DEF vars
  <2>2. Identities' /\ Grants' /\ TokensOK'
    BY <2>1 DEF IInv, Identities, Grants, TokensOK, Exists
  <2> QED BY <2>1, <2>2, TableStep
<1>2. ASSUME NEW r \in Requests,
             \/ Arrive(r) \/ AuthenticateAPIToken(r)
             \/ ResolveBySubject(r) \/ ResolveByEmail(r) \/ LoadPermissions(r)
      PROVE  IInv'
  BY <1>2, ArriveIInv, AuthenticateIInv, ResolveBySubjectIInv, ResolveByEmailIInv, LoadPermissionsIInv
<1>3. ASSUME NEW r \in Requests,
             \E u \in Users : \/ RevokeUserRoleGuard(r, u)
                              \/ \E role \in Roles : \/ GrantUserRole(r, u, role)
                                                     \/ RevokeOtherRole(r, u, role)
      PROVE  IInv'
  BY <1>3, GuardIInv, ChangeRolesIInv
<1>4. ASSUME NEW r \in Requests, RevokeAdmin(r) PROVE IInv'
  <2>1. req[r].target \in Users /\ "admin" \in Roles
    BY <1>4 DEF RevokeAdmin, IInv, Vouched, Roles
  <2> QED BY <1>4, <2>1, ChangeRolesIInv
<1>5. ASSUME NEW r \in Requests,
             \/ \E asked \in SUBSET (Roles \cup {Blank}) : CreateAPIToken(r, asked)
             \/ \E t \in Tokens : InsertAPIToken(r, t) \/ RevokeAPIToken(r, t)
      PROVE  IInv'
  BY <1>5, CreateTokenIInv, TokenRowsIInv
<1>6. ASSUME NEW r \in Requests, Read(r) PROVE IInv'
  BY <1>6, DoneStep DEF Read
<1> QED BY <1>1, <1>2, <1>3, <1>4, <1>5, <1>6, OtherIInv DEF Next

\* The invariant holds throughout, from an empty database on.
THEOREM Invariance == Spec => []IInv
BY InitIInv, NextIInv, PTL DEF Spec

\* Every table and request has its type, and users keeps its unique indexes
\* through sign-ins, changes of address and seed-admin (users and user_roles).
THEOREM TypeCorrect == Spec => []TypeOK
<1>1. IInv => TypeOK
  BY DEF IInv, TypeOK, Shapes, Identities, Grants, TokensOK, Rows, TokenRows, Reqs
<1> QED BY <1>1, Invariance, PTL

\* Who changes roles: seed-admin, an open API, or the request of somebody who
\* was an administrator since it came (requirePerm, GrantUserRole, RevokeUserRole).
THEOREM AdminsOnly == Spec => RoleChangesByAdmins
<1> DEFINE ByAdmin(r) == /\ req[r].pc # "idle" /\ req'[r].pc = "idle"
                         /\ "admin" \in held[r][UserID(r)]
<1>1. ASSUME IInv, ~open, NEW r \in Requests, req[r].pc \in {"handler", "revoke"},
             "*" \in req[r].perms, req' = [req EXCEPT ![r] = Idle]
      PROVE  ByAdmin(r)
  <2>1. "admin" \in held[r][req[r].user]
    BY <1>1 DEF IInv, Vouched
  <2>2. req'[r] = Idle
    BY <1>1 DEF IInv, Shapes
  <2> QED BY <1>1, <2>1, <2>2 DEF Idle, UserID
<1>2. ASSUME IInv, NEW r \in Requests, Calls(r, "user.write")
      PROVE  req[r].pc = "handler" /\ "*" \in req[r].perms
  BY <1>2 DEF Calls, HasPerm, IInv, Shapes, Reqs, Permissions
<1>3. ASSUME IInv, [Next]_vars, roles' # roles, ~open, ~SeedAdminRole
      PROVE  \E r \in Requests : ByAdmin(r)
  <2>1. PICK r \in Requests :
          \/ RevokeAdmin(r)
          \/ \E u \in Users, role \in Roles : GrantUserRole(r, u, role) \/ RevokeOtherRole(r, u, role)
    BY <1>3 DEF Next, vars, Arrive, AuthenticateAPIToken, ResolveBySubject, ResolveByEmail,
                LoadPermissions, RevokeUserRoleGuard, CreateAPIToken, InsertAPIToken,
                RevokeAPIToken, Read, Expire, SeedAdminUser
  <2>2. CASE RevokeAdmin(r)
    <3>1. req[r].pc = "revoke" /\ "*" \in req[r].perms /\ req' = [req EXCEPT ![r] = Idle]
      BY <1>3, <2>2 DEF RevokeAdmin, RevokeRole, IInv, Vouched
    <3> QED BY <1>1, <1>3, <3>1
  <2>3. CASE \E u \in Users, role \in Roles : GrantUserRole(r, u, role) \/ RevokeOtherRole(r, u, role)
    <3>1. Calls(r, "user.write") /\ req' = [req EXCEPT ![r] = Idle]
      BY <2>3 DEF GrantUserRole, GrantRole, RevokeOtherRole, RevokeRole, Done
    <3>2. req[r].pc = "handler" /\ "*" \in req[r].perms
      BY <1>2, <1>3, <3>1
    <3> QED BY <1>1, <1>3, <3>1, <3>2
  <2> QED BY <2>1, <2>2, <2>3
<1>4. IInv /\ [Next]_vars =>
        [roles' # roles => open \/ SeedAdminRole \/ \E r \in Requests : ByAdmin(r)]_vars
  BY <1>3
<1> QED BY <1>4, Invariance, PTL DEF Spec, RoleChangesByAdmins

\* The last administrator is lost only when everybody the guard of
\* RevokeUserRole counted was revoked between its count and its DELETE.
THEOREM LockoutNeedsRace == Spec => LastAdminNeedsRace
<1> DEFINE Raced(r) == /\ req[r].pc = "revoke"
                       /\ req[r].counted # {}
                       /\ req[r].counted \cap Admins = {}
<1>1. ASSUME IInv, [Next]_vars, Admins # {}, Admins' = {}
      PROVE  \E r \in Requests : Raced(r)
  <2>1. PICK w \in Users : "admin" \in roles[w] /\ "admin" \notin roles'[w]
    BY <1>1 DEF Admins
  <2>2. roles \in RoleSets
    BY <1>1 DEF IInv, Grants
  <2>3. \/ SeedAdminRole
        \/ \E r \in Requests : RevokeAdmin(r)
        \/ \E r \in Requests, u \in Users, role \in Roles :
              GrantUserRole(r, u, role) \/ RevokeOtherRole(r, u, role)
    BY <1>1, <2>1 DEF Next, vars, Arrive, AuthenticateAPIToken, ResolveBySubject, ResolveByEmail,
                LoadPermissions, RevokeUserRoleGuard, CreateAPIToken, InsertAPIToken,
                RevokeAPIToken, Read, Expire, SeedAdminUser
  <2>4. ASSUME NEW r \in Requests, RevokeAdmin(r) PROVE Raced(r)
    <3> DEFINE v == req[r].target
    <3>1. v \in Users /\ req[r].pc = "revoke" /\ req[r].counted # {} /\ v \notin req[r].counted
      BY <1>1, <2>4 DEF RevokeAdmin, IInv, Vouched
    <3>2. roles' = [roles EXCEPT ![v] = roles[v] \ {"admin"}]
      BY <2>4 DEF RevokeAdmin, RevokeRole, SetRoles
    <3>3. \A u \in Users \ {v} : "admin" \notin roles[u]
      BY <1>1, <2>2, <3>1, <3>2 DEF RoleSets, Admins
    <3>4. Admins \subseteq {v}
      BY <3>3 DEF Admins
    <3> QED BY <3>1, <3>4
  <2>5. ASSUME NEW r \in Requests, NEW u \in Users, NEW role \in Roles,
               GrantUserRole(r, u, role) \/ RevokeOtherRole(r, u, role)
        PROVE  FALSE
    <3>1. roles' = roles \/ roles' = [roles EXCEPT ![u] = roles[u] \cup {role}]
            \/ (roles' = [roles EXCEPT ![u] = roles[u] \ {role}] /\ role # "admin")
      BY <2>5 DEF GrantUserRole, GrantRole, RevokeOtherRole, RevokeRole, SetRoles
    <3> QED BY <2>1, <2>2, <3>1 DEF RoleSets
  <2>6. CASE SeedAdminRole
    <3>1. roles' = [roles EXCEPT ![seeding] = roles[seeding] \cup {"admin"}]
      BY <2>6 DEF SeedAdminRole, SetRoles
    <3> QED BY <2>1, <2>2, <3>1 DEF RoleSets
  <2> QED BY <2>3, <2>4, <2>5, <2>6
<1>2. IInv /\ [Next]_vars => [Admins # {} /\ Admins' = {} => \E r \in Requests : Raced(r)]_vars
  BY <1>1
<1> QED BY <1>2, Invariance, PTL DEF Spec, LastAdminNeedsRace

\* A token is scoped to roles its owner held while it was being made, whatever
\* happens between the two statements (validateTokenScope, CreateAPIToken).
THEOREM ScopeHeld == Spec => TokenScopeWasHeld
<1> DEFINE Held(t, r) == /\ req[r].pc # "idle" /\ req'[r].pc = "idle"
                         /\ token'[t].owner = UserID(r)
                         /\ token'[t].scope \subseteq held[r][UserID(r)]
<1>1. ASSUME IInv, [Next]_vars, NEW t \in Tokens,
             token[t].state = "absent", token'[t].state # "absent"
      PROVE  \E r \in Requests : Held(t, r)
  <2>0. token \in [Tokens -> TokenRows] /\ req \in [Requests -> Reqs]
    BY <1>1 DEF IInv, TokensOK, Shapes
  <2>1. \/ \E r \in Requests, s \in Tokens : InsertAPIToken(r, s) \/ RevokeAPIToken(r, s)
        \/ \E s \in Tokens : Expire(s)
    BY <1>1 DEF Next, vars, Arrive, AuthenticateAPIToken, ResolveBySubject, ResolveByEmail,
                LoadPermissions, RevokeUserRoleGuard, CreateAPIToken, GrantUserRole,
                RevokeOtherRole, RevokeAdmin, Read, SeedAdminUser, SeedAdminRole
  <2>2. ASSUME NEW s \in Tokens, Expire(s) PROVE FALSE
    BY <1>1, <2>0, <2>2 DEF Expire, TokenRows
  <2>3. ASSUME NEW r \in Requests, NEW s \in Tokens, RevokeAPIToken(r, s) PROVE FALSE
    BY <1>1, <2>0, <2>3 DEF RevokeAPIToken, Revocable, TokenRows
  <2>4. ASSUME NEW r \in Requests, NEW s \in Tokens, InsertAPIToken(r, s) PROVE Held(t, r)
    <3>1. /\ req[r].pc = "create" /\ req' = [req EXCEPT ![r] = Idle]
          /\ token' = [token EXCEPT ![s] = [state |-> "live", owner |-> UserID(r),
                                            scope |-> req[r].scope]]
      BY <2>4 DEF InsertAPIToken, Done
    <3>2. s = t
      BY <1>1, <2>0, <3>1
    <3>3. req[r].scope \subseteq held[r][req[r].user]
      BY <1>1, <3>1 DEF IInv, Vouched
    <3> QED BY <2>0, <3>1, <3>2, <3>3 DEF UserID, Idle
  <2> QED BY <2>1, <2>2, <2>3, <2>4
<1>2. IInv /\ [Next]_vars =>
        [\A t \in Tokens : token[t].state = "absent" /\ token'[t].state # "absent" =>
            \E r \in Requests : Held(t, r)]_vars
  BY <1>1
<1> QED BY <1>2, Invariance, PTL DEF Spec, TokenScopeWasHeld

=============================================================================
