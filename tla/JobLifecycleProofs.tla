------------------------- MODULE JobLifecycleProofs -------------------------
(***************************************************************************)
(* The safety invariants of JobLifecycle hold for any number of jobs,      *)
(* tokens, machines, profiles and concurrent requests, with or without     *)
(* failures.                                                               *)
(***************************************************************************)
EXTENDS JobLifecycle, TLAPS

\* Fields a request has set by the time it is at a given step.
RequestOK ==
    \A r \in Requests :
        /\ req[r].pc \in {"append", "advance", "select", "update", "mark", "publish", "token"}
             => req[r].job \in Jobs
        /\ req[r].pc \in {"select", "update"} => req[r].to \in States
        /\ req[r].pc \in {"token", "mint", "insert"} => req[r].tok \in Tokens

\* The present state has been visited, and the check a request made before
\* its UPDATE was made against a state the job has been in.
Witnessed ==
    /\ \A j \in Jobs : IF Exists(j) THEN state[j] \in visited[j] ELSE visited[j] = {}
    /\ \A r \in Requests : req[r].pc = "update" =>
           \E cur \in visited[req[r].job] : req[r].to \in Allowed(cur)

\* The UPDATE to a terminal state sets finished_at, nothing clears it.
TerminalIsFinished == \A j \in Jobs : state[j] \in Terminal => finished[j]

\* A stored token is bound to a row.
TokensBound == \A t \in Tokens : Live(t) => token[t].job \in Jobs

IInv ==
    /\ TypeOK
    /\ RequestOK
    /\ TokensBound
    /\ TerminalIsFinished
    /\ Witnessed
    /\ ProgressIsEarned
    /\ RevokedUnlessLost

\* The initial state satisfies the inductive invariant: no rows, no requests.
LEMMA InitIInv == Init => IInv
  BY JobsAssumption
     DEF Init, IInv, TypeOK, RequestOK, TokensBound, TerminalIsFinished, Witnessed,
         ProgressIsEarned, RevokedUnlessLost, RequestType, OwnerType, NoOwner, Idle,
         Exists, Live, Terminal, TokenStatus, Steps, AllKinds, States, NonTerminal

-----------------------------------------------------------------------------
(***************************************************************************)
(* Type correctness.                                                       *)
(***************************************************************************)

\* What the moves of a request slot do to its type.
LEMMA RequestMoves ==
  ASSUME req \in [Requests -> RequestType], NEW r \in Requests
  PROVE  /\ Reply(r) => req' \in [Requests -> RequestType]
         /\ \A pc \in Steps : Goto(r, pc) => req' \in [Requests -> RequestType]
         /\ \A to \in States : Hop(r, to) => req' \in [Requests -> RequestType]
         /\ Returned(r) => req' \in [Requests -> RequestType]
  <1>1. Idle \in RequestType
    BY DEF RequestType, Idle, NoOwner, OwnerType, Steps
  <1>2. Reply(r) => req' \in [Requests -> RequestType]
    BY <1>1 DEF Reply
  <1>3. ASSUME NEW pc \in Steps, Goto(r, pc) PROVE req' \in [Requests -> RequestType]
    BY <1>3 DEF Goto, RequestType
  <1>4. ASSUME NEW to \in States, Hop(r, to) PROVE req' \in [Requests -> RequestType]
    <2>1. [req[r] EXCEPT !.pc = "select", !.to = to] \in RequestType
      BY DEF RequestType, Steps
    <2>. QED BY <1>4, <2>1 DEF Hop
  <1>5. Returned(r) => req' \in [Requests -> RequestType]
    BY <1>2, <1>3 DEF Returned, Steps
  <1>. QED BY <1>2, <1>3, <1>4, <1>5

\* The request records the handlers start with are well typed.
LEMMA StartRecords ==
  ASSUME NEW j \in Jobs
  PROVE  /\ \A g \in States \cup {"none"} :
             [Idle EXCEPT !.kind = "phone", !.pc = "append", !.job = j, !.goal = g] \in RequestType
         /\ [Idle EXCEPT !.kind = "cancel", !.pc = "select", !.job = j, !.to = "cancelled",
                         !.goal = "cancelled"] \in RequestType
         /\ \A t \in Tokens :
              [Idle EXCEPT !.kind = "redeem", !.pc = "token", !.job = j, !.tok = t]
                 \in RequestType
  BY DEF RequestType, Idle, NoOwner, OwnerType, Steps, AllKinds, States, Terminal, NonTerminal

\* So are the ones of the handlers that look a bundle up.
LEMMA BundleRecords ==
  ASSUME NEW own \in OwnerType
  PROVE  /\ [Idle EXCEPT !.kind = "menu", !.pc = "bundle", !.own = own] \in RequestType
         /\ \A t \in Tokens :
              [Idle EXCEPT !.kind = "render", !.pc = "bundle", !.tok = t,
                           !.goal = "bootstrapped", !.own = own] \in RequestType
  BY DEF RequestType, Idle, NoOwner, OwnerType, Steps, AllKinds, States, NonTerminal

\* And what they become when they have found what they looked for.
LEMMA BundleMoves ==
  ASSUME NEW q \in RequestType
  PROVE  /\ \A j \in Jobs : [q EXCEPT !.pc = "advance", !.job = j] \in RequestType
         /\ \A t \in Tokens : [q EXCEPT !.pc = "mint", !.tok = t] \in RequestType
  BY DEF RequestType, Steps

\* Every action keeps the variables within their types.
LEMMA TypeStep == TypeOK /\ RequestOK /\ TokensBound /\ [Next]_vars => TypeOK'
  <1> SUFFICES ASSUME TypeOK, RequestOK, TokensBound, [Next]_vars PROVE TypeOK'
    OBVIOUS
  <1> USE DEF TypeOK
  <1>1. ASSUME NEW r \in Requests, Start(r) PROVE TypeOK'
    <2>1. ASSUME NEW t \in Tokens, NEW phase \in Phases, PhoneHome(r, t, phase) PROVE TypeOK'
      <3>1. token[t].job \in Jobs
        BY <2>1 DEF PhoneHome, TokensBound
      <3>2. mapPhaseToState(phase) \in States \cup {"none"}
        BY DEF mapPhaseToState, States, Terminal, NonTerminal
      <3>3. req' \in [Requests -> RequestType]
        BY <2>1, <3>1, <3>2, StartRecords DEF PhoneHome
      <3>. QED BY <2>1, <3>3 DEF PhoneHome
    <2>2. ASSUME NEW j \in Jobs, Cancel(r, j) PROVE TypeOK'
      <3>1. req' \in [Requests -> RequestType]
        BY <2>2, StartRecords DEF Cancel
      <3>. QED BY <2>2, <3>1 DEF Cancel
    <2>3. ASSUME NEW t \in Tokens, RenderByToken(r, t) PROVE TypeOK'
      <3>1. token[t].job \in Jobs
        BY <2>3 DEF RenderByToken, TokensBound
      <3>2. [mach |-> owner[token[t].job].mach, prof |-> "none"] \in OwnerType
        BY <3>1 DEF OwnerType
      <3>3. req' \in [Requests -> RequestType]
        BY <2>3, <3>2, BundleRecords DEF RenderByToken
      <3>. QED BY <2>3, <3>3 DEF RenderByToken
    <2>4. ASSUME NEW m \in Machines, NEW p \in Profiles, MenuDeploy(r, m, p) PROVE TypeOK'
      <3>1. [mach |-> m, prof |-> p] \in OwnerType
        BY DEF OwnerType
      <3>2. req' \in [Requests -> RequestType]
        BY <2>4, <3>1, BundleRecords DEF MenuDeploy
      <3>. QED BY <2>4, <3>2 DEF MenuDeploy
    <2>5. ASSUME NEW m \in Machines, NEW p \in Profiles, NEW t \in Tokens, NEW j \in Jobs,
                 Redeem(r, j, m, p, t)
          PROVE  TypeOK'
      <3>1. req' \in [Requests -> RequestType]
        BY <2>5, StartRecords DEF Redeem
      <3>. QED BY <2>5, <3>1 DEF Redeem, TokenStatus, OwnerType, States, NonTerminal
    <2>. QED BY <1>1, <2>1, <2>2, <2>3, <2>4, <2>5 DEF Start
  <1>2. ASSUME NEW r \in Requests, Step(r) PROVE TypeOK'
    <2>1. CASE AppendEvent(r)
      <3>3. req' \in [Requests -> RequestType]
        BY <2>1, RequestMoves DEF AppendEvent, Steps, States, Terminal
      <3>. QED BY <2>1, <3>3 DEF AppendEvent
    <2>2. CASE AdvanceJob(r)
      <3>1. NextOnPath(state[req[r].job]) \in States
        BY DEF NextOnPath, States, Terminal, NonTerminal
      <3>2. req' \in [Requests -> RequestType]
        BY <2>2, <3>1, RequestMoves DEF AdvanceJob
      <3>. QED BY <2>2, <3>2 DEF AdvanceJob
    <2>3. CASE SelectState(r)
      <3>1. req' \in [Requests -> RequestType]
        BY <2>3, RequestMoves DEF SelectState, Steps
      <3>. QED BY <2>3, <3>1 DEF SelectState
    <2>4. CASE UpdateState(r)
      <3>1. NextOnPath(req[r].to) \in States
        BY DEF NextOnPath, States, Terminal, NonTerminal
      <3>2. req' \in [Requests -> RequestType]
        BY <2>4, <3>1, RequestMoves DEF UpdateState, Steps
      <3>3. req[r].job \in Jobs /\ req[r].to \in States
        BY <2>4 DEF UpdateState, RequestOK
      <3>. QED BY <2>4, <3>2, <3>3 DEF UpdateState
    <2>5. CASE MarkTokens(r)
      <3>1. req' \in [Requests -> RequestType]
        BY <2>5, RequestMoves DEF MarkTokens
      <3>. QED BY <2>5, <3>1 DEF MarkTokens, TokenStatus
    <2>6. CASE Publish(r)
      BY <2>6, RequestMoves DEF Publish
    <2>7. CASE StoreToken(r)
      <3>1. req' \in [Requests -> RequestType]
        BY <2>7, RequestMoves DEF StoreToken
      <3>2. req[r].job \in Jobs /\ req[r].tok \in Tokens
        BY <2>7 DEF StoreToken, RequestOK
      <3>. QED BY <2>7, <3>1, <3>2 DEF StoreToken, TokenStatus
    <2>8. CASE MintFindsNone(r)
      BY <2>8, RequestMoves DEF MintFindsNone, Steps
    <2>9. ASSUME NEW j \in Jobs, MintFound(r, j) PROVE TypeOK'
      <3>1. req' \in [Requests -> RequestType]
        BY <2>9, RequestMoves DEF MintFound
      <3>. QED BY <2>9, <3>1 DEF MintFound, TokenStatus
    <2>10. ASSUME NEW j \in Jobs, MintInsert(r, j) PROVE TypeOK'
      <3>1. req' \in [Requests -> RequestType]
        BY <2>10, RequestMoves DEF MintInsert
      <3>2. req[r].own \in OwnerType
        BY DEF RequestType
      <3>. QED BY <2>10, <3>1, <3>2 DEF MintInsert, TokenStatus, States, NonTerminal
    <2>11. ASSUME NEW j \in Jobs, BundleHasJob(r, j) PROVE TypeOK'
      <3>1. req' \in [Requests -> RequestType]
        BY <2>11, BundleMoves DEF BundleHasJob
      <3>. QED BY <2>11, <3>1 DEF BundleHasJob
    <2>12. ASSUME NEW t \in Tokens, MenuAccepts(r, t) PROVE TypeOK'
      <3>1. req' \in [Requests -> RequestType]
        BY <2>12, BundleMoves DEF MenuAccepts
      <3>. QED BY <2>12, <3>1 DEF MenuAccepts, TokenStatus
    <2>13. CASE BundleHasNoJob(r) \/ MenuRefuses(r)
      BY <2>13, RequestMoves DEF BundleHasNoJob, MenuRefuses
    <2>. QED BY <1>2, <2>1, <2>2, <2>3, <2>4, <2>5, <2>6, <2>7, <2>8, <2>9, <2>10, <2>11, <2>12,
                <2>13 DEF Step
  <1>3. ASSUME NEW r \in Requests, Fault(r) PROVE TypeOK'
    <2>1. CASE StatementFails(r)
      <3>1. req' \in [Requests -> RequestType]
        BY <2>1, RequestMoves DEF StatementFails
      <3>2. req[r].job \in Jobs
        BY <2>1 DEF StatementFails, RequestOK
      <3>. QED BY <2>1, <3>1, <3>2 DEF StatementFails
    <2>2. CASE Abort(r)
      <3>1. req' \in [Requests -> RequestType]
        BY <2>2, RequestMoves DEF Abort
      <3>2. req[r].pc = "mark" => req[r].job \in Jobs
        BY DEF RequestOK
      <3>. QED BY <2>2, <3>1, <3>2 DEF Abort, TokenStatus
    <2>. QED BY <1>3, <2>1, <2>2 DEF Fault
  <1>4. CASE Housekeeping
    BY <1>4 DEF Housekeeping, ExpireToken, ReapToken, TokenStatus
  <1>5. CASE UNCHANGED vars
    BY <1>5 DEF vars
  <1>. QED BY <1>1, <1>2, <1>3, <1>4, <1>5 DEF Next

-----------------------------------------------------------------------------
(***************************************************************************)
(* What an action does to the request slots.                               *)
(***************************************************************************)

Others(r) == \A q \in Requests : q # r => req'[q] = req[q]

\* The moves of a request slot, field by field.
LEMMA MoveEffects ==
  ASSUME TypeOK, NEW r \in Requests
  PROVE  /\ Reply(r) => Others(r) /\ req'[r].pc = "idle"
         /\ \A pc \in Steps : Goto(r, pc) =>
               /\ Others(r) /\ req'[r].pc = pc /\ req'[r].job = req[r].job
               /\ req'[r].to = req[r].to /\ req'[r].tok = req[r].tok
         /\ \A to \in States : Hop(r, to) =>
               /\ Others(r) /\ req'[r].pc = "select" /\ req'[r].job = req[r].job
               /\ req'[r].to = to
         /\ Returned(r) =>
               /\ Others(r)
               /\ req'[r].pc = "idle" \/ (req'[r].pc = "publish" /\ req'[r].job = req[r].job)
  <1> USE DEF TypeOK, Others
  <1>1. Reply(r) => Others(r) /\ req'[r].pc = "idle"
    BY DEF Reply, Idle
  <1>2. ASSUME NEW pc \in Steps, Goto(r, pc)
        PROVE  /\ Others(r) /\ req'[r].pc = pc /\ req'[r].job = req[r].job
               /\ req'[r].to = req[r].to /\ req'[r].tok = req[r].tok
    BY <1>2 DEF Goto, RequestType
  <1>3. ASSUME NEW to \in States, Hop(r, to)
        PROVE  /\ Others(r) /\ req'[r].pc = "select" /\ req'[r].job = req[r].job
               /\ req'[r].to = to
    BY <1>3 DEF Hop, RequestType
  <1>4. Returned(r) =>
               /\ Others(r)
               /\ req'[r].pc = "idle" \/ (req'[r].pc = "publish" /\ req'[r].job = req[r].job)
    BY <1>1, <1>2 DEF Returned, Steps
  <1>. QED BY <1>1, <1>2, <1>3, <1>4

\* What a request that has just started holds.
LEMMA StartEffects ==
  ASSUME TypeOK, NEW r \in Requests
  PROVE  /\ \A t \in Tokens : \A phase \in Phases : PhoneHome(r, t, phase) =>
               Others(r) /\ req'[r].pc = "append" /\ req'[r].job = token[t].job
         /\ \A j \in Jobs : Cancel(r, j) =>
               /\ Others(r) /\ req'[r].pc = "select" /\ req'[r].job = j
               /\ req'[r].to = "cancelled"
         /\ \A t \in Tokens : RenderByToken(r, t) => Others(r) /\ req'[r].pc = "bundle"
         /\ \A j \in Jobs : \A m \in Machines : \A p \in Profiles : \A t \in Tokens :
               Redeem(r, j, m, p, t) =>
                  Others(r) /\ req'[r].pc = "token" /\ req'[r].job = j /\ req'[r].tok = t
         /\ \A m \in Machines : \A p \in Profiles :
               MenuDeploy(r, m, p) => Others(r) /\ req'[r].pc = "bundle"
  <1> USE DEF TypeOK, Others, Idle
  <1>1. ASSUME NEW t \in Tokens, NEW phase \in Phases, PhoneHome(r, t, phase)
        PROVE  Others(r) /\ req'[r].pc = "append" /\ req'[r].job = token[t].job
    BY <1>1 DEF PhoneHome
  <1>2. ASSUME NEW j \in Jobs, Cancel(r, j)
        PROVE  /\ Others(r) /\ req'[r].pc = "select" /\ req'[r].job = j
               /\ req'[r].to = "cancelled"
    BY <1>2 DEF Cancel
  <1>3. ASSUME NEW t \in Tokens, RenderByToken(r, t)
        PROVE  Others(r) /\ req'[r].pc = "bundle"
    BY <1>3 DEF RenderByToken
  <1>4. ASSUME NEW j \in Jobs, NEW m \in Machines, NEW p \in Profiles, NEW t \in Tokens,
               Redeem(r, j, m, p, t)
        PROVE  Others(r) /\ req'[r].pc = "token" /\ req'[r].job = j /\ req'[r].tok = t
    BY <1>4 DEF Redeem
  <1>5. ASSUME NEW m \in Machines, NEW p \in Profiles, MenuDeploy(r, m, p)
        PROVE  Others(r) /\ req'[r].pc = "bundle"
    BY <1>5 DEF MenuDeploy
  <1>. QED BY <1>1, <1>2, <1>3, <1>4, <1>5

\* What a request holds that has looked its bundle up.
LEMMA BundleEffects ==
  ASSUME TypeOK, NEW r \in Requests
  PROVE  /\ \A j \in Jobs : BundleHasJob(r, j) =>
               Others(r) /\ req[r].pc = "bundle" /\ req'[r].pc = "advance" /\ req'[r].job = j
         /\ \A t \in Tokens : MenuAccepts(r, t) =>
               Others(r) /\ req[r].pc = "bundle" /\ req'[r].pc = "mint" /\ req'[r].tok = t
         /\ BundleHasNoJob(r) \/ MenuRefuses(r) =>
               Others(r) /\ req[r].pc = "bundle" /\ req'[r].pc = "idle"
  <1> USE DEF TypeOK, Others
  <1>1. ASSUME NEW j \in Jobs, BundleHasJob(r, j)
        PROVE  Others(r) /\ req[r].pc = "bundle" /\ req'[r].pc = "advance" /\ req'[r].job = j
    BY <1>1 DEF BundleHasJob, RequestType
  <1>2. ASSUME NEW t \in Tokens, MenuAccepts(r, t)
        PROVE  Others(r) /\ req[r].pc = "bundle" /\ req'[r].pc = "mint" /\ req'[r].tok = t
    BY <1>2 DEF MenuAccepts, RequestType
  <1>3. BundleHasNoJob(r) \/ MenuRefuses(r) =>
               Others(r) /\ req[r].pc = "bundle" /\ req'[r].pc = "idle"
    BY MoveEffects DEF BundleHasNoJob, MenuRefuses
  <1>. QED BY <1>1, <1>2, <1>3

\* The fields a request needs at each step are set before it gets there, and
\* tokens are stored with the job they belong to.
LEMMA RequestStep == IInv /\ [Next]_vars => RequestOK' /\ TokensBound'
  <1> SUFFICES ASSUME IInv, [Next]_vars PROVE RequestOK' /\ TokensBound'
    OBVIOUS
  <1> USE DEF IInv, Others
  <1>1. ASSUME NEW r \in Requests, Start(r) PROVE RequestOK' /\ TokensBound'
    <2>1. ASSUME NEW t \in Tokens, NEW phase \in Phases, PhoneHome(r, t, phase)
          PROVE  RequestOK' /\ TokensBound'
      <3>1. token[t].job \in Jobs /\ token' = token
        BY <2>1 DEF PhoneHome, TokensBound
      <3>. QED BY <2>1, <3>1, StartEffects DEF RequestOK, TokensBound, Live
    <2>2. ASSUME NEW j \in Jobs, Cancel(r, j) PROVE RequestOK' /\ TokensBound'
      <3>1. token' = token
        BY <2>2 DEF Cancel
      <3>. QED BY <2>2, <3>1, StartEffects DEF RequestOK, TokensBound, Live, States, Terminal
    <2>3. ASSUME NEW t \in Tokens, RenderByToken(r, t)
          PROVE  RequestOK' /\ TokensBound'
      <3>1. token' = token
        BY <2>3 DEF RenderByToken
      <3>. QED BY <2>3, <3>1, StartEffects DEF RequestOK, TokensBound, Live
    <2>4. ASSUME NEW m \in Machines, NEW p \in Profiles, MenuDeploy(r, m, p) PROVE RequestOK' /\ TokensBound'
      <3>1. TokensBound'
        BY <2>4 DEF MenuDeploy, TokensBound, Live, TypeOK
      <3>. QED BY <2>4, <3>1, StartEffects DEF RequestOK
    <2>5. ASSUME NEW m \in Machines, NEW p \in Profiles, NEW t \in Tokens, NEW j \in Jobs,
                 Redeem(r, j, m, p, t)
          PROVE  RequestOK' /\ TokensBound'
      <3>1. TokensBound'
        BY <2>5 DEF Redeem, TokensBound, Live, TypeOK
      <3>. QED BY <2>5, <3>1, StartEffects DEF RequestOK
    <2>. QED BY <1>1, <2>1, <2>2, <2>3, <2>4, <2>5 DEF Start
  <1>2. ASSUME NEW r \in Requests, Step(r) PROVE RequestOK' /\ TokensBound'
    <2>1. CASE AppendEvent(r)
      <3>1. RequestOK'
        BY <2>1, MoveEffects DEF AppendEvent, RequestOK, Steps, States, Terminal
      <3>. QED BY <2>1, <3>1 DEF AppendEvent, TokensBound, Live
    <2>2. CASE AdvanceJob(r)
      <3>1. NextOnPath(state[req[r].job]) \in States
        BY DEF NextOnPath, States, Terminal, NonTerminal
      <3>2. RequestOK'
        BY <2>2, <3>1, MoveEffects DEF AdvanceJob, RequestOK
      <3>. QED BY <2>2, <3>2 DEF AdvanceJob, TokensBound, Live
    <2>3. CASE SelectState(r)
      <3>1. RequestOK'
        BY <2>3, MoveEffects DEF SelectState, RequestOK, Steps
      <3>. QED BY <2>3, <3>1 DEF SelectState, TokensBound, Live
    <2>4. CASE UpdateState(r)
      <3>1. NextOnPath(req[r].to) \in States
        BY DEF NextOnPath, States, Terminal, NonTerminal
      <3>2. RequestOK'
        BY <2>4, <3>1, MoveEffects DEF UpdateState, RequestOK, Steps
      <3>. QED BY <2>4, <3>2 DEF UpdateState, TokensBound, Live
    <2>5. CASE MarkTokens(r)
      <3>1. RequestOK'
        BY <2>5, MoveEffects DEF MarkTokens, RequestOK
      <3>. QED BY <2>5, <3>1 DEF MarkTokens, TokensBound, Live, TypeOK
    <2>6. CASE Publish(r)
      BY <2>6, MoveEffects DEF Publish, RequestOK, TokensBound, Live
    <2>7. CASE StoreToken(r)
      <3>1. RequestOK'
        BY <2>7, MoveEffects DEF StoreToken, RequestOK
      <3>2. req[r].job \in Jobs /\ req[r].tok \in Tokens
        BY <2>7 DEF StoreToken, RequestOK
      <3>. QED BY <2>7, <3>1, <3>2 DEF StoreToken, TokensBound, Live, TypeOK
    <2>8. CASE MintFindsNone(r)
      BY <2>8, MoveEffects DEF MintFindsNone, RequestOK, Steps, TokensBound, Live
    <2>9. ASSUME NEW j \in Jobs, MintFound(r, j) PROVE RequestOK' /\ TokensBound'
      <3>1. RequestOK'
        BY <2>9, MoveEffects DEF MintFound, RequestOK
      <3>. QED BY <2>9, <3>1 DEF MintFound, TokensBound, Live, TypeOK
    <2>10. ASSUME NEW j \in Jobs, MintInsert(r, j) PROVE RequestOK' /\ TokensBound'
      <3>1. RequestOK'
        BY <2>10, MoveEffects DEF MintInsert, RequestOK
      <3>. QED BY <2>10, <3>1 DEF MintInsert, TokensBound, Live, TypeOK
    <2>11. ASSUME NEW j \in Jobs, BundleHasJob(r, j) PROVE RequestOK' /\ TokensBound'
      <3>1. RequestOK'
        BY <2>11, BundleEffects DEF RequestOK
      <3>. QED BY <2>11, <3>1 DEF BundleHasJob, TokensBound, Live
    <2>12. ASSUME NEW t \in Tokens, MenuAccepts(r, t) PROVE RequestOK' /\ TokensBound'
      <3>1. RequestOK'
        BY <2>12, BundleEffects DEF RequestOK
      <3>. QED BY <2>12, <3>1 DEF MenuAccepts, TokensBound, Live, TypeOK
    <2>13. CASE BundleHasNoJob(r) \/ MenuRefuses(r)
      BY <2>13, BundleEffects DEF BundleHasNoJob, MenuRefuses, RequestOK, TokensBound, Live
    <2>. QED BY <1>2, <2>1, <2>2, <2>3, <2>4, <2>5, <2>6, <2>7, <2>8, <2>9, <2>10, <2>11, <2>12,
                <2>13 DEF Step
  <1>3. ASSUME NEW r \in Requests, Fault(r) PROVE RequestOK' /\ TokensBound'
    <2>1. CASE StatementFails(r)
      BY <2>1, MoveEffects DEF StatementFails, RequestOK, TokensBound, Live
    <2>2. CASE Abort(r)
      <3>1. RequestOK'
        BY <2>2, MoveEffects DEF Abort, RequestOK
      <3>. QED BY <2>2, <3>1 DEF Abort, TokensBound, Live, TypeOK
    <2>. QED BY <1>3, <2>1, <2>2 DEF Fault
  <1>4. CASE Housekeeping
    BY <1>4 DEF Housekeeping, ExpireToken, ReapToken, RequestOK, TokensBound, Live, TypeOK
  <1>5. CASE UNCHANGED vars
    BY <1>5 DEF vars, RequestOK, TokensBound, Live
  <1>. QED BY <1>1, <1>2, <1>3, <1>4, <1>5 DEF Next

-----------------------------------------------------------------------------
(***************************************************************************)
(* The states a job goes through.                                          *)
(***************************************************************************)

History == TerminalIsFinished /\ Witnessed /\ ProgressIsEarned

\* An action that touches no row of deployment_jobs and brings no request to
\* its UPDATE changes nothing the history is about.
LEMMA QuietHistory ==
  ASSUME IInv, UNCHANGED <<state, finished, visited>>,
         \A q \in Requests : req'[q].pc = "update" => req'[q] = req[q]
  PROVE  History'
  BY DEF IInv, History, TerminalIsFinished, Witnessed, ProgressIsEarned, Exists

\* Inserting a row: one state, with no history to earn.
LEMMA InsertHistory ==
  ASSUME IInv, NEW j \in Jobs, ~Exists(j), NEW s \in {"pending", "bootstrapped"},
         state' = [state EXCEPT ![j] = s], visited' = [visited EXCEPT ![j] = {s}],
         finished' = finished,
         \A q \in Requests : req'[q].pc = "update" => req'[q] = req[q] /\ req[q].job # j
  PROVE  History'
  BY DEF IInv, TypeOK, History, TerminalIsFinished, Witnessed, ProgressIsEarned, Exists, Terminal

\* Every action keeps the history: what a stale check lets through was allowed
\* from a state the job had been in, and what has been visited stays visited.
LEMMA HistoryStep == IInv /\ [Next]_vars => History'
  <1> SUFFICES ASSUME IInv, [Next]_vars PROVE History'
    OBVIOUS
  <1> USE DEF Others
  <1>0. TypeOK /\ RequestOK
    BY DEF IInv
  <1>a. ASSUME NEW j \in Jobs, ~Exists(j), NEW q \in Requests, req[q].pc = "update"
        PROVE  req[q].job # j
    BY <1>a DEF IInv, Witnessed
  <1>1. ASSUME NEW r \in Requests, Start(r) PROVE History'
    <2>1. ASSUME NEW t \in Tokens, NEW phase \in Phases, PhoneHome(r, t, phase) PROVE History'
      BY <1>0, <2>1, StartEffects, QuietHistory DEF PhoneHome
    <2>2. ASSUME NEW j \in Jobs, Cancel(r, j) PROVE History'
      BY <1>0, <2>2, StartEffects, QuietHistory DEF Cancel
    <2>3. ASSUME NEW t \in Tokens, RenderByToken(r, t) PROVE History'
      BY <1>0, <2>3, StartEffects, QuietHistory DEF RenderByToken
    <2>4. ASSUME NEW m \in Machines, NEW p \in Profiles, MenuDeploy(r, m, p) PROVE History'
      BY <1>0, <2>4, StartEffects, QuietHistory DEF MenuDeploy
    <2>5. ASSUME NEW m \in Machines, NEW p \in Profiles, NEW t \in Tokens, NEW j \in Jobs,
                 Redeem(r, j, m, p, t)
          PROVE  History'
      <3>1. /\ ~Exists(j)
            /\ state' = [state EXCEPT ![j] = "bootstrapped"]
            /\ visited' = [visited EXCEPT ![j] = {"bootstrapped"}]
            /\ finished' = finished
        BY <2>5 DEF Redeem, Fresh
      <3>2. \A q \in Requests : req'[q].pc = "update" => req'[q] = req[q] /\ req[q].job # j
        BY <1>0, <1>a, <2>5, <3>1, StartEffects
      <3>. QED BY <3>1, <3>2, InsertHistory
    <2>. QED BY <1>1, <2>1, <2>2, <2>3, <2>4, <2>5 DEF Start
  <1>2. ASSUME NEW r \in Requests, Step(r) PROVE History'
    <2>1. CASE AppendEvent(r)
      BY <1>0, <2>1, MoveEffects, QuietHistory DEF AppendEvent, Steps, States, Terminal
    <2>2. CASE AdvanceJob(r)
      <3>1. NextOnPath(state[req[r].job]) \in States
        BY DEF NextOnPath, States, Terminal, NonTerminal
      <3>. QED BY <1>0, <2>2, <3>1, MoveEffects, QuietHistory DEF AdvanceJob
    <2>3. CASE SelectState(r)
      <3>1. CASE req[r].to \in Allowed(state[req[r].job])
        <4>1. UNCHANGED <<state, finished, visited>>
          BY <2>3 DEF SelectState
        <4>2. /\ Others(r) /\ req'[r].pc = "update" /\ req'[r].job = req[r].job
              /\ req'[r].to = req[r].to
          BY <1>0, <2>3, <3>1, MoveEffects DEF SelectState, Steps
        <4>3. req[r].job \in Jobs
          BY <1>0, <2>3 DEF SelectState, RequestOK
        <4>4. Exists(req[r].job)
          BY <3>1 DEF Exists, Allowed
        <4>5. state[req[r].job] \in visited[req[r].job]
          BY <4>3, <4>4 DEF IInv, Witnessed
        <4>. QED BY <3>1, <4>1, <4>2, <4>5
               DEF IInv, History, TerminalIsFinished, Witnessed, ProgressIsEarned, Exists
      <3>2. CASE req[r].to \notin Allowed(state[req[r].job])
        BY <1>0, <2>3, <3>2, MoveEffects, QuietHistory DEF SelectState
      <3>. QED BY <3>1, <3>2
    <2>4. CASE UpdateState(r)
      <3> DEFINE j == req[r].job
                 to == req[r].to
      <3>1. j \in Jobs /\ to \in States
        BY <1>0, <2>4 DEF UpdateState, RequestOK
      <3>2. /\ state' = [state EXCEPT ![j] = to]
            /\ visited' = [visited EXCEPT ![j] = @ \cup {to}]
            /\ finished' = [finished EXCEPT ![j] = @ \/ to \in Terminal]
        BY <2>4 DEF UpdateState
      <3>3. PICK cur \in visited[j] : to \in Allowed(cur)
        BY <2>4 DEF UpdateState, IInv, Witnessed
      <3>4. NextOnPath(to) \in States
        BY DEF NextOnPath, States, Terminal, NonTerminal
      <3>5. Others(r) /\ req'[r].pc # "update"
        BY <1>0, <2>4, <3>4, MoveEffects DEF UpdateState, Steps
      <3>6. TerminalIsFinished'
        BY <1>0, <3>1, <3>2 DEF IInv, TypeOK, TerminalIsFinished
      <3>7. Witnessed'
        <4>1. \A i \in Jobs : visited[i] \subseteq visited'[i]
          BY <1>0, <3>2 DEF TypeOK
        <4>2. ASSUME NEW i \in Jobs
              PROVE  IF Exists(i)' THEN state'[i] \in visited'[i] ELSE visited'[i] = {}
          <5>1. CASE i = j
            BY <1>0, <3>1, <3>2, <5>1 DEF TypeOK, Exists, States, Terminal, NonTerminal
          <5>2. CASE i # j
            BY <1>0, <3>2, <5>2 DEF TypeOK, Exists, IInv, Witnessed
          <5>. QED BY <5>1, <5>2
        <4>3. ASSUME NEW q \in Requests, req'[q].pc = "update"
              PROVE  \E c \in visited'[req'[q].job] : req'[q].to \in Allowed(c)
          <5>1. req'[q] = req[q]
            BY <3>5, <4>3
          <5>2. req[q].job \in Jobs
            BY <1>0, <4>3, <5>1 DEF RequestOK
          <5>. QED BY <4>1, <4>3, <5>1, <5>2 DEF IInv, Witnessed
        <4>. QED BY <4>2, <4>3 DEF Witnessed
      <3>8. ProgressIsEarned'
        <4>1. visited[j] \subseteq States
          BY <1>0, <3>1 DEF TypeOK
        <4>2. to \in {"imaging", "failed"} =>
                 cur \in {"bootstrapped", "imaging", "post_install"}
          BY <3>3 DEF Allowed
        <4>3. to \in {"post_install", "completed"} => cur \in {"imaging", "post_install"}
          BY <3>3 DEF Allowed
        <4>4. /\ visited[j] \cap {"imaging", "failed"} # {} => "bootstrapped" \in visited[j]
              /\ visited[j] \cap {"post_install", "completed"} # {} => "imaging" \in visited[j]
          BY <3>1 DEF IInv, ProgressIsEarned
        <4>5. visited'[j] = visited[j] \cup {to}
          BY <1>0, <3>1, <3>2 DEF TypeOK
        <4>6. /\ visited'[j] \cap {"imaging", "failed"} # {} => "bootstrapped" \in visited'[j]
              /\ visited'[j] \cap {"post_install", "completed"} # {} => "imaging" \in visited'[j]
          BY <3>3, <4>2, <4>3, <4>4, <4>5
        <4>. QED BY <1>0, <3>1, <3>2, <4>6 DEF TypeOK, IInv, ProgressIsEarned
      <3>. QED BY <3>6, <3>7, <3>8 DEF History
    <2>5. CASE MarkTokens(r)
      BY <1>0, <2>5, MoveEffects, QuietHistory DEF MarkTokens
    <2>6. CASE Publish(r)
      BY <1>0, <2>6, MoveEffects, QuietHistory DEF Publish
    <2>7. CASE StoreToken(r)
      BY <1>0, <2>7, MoveEffects, QuietHistory DEF StoreToken
    <2>8. CASE MintFindsNone(r)
      BY <1>0, <2>8, MoveEffects, QuietHistory DEF MintFindsNone, Steps
    <2>9. ASSUME NEW j \in Jobs, MintFound(r, j) PROVE History'
      BY <1>0, <2>9, MoveEffects, QuietHistory DEF MintFound
    <2>10. ASSUME NEW j \in Jobs, MintInsert(r, j) PROVE History'
      <3>1. /\ ~Exists(j)
            /\ state' = [state EXCEPT ![j] = "pending"]
            /\ visited' = [visited EXCEPT ![j] = {"pending"}]
            /\ finished' = finished
        BY <2>10 DEF MintInsert, Fresh
      <3>2. \A q \in Requests : req'[q].pc = "update" => req'[q] = req[q] /\ req[q].job # j
        BY <1>0, <1>a, <2>10, <3>1, MoveEffects DEF MintInsert
      <3>. QED BY <3>1, <3>2, InsertHistory
    <2>11. ASSUME NEW j \in Jobs, BundleHasJob(r, j) PROVE History'
      BY <1>0, <2>11, BundleEffects, QuietHistory DEF BundleHasJob
    <2>12. ASSUME NEW t \in Tokens, MenuAccepts(r, t) PROVE History'
      BY <1>0, <2>12, BundleEffects, QuietHistory DEF MenuAccepts
    <2>13. CASE BundleHasNoJob(r) \/ MenuRefuses(r)
      BY <1>0, <2>13, BundleEffects, QuietHistory DEF BundleHasNoJob, MenuRefuses
    <2>. QED BY <1>2, <2>1, <2>2, <2>3, <2>4, <2>5, <2>6, <2>7, <2>8, <2>9, <2>10, <2>11, <2>12,
                <2>13 DEF Step
  <1>3. ASSUME NEW r \in Requests, Fault(r) PROVE History'
    <2>1. CASE StatementFails(r)
      BY <1>0, <2>1, MoveEffects, QuietHistory DEF StatementFails
    <2>2. CASE Abort(r)
      BY <1>0, <2>2, MoveEffects, QuietHistory DEF Abort
    <2>. QED BY <1>3, <2>1, <2>2 DEF Fault
  <1>4. CASE Housekeeping
    BY <1>4, QuietHistory DEF Housekeeping, ExpireToken, ReapToken
  <1>5. CASE UNCHANGED vars
    BY <1>5, QuietHistory DEF vars
  <1>. QED BY <1>1, <1>2, <1>3, <1>4, <1>5 DEF Next

-----------------------------------------------------------------------------
(***************************************************************************)
(* Revocation.                                                             *)
(***************************************************************************)

\* An action that leaves the rows alone, adds no live token and takes no
\* request away from its revocation keeps RevokedUnlessLost.
LEMMA QuietRevoke ==
  ASSUME IInv, state' = state, late' = late, dropped \subseteq dropped',
         \A t \in Tokens : Live(t)' => token'[t] = token[t],
         \A q \in Requests : req[q].pc = "mark" =>
             \/ req'[q].pc = "mark" /\ req'[q].job = req[q].job
             \/ req[q].job \in dropped'
  PROVE  RevokedUnlessLost'
  <1> SUFFICES ASSUME NEW t \in Tokens, Live(t)', state'[token'[t].job] \in Terminal
               PROVE  \/ \E r \in Requests : req'[r].pc = "mark" /\ req'[r].job = token'[t].job
                      \/ t \in late'
                      \/ token'[t].job \in dropped'
    BY DEF RevokedUnlessLost
  <1>1. Live(t) /\ token'[t] = token[t]
    BY DEF Live
  <1>. QED BY <1>1 DEF IInv, RevokedUnlessLost

\* Every action keeps the account of how a finished job can have a live token.
LEMMA RevokeStep == IInv /\ [Next]_vars => RevokedUnlessLost'
  <1> SUFFICES ASSUME IInv, [Next]_vars PROVE RevokedUnlessLost'
    OBVIOUS
  <1> USE DEF Others
  <1>0. TypeOK /\ RequestOK /\ TokensBound /\ RevokedUnlessLost
    BY DEF IInv
  <1>1. ASSUME NEW r \in Requests, Start(r) PROVE RevokedUnlessLost'
    <2>0. req[r].pc = "idle"
      BY <1>1 DEF Start, PhoneHome, Cancel, RenderByToken, Redeem, MenuDeploy, CanStart
    <2>1. ASSUME NEW t \in Tokens, NEW phase \in Phases, PhoneHome(r, t, phase)
          PROVE  RevokedUnlessLost'
      BY <1>0, <2>0, <2>1, StartEffects, QuietRevoke DEF PhoneHome
    <2>2. ASSUME NEW j \in Jobs, Cancel(r, j) PROVE RevokedUnlessLost'
      BY <1>0, <2>0, <2>2, StartEffects, QuietRevoke DEF Cancel
    <2>3. ASSUME NEW t \in Tokens, RenderByToken(r, t)
          PROVE  RevokedUnlessLost'
      BY <1>0, <2>0, <2>3, StartEffects, QuietRevoke DEF RenderByToken
    <2>4. ASSUME NEW m \in Machines, NEW p \in Profiles, MenuDeploy(r, m, p) PROVE RevokedUnlessLost'
      BY <1>0, <2>0, <2>4, StartEffects, QuietRevoke DEF MenuDeploy
    <2>5. ASSUME NEW m \in Machines, NEW p \in Profiles, NEW t \in Tokens, NEW j \in Jobs,
                 Redeem(r, j, m, p, t)
          PROVE  RevokedUnlessLost'
      <3>1. \A u \in Tokens : Live(u)' => Live(u) /\ token'[u] = token[u]
        BY <1>0, <2>5 DEF Redeem, Live, TypeOK
      <3>2. \A i \in Jobs : state'[i] \in Terminal => state'[i] = state[i]
        BY <1>0, <2>5 DEF Redeem, TypeOK, Terminal
      <3>3. \A q \in Requests : req[q].pc = "mark" => req'[q] = req[q]
        BY <1>0, <2>0, <2>5, StartEffects
      <3>4. late' = late /\ dropped' = dropped
        BY <2>5 DEF Redeem
      <3>. QED BY <1>0, <3>1, <3>2, <3>3, <3>4 DEF RevokedUnlessLost, TokensBound
    <2>. QED BY <1>1, <2>1, <2>2, <2>3, <2>4, <2>5 DEF Start
  <1>2. ASSUME NEW r \in Requests, Step(r) PROVE RevokedUnlessLost'
    <2>1. CASE AppendEvent(r)
      BY <1>0, <2>1, MoveEffects, QuietRevoke DEF AppendEvent, Steps, States, Terminal
    <2>2. CASE AdvanceJob(r)
      <3>1. NextOnPath(state[req[r].job]) \in States
        BY DEF NextOnPath, States, Terminal, NonTerminal
      <3>. QED BY <1>0, <2>2, <3>1, MoveEffects, QuietRevoke DEF AdvanceJob
    <2>3. CASE SelectState(r)
      BY <1>0, <2>3, MoveEffects, QuietRevoke DEF SelectState, Steps
    <2>4. CASE UpdateState(r)
      <3>1. req[r].job \in Jobs /\ req[r].to \in States /\ req[r].pc = "update"
        BY <1>0, <2>4 DEF UpdateState, RequestOK
      <3>2. UNCHANGED <<token, late, dropped>> /\ state' = [state EXCEPT ![req[r].job] = req[r].to]
        BY <2>4 DEF UpdateState
      <3>3. NextOnPath(req[r].to) \in States
        BY DEF NextOnPath, States, Terminal, NonTerminal
      <3>4. Others(r)
        BY <1>0, <2>4, <3>3, MoveEffects DEF UpdateState, Steps
      <3>5. req[r].to \in Terminal => req'[r].pc = "mark" /\ req'[r].job = req[r].job
        BY <1>0, <2>4, MoveEffects DEF UpdateState, Steps
      <3>6. ASSUME NEW t \in Tokens, Live(t), state'[token[t].job] \in Terminal
            PROVE  \/ \E q \in Requests : req'[q].pc = "mark" /\ req'[q].job = token[t].job
                   \/ t \in late
                   \/ token[t].job \in dropped
        <4>1. token[t].job \in Jobs
          BY <1>0, <3>6 DEF TokensBound
        <4>2. CASE token[t].job = req[r].job
          BY <1>0, <3>1, <3>2, <3>5, <3>6, <4>2 DEF TypeOK
        <4>3. CASE token[t].job # req[r].job
          <5>1. state[token[t].job] \in Terminal
            BY <1>0, <3>2, <3>6, <4>1, <4>3 DEF TypeOK
          <5>. QED BY <1>0, <3>1, <3>4, <3>6, <5>1 DEF RevokedUnlessLost
        <4>. QED BY <4>2, <4>3
      <3>. QED BY <3>2, <3>6 DEF RevokedUnlessLost, Live
    <2>5. CASE MarkTokens(r)
      <3>1. UNCHANGED <<state, late, dropped>> /\ Others(r)
        BY <1>0, <2>5, MoveEffects DEF MarkTokens
      <3>2. \A t \in Tokens : Live(t)' =>
               Live(t) /\ token'[t] = token[t] /\ token[t].job # req[r].job
        BY <1>0, <2>5 DEF MarkTokens, Live, TypeOK
      <3>. QED BY <1>0, <3>1, <3>2 DEF RevokedUnlessLost
    <2>6. CASE Publish(r)
      BY <1>0, <2>6, MoveEffects, QuietRevoke DEF Publish
    <2>7. CASE StoreToken(r)
      <3>1. req[r].job \in Jobs /\ req[r].tok \in Tokens /\ req[r].pc = "token"
        BY <1>0, <2>7 DEF StoreToken, RequestOK
      <3>2. /\ UNCHANGED <<state, dropped>> /\ Others(r)
            /\ late' = IF state[req[r].job] \in Terminal THEN late \cup {req[r].tok} ELSE late
            /\ token' = [token EXCEPT ![req[r].tok] = [job |-> req[r].job, st |-> "live"]]
        BY <1>0, <2>7, MoveEffects DEF StoreToken
      <3>3. ASSUME NEW t \in Tokens, Live(t)', state'[token'[t].job] \in Terminal
            PROVE  \/ \E q \in Requests : req'[q].pc = "mark" /\ req'[q].job = token'[t].job
                   \/ t \in late'
                   \/ token'[t].job \in dropped'
        <4>1. CASE t = req[r].tok
          BY <1>0, <3>1, <3>2, <3>3, <4>1 DEF TypeOK
        <4>2. CASE t # req[r].tok
          <5>1. token'[t] = token[t] /\ Live(t)
            BY <1>0, <3>2, <3>3, <4>2 DEF TypeOK, Live
          <5>. QED BY <1>0, <3>1, <3>2, <3>3, <5>1 DEF RevokedUnlessLost
        <4>. QED BY <4>1, <4>2
      <3>. QED BY <3>3 DEF RevokedUnlessLost
    <2>8. CASE MintFindsNone(r)
      BY <1>0, <2>8, MoveEffects, QuietRevoke DEF MintFindsNone, Steps
    <2>9. ASSUME NEW j \in Jobs, MintFound(r, j) PROVE RevokedUnlessLost'
      <3>1. req[r].tok \in Tokens /\ state[j] \in NonTerminal /\ req[r].pc = "mint"
        BY <1>0, <2>9 DEF MintFound, Newest, MenuJobs, RequestOK
      <3>2. UNCHANGED <<state, late, dropped>> /\ Others(r)
        BY <1>0, <2>9, MoveEffects DEF MintFound
      <3>3. \A t \in Tokens : Live(t)' /\ state'[token'[t].job] \in Terminal =>
               Live(t) /\ token'[t] = token[t]
        BY <1>0, <2>9, <3>1, <3>2 DEF MintFound, Live, TypeOK, NonTerminal, Terminal
      <3>. QED BY <1>0, <3>1, <3>2, <3>3 DEF RevokedUnlessLost
    <2>10. ASSUME NEW j \in Jobs, MintInsert(r, j) PROVE RevokedUnlessLost'
      <3>1. req[r].tok \in Tokens /\ req[r].pc = "insert"
        BY <1>0, <2>10 DEF MintInsert, RequestOK
      <3>2. UNCHANGED <<late, dropped>> /\ Others(r)
        BY <1>0, <2>10, MoveEffects DEF MintInsert
      <3>3. \A i \in Jobs : state'[i] \in Terminal => state'[i] = state[i]
        BY <1>0, <2>10 DEF MintInsert, TypeOK, Terminal
      <3>4. \A t \in Tokens : Live(t)' /\ state'[token'[t].job] \in Terminal =>
               Live(t) /\ token'[t] = token[t]
        BY <1>0, <2>10, <3>1 DEF MintInsert, Live, TypeOK, Terminal
      <3>. QED BY <1>0, <3>1, <3>2, <3>3, <3>4 DEF RevokedUnlessLost, TokensBound
    <2>11. ASSUME NEW j \in Jobs, BundleHasJob(r, j) PROVE RevokedUnlessLost'
      BY <1>0, <2>11, BundleEffects, QuietRevoke DEF BundleHasJob
    <2>12. ASSUME NEW t \in Tokens, MenuAccepts(r, t) PROVE RevokedUnlessLost'
      <3>1. \A u \in Tokens : Live(u)' => token'[u] = token[u]
        BY <1>0, <2>12 DEF MenuAccepts, Live, TypeOK
      <3>. QED BY <1>0, <2>12, <3>1, BundleEffects, QuietRevoke DEF MenuAccepts
    <2>13. CASE BundleHasNoJob(r) \/ MenuRefuses(r)
      BY <1>0, <2>13, BundleEffects, QuietRevoke DEF BundleHasNoJob, MenuRefuses
    <2>. QED BY <1>2, <2>1, <2>2, <2>3, <2>4, <2>5, <2>6, <2>7, <2>8, <2>9, <2>10, <2>11, <2>12,
                <2>13 DEF Step
  <1>3. ASSUME NEW r \in Requests, Fault(r) PROVE RevokedUnlessLost'
    <2>1. CASE StatementFails(r)
      BY <1>0, <2>1, MoveEffects, QuietRevoke DEF StatementFails
    <2>2. CASE Abort(r)
      <3>1. \A t \in Tokens : Live(t)' => token'[t] = token[t]
        BY <1>0, <2>2 DEF Abort, Live, TypeOK
      <3>. QED BY <1>0, <2>2, <3>1, MoveEffects, QuietRevoke DEF Abort
    <2>. QED BY <1>3, <2>1, <2>2 DEF Fault
  <1>4. CASE Housekeeping
    <2>1. \A t \in Tokens : Live(t)' => token'[t] = token[t]
      BY <1>0, <1>4 DEF Housekeeping, ExpireToken, ReapToken, Live, TypeOK
    <2>. QED BY <1>4, <2>1, QuietRevoke DEF Housekeeping, ExpireToken, ReapToken
  <1>5. CASE UNCHANGED vars
    BY <1>5, QuietRevoke DEF vars
  <1>. QED BY <1>1, <1>2, <1>3, <1>4, <1>5 DEF Next

-----------------------------------------------------------------------------
(***************************************************************************)
(* The theorems.                                                           *)
(***************************************************************************)

\* IInv is inductive: it holds in every reachable state of the handlers.
THEOREM Inductive == Spec => []IInv
  <1>1. IInv /\ [Next]_vars => IInv'
    BY TypeStep, RequestStep, HistoryStep, RevokeStep DEF IInv, History
  <1>. QED BY InitIInv, <1>1, PTL DEF Spec

\* Type correctness of the two tables and of every request slot.
THEOREM TypeCorrect == Spec => []TypeOK
  <1>1. IInv => TypeOK
    BY DEF IInv
  <1>. QED BY <1>1, Inductive, PTL

\* Stale checks in TransitionJob never let a job skip imaging or bootstrap.
THEOREM Earned == Spec => []ProgressIsEarned
  <1>1. IInv => ProgressIsEarned
    BY DEF IInv
  <1>. QED BY <1>1, Inductive, PTL

\* The revocation hook of TransitionJob leaves a live token of a finished job
\* in the three accounted ways only.
THEOREM Revoked == Spec => []RevokedUnlessLost
  <1>1. IInv => RevokedUnlessLost
    BY DEF IInv
  <1>. QED BY <1>1, Inductive, PTL

-----------------------------------------------------------------------------
(***************************************************************************)
(* Jobs that are over.                                                     *)
(***************************************************************************)

\* No handler is between its check and its UPDATE of job j.
Unclaimed(j) == \A r \in Requests : ~(req[r].pc = "update" /\ req[r].job = j)

\* What SettledIsFinal says of a step.
SettledStep ==
    \A j \in Jobs :
       /\ state[j] \in Terminal
       /\ \A r \in Requests : ~(req[r].pc = "update" /\ req[r].job = j)
       => /\ state'[j] = state[j] /\ finished'[j]
          /\ \A r \in Requests : ~(req'[r].pc = "update" /\ req'[r].job = j)

\* A terminal state has no edge of the graph.
LEMMA TerminalAllowsNothing == \A s \in Terminal : Allowed(s) = {}
  BY DEF Terminal, Allowed

\* Only TransitionJob's UPDATE changes a row that exists.
LEMMA OnlyUpdateMoves ==
  ASSUME IInv, NEW j \in Jobs, Exists(j), [Next]_vars,
         \A r \in Requests : ~(UpdateState(r) /\ req[r].job = j)
  PROVE  state'[j] = state[j] /\ finished'[j] = finished[j]
  <1>0. TypeOK /\ RequestOK
    BY DEF IInv
  <1>1. ASSUME NEW r \in Requests, UpdateState(r)
        PROVE  state'[j] = state[j] /\ finished'[j] = finished[j]
    BY <1>0, <1>1 DEF UpdateState, TypeOK, RequestOK
  <1>2. ASSUME NEW r \in Requests, Start(r)
        PROVE  state'[j] = state[j] /\ finished'[j] = finished[j]
    BY <1>0, <1>2 DEF Start, PhoneHome, Cancel, RenderByToken, Redeem, MenuDeploy, TypeOK,
                      Fresh, Exists
  <1>3. ASSUME NEW r \in Requests, Step(r), ~UpdateState(r)
        PROVE  state'[j] = state[j] /\ finished'[j] = finished[j]
    BY <1>0, <1>3 DEF Step, AppendEvent, BundleHasJob, BundleHasNoJob, MenuAccepts, MenuRefuses,
                      AdvanceJob, SelectState, MarkTokens, Publish, StoreToken,
                      MintFindsNone, MintFound, MintInsert, TypeOK, Fresh, Exists
  <1>4. ASSUME NEW r \in Requests, Fault(r)
        PROVE  state'[j] = state[j] /\ finished'[j] = finished[j]
    BY <1>4 DEF Fault, StatementFails, Abort
  <1>5. ASSUME Housekeeping \/ UNCHANGED vars
        PROVE  state'[j] = state[j] /\ finished'[j] = finished[j]
    BY <1>5 DEF Housekeeping, ExpireToken, ReapToken, vars
  <1>. QED BY <1>1, <1>2, <1>3, <1>4, <1>5 DEF Next

\* Only the SELECT brings a request to its UPDATE, and not of a job that is over.
LEMMA OnlyCheckedUpdate ==
  ASSUME IInv, NEW j \in Jobs, state[j] \in Terminal, Unclaimed(j), [Next]_vars
  PROVE  Unclaimed(j)'
  <1> USE DEF Others
  <1>0. TypeOK /\ RequestOK
    BY DEF IInv
  <1>1. ASSUME NEW r \in Requests, Start(r) PROVE Unclaimed(j)'
    <2>1. Others(r) /\ req'[r].pc # "update"
      BY <1>0, <1>1, StartEffects DEF Start
    <2>. QED BY <2>1 DEF Unclaimed
  <1>2. ASSUME NEW r \in Requests, Step(r) PROVE Unclaimed(j)'
    <2>1. CASE SelectState(r)
      <3>1. CASE req[r].to \in Allowed(state[req[r].job])
        <4>1. req[r].job # j
          BY <3>1, TerminalAllowsNothing
        <4>2. Others(r) /\ req'[r].job = req[r].job
          BY <1>0, <2>1, <3>1, MoveEffects DEF SelectState, Steps
        <4>. QED BY <4>1, <4>2 DEF Unclaimed
      <3>2. CASE req[r].to \notin Allowed(state[req[r].job])
        BY <1>0, <2>1, <3>2, MoveEffects DEF SelectState, Unclaimed
      <3>. QED BY <3>1, <3>2
    <2>2. CASE ~SelectState(r)
      <3>1. NextOnPath(state[req[r].job]) \in States /\ NextOnPath(req[r].to) \in States
        BY DEF NextOnPath, States, Terminal, NonTerminal
      <3>2. Others(r) /\ req'[r].pc # "update"
        BY <1>0, <1>2, <2>2, <3>1, MoveEffects, BundleEffects
           DEF Step, AppendEvent, AdvanceJob, UpdateState, MarkTokens, Publish, StoreToken,
               MintFindsNone, MintFound, MintInsert, Steps, States, Terminal
      <3>. QED BY <3>2 DEF Unclaimed
    <2>. QED BY <2>1, <2>2
  <1>3. ASSUME NEW r \in Requests, Fault(r) PROVE Unclaimed(j)'
    <2>1. Others(r) /\ req'[r].pc # "update"
      BY <1>0, <1>3, MoveEffects DEF Fault, StatementFails, Abort
    <2>. QED BY <2>1 DEF Unclaimed
  <1>4. CASE Housekeeping
    BY <1>4 DEF Housekeeping, ExpireToken, ReapToken, Unclaimed
  <1>5. CASE UNCHANGED vars
    BY <1>5 DEF vars, Unclaimed
  <1>. QED BY <1>1, <1>2, <1>3, <1>4, <1>5 DEF Next

\* A job that is over is left alone by every handler whose check comes later,
\* for any number of handlers, with failures too: what TransitionJob's check
\* misses is confined to the window between its SELECT and its UPDATE.
THEOREM Settled == Spec => SettledIsFinal
  <1>1. IInv /\ [Next]_vars => [SettledStep]_vars
    <2> SUFFICES ASSUME IInv, [Next]_vars, NEW j \in Jobs, state[j] \in Terminal, Unclaimed(j)
                 PROVE  state'[j] = state[j] /\ finished'[j] /\ Unclaimed(j)'
      BY DEF SettledStep, Unclaimed
    <2>1. Exists(j) /\ finished[j]
      BY DEF Exists, Terminal, IInv, TerminalIsFinished
    <2>2. \A r \in Requests : ~(UpdateState(r) /\ req[r].job = j)
      BY DEF UpdateState, Unclaimed
    <2>3. state'[j] = state[j] /\ finished'[j] = finished[j]
      BY <2>1, <2>2, OnlyUpdateMoves
    <2>. QED BY <2>1, <2>3, OnlyCheckedUpdate
  <1>. QED BY <1>1, Inductive, PTL DEF Spec, SettledIsFinal, SettledStep

=============================================================================
