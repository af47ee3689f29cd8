---------------------------- MODULE JobLifecycle ----------------------------
(***************************************************************************)
(* The deployment_jobs and one_shot_tokens tables of the deploy server and *)
(* the HTTP handlers that change them.  Every handler runs in its own      *)
(* goroutine and talks to Postgres one statement at a time, so a handler   *)
(* is a request slot with a program counter and every SQL statement is an  *)
(* action of its own.  No statement below runs in a transaction with the   *)
(* one before it, except the token mint of the PXE menu.                   *)
(*                                                                         *)
(* Jobs are numbered in the order their rows are inserted (created_at).    *)
(* A boot token is bound to an auth code and a job to the same auth code;  *)
(* each code has exactly one job (the broker consumes a code once, the     *)
(* menu makes a synthetic code per job), so a token is bound to a job.     *)
(***************************************************************************)
EXTENDS Naturals, FiniteSets

CONSTANTS
    MaxJobs,        \* bound on the rows of deployment_jobs
    Machines,
    Profiles,
    NoProfile,      \* a machine without default_profile_id
    DefaultProfile, \* [Machines -> Profiles \cup {NoProfile}]
    MenuOpen,       \* PXE_MENU_MODE = open
    Tokens,         \* one-shot boot tokens that may be minted
    Requests,       \* HTTP requests in flight at the same time
    Kinds,          \* the handlers a run exercises
    Faults          \* may statements fail and requests die half-way?

Jobs == 1..MaxJobs
NoJob == 0
NoToken == "no_token"
AllKinds == {"phone", "cancel", "render", "redeem", "menu"}

ASSUME JobsAssumption ==
    /\ MaxJobs \in Nat
    /\ NoProfile \notin Profiles
    /\ DefaultProfile \in [Machines -> Profiles \cup {NoProfile}]
    /\ MenuOpen \in BOOLEAN
    /\ NoToken \notin Tokens
    /\ Kinds \subseteq AllKinds
    /\ Faults \in BOOLEAN

VARIABLES
    state,      \* deployment_jobs.state, "none" while there is no row
    owner,      \* deployment_jobs.machine_id and profile_id
    finished,   \* deployment_jobs.finished_at IS NOT NULL
    token,      \* one_shot_tokens: the job a token is bound to, its status
    req,        \* the handler running in each request slot
    visited,    \* history: every state a job has been in
    late,       \* history: tokens inserted when their job was over already
    dropped,    \* history: jobs whose token revocation did not happen
    broken      \* history: jobs of which a handler failed or died half-way

vars == <<state, owner, finished, token, req, visited, late, dropped, broken>>

-----------------------------------------------------------------------------
(***************************************************************************)
(* The state graph.                                                        *)
(***************************************************************************)

Terminal == {"completed", "failed", "cancelled"}
NonTerminal == {"pending", "bootstrapped", "imaging", "post_install"}
States == NonTerminal \cup Terminal

\* TransitionJob's allowed map; a state without an entry allows nothing.
Allowed(cur) ==
    CASE cur = "pending"      -> {"bootstrapped", "cancelled"}
      [] cur = "bootstrapped" -> {"imaging", "failed", "cancelled"}
      [] cur = "imaging"      -> {"post_install", "completed", "failed", "cancelled"}
      [] cur = "post_install" -> {"completed", "failed"}
      [] OTHER                -> {}

\* jobStatePath, as the position of a state on the happy path (0: not on it)
\* and the state that follows one.
PathIndex(s) ==
    CASE s = "pending" -> 1 [] s = "bootstrapped" -> 2 [] s = "imaging" -> 3
      [] s = "post_install" -> 4 [] s = "completed" -> 5 [] OTHER -> 0

NextOnPath(s) ==
    CASE s = "pending" -> "bootstrapped" [] s = "bootstrapped" -> "imaging"
      [] s = "imaging" -> "post_install" [] OTHER -> "completed"

\* The phases an installer reports; "other" is any phase that maps to "".
Phases == {"imaging", "post_install", "completed", "failed", "other"}

\* Mutant: the phase of the report is taken for a state as it is.
mapPhaseUnmapped(phase) == phase

mapPhaseToState(phase) ==
    IF phase \in {"imaging", "post_install", "completed", "failed"}
    THEN phase ELSE "none"

-----------------------------------------------------------------------------
(***************************************************************************)
(* Rows and requests.                                                      *)
(***************************************************************************)

TokenStatus == {"unused", "minting", "live", "expired", "consumed", "gone"}
Steps == {"idle", "append", "bundle", "advance", "select", "update", "mark",
          "publish", "token", "mint", "insert"}

OwnerType == [mach : Machines \cup {"none"}, prof : Profiles \cup {"none"}]
NoOwner == [mach |-> "none", prof |-> "none"]

RequestType ==
    [kind : AllKinds \cup {"none"}, pc : Steps, job : Jobs \cup {NoJob},
     to : States \cup {"none"}, goal : States \cup {"none"},
     tok : Tokens \cup {NoToken}, own : OwnerType]

Idle == [kind |-> "none", pc |-> "idle", job |-> NoJob, to |-> "none",
         goal |-> "none", tok |-> NoToken, own |-> NoOwner]

TypeOK ==
    /\ state \in [Jobs -> States \cup {"none"}]
    /\ owner \in [Jobs -> OwnerType]
    /\ finished \in [Jobs -> BOOLEAN]
    /\ token \in [Tokens -> [job : Jobs \cup {NoJob}, st : TokenStatus]]
    /\ req \in [Requests -> RequestType]
    /\ visited \in [Jobs -> SUBSET States]
    /\ late \subseteq Tokens
    /\ dropped \subseteq Jobs
    /\ broken \subseteq Jobs

Exists(j) == state[j] # "none"

\* The next row to be inserted.
Fresh(j) == ~Exists(j) /\ \A i \in Jobs : i < j => Exists(i)

\* Bound: there is a row for every mint that is about to insert one.
RowLeft ==
    Cardinality({r \in Requests : req[r].pc = "insert"}) <
        Cardinality({j \in Jobs : ~Exists(j)})

\* consumed_at IS NULL AND expires_at > now(), and the row's job.
Live(t) == token[t].st = "live"

\* LookupRenderBundle: the newest job of the machine in one of three states,
\* else no job at all (the default profile is rendered without one).
ActiveJobs(m) ==
    {j \in Jobs : owner[j].mach = m /\ state[j] \in {"pending", "bootstrapped", "imaging"}}

\* ORDER BY created_at DESC LIMIT 1.
Newest(j, S) == j \in S /\ \A i \in S : i <= j

\* The profile of that bundle: the job's, else the machine's default.
IsAssigned(m, p) ==
    IF ActiveJobs(m) = {}
    THEN p = DefaultProfile[m]
    ELSE \E j \in Jobs : Newest(j, ActiveJobs(m)) /\ p = owner[j].prof

\* The rows the SELECT ... FOR UPDATE of MintMenuBootToken ranges over.
MenuJobs(own) == {j \in Jobs : owner[j] = own /\ state[j] \in NonTerminal}

Init ==
    /\ state = [j \in Jobs |-> "none"]
    /\ owner = [j \in Jobs |-> NoOwner]
    /\ finished = [j \in Jobs |-> FALSE]
    /\ token = [t \in Tokens |-> [job |-> NoJob, st |-> "unused"]]
    /\ req = [r \in Requests |-> Idle]
    /\ visited = [j \in Jobs |-> {}]
    /\ late = {}
    /\ dropped = {}
    /\ broken = {}

CanStart(r, kind) == kind \in Kinds /\ req[r].pc = "idle"

Goto(r, pc) == req' = [req EXCEPT ![r].pc = pc]

Reply(r) == req' = [req EXCEPT ![r] = Idle]

\* The next TransitionJob call of a handler.
Hop(r, to) == req' = [req EXCEPT ![r] = [@ EXCEPT !.pc = "select", !.to = to]]

\* Where a handler goes when AdvanceJob or TransitionJob has returned, with
\* or without an error: phone-home ignores the error and publishes.
Returned(r) == IF req[r].kind = "phone" THEN Goto(r, "publish") ELSE Reply(r)

-----------------------------------------------------------------------------
(***************************************************************************)
(* The first statement of each handler.                                    *)
(***************************************************************************)

\* POST /v1/jobs/{id}/events: VerifyPhoneHomeToken checks the token and the
\* job without consuming anything.  A rejected call changes nothing.
PhoneHome(r, t, phase) ==
    /\ CanStart(r, "phone")
    /\ Live(t)
    /\ state[token[t].job] \in NonTerminal
    /\ req' = [req EXCEPT ![r] = [Idle EXCEPT !.kind = "phone", !.pc = "append",
                                              !.job = token[t].job,
                                              !.goal = mapPhaseToState(phase)]]
    /\ UNCHANGED <<state, owner, finished, token, visited, late, dropped, broken>>

\* POST /api/v1/jobs/{id}/cancel, handed to TransitionJob as it is.
Cancel(r, j) ==
    /\ CanStart(r, "cancel")
    /\ Exists(j)
    /\ req' = [req EXCEPT ![r] = [Idle EXCEPT !.kind = "cancel", !.pc = "select",
                                              !.job = j, !.to = "cancelled",
                                              !.goal = "cancelled"]]
    /\ UNCHANGED <<state, owner, finished, token, visited, late, dropped, broken>>

\* GET /internal/render/by-token/{token}: the first SELECT of
\* LookupRenderBundleByToken leads from the token to its machine.
RenderByToken(r, t) ==
    /\ CanStart(r, "render")
    /\ Live(t)
    /\ req' = [req EXCEPT ![r] = [Idle EXCEPT !.kind = "render", !.pc = "bundle",
                                              !.tok = t, !.goal = "bootstrapped",
                                              !.own = [mach |-> owner[token[t].job].mach,
                                                       prof |-> "none"]]]
    /\ UNCHANGED <<state, owner, finished, token, visited, late, dropped, broken>>

\* POST /api/v1/bootstrap/redeem from CreateDeploymentJob on: the row is
\* inserted in state bootstrapped, the token is stored by a later statement.
Redeem(r, j, m, p, t) ==
    /\ CanStart(r, "redeem")
    /\ Fresh(j) /\ RowLeft
    /\ token[t].st = "unused"
    /\ state' = [state EXCEPT ![j] = "bootstrapped"]
    /\ owner' = [owner EXCEPT ![j] = [mach |-> m, prof |-> p]]
    /\ visited' = [visited EXCEPT ![j] = {"bootstrapped"}]
    /\ token' = [token EXCEPT ![t].st = "minting"]
    /\ req' = [req EXCEPT ![r] = [Idle EXCEPT !.kind = "redeem", !.pc = "token",
                                              !.job = j, !.tok = t]]
    /\ UNCHANGED <<finished, late, dropped, broken>>

\* GET /internal/render/menu/deploy/{mac}/{profile}: GetMachineByMAC.
MenuDeploy(r, m, p) ==
    /\ CanStart(r, "menu")
    /\ req' = [req EXCEPT ![r] = [Idle EXCEPT !.kind = "menu", !.pc = "bundle",
                                              !.own = [mach |-> m, prof |-> p]]]
    /\ UNCHANGED <<state, owner, finished, token, visited, late, dropped, broken>>

-----------------------------------------------------------------------------
(***************************************************************************)
(* LookupRenderBundle: its SELECT of the newest active job.  What it reads *)
(* of the machine before and of the profile and its image after that does  *)
(* not change here; BootRender is about those statements.                  *)
(***************************************************************************)

\* The bundle of a token has a job, which is advanced to bootstrapped, even
\* when it is not the job the token was minted for.
BundleHasJob(r, j) ==
    /\ req[r].pc = "bundle" /\ req[r].kind = "render"
    /\ Newest(j, ActiveJobs(req[r].own.mach))
    /\ req' = [req EXCEPT ![r] = [@ EXCEPT !.pc = "advance", !.job = j]]
    /\ UNCHANGED <<state, owner, finished, token, visited, late, dropped, broken>>

\* With no active job the default profile is rendered and nothing changes.
BundleHasNoJob(r) ==
    /\ req[r].pc = "bundle" /\ req[r].kind = "render"
    /\ ActiveJobs(req[r].own.mach) = {}
    /\ Reply(r)
    /\ UNCHANGED <<state, owner, finished, token, visited, late, dropped, broken>>

\* The menu goes on to mint a token for the assigned profile, for any profile
\* when it is open.
MenuAccepts(r, t) ==
    /\ req[r].pc = "bundle" /\ req[r].kind = "menu"
    /\ MenuOpen \/ IsAssigned(req[r].own.mach, req[r].own.prof)
    /\ token[t].st = "unused"
    /\ token' = [token EXCEPT ![t].st = "minting"]
    /\ req' = [req EXCEPT ![r] = [@ EXCEPT !.pc = "mint", !.tok = t]]
    /\ UNCHANGED <<state, owner, finished, visited, late, dropped, broken>>

MenuRefuses(r) ==
    /\ req[r].pc = "bundle" /\ req[r].kind = "menu"
    /\ ~MenuOpen /\ ~IsAssigned(req[r].own.mach, req[r].own.prof)
    /\ Reply(r)
    /\ UNCHANGED <<state, owner, finished, token, visited, late, dropped, broken>>

-----------------------------------------------------------------------------
(***************************************************************************)
(* Phone-home, AdvanceJob and TransitionJob, statement by statement.       *)
(***************************************************************************)

\* AppendDeploymentEvent, then the branch on the mapped target.
AppendEvent(r) ==
    /\ req[r].pc = "append"
    /\ CASE req[r].goal = "none"   -> Goto(r, "publish")
         [] req[r].goal = "failed" -> Hop(r, "failed")
         [] OTHER                  -> Goto(r, "advance")
    /\ UNCHANGED <<state, owner, finished, token, visited, late, dropped, broken>>

\* Mutant: the loop over the happy path stops one short.
AdvanceJobShort(r) ==
    LET cur == state[req[r].job] IN
    /\ req[r].pc = "advance"
    /\ IF PathIndex(cur) # 0 /\ PathIndex(cur) + 1 < PathIndex(req[r].goal)
       THEN Hop(r, NextOnPath(cur))
       ELSE Returned(r)
    /\ UNCHANGED <<state, owner, finished, token, visited, late, dropped, broken>>

\* AdvanceJob reads the state once and fixes the hops it will make from it.
\* A terminal state off the path is an error, one at or past the goal a no-op.
AdvanceJob(r) ==
    LET cur == state[req[r].job] IN
    /\ req[r].pc = "advance"
    /\ IF PathIndex(cur) # 0 /\ PathIndex(cur) < PathIndex(req[r].goal)
       THEN Hop(r, NextOnPath(cur))
       ELSE Returned(r)
    /\ UNCHANGED <<state, owner, finished, token, visited, late, dropped, broken>>

\* Mutant: the state is read and not compared with the graph.
SelectStateUnchecked(r) ==
    /\ req[r].pc = "select"
    /\ Goto(r, "update")
    /\ UNCHANGED <<state, owner, finished, token, visited, late, dropped, broken>>

\* TransitionJob's SELECT and its check against the graph.
SelectState(r) ==
    /\ req[r].pc = "select"
    /\ IF req[r].to \in Allowed(state[req[r].job])
       THEN Goto(r, "update")
       ELSE Returned(r)
    /\ UNCHANGED <<state, owner, finished, token, visited, late, dropped, broken>>

\* TransitionJob's UPDATE, by id only: whatever the row holds by now is
\* overwritten.  Then the next hop of AdvanceJob, or the revocation.
UpdateState(r) ==
    LET j == req[r].job
        to == req[r].to
    IN
    /\ req[r].pc = "update"
    /\ state' = [state EXCEPT ![j] = to]
    /\ visited' = [visited EXCEPT ![j] = @ \cup {to}]
    /\ finished' = [finished EXCEPT ![j] = @ \/ to \in Terminal]
    /\ \/ to \in Terminal /\ Goto(r, "mark")
       \/ to \notin Terminal /\ to = req[r].goal /\ Returned(r)
       \/ to \notin Terminal /\ to # req[r].goal /\ Hop(r, NextOnPath(to))
    /\ UNCHANGED <<owner, token, late, dropped, broken>>

\* Mutant: the comparison with expires_at is the wrong way round.
MarkTokensExpiredOnly(r) ==
    LET j == req[r].job IN
    /\ req[r].pc = "mark"
    /\ token' = [t \in Tokens |->
                    IF token[t].job = j /\ token[t].st = "expired"
                    THEN [token[t] EXCEPT !.st = "consumed"] ELSE token[t]]
    /\ Returned(r)
    /\ UNCHANGED <<state, owner, finished, visited, late, dropped, broken>>

\* MarkBootTokensConsumedForJob: expired tokens are marked as well.
MarkTokens(r) ==
    LET j == req[r].job IN
    /\ req[r].pc = "mark"
    /\ token' = [t \in Tokens |->
                    IF token[t].job = j /\ token[t].st \in {"live", "expired"}
                    THEN [token[t] EXCEPT !.st = "consumed"] ELSE token[t]]
    /\ Returned(r)
    /\ UNCHANGED <<state, owner, finished, visited, late, dropped, broken>>

\* Publish to the event stream, with State = goal whether the job moved there
\* or not; what subscribers do with it is EventStream's business.
Publish(r) ==
    /\ req[r].pc = "publish"
    /\ Reply(r)
    /\ UNCHANGED <<state, owner, finished, token, visited, late, dropped, broken>>

-----------------------------------------------------------------------------
(***************************************************************************)
(* Token minting.                                                          *)
(***************************************************************************)

\* The broker's CreateOneShotToken, which looks at no job state.
StoreToken(r) ==
    LET j == req[r].job
        t == req[r].tok
    IN
    /\ req[r].pc = "token"
    /\ token' = [token EXCEPT ![t] = [job |-> j, st |-> "live"]]
    /\ late' = IF state[j] \in Terminal THEN late \cup {t} ELSE late
    /\ Reply(r)
    /\ UNCHANGED <<state, owner, finished, visited, dropped, broken>>

\* MintMenuBootToken: a job found by the SELECT ... FOR UPDATE stays locked
\* until the token is committed.  A job without an auth code would get a
\* synthetic one first, which binds the token to it all the same; both INSERTs
\* of jobs set the column and no statement clears it.  Finding none locks
\* nothing.
MintFound(r, j) ==
    /\ req[r].pc = "mint"
    /\ Newest(j, MenuJobs(req[r].own))
    /\ token' = [token EXCEPT ![req[r].tok] = [job |-> j, st |-> "live"]]
    /\ Reply(r)
    /\ UNCHANGED <<state, owner, finished, visited, late, dropped, broken>>

MintFindsNone(r) ==
    /\ req[r].pc = "mint"
    /\ MenuJobs(req[r].own) = {} /\ RowLeft
    /\ Goto(r, "insert")
    /\ UNCHANGED <<state, owner, finished, token, visited, late, dropped, broken>>

\* The INSERTs of MintMenuBootToken when no job was found, committed as one.
MintInsert(r, j) ==
    /\ req[r].pc = "insert"
    /\ Fresh(j)
    /\ state' = [state EXCEPT ![j] = "pending"]
    /\ owner' = [owner EXCEPT ![j] = req[r].own]
    /\ visited' = [visited EXCEPT ![j] = {"pending"}]
    /\ token' = [token EXCEPT ![req[r].tok] = [job |-> j, st |-> "live"]]
    /\ Reply(r)
    /\ UNCHANGED <<finished, late, dropped, broken>>

-----------------------------------------------------------------------------
(***************************************************************************)
(* Time, the worker, failures.                                             *)
(***************************************************************************)

\* expires_at passes.
ExpireToken(t) ==
    /\ Live(t)
    /\ token' = [token EXCEPT ![t].st = "expired"]
    /\ UNCHANGED <<state, owner, finished, req, visited, late, dropped, broken>>

\* The worker's reapOneShotTokens deletes dead rows a day later.
ReapToken(t) ==
    /\ token[t].st \in {"expired", "consumed"}
    /\ token' = [token EXCEPT ![t] = [job |-> NoJob, st |-> "gone"]]
    /\ UNCHANGED <<state, owner, finished, req, visited, late, dropped, broken>>

\* A statement of AdvanceJob or TransitionJob fails.  The handler goes on as
\* after any other error; a failed revocation is ignored by TransitionJob.
StatementFails(r) ==
    /\ Faults
    /\ req[r].pc \in {"advance", "select", "update", "mark"}
    /\ dropped' = IF req[r].pc = "mark" THEN dropped \cup {req[r].job} ELSE dropped
    /\ broken' = broken \cup {req[r].job}
    /\ Returned(r)
    /\ UNCHANGED <<state, owner, finished, token, visited, late>>

\* The process dies, the client hangs up, or a statement fails whose error
\* ends the handler.  A token it had not stored is as if never drawn.
Abort(r) ==
    /\ Faults
    /\ req[r].pc # "idle"
    /\ dropped' = IF req[r].pc = "mark" THEN dropped \cup {req[r].job} ELSE dropped
    /\ broken' = broken \cup ({req[r].job} \cap Jobs)
    /\ token' = [t \in Tokens |-> IF t = req[r].tok /\ token[t].st = "minting"
                                  THEN [token[t] EXCEPT !.st = "unused"] ELSE token[t]]
    /\ Reply(r)
    /\ UNCHANGED <<state, owner, finished, visited, late>>

-----------------------------------------------------------------------------
Start(r) ==
    \/ \E t \in Tokens : \E phase \in Phases : PhoneHome(r, t, phase)
    \/ \E j \in Jobs : Cancel(r, j)
    \/ \E t \in Tokens : RenderByToken(r, t)
    \/ \E m \in Machines : \E p \in Profiles : MenuDeploy(r, m, p)
    \/ \E m \in Machines : \E p \in Profiles : \E t \in Tokens : \E j \in Jobs :
            Redeem(r, j, m, p, t)

Step(r) ==
    \/ AppendEvent(r)
    \/ \E j \in Jobs : BundleHasJob(r, j)
    \/ BundleHasNoJob(r)
    \/ \E t \in Tokens : MenuAccepts(r, t)
    \/ MenuRefuses(r)
    \/ AdvanceJob(r)
    \/ SelectState(r)
    \/ UpdateState(r)
    \/ MarkTokens(r)
    \/ Publish(r)
    \/ StoreToken(r)
    \/ MintFindsNone(r)
    \/ \E j \in Jobs : MintFound(r, j) \/ MintInsert(r, j)

Fault(r) == StatementFails(r) \/ Abort(r)

Housekeeping == \E t \in Tokens : ExpireToken(t) \/ ReapToken(t)

Next == (\E r \in Requests : Start(r) \/ Step(r) \/ Fault(r)) \/ Housekeeping

Spec == Init /\ [][Next]_vars

\* The server keeps running the handlers it has started; nothing forces a
\* client to send another request.
FairSpec == Spec /\ \A r \in Requests : WF_vars(Step(r))

-----------------------------------------------------------------------------
(***************************************************************************)
(* Properties.                                                             *)
(***************************************************************************)

\* However handlers interleave, a job has been through the states its present
\* one needs: nothing completes that never imaged, nothing images or fails
\* that never bootstrapped.  TransitionJob checks a state it read earlier, so
\* this says that stale checks never let a job skip work.
ProgressIsEarned ==
    \A j \in Jobs :
        /\ visited[j] \cap {"imaging", "failed"} # {} => "bootstrapped" \in visited[j]
        /\ visited[j] \cap {"post_install", "completed"} # {} => "imaging" \in visited[j]

\* The revocation hook of TransitionJob: a finished job leaves a usable boot
\* token behind only while a handler is about to revoke it, when that
\* revocation was lost (it is best-effort), or when the broker stored the
\* token after the job was over.
RevokedUnlessLost ==
    \A t \in Tokens :
        Live(t) /\ state[token[t].job] \in Terminal =>
            \/ \E r \in Requests : req[r].pc = "mark" /\ req[r].job = token[t].job
            \/ t \in late
            \/ token[t].job \in dropped

\* cancelJob "revokes its boot tokens": once no handler is revoking any more,
\* a finished job has no usable boot token.
FinishedJobHasNoToken ==
    (\A r \in Requests : req[r].pc # "mark") =>
        \A t \in Tokens : Live(t) => state[token[t].job] \notin Terminal

\* The window of TransitionJob closes: once a job is over and no handler is
\* between its check and its UPDATE of that job, its state never changes again
\* and finished_at stays set.  A handler that checked earlier may still reopen
\* the job, one that starts later may not.
SettledIsFinal ==
    [][\A j \in Jobs :
         /\ state[j] \in Terminal
         /\ \A r \in Requests : ~(req[r].pc = "update" /\ req[r].job = j)
         => /\ state'[j] = state[j] /\ finished'[j]
            /\ \A r \in Requests : ~(req'[r].pc = "update" /\ req'[r].job = j)]_vars

\* TransitionJob "validates the transition against a small allowed graph": a
\* row only ever changes along an edge of that graph.
FollowsGraph ==
    [][\A j \in Jobs :
         Exists(j) /\ state'[j] # state[j] => state'[j] \in Allowed(state[j])]_vars

\* AdvanceJob: "failed and cancelled are reachable from any non-terminal
\* state": TransitionJob turns such a request down only when the job is over.
FailAndCancelAlwaysReachable ==
    [][\A r \in Requests :
         SelectState(r) /\ req[r].to \in {"failed", "cancelled"} /\ req'[r].pc # "update"
            => state[req[r].job] \in Terminal]_vars

\* eventbus.Event.State is the "post-transition state": the stream of a job
\* never names a state the job was not in.
PublishedStatesAreReal ==
    [][\A r \in Requests :
         Publish(r) => req[r].goal \in visited[req[r].job] \cup {"none"}]_vars

\* A boot token is "single-deployment-bound": the job rendered (and advanced)
\* for a token is the job the token can report for.
RendersOwnJob ==
    \A r \in Requests :
        req[r].kind = "render" /\ req[r].job # NoJob /\ token[req[r].tok].job # NoJob =>
            req[r].job = token[req[r].tok].job

\* MintMenuBootToken makes a job "only when none exists": the menu leaves at
\* most one unfinished job per machine and profile.
MenuReusesActiveJob ==
    \A own \in OwnerType : Cardinality(MenuJobs(own)) <= 1

\* AdvanceJob "moves a job to `to`, applying any intermediate happy-path
\* transitions": an accepted report of completion ends the job.
CompletionSticks ==
    \A r \in Requests : \A j \in Jobs :
        (req[r].pc = "append" /\ req[r].job = j /\ req[r].goal = "completed")
            ~> (state[j] \in Terminal)

\* Another handler is about to UPDATE job j while r is between the state it
\* read and its own UPDATE.
Contended(r, j) ==
    /\ req[r].pc \in {"select", "update"}
    /\ \E q \in Requests \ {r} : req[q].pc = "update" /\ req[q].job = j

\* What is left of it with handlers at the same time: an accepted report of
\* completion ends the job, unless another handler writes to the job within
\* the walk of AdvanceJob (its hops were fixed before), or a handler of the
\* job fails.
CompletionUnlessContended ==
    \A r \in Requests : \A j \in Jobs :
        (req[r].pc = "append" /\ req[r].job = j /\ req[r].goal = "completed")
            ~> (state[j] \in Terminal \/ Contended(r, j) \/ j \in broken)

=============================================================================
