----------------------------- MODULE Deliveries -----------------------------
(***************************************************************************)
(* What the server hands out once and never again: wake-on-LAN requests to *)
(* the edge agents of a site, webhooks about ended jobs, and the codes of  *)
(* a bulk deployment.  In each of them a row is marked, or a code issued,  *)
(* before its consumer has it; the crash of a consumer, a lost answer or a *)
(* failed send in between is final.                                        *)
(*                                                                         *)
(* An SQL statement is one action, and so is a call of the broker.  An     *)
(* hour is one tick of the clock: the pollers run every 15 and 30 seconds, *)
(* so an hour does not pass over something a running one could claim.      *)
(***************************************************************************)
EXTENDS Naturals, Sequences, FiniteSets, FiniteSetsExt, Functions, SequencesExt

CONSTANTS
    Machines,
    NoMAC,        \* the machines without a primary MAC
    Wakes,        \* ids of wake_requests
    Sites,        \* the sites a request may name
    Agents,       \* edge agents
    AgentSite,    \* EDGE_SITE of an agent
    WakeLimit,    \* LIMIT of a claim of wake requests (50 in the code)
    Jobs,
    Workers,
    NotifyLimit,  \* LIMIT of a claim of ended jobs (20 in the code)
    Spellings,    \* ids as a bulk call writes them
    Parse,        \* uuid.Parse: the machine a spelling is the id of, or None
    Lists,        \* the lists of ids a bulk call may send
    Starts,       \* initial states: the machines there are, the jobs running
    BulkMax,      \* bulkDeployMax (100 in the code)
    MaxHours,     \* bound: ticks of the clock
    MaxFaults     \* bound: crashes, lost answers and failed sends

None == "none"

ASSUME DeliveriesAssumption ==
    /\ NoMAC \subseteq Machines /\ AgentSite \in [Agents -> Sites]
    /\ WakeLimit \in Nat \ {0} /\ NotifyLimit \in Nat \ {0} /\ BulkMax \in Nat
    /\ Parse \in [Spellings -> Machines \cup {None}]
    /\ Lists \subseteq Seq(Spellings)
    /\ Starts \subseteq [machines : SUBSET Machines, running : SUBSET Jobs]
    /\ MaxHours \in Nat /\ MaxFaults \in Nat
    \* An id in a request is not a row of these tables.
    /\ Spellings \cap (Wakes \cup Jobs) = {}

Hours == 0..MaxHours

VARIABLES
    now,      \* the clock of the database
    machines, \* rows of machines
    wake,     \* wake_requests: state, machine, site, scheduled_at
    agent,    \* the poller of an agent: where it is, what it was handed
    job,      \* deployment_jobs: ended, finished_at, notified_at set
    worker,   \* the worker's round: where it is, what it has to post
    bulk,     \* the bulk call
    issued,   \* codes the broker made for the bulk call, by id as written
    sent,     \* history: agents that broadcast a request, one entry per time
    posted,   \* history: webhooks delivered for a job
    lost,     \* history: requests and jobs a fault took, and codes it took
    faults

deliveriesVars == <<now, machines, wake, agent, job, worker, bulk, issued, sent, posted, lost, faults>>

NoWake == [state |-> "absent", machine |-> None, site |-> None, at |-> 0]
Waiting == [pc |-> "wait", batch |-> {}]
NoBulk == [pc |-> "idle", ids |-> << >>, wakeToo |-> FALSE, gone |-> FALSE, rows |-> << >>]

DeliveriesTypeOK ==
    /\ now \in Hours
    /\ machines \subseteq Machines
    /\ wake \in [Wakes -> [state : {"absent", "queued", "claimed", "reaped"},
                           machine : Machines \cup {None}, site : Sites \cup {None}, at : Hours]]
    /\ agent \in [Agents -> [pc : {"wait", "answer", "send"}, batch : SUBSET Wakes]]
    /\ job \in [Jobs -> [ended : BOOLEAN, at : Hours, notified : BOOLEAN]]
    /\ worker \in [Workers -> [pc : {"wait", "post", "down"}, batch : SUBSET Jobs]]
    /\ bulk \in [pc : {"idle", "issue", "wake", "reply", "done"}, ids : Seq(Spellings),
                 wakeToo : BOOLEAN, gone : BOOLEAN,
                 rows : Seq([machine : Spellings, code : BOOLEAN, wake : Wakes \cup {None},
                             error : BOOLEAN])]
    /\ issued \in [Spellings -> Nat]
    /\ sent \in [Wakes -> Seq(Agents)]
    /\ posted \in [Jobs -> Nat]
    /\ lost \subseteq Wakes \cup Jobs \cup Spellings
    /\ faults \in 0..MaxFaults

DeliveriesInit ==
    /\ now = 0
    /\ wake = [w \in Wakes |-> NoWake]
    /\ agent = [a \in Agents |-> Waiting]
    /\ \E s \in Starts :
          /\ machines = s.machines
          /\ job = [j \in Jobs |->
                      [ended |-> j \notin s.running, at |-> 0, notified |-> j \notin s.running]]
          /\ posted = [j \in Jobs |-> IF j \in s.running THEN 0 ELSE 1]
    /\ worker = [k \in Workers |-> Waiting]
    /\ bulk = NoBulk
    /\ issued = [id \in Spellings |-> 0]
    /\ sent = [w \in Wakes |-> << >>]
    /\ lost = {}
    /\ faults = 0

\* ORDER BY at LIMIT limit, over the rows that no other statement has locked.
Batches(due, at, limit) ==
    {B \in SUBSET due :
        /\ Cardinality(B) = Min({Cardinality(due), limit})
        /\ \A x \in B, y \in due \ B : at[x] <= at[y]}

Fault(what) ==
    /\ faults < MaxFaults
    /\ faults' = faults + 1
    /\ lost' = lost \cup what

-----------------------------------------------------------------------------
(***************************************************************************)
(* Wake requests: the queue of the server.                                 *)
(***************************************************************************)

CreateWakeRequest(w, m, site, at) ==
    /\ wake[w].state = "absent"
    /\ wake' = [wake EXCEPT ![w] = [state |-> "queued", machine |-> m, site |-> site, at |-> at]]

\* The machine exists and has a MAC; the site is the request's or else the
\* machine's; the time may be past, present or future.
wakeMachine(w) ==
    /\ \E m \in machines \ NoMAC, site \in Sites, at \in Hours : CreateWakeRequest(w, m, site, at)
    /\ UNCHANGED <<now, machines, agent, job, worker, bulk, issued, sent, posted, lost, faults>>

\* Mutant: a request is due although an agent has claimed it.
DueAnyState(w, site) == wake[w].state # "absent" /\ wake[w].site = site /\ wake[w].at <= now

Due(w, site) == wake[w].state = "queued" /\ wake[w].site = site /\ wake[w].at <= now

\* The poll of agent a: the claim is in the database before the answer is on
\* its way, and the agent decodes the answer or never sees it.
ClaimDueWakeRequests(a) ==
    /\ agent[a].pc = "wait"
    /\ LET due == {w \in Wakes : Due(w, AgentSite[a])}
       IN  /\ due # {}
           /\ \E B \in Batches(due, [w \in Wakes |-> wake[w].at], WakeLimit) :
                /\ wake' = [w \in Wakes |->
                              IF w \in B THEN [wake[w] EXCEPT !.state = "claimed"] ELSE wake[w]]
                /\ agent' = [agent EXCEPT ![a] = [pc |-> "answer", batch |-> B]]
    /\ UNCHANGED <<now, machines, job, worker, bulk, issued, sent, posted, lost, faults>>

edgeWakeQueue(a) ==
    /\ agent[a].pc = "answer"
    /\ agent' = [agent EXCEPT ![a].pc = "send"]
    /\ UNCHANGED <<now, machines, wake, job, worker, bulk, issued, sent, posted, lost, faults>>

\* A 10 second timeout, a bad status, an answer cut short: continue.
PollFails(a) ==
    /\ agent[a].pc = "answer"
    /\ agent' = [agent EXCEPT ![a] = Waiting]
    /\ Fault(agent[a].batch)
    /\ UNCHANGED <<now, machines, wake, job, worker, bulk, issued, sent, posted>>

SendNext(a, w) ==
    LET left == agent[a].batch \ {w}
    IN  agent' = [agent EXCEPT ![a] = IF left = {} THEN Waiting ELSE [@ EXCEPT !.batch = left]]

\* The burst goes out; a packet that cannot be written ends it, and the
\* loop goes on with the next request.
sendMagicPacket(a, w) ==
    /\ agent[a].pc = "send" /\ w \in agent[a].batch
    /\ SendNext(a, w)
    /\ sent' = [sent EXCEPT ![w] = Append(@, a)]
    /\ UNCHANGED <<now, machines, wake, job, worker, bulk, issued, posted, lost, faults>>

SendFails(a, w) ==
    /\ agent[a].pc = "send" /\ w \in agent[a].batch
    /\ SendNext(a, w)
    /\ Fault({w})
    /\ UNCHANGED <<now, machines, wake, job, worker, bulk, issued, sent, posted>>

\* The agent is restarted: what it was handed was in memory only.
AgentRestarts(a) ==
    /\ agent[a].pc # "wait"
    /\ agent' = [agent EXCEPT ![a] = Waiting]
    /\ Fault(agent[a].batch)
    /\ UNCHANGED <<now, machines, wake, job, worker, bulk, issued, sent, posted>>

\* Mutant: the reaper looks at the age of a request only.
ReapByAge(w) ==
    /\ wake[w].state \in {"queued", "claimed"} /\ wake[w].at < now
    /\ wake' = [wake EXCEPT ![w].state = "reaped"]
    /\ UNCHANGED <<now, machines, agent, job, worker, bulk, issued, sent, posted, lost, faults>>

\* A claimed request is deleted seven days after its claim, of which the model
\* has one tick: it may go as soon as its hour is over, also while the agent
\* still has it.  A request nobody has claimed is never deleted.
reapWakeRequests(w) ==
    /\ wake[w].state = "claimed" /\ wake[w].at < now
    /\ wake' = [wake EXCEPT ![w].state = "reaped"]
    /\ UNCHANGED <<now, machines, agent, job, worker, bulk, issued, sent, posted, lost, faults>>

\* DELETE of a machine cascades to its wake requests.
DeleteMachine(m) ==
    /\ m \in machines
    /\ machines' = machines \ {m}
    /\ LET gone == {w \in Wakes : wake[w].machine = m}
           unclaimed == {w \in gone : wake[w].state = "queued"}
       IN  /\ wake' = [w \in Wakes |->
                         IF w \in gone THEN [wake[w] EXCEPT !.state = "reaped"] ELSE wake[w]]
           /\ Fault(unclaimed)
    /\ UNCHANGED <<now, agent, job, worker, bulk, issued, sent, posted>>

-----------------------------------------------------------------------------
(***************************************************************************)
(* Webhooks: the worker.                                                   *)
(***************************************************************************)

\* A job ends: see JobLifecycle.
JobEnds(j) ==
    /\ ~job[j].ended
    /\ job' = [job EXCEPT ![j] = [@ EXCEPT !.ended = TRUE, !.at = now]]
    /\ UNCHANGED <<now, machines, wake, agent, worker, bulk, issued, sent, posted, lost, faults>>

\* Ended, not marked, and within the last hour.
Unnotified(j) == job[j].ended /\ ~job[j].notified /\ job[j].at + 1 > now

\* The rows are marked before the first webhook is posted.
ClaimTerminalJobs(k) ==
    /\ worker[k].pc = "wait"
    /\ LET due == {j \in Jobs : Unnotified(j)}
       IN  /\ due # {}
           /\ \E B \in Batches(due, [j \in Jobs |-> job[j].at], NotifyLimit) :
                /\ job' = [j \in Jobs |->
                             IF j \in B THEN [job[j] EXCEPT !.notified = TRUE] ELSE job[j]]
                /\ worker' = [worker EXCEPT ![k] = [pc |-> "post", batch |-> B]]
    /\ UNCHANGED <<now, machines, wake, agent, bulk, issued, sent, posted, lost, faults>>

PostNext(k, j) ==
    LET left == worker[k].batch \ {j}
    IN  worker' = [worker EXCEPT ![k] = IF left = {} THEN Waiting ELSE [@ EXCEPT !.batch = left]]

notifyTerminalJobs(k, j) ==
    /\ worker[k].pc = "post" /\ j \in worker[k].batch
    /\ PostNext(k, j)
    /\ posted' = [posted EXCEPT ![j] = @ + 1]
    /\ UNCHANGED <<now, machines, wake, agent, job, bulk, issued, sent, lost, faults>>

\* No connection or no 2xx; the receiver may have acted on it or not.
PostFails(k, j) ==
    /\ worker[k].pc = "post" /\ j \in worker[k].batch
    /\ PostNext(k, j)
    /\ \E arrived \in {0, 1} : posted' = [posted EXCEPT ![j] = @ + arrived]
    /\ Fault({j})
    /\ UNCHANGED <<now, machines, wake, agent, job, bulk, issued, sent>>

WorkerStops(k) ==
    /\ worker[k].pc # "down"
    /\ worker' = [worker EXCEPT ![k] = [pc |-> "down", batch |-> {}]]
    /\ Fault(worker[k].batch)
    /\ UNCHANGED <<now, machines, wake, agent, job, bulk, issued, sent, posted>>

\* A round at the start, then one every 30 seconds.
WorkerStarts(k) ==
    /\ worker[k].pc = "down"
    /\ worker' = [worker EXCEPT ![k] = Waiting]
    /\ UNCHANGED <<now, machines, wake, agent, job, bulk, issued, sent, posted, lost, faults>>

\* An hour passes.  Jobs that ended while no worker ran leave the window.
Hour ==
    /\ now < MaxHours
    /\ LET missed == {j \in Jobs : Unnotified(j)}
       IN  /\ \A k \in Workers : worker[k].pc = "post" \/ missed # {} => worker[k].pc = "down"
           /\ lost' = lost \cup missed
    /\ now' = now + 1
    /\ UNCHANGED <<machines, wake, agent, job, worker, bulk, issued, sent, posted, faults>>

-----------------------------------------------------------------------------
(***************************************************************************)
(* Bulk deployments.                                                       *)
(***************************************************************************)

\* Mutant: the list is used as it came.
NoDedupe(ids) == ids

\* Each string once, in the order of its first mention: the k-th of the result
\* is the one whose first mention is the k-th.  Two spellings of one id are two
\* strings.
FirstMentions(ids) == {i \in DOMAIN ids : \A k \in 1..(i - 1) : ids[k] # ids[i]}
Dedupe(ids) ==
    [k \in 1..Cardinality(FirstMentions(ids)) |->
        ids[CHOOSE i \in FirstMentions(ids) :
                Cardinality({h \in FirstMentions(ids) : h <= i}) = k]]

bulkDeploy ==
    /\ bulk.pc = "idle"
    /\ \E ids \in Lists, wakeToo \in BOOLEAN :
          /\ ids # << >> /\ Len(Dedupe(ids)) <= BulkMax
          /\ bulk' = [NoBulk EXCEPT !.pc = "issue", !.ids = Dedupe(ids), !.wakeToo = wakeToo]
    /\ UNCHANGED <<now, machines, wake, agent, job, worker, issued, sent, posted, lost, faults>>

\* The id the loop is at, and the machine it is parsed to.
Row(id, code, w, error) == [machine |-> id, code |-> code, wake |-> w, error |-> error]
Id == bulk.ids[Len(bulk.rows) + 1]
Machine == Parse[Id]

\* The next id: after the wake step or without one.
AddRow(row) ==
    bulk' = [bulk EXCEPT !.rows = Append(@, row),
                         !.pc = IF Len(bulk.rows) + 1 = Len(bulk.ids) THEN "reply" ELSE "issue"]

\* The broker makes a code (see Redemption) and its answer comes back.
issueViaBroker ==
    /\ bulk.pc = "issue" /\ ~bulk.gone /\ Machine \in machines
    /\ issued' = [issued EXCEPT ![Id] = @ + 1]
    /\ IF bulk.wakeToo THEN bulk' = [bulk EXCEPT !.pc = "wake"]
                       ELSE AddRow(Row(Id, TRUE, None, FALSE))
    /\ UNCHANGED <<now, machines, wake, agent, job, worker, sent, posted, lost, faults>>

\* The id is none, the broker refuses (a limit, no such machine), or it is not
\* reached: the only outcome once the caller has hung up, whose context the
\* calls share.
IssueRefused ==
    /\ bulk.pc = "issue"
    /\ AddRow(Row(Id, FALSE, None, TRUE))
    /\ UNCHANGED <<now, machines, wake, agent, job, worker, issued, sent, posted, lost, faults>>

\* The broker has made the code, its answer is lost: broker unreachable.
IssueAnswerLost ==
    /\ bulk.pc = "issue" /\ ~bulk.gone /\ Machine \in machines
    /\ issued' = [issued EXCEPT ![Id] = @ + 1]
    /\ AddRow(Row(Id, FALSE, None, TRUE))
    /\ Fault({Id})
    /\ UNCHANGED <<now, machines, wake, agent, job, worker, sent, posted>>

\* A machine that is gone or has no MAC, or a failed statement, is a row
\* with a code and an error.
WakeIssued ==
    /\ bulk.pc = "wake"
    /\ \/ \E w \in Wakes, site \in Sites :
             /\ ~bulk.gone /\ Machine \in machines \ NoMAC
             /\ CreateWakeRequest(w, Machine, site, now)
             /\ AddRow(Row(Id, TRUE, w, FALSE))
       \/ /\ AddRow(Row(Id, TRUE, None, TRUE))
          /\ UNCHANGED wake
    /\ UNCHANGED <<now, machines, agent, job, worker, issued, sent, posted, lost, faults>>

\* The caller hangs up: its context is cancelled, the loop goes on.
CallerGone ==
    /\ bulk.pc # "idle" /\ ~bulk.gone
    /\ bulk' = [bulk EXCEPT !.gone = TRUE]
    /\ Fault({})
    /\ UNCHANGED <<now, machines, wake, agent, job, worker, issued, sent, posted>>

BulkReply ==
    /\ bulk.pc = "reply"
    /\ bulk' = [bulk EXCEPT !.pc = "done"]
    /\ UNCHANGED <<now, machines, wake, agent, job, worker, issued, sent, posted, lost, faults>>

-----------------------------------------------------------------------------
Polls ==
    \E a \in Agents :
        \/ ClaimDueWakeRequests(a) \/ edgeWakeQueue(a) \/ PollFails(a) \/ AgentRestarts(a)
        \/ \E w \in Wakes : sendMagicPacket(a, w) \/ SendFails(a, w)

Notifies ==
    \E k \in Workers :
        \/ ClaimTerminalJobs(k) \/ WorkerStops(k) \/ WorkerStarts(k)
        \/ \E j \in Jobs : notifyTerminalJobs(k, j) \/ PostFails(k, j)

Bulks ==
    \/ bulkDeploy \/ issueViaBroker \/ IssueRefused \/ IssueAnswerLost
    \/ WakeIssued \/ CallerGone \/ BulkReply

DeliveriesNext ==
    \/ \E w \in Wakes : wakeMachine(w) \/ reapWakeRequests(w)
    \/ \E m \in Machines : DeleteMachine(m)
    \/ \E j \in Jobs : JobEnds(j)
    \/ Polls \/ Notifies \/ Bulks \/ Hour

DeliveriesSpec == DeliveriesInit /\ [][DeliveriesNext]_deliveriesVars

\* The pollers are loops on a ticker whose every branch ends in the next
\* round, restarted by the container runtime; a handler runs to its end.
\* Nothing promises that a caller calls, that a job ends or that time stops.
Fairness ==
    /\ WF_deliveriesVars(Hour)
    /\ \A a \in Agents :
          /\ WF_deliveriesVars(ClaimDueWakeRequests(a)) /\ WF_deliveriesVars(edgeWakeQueue(a))
          /\ \A w \in Wakes : WF_deliveriesVars(sendMagicPacket(a, w))
    /\ \A k \in Workers :
          /\ WF_deliveriesVars(WorkerStarts(k)) /\ WF_deliveriesVars(ClaimTerminalJobs(k))
          /\ \A j \in Jobs : WF_deliveriesVars(notifyTerminalJobs(k, j))

FairDeliveries == DeliveriesSpec /\ Fairness

-----------------------------------------------------------------------------
(***************************************************************************)
(* Properties                                                              *)
(***************************************************************************)

\* Whatever restarts and whatever is retried, a wake request is broadcast by
\* one agent, once, an agent of its own site, and not before its time; and a
\* job is announced once.  (ClaimDueWakeRequests: "Each request is delivered
\* to exactly one agent"; notifyTerminalJobs: "at-most-once semantics".)
AtMostOnce ==
    /\ \A w \in Wakes :
          /\ Len(sent[w]) <= 1
          /\ \A i \in DOMAIN sent[w] :
                AgentSite[sent[w][i]] = wake[w].site /\ wake[w].at <= now
    /\ \A j \in Jobs : posted[j] <= 1

\* A wake request of a site that has an agent is broadcast and an ended job
\* is announced, unless one of the faults named here took it: a lost answer,
\* a failed send, a restart with work in hand, a deleted machine, an hour
\* without a worker.  The LIMIT of a claim only delays.
DeliveredOrLost ==
    /\ \A w \in Wakes :
          (wake[w].state = "queued" /\ wake[w].site \in Range(AgentSite))
              ~> (sent[w] # << >> \/ w \in lost)
    /\ \A j \in Jobs : job[j].ended ~> (posted[j] = 1 \/ j \in lost)

\* The answer of a bulk call has one row for each string of the request, in
\* whatever order strings are repeated, and the row has the code whenever the
\* broker made one for it, unless the broker's own answer was lost; no string
\* is sent to the broker twice; and a wake is queued only in a row whose code
\* the caller gets.  (bulk.go: "the caller needs every code that WAS issued
\* regardless of the rows that failed".)
BulkTellsAll ==
    bulk.pc \in {"reply", "done"} =>
        /\ Len(bulk.rows) = Len(bulk.ids)
        /\ \A id \in Spellings :
              issued[id] = Cardinality({i \in DOMAIN bulk.rows :
                                           bulk.rows[i].machine = id /\ bulk.rows[i].code})
                             + (IF id \in lost THEN 1 ELSE 0)
        /\ \A id \in Spellings : issued[id] <= 1
        /\ \A i \in DOMAIN bulk.rows : bulk.rows[i].wake # None => bulk.rows[i].code

\* Not so: one code for each machine of a call ("Dedupe while preserving order",
\* bulk.go).  The strings are compared before uuid.Parse: a machine whose id is
\* written in two ways gets two.
OneCodeEach ==
    \A x, y \in Spellings :
        issued[x] > 0 /\ issued[y] > 0 /\ Parse[x] = Parse[y] => x = y

\* Not so: "the queue is durable server-side, so nothing is lost across
\* restarts" (wol.go).  A request is claimed before the agent has it.
NothingLostByRestarts == \A w \in Wakes : w \in lost => wake[w].state = "queued"

=============================================================================
