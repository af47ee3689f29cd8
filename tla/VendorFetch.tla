----------------------------- MODULE VendorFetch -----------------------------
(***************************************************************************)
(* The queue of vendor driver-pack downloads.  A row of vendor_fetch_jobs  *)
(* is claimed by the runner of one api replica, which streams the pack     *)
(* into the object store, verifies it and registers it; a row whose runner *)
(* was silent for ten minutes may be claimed again.                        *)
(*                                                                         *)
(* A catalog entry stands for its URL, and for the object key and the      *)
(* version tag that are derived from it.  Its rows differ in their id      *)
(* only; the versions registered for it are numbered.                      *)
(***************************************************************************)
EXTENDS Naturals, Sequences, FiniteSets, SequencesExt

CONSTANTS
    Jobs,       \* rows of vendor_fetch_jobs
    Entries,    \* entries of the vendor catalog
    Replicas,   \* api replicas, one runner each
    MaxFaults   \* bound: restarts, lost updates of a row, deleted versions

ASSUME FetchAssumption ==
    /\ IsFiniteSet(Jobs) /\ IsFiniteSet(Entries) /\ IsFiniteSet(Replicas)
    /\ MaxFaults \in Nat

None == "none"
NULL == 0       \* no driver pack version; versions are numbered from 1

VARIABLES
    row,       \* vendor_fetch_jobs
    created,   \* the rows in the order of created_at
    object,    \* content of an entry's object in the drivers bucket
    blobs,     \* entries with a row in blobs
    packs,     \* the driver pack version of an entry
    made,      \* driver pack versions registered so far
    runner,    \* the runner of a replica
    verified,  \* history: entries with a download that matched the checksum
    silent,    \* history: rows that were running without a heartbeat for ten minutes
    cleared,   \* history: rows that lost their version to an operator's deletion
    faults     \* restarts, lost updates and deleted versions so far

history == <<verified, silent, cleared>>
vars == <<row, created, object, blobs, packs, made, runner, history, faults>>

Finished == {"completed", "failed"}
RowStates == {"absent", "queued", "running"} \cup Finished
Steps == {"idle", "download", "upload", "verify", "blob", "pack", "complete", "fail"}

Resting == [pc |-> "idle", job |-> None, got |-> None, pv |-> NULL]

TypeOK ==
    /\ \A j \in Jobs : /\ row[j].state \in RowStates
                       /\ row[j].stale \in BOOLEAN
                       /\ row[j].state # "absent" => row[j].entry \in Entries
                       /\ row[j].pv \in 0..made
    /\ created \in Seq(Jobs) /\ IsInjective(created)
    /\ object \in [Entries -> {None, "good", "bad"}]
    /\ made \in Nat /\ packs \in [Entries -> 0..made]
    /\ blobs \subseteq Entries /\ verified \subseteq Entries
    /\ silent \subseteq Jobs /\ cleared \subseteq Jobs
    /\ \A n \in Replicas :
          /\ runner[n].pc \in Steps
          /\ runner[n].pc # "idle" => runner[n].job \in Jobs
          /\ runner[n].got \in {None, "good", "bad"}
          /\ runner[n].pv \in 0..made
    /\ faults \in 0..MaxFaults

Init ==
    /\ row = [j \in Jobs |-> [state |-> "absent", entry |-> None, stale |-> FALSE, pv |-> NULL]]
    /\ created = <<>>
    /\ object = [k \in Entries |-> None]
    /\ blobs = {} /\ packs = [k \in Entries |-> NULL] /\ made = 0
    /\ verified = {} /\ silent = {} /\ cleared = {}
    /\ runner = [n \in Replicas |-> Resting]
    /\ faults = 0

EntryOf(n) == row[runner[n].job].entry
Goto(n, pc) == runner' = [runner EXCEPT ![n].pc = pc]
SetState(n, s) == row' = [row EXCEPT ![runner[n].job].state = s]
Rest(n) == runner' = [runner EXCEPT ![n] = Resting]

-----------------------------------------------------------------------------
(***************************************************************************)
(* The queue.                                                              *)
(***************************************************************************)

\* Mutant: the URL is not looked up in the catalog.
CreateVendorFetchJobAnyURL(j, k) ==
    /\ row[j].state = "absent"
    /\ row' = [row EXCEPT ![j].state = "queued"]
    /\ created' = Append(created, j)
    /\ UNCHANGED <<object, blobs, packs, made, runner, history, faults>>

\* fetchVendorPack: the URL is an entry of the catalog.
CreateVendorFetchJob(j, k) ==
    /\ row[j].state = "absent"
    /\ row' = [row EXCEPT ![j] = [state |-> "queued", entry |-> k, stale |-> FALSE, pv |-> NULL]]
    /\ created' = Append(created, j)
    /\ UNCHANGED <<object, blobs, packs, made, runner, history, faults>>

\* Mutant: the age of the heartbeat is not asked for.
RunnableRunning(j) == row[j].state \in {"queued", "running"}

\* Mutant: interrupted rows are not taken up again.
RunnableQueued(j) == row[j].state = "queued"

Runnable(j) ==
    \/ row[j].state = "queued"
    \/ row[j].state = "running" /\ row[j].stale

\* One statement: the oldest runnable row.
ClaimVendorFetchJob(n) ==
    /\ runner[n].pc = "idle"
    /\ \E i \in DOMAIN created :
         /\ Runnable(created[i])
         /\ \A h \in 1..(i - 1) : ~Runnable(created[h])
         /\ row' = [row EXCEPT ![created[i]] = [@ EXCEPT !.state = "running", !.stale = FALSE]]
         /\ runner' = [runner EXCEPT ![n] = [Resting EXCEPT !.pc = "download", !.job = created[i]]]
    /\ UNCHANGED <<created, object, blobs, packs, made, history, faults>>

\* The heartbeat goroutine of a runner starts once the vendor has answered.
Beating(n, j) == runner[n].job = j /\ runner[n].pc \notin {"idle", "download"}

HeartbeatVendorFetchJob(n, j) ==
    /\ Beating(n, j)
    /\ row[j].stale
    /\ row' = [row EXCEPT ![j].stale = FALSE]
    /\ UNCHANGED <<created, object, blobs, packs, made, runner, history, faults>>

\* Ten minutes pass without a heartbeat: nobody sends one, or the updates of
\* the one who does fail.
Silence(j) ==
    /\ row[j].state = "running" /\ ~row[j].stale
    /\ row' = [row EXCEPT ![j].stale = TRUE]
    /\ \/ /\ \A n \in Replicas : ~Beating(n, j)
          /\ UNCHANGED faults
       \/ /\ \E n \in Replicas : Beating(n, j)
          /\ faults < MaxFaults
          /\ faults' = faults + 1
    /\ silent' = silent \cup {j}
    /\ UNCHANGED <<created, object, blobs, packs, made, runner, verified, cleared>>

-----------------------------------------------------------------------------
(***************************************************************************)
(* runVendorFetch.                                                         *)
(***************************************************************************)

\* The vendor answers.
Download(n) ==
    /\ runner[n].pc = "download"
    /\ Goto(n, "upload")
    /\ UNCHANGED <<row, created, object, blobs, packs, made, history, faults>>

\* The pack is streamed into the object store, complete and right or not.
Upload(n) ==
    /\ runner[n].pc = "upload"
    /\ \E c \in {"good", "bad"} :
         /\ object' = [object EXCEPT ![EntryOf(n)] = c]
         /\ runner' = [runner EXCEPT ![n].pc = "verify", ![n].got = c]
    /\ UNCHANGED <<row, created, blobs, packs, made, history, faults>>

\* The object is stored, but the answer of the object store is lost.
UploadUnanswered(n) ==
    /\ runner[n].pc = "upload"
    /\ \E c \in {"good", "bad"} : object' = [object EXCEPT ![EntryOf(n)] = c]
    /\ Goto(n, "fail")
    /\ UNCHANGED <<row, created, blobs, packs, made, history, faults>>

\* Mutant: whatever was stored is registered.
VerifyNothing(n) ==
    /\ runner[n].pc = "verify"
    /\ Goto(n, "blob")
    /\ UNCHANGED <<row, created, object, blobs, packs, made, history, faults>>

\* The checksum; on a mismatch the object is deleted, if the store answers.
Verify(n) ==
    /\ runner[n].pc = "verify"
    /\ \/ /\ runner[n].got = "good"
          /\ verified' = verified \cup {EntryOf(n)}
          /\ Goto(n, "blob")
          /\ UNCHANGED object
       \/ /\ runner[n].got = "bad"
          /\ \E c \in {None, object[EntryOf(n)]} : object' = [object EXCEPT ![EntryOf(n)] = c]
          /\ Goto(n, "fail")
          /\ UNCHANGED verified
    /\ UNCHANGED <<row, created, blobs, packs, made, silent, cleared, faults>>

\* Idempotent on the checksum.
CreateBlob(n) ==
    /\ runner[n].pc = "blob"
    /\ blobs' = blobs \cup {EntryOf(n)}
    /\ Goto(n, "pack")
    /\ UNCHANGED <<row, created, object, packs, made, history, faults>>

\* A new version of the entry, which the runner of n will name in its row.
Register(n) ==
    /\ made' = made + 1
    /\ packs' = [packs EXCEPT ![EntryOf(n)] = made + 1]
    /\ runner' = [runner EXCEPT ![n].pc = "complete", ![n].pv = made + 1]

\* The version tag is unique per pack: the transaction of a second fetch of
\* the entry is rolled back, unless the first version was deleted.
CreateDriverPackVersion(n) ==
    /\ runner[n].pc = "pack"
    /\ \/ packs[EntryOf(n)] = NULL /\ Register(n)
       \/ packs[EntryOf(n)] # NULL /\ Goto(n, "fail") /\ UNCHANGED <<packs, made>>
    /\ UNCHANGED <<row, created, object, blobs, history, faults>>

\* A call of the runner fails.
StepFails(n) ==
    /\ runner[n].pc \in {"download", "upload", "blob", "pack"}
    /\ Goto(n, "fail")
    /\ UNCHANGED <<row, created, object, blobs, packs, made, history, faults>>

FailVendorFetchJob(n) ==
    /\ runner[n].pc = "fail"
    /\ SetState(n, "failed")
    /\ Rest(n)
    /\ UNCHANGED <<created, object, blobs, packs, made, history, faults>>

\* Mutant: pack_version_id is not a foreign key.
CompleteVendorFetchJobUnreferenced(n) ==
    /\ runner[n].pc = "complete"
    /\ row' = [row EXCEPT ![runner[n].job] = [@ EXCEPT !.state = "completed", !.pv = runner[n].pv]]
    /\ Rest(n)
    /\ UNCHANGED <<created, object, blobs, packs, made, history, faults>>

\* The foreign key refuses a version that was deleted meanwhile; the error is
\* only logged, and the row stays as it is.
CompleteVendorFetchJob(n) ==
    /\ runner[n].pc = "complete"
    /\ row' = IF runner[n].pv = packs[EntryOf(n)]
              THEN [row EXCEPT ![runner[n].job] = [@ EXCEPT !.state = "completed", !.pv = runner[n].pv]]
              ELSE row
    /\ Rest(n)
    /\ UNCHANGED <<created, object, blobs, packs, made, history, faults>>

\* The last update is lost (its error is dropped or only logged), or the
\* replica restarts in the middle of a fetch.
Interrupted(n) ==
    /\ runner[n].pc # "idle"
    /\ faults < MaxFaults
    /\ faults' = faults + 1
    /\ Rest(n)
    /\ UNCHANGED <<row, created, object, blobs, packs, made, history>>

\* DELETE /driver-packs/versions/{id}: the rows that name the version keep
\* their state (ON DELETE SET NULL), the blob and the object stay.
DeleteDriverPackVersion(k) ==
    /\ packs[k] # NULL
    /\ faults < MaxFaults
    /\ faults' = faults + 1
    /\ packs' = [packs EXCEPT ![k] = NULL]
    /\ row' = [j \in Jobs |-> IF row[j].pv = packs[k] THEN [row[j] EXCEPT !.pv = NULL] ELSE row[j]]
    /\ cleared' = cleared \cup {j \in Jobs : row[j].pv = packs[k]}
    /\ UNCHANGED <<created, object, blobs, made, runner, verified, silent>>

-----------------------------------------------------------------------------
Runner(n) ==
    \/ Download(n) \/ Upload(n) \/ Verify(n) \/ CreateBlob(n)
    \/ CreateDriverPackVersion(n) \/ FailVendorFetchJob(n) \/ CompleteVendorFetchJob(n)

Next ==
    \/ \E j \in Jobs : \/ \E k \in Entries : CreateVendorFetchJob(j, k)
                       \/ Silence(j)
                       \/ \E n \in Replicas : HeartbeatVendorFetchJob(n, j)
    \/ \E n \in Replicas : \/ ClaimVendorFetchJob(n) \/ Runner(n)
                           \/ UploadUnanswered(n) \/ StepFails(n) \/ Interrupted(n)
    \/ \E k \in Entries : DeleteDriverPackVersion(k)

Spec == Init /\ [][Next]_vars

\* Every replica polls on a ticker; the download and the upload have
\* timeouts, statements end, time passes.  That the object store answers the
\* DELETE of a mismatch is an assumption: that request has no timeout.
FairSpec ==
    /\ Spec
    /\ \A n \in Replicas : WF_vars(ClaimVendorFetchJob(n)) /\ WF_vars(Runner(n))
    /\ \A j \in Jobs : WF_vars(Silence(j))

-----------------------------------------------------------------------------
(***************************************************************************)
(* Properties.                                                             *)
(***************************************************************************)

\* A pack version is registered only after a download of its entry matched
\* the catalog's checksum, whichever of several runners registers it.
PackWasVerified == \A k \in Entries : packs[k] # NULL => k \in verified

\* A completed row names the registered version of its entry, also when the
\* row was claimed twice, the first runner lives on or the version is deleted
\* while its runner completes; a row loses it only to an operator's deletion.
CompletedHasPack ==
    \A j \in Jobs : row[j].state = "completed" =>
        \/ row[j].pv # NULL /\ row[j].pv = packs[row[j].entry]
        \/ j \in cleared

\* The outcome of a fetch stands: a completed or failed row is written again
\* only if it had been silent for ten minutes while it was running, so that a
\* second runner may have claimed it.  Not even then does it return to the queue.
OutcomeStands ==
    [][\A j \in Jobs : row[j].state \in Finished /\ row'[j].state # row[j].state =>
          j \in silent /\ row'[j].state \in Finished]_vars

\* "An api restart mid-download must not strand the row in 'running' forever":
\* every fetch ends, if restarts and deletions do.
EveryFetchEnds ==
    \A j \in Jobs : (row[j].state \in {"queued", "running"}) ~> (row[j].state \in Finished)

\* "Verify against the catalog's checksum before anything references the
\* object": the object of a registered pack has the right content.
PackHasContent == \A k \in Entries : packs[k] # NULL => object[k] = "good"

=============================================================================
