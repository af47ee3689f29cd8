------------------------- MODULE VendorFetchProofs -------------------------
(***************************************************************************)
(* The fetches of driver packs, for any number of rows, catalog entries,   *)
(* replicas, faults and deleted versions: what is registered was verified, *)
(* what is completed is registered until an operator deletes it, and an    *)
(* outcome is written over only where a silent row may have two runners.   *)
(***************************************************************************)
EXTENDS VendorFetch, TLAPS

Rows == [state : RowStates, entry : Entries \cup {None}, stale : BOOLEAN, pv : Nat]
Runners == [pc : Steps, job : Jobs \cup {None}, got : {None, "good", "bad"}, pv : Nat]

\* Rows and runners are records of their fields, which TypeOK says field by field.
Shapes ==
    /\ row \in [Jobs -> Rows]
    /\ runner \in [Replicas -> Runners]

\* A row that was created has an entry, for good; created lists these rows.
Created ==
    /\ created \in Seq(Jobs)
    /\ \A j \in Jobs : row[j].state # "absent" => row[j].entry \in Entries
    /\ \A i \in DOMAIN created : row[created[i]].state # "absent"
    /\ \A i, k \in DOMAIN created : created[i] = created[k] => i = k

Stores ==
    /\ object \in [Entries -> {None, "good", "bad"}]
    /\ made \in Nat /\ packs \in [Entries -> 0..made]
    /\ blobs \subseteq Entries /\ verified \subseteq Entries
    /\ silent \subseteq Jobs /\ cleared \subseteq Jobs
    /\ faults \in 0..MaxFaults

\* What the runner of replica n has done for its row.  The verified entries
\* stay, so another runner of the same row cannot take it away.
Earned(n) ==
    /\ runner[n].pc # "idle" =>
          runner[n].job \in Jobs /\ row[runner[n].job].state # "absent"
    /\ runner[n].pc = "verify" => runner[n].got \in {"good", "bad"}
    /\ runner[n].pc \in {"blob", "pack", "complete"} => EntryOf(n) \in verified
    /\ runner[n].pc = "complete" => runner[n].pv # NULL
    /\ runner[n].pv \in 0..made

\* What a row names is a version of its entry, or was; a completed row names one.
Named(j) ==
    /\ row[j].pv \in 0..made
    /\ row[j].pv # NULL => row[j].state # "absent" /\ row[j].pv = packs[row[j].entry]
    /\ row[j].state = "completed" => row[j].pv # NULL \/ j \in cleared

\* A row that was never silent has at most one runner, and that one finds it
\* running.
Alone(j) ==
    j \notin silent =>
        /\ ~row[j].stale
        /\ \A n \in Replicas : runner[n].pc # "idle" /\ runner[n].job = j =>
              /\ row[j].state = "running"
              /\ \A m \in Replicas : runner[m].pc # "idle" /\ runner[m].job = j => m = n

IInv ==
    /\ Shapes
    /\ Created
    /\ Stores
    /\ \A n \in Replicas : Earned(n)
    /\ \A j \in Jobs : Named(j) /\ Alone(j)
    /\ PackWasVerified

-----------------------------------------------------------------------------
\* An empty queue satisfies the invariant.
LEMMA InitIInv == Init => IInv
BY FetchAssumption DEF Init, IInv, Shapes, Rows, Runners, Created, Stores, Earned, Named, Alone,
                       PackWasVerified, Resting, RowStates, Steps, Finished, NULL

\* What Goto does to the runner of n and to the others.
LEMMA GotoMove ==
    ASSUME Shapes, NEW n \in Replicas, NEW pc \in Steps, Goto(n, pc)
    PROVE  /\ runner' \in [Replicas -> Runners]
           /\ runner'[n].pc = pc /\ runner'[n].job = runner[n].job
           /\ runner'[n].got = runner[n].got /\ runner'[n].pv = runner[n].pv
           /\ \A m \in Replicas \ {n} : runner'[m] = runner[m]
BY DEF Shapes, Goto, Runners

\* What Rest does.
LEMMA RestMove ==
    ASSUME Shapes, NEW n \in Replicas, Rest(n)
    PROVE  /\ runner' \in [Replicas -> Runners]
           /\ runner'[n].pc = "idle" /\ runner'[n].pv = NULL
           /\ \A m \in Replicas \ {n} : runner'[m] = runner[m]
BY DEF Shapes, Rest, Resting, Runners, Steps, NULL

\* A step that leaves the rows alone, adds to the stores and leaves the
\* moving runner with what its new step needs keeps the invariant.
LEMMA RunnerStep ==
    ASSUME IInv, NEW n \in Replicas, runner[n].pc # "idle",
           UNCHANGED <<row, created, silent, cleared>>,
           Stores', PackWasVerified', made <= made', verified \subseteq verified',
           \A k \in Entries : packs[k] # NULL => packs'[k] = packs[k],
           runner' \in [Replicas -> Runners],
           runner'[n].pc = "idle" \/ runner'[n].job = runner[n].job,
           \A m \in Replicas \ {n} : runner'[m] = runner[m],
           Earned(n)'
    PROVE  IInv'
<1>1. Shapes' /\ Created'
  BY DEF IInv, Shapes, Created
<1>2. ASSUME NEW j \in Jobs PROVE Named(j)'
  <2>1. Named(j) /\ (row[j].state # "absent" => row[j].entry \in Entries)
    BY DEF IInv, Created
  <2>2. row[j].pv \in 0..made'
    BY <2>1 DEF Named, IInv, Stores
  <2>3. row[j].pv # NULL => packs[row[j].entry] # NULL /\ row[j].entry \in Entries
    BY <2>1 DEF Named
  <2> QED BY <2>1, <2>2, <2>3 DEF Named
<1>3. ASSUME NEW j \in Jobs PROVE Alone(j)'
  <2>1. Alone(j)
    BY DEF IInv
  <2> QED BY <2>1 DEF Alone
<1>4. ASSUME NEW m \in Replicas, m # n PROVE Earned(m)'
  <2>1. runner'[m] = runner[m] /\ row' = row /\ Earned(m)
    BY <1>4 DEF IInv
  <2>2. runner[m].pv \in 0..made'
    BY <2>1 DEF Earned, IInv, Stores
  <2> QED BY <2>1, <2>2 DEF Earned, EntryOf
<1> QED BY <1>1, <1>2, <1>3, <1>4 DEF IInv

\* A step that changes rows without taking an entry away keeps it.
LEMMA RowStep ==
    ASSUME IInv,
           Shapes', Created', Stores', PackWasVerified', UNCHANGED <<made, verified>>,
           \A j \in Jobs : row[j].state # "absent" =>
               row'[j].state # "absent" /\ row'[j].entry = row[j].entry,
           \A j \in Jobs : Named(j)' /\ Alone(j)',
           \A m \in Replicas : runner'[m] = runner[m] \/ Earned(m)'
    PROVE  IInv'
<1>1. ASSUME NEW m \in Replicas, runner'[m] = runner[m] PROVE Earned(m)'
  <2>1. Earned(m)
    BY DEF IInv
  <2>2. runner[m].pc # "idle" => EntryOf(m)' = EntryOf(m)
    BY <1>1, <2>1 DEF Earned, EntryOf
  <2> QED BY <1>1, <2>1, <2>2 DEF Earned
<1> QED BY <1>1 DEF IInv

-----------------------------------------------------------------------------
(***************************************************************************)
(* The actions.                                                            *)
(***************************************************************************)

\* A new row gets an id no runner has.
LEMMA CreateIInv ==
    ASSUME IInv, NEW j \in Jobs, NEW k \in Entries, CreateVendorFetchJob(j, k)
    PROVE  IInv'
<1> USE DEF CreateVendorFetchJob
<1> DEFINE new == [state |-> "queued", entry |-> k, stale |-> FALSE, pv |-> NULL]
<1>1. row[j].state = "absent" /\ row' = [row EXCEPT ![j] = new]
  OBVIOUS
<1>2. Shapes'
  BY DEF IInv, Shapes, Rows, RowStates, NULL
<1>3. row'[j] = new /\ \A i \in Jobs \ {j} : row'[i] = row[i]
  BY DEF IInv, Shapes
<1>4. Created'
  <2>1. created \in Seq(Jobs) /\ created' = Append(created, j)
    BY DEF IInv, Created
  <2>2. \A i \in DOMAIN created : created[i] \in Jobs /\ created[i] # j
    BY <1>1, <2>1 DEF IInv, Created
  <2> QED BY <1>3, <2>1, <2>2 DEF IInv, Created
<1>5. \A i \in Jobs : row[i].state # "absent" => row'[i].state # "absent" /\ row'[i].entry = row[i].entry
  BY <1>1, <1>3
<1>6. UNCHANGED <<packs, made, runner, verified, silent, cleared>> /\ Stores' /\ PackWasVerified'
  BY DEF history, IInv, Stores, PackWasVerified
<1>7. ASSUME NEW i \in Jobs PROVE Named(i)'
  <2>1. CASE i = j
    BY <1>3, <1>6, <2>1 DEF Named, IInv, Stores, NULL
  <2>2. CASE i # j
    BY <1>3, <1>6, <2>2 DEF Named, IInv
  <2> QED BY <2>1, <2>2
<1>8. ASSUME NEW i \in Jobs PROVE Alone(i)'
  <2>1. CASE i = j
    <3>1. \A n \in Replicas : runner[n].pc # "idle" => runner[n].job # j
      BY <1>1 DEF IInv, Earned
    <3> QED BY <1>3, <1>6, <2>1, <3>1 DEF Alone
  <2>2. CASE i # j
    BY <1>3, <1>6, <2>2 DEF Alone, IInv
  <2> QED BY <2>1, <2>2
<1> QED BY <1>2, <1>4, <1>5, <1>6, <1>7, <1>8, RowStep

\* A claim takes up a created row that is queued or has been silent, and has
\* earned nothing yet.
LEMMA ClaimIInv ==
    ASSUME IInv, NEW n \in Replicas, ClaimVendorFetchJob(n)
    PROVE  IInv'
<1>1. PICK i \in DOMAIN created :
        /\ Runnable(created[i])
        /\ row' = [row EXCEPT ![created[i]] = [@ EXCEPT !.state = "running", !.stale = FALSE]]
        /\ runner' = [runner EXCEPT ![n] = [Resting EXCEPT !.pc = "download", !.job = created[i]]]
  BY DEF ClaimVendorFetchJob
<1> DEFINE j == created[i]
<1>2. j \in Jobs /\ row[j].state # "absent"
  BY DEF IInv, Created
<1>3. /\ row' \in [Jobs -> Rows]
      /\ row'[j].state = "running" /\ ~row'[j].stale
      /\ row'[j].entry = row[j].entry /\ row'[j].pv = row[j].pv
      /\ \A h \in Jobs \ {j} : row'[h] = row[h]
  BY <1>1, <1>2 DEF IInv, Shapes, Rows, RowStates
<1>4. /\ runner' \in [Replicas -> Runners]
      /\ runner'[n].pc = "download" /\ runner'[n].job = j /\ runner'[n].pv = NULL
      /\ \A m \in Replicas \ {n} : runner'[m] = runner[m]
  BY <1>1, <1>2 DEF IInv, Shapes, Runners, Steps, Resting, NULL
<1>5. Shapes' /\ Created'
  BY <1>2, <1>3, <1>4 DEF IInv, Shapes, Created, ClaimVendorFetchJob
<1>6. UNCHANGED <<packs, made, verified, silent, cleared>> /\ Stores' /\ PackWasVerified'
  BY DEF ClaimVendorFetchJob, history, IInv, Stores, PackWasVerified
<1>7. Earned(n)'
  BY <1>2, <1>3, <1>4, <1>6 DEF Earned, IInv, Stores, NULL
<1>8. \A h \in Jobs : row[h].state # "absent" => row'[h].state # "absent" /\ row'[h].entry = row[h].entry
  BY <1>3
<1>9. ASSUME NEW h \in Jobs PROVE Named(h)'
  BY <1>2, <1>3, <1>6 DEF Named, IInv
<1>10. ASSUME NEW h \in Jobs PROVE Alone(h)'
  <2>1. Alone(h) /\ runner[n].pc = "idle"
    BY DEF IInv, ClaimVendorFetchJob
  <2>2. CASE h # j
    BY <1>3, <1>4, <1>6, <2>1, <2>2 DEF Alone
  <2>3. CASE h = j /\ h \in silent
    BY <1>6, <2>3 DEF Alone
  <2>4. CASE h = j /\ h \notin silent
    <3>1. row[j].state = "queued"
      BY <1>1, <2>1, <2>4 DEF Runnable, Alone
    <3>2. \A m \in Replicas : ~(runner[m].pc # "idle" /\ runner[m].job = j)
      BY <2>1, <2>4, <3>1 DEF Alone
    <3> QED BY <1>3, <1>4, <1>6, <2>4, <3>2 DEF Alone
  <2> QED BY <2>2, <2>3, <2>4
<1> QED BY <1>4, <1>5, <1>6, <1>7, <1>8, <1>9, <1>10, RowStep

\* Heartbeats and silence only move the flag.
LEMMA BeatIInv ==
    ASSUME IInv, NEW j \in Jobs,
           Silence(j) \/ \E n \in Replicas : HeartbeatVendorFetchJob(n, j)
    PROVE  IInv'
<1>1. /\ UNCHANGED <<created, object, blobs, packs, made, runner, verified, cleared>>
      /\ faults' \in 0..MaxFaults
      /\ silent \subseteq silent' /\ silent' \subseteq silent \cup {j}
  BY FetchAssumption DEF Silence, HeartbeatVendorFetchJob, history, IInv, Stores
<1>2. /\ row' \in [Jobs -> Rows]
      /\ \A h \in Jobs : /\ row'[h].state = row[h].state /\ row'[h].entry = row[h].entry
                         /\ row'[h].pv = row[h].pv
                         /\ row'[h].stale => row[h].stale \/ h \in silent'
  <2>1. CASE Silence(j)
    <3>1. row' = [row EXCEPT ![j].stale = TRUE] /\ j \in silent'
      BY <2>1 DEF Silence
    <3> QED BY <3>1 DEF IInv, Shapes, Rows
  <2>2. CASE \E n \in Replicas : HeartbeatVendorFetchJob(n, j)
    <3>1. row' = [row EXCEPT ![j].stale = FALSE]
      BY <2>2 DEF HeartbeatVendorFetchJob
    <3> QED BY <3>1 DEF IInv, Shapes, Rows
  <2> QED BY <2>1, <2>2
<1>3. Shapes' /\ Created' /\ Stores' /\ PackWasVerified'
  <2>1. Shapes'
    BY <1>1, <1>2 DEF IInv, Shapes
  <2>2. Created'
    BY <1>1, <1>2 DEF IInv, Created
  <2>3. Stores'
    BY <1>1 DEF IInv, Stores
  <2>4. PackWasVerified'
    BY <1>1 DEF IInv, PackWasVerified
  <2> QED BY <2>1, <2>2, <2>3, <2>4
<1>4. ASSUME NEW h \in Jobs PROVE Named(h)'
  BY <1>1, <1>2 DEF Named, IInv
<1>5. ASSUME NEW h \in Jobs PROVE Alone(h)'
  <2>1. Alone(h)
    BY DEF IInv
  <2> QED BY <1>1, <1>2, <2>1 DEF Alone
<1> QED BY <1>1, <1>2, <1>3, <1>4, <1>5, RowStep

\* The last update of a runner: a completed row names the version its runner
\* made, if that is still there.
LEMMA FinishIInv ==
    ASSUME IInv, NEW n \in Replicas, FailVendorFetchJob(n) \/ CompleteVendorFetchJob(n)
    PROVE  IInv'
<1> DEFINE j == runner[n].job
<1>1. /\ runner[n].pc # "idle" /\ Rest(n)
      /\ UNCHANGED <<created, object, blobs, packs, made, verified, silent, cleared, faults>>
  BY DEF FailVendorFetchJob, CompleteVendorFetchJob, history
<1>2. j \in Jobs /\ row[j].state # "absent" /\ row[j].entry \in Entries
  BY <1>1 DEF IInv, Earned, Created
<1>3. /\ row' \in [Jobs -> Rows]
      /\ \A h \in Jobs \ {j} : row'[h] = row[h]
      /\ row'[j].entry = row[j].entry /\ row'[j].stale = row[j].stale
      /\ \/ row'[j] = row[j]
         \/ row'[j].state = "failed" /\ row'[j].pv = row[j].pv
         \/ row'[j].state = "completed" /\ row'[j].pv = packs[row[j].entry] /\ row'[j].pv # NULL
  <2>1. CASE FailVendorFetchJob(n)
    <3>1. row' = [row EXCEPT ![j].state = "failed"]
      BY <2>1 DEF FailVendorFetchJob, SetState
    <3> QED BY <1>2, <3>1 DEF IInv, Shapes, Rows, RowStates, Finished
  <2>2. CASE CompleteVendorFetchJob(n)
    <3>1. runner[n].pv # NULL /\ runner[n].pv \in Nat
      BY <2>2 DEF CompleteVendorFetchJob, IInv, Earned, Stores
    <3>2. CASE row' = row
      BY <3>2 DEF IInv, Shapes
    <3>3. CASE /\ runner[n].pv = packs[row[j].entry]
               /\ row' = [row EXCEPT ![j] = [@ EXCEPT !.state = "completed", !.pv = runner[n].pv]]
      BY <1>2, <3>1, <3>3 DEF IInv, Shapes, Rows, RowStates, Finished
    <3> QED BY <2>2, <3>2, <3>3 DEF CompleteVendorFetchJob, EntryOf
  <2> QED BY <2>1, <2>2
<1>4. /\ runner' \in [Replicas -> Runners] /\ runner'[n].pc = "idle" /\ runner'[n].pv = NULL
      /\ \A m \in Replicas \ {n} : runner'[m] = runner[m]
  BY <1>1, RestMove DEF IInv
<1>5. \A h \in Jobs : row[h].state # "absent" => row'[h].state # "absent" /\ row'[h].entry = row[h].entry
  BY <1>2, <1>3
<1>6. \A h \in Jobs : row'[h].state # "absent" => row[h].state # "absent" /\ row'[h].entry = row[h].entry
  BY <1>2, <1>3
<1>7. Shapes' /\ Created' /\ Stores' /\ PackWasVerified'
  BY <1>1, <1>3, <1>4, <1>5, <1>6 DEF IInv, Shapes, Created, Stores, PackWasVerified
<1>8. Earned(n)'
  BY <1>1, <1>4 DEF Earned, IInv, Stores, NULL
<1>9. ASSUME NEW h \in Jobs PROVE Named(h)'
  <2>1. Named(h) /\ packs[row[j].entry] \in 0..made
    BY <1>2 DEF IInv, Stores
  <2>2. CASE h # j
    BY <1>1, <1>3, <2>1, <2>2 DEF Named
  <2>3. CASE h = j
    BY <1>1, <1>2, <1>3, <2>1, <2>3 DEF Named
  <2> QED BY <2>2, <2>3
<1>10. ASSUME NEW h \in Jobs PROVE Alone(h)'
  <2>1. Alone(h)
    BY DEF IInv
  <2>2. CASE h # j
    BY <1>1, <1>3, <1>4, <2>1, <2>2 DEF Alone
  <2>3. CASE h = j
    <3>1. h \notin silent => \A m \in Replicas : runner'[m].pc # "idle" => runner'[m].job # h
      BY <1>1, <1>4, <2>1, <2>3 DEF Alone
    <3> QED BY <1>1, <1>3, <2>1, <2>3, <3>1 DEF Alone
  <2> QED BY <2>2, <2>3
<1> QED BY <1>1, <1>4, <1>5, <1>7, <1>8, <1>9, <1>10, RowStep

\* A deletion: the rows that named the version are cleared, the runner that
\* made it finds it gone.
LEMMA DeleteIInv ==
    ASSUME IInv, NEW k \in Entries, DeleteDriverPackVersion(k)
    PROVE  IInv'
<1> USE DEF DeleteDriverPackVersion
<1>1. /\ packs' = [packs EXCEPT ![k] = NULL] /\ packs[k] # NULL
      /\ UNCHANGED <<created, object, blobs, made, runner, verified, silent>>
      /\ cleared' = cleared \cup {j \in Jobs : row[j].pv = packs[k]}
  OBVIOUS
<1>2. \A l \in Entries : packs'[l] = IF l = k THEN NULL ELSE packs[l]
  BY <1>1 DEF IInv, Stores
<1>3. \A j \in Jobs : row'[j] = IF row[j].pv = packs[k] THEN [row[j] EXCEPT !.pv = NULL] ELSE row[j]
  OBVIOUS
<1>4. /\ row' \in [Jobs -> Rows]
      /\ \A j \in Jobs : /\ row'[j].state = row[j].state /\ row'[j].entry = row[j].entry
                         /\ row'[j].stale = row[j].stale
                         /\ row'[j].pv = IF row[j].pv = packs[k] THEN NULL ELSE row[j].pv
  BY <1>3 DEF IInv, Shapes, Rows, NULL
<1>5. Stores' /\ PackWasVerified'
  BY <1>1, <1>2, FetchAssumption DEF IInv, Stores, PackWasVerified, NULL
<1>6. Shapes' /\ Created'
  BY <1>1, <1>4 DEF IInv, Shapes, Created
<1>7. ASSUME NEW j \in Jobs PROVE Named(j)'
  <2>1. Named(j) /\ (row[j].state # "absent" => row[j].entry \in Entries) /\ made \in Nat
    BY DEF IInv, Created, Stores
  <2>2. CASE row[j].pv = packs[k]
    <3>1. row'[j].pv = NULL /\ j \in cleared'
      BY <1>1, <1>4, <2>2
    <3> QED BY <1>1, <2>1, <3>1 DEF Named, NULL
  <2>3. CASE row[j].pv # packs[k]
    <3>1. row[j].pv # NULL => row[j].entry # k /\ row[j].entry \in Entries
      BY <2>1, <2>3 DEF Named
    <3>2. row[j].pv # NULL => packs'[row[j].entry] = packs[row[j].entry]
      BY <1>2, <3>1
    <3>3. row'[j].pv = row[j].pv
      BY <1>4, <2>3
    <3> QED BY <1>1, <1>4, <2>1, <3>2, <3>3 DEF Named
  <2> QED BY <2>2, <2>3
<1>8. ASSUME NEW j \in Jobs PROVE Alone(j)'
  <2>1. Alone(j)
    BY DEF IInv
  <2> QED BY <1>1, <1>4, <2>1 DEF Alone
<1> QED BY <1>1, <1>4, <1>5, <1>6, <1>7, <1>8, RowStep

\* The steps of a runner in between.
LEMMA WorkIInv ==
    ASSUME IInv, NEW n \in Replicas,
           \/ Download(n) \/ Upload(n) \/ UploadUnanswered(n) \/ Verify(n)
           \/ CreateBlob(n) \/ CreateDriverPackVersion(n) \/ StepFails(n) \/ Interrupted(n)
    PROVE  IInv'
<1> DEFINE k == EntryOf(n)
<1>1. /\ UNCHANGED <<row, created, silent, cleared>> /\ runner[n].pc # "idle"
      /\ runner[n].job \in Jobs /\ row[runner[n].job].state # "absent" /\ k \in Entries
      /\ runner[n].pv \in 0..made /\ made \in Nat
  BY DEF Download, Upload, UploadUnanswered, Verify, CreateBlob, CreateDriverPackVersion,
         StepFails, Interrupted, history, IInv, Earned, Created, EntryOf, Stores
<1>2. runner'[n].job = runner[n].job => EntryOf(n)' = k
  BY <1>1 DEF EntryOf
<1>3. /\ "upload" \in Steps /\ "fail" \in Steps /\ "blob" \in Steps /\ "pack" \in Steps
      /\ "complete" \in Steps
  BY DEF Steps
<1>4. ASSUME NEW pc \in {"upload", "fail"}, Goto(n, pc),
             UNCHANGED <<packs, made, verified>>, Stores'
      PROVE  IInv'
  <2>1. pc \in Steps
    BY DEF Steps
  <2>2. Earned(n)'
    BY <1>1, <1>4, <2>1, GotoMove DEF IInv, Earned
  <2>3. PackWasVerified'
    BY <1>4 DEF IInv, PackWasVerified
  <2> QED BY <1>1, <1>4, <2>1, <2>2, <2>3, GotoMove, RunnerStep DEF IInv
<1>5. CASE Download(n)
  BY <1>4, <1>5 DEF Download, history, IInv, Stores
<1>6. CASE StepFails(n)
  BY <1>4, <1>6 DEF StepFails, history, IInv, Stores
<1>7. CASE UploadUnanswered(n)
  BY <1>1, <1>4, <1>7 DEF UploadUnanswered, history, IInv, Stores
<1>8. CASE Upload(n)
  <2>1. PICK c \in {"good", "bad"} :
          /\ object' = [object EXCEPT ![k] = c]
          /\ runner' = [runner EXCEPT ![n].pc = "verify", ![n].got = c]
    BY <1>8 DEF Upload
  <2>2. /\ runner' \in [Replicas -> Runners]
        /\ runner'[n].pc = "verify" /\ runner'[n].job = runner[n].job /\ runner'[n].got = c
        /\ runner'[n].pv = runner[n].pv
        /\ \A m \in Replicas \ {n} : runner'[m] = runner[m]
    BY <2>1 DEF IInv, Shapes, Runners, Steps
  <2>3. UNCHANGED <<blobs, packs, made, verified, faults>>
    BY <1>8 DEF Upload, history
  <2>4. Earned(n)'
    BY <1>1, <2>1, <2>2, <2>3 DEF Earned
  <2>5. Stores' /\ PackWasVerified'
    BY <1>1, <2>1, <2>3 DEF IInv, Stores, PackWasVerified
  <2> QED BY <1>1, <2>2, <2>3, <2>4, <2>5, RunnerStep
<1>9. CASE Verify(n)
  <2>1. UNCHANGED <<blobs, packs, made, faults>>
    BY <1>9 DEF Verify
  <2>2. CASE verified' = verified \cup {k} /\ Goto(n, "blob") /\ UNCHANGED object
    <3>1. Earned(n)'
      BY <1>1, <1>2, <1>3, <2>1, <2>2, GotoMove DEF IInv, Earned
    <3>2. Stores' /\ PackWasVerified'
      BY <1>1, <2>1, <2>2 DEF IInv, Stores, PackWasVerified
    <3> QED BY <1>1, <1>3, <2>1, <2>2, <3>1, <3>2, GotoMove, RunnerStep DEF IInv
  <2>3. CASE /\ Goto(n, "fail") /\ UNCHANGED verified
             /\ \E c \in {None, object[k]} : object' = [object EXCEPT ![k] = c]
    BY <1>1, <1>4, <2>1, <2>3 DEF IInv, Stores
  <2> QED BY <1>9, <2>2, <2>3 DEF Verify
<1>10. CASE CreateBlob(n)
  <2>1. /\ Goto(n, "pack") /\ blobs' = blobs \cup {k}
        /\ UNCHANGED <<object, packs, made, verified, faults>> /\ k \in verified
    BY <1>10 DEF CreateBlob, history, IInv, Earned
  <2>2. Earned(n)'
    BY <1>1, <1>2, <1>3, <2>1, GotoMove DEF IInv, Earned
  <2>3. Stores' /\ PackWasVerified'
    BY <1>1, <2>1 DEF IInv, Stores, PackWasVerified
  <2> QED BY <1>1, <1>3, <2>1, <2>2, <2>3, GotoMove, RunnerStep DEF IInv
<1>11. CASE CreateDriverPackVersion(n)
  <2>1. UNCHANGED <<object, blobs, verified, faults>> /\ k \in verified
    BY <1>11 DEF CreateDriverPackVersion, history, IInv, Earned
  <2>2. CASE packs[k] = NULL /\ Register(n)
    <3>1. /\ made' = made + 1 /\ packs' = [packs EXCEPT ![k] = made + 1]
          /\ runner' = [runner EXCEPT ![n].pc = "complete", ![n].pv = made + 1]
      BY <2>2 DEF Register
    <3>2. /\ runner' \in [Replicas -> Runners]
          /\ runner'[n].pc = "complete" /\ runner'[n].job = runner[n].job
          /\ runner'[n].pv = made + 1
          /\ \A m \in Replicas \ {n} : runner'[m] = runner[m]
      BY <1>1, <3>1 DEF IInv, Shapes, Runners, Steps
    <3>3. Earned(n)'
      BY <1>1, <1>2, <2>1, <3>1, <3>2 DEF Earned, NULL
    <3>4. \A l \in Entries : packs'[l] = IF l = k THEN made + 1 ELSE packs[l]
      BY <3>1 DEF IInv, Stores
    <3>5. Stores'
      BY <1>1, <2>1, <3>1 DEF IInv, Stores
    <3>6. PackWasVerified'
      BY <2>1, <3>4 DEF IInv, PackWasVerified
    <3>7. made <= made' /\ \A l \in Entries : packs[l] # NULL => packs'[l] = packs[l]
      BY <1>1, <2>2, <3>1, <3>4
    <3> QED BY <1>1, <2>1, <3>2, <3>3, <3>5, <3>6, <3>7, RunnerStep
  <2>3. CASE Goto(n, "fail") /\ UNCHANGED <<packs, made>>
    BY <1>1, <1>4, <2>1, <2>3 DEF IInv, Stores
  <2> QED BY <1>11, <2>2, <2>3 DEF CreateDriverPackVersion
<1>12. CASE Interrupted(n)
  <2>1. Rest(n) /\ UNCHANGED <<object, blobs, packs, made, verified>> /\ faults' \in 0..MaxFaults
    BY <1>12, FetchAssumption DEF Interrupted, history, IInv, Stores
  <2>2. Earned(n)'
    BY <1>1, <2>1, RestMove DEF IInv, Earned, NULL
  <2>3. Stores' /\ PackWasVerified'
    BY <1>1, <2>1 DEF IInv, Stores, PackWasVerified
  <2> QED BY <1>1, <2>1, <2>2, <2>3, RestMove, RunnerStep DEF IInv
<1> QED BY <1>5, <1>6, <1>7, <1>8, <1>9, <1>10, <1>11, <1>12

\* The invariant is inductive.
LEMMA NextIInv == IInv /\ [Next]_vars => IInv'
<1> SUFFICES ASSUME IInv, [Next]_vars PROVE IInv'
  OBVIOUS
<1>1. CASE UNCHANGED vars
  BY <1>1 DEF vars, history, IInv, Shapes, Created, Stores, Earned, EntryOf, Named, Alone, PackWasVerified
<1>2. CASE Next
  BY <1>2, CreateIInv, ClaimIInv, BeatIInv, FinishIInv, DeleteIInv, WorkIInv DEF Next, Runner
<1> QED BY <1>1, <1>2

-----------------------------------------------------------------------------
(***************************************************************************)
(* The theorems.                                                           *)
(***************************************************************************)

\* The invariant holds throughout.
LEMMA Invariance == Spec => []IInv
BY InitIInv, NextIInv, PTL DEF Spec

\* Rows, runners and stores keep their types for any number of rows, entries,
\* replicas and faults; no row is listed twice.
THEOREM TypeCorrect == Spec => []TypeOK
<1>1. IInv => TypeOK
  <2> SUFFICES ASSUME IInv PROVE TypeOK
    OBVIOUS
  <2>1. \A j \in Jobs : /\ row[j].state \in RowStates /\ row[j].stale \in BOOLEAN
                        /\ row[j].state # "absent" => row[j].entry \in Entries
                        /\ row[j].pv \in 0..made
    BY DEF IInv, Shapes, Rows, Created, Named
  <2>2. created \in Seq(Jobs) /\ IsInjective(created)
    BY DEF IInv, Created, IsInjective
  <2>3. \A n \in Replicas : /\ runner[n].pc \in Steps /\ runner[n].got \in {None, "good", "bad"}
                            /\ runner[n].pc # "idle" => runner[n].job \in Jobs
                            /\ runner[n].pv \in 0..made
    BY DEF IInv, Shapes, Runners, Earned
  <2> QED BY <2>1, <2>2, <2>3 DEF IInv, Stores, TypeOK
<1> QED BY <1>1, Invariance, PTL

\* runVendorFetch registers a pack only after a download of its entry matched
\* the catalog's checksum, however many runners work on the entry.
THEOREM Verified == Spec => []PackWasVerified
<1>1. IInv => PackWasVerified
  BY DEF IInv
<1> QED BY <1>1, Invariance, PTL

\* A completed row names the registered version of its entry until an operator
\* deletes that version (DeleteDriverPackVersion), also when its runner had
\* lost the row to another or its version before it completed.
THEOREM Completed == Spec => []CompletedHasPack
<1>1. IInv => CompletedHasPack
  <2> SUFFICES ASSUME IInv, NEW j \in Jobs, row[j].state = "completed"
               PROVE  (row[j].pv # NULL /\ row[j].pv = packs[row[j].entry]) \/ j \in cleared
    BY DEF CompletedHasPack
  <2>1. Named(j)
    BY DEF IInv
  <2> QED BY <2>1 DEF Named
<1> QED BY <1>1, Invariance, PTL

\* No claim, heartbeat or deletion writes over the outcome of a fetch, and a
\* late runner only that of a row that was silent while it ran.
THEOREM Outcome == Spec => OutcomeStands
<1> DEFINE Stands == \A j \in Jobs : row[j].state \in Finished /\ row'[j].state # row[j].state =>
                         j \in silent /\ row'[j].state \in Finished
<1>1. IInv /\ [Next]_vars => Stands
  <2> SUFFICES ASSUME IInv, [Next]_vars, NEW j \in Jobs,
                      row[j].state \in Finished, row'[j].state # row[j].state
               PROVE  j \in silent /\ row'[j].state \in Finished
    OBVIOUS
  <2>1. ASSUME NEW i \in Jobs, NEW k \in Entries, CreateVendorFetchJob(i, k)
        PROVE  FALSE
    BY <2>1 DEF CreateVendorFetchJob, IInv, Shapes, Finished
  <2>2. ASSUME NEW i \in Jobs, Silence(i) \/ \E n \in Replicas : HeartbeatVendorFetchJob(n, i)
        PROVE  FALSE
    BY <2>2 DEF Silence, HeartbeatVendorFetchJob, IInv, Shapes, Rows
  <2>3. ASSUME NEW n \in Replicas, ClaimVendorFetchJob(n)
        PROVE  FALSE
    <3>1. PICK i \in DOMAIN created :
            /\ Runnable(created[i])
            /\ row' = [row EXCEPT ![created[i]] = [@ EXCEPT !.state = "running", !.stale = FALSE]]
      BY <2>3 DEF ClaimVendorFetchJob
    <3>2. created[i] \in Jobs /\ created[i] # j
      BY <3>1 DEF Runnable, Finished, IInv, Created
    <3> QED BY <3>1, <3>2 DEF IInv, Shapes
  <2>4. ASSUME NEW n \in Replicas, FailVendorFetchJob(n) \/ CompleteVendorFetchJob(n)
        PROVE  j \in silent /\ row'[j].state \in Finished
    <3>1. runner[n].pc # "idle" /\ runner[n].job = j /\ row'[j].state \in Finished
      BY <2>4 DEF FailVendorFetchJob, CompleteVendorFetchJob, SetState, Finished, IInv, Shapes, Rows
    <3>2. Alone(j)
      BY DEF IInv
    <3> QED BY <3>1, <3>2 DEF Alone, Finished
  <2>5. ASSUME NEW k \in Entries, DeleteDriverPackVersion(k)
        PROVE  FALSE
    BY <2>5 DEF DeleteDriverPackVersion, IInv, Shapes, Rows
  <2>6. CASE UNCHANGED row
    BY <2>6
  <2>7. \/ UNCHANGED row
        \/ \E i \in Jobs : \/ \E k \in Entries : CreateVendorFetchJob(i, k)
                           \/ Silence(i)
                           \/ \E n \in Replicas : HeartbeatVendorFetchJob(n, i)
        \/ \E n \in Replicas : \/ ClaimVendorFetchJob(n)
                               \/ FailVendorFetchJob(n) \/ CompleteVendorFetchJob(n)
        \/ \E k \in Entries : DeleteDriverPackVersion(k)
    BY DEF Next, Runner, vars, Download, Upload, UploadUnanswered, Verify, CreateBlob,
           CreateDriverPackVersion, StepFails, Interrupted
  <2> QED BY <2>1, <2>2, <2>3, <2>4, <2>5, <2>6, <2>7
<1>2. IInv /\ [Next]_vars => [Stands]_vars
  BY <1>1
<1> QED BY <1>2, Invariance, PTL DEF Spec, OutcomeStands

=============================================================================
