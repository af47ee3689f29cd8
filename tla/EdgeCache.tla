------------------------------ MODULE EdgeCache ------------------------------
(***************************************************************************)
(* The site-local image mirror of the edge agent: a caching proxy whose    *)
(* handlers share a directory and a map of the downloads in flight.  The   *)
(* map is guarded by a mutex, the directory is not: every access to it is  *)
(* a step of its own.                                                      *)
(*                                                                         *)
(* Files are kept as a sequence in the order of their modification times,  *)
(* oldest first.  An object is a path; the objects in Blobs have a sha256  *)
(* in their path, the others are under /static.                            *)
(***************************************************************************)
EXTENDS Naturals, Sequences, FiniteSets, SequencesExt

CONSTANTS
    Objects,
    Blobs,      \* objects whose path holds their checksum
    Sized,      \* objects the origin sends with a Content-Length
    Size,       \* bytes of an object
    MaxBytes,   \* EDGE_CACHE_MAX_BYTES
    Requests,   \* HTTP requests, each served once
    Faults      \* may transfers fail, clients leave, the agent restart?

ASSUME CacheAssumption ==
    /\ IsFiniteSet(Objects) /\ IsFiniteSet(Requests)
    /\ Blobs \subseteq Objects /\ Sized \subseteq Objects
    /\ Size \in [Objects -> Nat \ {0}]
    /\ MaxBytes \in Nat \ {0}
    /\ Faults \in BOOLEAN

Nobody == "nobody"
ASSUME NobodyAssumption == Nobody \notin Requests

VARIABLES
    files,     \* cached objects, oldest modification time first
    corrupt,   \* cached objects whose content is not the origin's
    inflight,  \* the request that fills an object
    req        \* the handlers

vars == <<files, corrupt, inflight, req>>

\* A handler: its step, its object, the entries its eviction has yet to visit
\* with the total it keeps of them, whether the fill succeeded, what it sent;
\* and as history the objects that others wrote since it walked the directory.
Idle == [pc |-> "idle", obj |-> Nobody, entries |-> <<>>, total |-> 0,
         filled |-> FALSE, sent |-> "nothing", since |-> {}]

Filling == {"fetch", "evict", "copy", "unlock"}
Answered == {"served", "failed"}
Steps == {"idle", "stat", "lock", "wait", "open"} \cup Filling \cup Answered

\* The bytes of the objects in S, and how many they are: the sum of the sizes.
Bytes(S) == UNION {{o} \X (1..Size[o]) : o \in S}
Total(S) == Cardinality(Bytes(S))

TypeOK ==
    /\ files \in Seq(Objects) /\ IsInjective(files)
    /\ corrupt \subseteq ToSet(files)
    /\ inflight \in [Objects -> Requests \cup {Nobody}]
    /\ \A r \in Requests :
          /\ req[r].pc \in Steps
          /\ req[r].pc # "idle" => req[r].obj \in Objects
          /\ req[r].entries \in Seq(Objects)
          /\ req[r].total \in Nat
          /\ req[r].since \subseteq Objects
          /\ req[r].filled \in BOOLEAN
          /\ req[r].sent \in {"nothing", "right", "wrong"}

\* Any cache that fits is one an earlier run of the agent may have left.
Init ==
    /\ \E S \in SUBSET Objects : Total(S) <= MaxBytes /\ files \in SetToSeqs(S)
    /\ corrupt = {}
    /\ inflight = [o \in Objects |-> Nobody]
    /\ req = [r \in Requests |-> Idle]

Goto(r, pc) == req' = [req EXCEPT ![r].pc = pc]

\* The file becomes the most recent one.
Touch(o) == files' = Append(RemoveFirst(files, o), o)

\* What the handlers hold after r has renamed its temporary file.
Renamed(r) ==
    [q \in Requests |->
        IF q = r THEN [req[r] EXCEPT !.pc = "unlock", !.filled = TRUE, !.since = {}]
        ELSE IF req[q].pc \in {"evict", "copy"}
             THEN [req[q] EXCEPT !.since = @ \cup {req[r].obj}]
        ELSE req[q]]

-----------------------------------------------------------------------------
(***************************************************************************)
(* ServeHTTP and ensure.                                                   *)
(***************************************************************************)

\* Mutant: a path outside of the cache directory is accepted.
GetAnyPath(r, o) ==
    /\ req[r].pc = "idle"
    /\ req' = [req EXCEPT ![r].pc = "stat"]
    /\ UNCHANGED <<files, corrupt, inflight>>

\* A GET of a path that cachePath accepts.
Get(r, o) ==
    /\ req[r].pc = "idle"
    /\ req' = [req EXCEPT ![r].pc = "stat", ![r].obj = o]
    /\ UNCHANGED <<files, corrupt, inflight>>

Stat(r) ==
    /\ req[r].pc = "stat"
    /\ Goto(r, IF req[r].obj \in ToSet(files) THEN "open" ELSE "lock")
    /\ UNCHANGED <<files, corrupt, inflight>>

\* Mutant: the download in flight is not looked up.
LockAlways(r) ==
    /\ req[r].pc = "lock"
    /\ inflight' = [inflight EXCEPT ![req[r].obj] = r]
    /\ Goto(r, "fetch")
    /\ UNCHANGED <<files, corrupt>>

\* Under the mutex: wait for the download in flight, or start one.
Lock(r) ==
    /\ req[r].pc = "lock"
    /\ LET o == req[r].obj IN
         \/ /\ inflight[o] # Nobody
            /\ Goto(r, "wait")
            /\ UNCHANGED inflight
         \/ /\ inflight[o] = Nobody
            /\ inflight' = [inflight EXCEPT ![o] = r]
            /\ Goto(r, "fetch")
    /\ UNCHANGED <<files, corrupt>>

\* The client of a waiting request leaves.
Leave(r) ==
    /\ Faults
    /\ req[r].pc = "wait"
    /\ Goto(r, "failed")
    /\ UNCHANGED <<files, corrupt, inflight>>

\* Mutant: the waiters are not told.
UnlockSilently(r) ==
    /\ req[r].pc = "unlock"
    /\ inflight' = [inflight EXCEPT ![req[r].obj] = Nobody]
    /\ Goto(r, IF req[r].filled THEN "open" ELSE "failed")
    /\ UNCHANGED <<files, corrupt>>

\* Under the mutex: the download is over, and its waiters look again.
Unlock(r) ==
    /\ req[r].pc = "unlock"
    /\ inflight' = [inflight EXCEPT ![req[r].obj] = Nobody]
    /\ req' = [q \in Requests |->
          IF q = r THEN [req[r] EXCEPT !.pc = IF req[r].filled THEN "open" ELSE "failed"]
          ELSE IF req[q].pc = "wait" /\ req[q].obj = req[r].obj
               THEN [req[q] EXCEPT !.pc = "stat"]
          ELSE req[q]]
    /\ UNCHANGED <<files, corrupt>>

\* The file is opened, touched and sent; it may have been evicted meanwhile.
Open(r) ==
    /\ req[r].pc = "open"
    /\ LET o == req[r].obj IN
         \/ /\ o \in ToSet(files)
            /\ Touch(o)
            /\ req' = [req EXCEPT ![r].pc = "served",
                                  ![r].sent = IF o \in corrupt THEN "wrong" ELSE "right"]
         \/ /\ o \notin ToSet(files)
            /\ Goto(r, "failed")
            /\ UNCHANGED files
    /\ UNCHANGED <<corrupt, inflight>>

-----------------------------------------------------------------------------
(***************************************************************************)
(* fill and evictFor.                                                      *)
(***************************************************************************)

\* Mutant: the new object itself is forgotten.
FitsOldOnly(r) == req[r].total <= MaxBytes

Fits(r) == req[r].total + Size[req[r].obj] <= MaxBytes

\* The origin answers; evictFor walks the directory.  Without a length
\* nothing is evicted.
Fetch(r) ==
    /\ req[r].pc = "fetch"
    /\ IF req[r].obj \in Sized
       THEN req' = [req EXCEPT ![r].pc = "evict", ![r].entries = files,
                               ![r].total = Total(ToSet(files))]
       ELSE Goto(r, "copy")
    /\ UNCHANGED <<files, corrupt, inflight>>

\* One os.Remove of the loop: a file already gone frees nothing.
Evict(r) ==
    /\ req[r].pc = "evict" /\ ~Fits(r) /\ req[r].entries # <<>>
    /\ LET o == Head(req[r].entries) IN
         /\ files' = RemoveFirst(files, o)
         /\ corrupt' = corrupt \ {o}
         /\ req' = [req EXCEPT ![r].entries = Tail(@),
                               ![r].total = IF o \in ToSet(files) THEN @ - Size[o] ELSE @]
    /\ UNCHANGED inflight

\* The end of evictFor: there is room, or nothing is left to evict.
EvictDone(r) ==
    /\ req[r].pc = "evict" /\ (Fits(r) \/ req[r].entries = <<>>)
    /\ req' = [req EXCEPT ![r].pc = IF Fits(r) THEN "copy" ELSE "unlock",
                          ![r].entries = <<>>, ![r].total = 0,
                          ![r].since = IF Fits(r) THEN @ ELSE {}]
    /\ UNCHANGED <<files, corrupt, inflight>>

\* Mutant: nothing is compared with the checksum.
CopyUnverified(r) ==
    /\ req[r].pc = "copy"
    /\ \E bad \in {FALSE, Faults} :
         LET o == req[r].obj IN
           /\ Touch(o)
           /\ corrupt' = IF bad THEN corrupt \cup {o} ELSE corrupt \ {o}
           /\ req' = Renamed(r)
    /\ UNCHANGED inflight

\* The transfer into a temporary file, the checksum of a blob, the rename.
Copy(r) ==
    /\ req[r].pc = "copy"
    /\ \E bad \in {FALSE, Faults} :
         LET o == req[r].obj IN
           \/ /\ bad => o \notin Blobs
              /\ Touch(o)
              /\ corrupt' = IF bad THEN corrupt \cup {o} ELSE corrupt \ {o}
              /\ req' = Renamed(r)
           \/ /\ bad /\ o \in Blobs
              /\ req' = [req EXCEPT ![r].pc = "unlock", ![r].since = {}]
              /\ UNCHANGED <<files, corrupt>>
    /\ UNCHANGED inflight

\* The origin does not answer 200, the transfer breaks, the client that
\* started the fill leaves.
FillFails(r) ==
    /\ Faults
    /\ req[r].pc \in {"fetch", "copy"}
    /\ req' = [req EXCEPT ![r].pc = "unlock", ![r].since = {}]
    /\ UNCHANGED <<files, corrupt, inflight>>

\* The agent restarts: only the directory survives.
Restart ==
    /\ Faults
    /\ inflight' = [o \in Objects |-> Nobody]
    /\ req' = [r \in Requests |->
                 IF req[r].pc \in {"idle"} \cup Answered THEN req[r]
                 ELSE [req[r] EXCEPT !.pc = "failed", !.entries = <<>>, !.total = 0,
                                     !.since = {}]]
    /\ UNCHANGED <<files, corrupt>>

-----------------------------------------------------------------------------
\* What a handler does on its own host.
Local(r) ==
    \/ Stat(r) \/ Lock(r) \/ Unlock(r) \/ Open(r)
    \/ Evict(r) \/ EvictDone(r)

\* What waits for the origin: its answer, and the bytes of the object.
Transfer(r) == Fetch(r) \/ Copy(r)

Handler(r) == Local(r) \/ Transfer(r)

Next ==
    \/ \E r \in Requests : \/ \E o \in Objects : Get(r, o)
                           \/ Handler(r) \/ Leave(r) \/ FillFails(r)
    \/ Restart

Spec == Init /\ [][Next]_vars

\* A goroutine that can go on goes on.  Nothing is assumed of the origin: the
\* client of the agent has no timeout, so a transfer may stand still for ever.
FairSpec == Spec /\ \A r \in Requests : WF_vars(Local(r))

-----------------------------------------------------------------------------
(***************************************************************************)
(* Properties.                                                             *)
(***************************************************************************)

\* The in-flight map: a request fills an object exactly as long as the map
\* names it, so no two downloads of an object overlap and none blocks the
\* object once it is over.
OneFiller ==
    \A o \in Objects : \A r \in Requests :
        (req[r].pc \in Filling /\ req[r].obj = o) <=> inflight[o] = r

\* "A corrupted or tampered WAN transfer never gets served": a blob on disk or
\* sent to a client is the origin's, whatever was transferred, evicted and
\* filled again meanwhile.
BlobsAreVerified ==
    /\ corrupt \cap Blobs = {}
    /\ \A r \in Requests : req[r].sent = "wrong" => req[r].obj \notin Blobs

\* evictFor: "deletes oldest files until need bytes fit".  When a download of
\* known length is written, the files its eviction could see and the object
\* fit the limit, although others evict and write at the same time; the cache
\* exceeds its limit only by what was written since the eviction looked.
RoomWasMade ==
    \A r \in Requests :
        req[r].pc = "copy" /\ req[r].obj \in Sized =>
            Total((ToSet(files) \ req[r].since) \cup {req[r].obj}) <= MaxBytes

\* The request transfers its object, or waits for one that does.
InTransfer(r) ==
    \E q \in Requests :
        /\ req[q].pc \in {"fetch", "copy"} /\ req[q].obj = req[r].obj
        /\ q = r \/ req[r].pc = "wait"

\* Every request is answered, whatever becomes of the fill it waits for and of
\* those that others start in its place - unless from some moment on the
\* transfer of its object stands still: the client has no timeout.
AnsweredUnlessStalled ==
    \A r \in Requests :
        (req[r].pc # "idle") ~> (req[r].pc \in Answered \/ []InTransfer(r))

\* "Concurrent requests for the same object share one upstream download":
\* no download starts of an object that is in the cache.
FillOnce ==
    [][\A o \in Objects :
          inflight[o] = Nobody /\ inflight'[o] # Nobody => o \notin ToSet(files)]_vars

=============================================================================
