---------------------------- MODULE ImageIngest ----------------------------
(***************************************************************************)
(* Blobs, image versions and the capture of golden images.  A blob is a    *)
(* row, keyed by the digest of its content; the content itself is put into *)
(* the object store later, by whoever holds the presigned URL; the runner  *)
(* of vendor fetches puts it there first and registers it afterwards.  The *)
(* capture script of a job registers its archive, uploads it and asks the  *)
(* server to make it a version of the job's image.                         *)
(*                                                                         *)
(* The object store is external.  A key is the digest and a file name, so  *)
(* that a place (bucket and name) is a place for each digest.  The key of  *)
(* a vendor's pack has no digest; what other content under the same key    *)
(* does to it is in VendorFetch.                                           *)
(***************************************************************************)
EXTENDS Naturals, FiniteSets

CONSTANTS
    Shas,        \* contents, by their digest
    Files,       \* file names an operator may send; "capture" is the script's,
                 \* "vendor" stands for the vendor/<vendor>/<file> of a fetch
    Images,
    Linux,       \* the images whose os_family is linux
    Tags,        \* version tags
    Captures,    \* capture jobs
    Target,      \* capture_image_id and capture_version_tag of a job
    Calls,       \* capture-complete requests in flight
    MaxOps,      \* bound: calls of operators
    MaxFaults    \* bound: reboots of machines and requests cut short

None == "none"
Now == "now"    \* no tag was given: the time of day is the tag

\* A NULL is no value of a column.
ASSUME IngestAssumption ==
    /\ IsFiniteSet(Shas) /\ IsFiniteSet(Images) /\ IsFiniteSet(Captures)
    /\ Linux \subseteq Images
    /\ Target \in [Captures -> [image : Images, tag : Tags \cup {Now}]]
    /\ None \notin Captures
    /\ MaxOps \in Nat /\ MaxFaults \in Nat

VARIABLES
    blob,     \* blobs: the place of a digest, {} without a row
    urls,     \* presigned PUTs handed to operators: digest and place
    object,   \* the object store: the places that hold a digest
    version,  \* image_versions
    golden,   \* images whose media say deploy_method golden
    capture,  \* state of a capture job
    script,   \* the capture script of a job's machine
    call,     \* capture-complete requests
    cleared,  \* history: images whose media an operator wrote
    cut,      \* history: jobs with a capture-complete cut short
    ops, faults

ingestVars == <<blob, urls, object, version, golden, capture, script, call, cleared, cut, ops, faults>>

Roles == {"images", "drivers", "blobs"}
Places == Roles \X (Files \cup {"capture", "vendor"})
Off == [pc |-> "off", sha |-> None, url |-> {}, call |-> None]

\* The tags that the time of day may give to the requests of a job.
TimeTags(j) == {<<j, n>> : n \in 0..MaxFaults}
NoCall == [pc |-> "idle", job |-> None, sha |-> None]

IngestTypeOK ==
    /\ blob \in [Shas -> SUBSET Places] /\ \A s \in Shas : Cardinality(blob[s]) <= 1
    /\ urls \subseteq Shas \X Places
    /\ object \in [Shas -> SUBSET Places]
    /\ version \subseteq [image : Images, tag : Tags \cup UNION {TimeTags(j) : j \in Captures}, sha : Shas,
                          by : Captures \cup {None}]
    /\ golden \subseteq Images /\ cleared \subseteq Images
    /\ capture \in [Captures -> {"active", "completed", "failed"}]
    /\ \A j \in Captures :
          /\ script[j].pc \in {"off", "register", "upload", "finish", "wait"}
          /\ script[j].url \subseteq Places
    /\ \A c \in Calls : call[c].pc \in {"idle", "blob", "insert", "advance", "golden", "refused", "done"}
    /\ cut \subseteq Captures
    /\ ops \in 0..MaxOps /\ faults \in 0..MaxFaults

IngestInit ==
    /\ blob \in [Shas -> {{}} \cup {{place} : place \in Places}]
    /\ urls = {}
    /\ object = [s \in Shas |-> {}]
    /\ version = {}
    /\ golden = {} /\ cleared = {} /\ cut = {}
    /\ capture \in [Captures -> {"active", "failed"}]
    /\ script = [j \in Captures |-> Off]
    /\ call = [c \in Calls |-> NoCall]
    /\ ops \in 0..MaxOps /\ faults = 0

Operate == ops < MaxOps /\ ops' = ops + 1
Fault == faults < MaxFaults /\ faults' = faults + 1

-----------------------------------------------------------------------------
(***************************************************************************)
(* Blobs and versions: the operators' calls.                               *)
(***************************************************************************)

bucketForRole(role) == IF role = "" THEN "images" ELSE role

\* Mutant: a digest registered again gets the place asked for as well.
CreateBlobAgain(s, place) == blob' = [blob EXCEPT ![s] = @ \cup {place}]

\* The first registration of a digest decides its place.
CreateBlob(s, place) == blob' = [blob EXCEPT ![s] = IF @ = {} THEN {place} ELSE @]

\* Mutant: the URL is signed for the place the request asked for.
SignedAsAsked(s, place) == {place}

\* The URL is signed for the place in the row that came back.
SignedPlace(s, place) == IF blob[s] = {} THEN {place} ELSE blob[s]

createBlob(s) ==
    /\ Operate
    /\ \E role \in Roles \cup {""}, file \in Files :
          LET place == <<bucketForRole(role), file>>
          IN  /\ CreateBlob(s, place)
              /\ urls' = urls \cup ({s} \X SignedPlace(s, place))
    /\ UNCHANGED <<object, version, golden, capture, script, call, cleared, cut, faults>>

\* The holder of a URL puts the object, at any time while it is valid.
PutObject(u) ==
    /\ u \in urls
    /\ object' = [object EXCEPT ![u[1]] = @ \cup {u[2]}]
    /\ urls' = urls \ {u}
    /\ UNCHANGED <<blob, version, golden, capture, script, call, cleared, cut, ops, faults>>

VendorPlace == <<bucketForRole("drivers"), "vendor">>

\* A fetch that an operator asked for streams a pack to the runner's own key,
\* before any row names the place.
VendorPuts(s) ==
    /\ Operate
    /\ object' = [object EXCEPT ![s] = @ \cup {VendorPlace}]
    /\ UNCHANGED <<blob, urls, version, golden, capture, script, call, cleared, cut, faults>>

\* The digest was verified: the row is made, or keeps the place it had.
VendorRegisters(s) ==
    /\ VendorPlace \in object[s]
    /\ CreateBlob(s, VendorPlace)
    /\ UNCHANGED <<urls, object, version, golden, capture, script, call, cleared, cut, ops, faults>>

\* UNIQUE (image_id, version_tag); blob_id refers to a row.
CreateImageVersion(i, s, tag, by) ==
    /\ blob[s] # {}
    /\ \A v \in version : v.image = i => v.tag # tag
    /\ version' = version \cup {[image |-> i, tag |-> tag, sha |-> s, by |-> by]}

createImageVersion(i) ==
    /\ Operate
    /\ \E s \in Shas, tag \in Tags : CreateImageVersion(i, s, tag, None)
    /\ UNCHANGED <<blob, urls, object, golden, capture, script, call, cleared, cut, faults>>

\* PATCH of an image's media, which may take the golden flag away.
updateImageMedia(i) ==
    /\ Operate
    /\ \/ golden' = golden \ {i}
       \/ golden' = golden \cup {i}
    /\ cleared' = cleared \cup {i}
    /\ UNCHANGED <<blob, urls, object, version, capture, script, call, cut, faults>>

-----------------------------------------------------------------------------
(***************************************************************************)
(* A capture: the script of the machine and the three requests it makes.   *)
(***************************************************************************)

\* authJobToken and captureJob: the token of an active capture job.
captureJob(j) == capture[j] = "active"

\* The script starts, or starts again after a reboot; it archives the disk
\* anew.  A request of the earlier run may still be under way.
captureScript(j) ==
    /\ captureJob(j)
    /\ \/ script[j].pc = "off" /\ UNCHANGED faults
       \/ script[j].pc # "off" /\ Fault
    /\ \E s \in Shas : script' = [script EXCEPT ![j] = [Off EXCEPT !.pc = "register", !.sha = s]]
    /\ UNCHANGED <<blob, urls, object, version, golden, capture, call, cleared, cut, ops>>

captureUpload(j) ==
    /\ script[j].pc = "register" /\ captureJob(j)
    /\ LET s == script[j].sha
           place == <<bucketForRole("images"), "capture">>
       IN  /\ CreateBlob(s, place)
           /\ script' = [script EXCEPT ![j] = [@ EXCEPT !.pc = "upload", !.url = SignedPlace(s, place)]]
    /\ UNCHANGED <<urls, object, version, golden, capture, call, cleared, cut, ops, faults>>

ScriptPuts(j) ==
    /\ script[j].pc = "upload"
    /\ object' = [object EXCEPT ![script[j].sha] = @ \cup script[j].url]
    /\ script' = [script EXCEPT ![j].pc = "finish"]
    /\ UNCHANGED <<blob, urls, version, golden, capture, call, cleared, cut, ops, faults>>

ScriptFinishes(j, c) ==
    /\ script[j].pc = "finish" /\ call[c].pc = "idle"
    /\ captureJob(j)
    /\ script' = [script EXCEPT ![j] = [@ EXCEPT !.pc = "wait", !.call = c]]
    /\ call' = [call EXCEPT ![c] = [pc |-> "blob", job |-> j, sha |-> script[j].sha]]
    /\ UNCHANGED <<blob, urls, object, version, golden, capture, cleared, cut, ops, faults>>

\* The script's fatal(), or an operator who cancels: the job ends without
\* capture-complete; the script stops when it is told.
CaptureFails(j) ==
    /\ captureJob(j)
    /\ capture' = [capture EXCEPT ![j] = "failed"]
    /\ script' = [script EXCEPT ![j] = Off]
    /\ UNCHANGED <<blob, urls, object, version, golden, call, cleared, cut, ops, faults>>

GetBlobBySHA(c) ==
    /\ call[c].pc = "blob"
    /\ call' = [call EXCEPT ![c].pc = IF blob[call[c].sha] = {} THEN "refused" ELSE "insert"]
    /\ UNCHANGED <<blob, urls, object, version, golden, capture, script, cleared, cut, ops, faults>>

\* The version of the capture: a tag that is taken is a conflict.
CaptureVersion(c) ==
    /\ call[c].pc = "insert"
    /\ LET j == call[c].job
           t == Target[j]
       IN  \E tag \in IF t.tag = Now THEN TimeTags(j) ELSE {t.tag} :
              \/ /\ CreateImageVersion(t.image, call[c].sha, tag, j)
                 /\ call' = [call EXCEPT ![c].pc = "advance"]
              \/ /\ \E v \in version : v.image = t.image /\ v.tag = tag
                 /\ call' = [call EXCEPT ![c].pc = "refused"]
                 /\ UNCHANGED version
    /\ UNCHANGED <<blob, urls, object, golden, capture, script, cleared, cut, ops, faults>>

\* The error of AdvanceJob is not looked at: the job may have ended.
CaptureAdvance(c) ==
    /\ call[c].pc = "advance"
    /\ capture' = [capture EXCEPT ![call[c].job] = IF @ = "active" THEN "completed" ELSE @]
    /\ call' = [call EXCEPT ![c].pc = "golden"]
    /\ UNCHANGED <<blob, urls, object, version, golden, script, cleared, cut, ops, faults>>

captureComplete(c) ==
    /\ call[c].pc = "golden"
    /\ golden' = golden \cup ({Target[call[c].job].image} \cap Linux)
    /\ call' = [call EXCEPT ![c].pc = "done"]
    /\ UNCHANGED <<blob, urls, object, version, capture, script, cleared, cut, ops, faults>>

\* The answer reaches the script that waits for it; an earlier run is gone.
\* fatal() of a refused script reports the job as failed.
CaptureAnswer(c) ==
    /\ call[c].pc \in {"refused", "done"}
    /\ LET j == call[c].job
           waits == script[j].pc = "wait" /\ script[j].call = c
       IN  /\ script' = IF waits THEN [script EXCEPT ![j] = Off] ELSE script
           /\ capture' = [capture EXCEPT ![j] =
                            IF waits /\ call[c].pc = "refused" /\ @ = "active" THEN "failed" ELSE @]
    /\ call' = [call EXCEPT ![c] = NoCall]
    /\ UNCHANGED <<blob, urls, object, version, golden, cleared, cut, ops, faults>>

\* The connection or the server goes away: the statements that are left
\* fail, and none of them is looked at.
CallCut(c) ==
    /\ call[c].pc \in {"blob", "insert", "advance", "golden"}
    /\ Fault
    /\ cut' = cut \cup {call[c].job}
    /\ call' = [call EXCEPT ![c].pc = "refused"]
    /\ UNCHANGED <<blob, urls, object, version, golden, capture, script, cleared, ops>>

-----------------------------------------------------------------------------
IngestNext ==
    \/ \E s \in Shas : createBlob(s) \/ VendorPuts(s) \/ VendorRegisters(s)
    \/ \E u \in urls : PutObject(u)
    \/ \E i \in Images : createImageVersion(i) \/ updateImageMedia(i)
    \/ \E j \in Captures :
          \/ captureScript(j) \/ captureUpload(j) \/ ScriptPuts(j) \/ CaptureFails(j)
          \/ \E c \in Calls : ScriptFinishes(j, c)
    \/ \E c \in Calls :
          \/ GetBlobBySHA(c) \/ CaptureVersion(c) \/ CaptureAdvance(c) \/ captureComplete(c)
          \/ CaptureAnswer(c) \/ CallCut(c)

-----------------------------------------------------------------------------
(***************************************************************************)
(* Properties                                                              *)
(***************************************************************************)

\* The object of a digest is at the place its row names, for which restore.sh
\* signs a GET.  (The URLs below /blobs carry the key without the bucket; what
\* nginx or a mirror has under it is not modelled.)
Stored(s) == object[s] \cap blob[s] # {}

\* A capture that completed has a version of its image, made by itself, and
\* what its script uploaded is where the row of its digest says, wherever an
\* operator, another capture or a vendor fetch registered that digest before;
\* it has one such version when its tag was named, although a machine that
\* reboots repeats the request; and its Linux image is golden, or will be,
\* unless the request was cut short or an operator has written the image's
\* media.  That the upload precedes capture-complete is the script's doing:
\* the handler does not look whether the object is there.
CaptureIsDeployable ==
    \A j \in Captures : capture[j] = "completed" =>
        LET made == {v \in version : v.by = j}
        IN  /\ \E v \in made : v.image = Target[j].image /\ Stored(v.sha)
            /\ Target[j].tag # Now => Cardinality(made) = 1
            /\ Target[j].image \in Linux =>
                  \/ Target[j].image \in golden \cup cleared
                  \/ j \in cut
                  \/ \E c \in Calls : call[c].job = j /\ call[c].pc = "golden"

\* Not so: CreateBlob, "re-registering the same content returns the existing
\* row, so a retried upload doesn't strand duplicates".  A vendor fetch of a
\* digest that was registered elsewhere has put it under its own key.
UploadsAreFound == \A s \in Shas : blob[s] # {} => object[s] \subseteq blob[s]

\* Not so: CreateImageVersion "links an uploaded blob to an image".  The row
\* of a blob is there before its content is, and an operator may be quick.
VersionHasContent == \A v \in version : object[v.sha] # {}

\* Not so: "A captured Linux image deploys by golden restore from now on".
CapturedIsGolden ==
    \A j \in Captures : capture[j] = "completed" /\ Target[j].image \in Linux =>
        \/ Target[j].image \in golden \cup cleared
        \/ \E c \in Calls : call[c].job = j /\ call[c].pc = "golden"

=============================================================================
