------------------------------- MODULE Ingest -------------------------------
(***************************************************************************)
(* ImageIngest and DriverPacks together.  They share the rows of blobs: a  *)
(* driver pack version refers to one.                                      *)
(***************************************************************************)
EXTENDS ImageIngest, DriverPacks

CONSTANTS
    PackSha,   \* the content of a driver pack
    Starts     \* initial states: active captures, operator calls, machine, packs

ASSUME StartsAssumption ==
    Starts \subseteq [captures : SUBSET Captures, ops : 0..MaxOps, machine : BOOLEAN,
                      packs : SUBSET Packs]

vars == <<ingestVars, driverVars>>

Init ==
    /\ \E s \in Starts :
          /\ capture = [j \in Captures |-> IF j \in s.captures THEN "active" ELSE "failed"]
          /\ ops = s.ops
          /\ active = s.machine
          /\ present = s.packs
          /\ blob = [h \in Shas |-> IF \E p \in s.packs : PackSha[p] = h
                                   THEN {<<bucketForRole("drivers"), "pack">>} ELSE {}]
    /\ IngestInit /\ DriversInit

\* blob_id of a driver pack version refers to a row of blobs.
RegisterPack(p) ==
    /\ blob[PackSha[p]] # {}
    /\ createDriverPack(p)
    /\ Operate
    /\ UNCHANGED <<blob, urls, object, version, golden, capture, script, call, cleared, cut, faults>>

\* The same for the runner, after the row of its blob.
VendorRegistersPack(p) ==
    /\ VendorPlace \in object[PackSha[p]] /\ blob[PackSha[p]] # {}
    /\ runVendorFetch(p)
    /\ UNCHANGED ingestVars

UnregisterPack(p) ==
    /\ deleteDriverPackVersion(p)
    /\ Operate
    /\ UNCHANGED <<blob, urls, object, version, golden, capture, script, call, cleared, cut, faults>>

Next ==
    \/ IngestNext /\ UNCHANGED driverVars
    \/ DriversNext /\ UNCHANGED ingestVars
    \/ \E p \in Packs : RegisterPack(p) \/ VendorRegistersPack(p) \/ UnregisterPack(p)

Spec == Init /\ [][Next]_vars

-----------------------------------------------------------------------------
\* Types of the rows, scripts and requests of captures and drivers; a digest
\* has one place, whoever registers it and however often (CreateBlob).
TypeOK == IngestTypeOK /\ DriversTypeOK

=============================================================================
