---------------------------- MODULE DriverPacks ----------------------------
(***************************************************************************)
(* Driver packs: the rules that match them with hardware, the plan that a  *)
(* WinPE machine asks for with the hardware it found, and drivers.zip,     *)
(* which it asks for later and which has to remember that hardware.        *)
(*                                                                         *)
(* Names are model values: normalize (case and blanks) has been applied.   *)
(***************************************************************************)
EXTENDS Naturals, FiniteSets, FiniteSetsExt

CONSTANTS
    Packs,       \* ids of driver_pack_versions
    PackOf,      \* a pack: family, os (version), rules, rank (vendor, model, tag,
                 \* and its place in ORDER BY pv.id, which the stable sort keeps)
    Hardware,    \* what a machine may report: vendor, product, board, pci
    Unknown,     \* hardware with every field empty
    Systems,     \* OS of an image: family and version
    Begins,      \* pairs of a proper prefix and a name that starts with it
    Requests,    \* plan and drivers.zip requests in flight
    MaxChanges   \* bound: plans, and changes of packs, images and attributes

ASSUME PacksAssumption ==
    /\ IsFiniteSet(Packs) /\ IsFiniteSet(Requests)
    /\ \A p \in Packs : PackOf[p].rank \in Nat
    /\ \A p, q \in Packs : p # q => PackOf[p].rank # PackOf[q].rank
    /\ Unknown \notin Hardware
    /\ Systems # {}
    /\ MaxChanges \in Nat

Empty == "empty"   \* the empty string
NoPack == "nopack"

VARIABLES
    active,    \* the job of the machine is active and so is its token
    present,   \* rows of driver_pack_versions
    hardware,  \* machines.attributes.hardware of the machine
    system,    \* OS of the image of its active job
    request,
    epoch,     \* history: number of changes so far
    planned    \* history: the last plan that was answered

driverVars == <<active, present, hardware, system, request, epoch, planned>>

Idle == [kind |-> "plan", pc |-> "idle", hw |-> Unknown, sys |-> CHOOSE s \in Systems : TRUE,
         epoch |-> 0, pack |-> NoPack]

Stale == MaxChanges + 1   \* what a plan saw has changed, or was not recorded
Change == epoch < MaxChanges /\ epoch' = epoch + 1

Reports == Hardware \cup {Unknown}
Answers == Packs \cup {NoPack}
Asked == [kind : {"plan", "drivers"}, pc : {"idle", "record", "match", "served"}, hw : Reports,
          sys : Systems, epoch : 0..Stale, pack : Answers]

DriversTypeOK ==
    /\ active \in BOOLEAN /\ present \subseteq Packs
    /\ hardware \in Reports /\ system \in Systems
    /\ request \in [Requests -> Asked]
    /\ epoch \in 0..MaxChanges
    /\ planned \in [epoch : 0..Stale, hw : Reports, pack : Answers]

DriversInit ==
    /\ active \in BOOLEAN
    /\ present \in SUBSET Packs
    /\ hardware = Unknown
    /\ system = CHOOSE s \in Systems : TRUE
    /\ request = [r \in Requests |-> Idle]
    /\ epoch = 0
    /\ planned = [epoch |-> Stale, pack |-> NoPack, hw |-> Unknown]

-----------------------------------------------------------------------------
(***************************************************************************)
(* The matcher.                                                            *)
(***************************************************************************)

HasPrefix(name, prefix) == name = prefix \/ <<prefix, name>> \in Begins

osCompatible(p, sys) ==
    /\ PackOf[p].family = sys.family
    /\ PackOf[p].os \in {Empty, "any"} \/ HasPrefix(sys.version, PackOf[p].os)

tierNoMatch == 99

\* The tier of a rule, lowest first.  An empty field of the hardware matches
\* nothing; an os-version rule matches whatever the vendor.
evalRule(rule, hw, sys) ==
    CASE rule.type = "pci-vid-did" /\ rule.value \in hw.pci -> 1
      [] rule.type = "dmi-product" /\ hw.product # Empty /\ rule.value = hw.product -> 2
      [] rule.type = "dmi-product-prefix" /\ hw.product # Empty
            /\ HasPrefix(hw.product, rule.value) -> 2
      [] rule.type = "dmi-baseboard" /\ hw.board # Empty /\ rule.value = hw.board -> 3
      [] rule.type = "os-version" /\ sys.version # Empty
            /\ HasPrefix(sys.version, rule.value) -> 4
      [] rule.type = "dmi-vendor" /\ hw.vendor # Empty /\ rule.value = hw.vendor -> 5
      [] OTHER -> tierNoMatch

Tier(p, hw, sys) ==
    Min({evalRule(rule, hw, sys) : rule \in PackOf[p].rules} \cup {tierNoMatch})

\* The order of the packs that match: by tier, then by name.
Precedes(p, q, hw, sys) ==
    \/ Tier(p, hw, sys) < Tier(q, hw, sys)
    \/ Tier(p, hw, sys) = Tier(q, hw, sys) /\ PackOf[p].rank < PackOf[q].rank

\* The packs that match, sorted, of which the first is the one that counts.
Select(hw, sys, candidates) ==
    LET matched == {p \in candidates : osCompatible(p, sys) /\ Tier(p, hw, sys) # tierNoMatch}
    IN  IF matched = {} THEN NoPack
        ELSE CHOOSE p \in matched : \A q \in matched : ~Precedes(q, p, hw, sys)

\* One SELECT over every pack version of the OS family, then the matcher.
MatchDriverPacks(hw, sys) == Select(hw, sys, {p \in present : PackOf[p].family = sys.family})

-----------------------------------------------------------------------------
(***************************************************************************)
(* Packs, images and attributes: the operators' calls.                     *)
(***************************************************************************)

\* The pack, the row of its version and its rules: one transaction.
CreateDriverPackVersion(p) ==
    /\ p \notin present
    /\ present' = present \cup {p}
    /\ Change
    /\ UNCHANGED <<active, hardware, system, request, planned>>

validRuleTypes == {"pci-vid-did", "dmi-product", "dmi-baseboard", "dmi-vendor", "os-version"}

\* An operator's pack has at least one rule, none of them a prefix rule.
createDriverPack(p) ==
    /\ PackOf[p].rules # {}
    /\ \A rule \in PackOf[p].rules : rule.type \in validRuleTypes
    /\ CreateDriverPackVersion(p)

\* A fetched pack has the machine types of its catalogue entry as prefixes, or
\* its model.
runVendorFetch(p) ==
    /\ \/ \A rule \in PackOf[p].rules : rule.type = "dmi-product-prefix"
       \/ \E rule \in PackOf[p].rules : rule.type = "dmi-product" /\ PackOf[p].rules = {rule}
    /\ CreateDriverPackVersion(p)

deleteDriverPackVersion(p) ==
    /\ p \in present
    /\ present' = present \ {p}
    /\ Change
    /\ UNCHANGED <<active, hardware, system, request, planned>>

\* Another image for the machine: its profile is edited, or its job is new.
ImageChanges ==
    /\ active /\ system' \in Systems \ {system}
    /\ Change
    /\ UNCHANGED <<active, present, hardware, request, planned>>

\* PATCH of a machine's attributes replaces them, the hardware included.
AttributesReplaced ==
    /\ hardware # Unknown
    /\ hardware' = Unknown
    /\ Change
    /\ UNCHANGED <<active, present, system, request, planned>>

-----------------------------------------------------------------------------
(***************************************************************************)
(* The plan and drivers.zip.                                               *)
(***************************************************************************)

\* authJobToken: a token counts while its job is active.
MachineJobEnds ==
    /\ active
    /\ active' = FALSE
    /\ UNCHANGED <<present, hardware, system, request, epoch, planned>>

\* POST /plan: the bundle gives the OS, the body the hardware.
winpePlan(r) ==
    /\ active /\ request[r].pc = "idle"
    /\ \E hw \in Hardware :
          request' = [request EXCEPT ![r] =
                        [Idle EXCEPT !.kind = "plan", !.pc = "record", !.hw = hw, !.sys = system,
                                     !.epoch = epoch]]
    /\ UNCHANGED <<active, present, hardware, system, epoch, planned>>

\* Mutant: the inventory is filled in once, as vendor and model are.
FilledOnce(old, new) == IF old = Unknown THEN new ELSE old

Inventory(old, new) == new

RecordMachineInventory(r) ==
    /\ request[r].pc = "record"
    /\ hardware' = Inventory(hardware, request[r].hw)
    /\ Change
    /\ request' = [request EXCEPT ![r].pc = "match",
                                  ![r].epoch = IF @ = epoch THEN epoch' ELSE Stale]
    /\ UNCHANGED <<active, present, system, planned>>

\* "Inventory is best-effort; the deployment must not fail on it."
InventoryLost(r) ==
    /\ request[r].pc = "record"
    /\ Change
    /\ request' = [request EXCEPT ![r].pc = "match", ![r].epoch = Stale]
    /\ UNCHANGED <<active, present, hardware, system, planned>>

PlanAnswered(r) ==
    /\ request[r].kind = "plan" /\ request[r].pc = "match"
    /\ planned' = [epoch |-> request[r].epoch, hw |-> request[r].hw,
                   pack |-> MatchDriverPacks(request[r].hw, request[r].sys)]
    /\ request' = [request EXCEPT ![r] = Idle]
    /\ UNCHANGED <<active, present, hardware, system, epoch>>

\* GET /drivers.zip: the bundle gives the OS and the hardware last recorded.
winpeDrivers(r) ==
    /\ active /\ request[r].pc = "idle"
    /\ request' = [request EXCEPT ![r] = [Idle EXCEPT !.kind = "drivers", !.pc = "match",
                                            !.hw = hardware, !.sys = system, !.epoch = epoch]]
    /\ UNCHANGED <<active, present, hardware, system, epoch, planned>>

DriversAnswered(r) ==
    /\ request[r].kind = "drivers" /\ request[r].pc = "match"
    /\ request' = [request EXCEPT ![r].pc = "served",
                                  ![r].pack = MatchDriverPacks(request[r].hw, request[r].sys)]
    /\ UNCHANGED <<active, present, hardware, system, epoch, planned>>

DriversDone(r) ==
    /\ request[r].pc = "served"
    /\ request' = [request EXCEPT ![r] = Idle]
    /\ UNCHANGED <<active, present, hardware, system, epoch, planned>>

-----------------------------------------------------------------------------
DriversNext ==
    \/ ImageChanges \/ AttributesReplaced \/ MachineJobEnds
    \/ \E r \in Requests :
          \/ winpePlan(r) \/ RecordMachineInventory(r) \/ InventoryLost(r) \/ PlanAnswered(r)
          \/ winpeDrivers(r) \/ DriversAnswered(r) \/ DriversDone(r)

-----------------------------------------------------------------------------
(***************************************************************************)
(* Properties                                                              *)
(***************************************************************************)

NamesDevice(p, hw) == \E rule \in PackOf[p].rules : rule.type = "pci-vid-did" /\ rule.value \in hw.pci

\* When nothing changed since the machine's plan, drivers.zip is the pack
\* that the plan put first, although it is found again from the hardware the
\* plan left in the machine's attributes; and it is a pack for a device of
\* the machine whenever there is one for its OS.  (winpeDrivers: "Redirects
\* to the most specific matched driver pack for the hardware last reported
\* via /plan".)
DriversFollowPlan ==
    \A r \in Requests :
        (/\ request[r].pc = "served"
         /\ request[r].epoch = planned.epoch /\ epoch = planned.epoch)
        => /\ request[r].pack = planned.pack
           /\ (\E p \in present : osCompatible(p, system) /\ NamesDevice(p, planned.hw))
                 => NamesDevice(request[r].pack, planned.hw)

=============================================================================
