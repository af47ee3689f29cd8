---------------------------- MODULE IngestProofs ----------------------------
(***************************************************************************)
(* Ingest, for any number of blobs, images, captures, requests and driver  *)
(* packs: a digest has one place, a completed capture can be deployed, and *)
(* drivers.zip is what the plan announced.                                 *)
(***************************************************************************)
EXTENDS Ingest, FiniteSetTheorems, WellFoundedInduction, TLAPS

-----------------------------------------------------------------------------
(***************************************************************************)
(* The matcher.                                                            *)
(***************************************************************************)

Tiers == {1, 2, 3, 4, 5, tierNoMatch}

\* A set of numbers has a least one.
LEMMA LeastNat ==
    ASSUME NEW T \in SUBSET Nat, T # {}
    PROVE  \E x \in T : \A y \in T : x <= y
<1> DEFINE R == OpToRel(<, Nat)
<1>1. IsWellFoundedOn(R, Nat)
  BY NatLessThanWellFounded
<1>2. \A x, y \in Nat : <<x, y>> \in R <=> x < y
  BY DEF OpToRel
<1> HIDE DEF R
<1>3. PICK x \in T : \A y \in T : ~(<<y, x>> \in R)
  BY <1>1, WFMin
<1>4. ASSUME NEW y \in T PROVE x <= y
  <2>1. x \in Nat /\ y \in Nat
    OBVIOUS
  <2>2. ~(<<y, x>> \in R)
    BY <1>3
  <2>3. ~(y < x)
    BY <1>2, <2>1, <2>2
  <2> QED BY <2>1, <2>3
<1> QED BY <1>4

\* The rule of a device is tier 1 and no other rule is (evalRule).
LEMMA RuleTier ==
    ASSUME NEW rule, NEW hw, NEW sys
    PROVE  /\ evalRule(rule, hw, sys) \in Tiers
           /\ evalRule(rule, hw, sys) = 1 <=> (rule.type = "pci-vid-did" /\ rule.value \in hw.pci)
BY DEF evalRule, Tiers, tierNoMatch

\* The tier of a pack is that of its most specific rule (Select).
LEMMA TierFacts ==
    ASSUME NEW p, NEW hw, NEW sys
    PROVE  /\ Tier(p, hw, sys) \in Tiers
           /\ Tier(p, hw, sys) = 1 <=> NamesDevice(p, hw)
<1> DEFINE T == {evalRule(rule, hw, sys) : rule \in PackOf[p].rules} \cup {tierNoMatch}
<1>1. T \subseteq Tiers /\ tierNoMatch \in T
  BY RuleTier DEF Tiers
<1>2. 1 \in T <=> NamesDevice(p, hw)
  BY RuleTier DEF NamesDevice, tierNoMatch
<1>3. Tier(p, hw, sys) = CHOOSE x \in T : \A y \in T : x =< y
  BY DEF Tier, Min
<1> HIDE DEF T
<1>4. \E x \in T : \A y \in T : x =< y
  <2>1. T \in SUBSET Nat /\ T # {}
    BY <1>1 DEF Tiers, tierNoMatch
  <2> QED BY <2>1, LeastNat
<1>5. Tier(p, hw, sys) \in T /\ \A y \in T : Tier(p, hw, sys) =< y
  BY <1>3, <1>4
<1>6. Tier(p, hw, sys) \in Tiers
  BY <1>1, <1>5
<1>7. Tier(p, hw, sys) = 1 <=> 1 \in T
  <2>1. \A y \in Tiers : y =< 1 => y = 1
    BY DEF Tiers, tierNoMatch
  <2> QED BY <1>5, <1>6, <2>1
<1> QED BY <1>2, <1>6, <1>7

\* Of the packs that match, Select takes one of the lowest tier.
LEMMA SelectFacts ==
    ASSUME NEW hw, NEW sys, NEW candidates \in SUBSET Packs,
           NEW p \in candidates, osCompatible(p, sys), Tier(p, hw, sys) # tierNoMatch
    PROVE  /\ Select(hw, sys, candidates) \in candidates
           /\ Tier(Select(hw, sys, candidates), hw, sys) <= Tier(p, hw, sys)
<1> DEFINE tier(x) == Tier(x, hw, sys)
           M == {x \in candidates : osCompatible(x, sys) /\ tier(x) # tierNoMatch}
           K == {tier(x) : x \in M}
<1>1. p \in M /\ M \subseteq Packs /\ M \subseteq candidates
  OBVIOUS
<1>2. Select(hw, sys, candidates) = CHOOSE x \in M : \A y \in M : ~Precedes(y, x, hw, sys)
  BY <1>1 DEF Select
<1>3. \A x : tier(x) \in Nat
  BY TierFacts DEF Tiers, tierNoMatch
<1>4. \A x \in M : PackOf[x].rank \in Nat
  BY <1>1, PacksAssumption
<1>5. \A x, y : Precedes(x, y, hw, sys) <=> \/ tier(x) < tier(y)
                                          \/ (tier(x) = tier(y) /\ PackOf[x].rank < PackOf[y].rank)
  BY DEF Precedes
<1> HIDE DEF tier, M
<1>6. PICK k \in K : \A l \in K : k <= l
  <2>1. K \in SUBSET Nat /\ K # {}
    BY <1>1, <1>3
  <2> HIDE DEF K
  <2> QED BY <2>1, LeastNat
<1> DEFINE F == {x \in M : tier(x) = k}
           L == {PackOf[x].rank : x \in F}
<1>7. PICK r \in L : \A l \in L : r <= l
  <2>1. L \in SUBSET Nat /\ L # {}
    BY <1>4, <1>6
  <2> HIDE DEF L
  <2> QED BY <2>1, LeastNat
<1>8. PICK x \in F : PackOf[x].rank = r
  BY <1>7
<1>9. \A y \in M : tier(x) <= tier(y)
  BY <1>6, <1>8
<1>10. \A y \in M : tier(y) = tier(x) => PackOf[x].rank <= PackOf[y].rank
  BY <1>7, <1>8
<1>11. x \in M
  BY <1>8
<1>12. \A y \in M : ~Precedes(y, x, hw, sys)
  BY <1>3, <1>4, <1>5, <1>9, <1>10, <1>11
<1> DEFINE s == Select(hw, sys, candidates)
<1>13. s \in M /\ \A y \in M : ~Precedes(y, s, hw, sys)
  BY <1>2, <1>11, <1>12
<1> HIDE DEF s
<1>14. tier(s) <= tier(p)
  BY <1>1, <1>3, <1>5, <1>13
<1> QED BY <1>1, <1>13, <1>14 DEF s, tier

\* What is found is a pack, and one for a device of the machine when there is
\* one for its OS.
LEMMA MatchFacts ==
    ASSUME present \subseteq Packs, NEW hw, NEW sys
    PROVE  /\ MatchDriverPacks(hw, sys) \in Packs \cup {NoPack}
           /\ (\E p \in present : osCompatible(p, sys) /\ NamesDevice(p, hw))
                 => NamesDevice(MatchDriverPacks(hw, sys), hw)
<1> DEFINE C == {p \in present : PackOf[p].family = sys.family}
           m == MatchDriverPacks(hw, sys)
<1>1. C \in SUBSET Packs /\ m = Select(hw, sys, C)
  BY DEF MatchDriverPacks
<1>2. ASSUME NEW p \in present, osCompatible(p, sys), Tier(p, hw, sys) # tierNoMatch
      PROVE  m \in Packs /\ Tier(m, hw, sys) <= Tier(p, hw, sys)
  <2>1. p \in C
    BY <1>2 DEF osCompatible
  <2> HIDE DEF C, m
  <2> QED BY <1>1, <1>2, <2>1, SelectFacts
<1>3. (\A p \in C : ~(osCompatible(p, sys) /\ Tier(p, hw, sys) # tierNoMatch)) => m = NoPack
  BY <1>1 DEF Select
<1>4. m \in Packs \cup {NoPack}
  <2> HIDE DEF m
  <2> QED BY <1>2, <1>3
<1>5. ASSUME NEW p \in present, osCompatible(p, sys), NamesDevice(p, hw)
      PROVE  NamesDevice(m, hw)
  <2>1. Tier(p, hw, sys) = 1
    BY <1>5, TierFacts
  <2>2. Tier(m, hw, sys) <= 1
    BY <1>2, <1>5, <2>1 DEF tierNoMatch
  <2>3. Tier(m, hw, sys) = 1
    BY <2>2, TierFacts DEF Tiers, tierNoMatch
  <2> HIDE DEF m
  <2> QED BY <2>3, TierFacts
<1> QED BY <1>4, <1>5

-----------------------------------------------------------------------------
(***************************************************************************)
(* The plan and drivers.zip.                                               *)
(***************************************************************************)

\* A request that saw the present epoch read what is there now, and was
\* answered with what is found now.
Current(r) ==
    LET q == request[r]
    IN  /\ q.epoch <= epoch \/ q.epoch = Stale
        /\ q.epoch = epoch /\ q.pc # "idle" => q.sys = system
        /\ q.epoch = epoch /\ q.pc \in {"match", "served"} => q.hw = hardware
        /\ q.epoch = epoch /\ q.pc = "served" => q.pack = MatchDriverPacks(hardware, system)

\* So did the last plan.
PlanCurrent ==
    /\ planned.epoch <= epoch \/ planned.epoch = Stale
    /\ planned.epoch = epoch =>
          planned.hw = hardware /\ planned.pack = MatchDriverPacks(hardware, system)

DriversInv == DriversTypeOK /\ (\A r \in Requests : Current(r)) /\ PlanCurrent

LEMMA IdleAsked == Idle \in Asked /\ Idle.pc = "idle" /\ Idle.epoch = 0 /\ Idle.pack = NoPack
BY PacksAssumption DEF Idle, Asked, Reports, Answers, Stale

\* Before the first plan nothing was answered.
LEMMA InitDrivers == DriversInit => DriversInv
<1> SUFFICES ASSUME DriversInit PROVE DriversInv
  OBVIOUS
<1>1. MaxChanges \in Nat /\ Stale \in Nat /\ Stale = MaxChanges + 1
  BY PacksAssumption DEF Stale
<1>2. DriversTypeOK
  BY <1>1, IdleAsked, PacksAssumption DEF DriversInit, DriversTypeOK, Reports, Answers
<1>3. \A r \in Requests : request[r] = Idle
  BY DEF DriversInit
<1>4. \A r \in Requests : Current(r)
  BY <1>3, IdleAsked DEF Current, DriversInit
<1>5. PlanCurrent
  BY <1>1 DEF DriversInit, PlanCurrent
<1> QED BY <1>2, <1>4, <1>5 DEF DriversInv

\* A change: what was read before is not of the present any more.
LEMMA Changed ==
    ASSUME DriversInv, Change
    PROVE  /\ epoch' \in 0..MaxChanges
           /\ \A r \in Requests : request'[r] = request[r] => Current(r)'
           /\ planned' = planned => PlanCurrent'
<1>1. /\ MaxChanges \in Nat /\ Stale = MaxChanges + 1 /\ epoch \in 0..MaxChanges
      /\ epoch' = epoch + 1 /\ epoch' <= MaxChanges
  BY PacksAssumption DEF DriversInv, DriversTypeOK, Change, Stale
<1>2. ASSUME NEW r \in Requests, request'[r] = request[r] PROVE Current(r)'
  <2>1. request[r].epoch \in 0..Stale /\ (request[r].epoch <= epoch \/ request[r].epoch = Stale)
    BY DEF DriversInv, DriversTypeOK, Asked, Current
  <2>2. request'[r].epoch # epoch' /\ (request'[r].epoch <= epoch' \/ request'[r].epoch = Stale)
    BY <1>1, <1>2, <2>1
  <2> QED BY <2>2 DEF Current, Stale
<1>3. ASSUME planned' = planned PROVE PlanCurrent'
  <2>1. planned.epoch \in 0..Stale /\ (planned.epoch <= epoch \/ planned.epoch = Stale)
    BY DEF DriversInv, DriversTypeOK, PlanCurrent
  <2>2. planned'.epoch # epoch' /\ (planned'.epoch <= epoch' \/ planned'.epoch = Stale)
    BY <1>1, <1>3, <2>1
  <2> QED BY <2>2 DEF PlanCurrent, Stale
<1> QED BY <1>1, <1>2, <1>3

\* No change: what was current and was not touched still is.
LEMMA Unchanged ==
    ASSUME DriversInv, UNCHANGED <<epoch, present, hardware, system>>
    PROVE  /\ \A r \in Requests : request'[r] = request[r] => Current(r)'
           /\ planned' = planned => PlanCurrent'
<1>1. ASSUME NEW r \in Requests, request'[r] = request[r] PROVE Current(r)'
  <2>1. Current(r)
    BY DEF DriversInv
  <2> QED BY <1>1, <2>1 DEF Current, MatchDriverPacks
<1>2. ASSUME planned' = planned PROVE PlanCurrent'
  <2>1. PlanCurrent
    BY DEF DriversInv
  <2> QED BY <1>2, <2>1 DEF PlanCurrent, MatchDriverPacks
<1> QED BY <1>1, <1>2

\* Operators change packs, the machine's image or its attributes.
LEMMA ChangesKeep ==
    ASSUME DriversInv, \/ ImageChanges \/ AttributesReplaced
                       \/ \E p \in Packs : createDriverPack(p) \/ runVendorFetch(p) \/ deleteDriverPackVersion(p)
    PROVE  DriversInv'
<1>1. Change /\ UNCHANGED <<request, planned, active>>
  BY DEF ImageChanges, AttributesReplaced, createDriverPack, runVendorFetch,
         CreateDriverPackVersion, deleteDriverPackVersion
<1>2. present' \subseteq Packs /\ hardware' \in Reports /\ system' \in Systems
  BY DEF DriversInv, DriversTypeOK, Reports, ImageChanges, AttributesReplaced, createDriverPack,
         runVendorFetch, CreateDriverPackVersion, deleteDriverPackVersion
<1>3. epoch' \in 0..MaxChanges /\ (\A r \in Requests : Current(r)') /\ PlanCurrent'
  BY <1>1, Changed
<1>4. DriversTypeOK'
  BY <1>1, <1>2, <1>3 DEF DriversInv, DriversTypeOK, Stale
<1> QED BY <1>3, <1>4 DEF DriversInv

\* The machine's job ends.
LEMMA JobEndKeeps ==
    ASSUME DriversInv, MachineJobEnds
    PROVE  DriversInv'
<1>1. DriversTypeOK'
  BY DEF DriversInv, DriversTypeOK, MachineJobEnds, Stale
<1>2. (\A r \in Requests : Current(r)') /\ PlanCurrent'
  BY Unchanged DEF MachineJobEnds
<1> QED BY <1>1, <1>2 DEF DriversInv

\* A request is answered, or starts: nothing else changes.
LEMMA RequestKeeps ==
    ASSUME DriversInv, NEW r \in Requests, NEW q \in Asked, request' = [request EXCEPT ![r] = q],
           UNCHANGED <<active, present, hardware, system, epoch>>,
           Current(r)', PlanCurrent', planned' \in [epoch : 0..Stale, hw : Reports, pack : Answers]
    PROVE  DriversInv'
<1>1. request' \in [Requests -> Asked] /\ \A o \in Requests : o # r => request'[o] = request[o]
  BY DEF DriversInv, DriversTypeOK
<1>2. DriversTypeOK'
  BY <1>1 DEF DriversInv, DriversTypeOK, Stale
<1>3. \A o \in Requests : Current(o)'
  BY <1>1, Unchanged
<1> QED BY <1>2, <1>3 DEF DriversInv

\* A plan or drivers.zip is asked for.
LEMMA AskKeeps ==
    ASSUME DriversInv, NEW r \in Requests, winpePlan(r) \/ winpeDrivers(r)
    PROVE  DriversInv'
<1>1. /\ UNCHANGED <<active, present, hardware, system, epoch, planned>>
      /\ request \in [Requests -> Asked] /\ epoch \in 0..MaxChanges /\ epoch \in 0..Stale
      /\ hardware \in Reports /\ system \in Systems
  <2>1. UNCHANGED <<active, present, hardware, system, epoch, planned>>
    BY DEF winpePlan, winpeDrivers
  <2>2. /\ request \in [Requests -> Asked] /\ epoch \in 0..MaxChanges
        /\ hardware \in Reports /\ system \in Systems
    BY DEF DriversInv, DriversTypeOK
  <2> QED BY <2>1, <2>2, PacksAssumption DEF Stale
<1>2. PICK q \in Asked : /\ request' = [request EXCEPT ![r] = q]
                         /\ q.epoch = epoch /\ q.sys = system /\ q.pc # "served"
                         /\ q.pc = "match" => q.hw = hardware
  <2>1. CASE winpePlan(r)
    <3>1. PICK hw \in Hardware : request' = [request EXCEPT ![r] =
                [Idle EXCEPT !.kind = "plan", !.pc = "record", !.hw = hw, !.sys = system,
                             !.epoch = epoch]]
      BY <2>1 DEF winpePlan
    <3> DEFINE q == [Idle EXCEPT !.kind = "plan", !.pc = "record", !.hw = hw, !.sys = system,
                                 !.epoch = epoch]
    <3>2. q \in Asked /\ q.epoch = epoch /\ q.sys = system /\ q.pc = "record"
      BY <1>1, IdleAsked DEF Asked, Reports
    <3> HIDE DEF q
    <3>3. request' = [request EXCEPT ![r] = q]
      BY <3>1 DEF q
    <3> QED BY <3>2, <3>3
  <2>2. CASE winpeDrivers(r)
    <3> DEFINE q == [Idle EXCEPT !.kind = "drivers", !.pc = "match",
                                 !.hw = hardware, !.sys = system, !.epoch = epoch]
    <3>1. q \in Asked /\ q.epoch = epoch /\ q.sys = system /\ q.pc = "match" /\ q.hw = hardware
      BY <1>1, IdleAsked DEF Asked
    <3>2. request' = [request EXCEPT ![r] = q]
      BY <2>2 DEF winpeDrivers
    <3> HIDE DEF q
    <3> QED BY <3>1, <3>2
  <2> QED BY <2>1, <2>2
<1>3. request'[r] = q
  BY <1>1, <1>2
<1>4. Current(r)'
  <2>1. epoch <= epoch
    BY <1>1
  <2> QED BY <1>1, <1>2, <1>3, <2>1 DEF Current
<1>5. PlanCurrent'
  BY <1>1, Unchanged
<1>6. planned' \in [epoch : 0..Stale, hw : Reports, pack : Answers]
  BY <1>1 DEF DriversInv, DriversTypeOK
<1> QED BY <1>1, <1>2, <1>4, <1>5, <1>6, RequestKeeps

\* The inventory is recorded, or lost: a plan that is not is stale.
LEMMA RecordKeeps ==
    ASSUME DriversInv, NEW r \in Requests, RecordMachineInventory(r) \/ InventoryLost(r)
    PROVE  DriversInv'
<1> DEFINE o == request[r]
<1>1. /\ o \in Asked /\ o.pc = "record" /\ Change /\ UNCHANGED <<active, present, system, planned>>
      /\ request \in [Requests -> Asked]
  BY DEF DriversInv, DriversTypeOK, RecordMachineInventory, InventoryLost
<1>2. epoch' \in 0..MaxChanges /\ PlanCurrent'
  BY <1>1, Changed
<1>3. MaxChanges \in Nat /\ Stale = MaxChanges + 1 /\ epoch' # Stale /\ epoch' <= Stale
      /\ epoch' \in 0..Stale /\ Stale \in 0..Stale
  BY <1>2, PacksAssumption DEF Stale
<1>4. ASSUME NEW k \in 0..Stale, request' = [request EXCEPT ![r] = [o EXCEPT !.pc = "match", !.epoch = k]],
             k = Stale \/ (k = epoch' /\ o.epoch = epoch /\ hardware' = o.hw),
             hardware' \in Reports
      PROVE  DriversInv'
  <2> DEFINE q == [o EXCEPT !.pc = "match", !.epoch = k]
  <2>1. /\ q \in Asked /\ q.pc = "match" /\ q.epoch = k /\ q.sys = o.sys /\ q.hw = o.hw
    BY <1>1, <1>4 DEF Asked
  <2> HIDE DEF q
  <2>2. request' = [request EXCEPT ![r] = q]
    BY <1>4 DEF q
  <2>3. request' \in [Requests -> Asked] /\ request'[r] = q
        /\ \A x \in Requests : x # r => request'[x] = request[x]
    BY <1>1, <2>1, <2>2
  <2>4. DriversTypeOK'
    BY <1>1, <1>2, <1>4, <2>3 DEF DriversInv, DriversTypeOK, Stale
  <2>5. o.epoch = epoch => o.sys = system
    BY <1>1 DEF DriversInv, Current
  <2>6. Current(r)'
    BY <1>1, <1>3, <1>4, <2>1, <2>3, <2>5 DEF Current, Stale
  <2>7. \A x \in Requests : x # r => Current(x)'
    BY <1>1, <2>3, Changed
  <2> QED BY <1>2, <2>4, <2>6, <2>7 DEF DriversInv
<1>5. CASE RecordMachineInventory(r)
  <2> DEFINE k == IF o.epoch = epoch THEN epoch' ELSE Stale
  <2>1. hardware' = o.hw /\ o.hw \in Reports
    BY <1>1, <1>5 DEF RecordMachineInventory, Inventory, Asked
  <2>2. request' = [request EXCEPT ![r] = [o EXCEPT !.pc = "match", !.epoch = k]]
    BY <1>1, <1>5 DEF RecordMachineInventory, Asked
  <2>3. k \in 0..Stale /\ (k = Stale \/ (k = epoch' /\ o.epoch = epoch))
    BY <1>3
  <2> HIDE DEF k
  <2> QED BY <1>4, <2>1, <2>2, <2>3
<1>6. CASE InventoryLost(r)
  <2>1. hardware' \in Reports
    BY <1>6 DEF DriversInv, DriversTypeOK, InventoryLost
  <2>2. request' = [request EXCEPT ![r] = [o EXCEPT !.pc = "match", !.epoch = Stale]]
    BY <1>1, <1>6 DEF InventoryLost, Asked
  <2> QED BY <1>3, <1>4, <2>1, <2>2
<1> QED BY <1>5, <1>6

\* A plan is answered with what is found now.
LEMMA PlanKeeps ==
    ASSUME DriversInv, NEW r \in Requests, PlanAnswered(r)
    PROVE  DriversInv'
<1> DEFINE o == request[r]
           m == MatchDriverPacks(o.hw, o.sys)
<1>1. /\ o \in Asked /\ o.pc = "match" /\ request \in [Requests -> Asked]
      /\ Current(r) /\ present \subseteq Packs
  BY DEF DriversInv, DriversTypeOK, PlanAnswered
<1>2. /\ UNCHANGED <<active, present, hardware, system, epoch>>
      /\ request' = [request EXCEPT ![r] = Idle]
      /\ planned' = [epoch |-> o.epoch, hw |-> o.hw, pack |-> m]
  BY DEF PlanAnswered
<1>3. m \in Answers
  BY <1>1, MatchFacts DEF Answers
<1>4. o.epoch \in 0..Stale /\ o.hw \in Reports
  BY <1>1 DEF Asked
<1>5. o.epoch = epoch => o.hw = hardware /\ m = MatchDriverPacks(hardware, system)
  BY <1>1 DEF Current
<1>6. MatchDriverPacks(hardware, system)' = MatchDriverPacks(hardware, system)
  BY <1>2 DEF MatchDriverPacks
<1> HIDE DEF m
<1>7. planned' \in [epoch : 0..Stale, hw : Reports, pack : Answers]
  BY <1>2, <1>3, <1>4
<1>8. PlanCurrent'
  <2>1. o.epoch <= epoch \/ o.epoch = Stale
    BY <1>1 DEF Current
  <2> QED BY <1>2, <1>5, <1>6, <2>1 DEF PlanCurrent, Stale
<1>9. Current(r)'
  <2>1. request'[r] = Idle
    BY <1>1, <1>2
  <2>2. 0 <= epoch'
    BY <1>2 DEF DriversInv, DriversTypeOK
  <2> QED BY <2>1, <2>2, IdleAsked DEF Current
<1> QED BY <1>2, <1>7, <1>8, <1>9, IdleAsked, RequestKeeps

\* drivers.zip is answered with what is found now, or is done with.
LEMMA DriversKeep ==
    ASSUME DriversInv, NEW r \in Requests, DriversAnswered(r) \/ DriversDone(r)
    PROVE  DriversInv'
<1> DEFINE o == request[r]
           m == MatchDriverPacks(o.hw, o.sys)
<1>1. /\ o \in Asked /\ request \in [Requests -> Asked] /\ Current(r) /\ present \subseteq Packs
  BY DEF DriversInv, DriversTypeOK
<1>2. UNCHANGED <<active, present, hardware, system, epoch, planned>>
  BY DEF DriversAnswered, DriversDone
<1>3. PlanCurrent' /\ planned' \in [epoch : 0..Stale, hw : Reports, pack : Answers]
  BY <1>2, Unchanged DEF DriversInv, DriversTypeOK
<1>4. CASE DriversDone(r)
  <2>1. request' = [request EXCEPT ![r] = Idle] /\ request'[r] = Idle
    BY <1>1, <1>4 DEF DriversDone
  <2>2. 0 <= epoch'
    BY <1>2 DEF DriversInv, DriversTypeOK
  <2>3. Current(r)'
    BY <2>1, <2>2, IdleAsked DEF Current
  <2> QED BY <1>2, <1>3, <2>1, <2>3, IdleAsked, RequestKeeps
<1>5. CASE DriversAnswered(r)
  <2> DEFINE q == [o EXCEPT !.pc = "served", !.pack = m]
  <2>1. m \in Answers
    BY <1>1, MatchFacts DEF Answers
  <2>2. o.pc = "match"
    BY <1>5 DEF DriversAnswered
  <2>3. request' = [request EXCEPT ![r] = q]
    BY <1>1, <1>5 DEF DriversAnswered
  <2>4. o.epoch = epoch => o.hw = hardware /\ o.sys = system /\ m = MatchDriverPacks(hardware, system)
    BY <1>1, <2>2 DEF Current
  <2>5. MatchDriverPacks(hardware, system)' = MatchDriverPacks(hardware, system)
    BY <1>2 DEF MatchDriverPacks
  <2> HIDE DEF m
  <2>6. /\ q \in Asked /\ q.pc = "served" /\ q.epoch = o.epoch /\ q.sys = o.sys /\ q.hw = o.hw
        /\ q.pack = m
    BY <1>1, <2>1 DEF Asked
  <2> HIDE DEF q
  <2>7. request'[r] = q
    BY <1>1, <2>3
  <2>8. Current(r)'
    <3>1. o.epoch <= epoch \/ o.epoch = Stale
      BY <1>1 DEF Current
    <3> QED BY <1>2, <2>4, <2>5, <2>6, <2>7, <3>1 DEF Current, Stale
  <2> QED BY <1>2, <1>3, <2>3, <2>6, <2>8, RequestKeeps
<1> QED BY <1>4, <1>5

\* Every step of the machine and of the operators keeps the invariant.
LEMMA NextDrivers ==
    ASSUME DriversInv,
           \/ DriversNext
           \/ \E p \in Packs : createDriverPack(p) \/ runVendorFetch(p) \/ deleteDriverPackVersion(p)
           \/ UNCHANGED driverVars
    PROVE  DriversInv'
<1>1. CASE UNCHANGED driverVars
  <2>1. UNCHANGED <<active, present, hardware, system, request, epoch, planned>>
    BY <1>1 DEF driverVars
  <2>2. DriversTypeOK'
    BY <2>1 DEF DriversInv, DriversTypeOK, Stale
  <2>3. (\A r \in Requests : Current(r)') /\ PlanCurrent'
    BY <2>1, Unchanged
  <2> QED BY <2>2, <2>3 DEF DriversInv
<1>2. CASE DriversNext
  <2>1. CASE ImageChanges \/ AttributesReplaced
    BY <2>1, ChangesKeep
  <2>2. CASE MachineJobEnds
    BY <2>2, JobEndKeeps
  <2>3. ASSUME NEW r \in Requests,
               \/ winpePlan(r) \/ RecordMachineInventory(r) \/ InventoryLost(r) \/ PlanAnswered(r)
               \/ winpeDrivers(r) \/ DriversAnswered(r) \/ DriversDone(r)
        PROVE  DriversInv'
    BY <2>3, AskKeeps, RecordKeeps, PlanKeeps, DriversKeep
  <2> QED BY <1>2, <2>1, <2>2, <2>3 DEF DriversNext
<1>3. CASE \E p \in Packs : createDriverPack(p) \/ runVendorFetch(p) \/ deleteDriverPackVersion(p)
  BY <1>3, ChangesKeep
<1> QED BY <1>1, <1>2, <1>3

\* A plan and a drivers.zip of the present epoch are the same answer.
LEMMA DriversFollow == DriversInv => DriversFollowPlan
<1> SUFFICES ASSUME DriversInv, NEW r \in Requests, request[r].pc = "served",
                    request[r].epoch = planned.epoch, epoch = planned.epoch
             PROVE  /\ request[r].pack = planned.pack
                    /\ (\E p \in present : osCompatible(p, system) /\ NamesDevice(p, planned.hw))
                          => NamesDevice(request[r].pack, planned.hw)
  BY DEF DriversFollowPlan
<1>1. Current(r) /\ PlanCurrent /\ present \subseteq Packs
  BY DEF DriversInv, DriversTypeOK
<1>2. /\ request[r].pack = MatchDriverPacks(hardware, system)
      /\ planned.pack = MatchDriverPacks(hardware, system) /\ planned.hw = hardware
  BY <1>1 DEF Current, PlanCurrent
<1>3. (\E p \in present : osCompatible(p, system) /\ NamesDevice(p, hardware))
         => NamesDevice(MatchDriverPacks(hardware, system), hardware)
  BY <1>1, MatchFacts
<1> QED BY <1>2, <1>3

-----------------------------------------------------------------------------
(***************************************************************************)
(* Blobs, versions and captures.                                           *)
(***************************************************************************)

AllTags == Tags \cup UNION {TimeTags(j) : j \in Captures}
Versions == [image : Images, tag : AllTags, sha : Shas, by : Captures \cup {None}]
Scripts == [pc : {"off", "register", "upload", "finish", "wait"}, sha : Shas \cup {None},
            url : SUBSET Places, call : Calls \cup {None}]
Completions == [pc : {"idle", "blob", "insert", "advance", "golden", "refused", "done"},
                job : Captures \cup {None}, sha : Shas \cup {None}]

ImagesTypeOK ==
    /\ blob \in [Shas -> SUBSET Places] /\ object \in [Shas -> SUBSET Places]
    /\ urls \subseteq Shas \X Places
    /\ version \subseteq Versions
    /\ golden \subseteq Images /\ cleared \subseteq Images
    /\ capture \in [Captures -> {"active", "completed", "failed"}]
    /\ script \in [Captures -> Scripts] /\ call \in [Calls -> Completions]
    /\ cut \subseteq Captures
    /\ ops \in 0..MaxOps /\ faults \in 0..MaxFaults

\* A digest has one place, and what may still be uploaded goes there.
Placed ==
    /\ \A s \in Shas : blob[s] = {} \/ \E place \in Places : blob[s] = {place}
    /\ \A u \in urls : u[2] \in blob[u[1]]

\* What a capture script has registered and uploaded by its step.
ScriptOK(j) ==
    /\ script[j].pc # "off" => script[j].sha \in Shas
    /\ script[j].pc = "upload" => script[j].url # {} /\ script[j].url \subseteq blob[script[j].sha]
    /\ script[j].pc \in {"finish", "wait"} => Stored(script[j].sha)

\* A version of capture j that can be restored.
Restorable(j) == \E v \in version : v.by = j /\ v.image = Target[j].image /\ Stored(v.sha)

\* A capture-complete is about an archive that is there, and past its insert
\* it has a version.
CallOK(c) ==
    /\ call[c].pc # "idle" => /\ call[c].job \in Captures /\ call[c].sha \in Shas
                              /\ Stored(call[c].sha)
    /\ call[c].pc \in {"advance", "golden"} => Restorable(call[c].job)

\* UNIQUE (image_id, version_tag), and what the versions of a capture name.
VersionsOK ==
    /\ \A v, w \in version : v.image = w.image /\ v.tag = w.tag => v = w
    /\ \A v \in version : v.by \in Captures =>
          /\ v.image = Target[v.by].image
          /\ Target[v.by].tag # Now => v.tag = Target[v.by].tag

\* The flag of a completed capture's image.
Flagged(j) ==
    Target[j].image \in Linux =>
        \/ Target[j].image \in golden \cup cleared
        \/ j \in cut
        \/ \E c \in Calls : call[c].job = j /\ call[c].pc = "golden"

CompletedOK(j) == capture[j] = "completed" => Restorable(j) /\ Flagged(j)

ImagesInv ==
    /\ ImagesTypeOK /\ Placed /\ VersionsOK
    /\ \A j \in Captures : ScriptOK(j) /\ CompletedOK(j)
    /\ \A c \in Calls : CallOK(c)

\* Nothing is uploaded and nothing completed yet.
LEMMA InitImages == IngestInit => ImagesInv
<1> SUFFICES ASSUME IngestInit PROVE ImagesInv
  OBVIOUS
<1>1. Off \in Scripts /\ Off.pc = "off"
  BY DEF Off, Scripts
<1>2. NoCall \in Completions /\ NoCall.pc = "idle"
  BY DEF NoCall, Completions
<1>3. ImagesTypeOK
  <2>1. blob \in [Shas -> SUBSET Places]
    BY DEF IngestInit
  <2>2. object \in [Shas -> SUBSET Places] /\ faults \in 0..MaxFaults
    BY IngestAssumption DEF IngestInit
  <2>3. capture \in [Captures -> {"active", "completed", "failed"}]
    BY DEF IngestInit
  <2> QED BY <1>1, <1>2, <2>1, <2>2, <2>3 DEF IngestInit, ImagesTypeOK
<1>4. Placed
  BY DEF IngestInit, Placed
<1>5. \A j \in Captures : ScriptOK(j) /\ CompletedOK(j)
  BY <1>1 DEF IngestInit, ScriptOK, CompletedOK
<1>6. \A c \in Calls : CallOK(c)
  BY <1>2 DEF IngestInit, CallOK
<1>7. VersionsOK
  BY DEF IngestInit, VersionsOK
<1> QED BY <1>3, <1>4, <1>5, <1>6, <1>7 DEF ImagesInv

\* Rows of blobs, objects and versions are only added to: what was there for
\* a script, a request or a capture still is.
LEMMA Monotone ==
    ASSUME ImagesInv, \A s \in Shas : blob[s] \subseteq blob'[s] /\ object[s] \subseteq object'[s],
           version \subseteq version'
    PROVE  /\ \A j \in Captures : Restorable(j) => Restorable(j)'
           /\ \A j \in Captures : script'[j] = script[j] => ScriptOK(j)'
           /\ \A c \in Calls : call'[c] = call[c] => CallOK(c)'
           /\ \A s \in Shas : Stored(s) => Stored(s)'
<1>0. \A s \in Shas : Stored(s) => Stored(s)'
  BY DEF Stored
<1>1. ASSUME NEW j \in Captures, Restorable(j) PROVE Restorable(j)'
  <2>1. PICK v \in version : v.by = j /\ v.image = Target[j].image /\ Stored(v.sha)
    BY <1>1 DEF Restorable
  <2>2. v.sha \in Shas
    BY DEF ImagesInv, ImagesTypeOK, Versions
  <2> QED BY <1>0, <2>1, <2>2 DEF Restorable
<1>2. ASSUME NEW j \in Captures, script'[j] = script[j] PROVE ScriptOK(j)'
  <2>1. ScriptOK(j)
    BY DEF ImagesInv
  <2> QED BY <1>0, <1>2, <2>1 DEF ScriptOK
<1>3. ASSUME NEW c \in Calls, call'[c] = call[c] PROVE CallOK(c)'
  <2>1. CallOK(c)
    BY DEF ImagesInv
  <2> QED BY <1>0, <1>1, <1>3, <2>1 DEF CallOK
<1> QED BY <1>0, <1>1, <1>2, <1>3

\* A flag that is set, or will be, stays so while no request is done with it.
LEMMA FlagStays ==
    ASSUME golden \cup cleared \subseteq golden' \cup cleared', cut \subseteq cut',
           NEW j \in Captures, Flagged(j),
           \A c \in Calls : call[c].job = j /\ call[c].pc = "golden" =>
               (call'[c].job = j /\ call'[c].pc = "golden") \/ Flagged(j)'
    PROVE  Flagged(j)'
BY DEF Flagged

\* The place a URL is signed for is the place of the row, there from now on.
LEMMA RegisterFacts ==
    ASSUME ImagesInv, NEW s \in Shas, NEW place \in Places, CreateBlob(s, place)
    PROVE  /\ blob' \in [Shas -> SUBSET Places]
           /\ \A x \in Shas : blob'[x] = {} \/ \E pl \in Places : blob'[x] = {pl}
           /\ \A x \in Shas : blob[x] \subseteq blob'[x]
           /\ SignedPlace(s, place) = blob'[s] /\ SignedPlace(s, place) # {}
<1>1. blob \in [Shas -> SUBSET Places] /\ \A x \in Shas : blob[x] = {} \/ \E pl \in Places : blob[x] = {pl}
  BY DEF ImagesInv, ImagesTypeOK, Placed
<1>2. /\ blob' = [blob EXCEPT ![s] = SignedPlace(s, place)]
  BY DEF CreateBlob, SignedPlace
<1>3. /\ SignedPlace(s, place) # {} /\ blob[s] \subseteq SignedPlace(s, place)
      /\ \E pl \in Places : SignedPlace(s, place) = {pl}
  BY <1>1 DEF SignedPlace
<1> HIDE DEF SignedPlace
<1> QED BY <1>1, <1>2, <1>3

\* A completed capture stays deployable.
LEMMA CompletedStays ==
    ASSUME ImagesInv, \A s \in Shas : blob[s] \subseteq blob'[s] /\ object[s] \subseteq object'[s],
           version \subseteq version',
           golden \cup cleared \subseteq golden' \cup cleared', cut \subseteq cut',
           NEW j \in Captures, capture'[j] = "completed" => capture[j] = "completed",
           \A c \in Calls : call[c].job = j /\ call[c].pc = "golden" =>
               (call'[c].job = j /\ call'[c].pc = "golden") \/ Flagged(j)'
    PROVE  CompletedOK(j)'
<1>1. CompletedOK(j)
  BY DEF ImagesInv
<1>2. CASE capture[j] # "completed"
  BY <1>2 DEF CompletedOK
<1>3. CASE capture[j] = "completed"
  <2>1. Restorable(j)'
    BY <1>1, <1>3, Monotone DEF CompletedOK
  <2>2. Flagged(j)'
    BY <1>1, <1>3, FlagStays DEF CompletedOK
  <2> QED BY <2>1, <2>2 DEF CompletedOK
<1> QED BY <1>2, <1>3

-----------------------------------------------------------------------------
\* An operator registers a blob and gets a URL.
LEMMA BlobKeeps ==
    ASSUME ImagesInv, NEW s \in Shas, createBlob(s)
    PROVE  ImagesInv'
<1>1. PICK place \in Places : CreateBlob(s, place) /\ urls' = urls \cup ({s} \X SignedPlace(s, place))
  <2>1. PICK role \in Roles \cup {""}, file \in Files :
          LET place == <<bucketForRole(role), file>>
          IN  CreateBlob(s, place) /\ urls' = urls \cup ({s} \X SignedPlace(s, place))
    BY DEF createBlob
  <2>2. <<bucketForRole(role), file>> \in Places
    BY DEF Places, bucketForRole, Roles
  <2> QED BY <2>1, <2>2
<1>2. /\ UNCHANGED <<object, version, golden, capture, script, call, cleared, cut, faults>>
      /\ ops' \in 0..MaxOps
  <2>1. /\ UNCHANGED <<object, version, golden, capture, script, call, cleared, cut, faults>>
        /\ Operate
    BY DEF createBlob
  <2> QED BY <2>1, IngestAssumption DEF Operate, ImagesInv, ImagesTypeOK
<1>3. /\ blob' \in [Shas -> SUBSET Places]
      /\ \A x \in Shas : blob'[x] = {} \/ \E pl \in Places : blob'[x] = {pl}
      /\ \A x \in Shas : blob[x] \subseteq blob'[x]
      /\ SignedPlace(s, place) = blob'[s] /\ SignedPlace(s, place) # {}
  BY <1>1, RegisterFacts
<1>4. urls' = urls \cup ({s} \X blob'[s]) /\ urls \subseteq Shas \X Places
  BY <1>1, <1>3 DEF ImagesInv, ImagesTypeOK
<1>5. ImagesTypeOK'
  BY <1>2, <1>3, <1>4 DEF ImagesInv, ImagesTypeOK
<1>6. Placed'
  <2>1. \A u \in urls' : u[2] \in blob'[u[1]]
    BY <1>3, <1>4 DEF ImagesInv, Placed
  <2> QED BY <1>3, <2>1 DEF Placed
<1>7. VersionsOK'
  BY <1>2 DEF ImagesInv, VersionsOK
<1>8. (\A j \in Captures : ScriptOK(j)') /\ \A c \in Calls : CallOK(c)'
  BY <1>2, <1>3, Monotone
<1>9. \A j \in Captures : CompletedOK(j)'
  BY <1>2, <1>3, CompletedStays
<1> QED BY <1>5, <1>6, <1>7, <1>8, <1>9 DEF ImagesInv

\* The holder of a URL puts the object.
LEMMA PutKeeps ==
    ASSUME ImagesInv, NEW u, PutObject(u)
    PROVE  ImagesInv'
<1>1. /\ UNCHANGED <<blob, version, golden, capture, script, call, cleared, cut, ops, faults>>
      /\ u \in urls /\ urls' = urls \ {u} /\ object' = [object EXCEPT ![u[1]] = @ \cup {u[2]}]
  BY DEF PutObject
<1>2. u[1] \in Shas /\ u[2] \in Places /\ u[2] \in blob[u[1]]
  BY <1>1 DEF ImagesInv, ImagesTypeOK, Placed
<1>3. /\ object' \in [Shas -> SUBSET Places]
      /\ \A s \in Shas : object[s] \subseteq object'[s]
  BY <1>1, <1>2 DEF ImagesInv, ImagesTypeOK, Placed
<1>4. ImagesTypeOK'
  BY <1>1, <1>3 DEF ImagesInv, ImagesTypeOK
<1>5. Placed'
  BY <1>1, <1>3 DEF ImagesInv, Placed
<1>6. VersionsOK'
  BY <1>1 DEF ImagesInv, VersionsOK
<1>7. (\A j \in Captures : ScriptOK(j)') /\ \A c \in Calls : CallOK(c)'
  BY <1>1, <1>3, Monotone
<1>8. \A j \in Captures : CompletedOK(j)'
  BY <1>1, <1>3, CompletedStays
<1> QED BY <1>4, <1>5, <1>6, <1>7, <1>8 DEF ImagesInv

\* The runner of a vendor fetch puts a pack under its own key.
LEMMA VendorPutsKeeps ==
    ASSUME ImagesInv, NEW s \in Shas, VendorPuts(s)
    PROVE  ImagesInv'
<1>1. /\ UNCHANGED <<blob, urls, version, golden, capture, script, call, cleared, cut, faults>>
      /\ object' = [object EXCEPT ![s] = @ \cup {VendorPlace}] /\ ops' \in 0..MaxOps
  BY IngestAssumption DEF VendorPuts, Operate, ImagesInv, ImagesTypeOK
<1>2. /\ object' \in [Shas -> SUBSET Places]
      /\ \A x \in Shas : object[x] \subseteq object'[x]
  <2>1. VendorPlace \in Places
    BY DEF VendorPlace, Places, bucketForRole, Roles
  <2> QED BY <1>1, <2>1 DEF ImagesInv, ImagesTypeOK
<1>3. ImagesTypeOK'
  BY <1>1, <1>2 DEF ImagesInv, ImagesTypeOK
<1>4. Placed' /\ VersionsOK'
  BY <1>1 DEF ImagesInv, Placed, VersionsOK
<1>5. (\A j \in Captures : ScriptOK(j)') /\ \A c \in Calls : CallOK(c)'
  BY <1>1, <1>2, Monotone
<1>6. \A j \in Captures : CompletedOK(j)'
  BY <1>1, <1>2, CompletedStays
<1> QED BY <1>3, <1>4, <1>5, <1>6 DEF ImagesInv

\* It registers the pack, which may have a row elsewhere.
LEMMA VendorRegistersKeeps ==
    ASSUME ImagesInv, NEW s \in Shas, VendorRegisters(s)
    PROVE  ImagesInv'
<1>1. /\ UNCHANGED <<urls, object, version, golden, capture, script, call, cleared, cut, ops, faults>>
      /\ CreateBlob(s, VendorPlace)
  BY DEF VendorRegisters
<1>2. /\ blob' \in [Shas -> SUBSET Places]
      /\ \A x \in Shas : blob'[x] = {} \/ \E pl \in Places : blob'[x] = {pl}
      /\ \A x \in Shas : blob[x] \subseteq blob'[x]
  <2>1. VendorPlace \in Places
    BY DEF VendorPlace, Places, bucketForRole, Roles
  <2> QED BY <1>1, <2>1, RegisterFacts
<1>3. ImagesTypeOK'
  BY <1>1, <1>2 DEF ImagesInv, ImagesTypeOK
<1>4. Placed' /\ VersionsOK'
  BY <1>1, <1>2 DEF ImagesInv, ImagesTypeOK, Placed, VersionsOK
<1>5. (\A j \in Captures : ScriptOK(j)') /\ \A c \in Calls : CallOK(c)'
  BY <1>1, <1>2, Monotone
<1>6. \A j \in Captures : CompletedOK(j)'
  BY <1>1, <1>2, CompletedStays
<1> QED BY <1>3, <1>4, <1>5, <1>6 DEF ImagesInv

\* A version is inserted whose tag is free.
LEMMA InsertFacts ==
    ASSUME ImagesInv, NEW i \in Images, NEW s \in Shas, NEW tag \in AllTags,
           NEW by \in Captures \cup {None}, CreateImageVersion(i, s, tag, by),
           by \in Captures => i = Target[by].image /\ (Target[by].tag # Now => tag = Target[by].tag)
    PROVE  version' \subseteq Versions /\ version \subseteq version' /\ VersionsOK'
           /\ \E v \in version' : v.by = by /\ v.image = i /\ v.sha = s
<1> DEFINE n == [image |-> i, tag |-> tag, sha |-> s, by |-> by]
<1>1. version' = version \cup {n} /\ \A v \in version : v.image = i => v.tag # tag
  BY DEF CreateImageVersion
<1>2. n \in Versions /\ n.image = i /\ n.tag = tag /\ n.sha = s /\ n.by = by
  BY DEF Versions
<1> HIDE DEF n
<1>3. VersionsOK'
  <2>1. ASSUME NEW v \in version', NEW w \in version', v.image = w.image, v.tag = w.tag
        PROVE  v = w
    BY <1>1, <1>2, <2>1 DEF ImagesInv, VersionsOK
  <2>2. ASSUME NEW v \in version', v.by \in Captures
        PROVE  /\ v.image = Target[v.by].image
               /\ Target[v.by].tag # Now => v.tag = Target[v.by].tag
    BY <1>1, <1>2, <2>2 DEF ImagesInv, VersionsOK
  <2> QED BY <2>1, <2>2 DEF VersionsOK
<1> QED BY <1>1, <1>2, <1>3 DEF ImagesInv, ImagesTypeOK

\* An operator makes a version, which belongs to no capture.
LEMMA VersionKeeps ==
    ASSUME ImagesInv, NEW i \in Images, createImageVersion(i)
    PROVE  ImagesInv'
<1>1. /\ UNCHANGED <<blob, urls, object, golden, capture, script, call, cleared, cut, faults>>
      /\ ops' \in 0..MaxOps
  BY IngestAssumption DEF createImageVersion, Operate, ImagesInv, ImagesTypeOK
<1>2. PICK s \in Shas, tag \in Tags : CreateImageVersion(i, s, tag, None)
  BY DEF createImageVersion
<1>3. version' \subseteq Versions /\ version \subseteq version' /\ VersionsOK'
  <2>1. tag \in AllTags /\ None \in Captures \cup {None} /\ None \notin Captures
    BY IngestAssumption DEF AllTags
  <2> QED BY <1>2, <2>1, InsertFacts
<1>4. ImagesTypeOK'
  BY <1>1, <1>3 DEF ImagesInv, ImagesTypeOK
<1>5. Placed'
  BY <1>1 DEF ImagesInv, Placed
<1>6. (\A j \in Captures : ScriptOK(j)') /\ \A c \in Calls : CallOK(c)'
  BY <1>1, <1>3, Monotone
<1>7. \A j \in Captures : CompletedOK(j)'
  BY <1>1, <1>3, CompletedStays
<1> QED BY <1>3, <1>4, <1>5, <1>6, <1>7 DEF ImagesInv

\* An operator writes an image's media: noted as such.
LEMMA MediaKeeps ==
    ASSUME ImagesInv, NEW i \in Images, updateImageMedia(i)
    PROVE  ImagesInv'
<1>1. /\ UNCHANGED <<blob, urls, object, version, capture, script, call, cut, faults>>
      /\ ops' \in 0..MaxOps
  BY IngestAssumption DEF updateImageMedia, Operate, ImagesInv, ImagesTypeOK
<1>2. /\ golden' \subseteq Images /\ cleared' \subseteq Images
      /\ golden \cup cleared \subseteq golden' \cup cleared'
  BY DEF updateImageMedia, ImagesInv, ImagesTypeOK
<1>3. ImagesTypeOK'
  BY <1>1, <1>2 DEF ImagesInv, ImagesTypeOK
<1>4. Placed' /\ VersionsOK'
  BY <1>1 DEF ImagesInv, Placed, VersionsOK
<1>5. (\A j \in Captures : ScriptOK(j)') /\ \A c \in Calls : CallOK(c)'
  BY <1>1, Monotone
<1>6. \A j \in Captures : CompletedOK(j)'
  BY <1>1, <1>2, CompletedStays
<1> QED BY <1>3, <1>4, <1>5, <1>6 DEF ImagesInv

-----------------------------------------------------------------------------
\* The script of one capture changes.
LEMMA ScriptFacts ==
    ASSUME ImagesInv, NEW j \in Captures, NEW q \in Scripts, script' = [script EXCEPT ![j] = q]
    PROVE  /\ script' \in [Captures -> Scripts] /\ script'[j] = q
           /\ \A x \in Captures : x # j => script'[x] = script[x]
BY DEF ImagesInv, ImagesTypeOK

\* A capture-complete takes its next step.
LEMMA CallFacts ==
    ASSUME ImagesInv, NEW c \in Calls,
           NEW x \in {"idle", "blob", "insert", "advance", "golden", "refused", "done"},
           call' = [call EXCEPT ![c].pc = x]
    PROVE  /\ call' \in [Calls -> Completions]
           /\ call'[c].pc = x /\ call'[c].job = call[c].job /\ call'[c].sha = call[c].sha
           /\ \A d \in Calls : d # c => call'[d] = call[d]
<1>1. call \in [Calls -> Completions] /\ call[c] \in Completions
  BY DEF ImagesInv, ImagesTypeOK
<1> DEFINE n == [call[c] EXCEPT !.pc = x]
<1>2. n \in Completions /\ n.pc = x /\ n.job = call[c].job /\ n.sha = call[c].sha
  BY <1>1 DEF Completions
<1>3. call' = [call EXCEPT ![c] = n]
  BY <1>1
<1> HIDE DEF n
<1> QED BY <1>1, <1>2, <1>3

\* The script starts, or starts again.
LEMMA StartKeeps ==
    ASSUME ImagesInv, NEW j \in Captures, captureScript(j)
    PROVE  ImagesInv'
<1>1. /\ UNCHANGED <<blob, urls, object, version, golden, capture, call, cleared, cut, ops>>
      /\ faults' \in 0..MaxFaults
  BY IngestAssumption DEF captureScript, Fault, ImagesInv, ImagesTypeOK
<1>2. PICK s \in Shas : script' = [script EXCEPT ![j] = [Off EXCEPT !.pc = "register", !.sha = s]]
  BY DEF captureScript
<1> DEFINE q == [Off EXCEPT !.pc = "register", !.sha = s]
<1>3. q \in Scripts /\ q.pc = "register" /\ q.sha = s
  BY DEF Scripts, Off
<1> HIDE DEF q
<1>4. /\ script' \in [Captures -> Scripts] /\ script'[j] = q
      /\ \A x \in Captures : x # j => script'[x] = script[x]
  <2>1. script' = [script EXCEPT ![j] = q]
    BY <1>2 DEF q
  <2> QED BY <1>3, <2>1, ScriptFacts
<1>5. ImagesTypeOK'
  BY <1>1, <1>4 DEF ImagesInv, ImagesTypeOK
<1>6. Placed' /\ VersionsOK'
  BY <1>1 DEF ImagesInv, Placed, VersionsOK
<1>7. ScriptOK(j)'
  BY <1>3, <1>4 DEF ScriptOK
<1>8. (\A x \in Captures : x # j => ScriptOK(x)') /\ \A c \in Calls : CallOK(c)'
  BY <1>1, <1>4, Monotone
<1>9. \A x \in Captures : CompletedOK(x)'
  BY <1>1, CompletedStays
<1> QED BY <1>5, <1>6, <1>7, <1>8, <1>9 DEF ImagesInv

\* The script registers its archive.
LEMMA UploadKeeps ==
    ASSUME ImagesInv, NEW j \in Captures, captureUpload(j)
    PROVE  ImagesInv'
<1> DEFINE s == script[j].sha
           place == <<bucketForRole("images"), "capture">>
           url == SignedPlace(s, place)
           q == [script[j] EXCEPT !.pc = "upload", !.url = url]
<1>1. /\ UNCHANGED <<urls, object, version, golden, capture, call, cleared, cut, ops, faults>>
      /\ CreateBlob(s, place) /\ script[j].pc = "register"
      /\ script' = [script EXCEPT ![j] = q]
  BY DEF captureUpload
<1>2. s \in Shas /\ place \in Places /\ script[j] \in Scripts
  BY <1>1 DEF ImagesInv, ImagesTypeOK, ScriptOK, Places, bucketForRole, Roles
<1>3. /\ blob' \in [Shas -> SUBSET Places]
      /\ \A x \in Shas : blob'[x] = {} \/ \E pl \in Places : blob'[x] = {pl}
      /\ \A x \in Shas : blob[x] \subseteq blob'[x]
      /\ url = blob'[s] /\ url # {}
  <2> HIDE DEF s, place
  <2> QED BY <1>1, <1>2, RegisterFacts
<1>4. url \in SUBSET Places
  BY <1>2, <1>3
<1> HIDE DEF url
<1>5. q \in Scripts /\ q.pc = "upload" /\ q.sha = s /\ q.url = url
  BY <1>2, <1>4 DEF Scripts
<1> HIDE DEF q
<1>6. /\ script' \in [Captures -> Scripts] /\ script'[j] = q
      /\ \A x \in Captures : x # j => script'[x] = script[x]
  BY <1>1, <1>5, ScriptFacts
<1>7. ImagesTypeOK'
  BY <1>1, <1>3, <1>6 DEF ImagesInv, ImagesTypeOK
<1>8. Placed'
  <2>1. \A u \in urls' : u[2] \in blob'[u[1]]
    BY <1>1, <1>3 DEF ImagesInv, ImagesTypeOK, Placed
  <2> QED BY <1>3, <2>1 DEF Placed
<1>9. VersionsOK'
  BY <1>1 DEF ImagesInv, VersionsOK
<1>10. ScriptOK(j)'
  BY <1>2, <1>3, <1>5, <1>6 DEF ScriptOK
<1>11. (\A x \in Captures : x # j => ScriptOK(x)') /\ \A c \in Calls : CallOK(c)'
  BY <1>1, <1>3, <1>6, Monotone
<1>12. \A x \in Captures : CompletedOK(x)'
  BY <1>1, <1>3, CompletedStays
<1> QED BY <1>7, <1>8, <1>9, <1>10, <1>11, <1>12 DEF ImagesInv

\* The script uploads its archive.
LEMMA ScriptPutsKeeps ==
    ASSUME ImagesInv, NEW j \in Captures, ScriptPuts(j)
    PROVE  ImagesInv'
<1> DEFINE s == script[j].sha
           url == script[j].url
           q == [script[j] EXCEPT !.pc = "finish"]
<1>1. /\ UNCHANGED <<blob, urls, version, golden, capture, call, cleared, cut, ops, faults>>
      /\ script[j].pc = "upload" /\ script[j] \in Scripts /\ script \in [Captures -> Scripts]
      /\ object' = [object EXCEPT ![s] = @ \cup url]
  BY DEF ScriptPuts, ImagesInv, ImagesTypeOK
<1>2. s \in Shas /\ url # {} /\ url \subseteq blob[s]
  BY <1>1 DEF ImagesInv, ScriptOK
<1>3. script' = [script EXCEPT ![j] = q]
  BY <1>1 DEF ScriptPuts
<1>4. q \in Scripts /\ q.pc = "finish" /\ q.sha = s
  BY <1>1 DEF Scripts
<1> HIDE DEF q, s, url
<1>5. /\ script' \in [Captures -> Scripts] /\ script'[j] = q
      /\ \A x \in Captures : x # j => script'[x] = script[x]
  BY <1>3, <1>4, ScriptFacts
<1>6. /\ object' \in [Shas -> SUBSET Places] /\ object'[s] \cap blob'[s] # {}
      /\ \A x \in Shas : object[x] \subseteq object'[x]
  BY <1>1, <1>2 DEF ImagesInv, ImagesTypeOK
<1>7. ImagesTypeOK'
  BY <1>1, <1>5, <1>6 DEF ImagesInv, ImagesTypeOK
<1>8. Placed'
  BY <1>1, <1>6 DEF ImagesInv, Placed
<1>9. VersionsOK'
  BY <1>1 DEF ImagesInv, VersionsOK
<1>10. ScriptOK(j)'
  BY <1>2, <1>4, <1>5, <1>6 DEF ScriptOK, Stored
<1>11. (\A x \in Captures : x # j => ScriptOK(x)') /\ \A c \in Calls : CallOK(c)'
  BY <1>1, <1>5, <1>6, Monotone
<1>12. \A x \in Captures : CompletedOK(x)'
  BY <1>1, <1>6, CompletedStays
<1> QED BY <1>7, <1>8, <1>9, <1>10, <1>11, <1>12 DEF ImagesInv

\* The script sends its capture-complete.
LEMMA FinishKeeps ==
    ASSUME ImagesInv, NEW j \in Captures, NEW c \in Calls, ScriptFinishes(j, c)
    PROVE  ImagesInv'
<1> DEFINE s == script[j].sha
           q == [script[j] EXCEPT !.pc = "wait", !.call = c]
           n == [pc |-> "blob", job |-> j, sha |-> s]
<1>1. /\ UNCHANGED <<blob, urls, object, version, golden, capture, cleared, cut, ops, faults>>
      /\ script[j].pc = "finish" /\ script[j] \in Scripts /\ call[c].pc = "idle"
      /\ call \in [Calls -> Completions]
      /\ script' = [script EXCEPT ![j] = q] /\ call' = [call EXCEPT ![c] = n]
  BY DEF ScriptFinishes, ImagesInv, ImagesTypeOK
<1>2. s \in Shas /\ Stored(s)
  BY <1>1 DEF ImagesInv, ScriptOK
<1>3. q \in Scripts /\ q.pc = "wait" /\ q.sha = s
  BY <1>1 DEF Scripts
<1> HIDE DEF q, s
<1>4. /\ script' \in [Captures -> Scripts] /\ script'[j] = q
      /\ \A x \in Captures : x # j => script'[x] = script[x]
  BY <1>1, <1>3, ScriptFacts
<1>5. n \in Completions /\ n.pc = "blob" /\ n.job = j /\ n.sha = s
  BY <1>2 DEF Completions
<1> HIDE DEF n
<1>6. /\ call' \in [Calls -> Completions] /\ call'[c] = n
      /\ \A d \in Calls : d # c => call'[d] = call[d]
  BY <1>1, <1>5
<1>7. ImagesTypeOK'
  BY <1>1, <1>4, <1>6 DEF ImagesInv, ImagesTypeOK
<1>8. Placed' /\ VersionsOK'
  BY <1>1 DEF ImagesInv, Placed, VersionsOK
<1>9. ScriptOK(j)' /\ CallOK(c)'
  BY <1>1, <1>2, <1>3, <1>4, <1>5, <1>6 DEF ScriptOK, CallOK, Stored
<1>10. /\ \A x \in Captures : x # j => ScriptOK(x)'
       /\ \A d \in Calls : d # c => CallOK(d)'
  BY <1>1, <1>4, <1>6, Monotone
<1>11. \A x \in Captures : CompletedOK(x)'
  BY <1>1, <1>6, CompletedStays
<1> QED BY <1>7, <1>8, <1>9, <1>10, <1>11 DEF ImagesInv

\* The job fails without capture-complete.
LEMMA FailKeeps ==
    ASSUME ImagesInv, NEW j \in Captures, CaptureFails(j)
    PROVE  ImagesInv'
<1>1. /\ UNCHANGED <<blob, urls, object, version, golden, call, cleared, cut, ops, faults>>
      /\ capture' = [capture EXCEPT ![j] = "failed"] /\ script' = [script EXCEPT ![j] = Off]
  BY DEF CaptureFails
<1>2. Off \in Scripts /\ Off.pc = "off"
  BY DEF Off, Scripts
<1>3. /\ script' \in [Captures -> Scripts] /\ script'[j] = Off
      /\ \A x \in Captures : x # j => script'[x] = script[x]
  BY <1>1, <1>2, ScriptFacts
<1>4. /\ capture' \in [Captures -> {"active", "completed", "failed"}]
      /\ \A x \in Captures : capture'[x] = "completed" => capture[x] = "completed"
  BY <1>1 DEF ImagesInv, ImagesTypeOK
<1>5. ImagesTypeOK'
  BY <1>1, <1>3, <1>4 DEF ImagesInv, ImagesTypeOK
<1>6. Placed' /\ VersionsOK'
  BY <1>1 DEF ImagesInv, Placed, VersionsOK
<1>7. ScriptOK(j)'
  BY <1>2, <1>3 DEF ScriptOK
<1>8. (\A x \in Captures : x # j => ScriptOK(x)') /\ \A c \in Calls : CallOK(c)'
  BY <1>1, <1>3, Monotone
<1>9. \A x \in Captures : CompletedOK(x)'
  BY <1>1, <1>4, CompletedStays
<1> QED BY <1>5, <1>6, <1>7, <1>8, <1>9 DEF ImagesInv

-----------------------------------------------------------------------------
\* The steps of a capture-complete that touch nothing but the request: the
\* look-up of the blob, and a tag that is taken.
LEMMA CallMoves ==
    ASSUME ImagesInv, NEW c \in Calls, NEW x \in {"insert", "refused"}, call[c].pc \in {"blob", "insert"},
           call' = [call EXCEPT ![c].pc = x],
           UNCHANGED <<blob, urls, object, version, golden, capture, script, cleared, cut, ops, faults>>
    PROVE  ImagesInv'
<1>1. /\ call' \in [Calls -> Completions]
      /\ call'[c].pc = x /\ call'[c].job = call[c].job /\ call'[c].sha = call[c].sha
      /\ \A d \in Calls : d # c => call'[d] = call[d]
  BY CallFacts
<1>2. ImagesTypeOK'
  BY <1>1 DEF ImagesInv, ImagesTypeOK
<1>3. Placed' /\ VersionsOK'
  BY DEF ImagesInv, Placed, VersionsOK
<1>4. CallOK(c)'
  BY <1>1 DEF ImagesInv, CallOK, Stored
<1>5. (\A j \in Captures : ScriptOK(j)') /\ \A d \in Calls : d # c => CallOK(d)'
  BY <1>1, Monotone
<1>6. \A j \in Captures : CompletedOK(j)'
  BY <1>1, CompletedStays
<1> QED BY <1>2, <1>3, <1>4, <1>5, <1>6 DEF ImagesInv

\* The version of the capture is inserted, or its tag is taken.
LEMMA CaptureVersionKeeps ==
    ASSUME ImagesInv, NEW c \in Calls, CaptureVersion(c)
    PROVE  ImagesInv'
<1> DEFINE j == call[c].job
           i == Target[call[c].job].image
           s == call[c].sha
<1>1. /\ UNCHANGED <<blob, urls, object, golden, capture, script, cleared, cut, ops, faults>>
      /\ call[c].pc = "insert"
  BY DEF CaptureVersion
<1>2. j \in Captures /\ s \in Shas /\ Stored(s) /\ i \in Images
      /\ Target[j].tag \in Tags \cup {Now}
  BY <1>1, IngestAssumption DEF ImagesInv, CallOK
<1>3. PICK tag \in IF Target[j].tag = Now THEN TimeTags(j) ELSE {Target[j].tag} :
          \/ /\ CreateImageVersion(i, s, tag, j)
             /\ call' = [call EXCEPT ![c].pc = "advance"]
          \/ /\ call' = [call EXCEPT ![c].pc = "refused"]
             /\ UNCHANGED version
  BY DEF CaptureVersion
<1>4. tag \in AllTags /\ (Target[j].tag # Now => tag = Target[j].tag)
  BY <1>2, <1>3 DEF AllTags
<1>5. CASE call' = [call EXCEPT ![c].pc = "refused"] /\ UNCHANGED version
  BY <1>1, <1>5, CallMoves
<1>6. CASE CreateImageVersion(i, s, tag, j) /\ call' = [call EXCEPT ![c].pc = "advance"]
  <2>1. /\ call' \in [Calls -> Completions]
        /\ call'[c].pc = "advance" /\ call'[c].job = j /\ call'[c].sha = s
        /\ \A d \in Calls : d # c => call'[d] = call[d]
    BY <1>6, CallFacts
  <2>2. /\ version' \subseteq Versions /\ version \subseteq version' /\ VersionsOK'
        /\ \E v \in version' : v.by = j /\ v.image = i /\ v.sha = s
    <3> HIDE DEF j, s, i
    <3>1. i = Target[j].image
      BY DEF i, j
    <3> QED BY <1>2, <1>4, <1>6, <3>1, InsertFacts
  <2>3. ImagesTypeOK'
    BY <1>1, <2>1, <2>2 DEF ImagesInv, ImagesTypeOK
  <2>4. Placed'
    BY <1>1 DEF ImagesInv, Placed
  <2>5. CallOK(c)'
    <3>1. \E v \in version' : v.by = call'[c].job /\ v.image = Target[call'[c].job].image
                              /\ Stored(v.sha)'
      BY <1>1, <1>2, <2>1, <2>2 DEF Stored
    <3>2. Restorable(call[c].job)'
      BY <3>1 DEF Restorable
    <3> QED BY <1>1, <1>2, <2>1, <3>2 DEF CallOK, Stored
  <2>6. (\A x \in Captures : ScriptOK(x)') /\ \A d \in Calls : d # c => CallOK(d)'
    BY <1>1, <2>1, <2>2, Monotone
  <2>7. \A x \in Captures : CompletedOK(x)'
    BY <1>1, <2>1, <2>2, CompletedStays
  <2> QED BY <2>2, <2>3, <2>4, <2>5, <2>6, <2>7 DEF ImagesInv
<1> QED BY <1>3, <1>5, <1>6

\* The job is completed if it is still active: its version is there, and the
\* flag of its image is the request's next step.
LEMMA AdvanceKeeps ==
    ASSUME ImagesInv, NEW c \in Calls, CaptureAdvance(c)
    PROVE  ImagesInv'
<1> DEFINE j == call[c].job
<1>1. /\ UNCHANGED <<blob, urls, object, version, golden, script, cleared, cut, ops, faults>>
      /\ call[c].pc = "advance" /\ call' = [call EXCEPT ![c].pc = "golden"]
      /\ capture' = [capture EXCEPT ![j] = IF @ = "active" THEN "completed" ELSE @]
  BY DEF CaptureAdvance
<1>2. j \in Captures /\ Restorable(j)
  BY <1>1 DEF ImagesInv, CallOK
<1>3. /\ call' \in [Calls -> Completions]
      /\ call'[c].pc = "golden" /\ call'[c].job = j /\ call'[c].sha = call[c].sha
      /\ \A d \in Calls : d # c => call'[d] = call[d]
  BY <1>1, CallFacts
<1>4. /\ capture' \in [Captures -> {"active", "completed", "failed"}]
      /\ \A x \in Captures : x # j => capture'[x] = capture[x]
  BY <1>1, <1>2 DEF ImagesInv, ImagesTypeOK
<1>5. ImagesTypeOK'
  BY <1>1, <1>3, <1>4 DEF ImagesInv, ImagesTypeOK
<1>6. Placed' /\ VersionsOK'
  BY <1>1 DEF ImagesInv, Placed, VersionsOK
<1>7. \A x \in Captures : Restorable(x) => Restorable(x)'
  BY <1>1, Monotone
<1>8. CallOK(c)'
  <2>1. call[c].sha \in Shas /\ Stored(call[c].sha)
    BY <1>1 DEF ImagesInv, CallOK
  <2>2. Restorable(call[c].job)'
    <3>1. \E v \in version : v.by = j /\ v.image = Target[j].image /\ Stored(v.sha)
      BY <1>2 DEF Restorable
    <3> QED BY <1>1, <1>3, <3>1 DEF Restorable, Stored
  <2> QED BY <1>1, <1>2, <1>3, <2>1, <2>2 DEF CallOK, Stored
<1>9. (\A x \in Captures : ScriptOK(x)') /\ \A d \in Calls : d # c => CallOK(d)'
  BY <1>1, <1>3, Monotone
<1>10. ASSUME NEW x \in Captures PROVE CompletedOK(x)'
  <2>1. CASE x # j
    BY <1>1, <1>3, <1>4, <2>1, CompletedStays
  <2>2. CASE x = j
    <3>1. Restorable(x)'
      BY <1>2, <1>7, <2>2
    <3>2. Flagged(x)'
      BY <1>3, <2>2 DEF Flagged
    <3> QED BY <3>1, <3>2 DEF CompletedOK
  <2> QED BY <2>1, <2>2
<1> QED BY <1>5, <1>6, <1>8, <1>9, <1>10 DEF ImagesInv

\* The image is flagged.
LEMMA GoldenKeeps ==
    ASSUME ImagesInv, NEW c \in Calls, captureComplete(c)
    PROVE  ImagesInv'
<1>1. /\ UNCHANGED <<blob, urls, object, version, capture, script, cleared, cut, ops, faults>>
      /\ call[c].pc = "golden" /\ call' = [call EXCEPT ![c].pc = "done"]
      /\ golden' = golden \cup ({Target[call[c].job].image} \cap Linux)
  BY DEF captureComplete
<1>2. /\ call' \in [Calls -> Completions]
      /\ call'[c].pc = "done" /\ call'[c].job = call[c].job /\ call'[c].sha = call[c].sha
      /\ \A d \in Calls : d # c => call'[d] = call[d]
  BY <1>1, CallFacts
<1>3. ImagesTypeOK'
  BY <1>1, <1>2, IngestAssumption DEF ImagesInv, ImagesTypeOK
<1>4. Placed' /\ VersionsOK'
  BY <1>1 DEF ImagesInv, Placed, VersionsOK
<1>5. CallOK(c)'
  BY <1>1, <1>2 DEF ImagesInv, CallOK, Stored
<1>6. (\A x \in Captures : ScriptOK(x)') /\ \A d \in Calls : d # c => CallOK(d)'
  BY <1>1, <1>2, Monotone
<1>7. ASSUME NEW x \in Captures PROVE CompletedOK(x)'
  <2>1. call[c].job = x => Flagged(x)'
    BY <1>1 DEF Flagged
  <2> QED BY <1>1, <1>2, <2>1, CompletedStays
<1> QED BY <1>3, <1>4, <1>5, <1>6, <1>7 DEF ImagesInv

\* The answer ends the request, and the job of a refused script.
LEMMA AnswerKeeps ==
    ASSUME ImagesInv, NEW c \in Calls, CaptureAnswer(c)
    PROVE  ImagesInv'
<1> DEFINE j == call[c].job
           waits == script[j].pc = "wait" /\ script[j].call = c
<1>1. /\ UNCHANGED <<blob, urls, object, version, golden, cleared, cut, ops, faults>>
      /\ call[c].pc \in {"refused", "done"} /\ call' = [call EXCEPT ![c] = NoCall]
      /\ script' = IF waits THEN [script EXCEPT ![j] = Off] ELSE script
      /\ capture' = [capture EXCEPT ![j] =
                       IF waits /\ call[c].pc = "refused" /\ @ = "active" THEN "failed" ELSE @]
  BY DEF CaptureAnswer
<1>2. j \in Captures
  BY <1>1 DEF ImagesInv, CallOK
<1>3. Off \in Scripts /\ Off.pc = "off" /\ NoCall \in Completions /\ NoCall.pc = "idle"
  BY DEF Off, Scripts, NoCall, Completions
<1>4. /\ script' \in [Captures -> Scripts]
      /\ \A x \in Captures : script'[x] = script[x] \/ script'[x] = Off
  BY <1>1, <1>2, <1>3 DEF ImagesInv, ImagesTypeOK
<1>5. /\ capture' \in [Captures -> {"active", "completed", "failed"}]
      /\ \A x \in Captures : capture'[x] = "completed" => capture[x] = "completed"
  <2> HIDE DEF waits
  <2> QED BY <1>1, <1>2 DEF ImagesInv, ImagesTypeOK
<1>6. /\ call' \in [Calls -> Completions] /\ call'[c] = NoCall
      /\ \A d \in Calls : d # c => call'[d] = call[d]
  BY <1>1, <1>3 DEF ImagesInv, ImagesTypeOK
<1>7. ImagesTypeOK'
  BY <1>1, <1>4, <1>5, <1>6 DEF ImagesInv, ImagesTypeOK
<1>8. Placed' /\ VersionsOK'
  BY <1>1 DEF ImagesInv, Placed, VersionsOK
<1>9. CallOK(c)'
  BY <1>3, <1>6 DEF CallOK
<1>10. /\ \A x \in Captures : script'[x] = script[x] => ScriptOK(x)'
       /\ \A d \in Calls : d # c => CallOK(d)'
  BY <1>1, <1>6, Monotone
<1>11. \A x \in Captures : script'[x] = Off => ScriptOK(x)'
  BY <1>3 DEF ScriptOK
<1>12. \A x \in Captures : CompletedOK(x)'
  BY <1>1, <1>5, <1>6, CompletedStays
<1> QED BY <1>4, <1>7, <1>8, <1>9, <1>10, <1>11, <1>12 DEF ImagesInv

\* A request is cut short: noted with its job.
LEMMA CutKeeps ==
    ASSUME ImagesInv, NEW c \in Calls, CallCut(c)
    PROVE  ImagesInv'
<1>1. /\ UNCHANGED <<blob, urls, object, version, golden, capture, script, cleared, ops>>
      /\ call[c].pc \in {"blob", "insert", "advance", "golden"}
      /\ call' = [call EXCEPT ![c].pc = "refused"] /\ cut' = cut \cup {call[c].job}
      /\ Fault
  BY DEF CallCut
<1>2. /\ call' \in [Calls -> Completions]
      /\ call'[c].pc = "refused" /\ call'[c].job = call[c].job /\ call'[c].sha = call[c].sha
      /\ \A d \in Calls : d # c => call'[d] = call[d]
  BY <1>1, CallFacts
<1>3. call[c].job \in Captures /\ faults' \in 0..MaxFaults
  BY <1>1, IngestAssumption DEF ImagesInv, ImagesTypeOK, CallOK, Fault
<1>4. ImagesTypeOK'
  BY <1>1, <1>2, <1>3 DEF ImagesInv, ImagesTypeOK
<1>5. Placed' /\ VersionsOK'
  BY <1>1 DEF ImagesInv, Placed, VersionsOK
<1>6. CallOK(c)'
  BY <1>1, <1>2 DEF ImagesInv, CallOK, Stored
<1>7. (\A x \in Captures : ScriptOK(x)') /\ \A d \in Calls : d # c => CallOK(d)'
  BY <1>1, <1>2, Monotone
<1>8. ASSUME NEW x \in Captures PROVE CompletedOK(x)'
  <2>1. call[c].job = x => Flagged(x)'
    BY <1>1 DEF Flagged
  <2> QED BY <1>1, <1>2, <2>1, CompletedStays
<1> QED BY <1>4, <1>5, <1>6, <1>7, <1>8 DEF ImagesInv

\* A call of an operator that is about driver packs, or no step of ingest.
LEMMA OthersKeep ==
    ASSUME ImagesInv, ops' \in 0..MaxOps,
           UNCHANGED <<blob, urls, object, version, golden, capture, script, call, cleared, cut, faults>>
    PROVE  ImagesInv'
<1>1. ImagesTypeOK'
  BY DEF ImagesInv, ImagesTypeOK
<1>2. Placed' /\ VersionsOK'
  BY DEF ImagesInv, Placed, VersionsOK
<1>3. (\A x \in Captures : ScriptOK(x)') /\ \A c \in Calls : CallOK(c)'
  BY Monotone
<1>4. \A x \in Captures : CompletedOK(x)'
  BY CompletedStays
<1> QED BY <1>1, <1>2, <1>3, <1>4 DEF ImagesInv

\* Every step of operators, scripts and capture requests keeps the invariant.
LEMMA NextImages ==
    ASSUME ImagesInv, IngestNext
    PROVE  ImagesInv'
<1>1. ASSUME NEW s \in Shas, createBlob(s) \/ VendorPuts(s) \/ VendorRegisters(s) PROVE ImagesInv'
  BY <1>1, BlobKeeps, VendorPutsKeeps, VendorRegistersKeeps
<1>2. ASSUME NEW u \in urls, PutObject(u) PROVE ImagesInv'
  BY <1>2, PutKeeps
<1>3. ASSUME NEW i \in Images, createImageVersion(i) \/ updateImageMedia(i) PROVE ImagesInv'
  BY <1>3, VersionKeeps, MediaKeeps
<1>4. ASSUME NEW j \in Captures,
             \/ captureScript(j) \/ captureUpload(j) \/ ScriptPuts(j) \/ CaptureFails(j)
             \/ \E c \in Calls : ScriptFinishes(j, c)
      PROVE  ImagesInv'
  BY <1>4, StartKeeps, UploadKeeps, ScriptPutsKeeps, FailKeeps, FinishKeeps
<1>5. ASSUME NEW c \in Calls, GetBlobBySHA(c) PROVE ImagesInv'
  <2> DEFINE x == IF blob[call[c].sha] = {} THEN "refused" ELSE "insert"
  <2>1. /\ x \in {"insert", "refused"} /\ call[c].pc = "blob" /\ call' = [call EXCEPT ![c].pc = x]
        /\ UNCHANGED <<blob, urls, object, version, golden, capture, script, cleared, cut, ops, faults>>
    BY <1>5 DEF GetBlobBySHA
  <2> HIDE DEF x
  <2> QED BY <2>1, CallMoves
<1>6. ASSUME NEW c \in Calls,
             \/ CaptureVersion(c) \/ CaptureAdvance(c) \/ captureComplete(c)
             \/ CaptureAnswer(c) \/ CallCut(c)
      PROVE  ImagesInv'
  BY <1>6, CaptureVersionKeeps, AdvanceKeeps, GoldenKeeps, AnswerKeeps, CutKeeps
<1> QED BY <1>1, <1>2, <1>3, <1>4, <1>5, <1>6 DEF IngestNext

-----------------------------------------------------------------------------
(***************************************************************************)
(* The theorems.                                                           *)
(***************************************************************************)

IInv == ImagesInv /\ DriversInv

\* The parts keep their invariants, alone and in the calls that touch both.
LEMMA NextIInv == IInv /\ [Next]_vars => IInv'
<1> SUFFICES ASSUME ImagesInv, DriversInv, [Next]_vars PROVE ImagesInv' /\ DriversInv'
  BY DEF IInv
<1>1. ops \in 0..MaxOps
  BY DEF ImagesInv, ImagesTypeOK
<1>2. CASE IngestNext /\ UNCHANGED driverVars
  BY <1>2, NextImages, NextDrivers
<1>3. CASE DriversNext /\ UNCHANGED ingestVars
  BY <1>1, <1>3, OthersKeep, NextDrivers DEF ingestVars
<1>4. ASSUME NEW p \in Packs, RegisterPack(p) \/ UnregisterPack(p) PROVE ImagesInv' /\ DriversInv'
  <2>1. /\ Operate
        /\ UNCHANGED <<blob, urls, object, version, golden, capture, script, call, cleared, cut, faults>>
        /\ createDriverPack(p) \/ deleteDriverPackVersion(p)
    BY <1>4 DEF RegisterPack, UnregisterPack
  <2>2. ops' \in 0..MaxOps
    BY <1>1, <2>1, IngestAssumption DEF Operate
  <2> QED BY <2>1, <2>2, OthersKeep, NextDrivers
<1>5. ASSUME NEW p \in Packs, VendorRegistersPack(p) PROVE ImagesInv' /\ DriversInv'
  <2>1. UNCHANGED ingestVars /\ runVendorFetch(p)
    BY <1>5 DEF VendorRegistersPack
  <2>2. ImagesInv'
    BY <1>1, <2>1, OthersKeep DEF ingestVars
  <2> QED BY <2>1, <2>2, NextDrivers
<1>6. CASE UNCHANGED vars
  BY <1>1, <1>6, OthersKeep, NextDrivers DEF vars, ingestVars
<1> QED BY <1>2, <1>3, <1>4, <1>5, <1>6 DEF Next

\* The invariant holds throughout, whatever is registered at the start.
THEOREM Invariance == Spec => []IInv
<1>1. Init => IInv
  BY InitImages, InitDrivers DEF Init, IInv
<1> QED BY <1>1, NextIInv, PTL DEF Spec

\* Rows, scripts and requests of captures, and packs, inventories, plans and
\* requests of drivers keep their types; in particular a digest never gets a
\* second place (CreateBlob: ON CONFLICT).
THEOREM TypeCorrect == Spec => []TypeOK
<1>1. IInv => TypeOK
  <2> SUFFICES ASSUME ImagesInv PROVE IngestTypeOK
    BY DEF IInv, DriversInv, TypeOK
  <2>1. \A s \in Shas : Cardinality(blob[s]) <= 1
    <3>1. \A s \in Shas : blob[s] = {} \/ \E place \in Places : blob[s] = {place}
      BY DEF ImagesInv, Placed
    <3>2. Cardinality({}) = 0
      BY FS_EmptySet
    <3>3. \A x : Cardinality({x}) = 1
      BY FS_Singleton
    <3> QED BY <3>1, <3>2, <3>3
  <2>2. \A j \in Captures : /\ script[j].pc \in {"off", "register", "upload", "finish", "wait"}
                            /\ script[j].url \subseteq Places
    BY DEF ImagesInv, ImagesTypeOK, Scripts
  <2>3. \A c \in Calls : call[c].pc \in {"idle", "blob", "insert", "advance", "golden", "refused", "done"}
    BY DEF ImagesInv, ImagesTypeOK, Completions
  <2> QED BY <2>1, <2>2, <2>3 DEF ImagesInv, ImagesTypeOK, IngestTypeOK, Versions, AllTags
<1> QED BY <1>1, Invariance, PTL

\* A completed capture has a version of its own that can be restored, one if
\* its tag was named, and its Linux image is golden or about to be, unless the
\* request was cut short or an operator wrote the media (captureComplete).
THEOREM Deployable == Spec => []CaptureIsDeployable
<1>1. IInv => CaptureIsDeployable
  <2> SUFFICES ASSUME ImagesInv, NEW j \in Captures, capture[j] = "completed"
               PROVE  LET made == {v \in version : v.by = j}
                      IN  /\ \E v \in made : v.image = Target[j].image /\ Stored(v.sha)
                          /\ Target[j].tag # Now => Cardinality(made) = 1
                          /\ Target[j].image \in Linux =>
                                \/ Target[j].image \in golden \cup cleared
                                \/ j \in cut
                                \/ \E c \in Calls : call[c].job = j /\ call[c].pc = "golden"
    BY DEF IInv, CaptureIsDeployable
  <2> DEFINE made == {v \in version : v.by = j}
  <2>1. Restorable(j) /\ Flagged(j)
    BY DEF ImagesInv, CompletedOK
  <2>2. PICK v \in made : v.image = Target[j].image /\ Stored(v.sha)
    BY <2>1 DEF Restorable
  <2>3. ASSUME Target[j].tag # Now PROVE Cardinality(made) = 1
    <3>1. \A w \in made : w.image = Target[j].image /\ w.tag = Target[j].tag
      BY <2>3 DEF ImagesInv, VersionsOK
    <3>2. \A w \in made : w = v
      BY <3>1 DEF ImagesInv, VersionsOK
    <3>3. made = {v}
      BY <3>2
    <3> QED BY <3>3, FS_Singleton
  <2>4. Target[j].image \in Linux =>
          \/ Target[j].image \in golden \cup cleared
          \/ j \in cut
          \/ \E c \in Calls : call[c].job = j /\ call[c].pc = "golden"
    BY <2>1 DEF Flagged
  <2> QED BY <2>2, <2>3, <2>4
<1> QED BY <1>1, Invariance, PTL

\* While nothing changed since the plan, drivers.zip is the pack the plan put
\* first, and one for a device of the machine if there is one (winpePlan,
\* winpeDrivers).
THEOREM FollowPlan == Spec => []DriversFollowPlan
<1>1. IInv => DriversFollowPlan
  BY DriversFollow DEF IInv
<1> QED BY <1>1, Invariance, PTL

=============================================================================
