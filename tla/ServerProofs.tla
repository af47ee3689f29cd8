---------------------------- MODULE ServerProofs ----------------------------
(***************************************************************************)
(* Proofs about the server: how it starts (Startup), what operators        *)
(* administer (Catalogue) and what a booting target is served (BootRender),*)
(* for every number of processes, migrations, rows and requests.           *)
(*                                                                         *)
(* Start.  What a process has seen of schema_migrations stays true, since  *)
(* rows are only added: Prepared says what each step of a process may rely *)
(* on.                                                                     *)
(*                                                                         *)
(* Catalogue.  The DELETE in progress names a row of its table, and what   *)
(* refers to a row is there: CatalogueIInv.                                *)
(*                                                                         *)
(* Boot.  A request knows at each lookup what the lookups before have read *)
(* and which branch they chose; as long as it is calm, that agrees with    *)
(* the view of its deployment: BootIInv.                                   *)
(***************************************************************************)
EXTENDS Startup, BootRender, WellFoundedInduction, TLAPS

-----------------------------------------------------------------------------
(***************************************************************************)
(* Start-up.                                                               *)
(***************************************************************************)

\* Migrations have been recorded up to the one process p is at.
Migrated(p) ==
    /\ proc[p].pc = "open" => proc[p].next = 1
    /\ proc[p].pc \in {"check", "apply", "record"} =>
          \A m \in 1..Last : m < proc[p].next => m \in recorded
    /\ proc[p].pc \in {"apply", "record"} => proc[p].next <= Last
    /\ proc[p].pc = "record" => proc[p].next \in applied
    /\ proc[p].pc \in {"audit", "auth", "listen", "seed", "serving"} => 1..Last \subseteq recorded

\* The checks that serve has passed.
Protected(p) ==
    /\ proc[p].pc \in {"listen", "serving"} => up[p].auth \/ env[p].openOK
    /\ proc[p].pc = "serving" => up[p].mtls \/ env[p].plainOK

Prepared == \A p \in Procs : Migrated(p) /\ Protected(p)

\* The schema has what is recorded, and nothing twice.
Schema == twice = {} /\ recorded \subseteq applied

StartupIInv == StartupTypeOK /\ Schema /\ Prepared

-----------------------------------------------------------------------------
\* Goto moves process p and no other.
LEMMA GotoType ==
    ASSUME StartupTypeOK, NEW p \in Procs, NEW pc \in Steps, Goto(p, pc)
    PROVE  /\ proc' \in [Procs -> [pc : Steps, next : 1..(Last + 1)]]
           /\ proc'[p].pc = pc /\ proc'[p].next = proc[p].next
           /\ \A q \in Procs \ {p} : proc'[q] = proc[q]
BY DEF StartupTypeOK, Goto

\* Exit leaves it down or ended.
LEMMA ExitType ==
    ASSUME StartupTypeOK, NEW p \in Procs, Exit(p)
    PROVE  /\ proc' \in [Procs -> [pc : Steps, next : 1..(Last + 1)]]
           /\ proc'[p].pc \in {"down", "ended"}
           /\ \A q \in Procs \ {p} : proc'[q] = proc[q]
BY GotoType DEF Exit, Steps

\* A first installation and an upgrade satisfy the invariant.
LEMMA InitStartup == StartupInit => StartupIInv
BY StartupAssumption DEF StartupInit, StartupIInv, StartupTypeOK, Schema, Prepared, Migrated,
                         Protected, Env, Steps, Off, Migrations

\* A step of process p keeps types and schema, adds rows only, and leaves p
\* prepared for its next step.
LEMMA StepStartup ==
    ASSUME StartupIInv, NEW p \in Procs, Step(p) \/ Stop(p)
    PROVE  /\ StartupTypeOK' /\ Schema'
           /\ recorded \subseteq recorded' /\ applied \subseteq applied' /\ env' = env
           /\ \A q \in Procs \ {p} : proc'[q] = proc[q] /\ up'[q] = up[q]
           /\ Migrated(p)' /\ Protected(p)'
<1> USE StartupAssumption DEF StartupIInv, Schema, Prepared, Migrated, Protected
<1>1. CASE main(p)
  BY <1>1 DEF main, StartupTypeOK, Steps, Migrations
<1>2. CASE openStore(p)
  <2>1. CASE Goto(p, "check") /\ UNCHANGED faults
    <3> "check" \in Steps
      BY DEF Steps
    <3> QED BY <1>2, <2>1, GotoType DEF openStore, StartupTypeOK
  <2>2. CASE Exit(p) /\ Fault
    BY <1>2, <2>2, ExitType DEF openStore, Fault, StartupTypeOK
  <2> QED BY <1>2, <2>1, <2>2 DEF openStore
<1>3. CASE CheckMigration(p)
  <2> DEFINE m == proc[p].next
  <2>0. m \in 1..(Last + 1)
    BY DEF StartupTypeOK
  <2>1. CASE m > Last /\ Goto(p, AfterMigrateUp(p))
    <3>1. AfterMigrateUp(p) \in {"audit", "seed", "ended"} /\ AfterMigrateUp(p) \in Steps
      BY DEF AfterMigrateUp, Steps
    <3>2. 1..Last \subseteq recorded
      BY <1>3, <2>0, <2>1 DEF CheckMigration
    <3> QED BY <1>3, <2>1, <3>1, <3>2, GotoType DEF CheckMigration, StartupTypeOK
  <2>2. CASE m \in recorded /\ proc' = [proc EXCEPT ![p].next = m + 1]
    <3>1. m \in 1..Last
      BY <2>2 DEF StartupTypeOK, Migrations
    <3>2. /\ proc' \in [Procs -> [pc : Steps, next : 1..(Last + 1)]]
          /\ proc'[p].pc = "check" /\ proc'[p].next = m + 1
          /\ \A q \in Procs \ {p} : proc'[q] = proc[q]
      BY <1>3, <2>2, <3>1 DEF CheckMigration, StartupTypeOK
    <3>3. \A k \in 1..Last : k < m + 1 => k \in recorded
      BY <1>3, <2>0, <2>2 DEF CheckMigration
    <3> QED BY <1>3, <3>2, <3>3 DEF CheckMigration, StartupTypeOK
  <2>3. CASE m <= Last /\ m \notin recorded /\ Goto(p, "apply")
    <3> "apply" \in Steps
      BY DEF Steps
    <3> QED BY <1>3, <2>3, GotoType DEF CheckMigration, StartupTypeOK
  <2> QED BY <1>3, <2>1, <2>2, <2>3 DEF CheckMigration
<1>4. CASE ApplyMigration(p)
  <2> DEFINE m == proc[p].next
  <2>0. m \in 1..Last
    BY <1>4 DEF ApplyMigration, StartupTypeOK
  <2>1. CASE BodySucceeds(m) /\ Goto(p, "record")
    <3> "record" \in Steps
      BY DEF Steps
    <3>1. applied' = applied \cup {m} /\ twice' = {}
      BY <1>4, <2>1 DEF ApplyMigration, BodySucceeds
    <3> QED BY <1>4, <2>0, <2>1, <3>1, GotoType DEF ApplyMigration, StartupTypeOK, Migrations
  <2>2. CASE ~BodySucceeds(m)
    BY <1>4, <2>2, ExitType DEF ApplyMigration, StartupTypeOK
  <2> QED BY <1>4, <2>1, <2>2 DEF ApplyMigration
<1>5. CASE RecordMigration(p)
  <2> DEFINE m == proc[p].next
  <2>0. m \in 1..Last
    BY <1>5 DEF RecordMigration, StartupTypeOK
  <2>1. CASE m \notin recorded
    <3>1. recorded' = recorded \cup {m}
      BY <1>5, <2>1 DEF RecordMigration, Record
    <3>2. /\ proc' \in [Procs -> [pc : Steps, next : 1..(Last + 1)]]
          /\ proc'[p].pc = "check" /\ proc'[p].next = m + 1
          /\ \A q \in Procs \ {p} : proc'[q] = proc[q]
      BY <1>5, <2>0, <2>1 DEF RecordMigration, StartupTypeOK, Steps
    <3>3. \A k \in 1..Last : k < m + 1 => k \in recorded'
      BY <1>5, <2>0, <3>1 DEF RecordMigration
    <3>4. m \in applied
      BY <1>5 DEF RecordMigration
    <3> QED BY <1>5, <2>0, <3>1, <3>2, <3>3, <3>4 DEF RecordMigration, StartupTypeOK, Migrations
  <2>2. CASE m \in recorded
    BY <1>5, <2>2, ExitType DEF RecordMigration, StartupTypeOK
  <2> QED BY <2>1, <2>2
<1>6. CASE seedAdmin(p)
  <2> "ended" \in Steps
    BY DEF Steps
  <2> QED BY <1>6, GotoType DEF seedAdmin, StartupTypeOK
<1>7. CASE openAuditLog(p)
  <2>1. CASE Goto(p, "auth")
    <3> "auth" \in Steps
      BY DEF Steps
    <3> QED BY <1>7, <2>1, GotoType DEF openAuditLog, StartupTypeOK
  <2>2. CASE Exit(p)
    BY <1>7, <2>2, ExitType DEF openAuditLog, StartupTypeOK
  <2>3. Goto(p, "auth") \/ Exit(p)
    BY <1>7, Zenon DEF openAuditLog
  <2> QED BY <2>1, <2>2, <2>3
<1>8. CASE newVerifier(p)
  <2>0. faults' \in 0..MaxFaults
    BY <1>8 DEF newVerifier, Fault, StartupTypeOK
  <2>1. CASE Goto(p, "listen") /\ up' = [up EXCEPT ![p].auth = TRUE]
    <3> "listen" \in Steps
      BY DEF Steps
    <3>1. /\ up' \in [Procs -> [auth : BOOLEAN, mtls : BOOLEAN]]
          /\ up'[p].auth
          /\ \A q \in Procs \ {p} : up'[q] = up[q]
      BY <2>1 DEF StartupTypeOK
    <3> QED BY <1>8, <2>0, <2>1, <3>1, GotoType DEF newVerifier, StartupTypeOK
  <2>2. CASE Goto(p, "listen") /\ env[p].openOK /\ UNCHANGED up
    <3> "listen" \in Steps
      BY DEF Steps
    <3> QED BY <1>8, <2>0, <2>2, GotoType DEF newVerifier, StartupTypeOK
  <2>3. CASE Exit(p) /\ UNCHANGED up
    BY <1>8, <2>0, <2>3, ExitType DEF newVerifier, StartupTypeOK
  <2>4. \/ Goto(p, "listen") /\ up' = [up EXCEPT ![p].auth = TRUE]
        \/ Goto(p, "listen") /\ env[p].openOK /\ UNCHANGED up
        \/ Exit(p) /\ UNCHANGED up
    BY <1>8, Zenon DEF newVerifier
  <2> QED BY <2>1, <2>2, <2>3, <2>4
<1>9. CASE listenInternal(p)
  <2>1. CASE Goto(p, "serving") /\ up' = [up EXCEPT ![p].mtls = TRUE]
    <3> "serving" \in Steps
      BY DEF Steps
    <3>1. /\ up' \in [Procs -> [auth : BOOLEAN, mtls : BOOLEAN]]
          /\ up'[p].mtls /\ up'[p].auth = up[p].auth
          /\ \A q \in Procs \ {p} : up'[q] = up[q]
      BY <2>1 DEF StartupTypeOK
    <3> QED BY <1>9, <2>1, <3>1, GotoType DEF listenInternal, StartupTypeOK
  <2>2. CASE Goto(p, "serving") /\ env[p].plainOK /\ UNCHANGED up
    <3> "serving" \in Steps
      BY DEF Steps
    <3> QED BY <1>9, <2>2, GotoType DEF listenInternal, StartupTypeOK
  <2>3. CASE Exit(p) /\ up' = [up EXCEPT ![p] = Off]
    BY <1>9, <2>3, ExitType DEF listenInternal, Off, StartupTypeOK
  <2>4. \/ Goto(p, "serving") /\ up' = [up EXCEPT ![p].mtls = TRUE]
        \/ Goto(p, "serving") /\ env[p].plainOK /\ UNCHANGED up
        \/ Exit(p) /\ up' = [up EXCEPT ![p] = Off]
    BY <1>9, Zenon DEF listenInternal
  <2> QED BY <2>1, <2>2, <2>3, <2>4
<1>10. CASE Stop(p)
  <2>1. torn' \subseteq Migrations
    BY <1>10 DEF Stop, StartupTypeOK, Migrations
  <2> QED BY <1>10, <2>1, ExitType DEF Stop, Fault, Off, StartupTypeOK, Migrations
<1> QED
  BY <1>1, <1>2, <1>3, <1>4, <1>5, <1>6, <1>7, <1>8, <1>9, <1>10 DEF Step, MigrateUp, serve

\* The invariant is inductive: what another process relies on only grows.
LEMMA NextStartup == StartupIInv /\ [StartupNext]_startupVars => StartupIInv'
<1> SUFFICES ASSUME StartupIInv, [StartupNext]_startupVars PROVE StartupIInv'
  OBVIOUS
<1>1. CASE UNCHANGED startupVars
  BY <1>1 DEF startupVars, StartupIInv, StartupTypeOK, Schema, Prepared, Migrated, Protected
<1>2. ASSUME NEW p \in Procs, Step(p) \/ Stop(p) PROVE StartupIInv'
  <2>1. /\ StartupTypeOK' /\ Schema'
        /\ recorded \subseteq recorded' /\ applied \subseteq applied' /\ env' = env
        /\ \A q \in Procs \ {p} : proc'[q] = proc[q] /\ up'[q] = up[q]
        /\ Migrated(p)' /\ Protected(p)'
    BY <1>2, StepStartup
  <2>2. ASSUME NEW q \in Procs, q # p PROVE Migrated(q)' /\ Protected(q)'
    BY <2>1, <2>2 DEF StartupIInv, Prepared, Migrated, Protected
  <2> QED BY <2>1, <2>2 DEF StartupIInv, Prepared
<1> QED BY <1>1, <1>2 DEF StartupNext

-----------------------------------------------------------------------------
\* Rows of schema_migrations, processes and what they have switched on keep
\* their types, whoever migrates at the same time.
THEOREM StartupTypeCorrect == StartupSpec => []StartupTypeOK
<1>1. StartupIInv => StartupTypeOK
  BY DEF StartupIInv
<1> QED BY InitStartup, NextStartup, <1>1, PTL DEF StartupSpec

\* However many processes start, migrate and stop at the same time, one that
\* answers its health check has every migration applied, none twice, and
\* lacks a protection only where the environment waives it.
THEOREM Ready == StartupSpec => []ServesOnlyReady
<1>1. StartupIInv => ServesOnlyReady
  BY DEF StartupIInv, StartupTypeOK, Schema, Prepared, Migrated, Protected, ServesOnlyReady,
         healthcheck, Migrations
<1> QED BY InitStartup, NextStartup, <1>1, PTL DEF StartupSpec

-----------------------------------------------------------------------------
(***************************************************************************)
(* The catalogue: foreign keys, not the counts that precede a DELETE, keep *)
(* the references.                                                         *)
(***************************************************************************)

\* The DELETE in progress is of a row of its table.
DelOK ==
    /\ del.pc = "machine" => del.of \in Machines
    /\ del.pc \in {"machines", "profile"} => del.of \in Profiles
    /\ del.pc = "image" => del.of \in Images

\* Inductive for the catalogue.
CatalogueIInv == CatalogueTypeOK /\ DelOK /\ ReferencesHold

\* A catalogue that an operator has set up is whole.
LEMMA InitCatalogue == CatalogueInit => CatalogueIInv
  <1> SUFFICES ASSUME CatalogueInit PROVE CatalogueIInv
    OBVIOUS
  <1>1. PICK set \in Starts :
           /\ image = set.image /\ profile = set.profile /\ templates = set.templates
           /\ machine = set.machine /\ site = set.site
    BY DEF CatalogueInit
  <1>2. /\ image \in [Images -> Methods] /\ profile \in [Profiles -> Images]
        /\ templates \in SUBSET Profiles /\ machine \in [Machines -> Profiles \cup {None}]
        /\ site \in [Machines -> Sites \cup {None}]
    BY <1>1, CatalogueAssumption
  <1>3. /\ versions = Images /\ mirror = [s \in Sites |-> "mirror"] /\ deps = << >>
        /\ del = Resting /\ edits = 0
    BY DEF CatalogueInit
  <1>4. CatalogueTypeOK
    <2>1. << >> \in Seq(Deployments) /\ Len(<< >>) = 0
      OBVIOUS
    <2>. QED BY <1>2, <1>3, <2>1, CatalogueAssumption DEF CatalogueTypeOK, Resting
  <1>5. DelOK
    BY <1>3 DEF DelOK, Resting
  <1>6. ReferencesHold
    BY <1>2, <1>3, CatalogueAssumption DEF ReferencesHold, Methods, Absent
  <1>. QED BY <1>4, <1>5, <1>6 DEF CatalogueIInv

\* A set of naturals that is not empty has a least element.
LEMMA LeastNat ==
  ASSUME NEW T \in SUBSET Nat, T # {}
  PROVE  \E x \in T : \A y \in T : x <= y
<1> DEFINE R == OpToRel(<, Nat)
<1>1. IsWellFoundedOn(R, Nat)
  BY NatLessThanWellFounded
<1>2. \A x, y \in Nat : x < y => <<x, y>> \in R
  BY DEF OpToRel
<1> HIDE DEF R
<1>3. PICK x \in T : \A y \in T : ~(<<y, x>> \in R)
  BY <1>1, WFMin
<1>4. ASSUME NEW y \in T PROVE x <= y
  <2>1. x \in Nat /\ y \in Nat
    OBVIOUS
  <2>2. ~(<<y, x>> \in R)
    BY <1>3
  <2>3. ~(y < x)
    BY <1>2, <2>1, <2>2
  <2> QED BY <2>1, <2>3
<1> QED BY <1>4

\* Deployments, if there are any, have a newest one among them.
LEMMA NewestJob ==
  ASSUME CatalogueTypeOK, NEW ds \in SUBSET DOMAIN deps, ds # {}
  PROVE  Newest(ds) \in ds
  <1> DEFINE n == Len(deps)
             T == {n - d : d \in ds}
  <1>1. n \in Nat /\ DOMAIN deps = 1..n /\ ds \subseteq 1..n
    BY DEF CatalogueTypeOK
  <1> HIDE DEF n
  <1>2. T \in SUBSET Nat /\ T # {}
    BY <1>1
  <1>3. \E x \in T : \A y \in T : x <= y
    <2> HIDE DEF T
    <2>. QED BY <1>2, LeastNat
  <1>4. PICK d \in ds : \A y \in T : n - d <= y
    BY <1>3
  <1>5. ASSUME NEW e \in ds PROVE e <= d
    <2>1. n - e \in T
      OBVIOUS
    <2>2. d \in 1..n /\ e \in 1..n
      BY <1>1
    <2> HIDE DEF T
    <2>3. n - d <= n - e
      BY <1>4, <2>1
    <2>. QED BY <1>1, <2>2, <2>3
  <1>. QED BY <1>5 DEF Newest

\* A deployment that is added, moves on, or has a new token or none, keeps its
\* references.
LEMMA DeployCatalogue ==
  ASSUME CatalogueIInv, Deploy
  PROVE  /\ CatalogueIInv'
         /\ Len(deps) <= Len(deps')
         /\ \A d \in DOMAIN deps : /\ d \in DOMAIN deps' /\ deps'[d].machine = deps[d].machine
                                   /\ deps'[d].profile = deps[d].profile
                                   /\ deps'[d].kind = deps[d].kind
  <1> DEFINE Kept == /\ CatalogueIInv' /\ Len(deps) <= Len(deps')
                     /\ \A d \in DOMAIN deps : /\ d \in DOMAIN deps'
                                               /\ deps'[d].machine = deps[d].machine
                                               /\ deps'[d].profile = deps[d].profile
                                               /\ deps'[d].kind = deps[d].kind
  <1> HIDE DEF Kept
  <1>0. /\ deps \in Seq(Deployments) /\ Len(deps) <= MaxDeployments /\ MaxDeployments \in Nat
        /\ edits \in 0..MaxEdits /\ MaxEdits \in Nat /\ CatalogueTypeOK
    BY CatalogueAssumption DEF CatalogueIInv, CatalogueTypeOK
  <1>1. ASSUME NEW new \in Deployments, deps' = Append(deps, new), Len(deps) < MaxDeployments,
               UNCHANGED <<image, versions, profile, templates, machine, site, mirror, del>>, Edit,
               machine[new.machine] # Absent, profile[new.profile] # None,
               new.target # None => image[new.target] # Absent
        PROVE  Kept
    <2>1. /\ deps' \in Seq(Deployments) /\ Len(deps') = Len(deps) + 1
          /\ DOMAIN deps' = 1..(Len(deps) + 1) /\ DOMAIN deps = 1..Len(deps) /\ Len(deps) \in Nat
          /\ \A d \in 1..Len(deps) : deps'[d] = deps[d]
          /\ deps'[Len(deps) + 1] = new
      BY <1>0, <1>1
    <2>2. CatalogueTypeOK'
      BY <1>0, <1>1, <2>1 DEF CatalogueTypeOK, Edit
    <2>3. DelOK'
      BY <1>1 DEF CatalogueIInv, DelOK
    <2>4. \A d \in DOMAIN deps' : d \in DOMAIN deps \/ d = Len(deps) + 1
      BY <2>1
    <2>5. ReferencesHold'
      BY <1>1, <2>1, <2>4 DEF CatalogueIInv, ReferencesHold
    <2>. QED BY <2>1, <2>2, <2>3, <2>5 DEF CatalogueIInv, Kept
  <1>2. ASSUME NEW e \in DOMAIN deps, NEW r \in Deployments, deps' = [deps EXCEPT ![e] = r],
               r.machine = deps[e].machine, r.profile = deps[e].profile, r.kind = deps[e].kind,
               r.target = deps[e].target,
               UNCHANGED <<image, versions, profile, templates, machine, site, mirror, del, edits>>
        PROVE  Kept
    <2>1. /\ deps' \in Seq(Deployments) /\ Len(deps') = Len(deps) /\ DOMAIN deps' = DOMAIN deps
          /\ Len(deps) \in Nat
      BY <1>0, <1>2
    <2>2. \A d \in DOMAIN deps : /\ deps'[d].machine = deps[d].machine
                                 /\ deps'[d].profile = deps[d].profile
                                 /\ deps'[d].kind = deps[d].kind /\ deps'[d].target = deps[d].target
      BY <1>2
    <2>3. CatalogueTypeOK'
      BY <1>2, <2>1 DEF CatalogueIInv, CatalogueTypeOK
    <2>4. DelOK'
      BY <1>2 DEF CatalogueIInv, DelOK
    <2>5. ReferencesHold'
      BY <1>2, <2>1, <2>2 DEF CatalogueIInv, ReferencesHold
    <2>. QED BY <2>1, <2>2, <2>3, <2>4, <2>5 DEF CatalogueIInv, Kept
  <1>3. ASSUME NEW e \in DOMAIN deps, NEW t \in BOOLEAN,
               deps' = [deps EXCEPT ![e] = [@ EXCEPT !.token = t]],
               UNCHANGED <<image, versions, profile, templates, machine, site, mirror, del, edits>>
        PROVE  Kept
    <2> DEFINE r == [deps[e] EXCEPT !.token = t]
    <2>1. deps[e] \in Deployments
      BY <1>0
    <2>2. /\ r \in Deployments /\ r.machine = deps[e].machine /\ r.profile = deps[e].profile
          /\ r.kind = deps[e].kind /\ r.target = deps[e].target
      BY <2>1 DEF Deployments
    <2>3. deps' = [deps EXCEPT ![e] = r]
      BY <1>3
    <2> HIDE DEF r
    <2>. QED BY <1>2, <1>3, <2>2, <2>3
  <1>4. ASSUME NEW m \in Machines, NEW p \in Profiles, NEW kind \in Kinds,
               NEW i \in Images \cup {None}, issueDeployment(m, p, kind, i)
        PROVE  Kept
    <2> DEFINE new == [machine |-> m, profile |-> p, kind |-> kind, target |-> i,
                       state |-> "issued", token |-> FALSE]
    <2>1. /\ deps' = Append(deps, new) /\ Len(deps) < MaxDeployments /\ Edit
          /\ UNCHANGED <<image, versions, profile, templates, machine, site, mirror, del>>
          /\ machine[m] # Absent /\ profile[p] # None /\ (i # None => image[i] # Absent)
      BY <1>4 DEF issueDeployment, sites
    <2>2. new \in Deployments
      BY DEF Deployments, DepStates
    <2>3. new.machine = m /\ new.profile = p /\ new.target = i
      OBVIOUS
    <2> HIDE DEF new
    <2>. QED BY <1>1, <2>1, <2>2, <2>3
  <1>5. ASSUME NEW m \in Machines, NEW p \in Profiles, MintMenuBootToken(m, p)
        PROVE  Kept
    <2>0. /\ UNCHANGED <<image, versions, profile, templates, machine, site, mirror, del>>
          /\ machine[m] # Absent /\ profile[p] # None
      BY <1>5 DEF MintMenuBootToken, sites
    <2>1. CASE /\ OpenJobs(m, p) # {} /\ UNCHANGED edits
               /\ deps' = [deps EXCEPT ![Newest(OpenJobs(m, p))] = [@ EXCEPT !.token = TRUE]]
      <3>1. Newest(OpenJobs(m, p)) \in DOMAIN deps
        <4>1. OpenJobs(m, p) \in SUBSET DOMAIN deps
          BY DEF OpenJobs
        <4>. QED BY <1>0, <2>1, <4>1, NewestJob
      <3>. QED BY <1>3, <2>0, <2>1, <3>1
    <2>2. CASE /\ Len(deps) < MaxDeployments /\ Edit
               /\ deps' = Append(deps, [machine |-> m, profile |-> p, kind |-> "deploy",
                                        target |-> None, state |-> "pending", token |-> TRUE])
      <3> DEFINE new == [machine |-> m, profile |-> p, kind |-> "deploy",
                         target |-> None, state |-> "pending", token |-> TRUE]
      <3>1. new \in Deployments
        BY DEF Deployments, DepStates, Kinds
      <3>2. new.machine = m /\ new.profile = p /\ new.target = None
        OBVIOUS
      <3>3. deps' = Append(deps, new)
        BY <2>2
      <3> HIDE DEF new
      <3>. QED BY <1>1, <2>0, <2>2, <3>1, <3>2, <3>3
    <2>. QED BY <1>5, <2>1, <2>2 DEF MintMenuBootToken
  <1>6. ASSUME NEW e \in DOMAIN deps, DeploymentMoves(e)
        PROVE  Kept
    <2>1. PICK s \in DepStates, t \in BOOLEAN :
             deps' = [deps EXCEPT ![e] = [@ EXCEPT !.state = s, !.token = t]]
      BY <1>6 DEF DeploymentMoves
    <2>2. UNCHANGED <<image, versions, profile, templates, machine, site, mirror, del, edits>>
      BY <1>6 DEF DeploymentMoves, sites
    <2> DEFINE r == [deps[e] EXCEPT !.state = s, !.token = t]
    <2>3. deps[e] \in Deployments
      BY <1>0
    <2>4. /\ r \in Deployments /\ r.machine = deps[e].machine /\ r.profile = deps[e].profile
          /\ r.kind = deps[e].kind /\ r.target = deps[e].target
      BY <2>3 DEF Deployments
    <2>5. deps' = [deps EXCEPT ![e] = r]
      BY <2>1
    <2> HIDE DEF r
    <2>. QED BY <1>2, <2>2, <2>4, <2>5
  <1>7. ASSUME NEW e \in DOMAIN deps, TokenExpires(e)
        PROVE  Kept
    <2>1. deps' = [deps EXCEPT ![e] = [@ EXCEPT !.token = FALSE]]
      BY <1>7 DEF TokenExpires
    <2>2. UNCHANGED <<image, versions, profile, templates, machine, site, mirror, del, edits>>
      BY <1>7 DEF TokenExpires, sites
    <2>. QED BY <1>3, <2>1, <2>2
  <1>8. Kept
    BY <1>4, <1>5, <1>6, <1>7 DEF Deploy
  <1>. QED BY <1>8 DEF Kept

\* An operator's call that creates or changes a row refers to rows that are
\* there.
LEMMA EditCatalogue ==
  ASSUME CatalogueIInv,
         \/ \E i \in Images : \/ createImage(i) \/ installFromCatalog(i) \/ updateImage(i)
                              \/ createImageVersion(i)
         \/ \E p \in Profiles : \/ createProfile(p) \/ updateProfile(p)
                                \/ upsertProfileTemplate(p) \/ deleteProfileTemplate(p)
         \/ \E m \in Machines : createMachine(m) \/ updateMachine(m)
         \/ \E s \in Sites : upsertSite(s) \/ deleteSite(s)
  PROVE  CatalogueIInv' /\ UNCHANGED deps
  <1>0. CatalogueTypeOK /\ DelOK /\ ReferencesHold
    BY DEF CatalogueIInv
  <1>1. UNCHANGED <<deps, del>> /\ edits < MaxEdits /\ edits' = edits + 1
    BY DEF createImage, installFromCatalog, updateImage, createImageVersion, createProfile,
           updateProfile, upsertProfileTemplate, deleteProfileTemplate, createMachine, updateMachine,
           upsertSite, deleteSite, Edit
  <1>2. edits' \in 0..MaxEdits /\ DelOK'
    BY <1>0, <1>1, CatalogueAssumption DEF CatalogueTypeOK, DelOK
  <1>3. \A d \in DOMAIN deps : /\ deps[d].machine \in Machines /\ deps[d].profile \in Profiles
                               /\ deps[d].target \in Images \cup {None}
    <2>1. \A d \in DOMAIN deps : deps[d] \in Deployments
      BY <1>0 DEF CatalogueTypeOK
    <2>. QED BY <2>1 DEF Deployments
  <1>4. ASSUME NEW i \in Images, NEW how \in Methods, image' = [image EXCEPT ![i] = how],
               UNCHANGED <<versions, profile, templates, machine, site, mirror>>
        PROVE  CatalogueIInv'
    <2>1. CatalogueTypeOK'
      BY <1>0, <1>1, <1>2, <1>4 DEF CatalogueTypeOK
    <2>2. \A h \in Images : image[h] # Absent => image'[h] # Absent
      BY <1>0, <1>4 DEF CatalogueTypeOK, Methods, Absent
    <2>3. ReferencesHold'
      BY <1>0, <1>1, <1>3, <1>4, <2>2 DEF ReferencesHold, CatalogueTypeOK
    <2>. QED BY <1>2, <2>1, <2>3 DEF CatalogueIInv
  <1>5. ASSUME NEW p \in Profiles, NEW i \in Images, image[i] # Absent,
               profile' = [profile EXCEPT ![p] = i],
               UNCHANGED <<image, versions, templates, machine, site, mirror>>
        PROVE  CatalogueIInv'
    <2>1. CatalogueTypeOK'
      BY <1>0, <1>1, <1>2, <1>5 DEF CatalogueTypeOK
    <2>2. i # None
      BY CatalogueAssumption
    <2>3. /\ \A q \in Profiles : profile[q] # None => profile'[q] # None
          /\ \A q \in Profiles : profile'[q] # None => image[profile'[q]] # Absent
      BY <1>0, <1>5, <2>2 DEF CatalogueTypeOK, ReferencesHold
    <2>4. ReferencesHold'
      BY <1>0, <1>1, <1>3, <1>5, <2>3 DEF ReferencesHold
    <2>. QED BY <1>2, <2>1, <2>4 DEF CatalogueIInv
  <1>6. ASSUME NEW m \in Machines, NEW p \in Profiles \cup {None}, p # None => profile[p] # None,
               machine' = [machine EXCEPT ![m] = p], site' \in [Machines -> Sites \cup {None}],
               UNCHANGED <<image, versions, profile, templates, mirror>>
        PROVE  CatalogueIInv'
    <2>1. CatalogueTypeOK'
      BY <1>0, <1>1, <1>2, <1>6 DEF CatalogueTypeOK
    <2>2. p # Absent
      BY CatalogueAssumption DEF None, Absent
    <2>3. ReferencesHold'
      BY <1>0, <1>1, <1>3, <1>6, <2>2, CatalogueAssumption DEF ReferencesHold, CatalogueTypeOK
    <2>. QED BY <1>2, <2>1, <2>3 DEF CatalogueIInv
  <1>7. ASSUME versions' \subseteq Images, templates' \subseteq Profiles,
               mirror' \in [Sites -> {Absent, None, "mirror"}],
               site' \in [Machines -> Sites \cup {None}],
               UNCHANGED <<image, profile, machine>>
        PROVE  CatalogueIInv'
    <2>1. CatalogueTypeOK'
      BY <1>0, <1>1, <1>2, <1>7 DEF CatalogueTypeOK
    <2>2. ReferencesHold'
      BY <1>0, <1>1, <1>7 DEF ReferencesHold
    <2>. QED BY <1>2, <2>1, <2>2 DEF CatalogueIInv
  <1>8. ASSUME NEW i \in Images, createImage(i) \/ installFromCatalog(i) \/ updateImage(i)
        PROVE  CatalogueIInv'
    <2>1. PICK how \in Methods : image' = [image EXCEPT ![i] = how]
      BY <1>8 DEF createImage, installFromCatalog, updateImage, CreateImage, UpdateImage, Methods
    <2>2. UNCHANGED <<versions, profile, templates, machine, site, mirror>>
      BY <1>8 DEF createImage, installFromCatalog, updateImage, sites
    <2>. QED BY <1>4, <2>1, <2>2
  <1>9. ASSUME NEW p \in Profiles, createProfile(p) \/ updateProfile(p) PROVE CatalogueIInv'
    <2>1. PICK i \in Images : image[i] # Absent /\ profile' = [profile EXCEPT ![p] = i]
      BY <1>9 DEF createProfile, updateProfile, CreateProfile, UpdateProfile
    <2>2. UNCHANGED <<image, versions, templates, machine, site, mirror>>
      BY <1>9 DEF createProfile, updateProfile, sites
    <2>. QED BY <1>5, <2>1, <2>2
  <1>10. ASSUME NEW m \in Machines, createMachine(m) PROVE CatalogueIInv'
    <2>1. PICK p \in Profiles \cup {None} :
             (p # None => profile[p] # None) /\ machine' = [machine EXCEPT ![m] = p]
      BY <1>10 DEF createMachine, CreateMachine
    <2>2. /\ UNCHANGED <<image, versions, profile, templates, mirror>>
          /\ site' \in [Machines -> Sites \cup {None}]
      BY <1>0, <1>10 DEF createMachine, CatalogueTypeOK
    <2>. QED BY <1>6, <2>1, <2>2
  <1>11. ASSUME NEW m \in Machines, updateMachine(m) PROVE CatalogueIInv'
    <2>0. UNCHANGED <<image, versions, profile, templates, mirror>>
      BY <1>11 DEF updateMachine
    <2>1. CASE (\E p \in Profiles \cup {None} : UpdateMachine(m, p)) /\ UNCHANGED site
      <3>1. PICK p \in Profiles \cup {None} :
               (p # None => profile[p] # None) /\ machine' = [machine EXCEPT ![m] = p]
        BY <2>1 DEF UpdateMachine
      <3>2. site' \in [Machines -> Sites \cup {None}]
        BY <1>0, <2>1 DEF CatalogueTypeOK
      <3>. QED BY <1>6, <2>0, <3>1, <3>2
    <2>2. CASE /\ UpdateMachine(m, machine[m])
               /\ \E to \in Sites \cup {None} : site' = [site EXCEPT ![m] = to]
      <3>1. machine' = machine
        BY <1>0, <2>2 DEF UpdateMachine, CatalogueTypeOK
      <3>2. site' \in [Machines -> Sites \cup {None}]
        BY <1>0, <2>2 DEF CatalogueTypeOK
      <3>3. /\ versions' \subseteq Images /\ templates' \subseteq Profiles
            /\ mirror' \in [Sites -> {Absent, None, "mirror"}]
        BY <1>0, <2>0 DEF CatalogueTypeOK
      <3>. QED BY <1>7, <2>0, <3>1, <3>2, <3>3
    <2>. QED BY <1>11, <2>1, <2>2 DEF updateMachine
  <1>12. ASSUME \/ \E i \in Images : createImageVersion(i)
                \/ \E p \in Profiles : upsertProfileTemplate(p) \/ deleteProfileTemplate(p)
                \/ \E s \in Sites : upsertSite(s) \/ deleteSite(s)
         PROVE  CatalogueIInv'
    <2>1. UNCHANGED <<image, profile, machine, site>>
      BY <1>12 DEF createImageVersion, upsertProfileTemplate, deleteProfileTemplate, upsertSite,
                   deleteSite, sites
    <2>2. /\ versions' \subseteq Images /\ templates' \subseteq Profiles
          /\ mirror' \in [Sites -> {Absent, None, "mirror"}]
      <3>1. ASSUME NEW i \in Images, createImageVersion(i)
            PROVE  /\ versions' \subseteq Images /\ templates' \subseteq Profiles
                   /\ mirror' \in [Sites -> {Absent, None, "mirror"}]
        BY <1>0, <3>1 DEF createImageVersion, CreateImageVersion, sites, CatalogueTypeOK
      <3>2. ASSUME NEW p \in Profiles, upsertProfileTemplate(p) \/ deleteProfileTemplate(p)
            PROVE  /\ versions' \subseteq Images /\ templates' \subseteq Profiles
                   /\ mirror' \in [Sites -> {Absent, None, "mirror"}]
        BY <1>0, <3>2 DEF upsertProfileTemplate, deleteProfileTemplate, UpsertProfileTemplate,
                          DeleteProfileTemplate, sites, CatalogueTypeOK
      <3>3. ASSUME NEW s \in Sites, upsertSite(s) \/ deleteSite(s)
            PROVE  /\ versions' \subseteq Images /\ templates' \subseteq Profiles
                   /\ mirror' \in [Sites -> {Absent, None, "mirror"}]
        BY <1>0, <3>3 DEF upsertSite, deleteSite, UpsertSite, DeleteSite, CatalogueTypeOK
      <3>. QED BY <1>12, <3>1, <3>2, <3>3
    <2>3. site' \in [Machines -> Sites \cup {None}]
      BY <1>0, <2>1 DEF CatalogueTypeOK
    <2>. QED BY <1>7, <2>1, <2>2, <2>3
  <1>. QED BY <1>1, <1>8, <1>9, <1>10, <1>11, <1>12


\* A DELETE goes by what refers to the row when it runs, whatever was counted
\* before.
LEMMA DeleteCatalogue ==
  ASSUME CatalogueIInv,
         \/ \E i \in Images : deleteImage(i)
         \/ \E p \in Profiles : deleteProfile(p)
         \/ \E m \in Machines : deleteMachine(m)
         \/ DeleteMachineRow \/ CountDefaults \/ DeleteProfileRow \/ DeleteImageRow
  PROVE  CatalogueIInv' /\ UNCHANGED deps
  <1> DEFINE Stages == {"idle", "machine", "machines", "profile", "image"}
             Ids == Machines \cup Profiles \cup Images \cup {None}
  <1>0. CatalogueTypeOK /\ DelOK /\ ReferencesHold
    BY DEF CatalogueIInv
  <1>1. \A d \in DOMAIN deps : /\ deps[d].machine \in Machines /\ deps[d].profile \in Profiles
                               /\ deps[d].target \in Images \cup {None}
    <2>1. \A d \in DOMAIN deps : deps[d] \in Deployments
      BY <1>0 DEF CatalogueTypeOK
    <2>. QED BY <2>1 DEF Deployments
  <1>2. Resting \in [pc : Stages, of : Ids] /\ Resting.pc = "idle"
    BY DEF Resting
  <1>3. ASSUME del' \in [pc : Stages, of : Ids], DelOK', edits' \in 0..MaxEdits,
               UNCHANGED <<image, versions, profile, templates, machine, site, mirror, deps>>
        PROVE  CatalogueIInv'
    <2>1. CatalogueTypeOK'
      BY <1>0, <1>3 DEF CatalogueTypeOK
    <2>2. ReferencesHold'
      BY <1>0, <1>3 DEF ReferencesHold
    <2>. QED BY <1>3, <2>1, <2>2 DEF CatalogueIInv
  <1>4. ASSUME Edit PROVE edits' \in 0..MaxEdits
    BY <1>0, <1>4, CatalogueAssumption DEF Edit, CatalogueTypeOK
  <1>5. ASSUME NEW pc \in Stages, NEW x \in Ids, Proceed(pc, x)
        PROVE  del' \in [pc : Stages, of : Ids] /\ del'.pc = pc /\ del'.of = x
    BY <1>5 DEF Proceed
  <1>6. ASSUME UNCHANGED del PROVE del' \in [pc : Stages, of : Ids] /\ DelOK'
    BY <1>0, <1>6 DEF CatalogueTypeOK, DelOK
  <1>7. ASSUME NEW i \in Images, deleteImage(i) PROVE CatalogueIInv' /\ UNCHANGED deps
    <2>1. /\ edits' \in 0..MaxEdits /\ UNCHANGED <<image, versions, profile, templates, machine,
                                                   site, mirror, deps>>
      BY <1>4, <1>7 DEF deleteImage, sites
    <2>2. UNCHANGED del \/ Proceed("image", i)
      BY <1>7 DEF deleteImage, DeleteImage
    <2>3. del' \in [pc : Stages, of : Ids] /\ DelOK'
      <3>1. CASE Proceed("image", i)
        <4>1. del' \in [pc : Stages, of : Ids] /\ del'.pc = "image" /\ del'.of = i
          BY <1>5, <3>1
        <4>. QED BY <4>1 DEF DelOK
      <3>. QED BY <1>6, <2>2, <3>1
    <2>. QED BY <1>3, <2>1, <2>3
  <1>8. ASSUME NEW p \in Profiles, deleteProfile(p) PROVE CatalogueIInv' /\ UNCHANGED deps
    <2>1. /\ edits' \in 0..MaxEdits /\ UNCHANGED <<image, versions, profile, templates, machine,
                                                   site, mirror, deps>>
      BY <1>4, <1>8 DEF deleteProfile, sites
    <2>2. UNCHANGED del \/ Proceed("machines", p)
      BY <1>8 DEF deleteProfile, DeleteProfile
    <2>3. del' \in [pc : Stages, of : Ids] /\ DelOK'
      <3>1. CASE Proceed("machines", p)
        <4>1. del' \in [pc : Stages, of : Ids] /\ del'.pc = "machines" /\ del'.of = p
          BY <1>5, <3>1
        <4>. QED BY <4>1 DEF DelOK
      <3>. QED BY <1>6, <2>2, <3>1
    <2>. QED BY <1>3, <2>1, <2>3
  <1>9. ASSUME NEW m \in Machines, deleteMachine(m) PROVE CatalogueIInv' /\ UNCHANGED deps
    <2>1. /\ edits' \in 0..MaxEdits /\ UNCHANGED <<image, versions, profile, templates, machine,
                                                   site, mirror, deps>>
      BY <1>4, <1>9 DEF deleteMachine, sites
    <2>2. UNCHANGED del \/ Proceed("machine", m)
      BY <1>9 DEF deleteMachine, DeleteMachine
    <2>3. del' \in [pc : Stages, of : Ids] /\ DelOK'
      <3>1. CASE Proceed("machine", m)
        <4>1. del' \in [pc : Stages, of : Ids] /\ del'.pc = "machine" /\ del'.of = m
          BY <1>5, <3>1
        <4>. QED BY <4>1 DEF DelOK
      <3>. QED BY <1>6, <2>2, <3>1
    <2>. QED BY <1>3, <2>1, <2>3
  <1>10. CASE CountDefaults
    <2>1. /\ del.pc = "machines"
          /\ UNCHANGED <<image, versions, profile, templates, machine, site, mirror, deps, edits>>
          /\ del' = Resting \/ del' = [del EXCEPT !.pc = "profile"]
      BY <1>10 DEF CountDefaults, sites
    <2>2. del \in [pc : Stages, of : Ids] /\ del.of \in Profiles
      BY <1>0, <2>1 DEF CatalogueTypeOK, DelOK
    <2>3. del' \in [pc : Stages, of : Ids] /\ DelOK'
      <3>1. CASE del' = [del EXCEPT !.pc = "profile"]
        BY <2>2, <3>1 DEF DelOK
      <3>2. CASE del' = Resting
        BY <1>2, <3>2 DEF DelOK
      <3>. QED BY <2>1, <3>1, <3>2
    <2>4. edits' \in 0..MaxEdits
      BY <1>0, <2>1 DEF CatalogueTypeOK
    <2>. QED BY <1>3, <2>1, <2>3, <2>4
  <1>11. ASSUME del' = Resting PROVE del' \in [pc : Stages, of : Ids] /\ DelOK'
    BY <1>2, <1>11 DEF DelOK
  <1>12. CASE DeleteMachineRow
    <2> DEFINE m == del.of
    <2>1. m \in Machines
      BY <1>0, <1>12 DEF DeleteMachineRow, DelOK
    <2>2. /\ UNCHANGED <<image, versions, profile, templates, site, mirror, deps, edits>>
          /\ del' = Resting
          /\ \/ machine' = machine
             \/ ~MachineReferenced(m) /\ machine' = [machine EXCEPT ![m] = Absent]
      BY <1>12 DEF DeleteMachineRow, sites
    <2>3. CatalogueTypeOK'
      <3>1. machine' \in [Machines -> Profiles \cup {None, Absent}]
        BY <1>0, <2>1, <2>2 DEF CatalogueTypeOK
      <3>. QED BY <1>0, <1>11, <2>2, <3>1 DEF CatalogueTypeOK
    <2>4. /\ \A d \in DOMAIN deps : machine'[deps[d].machine] = machine[deps[d].machine]
          /\ \A n \in Machines : machine'[n] \in Profiles => machine'[n] = machine[n]
      <3>1. Absent \notin Profiles
        BY CatalogueAssumption
      <3>. QED BY <1>0, <1>1, <2>1, <2>2, <3>1 DEF MachineReferenced, CatalogueTypeOK
    <2>5. ReferencesHold'
      BY <1>0, <1>1, <2>2, <2>4 DEF ReferencesHold
    <2>. QED BY <1>11, <2>2, <2>3, <2>5 DEF CatalogueIInv
  <1>13. CASE DeleteProfileRow
    <2> DEFINE p == del.of
    <2>1. p \in Profiles
      BY <1>0, <1>13 DEF DeleteProfileRow, DelOK
    <2>2. /\ UNCHANGED <<image, versions, machine, site, mirror, deps, edits>>
          /\ del' = Resting
          /\ \/ profile' = profile /\ templates' = templates
             \/ /\ ~ProfileReferenced(p) /\ profile' = [profile EXCEPT ![p] = None]
                /\ templates' = templates \ {p}
      BY <1>13 DEF DeleteProfileRow, sites
    <2>3. CatalogueTypeOK'
      <3>1. profile' \in [Profiles -> Images \cup {None}] /\ templates' \subseteq Profiles
        BY <1>0, <2>1, <2>2 DEF CatalogueTypeOK
      <3>. QED BY <1>0, <1>11, <2>2, <3>1 DEF CatalogueTypeOK
    <2>4. /\ \A d \in DOMAIN deps : profile'[deps[d].profile] = profile[deps[d].profile]
          /\ \A n \in Machines : machine[n] \in Profiles => profile'[machine[n]] = profile[machine[n]]
          /\ \A q \in Profiles : profile'[q] # None => profile'[q] = profile[q]
      BY <1>0, <1>1, <2>1, <2>2 DEF ProfileReferenced, CatalogueTypeOK
    <2>5. ReferencesHold'
      BY <1>0, <1>1, <2>2, <2>4 DEF ReferencesHold
    <2>. QED BY <1>11, <2>2, <2>3, <2>5 DEF CatalogueIInv
  <1>14. CASE DeleteImageRow
    <2> DEFINE i == del.of
    <2>1. i \in Images
      BY <1>0, <1>14 DEF DeleteImageRow, DelOK
    <2>2. /\ UNCHANGED <<profile, templates, machine, site, mirror, deps, edits>>
          /\ del' = Resting
          /\ \/ image' = image /\ versions' = versions
             \/ /\ ~ImageReferenced(i) /\ image' = [image EXCEPT ![i] = Absent]
                /\ versions' = versions \ {i}
      BY <1>14 DEF DeleteImageRow, sites
    <2>3. CatalogueTypeOK'
      <3>1. image' \in [Images -> Methods \cup {Absent}] /\ versions' \subseteq Images
        BY <1>0, <2>1, <2>2 DEF CatalogueTypeOK
      <3>. QED BY <1>0, <1>11, <2>2, <3>1 DEF CatalogueTypeOK
    <2>4. /\ \A d \in DOMAIN deps : deps[d].target # None
                                      => image'[deps[d].target] = image[deps[d].target]
          /\ \A q \in Profiles : profile[q] # None => image'[profile[q]] = image[profile[q]]
      BY <1>0, <1>1, <2>1, <2>2 DEF ImageReferenced, CatalogueTypeOK
    <2>5. ReferencesHold'
      BY <1>0, <1>1, <2>2, <2>4 DEF ReferencesHold
    <2>. QED BY <1>11, <2>2, <2>3, <2>5 DEF CatalogueIInv
  <1>. QED BY <1>7, <1>8, <1>9, <1>10, <1>12, <1>13, <1>14

\* Whatever an operator or a deployment does, the catalogue stays whole, and a
\* deployment keeps what it was issued for.
LEMMA ChangeCatalogue ==
  ASSUME CatalogueIInv, Administer \/ Deploy
  PROVE  /\ CatalogueIInv'
         /\ Len(deps) <= Len(deps')
         /\ \A d \in DOMAIN deps : /\ d \in DOMAIN deps' /\ deps'[d].machine = deps[d].machine
                                   /\ deps'[d].profile = deps[d].profile
                                   /\ deps'[d].kind = deps[d].kind
  <1>1. CASE Administer
    <2>1. CatalogueIInv' /\ UNCHANGED deps
      BY <1>1, EditCatalogue, DeleteCatalogue DEF Administer
    <2>2. Len(deps) \in Nat
      BY DEF CatalogueIInv, CatalogueTypeOK
    <2>. QED BY <2>1, <2>2
  <1>. QED BY <1>1, DeployCatalogue

-----------------------------------------------------------------------------
(***************************************************************************)
(* Requests of booting targets.                                            *)
(***************************************************************************)

\* The lookups of a bundle.
Bundling == {"machine", "job", "profile", "version"}

\* Which files a lookup is for, and what every request has by then.
Placed(rec) ==
    /\ rec.dep <= Len(deps) /\ rec.job <= Len(deps)
    /\ rec.pc # "idle" => rec.dep \in DOMAIN deps /\ rec.file \in Files
    /\ rec.pc = "kind" => rec.file \in {"user-data", "deploy.cmd", "capture.sh", "restore.sh"}
    /\ rec.pc = "template" => rec.file \in {"user-data", "unattend.xml"}
    /\ rec.pc = "site" => rec.file \in {"user-data", "image.wim"}
    /\ rec.pc \in Bundling =>
          rec.file \in {"user-data", "restore.sh", "unattend.xml", "image.wim"}
    /\ rec.pc \in {"profile", "version"} => rec.profile \in Profiles

\* The parts of the bundle that a request has read.
HasMachine(rec) ==
    \/ rec.pc \in {"job", "profile", "version", "site"}
    \/ rec.pc \in {"kind", "template"} /\ rec.file = "user-data"
HasJob(rec) == HasMachine(rec) /\ rec.pc # "job"
HasProfile(rec) == HasJob(rec) /\ rec.pc # "profile"
HasVersion(rec) == HasProfile(rec) /\ rec.pc # "version"

\* They agree with the view of the deployment.
Agrees(rec, v) ==
    /\ v.alone /\ rec.from = None
    /\ rec.pc # "auth" => Admitted(rec.dep, rec.file)
    /\ HasMachine(rec) => rec.site = v.site
    /\ HasJob(rec) => rec.job = rec.dep /\ rec.profile = deps[rec.dep].profile
    /\ HasProfile(rec) => rec.image = v.image /\ rec.how = v.how
    /\ HasVersion(rec) => rec.blob = IF v.blob THEN v.image ELSE None

GoldenView(v) == v.how = "golden" /\ v.blob

\* And so does the branch that was taken.
Branched(rec, v) ==
    /\ rec.pc = "site" /\ rec.file = "user-data" => GoldenView(v) /\ deps[rec.dep].kind = "deploy"
    /\ rec.pc = "site" /\ rec.file = "image.wim" => hasWim(v.how)
    /\ rec.pc = "template" /\ rec.file = "user-data" =>
          ~GoldenView(v) /\ deps[rec.dep].kind = "deploy"
    /\ rec.pc \in Bundling /\ rec.file = "unattend.xml" => v.tpl
    /\ rec.pc \in Bundling /\ rec.file = "restore.sh" => deps[rec.dep].kind = "deploy"

Calm(rec) ==
    rec.calm /\ rec.pc \notin {"idle", "done"} =>
        Agrees(rec, View(rec.dep)) /\ Branched(rec, View(rec.dep))


Good(rec) == rec \in Requests /\ Placed(rec) /\ Calm(rec)

\* The answer that CalmBootIsServed asks for.
Proper(rec, out) ==
    /\ out = Expected(rec.dep, rec.file)
    /\ out = "restore" => rec.blob = rec.image
    /\ out = "install" /\ rec.file = "user-data" => rec.template = View(rec.dep).tpl
    /\ out # "refused" =>
          rec.from = IF \/ rec.file = "image.wim" /\ View(rec.dep).how # "foreign"
                        \/ rec.file = "user-data" /\ out = "restore"
                     THEN View(rec.dep).from ELSE None

Answered(rec) == rec.pc = "done" /\ rec.calm => Proper(rec, rec.out)

\* Inductive for the requests.
BootIInv == CatalogueIInv /\ boot \in [Boots -> Requests] /\ \A b \in Boots : Good(boot[b])

\* What a handler leaves: a good request, and one well answered if it is done.
Handled(b) ==
    /\ UNCHANGED catalogueVars
    /\ \E r \in Requests : boot' = [boot EXCEPT ![b] = r] /\ Good(r) /\ Answered(r)

\* The view of a deployment has rows of the catalogue in it.
LEMMA ViewType ==
  ASSUME CatalogueIInv, NEW d \in DOMAIN deps
  PROVE  /\ View(d).alone <=> ActiveJobs(deps[d].machine) = {d}
         /\ View(d).image = profile[deps[d].profile] /\ View(d).image \in Images
         /\ View(d).how = image[profile[deps[d].profile]] /\ View(d).how \in Methods
         /\ View(d).blob <=> profile[deps[d].profile] \in versions
         /\ View(d).tpl <=> deps[d].profile \in templates
         /\ View(d).site = site[deps[d].machine] /\ View(d).site \in Sites \cup {None}
         /\ View(d).from = SiteMirror(View(d).site)
         /\ deps[d].machine \in Machines /\ deps[d].profile \in Profiles
         /\ deps[d].kind \in Kinds
         /\ machine[deps[d].machine] \in Profiles \cup {None}
  <1>1. /\ deps[d] \in Deployments
        /\ deps[d].machine \in Machines /\ machine[deps[d].machine] \in Profiles \cup {None}
        /\ deps[d].profile \in Profiles /\ profile[deps[d].profile] \in Images
    <2>1. deps[d] \in Deployments
      BY DEF CatalogueIInv, CatalogueTypeOK
    <2>2. deps[d].machine \in Machines /\ deps[d].profile \in Profiles
      BY <2>1 DEF Deployments
    <2>. QED BY <2>1, <2>2 DEF CatalogueIInv, CatalogueTypeOK, ReferencesHold
  <1>2. image[profile[deps[d].profile]] \in Methods
    BY <1>1, CatalogueAssumption DEF CatalogueIInv, CatalogueTypeOK, ReferencesHold
  <1>3. site[deps[d].machine] \in Sites \cup {None} /\ deps[d].kind \in Kinds
    BY <1>1 DEF CatalogueIInv, CatalogueTypeOK, Deployments
  <1>4. /\ View(d).alone <=> ActiveJobs(deps[d].machine) = {d}
        /\ View(d).blob <=> profile[deps[d].profile] \in versions
        /\ View(d).tpl <=> deps[d].profile \in templates
    BY DEF View
  <1>5. /\ View(d).image = profile[deps[d].profile]
        /\ View(d).how = image[profile[deps[d].profile]]
        /\ View(d).site = site[deps[d].machine]
        /\ View(d).from = SiteMirror(site[deps[d].machine])
    BY DEF View
  <1>. QED BY <1>1, <1>2, <1>3, <1>4, <1>5

\* The target asks while its deployment is under way.
LEMMA AskHandled ==
  ASSUME BootIInv, NEW b \in Boots, NEW d \in DOMAIN deps, NEW file \in Files, Ask(b, d, file)
  PROVE  Handled(b)
  <1> DEFINE r == [Waiting EXCEPT !.pc = "auth", !.file = file, !.dep = d, !.calm = View(d).alone]
  <1>1. boot' = [boot EXCEPT ![b] = r] /\ UNCHANGED catalogueVars
    BY DEF Ask, Set
  <1>2. d \in Nat /\ d <= Len(deps) /\ Len(deps) \in Nat /\ 0 <= Len(deps)
    BY DEF BootIInv, CatalogueIInv, CatalogueTypeOK
  <1>3. View(d).alone \in BOOLEAN
    BY DEF View
  <1>4. /\ r \in Requests /\ r.pc = "auth" /\ r.file = file /\ r.dep = d /\ r.job = 0
        /\ r.from = None
    BY <1>2, <1>3 DEF Waiting, Requests, Pcs, Outs
  <1>5. r.calm => View(d).alone
    BY DEF Waiting
  <1> HIDE DEF r
  <1>6. Placed(r)
    BY <1>2, <1>4 DEF Placed, Bundling
  <1>7. Calm(r)
    BY <1>4, <1>5 DEF Calm, Agrees, Branched, HasMachine, HasJob, HasProfile, HasVersion, Bundling
  <1>8. Answered(r)
    BY <1>4 DEF Answered
  <1>. QED BY <1>1, <1>4, <1>6, <1>7, <1>8 DEF Handled, Good


\* The request a handler goes on with.
LEMMA Current ==
  ASSUME BootIInv, NEW b \in Boots, boot[b].pc # "idle"
  PROVE  /\ CatalogueIInv /\ boot[b] \in Requests /\ Placed(boot[b]) /\ Calm(boot[b])
         /\ boot[b].dep \in DOMAIN deps /\ boot[b].file \in Files
         /\ DOMAIN deps = 1..Len(deps) /\ Len(deps) \in Nat
  BY DEF BootIInv, Good, Placed, CatalogueIInv, CatalogueTypeOK

\* A calm request has the only active job of its machine.
LEMMA CalmActive ==
  ASSUME CatalogueIInv, NEW rec, rec.dep \in DOMAIN deps, Calm(rec), rec.calm,
         rec.pc \notin {"idle", "done"}
  PROVE  /\ ActiveJobs(deps[rec.dep].machine) = {rec.dep} /\ Active(rec.dep)
         /\ Agrees(rec, View(rec.dep)) /\ Branched(rec, View(rec.dep))
  <1>1. Agrees(rec, View(rec.dep)) /\ Branched(rec, View(rec.dep))
    BY DEF Calm
  <1>2. ActiveJobs(deps[rec.dep].machine) = {rec.dep}
    BY <1>1, ViewType DEF Agrees
  <1>. QED BY <1>1, <1>2 DEF ActiveJobs

\* A request that ends is answered properly if it is still calm.
LEMMA DoneHandled ==
  ASSUME NEW b \in Boots, NEW rec \in Requests, NEW out \in Outs, UNCHANGED catalogueVars,
         boot' = [boot EXCEPT ![b] = [rec EXCEPT !.pc = "done", !.out = out]],
         rec.dep \in DOMAIN deps, rec.dep <= Len(deps), rec.job <= Len(deps), rec.file \in Files,
         rec.calm => Proper(rec, out)
  PROVE  Handled(b)
  <1> DEFINE r == [rec EXCEPT !.pc = "done", !.out = out]
  <1>1. "done" \in Pcs
    BY DEF Pcs
  <1>2. r \in Requests
    BY <1>1 DEF Requests
  <1>3. /\ r.pc = "done" /\ r.out = out /\ r.file = rec.file /\ r.dep = rec.dep
        /\ r.job = rec.job /\ r.image = rec.image /\ r.blob = rec.blob /\ r.from = rec.from
        /\ r.template = rec.template
    BY DEF Requests
  <1>4. r.calm = rec.calm
    BY DEF Requests
  <1> HIDE DEF r
  <1>5. Placed(r) /\ Calm(r)
    BY <1>3 DEF Placed, Bundling, Calm
  <1>6. Answered(r)
    <2>1. Proper(rec, out) => Proper(r, out)
      BY <1>3 DEF Proper
    <2>. QED BY <1>3, <1>4, <2>1 DEF Answered
  <1>. QED BY <1>2, <1>5, <1>6 DEF Handled, Good, r

\* A valid token of a deployment that is imaging, or for user-data any; a
\* request without is to be refused.
LEMMA AuthenticateHandled ==
  ASSUME BootIInv, NEW b \in Boots, Authenticate(b)
  PROVE  Handled(b)
  <1> DEFINE rec == boot[b]
             next == CASE rec.file \in {"user-data", "image.wim"} -> "machine"
                       [] rec.file = "unattend.xml" -> "template"
                       [] OTHER -> "kind"
  <1>1. rec.pc = "auth" /\ UNCHANGED catalogueVars
    BY DEF Authenticate, At
  <1>2. /\ CatalogueIInv /\ rec \in Requests /\ Placed(rec) /\ Calm(rec)
        /\ rec.dep \in DOMAIN deps /\ rec.file \in Files
    BY <1>1, Current
  <1>3. CASE Admitted(rec.dep, rec.file) /\ boot' = [boot EXCEPT ![b] = [rec EXCEPT !.pc = next]]
    <2> DEFINE r == [rec EXCEPT !.pc = next]
    <2>1. /\ rec.file \in {"user-data", "image.wim"} => next = "machine"
          /\ rec.file = "unattend.xml" => next = "template"
          /\ rec.file \in {"deploy.cmd", "capture.sh", "restore.sh"} => next = "kind"
      OBVIOUS
    <2>2. next \in {"machine", "template", "kind"}
      BY <1>2, <2>1 DEF Files
    <2> HIDE DEF next
    <2>3. /\ r \in Requests /\ r.pc = next /\ r.file = rec.file /\ r.dep = rec.dep
          /\ r.job = rec.job /\ r.from = rec.from /\ r.calm = rec.calm
      BY <1>2, <2>2 DEF Requests, Pcs
    <2> HIDE DEF r
    <2>4. Placed(r)
      BY <1>1, <1>2, <2>1, <2>2, <2>3 DEF Placed, Bundling, Files
    <2>5. Calm(r)
      <3> SUFFICES ASSUME r.calm PROVE Agrees(r, View(r.dep)) /\ Branched(r, View(r.dep))
        BY DEF Calm
      <3>1. Agrees(rec, View(r.dep))
        BY <1>1, <1>2, <2>3 DEF Calm
      <3>2. ~HasMachine(r)
        BY <1>2, <2>1, <2>2, <2>3 DEF HasMachine, Files
      <3>3. Agrees(r, View(r.dep))
        BY <1>3, <2>3, <3>1, <3>2 DEF Agrees, HasJob, HasProfile, HasVersion
      <3>4. Branched(r, View(r.dep))
        BY <1>2, <2>1, <2>2, <2>3 DEF Branched, Files, Bundling
      <3>. QED BY <3>3, <3>4
    <2>6. Answered(r)
      BY <2>2, <2>3 DEF Answered
    <2>. QED BY <1>1, <1>3, <2>3, <2>4, <2>5, <2>6 DEF Handled, Good, r
  <1>4. CASE /\ ~Admitted(rec.dep, rec.file)
             /\ boot' = [boot EXCEPT ![b] = [rec EXCEPT !.pc = "done", !.out = "refused"]]
    <2>1. Proper(rec, "refused")
      BY <1>4 DEF Proper, Expected
    <2>2. "refused" \in Outs
      BY DEF Outs
    <2>3. rec.dep <= Len(deps) /\ rec.job <= Len(deps)
      BY <1>2 DEF Placed
    <2>. QED BY <1>1, <1>2, <1>4, <2>1, <2>2, <2>3, DoneHandled
  <1>. QED BY <1>3, <1>4 DEF Authenticate, Set, Finish

\* The machine of the deployment is there, and so is its default profile.
LEMMA MachineHandled ==
  ASSUME BootIInv, NEW b \in Boots, LookupMachine(b)
  PROVE  Handled(b)
  <1> DEFINE rec == boot[b]
             m == deps[rec.dep].machine
             r == [rec EXCEPT !.pc = "job", !.default = machine[m], !.site = site[m]]
  <1>1. rec.pc = "machine" /\ UNCHANGED catalogueVars /\ boot' = [boot EXCEPT ![b] = r]
    BY DEF LookupMachine, At, Set
  <1>2. /\ CatalogueIInv /\ rec \in Requests /\ Placed(rec) /\ Calm(rec)
        /\ rec.dep \in DOMAIN deps /\ rec.file \in Files
    BY <1>1, Current
  <1>3. /\ machine[m] \in Profiles \cup {None} /\ site[m] \in Sites \cup {None}
        /\ View(rec.dep).site = site[m]
    BY <1>2, ViewType
  <1>4. /\ r \in Requests /\ r.pc = "job" /\ r.file = rec.file /\ r.dep = rec.dep
        /\ r.job = rec.job /\ r.from = rec.from /\ r.calm = rec.calm /\ r.site = site[m]
    <2>0. "job" \in Pcs
      BY DEF Pcs
    <2>1. r \in Requests
      BY <1>2, <1>3, <2>0 DEF Requests
    <2>. QED BY <1>2, <2>1 DEF Requests
  <1> HIDE DEF r, m
  <1>5. Placed(r)
    BY <1>1, <1>2, <1>4 DEF Placed, Bundling
  <1>6. Calm(r)
    <2> SUFFICES ASSUME r.calm PROVE Agrees(r, View(r.dep)) /\ Branched(r, View(r.dep))
      BY DEF Calm
    <2>1. Agrees(rec, View(r.dep)) /\ Branched(rec, View(r.dep))
      BY <1>1, <1>2, <1>4 DEF Calm
    <2>. QED BY <1>1, <1>3, <1>4, <2>1 DEF Agrees, Branched, HasMachine, HasJob, HasProfile, HasVersion,
                                           Bundling
  <1>7. Answered(r)
    BY <1>4 DEF Answered
  <1>. QED BY <1>1, <1>4, <1>5, <1>6, <1>7 DEF Handled, Good

\* The newest active job of the machine is that of a calm request.
LEMMA JobHandled ==
  ASSUME BootIInv, NEW b \in Boots, LookupJob(b)
  PROVE  Handled(b)
  <1> DEFINE rec == boot[b]
             ds == ActiveJobs(deps[rec.dep].machine)
  <1>1. rec.pc = "job" /\ UNCHANGED catalogueVars
    BY DEF LookupJob, At
  <1>2. /\ CatalogueIInv /\ rec \in Requests /\ Placed(rec) /\ Calm(rec)
        /\ rec.dep \in DOMAIN deps /\ rec.file \in Files
        /\ DOMAIN deps = 1..Len(deps) /\ Len(deps) \in Nat
    BY <1>1, Current
  <1>3. rec.calm => ds = {rec.dep}
    BY <1>1, <1>2, CalmActive
  <1>4. CASE ds # {} /\ boot' = [boot EXCEPT ![b] = [rec EXCEPT !.pc = "profile", !.job = Newest(ds),
                                                               !.profile = deps[Newest(ds)].profile]]
    <2> DEFINE j == Newest(ds)
               r == [rec EXCEPT !.pc = "profile", !.job = j, !.profile = deps[j].profile]
    <2>1. j \in ds /\ j \in DOMAIN deps
      <3>1. ds \in SUBSET DOMAIN deps /\ CatalogueTypeOK
        BY <1>2 DEF ActiveJobs, CatalogueIInv
      <3> HIDE DEF ds
      <3>. QED BY <1>4, <3>1, NewestJob
    <2>2. rec.calm => j = rec.dep
      BY <1>3, <2>1
    <2>3. deps[j].profile \in Profiles
      BY <1>2, <2>1, ViewType
    <2> HIDE DEF j
    <2>4. /\ r \in Requests /\ r.pc = "profile" /\ r.file = rec.file /\ r.dep = rec.dep
          /\ r.job = j /\ r.from = rec.from /\ r.calm = rec.calm /\ r.site = rec.site
          /\ r.profile = deps[j].profile
      <3>0. "profile" \in Pcs /\ j \in Nat
        BY <1>2, <2>1 DEF Pcs
      <3>1. r \in Requests
        BY <1>2, <2>3, <3>0 DEF Requests
      <3>. QED BY <1>2, <3>1 DEF Requests
    <2> HIDE DEF r
    <2>5. Placed(r)
      BY <1>1, <1>2, <2>1, <2>3, <2>4 DEF Placed, Bundling
    <2>6. Calm(r)
      <3> SUFFICES ASSUME r.calm PROVE Agrees(r, View(r.dep)) /\ Branched(r, View(r.dep))
        BY DEF Calm
      <3>1. Agrees(rec, View(r.dep)) /\ Branched(rec, View(r.dep))
        BY <1>1, <1>2, <2>4 DEF Calm
      <3>. QED BY <1>1, <2>2, <2>4, <3>1 DEF Agrees, Branched, HasMachine, HasJob, HasProfile,
                                             HasVersion, Bundling
    <2>7. Answered(r)
      BY <2>4 DEF Answered
    <2>. QED BY <1>1, <1>4, <2>4, <2>5, <2>6, <2>7 DEF Handled, Good, r, j
  <1>5. CASE ds = {} /\ rec.default # None
               /\ boot' = [boot EXCEPT ![b] = [rec EXCEPT !.pc = "profile", !.profile = rec.default]]
    <2> DEFINE r == [rec EXCEPT !.pc = "profile", !.profile = rec.default]
    <2>1. rec.default \in Profiles
      BY <1>2, <1>5 DEF Requests
    <2>2. /\ r \in Requests /\ r.pc = "profile" /\ r.file = rec.file /\ r.dep = rec.dep
          /\ r.job = rec.job /\ r.calm = rec.calm /\ r.profile = rec.default
      BY <1>2, <2>1 DEF Requests, Pcs
    <2> HIDE DEF r
    <2>3. Placed(r)
      BY <1>1, <1>2, <2>1, <2>2 DEF Placed, Bundling
    <2>4. Calm(r) /\ Answered(r)
      BY <1>3, <1>5, <2>2 DEF Calm, Answered
    <2>. QED BY <1>1, <1>5, <2>2, <2>3, <2>4 DEF Handled, Good, r
  <1>6. CASE ds = {} /\ boot' = [boot EXCEPT ![b] = [rec EXCEPT !.pc = "done", !.out = "refused"]]
    <2>1. ~rec.calm
      BY <1>3, <1>6
    <2>2. "refused" \in Outs
      BY DEF Outs
    <2>3. rec.dep <= Len(deps) /\ rec.job <= Len(deps)
      BY <1>2 DEF Placed
    <2>. QED BY <1>1, <1>2, <1>6, <2>1, <2>2, <2>3, DoneHandled
  <1>. QED BY <1>4, <1>5, <1>6 DEF LookupJob, Set, Finish

\* A deployment refers to its profile and that to its image: a calm request
\* finds both.
LEMMA ProfileHandled ==
  ASSUME BootIInv, NEW b \in Boots, LookupProfile(b)
  PROVE  Handled(b)
  <1> DEFINE rec == boot[b]
             i == profile[rec.profile]
  <1>1. rec.pc = "profile" /\ UNCHANGED catalogueVars
    BY DEF LookupProfile, At
  <1>2. /\ CatalogueIInv /\ rec \in Requests /\ Placed(rec) /\ Calm(rec)
        /\ rec.dep \in DOMAIN deps /\ rec.file \in Files
    BY <1>1, Current
  <1>3. rec.calm => /\ Agrees(rec, View(rec.dep)) /\ Branched(rec, View(rec.dep))
                    /\ i = View(rec.dep).image /\ image[i] = View(rec.dep).how /\ i # None
    <2> SUFFICES ASSUME rec.calm
                 PROVE  /\ Agrees(rec, View(rec.dep)) /\ Branched(rec, View(rec.dep))
                        /\ i = View(rec.dep).image /\ image[i] = View(rec.dep).how /\ i # None
      OBVIOUS
    <2>1. Agrees(rec, View(rec.dep)) /\ Branched(rec, View(rec.dep))
      BY <1>1, <1>2 DEF Calm
    <2>2. rec.profile = deps[rec.dep].profile
      BY <1>1, <2>1 DEF Agrees, HasJob, HasMachine
    <2>3. None \notin Images
      BY CatalogueAssumption
    <2>. QED BY <1>2, <2>1, <2>2, <2>3, ViewType
  <1>4. CASE i = None /\ boot' = [boot EXCEPT ![b] = [rec EXCEPT !.pc = "done", !.out = "refused"]]
    <2>1. ~rec.calm
      BY <1>3, <1>4
    <2>2. "refused" \in Outs
      BY DEF Outs
    <2>3. rec.dep <= Len(deps) /\ rec.job <= Len(deps)
      BY <1>2 DEF Placed
    <2>. QED BY <1>1, <1>2, <1>4, <2>1, <2>2, <2>3, DoneHandled
  <1>5. CASE i # None /\ boot' = [boot EXCEPT ![b] = [rec EXCEPT !.pc = "version", !.image = i,
                                                                !.how = image[i]]]
    <2> DEFINE r == [rec EXCEPT !.pc = "version", !.image = i, !.how = image[i]]
    <2>1. rec.profile \in Profiles
      BY <1>1, <1>2 DEF Placed
    <2>2. i \in Images /\ image[i] \in Methods
      BY <1>2, <1>5, <2>1 DEF CatalogueIInv, CatalogueTypeOK, ReferencesHold
    <2> HIDE DEF i
    <2>3. /\ r \in Requests /\ r.pc = "version" /\ r.file = rec.file /\ r.dep = rec.dep
          /\ r.job = rec.job /\ r.from = rec.from /\ r.calm = rec.calm /\ r.site = rec.site
          /\ r.profile = rec.profile /\ r.image = i /\ r.how = image[i]
      BY <1>2, <2>2 DEF Requests, Pcs
    <2> HIDE DEF r
    <2>4. Placed(r)
      BY <1>1, <1>2, <2>1, <2>3 DEF Placed, Bundling
    <2>5. Calm(r)
      <3> SUFFICES ASSUME r.calm PROVE Agrees(r, View(r.dep)) /\ Branched(r, View(r.dep))
        BY DEF Calm
      <3>. QED BY <1>1, <1>3, <2>3 DEF Agrees, Branched, HasMachine, HasJob, HasProfile,
                                       HasVersion, Bundling
    <2>6. Answered(r)
      BY <2>3 DEF Answered
    <2>. QED BY <1>1, <1>5, <2>3, <2>4, <2>5, <2>6 DEF Handled, Good, r, i
  <1>. QED BY <1>4, <1>5 DEF LookupProfile, Set, Finish


\* The lookup that Proceeds names is entered with the request as it is.
LEMMA MovedHandled ==
  ASSUME NEW b \in Boots, NEW rec \in Requests, NEW pc \in {"machine", "kind", "template", "site"},
         UNCHANGED catalogueVars, boot' = [boot EXCEPT ![b] = [rec EXCEPT !.pc = pc]],
         NEW r, r = [rec EXCEPT !.pc = pc],
         Placed(r), r.calm => Agrees(r, View(r.dep)) /\ Branched(r, View(r.dep))
  PROVE  Handled(b)
  <1>1. pc \in Pcs
    BY DEF Pcs
  <1>2. r \in Requests /\ r.pc = pc
    BY <1>1 DEF Requests
  <1>3. Answered(r) /\ Calm(r)
    BY <1>2 DEF Answered, Calm
  <1>. QED BY <1>2, <1>3 DEF Handled, Good

\* With the version the bundle is complete.
LEMMA VersionHandled ==
  ASSUME BootIInv, NEW b \in Boots, LookupVersion(b)
  PROVE  Handled(b)
  <1> DEFINE rec == boot[b]
             i == profile[rec.profile]
             v == View(rec.dep)
             found == IF i \in versions THEN i ELSE None
  <1>1. rec.pc = "version" /\ UNCHANGED catalogueVars
    BY DEF LookupVersion, At
  <1>2. /\ CatalogueIInv /\ rec \in Requests /\ Placed(rec) /\ Calm(rec)
        /\ rec.dep \in DOMAIN deps /\ rec.file \in Files
        /\ DOMAIN deps = 1..Len(deps) /\ Len(deps) \in Nat
    BY <1>1, Current
  <1>3. PICK blob \in OrFailed(found, None) :
           LET got == [rec EXCEPT !.blob = blob, !.calm = @ /\ blob = found]
               to == CASE got.file = "user-data" -> "kind"
                       [] got.file = "restore.sh" ->
                            IF isLinuxGolden(got) THEN "restore" ELSE "refused"
                       [] got.file = "image.wim" -> winpeImage(got)
                       [] got.file = "unattend.xml" -> "install"
           IN  Proceeds(b, got, to)
    BY DEF LookupVersion
  <1> DEFINE calm == rec.calm /\ blob = found
             got == [rec EXCEPT !.blob = blob, !.calm = calm]
  <1>20. blob \in Images \cup {None}
    BY <1>2, <1>3 DEF CatalogueIInv, CatalogueTypeOK, OrFailed
  <1>4. /\ got \in Requests /\ got.pc = "version" /\ got.file = rec.file /\ got.dep = rec.dep
        /\ got.job = rec.job /\ got.from = rec.from /\ got.site = rec.site
        /\ got.profile = rec.profile /\ got.image = rec.image /\ got.how = rec.how
        /\ got.blob = blob
    <2>0. calm \in BOOLEAN
      OBVIOUS
    <2> HIDE DEF calm
    <2>1. got \in Requests
      BY <1>2, <1>20, <2>0 DEF Requests
    <2>. QED BY <1>1, <1>2, <2>1 DEF Requests
  <1>21. got.calm => rec.calm /\ blob = found
    <2>1. got.calm => calm
      <3> HIDE DEF calm
      <3>. QED BY <1>2 DEF Requests
    <2>. QED BY <2>1
  <1>22. LET to == CASE rec.file = "user-data" -> "kind"
                     [] rec.file = "restore.sh" ->
                          IF isLinuxGolden(got) THEN "restore" ELSE "refused"
                     [] rec.file = "image.wim" -> winpeImage(got)
                     [] rec.file = "unattend.xml" -> "install"
         IN  Proceeds(b, got, to)
    BY <1>3, <1>4
  <1>5. /\ v.image \in Images /\ v.image # None /\ v.how \in Methods /\ deps[rec.dep].kind \in Kinds
        /\ v.site \in Sites \cup {None} /\ v.from = SiteMirror(v.site)
    <2>1. None \notin Images
      BY CatalogueAssumption
    <2>. QED BY <1>2, <2>1, ViewType
  <1>6. got.calm => /\ v.alone /\ Admitted(got.dep, got.file) /\ got.from = None /\ got.site = v.site /\ got.job = got.dep
                    /\ got.profile = deps[got.dep].profile
                    /\ got.image = v.image /\ got.how = v.how
                    /\ got.blob = IF v.blob THEN v.image ELSE None
                    /\ got.file = "unattend.xml" => v.tpl
                    /\ got.file = "restore.sh" => deps[got.dep].kind = "deploy"
    <2> SUFFICES ASSUME got.calm
                 PROVE  /\ v.alone /\ Admitted(got.dep, got.file) /\ got.from = None /\ got.site = v.site /\ got.job = got.dep
                        /\ got.profile = deps[got.dep].profile
                        /\ got.image = v.image /\ got.how = v.how
                        /\ got.blob = IF v.blob THEN v.image ELSE None
                        /\ got.file = "unattend.xml" => v.tpl
                        /\ got.file = "restore.sh" => deps[got.dep].kind = "deploy"
      OBVIOUS
    <2>1. Agrees(rec, v) /\ Branched(rec, v)
      BY <1>1, <1>2, <1>21 DEF Calm
    <2>2. /\ v.alone /\ Admitted(rec.dep, rec.file) /\ rec.from = None /\ rec.site = v.site /\ rec.job = rec.dep
          /\ rec.profile = deps[rec.dep].profile
          /\ rec.image = v.image /\ rec.how = v.how
          /\ rec.file = "unattend.xml" => v.tpl
          /\ rec.file = "restore.sh" => deps[rec.dep].kind = "deploy"
      BY <1>1, <2>1 DEF Agrees, Branched, HasMachine, HasJob, HasProfile, Bundling
    <2>3. i = v.image /\ (v.blob <=> i \in versions)
      BY <1>2, <2>2, ViewType
    <2> HIDE DEF v
    <2>. QED BY <1>4, <1>21, <2>2, <2>3
  <1>7. /\ rec.dep <= Len(deps) /\ rec.job <= Len(deps)
        /\ rec.file \in {"user-data", "restore.sh", "unattend.xml", "image.wim"}
        /\ rec.profile \in Profiles
    BY <1>1, <1>2 DEF Placed, Bundling
  <1>8. CASE rec.file = "user-data"
    <2> DEFINE r == [got EXCEPT !.pc = "kind"]
    <2>1. boot' = [boot EXCEPT ![b] = r]
      BY <1>22, <1>8 DEF Proceeds, Set, Outs, None
    <2> HIDE DEF got
    <2>2. /\ r.pc = "kind" /\ r.file = got.file /\ r.dep = got.dep
          /\ r.job = got.job /\ r.from = got.from /\ r.calm = got.calm /\ r.site = got.site
          /\ r.profile = got.profile /\ r.image = got.image /\ r.how = got.how
          /\ r.blob = got.blob
      BY <1>4 DEF Requests
    <2> HIDE DEF r
    <2>3. Placed(r)
      BY <1>2, <1>4, <1>7, <1>8, <2>2 DEF Placed, Bundling
    <2>4. ASSUME r.calm PROVE Agrees(r, View(r.dep)) /\ Branched(r, View(r.dep))
      BY <1>4, <1>6, <1>8, <2>2, <2>4 DEF Agrees, Branched, HasMachine, HasJob, HasProfile, HasVersion,
                                          Bundling
    <2>. QED BY <1>1, <1>4, <2>1, <2>3, <2>4, MovedHandled DEF r
  <1>9. CASE rec.file = "restore.sh"
    <2> DEFINE out == IF isLinuxGolden(got) THEN "restore" ELSE "refused"
    <2>1. out \in Outs
      BY DEF Outs
    <2>2. boot' = [boot EXCEPT ![b] = [got EXCEPT !.pc = "done", !.out = out]]
      BY <1>22, <1>9, <2>1 DEF Proceeds, Set
    <2> HIDE DEF got
    <2>3. ASSUME got.calm PROVE Proper(got, out)
      BY <1>4, <1>5, <1>6, <1>9, <2>3 DEF Proper, Expected, isLinuxGolden, Methods
    <2> HIDE DEF out
    <2>. QED BY <1>1, <1>2, <1>4, <1>7, <2>1, <2>2, <2>3, DoneHandled
  <1>10. CASE rec.file = "unattend.xml"
    <2>1. "install" \in Outs
      BY DEF Outs
    <2>2. boot' = [boot EXCEPT ![b] = [got EXCEPT !.pc = "done", !.out = "install"]]
      BY <1>22, <1>10, <2>1 DEF Proceeds, Set
    <2> HIDE DEF got
    <2>3. ASSUME got.calm PROVE Proper(got, "install")
      BY <1>4, <1>5, <1>6, <1>10, <2>3 DEF Proper, Expected, Kinds
    <2>. QED BY <1>1, <1>2, <1>4, <1>7, <2>1, <2>2, <2>3, DoneHandled
  <1>11. CASE rec.file = "image.wim" /\ hasWim(got.how)
    <2> DEFINE r == [got EXCEPT !.pc = "site"]
    <2>1. boot' = [boot EXCEPT ![b] = r]
      BY <1>22, <1>11 DEF Proceeds, Set, Outs, None, winpeImage
    <2> HIDE DEF got
    <2>2. /\ r.pc = "site" /\ r.file = got.file /\ r.dep = got.dep
          /\ r.job = got.job /\ r.from = got.from /\ r.calm = got.calm /\ r.site = got.site
          /\ r.profile = got.profile /\ r.image = got.image /\ r.how = got.how
          /\ r.blob = got.blob
      BY <1>4 DEF Requests
    <2> HIDE DEF r
    <2>3. Placed(r)
      BY <1>2, <1>4, <1>7, <1>11, <2>2 DEF Placed, Bundling
    <2>4. ASSUME r.calm PROVE Agrees(r, View(r.dep)) /\ Branched(r, View(r.dep))
      BY <1>4, <1>6, <1>11, <2>2, <2>4 DEF Agrees, Branched, HasMachine, HasJob, HasProfile, HasVersion,
                                           Bundling
    <2>. QED BY <1>1, <1>4, <2>1, <2>3, <2>4, MovedHandled DEF r
  <1>12. CASE rec.file = "image.wim" /\ ~hasWim(got.how)
    <2>1. "refused" \in Outs
      BY DEF Outs
    <2>2. boot' = [boot EXCEPT ![b] = [got EXCEPT !.pc = "done", !.out = "refused"]]
      BY <1>22, <1>12, <2>1 DEF Proceeds, Set, winpeImage
    <2> HIDE DEF got
    <2>3. ASSUME got.calm PROVE Proper(got, "refused")
      BY <1>4, <1>5, <1>6, <1>12, <2>3 DEF Proper, Expected
    <2>. QED BY <1>1, <1>2, <1>4, <1>7, <2>1, <2>2, <2>3, DoneHandled
  <1>. QED BY <1>7, <1>8, <1>9, <1>10, <1>11, <1>12


\* The kind of a calm request is that of its deployment: of the bundle's job,
\* which is the only one, or of the token's.
LEMMA KindHandled ==
  ASSUME BootIInv, NEW b \in Boots, LookupKind(b)
  PROVE  Handled(b)
  <1> DEFINE old == boot[b]
             j == IF old.file = "user-data" THEN old.job ELSE old.dep
             found == IF j = 0 THEN None ELSE deps[j].kind
             v == View(old.dep)
  <1>1. old.pc = "kind" /\ UNCHANGED catalogueVars
    BY DEF LookupKind, At
  <1>2. /\ CatalogueIInv /\ old \in Requests /\ Placed(old) /\ Calm(old)
        /\ old.dep \in DOMAIN deps /\ old.file \in Files
        /\ DOMAIN deps = 1..Len(deps) /\ Len(deps) \in Nat
    BY <1>1, Current
  <1>3. PICK k \in OrFailed(found, None) :
           LET rec == [old EXCEPT !.kind = k, !.calm = @ /\ k # None]
               to == CASE rec.file = "user-data" -> writeUserData(rec)
                       [] rec.file = "deploy.cmd" -> winpeDeployCmd(rec)
                       [] rec.file = "capture.sh" -> captureScript(rec)
                       [] rec.file = "restore.sh" -> restoreScript(rec)
           IN  Proceeds(b, rec, to)
    BY DEF LookupKind
  <1> DEFINE calm == old.calm /\ k # None
             rec == [old EXCEPT !.kind = k, !.calm = calm]
  <1>4. /\ old.dep <= Len(deps) /\ old.job <= Len(deps) /\ old.job \in Nat
        /\ old.file \in {"user-data", "deploy.cmd", "capture.sh", "restore.sh"}
    BY <1>1, <1>2 DEF Placed, Requests
  <1>5. k \in Kinds \cup {None} /\ (k # None => j # 0 /\ k = deps[j].kind)
    <2>1. j # 0 => j \in DOMAIN deps
      BY <1>2, <1>4
    <2>2. j # 0 => deps[j].kind \in Kinds
      BY <1>2, <2>1, ViewType
    <2> HIDE DEF j
    <2>. QED BY <1>3, <2>2 DEF OrFailed
  <1>6. rec \in Requests
    <2>1. calm \in BOOLEAN
      OBVIOUS
    <2> HIDE DEF calm, j, found
    <2>. QED BY <1>2, <1>5, <2>1 DEF Requests
  <1>7. /\ rec.pc = "kind" /\ rec.file = old.file /\ rec.dep = old.dep
        /\ rec.job = old.job /\ rec.from = old.from /\ rec.site = old.site
        /\ rec.profile = old.profile /\ rec.image = old.image /\ rec.how = old.how
        /\ rec.blob = old.blob /\ rec.kind = k
    BY <1>1, <1>2 DEF Requests
  <1>8. rec.calm => old.calm /\ k # None
    <2>1. rec.calm => calm
      <3> HIDE DEF calm
      <3>. QED BY <1>2 DEF Requests
    <2>. QED BY <2>1
  <1>9. /\ v.image \in Images /\ v.image # None /\ v.how \in Methods /\ deps[old.dep].kind \in Kinds
    <2>1. None \notin Images
      BY CatalogueAssumption
    <2>. QED BY <1>2, <2>1, ViewType
  <1>10. rec.calm => /\ v.alone /\ Admitted(rec.dep, rec.file) /\ rec.from = None /\ rec.kind = deps[rec.dep].kind
                     /\ rec.file = "user-data" =>
                          /\ rec.site = v.site /\ rec.job = rec.dep
                          /\ rec.profile = deps[rec.dep].profile
                          /\ rec.image = v.image /\ rec.how = v.how
                          /\ rec.blob = IF v.blob THEN v.image ELSE None
    <2> SUFFICES ASSUME rec.calm
                 PROVE  /\ v.alone /\ Admitted(rec.dep, rec.file) /\ rec.from = None /\ rec.kind = deps[rec.dep].kind
                        /\ rec.file = "user-data" =>
                             /\ rec.site = v.site /\ rec.job = rec.dep
                             /\ rec.profile = deps[rec.dep].profile
                             /\ rec.image = v.image /\ rec.how = v.how
                             /\ rec.blob = IF v.blob THEN v.image ELSE None
      OBVIOUS
    <2>1. Agrees(old, v)
      BY <1>1, <1>2, <1>8 DEF Calm
    <2> HIDE DEF v, rec
    <2>2. /\ v.alone /\ Admitted(old.dep, old.file) /\ old.from = None
          /\ old.file = "user-data" =>
               /\ old.site = v.site /\ old.job = old.dep
               /\ old.profile = deps[old.dep].profile
               /\ old.image = v.image /\ old.how = v.how
               /\ old.blob = IF v.blob THEN v.image ELSE None
      BY <1>1, <2>1 DEF Agrees, HasMachine, HasJob, HasProfile, HasVersion
    <2>3. k = deps[old.dep].kind
      BY <1>5, <1>8, <2>2
    <2>. QED BY <1>7, <2>2, <2>3
  <1>11. isLinuxGolden(rec) /\ rec.calm /\ rec.file = "user-data" => GoldenView(v)
    BY <1>10 DEF isLinuxGolden, GoldenView
  <1>12. GoldenView(v) /\ rec.calm /\ rec.file = "user-data" => isLinuxGolden(rec)
    BY <1>9, <1>10 DEF isLinuxGolden, GoldenView
  <1>13. ASSUME NEW out \in Outs, Proceeds(b, rec, out), rec.calm => Proper(rec, out) PROVE Handled(b)
    <2>1. boot' = [boot EXCEPT ![b] = [rec EXCEPT !.pc = "done", !.out = out]]
      BY <1>13 DEF Proceeds, Set
    <2> HIDE DEF rec
    <2>. QED BY <1>1, <1>2, <1>4, <1>6, <1>7, <1>13, <2>1, DoneHandled
  <1>14. ASSUME NEW pc \in {"machine", "template", "site"}, Proceeds(b, rec, pc),
                pc \in {"template", "site"} => rec.file = "user-data",
                pc = "machine" => rec.file = "restore.sh",
                rec.calm => deps[rec.dep].kind = "deploy",
                rec.calm /\ pc = "site" => GoldenView(v),
                rec.calm /\ pc = "template" => ~GoldenView(v)
         PROVE  Handled(b)
    <2> DEFINE r == [rec EXCEPT !.pc = pc]
    <2>1. boot' = [boot EXCEPT ![b] = r]
      BY <1>14 DEF Proceeds, Set, Outs, None
    <2> HIDE DEF rec
    <2>2. /\ r.pc = pc /\ r.file = rec.file /\ r.dep = rec.dep
          /\ r.job = rec.job /\ r.from = rec.from /\ r.calm = rec.calm /\ r.site = rec.site
          /\ r.profile = rec.profile /\ r.image = rec.image /\ r.how = rec.how
          /\ r.blob = rec.blob
      BY <1>6 DEF Requests
    <2> HIDE DEF r
    <2>3. Placed(r)
      BY <1>2, <1>4, <1>7, <1>14, <2>2 DEF Placed, Bundling
    <2>4. ASSUME r.calm PROVE Agrees(r, View(r.dep)) /\ Branched(r, View(r.dep))
      BY <1>7, <1>10, <1>14, <2>2, <2>4 DEF Agrees, Branched, HasMachine, HasJob, HasProfile, HasVersion,
                                            Bundling
    <2>. QED BY <1>1, <1>6, <1>14, <2>1, <2>3, <2>4, MovedHandled DEF r
  <1>15. CASE old.file = "user-data"
    <2>1. Proceeds(b, rec, writeUserData(rec))
      BY <1>3, <1>7, <1>15
    <2> HIDE DEF rec, v
    <2>2. CASE rec.kind = "capture"
      <3>1. "capture" \in Outs /\ writeUserData(rec) = "capture"
        BY <2>2 DEF Outs, writeUserData
      <3>2. rec.calm => Proper(rec, "capture")
        BY <1>7, <1>10, <1>15, <2>2 DEF Proper, Expected
      <3>. QED BY <1>13, <2>1, <3>1, <3>2
    <2>3. CASE rec.kind # "capture" /\ isLinuxGolden(rec)
      <3>1. writeUserData(rec) = "site"
        BY <2>3 DEF writeUserData
      <3>2. rec.calm => deps[rec.dep].kind = "deploy"
        BY <1>7, <1>9, <1>10, <2>3 DEF Kinds
      <3>. QED BY <1>7, <1>11, <1>14, <1>15, <2>1, <2>3, <3>1, <3>2
    <2>4. CASE rec.kind # "capture" /\ ~isLinuxGolden(rec)
      <3>1. writeUserData(rec) = "template"
        BY <2>4 DEF writeUserData
      <3>2. rec.calm => deps[rec.dep].kind = "deploy"
        BY <1>7, <1>9, <1>10, <2>4 DEF Kinds
      <3>. QED BY <1>7, <1>12, <1>14, <1>15, <2>1, <2>4, <3>1, <3>2
    <2>. QED BY <2>2, <2>3, <2>4
  <1>16. CASE old.file = "deploy.cmd"
    <2>1. Proceeds(b, rec, winpeDeployCmd(rec))
      BY <1>3, <1>7, <1>16
    <2> HIDE DEF rec, v
    <2>2. winpeDeployCmd(rec) \in Outs
      BY DEF Outs, winpeDeployCmd
    <2>3. rec.calm => Proper(rec, winpeDeployCmd(rec))
      BY <1>7, <1>9, <1>10, <1>16 DEF Proper, Expected, winpeDeployCmd, Kinds
    <2>. QED BY <1>13, <2>1, <2>2, <2>3
  <1>17. CASE old.file = "capture.sh"
    <2>1. Proceeds(b, rec, captureScript(rec))
      BY <1>3, <1>7, <1>17
    <2> HIDE DEF rec, v
    <2>2. captureScript(rec) \in Outs
      BY DEF Outs, captureScript
    <2>3. rec.calm => Proper(rec, captureScript(rec))
      BY <1>7, <1>9, <1>10, <1>17 DEF Proper, Expected, captureScript, Kinds
    <2>. QED BY <1>13, <2>1, <2>2, <2>3
  <1>18. CASE old.file = "restore.sh" /\ rec.kind = "deploy"
    <2>1. Proceeds(b, rec, "machine")
      BY <1>3, <1>7, <1>18 DEF restoreScript
    <2> HIDE DEF rec, v
    <2>2. rec.calm => deps[rec.dep].kind = "deploy"
      BY <1>10, <1>18
    <2>. QED BY <1>7, <1>14, <1>18, <2>1, <2>2
  <1>19. CASE old.file = "restore.sh" /\ rec.kind # "deploy"
    <2>1. Proceeds(b, rec, "refused")
      BY <1>3, <1>7, <1>19 DEF restoreScript
    <2> HIDE DEF rec, v
    <2>2. "refused" \in Outs
      BY DEF Outs
    <2>3. rec.calm => Proper(rec, "refused")
      BY <1>7, <1>9, <1>10, <1>19 DEF Proper, Expected, Kinds
    <2>. QED BY <1>13, <2>1, <2>2, <2>3
  <1>. QED BY <1>4, <1>15, <1>16, <1>17, <1>18, <1>19

\* The template of the bundle's profile, or of the token's.
LEMMA TemplateHandled ==
  ASSUME BootIInv, NEW b \in Boots, LookupTemplate(b)
  PROVE  Handled(b)
  <1> DEFINE old == boot[b]
             v == View(old.dep)
  <1>1. old.pc = "template" /\ UNCHANGED catalogueVars
    BY DEF LookupTemplate, At
  <1>2. /\ CatalogueIInv /\ old \in Requests /\ Placed(old) /\ Calm(old)
        /\ old.dep \in DOMAIN deps /\ old.file \in Files
    BY <1>1, Current
  <1>3. /\ old.dep <= Len(deps) /\ old.job <= Len(deps)
    BY <1>2 DEF Placed
  <1>4. old.calm => Agrees(old, v) /\ Branched(old, v)
    BY <1>1, <1>2 DEF Calm
  <1>5. (v.tpl <=> deps[old.dep].profile \in templates) /\ deps[old.dep].kind \in Kinds
    BY <1>2, ViewType
  <1>6. old.file \in {"user-data", "unattend.xml"}
    BY <1>1, <1>2 DEF Placed
  <1> DEFINE bundled == old.file = "user-data"
             found == (IF bundled THEN old.profile ELSE deps[old.dep].profile) \in templates
  <1>7. PICK t \in OrFailed(found, FALSE) :
           Proceeds(b, [old EXCEPT !.template = t, !.calm = @ /\ t = found],
                    IF bundled THEN "install" ELSE winpeUnattend(t))
    BY DEF LookupTemplate
  <1> DEFINE calm == old.calm /\ t = found
             rec == [old EXCEPT !.template = t, !.calm = calm]
  <1>8. t \in BOOLEAN
    <2>1. found \in BOOLEAN
      OBVIOUS
    <2> HIDE DEF found
    <2>. QED BY <1>7, <2>1 DEF OrFailed
  <1>9. /\ rec \in Requests /\ rec.file = old.file /\ rec.dep = old.dep
        /\ rec.job = old.job /\ rec.from = old.from /\ rec.template = t
        /\ rec.image = old.image /\ rec.blob = old.blob
    <2>1. calm \in BOOLEAN
      OBVIOUS
    <2> HIDE DEF calm, found
    <2>2. rec \in Requests
      BY <1>2, <1>8, <2>1 DEF Requests
    <2>. QED BY <1>2, <2>2 DEF Requests
  <1>10. rec.calm => old.calm /\ t = found
    <2>1. rec.calm => calm
      <3> HIDE DEF calm
      <3>. QED BY <1>2 DEF Requests
    <2>. QED BY <2>1
  <1>11. Proceeds(b, rec, IF bundled THEN "install" ELSE winpeUnattend(t))
    BY <1>7
  <1>12. rec.calm => /\ Admitted(old.dep, old.file) /\ old.from = None /\ (t <=> v.tpl)
                     /\ bundled => ~GoldenView(v) /\ deps[old.dep].kind = "deploy"
    <2> SUFFICES ASSUME rec.calm
                 PROVE  /\ Admitted(old.dep, old.file) /\ old.from = None /\ (t <=> v.tpl)
                        /\ bundled => ~GoldenView(v) /\ deps[old.dep].kind = "deploy"
      OBVIOUS
    <2>1. t = found /\ Agrees(old, v) /\ Branched(old, v)
      BY <1>4, <1>10
    <2> HIDE DEF v, rec
    <2>2. bundled => old.profile = deps[old.dep].profile
      BY <1>1, <2>1 DEF Agrees, HasJob, HasMachine
    <2>3. Admitted(old.dep, old.file) /\ old.from = None
      BY <1>1, <2>1 DEF Agrees
    <2>4. bundled => ~GoldenView(v) /\ deps[old.dep].kind = "deploy"
      BY <1>1, <2>1 DEF Branched
    <2>5. t <=> v.tpl
      BY <1>5, <2>1, <2>2
    <2>. QED BY <2>3, <2>4, <2>5
  <1>13. v.tpl \in BOOLEAN
    BY DEF View
  <1>14. CASE bundled
    <2>1. "install" \in Outs
      BY DEF Outs
    <2>2. boot' = [boot EXCEPT ![b] = [rec EXCEPT !.pc = "done", !.out = "install"]]
      BY <1>11, <1>14, <2>1 DEF Proceeds, Set
    <2> HIDE DEF rec, found, v
    <2>3. ASSUME rec.calm PROVE Proper(rec, "install")
      BY <1>8, <1>9, <1>12, <1>13, <1>14, <2>3 DEF Proper, Expected, GoldenView, v
    <2>. QED BY <1>1, <1>2, <1>3, <1>9, <2>1, <2>2, <2>3, DoneHandled
  <1>15. CASE ~bundled /\ t
    <2> DEFINE r == [rec EXCEPT !.pc = "machine"]
    <2>1. boot' = [boot EXCEPT ![b] = r]
      BY <1>11, <1>15 DEF winpeUnattend, Proceeds, Set, Outs, None
    <2> HIDE DEF rec, found, v
    <2>2. /\ r.pc = "machine" /\ r.file = rec.file /\ r.dep = rec.dep
          /\ r.job = rec.job /\ r.from = rec.from /\ r.calm = rec.calm
      BY <1>9 DEF Requests
    <2> HIDE DEF r
    <2>3. Placed(r)
      BY <1>2, <1>3, <1>6, <1>9, <1>15, <2>2 DEF Placed, Bundling
    <2>4. ASSUME r.calm PROVE Agrees(r, v) /\ Branched(r, v)
      BY <1>4, <1>6, <1>9, <1>10, <1>12, <1>15, <2>2, <2>4
         DEF Agrees, Branched, HasMachine, HasJob, HasProfile, HasVersion, Bundling
    <2>5. ASSUME r.calm PROVE Agrees(r, View(r.dep)) /\ Branched(r, View(r.dep))
      BY <1>9, <2>2, <2>4, <2>5 DEF v
    <2>. QED BY <1>1, <1>9, <2>1, <2>3, <2>5, MovedHandled DEF r
  <1>16. CASE ~bundled /\ ~t
    <2>1. "refused" \in Outs
      BY DEF Outs
    <2>2. boot' = [boot EXCEPT ![b] = [rec EXCEPT !.pc = "done", !.out = "refused"]]
      BY <1>11, <1>16, <2>1 DEF winpeUnattend, Proceeds, Set
    <2> HIDE DEF rec, found, v
    <2>3. ASSUME rec.calm PROVE Proper(rec, "refused")
      BY <1>6, <1>9, <1>12, <1>13, <1>16, <2>3 DEF Proper, Expected, v
    <2>. QED BY <1>1, <1>2, <1>3, <1>9, <2>1, <2>2, <2>3, DoneHandled
  <1>. QED BY <1>8, <1>14, <1>15, <1>16

\* The mirror of the site that was read with the machine; a foreign image is
\* on none.
LEMMA SiteHandled ==
  ASSUME BootIInv, NEW b \in Boots, LookupSite(b)
  PROVE  Handled(b)
  <1> DEFINE old == boot[b]
             v == View(old.dep)
  <1>1. old.pc = "site" /\ UNCHANGED catalogueVars
    BY DEF LookupSite, At
  <1>2. /\ CatalogueIInv /\ old \in Requests /\ Placed(old) /\ Calm(old)
        /\ old.dep \in DOMAIN deps /\ old.file \in Files
    BY <1>1, Current
  <1>3. /\ old.dep <= Len(deps) /\ old.job <= Len(deps) /\ old.file \in {"user-data", "image.wim"}
    BY <1>1, <1>2 DEF Placed
  <1>4. PICK from \in siteMirrorFor(b) :
           LET rec == [old EXCEPT !.calm = @ /\ from = SiteMirror(old.site)]
           IN  IF rec.file = "user-data"
               THEN Proceeds(b, [rec EXCEPT !.from = goldenArchiveURL(from)], "restore")
               ELSE Proceeds(b, [rec EXCEPT !.from = bundleToRespForSite(from, rec.how)], "install")
    BY DEF LookupSite
  <1> DEFINE calm == old.calm /\ from = SiteMirror(old.site)
             rec == [old EXCEPT !.calm = calm]
             to == IF old.file = "user-data" THEN goldenArchiveURL(from)
                   ELSE bundleToRespForSite(from, old.how)
             out == IF old.file = "user-data" THEN "restore" ELSE "install"
             got == [rec EXCEPT !.from = to]
  <1>5. from \in Sites \cup {None} /\ to \in Sites \cup {None}
    <2>1. old.site \in Sites \cup {None}
      BY <1>2 DEF Requests
    <2>2. from \in Sites \cup {None}
      BY <1>4, <2>1 DEF siteMirrorFor, SiteMirror, OrFailed
    <2>. QED BY <2>2 DEF goldenArchiveURL, bundleToRespForSite, mirrorRewrite
  <1>6. /\ rec \in Requests /\ rec.file = old.file /\ rec.how = old.how /\ rec.dep = old.dep
        /\ rec.job = old.job /\ rec.image = old.image /\ rec.blob = old.blob
    <2>1. calm \in BOOLEAN
      OBVIOUS
    <2> HIDE DEF calm
    <2>2. rec \in Requests
      BY <1>2, <2>1 DEF Requests
    <2>. QED BY <1>2, <2>2 DEF Requests
  <1>7. rec.calm => old.calm /\ from = SiteMirror(old.site)
    <2>1. rec.calm => calm
      <3> HIDE DEF calm
      <3>. QED BY <1>2 DEF Requests
    <2>. QED BY <2>1
  <1>8. Proceeds(b, got, out)
    BY <1>4, <1>6
  <1>9. out \in Outs
    BY DEF Outs
  <1>10. boot' = [boot EXCEPT ![b] = [got EXCEPT !.pc = "done", !.out = out]]
    BY <1>8, <1>9 DEF Proceeds, Set
  <1> HIDE DEF rec
  <1>11. /\ got \in Requests /\ got.file = old.file /\ got.how = old.how /\ got.dep = old.dep
         /\ got.job = old.job /\ got.image = old.image /\ got.blob = old.blob /\ got.from = to
         /\ got.calm = rec.calm
    <2> HIDE DEF to
    <2>1. got \in Requests
      BY <1>5, <1>6 DEF Requests
    <2>. QED BY <1>6, <2>1 DEF Requests
  <1> HIDE DEF got
  <1>12. ASSUME got.calm PROVE Proper(got, out)
    <2>1. Agrees(old, v) /\ Branched(old, v) /\ from = SiteMirror(old.site)
      BY <1>1, <1>2, <1>7, <1>11, <1>12 DEF Calm
    <2>2. v.from = SiteMirror(v.site) /\ v.how \in Methods
      BY <1>2, ViewType
    <2> HIDE DEF v
    <2>3. /\ old.site = v.site /\ old.image = v.image /\ old.how = v.how
          /\ Admitted(old.dep, old.file)
          /\ old.blob = IF v.blob THEN v.image ELSE None
      BY <1>1, <2>1 DEF Agrees, HasMachine, HasJob, HasProfile, HasVersion
    <2>4. from = v.from
      BY <2>1, <2>2, <2>3
    <2>5. CASE old.file = "user-data"
      <3>1. GoldenView(v) /\ deps[old.dep].kind = "deploy"
        BY <1>1, <2>1, <2>5 DEF Branched
      <3>2. to = v.from
        BY <2>4, <2>5 DEF goldenArchiveURL, mirrorRewrite
      <3>. QED BY <1>11, <2>3, <2>5, <3>1, <3>2 DEF Proper, Expected, GoldenView, v
    <2>6. CASE old.file = "image.wim"
      <3>1. hasWim(v.how)
        BY <1>1, <2>1, <2>6 DEF Branched
      <3>2. to = IF v.how = "foreign" THEN None ELSE v.from
        BY <2>3, <2>4, <2>6 DEF bundleToRespForSite, mirrorRewrite
      <3>. QED BY <1>11, <2>3, <2>6, <3>1, <3>2 DEF Proper, Expected, v
    <2>. QED BY <1>3, <2>5, <2>6
  <1> HIDE DEF out
  <1>. QED BY <1>1, <1>2, <1>3, <1>9, <1>10, <1>11, <1>12, DoneHandled


-----------------------------------------------------------------------------
\* What holds of a request is the same in the next state when the catalogue
\* did not change.
LEMMA Steady ==
  ASSUME UNCHANGED catalogueVars, NEW c, Good(boot'[c])
  PROVE  Good(boot[c])'
  <1>1. View(boot[c].dep)' = View(boot'[c].dep)
    BY DEF catalogueVars, View, ActiveJobs, Active, SiteMirror
  <1>2. (boot[c] \in Requests)' /\ Placed(boot[c])'
    BY DEF Good, Placed, Requests, catalogueVars
  <1>3. Calm(boot[c])'
    BY <1>1 DEF Good, Calm, Agrees, Branched, HasMachine, HasJob, HasProfile, HasVersion, GoldenView,
                hasWim, catalogueVars, Admitted, Imaging
  <1>. QED BY <1>2, <1>3 DEF Good

\* The handlers of a request.
LEMMA ServeHandled ==
  ASSUME BootIInv, NEW b \in Boots, Serve(b)
  PROVE  Handled(b)
  BY AskHandled, AuthenticateHandled, MachineHandled, JobHandled, ProfileHandled, VersionHandled,
     KindHandled, TemplateHandled, SiteHandled DEF Serve

\* A step of the catalogue leaves a request what it knows, or ends its calm.
LEMMA ChangeBoot ==
  ASSUME BootIInv, Change
  PROVE  BootIInv' /\ \A b \in Boots : boot'[b].pc = boot[b].pc
  <1>0. CatalogueIInv /\ boot \in [Boots -> Requests]
    BY DEF BootIInv
  <1>1. /\ CatalogueIInv'
        /\ Len(deps) <= Len(deps')
        /\ \A d \in DOMAIN deps : /\ d \in DOMAIN deps' /\ deps'[d].machine = deps[d].machine
                                  /\ deps'[d].profile = deps[d].profile
                                  /\ deps'[d].kind = deps[d].kind
    BY <1>0, ChangeCatalogue DEF Change
  <1>2. Len(deps) \in Nat /\ Len(deps') \in Nat
    BY <1>0, <1>1 DEF CatalogueIInv, CatalogueTypeOK
  <1>3. ASSUME NEW b \in Boots
        PROVE  boot'[b] \in Requests /\ boot'[b].pc = boot[b].pc /\ Good(boot[b])'
    <2> DEFINE rec == boot[b]
    <2>0. rec \in Requests /\ Placed(rec) /\ Calm(rec) /\ rec.dep \in Nat /\ rec.job \in Nat
      BY DEF BootIInv, Good, Requests
    <2>1. CASE rec.pc \in {"idle", "done"}
      <3>1. boot'[b] = rec
        BY <2>1 DEF Change
      <3>2. Placed(boot[b])'
        BY <1>1, <1>2, <2>0, <3>1 DEF Placed
      <3>3. Calm(boot[b])'
        BY <2>1, <3>1 DEF Calm
      <3>. QED BY <2>0, <3>1, <3>2, <3>3 DEF Good, Requests
    <2>2. CASE rec.pc \notin {"idle", "done"}
      <3> DEFINE calm == /\ rec.calm
                         /\ \A d \in {rec.dep}, file \in {rec.file} :
                               View(d) = View(d)' /\ Admitted(d, file) = Admitted(d, file)'
                 r == [rec EXCEPT !.calm = calm]
      <3>1. boot'[b] = r
        BY <2>2 DEF Change
      <3>2. calm \in BOOLEAN
        OBVIOUS
      <3>3. calm => rec.calm /\ \A d \in {rec.dep}, file \in {rec.file} :
                                  View(d) = View(d)' /\ Admitted(d, file) = Admitted(d, file)'
        OBVIOUS
      <3> HIDE DEF calm
      <3>4. /\ r \in Requests /\ r.pc = rec.pc /\ r.file = rec.file /\ r.dep = rec.dep
            /\ r.job = rec.job /\ r.from = rec.from /\ r.site = rec.site
            /\ r.profile = rec.profile /\ r.image = rec.image /\ r.how = rec.how
            /\ r.blob = rec.blob
        BY <2>0, <3>2 DEF Requests
      <3>5. r.calm => calm
        BY <2>0 DEF Requests
      <3> HIDE DEF r
      <3>6. (boot[b] \in Requests)'
        BY <3>1, <3>4 DEF Requests
      <3>7. Placed(boot[b])'
        BY <1>1, <1>2, <2>0, <3>1, <3>4 DEF Placed, Bundling
      <3>8. Calm(boot[b])'
        <4> SUFFICES ASSUME boot'[b].calm
                     PROVE  Agrees(boot[b], View(boot[b].dep))' /\ Branched(boot[b], View(boot[b].dep))'
          BY DEF Calm
        <4>1. Agrees(rec, View(rec.dep)) /\ Branched(rec, View(rec.dep))
          BY <2>0, <2>2, <3>1, <3>3, <3>5 DEF Calm
        <4>2. View(boot[b].dep)' = View(rec.dep)
          <5> DEFINE e == rec.dep
          <5>1. \A d \in {e} : View(d) = View(d)'
            BY <3>1, <3>3, <3>5
          <5>2. boot'[b].dep = e
            BY <3>1, <3>4
          <5> HIDE DEF e
          <5>3. PICK d \in {e} : TRUE
            OBVIOUS
          <5>4. View(d) = View(d)' /\ boot'[b].dep = d
            BY <5>1, <5>2
          <5>5. View(boot[b].dep)' = View(d)'
            BY <5>4 DEF View, ActiveJobs, Active, SiteMirror
          <5>. QED BY <5>4, <5>5 DEF e
        <4>3. /\ deps'[rec.dep].profile = deps[rec.dep].profile
              /\ deps'[rec.dep].kind = deps[rec.dep].kind
          BY <1>1, <2>0, <2>2 DEF Placed
        <4>6. rec.pc # "auth" => Admitted(boot[b].dep, boot[b].file)'
          <5> DEFINE e == rec.dep
                     f == rec.file
          <5>1. \A d \in {e}, file \in {f} : Admitted(d, file) = Admitted(d, file)'
            BY <3>1, <3>3, <3>5
          <5>2. boot'[b].dep = e /\ boot'[b].file = f
            BY <3>1, <3>4
          <5>3. rec.pc # "auth" => Admitted(e, f)
            BY <4>1 DEF Agrees
          <5> HIDE DEF e, f
          <5>. QED BY <5>1, <5>2, <5>3 DEF Admitted, Imaging, f
        <4>4. Agrees(boot[b], View(boot[b].dep))'
          BY <3>1, <3>4, <4>1, <4>2, <4>3, <4>6 DEF Agrees, HasMachine, HasJob, HasProfile, HasVersion
        <4>5. Branched(boot[b], View(boot[b].dep))'
          BY <3>1, <3>4, <4>1, <4>2, <4>3 DEF Branched, GoldenView, hasWim, Bundling
        <4>. QED BY <4>4, <4>5
      <3>. QED BY <3>1, <3>4, <3>6, <3>7, <3>8 DEF Good
    <2>. QED BY <2>1, <2>2
  <1>4. boot' \in [Boots -> Requests]
    <2>1. boot' = [b \in Boots |-> boot'[b]]
      BY DEF Change
    <2>. QED BY <1>3, <2>1
  <1>. QED BY <1>1, <1>3, <1>4 DEF BootIInv, Requests

\* The invariant is inductive, and a request that ends is properly answered.
LEMMA NextBoot ==
  ASSUME BootIInv, [Next]_vars
  PROVE  /\ BootIInv'
         /\ \A b \in Boots : boot[b].pc # "done" /\ boot'[b].pc = "done" /\ boot'[b].calm =>
               Proper(boot'[b], boot'[b].out)
  <1>0. CatalogueIInv /\ boot \in [Boots -> Requests] /\ \A b \in Boots : Good(boot[b])
    BY DEF BootIInv
  <1>1. ASSUME UNCHANGED catalogueVars PROVE CatalogueIInv'
    BY <1>0, <1>1 DEF catalogueVars, CatalogueIInv, CatalogueTypeOK, DelOK, ReferencesHold
  <1>2. CASE UNCHANGED vars
    <2>1. UNCHANGED catalogueVars /\ UNCHANGED boot
      BY <1>2 DEF vars
    <2>2. \A b \in Boots : Good(boot[b])'
      BY <1>0, <2>1, Steady
    <2>3. BootIInv'
      BY <1>0, <1>1, <2>1, <2>2 DEF BootIInv, Requests
    <2>. QED BY <2>1, <2>3
  <1>3. ASSUME NEW b \in Boots, Serve(b)
        PROVE  /\ BootIInv'
               /\ \A c \in Boots : boot[c].pc # "done" /\ boot'[c].pc = "done" /\ boot'[c].calm =>
                     Proper(boot'[c], boot'[c].out)
    <2>1. Handled(b)
      BY <1>3, ServeHandled
    <2>2. PICK r \in Requests : boot' = [boot EXCEPT ![b] = r] /\ Good(r) /\ Answered(r)
      BY <2>1 DEF Handled
    <2>3. UNCHANGED catalogueVars
      BY <2>1 DEF Handled
    <2>4. /\ boot' \in [Boots -> Requests] /\ boot'[b] = r
          /\ \A c \in Boots : c # b => boot'[c] = boot[c]
      BY <1>0, <2>2
    <2>5. \A c \in Boots : Good(boot'[c])
      BY <1>0, <2>2, <2>4
    <2>6. \A c \in Boots : Good(boot[c])'
      BY <2>3, <2>5, Steady
    <2>7. BootIInv'
      BY <1>1, <2>3, <2>4, <2>6 DEF BootIInv, Requests
    <2>. QED BY <2>2, <2>3, <2>4, <2>7 DEF Answered
  <1>4. CASE Change
    BY <1>4, ChangeBoot
  <1>. QED BY <1>2, <1>3, <1>4 DEF Next

\* Before the first request nothing is known.
LEMMA InitBoot == Init => BootIInv
  <1> SUFFICES ASSUME Init PROVE BootIInv
    OBVIOUS
  <1>1. CatalogueIInv /\ boot = [b \in Boots |-> Waiting] /\ Len(deps) = 0
    BY InitCatalogue DEF Init, CatalogueInit
  <1>2. Waiting \in Requests
    BY DEF Waiting, Requests, Pcs, Outs
  <1>3. Placed(Waiting)
    BY <1>1 DEF Waiting, Placed, Bundling
  <1>4. Calm(Waiting)
    BY DEF Waiting, Calm
  <1>. QED BY <1>1, <1>2, <1>3, <1>4 DEF BootIInv, Good

\* Whatever operators create, change and delete at the same time, and however
\* the deployments move on, no DELETE leaves a reference to a row that is gone,
\* although its counts were taken by earlier statements.
THEOREM Referenced == Spec => []ReferencesHold
  <1>1. BootIInv => ReferencesHold
    BY DEF BootIInv, CatalogueIInv
  <1>2. BootIInv /\ [Next]_vars => BootIInv'
    BY NextBoot
  <1>. QED BY InitBoot, <1>1, <1>2, PTL DEF Spec

\* Rows and requests keep their types; the deployment of a request and the job
\* of its bundle are rows that exist.
THEOREM BootTypeCorrect == Spec => []TypeOK
  <1>1. BootIInv => TypeOK
    BY DEF BootIInv, CatalogueIInv, Good, Placed, TypeOK
  <1>2. BootIInv /\ [Next]_vars => BootIInv'
    BY NextBoot
  <1>. QED BY InitBoot, <1>1, <1>2, PTL DEF Spec

\* A request that nothing it reads was changed under is answered for the
\* deployment of its token, although it is put together from a statement each,
\* between which any number of other requests and edits happen.
THEOREM Served == Spec => CalmBootIsServed
  <1> DEFINE Ends(b) == LET rec == boot'[b]
         IN  boot[b].pc # "done" /\ rec.pc = "done" /\ rec.calm =>
               /\ rec.out = Expected(rec.dep, rec.file)
               /\ rec.out = "restore" => rec.blob = rec.image
               /\ rec.out = "install" /\ rec.file = "user-data" => rec.template = View(rec.dep).tpl
               /\ rec.out # "refused" =>
                    rec.from = IF \/ rec.file = "image.wim" /\ View(rec.dep).how # "foreign"
                                  \/ rec.file = "user-data" /\ rec.out = "restore"
                               THEN View(rec.dep).from ELSE None
  <1>1. ASSUME BootIInv, [Next]_vars, NEW b \in Boots PROVE Ends(b)
    BY <1>1, NextBoot DEF Proper
  <1>2. BootIInv /\ [Next]_vars => [\A b \in Boots : Ends(b)]_vars
    BY <1>1
  <1>3. BootIInv /\ [Next]_vars => BootIInv'
    BY NextBoot
  <1>. QED BY InitBoot, <1>2, <1>3, PTL DEF Spec, CalmBootIsServed

=============================================================================
