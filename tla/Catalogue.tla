----------------------------- MODULE Catalogue ------------------------------
(***************************************************************************)
(* What operators administer: images with their versions, profiles with    *)
(* their answer-file templates, machines, sites with their mirrors, and    *)
(* the deployments issued for a machine and a profile.  Rows refer to each *)
(* other by foreign keys, a machine to its site by a name only; deleting   *)
(* counts the references first and deletes by a later statement.           *)
(*                                                                         *)
(* Every action is one SQL statement; a call that breaks a foreign key is  *)
(* answered with an error and changes nothing.                             *)
(***************************************************************************)
EXTENDS Naturals, Sequences, FiniteSets

CONSTANTS
    Images, Profiles, Machines, Sites,   \* ids of rows
    Starts,          \* initial states: catalogues an operator has set up
    MaxDeployments,  \* bound: rows of auth_codes
    MaxEdits         \* bound: operator calls and jobs of the PXE menu

None == "none"
Absent == "absent"

VARIABLES
    image,      \* images: absent, or how os_family and media have it deployed
    versions,   \* images with a row in image_versions
    profile,    \* deployment_profiles: the image of a profile, or None
    templates,  \* profiles with an answer-file template
    machine,    \* machines: Absent, None, or the default profile
    site,       \* machines.attributes.site
    mirror,     \* sites: absent, or whether mirror_base_url is set
    deps,       \* auth_codes and deployment_jobs in the order of created_at
    del,        \* the DELETE call in progress
    edits       \* operator calls and jobs of the menu so far

catalogueVars == <<image, versions, profile, templates, machine, site, mirror, deps, del, edits>>

\* A Linux installer or golden archive; Windows from an install.wim of this
\* server or, by media.wim_url, of another one.
Methods == {"installer", "golden", "windows", "foreign"}
Kinds == {"deploy", "capture"}

\* A code that was issued has no job yet, a job of the PXE menu is pending until
\* the target reports; imaging stands for bootstrapped and imaging, late for
\* post_install.
DepStates == {"issued", "pending", "imaging", "late", "ended"}
Resting == [pc |-> "idle", of |-> None]

ASSUME CatalogueAssumption ==
    /\ IsFiniteSet(Images) /\ IsFiniteSet(Profiles) /\ IsFiniteSet(Machines)
    /\ {None, Absent} \cap (Images \cup Profiles \cup Machines \cup Sites) = {}
    /\ MaxDeployments \in Nat /\ MaxEdits \in Nat
    /\ Starts \subseteq [image : [Images -> Methods], profile : [Profiles -> Images],
                        templates : SUBSET Profiles,
                        machine : [Machines -> Profiles \cup {None}],
                        site : [Machines -> Sites \cup {None}]]

Deployments == [machine : Machines, profile : Profiles, kind : Kinds,
                target : Images \cup {None}, state : DepStates,
                token : BOOLEAN]   \* its newest boot token is neither consumed nor expired

CatalogueTypeOK ==
    /\ image \in [Images -> Methods \cup {Absent}]
    /\ versions \subseteq Images
    /\ profile \in [Profiles -> Images \cup {None}]
    /\ templates \subseteq Profiles
    /\ machine \in [Machines -> Profiles \cup {None, Absent}]
    /\ site \in [Machines -> Sites \cup {None}]
    /\ mirror \in [Sites -> {Absent, None, "mirror"}]
    /\ deps \in Seq(Deployments) /\ Len(deps) <= MaxDeployments
    /\ del \in [pc : {"idle", "machine", "machines", "profile", "image"},
                of : Machines \cup Profiles \cup Images \cup {None}]
    /\ edits \in 0..MaxEdits

CatalogueInit ==
    /\ \E s \in Starts :
          /\ image = s.image /\ profile = s.profile /\ templates = s.templates
          /\ machine = s.machine /\ site = s.site
    /\ versions = Images
    /\ mirror = [s \in Sites |-> "mirror"]
    /\ deps = <<>>
    /\ del = Resting
    /\ edits = 0

\* The job states that LookupRenderBundle, VerifyOneShotTokenForJob, the mint
\* and the counts before a DELETE ask for.
Active(d) == deps[d].state \in {"pending", "imaging"}
Imaging(d) == deps[d].state = "imaging"
Unfinished(d) == deps[d].state \in {"pending", "imaging", "late"}
sites == <<site, mirror>>
Edit == edits < MaxEdits /\ edits' = edits + 1

-----------------------------------------------------------------------------
(***************************************************************************)
(* Creating and changing rows.                                             *)
(***************************************************************************)

\* What a statement of the store does; its error is the handler's answer.
CreateImage(i, how) == image[i] = Absent /\ image' = [image EXCEPT ![i] = how]
UpdateImage(i, how) == image[i] # Absent /\ image' = [image EXCEPT ![i] = how]
CreateImageVersion(i) == image[i] # Absent /\ versions' = versions \cup {i}
CreateProfile(p, i) ==
    profile[p] = None /\ image[i] # Absent /\ profile' = [profile EXCEPT ![p] = i]
UpdateProfile(p, i) ==
    profile[p] # None /\ image[i] # Absent /\ profile' = [profile EXCEPT ![p] = i]
UpsertProfileTemplate(p) == profile[p] # None /\ templates' = templates \cup {p}
DeleteProfileTemplate(p) == p \in templates /\ templates' = templates \ {p}
CreateMachine(m, p) ==
    /\ machine[m] = Absent /\ (p # None => profile[p] # None)
    /\ machine' = [machine EXCEPT ![m] = p]
UpdateMachine(m, p) ==
    /\ machine[m] # Absent /\ (p # None => profile[p] # None)
    /\ machine' = [machine EXCEPT ![m] = p]
UpsertSite(s, to) == mirror' = [mirror EXCEPT ![s] = to]
DeleteSite(s) == mirror[s] # Absent /\ mirror' = [mirror EXCEPT ![s] = Absent]

\* The mirror of a site, None for an unknown one or one without.
SiteMirror(s) == IF s # None /\ mirror[s] = "mirror" THEN s ELSE None

\* The handlers, past the check of the permission (see Access).
createImage(i) ==
    /\ Edit /\ \E how \in Methods : CreateImage(i, how)
    /\ UNCHANGED <<versions, profile, templates, machine, sites, deps, del>>

\* The entries of the catalogue are installers.
installFromCatalog(i) ==
    /\ Edit /\ CreateImage(i, "installer")
    /\ UNCHANGED <<versions, profile, templates, machine, sites, deps, del>>

updateImage(i) ==
    /\ Edit /\ \E how \in Methods : UpdateImage(i, how)
    /\ UNCHANGED <<versions, profile, templates, machine, sites, deps, del>>

createImageVersion(i) ==
    /\ Edit /\ CreateImageVersion(i)
    /\ UNCHANGED <<image, profile, templates, machine, sites, deps, del>>

createProfile(p) ==
    /\ Edit /\ \E i \in Images : CreateProfile(p, i)
    /\ UNCHANGED <<image, versions, templates, machine, sites, deps, del>>

updateProfile(p) ==
    /\ Edit /\ \E i \in Images : UpdateProfile(p, i)
    /\ UNCHANGED <<image, versions, templates, machine, sites, deps, del>>

upsertProfileTemplate(p) ==
    /\ Edit /\ UpsertProfileTemplate(p)
    /\ UNCHANGED <<image, versions, profile, machine, sites, deps, del>>

deleteProfileTemplate(p) ==
    /\ Edit /\ DeleteProfileTemplate(p)
    /\ UNCHANGED <<image, versions, profile, machine, sites, deps, del>>

createMachine(m) ==
    /\ Edit /\ \E p \in Profiles \cup {None} : CreateMachine(m, p)
    /\ \E to \in Sites \cup {None} : site' = [site EXCEPT ![m] = to]
    /\ UNCHANGED <<image, versions, profile, templates, mirror, deps, del>>

\* A PATCH: an empty default_profile_id clears it, attributes that are given
\* replace all of them.
updateMachine(m) ==
    /\ Edit
    /\ \/ /\ \E p \in Profiles \cup {None} : UpdateMachine(m, p)
          /\ UNCHANGED site
       \/ /\ UpdateMachine(m, machine[m])
          /\ \E to \in Sites \cup {None} : site' = [site EXCEPT ![m] = to]
    /\ UNCHANGED <<image, versions, profile, templates, mirror, deps, del>>

upsertSite(s) ==
    /\ Edit /\ \E to \in {None, "mirror"} : UpsertSite(s, to)
    /\ UNCHANGED <<image, versions, profile, templates, machine, site, deps, del>>

\* Nothing refers to the row of a site.
deleteSite(s) ==
    /\ Edit /\ DeleteSite(s)
    /\ UNCHANGED <<image, versions, profile, templates, machine, site, deps, del>>

-----------------------------------------------------------------------------
(***************************************************************************)
(* Deployments, as the broker and the reports of the target drive them.    *)
(***************************************************************************)

\* A capture needs a target image.
issueDeployment(m, p, kind, i) ==
    /\ Edit /\ Len(deps) < MaxDeployments
    /\ machine[m] # Absent /\ profile[p] # None
    /\ IF kind = "capture" THEN i # None /\ image[i] # Absent ELSE i = None
    /\ deps' = Append(deps, [machine |-> m, profile |-> p, kind |-> kind,
                             target |-> i, state |-> "issued", token |-> FALSE])
    /\ UNCHANGED <<image, versions, profile, templates, machine, sites, del>>

\* The deployments of m and p that have a job which has not ended.
OpenJobs(m, p) == {d \in DOMAIN deps : /\ deps[d].machine = m /\ deps[d].profile = p
                                       /\ Unfinished(d)}
Newest(ds) == CHOOSE d \in ds : \A e \in ds : e <= d

\* The PXE menu: a fresh token for the newest open job, or for a new one whose
\* code nobody redeems.  In an open menu the target names the profile, in a
\* locked one the bundle read before did.
MintMenuBootToken(m, p) ==
    /\ machine[m] # Absent /\ profile[p] # None
    /\ \/ /\ OpenJobs(m, p) # {}
          /\ deps' = [deps EXCEPT ![Newest(OpenJobs(m, p))] = [@ EXCEPT !.token = TRUE]]
          /\ UNCHANGED edits
       \/ /\ OpenJobs(m, p) = {} /\ Len(deps) < MaxDeployments /\ Edit
          /\ deps' = Append(deps, [machine |-> m, profile |-> p, kind |-> "deploy",
                                   target |-> None, state |-> "pending", token |-> TRUE])
    /\ UNCHANGED <<image, versions, profile, templates, machine, sites, del>>

\* The code is redeemed, which makes the job and its token; the target
\* reports; the job ends, and its token is revoked unless that fails.
DeploymentMoves(d) ==
    /\ \E s \in DepStates, t \in BOOLEAN :
         /\ <<deps[d].state, s>> \in {<<"issued", "imaging">>, <<"pending", "imaging">>,
                                      <<"pending", "ended">>, <<"imaging", "late">>,
                                      <<"imaging", "ended">>, <<"late", "ended">>}
         /\ t = (deps[d].state = "issued" \/ deps[d].token) \/ (s = "ended" /\ ~t)
         /\ deps' = [deps EXCEPT ![d] = [@ EXCEPT !.state = s, !.token = t]]
    /\ UNCHANGED <<image, versions, profile, templates, machine, sites, del, edits>>

\* expires_at of the token passes.
TokenExpires(d) ==
    /\ deps[d].token
    /\ deps' = [deps EXCEPT ![d] = [@ EXCEPT !.token = FALSE]]
    /\ UNCHANGED <<image, versions, profile, templates, machine, sites, del, edits>>

-----------------------------------------------------------------------------
(***************************************************************************)
(* Deleting.                                                               *)
(***************************************************************************)

\* Mutant: deployment_jobs and auth_codes do not hold on to their machine.
MachineUnheld(m) == FALSE

\* The foreign keys that have no ON DELETE.
MachineReferenced(m) == \E d \in DOMAIN deps : deps[d].machine = m
ProfileReferenced(p) ==
    \/ \E d \in DOMAIN deps : deps[d].profile = p
    \/ \E m \in Machines : machine[m] = p
ImageReferenced(i) ==
    \/ \E p \in Profiles : profile[p] = i
    \/ \E d \in DOMAIN deps : deps[d].target = i

Proceed(pc, x) == del' = [pc |-> pc, of |-> x]

\* The count of the jobs that have not ended.
DeleteMachine(m) ==
    IF \E d \in DOMAIN deps : deps[d].machine = m /\ Unfinished(d)
    THEN UNCHANGED del
    ELSE Proceed("machine", m)

deleteMachine(m) ==
    /\ Edit /\ del.pc = "idle"
    /\ DeleteMachine(m)
    /\ UNCHANGED <<image, versions, profile, templates, machine, sites, deps>>

DeleteMachineRow ==
    /\ del.pc = "machine"
    /\ machine' = IF MachineReferenced(del.of) THEN machine
                  ELSE [machine EXCEPT ![del.of] = Absent]
    /\ del' = Resting
    /\ UNCHANGED <<image, versions, profile, templates, sites, deps, edits>>

\* The count of the jobs, that of the machines, the DELETE.
DeleteProfile(p) ==
    IF \E d \in DOMAIN deps : deps[d].profile = p /\ Unfinished(d)
    THEN UNCHANGED del
    ELSE Proceed("machines", p)

deleteProfile(p) ==
    /\ Edit /\ del.pc = "idle"
    /\ DeleteProfile(p)
    /\ UNCHANGED <<image, versions, profile, templates, machine, sites, deps>>

CountDefaults ==
    /\ del.pc = "machines"
    /\ del' = IF \E m \in Machines : machine[m] = del.of THEN Resting
              ELSE [del EXCEPT !.pc = "profile"]
    /\ UNCHANGED <<image, versions, profile, templates, machine, sites, deps, edits>>

\* The templates of a profile go with it.
DeleteProfileRow ==
    /\ del.pc = "profile"
    /\ \/ /\ ProfileReferenced(del.of)
          /\ UNCHANGED <<profile, templates>>
       \/ /\ ~ProfileReferenced(del.of)
          /\ profile' = [profile EXCEPT ![del.of] = None]
          /\ templates' = templates \ {del.of}
    /\ del' = Resting
    /\ UNCHANGED <<image, versions, machine, sites, deps, edits>>

DeleteImage(i) ==
    IF \E p \in Profiles : profile[p] = i THEN UNCHANGED del ELSE Proceed("image", i)

deleteImage(i) ==
    /\ Edit /\ del.pc = "idle"
    /\ DeleteImage(i)
    /\ UNCHANGED <<image, versions, profile, templates, machine, sites, deps>>

\* So do the versions of an image.
DeleteImageRow ==
    /\ del.pc = "image"
    /\ \/ /\ ImageReferenced(del.of)
          /\ UNCHANGED <<image, versions>>
       \/ /\ ~ImageReferenced(del.of)
          /\ image' = [image EXCEPT ![del.of] = Absent]
          /\ versions' = versions \ {del.of}
    /\ del' = Resting
    /\ UNCHANGED <<profile, templates, machine, sites, deps, edits>>

-----------------------------------------------------------------------------
Administer ==
    \/ \E i \in Images : \/ createImage(i) \/ installFromCatalog(i) \/ updateImage(i)
                         \/ createImageVersion(i) \/ deleteImage(i)
    \/ \E p \in Profiles : \/ createProfile(p) \/ updateProfile(p) \/ deleteProfile(p)
                           \/ upsertProfileTemplate(p) \/ deleteProfileTemplate(p)
    \/ \E m \in Machines : createMachine(m) \/ updateMachine(m) \/ deleteMachine(m)
    \/ \E s \in Sites : upsertSite(s) \/ deleteSite(s)
    \/ DeleteMachineRow \/ CountDefaults \/ DeleteProfileRow \/ DeleteImageRow

Deploy ==
    \/ \E m \in Machines, p \in Profiles, kind \in Kinds, i \in Images \cup {None} :
         issueDeployment(m, p, kind, i)
    \/ \E m \in Machines, p \in Profiles : MintMenuBootToken(m, p)
    \/ \E d \in DOMAIN deps : DeploymentMoves(d) \/ TokenExpires(d)

-----------------------------------------------------------------------------
(***************************************************************************)
(* Properties.                                                             *)
(***************************************************************************)

\* Whatever is deleted between a count and its DELETE, or created there, every
\* deployment keeps its machine, its profile and the image of it, every
\* machine its default profile, every capture its target.
ReferencesHold ==
    /\ \A d \in DOMAIN deps : /\ machine[deps[d].machine] # Absent
                              /\ profile[deps[d].profile] # None
                              /\ deps[d].target # None => image[deps[d].target] # Absent
    /\ \A p \in Profiles : profile[p] # None => image[profile[p]] # Absent
    /\ \A m \in Machines : machine[m] \in Profiles => profile[machine[m]] # None

\* "machine has %d non-terminal deployment job(s); cancel them first": when the
\* count finds none, the machine goes.
CountedMachineGoes ==
    [][del.pc = "machine" /\ del'.pc = "idle" => machine'[del.of] = Absent]_catalogueVars

=============================================================================
