----------------------------- MODULE BootRender -----------------------------
(***************************************************************************)
(* What a booting target is served: user-data, deploy.cmd, the capture and *)
(* restore scripts, unattend.xml, image.wim.  A request authenticates with *)
(* the token of a deployment and reads machine, job, profile, image        *)
(* version, kind, template and site by a statement each, while operators   *)
(* change the catalogue and deployments move on.                           *)
(***************************************************************************)
EXTENDS Catalogue

CONSTANTS
    Boots,   \* requests in flight
    Faults   \* whether the lookups whose errors are swallowed may fail

ASSUME BootAssumption == IsFiniteSet(Boots) /\ Faults \in BOOLEAN

VARIABLE boot   \* the requests

vars == <<catalogueVars, boot>>

Files == {"user-data", "deploy.cmd", "capture.sh", "restore.sh", "unattend.xml",
          "image.wim"}
Outs == {None, "refused", "capture", "restore", "install"}

\* dep: the deployment of the token; job: that of the bundle; from: the site
\* whose mirror has the content, None for this server; calm: history, nothing
\* the answer depends on has changed since the request came.
Waiting == [pc |-> "idle", file |-> None, dep |-> 0, job |-> 0, default |-> None,
            site |-> None, from |-> None,
            profile |-> None, image |-> None, how |-> None, blob |-> None,
            kind |-> None, template |-> FALSE, out |-> None, calm |-> FALSE]

Pcs == {"idle", "auth", "machine", "job", "profile", "version", "kind", "template", "site",
        "done"}
Requests ==
    [pc : Pcs, file : Files \cup {None}, dep : Nat, job : Nat, default : Profiles \cup {None},
     site : Sites \cup {None}, from : Sites \cup {None}, profile : Profiles \cup {None},
     image : Images \cup {None}, how : Methods \cup {None}, blob : Images \cup {None},
     kind : Kinds \cup {None}, template : BOOLEAN, out : Outs, calm : BOOLEAN]

TypeOK ==
    /\ CatalogueTypeOK
    /\ boot \in [Boots -> Requests]
    /\ \A b \in Boots : boot[b].dep <= Len(deps) /\ boot[b].job <= Len(deps)

Init ==
    /\ CatalogueInit
    /\ boot = [b \in Boots |-> Waiting]

At(b, pc) == boot[b].pc = pc /\ UNCHANGED catalogueVars
Set(b, rec) == boot' = [boot EXCEPT ![b] = rec]
Finish(b, out) == Set(b, [boot[b] EXCEPT !.pc = "done", !.out = out])

ActiveJobs(m) == {d \in DOMAIN deps : deps[d].machine = m /\ Active(d)}

\* All that the answer to deployment d depends on.
View(d) ==
    [alone |-> ActiveJobs(deps[d].machine) = {d},
     image |-> profile[deps[d].profile],
     how   |-> image[profile[deps[d].profile]],
     blob  |-> profile[deps[d].profile] \in versions,
     tpl   |-> deps[d].profile \in templates,
     site  |-> site[deps[d].machine],
     from  |-> SiteMirror(site[deps[d].machine])]

\* The WHERE of LookupRenderBundleByToken, for user-data, and that of
\* VerifyOneShotTokenForJob, for the other files.
Admitted(d, file) == deps[d].token /\ (file # "user-data" => Imaging(d))

\* What a lookup finds, or what the handler makes of its error.
OrFailed(found, failed) == {found} \cup (IF Faults THEN {failed} ELSE {})

-----------------------------------------------------------------------------
(***************************************************************************)
(* The handlers.                                                           *)
(***************************************************************************)

\* The target asks for a file, with the token of a deployment.
Ask(b, d, file) ==
    /\ boot[b].pc = "idle" /\ deps[d].state # "issued"
    /\ Set(b, [Waiting EXCEPT !.pc = "auth", !.file = file, !.dep = d,
                              !.calm = View(d).alone])
    /\ UNCHANGED catalogueVars

\* The first statement of every handler.
Authenticate(b) ==
    /\ At(b, "auth")
    /\ LET next == CASE boot[b].file \in {"user-data", "image.wim"} -> "machine"
                      [] boot[b].file = "unattend.xml" -> "template"
                      [] OTHER -> "kind"
       IN  IF Admitted(boot[b].dep, boot[b].file)
           THEN Set(b, [boot[b] EXCEPT !.pc = next])
           ELSE Finish(b, "refused")

\* LookupRenderBundle: GetMachine.  The deployment refers to the row.
LookupMachine(b) ==
    /\ At(b, "machine")
    /\ LET m == deps[boot[b].dep].machine
       IN  Set(b, [boot[b] EXCEPT !.pc = "job", !.default = machine[m], !.site = site[m]])

\* The newest active job of the machine, not that of the token; without one
\* the default profile.
LookupJob(b) ==
    /\ At(b, "job")
    /\ LET ds == ActiveJobs(deps[boot[b].dep].machine)
       IN  \/ /\ ds # {}
              /\ Set(b, [boot[b] EXCEPT !.pc = "profile", !.job = Newest(ds),
                                        !.profile = deps[Newest(ds)].profile])
           \/ /\ ds = {} /\ boot[b].default # None
              /\ Set(b, [boot[b] EXCEPT !.pc = "profile", !.profile = boot[b].default])
           \/ /\ ds = {} /\ boot[b].default = None
              /\ Finish(b, "refused")

\* The profile joined with its image; a profile deleted by now is an error.
LookupProfile(b) ==
    /\ At(b, "profile")
    /\ LET i == profile[boot[b].profile]
       IN  IF i = None THEN Finish(b, "refused")
           ELSE Set(b, [boot[b] EXCEPT !.pc = "version", !.image = i, !.how = image[i]])

isLinuxGolden(rec) == rec.how = "golden" /\ rec.blob # None

\* Windows has an install.wim, by media.wim_url or by convention.
hasWim(how) == how \in {"windows", "foreign"}

\* What the handlers do next: an outcome, or the lookup they go on with.
Proceeds(b, rec, to) ==
    Set(b, IF to \in Outs THEN [rec EXCEPT !.pc = "done", !.out = to] ELSE [rec EXCEPT !.pc = to])

winpeImage(rec) == IF hasWim(rec.how) THEN "site" ELSE "refused"

\* The newest version of the image the profile has now; any error leaves the
\* bundle without one.  With it the bundle is complete.
LookupVersion(b) ==
    /\ At(b, "version")
    /\ LET i == profile[boot[b].profile]
           found == IF i \in versions THEN i ELSE None
       IN  \E blob \in OrFailed(found, None) :
             LET got == [boot[b] EXCEPT !.blob = blob, !.calm = @ /\ blob = found]
                 to == CASE got.file = "user-data" -> "kind"
                         [] got.file = "restore.sh" ->
                              IF isLinuxGolden(got) THEN "restore" ELSE "refused"
                         [] got.file = "image.wim" -> winpeImage(got)
                         [] got.file = "unattend.xml" -> "install"
             IN  Proceeds(b, got, to)

\* Mutant: the golden image is looked at first.
GoldenFirst(rec) ==
    CASE isLinuxGolden(rec) -> "site"
      [] ~isLinuxGolden(rec) /\ rec.kind = "capture" -> "capture"
      [] OTHER -> "template"

\* "Branch order matters"; the kind is None when its lookup failed or there is
\* no job.
writeUserData(rec) ==
    CASE rec.kind = "capture" -> "capture"
      [] rec.kind # "capture" /\ isLinuxGolden(rec) -> "site"
      [] OTHER -> "template"

winpeDeployCmd(rec) == IF rec.kind = "capture" THEN "capture" ELSE "install"
captureScript(rec) == IF rec.kind = "capture" THEN "capture" ELSE "refused"
restoreScript(rec) == IF rec.kind = "deploy" THEN "machine" ELSE "refused"

\* GetJobCapture, of the bundle's job for user-data and of the token's job
\* for the other files.
LookupKind(b) ==
    /\ At(b, "kind")
    /\ LET j == IF boot[b].file = "user-data" THEN boot[b].job ELSE boot[b].dep
           found == IF j = 0 THEN None ELSE deps[j].kind
       IN  \E k \in OrFailed(found, None) :
             LET rec == [boot[b] EXCEPT !.kind = k, !.calm = @ /\ k # None]
                 to == CASE rec.file = "user-data" -> writeUserData(rec)
                         [] rec.file = "deploy.cmd" -> winpeDeployCmd(rec)
                         [] rec.file = "capture.sh" -> captureScript(rec)
                         [] rec.file = "restore.sh" -> restoreScript(rec)
             IN  Proceeds(b, rec, to)

\* There is no built-in unattend.xml.
winpeUnattend(found) == IF found THEN "machine" ELSE "refused"

\* profileTemplate of the bundle's profile, or the built-in one; the template
\* unattend.xml needs is that of the token's job.  An error is no template.
LookupTemplate(b) ==
    /\ At(b, "template")
    /\ LET bundled == boot[b].file = "user-data"
           found == (IF bundled THEN boot[b].profile ELSE deps[boot[b].dep].profile) \in templates
       IN  \E t \in OrFailed(found, FALSE) :
             Proceeds(b, [boot[b] EXCEPT !.template = t, !.calm = @ /\ t = found],
                      IF bundled THEN "install" ELSE winpeUnattend(t))

\* Only what this server serves is on its mirrors.
mirrorRewrite(from, how) == IF how = "foreign" THEN None ELSE from

\* The site in the attributes that were read with the machine; without an
\* answer the target fetches from this server.
siteMirrorFor(b) == OrFailed(SiteMirror(boot[b].site), None)

goldenArchiveURL(from) == mirrorRewrite(from, "golden")
bundleToRespForSite(from, how) == mirrorRewrite(from, how)

\* The golden archive of user-data, or image.wim.
LookupSite(b) ==
    /\ At(b, "site")
    /\ \E from \in siteMirrorFor(b) :
         LET rec == [boot[b] EXCEPT !.calm = @ /\ from = SiteMirror(boot[b].site)]
         IN  IF rec.file = "user-data"
             THEN Proceeds(b, [rec EXCEPT !.from = goldenArchiveURL(from)], "restore")
             ELSE Proceeds(b, [rec EXCEPT !.from = bundleToRespForSite(from, rec.how)], "install")

-----------------------------------------------------------------------------
Serve(b) ==
    \/ \E d \in DOMAIN deps, file \in Files : Ask(b, d, file)
    \/ Authenticate(b) \/ LookupMachine(b) \/ LookupJob(b) \/ LookupProfile(b)
    \/ LookupVersion(b) \/ LookupKind(b) \/ LookupTemplate(b) \/ LookupSite(b)

\* The catalogue changes; the history notes which requests it concerns.
Change ==
    /\ Administer \/ Deploy
    /\ boot' = [b \in Boots |->
                  IF boot[b].pc \in {"idle", "done"} THEN boot[b]
                  ELSE [boot[b] EXCEPT !.calm =
                          /\ @
                          /\ \A d \in {boot[b].dep}, file \in {boot[b].file} :
                               View(d) = View(d)' /\ Admitted(d, file) = Admitted(d, file)']]

Next ==
    \/ \E b \in Boots : Serve(b)
    \/ Change

Spec == Init /\ [][Next]_vars

-----------------------------------------------------------------------------
(***************************************************************************)
(* Properties.                                                             *)
(***************************************************************************)

\* What a deployment is to be served.
Expected(d, file) ==
    LET v == View(d)
        captures == deps[d].kind = "capture"
        golden == v.how = "golden" /\ v.blob
    IN  CASE ~Admitted(d, file) -> "refused"
          [] Admitted(d, file) /\ file = "image.wim" -> IF hasWim(v.how) THEN "install" ELSE "refused"
          [] Admitted(d, file) /\ file = "unattend.xml" -> IF v.tpl THEN "install" ELSE "refused"
          [] Admitted(d, file) /\ file = "deploy.cmd" -> IF captures THEN "capture" ELSE "install"
          [] Admitted(d, file) /\ file = "capture.sh" -> IF captures THEN "capture" ELSE "refused"
          [] Admitted(d, file) /\ file = "restore.sh" ->
               IF golden /\ ~captures THEN "restore" ELSE "refused"
          [] Admitted(d, file) /\ file = "user-data" ->
               IF captures THEN "capture" ELSE IF golden THEN "restore" ELSE "install"

\* A request whose deployment is the only active one of its machine, no lookup
\* of which fails and under which nothing it reads is changed, is answered
\* for the deployment of its token: refused without a valid token or, but for
\* user-data, before and after imaging; a capture is captured whatever its
\* profile's image is, a golden image is restored, and the archive is that of
\* the image; an archive or install.wim of this server comes from the mirror
\* of the machine's site when there is one, and the profile's own template is
\* used.
CalmBootIsServed ==
    [][\A b \in Boots :
         LET rec == boot'[b]
         IN  boot[b].pc # "done" /\ rec.pc = "done" /\ rec.calm =>
               /\ rec.out = Expected(rec.dep, rec.file)
               /\ rec.out = "restore" => rec.blob = rec.image
               /\ rec.out = "install" /\ rec.file = "user-data" => rec.template = View(rec.dep).tpl
               /\ rec.out # "refused" =>
                    rec.from = IF \/ rec.file = "image.wim" /\ View(rec.dep).how # "foreign"
                                  \/ rec.file = "user-data" /\ rec.out = "restore"
                               THEN View(rec.dep).from ELSE None]_vars

\* "A capture job must never restore": a token issued for a capture never
\* yields the order to restore an image over the machine.
CaptureNeverRestores ==
    \A b \in Boots :
        boot[b].pc = "done" /\ boot[b].out = "restore" => deps[boot[b].dep].kind # "capture"

=============================================================================
