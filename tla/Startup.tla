------------------------------ MODULE Startup ------------------------------
(***************************************************************************)
(* The start of the api: the subcommands of the binary, the migrations     *)
(* that each of them runs first, and the configuration without which       *)
(* serve refuses to start.  Several processes start at a time against one  *)
(* database, and any of them may be stopped between two statements.        *)
(*                                                                         *)
(* A migration is one transaction: its body has its own BEGIN and COMMIT.  *)
(* The row that says it was applied is a statement of its own.             *)
(***************************************************************************)
EXTENDS Naturals, FiniteSets

CONSTANTS
    Last,        \* number of embedded migrations, applied in order 1..Last
    Repeatable,  \* those whose body succeeds again: IF NOT EXISTS, ON CONFLICT
    Procs,       \* processes of the binary
    Command,     \* the subcommand of a process
    MaxFaults    \* bound: stops, and dependencies that cannot be reached

ASSUME StartupAssumption ==
    /\ Last \in Nat \ {0} /\ Repeatable \subseteq 1..Last
    /\ Command \in [Procs -> {"serve", "migrate", "seed-admin"}]
    /\ MaxFaults \in Nat

VARIABLES
    applied,   \* migrations whose effect is in the schema
    recorded,  \* rows of schema_migrations
    env,       \* the environment of a process
    proc,      \* a process: where it is, and the next migration
    up,        \* the protections of a process that serves
    twice,     \* history: bodies that took effect a second time
    torn,      \* history: migrations whose process stopped before the record
    faults

startupVars == <<applied, recorded, env, proc, up, twice, torn, faults>>

Migrations == 1..Last
\* cert: INTERNAL_TLS_CERT is not there, or mtls.Load rejects it, or takes it.
Env == [oidc : BOOLEAN, openOK : BOOLEAN, cert : {"none", "bad", "good"}, plainOK : BOOLEAN,
        audit : BOOLEAN]
Steps == {"down", "open", "check", "apply", "record", "audit", "auth", "listen", "seed",
          "serving", "ended"}
Off == [auth |-> FALSE, mtls |-> FALSE]

StartupTypeOK ==
    /\ applied \subseteq Migrations /\ recorded \subseteq Migrations
    /\ env \in [Procs -> Env]
    /\ proc \in [Procs -> [pc : Steps, next : 1..(Last + 1)]]
    /\ up \in [Procs -> [auth : BOOLEAN, mtls : BOOLEAN]]
    /\ twice \subseteq Migrations /\ torn \subseteq Migrations
    /\ faults \in 0..MaxFaults

\* A first installation, or an upgrade that adds migrations.  The processes
\* of a deployment share one environment file.
StartupInit ==
    /\ \E n \in 0..Last : applied = 1..n /\ recorded = 1..n
    /\ \E e \in Env : env = [p \in Procs |-> e]
    /\ proc = [p \in Procs |-> [pc |-> "down", next |-> 1]]
    /\ up = [p \in Procs |-> Off]
    /\ twice = {} /\ torn = {}
    /\ faults = 0

Goto(p, pc) == proc' = [proc EXCEPT ![p].pc = pc]
Fault == faults < MaxFaults /\ faults' = faults + 1

\* os.Exit(2): serve is started again by the container runtime, the other
\* subcommands are run by hand.
Exit(p) == Goto(p, IF Command[p] = "serve" THEN "down" ELSE "ended")

-----------------------------------------------------------------------------
(***************************************************************************)
(* Every subcommand: open the database, then MigrateUp.                    *)
(***************************************************************************)

main(p) ==
    /\ proc[p].pc = "down"
    /\ proc' = [proc EXCEPT ![p] = [pc |-> "open", next |-> 1]]
    /\ UNCHANGED <<applied, recorded, env, up, twice, torn, faults>>

\* The ping, and CREATE TABLE IF NOT EXISTS schema_migrations.
openStore(p) ==
    /\ proc[p].pc = "open"
    /\ \/ Goto(p, "check") /\ UNCHANGED faults
       \/ Exit(p) /\ Fault
    /\ UNCHANGED <<applied, recorded, env, up, twice, torn>>

\* After the last migration each subcommand goes its way.
AfterMigrateUp(p) ==
    CASE Command[p] = "serve" -> "audit"
      [] Command[p] = "seed-admin" -> "seed"
      [] Command[p] = "migrate" -> "ended"

\* SELECT EXISTS: a recorded migration is passed over.
CheckMigration(p) ==
    /\ proc[p].pc = "check"
    /\ LET m == proc[p].next
       IN  \/ m > Last /\ Goto(p, AfterMigrateUp(p))
           \/ m \in recorded /\ proc' = [proc EXCEPT ![p].next = m + 1]
           \/ m <= Last /\ m \notin recorded /\ Goto(p, "apply")
    /\ UNCHANGED <<applied, recorded, env, up, twice, torn, faults>>

\* Mutant: a body that is there already is taken for applied.
AlwaysApplies(m) == TRUE

\* CREATE TABLE, ADD COLUMN and the like fail when their effect is there.
BodySucceeds(m) == m \notin applied \/ m \in Repeatable

ApplyMigration(p) ==
    /\ proc[p].pc = "apply"
    /\ LET m == proc[p].next
       IN  \/ /\ BodySucceeds(m)
              /\ applied' = applied \cup {m}
              /\ twice' = IF m \in applied \ Repeatable THEN twice \cup {m} ELSE twice
              /\ Goto(p, "record")
           \/ /\ ~BodySucceeds(m)
              /\ Exit(p)
              /\ UNCHANGED <<applied, twice>>
    /\ UNCHANGED <<recorded, env, up, torn, faults>>

\* Mutant: the row of the last migration is left out.
ForgetLast(m) == recorded \cup ({m} \ {Last})

Record(m) == recorded \cup {m}

\* filename is the primary key: the second of two processes fails here.
RecordMigration(p) ==
    /\ proc[p].pc = "record"
    /\ LET m == proc[p].next
       IN  \/ /\ m \notin recorded
              /\ recorded' = Record(m)
              /\ proc' = [proc EXCEPT ![p] = [pc |-> "check", next |-> m + 1]]
           \/ /\ m \in recorded
              /\ Exit(p)
              /\ UNCHANGED recorded
    /\ UNCHANGED <<applied, env, up, twice, torn, faults>>

\* See Access for SeedAdmin.
seedAdmin(p) ==
    /\ proc[p].pc = "seed"
    /\ Goto(p, "ended")
    /\ UNCHANGED <<applied, recorded, env, up, twice, torn, faults>>

-----------------------------------------------------------------------------
(***************************************************************************)
(* serve, after the migrations.                                            *)
(***************************************************************************)

\* The audit file, when one is configured, can be opened or serve ends.
openAuditLog(p) ==
    /\ proc[p].pc = "audit"
    /\ IF env[p].audit THEN Goto(p, "auth") ELSE Exit(p)
    /\ UNCHANGED <<applied, recorded, env, up, twice, torn, faults>>

\* NewVerifier needs the settings and a provider that answers.  Without a
\* verifier there is no middleware, which has to be asked for.
newVerifier(p) ==
    /\ proc[p].pc = "auth"
    /\ \/ /\ env[p].oidc
          /\ up' = [up EXCEPT ![p].auth = TRUE]
          /\ Goto(p, "listen")
          /\ UNCHANGED faults
       \/ /\ \/ ~env[p].oidc /\ UNCHANGED faults
             \/ env[p].oidc /\ Fault
          /\ IF env[p].openOK THEN Goto(p, "listen") ELSE Exit(p)
          /\ UNCHANGED up
    /\ UNCHANGED <<applied, recorded, env, twice, torn>>

\* /internal has a listener with mTLS, or it is asked for without; a certificate
\* that does not load is not waived.  A listener that fails later cancels the
\* process: Stop.
listenInternal(p) ==
    /\ proc[p].pc = "listen"
    /\ \/ /\ env[p].cert = "good"
          /\ up' = [up EXCEPT ![p].mtls = TRUE]
          /\ Goto(p, "serving")
       \/ /\ env[p].cert = "none" /\ env[p].plainOK
          /\ Goto(p, "serving")
          /\ UNCHANGED up
       \/ /\ env[p].cert = "bad" \/ (env[p].cert = "none" /\ ~env[p].plainOK)
          /\ Exit(p)
          /\ up' = [up EXCEPT ![p] = Off]
    /\ UNCHANGED <<applied, recorded, env, twice, torn, faults>>

\* The subcommand healthcheck, which the container runtime calls.
healthcheck(p) == proc[p].pc = "serving"

\* SIGTERM, a crash, a listener's error, the 30 or 60 seconds of seed-admin and
\* migrate: the process ends between two statements.
Stop(p) ==
    /\ proc[p].pc \notin {"down", "ended"}
    /\ Fault
    /\ torn' = IF proc[p].pc = "record" /\ proc[p].next \notin recorded
               THEN torn \cup {proc[p].next} ELSE torn
    /\ Exit(p)
    /\ up' = [up EXCEPT ![p] = Off]
    /\ UNCHANGED <<applied, recorded, env, twice>>

-----------------------------------------------------------------------------
MigrateUp(p) == CheckMigration(p) \/ ApplyMigration(p) \/ RecordMigration(p)
serve(p) == openAuditLog(p) \/ newVerifier(p) \/ listenInternal(p)
Step(p) == main(p) \/ openStore(p) \/ MigrateUp(p) \/ seedAdmin(p) \/ serve(p)

StartupNext == \E p \in Procs : Step(p) \/ Stop(p)

StartupSpec == StartupInit /\ [][StartupNext]_startupVars

\* A process runs; one that serves is started again (restart:
\* unless-stopped).  Stops and unreachable dependencies are bounded.
FairStartup == StartupSpec /\ \A p \in Procs : WF_startupVars(Step(p))

-----------------------------------------------------------------------------
(***************************************************************************)
(* Properties                                                              *)
(***************************************************************************)

\* A process that answers its health check has the whole schema under it,
\* no migration that cannot be repeated took effect twice although several
\* processes migrate at a time, and a protection is missing only where the
\* operator has asked for that: the middleware of the operators' API, mTLS
\* of /internal.  (serve: "Fail closed".)
ServesOnlyReady ==
    /\ twice = {} /\ recorded \subseteq applied
    /\ \A p \in Procs : healthcheck(p) =>
          /\ applied = Migrations
          /\ up[p].auth \/ env[p].openOK
          /\ up[p].mtls \/ env[p].plainOK

Bootable(e) == (e.oidc \/ e.openOK) /\ (e.cert = "good" \/ (e.cert = "none" /\ e.plainOK))
               /\ e.audit

\* A serve with a configuration it accepts comes up, whoever else migrates
\* at the same time and fails on what this one has done, unless a process
\* was stopped after the body of a migration and before its row.
ComesUp ==
    \A p \in Procs :
        (Command[p] = "serve" /\ Bootable(env[p]))
            ~> (healthcheck(p) \/ torn # {})

\* Not so: "Apply migrations on startup. Idempotent." (serve).  A migration
\* torn between body and row fails on every later start.
AlwaysComesUp ==
    \A p \in Procs :
        (Command[p] = "serve" /\ Bootable(env[p])) ~> healthcheck(p)

=============================================================================
