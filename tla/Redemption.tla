----------------------------- MODULE Redemption -----------------------------
(***************************************************************************)
(* The auth broker: deployment codes are issued by operators and redeemed  *)
(* by bootstrap sticks.  A redeem is eight calls to Postgres and to the    *)
(* overlay network with nothing but a row-level UPDATE between two sticks  *)
(* that type the same code, so every call is an action of its own.         *)
(*                                                                         *)
(* One hour is modelled: attempts and issued codes do not leave the rate   *)
(* limiting window.  The in-process burst limit in front of the handler    *)
(* only removes behaviours and is left out.                                *)
(***************************************************************************)
EXTENDS Naturals, FiniteSets

CONSTANTS
    Codes,
    IPs,
    Operators,
    Bindings,             \* binding_cidr values: sets of source addresses
    Requests,             \* HTTP requests in flight at the same time
    RateRedeemPerIPHour,
    RateRedeemPerCode,
    RateIssuePerOpHour,
    MaxTries,             \* bound on the redemption attempts of an address
    Faults,               \* may calls fail and requests die half-way?
    NoCode, NoIP, NoOp

ASSUME RedemptionAssumption ==
    /\ NoCode \notin Codes /\ NoIP \notin IPs /\ NoOp \notin Operators
    /\ Bindings \subseteq SUBSET IPs
    /\ IsFiniteSet(Requests)
    /\ RateRedeemPerIPHour \in Nat
    /\ RateRedeemPerCode \in Nat \ {0}
    /\ RateIssuePerOpHour \in Nat
    /\ MaxTries \in Nat
    /\ Faults \in BOOLEAN

VARIABLES
    \* auth_codes
    issuedBy,    \* NoOp while the row does not exist
    binding,     \* addresses the code may be redeemed from
    attempts,
    locked,      \* locked_at IS NOT NULL
    expired,     \* expires_at <= now()
    redeemedBy,  \* redeemed_from_ip, NoIP while redeemed_at IS NULL
    \* the other tables, by code
    jobs,        \* deployment_jobs rows of a code
    boot,        \* one_shot_tokens rows of a code
    tries,       \* redeem_attempts rows of an address
    \* the handlers
    req,
    \* history
    passed,      \* attempts of an address that were let through
    uncounted,   \* those of them whose count failed
    answered,    \* 200 responses for a code
    failed       \* codes whose redemption broke off after the consume

rows == <<issuedBy, binding, attempts, locked, expired, redeemedBy>>
vars == <<issuedBy, binding, attempts, locked, expired, redeemedBy,
          jobs, boot, tries, req, passed, uncounted, answered, failed>>

Steps == {"idle", "record", "find", "increment", "key", "consume", "job", "token", "respond",
          "issue"}

RequestType ==
    [pc : Steps, code : Codes \cup {NoCode}, ip : IPs \cup {NoIP}, cnt : Nat,
     op : Operators \cup {NoOp}, bind : SUBSET IPs]

Idle == [pc |-> "idle", code |-> NoCode, ip |-> NoIP, cnt |-> 0, op |-> NoOp, bind |-> {}]

TypeOK ==
    /\ issuedBy \in [Codes -> Operators \cup {NoOp}]
    /\ binding \in [Codes -> SUBSET IPs]
    /\ attempts \in [Codes -> Nat]
    /\ locked \in [Codes -> BOOLEAN]
    /\ expired \in [Codes -> BOOLEAN]
    /\ redeemedBy \in [Codes -> IPs \cup {NoIP}]
    /\ jobs \in [Codes -> Nat]
    /\ boot \in [Codes -> Nat]
    /\ tries \in [IPs -> Nat]
    /\ req \in [Requests -> RequestType]
    /\ passed \in [IPs -> Nat]
    /\ uncounted \in [IPs -> Nat]
    /\ answered \in [Codes -> Nat]
    /\ failed \subseteq Codes

Issued(c) == issuedBy[c] # NoOp
Redeemed(c) == redeemedBy[c] # NoIP

Init ==
    /\ issuedBy = [c \in Codes |-> NoOp]
    /\ binding = [c \in Codes |-> {}]
    /\ attempts = [c \in Codes |-> 0]
    /\ locked = [c \in Codes |-> FALSE]
    /\ expired = [c \in Codes |-> FALSE]
    /\ redeemedBy = [c \in Codes |-> NoIP]
    /\ jobs = [c \in Codes |-> 0]
    /\ boot = [c \in Codes |-> 0]
    /\ tries = [a \in IPs |-> 0]
    /\ req = [r \in Requests |-> Idle]
    /\ passed = [a \in IPs |-> 0]
    /\ uncounted = [a \in IPs |-> 0]
    /\ answered = [c \in Codes |-> 0]
    /\ failed = {}

Goto(r, pc) == req' = [req EXCEPT ![r].pc = pc]

Reply(r) == req' = [req EXCEPT ![r] = Idle]

-----------------------------------------------------------------------------
(***************************************************************************)
(* POST /api/v1/bootstrap/issue-code                                       *)
(***************************************************************************)

\* CountIssuedByActorRecently: the quota is compared with a count taken here.
\* When counting fails, the handler logs it and issues the code.
IssuedCount(op) == Cardinality({c \in Codes : issuedBy[c] = op})

IssueCode(r, op, bind) ==
    /\ req[r].pc = "idle"
    /\ IssuedCount(op) < RateIssuePerOpHour \/ Faults
    /\ req' = [req EXCEPT ![r] = [Idle EXCEPT !.pc = "issue", !.op = op, !.bind = bind]]
    /\ UNCHANGED <<rows, jobs, boot, tries, passed, uncounted, answered, failed>>

\* Store.IssueCode: the INSERT, of a code nobody has drawn before.
InsertCode(r, c) ==
    /\ req[r].pc = "issue"
    /\ ~Issued(c)
    /\ issuedBy' = [issuedBy EXCEPT ![c] = req[r].op]
    /\ binding' = [binding EXCEPT ![c] = req[r].bind]
    /\ Reply(r)
    /\ UNCHANGED <<attempts, locked, expired, redeemedBy, jobs, boot, tries, passed, uncounted,
                   answered, failed>>

-----------------------------------------------------------------------------
(***************************************************************************)
(* POST /api/v1/bootstrap/redeem                                           *)
(***************************************************************************)

\* RecordPerIPAttempt is one statement that inserts a row and counts the rows
\* of its snapshot: neither its own row nor one that another connection has
\* not committed yet is counted.  NoCode is a code that matches no row.
Redeem(r, a, c) ==
    /\ req[r].pc = "idle"
    /\ tries[a] + uncounted[a]
        + Cardinality({q \in Requests : req[q].pc = "record" /\ req[q].ip = a}) < MaxTries
    /\ req' = [req EXCEPT ![r] = [Idle EXCEPT !.pc = "record", !.code = c, !.ip = a,
                                              !.cnt = tries[a]]]
    /\ UNCHANGED <<rows, jobs, boot, tries, passed, uncounted, answered, failed>>

\* Mutant: the count is taken and not compared with the limit.
RecordPerIPAttemptUnlimited(r) ==
    LET a == req[r].ip IN
    /\ req[r].pc = "record"
    /\ tries' = [tries EXCEPT ![a] = @ + 1]
    /\ Goto(r, "find") /\ passed' = [passed EXCEPT ![a] = @ + 1]
    /\ UNCHANGED <<rows, jobs, boot, uncounted, answered, failed>>

RecordPerIPAttempt(r) ==
    LET a == req[r].ip IN
    /\ req[r].pc = "record"
    /\ tries' = [tries EXCEPT ![a] = @ + 1]
    /\ IF req[r].cnt > RateRedeemPerIPHour
       THEN Reply(r) /\ UNCHANGED passed
       ELSE Goto(r, "find") /\ passed' = [passed EXCEPT ![a] = @ + 1]
    /\ UNCHANGED <<rows, jobs, boot, uncounted, answered, failed>>

\* FindCodeByHash and the checks made on the row it returned.
Usable(c) == Issued(c) /\ ~locked[c] /\ ~Redeemed(c) /\ ~expired[c]

\* Mutant: binding_cidr is not checked.
FindCodeAnywhere(r) ==
    LET c == req[r].code IN
    /\ req[r].pc = "find"
    /\ IF c = NoCode \/ ~Usable(c) THEN Reply(r) ELSE Goto(r, "key")
    /\ UNCHANGED <<rows, jobs, boot, tries, passed, uncounted, answered, failed>>

FindCode(r) ==
    LET c == req[r].code IN
    /\ req[r].pc = "find"
    /\ IF c = NoCode \/ ~Usable(c) THEN Reply(r)
       ELSE IF req[r].ip \notin binding[c] THEN Goto(r, "increment")
       ELSE Goto(r, "key")
    /\ UNCHANGED <<rows, jobs, boot, tries, passed, uncounted, answered, failed>>

\* IncrementAttempt, on a row that may have been redeemed in the meantime.
IncrementAttempt(r) ==
    LET c == req[r].code IN
    /\ req[r].pc = "increment"
    /\ attempts' = [attempts EXCEPT ![c] = @ + 1]
    /\ locked' = [locked EXCEPT ![c] = @ \/ attempts[c] + 1 >= RateRedeemPerCode]
    /\ Reply(r)
    /\ UNCHANGED <<issuedBy, binding, expired, redeemedBy, jobs, boot, tries, passed, uncounted,
                   answered, failed>>

\* CreateBootstrapKey of the overlay network.
MintKey(r) ==
    /\ req[r].pc = "key"
    /\ Goto(r, "consume")
    /\ UNCHANGED <<rows, jobs, boot, tries, passed, uncounted, answered, failed>>

\* Mutant: redeemed_at is not in the WHERE clause.
ConsumeCodeTwice(r) ==
    LET c == req[r].code IN
    /\ req[r].pc = "consume"
    /\ IF locked[c] \/ expired[c]
       THEN Reply(r) /\ UNCHANGED redeemedBy
       ELSE Goto(r, "job") /\ redeemedBy' = [redeemedBy EXCEPT ![c] = req[r].ip]
    /\ UNCHANGED <<issuedBy, binding, attempts, locked, expired, jobs, boot, tries, passed, uncounted,
                   answered, failed>>

\* Mutant: locked_at and expires_at are not in the WHERE clause.
ConsumeCodeStale(r) ==
    LET c == req[r].code IN
    /\ req[r].pc = "consume"
    /\ IF Redeemed(c)
       THEN Reply(r) /\ UNCHANGED redeemedBy
       ELSE Goto(r, "job") /\ redeemedBy' = [redeemedBy EXCEPT ![c] = req[r].ip]
    /\ UNCHANGED <<issuedBy, binding, attempts, locked, expired, jobs, boot, tries, passed, uncounted,
                   answered, failed>>

\* ConsumeCode: the atomic UPDATE that checks again.
ConsumeCode(r) ==
    LET c == req[r].code IN
    /\ req[r].pc = "consume"
    /\ IF Redeemed(c) \/ locked[c] \/ expired[c]
       THEN Reply(r) /\ UNCHANGED redeemedBy
       ELSE Goto(r, "job") /\ redeemedBy' = [redeemedBy EXCEPT ![c] = req[r].ip]
    /\ UNCHANGED <<issuedBy, binding, attempts, locked, expired, jobs, boot, tries, passed, uncounted,
                   answered, failed>>

\* Mutant: the handler answers without a boot token.
CreateDeploymentJobOnly(r) ==
    /\ req[r].pc = "job"
    /\ jobs' = [jobs EXCEPT ![req[r].code] = @ + 1]
    /\ Goto(r, "respond")
    /\ UNCHANGED <<rows, boot, tries, passed, uncounted, answered, failed>>

CreateDeploymentJob(r) ==
    /\ req[r].pc = "job"
    /\ jobs' = [jobs EXCEPT ![req[r].code] = @ + 1]
    /\ Goto(r, "token")
    /\ UNCHANGED <<rows, boot, tries, passed, uncounted, answered, failed>>

\* Mutant: the handler returns once the token is stored.
CreateOneShotTokenSilently(r) ==
    /\ req[r].pc = "token"
    /\ boot' = [boot EXCEPT ![req[r].code] = @ + 1]
    /\ Reply(r)
    /\ UNCHANGED <<rows, jobs, tries, passed, uncounted, answered, failed>>

CreateOneShotToken(r) ==
    /\ req[r].pc = "token"
    /\ boot' = [boot EXCEPT ![req[r].code] = @ + 1]
    /\ Goto(r, "respond")
    /\ UNCHANGED <<rows, jobs, tries, passed, uncounted, answered, failed>>

Respond(r) ==
    /\ req[r].pc = "respond"
    /\ answered' = [answered EXCEPT ![req[r].code] = @ + 1]
    /\ Reply(r)
    /\ UNCHANGED <<rows, jobs, boot, tries, passed, uncounted, failed>>

-----------------------------------------------------------------------------
(***************************************************************************)
(* Time, the worker, failures.                                             *)
(***************************************************************************)

Expire(c) ==
    /\ Issued(c) /\ ~expired[c]
    /\ expired' = [expired EXCEPT ![c] = TRUE]
    /\ UNCHANGED <<issuedBy, binding, attempts, locked, redeemedBy, jobs, boot, tries, req,
                   passed, uncounted, answered, failed>>

\* lockExpiredCodes of the worker.
LockExpiredCodes ==
    /\ \E c \in Codes : expired[c] /\ ~Redeemed(c) /\ ~locked[c]
    /\ locked' = [c \in Codes |-> locked[c] \/ (expired[c] /\ ~Redeemed(c))]
    /\ UNCHANGED <<issuedBy, binding, attempts, expired, redeemedBy, jobs, boot, tries, req,
                   passed, uncounted, answered, failed>>

\* The statement failed and left no row: the handler logs it and goes on, and
\* the attempt has passed without being counted.
RecordFails(r) ==
    LET a == req[r].ip IN
    /\ Faults
    /\ req[r].pc = "record"
    /\ passed' = [passed EXCEPT ![a] = @ + 1]
    /\ uncounted' = [uncounted EXCEPT ![a] = @ + 1]
    /\ Goto(r, "find")
    /\ UNCHANGED <<rows, jobs, boot, tries, answered, failed>>

\* Any other failing call answers with an error, a dying broker with nothing.
Abort(r) ==
    /\ Faults
    /\ req[r].pc # "idle"
    /\ failed' = IF req[r].pc \in {"job", "token", "respond"}
                 THEN failed \cup {req[r].code} ELSE failed
    /\ Reply(r)
    /\ UNCHANGED <<rows, jobs, boot, tries, passed, uncounted, answered>>

-----------------------------------------------------------------------------
Step(r) ==
    \/ \E c \in Codes : InsertCode(r, c)
    \/ RecordPerIPAttempt(r)
    \/ FindCode(r)
    \/ IncrementAttempt(r)
    \/ MintKey(r)
    \/ ConsumeCode(r)
    \/ CreateDeploymentJob(r)
    \/ CreateOneShotToken(r)
    \/ Respond(r)

Start(r) ==
    \/ \E op \in Operators : \E bind \in Bindings : IssueCode(r, op, bind)
    \/ \E a \in IPs : \E c \in Codes \cup {NoCode} : Redeem(r, a, c)

Next ==
    \/ \E r \in Requests : Start(r) \/ Step(r) \/ RecordFails(r) \/ Abort(r)
    \/ \E c \in Codes : Expire(c)
    \/ LockExpiredCodes

Spec == Init /\ [][Next]_vars

\* A handler that has started keeps being run.
FairSpec == Spec /\ \A r \in Requests : WF_vars(Step(r))

-----------------------------------------------------------------------------
(***************************************************************************)
(* Properties.                                                             *)
(***************************************************************************)

\* However many sticks type a code at once, it yields one job and one boot
\* token at most, in that order, and only once it is redeemed; a stick is
\* told of success only when both rows are there.
OneDeploymentPerCode ==
    \A c \in Codes :
        /\ jobs[c] <= (IF Redeemed(c) THEN 1 ELSE 0)
        /\ boot[c] <= jobs[c]
        /\ answered[c] <= boot[c]

\* A code bound to a network is redeemed from that network: the binding is
\* checked on a row read before the overlay key was minted.
RedeemedFromBinding ==
    \A c \in Codes : Redeemed(c) => redeemedBy[c] \in binding[c]

\* A locked code is never redeemed afterwards, not even by a request that
\* found it unlocked: "no further attempts accepted, even with the right
\* answer" (docs/BOOTSTRAP.md).
LockedStaysUnredeemed ==
    [][\A c \in Codes : locked[c] \/ expired[c] => redeemedBy'[c] = redeemedBy[c]]_vars

\* The handler mints the overlay key before it consumes, "so that on a
\* Tailscale API failure we don't burn the code": a redeemed code has its job
\* and token unless its request is still at work or broke off after that.
BurnedOnlyByFailure ==
    \A c \in Codes :
        Redeemed(c) =>
            \/ jobs[c] = 1 /\ boot[c] = 1
            \/ \E r \in Requests : req[r].code = c /\ req[r].pc \in {"job", "token"}
            \/ c \in failed

\* The hourly limit per address, as enforced: the statement does not count
\* its own row and may miss those of concurrent requests, so an address gets
\* at most as many attempts more as there are requests in flight, and one more
\* for every statement that failed.
IPGate ==
    \A a \in IPs :
        passed[a] <= RateRedeemPerIPHour + Cardinality(Requests) + uncounted[a]

\* "Per source IP per hour: 30 attempts, all codes considered."
IPLimit == \A a \in IPs : passed[a] <= RateRedeemPerIPHour

\* handleRedeem looks the code up first "to bump attempts even on bad codes":
\* an attempt turned down on a code that exists is counted.
FailedLookupsCount ==
    [][\A r \in Requests : \A c \in Codes :
         FindCode(r) /\ req[r].code = c /\ Issued(c) /\ req'[r].pc = "idle"
            => attempts'[c] = attempts[c] + 1]_vars

\* The per-operator quota caps what a compromised account can issue.
IssueQuota == \A op \in Operators : IssuedCount(op) <= RateIssuePerOpHour

\* A code that was consumed leads to an answer with its boot token, or a
\* statement of its redemption after the consume failed (redeem writes the
\* code, the job, the token and the event one after the other).
ConsumedIsDelivered ==
    \A c \in Codes : Redeemed(c) ~> (answered[c] = 1 \/ c \in failed)

-----------------------------------------------------------------------------
(***************************************************************************)
(* Redemption implements SingleUseCode.                                    *)
(***************************************************************************)

Status(c) ==
    IF boot[c] > 0 THEN "delivered"
    ELSE IF Redeemed(c) THEN "claimed"
    ELSE IF locked[c] \/ expired[c] THEN "dead"
    ELSE IF Issued(c) THEN "open"
    ELSE "none"

Promise == INSTANCE SingleUseCode WITH status <- [c \in Codes |-> Status(c)]

\* The broker's rows and handlers implement the promise about a code.
ImplementsSingleUse == Promise!Spec

=============================================================================
