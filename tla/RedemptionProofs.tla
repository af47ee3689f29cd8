-------------------------- MODULE RedemptionProofs --------------------------
(***************************************************************************)
(* The auth broker keeps its promise about a code for any number of codes, *)
(* addresses, operators and concurrent requests, with or without failures. *)
(***************************************************************************)
EXTENDS Redemption, FiniteSetTheorems, TLAPS

\* Steps after the row of the code was read, after the binding was checked,
\* and after the code was consumed.
Found == {"increment", "key", "consume", "job", "token", "respond"}
Admitted == {"key", "consume", "job", "token", "respond"}
Holding == {"job", "token", "respond"}

\* What a request knows at a step: it knew it when it got there, and no other
\* request can make it false.
Knows ==
    \A r \in Requests :
        /\ req[r].pc = "issue" => req[r].op \in Operators
        /\ req[r].pc = "record" => req[r].ip \in IPs
        /\ req[r].pc \in Found => req[r].code \in Codes /\ Issued(req[r].code)
        /\ req[r].pc \in Admitted => req[r].ip \in binding[req[r].code]

\* A row that was never inserted is blank, one never redeemed has no rows.
Blank ==
    \A c \in Codes :
        /\ ~Issued(c) => ~Redeemed(c) /\ ~locked[c] /\ ~expired[c]
        /\ ~Redeemed(c) => jobs[c] = 0 /\ boot[c] = 0 /\ answered[c] = 0

\* The request that consumed a code is the only one to work on it, and the
\* rows are those its step says.
Holders ==
    \A r \in Requests : req[r].pc \in Holding =>
        /\ Redeemed(req[r].code)
        /\ jobs[req[r].code] = (IF req[r].pc = "job" THEN 0 ELSE 1)
        /\ boot[req[r].code] = (IF req[r].pc = "respond" THEN 1 ELSE 0)
        /\ answered[req[r].code] = 0
        /\ \A q \in Requests : req[q].pc \in Holding /\ req[q].code = req[r].code => q = r

Work ==
    /\ Knows
    /\ Blank
    /\ Holders
    /\ OneDeploymentPerCode
    /\ RedeemedFromBinding
    /\ BurnedOnlyByFailure

IInv == TypeOK /\ Work

\* Nothing is issued or in flight initially.
LEMMA InitIInv == Init => IInv
  BY RedemptionAssumption
     DEF Init, IInv, TypeOK, Work, Knows, Blank, Holders, OneDeploymentPerCode,
         RedeemedFromBinding, BurnedOnlyByFailure, RequestType, Idle, Steps, Issued,
         Redeemed, Found, Admitted, Holding

-----------------------------------------------------------------------------
(***************************************************************************)
(* Type correctness.                                                       *)
(***************************************************************************)

\* What Goto does to a request slot and to the others.
LEMMA GotoMove ==
  ASSUME req \in [Requests -> RequestType], NEW r \in Requests, NEW pc \in Steps, Goto(r, pc)
  PROVE  /\ req' \in [Requests -> RequestType]
         /\ req'[r].pc = pc /\ req'[r].code = req[r].code /\ req'[r].ip = req[r].ip
         /\ req'[r].op = req[r].op
         /\ \A q \in Requests : q # r => req'[q] = req[q]
  <1>1. req' \in [Requests -> RequestType]
    BY DEF Goto, RequestType
  <1>2. req'[r] = [req[r] EXCEPT !.pc = pc]
    BY DEF Goto
  <1>. QED BY <1>1, <1>2 DEF Goto, RequestType

\* What Reply does.
LEMMA ReplyMove ==
  ASSUME req \in [Requests -> RequestType], NEW r \in Requests, Reply(r)
  PROVE  /\ req' \in [Requests -> RequestType]
         /\ req'[r].pc = "idle"
         /\ \A q \in Requests : q # r => req'[q] = req[q]
  BY DEF Reply, RequestType, Idle, Steps

\* The records the handlers start with.
LEMMA StartRecords ==
  /\ \A op \in Operators : \A bind \in Bindings :
        [Idle EXCEPT !.pc = "issue", !.op = op, !.bind = bind] \in RequestType
  /\ \A a \in IPs : \A c \in Codes \cup {NoCode} : \A n \in Nat :
        [Idle EXCEPT !.pc = "record", !.code = c, !.ip = a, !.cnt = n] \in RequestType
  BY RedemptionAssumption DEF RequestType, Idle, Steps

\* Every action keeps the variables within their types.
LEMMA TypeStep == TypeOK /\ Knows /\ [Next]_vars => TypeOK'
  <1> SUFFICES ASSUME TypeOK, Knows, [Next]_vars PROVE TypeOK'
    OBVIOUS
  <1> USE DEF TypeOK, rows
  <1>1. ASSUME NEW r \in Requests, Start(r) PROVE TypeOK'
    <2>1. ASSUME NEW op \in Operators, NEW bind \in Bindings, IssueCode(r, op, bind)
          PROVE  TypeOK'
      BY <2>1, StartRecords DEF IssueCode
    <2>2. ASSUME NEW a \in IPs, NEW c \in Codes \cup {NoCode}, Redeem(r, a, c) PROVE TypeOK'
      <3>1. tries[a] \in Nat
        OBVIOUS
      <3>. QED BY <2>2, <3>1, StartRecords DEF Redeem
    <2>. QED BY <1>1, <2>1, <2>2 DEF Start
  <1>2. ASSUME NEW r \in Requests, Step(r) PROVE TypeOK'
    <2>1. ASSUME NEW c \in Codes, InsertCode(r, c) PROVE TypeOK'
      <3>1. req[r].op \in Operators \cup {NoOp} /\ req[r].bind \in SUBSET IPs
        BY DEF RequestType
      <3>. QED BY <2>1, <3>1, ReplyMove DEF InsertCode
    <2>2. CASE RecordPerIPAttempt(r)
      <3>1. req' \in [Requests -> RequestType]
        BY <2>2, ReplyMove, GotoMove DEF RecordPerIPAttempt, Steps
      <3>2. req[r].ip \in IPs
        BY <2>2 DEF RecordPerIPAttempt, Knows
      <3>. QED BY <2>2, <3>1, <3>2 DEF RecordPerIPAttempt
    <2>3. CASE FindCode(r)
      <3>1. req' \in [Requests -> RequestType]
        BY <2>3, ReplyMove, GotoMove DEF FindCode, Steps
      <3>. QED BY <2>3, <3>1 DEF FindCode
    <2>4. CASE IncrementAttempt(r)
      <3>1. req[r].code \in Codes
        BY <2>4 DEF IncrementAttempt, Knows, Found
      <3>. QED BY <2>4, <3>1, ReplyMove DEF IncrementAttempt
    <2>5. CASE MintKey(r)
      BY <2>5, GotoMove DEF MintKey, Steps
    <2>6. CASE ConsumeCode(r)
      <3>1. req' \in [Requests -> RequestType]
        BY <2>6, ReplyMove, GotoMove DEF ConsumeCode, Steps
      <3>2. req[r].ip \in IPs \cup {NoIP}
        BY DEF RequestType
      <3>. QED BY <2>6, <3>1, <3>2 DEF ConsumeCode
    <2>7. CASE CreateDeploymentJob(r)
      <3>1. req[r].code \in Codes
        BY <2>7 DEF CreateDeploymentJob, Knows, Found
      <3>. QED BY <2>7, <3>1, GotoMove DEF CreateDeploymentJob, Steps
    <2>8. CASE CreateOneShotToken(r)
      <3>1. req[r].code \in Codes
        BY <2>8 DEF CreateOneShotToken, Knows, Found
      <3>. QED BY <2>8, <3>1, GotoMove DEF CreateOneShotToken, Steps
    <2>9. CASE Respond(r)
      <3>1. req[r].code \in Codes
        BY <2>9 DEF Respond, Knows, Found
      <3>. QED BY <2>9, <3>1, ReplyMove DEF Respond
    <2>. QED BY <1>2, <2>1, <2>2, <2>3, <2>4, <2>5, <2>6, <2>7, <2>8, <2>9 DEF Step
  <1>3. ASSUME NEW r \in Requests, RecordFails(r) PROVE TypeOK'
    <2>1. req[r].ip \in IPs
      BY <1>3 DEF RecordFails, Knows
    <2>. QED BY <1>3, <2>1, GotoMove DEF RecordFails, Steps
  <1>4. ASSUME NEW r \in Requests, Abort(r) PROVE TypeOK'
    <2>1. req[r].pc \in {"job", "token", "respond"} => req[r].code \in Codes
      BY DEF Knows, Found
    <2>. QED BY <1>4, <2>1, ReplyMove DEF Abort
  <1>5. ASSUME NEW c \in Codes, Expire(c) PROVE TypeOK'
    BY <1>5 DEF Expire
  <1>6. CASE LockExpiredCodes
    BY <1>6 DEF LockExpiredCodes
  <1>7. CASE UNCHANGED vars
    BY <1>7 DEF vars
  <1>. QED BY <1>1, <1>2, <1>3, <1>4, <1>5, <1>6, <1>7 DEF Next
-----------------------------------------------------------------------------
(***************************************************************************)
(* Every action preserves what the requests know and hold.                 *)
(***************************************************************************)

\* A request at step `from` goes to a step that holds nothing, and no row
\* that the invariant speaks of changes.
LEMMA QuietMove ==
  ASSUME TypeOK, Work, NEW r \in Requests,
         req' \in [Requests -> RequestType],
         \A q \in Requests : q # r => req'[q] = req[q],
         req[r].pc \notin Holding, req'[r].pc \notin Holding,
         req'[r].pc = "issue" => req'[r].op \in Operators,
         req'[r].pc = "record" => req'[r].ip \in IPs,
         req'[r].pc \in Found => req'[r].code \in Codes /\ Issued(req'[r].code),
         req'[r].pc \in Admitted => req'[r].ip \in binding[req'[r].code],
         UNCHANGED <<issuedBy, binding, redeemedBy, jobs, boot, answered, failed>>,
         \A c \in Codes : ~Issued(c) => ~locked'[c] /\ ~expired'[c]
  PROVE  Work'
  <1> USE DEF Work
  <1>1. Knows'
    BY DEF Knows, Issued
  <1>2. Blank'
    BY DEF Blank, Issued, Redeemed
  <1>3. Holders'
    BY DEF Holders, Redeemed
  <1>4. OneDeploymentPerCode' /\ RedeemedFromBinding'
    BY DEF OneDeploymentPerCode, RedeemedFromBinding, Redeemed
  <1>5. BurnedOnlyByFailure'
    BY DEF BurnedOnlyByFailure, Redeemed, Holding
  <1>. QED BY <1>1, <1>2, <1>3, <1>4, <1>5

\* Starting a handler.
LEMMA StartWork ==
  ASSUME TypeOK, Work, NEW r \in Requests, Start(r), req' \in [Requests -> RequestType]
  PROVE  Work'
  <1>1. ASSUME NEW op \in Operators, NEW bind \in Bindings, IssueCode(r, op, bind) PROVE Work'
    <2>1. req'[r].pc = "issue" /\ req'[r].op = op
      BY <1>1 DEF IssueCode, Idle, TypeOK
    <2>2. \A q \in Requests : q # r => req'[q] = req[q]
      BY <1>1 DEF IssueCode, TypeOK
    <2>3. \A c \in Codes : ~Issued(c) => ~locked'[c] /\ ~expired'[c]
      BY <1>1 DEF IssueCode, rows, Work, Blank
    <2>. QED BY <1>1, <2>1, <2>2, <2>3, QuietMove DEF IssueCode, rows, Holding, Found, Admitted
  <1>2. ASSUME NEW a \in IPs, NEW c \in Codes \cup {NoCode}, Redeem(r, a, c) PROVE Work'
    <2>1. req'[r].pc = "record" /\ req'[r].ip = a
      BY <1>2 DEF Redeem, Idle, TypeOK
    <2>2. \A q \in Requests : q # r => req'[q] = req[q]
      BY <1>2 DEF Redeem, TypeOK
    <2>3. \A d \in Codes : ~Issued(d) => ~locked'[d] /\ ~expired'[d]
      BY <1>2 DEF Redeem, rows, Work, Blank
    <2>. QED BY <1>2, <2>1, <2>2, <2>3, QuietMove DEF Redeem, rows, Holding, Found, Admitted
  <1>. QED BY <1>1, <1>2 DEF Start

\* The steps of a handler up to the consume.
LEMMA LookupWork ==
  ASSUME TypeOK, Work, NEW r \in Requests,
         \/ RecordPerIPAttempt(r) \/ FindCode(r) \/ IncrementAttempt(r) \/ MintKey(r)
         \/ RecordFails(r)
  PROVE  Work'
  <1>0. req \in [Requests -> RequestType]
    BY DEF TypeOK
  <1>1. CASE RecordPerIPAttempt(r)
    <2>1. /\ req' \in [Requests -> RequestType]
          /\ req'[r].pc \in {"idle", "find"}
          /\ \A q \in Requests : q # r => req'[q] = req[q]
      BY <1>0, <1>1, GotoMove, ReplyMove DEF RecordPerIPAttempt, Steps
    <2>2. \A c \in Codes : ~Issued(c) => ~locked'[c] /\ ~expired'[c]
      BY <1>1 DEF RecordPerIPAttempt, rows, Work, Blank
    <2>. QED BY <1>1, <2>1, <2>2, QuietMove
             DEF RecordPerIPAttempt, rows, Holding, Found, Admitted
  <1>2. CASE FindCode(r)
    <2>1. /\ req' \in [Requests -> RequestType]
          /\ req'[r].pc \in {"idle", "increment", "key"}
          /\ \A q \in Requests : q # r => req'[q] = req[q]
          /\ req'[r].pc # "idle" => /\ req'[r].code = req[r].code /\ req'[r].ip = req[r].ip
                                    /\ req[r].code # NoCode /\ Usable(req[r].code)
          /\ req'[r].pc = "key" => req[r].ip \in binding[req[r].code]
      BY <1>0, <1>2, GotoMove, ReplyMove DEF FindCode, Steps
    <2>2. req[r].code \in Codes \cup {NoCode}
      BY <1>0 DEF RequestType
    <2>3. \A c \in Codes : ~Issued(c) => ~locked'[c] /\ ~expired'[c]
      BY <1>2 DEF FindCode, rows, Work, Blank
    <2>4. UNCHANGED <<issuedBy, binding, redeemedBy, jobs, boot, answered, failed>>
      BY <1>2 DEF FindCode, rows
    <2>. QED BY <1>2, <2>1, <2>2, <2>3, <2>4, QuietMove
             DEF FindCode, Usable, Holding, Found, Admitted
  <1>3. CASE IncrementAttempt(r)
    <2>1. /\ req' \in [Requests -> RequestType]
          /\ req'[r].pc = "idle"
          /\ \A q \in Requests : q # r => req'[q] = req[q]
      BY <1>0, <1>3, ReplyMove DEF IncrementAttempt
    <2>2. req[r].code \in Codes /\ Issued(req[r].code)
      BY <1>3 DEF IncrementAttempt, Work, Knows, Found
    <2>3. \A c \in Codes : ~Issued(c) => ~locked'[c] /\ ~expired'[c]
      BY <1>3, <2>2 DEF IncrementAttempt, TypeOK, Work, Blank
    <2>. QED BY <1>3, <2>1, <2>3, QuietMove DEF IncrementAttempt, Holding, Found, Admitted
  <1>4. CASE MintKey(r)
    <2>1. /\ req' \in [Requests -> RequestType]
          /\ req'[r].pc = "consume" /\ req'[r].code = req[r].code /\ req'[r].ip = req[r].ip
          /\ \A q \in Requests : q # r => req'[q] = req[q]
      BY <1>0, <1>4, GotoMove DEF MintKey, Steps
    <2>2. req[r].code \in Codes /\ Issued(req[r].code) /\ req[r].ip \in binding[req[r].code]
      BY <1>4 DEF MintKey, Work, Knows, Found, Admitted
    <2>3. \A c \in Codes : ~Issued(c) => ~locked'[c] /\ ~expired'[c]
      BY <1>4 DEF MintKey, rows, Work, Blank
    <2>. QED BY <1>4, <2>1, <2>2, <2>3, QuietMove DEF MintKey, rows, Holding
  <1>5. CASE RecordFails(r)
    <2>1. /\ req' \in [Requests -> RequestType]
          /\ req'[r].pc = "find"
          /\ \A q \in Requests : q # r => req'[q] = req[q]
      BY <1>0, <1>5, GotoMove DEF RecordFails, Steps
    <2>2. \A c \in Codes : ~Issued(c) => ~locked'[c] /\ ~expired'[c]
      BY <1>5 DEF RecordFails, rows, Work, Blank
    <2>. QED BY <1>5, <2>1, <2>2, QuietMove DEF RecordFails, rows, Holding, Found, Admitted
  <1>. QED BY <1>1, <1>2, <1>3, <1>4, <1>5
\* Inserting a code nobody has drawn before.
LEMMA InsertWork ==
  ASSUME TypeOK, Work, NEW r \in Requests, NEW c \in Codes, InsertCode(r, c)
  PROVE  Work'
  <1> USE DEF Work
  <1>0. req \in [Requests -> RequestType]
    BY DEF TypeOK
  <1>1. /\ req'[r].pc = "idle"
        /\ \A q \in Requests : q # r => req'[q] = req[q]
    BY <1>0, ReplyMove DEF InsertCode
  <1>2. req[r].pc = "issue" /\ req[r].op \in Operators /\ ~Issued(c)
    BY DEF InsertCode, Knows
  <1>3. /\ UNCHANGED <<locked, expired, redeemedBy, jobs, boot, answered, failed>>
        /\ issuedBy'[c] # NoOp
        /\ \A d \in Codes : d # c => issuedBy'[d] = issuedBy[d] /\ binding'[d] = binding[d]
    BY <1>2, RedemptionAssumption DEF InsertCode, TypeOK
  <1>4. ~Redeemed(c)
    BY <1>2 DEF Blank
  <1>5. Knows'
    BY <1>1, <1>2, <1>3 DEF Knows, Issued, Found, Admitted
  <1>6. Blank'
    BY <1>3 DEF Blank, Issued, Redeemed
  <1>7. Holders'
    BY <1>1, <1>2, <1>3 DEF Holders, Redeemed, Holding
  <1>8. OneDeploymentPerCode'
    BY <1>3 DEF OneDeploymentPerCode, Redeemed
  <1>9. RedeemedFromBinding'
    BY <1>3, <1>4 DEF RedeemedFromBinding, Redeemed
  <1>10. BurnedOnlyByFailure'
    BY <1>1, <1>2, <1>3 DEF BurnedOnlyByFailure, Redeemed
  <1>. QED BY <1>5, <1>6, <1>7, <1>8, <1>9, <1>10

\* The atomic UPDATE: the request becomes the holder of the code, or answers.
LEMMA ConsumeWork ==
  ASSUME TypeOK, Work, NEW r \in Requests, ConsumeCode(r)
  PROVE  Work'
  <1> DEFINE c == req[r].code
  <1> USE DEF Work
  <1>0. req \in [Requests -> RequestType]
    BY DEF TypeOK
  <1>1. req[r].pc = "consume" /\ c \in Codes /\ Issued(c) /\ req[r].ip \in binding[c]
    BY DEF ConsumeCode, Knows, Found, Admitted
  <1>2. CASE Redeemed(c) \/ locked[c] \/ expired[c]
    <2>1. /\ req' \in [Requests -> RequestType]
          /\ req'[r].pc = "idle"
          /\ \A q \in Requests : q # r => req'[q] = req[q]
      BY <1>0, <1>2, ReplyMove DEF ConsumeCode
    <2>2. \A d \in Codes : ~Issued(d) => ~locked'[d] /\ ~expired'[d]
      BY DEF ConsumeCode, Blank
    <2>. QED BY <1>1, <1>2, <2>1, <2>2, QuietMove DEF ConsumeCode, Holding, Found, Admitted
  <1>3. CASE ~(Redeemed(c) \/ locked[c] \/ expired[c])
    <2>1. /\ req'[r].pc = "job" /\ req'[r].code = c /\ req'[r].ip = req[r].ip
          /\ \A q \in Requests : q # r => req'[q] = req[q]
      BY <1>0, <1>3, GotoMove DEF ConsumeCode, Steps
    <2>2. req[r].ip \in IPs
      BY <1>1 DEF TypeOK
    <2>3. /\ UNCHANGED <<issuedBy, binding, locked, expired, jobs, boot, answered, failed>>
          /\ redeemedBy'[c] = req[r].ip /\ redeemedBy'[c] # NoIP
          /\ \A d \in Codes : d # c => redeemedBy'[d] = redeemedBy[d]
      BY <1>1, <1>3, <2>2, RedemptionAssumption DEF ConsumeCode, TypeOK
    <2>4. jobs[c] = 0 /\ boot[c] = 0 /\ answered[c] = 0
      BY <1>1, <1>3 DEF Blank
    <2>5. \A q \in Requests : req[q].pc \in Holding => req[q].code # c
      BY <1>3 DEF Holders
    <2>6. Knows'
      BY <1>1, <2>1, <2>3 DEF Knows, Issued, Found, Admitted
    <2>7. Blank'
      BY <1>1, <2>3 DEF Blank, Issued, Redeemed
    <2>8. Holders'
      BY <1>1, <2>1, <2>3, <2>4, <2>5 DEF Holders, Redeemed, Knows, Holding, Found
    <2>9. OneDeploymentPerCode'
      BY <2>3, <2>4 DEF OneDeploymentPerCode, Redeemed
    <2>10. RedeemedFromBinding'
      BY <1>1, <2>3 DEF RedeemedFromBinding, Redeemed
    <2>11. BurnedOnlyByFailure'
      BY <1>1, <2>1, <2>3 DEF BurnedOnlyByFailure, Redeemed
    <2>. QED BY <2>6, <2>7, <2>8, <2>9, <2>10, <2>11
  <1>. QED BY <1>2, <1>3

\* The holder of a code moves on, and adds a row to one table.
LEMMA HolderWork ==
  ASSUME TypeOK, Work, NEW r \in Requests,
         CreateDeploymentJob(r) \/ CreateOneShotToken(r) \/ Respond(r)
  PROVE  Work'
  <1> DEFINE c == req[r].code
  <1> USE DEF Work
  <1>0. req \in [Requests -> RequestType]
    BY DEF TypeOK
  <1>1. /\ req[r].pc \in Holding /\ c \in Codes /\ Issued(c) /\ Redeemed(c)
        /\ req[r].ip \in binding[c]
    BY DEF CreateDeploymentJob, CreateOneShotToken, Respond, Knows, Holders, Found, Holding,
           Admitted
  <1>2. /\ req'[r].pc \in {"token", "respond", "idle"}
        /\ req'[r].pc # "idle" => req'[r].code = c /\ req'[r].ip = req[r].ip
        /\ \A q \in Requests : q # r => req'[q] = req[q]
    BY <1>0, GotoMove, ReplyMove DEF CreateDeploymentJob, CreateOneShotToken, Respond, Steps
  <1>3. /\ UNCHANGED <<issuedBy, binding, locked, expired, redeemedBy, failed>>
        /\ \A d \in Codes : d # c =>
              jobs'[d] = jobs[d] /\ boot'[d] = boot[d] /\ answered'[d] = answered[d]
    BY DEF CreateDeploymentJob, CreateOneShotToken, Respond, rows, TypeOK
  <1>4. /\ req'[r].pc = "token" => jobs'[c] = 1 /\ boot'[c] = 0 /\ answered'[c] = 0
        /\ req'[r].pc = "respond" => jobs'[c] = 1 /\ boot'[c] = 1 /\ answered'[c] = 0
        /\ req'[r].pc = "idle" => jobs'[c] = 1 /\ boot'[c] = 1 /\ answered'[c] = 1
    <2>1. CASE CreateDeploymentJob(r)
      <3>1. req'[r].pc = "token"
        BY <1>0, <2>1, GotoMove DEF CreateDeploymentJob, Steps
      <3>. QED BY <1>1, <2>1, <3>1 DEF CreateDeploymentJob, Holders, Holding, TypeOK
    <2>2. CASE CreateOneShotToken(r)
      <3>1. req'[r].pc = "respond"
        BY <1>0, <2>2, GotoMove DEF CreateOneShotToken, Steps
      <3>. QED BY <1>1, <2>2, <3>1 DEF CreateOneShotToken, Holders, Holding, TypeOK
    <2>3. CASE Respond(r)
      <3>1. req'[r].pc = "idle"
        BY <1>0, <2>3, ReplyMove DEF Respond
      <3>. QED BY <1>1, <2>3, <3>1 DEF Respond, Holders, Holding, TypeOK
    <2>. QED BY <2>1, <2>2, <2>3
  <1>5. Knows'
    BY <1>1, <1>2, <1>3 DEF Knows, Issued, Found, Admitted
  <1>6. Blank'
    BY <1>1, <1>3 DEF Blank, Issued, Redeemed
  <1>7. \A q \in Requests : q # r /\ req[q].pc \in Holding => req[q].code # c
    BY <1>1 DEF Holders
  <1>8. Holders'
    <2> SUFFICES ASSUME NEW q \in Requests, req'[q].pc \in Holding
                 PROVE  /\ Redeemed(req[q].code)'
                        /\ jobs'[req'[q].code] = (IF req'[q].pc = "job" THEN 0 ELSE 1)
                        /\ boot'[req'[q].code] = (IF req'[q].pc = "respond" THEN 1 ELSE 0)
                        /\ answered'[req'[q].code] = 0
                        /\ \A p \in Requests :
                              req'[p].pc \in Holding /\ req'[p].code = req'[q].code => p = q
      BY DEF Holders
    <2>1. CASE q = r
      BY <1>1, <1>2, <1>3, <1>4, <1>7, <2>1 DEF Redeemed, Holding
    <2>2. CASE q # r
      <3>1. req'[q] = req[q] /\ req[q].code \in Codes /\ req[q].code # c
        BY <1>2, <1>7, <2>2 DEF Knows, Found, Holding
      <3>. QED BY <1>2, <1>3, <2>2, <3>1 DEF Holders, Redeemed, Holding
    <2>. QED BY <2>1, <2>2
  <1>9. OneDeploymentPerCode'
    BY <1>1, <1>2, <1>3, <1>4 DEF OneDeploymentPerCode, Redeemed
  <1>10. RedeemedFromBinding'
    BY <1>3 DEF RedeemedFromBinding, Redeemed
  <1>11. BurnedOnlyByFailure'
    BY <1>1, <1>2, <1>3, <1>4 DEF BurnedOnlyByFailure, Redeemed
  <1>. QED BY <1>5, <1>6, <1>8, <1>9, <1>10, <1>11
\* A handler that breaks off gives up its code for good.
LEMMA AbortWork ==
  ASSUME TypeOK, Work, NEW r \in Requests, Abort(r)
  PROVE  Work'
  <1> USE DEF Work
  <1>0. req \in [Requests -> RequestType]
    BY DEF TypeOK
  <1>1. /\ req'[r].pc = "idle"
        /\ \A q \in Requests : q # r => req'[q] = req[q]
    BY <1>0, ReplyMove DEF Abort
  <1>2. /\ UNCHANGED <<issuedBy, binding, locked, expired, redeemedBy, jobs, boot, answered>>
        /\ failed \subseteq failed'
        /\ req[r].pc \in Holding => req[r].code \in failed'
    BY DEF Abort, rows, Holding
  <1>3. Knows' /\ Blank'
    BY <1>1, <1>2 DEF Knows, Blank, Issued, Redeemed, Found, Admitted
  <1>4. Holders'
    BY <1>1, <1>2 DEF Holders, Redeemed, Holding
  <1>5. OneDeploymentPerCode' /\ RedeemedFromBinding'
    BY <1>2 DEF OneDeploymentPerCode, RedeemedFromBinding, Redeemed
  <1>6. BurnedOnlyByFailure'
    BY <1>1, <1>2 DEF BurnedOnlyByFailure, Redeemed, Holding
  <1>. QED BY <1>3, <1>4, <1>5, <1>6

\* Codes that only age or get locked.
LEMMA AgeWork ==
  ASSUME TypeOK, Work, (\E c \in Codes : Expire(c)) \/ LockExpiredCodes \/ UNCHANGED vars
  PROVE  Work'
  <1>1. /\ UNCHANGED <<issuedBy, binding, redeemedBy, jobs, boot, answered, failed, req>>
        /\ \A c \in Codes : ~Issued(c) => ~locked'[c] /\ ~expired'[c]
    BY DEF Expire, LockExpiredCodes, vars, Issued, Work, Blank, TypeOK
  <1>. QED BY <1>1
           DEF Work, Knows, Blank, Holders, OneDeploymentPerCode, RedeemedFromBinding,
               BurnedOnlyByFailure, Issued, Redeemed

\* The inductive step.
LEMMA NextIInv == IInv /\ [Next]_vars => IInv'
  <1> SUFFICES ASSUME IInv, [Next]_vars PROVE IInv'
    OBVIOUS
  <1>0. TypeOK /\ Work
    BY DEF IInv
  <1>1. TypeOK'
    BY <1>0, TypeStep DEF Work
  <1>2. req' \in [Requests -> RequestType]
    BY <1>1 DEF TypeOK
  <1>3. ASSUME NEW r \in Requests, Start(r) PROVE Work'
    BY <1>0, <1>2, <1>3, StartWork
  <1>4. ASSUME NEW r \in Requests, Step(r) PROVE Work'
    BY <1>0, <1>4, InsertWork, LookupWork, ConsumeWork, HolderWork DEF Step
  <1>5. ASSUME NEW r \in Requests, RecordFails(r) \/ Abort(r) PROVE Work'
    BY <1>0, <1>5, LookupWork, AbortWork
  <1>6. ASSUME (\E c \in Codes : Expire(c)) \/ LockExpiredCodes \/ UNCHANGED vars
        PROVE  Work'
    BY <1>0, <1>6, AgeWork
  <1>7. Work'
    BY <1>3, <1>4, <1>5, <1>6 DEF Next
  <1>. QED BY <1>1, <1>7 DEF IInv

-----------------------------------------------------------------------------
(***************************************************************************)
(* The theorems.                                                           *)
(***************************************************************************)

\* IInv holds in every reachable state of the broker.
THEOREM Inductive == Spec => []IInv
  BY InitIInv, NextIInv, PTL DEF Spec

\* The broker's rows and handlers keep their types.
THEOREM TypeCorrect == Spec => []TypeOK
  <1>1. IInv => TypeOK
    BY DEF IInv
  <1>. QED BY <1>1, Inductive, PTL

\* ConsumeCode's UPDATE lets one of any number of concurrent redeems through:
\* a code yields one job and one boot token at most.
THEOREM OneDeployment == Spec => []OneDeploymentPerCode
  <1>1. IInv => OneDeploymentPerCode
    BY DEF IInv, Work
  <1>. QED BY <1>1, Inductive, PTL

\* The binding checked before the overlay key is minted holds at the consume.
THEOREM BindingRespected == Spec => []RedeemedFromBinding
  <1>1. IInv => RedeemedFromBinding
    BY DEF IInv, Work
  <1>. QED BY <1>1, Inductive, PTL

\* A code is spent in vain only when its redeem broke off after the consume.
THEOREM Burned == Spec => []BurnedOnlyByFailure
  <1>1. IInv => BurnedOnlyByFailure
    BY DEF IInv, Work
  <1>. QED BY <1>1, Inductive, PTL

-----------------------------------------------------------------------------
(***************************************************************************)
(* Locked codes, and the refinement.                                       *)
(***************************************************************************)

\* How one step changes the rows that Status looks at.
Inserts(c) ==
    /\ ~Issued(c)
    /\ \E op \in Operators : issuedBy' = [issuedBy EXCEPT ![c] = op]
    /\ UNCHANGED <<locked, expired, redeemedBy, boot>>

Consumes(c) ==
    /\ Issued(c) /\ ~Redeemed(c) /\ ~locked[c] /\ ~expired[c]
    /\ \E a \in IPs : redeemedBy' = [redeemedBy EXCEPT ![c] = a]
    /\ UNCHANGED <<issuedBy, locked, expired, boot>>

Delivers(c) ==
    /\ Redeemed(c) /\ boot[c] = 0
    /\ boot' = [boot EXCEPT ![c] = 1]
    /\ UNCHANGED <<issuedBy, locked, expired, redeemedBy>>

Ages ==
    /\ \A c \in Codes : (locked'[c] \/ expired'[c]) => Issued(c)
    /\ \A c \in Codes : (locked[c] \/ expired[c]) => (locked'[c] \/ expired'[c])
    /\ UNCHANGED <<issuedBy, redeemedBy, boot>>

\* Every step of the broker is one of those.
LEMMA StepKinds ==
  ASSUME IInv, [Next]_vars
  PROVE  Ages \/ \E c \in Codes : Inserts(c) \/ Consumes(c) \/ Delivers(c)
  <1>0. TypeOK /\ Knows /\ Blank /\ Holders
    BY DEF IInv, Work
  <1>1. UNCHANGED <<rows, boot>> => Ages
    BY <1>0 DEF Ages, rows, Blank
  <1>2. ASSUME NEW r \in Requests, Start(r) PROVE Ages
    BY <1>1, <1>2 DEF Start, IssueCode, Redeem
  <1>3. ASSUME NEW r \in Requests, Step(r)
        PROVE  Ages \/ \E c \in Codes : Inserts(c) \/ Consumes(c) \/ Delivers(c)
    <2>1. ASSUME NEW c \in Codes, InsertCode(r, c) PROVE Inserts(c)
      BY <1>0, <2>1 DEF InsertCode, Inserts, Knows
    <2>2. CASE RecordPerIPAttempt(r) \/ FindCode(r) \/ MintKey(r) \/ CreateDeploymentJob(r)
               \/ Respond(r)
      BY <1>1, <2>2 DEF RecordPerIPAttempt, FindCode, MintKey, CreateDeploymentJob, Respond
    <2>3. CASE IncrementAttempt(r)
      <3>1. req[r].code \in Codes /\ Issued(req[r].code)
        BY <1>0, <2>3 DEF IncrementAttempt, Knows, Found
      <3>2. Ages
        BY <1>0, <2>3, <3>1 DEF IncrementAttempt, Ages, Blank, TypeOK
      <3>. QED BY <3>2
    <2>4. CASE ConsumeCode(r)
      <3>1. /\ req[r].code \in Codes /\ Issued(req[r].code)
            /\ req[r].ip \in binding[req[r].code]
        BY <1>0, <2>4 DEF ConsumeCode, Knows, Found, Admitted
      <3>2. req[r].ip \in IPs
        BY <1>0, <3>1 DEF TypeOK
      <3>3. CASE Redeemed(req[r].code) \/ locked[req[r].code] \/ expired[req[r].code]
        BY <1>1, <2>4, <3>3 DEF ConsumeCode, rows
      <3>4. CASE ~(Redeemed(req[r].code) \/ locked[req[r].code] \/ expired[req[r].code])
        <4>1. Consumes(req[r].code)
          BY <2>4, <3>1, <3>2, <3>4 DEF ConsumeCode, Consumes
        <4>. QED BY <3>1, <4>1
      <3>. QED BY <3>3, <3>4
    <2>5. CASE CreateOneShotToken(r)
      <3>1. /\ req[r].code \in Codes /\ Redeemed(req[r].code)
            /\ boot[req[r].code] = 0
        BY <1>0, <2>5 DEF CreateOneShotToken, Knows, Holders, Found, Holding
      <3>2. Delivers(req[r].code)
        BY <1>0, <2>5, <3>1 DEF CreateOneShotToken, Delivers, rows, TypeOK
      <3>. QED BY <3>1, <3>2
    <2>. QED BY <1>3, <2>1, <2>2, <2>3, <2>4, <2>5 DEF Step
  <1>4. ASSUME NEW r \in Requests, RecordFails(r) \/ Abort(r) PROVE Ages
    BY <1>1, <1>4 DEF RecordFails, Abort
  <1>5. CASE (\E c \in Codes : Expire(c)) \/ LockExpiredCodes \/ UNCHANGED vars
    <2>1. Ages
      BY <1>0, <1>5 DEF Expire, LockExpiredCodes, vars, Ages, Blank, TypeOK
    <2>. QED BY <2>1
  <1>. QED BY <1>2, <1>3, <1>4, <1>5 DEF Next

\* A locked or expired code is never redeemed afterwards, whatever a request
\* found when it read the row.
THEOREM LockedUnredeemed == Spec => LockedStaysUnredeemed
  <1>1. IInv /\ [Next]_vars =>
           [\A c \in Codes : locked[c] \/ expired[c] => redeemedBy'[c] = redeemedBy[c]]_vars
    <2> SUFFICES ASSUME IInv, [Next]_vars, NEW c \in Codes, locked[c] \/ expired[c]
                 PROVE  redeemedBy'[c] = redeemedBy[c]
      OBVIOUS
    <2>1. redeemedBy \in [Codes -> IPs \cup {NoIP}]
      BY DEF IInv, TypeOK
    <2>. QED BY <2>1, StepKinds DEF Ages, Inserts, Consumes, Delivers
  <1>. QED BY <1>1, Inductive, PTL DEF Spec, LockedStaysUnredeemed
\* How the four kinds of steps look to the abstract specification.
LEMMA StepRefines ==
  ASSUME IInv, [Next]_vars
  PROVE  [Promise!Next]_([c \in Codes |-> Status(c)])
  <1> DEFINE st == [c \in Codes |-> Status(c)]
  <1>0. /\ TypeOK
        /\ \A c \in Codes : ~Issued(c) => ~Redeemed(c) /\ ~locked[c] /\ ~expired[c]
        /\ \A c \in Codes : ~Redeemed(c) => boot[c] = 0
    BY DEF IInv, Work, Blank
  <1>1. ASSUME NEW c \in Codes, Inserts(c) PROVE Promise!Issue(c)
    <2>1. Status(c) = "none"
      BY <1>0, <1>1 DEF Inserts, Status
    <2>2. issuedBy'[c] # NoOp
      BY <1>0, <1>1, RedemptionAssumption DEF Inserts, TypeOK
    <2>3. Status(c)' = "open"
      BY <1>0, <1>1, <2>2 DEF Inserts, Status, Issued, Redeemed
    <2>4. \A d \in Codes : d # c => Status(d)' = Status(d)
      BY <1>0, <1>1 DEF Inserts, Status, Issued, Redeemed, TypeOK
    <2>. QED BY <2>1, <2>3, <2>4 DEF Promise!Issue
  <1>2. ASSUME NEW c \in Codes, Consumes(c) PROVE Promise!Claim(c)
    <2>1. Status(c) = "open"
      BY <1>0, <1>2 DEF Consumes, Status
    <2>2. redeemedBy'[c] # NoIP
      BY <1>0, <1>2, RedemptionAssumption DEF Consumes, TypeOK
    <2>3. Status(c)' = "claimed"
      BY <1>0, <1>2, <2>2 DEF Consumes, Status, Redeemed
    <2>4. \A d \in Codes : d # c => Status(d)' = Status(d)
      BY <1>0, <1>2 DEF Consumes, Status, Issued, Redeemed, TypeOK
    <2>. QED BY <2>1, <2>3, <2>4 DEF Promise!Claim
  <1>3. ASSUME NEW c \in Codes, Delivers(c) PROVE Promise!Deliver(c)
    <2>1. Status(c) = "claimed"
      BY <1>0, <1>3 DEF Delivers, Status
    <2>2. Status(c)' = "delivered"
      BY <1>0, <1>3 DEF Delivers, Status, TypeOK
    <2>3. \A d \in Codes : d # c => Status(d)' = Status(d)
      BY <1>0, <1>3 DEF Delivers, Status, Issued, Redeemed, TypeOK
    <2>. QED BY <2>1, <2>2, <2>3 DEF Promise!Deliver
  <1>4. ASSUME Ages PROVE Promise!Kill
    <2> DEFINE S == {c \in Codes : Status(c) = "open" /\ Status(c)' = "dead"}
    <2>1. \A c \in Codes : Status(c)' = Status(c) \/ (Status(c) = "open" /\ Status(c)' = "dead")
      BY <1>0, <1>4 DEF Ages, Status, Issued, Redeemed
    <2>2. S \in SUBSET {c \in Codes : st[c] = "open"}
      OBVIOUS
    <2>3. st' = [c \in Codes |-> IF c \in S THEN "dead" ELSE st[c]]
      BY <2>1
    <2>. QED BY <2>2, <2>3 DEF Promise!Kill
  <1>. QED BY <1>1, <1>2, <1>3, <1>4, StepKinds DEF Promise!Next

\* The broker implements the promise about a code.
THEOREM Refines == Spec => ImplementsSingleUse
  <1>1. Init => Promise!Init
    BY DEF Init, Promise!Init, Status, Issued, Redeemed
  <1>2. IInv /\ [Next]_vars => [Promise!Next]_([c \in Codes |-> Status(c)])
    BY StepRefines
  <1>. QED BY <1>1, <1>2, Inductive, PTL DEF Spec, ImplementsSingleUse, Promise!Spec

-----------------------------------------------------------------------------
(***************************************************************************)
(* The hourly limit of an address.  passed alone says nothing about the    *)
(* requests whose snapshot is already below the limit: they pass whatever  *)
(* is committed before them, so they are counted with it.                  *)
(***************************************************************************)

\* Requests of an address that will pass the limit when their row is stored.
Passing(a) == {r \in Requests : /\ req[r].pc = "record" /\ req[r].ip = a
                                /\ req[r].cnt <= RateRedeemPerIPHour}

\* Attempts that passed left their row or were not counted, and those that
\* passed or will pass exceed the limit by the requests in flight and the
\* uncounted ones at most.
Gate ==
    \A a \in IPs :
        /\ passed[a] <= tries[a] + uncounted[a]
        /\ passed[a] + Cardinality(Passing(a))
              <= RateRedeemPerIPHour + Cardinality(Requests) + uncounted[a]

\* There are at most as many requests passing as requests.
LEMMA PassingFinite ==
  ASSUME NEW a
  PROVE  /\ IsFiniteSet(Requests) /\ Cardinality(Requests) \in Nat
         /\ IsFiniteSet(Passing(a)) /\ Cardinality(Passing(a)) \in Nat
         /\ Cardinality(Passing(a)) <= Cardinality(Requests)
  <1>1. IsFiniteSet(Requests) /\ Passing(a) \in SUBSET Requests
    BY RedemptionAssumption DEF Passing
  <1>. QED BY <1>1, FS_Subset, FS_CardinalityType

\* A step that lets nobody through and starts no redeem keeps the gate.
LEMMA QuietGate ==
  ASSUME TypeOK, Gate, UNCHANGED <<tries, passed, uncounted>>,
         \A a \in IPs : Passing(a)' \subseteq Passing(a)
  PROVE  Gate'
  <1> SUFFICES ASSUME NEW a \in IPs
               PROVE  /\ passed'[a] <= tries'[a] + uncounted'[a]
                      /\ passed'[a] + Cardinality(Passing(a)')
                            <= RateRedeemPerIPHour + Cardinality(Requests) + uncounted'[a]
    BY DEF Gate
  <1> DEFINE P == Passing(a)
             Q == Passing(a)'
  <1>1. IsFiniteSet(P) /\ Cardinality(P) \in Nat /\ Cardinality(Requests) \in Nat
    BY PassingFinite
  <1>2. Q \in SUBSET P
    OBVIOUS
  <1> HIDE DEF P, Q
  <1>3. Cardinality(Q) <= Cardinality(P) /\ Cardinality(Q) \in Nat
    BY <1>1, <1>2, FS_Subset, FS_CardinalityType
  <1>4. /\ passed[a] \in Nat /\ tries[a] \in Nat /\ uncounted[a] \in Nat
        /\ RateRedeemPerIPHour \in Nat
        /\ passed'[a] = passed[a] /\ tries'[a] = tries[a] /\ uncounted'[a] = uncounted[a]
    BY RedemptionAssumption DEF TypeOK
  <1>5. passed[a] <= tries[a] + uncounted[a]
        /\ passed[a] + Cardinality(P) <= RateRedeemPerIPHour + Cardinality(Requests) + uncounted[a]
    BY DEF Gate, P
  <1>6. passed'[a] + Cardinality(Q) <= RateRedeemPerIPHour + Cardinality(Requests) + uncounted'[a]
    BY <1>1, <1>3, <1>4, <1>5
  <1>. QED BY <1>4, <1>5, <1>6 DEF Q

\* A redeem starts: its snapshot is below the limit only while no more than
\* the limit have left a row.
LEMMA RedeemGate ==
  ASSUME TypeOK, Gate, NEW r \in Requests, NEW b \in IPs, NEW c \in Codes \cup {NoCode},
         Redeem(r, b, c)
  PROVE  Gate'
  <1> SUFFICES ASSUME NEW a \in IPs
               PROVE  /\ passed'[a] <= tries'[a] + uncounted'[a]
                      /\ passed'[a] + Cardinality(Passing(a)')
                            <= RateRedeemPerIPHour + Cardinality(Requests) + uncounted'[a]
    BY DEF Gate
  <1>1. /\ passed[a] \in Nat /\ tries[a] \in Nat /\ uncounted[a] \in Nat
        /\ RateRedeemPerIPHour \in Nat
        /\ passed'[a] = passed[a] /\ tries'[a] = tries[a] /\ uncounted'[a] = uncounted[a]
    BY RedemptionAssumption DEF TypeOK, Redeem
  <1>2. passed[a] <= tries[a] + uncounted[a]
        /\ passed[a] + Cardinality(Passing(a))
              <= RateRedeemPerIPHour + Cardinality(Requests) + uncounted[a]
    BY DEF Gate
  <1>3. /\ req[r].pc = "idle"
        /\ req'[r].pc = "record" /\ req'[r].ip = b /\ req'[r].cnt = tries[b]
        /\ \A q \in Requests : q # r => req'[q] = req[q]
    BY DEF Redeem, Idle, TypeOK
  <1>4. CASE a = b /\ tries[a] <= RateRedeemPerIPHour
    <2>1. Cardinality(Passing(a)') \in Nat /\ Cardinality(Passing(a)') <= Cardinality(Requests)
      <3>1. Passing(a)' \in SUBSET Requests
        BY DEF Passing
      <3>. QED BY <3>1, PassingFinite, FS_Subset, FS_CardinalityType
    <2>2. Cardinality(Requests) \in Nat
      BY PassingFinite
    <2>. QED BY <1>1, <1>2, <1>4, <2>1, <2>2
  <1>5. CASE ~(a = b /\ tries[a] <= RateRedeemPerIPHour)
    <2>1. Passing(a)' = Passing(a)
      BY <1>1, <1>3, <1>5 DEF Passing
    <2>. QED BY <1>1, <1>2, <2>1
  <1>. QED BY <1>4, <1>5

\* A row is stored: who was counted as passing passes, and no one else does.
LEMMA RecordGate ==
  ASSUME TypeOK, Knows, Gate, NEW r \in Requests, RecordPerIPAttempt(r)
  PROVE  Gate'
  <1> DEFINE b == req[r].ip
  <1> SUFFICES ASSUME NEW a \in IPs
               PROVE  /\ passed'[a] <= tries'[a] + uncounted'[a]
                      /\ passed'[a] + Cardinality(Passing(a)')
                            <= RateRedeemPerIPHour + Cardinality(Requests) + uncounted'[a]
    BY DEF Gate
  <1>0. req \in [Requests -> RequestType] /\ req[r].cnt \in Nat
    BY DEF TypeOK, RequestType
  <1>1. /\ passed[a] \in Nat /\ tries[a] \in Nat /\ uncounted[a] \in Nat
        /\ RateRedeemPerIPHour \in Nat
        /\ Cardinality(Requests) \in Nat /\ Cardinality(Passing(a)) \in Nat
        /\ IsFiniteSet(Passing(a))
    BY RedemptionAssumption, PassingFinite DEF TypeOK
  <1>2. passed[a] <= tries[a] + uncounted[a]
        /\ passed[a] + Cardinality(Passing(a))
              <= RateRedeemPerIPHour + Cardinality(Requests) + uncounted[a]
    BY DEF Gate
  <1>3. b \in IPs /\ req[r].pc = "record"
    BY DEF RecordPerIPAttempt, Knows
  <1>4. /\ req'[r].pc \in {"idle", "find"}
        /\ \A q \in Requests : q # r => req'[q] = req[q]
    BY <1>0, GotoMove, ReplyMove DEF RecordPerIPAttempt, Steps
  <1>5. /\ tries'[a] = IF a = b THEN tries[a] + 1 ELSE tries[a]
        /\ uncounted'[a] = uncounted[a]
    BY <1>3 DEF RecordPerIPAttempt, TypeOK
  <1>6. Passing(a)' = Passing(a) \ {r}
    BY <1>4 DEF Passing
  <1>7. CASE r \in Passing(a)
    <2>1. a = b /\ req[r].cnt <= RateRedeemPerIPHour
      BY <1>7 DEF Passing
    <2>2. passed'[a] = passed[a] + 1
      BY <1>0, <1>1, <2>1 DEF RecordPerIPAttempt, TypeOK
    <2>3. Cardinality(Passing(a) \ {r}) = Cardinality(Passing(a)) - 1
      BY <1>1, <1>7, FS_RemoveElement
    <2>. QED BY <1>1, <1>2, <1>5, <1>6, <2>1, <2>2, <2>3
  <1>8. CASE r \notin Passing(a)
    <2>1. a # b \/ req[r].cnt > RateRedeemPerIPHour
      BY <1>0, <1>1, <1>3, <1>8 DEF Passing
    <2>2. passed'[a] = passed[a]
      BY <1>3, <2>1 DEF RecordPerIPAttempt, TypeOK
    <2>3. Passing(a)' = Passing(a)
      BY <1>6, <1>8
    <2>4. tries[a] <= tries'[a] /\ tries'[a] \in Nat
      BY <1>1, <1>5
    <2>. QED BY <1>1, <1>2, <1>5, <2>2, <2>3, <2>4
  <1>. QED BY <1>7, <1>8

\* The statement fails: one more has passed, and one more is uncounted.
LEMMA RecordFailsGate ==
  ASSUME TypeOK, Knows, Gate, NEW r \in Requests, RecordFails(r)
  PROVE  Gate'
  <1> DEFINE b == req[r].ip
  <1> SUFFICES ASSUME NEW a \in IPs
               PROVE  /\ passed'[a] <= tries'[a] + uncounted'[a]
                      /\ passed'[a] + Cardinality(Passing(a)')
                            <= RateRedeemPerIPHour + Cardinality(Requests) + uncounted'[a]
    BY DEF Gate
  <1>0. req \in [Requests -> RequestType]
    BY DEF TypeOK
  <1>1. /\ passed[a] \in Nat /\ tries[a] \in Nat /\ uncounted[a] \in Nat
        /\ RateRedeemPerIPHour \in Nat /\ Cardinality(Requests) \in Nat
        /\ Cardinality(Passing(a)) \in Nat /\ IsFiniteSet(Passing(a))
    BY RedemptionAssumption, PassingFinite DEF TypeOK
  <1>2. /\ passed[a] <= tries[a] + uncounted[a]
        /\ passed[a] + Cardinality(Passing(a))
              <= RateRedeemPerIPHour + Cardinality(Requests) + uncounted[a]
    BY DEF Gate
  <1>3. /\ req'[r].pc = "find"
        /\ \A q \in Requests : q # r => req'[q] = req[q]
    BY <1>0, GotoMove DEF RecordFails, Steps
  <1>4. /\ tries'[a] = tries[a]
        /\ passed'[a] = IF a = b THEN passed[a] + 1 ELSE passed[a]
        /\ uncounted'[a] = IF a = b THEN uncounted[a] + 1 ELSE uncounted[a]
    BY DEF RecordFails, TypeOK
  <1>5. Passing(a)' \in SUBSET Passing(a)
    BY <1>3 DEF Passing
  <1>6. Cardinality(Passing(a)') <= Cardinality(Passing(a)) /\ Cardinality(Passing(a)') \in Nat
    BY <1>1, <1>5, FS_Subset, FS_CardinalityType
  <1>. QED BY <1>1, <1>2, <1>4, <1>6

\* The gate is preserved by every step.
LEMMA NextGate == IInv /\ Gate /\ [Next]_vars => Gate'
  <1> SUFFICES ASSUME IInv, Gate, [Next]_vars PROVE Gate'
    OBVIOUS
  <1>0. TypeOK /\ Knows /\ req \in [Requests -> RequestType]
    BY DEF IInv, Work, TypeOK
  <1>1. ASSUME NEW r \in Requests, req'[r].pc # "record", UNCHANGED <<tries, passed, uncounted>>,
               \A q \in Requests : q # r => req'[q] = req[q]
        PROVE  Gate'
    <2>1. \A a \in IPs : Passing(a)' \subseteq Passing(a)
      BY <1>1 DEF Passing
    <2>. QED BY <1>0, <1>1, <2>1, QuietGate
  <1>2. ASSUME NEW r \in Requests, Start(r) PROVE Gate'
    <2>1. ASSUME NEW op \in Operators, NEW bind \in Bindings, IssueCode(r, op, bind)
          PROVE  Gate'
      <3>1. /\ req'[r].pc = "issue"
            /\ \A q \in Requests : q # r => req'[q] = req[q]
        BY <1>0, <2>1 DEF IssueCode, Idle
      <3>. QED BY <1>1, <2>1, <3>1 DEF IssueCode
    <2>. QED BY <1>0, <1>2, <2>1, RedeemGate DEF Start
  <1>3. ASSUME NEW r \in Requests, Step(r) PROVE Gate'
    <2>1. CASE RecordPerIPAttempt(r)
      BY <1>0, <2>1, RecordGate
    <2>2. CASE ~RecordPerIPAttempt(r)
      <3>1. /\ req'[r].pc # "record" /\ UNCHANGED <<tries, passed, uncounted>>
            /\ \A q \in Requests : q # r => req'[q] = req[q]
        BY <1>0, <1>3, <2>2, GotoMove, ReplyMove
           DEF Step, InsertCode, FindCode, IncrementAttempt, MintKey, ConsumeCode,
               CreateDeploymentJob, CreateOneShotToken, Respond, Steps
      <3>. QED BY <1>1, <3>1
    <2>. QED BY <2>1, <2>2
  <1>6. ASSUME NEW r \in Requests, RecordFails(r) PROVE Gate'
    BY <1>0, <1>6, RecordFailsGate
  <1>4. ASSUME NEW r \in Requests, Abort(r) PROVE Gate'
    <2>1. /\ req'[r].pc # "record" /\ UNCHANGED <<tries, passed, uncounted>>
          /\ \A q \in Requests : q # r => req'[q] = req[q]
      BY <1>0, <1>4, ReplyMove DEF Abort
    <2>. QED BY <1>1, <2>1
  <1>5. ASSUME (\E c \in Codes : Expire(c)) \/ LockExpiredCodes \/ UNCHANGED vars
        PROVE  Gate'
    <2>1. UNCHANGED <<req, tries, passed, uncounted>>
      BY <1>5 DEF Expire, LockExpiredCodes, vars
    <2>2. \A a \in IPs : Passing(a)' \subseteq Passing(a)
      BY <2>1 DEF Passing
    <2>. QED BY <1>0, <2>1, <2>2, QuietGate
  <1>. QED BY <1>2, <1>3, <1>4, <1>5, <1>6 DEF Next

\* RecordPerIPAttempt counts a snapshot without its own row: an address gets
\* past the hourly limit by as many attempts as requests are in flight, and by
\* one for every statement that failed (the handler goes on without a count).
THEOREM AddressLimited == Spec => []IPGate
  <1>1. Init => Gate
    <2> SUFFICES ASSUME Init, NEW a \in IPs
                 PROVE  /\ passed[a] <= tries[a] + uncounted[a]
                        /\ passed[a] + Cardinality(Passing(a))
                              <= RateRedeemPerIPHour + Cardinality(Requests) + uncounted[a]
      BY DEF Gate
    <2>1. passed[a] = 0 /\ tries[a] = 0 /\ uncounted[a] = 0 /\ RateRedeemPerIPHour \in Nat
      BY RedemptionAssumption DEF Init
    <2>. QED BY <2>1, PassingFinite
  <1>2. IInv /\ Gate => IPGate
    <2> SUFFICES ASSUME IInv, Gate, NEW a \in IPs
                 PROVE  passed[a] <= RateRedeemPerIPHour + Cardinality(Requests) + uncounted[a]
      BY DEF IPGate
    <2>1. passed[a] \in Nat /\ uncounted[a] \in Nat /\ RateRedeemPerIPHour \in Nat
      BY RedemptionAssumption DEF IInv, TypeOK
    <2>. QED BY <2>1, PassingFinite DEF Gate
  <1>. QED BY <1>1, <1>2, NextGate, Inductive, PTL DEF Spec

=============================================================================
