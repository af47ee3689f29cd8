---------------------------- MODULE SingleUseCode ----------------------------
(***************************************************************************)
(* What the auth broker promises about a deployment code, whoever redeems  *)
(* it and however many try at once: it is claimed at most once, only while *)
(* it is open, and only the claim can deliver a deployment (a job with its *)
(* boot token).  A claim may fail to deliver; the code is spent anyway.    *)
(***************************************************************************)
CONSTANT Codes

VARIABLE status

Statuses == {"none", "open", "claimed", "delivered", "dead"}

Init == status = [c \in Codes |-> "none"]

Issue(c)   == status[c] = "none"    /\ status' = [status EXCEPT ![c] = "open"]
Claim(c)   == status[c] = "open"    /\ status' = [status EXCEPT ![c] = "claimed"]
Deliver(c) == status[c] = "claimed" /\ status' = [status EXCEPT ![c] = "delivered"]

\* Codes die of age or of failed attempts, several at once when the worker
\* sweeps the table.
Kill ==
    \E S \in SUBSET {c \in Codes : status[c] = "open"} :
        status' = [c \in Codes |-> IF c \in S THEN "dead" ELSE status[c]]

Next == Kill \/ \E c \in Codes : Issue(c) \/ Claim(c) \/ Deliver(c)

Spec == Init /\ [][Next]_status

=============================================================================
