------------------------------ MODULE MCAccess ------------------------------
(***************************************************************************)
(* Two users, two subjects and two addresses that may change hands, one    *)
(* API token, two requests at a time.                                      *)
(***************************************************************************)
EXTENDS Access, TLC

CONSTANTS u1, u2, s1, s2, e1, e2, t1, r1, r2

TwoUsers == {u1, u2}
TwoSubjects == {s1, s2}
TwoEmails == {e1, e2}
OneToken == {t1}
TwoRequests == {r1, r2}

\* Nothing in the specification tells the members of these sets apart.
MCSymmetry ==
    Permutations(TwoUsers) \cup Permutations(TwoSubjects)
        \cup Permutations(TwoEmails) \cup Permutations(TwoRequests)

=============================================================================
