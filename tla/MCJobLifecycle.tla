--------------------------- MODULE MCJobLifecycle ---------------------------
(***************************************************************************)
(* Small instances of JobLifecycle: one machine with two profiles, so that *)
(* two jobs can compete for the machine, with the same profile or not.     *)
(***************************************************************************)
EXTENDS JobLifecycle, TLC

CONSTANTS m1, p1, p2, t1, t2, r1, r2

MCMachines == {m1}
OneProfile == {p1}
TwoProfiles == {p1, p2}
MCDefaultProfile == [m \in {m1} |-> p1]
MCTokens == {t1, t2}
OneRequest == {r1}
TwoRequests == {r1, r2}
MCSymmetry == Permutations({t1, t2}) \cup Permutations({r1, r2})

=============================================================================
