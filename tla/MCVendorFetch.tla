---------------------------- MODULE MCVendorFetch ----------------------------
(***************************************************************************)
(* Two replicas and two rows, for the same catalog entry or for two.       *)
(***************************************************************************)
EXTENDS VendorFetch

CONSTANTS j1, j2, k1, k2, n1, n2

TwoJobs == {j1, j2}
OneEntry == {k1}
TwoEntries == {k1, k2}
OneReplica == {n1}
TwoReplicas == {n1, n2}

=============================================================================
