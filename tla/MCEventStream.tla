---------------------------- MODULE MCEventStream ----------------------------
(***************************************************************************)
(* Two replicas, so that a phone-home and a browser may meet on one or be  *)
(* served by different ones.                                               *)
(***************************************************************************)
EXTENDS EventStream

CONSTANTS e1, e2, e3, n1, n2, s1

TwoEvents == {e1, e2}
ThreeEvents == {e1, e2, e3}
MCReplicas == {n1, n2}
MCClients == {s1}

=============================================================================
