----------------------------- MODULE MCStartup -----------------------------
(***************************************************************************)
(* Two replicas that serve and a seed-admin run by hand; two migrations,   *)
(* the first of which can be repeated.                                     *)
(***************************************************************************)
EXTENDS Startup, TLC

CONSTANTS p1, p2, p3

ThreeProcs == {p1, p2, p3}
TheCommands == (p1 :> "serve") @@ (p2 :> "serve") @@ (p3 :> "seed-admin")
TheRepeatable == {1}

=============================================================================
