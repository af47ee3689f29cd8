---------------------------- MODULE MCRedemption ----------------------------
(***************************************************************************)
(* Two requests for one code, from two addresses; the code is bound to the *)
(* first.                                                                  *)
(***************************************************************************)
EXTENDS Redemption

CONSTANTS c1, a1, a2, op1, r1, r2

OneCode == {c1}
TwoIPs == {a1, a2}
MCOperators == {op1}
OneBinding == {{a1}}
TwoRequests == {r1, r2}

=============================================================================
