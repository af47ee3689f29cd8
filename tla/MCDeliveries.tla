---------------------------- MODULE MCDeliveries ----------------------------
(***************************************************************************)
(* Two agents on one site and a site nobody polls, claims of one request   *)
(* and of one job at a time, so that a LIMIT is always reached; a bulk     *)
(* list that repeats an id and one that spells it in two ways.             *)
(***************************************************************************)
EXTENDS Deliveries

CONSTANTS m1, m2, w1, w2, a1, a2, j1, j2, k1, k2, lower1, upper1, lower2

TwoMachines == {m1, m2}
TheNoMAC == {m2}
TwoWakes == {w1, w2}
TwoSites == {"hq", "unserved"}
TwoAgents == {a1, a2}
TheSites == [a \in TwoAgents |-> "hq"]
TwoJobs == {j1, j2}
TwoWorkers == {k1, k2}
\* Wakes and bulk calls share no row with the webhooks: a behaviour has the
\* one or the other.
TheStarts == {[machines |-> TwoMachines, running |-> {}], [machines |-> {}, running |-> TwoJobs]}
TheSpellings == {lower1, upper1, lower2}
TheParse == [id \in TheSpellings |-> IF id = lower2 THEN m2 ELSE m1]
TheLists == {<<lower1, lower1>>, <<lower1, lower2, lower1>>, <<lower1, upper1>>}

=============================================================================
