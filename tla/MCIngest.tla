------------------------------ MODULE MCIngest ------------------------------
(***************************************************************************)
(* Two captures of one Linux image, one with a named tag and one without;  *)
(* three driver packs: for a device, from a vendor fetch, and for an OS.   *)
(***************************************************************************)
EXTENDS Ingest, TLC

CONSTANTS h1, h2, i1, t1, j1, j2, c1, c2, p1, p2, p3, r1, r2

TwoShas == {h1, h2}
OneFile == {"pack"}
OneImage == {i1}
OneTag == {t1}
TwoCaptures == {j1, j2}
TheTargets == (j1 :> [image |-> i1, tag |-> t1]) @@ (j2 :> [image |-> i1, tag |-> Now])
TwoCalls == {c1, c2}

ThreePacks == {p1, p2, p3}
ThePacks ==
    (p1 :> [family |-> "windows", os |-> "11", rank |-> 3,
            rules |-> {[type |-> "pci-vid-did", value |-> "nic"],
                       [type |-> "dmi-baseboard", value |-> "board"]}])
    @@ (p2 :> [family |-> "windows", os |-> "any", rank |-> 2,
               rules |-> {[type |-> "dmi-product-prefix", value |-> "7440"],
                          [type |-> "dmi-product-prefix", value |-> "20XW"]}])
    @@ (p3 :> [family |-> "windows", os |-> Empty, rank |-> 1,
               rules |-> {[type |-> "os-version", value |-> "11"],
                          [type |-> "dmi-vendor", value |-> "dell"],
                          [type |-> "dmi-product", value |-> "20XW0026US"]}])
TheHardware ==
    {[vendor |-> "dell", product |-> "7440", board |-> Empty, pci |-> {"nic"}],
     [vendor |-> "lenovo", product |-> "20XW0026US", board |-> "board", pci |-> {}]}
NoHardware == [vendor |-> Empty, product |-> Empty, board |-> Empty, pci |-> {}]
TheSystems == {[family |-> "windows", version |-> "11 24H2"], [family |-> "windows", version |-> "10"]}
TheBeginnings == {<<"11", "11 24H2">>, <<"20XW", "20XW0026US">>}
ThePackShas == [p \in ThreePacks |-> h1]
TwoRequests == {r1, r2}

\* Captures and driver packs share the rows of blobs only: a behaviour has
\* a capture and two calls of operators, two captures, or a machine that asks
\* for drivers while an operator adds, fetches or removes a pack.
TheStarts ==
    {[captures |-> {j1}, ops |-> 0, machine |-> FALSE, packs |-> {}],
     [captures |-> {j2}, ops |-> 0, machine |-> FALSE, packs |-> {}],
     [captures |-> TwoCaptures, ops |-> MaxOps, machine |-> FALSE, packs |-> {}],
     [captures |-> {}, ops |-> MaxOps - 1, machine |-> TRUE, packs |-> {p2, p3}],
     [captures |-> {}, ops |-> MaxOps - 1, machine |-> TRUE, packs |-> {p1, p3}]}

MCSymmetry == Permutations(TwoCalls) \cup Permutations(TwoRequests)

=============================================================================
