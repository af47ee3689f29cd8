----------------------------- MODULE MCEdgeCache -----------------------------
(***************************************************************************)
(* A static file of two bytes and two blobs, one of them sent without a    *)
(* length; the cache holds two bytes.                                      *)
(***************************************************************************)
EXTENDS EdgeCache

CONSTANTS wim, iso, drv, r1, r2, r3

MCObjects == {wim, iso, drv}
MCBlobs == {iso, drv}
MCSized == {wim, iso}
MCSize == [o \in MCObjects |-> IF o = wim THEN 2 ELSE 1]
ThreeRequests == {r1, r2, r3}
TwoRequests == {r1, r2}

=============================================================================
