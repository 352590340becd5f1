------------------------- MODULE MCReferenceUpdate -------------------------
(***************************************************************************)
(* Instances of ReferenceUpdate for TLC: two requests at a time, one of    *)
(* which may be a status, two processes, three imports.                    *)
(***************************************************************************)
EXTENDS ReferenceUpdate

CONSTANTS h1, h2, p1, p2, g0, g1, g2, g3, n1, n2

TwoThreads == {h1, h2}
OneViewer  == {h1}
TwoPids    == {p1, p2}
FourBuilds == {g0, g1, g2, g3}
TwoNames   == {n1, n2}
=============================================================================
