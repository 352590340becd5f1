---------------------------- MODULE MCForwarder ----------------------------
(***************************************************************************)
(* Instances of Forwarder for TLC: one file that may be spooled twice, and *)
(* up to three destinations.                                               *)
(***************************************************************************)
EXTENDS Forwarder

CONSTANTS f1, d1, d2, d3

OneFile    == {f1}
OneDest    == {d1}
TwoDests   == {d1, d2}
ThreeDests == {d1, d2, d3}
NoDests    == {}
OnlyD1     == {d1}
OnlyD2     == {d2}
OnlyD3     == {d3}
=============================================================================
