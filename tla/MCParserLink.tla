---------------------------- MODULE MCParserLink ----------------------------
(***************************************************************************)
(* Instances of ParserLink for TLC: two workers that share one client.     *)
(***************************************************************************)
EXTENDS ParserLink

CONSTANTS w1, w2, m1, m2, c1, c2, c3

TwoWorkers  == {w1, w2}
TwoMessages == {m1, m2}
TwoConns    == {c1, c2}
ThreeConns  == {c1, c2, c3}
=============================================================================
