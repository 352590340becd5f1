-------------------------- MODULE MCParserPipeline --------------------------
(***************************************************************************)
(* Instances of ParserPipeline for TLC: a vessel that reports twice, the   *)
(* second time from too far away, and a two-part message of it and of      *)
(* another vessel.                                                         *)
(***************************************************************************)
EXTENDS ParserPipeline

CONSTANTS t1, t2, v1, v2, near, far, own, other, o1, o2, o3

TwoThreads    == {t1, t2}
FourMessages  == {near, far, own, other}
TwoMessages   == {own, other}
ThreeObjects  == {o1, o2, o3}
TwoVessels    == {v1, v2}
Owner         == [m \in Messages |-> IF m = other THEN v2 ELSE v1]
OneJump       == {<<near, far>>}
OneKnown      == {v2}

Line(m, s) == [msg |-> m, part |-> s]

\* A jump whose second report the router repeats, and a message without a
\* position whose merge may bring the state of before the first report back.
JumpFeed == [l \in Lines |-> CASE l = Line(far, 1) -> 2 [] l \in {Line(near, 1), Line(own, 1)} -> 1 [] OTHER -> 0]
\* A message in two parts, and the first part of another.
PartsFeed == [l \in Lines |-> IF l.msg = own \/ l = Line(other, 1) THEN 1 ELSE 0]
\* A report without a name and a message with one, of the same vessel.
HistoryFeed == [l \in Lines |-> IF l.msg \in {near, own} THEN 1 ELSE 0]
ThreeFeeds == {JumpFeed, PartsFeed, HistoryFeed}
=============================================================================
