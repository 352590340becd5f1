------------------------------ MODULE MCRouter ------------------------------
(***************************************************************************)
(* Instances of Router for TLC: two paths of one source (or of two), two   *)
(* contents, two workers.                                                  *)
(***************************************************************************)
EXTENDS Router, TLC

CONSTANTS s1, s2, f1, f2, h1, h2, w1, w2

OneSource  == {s1}
TwoSources == {s1, s2}
TwoFiles   == {f1, f2}
TwoHashes  == {h1, h2}
TwoWorkers == {w1, w2}
OneWorker  == {w1}

BothOfS1 == [f \in {f1, f2} |-> s1]
OneEach  == [f \in {f1, f2} |-> IF f = f1 THEN s1 ELSE s2]

NoSources == {}
OnlyS2    == {s2}

WorkerSymmetry == Permutations(Workers)
=============================================================================
