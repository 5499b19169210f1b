---------------------------- MODULE MCReviewQueue ----------------------------
(* Small instances of ReviewQueue.                                         *)
EXTENDS ReviewQueue

CONSTANTS i1, w1, w2

OneItem == {i1}
TwoWorkers == {w1, w2}

\* Workers are interchangeable.
Symmetry == Permutations(Workers)
==============================================================================
