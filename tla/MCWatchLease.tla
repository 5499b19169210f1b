---------------------------- MODULE MCWatchLease ----------------------------
(* Small instances of WatchLease.                                          *)
EXTENDS WatchLease

CONSTANTS r1, w1, w2, q1

OneRule == {r1}
TwoWorkers == {w1, w2}
OneRequest == {q1}
OneOlder == {1}
=============================================================================
