-------------------------------- MODULE Timeline --------------------------------
(***************************************************************************)
(* What the recommendation versions of strategic sessions promise: each    *)
(* session has a timeline that only grows, one version at a time, numbered *)
(* 1, 2, 3 ... in the order in which the versions can be read.             *)
(***************************************************************************)
EXTENDS Naturals, Sequences

CONSTANT Sessions

VARIABLE timeline

Init == timeline = [s \in Sessions |-> <<>>]

Grow(s) == timeline' = [timeline EXCEPT ![s] = Append(@, Len(@) + 1)]

Next == \E s \in Sessions : Grow(s)

Spec == Init /\ [][Next]_timeline

================================================================================
