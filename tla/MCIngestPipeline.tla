-------------------------- MODULE MCIngestPipeline --------------------------
(* A small instance of IngestPipeline.                                     *)
EXTENDS IngestPipeline, TLC

CONSTANTS r1, r2, r3, a, b, d, e

ThreeRuns == {r1, r2, r3}
FourItems == {a, b, d, e}
Third == {r3}
Shared == {a, b}

\* Runs that share items, so that each may find the other's at its end; and a
\* run with items of its own beside two that ask for nothing.
Overlapping == r1 :> <<a>> @@ r2 :> <<b, a>> @@ r3 :> <<b, a>>
Apart == r1 :> <<d, e>> @@ r2 :> <<>> @@ r3 :> <<>>
OverlappingOrApart == {Overlapping, Apart}
=============================================================================
