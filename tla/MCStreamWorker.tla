--------------------------- MODULE MCStreamWorker ---------------------------
(* A small instance of StreamWorker: one process of each of the two workers *)
(* on the topic, which see each other's retries.                            *)
EXTENDS StreamWorker, TLC

CONSTANTS e1, graph, simulation, c1, c2

OneEvent == {e1}
TwoGroups == {graph, simulation}
TwoProcesses == {c1, c2}
GroupEach == c1 :> graph @@ c2 :> simulation
=============================================================================
