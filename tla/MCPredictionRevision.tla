------------------------ MODULE MCPredictionRevision ------------------------
(* Small instances of PredictionRevision: all its constants are numbers,   *)
(* which the configurations give.                                          *)
EXTENDS PredictionRevision
=============================================================================
