----------------------------- MODULE MCTuneQueue -----------------------------
(* Two API processes, one supervisor, one job of each kind (posted in either *)
(* order); each side dies once.                                              *)
EXTENDS TuneQueue

CONSTANTS j1, j2

MCKindOf == [j \in Jobs |-> IF j = j1 THEN "train_smoke" ELSE "infer_live"]
==============================================================================
