--------------------------- MODULE MCJobPipeline ---------------------------
(***************************************************************************)
(* JobPipeline on small instances.  Workers and items are interchangeable, *)
(* so the safety runs use both as symmetry sets; the liveness runs do not. *)
(***************************************************************************)
EXTENDS JobPipeline, TLC

Symmetry == Permutations(Worker) \cup Permutations(Item)
=============================================================================
