----------------------------- MODULE MCTaskStore -----------------------------
(* Model-checking instance of TaskStore.  Tasks and workers are            *)
(* interchangeable: no action prefers one of them.                         *)
EXTENDS TaskStore, TLC

Symmetry == Permutations(Task) \cup Permutations(Worker)
=============================================================================
