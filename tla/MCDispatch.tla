----------------------------- MODULE MCDispatch ------------------------------
(* Model-checking instance of Dispatch.  Tasks, workers and sessions are   *)
(* interchangeable; Symmetry is used only by runs without liveness.        *)
EXTENDS Dispatch, TLC

Symmetry ==
    Permutations(Task) \cup Permutations(Worker) \cup Permutations(Session)
=============================================================================
