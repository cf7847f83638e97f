-------------------------- MODULE MCMapTaskExecutor --------------------------
(* Two map owners share an executor of at most two threads whose queue holds *)
(* a single task, so that the inline fallback, both sleeping and busy        *)
(* workers and a stop in the middle of a group all happen.                   *)
EXTENDS MapTaskExecutor
=============================================================================
