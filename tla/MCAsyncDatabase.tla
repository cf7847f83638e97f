--------------------------- MODULE MCAsyncDatabase ---------------------------
(* Serial ids 0 and 1 with two workers: unkeyed work belongs to worker 0 and  *)
(* the keyed chain to worker 1.  All constants are given by the configuration. *)
EXTENDS AsyncDatabase
=============================================================================
