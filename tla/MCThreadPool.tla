---------------------------- MODULE MCThreadPool ----------------------------
(* Model values for ThreadPool.  The constants are numbers and strings, so   *)
(* every configuration gives them directly.                                  *)
EXTENDS ThreadPool
=============================================================================
