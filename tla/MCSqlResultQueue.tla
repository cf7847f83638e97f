-------------------------- MODULE MCSqlResultQueue --------------------------
(* Three picks between two turns of the normal lane and portions of two, so    *)
(* that the counter runs over several calls of Update.                         *)
EXTENDS SqlResultQueue
=============================================================================
