-------------------------- MODULE MCSqlTransaction --------------------------
(* Up to three statements, three attempts and two lost connections; the       *)
(* constants are given by the configurations.                                 *)
EXTENDS SqlTransaction
=============================================================================
