----------------------------- MODULE MCLocalTurns -----------------------------
(* A small instance of LocalTurns for TLC. *)
EXTENDS LocalTurns
===============================================================================
