------------------------------- MODULE MCSends -------------------------------
(* The instance of Sends that TLC explores. *)
EXTENDS Sends
=============================================================================
