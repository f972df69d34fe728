---------------------------- MODULE MCDaemonUpdate ----------------------------
(* The instance of DaemonUpdate that TLC explores: the third release is of another  *)
(* protocol, and the others start or do not.                                        *)
EXTENDS DaemonUpdate

MCHeld == {3}
=============================================================================
