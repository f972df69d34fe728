----------------------------- MODULE MCSchedules -----------------------------
(* The instance of Schedules that TLC explores. *)
EXTENDS Schedules

MCKinds == {"once", "calendar"}
=============================================================================
