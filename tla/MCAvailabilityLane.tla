-------------------------- MODULE MCAvailabilityLane --------------------------
(* Small instances of AvailabilityLane for TLC. *)
EXTENDS AvailabilityLane
=============================================================================
