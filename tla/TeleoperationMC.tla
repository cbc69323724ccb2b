-------------------------- MODULE TeleoperationMC --------------------------
(* A mirrored joint for the runs of Teleoperation. *)
EXTENDS Teleoperation

MirrorScale == -1
=============================================================================
