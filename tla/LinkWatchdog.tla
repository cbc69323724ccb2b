---------------------------- MODULE LinkWatchdog ----------------------------
(***************************************************************************)
(* What a teleoperation node promises of its link, with no packet, clock   *)
(* or thread in sight:                                                     *)
(*   - nobody can link a node whose peer was never heard;                  *)
(*   - every control cycle judges the peer alive or lost, and a cycle that *)
(*     judges it lost leaves the node unlinked;                            *)
(*   - a cycle never links a node: only the operator does.                 *)
(* TeleopNode is shown to implement this specification.                    *)
(***************************************************************************)

VARIABLES
  linked,   \* the teleop module is loaded
  alive,    \* what the last control cycle judged of the peer
  heard     \* some packet of the peer has arrived since the node started

wvars == <<linked, alive, heard>>

WInit == linked = FALSE /\ alive = FALSE /\ heard = FALSE

\* A first packet arrives.
Hear == heard' = TRUE /\ UNCHANGED <<linked, alive>>

\* The operator links the node.
Link == heard /\ linked' = TRUE /\ UNCHANGED <<alive, heard>>

\* The operator unlinks the node.
Unlink == linked' = FALSE /\ UNCHANGED <<alive, heard>>

\* A control cycle finds the peer alive; the link stays what it was.
JudgeAlive == heard /\ alive' = TRUE /\ UNCHANGED <<linked, heard>>

\* A control cycle finds the peer lost and drops the link.
JudgeLost == alive' = FALSE /\ linked' = FALSE /\ UNCHANGED heard

WNext == Hear \/ Link \/ Unlink \/ JudgeAlive \/ JudgeLost

WSpec == WInit /\ [][WNext]_wvars
=============================================================================
