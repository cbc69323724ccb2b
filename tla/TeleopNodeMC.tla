---------------------------- MODULE TeleopNodeMC ----------------------------
(* Small instances of TeleopNode for TLC.                                  *)
EXTENDS TeleopNode

\* Two joint positions: the sync position, and one that is far from it.
TwoPos == {0, 1}

\* A mirrored joint, offset so that the peer's range maps onto ours.
MirrorScale == -1
MirrorOffset == 1
=============================================================================
