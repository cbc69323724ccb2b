-------------------------- MODULE PolicyHandlerMC --------------------------
(* Chunks for the run of PolicyHandler: four waypoints, the least from     *)
(* which a chunk plays, and one sample to a segment.                       *)
EXTENDS PolicyHandler

FourWaypoints == [s \in Streams |-> 4]
OneSample == [s \in Streams |-> 1]
=============================================================================
