---------------------------- MODULE ControlLawMC ----------------------------
(***************************************************************************)
(* Instances of ControlLaw: both roles, the three types of policy, a law   *)
(* that feels the peer and one that does not, arms of four joints and of   *)
(* seven, standing and on a wall.                                          *)
(***************************************************************************)
EXTENDS ControlLaw

Shipped(role) ==
  [role |-> role, type |-> "base", law |-> "u2", dof |-> 4, model |-> 4,
   vertical |-> FALSE]

SomeConfigs ==
  {Shipped("leader"),
   [Shipped("leader") EXCEPT !.type = "cr", !.law = "u6", !.dof = 7,
                             !.vertical = TRUE],
   [Shipped("leader") EXCEPT !.type = "dg", !.law = "u4"],
   [Shipped("follower") EXCEPT !.type = "dg", !.law = "u5", !.dof = 7],
   [Shipped("follower") EXCEPT !.type = "cr", !.law = "u3", !.vertical = TRUE]}
=============================================================================
