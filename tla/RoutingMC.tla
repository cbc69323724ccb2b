----------------------------- MODULE RoutingMC -----------------------------
(* Routings for TLC. *)
EXTENDS Routing

\* As shipped, without the fields that behave like others.
Shipped ==
  [leader   |-> <<"leader_jp", "leader_jv", "gripper_cmd", "timestamp">>,
   follower |-> <<"follower_jp", "follower_jv", "timestamp">>]

\* The shipped lists agree, as the theorems about the peer's position ask.
ASSUME ShippedAgrees == Agreed
=============================================================================
