----------------------------- MODULE NodeLifeMC -----------------------------
(***************************************************************************)
(* Instances of NodeLife: leaders with a wrist and without, followers, and *)
(* arms on a wall on either side or on both.                               *)
(***************************************************************************)
EXTENDS NodeLife

SomeConfigs ==
  {[role |-> "leader", wrist |-> TRUE, leaderVertical |-> TRUE,
    followerVertical |-> FALSE, autoLoad |-> {"logging"}],
   [role |-> "leader", wrist |-> FALSE, leaderVertical |-> FALSE,
    followerVertical |-> FALSE, autoLoad |-> {}],
   [role |-> "follower", wrist |-> FALSE, leaderVertical |-> TRUE,
    followerVertical |-> TRUE, autoLoad |-> {"dynamics"}],
   [role |-> "follower", wrist |-> FALSE, leaderVertical |-> FALSE,
    followerVertical |-> TRUE, autoLoad |-> {}]}
=============================================================================
