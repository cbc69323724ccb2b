--------------------------- MODULE CommandPipeline ---------------------------
(***************************************************************************)
(* The operator's commands on their way from the handle to the gripper and *)
(* to the policies: the leader's handle thread, the leader's and the       *)
(* follower's control cycles with their policy modules, the network        *)
(* between them, and the follower's gripper thread.                        *)
(*                                                                         *)
(* gripper_cmd is written by the operator and by a policy; a policy takes  *)
(* 0.0 to mean that the operator has said nothing.  Each thread's step is  *)
(* one critical section of its node's state mutex.  How a packet is sent   *)
(* and received is UdpHandler's subject, how a policy's actions are queued *)
(* PolicyStream's; here a packet may be lost, delayed or overtaken, and a  *)
(* policy's action is whatever its queue may hold.  A cancel clears the    *)
(* queue, pauses and looks into it again in sections of their own, between *)
(* which the handler's threads may queue what they hold: a pause, the      *)
(* cycle that starts it included, may still play Residue actions.          *)
(*                                                                         *)
(* The policy module receives and sends whether it is loaded or not, so    *)
(* that the console has no part here.                                      *)
(*                                                                         *)
(* The follower decodes its latest packet in every cycle, however old it   *)
(* is: neither command is among the fields receive() resets on a lost link.*)
(*                                                                         *)
(* What Routing has under the same name has this module's before it here,  *)
(* so that one module can reason about both.                               *)
(***************************************************************************)
EXTENDS Integers, FiniteSets

CONSTANTS
  PolicyNodes,  \* the nodes whose on_leader or on_follower is set
  PolicyGrips,  \* gripper commands a policy's actions carry
  Residue,      \* actions a pause may still play: PolicyStream's ResidueBound
  WireCap,      \* bound on the packets in flight
  None          \* an empty queue, an empty optional, no command yet

Nodes == {"leader", "follower"}

ASSUME PipelineAssumption ==
  /\ PolicyNodes \subseteq Nodes
  /\ PolicyGrips \subseteq Int
  /\ Residue \in Nat
  /\ WireCap \in Nat
  /\ None \notin Int

\* What the handle thread can tell the gripper: open, nothing yet, close.
OperatorGrips == {-1, 0, 1}

\* gripper_cmd and cancel_policy, in a state or in a packet.  The third field
\* is history: the handle thread had by then been told to open or close.
Commands == [grip: OperatorGrips \cup PolicyGrips, cancel: BOOLEAN,
             pressed: BOOLEAN]

NoCommand == [grip |-> 0, cancel |-> FALSE, pressed |-> FALSE]

VARIABLES
  hand,            \* the handle thread's target_position and cancel_policy
  lst,             \* the two commands in the leader's TeleopState
  wire,            \* packets between the nodes
  latest_received, \* the follower's latest_received; never cleared
  fst,             \* the two commands in the follower's TeleopState
  gripper,         \* the position last commanded to the gripper
  policy           \* per policy handler: the action to play, whether it pauses,
                   \* and how many actions the pause may still play

pipelinevars == <<hand, lst, wire, latest_received, fst, gripper, policy>>

PipelineInit ==
  /\ hand = [target |-> 0, cancel |-> FALSE]
  /\ lst = NoCommand
  /\ wire = {}
  /\ latest_received = None
  /\ fst = NoCommand
  /\ gripper = None
  /\ policy = [n \in PolicyNodes |->
                 [action |-> None, paused |-> FALSE, left |-> Residue]]

-----------------------------------------------------------------------------
(* HandleModule::loop.                                                     *)

\* The bumper opens and the trigger closes; neither or both keep the target.
Target(pressed, old) ==
  CASE pressed \cap {"bumper", "trigger"} = {"bumper"} -> -1
    [] pressed \cap {"bumper", "trigger"} = {"trigger"} -> 1
    [] OTHER -> old

\* Mutant: an operator who has said nothing leaves gripper_cmd alone.
Mut_WriteOnlyWhenPressed ==
  lst' = [grip |-> IF hand'.target = 0 THEN lst.grip ELSE hand'.target,
          cancel |-> hand'.cancel, pressed |-> hand'.target # 0]

\* Mutant: a cancel, once given, is never taken back.
Mut_StickyCancel ==
  lst' = [grip |-> hand'.target, cancel |-> lst.cancel \/ hand'.cancel,
          pressed |-> hand'.target # 0]

\* Both commands are written in one critical section, in every loop.
WriteHandle ==
  lst' = [grip |-> hand'.target, cancel |-> hand'.cancel,
          pressed |-> hand'.target # 0]

\* The handle answers with the buttons that are pressed.
HandleAnswers ==
  /\ \E pressed \in SUBSET {"bumper", "trigger", "up"} :
       hand' = [target |-> Target(pressed, hand.target),
                cancel |-> "up" \in pressed]
  /\ WriteHandle
  /\ UNCHANGED <<wire, latest_received, fst, gripper, policy>>

\* It does not answer: the thread writes again what it knew.
HandleSilent ==
  /\ hand' = hand
  /\ WriteHandle
  /\ UNCHANGED <<wire, latest_received, fst, gripper, policy>>

-----------------------------------------------------------------------------
(* PolicyModule::receive.                                                  *)

\* What receive() may play on node n with these commands in the state: the
\* action queued, if this node runs a policy; while it cancels or pauses nothing,
\* or what was queued since the queue was cleared.
Played(n, cmd) ==
  IF n \notin PolicyNodes THEN {None}
  ELSE IF cmd.cancel \/ policy[n].paused
  THEN {None} \cup {g \in PolicyGrips : policy[n].left > 0}
  ELSE {policy[n].action}

\* Mutant: the policy overrides the operator.
Mut_PolicyOverrides(cmd, action) ==
  IF action = None THEN cmd ELSE [cmd EXCEPT !.grip = action]

\* The commands as receive() leaves them: the operator keeps priority.
AfterPolicy(cmd, action) ==
  IF action = None \/ cmd.grip # 0 THEN cmd ELSE [cmd EXCEPT !.grip = action]

\* Mutant: cancelling clears the queue without a pause.
Mut_ClearOnly(n, cmd, action) ==
  policy' = [m \in PolicyNodes |->
               IF m = n /\ (cmd.cancel \/ policy[m].paused)
               THEN [policy[m] EXCEPT !.action = None] ELSE policy[m]]

\* What receive() does to the handler: a cancel clears and pauses, and what is
\* found queued during a pause is cleared; what is played nevertheless has been
\* in flight.
HearPolicy(n, cmd, action) ==
  policy' = [m \in PolicyNodes |->
               IF m = n /\ (cmd.cancel \/ policy[m].paused)
               THEN [action |-> None, paused |-> TRUE,
                     left |-> policy[m].left - (IF action = None THEN 0 ELSE 1)]
               ELSE policy[m]]

-----------------------------------------------------------------------------
(* The two control cycles.                                                 *)

\* The leader's cycle tests its own cancel, hears its policy, and sends the
\* commands as the policy left them, if there is room on the wire.
LeaderCycle ==
  /\ \E action \in Played("leader", lst) :
       lst' = AfterPolicy(lst, action) /\ HearPolicy("leader", lst, action)
  /\ wire' = IF Cardinality(wire) < WireCap THEN wire \cup {lst'} ELSE wire
  /\ UNCHANGED <<hand, latest_received, fst, gripper>>

\* Mutant: a gripper command that is in the state already is not overwritten.
Mut_DecodeOnce == IF latest_received = None \/ fst.grip # 0 THEN fst ELSE latest_received

\* The follower's cycle first decodes its latest packet, of whatever age.
Decoded == IF latest_received = None THEN fst ELSE latest_received

FollowerCycle ==
  /\ \E action \in Played("follower", Decoded) :
       /\ fst' = AfterPolicy(Decoded, action)
       /\ HearPolicy("follower", Decoded, action)
  /\ UNCHANGED <<hand, lst, wire, latest_received, gripper>>

\* GripperModule::loop.
GripperLoop ==
  /\ gripper' = fst.grip
  /\ UNCHANGED <<hand, lst, wire, latest_received, fst, policy>>

-----------------------------------------------------------------------------
(* The environment.                                                        *)

Lose(p) ==
  /\ wire' = wire \ {p}
  /\ UNCHANGED <<hand, lst, latest_received, fst, gripper, policy>>

Arrive(p) ==
  /\ wire' = wire \ {p}
  /\ latest_received' = p
  /\ UNCHANGED <<hand, lst, fst, gripper, policy>>

\* A handler that does not pause has another action at the head of its queue.
PolicyActs(n) ==
  /\ ~policy[n].paused
  /\ \E g \in PolicyGrips : policy' = [policy EXCEPT ![n].action = g]
  /\ UNCHANGED <<hand, lst, wire, latest_received, fst, gripper>>

PauseEnds(n) ==
  /\ policy[n].paused
  /\ policy' = [policy EXCEPT ![n].paused = FALSE, ![n].left = Residue]
  /\ UNCHANGED <<hand, lst, wire, latest_received, fst, gripper>>

Environment ==
  \/ \E p \in wire : Lose(p) \/ Arrive(p)
  \/ \E n \in PolicyNodes : PolicyActs(n) \/ PauseEnds(n)

PipelineNext ==
  \/ HandleAnswers \/ HandleSilent \/ LeaderCycle \/ FollowerCycle
  \/ GripperLoop \/ Environment

PipelineSpec == PipelineInit /\ [][PipelineNext]_pipelinevars

\* The loops run every 2 ms, and of the packets sent again and again some
\* arrive.  What the handle thread is sure to do is to write what it knows:
\* nothing makes the operator press, the handle answer or the policy act.
Fairness ==
  /\ WF_pipelinevars(HandleSilent)
  /\ WF_pipelinevars(LeaderCycle) /\ WF_pipelinevars(FollowerCycle)
  /\ WF_pipelinevars(GripperLoop)
  /\ SF_pipelinevars(\E p \in wire : Arrive(p))

FairSpec == PipelineSpec /\ Fairness

-----------------------------------------------------------------------------
(* Properties.                                                             *)

\* The type invariant of the commands, of the policies and of the gripper.
PipelineTypeOK ==
  /\ hand \in [target: OperatorGrips, cancel: BOOLEAN]
  /\ lst \in Commands
  /\ wire \subseteq Commands
  /\ latest_received \in Commands \cup {None}
  /\ fst \in Commands
  /\ gripper \in OperatorGrips \cup PolicyGrips \cup {None}
  /\ policy \in [PolicyNodes ->
                   [action: PolicyGrips \cup {None}, paused: BOOLEAN,
                    left: 0..Residue]]

\* Everywhere a command can be: the two states, the wire, the latest packet.
Everywhere == {lst, fst} \cup wire \cup ({latest_received} \ {None})

\* Policy module: "The operator keeps priority".  Once the operator has opened
\* or closed the gripper, no state and no packet made after that carries a
\* gripper command of a policy, neither the leader's nor the follower's.
OperatorKeepsPriority ==
  \A c \in Everywhere : c.pressed => c.grip \in {-1, 1}

\* A cancel that is held stops what a policy told the gripper, on both nodes and
\* on the wire, though the cycles that start to pause may still play an action
\* and the handle never commands more than it was told.  Every cycle of the
\* cancel renews a pause of a whole chunk, so that none ends meanwhile.
CancelStopsGripper ==
  <>[](hand.cancel) /\ (\A n \in PolicyNodes : <>[](policy[n].paused)) =>
    <>[](gripper \in OperatorGrips)

\* A grip the operator keeps commanding is eventually the gripper's, and stays
\* so, through both policies and a network that loses and reorders.
OperatorGripArrives ==
  \A g \in {-1, 1} : <>[](hand.target = g) => <>[](gripper = g)

\* While the cancel button is held every policy is paused again and again.
CancelArrives ==
  \A n \in PolicyNodes : <>[](hand.cancel) => []<>(policy[n].paused)

\* Once the button is released for good the cancel does not live on in either
\* node, though neither ever resets it.
CancelEnds == <>[](~hand.cancel) => <>[](~lst.cancel /\ ~fst.cancel)
=============================================================================
