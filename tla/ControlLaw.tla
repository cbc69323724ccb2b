----------------------------- MODULE ControlLaw -----------------------------
(***************************************************************************)
(* What a node's arm is told to do: one control cycle from the peer's      *)
(* torque and the policy's action, through the systems the node is wired   *)
(* to, to the sum of the loaded modules' torques.                          *)
(*                                                                         *)
(* A torque is the set of things it is made of, joint by joint: a sum is a *)
(* union, and what one term takes away from another is gone.  Joints 1-4   *)
(* behave alike ("inner"), and so do 5-7 ("outer"), which are the arm's    *)
(* own if it has seven and a wrist's if it has four.  A scale counts the   *)
(* steps of maxDelta from 0 to Full.  No controller integrates, every one  *)
(* has a derivative gain, and the gains of the torque controller are 0 for *)
(* the outer joints, as shipped.  "own" is our external torque through its *)
(* filter: a measurement, whatever caused it.                              *)
(***************************************************************************)
EXTENDS Integers

CONSTANTS
  Configs,   \* the configurations a node may be started with
  Full,      \* steps of the scale
  Period     \* logging.every_n_loops

ASSUME LawAssumption ==
  /\ Configs \subseteq [role: {"leader", "follower"}, type: {"base", "cr", "dg"},
                        law: STRING, dof: {4, 7}, model: Nat, vertical: BOOLEAN]
  /\ Full \in Nat \ {0} /\ Period \in Int

Joints == {"inner", "outer"}

\* What torques are made of: motion, the gravity of an arm that stands and of
\* one on a wall, the peer's external torque, our own, the push on the arm it
\* stands for, and what the policy makes of its base position, its residual
\* and its reference torque.
Gravities == {"standing", "on wall"}
Sources == {"motion", "peer", "own", "push", "base", "res", "act"} \cup Gravities
OfPolicy == {"base", "res", "act"}

MadeOf(S) == [Joints -> SUBSET S]
Torques == MadeOf(Sources)
Scales == [Joints -> 0..Full]
NoTorque == [j \in Joints |-> {}]
Everywhere(s) == [j \in Joints |-> s]
NoScale == [j \in Joints |-> 0]

VARIABLES
  config,   \* what the node was started with; it never changes
  loaded,   \* modules that are loaded
  at,       \* where operate() is
  alive,    \* the peer was accepted in this cycle
  data,     \* the policy had an action in this cycle
  theirs,   \* the peer's external torque, as in TeleopData
  wants,    \* policyJp is the policy's, not our own position
  residual, \* resPolicyJp
  refTorque,\* refPolicyTorque
  scale,    \* policyTorqueScale, as in TeleopData
  cur,      \* currPolicyTorqueScale of PolicyTorque
  error,    \* error_1 of the three policy controllers: of their last run
  jt,       \* what the three policy controllers put out
  ext,      \* our own external torque
  modelled, \* joints the dynamics model read
  control,  \* control_torque: the sum
  applied,  \* history: the scale in that sum
  before,   \* history: alive and data in the cycle before this one
  loops     \* LoggingModule's counter_, modulo its period

heardvars == <<alive, theirs>>
playvars == <<data, wants, residual, refTorque>>
systems == <<cur, error, jt, ext, modelled>>
sumvars == <<control, applied>>
vars == <<config, loaded, at, heardvars, playvars, scale, systems, sumvars, before,
          loops>>

Role == config.role          \* "leader" or "follower"
Type == config.type          \* policy.type
Law == config.law            \* dynamics.law: "u1" to "u6", the rest is no torque
Dof == config.dof            \* joints of the arm: 4 or 7
ModelDof == config.model     \* dynamics.dof
Vertical == config.vertical  \* leader.vertical, follower.vertical: on a wall

Init ==
  /\ config \in Configs
  /\ loaded \in SUBSET {"policy", "dynamics", "logging"}
  /\ at = "begin"
  /\ alive = FALSE /\ theirs = NoTorque
  /\ data = FALSE /\ wants = FALSE
  /\ residual = NoTorque /\ refTorque = NoTorque
  /\ scale = NoScale /\ cur = NoScale
  /\ error = [base |-> NoTorque, res |-> NoTorque, track |-> NoTorque]
  /\ jt = error
  /\ ext = NoTorque /\ modelled = 0
  /\ control = NoTorque /\ applied = NoScale
  /\ before = [alive |-> FALSE, data |-> FALSE]
  /\ loops = 0

Step(a, b) == at = a /\ at' = b

-----------------------------------------------------------------------------
(* The teleop module's receive().                                          *)

\* The follower decodes the leader's scale with everything else, whether the
\* packet is then accepted or not; the leader hears of no scale.
DecodeScale ==
  IF Role = "follower"
  THEN \/ UNCHANGED scale
       \/ \E s \in 0..Full : scale' = [inner |-> s, outer |-> Full]
  ELSE UNCHANGED scale

\* What was heard and played in the last cycle.
Remember == before' = [alive |-> alive, data |-> data]

HearPeer ==
  /\ Step("begin", "heard")
  /\ Remember
  /\ alive' = TRUE
  /\ theirs' = Everywhere({"peer"})
  /\ DecodeScale
  /\ UNCHANGED <<loaded, playvars, systems, sumvars, loops>>

\* Mutant: the peer's torques are not among the defaults.
Mut_LosePeer ==
  /\ Step("begin", "heard")
  /\ Remember
  /\ alive' = FALSE
  /\ DecodeScale
  /\ UNCHANGED <<loaded, theirs, playvars, systems, sumvars, loops>>

\* No packet, or none that is fresh: the peer exerts nothing.
LosePeer ==
  /\ Step("begin", "heard")
  /\ Remember
  /\ alive' = FALSE
  /\ theirs' = NoTorque
  /\ DecodeScale
  /\ UNCHANGED <<loaded, playvars, systems, sumvars, loops>>

-----------------------------------------------------------------------------
(* The policy module's receive(), loaded or not.                           *)

\* clipToRange() around what is felt.  The outer joints have no range, so that
\* the value is its centre.
Clipped(value, felt) ==
  [inner |-> value \cup felt.inner, outer |-> felt.outer]

\* filtered_human_torque, which the leader measures and the follower hears, and
\* what the other arm feels.
HumanTorque == IF Role = "leader" THEN ext ELSE theirs
EnvironmentTorque == IF Role = "leader" THEN theirs ELSE ext

\* Mutant: a reference torque outlives the action it came with.
Mut_PlayNothing ==
  /\ Step("heard", "played")
  /\ data' = FALSE /\ wants' = FALSE
  /\ residual' = NoTorque
  /\ scale' = NoScale
  /\ UNCHANGED <<loaded, heardvars, refTorque, systems, sumvars, before, loops>>

\* No action: stay here, and push nothing.
PlayNothing ==
  /\ Step("heard", "played")
  /\ data' = FALSE /\ wants' = FALSE
  /\ residual' = NoTorque
  /\ refTorque' = NoTorque
  /\ scale' = NoScale
  /\ UNCHANGED <<loaded, heardvars, systems, sumvars, before, loops>>

\* An action: a position, and by type a residual and a reference torque, which
\* type "cr" clips around the environment's torque and "dg" around the human's.
PlayAction ==
  /\ Step("heard", "played")
  /\ data' = TRUE /\ wants' = TRUE
  /\ residual' = IF Type = "cr" THEN Everywhere({"res"}) ELSE residual
  /\ refTorque' =
       IF Type = "base" THEN refTorque
       ELSE Clipped({"act"}, IF Type = "dg" THEN HumanTorque
                             ELSE EnvironmentTorque)
  /\ UNCHANGED <<loaded, heardvars, scale, systems, sumvars, before, loops>>

-----------------------------------------------------------------------------
(* The systems, which the node's outputs of this cycle drive and its       *)
(* inputs of this cycle read.                                              *)

\* What the three PID controllers are to correct: their references less their
\* feedbacks.
Errors ==
  LET felt == IF Role = "leader" THEN theirs ELSE Everywhere({"own"})
  IN [base  |-> IF wants THEN Everywhere({"base"}) ELSE NoTorque,
      res   |-> residual,
      track |-> [inner |-> refTorque.inner \cup felt.inner, outer |-> {}]]

\* They answer to the error of now and, for its derivative, to the one before.
Controllers ==
  LET answer(now, last) == [j \in Joints |-> now[j] \cup last[j]]
  IN [base  |-> answer(Errors.base, error.base),
      res   |-> answer(Errors.res, error.res),
      track |-> answer(Errors.track, error.track)]

\* DynamicExternalTorque and PolicyTorque: what was commanded last balances the
\* push on the arm, and the base policy's torque is taken away from it.
ExtTorque(base) ==
  LET given(j) == control[j] \cap {"base"}
      taken(j) == IF cur[j] > 0 THEN base[j] ELSE {}
  IN [j \in Joints |->
        {"push"} \cup (given(j) \ taken(j)) \cup (taken(j) \ given(j))]

\* The scale moves one step towards what the push on the arm asks for.
NextScale(target) ==
  [inner |-> IF target > cur.inner THEN cur.inner + 1
             ELSE IF target < cur.inner THEN cur.inner - 1
             ELSE cur.inner,
   outer |-> Full]

\* Mutant: a scale is of interest next to an action only.
Mut_TakeScale ==
  IF Role = "leader" /\ data THEN scale' = cur' ELSE UNCHANGED scale

\* The leader takes the scale from its PolicyTorque; the follower's goes
\* nowhere.
TakeScale == IF Role = "leader" THEN scale' = cur' ELSE UNCHANGED scale

\* LeaderDynamics and FollowerDynamics: as many joints as the model is
\* configured for; the regressor and beta for 7 are used for 7, those for 4
\* for everything else.
LeaderDynamics == Role = "leader" /\ modelled' = ModelDof
FollowerDynamics == Role = "follower" /\ modelled' = ModelDof
RunModel == LeaderDynamics \/ FollowerDynamics

RunSystems ==
  /\ Step("played", "run")
  /\ jt' = Controllers
  /\ error' = Errors
  /\ ext' = ExtTorque(Controllers.base)
  /\ \E target \in 0..Full : cur' = NextScale(target)
  /\ TakeScale
  /\ RunModel
  /\ UNCHANGED <<loaded, heardvars, playvars, sumvars, before, loops>>

-----------------------------------------------------------------------------
(* The torques of the modules, and the log.                                *)

\* Mutant: the model's gravity is corrected for an arm that stands.
Mut_WamDyn == {"motion", "standing"}

\* wam_dyn: the model was identified on an arm that stands.  On a wall, its
\* torque at rest is taken off and libbarrett's gravity is put on.
WamDyn ==
  LET model == {"motion", "standing"}
      rest  == {"standing"}
  IN IF Vertical THEN (model \ rest) \cup {"on wall"} ELSE model

\* wam_grav, which libbarrett commands by itself.
WamGrav == IF Vertical THEN {"on wall"} ELSE {"standing"}

FeedForward == WamDyn \ WamGrav

\* DynamicsModule::torque().
DynamicsTorque ==
  [inner |-> CASE Law = "u2" -> FeedForward
               [] Law = "u3" -> theirs.inner
               [] Law = "u4" -> theirs.inner \cup FeedForward
               [] Law = "u5" -> theirs.inner \cup {"own"}
               [] Law = "u6" -> theirs.inner \cup {"own"} \cup FeedForward
               [] OTHER      -> {},
   outer |-> {}]

\* PolicyModule::torque(): the reference torque is fed forward by type "dg"
\* and tracked by type "cr".
PolicyTorqueOf(j) ==
  (IF scale[j] > 0 THEN jt.base[j] ELSE {})
    \cup (IF Type = "dg" THEN refTorque[j]
          ELSE IF Type = "cr" THEN jt.res[j] \cup jt.track[j]
          ELSE {})

\* ModuleManager::sumTorque(), of which the arm gets what it has joints for.
SumTorque ==
  [j \in Joints |->
     IF j = "outer" /\ Dof = 4 THEN {}
     ELSE (IF "policy" \in loaded THEN PolicyTorqueOf(j) ELSE {})
            \cup (IF "dynamics" \in loaded THEN DynamicsTorque[j] ELSE {})]

ComputeControl ==
  /\ Step("run", "log")
  /\ control' = SumTorque
  /\ applied' = scale
  /\ UNCHANGED <<loaded, heardvars, playvars, scale, systems, before, loops>>

\* LoggingModule::update(): only while loaded does it count.
Log ==
  /\ Step("log", "begin")
  /\ loops' = IF "logging" \in loaded
              THEN (loops + 1) % (IF Period > 0 THEN Period ELSE 1)
              ELSE loops
  /\ UNCHANGED <<loaded, heardvars, playvars, scale, systems, sumvars, before>>

\* The console toggles a module at any moment.
Toggle(m) ==
  /\ loaded' = IF m \in loaded THEN loaded \ {m} ELSE loaded \cup {m}
  /\ UNCHANGED <<at, heardvars, playvars, scale, systems, sumvars, before, loops>>

Next ==
  /\ UNCHANGED config
  /\ \/ HearPeer \/ LosePeer \/ PlayNothing \/ PlayAction
     \/ RunSystems \/ ComputeControl \/ Log
     \/ \E m \in {"policy", "dynamics", "logging"} : Toggle(m)

Spec == Init /\ [][Next]_vars

-----------------------------------------------------------------------------
(* Properties.                                                             *)

\* The type invariant of the control law.
TypeOK ==
  /\ config \in Configs
  /\ loaded \subseteq {"policy", "dynamics", "logging"}
  /\ at \in {"begin", "heard", "played", "run", "log"}
  /\ alive \in BOOLEAN /\ data \in BOOLEAN /\ wants \in BOOLEAN
  /\ theirs \in Torques /\ residual \in Torques /\ refTorque \in Torques
  /\ scale \in Scales /\ cur \in Scales /\ applied \in Scales
  /\ error \in [base: Torques, res: Torques, track: Torques]
  /\ jt \in [base: Torques, res: Torques, track: Torques]
  /\ ext \in Torques
  /\ modelled \in Nat
  /\ control \in Torques
  /\ before \in [alive: BOOLEAN, data: BOOLEAN]
  /\ loops \in 0..(IF Period > 0 THEN Period - 1 ELSE 0)

\* What may remain of an action in the first cycle without one, as the
\* derivative of its error: for type "cr" all of it; else the base position, if
\* the node takes a scale again, as the leader does.
Damped == IF Type = "cr" THEN OfPolicy
          ELSE IF Role = "leader" THEN {"base"} ELSE {}

\* A policy without an action, whatever it did before, moves no joint; only the
\* first cycle without one still damps what the last one did.
SilentPolicyIsForgotten ==
  at = "log" /\ ~data =>
    \A j \in Joints :
      control[j] \cap OfPolicy \subseteq IF before.data THEN Damped ELSE {}

\* A peer that is lost is not felt, by the dynamics law or by the controllers;
\* only the leader's controller that tracks a "cr" policy's torque still damps
\* the peer's, in the inner joints and in the cycle that loses it.
LostPeerIsForgotten ==
  at = "log" /\ ~alive =>
    \A j \in Joints :
      "peer" \in control[j] =>
        before.alive /\ Role = "leader" /\ Type = "cr" /\ j = "inner"

\* Gravity is compensated by libbarrett: whichever way the arm is mounted, no
\* module's torque has any of it.
NoStrayGravity == \A j \in Joints : control[j] \cap Gravities = {}

\* policy_torque.h, "rate limit the scale": what the leader multiplies the base
\* policy's torque by moves by at most one step per cycle, also through cycles
\* without an action, in which the policy module has set it to 0.
ScaleIsRateLimited ==
  [][Role = "leader" => applied'.inner - applied.inner \in -1..1]_vars
=============================================================================
