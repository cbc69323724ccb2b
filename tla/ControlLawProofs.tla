-------------------------- MODULE ControlLawProofs --------------------------
(***************************************************************************)
(* Proofs about ControlLaw, for both roles, every type of policy and law,  *)
(* every arm and model, mounted either way.                                *)
(*                                                                         *)
(* What a torque may be made of is known at every place that holds one     *)
(* (Provenance), the controllers' memory of their last error included.     *)
(* Two things must then be followed through a cycle and into the next one: *)
(* that there is no action (Idle), and that there is no peer (Lost).       *)
(***************************************************************************)
EXTENDS ControlLaw, TLAPS

Provenance ==
  /\ theirs \in MadeOf({"peer"})
  /\ ext \in MadeOf({"push", "base"})
  /\ residual \in MadeOf({"res"})
  /\ refTorque \in MadeOf({"act", "peer", "push", "base"})
  /\ error.base \in MadeOf({"base"}) /\ jt.base \in MadeOf({"base"})
  /\ error.res \in MadeOf({"res"}) /\ jt.res \in MadeOf({"res"})
  /\ error.track \in MadeOf({"act", "peer", "push", "base", "own"})
  /\ jt.track \in MadeOf({"act", "peer", "push", "base", "own"})
  /\ error.track.outer = {} /\ jt.track.outer = {}
  /\ control \in MadeOf(Sources \ Gravities)
  /\ Type = "base" => refTorque = NoTorque
  /\ Role = "follower" /\ Type = "cr" =>
       \A j \in Joints : /\ "peer" \notin refTorque[j]
                         /\ "peer" \notin error.track[j]
                         /\ "peer" \notin jt.track[j]

\* No controller's error, or no controller's torque, is a policy's.
OfNoPolicy(c) ==
  /\ c.base = NoTorque /\ c.res = NoTorque
  /\ \A j \in Joints : c.track[j] \cap OfPolicy = {}

\* Nor is it the peer's.
OfNoPeer(c) == \A j \in Joints : "peer" \notin c.track[j]

\* Without an action nothing of a policy is on its way to the sum, except what
\* the controllers remember of the cycle before.  The push on the arm may still
\* hold a base policy's torque: it was commanded before.
Idle ==
  /\ ~data =>
       /\ at \in {"played", "run"} =>
            /\ ~wants /\ residual = NoTorque /\ refTorque = NoTorque
            /\ Role # "leader" => scale = NoScale
       /\ at \in {"run", "log", "begin"} => OfNoPolicy(error)
  /\ ~before.data =>
       /\ at \in {"heard", "played"} => OfNoPolicy(error)
       /\ ~data /\ at = "run" => OfNoPolicy(jt)

\* Without the peer nothing of its torque is.
Lost ==
  /\ ~alive =>
       /\ at # "begin" => theirs = NoTorque
       /\ at \in {"played", "run"} =>
            \A j \in Joints : "peer" \notin refTorque[j]
       /\ at \in {"run", "log", "begin"} => OfNoPeer(error)
  /\ ~before.alive =>
       /\ at \in {"heard", "played"} => OfNoPeer(error)
       /\ ~alive /\ at = "run" => OfNoPeer(jt)

IInv ==
  /\ TypeOK /\ Provenance /\ Idle /\ Lost
  /\ SilentPolicyIsForgotten /\ LostPeerIsForgotten

-----------------------------------------------------------------------------
\* What torques and scales are, stated once.
LEMMA NoTorqueMadeOf == \A S : NoTorque \in MadeOf(S)
  BY DEF NoTorque, MadeOf

LEMMA EverywhereMadeOf == \A S : \A s \in SUBSET S : Everywhere(s) \in MadeOf(S)
  BY DEF Everywhere, MadeOf

LEMMA MadeOfMore ==
  ASSUME NEW S, NEW T, S \subseteq T, NEW torque \in MadeOf(S)
  PROVE  torque \in MadeOf(T)
  BY DEF MadeOf

LEMMA OutOfSources ==
  ASSUME NEW S \in SUBSET {"peer", "own", "push", "base", "res", "act"},
         NEW torque \in MadeOf(S)
  PROVE  torque \in Torques
<1>1. S \subseteq Sources
  BY DEF Sources
<1> QED
  BY <1>1, MadeOfMore DEF Torques

LEMMA NoTorqueAt == \A j \in Joints : NoTorque[j] = {}
  BY DEF NoTorque

LEMMA ScalesType ==
  /\ NoScale \in Scales
  /\ \A s \in 0..Full : [inner |-> s, outer |-> Full] \in Scales
<1>1. Full \in Nat
  BY LawAssumption
<1>2. 0 \in 0..Full /\ Full \in 0..Full
  BY <1>1
<1> QED
  BY <1>2 DEF NoScale, Scales, Joints

LEMMA ConfigType ==
  ASSUME config \in Configs
  PROVE  /\ Role \in {"leader", "follower"}
         /\ Type \in {"base", "cr", "dg"}
         /\ ModelDof \in Nat
  BY LawAssumption DEF Role, Type, ModelDof

-----------------------------------------------------------------------------
LEMMA InitInv == Init => IInv
<1> SUFFICES ASSUME Init PROVE IInv
  OBVIOUS
<1>1. loops \in 0..(IF Period > 0 THEN Period - 1 ELSE 0)
  BY LawAssumption DEF Init
<1>2. TypeOK
  BY <1>1, NoTorqueMadeOf, ScalesType DEF Init, TypeOK, Torques
<1>3. Provenance
  BY NoTorqueMadeOf, NoTorqueAt DEF Init, Provenance, Joints
<1>4. Idle /\ Lost /\ SilentPolicyIsForgotten /\ LostPeerIsForgotten
  BY NoTorqueAt DEF Init, Idle, Lost, OfNoPolicy, OfNoPeer,
                    SilentPolicyIsForgotten, LostPeerIsForgotten
<1> QED
  BY <1>2, <1>3, <1>4 DEF IInv

LEMMA HearPeerInv ==
  ASSUME IInv, HearPeer, UNCHANGED config
  PROVE  IInv'
<1> USE DEF IInv, HearPeer, Step, Remember, playvars, systems, sumvars, Role, Type
<1>1. scale' \in Scales
  BY ScalesType DEF TypeOK, DecodeScale
<1>2. theirs' \in MadeOf({"peer"}) /\ theirs' \in Torques
  BY EverywhereMadeOf, OutOfSources
<1>3. TypeOK'
  BY <1>1, <1>2 DEF TypeOK
<1>4. Provenance'
  BY <1>2 DEF Provenance
<1>5. Idle' /\ SilentPolicyIsForgotten'
  BY DEF Idle, OfNoPolicy, SilentPolicyIsForgotten
<1>6. Lost' /\ LostPeerIsForgotten'
  BY DEF Lost, OfNoPeer, LostPeerIsForgotten
<1> QED
  BY <1>3, <1>4, <1>5, <1>6

LEMMA LosePeerInv ==
  ASSUME IInv, LosePeer, UNCHANGED config
  PROVE  IInv'
<1> USE DEF IInv, LosePeer, Step, Remember, playvars, systems, sumvars, Role, Type
<1>1. scale' \in Scales
  BY ScalesType DEF TypeOK, DecodeScale
<1>2. theirs' \in MadeOf({"peer"}) /\ theirs' \in Torques
  BY NoTorqueMadeOf DEF Torques
<1>3. TypeOK'
  BY <1>1, <1>2 DEF TypeOK
<1>4. Provenance'
  BY <1>2 DEF Provenance
<1>5. Idle' /\ SilentPolicyIsForgotten'
  BY DEF Idle, OfNoPolicy, SilentPolicyIsForgotten
<1>6. Lost' /\ LostPeerIsForgotten'
  BY DEF Lost, OfNoPeer, LostPeerIsForgotten
<1> QED
  BY <1>3, <1>4, <1>5, <1>6

LEMMA PlayNothingInv ==
  ASSUME IInv, PlayNothing, UNCHANGED config
  PROVE  IInv'
<1> USE DEF IInv, PlayNothing, Step, heardvars, systems, sumvars, Role, Type
<1>1. TypeOK'
  BY NoTorqueMadeOf, ScalesType DEF TypeOK, Torques
<1>2. Provenance'
  BY NoTorqueMadeOf, NoTorqueAt DEF Provenance
<1>3. Idle' /\ SilentPolicyIsForgotten'
  BY DEF Idle, OfNoPolicy, SilentPolicyIsForgotten
<1>4. Lost' /\ LostPeerIsForgotten'
  BY NoTorqueAt DEF Lost, OfNoPeer, LostPeerIsForgotten
<1> QED
  BY <1>1, <1>2, <1>3, <1>4

\* A reference torque is made of the action and of what is felt.
LEMMA ClippedOf ==
  ASSUME NEW S, NEW felt \in MadeOf(S)
  PROVE  /\ Clipped({"act"}, felt) \in MadeOf(S \cup {"act"})
         /\ \A j \in Joints : Clipped({"act"}, felt)[j] \subseteq felt[j] \cup {"act"}
  BY DEF MadeOf, Clipped, Joints

LEMMA PlayActionInv ==
  ASSUME IInv, PlayAction, UNCHANGED config
  PROVE  IInv'
<1> USE DEF IInv, PlayAction, Step, heardvars, systems, sumvars
<1> DEFINE felt == IF Type = "dg" THEN HumanTorque ELSE EnvironmentTorque
<1>1. felt = theirs \/ felt = ext
  BY DEF HumanTorque, EnvironmentTorque
<1>2. felt \in MadeOf({"peer", "push", "base"})
  <2>1. theirs \in MadeOf({"peer", "push", "base"})
    BY MadeOfMore DEF Provenance
  <2>2. ext \in MadeOf({"peer", "push", "base"})
    BY MadeOfMore DEF Provenance
  <2> QED
    BY <1>1, <2>1, <2>2
<1>3. ~alive => \A j \in Joints : "peer" \notin felt[j]
  <2>1. ~alive => \A j \in Joints : "peer" \notin theirs[j]
    BY NoTorqueAt DEF Lost
  <2>2. \A j \in Joints : "peer" \notin ext[j]
    BY DEF Provenance, MadeOf
  <2> QED
    BY <1>1, <2>1, <2>2
<1>4. refTorque' = IF Type = "base" THEN refTorque ELSE Clipped({"act"}, felt)
  OBVIOUS
<1> HIDE DEF felt
<1>5. refTorque' \in MadeOf({"act", "peer", "push", "base"})
  <2>1. Clipped({"act"}, felt) \in MadeOf({"peer", "push", "base"} \cup {"act"})
    BY <1>2, ClippedOf
  <2>2. {"peer", "push", "base"} \cup {"act"} = {"act", "peer", "push", "base"}
    OBVIOUS
  <2> QED
    BY <1>4, <2>1, <2>2 DEF Provenance
<1>6. ~alive => \A j \in Joints : "peer" \notin refTorque'[j]
  <2>1. CASE Type = "base"
    BY <1>4, <2>1, NoTorqueAt DEF Provenance
  <2>2. CASE Type # "base"
    <3>1. \A j \in Joints : Clipped({"act"}, felt)[j] \subseteq felt[j] \cup {"act"}
      BY <1>2, ClippedOf
    <3> QED
      BY <1>3, <1>4, <2>2, <3>1
  <2> QED
    BY <2>1, <2>2
<1>7. residual' \in MadeOf({"res"})
  BY EverywhereMadeOf DEF Provenance
<1>8. residual' \in Torques /\ refTorque' \in Torques
  BY <1>5, <1>7, OutOfSources
<1>9. TypeOK'
  BY <1>8 DEF TypeOK
<1>10. Role = "follower" /\ Type = "cr" =>
         \A j \in Joints : "peer" \notin refTorque'[j]
  <2> SUFFICES ASSUME Role = "follower", Type = "cr"
               PROVE  \A j \in Joints : "peer" \notin refTorque'[j]
    OBVIOUS
  <2>1. felt = ext
    BY DEF felt, EnvironmentTorque
  <2>2. \A j \in Joints : "peer" \notin felt[j]
    BY <2>1 DEF Provenance, MadeOf
  <2>3. \A j \in Joints : Clipped({"act"}, felt)[j] \subseteq felt[j] \cup {"act"}
    BY <1>2, ClippedOf
  <2> QED
    BY <1>4, <2>2, <2>3
<1>11. Provenance'
  BY <1>4, <1>5, <1>7, <1>10 DEF Provenance, Type, Role
<1>12. Idle' /\ SilentPolicyIsForgotten'
  BY DEF Idle, OfNoPolicy, SilentPolicyIsForgotten
<1>13. Lost' /\ LostPeerIsForgotten'
  BY <1>6 DEF Lost, OfNoPeer, LostPeerIsForgotten
<1> QED
  BY <1>9, <1>11, <1>12, <1>13

\* What the controllers are to correct.
LEMMA ErrorsOf ==
  ASSUME IInv, at = "played"
  PROVE  /\ Errors = [base |-> Errors.base, res |-> Errors.res,
                      track |-> Errors.track]
         /\ Errors.base \in MadeOf({"base"})
         /\ Errors.res \in MadeOf({"res"})
         /\ Errors.track \in MadeOf({"act", "peer", "push", "base", "own"})
         /\ Errors.track.outer = {}
         /\ Role = "follower" /\ Type = "cr" => OfNoPeer(Errors)
         /\ ~data => OfNoPolicy(Errors)
         /\ ~alive => OfNoPeer(Errors)
<1> USE DEF IInv
<1> DEFINE felt == IF Role = "leader" THEN theirs ELSE Everywhere({"own"})
           track == [inner |-> refTorque.inner \cup felt.inner, outer |-> {}]
<1>1. /\ Errors.base = IF wants THEN Everywhere({"base"}) ELSE NoTorque
      /\ Errors.res = residual
      /\ Errors.track = track
      /\ Errors = [base |-> Errors.base, res |-> Errors.res,
                   track |-> Errors.track]
  BY DEF Errors
<1>2. felt.inner \subseteq {"peer", "own"}
  BY DEF Provenance, MadeOf, Everywhere, Joints
<1>3. ~alive \/ Role = "follower" => "peer" \notin felt.inner
  BY NoTorqueAt DEF Lost, Everywhere, Joints
<1> HIDE DEF felt
<1>4. refTorque.inner \subseteq {"act", "peer", "push", "base"}
  BY DEF Provenance, MadeOf, Joints
<1>5. track \in MadeOf({"act", "peer", "push", "base", "own"})
  BY <1>2, <1>4 DEF MadeOf, Joints
<1>6. ~data => refTorque.inner = {}
  BY NoTorqueAt DEF Idle, Joints
<1>7. ~data => \A j \in Joints : track[j] \cap OfPolicy = {}
  BY <1>2, <1>6 DEF OfPolicy, Joints
<1>8. ~alive \/ (Role = "follower" /\ Type = "cr") =>
        "peer" \notin refTorque.inner
  BY DEF Lost, Provenance, Joints
<1>9. ~alive \/ (Role = "follower" /\ Type = "cr") =>
        \A j \in Joints : "peer" \notin track[j]
  BY <1>3, <1>8 DEF Joints
<1>10. track.outer = {}
  OBVIOUS
<1> HIDE DEF track
<1>11. Errors.base \in MadeOf({"base"})
  BY <1>1, EverywhereMadeOf, NoTorqueMadeOf
<1>12. ~data => OfNoPolicy(Errors)
  BY <1>1, <1>7 DEF Idle, OfNoPolicy
<1> QED
  BY <1>1, <1>5, <1>9, <1>10, <1>11, <1>12 DEF Provenance, OfNoPeer

\* An answer is made of what the error of now and the one before are made of.
LEMMA AnswerMadeOf ==
  ASSUME NEW S, NEW now \in MadeOf(S), NEW last \in MadeOf(S)
  PROVE  [j \in Joints |-> now[j] \cup last[j]] \in MadeOf(S)
  BY DEF MadeOf

\* What the controllers put out, and what they put it out for.
LEMMA ControllersOf ==
  ASSUME IInv, at = "played"
  PROVE  /\ Controllers = [base |-> Controllers.base, res |-> Controllers.res,
                           track |-> Controllers.track]
         /\ Controllers.base \in MadeOf({"base"})
         /\ Controllers.res \in MadeOf({"res"})
         /\ Controllers.track \in MadeOf({"act", "peer", "push", "base", "own"})
         /\ Controllers.track.outer = {}
         /\ Role = "follower" /\ Type = "cr" => OfNoPeer(Controllers)
         /\ ~data /\ ~before.data => OfNoPolicy(Controllers)
         /\ ~alive /\ ~before.alive => OfNoPeer(Controllers)
<1> DEFINE base  == [j \in Joints |-> Errors.base[j] \cup error.base[j]]
           res   == [j \in Joints |-> Errors.res[j] \cup error.res[j]]
           track == [j \in Joints |-> Errors.track[j] \cup error.track[j]]
<1>1. /\ Controllers.base = base /\ Controllers.res = res
      /\ Controllers.track = track
      /\ Controllers = [base |-> Controllers.base, res |-> Controllers.res,
                        track |-> Controllers.track]
  BY DEF Controllers
<1>2. /\ base \in MadeOf({"base"}) /\ res \in MadeOf({"res"})
      /\ track \in MadeOf({"act", "peer", "push", "base", "own"})
  BY ErrorsOf, AnswerMadeOf DEF IInv, Provenance
<1>3. track.outer = {}
  BY ErrorsOf DEF IInv, Provenance, Joints
<1>4. Role = "follower" /\ Type = "cr" =>
        \A j \in Joints : "peer" \notin track[j]
  BY ErrorsOf DEF IInv, Provenance, OfNoPeer
<1>5. ~alive /\ ~before.alive => \A j \in Joints : "peer" \notin track[j]
  BY ErrorsOf DEF IInv, Lost, OfNoPeer
<1>6. ASSUME ~data, ~before.data
      PROVE  /\ base = NoTorque /\ res = NoTorque
             /\ \A j \in Joints : track[j] \cap OfPolicy = {}
  <2>1. OfNoPolicy(Errors) /\ OfNoPolicy(error)
    BY <1>6, ErrorsOf DEF IInv, Idle
  <2>2. base = NoTorque /\ res = NoTorque
    BY <2>1, NoTorqueAt DEF OfNoPolicy, NoTorque
  <2>3. \A j \in Joints : track[j] \cap OfPolicy = {}
    BY <2>1 DEF OfNoPolicy
  <2> QED
    BY <2>2, <2>3
<1> HIDE DEF base, res, track
<1> QED
  BY <1>1, <1>2, <1>3, <1>4, <1>5, <1>6 DEF OfNoPeer, OfNoPolicy

LEMMA ExtTorqueOf ==
  ASSUME NEW base \in MadeOf({"base"})
  PROVE  ExtTorque(base) \in MadeOf({"push", "base"})
  BY DEF ExtTorque, MadeOf

LEMMA NextScaleType ==
  ASSUME cur \in Scales, NEW target \in 0..Full
  PROVE  NextScale(target) \in Scales
<1>1. Full \in Nat /\ cur.inner \in 0..Full
  BY LawAssumption DEF Scales, Joints
<1> DEFINE s == IF target > cur.inner THEN cur.inner + 1
                ELSE IF target < cur.inner THEN cur.inner - 1
                ELSE cur.inner
<1>2. s \in 0..Full
  BY <1>1
<1>3. NextScale(target) = [inner |-> s, outer |-> Full]
  BY DEF NextScale
<1> HIDE DEF s
<1> QED
  BY <1>2, <1>3, ScalesType

LEMMA RunSystemsInv ==
  ASSUME IInv, RunSystems, UNCHANGED config
  PROVE  IInv'
<1> USE DEF IInv, RunSystems, Step, heardvars, playvars, sumvars
<1>1. cur' \in Scales /\ scale' \in Scales
  BY NextScaleType DEF TypeOK, TakeScale
<1>2. ext' \in MadeOf({"push", "base"})
  BY ControllersOf, ExtTorqueOf
<1>3. /\ Controllers.base \in Torques /\ Controllers.res \in Torques
      /\ Controllers.track \in Torques /\ ext' \in Torques
  BY <1>2, ControllersOf, OutOfSources
<1>4. /\ Errors.base \in Torques /\ Errors.res \in Torques
      /\ Errors.track \in Torques
  BY ErrorsOf, OutOfSources
<1>5. /\ jt' \in [base: Torques, res: Torques, track: Torques]
      /\ error' \in [base: Torques, res: Torques, track: Torques]
  BY <1>3, <1>4, ControllersOf, ErrorsOf
<1>6. modelled' \in Nat
  BY ConfigType DEF TypeOK, RunModel, LeaderDynamics, FollowerDynamics
<1>7. TypeOK'
  BY <1>1, <1>3, <1>5, <1>6 DEF TypeOK
<1>8. Provenance'
  BY <1>2, ControllersOf, ErrorsOf DEF Provenance, Type, Role, OfNoPeer
<1>9. Idle' /\ SilentPolicyIsForgotten'
  BY ControllersOf, ErrorsOf
  DEF Idle, OfNoPolicy, SilentPolicyIsForgotten, TakeScale, Role
<1>10. Lost' /\ LostPeerIsForgotten'
  BY ControllersOf, ErrorsOf DEF Lost, OfNoPeer, LostPeerIsForgotten
<1> QED
  BY <1>7, <1>8, <1>9, <1>10

-----------------------------------------------------------------------------
\* What libbarrett's gravity leaves of the model's: motion, and no gravity.
LEMMA FeedForwardIsMotion == FeedForward = {"motion"}
  BY DEF FeedForward, WamDyn, WamGrav

LEMMA DynamicsTorqueOf ==
  ASSUME IInv
  PROVE  /\ DynamicsTorque \in MadeOf({"motion", "peer", "own"})
         /\ ~alive /\ at # "begin" =>
              \A j \in Joints : "peer" \notin DynamicsTorque[j]
<1> USE DEF IInv
<1>1. DynamicsTorque.inner \subseteq theirs.inner \cup {"own", "motion"}
  BY FeedForwardIsMotion DEF DynamicsTorque
<1>2. DynamicsTorque = [inner |-> DynamicsTorque.inner, outer |-> {}]
  BY DEF DynamicsTorque
<1>3. theirs.inner \subseteq {"peer"}
  BY DEF Provenance, MadeOf, Joints
<1>4. ~alive /\ at # "begin" => theirs.inner = {}
  BY NoTorqueAt DEF Lost, Joints
<1> QED
  BY <1>1, <1>2, <1>3, <1>4 DEF MadeOf, Joints

LEMMA PolicyTorqueBounds ==
  ASSUME IInv, NEW j \in Joints
  PROVE  PolicyTorqueOf(j) \subseteq {"base", "res", "act", "peer", "push", "own"}
<1> USE DEF IInv
<1>1. PolicyTorqueOf(j) \subseteq
        jt.base[j] \cup refTorque[j] \cup jt.res[j] \cup jt.track[j]
  BY DEF PolicyTorqueOf
<1>2. /\ jt.base[j] \subseteq {"base"} /\ jt.res[j] \subseteq {"res"}
      /\ refTorque[j] \subseteq {"act", "peer", "push", "base"}
      /\ jt.track[j] \subseteq {"act", "peer", "push", "base", "own"}
  BY DEF Provenance, MadeOf
<1> QED
  BY <1>1, <1>2

\* What the policy module's torque has of an action that is over.
LEMMA PolicyTorqueSilent ==
  ASSUME IInv, at = "run", ~data, NEW j \in Joints
  PROVE  PolicyTorqueOf(j) \cap OfPolicy \subseteq
           IF before.data THEN Damped ELSE {}
<1> USE DEF IInv
<1>1. refTorque[j] = {} /\ (Role # "leader" => scale[j] = 0)
  BY NoTorqueAt DEF Idle, NoScale
<1>2. CASE ~before.data
  <2>1. jt.base[j] = {} /\ jt.res[j] = {} /\ jt.track[j] \cap OfPolicy = {}
    BY <1>2, NoTorqueAt DEF Idle, OfNoPolicy
  <2> QED
    BY <1>1, <1>2, <2>1 DEF PolicyTorqueOf
<1>3. CASE before.data /\ Type = "cr"
  BY <1>3 DEF Damped
<1>4. CASE before.data /\ Type # "cr"
  <2>1. PolicyTorqueOf(j) \subseteq jt.base[j]
    BY <1>1, <1>4 DEF PolicyTorqueOf
  <2>2. Role # "leader" => PolicyTorqueOf(j) = {}
    BY <1>1, <1>4 DEF PolicyTorqueOf
  <2>3. jt.base[j] \subseteq {"base"}
    BY DEF Provenance, MadeOf
  <2> QED
    BY <1>4, <2>1, <2>2, <2>3 DEF Damped
<1> QED
  BY <1>2, <1>3, <1>4

\* What it has of a peer that is lost.
LEMMA PolicyTorqueLost ==
  ASSUME IInv, at = "run", ~alive, NEW j \in Joints, "peer" \in PolicyTorqueOf(j)
  PROVE  before.alive /\ Role = "leader" /\ Type = "cr" /\ j = "inner"
<1> USE DEF IInv
<1>1. /\ "peer" \notin refTorque[j]
      /\ jt.base[j] \subseteq {"base"} /\ jt.res[j] \subseteq {"res"}
  BY DEF Lost, Provenance, MadeOf
<1>2. Type = "cr" /\ "peer" \in jt.track[j]
  BY <1>1 DEF PolicyTorqueOf
<1>3. before.alive
  BY <1>2 DEF Lost, OfNoPeer
<1>4. Role # "follower" /\ j # "outer"
  BY <1>2 DEF Provenance
<1> QED
  BY <1>2, <1>3, <1>4, ConfigType DEF TypeOK, Joints

LEMMA ComputeControlInv ==
  ASSUME IInv, ComputeControl, UNCHANGED config
  PROVE  IInv'
<1> USE DEF IInv, ComputeControl, Step, heardvars, playvars, systems
<1>1. \A j \in Joints :
        control'[j] \subseteq PolicyTorqueOf(j) \cup DynamicsTorque[j]
  BY DEF SumTorque
<1>2. \A j \in Joints : /\ PolicyTorqueOf(j) \subseteq Sources \ Gravities
                        /\ DynamicsTorque[j] \subseteq Sources \ Gravities
  BY PolicyTorqueBounds, DynamicsTorqueOf DEF MadeOf, Sources, Gravities
<1>3. control' \in MadeOf(Sources \ Gravities)
  BY <1>1, <1>2 DEF SumTorque, MadeOf
<1>4. control' \in Torques
  BY <1>3, MadeOfMore DEF Torques
<1>5. TypeOK'
  BY <1>4 DEF TypeOK
<1>6. Provenance'
  BY <1>3 DEF Provenance, Type, Role
<1>7. SilentPolicyIsForgotten'
  <2>1. \A j \in Joints : DynamicsTorque[j] \cap OfPolicy = {}
    BY DynamicsTorqueOf DEF MadeOf, OfPolicy
  <2>2. Damped' = Damped
    BY DEF Damped, Type, Role
  <2> QED
    BY <1>1, <2>1, <2>2, PolicyTorqueSilent DEF SilentPolicyIsForgotten
<1>8. LostPeerIsForgotten'
  BY <1>1, PolicyTorqueLost, DynamicsTorqueOf DEF LostPeerIsForgotten, Type, Role
<1>9. Idle' /\ Lost'
  BY DEF Idle, Lost, OfNoPolicy, OfNoPeer
<1> QED
  BY <1>5, <1>6, <1>7, <1>8, <1>9

LEMMA LogInv ==
  ASSUME IInv, Log, UNCHANGED config
  PROVE  IInv'
<1> USE DEF IInv, Log, Step, heardvars, playvars, systems, sumvars
<1>1. loops' \in 0..(IF Period > 0 THEN Period - 1 ELSE 0)
  <2> DEFINE p == IF Period > 0 THEN Period ELSE 1
  <2>1. p \in Nat \ {0} /\ p - 1 = IF Period > 0 THEN Period - 1 ELSE 0
    BY LawAssumption
  <2>2. loops \in 0..(p - 1)
    BY <2>1 DEF TypeOK
  <2> HIDE DEF p
  <2>3. (loops + 1) % p \in 0..(p - 1)
    BY <2>1, <2>2
  <2> QED
    BY <2>1, <2>2, <2>3 DEF p
<1>2. TypeOK'
  BY <1>1 DEF TypeOK
<1>3. Provenance' /\ Idle' /\ Lost' /\ SilentPolicyIsForgotten' /\ LostPeerIsForgotten'
  BY DEF Provenance, Type, Role, Idle, Lost, OfNoPolicy, OfNoPeer, Damped,
         SilentPolicyIsForgotten, LostPeerIsForgotten
<1> QED
  BY <1>2, <1>3

\* A toggle or a stutter changes nothing but what is loaded.
LEMMA OtherInv ==
  ASSUME IInv, UNCHANGED config,
         UNCHANGED <<at, heardvars, playvars, scale, systems, sumvars, before, loops>>,
         loaded' \subseteq {"policy", "dynamics", "logging"}
  PROVE  IInv'
<1> USE DEF IInv, heardvars, playvars, systems, sumvars
<1>1. TypeOK'
  BY DEF TypeOK
<1>2. Provenance' /\ Idle' /\ Lost' /\ SilentPolicyIsForgotten' /\ LostPeerIsForgotten'
  BY DEF Provenance, Type, Role, Idle, Lost, OfNoPolicy, OfNoPeer, Damped,
         SilentPolicyIsForgotten, LostPeerIsForgotten
<1> QED
  BY <1>1, <1>2

LEMMA NextInv == IInv /\ [Next]_vars => IInv'
<1> SUFFICES ASSUME IInv, [Next]_vars PROVE IInv'
  OBVIOUS
<1>1. CASE Next
  <2>1. UNCHANGED config
    BY <1>1 DEF Next
  <2>2. ASSUME NEW m \in {"policy", "dynamics", "logging"}, Toggle(m)
        PROVE  IInv'
    BY <2>1, <2>2, OtherInv DEF Toggle, IInv, TypeOK
  <2> QED
    BY <1>1, <2>1, <2>2, HearPeerInv, LosePeerInv, PlayNothingInv,
       PlayActionInv, RunSystemsInv, ComputeControlInv, LogInv DEF Next
<1>2. CASE UNCHANGED vars
  BY <1>2, OtherInv DEF vars, IInv, TypeOK
<1> QED
  BY <1>1, <1>2

\* The invariant that the theorems below are read off.
THEOREM Invariant == Spec => []IInv
  BY InitInv, NextInv, PTL DEF Spec

\* Whatever a node is configured as, its torques are torques and its scales
\* between 0 and Full.
THEOREM TypeCorrect == Spec => []TypeOK
<1>1. IInv => TypeOK
  BY DEF IInv
<1> QED
  BY Invariant, <1>1, PTL

\* A cycle without an action of the policy, whatever was played before and is
\* toggled meanwhile, moves no joint for it, and the first such cycle only damps
\* what the last action did, as far as the type and the role let it.
THEOREM SilentPolicyFades == Spec => []SilentPolicyIsForgotten
<1>1. IInv => SilentPolicyIsForgotten
  BY DEF IInv
<1> QED
  BY Invariant, <1>1, PTL

\* In a cycle without a fresh packet nothing of the peer's torque is commanded,
\* unless it is the first and the leader's tracking controller damps it.
THEOREM LostPeerFades == Spec => []LostPeerIsForgotten
<1>1. IInv => LostPeerIsForgotten
  BY DEF IInv
<1> QED
  BY Invariant, <1>1, PTL

\* Whichever way the arm is mounted, no module's torque has gravity in it.
THEOREM GravityIsCompensatedOnce == Spec => []NoStrayGravity
<1>1. IInv => NoStrayGravity
  BY DEF IInv, Provenance, MadeOf, NoStrayGravity
<1> QED
  BY Invariant, <1>1, PTL

-----------------------------------------------------------------------------
\* The leader's scale, between the cycle that multiplied by it and the next:
\* its PolicyTorque moves on from the scale that was applied, whatever the
\* policy module sets TeleopData's to.
RateInv ==
  Role = "leader" =>
    /\ at # "run" => cur.inner = applied.inner
    /\ at = "run" => scale = cur /\ cur.inner - applied.inner \in -1..1

LEMMA InitRate == Init => RateInv
  BY DEF Init, RateInv

LEMMA NextScaleMovesByOne ==
  ASSUME cur \in Scales, NEW target \in 0..Full
  PROVE  NextScale(target).inner - cur.inner \in -1..1
<1>1. Full \in Nat /\ cur.inner \in 0..Full
  BY LawAssumption DEF Scales, Joints
<1> QED
  BY <1>1 DEF NextScale

LEMMA NextRate ==
  ASSUME TypeOK, RateInv, [Next]_vars
  PROVE  /\ RateInv'
         /\ Role = "leader" => applied'.inner - applied.inner \in -1..1
<1> USE DEF RateInv, Step, Role
<1>1. cur.inner \in Int /\ applied.inner \in Int
  BY LawAssumption DEF TypeOK, Scales, Joints
<1>2. UNCHANGED config
  BY DEF Next, vars
<1>3. CASE HearPeer \/ LosePeer
  BY <1>1, <1>2, <1>3 DEF HearPeer, LosePeer, systems, sumvars
<1>4. CASE PlayNothing \/ PlayAction
  BY <1>1, <1>2, <1>4 DEF PlayNothing, PlayAction, systems, sumvars
<1>5. CASE RunSystems
  BY <1>1, <1>2, <1>5, NextScaleMovesByOne
  DEF RunSystems, TakeScale, sumvars, TypeOK
<1>6. CASE ComputeControl
  BY <1>1, <1>2, <1>6 DEF ComputeControl, systems
<1>7. CASE Log \/ UNCHANGED vars \/
           \E m \in {"policy", "dynamics", "logging"} : Toggle(m)
  BY <1>1, <1>2, <1>7 DEF Log, Toggle, vars, systems, sumvars
<1> QED
  BY <1>3, <1>4, <1>5, <1>6, <1>7 DEF Next

\* The scale of the base policy's torque moves by at most a step per cycle,
\* for every number of steps and every sequence of cycles with an action and
\* without.
THEOREM TheScaleIsRateLimited == Spec => ScaleIsRateLimited
<1>1. TypeOK /\ RateInv /\ [Next]_vars =>
        RateInv' /\ [Role = "leader" => applied'.inner - applied.inner \in -1..1]_vars
  BY NextRate
<1> QED
  BY InitRate, TypeCorrect, <1>1, PTL DEF Spec, ScaleIsRateLimited
=============================================================================
