-------------------------- MODULE TeleopNodeProofs --------------------------
(***************************************************************************)
(* Proofs about TeleopNode, for every set of positions, sync position,     *)
(* tolerance, timeout, mirroring and clock bound, and for both roles.      *)
(*                                                                         *)
(* Nothing ever clears the UDP handler's latest packet, so whatever was    *)
(* once concluded from a packet -- have_their_, a passed near check, a     *)
(* link -- implies that there is one.  That is the inductive invariant     *)
(* Contact; with it every step of the node is a step of LinkWatchdog or    *)
(* leaves the watchdog's variables alone.                                  *)
(***************************************************************************)
EXTENDS TeleopNode, TLAPS

\* What the console has already concluded from have_their_ when it is here.
AfterNearCheck == {"compare", "tryLink"}

\* Everything the node concluded from a packet still has a packet behind it.
Contact ==
  have_their \/ loaded \/ console \in AfterNearCheck => latest # None

IInv == TypeOK /\ Contact

-----------------------------------------------------------------------------
(* MirrorAndOffset (TeleopModule::mirrorAndOffset) keeps positions numbers. *)
LEMMA MirrorType ==
  ASSUME NEW p \in Pos PROVE MirrorAndOffset(p) \in Int
<1>1. p \in Int /\ Offset \in Int /\ Scale \in {1, -1}
  BY NodeAssumption DEF NodeAssumption
<1>2. CASE Scale = 1
  BY <1>1, <1>2 DEF MirrorAndOffset
<1>3. CASE Scale = -1
  BY <1>1, <1>3 DEF MirrorAndOffset
<1>. QED BY <1>1, <1>2, <1>3

(* The part of a cycle every outcome of receive() shares keeps the types.   *)
LEMMA FinishType ==
  ASSUME TypeOK, NEW their \in Int, FinishCycle(their)
  PROVE  /\ cycle' \in [at: {"idle", "receive", "fetch"}, opNow: Nat,
                        recvNow: Nat]
         /\ st' \in [own: Int, their: Int, timestamp: Nat]
         /\ their_out' \in Int \cup {None}
         /\ wrist' \in Int \cup {None}
         /\ UNCHANGED <<now, latest, jp, reference, console>>
BY DEF TypeOK, FinishCycle

-----------------------------------------------------------------------------
LEMMA InitInv == Init => IInv
<1>. SUFFICES ASSUME Init PROVE IInv
  OBVIOUS
<1>1. TypeOK
  <2>1. now \in Nat /\ latest \in Packets \cup {None} /\ jp \in Pos
    BY DEF Init
  <2>2. st \in [own: Int, their: Int, timestamp: Nat]
    BY DEF Init
  <2>3. cycle \in [at: {"idle", "receive", "fetch"}, opNow: Nat, recvNow: Nat]
    BY DEF Init
  <2>4. have_their \in BOOLEAN /\ loaded \in BOOLEAN
    BY DEF Init
  <2>5. /\ their_out \in Int \cup {None}
        /\ wrist \in Int \cup {None}
        /\ reference \in {"gravity", "sync", "peer"}
        /\ console \in Consoles
    BY DEF Init, Consoles
  <2>. QED BY <2>1, <2>2, <2>3, <2>4, <2>5 DEF TypeOK
<1>2. ~have_their /\ ~loaded /\ console \notin AfterNearCheck
  BY DEF Init, AfterNearCheck
<1>. QED BY <1>1, <1>2 DEF IInv, Contact

LEMMA CycleInv == IInv /\ Cycle => IInv'
<1>. SUFFICES ASSUME IInv, Cycle PROVE IInv'
  OBVIOUS
<1>. USE DEF IInv, Contact, AfterNearCheck
<1>1. CASE BeginCycle
  <2>1. jp \in Int
    BY NodeAssumption DEF NodeAssumption, TypeOK
  <2>. QED BY <1>1, <2>1 DEF BeginCycle, TypeOK
<1>2. CASE ReadClock
  BY <1>2 DEF ReadClock, TypeOK
<1>3. CASE AcceptPacket
  <2>1. latest # None /\ latest \in Packets
    BY <1>3 DEF AcceptPacket, HeardFresh, TypeOK
  <2>2. MirrorAndOffset(latest.jp) \in Int
    BY <2>1, MirrorType DEF Packets
  <2>3. FinishCycle(MirrorAndOffset(latest.jp))
    BY <1>3 DEF AcceptPacket
  <2>. QED BY <1>3, <2>1, <2>2, <2>3, FinishType DEF AcceptPacket, TypeOK
<1>4. CASE LosePeer
  <2>1. st.own \in Int
    BY DEF TypeOK
  <2>2. FinishCycle(st.own)
    BY <1>4 DEF LosePeer
  <2>. QED BY <1>4, <2>1, <2>2, FinishType DEF LosePeer, TypeOK
<1>. QED BY <1>1, <1>2, <1>3, <1>4 DEF Cycle

LEMMA ConsoleInv == IInv /\ Console => IInv'
<1>. SUFFICES ASSUME IInv, Console PROVE IInv'
  OBVIOUS
<1>. USE DEF IInv, Contact, AfterNearCheck, TypeOK, Consoles, Say
<1>1. CASE PressUnlink
  BY <1>1 DEF PressUnlink
<1>2. CASE UnlinkKey
  BY <1>2 DEF UnlinkKey
<1>3. CASE PressLink
  BY <1>3 DEF PressLink
<1>4. CASE MoveDone
  <2>1. SyncPos \in Pos /\ SyncPos \in Int
    BY NodeAssumption DEF NodeAssumption
  <2>. QED BY <1>4, <2>1 DEF MoveDone
<1>5. CASE PressEnter
  BY <1>5 DEF PressEnter
<1>6. CASE ReadHaveTheir
  BY <1>6 DEF ReadHaveTheir
<1>7. CASE ComparePositions
  BY <1>7 DEF ComparePositions
<1>8. CASE TryLink
  BY <1>8 DEF TryLink
<1>9. CASE TrackPeer
  BY <1>9 DEF TrackPeer
<1>10. CASE Report
  BY <1>10 DEF Report
<1>. QED
  BY <1>1, <1>2, <1>3, <1>4, <1>5, <1>6, <1>7, <1>8, <1>9, <1>10 DEF Console

LEMMA NextInv == IInv /\ [Next]_vars => IInv'
<1>. SUFFICES ASSUME IInv, [Next]_vars PROVE IInv'
  OBVIOUS
<1>1. CASE Cycle
  BY <1>1, CycleInv
<1>2. CASE Console
  BY <1>2, ConsoleInv
<1>. USE DEF IInv, Contact, TypeOK
<1>3. CASE MoveArm
  BY <1>3 DEF MoveArm
<1>4. CASE Deliver
  <2>1. PICK p \in Pos, t \in 0..now : StorePacket([jp |-> p, ts |-> t])
    BY <1>4 DEF Deliver
  <2>2. [jp |-> p, ts |-> t] \in Packets
    BY DEF Packets
  <2>3. latest' # None
    BY <2>1, <2>2, NodeAssumption DEF StorePacket, NodeAssumption, Packets
  <2>. QED BY <1>4, <2>1, <2>2, <2>3 DEF Deliver, StorePacket
<1>5. CASE Tick
  BY <1>5 DEF Tick, nodevars
<1>6. CASE UNCHANGED vars
  BY <1>6 DEF vars, nodevars
<1>. QED BY <1>1, <1>2, <1>3, <1>4, <1>5, <1>6 DEF Next

LEMMA Invariance == Spec => []IInv
BY InitInv, NextInv, PTL DEF Spec

-----------------------------------------------------------------------------
(* The node's state always has its types.                                  *)
THEOREM TypeCorrect == Spec => []TypeOK
<1>1. IInv => TypeOK
  BY DEF IInv
<1>. QED BY <1>1, Invariance, PTL

(* A node that never received a packet is never linked: the unlocked read  *)
(* of have_their_ in theirIsNear() cannot link a node before contact.      *)
THEOREM LinkedAfterContact == Spec => []LinkNeedsContact
<1>1. IInv => LinkNeedsContact
  BY DEF IInv, Contact, LinkNeedsContact
<1>. QED BY <1>1, Invariance, PTL

(* A cycle that loses the peer offers the arm its own position, and no     *)
(* console step or later packet disturbs that before the next cycle.       *)
THEOREM HoldsOnLoss == Spec => []HoldOnLoss
<1>1. Init => HoldOnLoss
  BY DEF Init, HoldOnLoss
<1>2. IInv /\ HoldOnLoss /\ [Next]_vars => HoldOnLoss'
  <2>. SUFFICES ASSUME IInv, HoldOnLoss, [Next]_vars PROVE HoldOnLoss'
    OBVIOUS
  <2>. USE DEF HoldOnLoss
  <2>1. CASE Cycle
    <3>1. CASE BeginCycle
      BY <3>1 DEF BeginCycle, IInv, TypeOK
    <3>2. CASE ReadClock
      BY <3>2 DEF ReadClock, IInv, TypeOK
    <3>3. CASE AcceptPacket
      BY <3>3 DEF AcceptPacket
    <3>4. CASE LosePeer
      BY <3>4 DEF LosePeer, FinishCycle, IInv, TypeOK
    <3>. QED BY <2>1, <3>1, <3>2, <3>3, <3>4 DEF Cycle
  <2>2. CASE Console
    BY <2>2 DEF Console, PressUnlink, UnlinkKey, PressLink, MoveDone,
       PressEnter, ReadHaveTheir, ComparePositions, TryLink, TrackPeer, Report
  <2>3. CASE MoveArm \/ Deliver \/ Tick
    BY <2>3 DEF MoveArm, Deliver, StorePacket, Tick, nodevars
  <2>4. CASE UNCHANGED vars
    BY <2>4 DEF vars, nodevars
  <2>. QED BY <2>1, <2>2, <2>3, <2>4 DEF Next
<1>. QED BY <1>1, <1>2, Invariance, PTL DEF Spec

(* The wrist is only ever given the peer's position by a cycle that found  *)
(* the peer alive and the node linked.                                     *)
THEOREM WristFollows == Spec => WristFollowsLivePeer
<1>1. [Next]_vars =>
        [wrist' # wrist => console = "moving" \/ (loaded' /\ have_their')]_vars
  <2>. SUFFICES ASSUME Next, wrist' # wrist
                PROVE  console = "moving" \/ (loaded' /\ have_their')
    OBVIOUS
  <2>1. CASE Cycle
    BY <2>1 DEF Cycle, BeginCycle, ReadClock, AcceptPacket, LosePeer,
       FinishCycle
  <2>2. CASE Console
    BY <2>2 DEF Console, PressUnlink, UnlinkKey, PressLink, MoveDone, Say,
       PressEnter, ReadHaveTheir, ComparePositions, TryLink, TrackPeer, Report
  <2>3. CASE MoveArm \/ Deliver \/ Tick
    BY <2>3 DEF MoveArm, Deliver, StorePacket, Tick, nodevars
  <2>. QED BY <2>1, <2>2, <2>3 DEF Next
<1>. QED BY <1>1, PTL DEF Spec, WristFollowsLivePeer

-----------------------------------------------------------------------------
(* Every step of the node is a step of the watchdog or leaves it alone.    *)
LEMMA StepImplements == IInv /\ IInv' /\ [Next]_vars => [W!WNext]_W!wvars
<1>. SUFFICES ASSUME IInv, IInv', [Next]_vars PROVE [W!WNext]_W!wvars
  OBVIOUS
<1>. USE DEF W!WNext, W!wvars
<1>1. CASE BeginCycle \/ ReadClock
  BY <1>1 DEF BeginCycle, ReadClock
<1>2. CASE AcceptPacket
  <2>1. W!JudgeAlive
    BY <1>2 DEF AcceptPacket, HeardFresh, FinishCycle, W!JudgeAlive
  <2>. QED BY <2>1
<1>3. CASE LosePeer
  <2>1. W!JudgeLost
    BY <1>3 DEF LosePeer, FinishCycle, W!JudgeLost
  <2>. QED BY <2>1
<1>4. CASE UnlinkKey
  <2>1. W!Unlink
    BY <1>4 DEF UnlinkKey, W!Unlink
  <2>. QED BY <2>1
<1>5. CASE TryLink
  <2>1. W!Link
    BY <1>5 DEF TryLink, Say, W!Link, IInv, Contact, AfterNearCheck
  <2>. QED BY <2>1
<1>6. CASE Deliver
  <2>1. PICK p \in Pos, t \in 0..now : StorePacket([jp |-> p, ts |-> t])
    BY <1>6 DEF Deliver
  <2>2. latest' # None
    BY <2>1, NodeAssumption DEF StorePacket, NodeAssumption, IInv, TypeOK
  <2>3. W!Hear
    BY <2>1, <2>2 DEF StorePacket, W!Hear
  <2>. QED BY <2>3
<1>7. CASE Console /\ ~UnlinkKey /\ ~TryLink
  BY <1>7 DEF Console, PressUnlink, PressLink, MoveDone, PressEnter,
     ReadHaveTheir, ComparePositions, TrackPeer, Report
<1>8. CASE MoveArm \/ Tick
  BY <1>8 DEF MoveArm, Tick, nodevars
<1>9. CASE UNCHANGED vars
  BY <1>9 DEF vars, nodevars
<1>. QED
  BY <1>1, <1>2, <1>3, <1>4, <1>5, <1>6, <1>7, <1>8, <1>9 DEF Next, Cycle

(* TeleopNode implements LinkWatchdog: only the operator links, never      *)
(* before contact, and each cycle that loses the peer drops the link.      *)
THEOREM NodeIsWatchdog == Spec => Watchdog
<1>1. Init => W!WInit
  BY DEF Init, W!WInit
<1>. QED BY <1>1, StepImplements, Invariance, PTL DEF Spec, Watchdog, W!WSpec
=============================================================================
