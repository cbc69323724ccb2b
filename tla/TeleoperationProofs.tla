------------------------ MODULE TeleoperationProofs ------------------------
(***************************************************************************)
(* Proofs about Teleoperation, for every tolerance, timeout, mirroring and *)
(* offset, every number of crashes and datagrams in flight, and a clock    *)
(* without end.                                                            *)
(*                                                                         *)
(* That a link means a live peer is a chain of inequalities: a packet was  *)
(* stamped before it was sent (NoFuture), so that what is in flight or     *)
(* stored is no younger than its sender's last cycle (StampedBefore).      *)
(*                                                                         *)
(* That a prompt network keeps a link (Prompt) is another: what a node     *)
(* holds is two ticks old at most.                                         *)
(***************************************************************************)
EXTENDS Teleoperation, TLAPS

\* No reading of the clock is ahead of it, and what a node accepted is not
\* ahead of the reading it judges the next packet by.
NoFuture ==
  \A n \in Node :
    /\ lastSent[n] <= now
    /\ heard[n] <= now
    /\ cycle[n].opNow <= now
    /\ cycle[n].at = "judge" => cycle[n].recvNow <= now
                                /\ heard[n] <= cycle[n].recvNow

\* A packet, in flight or stored, is not younger than its sender's last cycle.
StampedBefore ==
  /\ \A d \in net : d.ts <= lastSent[Peer(d.to)]
  /\ \A n \in Node :
       latest[n] # None => latest[n].ts <= lastSent[Peer(n)]

IInv == TypeOK /\ NoFuture /\ StampedBefore

-----------------------------------------------------------------------------
LEMMA PeerIsANode == \A n \in Node : Peer(n) \in Node /\ Peer(n) # n /\ Peer(Peer(n)) = n
  BY DEF Node, Peer

\* A position in the other node's frame is a whole number, whether the joint is
\* mirrored or not.
LEMMA MirroredIsInt ==
  ASSUME NEW n \in Node, NEW p \in Int
  PROVE  /\ MirrorAndOffset(n, p) \in Int
         /\ Scale = 1 => MirrorAndOffset(n, p) =
                           IF n = "leader" THEN p - Offset ELSE p + Offset
         /\ Scale = -1 => MirrorAndOffset(n, p) = Offset - p
<1>1. Offset \in Int /\ Scale \in {1, -1}
  BY TeleopAssumption
<1>2. CASE Scale = 1
  BY <1>1, <1>2 DEF MirrorAndOffset
<1>3. CASE Scale = -1
  BY <1>1, <1>3 DEF MirrorAndOffset
<1> QED
  BY <1>1, <1>2, <1>3

\* The two nodes' mappings undo each other.
LEMMA MirroredTwice ==
  ASSUME NEW n \in Node, NEW p \in Int
  PROVE  MirrorAndOffset(Peer(n), MirrorAndOffset(n, p)) = p
<1>1. Offset \in Int /\ Scale \in {1, -1}
  BY TeleopAssumption
<1>2. MirrorAndOffset(n, p) \in Int
  BY MirroredIsInt
<1>3. CASE Scale = 1
  BY <1>1, <1>2, <1>3, MirroredIsInt, PeerIsANode DEF Peer, Node
<1>4. CASE Scale = -1
  BY <1>1, <1>2, <1>4, MirroredIsInt, PeerIsANode
<1> QED
  BY <1>1, <1>3, <1>4

-----------------------------------------------------------------------------
LEMMA InitInv == Init => IInv
<1> SUFFICES ASSUME Init PROVE IInv
  OBVIOUS
<1> USE DEF Init
<1>1. TypeOK
  BY TeleopAssumption DEF TypeOK, Resting
<1>2. NoFuture /\ StampedBefore
  BY DEF NoFuture, StampedBefore, Resting
<1> QED
  BY <1>1, <1>2 DEF IInv

Cycles == [at: {"down", "idle", "begun", "judge"}, opNow: Nat, recvNow: Nat]

\* Both readings of the clock leave a cycle a cycle.
LEMMA CycleMoves ==
  ASSUME NEW c \in Cycles, NEW t \in Nat
  PROVE  /\ [c EXCEPT !.at = "begun", !.opNow = t] \in Cycles
         /\ [c EXCEPT !.at = "judge", !.recvNow = t] \in Cycles
  BY DEF Cycles

\* A function that is changed in one place.
LEMMA Changed ==
  ASSUME NEW S, NEW T, NEW f \in [S -> T], NEW x \in S, NEW v \in T
  PROVE  [f EXCEPT ![x] = v] \in [S -> T]
  OBVIOUS

LEMMA BeginCycleInv ==
  ASSUME IInv, NEW n \in Node, BeginCycle(n)
  PROVE  IInv'
<1> USE DEF IInv, BeginCycle
<1>1. cycle' \in [Node -> Cycles]
  <2> DEFINE begun == [cycle[n] EXCEPT !.at = "begun", !.opNow = now]
  <2>1. cycle' = [cycle EXCEPT ![n] = begun]
    OBVIOUS
  <2>2. cycle \in [Node -> Cycles] /\ now \in Nat
    BY DEF TypeOK, Cycles
  <2>3. begun \in Cycles
    BY <2>2, CycleMoves
  <2> HIDE DEF begun, IInv, BeginCycle
  <2> QED
    BY <2>1, <2>2, <2>3, Changed
<1>2. own' \in [Node -> Pos]
  BY DEF TypeOK
<1>3. TypeOK'
  BY <1>1, <1>2 DEF TypeOK, Cycles
<1>4. NoFuture' /\ StampedBefore'
  BY DEF TypeOK, NoFuture, StampedBefore
<1> QED
  BY <1>3, <1>4

LEMMA ReadClockInv ==
  ASSUME IInv, NEW n \in Node, ReadClock(n)
  PROVE  IInv'
<1> USE DEF IInv, ReadClock
<1>1. cycle' \in [Node -> Cycles]
  <2> DEFINE judging == [cycle[n] EXCEPT !.at = "judge", !.recvNow = now]
  <2>1. cycle' = [cycle EXCEPT ![n] = judging]
    OBVIOUS
  <2>2. cycle \in [Node -> Cycles] /\ now \in Nat
    BY DEF TypeOK, Cycles
  <2>3. judging \in Cycles
    BY <2>2, CycleMoves
  <2> HIDE DEF judging, IInv, ReadClock
  <2> QED
    BY <2>1, <2>2, <2>3, Changed
<1>2. TypeOK'
  BY <1>1 DEF TypeOK, Cycles
<1>3. NoFuture' /\ StampedBefore'
  BY DEF TypeOK, NoFuture, StampedBefore
<1> QED
  BY <1>2, <1>3

\* What ends a cycle keeps its own part of the invariant.
LEMMA SendInv ==
  ASSUME IInv, NEW n \in Node, Judging(n), Send(n), UNCHANGED <<now, latest>>
  PROVE  /\ net' \subseteq Datagrams
         /\ cycle' \in [Node -> [at: {"down", "idle", "begun", "judge"},
                                 opNow: Nat, recvNow: Nat]]
         /\ lastSent' \in [Node -> Nat]
         /\ \A m \in Node : /\ lastSent'[m] <= now
                            /\ cycle'[m].opNow <= now
                            /\ cycle'[m].at = "judge" =>
                                 m # n /\ cycle'[m] = cycle[m]
         /\ StampedBefore'
<1> USE DEF IInv, Send
<1> DEFINE d == [to |-> Peer(n), jp |-> own[n], ts |-> cycle[n].opNow]
<1>1. d \in Datagrams /\ d.to = Peer(n) /\ d.ts <= now
  BY PeerIsANode DEF TypeOK, Datagrams, NoFuture
<1>2. \A m \in Node : lastSent[m] <= lastSent'[m] /\ lastSent'[m] <= now
  BY DEF TypeOK, NoFuture
<1>3. lastSent'[n] = now
  BY DEF TypeOK
<1>4. net' \subseteq net \cup {d}
  OBVIOUS
<1> HIDE DEF d
<1>5. \A e \in net' : e.ts <= lastSent'[Peer(e.to)]
  <2> TAKE e \in net'
  <2>1. CASE e = d
    BY <1>1, <1>3, <2>1, PeerIsANode
  <2>2. CASE e \in net
    <3>1. e.ts \in Nat /\ e.to \in Node /\ Peer(e.to) \in Node
      BY <2>2, PeerIsANode DEF TypeOK, Datagrams
    <3>2. e.ts <= lastSent[Peer(e.to)]
      BY <2>2 DEF StampedBefore
    <3>3. lastSent[Peer(e.to)] \in Nat /\ lastSent'[Peer(e.to)] \in Nat
      BY <3>1 DEF TypeOK
    <3> QED
      BY <1>2, <3>1, <3>2, <3>3
  <2> QED
    BY <1>4, <2>1, <2>2
<1>6. \A m \in Node : latest[m] # None => latest[m].ts <= lastSent'[Peer(m)]
  <2> TAKE m \in Node
  <2>1. /\ Peer(m) \in Node
        /\ lastSent[Peer(m)] \in Nat /\ lastSent'[Peer(m)] \in Nat
        /\ latest[m] # None => latest[m].ts \in Nat
    BY PeerIsANode DEF TypeOK, Packets
  <2> QED
    BY <1>2, <2>1 DEF StampedBefore
<1>7. net' \subseteq Datagrams
  BY <1>1, <1>4 DEF TypeOK
<1>8. cycle' \in [Node -> [at: {"down", "idle", "begun", "judge"},
                           opNow: Nat, recvNow: Nat]]
  BY DEF TypeOK, Resting
<1>9. \A m \in Node : /\ cycle'[m].opNow <= now
                      /\ cycle'[m].at = "judge" => m # n /\ cycle'[m] = cycle[m]
  BY DEF TypeOK, NoFuture, Resting
<1>10. lastSent' \in [Node -> Nat]
  BY DEF TypeOK
<1> QED
  BY <1>2, <1>5, <1>6, <1>7, <1>8, <1>9, <1>10 DEF StampedBefore

LEMMA AcceptPeerInv ==
  ASSUME IInv, NEW n \in Node, AcceptPeer(n)
  PROVE  IInv'
<1> USE DEF IInv, AcceptPeer
<1>1. Send(n) /\ Judging(n) /\ UNCHANGED <<now, latest>>
  OBVIOUS
<1>2. latest[n].jp \in Int /\ latest[n].ts \in Nat /\ latest[n].ts <= now
  <2>1. latest[n] \in Packets /\ Pos \subseteq Int
    BY TeleopAssumption DEF TypeOK, HeardFresh
  <2>2. latest[n].ts <= cycle[n].recvNow /\ cycle[n].recvNow <= now
    BY DEF HeardFresh, Fresh, Judging, NoFuture
  <2>3. cycle[n].recvNow \in Nat /\ now \in Nat
    BY DEF TypeOK
  <2>4. latest[n].jp \in Int /\ latest[n].ts \in Nat
    BY <2>1 DEF Packets
  <2> QED
    BY <2>2, <2>3, <2>4
<1>3. TypeOK'
  BY <1>1, <1>2, SendInv, MirroredIsInt DEF TypeOK
<1>4. NoFuture'
  BY <1>1, <1>2, SendInv DEF TypeOK, NoFuture
<1> QED
  BY <1>1, <1>3, <1>4, SendInv

LEMMA LosePeerInv ==
  ASSUME IInv, NEW n \in Node, LosePeer(n)
  PROVE  IInv'
<1> USE DEF IInv, LosePeer
<1>1. Send(n) /\ Judging(n) /\ UNCHANGED <<now, latest>>
  OBVIOUS
<1>2. own[n] \in Int
  BY TeleopAssumption DEF TypeOK
<1>3. TypeOK'
  BY <1>1, <1>2, SendInv DEF TypeOK
<1>4. NoFuture'
  BY <1>1, SendInv DEF TypeOK, NoFuture
<1> QED
  BY <1>1, <1>3, <1>4, SendInv

LEMMA ConsoleInv ==
  ASSUME IInv, NEW n \in Node, Console(n)
  PROVE  IInv'
<1> USE DEF IInv, Console, CheckPasses, TryLink, Unlink
<1>1. TypeOK'
  BY DEF TypeOK
<1>2. NoFuture' /\ StampedBefore'
  BY DEF NoFuture, StampedBefore
<1> QED
  BY <1>1, <1>2

LEMMA DeliverInv ==
  ASSUME IInv, NEW d \in net, Deliver(d)
  PROVE  IInv'
<1> USE DEF IInv, Deliver
<1>1. /\ d.to \in Node /\ [jp |-> d.jp, ts |-> d.ts] \in Packets
      /\ d.ts <= lastSent[Peer(d.to)]
  BY DEF TypeOK, Datagrams, Packets, StampedBefore
<1>2. TypeOK'
  BY <1>1 DEF TypeOK
<1>3. NoFuture'
  BY DEF NoFuture
<1>4. StampedBefore'
  BY <1>1 DEF TypeOK, StampedBefore
<1> QED
  BY <1>2, <1>3, <1>4

LEMMA DropInv ==
  ASSUME IInv, NEW d \in net, Drop(d)
  PROVE  IInv'
  BY DEF IInv, Drop, nodestate, TypeOK, NoFuture, StampedBefore

LEMMA CrashInv ==
  ASSUME IInv, NEW n \in Node, Crash(n)
  PROVE  IInv'
<1> USE DEF IInv, Crash
<1>1. TypeOK'
  BY TeleopAssumption DEF TypeOK, Resting
<1>2. NoFuture'
  BY DEF TypeOK, NoFuture, Resting
<1>3. StampedBefore'
  BY DEF TypeOK, StampedBefore
<1> QED
  BY <1>1, <1>2, <1>3

LEMMA RestartInv ==
  ASSUME IInv, NEW n \in Node, Restart(n)
  PROVE  IInv'
<1> USE DEF IInv, Restart
<1>1. TypeOK'
  BY DEF TypeOK, Resting
<1>2. NoFuture' /\ StampedBefore'
  BY DEF TypeOK, NoFuture, StampedBefore, Resting
<1> QED
  BY <1>1, <1>2

LEMMA TickInv == IInv /\ Tick => IInv'
<1> SUFFICES ASSUME IInv, Tick PROVE IInv'
  OBVIOUS
<1> USE DEF IInv, Tick, nodestate
<1>1. TypeOK'
  BY DEF TypeOK
<1>2. NoFuture' /\ StampedBefore'
  BY DEF TypeOK, NoFuture, StampedBefore
<1> QED
  BY <1>1, <1>2

LEMMA StutterInv == IInv /\ UNCHANGED vars => IInv'
  BY DEF IInv, vars, nodestate, TypeOK, NoFuture, StampedBefore

LEMMA NextInv == IInv /\ [Next]_vars => IInv'
  BY BeginCycleInv, ReadClockInv, AcceptPeerInv, LosePeerInv, ConsoleInv,
     DeliverInv, DropInv, CrashInv, RestartInv, TickInv, StutterInv
  DEF Next, NodeStep, Cycle

THEOREM Invariant == Spec => []IInv
  BY InitInv, NextInv, PTL DEF Spec

\* Both nodes' state and the datagrams between them are what they are declared
\* to be, in particular a mirrored position is a number.
THEOREM TypeCorrect == Spec => []TypeOK
<1>1. IInv => TypeOK
  BY DEF IInv
<1> QED
  BY Invariant, <1>1, PTL

-----------------------------------------------------------------------------
\* A node that ends a cycle linked has accepted a packet in it, and no other
\* action ends one.
LEMMA EndOfCycle ==
  ASSUME IInv, [Next]_vars, NEW n \in Node, Judged(n)
  PROVE  AcceptPeer(n) \/ LosePeer(n)
<1> USE DEF Judged, Judging, Resting
<1>1. cycle[n].at = "judge" /\ cycle'[n].at = "idle"
  OBVIOUS
<1>2. ASSUME NEW m \in Node, NodeStep(m)
      PROVE  AcceptPeer(n) \/ LosePeer(n)
  <2>1. CASE BeginCycle(m) \/ ReadClock(m) \/ Restart(m) \/ Crash(m)
    <3>1. DOMAIN cycle = Node
      BY DEF IInv, TypeOK
    <3>2. cycle'[n].at = "idle" => cycle[n].at # "judge"
      <4>1. CASE BeginCycle(m)
        BY <1>1, <3>1, <4>1 DEF BeginCycle
      <4>2. CASE ReadClock(m)
        BY <1>1, <3>1, <4>2 DEF ReadClock
      <4>3. CASE Restart(m)
        BY <1>1, <3>1, <4>3 DEF Restart
      <4>4. CASE Crash(m)
        BY <1>1, <3>1, <4>4 DEF Crash
      <4>. QED BY <2>1, <4>1, <4>2, <4>3, <4>4
    <3>. QED BY <1>1, <3>2
  <2>2. CASE AcceptPeer(m) \/ LosePeer(m)
    <3>1. m = n
      BY <1>1, <2>2 DEF AcceptPeer, LosePeer, Send, IInv, TypeOK
    <3> QED
      BY <2>2, <3>1
  <2>3. CASE Console(m)
    BY <1>1, <2>3 DEF Console, CheckPasses, TryLink, Unlink
  <2> QED
    BY <1>2, <2>1, <2>2, <2>3 DEF NodeStep, Cycle
<1>3. CASE UNCHANGED vars \/ Tick \/ \E d \in net : Deliver(d) \/ Drop(d)
  BY <1>1, <1>3 DEF vars, nodestate, Tick, Deliver, Drop
<1> QED
  BY <1>2, <1>3 DEF Next

LEMMA DeadManStep ==
  ASSUME IInv, [Next]_vars, NEW n \in Node, Judged(n), linked'[n]
  PROVE  lastSent[Peer(n)] + Timeout >= cycle[n].recvNow
<1>1. AcceptPeer(n)
  BY EndOfCycle DEF LosePeer, IInv, TypeOK
<1>2. /\ latest[n] \in Packets /\ cycle[n].recvNow \in Nat
      /\ lastSent[Peer(n)] \in Nat
  BY <1>1, PeerIsANode DEF AcceptPeer, HeardFresh, IInv, TypeOK
<1>3. cycle[n].recvNow - latest[n].ts <= Timeout
  BY <1>1 DEF AcceptPeer, HeardFresh, Fresh
<1>4. latest[n].ts <= lastSent[Peer(n)]
  BY <1>1 DEF AcceptPeer, HeardFresh, IInv, StampedBefore
<1> QED
  BY <1>2, <1>3, <1>4, TeleopAssumption DEF Packets

LEMMA RegressionStep ==
  ASSUME IInv, [Next]_vars, NEW n \in Node, Judged(n), alive'[n]
  PROVE  heard'[n] + Timeout >= heard[n]
<1>1. AcceptPeer(n)
  BY EndOfCycle DEF LosePeer, IInv, TypeOK
<1>2. /\ latest[n] \in Packets /\ cycle[n].recvNow \in Nat /\ heard[n] \in Nat
      /\ heard'[n] = latest[n].ts
  BY <1>1 DEF AcceptPeer, HeardFresh, IInv, TypeOK
<1>3. cycle[n].recvNow - latest[n].ts <= Timeout
  BY <1>1 DEF AcceptPeer, HeardFresh, Fresh
<1>4. heard[n] <= cycle[n].recvNow
  BY <1>1 DEF AcceptPeer, Judging, IInv, NoFuture
<1> QED
  BY <1>2, <1>3, <1>4, TeleopAssumption DEF Packets

\* The dead man's switch, for every timeout, every number of crashes and
\* restarts and every fate of the datagrams.
THEOREM TheDeadManSwitchHolds == Spec => DeadManSwitch
<1>1. IInv /\ [Next]_vars =>
        [\A n \in Node :
           Judged(n) /\ linked'[n]
             => lastSent[Peer(n)] + Timeout >= cycle[n].recvNow]_vars
  BY DeadManStep
<1> QED
  BY Invariant, <1>1, PTL DEF Spec, DeadManSwitch

\* However late and out of order packets come, what a node accepts is never
\* older than the timeout before what it accepted last.
THEOREM TheRegressionIsBounded == Spec => RegressionIsBounded
<1>1. IInv /\ [Next]_vars =>
        [\A n \in Node :
           Judged(n) /\ alive'[n] => heard'[n] + Timeout >= heard[n]]_vars
  BY RegressionStep
<1> QED
  BY Invariant, <1>1, PTL DEF Spec, RegressionIsBounded

\* Whatever the offset and whether the joint is mirrored, two nodes that know
\* where the other is agree on whether they may link.
THEOREM NearnessIsMutual == Spec => []NearIsMutual
<1>1. ASSUME IInv,
             \A n \in Node : their[n] = MirrorAndOffset(n, own[Peer(n)])
      PROVE  Near("leader") <=> Near("follower")
  <2> DEFINE l == own["leader"]
             f == own["follower"]
  <2>1. /\ l \in Int /\ f \in Int
        /\ Offset \in Int /\ Scale \in {1, -1}
    BY TeleopAssumption, <1>1 DEF IInv, TypeOK, Node
  <2>2. /\ their["leader"] = MirrorAndOffset("leader", f)
        /\ their["follower"] = MirrorAndOffset("follower", l)
    BY <1>1 DEF Node, Peer
  <2> HIDE DEF l, f
  <2>3. CASE Scale = 1
    <3>1. their["leader"] = f - Offset /\ their["follower"] = l + Offset
      BY <2>1, <2>2, <2>3, MirroredIsInt DEF Node
    <3>2. Distance(l, f - Offset) = Distance(f, l + Offset)
      BY <2>1 DEF Distance
    <3> QED
      BY <3>1, <3>2 DEF Near, l, f
  <2>4. CASE Scale = -1
    <3>1. their["leader"] = Offset - f /\ their["follower"] = Offset - l
      BY <2>1, <2>2, <2>4, MirroredIsInt DEF Node
    <3>2. Distance(l, Offset - f) = Distance(f, Offset - l)
      BY <2>1 DEF Distance
    <3> QED
      BY <3>1, <3>2 DEF Near, l, f
  <2> QED
    BY <2>1, <2>3, <2>4
<1>2. IInv => NearIsMutual
  BY <1>1 DEF NearIsMutual
<1> QED
  BY Invariant, <1>2, PTL

-----------------------------------------------------------------------------
(* A prompt network and no crash.  Within a tick every packet sent in it is *)
(* stored, so what a node holds is two ticks old at most: one that the      *)
(* peer's cycle may straddle, and the present one.                          *)

NobodyIsDown == \A n \in Node : cycle[n].at # "down"

\* Whoever is linked, or about to be, has been told where the peer is.
NewsIsKept ==
  \A n \in Node :
    alive[n] \/ linked[n] \/ console[n] = "checked" => latest[n] # None

Punctual ==
  \A n \in Node :
    /\ lastSent[n] >= now - 1
    /\ cycle[n].at \in {"begun", "judge"} =>
         /\ cycle[n].opNow >= now - 1
         /\ lastSent[n] = now => cycle[n].opNow = now

NetIsNew == \A d \in net : d.ts >= now - 1

NewsIsNew == \A n \in Node : latest[n] # None => latest[n].ts >= now - 2

\* What the peer sent in this tick is on its way or stored.
NewsArrives ==
  \A n \in Node :
    lastSent[Peer(n)] = now =>
      \/ \E d \in net : d.to = n
      \/ latest[n] # None => latest[n].ts >= now - 1

Prompt ==
  /\ NobodyIsDown /\ NewsIsKept /\ Punctual
  /\ NetIsNew /\ NewsIsNew /\ NewsArrives

LEMMA PromptIsNext == [PromptNext]_vars => [Next]_vars
BY DEF PromptNext, Next, PromptTick, Stored

LEMMA PromptInit == Init => Prompt
<1>. SUFFICES ASSUME Init PROVE Prompt
  OBVIOUS
<1>. USE DEF Init, Resting
<1>1. NobodyIsDown /\ NewsIsKept /\ NetIsNew /\ NewsIsNew /\ NewsArrives
  BY DEF NobodyIsDown, NewsIsKept, NetIsNew, NewsIsNew, NewsArrives
<1>2. Punctual
  BY DEF Punctual
<1>. QED BY <1>1, <1>2 DEF Prompt

LEMMA PromptBegins ==
  ASSUME IInv, Prompt, NEW n \in Node, BeginCycle(n) \/ ReadClock(n)
  PROVE  Prompt'
<1>1. UNCHANGED <<now, net, latest, alive, linked, console, lastSent>>
  BY DEF BeginCycle, ReadClock
<1>2. cycle \in [Node -> Cycles] /\ now \in Nat
  BY DEF IInv, TypeOK, Cycles
<1>3. \A m \in Node : cycle'[m].at # "down"
  BY <1>2 DEF BeginCycle, ReadClock, Prompt, NobodyIsDown, Cycles
<1>4. ASSUME NEW m \in Node, cycle'[m].at \in {"begun", "judge"}
      PROVE  /\ cycle'[m].opNow >= now - 1
             /\ lastSent[m] = now => cycle'[m].opNow = now
  <2>1. CASE m # n
    <3>1. cycle'[m] = cycle[m]
      BY <1>2, <2>1 DEF BeginCycle, ReadClock
    <3>. QED BY <1>4, <3>1 DEF Prompt, Punctual
  <2>2. CASE m = n /\ BeginCycle(n)
    BY <1>2, <2>2 DEF BeginCycle, Cycles
  <2>3. CASE m = n /\ ReadClock(n)
    <3>1. cycle'[m].opNow = cycle[m].opNow /\ cycle[m].at = "begun"
      BY <1>2, <2>3 DEF ReadClock, Cycles
    <3>. QED BY <3>1 DEF Prompt, Punctual
  <2>. QED BY <2>1, <2>2, <2>3
<1>5. NobodyIsDown' /\ Punctual'
  BY <1>1, <1>3, <1>4 DEF NobodyIsDown, Prompt, Punctual
<1>6. NewsIsKept' /\ NetIsNew' /\ NewsIsNew' /\ NewsArrives'
  BY <1>1 DEF Prompt, NewsIsKept, NetIsNew, NewsIsNew, NewsArrives
<1>. QED BY <1>5, <1>6 DEF Prompt

\* The end of a cycle, with room for its packet.
LEMMA PromptSends ==
  ASSUME IInv, Prompt, NEW n \in Node, AcceptPeer(n) \/ LosePeer(n), Room
  PROVE  Prompt'
<1>. DEFINE packet == [to |-> Peer(n), jp |-> own[n], ts |-> cycle[n].opNow]
<1>1. /\ UNCHANGED <<now, latest, console>>
      /\ net' = net \cup {packet}
      /\ lastSent' = [lastSent EXCEPT ![n] = now]
      /\ cycle' = [cycle EXCEPT ![n] = Resting]
      /\ cycle[n].at = "judge"
  BY DEF AcceptPeer, LosePeer, Send, Room, Judging
<1>2. /\ cycle \in [Node -> Cycles] /\ now \in Nat /\ lastSent \in [Node -> Nat]
      /\ alive \in [Node -> BOOLEAN] /\ linked \in [Node -> BOOLEAN]
  BY DEF IInv, TypeOK, Cycles
<1>3. cycle[n].opNow >= now - 1
  BY <1>1 DEF Prompt, Punctual
<1>4. NobodyIsDown'
  BY <1>1, <1>2 DEF Prompt, NobodyIsDown, Resting
<1>5. Punctual'
  <2>1. lastSent'[n] = now /\ cycle'[n].at = "idle"
    BY <1>1, <1>2 DEF Resting
  <2>2. \A m \in Node : m # n =>
          lastSent'[m] = lastSent[m] /\ cycle'[m] = cycle[m]
    BY <1>1, <1>2
  <2>. QED BY <1>1, <1>2, <2>1, <2>2 DEF Prompt, Punctual
<1>6. NewsIsKept'
  <2>1. latest[n] # None \/ (~alive'[n] /\ ~linked'[n])
    BY <1>2 DEF AcceptPeer, LosePeer, HeardFresh
  <2>2. \A m \in Node : m # n => alive'[m] = alive[m] /\ linked'[m] = linked[m]
    BY <1>2 DEF AcceptPeer, LosePeer
  <2>3. \A m \in Node : console[m] = "checked" => latest[m] # None
    BY DEF Prompt, NewsIsKept
  <2>. QED BY <1>1, <2>1, <2>2, <2>3 DEF Prompt, NewsIsKept
<1>7. NetIsNew'
  <2>1. packet.ts >= now - 1
    BY <1>3
  <2>. QED BY <1>1, <2>1 DEF Prompt, NetIsNew
<1>8. NewsIsNew'
  BY <1>1 DEF Prompt, NewsIsNew
<1>9. NewsArrives'
  <2>. SUFFICES ASSUME NEW m \in Node, lastSent'[Peer(m)] = now,
                       ~ \E d \in net' : d.to = m, latest[m] # None
                PROVE  latest[m].ts >= now - 1
    BY <1>1 DEF NewsArrives
  <2>1. packet.to # m /\ ~ \E d \in net : d.to = m
    BY <1>1
  <2>2. Peer(m) # n
    BY <2>1, PeerIsANode
  <2>3. lastSent[Peer(m)] = now
    BY <1>1, <1>2, <2>2, PeerIsANode
  <2>. QED BY <2>1, <2>3 DEF Prompt, NewsArrives
<1>. QED BY <1>4, <1>5, <1>6, <1>7, <1>8, <1>9 DEF Prompt

LEMMA PromptConsole ==
  ASSUME IInv, Prompt, NEW n \in Node, Console(n)
  PROVE  Prompt'
<1>1. UNCHANGED <<now, net, latest, alive, cycle, lastSent>>
  BY DEF Console, CheckPasses, TryLink, Unlink
<1>2. console \in [Node -> {"prompt", "checked"}] /\ linked \in [Node -> BOOLEAN]
  BY DEF IInv, TypeOK
<1>3. NewsIsKept'
  <2>1. linked'[n] \/ console'[n] = "checked" => latest[n] # None
    BY <1>2 DEF Console, CheckPasses, TryLink, Unlink, Prompt, NewsIsKept
  <2>2. \A m \in Node : m # n => console'[m] = console[m] /\ linked'[m] = linked[m]
    BY <1>2 DEF Console, CheckPasses, TryLink, Unlink
  <2>. QED BY <1>1, <2>1, <2>2 DEF Prompt, NewsIsKept
<1>. QED BY <1>1, <1>3 DEF Prompt, NobodyIsDown, Punctual, NetIsNew, NewsIsNew,
       NewsArrives

LEMMA PromptDelivers ==
  ASSUME IInv, Prompt, NEW d \in net, Deliver(d)
  PROVE  Prompt'
<1>1. /\ UNCHANGED <<now, net, alive, linked, cycle, console, lastSent>>
      /\ latest' = [latest EXCEPT ![d.to] = [jp |-> d.jp, ts |-> d.ts]]
  BY DEF Deliver
<1>2. /\ latest \in [Node -> Packets \cup {None}] /\ now \in Nat
      /\ d.to \in Node /\ [jp |-> d.jp, ts |-> d.ts] \in Packets /\ d.ts \in Nat
  BY DEF IInv, TypeOK, Datagrams, Packets
<1>3. /\ latest'[d.to] = [jp |-> d.jp, ts |-> d.ts]
      /\ latest'[d.to] # None
      /\ \A m \in Node : m # d.to => latest'[m] = latest[m]
  BY <1>1, <1>2, TeleopAssumption DEF Packets
<1>4. latest'[d.to].ts = d.ts /\ d.ts >= now - 1
  BY <1>3 DEF Prompt, NetIsNew
<1>5. NewsIsKept'
  BY <1>1, <1>3 DEF Prompt, NewsIsKept
<1>6. NewsIsNew'
  <2>1. d.ts >= now - 2
    BY <1>2, <1>4
  <2>. QED BY <1>1, <1>3, <1>4, <2>1 DEF Prompt, NewsIsNew
<1>7. NewsArrives'
  BY <1>1, <1>3, <1>4 DEF Prompt, NewsArrives
<1>. QED BY <1>1, <1>5, <1>6, <1>7 DEF Prompt, NobodyIsDown, Punctual, NetIsNew

LEMMA PromptDrops ==
  ASSUME IInv, Prompt, NEW d \in net, Stored(d)
  PROVE  Prompt'
<1>1. /\ UNCHANGED <<now, latest, alive, linked, cycle, console, lastSent>>
      /\ net' = net \ {d}
  BY DEF Stored, Drop, nodestate
<1>2. /\ latest \in [Node -> Packets \cup {None}] /\ now \in Nat
      /\ d.to \in Node /\ d.ts \in Nat
  BY DEF IInv, TypeOK, Datagrams
<1>3. latest[d.to] # None /\ latest[d.to].ts >= d.ts /\ d.ts >= now - 1
  BY <1>2 DEF Stored, Prompt, NobodyIsDown, NetIsNew
<1>4. latest[d.to].ts >= now - 1
  BY <1>2, <1>3 DEF Packets
<1>5. NewsArrives'
  <2>. SUFFICES ASSUME NEW m \in Node, lastSent[Peer(m)] = now,
                       ~ \E e \in net \ {d} : e.to = m, latest[m] # None
                PROVE  latest[m].ts >= now - 1
    BY <1>1 DEF NewsArrives
  <2>1. CASE m = d.to
    BY <1>4, <2>1
  <2>2. CASE m # d.to
    <3>1. ~ \E e \in net : e.to = m
      BY <2>2
    <3>. QED BY <3>1 DEF Prompt, NewsArrives
  <2>. QED BY <2>1, <2>2
<1>. QED BY <1>1, <1>5 DEF Prompt, NobodyIsDown, NewsIsKept, Punctual, NetIsNew,
       NewsIsNew

LEMMA PromptTicks ==
  ASSUME IInv, Prompt, PromptTick
  PROVE  Prompt'
<1>1. /\ UNCHANGED <<net, latest, alive, linked, cycle, console, lastSent>>
      /\ now' = now + 1
      /\ net = {}
      /\ \A n \in Node : lastSent[n] = now
  BY DEF PromptTick, Tick, nodestate, Prompt, NobodyIsDown
<1>2. /\ latest \in [Node -> Packets \cup {None}] /\ now \in Nat
      /\ cycle \in [Node -> Cycles]
  BY DEF IInv, TypeOK, Cycles
<1>3. NobodyIsDown' /\ NewsIsKept' /\ NetIsNew'
  BY <1>1 DEF Prompt, NobodyIsDown, NewsIsKept, NetIsNew
<1>4. Punctual'
  <2>1. \A n \in Node : cycle[n].opNow \in Nat
    BY <1>2 DEF Cycles
  <2>2. \A n \in Node : \/ cycle[n].at = "idle" \/ cycle[n].at = "down"
                        \/ cycle[n].at \in {"begun", "judge"}
    BY <1>2 DEF Cycles
  <2>. QED BY <1>1, <1>2, <2>1 DEF Prompt, Punctual
<1>5. NewsIsNew'
  <2>. SUFFICES ASSUME NEW n \in Node, latest[n] # None
                PROVE  latest[n].ts >= now - 1
    BY <1>1, <1>2 DEF NewsIsNew, Packets
  <2>. QED BY <1>1, PeerIsANode DEF Prompt, NewsArrives
<1>6. NewsArrives'
  <2>1. \A n \in Node : lastSent'[Peer(n)] # now'
    BY <1>1, <1>2, PeerIsANode
  <2>. QED BY <2>1 DEF NewsArrives
<1>. QED BY <1>3, <1>4, <1>5, <1>6 DEF Prompt

LEMMA PromptInv ==
  ASSUME IInv, Prompt, [PromptNext]_vars, MaxCrashes = 0
  PROVE  Prompt'
<1>1. ASSUME NEW n \in Node, NodeStep(n), Judging(n) => Room
      PROVE  Prompt'
  <2>1. ~Crash(n) /\ ~Restart(n)
    BY DEF Crash, Restart, IInv, TypeOK, Prompt, NobodyIsDown
  <2>. QED BY <1>1, <2>1, PromptBegins, PromptSends, PromptConsole
           DEF NodeStep, Cycle, AcceptPeer, LosePeer
<1>2. CASE UNCHANGED vars
  BY <1>2 DEF vars, nodestate, Prompt, NobodyIsDown, NewsIsKept, Punctual,
     NetIsNew, NewsIsNew, NewsArrives
<1>. QED BY <1>1, <1>2, PromptDelivers, PromptDrops, PromptTicks DEF PromptNext

\* Over a network that delivers within a tick, and with a timeout of two ticks
\* or more, no link is lost to age: not to the cycle that straddles a tick, nor
\* to the cycle of the peer that did.
THEOREM PromptLinksHold ==
  ASSUME MaxCrashes = 0, Timeout >= 2
  PROVE  PromptSpec => LostOnlyToOvertaking
<1>1. ASSUME IInv, Prompt, [Next]_vars, NEW n \in Node,
             Judged(n), linked[n], ~linked'[n]
      PROVE  latest[n].ts > cycle[n].recvNow
  <2>1. LosePeer(n)
    BY <1>1, EndOfCycle DEF AcceptPeer
  <2>2. latest[n] # None /\ latest[n].ts >= now - 2
    BY <1>1 DEF Prompt, NewsIsKept, NewsIsNew
  <2>3. /\ latest[n] \in Packets /\ cycle[n].recvNow \in Nat /\ now \in Nat
    BY <1>1, <2>2 DEF IInv, TypeOK
  <2>4. cycle[n].recvNow <= now
    BY <1>1 DEF Judged, Judging, IInv, NoFuture
  <2>5. ~Fresh(latest[n].ts, cycle[n].recvNow)
    BY <2>1, <2>2 DEF LosePeer, HeardFresh
  <2>6. latest[n].ts \in Nat
    BY <2>3 DEF Packets
  <2>. QED BY <2>2, <2>3, <2>4, <2>5, <2>6, TeleopAssumption DEF Fresh
<1>2. IInv /\ Prompt /\ [PromptNext]_vars => (IInv /\ Prompt)'
  BY NextInv, PromptInv, PromptIsNext
<1>3. IInv /\ Prompt /\ [PromptNext]_vars =>
        [\A n \in Node :
           Judged(n) /\ linked[n] /\ ~linked'[n]
             => latest[n].ts > cycle[n].recvNow]_vars
  BY <1>1, PromptIsNext
<1>. QED BY InitInv, PromptInit, <1>2, <1>3, PTL DEF PromptSpec, LostOnlyToOvertaking
=============================================================================
