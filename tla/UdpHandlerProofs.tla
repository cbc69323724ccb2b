-------------------------- MODULE UdpHandlerProofs --------------------------
(***************************************************************************)
(* Proofs about UdpHandler's safety, for every number of fields and frames *)
(* and every depth of the receive socket.                                  *)
(*                                                                         *)
(* The mutex has one holder at a time (MutexIsHeld); so the pending packet *)
(* is complete whenever the send thread may look at it (PendingIsWhole),   *)
(* and newer than all it has sent whenever the flag is up (Newer).         *)
(***************************************************************************)
EXTENDS UdpHandler, TLAPS

MutexIsHeld ==
  /\ send_mutex = "cycle" <=> cycle = "encode"
  /\ send_mutex = "sender" <=> sender \in {"test", "toSleep", "checkStop"}

\* Whoever passed the wait's test found the flag up, or must stop.
WokenForAReason ==
  sender = "checkStop" => new_data_available \/ stop_threads

PendingIsWhole ==
  /\ \A i \in 1..Len(pending_send) : pending_send[i] = frame
  /\ cycle # "idle" \/ new_data_available => frame > 0
  /\ cycle # "encode" /\ frame > 0 => Len(pending_send) = Fields

PacketIsWhole ==
  sender = "send" =>
    /\ Len(packet) = Fields
    /\ \A i \in 1..Fields : packet[i] = packet[1]

SentBefore(f) == \A i \in 1..Len(wire) : wire[i][1] < f

Newer ==
  /\ sender = "send" => SentBefore(packet[1])
  /\ new_data_available \/ cycle = "encode" =>
       SentBefore(frame) /\ (sender = "send" => packet[1] < frame)

Sent ==
  /\ \A i \in 1..Len(wire) :
       /\ Len(wire[i]) = Fields
       /\ wire[i][1] <= frame
       /\ \A k \in 1..Fields : wire[i][k] = wire[i][1]
  /\ \A i, j \in 1..Len(wire) : i < j => wire[i][1] < wire[j][1]
  /\ sender = "send" => packet[1] <= frame

ReceivedIsWhole ==
  receiver = "received" /\ len = Fields => Whole(buffer)

SendInv == /\ MutexIsHeld /\ WokenForAReason /\ PendingIsWhole
           /\ PacketIsWhole /\ Newer /\ Sent

IInv == TypeOK /\ SendInv /\ ReceivedIsWhole /\ LatestIsWhole

-----------------------------------------------------------------------------
\* What the invariant says when nothing has been sent yet, or received.
LEMMA InitInv == Init => IInv
<1> SUFFICES ASSUME Init PROVE IInv
  OBVIOUS
<1> USE DEF Init
<1>1. /\ Fields \in Nat /\ InboxCap \in Nat /\ MaxFrame \in Nat
      /\ buffer \in Packet
  BY HandlerAssumption DEF Packet
<1>2. /\ pending_send \in Seq(1..MaxFrame) /\ packet \in Seq(1..MaxFrame)
      /\ wire \in Seq(Seq(1..MaxFrame)) /\ inbox \in Seq(Datagrams)
      /\ Len(pending_send) = 0 /\ Len(packet) = 0 /\ Len(inbox) = 0
  OBVIOUS
<1>3. frame \in 0..MaxFrame /\ len \in 0..Fields
  BY <1>1
<1>4. Len(pending_send) <= Fields /\ Len(packet) <= Fields
      /\ Len(inbox) <= InboxCap
  BY <1>1, <1>2
<1>5. TypeOK
  BY <1>1, <1>2, <1>3, <1>4 DEF TypeOK
<1>6. SendInv
  BY DEF SendInv, MutexIsHeld, WokenForAReason, PendingIsWhole, PacketIsWhole,
         Newer, Sent, SentBefore
<1>7. ReceivedIsWhole /\ LatestIsWhole
  BY DEF ReceivedIsWhole, LatestIsWhole
<1> QED
  BY <1>5, <1>6, <1>7 DEF IInv

-----------------------------------------------------------------------------
(* The control cycle in send().                                            *)

LEMMA SendLockInv ==
  ASSUME IInv, SendLock
  PROVE  IInv'
<1> USE DEF IInv, SendLock, recvvars, stopvars
<1>1. frame' = frame + 1 /\ frame \in Nat /\ frame' \in 0..MaxFrame
  BY HandlerAssumption DEF TypeOK
<1>2. TypeOK'
  <2>1. pending_send' \in Seq(1..MaxFrame) /\ Len(pending_send') = 0
    OBVIOUS
  <2>2. Fields \in Nat
    BY HandlerAssumption
  <2> QED
    BY <1>1, <2>1, <2>2 DEF TypeOK
<1>3. MutexIsHeld' /\ WokenForAReason' /\ PendingIsWhole' /\ PacketIsWhole'
  BY <1>1 DEF SendInv, MutexIsHeld, WokenForAReason, PendingIsWhole,
              PacketIsWhole
<1>4. \A i \in 1..Len(wire) : wire[i][1] \in Nat /\ wire[i][1] <= frame
  <2> TAKE i \in 1..Len(wire)
  <2>1. wire[i] \in Seq(1..MaxFrame) /\ Len(wire[i]) = Fields /\ wire[i][1] <= frame
    BY DEF TypeOK, SendInv, Sent
  <2>2. 1 \in 1..Fields /\ MaxFrame \in Nat
    BY HandlerAssumption
  <2>3. wire[i][1] \in 1..MaxFrame
    BY <2>1, <2>2
  <2> QED
    BY <2>1, <2>2, <2>3
<1>5. sender = "send" => packet[1] \in Nat /\ packet[1] <= frame
  BY HandlerAssumption DEF TypeOK, SendInv, Sent, PacketIsWhole
<1>6. Newer' /\ Sent'
  BY <1>1, <1>4, <1>5 DEF SendInv, Newer, Sent, SentBefore
<1>7. ReceivedIsWhole' /\ LatestIsWhole'
  BY DEF ReceivedIsWhole, LatestIsWhole
<1> QED
  BY <1>2, <1>3, <1>6, <1>7 DEF SendInv

LEMMA EncodeFieldInv ==
  ASSUME IInv, EncodeField
  PROVE  IInv'
<1> USE DEF IInv, EncodeField, recvvars, stopvars
<1>1. frame \in 1..MaxFrame
  BY HandlerAssumption DEF TypeOK, SendInv, PendingIsWhole
<1>2. /\ pending_send' \in Seq(1..MaxFrame)
      /\ Len(pending_send') = Len(pending_send) + 1
      /\ Len(pending_send) \in Nat
      /\ \A i \in 1..Len(pending_send') :
           pending_send'[i] = IF i <= Len(pending_send)
                              THEN pending_send[i] ELSE frame
  BY <1>1 DEF TypeOK
<1>3. TypeOK'
  BY <1>2, HandlerAssumption DEF TypeOK
<1>4. PendingIsWhole'
  BY <1>2 DEF SendInv, PendingIsWhole
<1>5. /\ MutexIsHeld' /\ WokenForAReason' /\ PacketIsWhole' /\ Newer' /\ Sent'
      /\ ReceivedIsWhole' /\ LatestIsWhole'
  BY DEF SendInv, MutexIsHeld, WokenForAReason, PacketIsWhole, Newer, Sent,
         SentBefore, ReceivedIsWhole, LatestIsWhole
<1> QED
  BY <1>3, <1>4, <1>5 DEF SendInv

LEMMA SendUnlockInv ==
  ASSUME IInv, SendUnlock
  PROVE  IInv'
<1> USE DEF IInv, SendUnlock, recvvars, stopvars
<1>1. TypeOK'
  BY DEF TypeOK
<1>2. SendInv'
  BY DEF SendInv, MutexIsHeld, WokenForAReason, PendingIsWhole, PacketIsWhole,
         Newer, Sent, SentBefore
<1>3. ReceivedIsWhole' /\ LatestIsWhole'
  BY DEF ReceivedIsWhole, LatestIsWhole
<1> QED
  BY <1>1, <1>2, <1>3

\* To be notified is to change place outside the mutex and nothing else.
LEMMA NotifyInv ==
  ASSUME IInv, sender' = Woken,
         cycle' = cycle \/ (cycle = "notify" /\ cycle' = "idle"),
         stopper' \in {"running", "notify", "shutdown", "joinReceiver",
                       "joinSender", "stopped"},
         UNCHANGED <<frame, send_mutex, pending_send, new_data_available, packet,
                     wire, inbox, recvvars, stop_threads, shut>>
  PROVE  IInv'
<1> USE DEF IInv, Woken, recvvars
<1>1. TypeOK'
  BY DEF TypeOK
<1>2. SendInv'
  BY DEF SendInv, MutexIsHeld, WokenForAReason, PendingIsWhole, PacketIsWhole,
         Newer, Sent, SentBefore
<1>3. ReceivedIsWhole' /\ LatestIsWhole'
  BY DEF ReceivedIsWhole, LatestIsWhole
<1> QED
  BY <1>1, <1>2, <1>3

-----------------------------------------------------------------------------
(* sendLoop().                                                             *)

\* The steps that neither take a packet nor send one.
LEMMA SenderMovesInv ==
  ASSUME IInv, SenderTop \/ SenderLock \/ TestPredicate \/ Sleep
               \/ SenderBreak \/ SpuriousWakeup
  PROVE  IInv'
<1> USE DEF IInv, SenderTop, SenderLock, TestPredicate, Sleep, SenderBreak,
            SpuriousWakeup, SenderAt, recvvars, stopvars
<1>1. TypeOK'
  BY DEF TypeOK
<1>2. MutexIsHeld' /\ WokenForAReason'
  BY DEF SendInv, MutexIsHeld, WokenForAReason, TypeOK
<1>3. PendingIsWhole' /\ PacketIsWhole' /\ Newer' /\ Sent'
  BY DEF SendInv, PendingIsWhole, PacketIsWhole, Newer, Sent, SentBefore
<1>4. ReceivedIsWhole' /\ LatestIsWhole'
  BY DEF ReceivedIsWhole, LatestIsWhole
<1> QED
  BY <1>1, <1>2, <1>3, <1>4 DEF SendInv

LEMMA TakePendingInv ==
  ASSUME IInv, TakePending
  PROVE  IInv'
<1> USE DEF IInv, TakePending, SenderAt, recvvars, stopvars
<1>1. TypeOK'
  BY DEF TypeOK
<1>2. new_data_available /\ cycle # "encode" /\ frame > 0
  BY DEF SendInv, WokenForAReason, MutexIsHeld, PendingIsWhole
<1>3. Len(packet') = Fields /\ \A i \in 1..Fields : packet'[i] = frame
  BY <1>2 DEF SendInv, PendingIsWhole
<1>4. 1 \in 1..Fields /\ frame \in Nat
  BY HandlerAssumption DEF TypeOK
<1>5. MutexIsHeld' /\ WokenForAReason' /\ PendingIsWhole'
  BY <1>2 DEF SendInv, MutexIsHeld, WokenForAReason, PendingIsWhole
<1>6. PacketIsWhole' /\ Newer' /\ Sent'
  BY <1>2, <1>3, <1>4 DEF SendInv, PacketIsWhole, Newer, Sent, SentBefore
<1>7. ReceivedIsWhole' /\ LatestIsWhole'
  BY DEF ReceivedIsWhole, LatestIsWhole
<1> QED
  BY <1>1, <1>5, <1>6, <1>7 DEF SendInv

LEMMA SendToInv ==
  ASSUME IInv, SendTo
  PROVE  IInv'
<1> USE DEF IInv, SendTo, SenderAt, recvvars, stopvars
<1>1. /\ wire' \in Seq(Seq(1..MaxFrame))
      /\ Len(wire') = Len(wire) + 1 /\ Len(wire) \in Nat
      /\ \A i \in 1..Len(wire) : wire'[i] = wire[i]
      /\ wire'[Len(wire) + 1] = packet
  BY DEF TypeOK
<1>2. TypeOK'
  BY <1>1 DEF TypeOK
<1>3. MutexIsHeld' /\ WokenForAReason' /\ PendingIsWhole' /\ PacketIsWhole'
  BY DEF SendInv, MutexIsHeld, WokenForAReason, PendingIsWhole, PacketIsWhole
<1>4. \A i \in 1..Len(wire') : i \in 1..Len(wire) \/ i = Len(wire) + 1
  BY <1>1
<1>5. Newer'
  BY <1>1, <1>4 DEF SendInv, Newer, SentBefore
<1>6. Sent'
  <2>1. \A i \in 1..Len(wire') :
          /\ Len(wire'[i]) = Fields
          /\ wire'[i][1] <= frame
          /\ \A k \in 1..Fields : wire'[i][k] = wire'[i][1]
    BY <1>1, <1>4 DEF SendInv, Sent, PacketIsWhole
  <2>2. \A i, j \in 1..Len(wire') : i < j => wire'[i][1] < wire'[j][1]
    BY <1>1, <1>4 DEF SendInv, Sent, Newer, SentBefore
  <2> QED
    BY <2>1, <2>2 DEF Sent
<1>7. ReceivedIsWhole' /\ LatestIsWhole'
  BY DEF ReceivedIsWhole, LatestIsWhole
<1> QED
  BY <1>2, <1>3, <1>5, <1>6, <1>7 DEF SendInv

-----------------------------------------------------------------------------
(* receiveLoop(), and what leaves both threads alone.                      *)

LEMMA SendInvUnchanged ==
  ASSUME SendInv, UNCHANGED sendvars, stop_threads => stop_threads'
  PROVE  SendInv'
  BY DEF sendvars, SendInv, MutexIsHeld, WokenForAReason, PendingIsWhole,
         PacketIsWhole, Newer, Sent, SentBefore

LEMMA ArriveInv ==
  ASSUME IInv, Arrive
  PROVE  IInv'
<1> USE DEF IInv, Arrive
<1>1. inbox' \in Seq(Datagrams) /\ Len(inbox') <= InboxCap
  <2>1. PICK d \in Datagrams : inbox' = Append(inbox, d)
    OBVIOUS
  <2> QED
    BY <2>1, HandlerAssumption DEF TypeOK
<1>2. TypeOK'
  BY <1>1 DEF TypeOK, sendvars, recvvars, stopvars
<1>3. SendInv' /\ ReceivedIsWhole' /\ LatestIsWhole'
  BY SendInvUnchanged DEF recvvars, stopvars, ReceivedIsWhole, LatestIsWhole
<1> QED
  BY <1>2, <1>3

LEMMA ReceiveDatagramInv ==
  ASSUME IInv, ReceiveDatagram
  PROVE  IInv'
<1> USE DEF IInv, ReceiveDatagram
<1> DEFINE d == Head(inbox)
<1>1. /\ d \in Datagrams /\ inbox' \in Seq(Datagrams)
      /\ Len(inbox') <= InboxCap
  BY HandlerAssumption DEF TypeOK
<1>2. Fields \in Nat \ {0} /\ PeerFrames \subseteq Nat
  BY HandlerAssumption
<1>3. /\ buffer' = [i \in 1..Fields |-> IF i <= d.size THEN d.frame ELSE buffer[i]]
      /\ len' = IF d.size > Fields THEN Fields ELSE d.size
  OBVIOUS
<1> HIDE DEF d
<1>4. d.size \in (Fields - 1)..(Fields + 1) /\ d.frame \in Nat
  BY <1>1, <1>2 DEF Datagrams
<1>5. buffer' \in Packet
  BY <1>3, <1>4 DEF TypeOK, Packet
<1>6. len' \in 0..Fields
  BY <1>2, <1>3, <1>4
<1>7. len' = Fields => Whole(buffer')
  <2>1. len' = Fields => \A i \in 1..Fields : i <= d.size
    BY <1>2, <1>3, <1>4
  <2> QED
    BY <1>3, <2>1 DEF Whole
<1>8. TypeOK'
  BY <1>1, <1>5, <1>6 DEF TypeOK, sendvars, stopvars
<1>9. SendInv' /\ ReceivedIsWhole' /\ LatestIsWhole'
  BY <1>7, SendInvUnchanged DEF stopvars, ReceivedIsWhole, LatestIsWhole
<1> QED
  BY <1>8, <1>9

LEMMA OtherReceiverInv ==
  ASSUME IInv, ReceiverTop \/ ReceiveNothing \/ StoreLatest
  PROVE  IInv'
<1> USE DEF IInv, ReceiverTop, ReceiveNothing, StoreLatest
<1>1. TypeOK'
  <2>1. /\ receiver' \in {"top", "receive", "received", "done"}
        /\ UNCHANGED <<sendvars, inbox, buffer, stopvars>>
    OBVIOUS
  <2>2. len' \in 0..Fields
    BY HandlerAssumption DEF TypeOK
  <2>3. latest_received' \in Packet \cup {None}
    BY DEF TypeOK
  <2>4. /\ UNCHANGED <<frame, cycle, send_mutex, pending_send>>
        /\ UNCHANGED <<new_data_available, sender, packet, wire>>
        /\ UNCHANGED <<inbox, buffer, stop_threads, stopper, shut>>
    BY <2>1 DEF sendvars, stopvars
  <2>. QED BY <2>1, <2>2, <2>3, <2>4 DEF TypeOK
<1>2. ReceivedIsWhole' /\ LatestIsWhole'
  BY HandlerAssumption DEF ReceivedIsWhole, LatestIsWhole
<1>3. SendInv'
  BY SendInvUnchanged DEF stopvars
<1> QED
  BY <1>1, <1>2, <1>3

\* stop(), but for its notification.
LEMMA StopInv ==
  ASSUME IInv, SetStop \/ ShutdownSocket \/ JoinReceiver \/ JoinSender
  PROVE  IInv'
<1> USE DEF IInv, SetStop, ShutdownSocket, JoinReceiver, JoinSender, StopperAt
<1>1. TypeOK'
  BY DEF TypeOK, sendvars, recvvars
<1>2. SendInv' /\ ReceivedIsWhole' /\ LatestIsWhole'
  BY SendInvUnchanged DEF recvvars, ReceivedIsWhole, LatestIsWhole
<1> QED
  BY <1>1, <1>2

LEMMA StutterInv ==
  ASSUME IInv, UNCHANGED vars
  PROVE  IInv'
<1> USE DEF IInv, vars
<1>1. TypeOK'
  BY DEF TypeOK, sendvars, recvvars, stopvars
<1>2. SendInv' /\ ReceivedIsWhole' /\ LatestIsWhole'
  BY SendInvUnchanged DEF recvvars, stopvars, ReceivedIsWhole, LatestIsWhole
<1> QED
  BY <1>1, <1>2

LEMMA NextInv == IInv /\ [Next]_vars => IInv'
<1> SUFFICES ASSUME IInv, [Next]_vars PROVE IInv'
  OBVIOUS
<1>1. CASE NotifyOne
  BY <1>1, NotifyInv DEF NotifyOne, stopvars, IInv, TypeOK
<1>2. CASE NotifyAll
  BY <1>2, NotifyInv DEF NotifyAll, StopperAt
<1> QED
  BY <1>1, <1>2, SendLockInv, EncodeFieldInv, SendUnlockInv, SenderMovesInv,
     TakePendingInv, SendToInv, ArriveInv, ReceiveDatagramInv, OtherReceiverInv,
     StopInv, StutterInv
  DEF Next, Send, SendLoop, ReceiveLoop, Stop

\* Every packet sent has Fields fields, the first of which names its state.
LEMMA WireOf ==
  ASSUME IInv
  PROVE  /\ DOMAIN wire = 1..Len(wire)
         /\ \A i \in 1..Len(wire) :
              /\ DOMAIN wire[i] = 1..Fields /\ Len(wire[i]) = Fields
              /\ Head(wire[i]) = wire[i][1]
<1>1. wire \in Seq(Seq(1..MaxFrame))
  BY DEF IInv, TypeOK
<1>2. DOMAIN wire = 1..Len(wire)
  BY <1>1
<1>3. ASSUME NEW i \in 1..Len(wire)
      PROVE  /\ DOMAIN wire[i] = 1..Fields /\ Len(wire[i]) = Fields
             /\ Head(wire[i]) = wire[i][1]
  <2>1. wire[i] \in Seq(1..MaxFrame)
    BY <1>1
  <2>2. Len(wire[i]) = Fields
    BY DEF IInv, SendInv, Sent
  <2> QED
    BY <2>1, <2>2
<1> QED
  BY <1>2, <1>3

THEOREM Invariant == Spec => []IInv
  BY InitInv, NextInv, PTL DEF Spec

\* The handler's members and threads are what they are declared to be.
THEOREM TypeCorrect == Spec => []TypeOK
<1>1. IInv => TypeOK
  BY DEF IInv
<1> QED
  BY Invariant, <1>1, PTL

\* However the cycle and the send thread interleave, and however large a packet
\* is, what is sent is one state and all of it.
THEOREM WhatIsSentIsWhole == Spec => []SentWhole
<1>1. IInv => SentWhole
  BY WireOf DEF IInv, SendInv, Sent, SentWhole, Whole
<1> QED
  BY Invariant, <1>1, PTL

\* Nothing is sent twice or after something newer, however often the send
\* thread is woken.
THEOREM WhatIsSentIsInOrder == Spec => []SentInOrder
<1>1. IInv => SentInOrder
  BY WireOf DEF IInv, SendInv, Sent, SentInOrder
<1> QED
  BY Invariant, <1>1, PTL

\* What is kept of the peer is one datagram, whatever sizes came before it.
THEOREM WhatIsKeptIsWhole == Spec => []LatestIsWhole
<1>1. IInv => LatestIsWhole
  BY DEF IInv
<1> QED
  BY Invariant, <1>1, PTL
=============================================================================
