----------------------------- MODULE UdpHandler -----------------------------
(***************************************************************************)
(* A teleop UDP handler (LeaderUDPHandler and FollowerUDPHandler differ    *)
(* only in names): the control cycle hands it a state to send, its send    *)
(* thread waits on a condition variable and puts the newest encoded state  *)
(* on the wire, its receive thread blocks in receive_from and keeps the    *)
(* latest datagram of the configured size, and stop() ends both threads.   *)
(*                                                                         *)
(* A frame is one state handed to send(), numbered in order.  A packet is  *)
(* a sequence of fields, each labelled with the frame it was copied from;  *)
(* a packet is whole when all its fields carry the same label.             *)
(*                                                                         *)
(* Waiting on the condition variable is split where the mutex does not     *)
(* cover it: the predicate is evaluated, then the thread goes to sleep.    *)
(* A notification that finds nobody asleep is gone.                        *)
(***************************************************************************)
EXTENDS Naturals, Sequences

CONSTANTS
  Fields,      \* how many fields data_routing puts in a packet
  MaxFrame,    \* bound on the frames handed to send()
  PeerFrames,  \* frames the peer's datagrams may be made from
  InboxCap,    \* datagrams the receive socket can queue
  None         \* an empty boost::optional

ASSUME HandlerAssumption ==
  /\ Fields \in Nat \ {0}
  /\ MaxFrame \in Nat
  /\ PeerFrames \subseteq Nat \ {0}
  /\ InboxCap \in Nat \ {0}
  /\ None \notin [1..Fields -> Nat]

VARIABLES
  frame,               \* the last frame handed to send()
  cycle,               \* where the control cycle is in send()
  send_mutex,          \* who holds it: "free", "cycle" or "sender"
  pending_send,        \* the packet being encoded, or waiting to be sent
  new_data_available,
  sender,              \* where sendLoop() is
  packet,              \* sendLoop()'s own copy
  wire,                \* every packet sent so far, in order
  inbox,               \* datagrams queued at the receive socket
  shut,                \* the receive socket is shut down
  receiver,            \* where receiveLoop() is
  buffer,              \* receiveLoop()'s buffer
  len,                 \* what receive_from returned
  latest_received,
  stop_threads,
  stopper              \* where stop() is

sendvars == <<frame, cycle, send_mutex, pending_send, new_data_available,
              sender, packet, wire>>
recvvars == <<receiver, buffer, len, latest_received>>
stopvars == <<stop_threads, stopper, shut>>
vars == <<sendvars, inbox, recvvars, stopvars>>

Packet == [1..Fields -> Nat]
Datagrams == [size: (Fields - 1)..(Fields + 1), frame: PeerFrames]

Whole(p) == \A i, j \in DOMAIN p : p[i] = p[j]

-----------------------------------------------------------------------------
\* The constructor validates the routing, opens the sockets, starts the threads.
Init ==
  /\ frame = 0
  /\ cycle = "idle"
  /\ send_mutex = "free"
  /\ pending_send = <<>>
  /\ new_data_available = FALSE
  /\ sender = "top"
  /\ packet = <<>>
  /\ wire = <<>>
  /\ inbox = <<>>
  /\ shut = FALSE
  /\ receiver = "top"
  /\ buffer = [i \in 1..Fields |-> 0]
  /\ len = 0
  /\ latest_received = None
  /\ stop_threads = FALSE
  /\ stopper = "running"

-----------------------------------------------------------------------------
(* send(), called by the control cycle.                                    *)

\* Mutant: the packet is encoded without the mutex.
Mut_SendUnlocked ==
  /\ cycle = "idle" /\ stopper = "running"
  /\ frame < MaxFrame
  /\ frame' = frame + 1
  /\ pending_send' = <<>>
  /\ cycle' = "encode"
  /\ UNCHANGED <<send_mutex, new_data_available, sender, packet, wire, inbox,
                 recvvars, stopvars>>

\* send() takes the mutex and encode() clears its output.  The owner stops
\* the control cycle before it destroys the handler.
SendLock ==
  /\ cycle = "idle" /\ stopper = "running"
  /\ frame < MaxFrame
  /\ send_mutex = "free"
  /\ send_mutex' = "cycle"
  /\ frame' = frame + 1
  /\ pending_send' = <<>>
  /\ cycle' = "encode"
  /\ UNCHANGED <<new_data_available, sender, packet, wire, inbox, recvvars,
                 stopvars>>

\* encode() copies one more field.  Names were validated: it cannot fail.
EncodeField ==
  /\ cycle = "encode"
  /\ Len(pending_send) < Fields
  /\ pending_send' = Append(pending_send, frame)
  /\ UNCHANGED <<frame, cycle, send_mutex, new_data_available, sender, packet,
                 wire, inbox, recvvars, stopvars>>

\* The flag is raised and the mutex released.
SendUnlock ==
  /\ cycle = "encode"
  /\ Len(pending_send) = Fields
  /\ new_data_available' = TRUE
  /\ send_mutex' = "free"
  /\ cycle' = "notify"
  /\ UNCHANGED <<frame, pending_send, sender, packet, wire, inbox, recvvars,
                 stopvars>>

\* Mutant: nobody is notified.
Mut_NoNotify ==
  /\ cycle = "notify"
  /\ cycle' = "idle"
  /\ UNCHANGED <<frame, send_mutex, pending_send, new_data_available, sender,
                 packet, wire, inbox, recvvars, stopvars>>

\* Who is asleep wakes up and must take the mutex again.
Woken == IF sender = "asleep" THEN "relock" ELSE sender

\* notify_one(), outside the mutex.
NotifyOne ==
  /\ cycle = "notify"
  /\ cycle' = "idle"
  /\ sender' = Woken
  /\ UNCHANGED <<frame, send_mutex, pending_send, new_data_available, packet,
                 wire, inbox, recvvars, stopvars>>

Send == SendLock \/ EncodeField \/ SendUnlock \/ NotifyOne

-----------------------------------------------------------------------------
(* sendLoop().                                                             *)

SenderAt(from, to) == sender = from /\ sender' = to

\* while (!stop_threads); leaving the loop closes the socket.
SenderTop ==
  /\ SenderAt("top", IF stop_threads THEN "done" ELSE "relock")
  /\ UNCHANGED <<frame, cycle, send_mutex, pending_send, new_data_available,
                 packet, wire, inbox, recvvars, stopvars>>

\* Takes the mutex, at the loop's start and after every wake-up.
SenderLock ==
  /\ SenderAt("relock", "test")
  /\ send_mutex = "free"
  /\ send_mutex' = "sender"
  /\ UNCHANGED <<frame, cycle, pending_send, new_data_available, packet, wire,
                 inbox, recvvars, stopvars>>

\* Evaluates the wait's predicate, the mutex held.
TestPredicate ==
  /\ SenderAt("test", IF new_data_available \/ stop_threads
                      THEN "checkStop" ELSE "toSleep")
  /\ UNCHANGED <<frame, cycle, send_mutex, pending_send, new_data_available,
                 packet, wire, inbox, recvvars, stopvars>>

\* Releases the mutex and sleeps, in one step for whoever needs the mutex.
Sleep ==
  /\ SenderAt("toSleep", "asleep")
  /\ send_mutex' = "free"
  /\ UNCHANGED <<frame, cycle, pending_send, new_data_available, packet, wire,
                 inbox, recvvars, stopvars>>

\* A condition variable may wake a thread for no reason.
SpuriousWakeup ==
  /\ SenderAt("asleep", "relock")
  /\ UNCHANGED <<frame, cycle, send_mutex, pending_send, new_data_available,
                 packet, wire, inbox, recvvars, stopvars>>

\* if (stop_threads) break; the guard's scope ends with it.
SenderBreak ==
  /\ SenderAt("checkStop", "done")
  /\ stop_threads
  /\ send_mutex' = "free"
  /\ UNCHANGED <<frame, cycle, pending_send, new_data_available, packet, wire,
                 inbox, recvvars, stopvars>>

\* Mutant: the flag is left raised.
Mut_TakeKeepsFlag ==
  /\ SenderAt("checkStop", "send")
  /\ ~stop_threads
  /\ packet' = pending_send
  /\ send_mutex' = "free"
  /\ UNCHANGED <<frame, cycle, pending_send, new_data_available, wire, inbox,
                 recvvars, stopvars>>

\* Copies the pending packet, lowers the flag, releases the mutex.
TakePending ==
  /\ SenderAt("checkStop", "send")
  /\ ~stop_threads
  /\ packet' = pending_send
  /\ new_data_available' = FALSE
  /\ send_mutex' = "free"
  /\ UNCHANGED <<frame, cycle, pending_send, wire, inbox, recvvars, stopvars>>

\* send_to(), outside the mutex.
SendTo ==
  /\ SenderAt("send", "top")
  /\ wire' = Append(wire, packet)
  /\ UNCHANGED <<frame, cycle, send_mutex, pending_send, new_data_available,
                 packet, inbox, recvvars, stopvars>>

SendLoop ==
  \/ SenderTop \/ SenderLock \/ TestPredicate \/ Sleep \/ SenderBreak
  \/ TakePending \/ SendTo

-----------------------------------------------------------------------------
(* receiveLoop() and the socket it reads.                                  *)

\* A datagram reaches the socket: from our peer, whole, or from one with
\* another routing, too short or too long.
Arrive ==
  /\ Len(inbox) < InboxCap
  /\ \E d \in Datagrams : inbox' = Append(inbox, d)
  /\ UNCHANGED <<sendvars, recvvars, stopvars>>

\* while (!stop_threads); leaving the loop closes the socket.
ReceiverTop ==
  /\ receiver = "top"
  /\ receiver' = IF stop_threads THEN "done" ELSE "receive"
  /\ UNCHANGED <<sendvars, inbox, buffer, len, latest_received, stopvars>>

\* receive_from() overwrites as much of the buffer as the datagram has, and
\* never more than the buffer's size: the excess of a long one is discarded.
ReceiveDatagram ==
  /\ receiver = "receive"
  /\ inbox # <<>>
  /\ receiver' = "received"
  /\ buffer' = [i \in 1..Fields |->
                  IF i <= Head(inbox).size THEN Head(inbox).frame
                  ELSE buffer[i]]
  /\ len' = IF Head(inbox).size > Fields THEN Fields ELSE Head(inbox).size
  /\ inbox' = Tail(inbox)
  /\ UNCHANGED <<sendvars, latest_received, stopvars>>

\* receive_from() on a socket that was shut down returns nothing.
ReceiveNothing ==
  /\ receiver = "receive"
  /\ shut /\ inbox = <<>>
  /\ receiver' = "received"
  /\ len' = 0
  /\ UNCHANGED <<sendvars, inbox, buffer, latest_received, stopvars>>

\* Mutant: only a packet that is too long is refused.
Mut_StoreShort ==
  /\ receiver = "received"
  /\ receiver' = "top"
  /\ latest_received' = IF len = 0 THEN latest_received ELSE buffer
  /\ UNCHANGED <<sendvars, inbox, buffer, len, stopvars>>

\* A datagram of any other size is ignored; the rest become the latest.
StoreLatest ==
  /\ receiver = "received"
  /\ receiver' = "top"
  /\ latest_received' = IF len = Fields THEN buffer ELSE latest_received
  /\ UNCHANGED <<sendvars, inbox, buffer, len, stopvars>>

ReceiveLoop == ReceiverTop \/ ReceiveDatagram \/ ReceiveNothing \/ StoreLatest

-----------------------------------------------------------------------------
(* stop(), called when the handler is destroyed.                           *)

StopperAt(from, to) == stopper = from /\ stopper' = to

\* The flag is an atomic: it is raised without the mutex.
SetStop ==
  /\ StopperAt("running", "notify")
  /\ cycle = "idle"
  /\ stop_threads' = TRUE
  /\ UNCHANGED <<sendvars, inbox, recvvars, shut>>

\* Mutant: the send thread is left asleep.
Mut_NotifyNobody ==
  /\ StopperAt("notify", "shutdown")
  /\ UNCHANGED <<sendvars, inbox, recvvars, stop_threads, shut>>

\* notify_all(), again without the mutex.
NotifyAll ==
  /\ StopperAt("notify", "shutdown")
  /\ sender' = Woken
  /\ UNCHANGED <<frame, cycle, send_mutex, pending_send, new_data_available,
                 packet, wire, inbox, recvvars, stop_threads, shut>>

\* Shutting the socket down wakes whoever is blocked in receive_from.
ShutdownSocket ==
  /\ StopperAt("shutdown", "joinReceiver")
  /\ shut' = TRUE
  /\ UNCHANGED <<sendvars, inbox, recvvars, stop_threads>>

JoinReceiver ==
  /\ StopperAt("joinReceiver", "joinSender")
  /\ receiver = "done"
  /\ UNCHANGED <<sendvars, inbox, recvvars, stop_threads, shut>>

JoinSender ==
  /\ StopperAt("joinSender", "stopped")
  /\ sender = "done"
  /\ UNCHANGED <<sendvars, inbox, recvvars, stop_threads, shut>>

Stop == NotifyAll \/ ShutdownSocket \/ JoinReceiver \/ JoinSender

-----------------------------------------------------------------------------
Next ==
  \/ Send \/ SendLoop \/ SpuriousWakeup \/ Arrive \/ ReceiveLoop
  \/ SetStop \/ Stop

Spec == Init /\ [][Next]_vars

\* Threads that can run do.  Nothing makes the control cycle call send(), the
\* peer send, the owner stop, or a condition variable wake for no reason.  The
\* sender competes for the mutex with a cycle that runs every 2 ms.
Fairness ==
  /\ WF_vars(EncodeField \/ SendUnlock \/ NotifyOne)
  /\ WF_vars(SendLoop) /\ SF_vars(SenderLock)
  /\ WF_vars(ReceiveLoop)
  /\ WF_vars(Stop)

FairSpec == Spec /\ Fairness

-----------------------------------------------------------------------------
(* Properties.                                                             *)

\* The type invariant of the handler's members and threads.
TypeOK ==
  /\ frame \in 0..MaxFrame
  /\ cycle \in {"idle", "encode", "notify"}
  /\ send_mutex \in {"free", "cycle", "sender"}
  /\ pending_send \in Seq(1..MaxFrame) /\ Len(pending_send) <= Fields
  /\ new_data_available \in BOOLEAN
  /\ sender \in {"top", "relock", "test", "toSleep", "asleep", "checkStop",
                 "send", "done"}
  /\ packet \in Seq(1..MaxFrame) /\ Len(packet) <= Fields
  /\ wire \in Seq(Seq(1..MaxFrame))
  /\ inbox \in Seq(Datagrams) /\ Len(inbox) <= InboxCap
  /\ shut \in BOOLEAN
  /\ receiver \in {"top", "receive", "received", "done"}
  /\ buffer \in Packet
  /\ len \in 0..Fields
  /\ latest_received \in Packet \cup {None}
  /\ stop_threads \in BOOLEAN
  /\ stopper \in {"running", "notify", "shutdown", "joinReceiver",
                  "joinSender", "stopped"}

\* Every packet on the wire has all its fields, all from one call of send():
\* the send thread never copies a packet the control cycle is encoding.
SentWhole == \A i \in DOMAIN wire : Len(wire[i]) = Fields /\ Whole(wire[i])

\* Packets leave in the order the cycle handed them over, and none twice: a
\* wake-up, spurious or not, never sends an old state again.
SentInOrder ==
  \A i, j \in DOMAIN wire : i < j => Head(wire[i]) < Head(wire[j])

\* What the node decodes as one packet was one datagram: leftovers in the
\* buffer of an earlier, shorter or longer, datagram are never part of it.
LatestIsWhole == latest_received # None => Whole(latest_received)

\* A frame handed to send() reaches the wire, or a later one does in its
\* place, unless the handler is stopped first: no wake-up is lost.
FreshestIsSent ==
  \A f \in 1..MaxFrame :
    (cycle = "notify" /\ frame = f)
      ~> (stop_threads \/ \E i \in DOMAIN wire : Head(wire[i]) >= f)

\* stop() returns, both threads joined, whatever they and the control cycle did
\* before: a receive thread blocked with no peer left, a packet never sent.  The
\* one exception is a send thread that has looked at the flag, and not gone to
\* sleep yet, when the flag is raised: it may miss the notification.
StopCompletesUnlessFallingAsleep ==
  stopper = "notify" /\ sender # "toSleep" ~> stopper = "stopped"
=============================================================================
