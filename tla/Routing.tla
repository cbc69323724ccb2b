------------------------------ MODULE Routing ------------------------------
(***************************************************************************)
(* What the two nodes tell each other: TeleopData is packed into datagrams *)
(* field by field, in the order of a list of names each node reads from    *)
(* its own configuration, and unpacked by the other node with its list.    *)
(* A datagram says neither its fields nor its sender.                      *)
(*                                                                         *)
(* A word says which field it is a part of, when it was measured, and      *)
(* whether it is in the frame of the other arm (one mirrored joint stands  *)
(* for all).  A cycle is one step here: Teleoperation splits it, UdpHandler *)
(* splits the sending and the receiving.                                   *)
(***************************************************************************)
EXTENDS Integers, Sequences, FiniteSets

CONSTANTS
  LeaderRouting,    \* data_routing as the leader's configuration has it
  FollowerRouting,  \* data_routing as the follower's has it
  Timeout,          \* TIMEOUT_DURATION
  MaxTime,          \* bound on the clock
  MaxFlight         \* bound on the datagrams in flight to a node

\* The fields of TeleopData that tell the others apart, and their words: a
\* vector has several, so that half of it can be missing.
Size == [leader_jp |-> 2, leader_jv |-> 2, follower_jp |-> 2, follower_jv |-> 2,
         gripper_cmd |-> 1, timestamp |-> 1]
Field == DOMAIN Size

Node == {"leader", "follower"}
Peer(n) == IF n = "leader" THEN "follower" ELSE "leader"
Routing(n) == IF n = "leader" THEN LeaderRouting ELSE FollowerRouting

ASSUME RoutingAssumption ==
  /\ \A n, m \in Node : Routing(n)[m] \in Seq(STRING)
  /\ Timeout \in Nat /\ MaxTime \in Nat \ {0} /\ MaxFlight \in Nat

\* teleop_send_leader and teleop_send_follower, as node n has them.
SendFields(n) == Routing(n)[n]
RecvFields(n) == Routing(n)[Peer(n)]

\* What a node measures of its arm, and where it keeps the peer's.
Jp(n) == IF n = "leader" THEN "leader_jp" ELSE "follower_jp"
Jv(n) == IF n = "leader" THEN "leader_jv" ELSE "follower_jv"

\* What the packets need to be understood and nothing in the code compares: each
\* node's list of what the other sends is the other's, it has the measurements
\* of its sender and their time, and none of its receiver's.
Agreed ==
  \A n \in Node :
    LET Sent == {SendFields(n)[i] : i \in 1..Len(SendFields(n))}
    IN /\ RecvFields(n) = SendFields(Peer(n))
       /\ {Jp(n), Jv(n), "timestamp"} \subseteq Sent
       /\ {Jp(Peer(n)), Jv(Peer(n))} \cap Sent = {}

VARIABLES
  now,     \* steady_clock
  up,      \* nodes whose constructor has succeeded
  data,    \* TeleopData of each node
  latest,  \* latest_received of its handler
  net,     \* datagrams in flight to it
  alive,   \* have_their_
  cycled   \* history: when its last cycle was

vars == <<now, up, data, latest, net, alive, cycled>>

Word(f, i, at) == [of |-> f, part |-> i, at |-> at, turned |-> FALSE]
Value(f, at) == [i \in 1..Size[f] |-> Word(f, i, at)]
Junk == [of |-> "junk", part |-> 0, at |-> 0, turned |-> FALSE]

-----------------------------------------------------------------------------
(* The codec.                                                              *)

\* validateFields(): some names, all known.
ValidateFields(names) == names # <<>> /\ \A i \in DOMAIN names : names[i] \in Field

EncodedSize(names) ==
  LET total[k \in 0..Len(names)] ==
        IF k = 0 THEN 0 ELSE total[k - 1] + Size[names[k]]
  IN total[Len(names)]

\* encode(): the fields one behind the other.
Encode(names, d) ==
  LET out[k \in 0..Len(names)] ==
        IF k = 0 THEN <<>> ELSE out[k - 1] \o d[names[k]]
  IN out[Len(names)]

\* The loop body of decode(), for a field f: it stops at the first that does
\* not fit.
Copy(done, f, bytes) ==
  IF ~done.ok \/ done.offset + Size[f] > Len(bytes)
  THEN [done EXCEPT !.ok = FALSE]
  ELSE [data |-> [done.data EXCEPT ![f] =
                    SubSeq(bytes, done.offset + 1, done.offset + Size[f])],
        offset |-> done.offset + Size[f],
        ok |-> TRUE]

\* decode(): the fields before the one that does not fit are copied; what is
\* left over is an error too.
Decode(names, bytes, d) ==
  LET done[k \in 0..Len(names)] ==
        IF k = 0 THEN [data |-> d, offset |-> 0, ok |-> TRUE]
        ELSE Copy(done[k - 1], names[k], bytes)
      end == done[Len(names)]
  IN [data |-> end.data, ok |-> end.ok /\ end.offset = Len(bytes)]

-----------------------------------------------------------------------------
Init ==
  /\ now = 1
  /\ up = {}
  /\ data = [n \in Node |-> [f \in Field |-> Value(f, 0)]]
  /\ latest = [n \in Node |-> <<>>]
  /\ net = [n \in Node |-> {}]
  /\ alive = [n \in Node |-> FALSE]
  /\ cycled = [n \in Node |-> 0]

\* The handler's constructor throws at a routing it does not know.
Start(n) ==
  /\ n \notin up
  /\ ValidateFields(SendFields(n)) /\ ValidateFields(RecvFields(n))
  /\ up' = up \cup {n}
  /\ UNCHANGED <<now, data, latest, net, alive, cycled>>

-----------------------------------------------------------------------------
(* A control cycle.                                                        *)

\* Mutant: the velocities are sampled with the torques, after the packet.
Mut_Sample(n, d) == [d EXCEPT ![Jp(n)] = Value(Jp(n), now)]

\* The values a node always knows.
Sample(n, d) ==
  [d EXCEPT ![Jp(n)] = Value(Jp(n), now), ![Jv(n)] = Value(Jv(n), now)]

\* setStateFromLatestPacket().  The same packet is decoded in every cycle until
\* another one arrives, or its age is too great.
Received(n, d) ==
  IF latest[n] = <<>> THEN [data |-> d, ok |-> FALSE]
  ELSE Decode(RecvFields(n), latest[n], d)

\* Mutant: the age is that of the cycle before.
Mut_Fresh(d) == d.timestamp[1].at >= now - Timeout - 1

\* What receive() asks of the timestamp it finds in the state.
Fresh(d) == d.timestamp[1].at <= now /\ now - d.timestamp[1].at <= Timeout

\* mirrorAndOffset(), of whatever the state has of the peer.
MirrorAndOffset(n, d) ==
  LET Turn(v) == [i \in DOMAIN v |-> [v[i] EXCEPT !.turned = ~@]]
  IN [d EXCEPT ![Jp(Peer(n))] = Turn(@), ![Jv(Peer(n))] = Turn(@)]

\* The teleop defaults: the peer is where we are.
Defaults(n, d) ==
  [d EXCEPT ![Jp(Peer(n))] = d[Jp(n)], ![Jv(Peer(n))] = d[Jv(n)]]

Stamped(d) == [d EXCEPT !.timestamp = Value("timestamp", now)]

\* operate(): sample, receive, stamp, send.
Cycle(n) ==
  /\ n \in up /\ cycled[n] < now
  /\ LET got  == Received(n, Sample(n, data[n]))
         near == got.ok /\ Fresh(got.data)
         next == Stamped(IF near THEN MirrorAndOffset(n, got.data)
                         ELSE Defaults(n, got.data))
         sent == Encode(SendFields(n), next)
         to   == net[Peer(n)] \cup {sent}
     IN /\ data' = [data EXCEPT ![n] = next]
        /\ alive' = [alive EXCEPT ![n] = near]
        /\ net' = IF Cardinality(to) <= MaxFlight
                  THEN [net EXCEPT ![Peer(n)] = to] ELSE net
  /\ cycled' = [cycled EXCEPT ![n] = now]
  /\ UNCHANGED <<now, up, latest>>

\* The leader's handle thread writes its command between two cycles.
Command ==
  /\ "leader" \in up
  /\ data' = [data EXCEPT !["leader"].gripper_cmd = Value("gripper_cmd", now)]
  /\ UNCHANGED <<now, up, latest, net, alive, cycled>>

-----------------------------------------------------------------------------
(* The network and the receive thread.                                     *)

\* Mutant: the length received is not looked at.
Mut_Deliver(n) ==
  \E d \in net[n] :
    /\ n \in up
    /\ latest' = [latest EXCEPT ![n] = d]
    /\ \/ net' = [net EXCEPT ![n] = @ \ {d}]
       \/ UNCHANGED net
    /\ UNCHANGED <<now, up, data, alive, cycled>>

\* A datagram arrives, in any order, once or twice.  What does not fill the
\* buffer is ignored; what would overfill it has been cut.
Deliver(n) ==
  \E d \in net[n] :
    /\ n \in up
    /\ latest' = IF Len(d) < EncodedSize(RecvFields(n)) THEN latest
                 ELSE [latest EXCEPT ![n] =
                         SubSeq(d, 1, EncodedSize(RecvFields(n)))]
    /\ \/ net' = [net EXCEPT ![n] = @ \ {d}]
       \/ UNCHANGED net
    /\ UNCHANGED <<now, up, data, alive, cycled>>

\* Some other process sends to the port; it is a word too short.
Stray(n) ==
  /\ Cardinality(net[n]) < MaxFlight
  /\ net' = [net EXCEPT ![n] =
               @ \cup {[i \in 1..(EncodedSize(RecvFields(n)) - 1) |-> Junk]}]
  /\ UNCHANGED <<now, up, data, latest, alive, cycled>>

Tick ==
  /\ now < MaxTime
  /\ now' = now + 1
  /\ UNCHANGED <<up, data, latest, net, alive, cycled>>

Next ==
  \/ Command \/ Tick
  \/ \E n \in Node : Start(n) \/ Cycle(n) \/ Deliver(n) \/ Stray(n)

Spec == Init /\ [][Next]_vars

-----------------------------------------------------------------------------
(* Properties.                                                             *)

Words == [of : Field \cup {"junk"}, part : 0..2, at : 0..MaxTime, turned : BOOLEAN]

\* The type invariant: every field has its size, and what a handler keeps is as
\* long as the fields it will be decoded into.
TypeOK ==
  /\ now \in 1..MaxTime
  /\ up \subseteq Node
  /\ \A n \in Node :
       /\ \A f \in Field : data[n][f] \in [1..Size[f] -> Words]
       /\ latest[n] # <<>> => Len(latest[n]) = EncodedSize(RecvFields(n))
       /\ \A d \in net[n] : \A i \in DOMAIN d : d[i] \in Words
  /\ alive \in [Node -> BOOLEAN]
  /\ cycled \in [Node -> 0..MaxTime]

\* README, "Linking is refused if the two arms are not within link_tolerance":
\* what a node compares with its own position, once it takes the peer for
\* alive, is a position the peer measured at most Timeout ago, in our frame.
ComparesThePeer ==
  \A n \in Node : alive[n] =>
    LET theirs == data[n][Jp(Peer(n))]
    IN /\ \A i \in DOMAIN theirs :
            theirs[i] = [Word(Jp(Peer(n)), i, theirs[1].at) EXCEPT !.turned = TRUE]
       /\ cycled[n] - theirs[1].at <= Timeout

\* Whatever was lost, repeated or reordered, and however often the same packet
\* was decoded, the peer's position and velocity are those of one cycle of the
\* peer's, both mirrored once.
SnapshotIsWhole ==
  \A n \in Node : alive[n] =>
    \A i \in 1..2 :
      /\ data[n][Jp(Peer(n))][i].at = data[n][Jv(Peer(n))][1].at
      /\ data[n][Jv(Peer(n))][i].of = Jv(Peer(n))
      /\ data[n][Jv(Peer(n))][i].at = data[n][Jv(Peer(n))][1].at
      /\ data[n][Jv(Peer(n))][i].turned

\* A datagram that is too short leaves nothing in the state, not even in the
\* fields no default covers.
NoJunk ==
  \A n \in Node : \A f \in Field : \A i \in 1..Size[f] : data[n][f][i].of # "junk"
=============================================================================
