--------------------------- MODULE Teleoperation ---------------------------
(***************************************************************************)
(* The leader and the follower together: two control cycles that hear each *)
(* other through a network that loses, delays, repeats and reorders        *)
(* datagrams, on one clock (both nodes run on one host as shipped).  A     *)
(* node may crash and be restarted: nothing it knew survives, and its peer *)
(* must notice by itself, as no packet says "linked" or "goodbye".         *)
(*                                                                         *)
(* A node is coarser here than in TeleopNode: the console checks and links *)
(* in two steps, and what its arm tracks and where its wrist points is     *)
(* left out.  A packet is the sender's joint position and the timestamp of *)
(* the cycle that sent it.                                                 *)
(***************************************************************************)
EXTENDS Integers, FiniteSets

CONSTANTS
  Pos,        \* joint positions, in the frame of whoever measures them
  Tolerance,  \* link_tolerance
  Timeout,    \* TIMEOUT_DURATION
  Scale,      \* sync_mapping.scales: 1, or -1 for a mirrored joint
  Offset,     \* sync_mapping.offsets
  MaxTime,    \* bound on the clock
  MaxFlight,  \* bound on the datagrams in flight
  MaxCrashes, \* bound on the crashes
  None        \* an empty boost::optional

ASSUME TeleopAssumption ==
  /\ Pos \subseteq Int /\ 0 \in Pos
  /\ Tolerance \in Nat
  /\ Timeout \in Nat
  /\ Scale \in {1, -1}
  /\ Offset \in Int
  /\ MaxTime \in Nat /\ MaxFlight \in Nat /\ MaxCrashes \in Nat
  /\ None \notin [jp: Pos, ts: Nat]

Node == {"leader", "follower"}
Peer(n) == IF n = "leader" THEN "follower" ELSE "leader"

VARIABLES
  now,       \* steady_clock
  net,       \* datagrams in flight
  own,       \* own position in the node's TeleopState, sampled by the cycle
  their,     \* the peer's position in it, in our frame
  latest,    \* latest_received of the node's UDP handler
  alive,     \* have_their_
  linked,    \* loaded_ of the teleop module
  cycle,     \* where operate() is, and the clock readings it took
  console,   \* the 'l' command: the check has passed, or not
  heard,     \* history: timestamp of the last packet the node accepted
  lastSent,  \* history: when the node last sent
  crashes    \* how many crashes there were

nodestate == <<own, their, latest, alive, linked, cycle, console, heard>>
vars == <<now, net, nodestate, lastSent, crashes>>

Packets == [jp: Pos, ts: Nat]
Datagrams == [to: Node, jp: Pos, ts: Nat]
Resting == [at |-> "idle", opNow |-> 0, recvNow |-> 0]

-----------------------------------------------------------------------------
\* Mutant: the leader undoes the scale before the offset.
Mut_MirrorAndOffset(n, p) ==
  IF n = "leader" THEN p * Scale - Offset ELSE p * Scale + Offset

\* The peer's position p in the frame of node n.  The follower does the exact
\* opposite of the leader; to divide by 1 or -1 is to multiply by it.
MirrorAndOffset(n, p) ==
  IF n = "leader" THEN (p - Offset) * Scale ELSE p * Scale + Offset

\* Mutant: packets do not age.
Mut_Fresh(ts, t) == t >= ts

\* What receive() asks of a packet stamped ts when it read the clock at t.
Fresh(ts, t) == t >= ts /\ t - ts <= Timeout

Distance(a, b) == IF a >= b THEN a - b ELSE b - a

\* theirIsNear(), once the peer is known to be alive.
Near(n) == Distance(own[n], their[n]) <= Tolerance

-----------------------------------------------------------------------------
Init ==
  /\ now = 0
  /\ net = {}
  /\ own = [n \in Node |-> 0]
  /\ their = [n \in Node |-> 0]
  /\ latest = [n \in Node |-> None]
  /\ alive = [n \in Node |-> FALSE]
  /\ linked = [n \in Node |-> FALSE]
  /\ cycle = [n \in Node |-> Resting]
  /\ console = [n \in Node |-> "prompt"]
  /\ heard = [n \in Node |-> 0]
  /\ lastSent = [n \in Node |-> 0]
  /\ crashes = 0

-----------------------------------------------------------------------------
(* A control cycle of node n: operate().                                   *)

\* It reads the clock for its own timestamp and samples its arm ...
BeginCycle(n) ==
  /\ cycle[n].at = "idle"
  /\ cycle' = [cycle EXCEPT ![n].at = "begun", ![n].opNow = now]
  /\ \E p \in Pos : own' = [own EXCEPT ![n] = p]
  /\ UNCHANGED <<now, net, their, latest, alive, linked, console, heard,
                 lastSent, crashes>>

\* ... receive() reads the clock again, before it fetches a packet ...
ReadClock(n) ==
  /\ cycle[n].at = "begun"
  /\ cycle' = [cycle EXCEPT ![n].at = "judge", ![n].recvNow = now]
  /\ UNCHANGED <<now, net, own, their, latest, alive, linked, console,
                 heard, lastSent, crashes>>

\* Mutant: the timestamp decoded from the peer's packet is not overwritten.
Mut_Send(n) ==
  /\ net' = IF Cardinality(net) < MaxFlight
            THEN net \cup {[to |-> Peer(n), jp |-> own[n],
                            ts |-> IF latest[n] = None THEN cycle[n].opNow
                                   ELSE latest[n].ts]}
            ELSE net
  /\ lastSent' = [lastSent EXCEPT ![n] = now]
  /\ cycle' = [cycle EXCEPT ![n] = Resting]

\* ... and the cycle ends by sending the state, stamped with the first of the
\* two readings.  A datagram that finds no room in the network is lost.
Send(n) ==
  /\ net' = IF Cardinality(net) < MaxFlight
            THEN net \cup {[to |-> Peer(n), jp |-> own[n],
                            ts |-> cycle[n].opNow]}
            ELSE net
  /\ lastSent' = [lastSent EXCEPT ![n] = now]
  /\ cycle' = [cycle EXCEPT ![n] = Resting]

Judging(n) == cycle[n].at = "judge"

HeardFresh(n) ==
  latest[n] # None /\ Fresh(latest[n].ts, cycle[n].recvNow)

\* Fetched, fresh: the peer is where the packet says, in our frame.
AcceptPeer(n) ==
  /\ Judging(n)
  /\ HeardFresh(n)
  /\ alive' = [alive EXCEPT ![n] = TRUE]
  /\ their' = [their EXCEPT ![n] = MirrorAndOffset(n, latest[n].jp)]
  /\ heard' = [heard EXCEPT ![n] = latest[n].ts]
  /\ Send(n)
  /\ UNCHANGED <<now, own, latest, linked, console, crashes>>

\* Mutant: only the operator unlinks.
Mut_LosePeer(n) ==
  /\ Judging(n)
  /\ ~HeardFresh(n)
  /\ alive' = [alive EXCEPT ![n] = FALSE]
  /\ their' = [their EXCEPT ![n] = own[n]]
  /\ Send(n)
  /\ UNCHANGED <<now, own, latest, linked, console, heard, crashes>>

\* Nothing fetched, or nothing fresh: our own position stands for the peer's
\* and the link is dropped.
LosePeer(n) ==
  /\ Judging(n)
  /\ ~HeardFresh(n)
  /\ alive' = [alive EXCEPT ![n] = FALSE]
  /\ linked' = [linked EXCEPT ![n] = FALSE]
  /\ their' = [their EXCEPT ![n] = own[n]]
  /\ Send(n)
  /\ UNCHANGED <<now, own, latest, console, heard, crashes>>

Cycle(n) == BeginCycle(n) \/ ReadClock(n) \/ AcceptPeer(n) \/ LosePeer(n)

-----------------------------------------------------------------------------
(* The console of node n; what it locks, a cycle holds from begin to end.  *)

\* 'l' and Enter on an unlinked node: the check passes.
CheckPasses(n) ==
  /\ cycle[n].at = "idle" /\ console[n] = "prompt"
  /\ ~linked[n]
  /\ alive[n] /\ Near(n)
  /\ console' = [console EXCEPT ![n] = "checked"]
  /\ UNCHANGED <<now, net, own, their, latest, alive, linked, cycle, heard,
                 lastSent, crashes>>

\* tryLink(), with any number of cycles in between.
TryLink(n) ==
  /\ cycle[n].at = "idle" /\ console[n] = "checked"
  /\ console' = [console EXCEPT ![n] = "prompt"]
  /\ linked' = [linked EXCEPT ![n] = TRUE]
  /\ UNCHANGED <<now, net, own, their, latest, alive, cycle, heard,
                 lastSent, crashes>>

\* 'l' on a linked node.
Unlink(n) ==
  /\ cycle[n].at = "idle" /\ console[n] = "prompt"
  /\ linked[n]
  /\ linked' = [linked EXCEPT ![n] = FALSE]
  /\ UNCHANGED <<now, net, own, their, latest, alive, cycle, console,
                 heard, lastSent, crashes>>

Console(n) == CheckPasses(n) \/ TryLink(n) \/ Unlink(n)

-----------------------------------------------------------------------------
(* The environment.                                                        *)

\* The handler's receive thread stores a datagram; the network may deliver
\* it again, and in any order.
Deliver(d) ==
  /\ cycle[d.to].at # "down"
  /\ latest' = [latest EXCEPT ![d.to] = [jp |-> d.jp, ts |-> d.ts]]
  /\ UNCHANGED <<now, net, own, their, alive, linked, cycle, console,
                 heard, lastSent, crashes>>

\* A datagram, or the last copy of it, is gone.
Drop(d) ==
  /\ net' = net \ {d}
  /\ UNCHANGED <<now, nodestate, lastSent, crashes>>

\* The process of node n dies, in the middle of a cycle or not.
Crash(n) ==
  /\ cycle[n].at # "down"
  /\ crashes < MaxCrashes
  /\ crashes' = crashes + 1
  /\ cycle' = [cycle EXCEPT ![n] = [Resting EXCEPT !.at = "down"]]
  /\ own' = [own EXCEPT ![n] = 0]
  /\ their' = [their EXCEPT ![n] = 0]
  /\ latest' = [latest EXCEPT ![n] = None]
  /\ alive' = [alive EXCEPT ![n] = FALSE]
  /\ linked' = [linked EXCEPT ![n] = FALSE]
  /\ console' = [console EXCEPT ![n] = "prompt"]
  /\ heard' = [heard EXCEPT ![n] = 0]
  /\ UNCHANGED <<now, net, lastSent>>

\* It is started again, with nothing but its configuration.
Restart(n) ==
  /\ cycle[n].at = "down"
  /\ cycle' = [cycle EXCEPT ![n] = Resting]
  /\ UNCHANGED <<now, net, own, their, latest, alive, linked, console,
                 heard, lastSent, crashes>>

Tick ==
  /\ now < MaxTime
  /\ now' = now + 1
  /\ UNCHANGED <<net, nodestate, lastSent, crashes>>

NodeStep(n) == Cycle(n) \/ Console(n) \/ Crash(n) \/ Restart(n)

Next ==
  \/ \E n \in Node : NodeStep(n)
  \/ \E d \in net : Deliver(d) \/ Drop(d)
  \/ Tick

Spec == Init /\ [][Next]_vars

-----------------------------------------------------------------------------
(* A prompt network and two undisturbed cycles: before the clock ticks,    *)
(* every datagram has been stored and every running node has sent one.     *)
(* Nothing is lost, for want of room or otherwise.  A cycle may still      *)
(* straddle the tick.                                                      *)

Stored(d) ==
  /\ \/ cycle[d.to].at = "down"
     \/ latest[d.to] # None /\ latest[d.to].ts >= d.ts
  /\ Drop(d)

PromptTick ==
  /\ net = {}
  /\ \A n \in Node : cycle[n].at # "down" => lastSent[n] = now
  /\ Tick

\* In order, too: the newest datagram is what the handler holds.
InOrder(d) == latest[d.to] # None => latest[d.to].ts <= d.ts

Room == Cardinality(net) < MaxFlight

PromptNext ==
  \/ \E n \in Node : NodeStep(n) /\ (Judging(n) => Room)
  \/ \E d \in net : (InOrder(d) /\ Deliver(d)) \/ Stored(d)
  \/ PromptTick

PromptSpec == Init /\ [][PromptNext]_vars

-----------------------------------------------------------------------------
(* Properties.                                                             *)

\* The type invariant of the two nodes and the network between them.
TypeOK ==
  /\ now \in Nat
  /\ net \subseteq Datagrams
  /\ own \in [Node -> Pos]
  /\ their \in [Node -> Int]
  /\ latest \in [Node -> Packets \cup {None}]
  /\ alive \in [Node -> BOOLEAN]
  /\ linked \in [Node -> BOOLEAN]
  /\ cycle \in [Node -> [at: {"down", "idle", "begun", "judge"},
                         opNow: Nat, recvNow: Nat]]
  /\ console \in [Node -> {"prompt", "checked"}]
  /\ heard \in [Node -> Nat]
  /\ lastSent \in [Node -> Nat]
  /\ crashes \in Nat

Judged(n) == Judging(n) /\ cycle'[n] = Resting

\* The dead man's switch: no cycle leaves a node linked unless the peer's
\* process finished a cycle of its own within the timeout; crashes, restarts
\* and old datagrams still in flight included.
DeadManSwitch ==
  [][\A n \in Node :
       Judged(n) /\ linked'[n]
         => lastSent[Peer(n)] + Timeout >= cycle[n].recvNow]_vars

\* Packets carry no sequence number, so a late datagram may take the peer's
\* position back in time, but never by more than the timeout.
RegressionIsBounded ==
  [][\A n \in Node :
       Judged(n) /\ alive'[n] => heard'[n] + Timeout >= heard[n]]_vars

\* With the mirrored frames of the two nodes, arms that are near in the eyes of
\* one node are near in the eyes of the other, once both have heard where the
\* other is.
NearIsMutual ==
  (\A n \in Node : their[n] = MirrorAndOffset(n, own[Peer(n)]))
    => (Near("leader") <=> Near("follower"))

\* With a prompt network and no crash, a link is lost in one way only: the
\* peer's next packet overtook the clock reading of receive() and is judged to
\* come from the future.
LostOnlyToOvertaking ==
  [][\A n \in Node :
       Judged(n) /\ linked[n] /\ ~linked'[n]
         => latest[n].ts > cycle[n].recvNow]_vars
=============================================================================
