----------------------------- MODULE TeleopNode -----------------------------
(***************************************************************************)
(* One wam_teleop node, leader or follower: the TeleopModule that mirrors  *)
(* the peer and guards the link, the 500 Hz control cycle that drives it   *)
(* (operate), and the console thread that syncs, checks, links and unlinks *)
(* on the 'l' key.  The two threads share the TeleopState, whose mutex the *)
(* cycle holds from its start to its end, the atomic loaded flag, and the  *)
(* plain boolean have_their_, which the console reads without any lock.    *)
(*                                                                         *)
(* The peer and the network are the environment: at any moment any packet  *)
(* stamped no later than now may become the latest one received.  That     *)
(* covers loss, delay, duplication and reordering.                         *)
(*                                                                         *)
(* Positions of the arm's joints are abstracted to one integer.            *)
(***************************************************************************)
EXTENDS Integers

CONSTANTS
  Role,       \* "leader" or "follower": which half of the state is ours
  Pos,        \* joint positions, in the frame of whoever measures them
  SyncPos,    \* the position the arm moves to before linking
  Tolerance,  \* link_tolerance
  Timeout,    \* TIMEOUT_DURATION
  Scale,      \* sync_mapping.scales: 1, or -1 for a mirrored joint
  Offset,     \* sync_mapping.offsets
  MaxTime,    \* bound on the clock
  None        \* an empty boost::optional, an undefined output

ASSUME NodeAssumption ==
  /\ Role \in {"leader", "follower"}
  /\ Pos \subseteq Int
  /\ SyncPos \in Pos
  /\ Tolerance \in Nat
  /\ Timeout \in Nat
  /\ Scale \in {1, -1}
  /\ Offset \in Int
  /\ MaxTime \in Nat
  /\ None \notin Int
  /\ None \notin [jp: Pos, ts: Nat]

VARIABLES
  now,         \* steady_clock, shared by both nodes of the shipped one-host setup
  latest,      \* latest_received of the UDP handler; never cleared
  jp,          \* where the arm really is (wam.jpOutput)
  st,          \* TeleopState: own and peer position in our frame, timestamp
  have_their,  \* have_their_
  loaded,      \* loaded_ of the teleop module: the node is linked
  cycle,       \* where operate() is, and the two clock readings it took
  their_out,   \* theirJPOutput, the reference signal offered to the arm
  wrist,       \* last target given to the custom wrist
  reference,   \* what libbarrett's supervisory controller tracks
  console      \* where the console thread is in the 'l' command

nodevars == <<latest, jp, st, have_their, loaded, cycle, their_out, wrist,
              reference, console>>
vars == <<now, nodevars>>

Packets == [jp: Pos, ts: Nat]
Consoles == {"prompt", "unlink", "moving", "enter", "readHave", "compare",
             "tryLink", "track", "settle"}

-----------------------------------------------------------------------------
(* The module's arithmetic.                                                *)

\* The peer's position in our frame.  The leader divides by the scale, which
\* for 1 and -1 is to multiply by it.
MirrorAndOffset(p) ==
  IF Role = "leader" THEN (p - Offset) * Scale ELSE p * Scale + Offset

\* Mutant: the age of a packet is not limited.
Mut_FreshForever(ts, t) == t >= ts

\* A packet stamped ts is acceptable to a cycle that read the clock at t.
Fresh(ts, t) == t >= ts /\ t - ts <= Timeout

\* The check receive() makes of the packet it fetched.
HeardFresh == latest # None /\ Fresh(latest.ts, cycle.recvNow)

Distance(a, b) == IF a >= b THEN a - b ELSE b - a

-----------------------------------------------------------------------------
Init ==
  /\ now = 0
  /\ latest = None
  /\ jp \in Pos
  /\ st = [own |-> 0, their |-> 0, timestamp |-> 0]
  /\ have_their = FALSE
  /\ loaded = FALSE
  /\ cycle = [at |-> "idle", opNow |-> 0, recvNow |-> 0]
  /\ their_out = None
  /\ wrist = None
  /\ reference = "gravity"
  /\ console = "prompt"

-----------------------------------------------------------------------------
(* The control cycle.  It holds the state mutex and the execution manager's *)
(* mutex throughout, so the console's locked steps need cycle.at = "idle".  *)

\* operate() starts: reads the clock for the outgoing timestamp, takes the
\* state lock and copies what the sensors say.
BeginCycle ==
  /\ cycle.at = "idle"
  /\ cycle' = [cycle EXCEPT !.at = "receive", !.opNow = now]
  /\ st' = [st EXCEPT !.own = jp]
  /\ UNCHANGED <<now, latest, jp, have_their, loaded, their_out, wrist,
                 reference, console>>

\* receive() reads the clock before it fetches the packet.
ReadClock ==
  /\ cycle.at = "receive"
  /\ cycle' = [cycle EXCEPT !.at = "fetch", !.recvNow = now]
  /\ UNCHANGED <<now, latest, jp, st, have_their, loaded, their_out, wrist,
                 reference, console>>

\* The rest of operate(): the wrist follows a linked peer, the peer position
\* becomes the arm's reference, the outgoing state is stamped.
FinishCycle(their) ==
  /\ cycle' = [at |-> "idle", opNow |-> 0, recvNow |-> 0]
  /\ their_out' = their
  /\ wrist' = IF Role = "leader" /\ loaded' THEN their ELSE wrist
  /\ st' = [st EXCEPT !.their = their, !.timestamp = cycle.opNow]
  /\ UNCHANGED <<now, latest, jp, reference, console>>

\* receive() finds a fresh packet: its position, mirrored into our frame, is
\* the peer's.  This happens linked or not.
AcceptPacket ==
  /\ cycle.at = "fetch"
  /\ HeardFresh
  /\ have_their' = TRUE
  /\ UNCHANGED loaded
  /\ FinishCycle(MirrorAndOffset(latest.jp))

\* Mutant: the link outlives the peer.
Mut_LosePeerKeepLink ==
  /\ cycle.at = "fetch"
  /\ ~HeardFresh
  /\ have_their' = FALSE
  /\ UNCHANGED loaded
  /\ FinishCycle(st.own)

\* Mutant: the stale position that was decoded is left in the state.
Mut_LosePeerKeepPosition ==
  /\ cycle.at = "fetch"
  /\ ~HeardFresh
  /\ have_their' = FALSE
  /\ loaded' = FALSE
  /\ FinishCycle(IF latest = None THEN st.their ELSE latest.jp)

\* receive() has no packet, or one that is too old or from the future: the
\* decoded fields are overwritten by our own and the link is dropped.
LosePeer ==
  /\ cycle.at = "fetch"
  /\ ~HeardFresh
  /\ have_their' = FALSE
  /\ loaded' = FALSE
  /\ FinishCycle(st.own)

Cycle == BeginCycle \/ ReadClock \/ AcceptPacket \/ LosePeer

-----------------------------------------------------------------------------
(* The console thread and the 'l' command.                                 *)

Say(from, to) == console = from /\ console' = to

\* isLinked() chooses the branch; the flag may change before it is acted on.
PressUnlink ==
  /\ Say("prompt", "unlink")
  /\ loaded
  /\ UNCHANGED <<now, latest, jp, st, have_their, loaded, cycle, their_out,
                 wrist, reference>>

\* unlink() under the execution manager's mutex.  The arm keeps tracking
\* whatever it was tracking.
UnlinkKey ==
  /\ Say("unlink", "prompt")
  /\ cycle.at = "idle"
  /\ loaded' = FALSE
  /\ UNCHANGED <<now, latest, jp, st, have_their, cycle, their_out, wrist,
                 reference>>

\* moveTo(SYNC_POS): the arm follows its own trajectory.
PressLink ==
  /\ Say("prompt", "moving")
  /\ ~loaded
  /\ reference' = "sync"
  /\ UNCHANGED <<now, latest, jp, st, have_their, loaded, cycle, their_out,
                 wrist>>

\* The blocking moveTo returns, the arm at the sync position, and the wrist
\* is sent there too.
MoveDone ==
  /\ Say("moving", "enter")
  /\ jp' = SyncPos
  /\ wrist' = IF Role = "leader" THEN SyncPos ELSE wrist
  /\ UNCHANGED <<now, latest, st, have_their, loaded, cycle, their_out,
                 reference>>

PressEnter ==
  /\ Say("enter", "readHave")
  /\ UNCHANGED <<now, latest, jp, st, have_their, loaded, cycle, their_out,
                 wrist, reference>>

\* Mutant: the check goes by the positions alone.
Mut_SkipHaveTheir ==
  /\ Say("readHave", "compare")
  /\ UNCHANGED <<now, latest, jp, st, have_their, loaded, cycle, their_out,
                 wrist, reference>>

\* theirIsNear() reads have_their_ first, outside the state lock...
ReadHaveTheir ==
  /\ Say("readHave", IF have_their THEN "compare" ELSE "prompt")
  /\ UNCHANGED <<now, latest, jp, st, have_their, loaded, cycle, their_out,
                 wrist, reference>>

\* ... and then compares the two positions under it.
ComparePositions ==
  /\ Say("compare", IF Distance(st.own, st.their) <= Tolerance
                    THEN "tryLink" ELSE "prompt")
  /\ cycle.at = "idle"
  /\ UNCHANGED <<now, latest, jp, st, have_their, loaded, cycle, their_out,
                 wrist, reference>>

\* Mutant: linking waits until the peer is heard.
Mut_TryLinkWaits ==
  /\ Say("tryLink", "track")
  /\ cycle.at = "idle"
  /\ have_their
  /\ loaded' = TRUE
  /\ UNCHANGED <<now, latest, jp, st, have_their, cycle, their_out, wrist,
                 reference>>

\* tryLink() under the execution manager's mutex.
TryLink ==
  /\ Say("tryLink", "track")
  /\ cycle.at = "idle"
  /\ loaded' = TRUE
  /\ UNCHANGED <<now, latest, jp, st, have_their, cycle, their_out, wrist,
                 reference>>

\* trackReferenceSignal(theirJPOutput), whether or not the link survived.
TrackPeer ==
  /\ Say("track", "settle")
  /\ cycle.at = "idle"
  /\ reference' = "peer"
  /\ UNCHANGED <<now, latest, jp, st, have_their, loaded, cycle, their_out,
                 wrist>>

\* The console sleeps, reports success or failure and prompts again.
Report ==
  /\ Say("settle", "prompt")
  /\ UNCHANGED <<now, latest, jp, st, have_their, loaded, cycle, their_out,
                 wrist, reference>>

Console ==
  \/ PressUnlink \/ UnlinkKey \/ PressLink \/ MoveDone \/ PressEnter
  \/ ReadHaveTheir \/ ComparePositions \/ TryLink \/ TrackPeer \/ Report

-----------------------------------------------------------------------------
(* The environment.                                                        *)

\* Operators push the arms, controllers pull them.
MoveArm ==
  /\ jp' \in Pos \ {jp}
  /\ UNCHANGED <<now, latest, st, have_their, loaded, cycle, their_out, wrist,
                 reference, console>>

\* The receive thread stores a datagram of the right size.
StorePacket(p) ==
  /\ latest' = p
  /\ UNCHANGED <<jp, st, have_their, loaded, cycle, their_out, wrist,
                 reference, console>>

\* The network delivers a packet the peer sent at some time up to now.
Deliver ==
  /\ \E p \in Pos, t \in 0..now : StorePacket([jp |-> p, ts |-> t])
  /\ UNCHANGED now

Tick ==
  /\ now < MaxTime
  /\ now' = now + 1
  /\ UNCHANGED nodevars

Next == Cycle \/ Console \/ MoveArm \/ Deliver \/ Tick

Spec == Init /\ [][Next]_vars

\* The execution manager runs a cycle every 2 ms and the cycle never waits;
\* the console takes a mutex that is free most of every period.
Fairness ==
  /\ WF_vars(BeginCycle) /\ WF_vars(ReadClock)
  /\ WF_vars(AcceptPacket \/ LosePeer)
  /\ WF_vars(ReadHaveTheir) /\ WF_vars(Report)
  /\ SF_vars(ComparePositions) /\ SF_vars(TryLink) /\ SF_vars(TrackPeer)

FairSpec == Spec /\ Fairness

-----------------------------------------------------------------------------
(* Properties.                                                             *)

\* The type invariant of the node's state (TeleopModule, operate, console).
TypeOK ==
  /\ now \in Nat
  /\ latest \in Packets \cup {None}
  /\ jp \in Pos
  /\ st \in [own: Int, their: Int, timestamp: Nat]
  /\ have_their \in BOOLEAN
  /\ loaded \in BOOLEAN
  /\ cycle \in [at: {"idle", "receive", "fetch"}, opNow: Nat, recvNow: Nat]
  /\ their_out \in Int \cup {None}
  /\ wrist \in Int \cup {None}
  /\ reference \in {"gravity", "sync", "peer"}
  /\ console \in Consoles

\* Whenever the node considers its peer lost, the reference it offers the
\* arm, and the peer position the near check will use, are the arm's own
\* position: a stale position that receive() decoded never survives a cycle.
HoldOnLoss ==
  cycle.at = "idle" /\ ~have_their /\ their_out # None
    => their_out = st.own /\ st.their = st.own

\* A node that never received a packet is never linked, whatever the console
\* and the control cycle do between the unlocked read of have_their_, the
\* locked comparison and the link.
LinkNeedsContact == loaded => latest # None

\* The node implements the abstract watchdog: only the operator links, never
\* before contact, and every cycle that loses the peer leaves it unlinked.
W == INSTANCE LinkWatchdog WITH
       linked <- loaded, alive <- have_their, heard <- latest # None

Watchdog == W!WSpec

\* The custom wrist is given the peer's position only by a cycle that found
\* the peer alive and left the node linked; anything else it is given is the
\* sync position.
WristFollowsLivePeer ==
  [][wrist' # wrist => console = "moving" \/ (loaded' /\ have_their')]_vars

\* The newest packet there is, if any, is older than the timeout.
PeerSilent == latest # None => now - latest.ts > Timeout

\* A linked node whose peer stays silent is eventually unlinked.
SilentPeerUnlinks == (loaded /\ PeerSilent) ~> (~loaded \/ ~PeerSilent)

\* Once the operator has pressed Enter the 'l' command always comes back to
\* the prompt: neither of the mutexes it takes can starve it.
CommandReturns == console = "readHave" ~> console = "prompt"

\* README: linking is refused if the arms are not within link_tolerance.  The
\* near check passes only when the peer is alive, or was last heard near.
FarPeerIsRefused ==
  [][console = "compare" /\ console' = "tryLink"
       => \/ have_their
          \/ Distance(st.own, MirrorAndOffset(latest.jp)) <= Tolerance]_vars
=============================================================================
