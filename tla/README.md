# wam_teleop in TLA+

Models, model-checking runs and proofs about the two nodes (leader and
follower) that teleoperate a pair of Barrett WAM arms over UDP, optionally with
a learned policy adding torque. Paths below are relative to the repository.

## The system

Two processes, `leader` and `follower`, one per arm. In each:

| Part | Source | State | Operations |
|---|---|---|---|
| Control cycle | `src/lib/leader.h`, `follower.h` `operate()` | the shared `TeleopState`, the outputs of the block | every 2 ms: read sensors, receive, run the modules, send, log, all under the state mutex and libbarrett's execution-manager mutex |
| Teleop module | `modules/teleop_module.h` | `have_their_`, the atomic loaded flag (loaded = linked) | `receive` (fetch, decode, age check, mirror or fall back), `theirIsNear`, `tryLink`, `unlink`, `send` |
| Teleop UDP handler | `udp/{leader,follower}_udp_handler.*` | `pending_send`, `new_data_available`, `latest_received`, `stop_threads` | `send`, `sendLoop`, `receiveLoop`, `getLatestTeleopReceived`, `stop` |
| Policy module and handler | `modules/policy_module.h`, `udp/udp_policy.*` | per stream: `raw_queue`, `valid_queue`, `action_queue`, `first_segment`, `chunk_end_ns`; `pause_until` | receive, interpolate, play, cancel, pause, send |
| Module set | `modules/module.h` | a loaded flag per module | `load`, `unload`, `toggle`, `sumTorque` |
| Handle, gripper, wrist threads | `modules/{handle,gripper,wrist}_module.h` | the operator's last command, `running_` | 2 ms loops that read or write `TeleopState` |
| Dynamics, logging | `modules/{dynamics,logging}_module.h` | a cycle counter | torque law, periodic print |
| Console | `leader.cpp`, `follower.cpp` | where it is in a command | `l`, `p`, `d`, `g`, `t`, `x` |
| Torque shaping, dynamics, configuration | `policy/`, `dynamics/`, `utils/` | last torque, none, none | pure functions but for one rate limit |

Threads of a node: the execution manager's (the control cycle), the console, a
send and a receive thread per UDP handler, an interpolation thread per policy
stream, and one thread each for handle, gripper and wrist. They meet in the
state mutex (held for a whole cycle, and by the 2 ms threads and the near check
for a few lines), the execution manager's mutex, one mutex per queue, and some
flags read without any.

What is hard about it: the console reads a flag, then a position, then acts,
with cycles in between; packets are lost, delayed, duplicated, reordered or of
another size; the age of a packet is compared with a clock read before the
packet was fetched; the policy's clear and pause are two critical sections, and
its interpolator and receiver each hold something outside any while they
happen; a thread that sleeps on a condition variable must be woken to be
stopped. `PROJECT.json` lists each hazard at its line, with the properties that
cover it or the reason none does yet.

What makes each part correct:

- link: nobody is linked without contact, the link dies with the peer, a lost
  peer leaves no stale reference, linking is refused to a far peer;
- UDP handler: packets are whole, in order, the newest one gets out, and both
  threads end when told to;
- policy: masks stay with their waypoints, actions are played in order, a cancel
  silences the policy soon, the promised end of a chunk is its end;
- modules: only loaded ones add torque; commands of the operator have priority;
  a silent policy and a lost peer move nothing, but for one cycle of damping;
  gravity is compensated once;
- the two nodes: frames agree, a link does not outlive its peer, what is held of
  the peer is one packet's;
- a node's life: nothing that runs uses what is not there yet or any more, and
  the exit comes to an end, unless a handler's `stop()` loses its notification.

## Modules

| Module | Models |
|---|---|
| `LinkWatchdog` | the abstract promise of the link: linked, alive, heard |
| `TeleopNode` | one node: teleop module, control cycle, `l` command, any peer |
| `Teleoperation` | both nodes, the network between them, crashes and restarts |
| `UdpHandler` | one teleop UDP handler with its two threads and `stop()` |
| `Routing` | the packet codec and the routing lists of both nodes |
| `PolicyStream` | one action stream of the policy handler, waypoint by waypoint |
| `PolicyHandler` | all streams of the policy handler, on a clock |
| `CommandPipeline` | the operator's commands from the handle to the gripper and the policies, through both nodes |
| `ControlLaw` | from the peer's torque and the policy's action to the torque of the arm |
| `NodeLife` | a node from `main()` to its end: construction, console, module threads, exit |
| `Configuration` | the six files, read twice, and what is objected to when |

`...MC` modules give values to constants for TLC. `...Proofs` modules hold the
theorems about the module they are named after: `TeleopNode`, `Teleoperation`,
`UdpHandler`, `PolicyStream`, `PolicyHandler`, `ControlLaw`, `NodeLife` and `Routing`
have one. `RoutingProofs` also has the theorems about `CommandPipeline`, whose
commands are two of the fields that are routed, and `NodeLifeProofs` those about
`Configuration`, with which a node's life begins. Where the two modules of a pair
would have the same name for something, `CommandPipeline` and `Configuration` put
their own before it (`PipelineSpec`, `ConfigSpec`).

`TeleopNode` implements `LinkWatchdog` by refinement. The other modules share
ideas and no state: where one cuts something short, another has it in full, as
its heading says. `Teleoperation` is `TeleopNode` twice with the console's check
in one step and what the arm tracks left out; `Routing` has whole cycles and
whole packets; `PolicyHandler` leaves out masks and samples within a segment,
`PolicyStream` the second stream and the clock.

Operators called `Mut_...` are deliberately wrong versions of the definition
that follows them. No specification uses them; substituting one must break the
property `PROJECT.json` pairs it with.

### TeleopNode

The variables are the code's: `latest` is the handler's `latest_received`,
`have_their` and `loaded` the module's flags, `st` the three fields of
`TeleopState` that matter here (own position, peer position, timestamp),
`their_out` the output the arm may track, `wrist` the wrist's target,
`reference` what libbarrett's supervisory controller currently tracks. `cycle`
and `console` are program counters.

`operate()` is four steps: `BeginCycle` (clock, lock, sensors), `ReadClock` (the
second clock reading, at the head of `receive`), then `AcceptPacket` or
`LosePeer`, each with everything up to the end of the cycle. The cycle holds
both mutexes throughout, so console steps that lock need `cycle.at = "idle"`;
the network, the clock and the console's unlocked steps interleave anywhere.
The `l` command is one action per step between which something else may happen:
`theirIsNear` in particular is `ReadHaveTheir` and `ComparePositions`.

Packets: `Deliver` may make any packet stamped up to now the latest. That is
loss, delay, duplication and reordering at once, and a peer that moves
arbitrarily. Both nodes stamp and compare with one clock: the shipped
configuration runs both on one host, and `steady_clock` readings of two hosts
cannot be compared at all.

Joints are abstracted to one integer with the mirroring `scale * q + offset`;
scales are 1 or -1, as in the shipped configuration. Velocities, torques and
Cartesian data are routed the same way and are left out.

### Teleoperation

Two nodes; each has what `TeleopNode` calls `latest`, `have_their` (`alive`),
`loaded` (`linked`), its own and its peer's position, and a cycle of three
steps: `BeginCycle` (clock for the packet's stamp, sensors), `ReadClock` (the
clock the age is measured by), and `AcceptPeer` or `LosePeer`, which end by
sending. `net` is a set of datagrams: `Deliver` leaves one in it, so that it may
come again, `Drop` removes it, and one that finds no room is lost. `Crash` takes
everything the process knew; `Restart` starts from the configuration alone. A
datagram of the former life may still be on its way.

The leader computes `(p - offset) * scale` and the follower `p / scale + offset`
of the same configuration, with `/` written as `*`, since scales are 1 or -1.
`NearIsMutual` is about exactly this pair.

`PromptSpec` restricts the network, not the nodes: whatever is sent is stored, in
order, before the clock ticks, and both nodes send between two ticks. A cycle
may still straddle a tick, which is why the timeout is 2 there.

### UdpHandler

One step per access that another thread can observe. A packet is a sequence of
fields labelled with the frame (the call of `send`) they were copied from, so a
torn packet shows. The condition variable is modelled as C++ defines it: the
predicate is evaluated with the mutex held, then releasing it and going to sleep
is one step for holders of the mutex; a notification wakes who is asleep, and
nobody else, and wake-ups may be spurious. `receive_from` overwrites as much of
its reused buffer as the datagram has and cuts what does not fit.
`io_context.stop()` has no effect on blocking calls and is not modelled.
The owner stops the control cycle before it destroys the handler, so no `send`
runs during `stop`.

### Routing

A datagram is a sequence of words, and nothing in it says what they are. A word
of the model knows which field it is a part of, when it was measured and whether
it has been mirrored; the code knows none of this, and `Decode` copies words into
whichever fields the list of the receiver names. Six of the fields of
`TeleopData` are kept, those that behave differently: positions and velocities
of both arms (two words each, so that half of one may be missing), a command,
and the timestamp. A cycle is one step. The same packet is decoded into the state
anew in every cycle and mirrored in place, as in the code. `encode` and `decode`
are loops over the list, written as recursive functions of the position in it.

`Agreed` is what the two configurations have to have in common for the packets to
be understood: each node's list of what the other sends is the other's own, in the
same order; the measurements and the timestamp of the sender are on it; those of
the receiver are not. Nothing in the code compares the lists, so nothing in the
model guarantees it: it is a hypothesis of two theorems, and `RoutingMC` has TLC
establish it of the shipped lists.

### PolicyStream

The receive thread's pause test and its queueing, the interpolator's taking of a
segment and its queueing, clear and pause, and the four critical sections of
`getLatestPolicyReceived` are each separate steps, as the mutexes make them.
Waypoints and samples are numbered through all chunks, which makes their order
visible; interpolated values are not computed. A mask carries, for the
properties only, the waypoint it was made for. A pause ends at any moment; one that
is renewed before it ends, as a held cancel renews it every cycle, is one pause, and
what may still be played in it is not granted anew;
`chunk_end` is the code's estimate in samples, relative to the moment it was
written. Waiting on the stream's condition variable is a guard: its mutex
protocol is the one `UdpHandler` details, `stop()` excepted, which is left out
here and has there the same lost wake-up.

### PolicyHandler

The same queues as in `PolicyStream`, for every stream of the policy type, with
a clock that counts control cycles. What is new here is what streams do to each
other: `clearQueue` runs over the streams one by one, on behalf of the control
cycle or of any interpolation thread; `pause_until` has a length and is set by
whoever pauses last; `getLatestPolicyReceived` of type `cr` looks at both streams
and then pops them one after the other; `send` stamps the time left of each
chunk. A waypoint, and everything made of it, is the time at which its chunk
passed the pause test. A thread that has begun an iteration finishes it within
the cycle (2 ms); when it begins is open. `chunk_end` counts in cycles.

The promised time a state carries is what the policy plans by, so
`PromiseNeedsChunk` relates it to what is queued; that it is one segment too long
is said below.

### CommandPipeline

The two commands, `gripper_cmd` and `cancel_policy`, as they stand in the
leader's state (`lst`), in packets (`wire`, `latest_received`) and in the follower's
state (`fst`). Each thread's loop body is one step, because what it shares it
accesses in one critical section of its node's state mutex; the gripper thread's command
to its driver and the handle thread's poll touch nothing the others see. A packet
is lost or delivered, in any order; the fields in question are decoded whatever
the packet's age, so no clock is needed. A policy's queue is reduced to the
action at its head, which changes at any time unless a pause is on. Clearing, pausing
and playing are three critical sections, between which the handler's threads may queue
what they hold. So a pause may still play `Residue` actions, the first of them in the
very cycle that cancels; that the number is bounded is `PolicyStream`'s subject
(`ResidueBound`), and is assumed here. The policy module receives whether it is
loaded or not, so the console has no part in this. The `pressed` field of a command is
history, for the properties only. The gripper's position and speed, which the gripper
thread copies back into the state, are left out.

### ControlLaw

One control cycle through the systems: `HearPeer` or `LosePeer`, `PlayAction` or
`PlayNothing`, `RunSystems` (the controllers, the external torque, the torque
scale, the dynamics model), `ComputeControl` (the sum of the loaded modules) and
`Log`, with `Toggle` anywhere in between. A torque is the set of the sources it is
made of, for the joints 1-4 and 5-7: addition is union, a term that is taken away
again is removed. This loses magnitudes and keeps what the properties ask, namely
where a torque comes from. No shipped gain integrates, but every controller has a
derivative gain: `error` is what each was to correct when it last ran, and it answers
to that as well as to the error of now. So the first cycle without an action, or
without the peer, still commands some of the last. `before` is history, of whether
the last cycle had either, for the properties only. The "own" token is our own external
torque as used by the laws u5 and u6 and by the follower's tracking controller. A scale
counts the steps of its rate limit.

The configurations checked are both roles, the three policy types, the laws
that differ in what they reflect, standing and on a wall; the follower's scale
is whatever a packet says.

### NodeLife

The main thread step by step: configuration, devices, the systems of a vertical
arm, the handlers (which may throw), the modules, their threads, the execution
manager, the connections, the console, then everything backwards. A handler's
destructor calls `stop()`, which may lose its notification and then joins for ever
(`UdpHandler` has this step by step): `StopHangs`, from the destructors or from a
constructor that throws. A spurious wake-up, which would free it, is left out. The module
threads (`handle`, `wrist`, `gripper`) have four steps each: flag, device, state
lock, and an end. A control cycle is an interval, `BeginCycle` to `EndCycle`, in
which the manager's mutex and the state lock are taken.

`stdin` fails once something that is no number is typed where a number is read.
`getline` then returns the line as it was, so the console goes on with `line`, the
letter that was read last, for ever.

Terminating processes are the reason deadlock is not checked.

### Configuration

What `get_teleop_config_directory` finds and what each file says, abstracted to
the one thing that may be odd about it, and the two passes over the six files:
`validate_args` for the banner, `wam_main` for the node. A file may be edited
between any two reads. Only what some loader or constructor objects to has a
consequence; the length of a list does not, which is where a short list is read
past its end.

## Runs

| Run | Shows | Bounds, and why they are enough |
|---|---|---|
| `teleop_node` | `HoldOnLoss`, `LinkNeedsContact`, refinement of `LinkWatchdog`, `SilentPeerUnlinks`, `CommandReturns` | a leader, two positions (near and far), timeout 1, clock to 2: fresh, old and future packets all occur, and the command can be run again and again (44 thousand states) |
| `far_peer` (violation) | a far peer passes the near check | the same |
| `teleoperation_safety` | `DeadManSwitch`, `RegressionIsBounded` | one crash, two datagrams in flight (one overtakes the other), timeout 1, clock to 2, one position, as neither property looks at positions (1.2 million) |
| `teleoperation_prompt` | `NearIsMutual`, `LostOnlyToOvertaking` | two positions, scale -1, offset 1, timeout 2 (see above), clock to 3, one datagram in flight (2.4 million) |
| `udp_handler` | `SentWhole`, `SentInOrder`, `LatestIsWhole`, `FreshestIsSent`, `StopCompletesUnlessFallingAsleep` | packets of two fields, three frames (one in flight, one pending, one being encoded), one queued datagram, which is short, exact or long, from two frames (156 thousand) |
| `routing_shipped` | `ComparesThePeer`, `SnapshotIsWhole`, `NoJunk` | the shipped lists, which are `Agreed` (TLC evaluates the assumption), timeout 1, clock to 3 so that a packet can be too old, two datagrams in flight (269 thousand) |
| `policy_safety` | `SegmentHasItsMasks`, `PlayedInOrder`, `PauseSilences`, `OnlyClearSilences` | horizon 4 (the least from which one chunk plays), two samples per segment, skips of none and of one and a half segments, three chunks: one cleared, one in flight in each thread (306 thousand) |
| `handler_cr` | `NothingOldAfterPause`, `CancelIsHonoured`, `LostOnlyAtStart`, `PromiseNeedsChunk` | four waypoints, one sample, a chunk per stream, pauses of 3 and 4 cycles, clock to 7, so that a pause ends and play resumes (3.3 million) |
| `pipeline` | `OperatorKeepsPriority`, `CancelStopsGripper`, `OperatorGripArrives`, `CancelArrives`, `CancelEnds` | policies on both nodes, one gripper command of theirs, two packets in flight, so that one overtakes the other; a new packet is dropped when there is no room. One action left to play in a pause: the theorem about `OperatorKeepsPriority` is for any number (491 thousand) |
| `control_law` | `SilentPolicyIsForgotten`, `LostPeerIsForgotten`, `NoStrayGravity`, `ScaleIsRateLimited` | three steps of the scale (more than one is missing), logging every second cycle (1.2 million) |
| `node_life` | `NothingUsesTheGone`, `GripperLeftStill`, `CrashNeedsUnlikeArms`, `ExitCompletes`, `ExitKeyWorksUntilMistyped` | leaders with and without a wrist, followers, vertical or not; nothing else is bounded (30 thousand) |
| `configuration_edits` | `RunsOnWhatWasAccepted` | three edits: one in each pass, and one taken back (564 thousand) |

Deadlock is checked except where the system ends: a stopped handler, a process
that is done, a clock at its bound.

A pause must last three cycles or more for `NothingOldAfterPause`. With two, a
chunk that passed the pause test just before a cancel is queued after the
cancel has cleared; a segment of it is taken before the next cycle clears again,
and pushed after that; the cycle that follows plays it. The shipped pause is 800
cycles, so that the two threads would have to stall for it, more than a second
and a half.

### Where the code and its documentation disagree

The run `far_peer` shows one. `theirIsNear` reads `have_their_` before it takes
the state lock. A cycle that comes in between and judges the peer lost sets the
peer's position to our own, and the comparison then compares our position with
itself. The peer need not be silent: a packet stamped after `receive` read the
clock is judged lost too. README says that "Linking is refused if the two arms
are not within `link_tolerance` rad of each other".

Others, which have no run of their own; the modules have the
code's behaviour, and properties are stated around it:

- `unlink` clears a flag. The arm keeps tracking `theirJPOutput`, which every
  cycle sets from the latest packet, linked or not; the wrist does test the flag
  (`leader.h`, `follower.h`).
- `stop_threads` is raised and the condition notified without the mutex. Between
  the sender's predicate and its sleep both go unnoticed, and `join` never
  returns (`leader_udp_handler.cpp`, `follower_udp_handler.cpp`, and
  `udp_policy.cpp` likewise). `StopCompletesUnlessFallingAsleep` says that this
  is the only way, and `ExitCompletes` that the process then hangs and nothing
  else keeps it from ending.
- A cancel does not take effect at once: the cycle that cancels may still play an
  action, and then sends that action's `gripper_cmd` beside `cancel_policy`. If this
  is the last packet to arrive the follower keeps both. A cancel that is held sends
  others, which is why `CancelStopsGripper` is about one that is held.
- The first cycle without an action, and the one that loses the peer, are not still:
  the derivative gains (`policy_config.yaml:49`, `:59`, `:65`) make the controllers
  answer to the step their references take. With type `cr` that is the residual, the
  reference torque and, on the leader, the peer's torque; the base position's part
  only on a leader, which takes its scale again in the same cycle.
- The end of a chunk counts `raw_queue.size() - 2` segments. That is right before
  the first segment is taken; afterwards the waypoint behind it stays queued and
  only `size - 3` remain (`udp_policy.cpp`, `getLatestPolicyReceived` and
  `receiveLoop`).
- `operate()` calls the policy module's `receive` in every cycle; only `sumTorque`
  asks whether it is loaded. The policy is played, and its gripper command obeyed,
  before `p` was ever pressed. Its torque is then taken away from the measured
  one as well, although it was not commanded (`policy_torque.h:52`).
- A number mistyped under `t` leaves `std::cin` failed, and nothing clears it:
  `x` is never read again, and if the letter left in the line is `p`, the policy
  is toggled for ever. The gain it was meant for becomes 0. Hence the second half
  of `ExitKeyWorksUntilMistyped`.
- The follower makes the systems of a vertical arm if `leader.vertical` is set
  and connects them if `follower.vertical` is. With only the second it
  dereferences a null pointer (`follower.cpp:105` and `:157`);
  `CrashNeedsUnlikeArms` says that this is the only such case.
- The follower multiplies by the scale decoded from the leader's packet, which
  jumps when packets are lost; its own rate limiter's output goes nowhere. So
  `ScaleIsRateLimited` is about the leader.
- `clipToRange` has no range for joints 5-7 and returns its centre, so that type
  `dg` commands these joints the felt torque.
- `dynamics.dof: 7` on an arm of four joints reads seven of them; a value other
  than 4 and 7 is announced to become 4 and stays what it is.
- A routing without `timestamp` is accepted; the age check then reads the node's
  own last stamp, and a dead peer never times out. `routing_shipped` has the
  shipped lists for this reason.

## Fairness

- `TeleopNode`: weak fairness of the cycle's steps, as the execution manager
  runs it every 2 ms and it waits for nobody for long; weak fairness of the
  console's steps that take no lock once Enter was pressed; strong fairness of
  those that do, since the mutex they need is free for most of every period
  but taken again and again. Nothing makes the operator press a key, the arm
  arrive or the peer send.
- `UdpHandler`: weak fairness of both loops, of the rest of a `send` that has
  begun and of `stop` once called; strong fairness of the sender's lock. Nothing
  makes the cycle send, the peer send, the owner stop, or a wake-up be spurious.
- `CommandPipeline`: weak fairness of the four 2 ms loops; strong fairness of
  delivery, that is, of the packets sent in every cycle infinitely many arrive.
  Without it a released cancel may live on in the follower for ever, since
  nothing but a packet changes it. Nothing makes the operator press, the handle
  answer, a policy act or a pause end.
- `NodeLife`: weak fairness of the main thread (start-up, reading what was typed,
  the way out, whose destructors return or hang) and of the end of a cycle that has
  begun; strong fairness of the module threads and of `mandatoryCleanUp`, which need a
  mutex that is free between any two cycles. Nothing makes the operator type, or shift
  the arm idle.

The other modules state safety only and no fairness.

## Proofs

Checked by TLAPS for all values of the constants under the named assumption of
each module (`NodeAssumption`, `TeleopAssumption`, `StreamAssumption`,
`HandlerAssumption`, `PipelineAssumption`, `LawAssumption`, `RoutingAssumption`,
`ConfigurationAssumption`: types of the constants, a scale of 1 or -1, at least one
waypoint and one sample, no default pause longer than that of a failed start). The
bounds on clocks, chunks, frames, datagrams, edits and crashes are constants too, and
the theorems hold for all of them. Every invariant and every action property that a
run checks is proved, and the type invariants are proved rather than run. Every proof
is of the same shape: an inductive `IInv`, a lemma per action or group of actions,
and the theorem from `IInv`; where a property needs more than the first `IInv`, a
second invariant is built on it.

Four theorems assume more than the code enforces, and say so. `NothingOldReturns`: a
default pause of three cycles or more. `PromptLinksHold`: a network that delivers
within a tick, no crash, a timeout of two ticks or more. `ThePeerIsCompared` and
`TheSnapshotIsWhole`: lists that are `Agreed`. The shipped pause, timeout and lists are
such, and TLC finds `NothingOldAfterPause` violated with two cycles,
`LostOnlyToOvertaking` with a timeout of one, `ComparesThePeer` with any part of
`Agreed` dropped.

- `TeleopNodeProofs`. The invariant is `TypeOK /\ Contact`. `Contact` says that
  whatever was concluded from a packet, namely `have_their`, a link, or a console
  between the two halves of the near check and the link, has a packet behind it;
  `LinkNeedsContact` alone is not inductive, because the console carries the
  conclusion. From it: `TypeCorrect`, `LinkedAfterContact`, `HoldsOnLoss`,
  `WristFollows` (a step property that needs no invariant) and `NodeIsWatchdog`,
  the refinement, where `Contact` discharges the guard of the abstract `Link`.
- `TeleoperationProofs`. `NoFuture` says that nothing is stamped or read later
  than now; `StampedBefore` that a datagram, on its way or stored, is stamped no
  later than its sender last sent. The second survives crashes because what a
  peer sent it did send. `TheDeadManSwitchHolds` follows by adding the age test to
  it. `TheRegressionIsBounded` needs that what was heard was not from the future.
  `NearnessIsMutual` needs `MirroredTwice`: each node's mapping undoes the
  other's, for every offset and both scales.
  `PromptLinksHold` is about `PromptSpec` and rests on a chain, `Prompt`: nobody is
  down, so nobody forgets what it was told (`NewsIsKept`); each node sent in this tick
  or the last, and a cycle under way began no earlier (`Punctual`); hence no datagram
  is older than a tick (`NetIsNew`), no stored one older than two (`NewsIsNew`), and
  what was sent in this tick will be stored before the next (`NewsArrives`). With a
  timeout of two ticks no age exceeds it, and the one way left to lose a link is a
  packet that is younger than the clock reading. A tick is the longest a datagram
  takes; `TIMEOUT_DURATION` is 20 ms (`teleop_module.h:126`), ten cycles.
- `UdpHandlerProofs`. `MutexIsHeld` says who is inside the critical section;
  `PendingIsWhole` that outside of it the pending packet is one frame, and
  inside it one up to the field being copied; `Newer` that the pending frame is
  newer than the sender's, and the sender's than everything on the wire, as long
  as it is new data; `WokenForAReason` that the sender copies only then;
  `Sent` describes the wire. From them: `WhatIsSentIsWhole` and
  `WhatIsSentIsInOrder`. `ReceivedIsWhole`, about the reused receive buffer, gives
  `WhatIsKeptIsWhole`.
- `PolicyStreamProofs`. `Aligned` says that the number of masks is the number of
  samples per segment times the number of waypoints a segment can still start
  from. It is inductive together with the queues' types and
  `SegmentIsComplete`; a start without a position breaks it until the same
  thread has cleared, which the invariant excepts. From it: `QueuesAligned` and
  `NoSizeMismatch`, which says that the branch of `interpLoop` for a segment
  with too few masks is dead code. `HeldUntilCleared` needs no more than types.
  `PauseCredit` counts what may still be played in a pause: two cycles for a chunk
  that has passed the pause test, one or two for the queues, one for a segment in
  hand. Nothing in a pause, its renewal included, adds to it and every cycle that plays
  takes one off, so `PausesAreSilent` follows, with the bound of 4 that TLC found to be
  reached.
  `Ordered` places three things on one line: actions queued or played, then the
  segment in hand, then the waypoints a segment may still start from; and all before
  `Reach`, the end of the chunks so far. A new chunk begins behind `Reach`, whatever
  was cleared, which gives `OrderKept`. `Paired` says which masks of `valid_queue`
  belong to which waypoint, by position; with it `OwnMasks`.
- `PolicyHandlerProofs`. `Honoured` is `CancelIsHonoured` and that no cancel lies
  in the future, so that whoever pauses later, and for no less, covers it.
  `HeldWhenBegun`: a stream that has begun and was not cleared has its last action
  queued, since that one is held and not removed. `PromisedIsQueued`: a chunk end
  still to come has waypoints behind it. `ResOfCr`: only type `cr` looks at the
  residual stream. From them: `ACancelIsHonoured`, `ActionsAreLostAtTheStartOnly`,
  `APromiseHasWaypoints`. `NothingOldReturns` needs to know when in a pause each
  place is free of what was stamped before its end. `Forgotten` says it backwards from
  that end: two cycles before it no receive thread holds an old chunk and `raw_queue`
  has none, unless the cycle has still to sweep the stream (`ToSweep`); one cycle
  before it no interpolator holds an old segment and `action_queue` has no old action,
  with the same exception; at the end what the cycle has popped is new. Every thread
  finishes what it began within a cycle, which is what moves each line to the
  next, and is also why two cycles of pause are not enough. The shipped pause is a
  whole chunk, 800 cycles (`udp_policy.cpp:47`).
- `ControlLawProofs`. `Provenance` bounds, variable by variable, what each torque
  may be made of. `Idle` says that without an action what the policy feeds into the
  systems is empty, and that what the controllers remember is, too, if there was none
  in the cycle before; `Lost` the same of a lost peer. From them:
  `SilentPolicyFades`, `LostPeerFades`, `GravityIsCompensatedOnce`. `RateInv` relates
  the leader's applied scale to the limiter's last output, for `TheScaleIsRateLimited`.
- `NodeLifeProofs`. `Built`, `Ready` and `Paired` say what exists at each stage of
  the main thread, `Running` in which stages a thread or a cycle may run,
  `LiveIsListed` that while threads are being stopped, one that still runs is
  still on the list, without which nothing would follow from the list being
  empty. From them: `NothingGoneIsUsed`, `TheGripperIsLeftStill` (with
  `MovingIsLive`: a gripper that moves has a thread that will stop it) and
  `OnlyUnlikeArmsCrash`, for every configuration.
  About `Configuration`: `Loading` says that every file read so far has been accepted
  by its loader (`Accepted`), that a load under way has read a beginning of the list
  (`Progress`), and so that a node that runs has read all six. It gives
  `ItRunsOnWhatWasAccepted` however the files are edited meanwhile, as the second load
  objects to whatever the first one would, and `ConfigurationTypes`.
- `RoutingProofs`. First the codec: `Encode` and `Decode` are functions defined by
  recursion on the position in the list (`Loop` proves that there are such functions),
  and each fact about them is an induction over that position: `DecodeUndoesEncode`
  for every list, even one that has a field twice, and every two states, and that a
  packet of the expected length is read to its end. Two invariants then. `Clean`
  holds whatever the lists are: every field keeps its size, what is kept of the peer
  is as long as the fields it is decoded into, and no stray is that long
  (`NothingStrayGetsIn`, `RoutingTypes`). `Honest` is proved for lists that are
  `Agreed`: every datagram but a stray is what the peer encoded of one of its cycles,
  and what a node has of its peer is of one such cycle, mirrored once, of the age it
  judged (`ThePeerIsCompared`, `TheSnapshotIsWhole`). TLC breaks the former when any
  one of the three parts of `Agreed` is dropped: in another order the words of one
  field land in another; a list with the receiver's own position overwrites it; without
  a timestamp the age is that of the node's own last stamp.
  About `CommandPipeline`: `AllGood` says of every command, in both states, on the
  wire and in the latest packet, that a policy's gripper command never stands where
  the operator has spoken. It is inductive with the types: the handle thread writes
  both commands at once, a policy module writes only over 0.0, and the rest copies.
  From it: `PipelineTypes` and `OperatorFirst`.

Inductions over data (a list, a queue, a clock) are by least counterexample, from the
library's theorem that the naturals are well-founded; no module uses a RECURSIVE
operator.

Only model-checked are the liveness properties, as liveness under fairness and ENABLED
are out of the prover's reach: `SilentPeerUnlinks`, `CommandReturns`,
`FreshestIsSent`, `StopCompletesUnlessFallingAsleep`, `OperatorGripArrives`,
`CancelArrives`, `CancelStopsGripper`, `CancelEnds`, `ExitCompletes` and
`ExitKeyWorksUntilMistyped`; and of course the counterexample of `far_peer`.

## Plan

1. Done: the modules above, and theorems for every invariant and action property
   that a run checks.
2. Next, proofs: further step properties of the components that have none yet
   (`Configuration`, `Routing`), and the safety half of what the liveness properties
   wait for, for instance that a lost wake-up needs `stop` between the predicate and
   the sleep (`UdpHandler`).
3. Then, if wanted: `stop()` of the policy handler in full; a follower whose scale
   is the leader's in one composition with it.

## Not modelled

libbarrett's control graph and its hardware; floating-point values, that is the
generated regressors, the identified parameters and the values of the controllers'
gains; the splines of `interpolateSegment` and `seedAction` (which waypoints
they are made of is modelled); the steps of the policy handler's `stop()`, which has
the protocol of `UdpHandler`; the length of lists in configuration files; the wording
of log lines and `formatField`; `TrajectorySmoother` (no node uses it);
`test_handle_gripper.cpp`, which tries two devices by hand; the ROS wrapping and
its messages.
