------------------------------ MODULE NodeLife ------------------------------
(***************************************************************************)
(* A node from main() to the end of its process: configuration, devices,   *)
(* the systems graph, the modules and their threads, the console, and exit *)
(* in the reverse order.  The control cycle starts when the node is handed *)
(* to the execution manager and runs, at 500 Hz, until the destructor      *)
(* takes the node back; the module threads start before it and must be     *)
(* joined before what they use is destroyed.                               *)
(*                                                                         *)
(* leader.cpp and follower.cpp differ in their devices only.  The threads  *)
(* of the UDP handlers are those of UdpHandler; here a handler is a part   *)
(* that exists or does not, and whose destructor may never return: its     *)
(* stop() joins threads that can have missed its notification.  A spurious *)
(* wake-up, which would let it go on, is left out.  What linking asks of   *)
(* the arms is TeleopNode's subject.                                       *)
(***************************************************************************)
EXTENDS Sequences, FiniteSets

CONSTANT Configs  \* the configurations a node may be started with

ASSUME NodeAssumption ==
  Configs \subseteq [role: {"leader", "follower"}, wrist: BOOLEAN,
                    leaderVertical: BOOLEAN, followerVertical: BOOLEAN,
                    autoLoad: SUBSET {"policy", "dynamics", "logging"}]

\* What a control cycle calls.
Modules == {"teleop", "policy", "dynamics", "logging"}

\* What the module threads use, each of them one device.
Devices == {"handle", "wrist", "gripper"}

VARIABLES
  config,    \* what the node was started with; it never changes
  main,      \* where wam_main() is
  stdin,     \* "good", or "failed" once something typed was no number
  line,      \* the letter a failed stream leaves in the console's line buffer
  wantsExit, \* the operator has typed x
  idle,      \* the arm has been shifted idle
  device,    \* each device: "none", "up", "released", "gone"
  pair,      \* the two systems of a vertical arm were made
  built,     \* modules that exist
  loaded,    \* modules that are loaded
  todo,      \* workers the main thread has still to start or stop
  running,   \* running_ of each worker
  worker,    \* where the loop of each worker is
  still,     \* the gripper's last command was velocity 0
  managed,   \* the execution manager runs the node
  cycle      \* a control cycle is running: it holds the manager's mutex

vars == <<config, main, stdin, line, wantsExit, idle, device, pair, built, loaded, todo,
          running, worker, still, managed, cycle>>

env == <<config, stdin, line, wantsExit, idle>>
parts == <<built, loaded>>
threads == <<todo, running, worker, still>>
control == <<managed, cycle>>

Role == config.role                          \* "leader" or "follower"
HasWrist == config.wrist                     \* leader: DOF < 7, a custom wrist
LeaderVertical == config.leaderVertical      \* config.leader.vertical
FollowerVertical == config.followerVertical  \* config.follower.vertical
AutoLoad == config.autoLoad                  \* modules with auto_load

\* The module threads, in the order they are started and stopped.
Workers ==
  IF Role = "follower" THEN <<"gripper">>
  ELSE IF HasWrist THEN <<"handle", "wrist">> ELSE <<"handle">>
Mounted == {Workers[i] : i \in DOMAIN Workers}

Ended == {"done", "failed", "crashed"}

Init ==
  /\ config \in Configs
  /\ main = "config"
  /\ stdin = "good" /\ line = "none" /\ wantsExit = FALSE /\ idle = FALSE
  /\ device = [d \in Devices |-> "none"]
  /\ pair = FALSE
  /\ built = {} /\ loaded = {}
  /\ todo = <<>>
  /\ running = [d \in Devices |-> FALSE]
  /\ worker = [d \in Devices |-> "none"]
  /\ still = TRUE
  /\ managed = FALSE /\ cycle = FALSE

MainFrom(a, b) == main = a /\ main' = b

-----------------------------------------------------------------------------
(* wam_main(), up to the prompt.                                           *)

\* load_config(), which throws if a file is missing or wrong.
LoadConfig ==
  /\ \E to \in {"devices", "failed"} : MainFrom("config", to)
  /\ UNCHANGED <<env, device, pair, parts, threads, control>>

\* The leader's handle, and its wrist, which runs at once.
OpenHandleAndWrist ==
  /\ Role = "leader"
  /\ MainFrom("devices", "systems")
  /\ device' = [d \in Devices |-> IF d \in Mounted THEN "up" ELSE "none"]
  /\ UNCHANGED <<env, pair, parts, threads, control>>

\* The follower's gripper may fail to initialise; its thread commands it all
\* the same.
OpenGripper ==
  /\ Role = "follower"
  /\ MainFrom("devices", "systems")
  /\ device' = [d \in Devices |-> IF d \in Mounted THEN "up" ELSE "none"]
  /\ UNCHANGED <<env, pair, parts, threads, control>>

\* The systems of the control law.  Both nodes make those of a vertical arm
\* if the leader is vertical.
MakeLeaderSystems ==
  /\ Role = "leader"
  /\ MainFrom("systems", "teleop")
  /\ pair' = LeaderVertical
  /\ UNCHANGED <<env, device, parts, threads, control>>

MakeFollowerSystems ==
  /\ Role = "follower"
  /\ MainFrom("systems", "teleop")
  /\ pair' = LeaderVertical
  /\ UNCHANGED <<env, device, parts, threads, control>>

\* The node's constructor: the two modules with a UDP handler may throw (a
\* port in use, a routing no packet can have) ...
MakeLink(m, next) ==
  /\ \/ MainFrom(m, next) /\ built' = built \cup {m}
     \/ MainFrom(m, "failed") /\ built' = {}
  /\ UNCHANGED <<env, device, pair, loaded, threads, control>>

\* ... the others do not; what is flagged is loaded ...
MakeModules ==
  /\ MainFrom("modules", "start")
  /\ built' = built \cup {"dynamics", "logging"}
  /\ loaded' = AutoLoad
  /\ todo' = Workers
  /\ UNCHANGED <<env, device, pair, running, worker, still, control>>

\* ... the module threads are started ...
StartWorker ==
  /\ main = "start" /\ todo # <<>>
  /\ running' = [running EXCEPT ![Head(todo)] = TRUE]
  /\ worker' = [worker EXCEPT ![Head(todo)] = "top"]
  /\ todo' = Tail(todo)
  /\ UNCHANGED <<main, env, device, pair, parts, still, control>>

\* ... and the execution manager takes the node.
StartManaging ==
  /\ MainFrom("start", "wire")
  /\ todo = <<>>
  /\ managed' = TRUE
  /\ UNCHANGED <<env, device, pair, parts, threads, cycle>>

\* The systems are connected; those of a vertical arm are dereferenced.
Wire(vertical) ==
  /\ MainFrom("wire", IF vertical /\ ~pair THEN "crashed" ELSE "prompt")
  /\ UNCHANGED <<env, device, pair, parts, threads, control>>

\* Mutant: what is made for one arm is connected for the other.
Mut_WireLeader == Role = "leader" /\ Wire(~LeaderVertical)

WireLeader == Role = "leader" /\ Wire(LeaderVertical)

WireFollower == Role = "follower" /\ Wire(FollowerVertical)

Startup ==
  \/ LoadConfig \/ OpenHandleAndWrist \/ OpenGripper
  \/ MakeLeaderSystems \/ MakeFollowerSystems
  \/ MakeLink("teleop", "policy") \/ MakeLink("policy", "modules")
  \/ MakeModules \/ StartWorker \/ StartManaging
  \/ WireLeader \/ WireFollower

-----------------------------------------------------------------------------
(* The console.                                                            *)

Letters == {"l", "p", "i", "d", "g", "t", "x"}

Key(m) == CASE m = "policy" -> "p" [] m = "dynamics" -> "d" [] m = "logging" -> "g"

\* getline() on a stream that has failed leaves the line as it was, and it is
\* handled again.
Reads(key) ==
  /\ main = "prompt"
  /\ stdin = "good" \/ line = key

\* p, d and g.
Toggle(m) ==
  /\ Reads(Key(m))
  /\ loaded' = IF m \in loaded THEN loaded \ {m} ELSE loaded \cup {m}
  /\ UNCHANGED <<main, env, device, pair, built, threads, control>>

\* l: linked, or unlinked.
LinkOrUnlink ==
  /\ Reads("l")
  /\ loaded' \in {loaded \cup {"teleop"}, loaded \ {"teleop"}}
  /\ UNCHANGED <<main, env, device, pair, built, threads, control>>

\* t: the joint's number is read as a number, the identifier of the gain, any
\* letter, into the line buffer, and the new gain as a number.
Tune ==
  /\ main = "prompt" /\ stdin = "good"
  /\ \/ UNCHANGED <<stdin, line>>
     \/ stdin' = "failed" /\ line' \in Letters
  /\ UNCHANGED <<config, main, wantsExit, idle, device, pair, parts, threads,
                 control>>

TypeExit ==
  /\ main = "prompt" /\ ~wantsExit
  /\ wantsExit' = TRUE
  /\ UNCHANGED <<config, main, stdin, line, idle, device, pair, parts, threads, control>>

\* Mutant: x leaves the switch and not the loop.
Mut_ReadExit ==
  /\ main = "prompt" /\ wantsExit /\ stdin = "good"
  /\ wantsExit' = FALSE
  /\ UNCHANGED <<config, main, stdin, line, idle, device, pair, parts, threads,
                 control>>

\* x.
ReadExit ==
  /\ IF stdin = "good" THEN wantsExit ELSE line = "x"
  /\ MainFrom("prompt", "release")
  /\ UNCHANGED <<env, device, pair, parts, threads, control>>

Console ==
  \/ \E m \in Modules \ {"teleop"} : Toggle(m)
  \/ LinkOrUnlink \/ Tune \/ TypeExit \/ ReadExit

-----------------------------------------------------------------------------
(* After the console: release the device, wait for the arm to be idle,     *)
(* then the destructors in reverse order of declaration.                   *)

\* The console's device is released; the module threads and the control cycle
\* still run.
Release(d) ==
  /\ MainFrom("release", "wait")
  /\ device' = [e \in Devices |-> IF e = d /\ d \in Mounted THEN "released" ELSE device[e]]
  /\ UNCHANGED <<env, pair, parts, threads, control>>

StopWrist == Role = "leader" /\ Release("wrist")

ShutDownGripper == Role = "follower" /\ Release("gripper")

\* The operator shifts the arm idle when he likes.
ShiftIdle ==
  /\ ~idle
  /\ idle' = TRUE
  /\ UNCHANGED <<config, main, stdin, line, wantsExit, device, pair, parts, threads,
                 control>>

WaitForIdle ==
  /\ idle
  /\ MainFrom("wait", "stop")
  /\ todo' = Workers
  /\ UNCHANGED <<env, device, pair, parts, running, worker, still, control>>

\* Mutant: nobody tells the thread.
Mut_StopWorker ==
  /\ todo # <<>>
  /\ MainFrom("stop", "join")
  /\ UNCHANGED <<env, device, pair, parts, threads, control>>

\* The node's destructor: stop() of a module thread clears its flag ...
StopWorker ==
  /\ todo # <<>>
  /\ MainFrom("stop", "join")
  /\ running' = [running EXCEPT ![Head(todo)] = FALSE]
  /\ UNCHANGED <<env, device, pair, parts, todo, worker, still, control>>

\* ... and joins it ...
JoinWorker ==
  /\ MainFrom("join", "stop")
  /\ worker[Head(todo)] = "done"
  /\ todo' = Tail(todo)
  /\ UNCHANGED <<env, device, pair, parts, running, worker, still, control>>

\* Mutant: no mandatoryCleanUp().
Mut_CleanUp ==
  /\ todo = <<>>
  /\ MainFrom("stop", "destroy")
  /\ UNCHANGED <<env, device, pair, parts, threads, control>>

\* ... mandatoryCleanUp() takes the node from the execution manager, between
\* two cycles ...
CleanUp ==
  /\ todo = <<>> /\ ~cycle
  /\ MainFrom("stop", "destroy")
  /\ managed' = FALSE
  /\ UNCHANGED <<env, device, pair, parts, threads, cycle>>

\* ... and the members go in reverse order, the handlers' destructors joining
\* their threads ...
DestroyModules ==
  /\ MainFrom("destroy", "close")
  /\ built' = {}
  /\ UNCHANGED <<env, device, pair, loaded, threads, control>>

\* ... if these hear of it: a sender or an interpolator that goes to sleep after
\* stop() has notified it, which takes no mutex for that, is joined for ever,
\* the policy handler's or then the teleop handler's, or the teleop handler's
\* when the policy module's constructor throws.
StopHangs ==
  /\ \/ MainFrom("destroy", "hung") /\ built' \in {{"teleop", "policy"}, {"teleop"}}
     \/ MainFrom("policy", "hung") /\ built' = {"teleop"}
  /\ UNCHANGED <<env, device, pair, loaded, threads, control>>

\* Last, the devices.
CloseDevices ==
  /\ MainFrom("close", "done")
  /\ device' = [d \in Devices |-> IF d \in Mounted THEN "gone" ELSE "none"]
  /\ UNCHANGED <<env, pair, parts, threads, control>>

Exit ==
  \/ StopWrist \/ ShutDownGripper \/ WaitForIdle \/ StopWorker \/ JoinWorker \/ CleanUp
  \/ DestroyModules \/ StopHangs \/ CloseDevices

-----------------------------------------------------------------------------
(* The module threads, every 2 ms.                                         *)

WorkerFrom(d, a, b) ==
  /\ main \notin Ended
  /\ worker[d] = a
  /\ worker' = [worker EXCEPT ![d] = b]

\* The loop looks at its flag ...
WorkerTop(d) ==
  /\ WorkerFrom(d, "top", IF running[d] THEN "use" ELSE "last")
  /\ UNCHANGED <<main, env, device, pair, parts, todo, running, still, control>>

\* ... commands or polls its device ...
WorkerUse(d) ==
  /\ WorkerFrom(d, "use", "share")
  /\ still' = (d # "gripper")
  /\ UNCHANGED <<main, env, device, pair, parts, todo, running, control>>

\* ... and shares what it read, under the state's lock, which a cycle holds
\* from begin to end.
WorkerShare(d) ==
  /\ ~cycle
  /\ WorkerFrom(d, "share", "top")
  /\ UNCHANGED <<main, env, device, pair, parts, todo, running, still, control>>

\* Mutant: the gripper is left as it was commanded last.
Mut_WorkerEnd(d) ==
  /\ WorkerFrom(d, "last", "done")
  /\ UNCHANGED <<main, env, device, pair, parts, todo, running, still, control>>

\* The gripper's thread ends by commanding velocity 0.
WorkerEnd(d) ==
  /\ WorkerFrom(d, "last", "done")
  /\ still' = TRUE
  /\ UNCHANGED <<main, env, device, pair, parts, todo, running, control>>

Worker(d) == WorkerTop(d) \/ WorkerUse(d) \/ WorkerShare(d) \/ WorkerEnd(d)

-----------------------------------------------------------------------------
(* The control cycle.                                                      *)

BeginCycle ==
  /\ main \notin Ended
  /\ managed /\ ~cycle
  /\ cycle' = TRUE
  /\ UNCHANGED <<main, env, device, pair, parts, threads, managed>>

\* It may unlink, and follows the peer with the wrist only while linked.
EndCycle ==
  /\ main \notin Ended
  /\ cycle
  /\ cycle' = FALSE
  /\ loaded' \in {loaded, loaded \ {"teleop"}}
  /\ UNCHANGED <<main, env, device, pair, built, threads, managed>>

Next ==
  \/ Startup \/ Console \/ Exit \/ ShiftIdle
  \/ \E d \in Devices : Worker(d)
  \/ BeginCycle \/ EndCycle

Spec == Init /\ [][Next]_vars

\* The main thread and the module threads go on when they can, the console
\* reads what was typed, and a cycle that has begun ends; a thread that wants
\* the state's lock gets it in one of the pauses between cycles.
FairSpec ==
  /\ Spec
  /\ WF_vars(Startup \/ ReadExit \/ Exit)
  /\ WF_vars(EndCycle)
  /\ \A d \in Devices : SF_vars(Worker(d))
  /\ SF_vars(CleanUp)

-----------------------------------------------------------------------------
(* Properties.                                                             *)

\* The type invariant of the node's life.
TypeOK ==
  /\ config \in Configs
  /\ main \in {"config", "devices", "systems", "teleop", "policy", "modules",
               "start", "wire", "prompt", "release", "wait", "stop", "join",
               "destroy", "close", "hung"} \cup Ended
  /\ stdin \in {"good", "failed"}
  /\ line \in Letters \cup {"none"}
  /\ wantsExit \in BOOLEAN /\ idle \in BOOLEAN
  /\ device \in [Devices -> {"none", "up", "released", "gone"}]
  /\ pair \in BOOLEAN
  /\ built \subseteq Modules /\ loaded \subseteq Modules
  /\ todo \in Seq(Devices)
  /\ running \in [Devices -> BOOLEAN]
  /\ worker \in [Devices -> {"none", "top", "use", "share", "last", "done"}]
  /\ still \in BOOLEAN
  /\ managed \in BOOLEAN /\ cycle \in BOOLEAN

\* A control cycle runs only with every module in place, and a module thread
\* only with its device and the shared state in place: neither before the
\* constructor made them nor after the destructor took them away.
NothingUsesTheGone ==
  /\ cycle => built = Modules
  /\ \A d \in Devices :
       worker[d] \in {"top", "use", "share", "last"}
         => device[d] \notin {"none", "gone"} /\ built = Modules

\* A follower that exits, or hangs on the way out, leaves its gripper commanded
\* to stand still, even though the gripper is shut down while its thread still
\* commands it.
GripperLeftStill == main \in {"done", "hung"} => still

\* An arm is wired without the systems it needs only if it is the follower's,
\* and mounted on a wall while the leader's stands.
CrashNeedsUnlikeArms ==
  main = "crashed" => Role = "follower" /\ FollowerVertical /\ ~LeaderVertical

\* Once the operator has typed x, and shifted the arm idle, the module threads
\* and the control cycle come to their ends, whatever they are doing, and the
\* process does, unless a handler's stop() loses its notification.
ExitCompletes == main = "release" /\ idle ~> main \in {"done", "hung"}

\* As long as everything read as a number was one, x leaves the console.
ExitKeyWorksUntilMistyped ==
  main = "prompt" /\ wantsExit ~> main = "release" \/ stdin = "failed"
=============================================================================
