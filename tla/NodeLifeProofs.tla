--------------------------- MODULE NodeLifeProofs ---------------------------
(***************************************************************************)
(* Proofs about NodeLife's safety, for both roles and every configuration. *)
(*                                                                         *)
(* What exists is a matter of how far the main thread is (Built, Ready,    *)
(* Paired); what runs, of what it has still to stop (LiveIsListed).        *)
(*                                                                         *)
(* And about Configuration, at the end: what a node was started with has   *)
(* been read to its last file and objected to by nobody.                   *)
(***************************************************************************)
EXTENDS NodeLife, Configuration, TLAPS

Mains == {"config", "devices", "systems", "teleop", "policy", "modules",
          "start", "wire", "prompt", "release", "wait", "stop", "join",
          "destroy", "close", "hung"} \cup Ended

\* From the first module thread to the last.
Whole == {"start", "wire", "prompt", "release", "wait", "stop", "join", "crashed"}

Live(d) == worker[d] \in {"top", "use", "share", "last"}
Listed(d) == \E i \in 1..Len(todo) : todo[i] = d

\* The modules of each stage.
Built ==
  /\ main \in Whole \cup {"destroy"} => built = Modules
  /\ main \in {"config", "devices", "systems", "teleop"} => built = {}
  /\ main = "policy" => built = {"teleop"}
  /\ main = "modules" => built = {"teleop", "policy"}

\* A cycle runs while the node is managed, a thread while it has its device.
Running ==
  /\ managed => main \in Whole
  /\ cycle => managed
  /\ \A d \in Devices :
       Live(d) => main \in Whole /\ d \in Mounted

\* The devices and the systems are made first and go last.
Ready ==
  main \in Whole \cup {"systems", "teleop", "policy", "modules"} =>
    \A d \in Mounted : device[d] \in {"up", "released"}

Paired ==
  main \in Whole \cup {"teleop", "policy", "modules"} => pair = LeaderVertical

\* While threads are being stopped, a thread that runs is still to be stopped.
LiveIsListed ==
  /\ \A i \in 1..Len(todo) : todo[i] \in Mounted
  /\ main \in {"stop", "join"} => \A d \in Devices : Live(d) => Listed(d)
  /\ main = "join" => todo # <<>>

\* A gripper that moves has a thread that will stop it.
MovingIsLive == ~still => Live("gripper")

Types ==
  /\ config \in Configs /\ main \in Mains
  /\ device \in [Devices -> {"none", "up", "released", "gone"}]
  /\ built \subseteq Modules
  /\ todo \in Seq(Devices)
  /\ worker \in [Devices -> {"none", "top", "use", "share", "last", "done"}]

IInv ==
  /\ Types /\ Built /\ Running /\ Ready /\ Paired
  /\ LiveIsListed /\ MovingIsLive /\ CrashNeedsUnlikeArms

-----------------------------------------------------------------------------
LEMMA WorkersType ==
  /\ Workers \in Seq(Devices)
  /\ DOMAIN Workers = 1..Len(Workers)
  /\ Mounted \subseteq Devices
  /\ \A d \in Mounted : \E i \in 1..Len(Workers) : Workers[i] = d
  /\ \A i \in 1..Len(Workers) : Workers[i] \in Mounted
<1>1. \/ Workers = <<"gripper">> \/ Workers = <<"handle", "wrist">>
      \/ Workers = <<"handle">>
  BY DEF Workers
<1>2. Workers \in Seq(Devices)
  <2>1. <<"gripper">> \in Seq(Devices) /\ <<"handle">> \in Seq(Devices)
    BY DEF Devices
  <2>2. <<"handle", "wrist">> \in Seq(Devices)
    BY DEF Devices
  <2> HIDE DEF Workers
  <2> QED
    BY <1>1, <2>1, <2>2
<1>3. DOMAIN Workers = 1..Len(Workers)
  BY <1>2
<1>4. \A i \in 1..Len(Workers) : Workers[i] \in Devices
  BY <1>2
<1>5. Mounted = {Workers[i] : i \in 1..Len(Workers)}
  BY <1>3 DEF Mounted
<1> QED
  BY <1>2, <1>3, <1>4, <1>5

\* The configuration is rigid, and all that is read off it.
LEMMA SameNode ==
  ASSUME config' = config
  PROVE  /\ Workers' = Workers /\ Mounted' = Mounted
         /\ LeaderVertical' = LeaderVertical
         /\ FollowerVertical' = FollowerVertical /\ Role' = Role
  BY DEF Workers, Mounted, HasWrist, Role, LeaderVertical, FollowerVertical

LEMMA InitInv == Init => IInv
<1> SUFFICES ASSUME Init PROVE IInv
  OBVIOUS
<1> USE DEF Init
<1>1. todo \in Seq(Devices) /\ Len(todo) = 0
  OBVIOUS
<1>2. Types
  BY <1>1 DEF Types, Mains
<1>3. Built /\ Running /\ Ready /\ Paired /\ MovingIsLive /\ CrashNeedsUnlikeArms
  BY DEF Built, Running, Ready, Paired, Whole, Live, MovingIsLive, CrashNeedsUnlikeArms
<1>4. LiveIsListed
  BY <1>1 DEF LiveIsListed, Live
<1> QED
  BY <1>2, <1>3, <1>4 DEF IInv

-----------------------------------------------------------------------------
(* The main thread.                                                        *)

\* Steps before anything runs leave the threads alone.
LEMMA NobodyRuns ==
  ASSUME IInv, main \in {"config", "devices", "systems", "teleop", "policy", "modules"},
         UNCHANGED <<config, todo, worker, still, managed, cycle>>,
         main' \notin {"stop", "join", "crashed"},
         device' \in [Devices -> {"none", "up", "released", "gone"}],
         built' \subseteq Modules, main' \in Mains,
         Built', Ready', Paired'
  PROVE  IInv'
<1>1. ~managed /\ ~cycle /\ \A d \in Devices : ~Live(d)
  BY DEF IInv, Running, Whole
<1>2. \A d : Live(d)' <=> Live(d)
  BY DEF Live
<1>3. Running'
  BY <1>1, <1>2 DEF Running
<1>4. Types'
  BY DEF IInv, Types
<1>5. LiveIsListed'
  BY SameNode DEF IInv, LiveIsListed
<1>6. MovingIsLive' /\ CrashNeedsUnlikeArms'
  BY <1>2 DEF IInv, MovingIsLive, CrashNeedsUnlikeArms
<1> QED
  BY <1>3, <1>4, <1>5, <1>6 DEF IInv

LEMMA LoadConfigInv == ASSUME IInv, LoadConfig PROVE IInv'
<1>1. /\ main = "config" /\ main' \in {"devices", "failed"}
      /\ UNCHANGED <<config, todo, worker, still, managed, cycle, device, built>>
  BY DEF LoadConfig, MainFrom, env, parts, threads, control
<1>2. Built' /\ Ready' /\ Paired'
  BY <1>1 DEF IInv, Built, Ready, Paired, Whole
<1>3. main' \in Mains
  BY <1>1 DEF Mains, Ended
<1>4. device' \in [Devices -> {"none", "up", "released", "gone"}] /\ built' \subseteq Modules
  BY <1>1 DEF IInv, Types
<1> QED
  BY <1>1, <1>2, <1>3, <1>4, NobodyRuns

LEMMA OpenDevicesInv ==
  ASSUME IInv, OpenHandleAndWrist \/ OpenGripper PROVE IInv'
<1>1. /\ main = "devices" /\ main' = "systems"
      /\ UNCHANGED <<config, todo, worker, still, managed, cycle, built>>
      /\ device' = [d \in Devices |-> IF d \in Mounted THEN "up" ELSE "none"]
  BY DEF OpenHandleAndWrist, OpenGripper, MainFrom, env, parts, threads, control
<1>2. \A d \in Mounted : device'[d] = "up"
  BY <1>1, WorkersType
<1>3. Built' /\ Ready' /\ Paired'
  BY <1>1, <1>2, SameNode DEF IInv, Built, Ready, Paired, Whole
<1>4. main' \in Mains /\ device' \in [Devices -> {"none", "up", "released", "gone"}]
      /\ built' \subseteq Modules
  BY <1>1 DEF Mains, IInv, Types
<1> QED
  BY <1>1, <1>3, <1>4, NobodyRuns

LEMMA MakeSystemsInv ==
  ASSUME IInv, MakeLeaderSystems \/ MakeFollowerSystems PROVE IInv'
<1>1. /\ main = "systems" /\ main' = "teleop"
      /\ UNCHANGED <<config, todo, worker, still, managed, cycle, built, device>>
      /\ pair' = LeaderVertical
  BY DEF MakeLeaderSystems, MakeFollowerSystems, MainFrom, env, parts, threads, control
<1>2. Built' /\ Ready' /\ Paired'
  BY <1>1, SameNode DEF IInv, Built, Ready, Paired, Whole
<1>3. main' \in Mains /\ device' \in [Devices -> {"none", "up", "released", "gone"}]
      /\ built' \subseteq Modules
  BY <1>1 DEF Mains, IInv, Types
<1> QED
  BY <1>1, <1>2, <1>3, NobodyRuns

LEMMA MakeLinkInv ==
  ASSUME IInv, MakeLink("teleop", "policy") \/ MakeLink("policy", "modules")
  PROVE  IInv'
<1>1. UNCHANGED <<config, todo, worker, still, managed, cycle, device, pair>>
  BY DEF MakeLink, env, threads, control
<1>2. \/ main = "teleop" /\ main' = "policy" /\ built' = built \cup {"teleop"}
      \/ main = "policy" /\ main' = "modules" /\ built' = built \cup {"policy"}
      \/ main \in {"teleop", "policy"} /\ main' = "failed" /\ built' = {}
  BY DEF MakeLink, MainFrom
<1>3. /\ main = "policy" => built = {"teleop"}
      /\ main = "teleop" => built = {}
  BY DEF IInv, Built
<1>4. Ready' /\ Paired'
  BY <1>1, <1>2, SameNode DEF IInv, Ready, Paired, Whole
<1>5. main' \in Mains /\ device' \in [Devices -> {"none", "up", "released", "gone"}]
      /\ built' \subseteq Modules
  BY <1>1, <1>2 DEF Mains, Ended, IInv, Types, Modules
<1>6. Built'
  BY <1>2, <1>3 DEF Built, Whole
<1> QED
  BY <1>1, <1>2, <1>4, <1>5, <1>6, NobodyRuns

LEMMA MakeModulesInv == ASSUME IInv, MakeModules PROVE IInv'
<1>1. /\ main = "modules" /\ main' = "start"
      /\ UNCHANGED <<config, worker, still, managed, cycle, device, pair>>
      /\ built' = built \cup {"dynamics", "logging"} /\ todo' = Workers
  BY DEF MakeModules, MainFrom, env, control
<1>2. built' = Modules
  BY <1>1 DEF IInv, Built, Modules
<1>3. Types'
  BY <1>1, <1>2, WorkersType DEF IInv, Types, Mains
<1>4. Built' /\ Ready' /\ Paired'
  BY <1>1, <1>2, SameNode DEF IInv, Built, Ready, Paired, Whole
<1>5. \A d : Live(d)' <=> Live(d)
  BY <1>1 DEF Live
<1>6. Running' /\ MovingIsLive' /\ CrashNeedsUnlikeArms'
  BY <1>1, <1>5 DEF IInv, Running, Whole, MovingIsLive, CrashNeedsUnlikeArms
<1>7. LiveIsListed'
  BY <1>1, SameNode, WorkersType DEF LiveIsListed
<1> QED
  BY <1>3, <1>4, <1>6, <1>7 DEF IInv

\* The head of a list, and what its tail still lists.
LEMMA HeadAndTail ==
  ASSUME NEW S, NEW q \in Seq(S), q # <<>>
  PROVE  /\ Head(q) = q[1] /\ Head(q) \in S /\ 1 \in 1..Len(q)
         /\ Tail(q) \in Seq(S) /\ Len(Tail(q)) = Len(q) - 1
         /\ \A i \in 1..Len(Tail(q)) : i + 1 \in 1..Len(q) /\ Tail(q)[i] = q[i + 1]
         /\ \A i \in 1..Len(q) : i # 1 => i - 1 \in 1..Len(Tail(q))
                                          /\ Tail(q)[i - 1] = q[i]
  OBVIOUS

LEMMA StartWorkerInv == ASSUME IInv, StartWorker PROVE IInv'
<1>1. /\ main = "start" /\ todo # <<>> /\ main' = main
      /\ UNCHANGED <<config, still, managed, cycle, device, pair, built>>
      /\ worker' = [worker EXCEPT ![Head(todo)] = "top"]
      /\ todo' = Tail(todo)
  BY DEF StartWorker, env, parts, control
<1>2. Head(todo) \in Mounted /\ Head(todo) \in Devices /\ todo' \in Seq(Devices)
  BY <1>1, HeadAndTail DEF IInv, Types, LiveIsListed
<1>3. Types'
  BY <1>1, <1>2 DEF IInv, Types
<1>4. Built' /\ Ready' /\ Paired' /\ CrashNeedsUnlikeArms'
  BY <1>1, SameNode DEF IInv, Built, Ready, Paired, CrashNeedsUnlikeArms
<1>5. \A d \in Devices : Live(d)' <=> Live(d) \/ d = Head(todo)
  BY <1>1, <1>2 DEF Live, IInv, Types
<1>6. Running'
  BY <1>1, <1>2, <1>5, SameNode DEF IInv, Running, Whole
<1>7. MovingIsLive'
  BY <1>1, <1>5 DEF IInv, MovingIsLive, Devices
<1>8. LiveIsListed'
  <2>1. \A i \in 1..Len(todo') : todo'[i] \in Mounted'
    BY <1>1, HeadAndTail, SameNode DEF IInv, Types, LiveIsListed
  <2> QED
    BY <2>1, <1>1 DEF LiveIsListed
<1> QED
  BY <1>3, <1>4, <1>6, <1>7, <1>8 DEF IInv

\* Steps of the main thread that leave the threads and the devices alone.
LEMMA NothingStops ==
  ASSUME IInv, main \in Whole \ {"crashed"}, main' \in Whole \ {"stop", "join"},
         UNCHANGED <<config, todo, worker, still, cycle, built, device, pair>>,
         managed' = managed \/ managed' = TRUE, CrashNeedsUnlikeArms'
  PROVE  IInv'
<1>1. \A d : Live(d)' <=> Live(d)
  BY DEF Live
<1>2. Types'
  BY DEF IInv, Types, Whole, Mains, Ended
<1>3. Built' /\ Ready' /\ Paired'
  BY SameNode DEF IInv, Built, Ready, Paired, Whole
<1>4. Running' /\ MovingIsLive'
  BY <1>1, SameNode DEF IInv, Running, MovingIsLive
<1>5. LiveIsListed'
  BY SameNode DEF IInv, LiveIsListed
<1> QED
  BY <1>2, <1>3, <1>4, <1>5 DEF IInv

LEMMA StartManagingInv == ASSUME IInv, StartManaging PROVE IInv'
<1>1. /\ main = "start" /\ main' = "wire" /\ managed' = TRUE
      /\ UNCHANGED <<config, todo, worker, still, cycle, built, device, pair>>
  BY DEF StartManaging, MainFrom, env, parts, threads
<1>2. CrashNeedsUnlikeArms'
  BY <1>1 DEF CrashNeedsUnlikeArms
<1> QED
  BY <1>1, <1>2, NothingStops DEF Whole

LEMMA WireInv == ASSUME IInv, WireLeader \/ WireFollower PROVE IInv'
<1>1. /\ main = "wire" /\ main' \in {"crashed", "prompt"}
      /\ UNCHANGED <<config, todo, worker, still, cycle, built, device, pair, managed>>
  BY DEF WireLeader, WireFollower, Wire, MainFrom, env, parts, threads, control
<1>2. pair = LeaderVertical
  BY <1>1 DEF IInv, Paired, Whole
<1>3. CrashNeedsUnlikeArms'
  <2>1. main' = "crashed" => Role = "follower" /\ FollowerVertical /\ ~LeaderVertical
    BY <1>2 DEF WireLeader, WireFollower, Wire, MainFrom
  <2> QED
    BY <1>1, <2>1, SameNode DEF CrashNeedsUnlikeArms
<1> QED
  BY <1>1, <1>3, NothingStops DEF Whole

-----------------------------------------------------------------------------
(* The console, and the way out.                                           *)

LEMMA StutterInv ==
  ASSUME IInv,
         UNCHANGED <<config, main, todo, worker, still, built, device, pair, managed, cycle>>
  PROVE  IInv'
<1>1. \A d : Live(d)' <=> Live(d)
  BY DEF Live
<1>2. \A d : Listed(d)' <=> Listed(d)
  BY DEF Listed
<1>3. Types' /\ Built' /\ Ready' /\ Paired' /\ CrashNeedsUnlikeArms'
  BY SameNode DEF IInv, Types, Built, Ready, Paired, CrashNeedsUnlikeArms
<1>4. Running' /\ MovingIsLive' /\ LiveIsListed'
  BY <1>1, <1>2, SameNode DEF IInv, Running, MovingIsLive, LiveIsListed
<1> QED
  BY <1>3, <1>4 DEF IInv

LEMMA ConsoleInv == ASSUME IInv, Console \/ ShiftIdle PROVE IInv'
<1>1. CASE ReadExit
  <2>1. /\ main = "prompt" /\ main' = "release"
        /\ UNCHANGED <<config, todo, worker, still, cycle, built, device, pair, managed>>
    BY <1>1 DEF ReadExit, MainFrom, env, parts, threads, control
  <2>2. CrashNeedsUnlikeArms'
    BY <2>1 DEF CrashNeedsUnlikeArms
  <2> QED
    BY <2>1, <2>2, NothingStops DEF Whole
<1>2. CASE ~ReadExit
  <2>1. UNCHANGED <<config, main, todo, worker, still, built, device, pair, managed, cycle>>
    BY <1>2 DEF Console, Toggle, LinkOrUnlink, Tune, TypeExit, ShiftIdle,
                env, parts, threads, control
  <2> QED
    BY <2>1, StutterInv
<1> QED
  BY <1>1, <1>2

LEMMA ReleaseInv == ASSUME IInv, StopWrist \/ ShutDownGripper PROVE IInv'
<1>1. /\ main = "release" /\ main' = "wait"
      /\ UNCHANGED <<config, todo, worker, still, cycle, built, pair, managed>>
  BY DEF StopWrist, ShutDownGripper, Release, MainFrom, env, parts, threads, control
<1>2. PICK e \in Devices :
        device' = [d \in Devices |->
                     IF d = e /\ e \in Mounted THEN "released" ELSE device[d]]
  BY DEF StopWrist, ShutDownGripper, Release, Devices
<1>3. Types'
  BY <1>1, <1>2 DEF IInv, Types, Mains
<1>4. Ready'
  <2>1. \A d \in Mounted : device[d] \in {"up", "released"}
    BY <1>1 DEF IInv, Ready, Whole
  <2> QED
    BY <2>1, <1>1, <1>2, WorkersType, SameNode DEF Ready
<1>5. Built' /\ Paired' /\ CrashNeedsUnlikeArms'
  BY <1>1, SameNode DEF IInv, Built, Paired, Whole, CrashNeedsUnlikeArms
<1>6. \A d : Live(d)' <=> Live(d)
  BY <1>1 DEF Live
<1>7. Running' /\ MovingIsLive'
  BY <1>1, <1>6, SameNode DEF IInv, Running, Whole, MovingIsLive
<1>8. LiveIsListed'
  BY <1>1, SameNode DEF IInv, LiveIsListed
<1> QED
  BY <1>3, <1>4, <1>5, <1>7, <1>8 DEF IInv

\* Steps of the main thread between two stages that leave threads and devices
\* alone, and lists to be stopped whoever is still live.
LEMMA Stopping ==
  ASSUME IInv, main \in Whole \ {"crashed"}, main' \in {"stop", "join"},
         UNCHANGED <<config, worker, still, cycle, built, device, pair, managed>>,
         todo' \in Seq(Devices), \A i \in 1..Len(todo') : todo'[i] \in Mounted,
         \A d \in Devices : Live(d) => Listed(d)',
         main' = "join" => todo' # <<>>
  PROVE  IInv'
<1>1. \A d : Live(d)' <=> Live(d)
  BY DEF Live
<1>2. Types'
  BY DEF IInv, Types, Mains
<1>3. Built' /\ Ready' /\ Paired' /\ CrashNeedsUnlikeArms'
  BY SameNode DEF IInv, Built, Ready, Paired, Whole, CrashNeedsUnlikeArms
<1>4. Running' /\ MovingIsLive'
  BY <1>1, SameNode DEF IInv, Running, Whole, MovingIsLive
<1>5. LiveIsListed'
  BY <1>1, SameNode DEF LiveIsListed
<1> QED
  BY <1>2, <1>3, <1>4, <1>5 DEF IInv

LEMMA WaitForIdleInv == ASSUME IInv, WaitForIdle PROVE IInv'
<1>1. /\ main = "wait" /\ main' = "stop" /\ todo' = Workers
      /\ UNCHANGED <<config, worker, still, cycle, built, device, pair, managed>>
  BY DEF WaitForIdle, MainFrom, env, parts, control
<1>2. \A d \in Devices : Live(d) => d \in Mounted
  BY DEF IInv, Running
<1>3. \A d \in Devices : Live(d) => Listed(d)'
  BY <1>1, <1>2, WorkersType DEF Listed
<1>4. todo' \in Seq(Devices) /\ \A i \in 1..Len(todo') : todo'[i] \in Mounted
  BY <1>1, WorkersType
<1> QED
  BY <1>1, <1>3, <1>4, Stopping DEF Whole

LEMMA StopWorkerInv == ASSUME IInv, StopWorker PROVE IInv'
<1>1. /\ main = "stop" /\ main' = "join" /\ todo' = todo /\ todo # <<>>
      /\ UNCHANGED <<config, worker, still, cycle, built, device, pair, managed>>
  BY DEF StopWorker, MainFrom, env, parts, control
<1>2. \A d \in Devices : Live(d) => Listed(d)'
  BY <1>1 DEF IInv, LiveIsListed, Listed
<1>3. todo' \in Seq(Devices) /\ \A i \in 1..Len(todo') : todo'[i] \in Mounted
  BY <1>1 DEF IInv, Types, LiveIsListed
<1> QED
  BY <1>1, <1>2, <1>3, Stopping DEF Whole

LEMMA JoinWorkerInv == ASSUME IInv, JoinWorker PROVE IInv'
<1>1. /\ main = "join" /\ main' = "stop" /\ todo' = Tail(todo)
      /\ worker[Head(todo)] = "done"
      /\ UNCHANGED <<config, worker, still, cycle, built, device, pair, managed>>
  BY DEF JoinWorker, MainFrom, env, parts, control
<1>2. todo \in Seq(Devices) /\ todo # <<>>
      /\ \A i \in 1..Len(todo) : todo[i] \in Mounted
  BY <1>1 DEF IInv, Types, LiveIsListed
<1>3. ASSUME NEW d \in Devices, Live(d) PROVE Listed(d)'
  <2>1. PICK i \in 1..Len(todo) : todo[i] = d
    BY <1>1, <1>3 DEF IInv, LiveIsListed, Listed
  <2>2. i # 1
    BY <2>1, <1>1, <1>2, <1>3, HeadAndTail DEF Live
  <2>3. i - 1 \in 1..Len(Tail(todo)) /\ Tail(todo)[i - 1] = d
    BY <2>1, <2>2, <1>2, HeadAndTail
  <2> QED
    BY <2>3, <1>1 DEF Listed
<1>4. todo' \in Seq(Devices) /\ \A i \in 1..Len(todo') : todo'[i] \in Mounted
  BY <1>1, <1>2, HeadAndTail
<1> QED
  BY <1>1, <1>3, <1>4, Stopping DEF Whole

\* From here on nobody runs.
LEMMA Afterwards ==
  ASSUME IInv, \A d \in Devices : ~Live(d), ~managed', ~cycle',
         main' \in {"destroy", "close", "done", "hung"},
         main' = "destroy" => built' = Modules,
         UNCHANGED <<config, todo, worker, still>>, built' \subseteq Modules,
         device' \in [Devices -> {"none", "up", "released", "gone"}]
  PROVE  IInv'
<1>1. \A d : Live(d)' <=> Live(d)
  BY DEF Live
<1>2. Types'
  BY DEF IInv, Types, Mains, Ended
<1>3. Built' /\ Ready' /\ Paired' /\ CrashNeedsUnlikeArms'
  BY DEF Built, Ready, Paired, Whole, CrashNeedsUnlikeArms
<1>4. Running' /\ MovingIsLive'
  BY <1>1 DEF IInv, Running, MovingIsLive, Devices
<1>5. LiveIsListed'
  BY SameNode DEF IInv, LiveIsListed
<1> QED
  BY <1>2, <1>3, <1>4, <1>5 DEF IInv

LEMMA CleanUpInv == ASSUME IInv, CleanUp PROVE IInv'
<1>1. /\ main = "stop" /\ main' = "destroy" /\ todo = <<>> /\ ~managed' /\ ~cycle'
      /\ UNCHANGED <<config, todo, worker, still, built, device>>
  BY DEF CleanUp, MainFrom, env, parts, threads
<1>2. Len(todo) = 0
  BY <1>1
<1>3. \A d \in Devices : ~Live(d)
  BY <1>1, <1>2 DEF IInv, LiveIsListed, Listed
<1>4. built' = Modules /\ device' \in [Devices -> {"none", "up", "released", "gone"}]
  BY <1>1 DEF IInv, Types, Built, Whole
<1> QED
  BY <1>1, <1>3, <1>4, Afterwards

LEMMA DestroyInv ==
  ASSUME IInv, DestroyModules \/ StopHangs \/ CloseDevices PROVE IInv'
<1>1. /\ main \in {"policy", "destroy", "close"}
      /\ main' \in {"close", "done", "hung"}
      /\ UNCHANGED <<config, todo, worker, still, managed, cycle>>
  BY DEF DestroyModules, StopHangs, CloseDevices, MainFrom, env, parts, threads,
         control
<1>2. built' \subseteq Modules
  BY DEF DestroyModules, StopHangs, CloseDevices, parts, IInv, Types, Modules
<1>3. device' \in [Devices -> {"none", "up", "released", "gone"}]
  BY DEF DestroyModules, StopHangs, CloseDevices, IInv, Types
<1>4. ~managed /\ ~cycle /\ \A d \in Devices : ~Live(d)
  BY <1>1 DEF IInv, Running, Whole
<1> QED
  BY <1>1, <1>2, <1>3, <1>4, Afterwards

-----------------------------------------------------------------------------
(* The module threads and the control cycle.                               *)

LEMMA WorkerInv == ASSUME IInv, NEW d \in Devices, Worker(d) PROVE IInv'
<1>1. /\ main' = main /\ Live(d)
      /\ UNCHANGED <<config, todo, managed, cycle, built, device, pair>>
  BY DEF Worker, WorkerTop, WorkerUse, WorkerShare, WorkerEnd, WorkerFrom, Live,
         env, parts, control
<1>2. PICK to \in {"top", "use", "share", "last", "done"} :
        worker' = [worker EXCEPT ![d] = to]
  BY DEF Worker, WorkerTop, WorkerUse, WorkerShare, WorkerEnd, WorkerFrom
<1>3. ~still' => worker'[d] # "done" /\ (d = "gripper" \/ ~still)
  <2>1. CASE WorkerTop(d) \/ WorkerShare(d)
    BY <2>1, <1>2 DEF WorkerTop, WorkerShare, WorkerFrom, IInv, Types
  <2>2. CASE WorkerUse(d)
    BY <2>2, <1>2 DEF WorkerUse, WorkerFrom, IInv, Types
  <2>3. CASE WorkerEnd(d)
    BY <2>3 DEF WorkerEnd
  <2> QED
    BY <2>1, <2>2, <2>3 DEF Worker
<1>4. Types'
  BY <1>1, <1>2 DEF IInv, Types
<1>5. /\ \A e \in Devices : Live(e)' => Live(e)
      /\ \A e \in Devices : Live(e) => Live(e)' \/ e = d
      /\ worker'[d] # "done" => Live(d)'
  BY <1>1, <1>2 DEF Live, IInv, Types
<1>6. Built' /\ Ready' /\ Paired' /\ CrashNeedsUnlikeArms'
  BY <1>1, SameNode DEF IInv, Built, Ready, Paired, CrashNeedsUnlikeArms
<1>7. Running'
  BY <1>1, <1>5, SameNode DEF IInv, Running
<1>8. MovingIsLive'
  BY <1>3, <1>5 DEF IInv, MovingIsLive, Devices
<1>9. LiveIsListed'
  BY <1>1, <1>5, SameNode DEF IInv, LiveIsListed, Listed
<1> QED
  BY <1>4, <1>6, <1>7, <1>8, <1>9 DEF IInv

LEMMA CycleInv == ASSUME IInv, BeginCycle \/ EndCycle PROVE IInv'
<1>1. /\ cycle' => managed
      /\ UNCHANGED <<config, main, todo, worker, still, built, device, pair, managed>>
  BY DEF BeginCycle, EndCycle, env, parts, threads
<1>2. \A d : Live(d)' <=> Live(d)
  BY <1>1 DEF Live
<1>3. \A d : Listed(d)' <=> Listed(d)
  BY <1>1 DEF Listed
<1>4. Types' /\ Built' /\ Ready' /\ Paired' /\ CrashNeedsUnlikeArms'
  BY <1>1, SameNode DEF IInv, Types, Built, Ready, Paired, CrashNeedsUnlikeArms
<1>5. Running' /\ MovingIsLive' /\ LiveIsListed'
  BY <1>1, <1>2, <1>3, SameNode DEF IInv, Running, MovingIsLive, LiveIsListed
<1> QED
  BY <1>4, <1>5 DEF IInv

LEMMA NextInv == IInv /\ [Next]_vars => IInv'
<1> SUFFICES ASSUME IInv, [Next]_vars PROVE IInv'
  OBVIOUS
<1>1. CASE Startup
  BY <1>1, LoadConfigInv, OpenDevicesInv, MakeSystemsInv, MakeLinkInv, MakeModulesInv,
     StartWorkerInv, StartManagingInv, WireInv DEF Startup
<1>2. CASE Console \/ ShiftIdle
  BY <1>2, ConsoleInv
<1>3. CASE Exit
  BY <1>3, ReleaseInv, WaitForIdleInv, StopWorkerInv, JoinWorkerInv, CleanUpInv,
     DestroyInv DEF Exit
<1>4. CASE \E d \in Devices : Worker(d)
  BY <1>4, WorkerInv
<1>5. CASE BeginCycle \/ EndCycle
  BY <1>5, CycleInv
<1>6. CASE UNCHANGED vars
  BY <1>6, StutterInv DEF vars
<1> QED
  BY <1>1, <1>2, <1>3, <1>4, <1>5, <1>6 DEF Next

LEMMA Invariant == Spec => []IInv
  BY InitInv, NextInv, PTL DEF Spec

LEMMA TypeInv == IInv /\ IInv' /\ TypeOK /\ [Next]_vars => TypeOK'
<1> SUFFICES ASSUME IInv, IInv', TypeOK, [Next]_vars PROVE TypeOK'
  OBVIOUS
<1>1. /\ main' \in Mains /\ built' \subseteq Modules /\ todo' \in Seq(Devices)
      /\ device' \in [Devices -> {"none", "up", "released", "gone"}]
      /\ worker' \in [Devices -> {"none", "top", "use", "share", "last", "done"}]
      /\ config' \in Configs
  BY DEF IInv, Types
<1>2. /\ stdin' \in {"good", "failed"} /\ line' \in Letters \cup {"none"}
      /\ wantsExit' \in BOOLEAN /\ idle' \in BOOLEAN /\ pair' \in BOOLEAN
      /\ loaded' \subseteq Modules /\ running' \in [Devices -> BOOLEAN]
      /\ still' \in BOOLEAN /\ managed' \in BOOLEAN /\ cycle' \in BOOLEAN
  <2> USE DEF TypeOK, env, parts, threads, control
  <2>1. CASE Startup
    <3>1. CASE LoadConfig \/ OpenHandleAndWrist \/ OpenGripper
      BY <3>1 DEF LoadConfig, OpenHandleAndWrist, OpenGripper
    <3>2. CASE MakeLeaderSystems \/ MakeFollowerSystems
      BY <3>2, NodeAssumption DEF MakeLeaderSystems, MakeFollowerSystems, LeaderVertical
    <3>3. CASE MakeLink("teleop", "policy") \/ MakeLink("policy", "modules")
      BY <3>3 DEF MakeLink
    <3>4. CASE MakeModules
      BY <3>4, NodeAssumption DEF MakeModules, AutoLoad, Modules
    <3>5. CASE StartWorker \/ StartManaging
      BY <3>5 DEF StartWorker, StartManaging
    <3>6. CASE WireLeader \/ WireFollower
      BY <3>6 DEF WireLeader, WireFollower, Wire
    <3>. QED BY <2>1, <3>1, <3>2, <3>3, <3>4, <3>5, <3>6 DEF Startup
  <2>2. CASE Console \/ ShiftIdle
    <3>1. CASE \E m \in Modules \ {"teleop"} : Toggle(m)
      BY <3>1 DEF Toggle
    <3>2. CASE LinkOrUnlink
      BY <3>2 DEF LinkOrUnlink, Modules
    <3>3. CASE Tune
      BY <3>3 DEF Tune
    <3>4. CASE TypeExit \/ ReadExit \/ ShiftIdle
      BY <3>4 DEF TypeExit, ReadExit, ShiftIdle
    <3> QED
      BY <2>2, <3>1, <3>2, <3>3, <3>4 DEF Console
  <2>3. CASE Exit
    <3>1. CASE StopWrist \/ ShutDownGripper \/ WaitForIdle
      BY <3>1 DEF StopWrist, ShutDownGripper, Release, WaitForIdle
    <3>2. CASE StopWorker
      BY <3>2 DEF StopWorker
    <3>3. CASE JoinWorker \/ CleanUp \/ DestroyModules \/ StopHangs \/ CloseDevices
      BY <3>3 DEF JoinWorker, CleanUp, DestroyModules, StopHangs, CloseDevices
    <3> QED
      BY <2>3, <3>1, <3>2, <3>3 DEF Exit
  <2>4. CASE \E d \in Devices : Worker(d)
    BY <2>4 DEF Worker, WorkerTop, WorkerUse, WorkerShare, WorkerEnd
  <2>5. CASE BeginCycle \/ EndCycle
    BY <2>5 DEF BeginCycle, EndCycle
  <2>6. CASE UNCHANGED vars
    BY <2>6 DEF vars
  <2> QED
    BY <2>1, <2>2, <2>3, <2>4, <2>5, <2>6 DEF Next
<1> QED
  BY <1>1, <1>2 DEF TypeOK, Mains

\* The members and threads of a node are what they are declared to be, from
\* main() to its end.
THEOREM TypeCorrect == Spec => []TypeOK
<1>1. Init => TypeOK
  BY InitInv DEF Init, TypeOK, IInv, Types, Mains
<1> QED
  BY Invariant, <1>1, TypeInv, PTL DEF Spec

\* A control cycle of leader.h or follower.h has every module in place, and a
\* module thread its device, in every configuration and at every moment.
THEOREM NothingGoneIsUsed == Spec => []NothingUsesTheGone
<1>1. IInv => NothingUsesTheGone
  <2> SUFFICES ASSUME IInv PROVE NothingUsesTheGone
    OBVIOUS
  <2>1. cycle => built = Modules
    BY DEF IInv, Running, Built
  <2>2. \A d \in Devices : Live(d) => device[d] \in {"up", "released"} /\ built = Modules
    BY DEF IInv, Running, Built, Ready
  <2> QED
    BY <2>1, <2>2 DEF NothingUsesTheGone, Live
<1> QED
  BY Invariant, <1>1, PTL

\* gripper_module.h's last command comes after every other, also after the
\* gripper was shut down under its thread, and before anything can hang.
THEOREM TheGripperIsLeftStill == Spec => []GripperLeftStill
<1>1. IInv => GripperLeftStill
  BY DEF IInv, Running, MovingIsLive, GripperLeftStill, Whole, Devices
<1> QED
  BY Invariant, <1>1, PTL

\* The connections dereference what was not made in one case only: a follower
\* on a wall whose leader stands.
THEOREM OnlyUnlikeArmsCrash == Spec => []CrashNeedsUnlikeArms
<1>1. IInv => CrashNeedsUnlikeArms
  BY DEF IInv
<1> QED
  BY Invariant, <1>1, PTL

-----------------------------------------------------------------------------
(* Configuration: what a node is started with.                              *)

\* What any file can say.
Sayings == UNION {Says(f) : f \in File}

\* What the loaders throw at.
Objections == {"unreadable", "no routing", "unknown type"}

\* As many files have been read as the load has got to.
Progress ==
  /\ at \in [main : {"validate_args", "wam_main"},
             in : {"find", "load", "loaded", "running", "refused", "thrown"}]
  /\ Len(read) <= 6
  /\ at.in = "find" => Len(read) = 0
  /\ at.in = "load" => Len(read) < 6
  /\ at.in \in {"loaded", "running"} => Len(read) = 6

\* What a loader lets pass: a field is only looked at by a constructor, if at all.
Accepted(f, says) ==
  says \in Says(f) /\ says \notin Objections
    /\ (says = "unknown field" => f \in {"teleop", "policy", "logging"})

\* Every file that was read has been accepted by its loader.
Loading ==
  /\ world \in Worlds /\ dir \in {"none", "env", "home", "etc"}
  /\ edits \in 0..MaxEdits
  /\ \A f \in File : file[f] \in Says(f)
  /\ DOMAIN file = File
  /\ read \in Seq(Sayings)
  /\ Progress
  /\ \A i \in DOMAIN read : Accepted(Files[i], read[i])
  /\ at.in = "running" =>
       Loaded("teleop") # "unknown field" /\ Loaded("policy") # "unknown field"

\* The files by their places.
LEMMA SixFiles ==
  /\ DOMAIN Files = 1..6 /\ Len(Files) = 6
  /\ Files[1] = "teleop" /\ Files[2] = "policy" /\ Files[3] = "logging"
  /\ Files[4] = "gripper" /\ Files[5] = "handle" /\ Files[6] = "dynamics"
BY DEF Files

\* What each file can say.
LEMMA WhatTheySay ==
  /\ Says("teleop") = {"fine", "unreadable", "no routing", "unknown field"}
  /\ Says("policy") =
       {"fine", "unreadable", "no routing", "unknown field", "unknown type"}
  /\ Says("logging") = {"fine", "unreadable", "unknown field", "odd"}
  /\ Says("gripper") = {"fine", "unreadable"}
  /\ Says("handle") = {"fine", "unreadable"}
  /\ Says("dynamics") = {"fine", "unreadable", "odd"}
BY DEF Says

\* Where a file's entry is.
LEMMA LoadedIs ==
  /\ Loaded("teleop") = read[1] /\ Loaded("policy") = read[2]
  /\ Loaded("logging") = read[3] /\ Loaded("gripper") = read[4]
  /\ Loaded("handle") = read[5] /\ Loaded("dynamics") = read[6]
<1>1. ASSUME NEW i \in 1..6
      PROVE  (CHOOSE j \in DOMAIN Files : Files[j] = Files[i]) = i
  <2>1. \A j \in 1..6 : Files[j] = Files[i] => j = i
    BY SixFiles
  <2>. DEFINE c == CHOOSE j \in DOMAIN Files : Files[j] = Files[i]
  <2>2. c \in DOMAIN Files /\ Files[c] = Files[i]
    BY SixFiles
  <2>. QED BY <2>1, <2>2, SixFiles
<1>2. \A i \in 1..6 : Loaded(Files[i]) = read[i]
  BY <1>1 DEF Loaded
<1>. QED BY <1>2, SixFiles

\* A file that none of its load's objections concerns is accepted.
LEMMA LoadInv ==
  ASSUME Loading, NEW i \in 1..6, NEW rejects, Load(Files[i], rejects),
         \A says \in Says(Files[i]) \ rejects : Accepted(Files[i], says)
  PROVE  Loading'
<1>. DEFINE f == Files[i]
<1>1. /\ f \in File /\ file[f] \in Says(f)
      /\ UNCHANGED <<file, world, dir, edits>>
  BY SixFiles DEF File, Loading, Load
<1>2. at.in = "load" /\ read \in Seq(Sayings) /\ Len(read) + 1 \in 1..6
  BY DEF Load, Reading, Loading, Progress
<1>3. Len(read) + 1 = i
  BY <1>2, SixFiles DEF Load, Reading
<1>4. CASE file[f] \in rejects
  <2>1. /\ at' = [at EXCEPT !.in = IF at.main = "validate_args" THEN "refused" ELSE "thrown"]
        /\ UNCHANGED read
    BY <1>4 DEF Load, End
  <2>2. at'.in \in {"refused", "thrown"}
    BY <2>1
  <2>. QED BY <1>1, <2>1, <2>2 DEF Loading, Progress
<1>5. CASE file[f] \notin rejects
  <2>1. /\ read' = Append(read, file[f])
        /\ at' = IF f = "dynamics" THEN [at EXCEPT !.in = "loaded"] ELSE at
    BY <1>5 DEF Load
  <2>2. Accepted(f, file[f])
    BY <1>1, <1>5
  <2>3. file[f] \in Sayings
    BY <1>1 DEF Sayings
  <2>4. /\ read' \in Seq(Sayings) /\ Len(read') = i /\ DOMAIN read' = 1..i
        /\ read'[i] = file[f] /\ \A j \in 1..(i - 1) : read'[j] = read[j]
        /\ DOMAIN read = 1..(i - 1)
    BY <1>2, <1>3, <2>1, <2>3
  <2>5. \A j \in DOMAIN read' : Accepted(Files[j], read'[j])
    <3>1. \A j \in DOMAIN read : Accepted(Files[j], read[j])
      BY DEF Loading
    <3>2. \A j \in 1..i : j = i \/ j \in 1..(i - 1)
      OBVIOUS
    <3>. QED BY <2>2, <2>4, <3>1, <3>2
  <2>6. at'.in = IF i = 6 THEN "loaded" ELSE "load"
    BY <1>2, <2>1, SixFiles DEF Loading, Progress
  <2>7. Progress'
    BY <1>2, <2>1, <2>4, <2>6 DEF Loading, Progress
  <2>. QED BY <1>1, <2>4, <2>5, <2>6, <2>7 DEF Loading
<1>. QED BY <1>4, <1>5

LEMMA NextConfiguration == Loading /\ [ConfigNext]_configvars => Loading'
<1>. SUFFICES ASSUME Loading, [ConfigNext]_configvars PROVE Loading'
  OBVIOUS
<1>1. CASE FindDirectory
  <2>1. world \in Worlds /\ dir \in {"none", "env", "home", "etc"}
    BY DEF Loading
  <2>2. world.env \in {"unset", "directory", "nonsense"}
        /\ world.home \in {"unset", "empty", "directory"}
    BY <2>1 DEF Worlds
  <2>3. Directory \in {"exception", "env", "home", "etc"}
    BY <2>2 DEF Directory
  <2>4. world' = world /\ edits' = edits /\ dir' \in {"none", "env", "home", "etc"}
    BY <1>1, <2>1, <2>3 DEF FindDirectory
  <2>5. UNCHANGED <<file, read>> /\ at.in = "find" /\ Len(read) = 0
    BY <1>1 DEF FindDirectory, Loading, Progress
  <2>6. at' = [at EXCEPT !.in = "thrown"] \/ at' = [at EXCEPT !.in = "load"]
    BY <1>1 DEF FindDirectory, End
  <2>7. Progress' /\ at'.in # "running"
    BY <2>5, <2>6 DEF Loading, Progress
  <2>. QED BY <2>5, <2>7, <2>4 DEF Loading
<1>2. CASE LoadFile
  <2>1. CASE LoadTeleop
    <3>. DEFINE rejects == {"unreadable", "no routing"}
    <3>1. Load(Files[1], rejects)
      BY <2>1, SixFiles DEF LoadTeleop
    <3>2. \A says \in Says(Files[1]) \ rejects : Accepted(Files[1], says)
      BY SixFiles, WhatTheySay DEF Accepted, Objections
    <3>. HIDE DEF rejects
    <3>. QED BY <3>1, <3>2, LoadInv
  <2>2. CASE LoadPolicy
    <3>. DEFINE rejects == {"unreadable", "no routing", "unknown type"}
    <3>1. Load(Files[2], rejects)
      BY <2>2, SixFiles DEF LoadPolicy
    <3>2. \A says \in Says(Files[2]) \ rejects : Accepted(Files[2], says)
      BY SixFiles, WhatTheySay DEF Accepted, Objections
    <3>. HIDE DEF rejects
    <3>. QED BY <3>1, <3>2, LoadInv
  <2>3. CASE LoadLogging
    <3>. DEFINE rejects == {"unreadable"}
    <3>1. Load(Files[3], rejects)
      BY <2>3, SixFiles DEF LoadLogging
    <3>2. \A says \in Says(Files[3]) \ rejects : Accepted(Files[3], says)
      BY SixFiles, WhatTheySay DEF Accepted, Objections
    <3>. HIDE DEF rejects
    <3>. QED BY <3>1, <3>2, LoadInv
  <2>4. CASE LoadGripper
    <3>. DEFINE rejects == {"unreadable"}
    <3>1. Load(Files[4], rejects)
      BY <2>4, SixFiles DEF LoadGripper
    <3>2. \A says \in Says(Files[4]) \ rejects : Accepted(Files[4], says)
      BY SixFiles, WhatTheySay DEF Accepted, Objections
    <3>. HIDE DEF rejects
    <3>. QED BY <3>1, <3>2, LoadInv
  <2>5. CASE LoadHandle
    <3>. DEFINE rejects == {"unreadable"}
    <3>1. Load(Files[5], rejects)
      BY <2>5, SixFiles DEF LoadHandle
    <3>2. \A says \in Says(Files[5]) \ rejects : Accepted(Files[5], says)
      BY SixFiles, WhatTheySay DEF Accepted, Objections
    <3>. HIDE DEF rejects
    <3>. QED BY <3>1, <3>2, LoadInv
  <2>6. CASE LoadDynamics
    <3>. DEFINE rejects == {"unreadable"}
    <3>1. Load(Files[6], rejects)
      BY <2>6, SixFiles DEF LoadDynamics
    <3>2. \A says \in Says(Files[6]) \ rejects : Accepted(Files[6], says)
      BY SixFiles, WhatTheySay DEF Accepted, Objections
    <3>. HIDE DEF rejects
    <3>. QED BY <3>1, <3>2, LoadInv
  <2>. QED BY <1>2, <2>1, <2>2, <2>3, <2>4, <2>5, <2>6 DEF LoadFile
<1>3. CASE ValidateArgs
  BY <1>3 DEF ValidateArgs, Loading, Progress
<1>4. CASE Construct
  <2>1. Loaded("teleop")' = Loaded("teleop") /\ Loaded("policy")' = Loaded("policy")
    BY <1>4 DEF Construct, Loaded
  <2>. QED BY <1>4, <2>1 DEF Construct, End, Loading, Progress
<1>5. ASSUME NEW f \in File, Edit(f) PROVE Loading'
  <2>1. UNCHANGED <<at, read, world, dir>>
    BY <1>5 DEF Edit
  <2>2. edits \in 0..MaxEdits /\ edits < MaxEdits /\ edits' = edits + 1
    BY <1>5 DEF Edit, Loading
  <2>3. edits' \in 0..MaxEdits
    <3>1. edits + 1 \in 0..MaxEdits
      BY <2>2, ConfigurationAssumption
    <3>. QED BY <2>2, <3>1
  <2>4. (\A g \in File : file'[g] \in Says(g)) /\ DOMAIN file' = File
    BY <1>5 DEF Edit, Loading
  <2>. QED BY <2>1, <2>4, <2>3 DEF Loading, Progress, Loaded
<1>6. CASE UNCHANGED configvars
  BY <1>6 DEF configvars, Loading, Progress, Loaded
<1>. QED BY <1>1, <1>2, <1>3, <1>4, <1>5, <1>6 DEF ConfigNext

LEMMA InitConfiguration == ConfigInit => Loading
BY ConfigurationAssumption DEF ConfigInit, Loading, Progress

\* Between validate_args() and the node that runs, every file was accepted by
\* its loader and the fields of both packets by their handlers, however often
\* the operator edits the files in the meantime.
THEOREM ItRunsOnWhatWasAccepted == ConfigSpec => []RunsOnWhatWasAccepted
<1>1. Loading => RunsOnWhatWasAccepted
  <2>. SUFFICES ASSUME Loading, at.in = "running", NEW f \in File
                PROVE  /\ Loaded(f) \notin Objections
                       /\ Loaded(f) = "unknown field" => f = "logging"
    BY DEF RunsOnWhatWasAccepted, Objections
  <2>1. PICK i \in 1..6 : f = Files[i]
    BY SixFiles DEF File
  <2>2. Loaded(f) = read[i]
    BY <2>1, SixFiles, LoadedIs
  <2>3. i \in DOMAIN read
    <3>1. read \in Seq(Sayings) /\ Len(read) = 6
      BY DEF Loading, Progress
    <3>. QED BY <3>1
  <2>4. Accepted(f, Loaded(f))
    BY <2>1, <2>2, <2>3 DEF Loading
  <2>. QED BY <2>4 DEF Accepted, Loading
<1>. QED BY InitConfiguration, NextConfiguration, <1>1, PTL DEF ConfigSpec

\* What was read is a beginning of the six files, in their order, and each
\* says what such a file can say.
THEOREM ConfigurationTypes == ConfigSpec => []ConfigTypeOK
<1>1. Loading => ConfigTypeOK
  <2>. SUFFICES ASSUME Loading PROVE ConfigTypeOK
    OBVIOUS
  <2>1. /\ at.main \in {"validate_args", "wam_main"}
        /\ at.in \in {"find", "load", "loaded", "running", "refused", "thrown"}
    BY DEF Loading, Progress
  <2>2. Len(read) <= Len(Files)
    BY SixFiles DEF Loading, Progress
  <2>3. \A i \in DOMAIN read : read[i] \in Says(Files[i])
    BY DEF Loading, Accepted
  <2>. QED BY <2>1, <2>2, <2>3 DEF Loading, ConfigTypeOK
<1>. QED BY InitConfiguration, NextConfiguration, <1>1, PTL DEF ConfigSpec
=============================================================================
