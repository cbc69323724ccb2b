---------------------------- MODULE PolicyHandler ----------------------------
(***************************************************************************)
(* PolicyUDPHandler as a whole, with the one or two action streams of its  *)
(* policy type and a clock that ticks once per control cycle. PolicyStream *)
(* follows the samples of one stream; here the streams meet: what one      *)
(* interpolation thread or the control cycle clears, it clears in both,    *)
(* stream by stream; a pause has a length, and whoever pauses last sets    *)
(* it; type "cr" plays an action of both streams or none; and every state  *)
(* sent to the policy is stamped with the time left of its chunks.         *)
(*                                                                         *)
(* A waypoint, a segment and a sample are the time at which their chunk    *)
(* passed the test of the pause.  Masks are left out.                      *)
(***************************************************************************)
EXTENDS Integers, Sequences

CONSTANTS
  Type,          \* policy.type: "base", "cr" or "dg"
  Horizon,       \* waypoints in a chunk of a stream
  Samples,       \* samples per segment of a stream
  DefaultPause,  \* default_pause, in control cycles
  LongPause,     \* the 30 s of a start that failed
  MaxChunks,     \* bound on the chunks of a stream
  MaxTime,       \* bound on the clock
  None           \* boost::none

Streams == IF Type = "cr" THEN {"first", "res"} ELSE {"first"}

ASSUME HandlerAssumption ==
  /\ Type \in {"base", "cr", "dg"}
  /\ Horizon \in [Streams -> Nat \ {0}]
  /\ Samples \in [Streams -> Nat \ {0}]
  /\ DefaultPause \in Nat /\ LongPause \in Nat
  /\ DefaultPause <= LongPause
  /\ MaxChunks \in Nat /\ MaxTime \in Nat
  /\ None \notin Nat

VARIABLES
  now,            \* steady_clock
  pause_until,
  raw_queue, first_segment, action_queue, chunk_end,  \* of each stream
  chunks,         \* how many chunks arrived at each stream
  receiver,       \* receiveLoop() of each stream
  interp,         \* interpLoop() of each stream
  control,        \* the control cycle in the policy's hooks
  left,           \* streams a thread has still to clear, or look at
  seeded,         \* latest_state has a position to start from
  pending,        \* pending_send: the time left of each chunk
  new_data,       \* new_data_available
  sent,           \* what the send thread sent last
  cancelledAt,    \* history: when the last cancel paused
  begun           \* history: the stream queued an action since it was cleared

streams == <<raw_queue, first_segment, action_queue, chunk_end, begun>>
sending == <<seeded, pending, new_data, sent>>
vars == <<now, pause_until, streams, chunks, receiver, interp, control, left,
          sending, cancelledAt>>

\* activeStreams(), in its order: the primary one, then the residual one.
activeStreams == IF Type = "cr" THEN <<"first", "res">> ELSE <<"first">>

Threads == Streams \cup {"control"}
Rest == [at |-> "rest", from |-> 0]

AtLeast(a, b) == IF a >= b THEN a ELSE b

-----------------------------------------------------------------------------
Init ==
  /\ now = 0
  /\ pause_until = 0
  /\ raw_queue = [s \in Streams |-> <<>>]
  /\ first_segment = [s \in Streams |-> TRUE]
  /\ action_queue = [s \in Streams |-> <<>>]
  /\ chunk_end = [s \in Streams |-> 0]
  /\ chunks = [s \in Streams |-> 0]
  /\ receiver = [s \in Streams |-> Rest]
  /\ interp = [s \in Streams |-> Rest]
  /\ control = [at |-> "idle", found |-> FALSE, first |-> None, res |-> None]
  /\ left = [t \in Threads |-> <<>>]
  /\ seeded = FALSE
  /\ pending = [s \in Streams |-> 0]
  /\ new_data = FALSE
  /\ sent = [s \in Streams |-> 0]
  /\ cancelledAt = 0 - DefaultPause
  /\ begun = [s \in Streams |-> FALSE]

-----------------------------------------------------------------------------
(* clearQueue() and clearQueueAndPause(), called by three threads.         *)

\* Mutant: the promised end of the chunk is forgotten.
Mut_ClearOne(t) ==
  /\ left[t] # <<>>
  /\ left' = [left EXCEPT ![t] = Tail(@)]
  /\ LET s == Head(left[t]) IN
       /\ raw_queue' = [raw_queue EXCEPT ![s] = <<>>]
       /\ first_segment' = [first_segment EXCEPT ![s] = TRUE]
       /\ action_queue' = [action_queue EXCEPT ![s] = <<>>]
       /\ begun' = [begun EXCEPT ![s] = FALSE]
  /\ UNCHANGED <<now, pause_until, chunk_end, chunks, receiver, interp,
                 control, sending, cancelledAt>>

\* Each stream is cleared under its own mutex, one after the other.
ClearOne(t) ==
  /\ left[t] # <<>>
  /\ left' = [left EXCEPT ![t] = Tail(@)]
  /\ LET s == Head(left[t]) IN
       /\ raw_queue' = [raw_queue EXCEPT ![s] = <<>>]
       /\ first_segment' = [first_segment EXCEPT ![s] = TRUE]
       /\ action_queue' = [action_queue EXCEPT ![s] = <<>>]
       /\ begun' = [begun EXCEPT ![s] = FALSE]
       /\ chunk_end' = [chunk_end EXCEPT ![s] = now]
  /\ UNCHANGED <<now, pause_until, chunks, receiver, interp, control, sending,
                 cancelledAt>>

\* Mutant: a pause that is on is not touched.
Mut_Pause(duration) ==
  pause_until' = IF now < pause_until THEN pause_until ELSE now + duration

\* The clock is read and the pause set under state_mutex.
Pause(duration) == pause_until' = now + duration

Paused == now < pause_until

-----------------------------------------------------------------------------
(* receiveLoop(s).                                                         *)

\* A chunk arrives; during a pause it is dropped.
ReceiveChunk(s) ==
  /\ receiver[s].at = "rest"
  /\ chunks[s] < MaxChunks
  /\ chunks' = [chunks EXCEPT ![s] = @ + 1]
  /\ receiver' = [receiver EXCEPT
                    ![s] = IF Paused THEN Rest ELSE [at |-> "queue", from |-> now]]
  /\ UNCHANGED <<now, pause_until, streams, interp, control, left, sending,
                 cancelledAt>>

\* Its waypoints are queued and its end is estimated, in another mutex.
QueueChunk(s) ==
  /\ receiver[s].at = "queue"
  /\ raw_queue' = [raw_queue EXCEPT
                     ![s] = @ \o [h \in 1..Horizon[s] |-> receiver[s].from]]
  /\ chunk_end' = [chunk_end EXCEPT
       ![s] = now + AtLeast(Len(raw_queue'[s]) - 2, 0) * Samples[s]]
  /\ receiver' = [receiver EXCEPT ![s] = Rest]
  /\ UNCHANGED <<now, pause_until, begun, first_segment, action_queue, chunks, interp,
                 control, left, sending, cancelledAt>>

-----------------------------------------------------------------------------
(* interpLoop(s).                                                          *)

\* A start without a position: both streams are to be cleared.
StartFails(s) ==
  /\ interp[s].at = "rest"
  /\ Len(raw_queue[s]) >= 4
  /\ first_segment[s] /\ ~seeded
  /\ interp' = [interp EXCEPT ![s].at = "clear"]
  /\ left' = [left EXCEPT ![s] = activeStreams]
  /\ UNCHANGED <<now, pause_until, streams, chunks, receiver, control, sending,
                 cancelledAt>>

\* Cleared; pause.
FailurePause(s) ==
  /\ interp[s].at = "clear" /\ left[s] = <<>>
  /\ Pause(LongPause)
  /\ interp' = [interp EXCEPT ![s] = Rest]
  /\ UNCHANGED <<now, streams, chunks, receiver, control, left, sending,
                 cancelledAt>>

\* The first segment takes no waypoint from the queue, the later ones do.
TakeSegment(s) ==
  /\ interp[s].at = "rest"
  /\ Len(raw_queue[s]) >= 4
  /\ first_segment[s] => seeded
  /\ first_segment' = [first_segment EXCEPT ![s] = FALSE]
  /\ raw_queue' = [raw_queue EXCEPT
                     ![s] = IF first_segment[s] THEN @ ELSE Tail(@)]
  /\ interp' = [interp EXCEPT
       ![s] = [at |-> "push",
               from |-> raw_queue[s][IF first_segment[s] THEN 1 ELSE 2]]]
  /\ UNCHANGED <<now, pause_until, begun, action_queue, chunk_end, chunks, receiver,
                 control, left, sending, cancelledAt>>

\* Those of its samples that are not masked are queued, in another hold of
\* the mutex.
PushSegment(s) ==
  /\ interp[s].at = "push"
  /\ \E kept \in 0..Samples[s] :
       /\ action_queue' = [action_queue EXCEPT
                             ![s] = @ \o [j \in 1..kept |-> interp[s].from]]
       /\ begun' = [begun EXCEPT ![s] = @ \/ kept > 0]
  /\ interp' = [interp EXCEPT ![s] = Rest]
  /\ UNCHANGED <<now, pause_until, raw_queue, first_segment, chunk_end, chunks,
                 receiver, control, left, sending, cancelledAt>>

StreamStep(s) ==
  \/ ReceiveChunk(s) \/ QueueChunk(s) \/ StartFails(s) \/ FailurePause(s)
  \/ TakeSegment(s) \/ PushSegment(s) \/ ClearOne(s)

-----------------------------------------------------------------------------
(* The control cycle: getLatestPolicyReceived() and what leads to it, then *)
(* send().                                                                 *)

ControlAt(from, to) ==
  /\ control.at = from
  /\ control' = [control EXCEPT !.at = to]

\* No cancel this cycle.
BeginReceive ==
  /\ ControlAt("idle", "test")
  /\ UNCHANGED <<now, pause_until, streams, chunks, receiver, interp, left,
                 sending, cancelledAt>>

\* A cancel: clearQueueAndPause() ...
Cancel ==
  /\ ControlAt("idle", "cancel")
  /\ left' = [left EXCEPT !["control"] = activeStreams]
  /\ UNCHANGED <<now, pause_until, streams, chunks, receiver, interp, sending,
                 cancelledAt>>

\* ... whose second half pauses.
CancelPause ==
  /\ ControlAt("cancel", "test")
  /\ left["control"] = <<>>
  /\ Pause(DefaultPause)
  /\ cancelledAt' = now
  /\ UNCHANGED <<now, streams, chunks, receiver, interp, left, sending>>

\* Mutant: nothing is cleared again.
Mut_TestPause ==
  /\ ControlAt("test", "popFirst")
  /\ UNCHANGED <<now, pause_until, streams, chunks, receiver, interp, left,
                 sending, cancelledAt>>

\* During a pause the streams are looked at, one by one ...
TestPause ==
  /\ ControlAt("test", IF Paused THEN "look" ELSE "popFirst")
  /\ left' = [left EXCEPT !["control"] = IF Paused THEN activeStreams ELSE <<>>]
  /\ UNCHANGED <<now, pause_until, streams, chunks, receiver, interp, sending,
                 cancelledAt>>

LookAt ==
  /\ control.at = "look" /\ left["control"] # <<>>
  /\ LET s == Head(left["control"]) IN
       control' = [control EXCEPT
         !.found = @ \/ action_queue[s] # <<>> \/ raw_queue[s] # <<>>]
  /\ left' = [left EXCEPT !["control"] = Tail(@)]
  /\ UNCHANGED <<now, pause_until, streams, chunks, receiver, interp, sending,
                 cancelledAt>>

\* ... and cleared again if there was anything in them.
Looked ==
  /\ control.at = "look" /\ left["control"] = <<>>
  /\ control' = [control EXCEPT
                   !.at = IF control.found THEN "clear" ELSE "popFirst",
                   !.found = FALSE]
  /\ left' = [left EXCEPT
       !["control"] = IF control.found THEN activeStreams ELSE <<>>]
  /\ UNCHANGED <<now, pause_until, streams, chunks, receiver, interp, sending,
                 cancelledAt>>

ClearedAgain ==
  /\ ControlAt("clear", "popFirst")
  /\ left["control"] = <<>>
  /\ UNCHANGED <<now, pause_until, streams, chunks, receiver, interp, left,
                 sending, cancelledAt>>

ControlClears ==
  /\ control.at \in {"cancel", "clear"}
  /\ ClearOne("control")

\* Mutant: the last action is popped like any other.
Mut_RestOf(queue) == Tail(queue)

\* The front action is popped unless it is the last, which is held.
RestOf(queue) == IF Len(queue) > 1 THEN Tail(queue) ELSE queue

\* The primary stream's action; if there is none the cycle has no action.
PopFirst ==
  /\ control.at = "popFirst"
  /\ LET queue == action_queue["first"] IN
       IF queue = <<>>
       THEN /\ control' = [control EXCEPT !.at = "send", !.first = None,
                                          !.res = None]
            /\ UNCHANGED action_queue
       ELSE /\ control' = [control EXCEPT
                             !.at = IF Type = "cr" THEN "popRes" ELSE "send",
                             !.first = Head(queue), !.res = None]
            /\ action_queue' = [action_queue EXCEPT !["first"] = RestOf(queue)]
  /\ UNCHANGED <<now, pause_until, begun, raw_queue, first_segment, chunk_end, chunks,
                 receiver, interp, left, sending, cancelledAt>>

\* The residual stream's; if there is none the primary's action is lost too.
PopRes ==
  /\ control.at = "popRes"
  /\ LET queue == action_queue["res"] IN
       IF queue = <<>>
       THEN /\ control' = [control EXCEPT !.at = "send", !.first = None]
            /\ UNCHANGED action_queue
       ELSE /\ control' = [control EXCEPT !.at = "send", !.res = Head(queue)]
            /\ action_queue' = [action_queue EXCEPT !["res"] = RestOf(queue)]
  /\ UNCHANGED <<now, pause_until, begun, raw_queue, first_segment, chunk_end, chunks,
                 receiver, interp, left, sending, cancelledAt>>

\* send() stamps the time left of each chunk, keeps the state for a first
\* segment and hands it to the send thread.
Send ==
  /\ ControlAt("send", "done")
  /\ seeded' \in BOOLEAN
  /\ pending' = [s \in Streams |-> AtLeast(chunk_end[s] - now, 0)]
  /\ new_data' = TRUE
  /\ UNCHANGED <<now, pause_until, streams, chunks, receiver, interp, left,
                 sent, cancelledAt>>

Control ==
  \/ BeginReceive \/ Cancel \/ ControlClears \/ CancelPause \/ TestPause
  \/ LookAt \/ Looked \/ ClearedAgain \/ PopFirst \/ PopRes \/ Send

\* sendLoop(), when the policy runs on this node.
SendPending ==
  /\ new_data
  /\ new_data' = FALSE
  /\ sent' = pending
  /\ UNCHANGED <<now, pause_until, streams, chunks, receiver, interp, control,
                 left, seeded, pending, cancelledAt>>

-----------------------------------------------------------------------------
\* The next cycle comes when this one is done.  A receive or interpolation
\* thread that has begun something finishes it within the cycle; when it
\* begins is open.
Tick ==
  /\ control.at = "done"
  /\ \A s \in Streams : receiver[s].at = "rest" /\ interp[s].at = "rest"
  /\ now < MaxTime
  /\ now' = now + 1
  /\ control' = [control EXCEPT !.at = "idle"]
  /\ UNCHANGED <<pause_until, streams, chunks, receiver, interp, left, sending,
                 cancelledAt>>

Next == (\E s \in Streams : StreamStep(s)) \/ Control \/ SendPending \/ Tick

Spec == Init /\ [][Next]_vars

-----------------------------------------------------------------------------
(* Properties.                                                             *)

Receivers == [at: {"rest", "queue"}, from: Nat]
Interps == [at: {"rest", "clear", "push"}, from: Nat]
Controls == [at: {"idle", "cancel", "test", "look", "clear", "popFirst",
                  "popRes", "send", "done"},
             found: BOOLEAN, first: Nat \cup {None}, res: Nat \cup {None}]

\* The type invariant of the handler and its threads.
TypeOK ==
  /\ now \in 0..MaxTime
  /\ pause_until \in Nat
  /\ raw_queue \in [Streams -> Seq(Nat)]
  /\ action_queue \in [Streams -> Seq(Nat)]
  /\ first_segment \in [Streams -> BOOLEAN]
  /\ chunk_end \in [Streams -> Nat]
  /\ chunks \in [Streams -> 0..MaxChunks]
  /\ receiver \in [Streams -> Receivers]
  /\ interp \in [Streams -> Interps]
  /\ control \in Controls
  /\ left \in [Threads -> Seq(Streams)]
  /\ begun \in [Streams -> BOOLEAN]
  /\ seeded \in BOOLEAN
  /\ pending \in [Streams -> Nat]
  /\ new_data \in BOOLEAN
  /\ sent \in [Streams -> Nat]
  /\ cancelledAt \in Int

\* Once a pause is over, whatever is played comes from a chunk that arrived
\* after it: nothing of a cancelled policy, and nothing a thread was holding
\* when it was cancelled, comes back when the pause ends.
NothingOldAfterPause ==
  control.at = "send" /\ ~Paused =>
    /\ control.first # None => control.first >= pause_until
    /\ control.res # None => control.res >= pause_until

\* Every cancel pauses the policy for at least default_pause, whatever other
\* pause was on or set by a start that fails: the last writer never shortens
\* the pause of a cancel.
CancelIsHonoured == pause_until >= cancelledAt + DefaultPause

\* Type "cr": an action of the primary stream that is consumed without being
\* played is lost only as long as the residual stream has had nothing to play
\* since it was cleared; once both have begun no action of either is skipped.
LostOnlyAtStart ==
  [][control.at = "popRes" /\ control'.first = None => ~begun["res"]]_vars

\* A policy is promised time of a chunk only if the stream was given waypoints
\* since it was last cleared.
PromiseNeedsChunk ==
  [][control.at = "send" /\ control'.at = "done"
       => \A s \in Streams : pending'[s] > 0 => raw_queue[s] # <<>>]_vars
=============================================================================
