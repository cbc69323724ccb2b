---------------------------- MODULE PolicyStream ----------------------------
(***************************************************************************)
(* One action stream of PolicyUDPHandler (policy types "base" and "dg").   *)
(* The policy sends chunks of Horizon waypoints; the receive thread queues *)
(* the waypoints and one mask per interpolated sample, masking the samples *)
(* that are already in the past; the interpolation thread turns waypoints  *)
(* into segments of Samples samples, drops the masked ones and queues the  *)
(* rest; the 500 Hz control cycle plays one sample per cycle and holds the *)
(* last.  A cancelled policy, or one with nowhere to start from, clears    *)
(* all three queues and pauses.                                            *)
(*                                                                         *)
(* The mutex of the stream guards the queues and a second one guards the   *)
(* pause, so neither the test of the pause and the queueing that follows   *)
(* it, nor clearing and pausing, is one step.                              *)
(*                                                                         *)
(* Waypoints are numbered through all chunks and samples through all       *)
(* waypoints.  A mask carries the waypoint it was made for, which the code *)
(* does not store: only the properties look at it.  Time is abstracted: a  *)
(* pause ends at any moment, chunk_end is how many samples the stream      *)
(* promised, when it queued the chunk, to play until the chunk ends.       *)
(***************************************************************************)
EXTENDS Integers, Sequences

CONSTANTS
  Horizon,    \* waypoints in a chunk
  Samples,    \* samples_per_segment
  Skips,      \* time_to_skip of a chunk, in samples
  MaxChunks,  \* bound on the chunks the policy sends
  None        \* an empty boost::optional

ASSUME StreamAssumption ==
  /\ Horizon \in Nat \ {0}
  /\ Samples \in Nat \ {0}
  /\ Skips \subseteq Nat
  /\ MaxChunks \in Nat
  /\ None \notin Int

VARIABLES
  chunks,         \* chunks received so far
  raw_queue,      \* waypoints
  valid_queue,    \* masks, one per sample
  first_segment,  \* the next segment starts from where the arm is
  action_queue,   \* samples ready to be played
  chunk_end,
  pause,          \* now < pause_until
  seeded,         \* latest_state has a leader position to start from
  receiver,       \* where receiveLoop() is, and the skip of the chunk it holds
  interp,         \* where interpLoop() is, and the segment it holds
  control,        \* where the control cycle is in the policy's hooks
  played,         \* what getLatestPolicyReceived() returned last
  residue         \* history: cycles that played something in this pause

queues == <<raw_queue, valid_queue, first_segment, action_queue, chunk_end>>
vars == <<chunks, queues, pause, seeded, receiver, interp, control, played,
          residue>>

Waypoints == 1..(MaxChunks * Horizon)
SampleIds == 1..(MaxChunks * Horizon * Samples)

\* The masks of chunk c, when its first skip samples are past.
ChunkMasks(c, skip) ==
  [i \in 1..(Horizon * Samples) |->
     [of |-> (c - 1) * Horizon + (i - 1) \div Samples + 1, ok |-> i > skip]]

\* The waypoints of chunk c.
ChunkWaypoints(c) == [h \in 1..Horizon |-> (c - 1) * Horizon + h]

\* The first segment takes the arm's position for its first support point and
\* needs no waypoint behind it; every later one has that waypoint still queued.
Behind == IF first_segment THEN 0 ELSE 1

AtMost(a, b) == IF a <= b THEN a ELSE b
AtLeast(a, b) == IF a >= b THEN a ELSE b

-----------------------------------------------------------------------------
Init ==
  /\ chunks = 0
  /\ raw_queue = <<>>
  /\ valid_queue = <<>>
  /\ first_segment = TRUE
  /\ action_queue = <<>>
  /\ chunk_end = 0
  /\ pause = FALSE
  /\ seeded = FALSE
  /\ receiver = [at |-> "receive", skip |-> 0]
  /\ interp = [at |-> "wait", start |-> 0, masks |-> <<>>]
  /\ control = "idle"
  /\ played = None
  /\ residue = 0

-----------------------------------------------------------------------------
(* Clearing and pausing, shared by the control cycle and the interpolator. *)

\* Mutant: the masks survive the waypoints they belong to.
Mut_ClearKeepsMasks ==
  /\ raw_queue' = <<>>
  /\ action_queue' = <<>>
  /\ first_segment' = TRUE
  /\ chunk_end' = 0
  /\ UNCHANGED valid_queue

\* clearQueue(), under the stream's mutex.
ClearQueue ==
  /\ raw_queue' = <<>>
  /\ valid_queue' = <<>>
  /\ first_segment' = TRUE
  /\ action_queue' = <<>>
  /\ chunk_end' = 0

\* The second half of clearQueueAndPause(), under the other mutex.  A pause
\* that is on is renewed, and is one pause with what it was.
StartPause ==
  /\ pause' = TRUE
  /\ UNCHANGED residue

\* The clock reaches pause_until.
PauseEnds ==
  /\ pause
  /\ pause' = FALSE
  /\ residue' = 0
  /\ UNCHANGED <<chunks, queues, seeded, receiver, interp, control, played>>

-----------------------------------------------------------------------------
(* receiveLoop().  Datagrams of another size are dropped as in UdpHandler. *)

\* receive_from() returns a chunk.
ReceiveChunk ==
  /\ receiver.at = "receive"
  /\ chunks < MaxChunks
  /\ chunks' = chunks + 1
  /\ \E skip \in Skips : receiver' = [at |-> "checkPause", skip |-> skip]
  /\ UNCHANGED <<queues, pause, seeded, interp, control, played, residue>>

\* While paused the chunk is dropped.
CheckPause ==
  /\ receiver.at = "checkPause"
  /\ receiver' = [receiver EXCEPT !.at = IF pause THEN "receive" ELSE "queue"]
  /\ UNCHANGED <<chunks, queues, pause, seeded, interp, control, played,
                 residue>>

\* Queues the masks and the waypoints of the chunk under the stream's mutex,
\* and estimates how much there is to play until it ends.
QueueChunk ==
  /\ receiver.at = "queue"
  /\ raw_queue' = raw_queue \o ChunkWaypoints(chunks)
  /\ valid_queue' = valid_queue
       \o ChunkMasks(chunks, AtMost(receiver.skip, Horizon * Samples))
  /\ chunk_end' = AtLeast(Len(raw_queue') - 2, 0) * Samples - receiver.skip
  /\ receiver' = [receiver EXCEPT !.at = "queued"]
  /\ UNCHANGED <<chunks, first_segment, action_queue, pause, seeded, interp,
                 control, played, residue>>

\* Wakes the interpolator, which waits on its predicate, and goes round.
Notify ==
  /\ receiver.at = "queued"
  /\ receiver' = [receiver EXCEPT !.at = "receive"]
  /\ UNCHANGED <<chunks, queues, pause, seeded, interp, control, played,
                 residue>>

Receive == ReceiveChunk \/ CheckPause \/ QueueChunk \/ Notify

-----------------------------------------------------------------------------
(* interpLoop().                                                           *)

\* The masks of the segment that is about to be taken.
NextMasks ==
  SubSeq(valid_queue, 1, AtMost(Samples, Len(valid_queue)))
RestMasks ==
  SubSeq(valid_queue, AtMost(Samples, Len(valid_queue)) + 1, Len(valid_queue))

\* Mutant: the first segment starts from the second waypoint.
Mut_FirstFromSecond ==
  /\ interp.at = "wait"
  /\ Len(raw_queue) >= 4
  /\ first_segment /\ seeded
  /\ first_segment' = FALSE
  /\ interp' = [at |-> "segment", start |-> raw_queue[2], masks |-> NextMasks]
  /\ valid_queue' = RestMasks
  /\ UNCHANGED <<chunks, raw_queue, action_queue, chunk_end, pause, seeded,
                 receiver, control, played, residue>>

\* The first segment after a start or a clear, when there is a position to
\* start from: no waypoint is consumed.
TakeFirstSegment ==
  /\ interp.at = "wait"
  /\ Len(raw_queue) >= 4
  /\ first_segment /\ seeded
  /\ first_segment' = FALSE
  /\ interp' = [at |-> "segment", start |-> raw_queue[1], masks |-> NextMasks]
  /\ valid_queue' = RestMasks
  /\ UNCHANGED <<chunks, raw_queue, action_queue, chunk_end, pause, seeded,
                 receiver, control, played, residue>>

\* The same without one: masks are consumed all the same, and all is cleared.
NoStartingPoint ==
  /\ interp.at = "wait"
  /\ Len(raw_queue) >= 4
  /\ first_segment /\ ~seeded
  /\ interp' = [interp EXCEPT !.at = "clear"]
  /\ valid_queue' = RestMasks
  /\ UNCHANGED <<chunks, raw_queue, first_segment, action_queue, chunk_end,
                 pause, seeded, receiver, control, played, residue>>

\* Mutant: the waypoint behind the segment is not popped.
Mut_TakeNoPop ==
  /\ interp.at = "wait"
  /\ Len(raw_queue) >= 4
  /\ ~first_segment
  /\ interp' = [at |-> "segment", start |-> raw_queue[2], masks |-> NextMasks]
  /\ valid_queue' = RestMasks
  /\ UNCHANGED <<chunks, raw_queue, first_segment, action_queue, chunk_end,
                 pause, seeded, receiver, control, played, residue>>

\* Any later segment runs from the second waypoint to the third, the first
\* and the fourth its support points; the first one is popped.
TakeSegment ==
  /\ interp.at = "wait"
  /\ Len(raw_queue) >= 4
  /\ ~first_segment
  /\ interp' = [at |-> "segment", start |-> raw_queue[2], masks |-> NextMasks]
  /\ raw_queue' = Tail(raw_queue)
  /\ valid_queue' = RestMasks
  /\ UNCHANGED <<chunks, first_segment, action_queue, chunk_end, pause, seeded,
                 receiver, control, played, residue>>

Increasing(s) == \A i, j \in DOMAIN s : i < j => s[i] < s[j]

\* The members of S, at most n of them, as increasing sequences: there is one.
Listings(S, n) ==
  {s \in UNION {[1..k -> S] : k \in 0..n} :
     Increasing(s) /\ \A v \in S : \E i \in DOMAIN s : s[i] = v}

\* The unmasked samples of the segment the interpolator holds, in order.
KeptSamples ==
  LET kept == CHOOSE s \in Listings({j \in 1..Samples : interp.masks[j].ok},
                                    Samples) : TRUE
  IN [k \in DOMAIN kept |-> (interp.start - 1) * Samples + kept[k]]

AnyValid == \E j \in DOMAIN interp.masks : interp.masks[j].ok

\* A segment with no valid sample is skipped, one with too few masks clears
\* and pauses, any other is queued under the stream's mutex.
FinishSegment ==
  /\ interp.at = "segment"
  /\ interp' = [at |-> IF AnyValid /\ Len(interp.masks) # Samples
                       THEN "clear" ELSE "wait",
                start |-> 0, masks |-> <<>>]
  /\ action_queue' = IF AnyValid /\ Len(interp.masks) = Samples
                     THEN action_queue \o KeptSamples ELSE action_queue
  /\ UNCHANGED <<chunks, raw_queue, valid_queue, first_segment, chunk_end,
                 pause, seeded, receiver, control, played, residue>>

InterpClear ==
  /\ interp.at = "clear"
  /\ ClearQueue
  /\ interp' = [interp EXCEPT !.at = "pause"]
  /\ UNCHANGED <<chunks, pause, seeded, receiver, control, played, residue>>

InterpPause ==
  /\ interp.at = "pause"
  /\ StartPause
  /\ interp' = [interp EXCEPT !.at = "wait"]
  /\ UNCHANGED <<chunks, queues, seeded, receiver, control, played>>

Interpolate ==
  \/ TakeFirstSegment \/ NoStartingPoint \/ TakeSegment \/ FinishSegment
  \/ InterpClear \/ InterpPause

-----------------------------------------------------------------------------
(* The control cycle: PolicyModule::receive(), then its send().            *)

ControlAt(from, to) == control = from /\ control' = to

\* A cycle without a cancel request goes straight to the pause test.
BeginReceive ==
  /\ ControlAt("idle", "test")
  /\ UNCHANGED <<chunks, queues, pause, seeded, receiver, interp, played,
                 residue>>

\* A cycle with one clears...
CancelClear ==
  /\ ControlAt("idle", "pause")
  /\ ClearQueue
  /\ UNCHANGED <<chunks, pause, seeded, receiver, interp, played, residue>>

\* ... and then pauses.
CancelPause ==
  /\ ControlAt("pause", "test")
  /\ StartPause
  /\ UNCHANGED <<chunks, queues, seeded, receiver, interp, played>>

\* Mutant: a pause stops the receiver only.
Mut_TestPauseIgnored ==
  /\ ControlAt("test", "pop")
  /\ UNCHANGED <<chunks, queues, pause, seeded, receiver, interp, played,
                 residue>>

TestPause ==
  /\ ControlAt("test", IF pause THEN "look" ELSE "pop")
  /\ UNCHANGED <<chunks, queues, pause, seeded, receiver, interp, played,
                 residue>>

\* Paused, with something queued since: cleared again, in a second hold of
\* the mutex.
LookForData ==
  /\ ControlAt("look", IF action_queue # <<>> \/ raw_queue # <<>>
                       THEN "clear" ELSE "pop")
  /\ UNCHANGED <<chunks, queues, pause, seeded, receiver, interp, played,
                 residue>>

ClearAgain ==
  /\ ControlAt("clear", "pop")
  /\ ClearQueue
  /\ UNCHANGED <<chunks, pause, seeded, receiver, interp, played, residue>>

\* Mutant: the last sample is popped too.
Mut_PlayPopsLast ==
  /\ ControlAt("pop", "send")
  /\ action_queue # <<>>
  /\ played' = Head(action_queue)
  /\ action_queue' = Tail(action_queue)
  /\ residue' = IF pause THEN residue + 1 ELSE residue
  /\ UNCHANGED <<chunks, raw_queue, valid_queue, first_segment, chunk_end,
                 pause, seeded, receiver, interp>>

\* The front sample is played; the last one is kept to be held.
Play ==
  /\ ControlAt("pop", "send")
  /\ action_queue # <<>>
  /\ played' = Head(action_queue)
  /\ action_queue' = IF Len(action_queue) > 1 THEN Tail(action_queue)
                     ELSE action_queue
  /\ residue' = IF pause THEN residue + 1 ELSE residue
  /\ UNCHANGED <<chunks, raw_queue, valid_queue, first_segment, chunk_end,
                 pause, seeded, receiver, interp>>

\* With nothing to play the policy's defaults apply.
PlayNothing ==
  /\ ControlAt("pop", "send")
  /\ action_queue = <<>>
  /\ played' = None
  /\ UNCHANGED <<chunks, queues, pause, seeded, receiver, interp, residue>>

\* send() keeps the state a first segment may start from; a position that is
\* exactly zero does not count as one.
SendState ==
  /\ ControlAt("send", "idle")
  /\ seeded' \in BOOLEAN
  /\ UNCHANGED <<chunks, queues, pause, receiver, interp, played, residue>>

Control ==
  \/ BeginReceive \/ CancelClear \/ CancelPause \/ TestPause \/ LookForData
  \/ ClearAgain \/ Play \/ PlayNothing \/ SendState

-----------------------------------------------------------------------------
Next == Receive \/ Interpolate \/ Control \/ PauseEnds

Spec == Init /\ [][Next]_vars

-----------------------------------------------------------------------------
(* Properties.                                                             *)

\* The type invariant of the stream and its three threads.
TypeOK ==
  /\ chunks \in 0..MaxChunks
  /\ raw_queue \in Seq(Waypoints)
  /\ valid_queue \in Seq([of: Waypoints, ok: BOOLEAN])
  /\ first_segment \in BOOLEAN
  /\ action_queue \in Seq(SampleIds)
  /\ chunk_end \in Int
  /\ pause \in BOOLEAN
  /\ seeded \in BOOLEAN
  /\ receiver \in [at: {"receive", "checkPause", "queue", "queued"}, skip: Nat]
  /\ interp \in [at: {"wait", "segment", "clear", "pause"},
                 start: Waypoints \cup {0},
                 masks: Seq([of: Waypoints, ok: BOOLEAN])]
  /\ control \in {"idle", "pause", "test", "look", "clear", "pop", "send"}
  /\ played \in SampleIds \cup {None}
  /\ residue \in Nat

\* The masks queued are those of the waypoints queued, Samples for each one
\* that a segment still has to start from: whatever is received, taken and
\* cleared in between, except while a start without position is cleaned up.
Aligned ==
  interp.at # "clear" =>
    Len(valid_queue) = Samples * (Len(raw_queue) - Behind)

\* A segment that was taken has a mask for every sample: the interpolator's
\* size-mismatch branch, which clears the queues and pauses, is never taken.
SegmentIsComplete == interp.at = "segment" => Len(interp.masks) = Samples

\* A segment is filtered by the masks of the waypoint it starts from, not by
\* those of a chunk that was cleared, or of the waypoint before or behind it.
SegmentHasItsMasks ==
  interp.at = "segment" =>
    \A j \in DOMAIN interp.masks : interp.masks[j].of = interp.start

\* Actions are played in the order the policy sent them; none is played again
\* after a later one, whatever was cleared or paused in between.
PlayedInOrder ==
  \A i \in DOMAIN action_queue :
    /\ i > 1 => action_queue[i - 1] < action_queue[i]
    /\ played # None => played <= action_queue[i]

\* Once the stream plays, only a clear silences it: when the chunk runs out
\* the last action is held.
OnlyClearSilences ==
  [][action_queue # <<>> /\ action_queue' = <<>> => ClearQueue]_vars

\* After a cancel or any other pause, what was in flight in the two threads
\* reaches the arm in at most this many control cycles of the pause, however
\* often it is renewed.
ResidueBound == 4
PauseSilences == residue <= ResidueBound
=============================================================================
