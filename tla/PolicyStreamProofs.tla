------------------------- MODULE PolicyStreamProofs -------------------------
(***************************************************************************)
(* Proofs about PolicyStream, for every horizon, number of samples per     *)
(* segment, set of skips and number of chunks.                             *)
(*                                                                         *)
(* Aligned is inductive together with the types of the queues and with the *)
(* completeness of the segment in hand: the receive thread adds Samples    *)
(* masks with every waypoint, the interpolator takes Samples masks with    *)
(* every waypoint but the last of the support points, and a clear empties  *)
(* both.  The one step that breaks it, a start without a position, is      *)
(* cleaned up by the same thread before that thread takes anything again.  *)
(*                                                                         *)
(* On top of it three invariants carry the other properties: PauseCredit   *)
(* bounds what can still be played in a pause by what the threads hold,    *)
(* Ordered keeps every action queued or played before the waypoints still  *)
(* to start from, and Paired ties the masks to the waypoints one by one.   *)
(***************************************************************************)
EXTENDS PolicyStream, WellFoundedInduction, TLAPS

Masks == [of: Int, ok: BOOLEAN]

\* The part of the type invariant the argument needs.
QueueTypes ==
  /\ raw_queue \in Seq(Int)
  /\ valid_queue \in Seq(Masks)
  /\ first_segment \in BOOLEAN
  /\ chunks \in Int
  /\ receiver \in [at: {"receive", "checkPause", "queue", "queued"}, skip: Nat]
  /\ interp \in [at: {"wait", "segment", "clear", "pause"}, start: Int,
                 masks: Seq(Masks)]

IInv == QueueTypes /\ Aligned /\ SegmentIsComplete

-----------------------------------------------------------------------------
(* The arithmetic of the queues: masks come and go Samples at a time.      *)
LEMMA MasksPerWaypoint ==
  ASSUME NEW s \in Nat, NEW a \in Int, NEW b \in Int
  PROVE  s * (a + b) = s * a + s * b
OBVIOUS

LEMMA EnoughMasks ==
  ASSUME NEW s \in Nat, NEW w \in Int, w >= 1
  PROVE  s * w >= s
<1>1. s * ((w - 1) + 1) = s * (w - 1) + s * 1
  OBVIOUS
<1>2. s * (w - 1) >= 0
  OBVIOUS
<1>. QED BY <1>1, <1>2

(* Queueing behind what is there.                                          *)
LEMMA QueueConcat ==
  ASSUME NEW T, NEW q \in Seq(T), NEW r \in Seq(T)
  PROVE  q \o r \in Seq(T) /\ Len(q \o r) = Len(q) + Len(r)
OBVIOUS

(* What a segment takes from the front of the mask queue, and what is left. *)
LEMMA SplitMasks ==
  ASSUME valid_queue \in Seq(Masks), Len(valid_queue) >= Samples
  PROVE  /\ NextMasks \in Seq(Masks) /\ Len(NextMasks) = Samples
         /\ RestMasks \in Seq(Masks)
         /\ Len(RestMasks) = Len(valid_queue) - Samples
<1>1. AtMost(Samples, Len(valid_queue)) = Samples
  BY StreamAssumption DEF AtMost, StreamAssumption
<1>2. Samples \in Nat \ {0}
  BY StreamAssumption DEF StreamAssumption
<1>. QED BY <1>1, <1>2 DEF NextMasks, RestMasks

(* The masks and the waypoints a chunk brings.                             *)
LEMMA ChunkTypes ==
  ASSUME NEW c \in Int, NEW skip \in Nat
  PROVE  /\ ChunkMasks(c, skip) \in Seq(Masks)
         /\ Len(ChunkMasks(c, skip)) = Horizon * Samples
         /\ ChunkWaypoints(c) \in Seq(Int)
         /\ Len(ChunkWaypoints(c)) = Horizon
<1>1. Horizon \in Nat /\ Samples \in Nat /\ Samples > 0
  BY StreamAssumption DEF StreamAssumption
<1>2. Horizon * Samples \in Nat
  BY <1>1
<1>3. \A i \in 1..(Horizon * Samples) :
        (c - 1) * Horizon + (i - 1) \div Samples + 1 \in Int
  BY <1>1, <1>2
<1>4. ChunkMasks(c, skip) \in [1..(Horizon * Samples) -> Masks]
  BY <1>3 DEF ChunkMasks, Masks
<1>5. ChunkWaypoints(c) \in [1..Horizon -> Int]
  BY <1>1 DEF ChunkWaypoints
<1>. QED BY <1>1, <1>2, <1>4, <1>5

-----------------------------------------------------------------------------
(* Induction.  A set of naturals that is not empty has a least member, so  *)
(* a set with 0 that is closed under successor holds every natural.        *)
LEMMA Smallest ==
  ASSUME NEW S \in SUBSET Nat, S # {}
  PROVE  \E m \in S : \A k \in S : m <= k
<1>. DEFINE R == OpToRel(<, Nat)
<1>1. IsWellFoundedOn(R, Nat)
  BY NatLessThanWellFounded
<1>. HIDE DEF R
<1>2. PICK m \in S : \A k \in S : ~ (<<k, m>> \in R)
  BY <1>1, WFMin
<1>3. ASSUME NEW k \in S, k < m PROVE <<k, m>> \in R
  BY <1>3 DEF R, OpToRel
<1>4. \A k \in S : ~ (k < m)
  BY <1>2, <1>3
<1>. QED BY <1>4

LEMMA Induction ==
  ASSUME NEW S, 0 \in S, \A n \in Nat : n \in S => n + 1 \in S
  PROVE  Nat \subseteq S
<1>. DEFINE Rest == Nat \ S
<1>. SUFFICES ASSUME Rest # {} PROVE FALSE
  OBVIOUS
<1>1. PICK m \in Rest : \A k \in Rest : m <= k
  BY Smallest
<1>2. m - 1 \in Nat /\ m - 1 \in S
  BY <1>1
<1>. QED BY <1>2

(* The members of a set of numbers can be listed in increasing order: the  *)
(* samples that a filter keeps are well defined.                           *)
LEMMA Listed ==
  ASSUME NEW n \in Nat, NEW S \in SUBSET (1..n)
  PROVE  Listings(S, n) # {}
<1>. DEFINE Good == {m \in Nat : \A T \in SUBSET (1..m) : Listings(T, m) # {}}
<1>1. 0 \in Good
  <2>. SUFFICES ASSUME NEW T \in SUBSET (1..0) PROVE Listings(T, 0) # {}
    OBVIOUS
  <2>1. T = {}
    OBVIOUS
  <2>. DEFINE e == [i \in 1..0 |-> 0]
  <2>2. e \in [1..0 -> T] /\ DOMAIN e = {}
    OBVIOUS
  <2>3. Increasing(e)
    BY <2>2 DEF Increasing
  <2>. HIDE DEF e
  <2>4. e \in UNION {[1..k -> T] : k \in 0..0}
    BY <2>2
  <2>. QED BY <2>1, <2>3, <2>4 DEF Listings
<1>2. ASSUME NEW m \in Nat, m \in Good PROVE m + 1 \in Good
  <2>. SUFFICES ASSUME NEW T \in SUBSET (1..(m + 1))
                PROVE  Listings(T, m + 1) # {}
    OBVIOUS
  <2>. DEFINE T0 == T \ {m + 1}
  <2>1. T0 \in SUBSET (1..m)
    OBVIOUS
  <2>2. PICK s \in Listings(T0, m) : TRUE
    BY <1>2, <2>1
  <2>3. PICK k \in 0..m : s \in [1..k -> T0]
    BY <2>2 DEF Listings
  <2>. HIDE DEF Good
  <2>4. /\ \A i, j \in 1..k : i < j => s[i] < s[j]
        /\ \A v \in T0 : \E i \in 1..k : s[i] = v
    BY <2>2, <2>3 DEF Listings, Increasing
  <2>5. CASE m + 1 \notin T
    BY <2>2, <2>3, <2>4, <2>5 DEF Listings, Increasing
  <2>6. CASE m + 1 \in T
    <3>. DEFINE t == [i \in 1..(k + 1) |-> IF i = k + 1 THEN m + 1 ELSE s[i]]
    <3>1. t \in [1..(k + 1) -> T]
      BY <2>3, <2>6
    <3>2. \A i, j \in 1..(k + 1) : i < j => t[i] < t[j]
      <4>. SUFFICES ASSUME NEW i \in 1..(k + 1), NEW j \in 1..(k + 1), i < j
                    PROVE  t[i] < t[j]
        OBVIOUS
      <4>1. i \in 1..k /\ t[i] = s[i] /\ s[i] \in 1..m
        <5>1. i \in 1..k /\ i # k + 1
          OBVIOUS
        <5>2. s[i] \in T0
          BY <2>3, <5>1
        <5>. QED BY <2>1, <5>1, <5>2
      <4>2. CASE j = k + 1
        BY <4>1, <4>2
      <4>3. CASE j \in 1..k
        BY <2>4, <4>1, <4>3
      <4>. QED BY <4>2, <4>3
    <3>3. \A v \in T : \E i \in 1..(k + 1) : t[i] = v
      <4>1. \A v \in T0 : \E i \in 1..(k + 1) : t[i] = v
        BY <2>4
      <4>2. t[k + 1] = m + 1 /\ k + 1 \in 1..(k + 1)
        OBVIOUS
      <4>. QED BY <4>1, <4>2
    <3>4. k + 1 \in 0..(m + 1) 
      OBVIOUS
    <3>. HIDE DEF t
    <3>. QED BY <3>1, <3>2, <3>3, <3>4 DEF Listings, Increasing
  <2>. QED BY <2>5, <2>6
<1>. HIDE DEF Good
<1>3. n \in Good
  BY <1>1, <1>2, Induction
<1>. QED BY <1>3 DEF Good

-----------------------------------------------------------------------------
LEMMA InitInv == Init => IInv
BY StreamAssumption DEF Init, IInv, QueueTypes, Aligned, SegmentIsComplete,
   Behind, StreamAssumption

(* Whoever clears the queues leaves no waypoint and no mask.               *)
LEMMA ClearAligns ==
  ASSUME ClearQueue
  PROVE  /\ raw_queue' \in Seq(Int) /\ valid_queue' \in Seq(Masks)
         /\ first_segment' = TRUE
         /\ Aligned'
BY StreamAssumption DEF ClearQueue, Aligned, Behind, StreamAssumption

LEMMA ReceiveInv == IInv /\ Receive => IInv'
<1>. SUFFICES ASSUME IInv, Receive PROVE IInv'
  OBVIOUS
<1>. USE DEF IInv, QueueTypes, queues
<1>1. CASE ReceiveChunk
  BY <1>1, StreamAssumption DEF ReceiveChunk, Aligned, SegmentIsComplete,
     Behind, StreamAssumption
<1>2. CASE CheckPause
  BY <1>2 DEF CheckPause, Aligned, SegmentIsComplete, Behind
<1>3. CASE QueueChunk
  <2>. DEFINE skip == AtMost(receiver.skip, Horizon * Samples)
  <2>1. Horizon \in Nat /\ Samples \in Nat /\ Horizon * Samples \in Nat
    BY StreamAssumption DEF StreamAssumption
  <2>2. skip \in Nat
    BY <2>1 DEF AtMost
  <2>. HIDE DEF skip
  <2>3. /\ raw_queue' = raw_queue \o ChunkWaypoints(chunks)
        /\ valid_queue' = valid_queue \o ChunkMasks(chunks, skip)
        /\ receiver' = [receiver EXCEPT !.at = "queued"]
        /\ UNCHANGED <<chunks, first_segment, interp>>
    BY <1>3 DEF QueueChunk, skip
  <2>4. /\ raw_queue' \in Seq(Int)
        /\ valid_queue' \in Seq(Masks)
        /\ Len(raw_queue') = Len(raw_queue) + Horizon
        /\ Len(valid_queue') = Len(valid_queue) + Horizon * Samples
    <3>. DEFINE ws == ChunkWaypoints(chunks)
                ms == ChunkMasks(chunks, skip)
    <3>1. /\ ws \in Seq(Int) /\ Len(ws) = Horizon
          /\ ms \in Seq(Masks) /\ Len(ms) = Horizon * Samples
      BY <2>2, ChunkTypes
    <3>. HIDE DEF ws, ms
    <3>2. /\ raw_queue \o ws \in Seq(Int)
          /\ Len(raw_queue \o ws) = Len(raw_queue) + Horizon
      BY <3>1, QueueConcat
    <3>3. valid_queue \in Seq(Masks)
      OBVIOUS
    <3>4. /\ valid_queue \o ms \in Seq(Masks)
          /\ Len(valid_queue \o ms) = Len(valid_queue) + Len(ms)
      BY <3>1, <3>3, QueueConcat
    <3>. QED BY <2>3, <3>1, <3>2, <3>4 DEF ws, ms
  <2>5. QueueTypes'
    BY <2>3, <2>4
  <2>6. ASSUME interp.at # "clear"
        PROVE  Len(valid_queue') = Samples * (Len(raw_queue') - Behind')
    <3>1. Behind' = Behind /\ Behind \in Int /\ Len(raw_queue) \in Int
      BY <2>3 DEF Behind
    <3>2. Samples * ((Len(raw_queue) - Behind) + Horizon)
            = Samples * (Len(raw_queue) - Behind) + Samples * Horizon
      BY <2>1, <3>1, MasksPerWaypoint
    <3>3. Len(valid_queue) = Samples * (Len(raw_queue) - Behind)
      BY <2>6 DEF Aligned
    <3>4. (Len(raw_queue) - Behind) + Horizon = Len(raw_queue') - Behind'
      BY <2>1, <2>4, <3>1
    <3>5. Samples * Horizon = Horizon * Samples
      BY <2>1
    <3>. QED BY <2>4, <3>2, <3>3, <3>4, <3>5
  <2>. QED BY <2>3, <2>5, <2>6 DEF Aligned, SegmentIsComplete
<1>4. CASE Notify
  BY <1>4 DEF Notify, Aligned, SegmentIsComplete, Behind
<1>. QED BY <1>1, <1>2, <1>3, <1>4 DEF Receive

LEMMA InterpolateInv == IInv /\ Interpolate => IInv'
<1>. SUFFICES ASSUME IInv, Interpolate PROVE IInv'
  OBVIOUS
<1>. USE DEF IInv, QueueTypes, queues
<1>0. Samples \in Nat \ {0}
  BY StreamAssumption DEF StreamAssumption
<1>1. CASE TakeFirstSegment
  <2>1. Len(raw_queue) \in Int /\ Len(raw_queue) >= 4
    BY <1>1 DEF TakeFirstSegment
  <2>2. Len(valid_queue) = Samples * Len(raw_queue)
    BY <1>1, <2>1 DEF TakeFirstSegment, Aligned, Behind
  <2>3. Len(valid_queue) >= Samples
    <3>1. Samples \in Nat /\ Len(raw_queue) >= 1
      BY <1>0, <2>1
    <3>2. Samples * Len(raw_queue) >= Samples
      BY <2>1, <3>1, EnoughMasks
    <3>. QED BY <2>2, <3>2
  <2>4. Samples * (Len(raw_queue) - 1)
          = Samples * Len(raw_queue) - Samples
    BY <1>0, <2>1, MasksPerWaypoint
  <2>5. raw_queue[1] \in Int
    BY <2>1
  <2>6. QueueTypes'
    BY <1>1, <2>3, <2>5, SplitMasks DEF TakeFirstSegment
  <2>7. Aligned' /\ SegmentIsComplete'
    BY <1>1, <2>2, <2>3, <2>4, SplitMasks
       DEF TakeFirstSegment, Aligned, SegmentIsComplete, Behind
  <2>. QED BY <2>6, <2>7
<1>2. CASE NoStartingPoint
  <2>1. Len(raw_queue) \in Int /\ Len(raw_queue) >= 4
    BY <1>2 DEF NoStartingPoint
  <2>2. Len(valid_queue) = Samples * Len(raw_queue)
    BY <1>2, <2>1 DEF NoStartingPoint, Aligned, Behind
  <2>3. Len(valid_queue) >= Samples
    <3>1. Samples \in Nat /\ Len(raw_queue) >= 1
      BY <1>0, <2>1
    <3>2. Samples * Len(raw_queue) >= Samples
      BY <2>1, <3>1, EnoughMasks
    <3>. QED BY <2>2, <3>2
  <2>. QED BY <1>2, <2>3, SplitMasks
         DEF NoStartingPoint, Aligned, SegmentIsComplete
<1>3. CASE TakeSegment
  <2>1. Len(raw_queue) \in Int /\ Len(raw_queue) >= 4
    BY <1>3 DEF TakeSegment
  <2>2. Len(valid_queue) = Samples * (Len(raw_queue) - 1)
    BY <1>3, <2>1 DEF TakeSegment, Aligned, Behind
  <2>3. Len(valid_queue) >= Samples
    BY <1>0, <2>1, <2>2, EnoughMasks
  <2>4. Samples * ((Len(raw_queue) - 1) + (-1))
          = Samples * (Len(raw_queue) - 1) + Samples * (-1)
    BY <1>0, <2>1, MasksPerWaypoint
  <2>5. /\ raw_queue[2] \in Int
        /\ Tail(raw_queue) \in Seq(Int)
        /\ Len(Tail(raw_queue)) = Len(raw_queue) - 1
    BY <2>1
  <2>6. QueueTypes'
    BY <1>3, <2>3, <2>5, SplitMasks DEF TakeSegment
  <2>7. Aligned'
    <3>1. Len(valid_queue') = Len(valid_queue) - Samples
      BY <1>3, <2>3, SplitMasks DEF TakeSegment
    <3>2. Behind' = 1 /\ Len(raw_queue') = Len(raw_queue) - 1
      BY <1>3, <2>5 DEF TakeSegment, Behind
    <3>3. Len(valid_queue') = Samples * ((Len(raw_queue) - 1) + (-1))
      BY <1>0, <2>2, <2>4, <3>1
    <3>. QED BY <2>1, <3>2, <3>3 DEF Aligned
  <2>8. SegmentIsComplete'
    BY <1>3, <2>3, SplitMasks DEF TakeSegment, SegmentIsComplete
  <2>. QED BY <2>6, <2>7, <2>8
<1>4. CASE FinishSegment
  <2>1. interp' = [at |-> "wait", start |-> 0, masks |-> <<>>]
    BY <1>4 DEF FinishSegment, SegmentIsComplete
  <2>2. UNCHANGED <<chunks, raw_queue, valid_queue, first_segment, receiver>>
    BY <1>4 DEF FinishSegment
  <2>. QED BY <1>4, <2>1, <2>2
         DEF FinishSegment, Aligned, SegmentIsComplete, Behind
<1>5. CASE InterpClear
  BY <1>5, ClearAligns DEF InterpClear, SegmentIsComplete
<1>6. CASE InterpPause
  BY <1>6 DEF InterpPause, Aligned, SegmentIsComplete, Behind
<1>. QED BY <1>1, <1>2, <1>3, <1>4, <1>5, <1>6 DEF Interpolate

LEMMA ControlInv == IInv /\ (Control \/ PauseEnds) => IInv'
<1>. SUFFICES ASSUME IInv, Control \/ PauseEnds PROVE IInv'
  OBVIOUS
<1>. USE DEF IInv, QueueTypes, queues
<1>1. CASE CancelClear
  BY <1>1, ClearAligns DEF CancelClear, SegmentIsComplete
<1>2. CASE ClearAgain
  BY <1>2, ClearAligns DEF ClearAgain, SegmentIsComplete
<1>3. CASE \/ BeginReceive \/ CancelPause \/ TestPause \/ LookForData
           \/ Play \/ PlayNothing \/ SendState \/ PauseEnds
  <2>1. UNCHANGED <<chunks, raw_queue, valid_queue, first_segment, receiver,
                    interp>>
    BY <1>3 DEF BeginReceive, CancelPause, TestPause, LookForData, Play,
       PlayNothing, SendState, PauseEnds
  <2>. QED BY <2>1 DEF Aligned, SegmentIsComplete, Behind
<1>. QED BY <1>1, <1>2, <1>3 DEF Control

LEMMA Invariance == Spec => []IInv
<1>1. IInv /\ UNCHANGED vars => IInv'
  BY DEF vars, queues, IInv, QueueTypes, Aligned, SegmentIsComplete, Behind
<1>2. IInv /\ [Next]_vars => IInv'
  BY <1>1, ReceiveInv, InterpolateInv, ControlInv DEF Next
<1>. QED BY <1>2, InitInv, PTL DEF Spec

-----------------------------------------------------------------------------
(* Waypoints and masks stay in step through every receive, take and clear. *)
THEOREM QueuesAligned == Spec => []Aligned
<1>1. IInv => Aligned
  BY DEF IInv
<1>. QED BY <1>1, Invariance, PTL

(* The interpolator never finds a segment with too few masks: the branch   *)
(* that clears the queues and pauses for 30 s on a mismatch is dead code.  *)
THEOREM NoSizeMismatch == Spec => []SegmentIsComplete
<1>1. IInv => SegmentIsComplete
  BY DEF IInv
<1>. QED BY <1>1, Invariance, PTL

-----------------------------------------------------------------------------
(* The action property needs the type of the queue of actions.             *)
ActionTypes ==
  /\ action_queue \in Seq(Int)
  /\ played \in Int \cup {None}

(* What a segment queues: at most Samples actions, in order, numbered      *)
(* between the segment's first sample and its last.                        *)
LEMMA Kept ==
  ASSUME NEW w \in Int, interp.start = w
  PROVE  /\ KeptSamples \in Seq(Int)
         /\ Increasing(KeptSamples)
         /\ \A i \in DOMAIN KeptSamples :
              /\ KeptSamples[i] > w * Samples - Samples
              /\ KeptSamples[i] <= w * Samples
<1>. DEFINE valid == {j \in 1..Samples : interp.masks[j].ok}
            kept == CHOOSE s \in Listings(valid, Samples) : TRUE
            base == (w - 1) * Samples
<1>1. Samples \in Nat
  BY StreamAssumption DEF StreamAssumption
<1>2. valid \in SUBSET (1..Samples)
  OBVIOUS
<1>3. kept \in Listings(valid, Samples)
  <2>. HIDE DEF valid
  <2>. QED BY <1>1, <1>2, Listed
<1>4. base \in Int /\ base = w * Samples - Samples
  BY <1>1, MasksPerWaypoint
<1>5. KeptSamples = [k \in DOMAIN kept |-> base + kept[k]]
  BY DEF KeptSamples
<1>. HIDE DEF valid, kept, base
<1>6. PICK n \in 0..Samples : kept \in [1..n -> valid]
  BY <1>3 DEF Listings
<1>7. \A i, j \in 1..n : i < j => kept[i] < kept[j]
  BY <1>3, <1>6 DEF Listings, Increasing
<1>8. KeptSamples = [k \in 1..n |-> base + kept[k]]
  BY <1>5, <1>6
<1>9. \A k \in 1..n : kept[k] \in 1..Samples
  BY <1>2, <1>6
<1>10. KeptSamples \in [1..n -> Int] /\ n \in Nat
  BY <1>1, <1>4, <1>8, <1>9
<1>11. Increasing(KeptSamples)
  BY <1>1, <1>4, <1>7, <1>8, <1>9 DEF Increasing
<1>12. \A i \in 1..n : /\ KeptSamples[i] > base
                       /\ KeptSamples[i] <= base + Samples
  BY <1>1, <1>4, <1>8, <1>9
<1>13. w * Samples \in Int
  BY <1>1
<1>. HIDE DEF KeptSamples
<1>. QED BY <1>1, <1>4, <1>10, <1>11, <1>12, <1>13

(* A later member of a queue is larger, first things stay when more is     *)
(* queued behind, and the tail of a queue starts one further on.           *)
LEMMA Tails ==
  ASSUME NEW q \in Seq(Int), q # <<>>
  PROVE  /\ Tail(q) \in Seq(Int)
         /\ Len(Tail(q)) = Len(q) - 1
         /\ \A i \in 1..(Len(q) - 1) : Tail(q)[i] = q[i + 1]
         /\ Len(q) \in Nat /\ Len(q) >= 1
         /\ Head(q) = q[1]
OBVIOUS

LEMMA Joined ==
  ASSUME NEW T, NEW q \in Seq(T), NEW r \in Seq(T)
  PROVE  /\ q \o r \in Seq(T)
         /\ Len(q \o r) = Len(q) + Len(r)
         /\ Len(q) \in Nat /\ Len(r) \in Nat
         /\ \A i \in 1..Len(q) : (q \o r)[i] = q[i]
         /\ \A i \in (Len(q) + 1)..(Len(q) + Len(r)) :
              (q \o r)[i] = r[i - Len(q)]
OBVIOUS

LEMMA TypesInit == Init => ActionTypes
BY DEF Init, ActionTypes

LEMMA TypesStep == IInv /\ ActionTypes /\ [Next]_vars => ActionTypes'
<1>. SUFFICES ASSUME IInv, ActionTypes, [Next]_vars PROVE ActionTypes'
  OBVIOUS
<1>. USE DEF ActionTypes
<1>1. CASE FinishSegment
  <2>1. KeptSamples \in Seq(Int)
    <3>1. interp.start \in Int
      BY DEF IInv, QueueTypes
    <3>. QED BY <3>1, Kept
  <2>. HIDE DEF KeptSamples
  <2>. QED BY <1>1, <2>1, QueueConcat DEF FinishSegment
<1>2. CASE InterpClear \/ CancelClear \/ ClearAgain
  <2>1. action_queue' = <<>> /\ played' = played
    BY <1>2 DEF InterpClear, CancelClear, ClearAgain, ClearQueue
  <2>. QED BY <2>1
<1>3. CASE Play
  BY <1>3, Tails DEF Play
<1>4. CASE PlayNothing
  BY <1>4 DEF PlayNothing, queues
<1>5. CASE \/ Receive \/ TakeFirstSegment \/ NoStartingPoint \/ TakeSegment
           \/ InterpPause
           \/ BeginReceive \/ CancelPause \/ TestPause \/ LookForData
           \/ SendState \/ PauseEnds \/ UNCHANGED vars
  BY <1>5 DEF Receive, ReceiveChunk, CheckPause, QueueChunk, Notify,
     TakeFirstSegment, NoStartingPoint, TakeSegment, InterpPause,
     BeginReceive, CancelPause, TestPause, LookForData,
     SendState, PauseEnds, vars, queues
<1>. QED BY <1>1, <1>2, <1>3, <1>4, <1>5 DEF Next, Interpolate, Control

LEMMA SilencingStep ==
  ASSUME IInv, ActionTypes, [Next]_vars,
         action_queue # <<>>, action_queue' = <<>>
  PROVE  ClearQueue
<1>1. CASE FinishSegment
  <2>1. KeptSamples \in Seq(Int)
    <3>1. interp.start \in Int
      BY DEF IInv, QueueTypes
    <3>. QED BY <3>1, Kept
  <2>. HIDE DEF KeptSamples
  <2>2. action_queue \in Seq(Int) /\ Len(action_queue) > 0
    BY DEF ActionTypes
  <2>3. action_queue \o KeptSamples # <<>>
    <3>1. Len(action_queue \o KeptSamples) > 0
      BY <2>1, <2>2, Joined
    <3>. QED BY <3>1
  <2>. QED BY <1>1, <2>3 DEF FinishSegment
<1>2. CASE Play
  <2>1. action_queue \in Seq(Int) /\ Len(action_queue) \in Nat
    BY DEF ActionTypes
  <2>2. CASE Len(action_queue) > 1
    <3>1. action_queue' = Tail(action_queue)
      BY <1>2, <2>2 DEF Play
    <3>2. Len(Tail(action_queue)) > 0
      BY <2>1, <2>2
    <3>. HIDE DEF Play
    <3>. QED BY <3>1, <3>2
  <2>3. CASE ~(Len(action_queue) > 1)
    BY <1>2, <2>3 DEF Play
  <2>. QED BY <2>2, <2>3
<1>3. CASE InterpClear \/ CancelClear \/ ClearAgain
  BY <1>3 DEF InterpClear, CancelClear, ClearAgain
<1>4. CASE \/ Receive \/ TakeFirstSegment \/ NoStartingPoint \/ TakeSegment
           \/ InterpPause \/ PlayNothing
           \/ BeginReceive \/ CancelPause \/ TestPause \/ LookForData
           \/ SendState \/ PauseEnds \/ UNCHANGED vars
  BY <1>4 DEF Receive, ReceiveChunk, CheckPause, QueueChunk, Notify,
     TakeFirstSegment, NoStartingPoint, TakeSegment, InterpPause, PlayNothing,
     BeginReceive, CancelPause, TestPause, LookForData,
     SendState, PauseEnds, vars, queues
<1>. QED BY <1>1, <1>2, <1>3, <1>4 DEF Next, Interpolate, Control

(* Once the stream plays, only a clear silences it: the last action of a   *)
(* chunk is held.                                                          *)
THEOREM HeldUntilCleared == Spec => OnlyClearSilences
<1>1. Spec => [](IInv /\ ActionTypes)
  BY Invariance, TypesInit, TypesStep, PTL DEF Spec
<1>2. IInv /\ ActionTypes /\ [Next]_vars
        => [action_queue # <<>> /\ action_queue' = <<>> => ClearQueue]_vars
  BY SilencingStep
<1>. QED BY <1>1, <1>2, PTL DEF Spec, OnlyClearSilences

-----------------------------------------------------------------------------
(* How many more cycles of the pause may play something.  A chunk past the *)
(* receive thread's test of the pause is worth two: it may be interpolated *)
(* and played before the next clear, and leave a segment in hand at that   *)
(* clear.  The queues are worth one to the cycle that is about to pop, and *)
(* so is the segment in hand to the next; a cycle that has not looked yet  *)
(* clears the queues before it pops.                                       *)
Count(b) == IF b THEN 1 ELSE 0

InFlight ==
  2 * Count(receiver.at = "queue")
    + IF control = "pop"
      THEN IF raw_queue # <<>> THEN 2
           ELSE Count(action_queue # <<>>) + Count(interp.at = "segment")
      ELSE Count(raw_queue # <<>> \/ interp.at = "segment")

PauseCredit ==
  /\ residue \in Nat
  /\ pause \in BOOLEAN
  /\ IF pause THEN residue + InFlight <= ResidueBound ELSE residue = 0

LEMMA InFlightType ==
  InFlight \in 0..ResidueBound /\ InFlight' \in 0..ResidueBound
BY DEF InFlight, Count, ResidueBound

(* Nothing has played in a pause when none is on.                          *)
LEMMA NoPause ==
  ASSUME pause' = FALSE, residue' = 0 PROVE PauseCredit'
<1>1. residue' \in Nat
  OBVIOUS
<1>. QED BY <1>1, Zenon DEF PauseCredit

LEMMA CreditInit == Init => PauseCredit
<1>. SUFFICES ASSUME Init PROVE PauseCredit
  OBVIOUS
<1>1. pause = FALSE /\ residue = 0 /\ residue \in Nat
  BY DEF Init
<1>. QED BY <1>1, Zenon DEF PauseCredit

(* A step that neither starts nor ends the pause nor plays in it keeps the *)
(* credit if it brings nothing into flight.                                *)
LEMMA NothingAdded ==
  ASSUME PauseCredit, UNCHANGED <<pause, residue>>,
         pause => InFlight' <= InFlight
  PROVE  PauseCredit'
<1>. DEFINE before == InFlight
            after == InFlight'
<1>1. before \in Nat /\ after \in Nat
  <2>1. before \in 0..ResidueBound /\ after \in 0..ResidueBound
    BY InFlightType
  <2>. QED BY <2>1 DEF ResidueBound
<1>2. /\ residue' = residue /\ pause' = pause /\ residue \in Nat
      /\ pause \in BOOLEAN
      /\ IF pause THEN residue + before <= ResidueBound ELSE residue = 0
      /\ pause => after <= before
  BY DEF PauseCredit
<1>3. IF pause THEN residue + after <= ResidueBound ELSE residue = 0
  <2>. HIDE DEF before, after
  <2>. QED BY <1>1, <1>2 DEF ResidueBound
<1>. QED BY <1>2, <1>3 DEF PauseCredit

LEMMA CreditReceive == IInv /\ PauseCredit /\ Receive => PauseCredit'
<1>. SUFFICES ASSUME IInv, PauseCredit, Receive PROVE PauseCredit'
  OBVIOUS
<1>1. /\ UNCHANGED <<pause, residue, control, action_queue, interp>>
      /\ pause => InFlight' <= InFlight
  <2>1. CASE ReceiveChunk
    BY <2>1 DEF ReceiveChunk, queues, InFlight, Count
  <2>2. CASE CheckPause
    BY <2>2 DEF CheckPause, queues, InFlight, Count, IInv, QueueTypes
  <2>3. CASE QueueChunk
    <3>1. /\ receiver.at = "queue" /\ receiver'.at # "queue"
          /\ UNCHANGED <<pause, residue, control, action_queue, interp>>
      BY <2>3 DEF QueueChunk, IInv, QueueTypes
    <3>. QED BY <3>1 DEF InFlight, Count
  <2>4. CASE Notify
    BY <2>4 DEF Notify, queues, InFlight, Count, IInv, QueueTypes
  <2>. QED BY <2>1, <2>2, <2>3, <2>4 DEF Receive
<1>. QED BY <1>1, NothingAdded

LEMMA CreditClear ==
  ASSUME PauseCredit, ClearQueue,
         UNCHANGED <<pause, residue, receiver>>,
         interp'.at = "segment" => interp.at = "segment",
         control = "pop" <=> control' = "pop"
  PROVE  PauseCredit'
<1>1. InFlight' <= InFlight
  BY DEF ClearQueue, InFlight, Count
<1>. QED BY <1>1, NothingAdded

(* A pause that begins has played nothing, and all there can be in flight  *)
(* is within its bound; one that is renewed keeps its count.               *)
LEMMA CreditPause ==
  ASSUME PauseCredit, StartPause, pause => InFlight' <= InFlight
  PROVE  PauseCredit'
<1>1. CASE pause
  BY <1>1, NothingAdded DEF StartPause
<1>2. CASE ~pause
  <2>. DEFINE after == InFlight'
  <2>1. after \in 0..ResidueBound
    BY InFlightType
  <2>2. residue' = 0 /\ pause' = TRUE
    BY <1>2 DEF StartPause, PauseCredit
  <2>3. residue' + after <= ResidueBound
    <3>. HIDE DEF after
    <3>. QED BY <2>1, <2>2 DEF ResidueBound
  <2>. QED BY <2>2, <2>3 DEF PauseCredit
<1>. QED BY <1>1, <1>2

LEMMA CreditInterpolate == IInv /\ PauseCredit /\ Interpolate => PauseCredit'
<1>. SUFFICES ASSUME IInv, PauseCredit, Interpolate PROVE PauseCredit'
  OBVIOUS
<1>1. CASE TakeFirstSegment \/ NoStartingPoint
  <2>1. /\ UNCHANGED <<pause, residue, control, action_queue, raw_queue,
                       receiver>>
        /\ raw_queue # <<>>
    BY <1>1 DEF TakeFirstSegment, NoStartingPoint
  <2>2. InFlight' <= InFlight
    BY <2>1 DEF InFlight, Count
  <2>. QED BY <2>1, <2>2, NothingAdded
<1>2. CASE TakeSegment
  <2>1. UNCHANGED <<pause, residue, control, action_queue, receiver>>
    BY <1>2 DEF TakeSegment
  <2>2. raw_queue # <<>>
    BY <1>2 DEF TakeSegment
  <2>3. InFlight' <= InFlight
    BY <2>1, <2>2 DEF InFlight, Count
  <2>. QED BY <2>1, <2>3, NothingAdded
<1>3. CASE FinishSegment
  <2>1. /\ UNCHANGED <<pause, residue, control, raw_queue, receiver>>
        /\ interp.at = "segment" /\ interp'.at # "segment"
    BY <1>3 DEF FinishSegment
  <2>2. InFlight' <= InFlight
    BY <2>1 DEF InFlight, Count
  <2>. QED BY <2>1, <2>2, NothingAdded
<1>4. CASE InterpClear
  <2>1. interp'.at # "segment"
    BY <1>4 DEF InterpClear, IInv, QueueTypes
  <2>. QED BY <1>4, <2>1, CreditClear DEF InterpClear
<1>5. CASE InterpPause
  <2>1. /\ UNCHANGED <<control, raw_queue, action_queue, receiver>>
        /\ interp'.at # "segment"
    BY <1>5 DEF InterpPause, queues, IInv, QueueTypes
  <2>2. InFlight' <= InFlight
    BY <2>1 DEF InFlight, Count
  <2>. QED BY <1>5, <2>2, CreditPause DEF InterpPause
<1>. QED BY <1>1, <1>2, <1>3, <1>4, <1>5 DEF Interpolate

LEMMA CreditControl == PauseCredit /\ Control => PauseCredit'
<1>. SUFFICES ASSUME PauseCredit, Control PROVE PauseCredit'
  OBVIOUS
<1>1. CASE BeginReceive \/ SendState
  <2>1. /\ UNCHANGED <<pause, residue, raw_queue, action_queue, receiver,
                       interp>>
        /\ control # "pop" /\ control' # "pop"
    BY <1>1 DEF BeginReceive, SendState, ControlAt, queues
  <2>2. InFlight' <= InFlight
    BY <2>1 DEF InFlight, Count
  <2>. QED BY <2>1, <2>2, NothingAdded
<1>2. CASE CancelClear
  BY <1>2, CreditClear DEF CancelClear, ControlAt
<1>3. CASE CancelPause
  <2>1. /\ UNCHANGED <<raw_queue, action_queue, receiver, interp>>
        /\ control # "pop" /\ control' # "pop"
    BY <1>3 DEF CancelPause, ControlAt, queues
  <2>2. InFlight' <= InFlight
    BY <2>1 DEF InFlight, Count
  <2>. QED BY <1>3, <2>2, CreditPause DEF CancelPause
<1>4. CASE TestPause
  <2>1. /\ UNCHANGED <<pause, residue, raw_queue, action_queue, receiver,
                       interp>>
        /\ control = "test" /\ pause => control' = "look"
    BY <1>4 DEF TestPause, ControlAt, queues
  <2>2. control = "test"
    BY <1>4 DEF TestPause, ControlAt
  <2>3. pause => InFlight' <= InFlight
    BY <2>1, <2>2 DEF InFlight, Count
  <2>. QED BY <2>1, <2>3, NothingAdded
<1>5. CASE LookForData
  <2>1. /\ UNCHANGED <<pause, residue, raw_queue, action_queue, receiver,
                       interp>>
        /\ control = "look"
        /\ control' = "pop" => action_queue = <<>> /\ raw_queue = <<>>
    BY <1>5 DEF LookForData, ControlAt, queues
  <2>2. InFlight' <= InFlight
    BY <2>1 DEF InFlight, Count
  <2>. QED BY <2>1, <2>2, NothingAdded
<1>6. CASE ClearAgain
  <2>1. /\ UNCHANGED <<pause, residue, receiver, interp>>
        /\ raw_queue' = <<>> /\ action_queue' = <<>>
        /\ control # "pop"
    BY <1>6 DEF ClearAgain, ClearQueue, ControlAt
  <2>2. InFlight' <= InFlight
    BY <2>1 DEF InFlight, Count
  <2>. QED BY <2>1, <2>2, NothingAdded
<1>7. CASE Play
  <2>1. /\ UNCHANGED <<pause, raw_queue, receiver, interp>>
        /\ control = "pop" /\ control' = "send" /\ action_queue # <<>>
        /\ residue' = IF pause THEN residue + 1 ELSE residue
    BY <1>7 DEF Play, ControlAt
  <2>. DEFINE before == InFlight
              after == InFlight'
  <2>2. before \in Nat /\ after \in Nat
    <3>1. before \in 0..ResidueBound /\ after \in 0..ResidueBound
      BY InFlightType
    <3>. QED BY <3>1 DEF ResidueBound
  <2>3. after + 1 <= before
    BY <2>1 DEF InFlight, Count
  <2>4. /\ residue \in Nat /\ pause \in BOOLEAN
        /\ IF pause THEN residue + before <= ResidueBound ELSE residue = 0
    BY DEF PauseCredit
  <2>5. /\ residue' \in Nat
        /\ IF pause THEN residue' + after <= ResidueBound ELSE residue' = 0
    <3>. HIDE DEF before, after
    <3>1. CASE pause
      <4>. DEFINE r == residue'
      <4>1. r = residue + 1
        BY <2>1, <3>1
      <4>. HIDE DEF r
      <4>2. r \in Nat /\ r + after <= ResidueBound
        BY <2>2, <2>3, <2>4, <3>1, <4>1 DEF ResidueBound
      <4>. QED BY <3>1, <4>2 DEF r
    <3>2. CASE ~pause
      BY <2>1, <2>4, <3>2
    <3>. QED BY <2>4, <3>1, <3>2
  <2>. QED BY <2>1, <2>4, <2>5 DEF PauseCredit
<1>8. CASE PlayNothing
  <2>1. /\ UNCHANGED <<pause, residue, raw_queue, action_queue, receiver,
                       interp>>
        /\ control = "pop" /\ control' = "send"
    BY <1>8 DEF PlayNothing, ControlAt, queues
  <2>2. InFlight' <= InFlight
    BY <2>1 DEF InFlight, Count
  <2>. QED BY <2>1, <2>2, NothingAdded
<1>. QED BY <1>1, <1>2, <1>3, <1>4, <1>5, <1>6, <1>7, <1>8 DEF Control

(* After a cancel or any other pause at most four control cycles play      *)
(* something, however the three threads were caught.                       *)
THEOREM PausesAreSilent == Spec => []PauseSilences
<1>1. PauseCredit /\ PauseEnds => PauseCredit'
  BY NoPause DEF PauseEnds
<1>2. PauseCredit /\ UNCHANGED vars => PauseCredit'
  BY NothingAdded DEF vars, queues, InFlight, Count
<1>3. IInv /\ PauseCredit /\ [Next]_vars => PauseCredit'
  BY <1>1, <1>2, CreditReceive, CreditInterpolate, CreditControl DEF Next
<1>4. PauseCredit => PauseSilences
  <2>. SUFFICES ASSUME PauseCredit PROVE residue <= ResidueBound
    BY DEF PauseSilences
  <2>. HIDE DEF InFlight
  <2>. QED BY InFlightType DEF PauseCredit, ResidueBound
<1>. QED BY <1>3, <1>4, Invariance, CreditInit, PTL DEF Spec

-----------------------------------------------------------------------------
(* Order.  Waypoints queue up in the order they were numbered, and every   *)
(* action that was queued or played belongs to a waypoint before the ones  *)
(* a segment still has to start from.                                      *)

\* The last waypoint of the chunks that were queued or dropped.
Reach ==
  (IF receiver.at \in {"checkPause", "queue"} THEN chunks - 1 ELSE chunks)
    * Horizon

\* The last sample of waypoint w.
LastOf(w) == w * Samples

\* The actions queued or played, the waypoints a segment may still start from.
Emitted == {action_queue[i] : i \in DOMAIN action_queue}
             \cup (IF played = None THEN {} ELSE {played})
Starts == {raw_queue[i] : i \in {k \in DOMAIN raw_queue : k > Behind}}

Ahead ==
  /\ \A w \in Starts : w <= Reach /\ \A x \in Emitted : x <= LastOf(w - 1)
  /\ \A x \in Emitted : x <= LastOf(Reach)

SegmentAhead ==
  interp.at = "segment" =>
    /\ interp.start <= Reach
    /\ \A w \in Starts : interp.start < w
    /\ \A x \in Emitted : x <= LastOf(interp.start - 1)

WaypointsOrdered ==
  Increasing(raw_queue) /\ \A i \in DOMAIN raw_queue : raw_queue[i] <= Reach

ActionsOrdered ==
  /\ Increasing(action_queue)
  /\ played # None => \A i \in DOMAIN action_queue : played <= action_queue[i]

Ordered == Ahead /\ SegmentAhead /\ WaypointsOrdered /\ ActionsOrdered

LEMMA Lasts ==
  ASSUME NEW w \in Int
  PROVE  /\ LastOf(w) \in Int
         /\ LastOf(w - 1) = LastOf(w) - Samples
         /\ \A v \in Int : v <= w => LastOf(v) <= LastOf(w)
<1>1. Samples \in Nat
  BY StreamAssumption DEF StreamAssumption
<1>2. Samples * (w + (-1)) = Samples * w + Samples * (-1)
  BY <1>1, MasksPerWaypoint
<1>3. ASSUME NEW v \in Int, v <= w PROVE v * Samples <= w * Samples
  <2>1. Samples * (v + (w - v)) = Samples * v + Samples * (w - v)
    BY <1>1, MasksPerWaypoint
  <2>2. Samples * (w - v) >= 0
    BY <1>1, <1>3
  <2>3. Samples * (v + (w - v)) = w * Samples
    BY <1>1
  <2>. QED BY <1>1, <2>1, <2>2, <2>3
<1>4. LastOf(w) \in Int
  BY <1>1 DEF LastOf
<1>5. LastOf(w - 1) = LastOf(w) - Samples
  BY <1>1, <1>2 DEF LastOf
<1>. QED BY <1>3, <1>4, <1>5 DEF LastOf

LEMMA AheadTypes ==
  ASSUME IInv, ActionTypes
  PROVE  /\ Emitted \subseteq Int /\ Starts \subseteq Int
         /\ interp.start \in Int /\ Reach \in Int
<1>1. \A i \in DOMAIN action_queue : action_queue[i] \in Int
  BY DEF ActionTypes
<1>2. \A i \in DOMAIN raw_queue : raw_queue[i] \in Int
  BY DEF IInv, QueueTypes
<1>3. played # None => played \in Int
  BY DEF ActionTypes
<1>4. Horizon \in Nat
  BY StreamAssumption DEF StreamAssumption
<1>5. interp.start \in Int /\ Reach \in Int
  BY <1>4 DEF Reach, IInv, QueueTypes
<1>. QED BY <1>1, <1>2, <1>3, <1>5 DEF Emitted, Starts

(* The reach of the chunks only grows, by a chunk at a time.               *)
LEMMA Reaches ==
  ASSUME IInv, Receive
  PROVE  /\ Reach \in Int /\ Reach' \in Int /\ Reach <= Reach'
         /\ QueueChunk => Reach = (chunks - 1) * Horizon /\ Reach' = Reach + Horizon
<1>. DEFINE c == chunks
            d == chunks'
            at == receiver.at
            to == receiver'.at
            queued == IF at \in {"checkPause", "queue"} THEN c - 1 ELSE c
            next == IF to \in {"checkPause", "queue"} THEN d - 1 ELSE d
<1>1. Horizon \in Nat
  BY StreamAssumption DEF StreamAssumption
<1>2. /\ c \in Int /\ d \in Int
      /\ queued <= next /\ next <= queued + 1
      /\ QueueChunk => queued = c - 1 /\ next = c
  BY DEF Receive, ReceiveChunk, CheckPause, QueueChunk, Notify, queues, IInv,
     QueueTypes
<1>3. Reach = queued * Horizon /\ Reach' = next * Horizon
  BY DEF Reach
<1>. HIDE DEF c, d, at, to, queued, next
<1>4. queued \in Int /\ next \in Int
  BY <1>2 DEF queued, next
<1>5. CASE next = queued
  BY <1>1, <1>2, <1>3, <1>4, <1>5 DEF c
<1>6. CASE next = queued + 1
  <2>1. Horizon * (queued + 1) = Horizon * queued + Horizon * 1
    BY <1>1, <1>4, MasksPerWaypoint
  <2>2. Reach' = Reach + Horizon /\ Reach \in Int
    BY <1>1, <1>3, <1>4, <1>6, <2>1
  <2>. QED BY <1>1, <1>2, <1>3, <2>2 DEF c
<1>. QED BY <1>2, <1>4, <1>5, <1>6

LEMMA OrderedInit == Init => Ordered
<1>. SUFFICES ASSUME Init PROVE Ordered
  OBVIOUS
<1>1. /\ raw_queue = <<>> /\ action_queue = <<>> /\ played = None
      /\ interp.at # "segment"
  BY DEF Init
<1>2. Starts = {} /\ Emitted = {}
  BY <1>1 DEF Starts, Emitted
<1>. QED BY <1>1, <1>2 DEF Ordered, Ahead, SegmentAhead, WaypointsOrdered,
         ActionsOrdered, Increasing

(* A step that takes away from what is queued, or changes nothing of it.   *)
LEMMA AheadLess ==
  ASSUME IInv, ActionTypes, Ahead, SegmentAhead,
         Starts' \subseteq Starts, Emitted' \subseteq Emitted,
         Reach' \in Int, Reach <= Reach',
         interp'.at = "segment" =>
           interp.at = "segment" /\ interp'.start = interp.start
  PROVE  Ahead' /\ SegmentAhead'
<1>. DEFINE r == Reach
            s == Reach'
            starts == Starts'
            emitted == Emitted'
<1>1. /\ Emitted \subseteq Int /\ Starts \subseteq Int
      /\ interp.start \in Int /\ r \in Int /\ s \in Int
      /\ starts \subseteq Starts /\ emitted \subseteq Emitted
      /\ r <= s
  BY AheadTypes
<1>2. /\ \A w \in Starts : w <= r /\ \A x \in Emitted : x <= LastOf(w - 1)
      /\ \A x \in Emitted : x <= LastOf(r)
  BY DEF Ahead
<1>. HIDE DEF r, s, starts, emitted
<1>3. LastOf(r) \in Int /\ LastOf(s) \in Int /\ LastOf(r) <= LastOf(s)
  BY <1>1, Lasts
<1>4. \A w \in starts : w <= s /\ \A x \in emitted : x <= LastOf(w - 1)
  BY <1>1, <1>2
<1>5. \A x \in emitted : x <= LastOf(s)
  BY <1>1, <1>2, <1>3
<1>6. Ahead'
  BY <1>4, <1>5 DEF Ahead, s, starts, emitted
<1>7. ASSUME interp'.at = "segment"
      PROVE  /\ interp'.start <= s
             /\ \A w \in starts : interp'.start < w
             /\ \A x \in emitted : x <= LastOf(interp'.start - 1)
  <2>1. /\ interp.start <= r
        /\ \A w \in Starts : interp.start < w
        /\ \A x \in Emitted : x <= LastOf(interp.start - 1)
    BY <1>7 DEF SegmentAhead, r
  <2>. QED BY <1>1, <1>7, <2>1
<1>. QED BY <1>6, <1>7 DEF SegmentAhead, s, starts, emitted

(* A segment starts from the first waypoint it may start from.             *)
LEMMA AheadTaken ==
  ASSUME Ahead, NEW w \in Starts,
         interp'.start = w, \A v \in Starts' : v \in Starts /\ w < v,
         Emitted' = Emitted, Reach' = Reach
  PROVE  Ahead' /\ SegmentAhead'
BY DEF Ahead, SegmentAhead

(* What a segment queues comes after its start and before the next.        *)
LEMMA AheadFinished ==
  ASSUME IInv, ActionTypes, Ahead, SegmentAhead, interp.at = "segment",
         interp'.at # "segment", Starts' = Starts, Reach' = Reach,
         \A x \in Emitted' : x \in Emitted
           \/ (x \in Int /\ x <= LastOf(interp.start))
  PROVE  Ahead' /\ SegmentAhead'
<1>. DEFINE a == interp.start
            emitted == Emitted'
<1>1. /\ Emitted \subseteq Int /\ Starts \subseteq Int /\ a \in Int /\ Reach \in Int
  BY AheadTypes
<1>2. a <= Reach /\ \A w \in Starts : a < w
  BY DEF SegmentAhead
<1>. HIDE DEF a
<1>3. \A w \in Starts : LastOf(a) <= LastOf(w - 1) /\ LastOf(w - 1) \in Int
  <2>. TAKE w \in Starts
  <2>1. w - 1 \in Int /\ a <= w - 1
    BY <1>1, <1>2
  <2>. QED BY <1>1, <2>1, Lasts
<1>4. LastOf(a) <= LastOf(Reach) /\ LastOf(a) \in Int /\ LastOf(Reach) \in Int
  BY <1>1, <1>2, Lasts
<1>5. \A x \in emitted : x \in Emitted \/ (x \in Int /\ x <= LastOf(a))
  BY DEF a
<1>. HIDE DEF emitted
<1>. DEFINE above(b) == \A x \in Emitted : x <= b
<1>6. ASSUME NEW b \in Int, LastOf(a) <= b, above(b)
      PROVE  \A x \in emitted : x <= b
  <2>. TAKE x \in emitted
  <2>1. CASE x \in Emitted
    BY <1>6, <2>1
  <2>2. CASE x \in Int /\ x <= LastOf(a)
    <3>. DEFINE l == LastOf(a)
    <3>1. x \in Int /\ l \in Int /\ x <= l /\ l <= b
      BY <1>4, <1>6, <2>2
    <3>. HIDE DEF l
    <3>. QED BY <3>1
  <2>. QED BY <1>5, <2>1, <2>2
<1>7. ASSUME NEW w \in Starts
      PROVE  w <= Reach /\ \A x \in emitted : x <= LastOf(w - 1)
  <2>1. w <= Reach /\ above(LastOf(w - 1))
    BY DEF Ahead
  <2>2. LastOf(a) <= LastOf(w - 1) /\ LastOf(w - 1) \in Int
    BY <1>3
  <2>. QED BY <1>6, <2>1, <2>2
<1>8. \A x \in emitted : x <= LastOf(Reach)
  <2>1. above(LastOf(Reach))
    BY DEF Ahead
  <2>. HIDE DEF above
  <2>. QED BY <1>4, <1>6, <2>1
<1>. QED BY <1>7, <1>8 DEF Ahead, SegmentAhead, emitted

(* The waypoints of a chunk come after all that came before.               *)
LEMMA AheadQueued ==
  ASSUME IInv, ActionTypes, Ahead, SegmentAhead,
         interp' = interp, Emitted' = Emitted,
         Reach' \in Int, Reach <= Reach',
         \A w \in Starts' : w \in Starts
           \/ (w \in Int /\ Reach < w /\ w <= Reach')
  PROVE  Ahead' /\ SegmentAhead'
<1>. DEFINE r == Reach
            s == Reach'
            a == interp.start
            starts == Starts'
<1>1. /\ Emitted \subseteq Int /\ Starts \subseteq Int
      /\ a \in Int /\ r \in Int /\ s \in Int /\ r <= s
      /\ \A w \in starts : w \in Starts \/ (w \in Int /\ r < w /\ w <= s)
  BY AheadTypes
<1>2. /\ \A w \in Starts : w <= r /\ \A x \in Emitted : x <= LastOf(w - 1)
      /\ \A x \in Emitted : x <= LastOf(r)
  BY DEF Ahead
<1>3. interp.at = "segment" => /\ a <= r
                               /\ \A w \in Starts : a < w
                               /\ \A x \in Emitted : x <= LastOf(a - 1)
  BY DEF SegmentAhead
<1>. HIDE DEF r, s, a, starts
<1>4. LastOf(r) \in Int /\ LastOf(s) \in Int /\ LastOf(r) <= LastOf(s)
  BY <1>1, Lasts
<1>5. ASSUME NEW w \in starts
      PROVE  w <= s /\ \A x \in Emitted : x <= LastOf(w - 1)
  <2>1. CASE w \in Starts
    BY <1>1, <1>2, <2>1
  <2>2. CASE w \in Int /\ r < w /\ w <= s
    <3>1. w - 1 \in Int /\ r <= w - 1
      BY <1>1, <2>2
    <3>2. LastOf(w - 1) \in Int /\ LastOf(r) <= LastOf(w - 1)
      BY <1>1, <3>1, Lasts
    <3>. QED BY <1>1, <1>2, <1>4, <2>2, <3>2
  <2>. QED BY <1>1, <2>1, <2>2
<1>6. \A x \in Emitted : x <= LastOf(s)
  BY <1>1, <1>2, <1>4
<1>7. ASSUME interp.at = "segment"
      PROVE  a <= s /\ \A w \in starts : a < w
  <2>1. a <= r /\ \A w \in Starts : a < w
    BY <1>3, <1>7
  <2>2. ASSUME NEW w \in starts PROVE a < w
    <3>1. CASE w \in Starts
      BY <2>1, <3>1
    <3>2. CASE w \in Int /\ r < w
      BY <1>1, <2>1, <3>2
    <3>. QED BY <1>1, <3>1, <3>2
  <2>. QED BY <1>1, <2>1, <2>2
<1>. QED BY <1>3, <1>5, <1>6, <1>7 DEF Ahead, SegmentAhead, r, s, a, starts

(* The queues a step leaves alone.                                         *)
LEMMA Unmoved ==
  /\ UNCHANGED <<raw_queue, first_segment>> => Starts' = Starts
  /\ UNCHANGED <<action_queue, played>> =>
       Emitted' = Emitted /\ (ActionsOrdered => ActionsOrdered')
BY DEF Starts, Emitted, Behind, ActionsOrdered, Increasing

LEMMA OrderedReceive == IInv /\ ActionTypes /\ Ordered /\ Receive => Ordered'
<1>. SUFFICES ASSUME IInv, ActionTypes, Ordered, Receive PROVE Ordered'
  OBVIOUS
<1>0. Ahead /\ SegmentAhead /\ WaypointsOrdered /\ ActionsOrdered
  BY DEF Ordered
<1>1. /\ Reach \in Int /\ Reach' \in Int /\ Reach <= Reach'
      /\ QueueChunk => Reach = (chunks - 1) * Horizon /\ Reach' = Reach + Horizon
  BY Reaches
<1>2. UNCHANGED <<first_segment, interp, action_queue, played>>
  BY DEF Receive, ReceiveChunk, CheckPause, QueueChunk, Notify, queues
<1>3. raw_queue \in Seq(Int)
  BY DEF IInv, QueueTypes
<1>4. CASE UNCHANGED raw_queue
  <2>1. WaypointsOrdered'
    <3>. DEFINE r == Reach
                s == Reach'
    <3>1. r \in Int /\ s \in Int /\ r <= s /\ Increasing(raw_queue)
          /\ \A i \in DOMAIN raw_queue : raw_queue[i] \in Int /\ raw_queue[i] <= r
      BY <1>0, <1>1, <1>3 DEF WaypointsOrdered
    <3>. HIDE DEF r, s
    <3>2. \A i \in DOMAIN raw_queue : raw_queue[i] <= s
      BY <3>1
    <3>. QED BY <1>4, <3>1, <3>2 DEF WaypointsOrdered, Increasing, s
  <2>2. Starts' = Starts /\ Emitted' = Emitted /\ ActionsOrdered'
    BY <1>0, <1>2, <1>4, Unmoved
  <2>3. Ahead' /\ SegmentAhead'
    BY <1>0, <1>1, <1>2, <2>2, AheadLess
  <2>. QED BY <2>1, <2>2, <2>3 DEF Ordered
<1>5. CASE QueueChunk
  <2>. DEFINE r == Reach
              s == Reach'
              q == raw_queue
              p == raw_queue'
              b == Behind
  <2>1. Horizon \in Nat
    BY StreamAssumption DEF StreamAssumption
  <2>2. /\ p = q \o ChunkWaypoints(chunks)
        /\ ChunkWaypoints(chunks) = [h \in 1..Horizon |-> r + h]
        /\ r \in Int /\ s = r + Horizon /\ q \in Seq(Int)
        /\ Behind' = b /\ b \in Nat
    BY <1>1, <1>2, <1>3, <1>5 DEF QueueChunk, ChunkWaypoints, Behind
  <2>d. r \in Int /\ s = r + Horizon
    BY <2>2
  <2>3. /\ \A i \in DOMAIN q : q[i] <= r
        /\ \A i, j \in DOMAIN q : i < j => q[i] < q[j]
    BY <1>0 DEF WaypointsOrdered, Increasing
  <2>. HIDE DEF r, s, p, q, b
  <2>. DEFINE n == Len(q)
  <2>4. /\ Len(q) \in Nat /\ DOMAIN q = 1..Len(q) /\ DOMAIN p = 1..(Len(q) + Horizon)
        /\ \A i \in 1..Len(q) : p[i] = q[i] /\ p[i] \in Int /\ p[i] <= r
        /\ \A i \in (Len(q) + 1)..(Len(q) + Horizon) :
             p[i] \in Int /\ p[i] = r + (i - Len(q)) /\ p[i] > r
    <3>. DEFINE c == [h \in 1..Horizon |-> r + h]
    <3>1. c \in Seq(Int) /\ Len(c) = Horizon /\ \A h \in 1..Horizon : c[h] = r + h
      BY <2>1, <2>2
    <3>2. p = q \o c
      BY <2>2
    <3>. HIDE DEF c
    <3>. DEFINE pc == q \o c
    <3>a. /\ pc \in Seq(Int)
          /\ Len(pc) = Len(q) + Len(c)
          /\ Len(q) \in Nat
          /\ \A i \in 1..Len(q) : pc[i] = q[i]
          /\ \A i \in (Len(q) + 1)..(Len(q) + Len(c)) : pc[i] = c[i - Len(q)]
      BY <2>2, <3>1, Joined
    <3>. HIDE DEF pc
    <3>3. /\ p \in Seq(Int)
          /\ Len(p) = Len(q) + Horizon
          /\ Len(q) \in Nat
          /\ \A i \in 1..Len(q) : p[i] = q[i]
          /\ \A i \in (Len(q) + 1)..(Len(q) + Horizon) : p[i] = c[i - Len(q)]
      BY <3>1, <3>2, <3>a DEF pc
    <3>4. DOMAIN q = 1..Len(q) /\ DOMAIN p = 1..(Len(q) + Horizon)
      BY <2>1, <2>2, <3>3
    <3>5. \A i \in DOMAIN p : p[i] \in Int
      BY <3>3
    <3>6. ASSUME NEW i \in 1..Len(q)
          PROVE  p[i] = q[i] /\ p[i] \in Int /\ p[i] <= r
      BY <2>1, <2>3, <3>3, <3>4, <3>5
    <3>7. ASSUME NEW i \in (Len(q) + 1)..(Len(q) + Horizon)
          PROVE  p[i] \in Int /\ p[i] = r + (i - Len(q)) /\ p[i] > r
      <4>1. i - Len(q) \in 1..Horizon /\ i \in DOMAIN p
        BY <2>1, <3>3, <3>4
      <4>2. p[i] = r + (i - Len(q)) /\ p[i] \in Int
        BY <3>1, <3>3, <3>5, <4>1
      <4>. QED BY <2>d, <3>3, <4>1, <4>2
    <3>. QED BY <3>3, <3>4, <3>6, <3>7
  <2>a. n \in Nat /\ DOMAIN q = 1..n /\ DOMAIN p = 1..(n + Horizon)
    BY <2>4
  <2>b. \A i \in 1..n : p[i] = q[i] /\ p[i] \in Int /\ p[i] <= r
    BY <2>4
  <2>c. \A i \in (n + 1)..(n + Horizon) :
           p[i] \in Int /\ p[i] = r + (i - n) /\ p[i] > r
    BY <2>4
  <2>. HIDE DEF n
  <2>5. ASSUME NEW i \in DOMAIN p, NEW j \in DOMAIN p, i < j
        PROVE  p[i] < p[j]
    <3>1. CASE j \in 1..n
      BY <2>3, <2>a, <2>b, <2>5, <3>1
    <3>2. CASE i \in 1..n /\ j \in (n + 1)..(n + Horizon)
      <4>1. p[i] \in Int /\ p[i] <= r
        BY <2>b, <3>2
      <4>2. p[j] \in Int /\ p[j] > r
        BY <2>c, <3>2
      <4>. QED BY <2>d, <4>1, <4>2
    <3>3. CASE i \in (n + 1)..(n + Horizon) /\ j \in (n + 1)..(n + Horizon)
      <4>1. p[i] = r + (i - n) /\ p[j] = r + (j - n)
        BY <2>c, <3>3
      <4>. QED BY <2>d, <2>a, <2>5, <3>3, <4>1
    <3>. QED BY <2>1, <2>a, <2>5, <3>1, <3>2, <3>3
  <2>6. ASSUME NEW i \in DOMAIN p PROVE p[i] <= s
    <3>1. CASE i \in 1..n
      BY <2>1, <2>d, <2>b, <3>1
    <3>2. CASE i \in (n + 1)..(n + Horizon)
      BY <2>1, <2>d, <2>a, <2>c, <3>2
    <3>. QED BY <2>1, <2>a, <2>6, <3>1, <3>2
  <2>7. WaypointsOrdered'
    BY <2>5, <2>6 DEF WaypointsOrdered, Increasing, p, s
  <2>8. ASSUME NEW w \in Starts'
        PROVE  w \in Starts \/ (w \in Int /\ r < w /\ w <= s)
    <3>1. PICK i \in DOMAIN p : i > b /\ w = p[i]
      BY <2>2, <2>8 DEF Starts, p
    <3>2. CASE i \in 1..n
      <4>1. w = q[i] /\ i \in DOMAIN q /\ i > b
        BY <2>a, <2>b, <3>1, <3>2
      <4>2. i \in {k \in DOMAIN raw_queue : k > Behind}
        BY <4>1 DEF q, b
      <4>3. raw_queue[i] \in Starts
        BY <4>2 DEF Starts
      <4>. QED BY <4>1, <4>3 DEF q
    <3>3. CASE i \in (n + 1)..(n + Horizon)
      <4>1. p[i] \in Int /\ p[i] > r
        BY <2>c, <3>3
      <4>. QED BY <2>6, <3>1, <4>1
    <3>. QED BY <2>1, <2>a, <3>1, <3>2, <3>3
  <2>9. Emitted' = Emitted /\ ActionsOrdered'
    BY <1>0, <1>2, Unmoved
  <2>10. Ahead' /\ SegmentAhead'
    BY <1>0, <1>1, <1>2, <2>8, <2>9, AheadQueued DEF r, s
  <2>. QED BY <2>7, <2>9, <2>10 DEF Ordered
<1>. QED BY <1>4, <1>5 DEF Receive, ReceiveChunk, CheckPause, Notify, queues

(* A step of the other two threads that leaves the waypoints alone and     *)
(* takes no segment: what is left of the actions is still in order.        *)
LEMMA OrderedLess ==
  ASSUME IInv, ActionTypes, Ordered,
         UNCHANGED <<chunks, receiver, raw_queue, first_segment>>,
         Emitted' \subseteq Emitted, ActionsOrdered',
         interp'.at = "segment" =>
           interp.at = "segment" /\ interp'.start = interp.start
  PROVE  Ordered'
<1>1. Reach' = Reach /\ Reach \in Int /\ Starts' = Starts
  BY AheadTypes, Unmoved DEF Reach
<1>2. Reach' \in Int /\ Reach <= Reach'
  BY <1>1
<1>3. Ahead' /\ SegmentAhead'
  BY <1>1, <1>2, AheadLess DEF Ordered
<1>4. WaypointsOrdered'
  BY <1>1 DEF Ordered, WaypointsOrdered, Increasing
<1>. QED BY <1>3, <1>4 DEF Ordered

LEMMA OrderedClear ==
  ASSUME IInv, ActionTypes, Ordered, ClearQueue,
         UNCHANGED <<chunks, receiver, played>>,
         interp'.at = "segment" =>
           interp.at = "segment" /\ interp'.start = interp.start
  PROVE  Ordered'
<1>1. raw_queue' = <<>> /\ action_queue' = <<>>
  BY DEF ClearQueue
<1>2. Starts' = {} /\ Emitted' \subseteq Emitted
  BY <1>1 DEF Starts, Emitted
<1>3. Reach' = Reach /\ Reach \in Int
  BY AheadTypes DEF Reach
<1>4. Starts' \subseteq Starts /\ Reach' \in Int /\ Reach <= Reach'
  BY <1>2, <1>3
<1>5. Ahead' /\ SegmentAhead'
  BY <1>2, <1>4, AheadLess DEF Ordered
<1>6. WaypointsOrdered' /\ ActionsOrdered'
  BY <1>1 DEF WaypointsOrdered, ActionsOrdered, Increasing
<1>. QED BY <1>5, <1>6 DEF Ordered

LEMMA OrderedTaken ==
  IInv /\ ActionTypes /\ Ordered /\ (TakeFirstSegment \/ TakeSegment) => Ordered'
<1>. SUFFICES ASSUME IInv, ActionTypes, Ordered, TakeFirstSegment \/ TakeSegment
              PROVE  Ordered'
  OBVIOUS
<1>. DEFINE q == raw_queue
            p == raw_queue'
            n == Len(raw_queue)
<1>1. /\ q \in Seq(Int) /\ n \in Nat /\ n >= 4 /\ DOMAIN q = 1..n
      /\ \A i \in 1..n : q[i] \in Int /\ q[i] <= Reach
      /\ \A i, j \in 1..n : i < j => q[i] < q[j]
  <2>1. q \in Seq(Int) /\ n >= 4
    BY DEF IInv, QueueTypes, TakeFirstSegment, TakeSegment
  <2>2. n \in Nat /\ DOMAIN q = 1..n /\ \A i \in 1..n : q[i] \in Int
    BY <2>1
  <2>. HIDE DEF q, n
  <2>3. \A i \in 1..n : q[i] <= Reach
    BY <2>2 DEF Ordered, WaypointsOrdered, q
  <2>4. \A i, j \in 1..n : i < j => q[i] < q[j]
    BY <2>2 DEF Ordered, WaypointsOrdered, Increasing, q
  <2>. QED BY <2>1, <2>2, <2>3, <2>4
<1>2. /\ Reach' = Reach /\ Emitted' = Emitted /\ ActionsOrdered'
      /\ first_segment' = FALSE
  <2>1. /\ UNCHANGED <<chunks, receiver, action_queue, played>>
        /\ first_segment' = FALSE
    BY DEF TakeFirstSegment, TakeSegment, IInv, QueueTypes
  <2>2. Reach' = Reach
    BY <2>1 DEF Reach
  <2>. QED BY <2>1, <2>2, Unmoved DEF Ordered
<1>3. CASE TakeFirstSegment
  <2>1. p = q /\ Behind = 0 /\ Behind' = 1 /\ interp'.start = q[1]
    BY <1>2, <1>3 DEF TakeFirstSegment, Behind
  <2>2. Starts = {q[i] : i \in 1..n}
    <3>1. {k \in DOMAIN q : k > 0} = 1..n
      BY <1>1
    <3>. QED BY <2>1, <3>1 DEF Starts
  <2>3. ASSUME NEW v \in Starts' PROVE v \in Starts /\ q[1] < v
    <3>1. PICK i \in DOMAIN q : i > 1 /\ v = q[i]
      BY <2>1, <2>3 DEF Starts
    <3>. HIDE DEF q, n
    <3>2. i \in 1..n /\ 1 \in 1..n /\ 1 < i
      BY <1>1, <3>1
    <3>. QED BY <1>1, <2>2, <3>1, <3>2
  <2>4. q[1] \in Starts
    <3>. HIDE DEF q, n
    <3>1. 1 \in 1..n
      BY <1>1
    <3>. QED BY <2>2, <3>1
  <2>5. Ahead' /\ SegmentAhead'
    <3>. HIDE DEF q, n
    <3>. QED BY <1>2, <2>1, <2>3, <2>4, AheadTaken DEF Ordered
  <2>6. WaypointsOrdered'
    BY <1>2, <2>1 DEF Ordered, WaypointsOrdered, Increasing
  <2>. QED BY <1>2, <2>5, <2>6 DEF Ordered
<1>4. CASE TakeSegment
  <2>1. p = Tail(q) /\ Behind = 1 /\ Behind' = 1 /\ interp'.start = q[2]
    BY <1>2, <1>4 DEF TakeSegment, Behind
  <2>2. /\ DOMAIN p = 1..(n - 1)
        /\ \A i \in 1..(n - 1) : p[i] = q[i + 1]
    BY <1>1, <2>1
  <2>3. ASSUME NEW i \in DOMAIN q, i > 1 PROVE q[i] \in Starts
    <3>1. i \in {k \in DOMAIN raw_queue : k > Behind}
      BY <2>1, <2>3
    <3>. QED BY <3>1 DEF Starts
  <2>. HIDE DEF q, n
  <2>4. ASSUME NEW v \in Starts' PROVE v \in Starts /\ q[2] < v
    <3>1. PICK i \in DOMAIN p : i > 1 /\ v = p[i]
      BY <2>1, <2>4 DEF Starts
    <3>2. i \in 1..(n - 1) /\ v = q[i + 1]
      BY <2>2, <3>1
    <3>3. i + 1 \in 1..n /\ 2 \in 1..n /\ 2 < i + 1 /\ i + 1 \in DOMAIN q
      BY <1>1, <3>1, <3>2
    <3>. QED BY <1>1, <2>3, <3>2, <3>3
  <2>5. q[2] \in Starts
    <3>1. 2 \in DOMAIN q
      BY <1>1
    <3>. QED BY <2>3, <3>1
  <2>6. Ahead' /\ SegmentAhead'
    BY <1>2, <2>1, <2>4, <2>5, AheadTaken DEF Ordered
  <2>7. WaypointsOrdered'
    <3>1. ASSUME NEW i \in 1..(n - 1)
          PROVE  i + 1 \in 1..n /\ p[i] = q[i + 1] /\ p[i] <= Reach
      BY <1>1, <2>2
    <3>2. ASSUME NEW i \in 1..(n - 1), NEW j \in 1..(n - 1), i < j
          PROVE  p[i] < p[j]
      <4>1. i + 1 \in 1..n /\ j + 1 \in 1..n /\ i + 1 < j + 1
        BY <1>1, <3>2
      <4>2. q[i + 1] < q[j + 1]
        BY <1>1, <4>1
      <4>. QED BY <2>2, <4>2
    <3>. QED BY <1>2, <2>2, <3>1, <3>2 DEF WaypointsOrdered, Increasing
  <2>. QED BY <1>2, <2>6, <2>7 DEF Ordered
<1>. QED BY <1>3, <1>4

LEMMA OrderedFinish ==
  IInv /\ ActionTypes /\ Ordered /\ FinishSegment => Ordered'
<1>. SUFFICES ASSUME IInv, ActionTypes, Ordered, FinishSegment PROVE Ordered'
  OBVIOUS
<1>. DEFINE a == interp.start
            k == KeptSamples
            q == action_queue
            p == action_queue'
            b == LastOf(interp.start - 1)
            m == Len(action_queue)
            l == Len(KeptSamples)
<1>1. /\ UNCHANGED <<chunks, receiver, raw_queue, first_segment, played>>
      /\ interp.at = "segment" /\ interp'.at # "segment"
      /\ p = q \/ p = q \o k
  BY DEF FinishSegment
<1>2. Reach' = Reach /\ Starts' = Starts
  BY <1>1, Unmoved DEF Reach
<1>3. CASE p = q
  <2>1. Emitted' = Emitted /\ ActionsOrdered'
    BY <1>1, <1>3, Unmoved DEF Ordered
  <2>. QED BY <1>1, <2>1, OrderedLess
<1>4. CASE p = q \o k
  <2>1. a \in Int /\ b \in Int /\ b = LastOf(a) - Samples /\ LastOf(a) \in Int
    BY AheadTypes, Lasts
  <2>2. /\ k \in Seq(Int)
        /\ \A i, j \in DOMAIN k : i < j => k[i] < k[j]
        /\ \A i \in DOMAIN k : k[i] > b /\ k[i] <= LastOf(a)
    BY <2>1, Kept DEF LastOf, Increasing
  <2>3. q \in Seq(Int)
    BY DEF ActionTypes
  <2>4. /\ p \in Seq(Int) /\ DOMAIN p = 1..(m + l) /\ m \in Nat /\ l \in Nat
        /\ DOMAIN q = 1..m /\ DOMAIN k = 1..l
        /\ \A i \in 1..m : p[i] = q[i]
        /\ \A i \in (m + 1)..(m + l) : p[i] = k[i - m]
    <3>. HIDE DEF k, q
    <3>1. /\ q \o k \in Seq(Int)
          /\ Len(q \o k) = Len(q) + Len(k)
          /\ Len(q) \in Nat /\ Len(k) \in Nat
          /\ \A i \in 1..Len(q) : (q \o k)[i] = q[i]
          /\ \A i \in (Len(q) + 1)..(Len(q) + Len(k)) : (q \o k)[i] = k[i - Len(q)]
      BY <2>2, <2>3, Joined
    <3>2. m = Len(q) /\ l = Len(k)
      BY DEF q, k
    <3>3. DOMAIN q = 1..Len(q) /\ DOMAIN k = 1..Len(k)
      BY <2>2, <2>3
    <3>. HIDE DEF m, l
    <3>4. Len(p) = m + l /\ p \in Seq(Int)
      BY <1>4, <3>1, <3>2
    <3>. HIDE DEF p
    <3>5. DOMAIN p = 1..(m + l)
      BY <3>4
    <3>. QED BY <1>4, <3>1, <3>2, <3>3, <3>4, <3>5
  <2>5. /\ \A i \in 1..m : q[i] \in Int /\ q[i] <= b
        /\ played # None => played \in Int /\ played <= b
    <3>1. \A x \in Emitted : x <= b
      BY <1>1 DEF Ordered, SegmentAhead
    <3>2. \A i \in 1..m : q[i] \in Emitted
      BY <2>4 DEF Emitted
    <3>3. played # None => played \in Emitted /\ played \in Int
      BY DEF Emitted, ActionTypes
    <3>4. \A i \in 1..m : q[i] \in Int
      BY <2>3, <2>4
    <3>. HIDE DEF q, b
    <3>. QED BY <3>1, <3>2, <3>3, <3>4
  <2>6. /\ \A i, j \in 1..m : i < j => q[i] < q[j]
        /\ played # None => \A i \in 1..m : played <= q[i]
    BY <2>4 DEF Ordered, ActionsOrdered, Increasing
  <2>. HIDE DEF a, b, k, q, p, m, l
  <2>7. ASSUME NEW i \in (m + 1)..(m + l)
        PROVE  /\ i - m \in DOMAIN k /\ p[i] = k[i - m]
               /\ p[i] \in Int /\ p[i] > b /\ p[i] <= LastOf(a)
    <3>1. i - m \in DOMAIN k
      BY <2>4
    <3>2. p[i] = k[i - m] /\ k[i - m] \in Int
      BY <2>2, <2>4, <3>1
    <3>. QED BY <2>2, <3>1, <3>2
  <2>8. ASSUME NEW i \in DOMAIN p, NEW j \in DOMAIN p, i < j
        PROVE  p[i] < p[j]
    <3>1. m \in Nat /\ l \in Nat /\ i \in 1..(m + l) /\ j \in 1..(m + l)
      BY <2>4
    <3>2. CASE j \in 1..m
      <4>1. i \in 1..m
        BY <2>8, <3>1, <3>2
      <4>. QED BY <2>4, <2>6, <2>8, <3>2, <4>1
    <3>3. CASE i \in 1..m /\ j \in (m + 1)..(m + l)
      <4>1. p[i] \in Int /\ p[i] <= b
        BY <2>4, <2>5, <3>3
      <4>2. p[j] \in Int /\ p[j] > b
        BY <2>7, <3>3
      <4>. QED BY <2>1, <4>1, <4>2
    <3>4. CASE i \in (m + 1)..(m + l) /\ j \in (m + 1)..(m + l)
      <4>1. i - m \in DOMAIN k /\ j - m \in DOMAIN k /\ i - m < j - m
        BY <2>7, <2>8, <3>1, <3>4
      <4>2. k[i - m] < k[j - m]
        BY <2>2, <4>1
      <4>. QED BY <2>7, <3>4, <4>2
    <3>. QED BY <2>8, <3>1, <3>2, <3>3, <3>4
  <2>9. played # None => \A i \in DOMAIN p : played <= p[i]
    <3>. SUFFICES ASSUME played # None, NEW i \in DOMAIN p PROVE played <= p[i]
      OBVIOUS
    <3>1. m \in Nat /\ l \in Nat /\ i \in 1..(m + l)
      BY <2>4
    <3>2. CASE i \in 1..m
      BY <2>4, <2>6, <3>2
    <3>3. CASE i \in (m + 1)..(m + l)
      <4>1. played \in Int /\ played <= b
        BY <2>5
      <4>2. p[i] \in Int /\ p[i] > b
        BY <2>7, <3>3
      <4>. QED BY <2>1, <4>1, <4>2
    <3>. QED BY <3>1, <3>2, <3>3
  <2>10. ActionsOrdered'
    BY <1>1, <2>8, <2>9 DEF ActionsOrdered, Increasing, p
  <2>11. ASSUME NEW x \in Emitted'
         PROVE  x \in Emitted \/ (x \in Int /\ x <= LastOf(a))
    <3>1. CASE played # None /\ x = played
      BY <3>1 DEF Emitted
    <3>2. CASE \E i \in DOMAIN p : x = p[i]
      <4>1. PICK i \in 1..(m + l) : x = p[i]
        BY <2>4, <3>2
      <4>2. CASE i \in 1..m
        <5>1. x = action_queue[i] /\ i \in DOMAIN action_queue
          BY <2>4, <4>1, <4>2 DEF q
        <5>. QED BY <5>1 DEF Emitted
      <4>3. CASE i \in (m + 1)..(m + l)
        BY <2>7, <4>1, <4>3
      <4>4. m \in Nat /\ l \in Nat
        BY <2>4
      <4>. QED BY <4>1, <4>2, <4>3, <4>4
    <3>. QED BY <1>1, <2>11, <3>1, <3>2 DEF Emitted, p
  <2>12. Ahead' /\ SegmentAhead'
    BY <1>1, <1>2, <2>11, AheadFinished DEF Ordered, a
  <2>13. WaypointsOrdered'
    BY <1>1, <1>2 DEF Ordered, WaypointsOrdered, Increasing
  <2>. QED BY <2>10, <2>12, <2>13 DEF Ordered
<1>. QED BY <1>1, <1>3, <1>4

LEMMA OrderedInterpolate ==
  IInv /\ ActionTypes /\ Ordered /\ Interpolate => Ordered'
<1>. SUFFICES ASSUME IInv, ActionTypes, Ordered, Interpolate PROVE Ordered'
  OBVIOUS
<1>1. CASE NoStartingPoint \/ InterpPause
  <2>1. /\ UNCHANGED <<chunks, receiver, raw_queue, first_segment,
                       action_queue, played>>
        /\ interp'.at # "segment"
    BY <1>1 DEF NoStartingPoint, InterpPause, queues, IInv, QueueTypes
  <2>2. Emitted' \subseteq Emitted /\ ActionsOrdered'
    BY <2>1, Unmoved DEF Ordered
  <2>. QED BY <2>1, <2>2, OrderedLess
<1>2. CASE InterpClear
  <2>1. interp'.at # "segment"
    BY <1>2 DEF InterpClear, IInv, QueueTypes
  <2>. QED BY <1>2, <2>1, OrderedClear DEF InterpClear
<1>. QED BY <1>1, <1>2, OrderedTaken, OrderedFinish DEF Interpolate

LEMMA OrderedPlay == ActionTypes /\ Ordered /\ Play
                       => Emitted' \subseteq Emitted /\ ActionsOrdered'
<1>. SUFFICES ASSUME ActionTypes, Ordered, Play
              PROVE  Emitted' \subseteq Emitted /\ ActionsOrdered'
  OBVIOUS
<1>. DEFINE q == action_queue
            p == action_queue'
            n == Len(action_queue)
<1>1. /\ q \in Seq(Int) /\ q # <<>> /\ played' = Head(q)
      /\ p = IF n > 1 THEN Tail(q) ELSE q
  BY DEF ActionTypes, Play
<1>2. /\ n \in Nat /\ n >= 1 /\ DOMAIN q = 1..n /\ played' = q[1]
      /\ Tail(q) \in Seq(Int) /\ Len(Tail(q)) = n - 1
      /\ \A i \in 1..(n - 1) : Tail(q)[i] = q[i + 1]
  BY <1>1, Tails
<1>3. \A i \in 1..n : q[i] \in Int /\ q[i] \in Emitted
  BY <1>1, <1>2 DEF Emitted
<1>4. \A i, j \in 1..n : i < j => q[i] < q[j]
  BY <1>2 DEF Ordered, ActionsOrdered, Increasing
<1>5. \A i \in 1..n : q[1] <= q[i]
  <2>. HIDE DEF q, n
  <2>1. 1 \in 1..n /\ \A i \in 1..n : i = 1 \/ 1 < i
    BY <1>2
  <2>. QED BY <1>3, <1>4, <2>1
<1>6. /\ \A i \in DOMAIN p : p[i] \in Emitted /\ q[1] <= p[i]
      /\ \A i, j \in DOMAIN p : i < j => p[i] < p[j]
  <2>1. CASE n > 1
    <3>1. DOMAIN p = 1..(n - 1) /\ \A i \in 1..(n - 1) : p[i] = q[i + 1]
      BY <1>1, <1>2, <2>1
    <3>. HIDE DEF q, n, p
    <3>2. \A i \in 1..(n - 1) : i + 1 \in 1..n
      BY <1>2
    <3>3. \A i, j \in 1..(n - 1) : i < j => i + 1 < j + 1
      BY <1>2
    <3>. QED BY <1>3, <1>4, <1>5, <3>1, <3>2, <3>3
  <2>2. CASE ~(n > 1)
    BY <1>1, <1>2, <1>3, <1>4, <1>5, <2>2
  <2>. QED BY <2>1, <2>2
<1>7. Emitted' \subseteq Emitted
  <2>1. 1 \in 1..n
    BY <1>2
  <2>2. q[1] \in Emitted
    BY <1>3, <2>1
  <2>3. Emitted' = {p[i] : i \in DOMAIN p} \cup (IF played' = None THEN {} ELSE {played'})
    BY DEF Emitted
  <2>. HIDE DEF q, p, n
  <2>. QED BY <1>2, <1>6, <2>2, <2>3
<1>8. ActionsOrdered'
  BY <1>2, <1>6 DEF ActionsOrdered, Increasing
<1>. QED BY <1>7, <1>8

LEMMA OrderedControl ==
  IInv /\ ActionTypes /\ Ordered /\ (Control \/ PauseEnds) => Ordered'
<1>. SUFFICES ASSUME IInv, ActionTypes, Ordered, Control \/ PauseEnds
              PROVE  Ordered'
  OBVIOUS
<1>1. CASE CancelClear \/ ClearAgain
  BY <1>1, OrderedClear DEF CancelClear, ClearAgain
<1>2. CASE Play
  BY <1>2, OrderedPlay, OrderedLess DEF Play
<1>3. CASE PlayNothing
  <2>1. UNCHANGED <<chunks, receiver, interp, raw_queue, first_segment>>
    BY <1>3 DEF PlayNothing, queues
  <2>2. action_queue' = <<>> /\ action_queue = <<>> /\ played' = None
    BY <1>3 DEF PlayNothing, queues
  <2>3. Emitted' = {} /\ ActionsOrdered'
    BY <2>2 DEF Emitted, ActionsOrdered, Increasing
  <2>. QED BY <2>1, <2>3, OrderedLess
<1>4. CASE \/ BeginReceive \/ CancelPause \/ TestPause \/ LookForData
           \/ SendState \/ PauseEnds
  <2>1. UNCHANGED <<chunks, receiver, interp, raw_queue, first_segment,
                    action_queue, played>>
    BY <1>4 DEF BeginReceive, CancelPause, TestPause, LookForData, SendState,
       PauseEnds, queues
  <2>2. Emitted' \subseteq Emitted /\ ActionsOrdered'
    BY <2>1, Unmoved DEF Ordered
  <2>. QED BY <2>1, <2>2, OrderedLess
<1>. QED BY <1>1, <1>2, <1>3, <1>4 DEF Control

LEMMA OrderedUnchanged ==
  IInv /\ ActionTypes /\ Ordered /\ UNCHANGED vars => Ordered'
<1>. SUFFICES ASSUME IInv, ActionTypes, Ordered, UNCHANGED vars PROVE Ordered'
  OBVIOUS
<1>1. UNCHANGED <<chunks, receiver, interp, raw_queue, first_segment,
                  action_queue, played>>
  BY DEF vars, queues
<1>2. Emitted' \subseteq Emitted /\ ActionsOrdered'
  BY <1>1, Unmoved DEF Ordered
<1>. QED BY <1>1, <1>2, OrderedLess

(* Actions are played in the order the policy sent them; none is played    *)
(* again after a later one, whatever is cleared or paused in between.      *)
THEOREM OrderKept == Spec => []PlayedInOrder
<1>1. IInv /\ ActionTypes /\ Ordered /\ [Next]_vars => Ordered'
  BY OrderedReceive, OrderedInterpolate, OrderedControl, OrderedUnchanged
     DEF Next
<1>2. ActionTypes /\ Ordered => PlayedInOrder
  <2>. SUFFICES ASSUME ActionTypes, Ordered, NEW i \in DOMAIN action_queue
                PROVE  /\ i > 1 => action_queue[i - 1] < action_queue[i]
                       /\ played # None => played <= action_queue[i]
    BY DEF PlayedInOrder
  <2>1. i > 1 => i - 1 \in DOMAIN action_queue /\ i - 1 < i
    BY DEF ActionTypes
  <2>. QED BY <2>1 DEF Ordered, ActionsOrdered, Increasing
<1>3. Spec => [](IInv /\ ActionTypes)
  BY Invariance, TypesInit, TypesStep, PTL DEF Spec
<1>. QED BY <1>1, <1>2, <1>3, OrderedInit, PTL DEF Spec

-----------------------------------------------------------------------------
(* Masks and waypoints.  The masks of the waypoint after the next k that a *)
(* segment may start from are the (k + 1)st Samples masks of the queue.    *)
Slot(k, j) == k * Samples + j

MasksOf(q, k, w) == \A j \in 1..Samples : q[Slot(k, j)].of = w

Paired ==
  interp.at # "clear" =>
    \A i \in DOMAIN raw_queue : i > Behind =>
      MasksOf(valid_queue, i - Behind - 1, raw_queue[i])

LEMMA Block ==
  ASSUME NEW s \in Nat, NEW a \in Int, NEW b \in Int, a < b
  PROVE  s * a + s <= s * b
<1>1. s * (a + (b - a)) = s * a + s * (b - a)
  BY MasksPerWaypoint
<1>2. s * (b - a) >= s
  BY EnoughMasks
<1>3. a + (b - a) = b
  OBVIOUS
<1>. QED BY <1>1, <1>2, <1>3

LEMMA Slots ==
  ASSUME NEW n \in Nat, NEW k \in 0..(n - 1), NEW j \in 1..Samples
  PROVE  /\ Slot(k, j) \in 1..(Samples * n)
         /\ Slot(k, j) + Samples = Slot(k + 1, j)
         /\ (Slot(k, j) - 1) \div Samples = k
<1>1. Samples \in Nat /\ Samples > 0
  BY StreamAssumption DEF StreamAssumption
<1>2. Samples * k + Samples <= Samples * n /\ Samples * k >= 0
  BY <1>1, Block
<1>3. Samples * (k + 1) = Samples * k + Samples * 1
  BY <1>1, MasksPerWaypoint
<1>4. Slot(k, j) = Samples * k + j /\ Slot(k + 1, j) = Samples * (k + 1) + j
  BY <1>1 DEF Slot
<1>. DEFINE x == Samples * k + j - 1
            d == x \div Samples
            low == Samples * k
<1>5. /\ x \in Nat /\ d \in Int /\ low \in Int
      /\ low <= x /\ x < low + Samples
  BY <1>1, <1>2
<1>6. d = k
  <2>1. x = Samples * d + (x % Samples) /\ x % Samples \in 0..(Samples - 1)
    BY <1>1, <1>5
  <2>. HIDE DEF d, x
  <2>. DEFINE base == Samples * d
  <2>2. base \in Int /\ base <= x /\ x < base + Samples
    BY <1>1, <1>5, <2>1
  <2>3. CASE d < k
    <3>1. base + Samples <= low
      BY <1>1, <1>5, <2>3, Block
    <3>. HIDE DEF base, low
    <3>. QED BY <1>1, <1>5, <2>2, <3>1
  <2>4. CASE d > k
    <3>1. low + Samples <= base
      BY <1>1, <1>5, <2>4, Block
    <3>. HIDE DEF base, low
    <3>. QED BY <1>1, <1>5, <2>2, <3>1
  <2>. QED BY <1>5, <2>3, <2>4
<1>. QED BY <1>1, <1>2, <1>3, <1>4, <1>6

(* What a segment takes from the mask queue belongs to the first waypoint; *)
(* the rest moves up by one.                                               *)
LEMMA MasksTaken ==
  ASSUME valid_queue \in Seq(Masks), NEW n \in Nat, n >= 1,
         Len(valid_queue) = Samples * n
  PROVE  /\ Len(NextMasks) = Samples
         /\ \A j \in 1..Samples : NextMasks[j] = valid_queue[Slot(0, j)]
         /\ \A k \in 0..(n - 2), j \in 1..Samples :
              RestMasks[Slot(k, j)] = valid_queue[Slot(k + 1, j)]
<1>. DEFINE q == valid_queue
            l == Len(valid_queue)
<1>1. Samples \in Nat /\ Samples > 0
  BY StreamAssumption DEF StreamAssumption
<1>2. l >= Samples /\ l \in Nat
  BY <1>1, EnoughMasks
<1>3. NextMasks = SubSeq(q, 1, Samples) /\ RestMasks = SubSeq(q, Samples + 1, l)
  BY <1>1, <1>2 DEF NextMasks, RestMasks, AtMost
<1>. HIDE DEF q, l
<1>4. /\ Len(NextMasks) = Samples
      /\ \A j \in 1..Samples : NextMasks[j] = q[j]
  BY <1>1, <1>2, <1>3 DEF q, l
<1>5. \A j \in 1..(l - Samples) : RestMasks[j] = q[j + Samples]
  BY <1>1, <1>2, <1>3 DEF q, l
<1>6. \A j \in 1..Samples : Slot(0, j) = j
  BY <1>1 DEF Slot
<1>7. ASSUME NEW k \in 0..(n - 2), NEW j \in 1..Samples
      PROVE  RestMasks[Slot(k, j)] = q[Slot(k + 1, j)]
  <2>1. Slot(k, j) \in 1..(Samples * (n - 1)) /\ Slot(k, j) + Samples = Slot(k + 1, j)
    <3>1. n - 1 \in Nat /\ k \in 0..((n - 1) - 1)
      BY <1>7
    <3>. QED BY <3>1, Slots
  <2>2. Samples * (n + (-1)) = Samples * n + Samples * (-1)
    BY <1>1, MasksPerWaypoint
  <2>3. Samples * (n - 1) = l - Samples
    BY <1>1, <2>2 DEF l
  <2>. QED BY <1>5, <2>1, <2>3
<1>. QED BY <1>4, <1>6, <1>7 DEF q

(* The masks of a chunk belong to its waypoints, Samples to each.          *)
LEMMA ChunkPaired ==
  ASSUME NEW c \in Int, NEW skip \in Nat, NEW h \in 1..Horizon
  PROVE  /\ ChunkWaypoints(c)[h] = (c - 1) * Horizon + h
         /\ MasksOf(ChunkMasks(c, skip), h - 1, ChunkWaypoints(c)[h])
<1>1. Horizon \in Nat /\ Samples \in Nat
  BY StreamAssumption DEF StreamAssumption
<1>2. ChunkWaypoints(c)[h] = (c - 1) * Horizon + h
  BY DEF ChunkWaypoints
<1>3. ASSUME NEW j \in 1..Samples
      PROVE  ChunkMasks(c, skip)[Slot(h - 1, j)].of = (c - 1) * Horizon + h
  <2>. DEFINE i == Slot(h - 1, j)
  <2>1. h - 1 \in 0..(Horizon - 1)
    BY <1>1
  <2>2. i \in 1..(Samples * Horizon) /\ (i - 1) \div Samples = h - 1
    BY <1>1, <2>1, Slots
  <2>3. Samples * Horizon = Horizon * Samples
    BY <1>1
  <2>. HIDE DEF i
  <2>4. ChunkMasks(c, skip)[i].of = (c - 1) * Horizon + (i - 1) \div Samples + 1
    BY <2>2, <2>3 DEF ChunkMasks
  <2>5. (c - 1) * Horizon \in Int
    BY <1>1
  <2>. QED BY <1>1, <2>2, <2>4, <2>5 DEF i
<1>. QED BY <1>2, <1>3 DEF MasksOf

MaskInv == Paired /\ SegmentHasItsMasks

(* As long as no start is being cleaned up the masks queued are those of   *)
(* the waypoints not yet started from.                                     *)
LEMMA MasksQueued ==
  ASSUME IInv, interp.at # "clear"
  PROVE  /\ Len(raw_queue) - Behind \in Nat
         /\ Len(valid_queue) = Samples * (Len(raw_queue) - Behind)
         /\ Behind \in {0, 1}
         /\ raw_queue \in Seq(Int) /\ valid_queue \in Seq(Masks)
<1>. DEFINE n == Len(raw_queue) - Behind
<1>1. /\ raw_queue \in Seq(Int) /\ valid_queue \in Seq(Masks)
      /\ Behind \in {0, 1}
  BY DEF IInv, QueueTypes, Behind
<1>2. n \in Int /\ Len(valid_queue) \in Nat /\ Len(valid_queue) = Samples * n
  BY <1>1 DEF IInv, Aligned
<1>3. Samples \in Nat /\ Samples > 0
  BY StreamAssumption DEF StreamAssumption
<1>. HIDE DEF n
<1>4. n >= 0
  <2>. SUFFICES ASSUME n < 0 PROVE FALSE
    BY <1>2
  <2>1. Samples * n + Samples <= Samples * 0
    BY <1>2, <1>3, Block
  <2>. QED BY <1>2, <1>3, <2>1
<1>. QED BY <1>1, <1>2, <1>4 DEF n

LEMMA MaskQueue == IInv /\ MaskInv /\ QueueChunk => MaskInv'
<1>. SUFFICES ASSUME IInv, MaskInv, QueueChunk PROVE MaskInv'
  OBVIOUS
<1>. DEFINE skip == AtMost(receiver.skip, Horizon * Samples)
            ws == ChunkWaypoints(chunks)
            ms == ChunkMasks(chunks, skip)
            q == raw_queue
            v == valid_queue
            p == raw_queue'
            u == valid_queue'
            b == Behind
            n == Len(raw_queue) - Behind
<1>1. Horizon \in Nat /\ Samples \in Nat /\ Samples > 0 /\ Horizon * Samples \in Nat
  BY StreamAssumption DEF StreamAssumption
<1>2. skip \in Nat /\ chunks \in Int
  BY <1>1 DEF AtMost, IInv, QueueTypes
<1>. HIDE DEF skip
<1>3. /\ p = q \o ws /\ u = v \o ms
      /\ UNCHANGED <<first_segment, interp>> /\ Behind' = b
  BY DEF QueueChunk, skip, Behind
<1>4. SegmentHasItsMasks'
  BY <1>3 DEF MaskInv, SegmentHasItsMasks
<1>5. ASSUME interp.at # "clear", NEW i \in DOMAIN p, i > b
      PROVE  MasksOf(u, i - b - 1, p[i])
  <2>1. /\ n \in Nat /\ Len(v) = Samples * n /\ b \in {0, 1}
        /\ q \in Seq(Int) /\ v \in Seq(Masks)
    BY <1>5, MasksQueued
  <2>. HIDE DEF ws, ms, q, v, p, u, b
  <2>2. /\ ws \in Seq(Int) /\ Len(ws) = Horizon
        /\ ms \in Seq(Masks) /\ Len(ms) = Horizon * Samples
    BY <1>2, ChunkTypes DEF ws, ms
  <2>. DEFINE l == Len(q)
  <2>3. n = l - b /\ l \in Nat
    BY <2>1 DEF q, b
  <2>4. /\ Len(p) = l + Horizon /\ p \in Seq(Int)
        /\ \A x \in 1..l : p[x] = q[x]
        /\ \A x \in (l + 1)..(l + Horizon) : p[x] = ws[x - l]
    <3>1. /\ q \o ws \in Seq(Int)
          /\ Len(q \o ws) = l + Len(ws)
          /\ \A x \in 1..l : (q \o ws)[x] = q[x]
          /\ \A x \in (l + 1)..(l + Len(ws)) : (q \o ws)[x] = ws[x - l]
      BY <2>1, <2>2, Joined
    <3>. QED BY <1>3, <2>2, <3>1
  <2>5. /\ \A x \in 1..(Samples * n) : u[x] = v[x]
        /\ \A x \in (Samples * n + 1)..(Samples * n + Samples * Horizon) :
             u[x] = ms[x - Samples * n]
    <3>1. /\ \A x \in 1..Len(v) : (v \o ms)[x] = v[x]
          /\ \A x \in (Len(v) + 1)..(Len(v) + Len(ms)) : (v \o ms)[x] = ms[x - Len(v)]
      BY <2>1, <2>2, Joined
    <3>2. Len(ms) = Samples * Horizon
      BY <1>1, <2>2
    <3>. QED BY <1>3, <2>1, <3>1, <3>2
  <2>. HIDE DEF l, n
  <2>6. i \in 1..(l + Horizon) /\ i > b
    BY <1>1, <1>5, <2>3, <2>4
  <2>7. CASE i <= l
    <3>1. i \in 1..l /\ i \in DOMAIN q /\ p[i] = q[i]
      BY <2>1, <2>3, <2>4, <2>6, <2>7 DEF l
    <3>2. MasksOf(v, i - b - 1, q[i])
      BY <1>5, <2>6, <3>1 DEF MaskInv, Paired, q, v, b
    <3>3. i - b - 1 \in 0..(n - 1)
      BY <2>1, <2>3, <2>6, <3>1
    <3>4. ASSUME NEW j \in 1..Samples
          PROVE  u[Slot(i - b - 1, j)] = v[Slot(i - b - 1, j)]
      BY <2>1, <2>5, <3>3, Slots
    <3>. QED BY <3>1, <3>2, <3>4 DEF MasksOf
  <2>8. CASE i > l
    <3>. DEFINE h == i - l
    <3>1. h \in 1..Horizon /\ i \in (l + 1)..(l + Horizon)
      BY <1>1, <2>3, <2>6, <2>8
    <3>2. p[i] = ws[h]
      BY <2>4, <3>1
    <3>3. MasksOf(ms, h - 1, ws[h])
      BY <1>2, <3>1, ChunkPaired DEF ws, ms
    <3>4. ASSUME NEW j \in 1..Samples
          PROVE  u[Slot(i - b - 1, j)] = ms[Slot(h - 1, j)]
      <4>. DEFINE x == Slot(h - 1, j)
                  base == Samples * n
      <4>1. x \in 1..(Samples * Horizon)
        <5>1. h - 1 \in 0..(Horizon - 1)
          BY <1>1, <3>1
        <5>. QED BY <1>1, <5>1, Slots
      <4>2. Slot(i - b - 1, j) = base + x
        <5>1. i - b - 1 = n + (h - 1)
          BY <2>1, <2>3, <2>6
        <5>2. Samples * (n + (h - 1)) = Samples * n + Samples * (h - 1)
          BY <1>1, <2>1, <3>1, MasksPerWaypoint
        <5>3. /\ Slot(i - b - 1, j) = Samples * (n + (h - 1)) + j
              /\ x = Samples * (h - 1) + j
          BY <1>1, <2>1, <3>1, <5>1 DEF Slot
        <5>. QED BY <1>1, <2>1, <3>1, <5>2, <5>3
      <4>3. base \in Int /\ Samples * Horizon \in Int
        BY <1>1, <2>1
      <4>. HIDE DEF x, base
      <4>4. base + x \in (base + 1)..(base + Samples * Horizon) /\ (base + x) - base = x
        BY <4>1, <4>3
      <4>. QED BY <2>5, <4>2, <4>4 DEF base, x
    <3>. QED BY <3>2, <3>3, <3>4 DEF MasksOf
  <2>. QED BY <2>3, <2>6, <2>7, <2>8
<1>6. Paired'
  <2>1. interp'.at = interp.at
    BY <1>3
  <2>. HIDE DEF p, u, b
  <2>. QED BY <1>3, <1>5, <2>1 DEF Paired, p, u
<1>. QED BY <1>4, <1>6 DEF MaskInv

LEMMA MaskTake ==
  IInv /\ MaskInv /\ (TakeFirstSegment \/ TakeSegment) => MaskInv'
<1>. SUFFICES ASSUME IInv, MaskInv, TakeFirstSegment \/ TakeSegment PROVE MaskInv'
  OBVIOUS
<1>. DEFINE q == raw_queue
            v == valid_queue
            p == raw_queue'
            u == valid_queue'
            b == Behind
            n == Len(raw_queue) - Behind
            w == interp'.start
            ms == interp'.masks
<1>1. /\ interp.at = "wait" /\ Len(q) >= 4
      /\ u = RestMasks /\ ms = NextMasks
      /\ w = q[b + 1]
      /\ Behind' = 1
  BY DEF TakeFirstSegment, TakeSegment, Behind, IInv, QueueTypes
<1>2. /\ Samples \in Nat /\ n \in Nat /\ n >= 1 /\ Len(v) = Samples * n
      /\ b \in {0, 1} /\ q \in Seq(Int) /\ v \in Seq(Masks)
  <2>1. interp.at # "clear"
    BY <1>1
  <2>2. Samples \in Nat
    BY StreamAssumption DEF StreamAssumption
  <2>3. /\ n \in Nat /\ Len(v) = Samples * n
        /\ b \in {0, 1} /\ q \in Seq(Int) /\ v \in Seq(Masks)
    BY <2>1, MasksQueued
  <2>. HIDE DEF b
  <2>4. n >= 1
    BY <1>1, <2>3 DEF b
  <2>. QED BY <2>2, <2>3, <2>4
<1>3. \A x \in DOMAIN p : x > 1 => x + b \in DOMAIN q /\ p[x] = q[x + b]
  <2>1. CASE TakeFirstSegment
    <3>1. p = q /\ b = 0
      BY <2>1 DEF TakeFirstSegment, Behind
    <3>. HIDE DEF p, q, b
    <3>2. \A x \in DOMAIN q : x + 0 = x
      BY <1>2
    <3>. QED BY <3>1, <3>2
  <2>2. CASE TakeSegment
    <3>1. p = Tail(q) /\ b = 1 /\ q # <<>>
      BY <1>1, <1>2, <2>2 DEF TakeSegment, Behind
    <3>. HIDE DEF p, q, b
    <3>2. /\ DOMAIN p = 1..(Len(q) - 1) /\ Len(q) \in Nat /\ DOMAIN q = 1..Len(q)
          /\ \A x \in 1..(Len(q) - 1) : p[x] = q[x + 1]
      BY <1>2, <3>1
    <3>. QED BY <3>1, <3>2
  <2>. QED BY <2>1, <2>2
<1>4. ASSUME NEW x \in DOMAIN q, x > b
      PROVE  x - b - 1 \in 0..(n - 1) /\ MasksOf(v, x - b - 1, q[x])
  <2>1. MasksOf(v, x - b - 1, q[x])
    BY <1>1, <1>4 DEF MaskInv, Paired
  <2>. HIDE DEF b
  <2>2. DOMAIN q = 1..Len(q) /\ Len(q) \in Nat /\ n = Len(q) - b
    BY <1>2 DEF b
  <2>. HIDE DEF q, n
  <2>. QED BY <1>2, <1>4, <2>1, <2>2
<1>5. /\ Len(NextMasks) = Samples
      /\ \A j \in 1..Samples : NextMasks[j] = v[Slot(0, j)]
      /\ \A k \in 0..(n - 2), j \in 1..Samples :
           RestMasks[Slot(k, j)] = v[Slot(k + 1, j)]
  <2>. HIDE DEF n
  <2>. QED BY <1>2, MasksTaken
<1>6. SegmentHasItsMasks'
  <2>1. b + 1 \in DOMAIN q /\ (b + 1) - b - 1 = 0 /\ b + 1 > b
    <3>. HIDE DEF b
    <3>. QED BY <1>1, <1>2
  <2>. HIDE DEF b, q
  <2>2. MasksOf(v, 0, w)
    BY <1>1, <1>4, <2>1
  <2>3. NextMasks \in Seq(Masks)
    <3>1. Len(v) >= Samples
      BY <1>2, EnoughMasks
    <3>. QED BY <1>2, <3>1, SplitMasks
  <2>4. DOMAIN NextMasks = 1..Samples
    BY <1>2, <1>5, <2>3
  <2>5. \A j \in DOMAIN ms : ms[j].of = w
    BY <1>1, <1>5, <2>2, <2>4 DEF MasksOf
  <2>. QED BY <2>5 DEF SegmentHasItsMasks
<1>7. ASSUME NEW x \in DOMAIN p, x > 1
      PROVE  MasksOf(u, x - 1 - 1, p[x])
  <2>1. x + b \in DOMAIN q /\ p[x] = q[x + b] /\ x \in Int
    <3>1. p = q \/ p = Tail(q)
      BY DEF TakeFirstSegment, TakeSegment
    <3>2. q \in Seq(Int) /\ Tail(q) \in Seq(Int)
      BY <1>1, <1>2
    <3>3. DOMAIN p \subseteq Int
      <4>. HIDE DEF p, q
      <4>. QED BY <3>1, <3>2
    <3>. QED BY <1>3, <1>7, <3>3
  <2>2. x + b > b /\ (x + b) - b - 1 = x - 1
    <3>. HIDE DEF b
    <3>. QED BY <1>2, <1>7, <2>1
  <2>3. MasksOf(v, x - 1, p[x]) /\ x - 1 \in 0..(n - 1)
    <3>. HIDE DEF b, n, q, p, v
    <3>. QED BY <1>4, <2>1, <2>2
  <2>. HIDE DEF n, p, b
  <2>4. x - 1 - 1 \in 0..(n - 2) /\ (x - 1 - 1) + 1 = x - 1
    <3>1. n \in Int
      BY <1>2
    <3>. QED BY <3>1, <1>7, <2>1, <2>3
  <2>5. ASSUME NEW j \in 1..Samples
        PROVE  u[Slot(x - 1 - 1, j)] = v[Slot(x - 1, j)]
    BY <1>1, <1>5, <2>4
  <2>. QED BY <2>3, <2>5 DEF MasksOf
<1>8. Paired'
  <2>. HIDE DEF p, u
  <2>. QED BY <1>1, <1>7 DEF Paired, p, u
<1>. QED BY <1>6, <1>8 DEF MaskInv

(* No other step moves a mask away from its waypoint.                      *)
LEMMA MaskRest ==
  IInv /\ MaskInv /\ [Next]_vars
    /\ ~QueueChunk /\ ~TakeFirstSegment /\ ~TakeSegment => MaskInv'
<1>. SUFFICES ASSUME IInv, MaskInv, [Next]_vars,
                     ~QueueChunk, ~TakeFirstSegment, ~TakeSegment
              PROVE  MaskInv'
  OBVIOUS
<1>1. CASE InterpClear \/ CancelClear \/ ClearAgain
  <2>1. raw_queue' = <<>> /\ (interp' = interp \/ interp'.at # "segment")
    BY <1>1 DEF InterpClear, CancelClear, ClearAgain, ClearQueue, IInv, QueueTypes
  <2>. QED BY <2>1 DEF MaskInv, Paired, SegmentHasItsMasks
<1>2. CASE NoStartingPoint
  <2>1. interp'.at = "clear"
    BY <1>2 DEF NoStartingPoint, IInv, QueueTypes
  <2>. QED BY <2>1 DEF MaskInv, Paired, SegmentHasItsMasks
<1>3. CASE FinishSegment \/ InterpPause
  <2>1. /\ UNCHANGED <<raw_queue, valid_queue, first_segment>>
        /\ interp.at # "clear" /\ interp'.at # "segment"
    BY <1>3 DEF FinishSegment, InterpPause, queues, IInv, QueueTypes
  <2>. QED BY <2>1 DEF MaskInv, Paired, SegmentHasItsMasks, Behind
<1>4. CASE \/ ReceiveChunk \/ CheckPause \/ Notify
           \/ BeginReceive \/ CancelPause \/ TestPause \/ LookForData
           \/ Play \/ PlayNothing \/ SendState \/ PauseEnds \/ UNCHANGED vars
  <2>1. UNCHANGED <<raw_queue, valid_queue, first_segment, interp>>
    BY <1>4 DEF ReceiveChunk, CheckPause, Notify, BeginReceive, CancelPause,
       TestPause, LookForData, Play, PlayNothing, SendState, PauseEnds, queues,
       vars
  <2>. QED BY <2>1 DEF MaskInv, Paired, SegmentHasItsMasks, Behind
<1>. QED BY <1>1, <1>2, <1>3, <1>4 DEF Next, Receive, Interpolate, Control

(* A segment is filtered by the masks of the waypoint it starts from,      *)
(* however chunks, segments and clears follow each other.                  *)
THEOREM OwnMasks == Spec => []SegmentHasItsMasks
<1>1. Init => MaskInv
  BY DEF Init, MaskInv, Paired, SegmentHasItsMasks
<1>2. IInv /\ MaskInv /\ [Next]_vars => MaskInv'
  BY MaskQueue, MaskTake, MaskRest
<1>3. MaskInv => SegmentHasItsMasks
  BY DEF MaskInv
<1>. QED BY <1>1, <1>2, <1>3, Invariance, PTL DEF Spec

-----------------------------------------------------------------------------
(* Types.  The numbers stay within the bound on the chunks because a chunk *)
(* that is queued was counted, and a segment starts from a waypoint.       *)
TypeInv ==
  /\ TypeOK
  /\ receiver.at = "checkPause" \/ receiver.at = "queue" => chunks >= 1
  /\ interp.at = "segment" => interp.start \in Waypoints

MaskType == [of: Waypoints, ok: BOOLEAN]

LEMMA ChunkInRange ==
  ASSUME NEW c \in 1..MaxChunks, NEW h \in 1..Horizon
  PROVE  (c - 1) * Horizon + h \in Waypoints
<1>1. Horizon \in Nat /\ MaxChunks \in Nat
  BY StreamAssumption DEF StreamAssumption
<1>2. Horizon * (c - 1) + Horizon <= Horizon * MaxChunks
  BY <1>1, Block
<1>3. (c - 1) * Horizon = Horizon * (c - 1) /\ MaxChunks * Horizon = Horizon * MaxChunks
  BY <1>1
<1>4. Horizon * (c - 1) >= 0
  BY <1>1
<1>. QED BY <1>1, <1>2, <1>3, <1>4 DEF Waypoints

LEMMA ChunkRanges ==
  ASSUME NEW c \in 1..MaxChunks, NEW skip \in Nat
  PROVE  /\ ChunkWaypoints(c) \in Seq(Waypoints)
         /\ ChunkMasks(c, skip) \in Seq(MaskType)
<1>1. Horizon \in Nat /\ Samples \in Nat /\ Samples > 0 /\ Horizon * Samples \in Nat
  BY StreamAssumption DEF StreamAssumption
<1>2. ChunkWaypoints(c) \in [1..Horizon -> Waypoints]
  BY ChunkInRange DEF ChunkWaypoints
<1>3. ASSUME NEW i \in 1..(Horizon * Samples)
      PROVE  (c - 1) * Horizon + (i - 1) \div Samples + 1 \in Waypoints
  <2>. DEFINE d == (i - 1) \div Samples
  <2>1. d \in Int /\ i - 1 = Samples * d + ((i - 1) % Samples)
        /\ (i - 1) % Samples \in 0..(Samples - 1)
    BY <1>1
  <2>. HIDE DEF d
  <2>2. d >= 0
    <3>1. CASE d < 0
      <4>1. Samples * d + Samples <= Samples * 0
        BY <1>1, <2>1, <3>1, Block
      <4>. QED BY <1>1, <2>1, <4>1
    <3>. QED BY <2>1, <3>1
  <2>3. d < Horizon
    <3>1. CASE d > Horizon - 1
      <4>1. Samples * (Horizon - 1) + Samples <= Samples * d
        BY <1>1, <2>1, <3>1, Block
      <4>2. Samples * (Horizon + (-1)) = Samples * Horizon + Samples * (-1)
        BY <1>1, MasksPerWaypoint
      <4>3. Samples * Horizon = Horizon * Samples /\ Samples * d \in Int
        BY <1>1, <2>1
      <4>4. Horizon * Samples <= Samples * d
        BY <1>1, <4>1, <4>2, <4>3
      <4>5. i - 1 >= Samples * d
        BY <1>1, <2>1, <4>3
      <4>. QED BY <1>1, <4>3, <4>4, <4>5
    <3>. QED BY <1>1, <2>1, <3>1
  <2>4. d + 1 \in 1..Horizon
    BY <1>1, <2>1, <2>2, <2>3
  <2>5. (c - 1) * Horizon + (d + 1) \in Waypoints
    BY <2>4, ChunkInRange
  <2>6. (c - 1) * Horizon \in Int
    BY <1>1
  <2>7. (c - 1) * Horizon + (d + 1) = (c - 1) * Horizon + d + 1
    BY <2>1, <2>6
  <2>. QED BY <2>5, <2>7 DEF d
<1>4. ChunkMasks(c, skip) \in [1..(Horizon * Samples) -> MaskType]
  <2>. HIDE DEF Waypoints
  <2>. QED BY <1>3 DEF ChunkMasks, MaskType
<1>. HIDE DEF ChunkWaypoints, ChunkMasks
<1>. QED BY <1>1, <1>2, <1>4

LEMMA KeptRange ==
  ASSUME interp.start \in Waypoints
  PROVE  KeptSamples \in Seq(SampleIds)
<1>. DEFINE w == interp.start
            n == MaxChunks * Horizon
<1>1. Samples \in Nat /\ n \in Nat /\ w \in 1..n
  BY StreamAssumption DEF StreamAssumption, Waypoints
<1>2. /\ KeptSamples \in Seq(Int)
      /\ \A i \in DOMAIN KeptSamples :
           /\ KeptSamples[i] > w * Samples - Samples
           /\ KeptSamples[i] <= w * Samples
  <2>1. w \in Int
    BY <1>1
  <2>. QED BY <2>1, Kept
<1>. HIDE DEF KeptSamples, w, n
<1>3. w * Samples - Samples >= 0 /\ w * Samples <= n * Samples
      /\ w * Samples \in Int /\ n * Samples \in Int
  <2>1. Samples * 0 + Samples <= Samples * w
    BY <1>1, Block
  <2>2. Samples * w + Samples <= Samples * (n + 1)
    <3>1. w < n + 1 /\ w \in Int /\ n + 1 \in Int
      BY <1>1
    <3>. QED BY <1>1, <3>1, Block
  <2>3. Samples * (n + 1) = Samples * n + Samples * 1
    BY <1>1, MasksPerWaypoint
  <2>4. w * Samples = Samples * w /\ n * Samples = Samples * n
    BY <1>1
  <2>. QED BY <1>1, <2>1, <2>2, <2>3, <2>4
<1>. DEFINE low == w * Samples
            top == n * Samples
<1>4. low - Samples >= 0 /\ low <= top /\ low \in Int /\ top \in Int
  BY <1>3
<1>5. \A i \in DOMAIN KeptSamples : KeptSamples[i] \in Int
           /\ KeptSamples[i] > low - Samples /\ KeptSamples[i] <= low
  BY <1>2
<1>6. SampleIds = 1..top
  BY DEF SampleIds, n
<1>. HIDE DEF low, top
<1>7. \A i \in DOMAIN KeptSamples : KeptSamples[i] \in SampleIds
  BY <1>1, <1>4, <1>5, <1>6
<1>. QED BY <1>2, <1>7

LEMMA TypeInit == Init => TypeInv
<1>. SUFFICES ASSUME Init PROVE TypeInv
  OBVIOUS
<1>. USE DEF Init
<1>1. chunks \in 0..MaxChunks
  BY StreamAssumption DEF StreamAssumption
<1>2. /\ raw_queue \in Seq(Waypoints) /\ action_queue \in Seq(SampleIds)
      /\ valid_queue \in Seq([of: Waypoints, ok: BOOLEAN])
  OBVIOUS
<1>3. /\ receiver \in [at: {"receive", "checkPause", "queue", "queued"},
                       skip: Nat]
      /\ interp \in [at: {"wait", "segment", "clear", "pause"},
                     start: Waypoints \cup {0},
                     masks: Seq([of: Waypoints, ok: BOOLEAN])]
  OBVIOUS
<1>4. chunk_end \in Int /\ residue \in Nat /\ played \in SampleIds \cup {None}
  OBVIOUS
<1>7. first_segment \in BOOLEAN /\ pause \in BOOLEAN /\ seeded \in BOOLEAN
  BY Zenon
<1>5. control \in {"idle", "pause", "test", "look", "clear", "pop", "send"}
  OBVIOUS
<1>6. receiver.at = "receive" /\ interp.at = "wait"
  OBVIOUS
<1>. HIDE DEF Init
<1>. QED BY <1>1, <1>2, <1>3, <1>4, <1>5, <1>6, <1>7 DEF TypeInv, TypeOK

LEMMA TypeReceive == TypeInv /\ Receive => TypeInv'
<1>. SUFFICES ASSUME TypeInv, Receive PROVE TypeInv'
  OBVIOUS
<1>. USE DEF TypeInv, TypeOK, queues
<1>. HIDE DEF Waypoints, SampleIds
<1>1. CASE ReceiveChunk
  BY <1>1, StreamAssumption DEF ReceiveChunk, StreamAssumption
<1>2. CASE CheckPause
  BY <1>2 DEF CheckPause
<1>3. CASE QueueChunk
  <2>. DEFINE skip == AtMost(receiver.skip, Horizon * Samples)
  <2>1. Horizon \in Nat /\ Samples \in Nat /\ Horizon * Samples \in Nat
    BY StreamAssumption DEF StreamAssumption
  <2>2. skip \in Nat /\ chunks \in 1..MaxChunks
    BY <1>3, <2>1 DEF AtMost, QueueChunk
  <2>. HIDE DEF skip
  <2>3. /\ raw_queue' = raw_queue \o ChunkWaypoints(chunks)
        /\ valid_queue' = valid_queue \o ChunkMasks(chunks, skip)
        /\ receiver' = [receiver EXCEPT !.at = "queued"]
        /\ UNCHANGED <<chunks, first_segment, action_queue, pause, seeded,
                       interp, control, played, residue>>
    BY <1>3 DEF QueueChunk, skip
  <2>4. raw_queue' \in Seq(Waypoints)
    <3>. DEFINE ws == ChunkWaypoints(chunks)
    <3>1. ws \in Seq(Waypoints)
      BY <2>2, ChunkRanges
    <3>. HIDE DEF ws
    <3>2. raw_queue \o ws \in Seq(Waypoints)
      BY <3>1, QueueConcat
    <3>. QED BY <2>3, <3>2 DEF ws
  <2>5. valid_queue' \in Seq(MaskType)
    <3>. DEFINE ms == ChunkMasks(chunks, skip)
    <3>1. ms \in Seq(MaskType) /\ valid_queue \in Seq(MaskType)
      BY <2>2, ChunkRanges DEF MaskType
    <3>. HIDE DEF ms
    <3>2. valid_queue \o ms \in Seq(MaskType)
      BY <3>1, QueueConcat
    <3>. QED BY <2>3, <3>2 DEF ms
  <2>6. chunk_end' \in Int
    <3>. DEFINE l == Len(raw_queue')
                most == AtLeast(l - 2, 0)
    <3>1. l \in Nat
      BY <2>4
    <3>. HIDE DEF l
    <3>2. most \in Nat
      BY <3>1 DEF AtLeast
    <3>. HIDE DEF most
    <3>3. most * Samples \in Int /\ receiver.skip \in Int
      BY <2>1, <3>2
    <3>4. chunk_end' = most * Samples - receiver.skip
      BY <1>3 DEF QueueChunk, most, l
    <3>. QED BY <3>3, <3>4
  <2>7. receiver' \in [at: {"receive", "checkPause", "queue", "queued"}, skip: Nat]
        /\ receiver'.at = "queued"
    BY <2>3
  <2>. QED BY <2>3, <2>4, <2>5, <2>6, <2>7 DEF MaskType
<1>4. CASE Notify
  BY <1>4 DEF Notify
<1>. QED BY <1>1, <1>2, <1>3, <1>4 DEF Receive

LEMMA TypeInterpolate == IInv /\ TypeInv /\ Interpolate => TypeInv'
<1>. SUFFICES ASSUME IInv, TypeInv, Interpolate PROVE TypeInv'
  OBVIOUS
<1>. USE DEF TypeInv, TypeOK, queues
<1>. HIDE DEF Waypoints, SampleIds
<1>0. /\ NextMasks \in Seq(MaskType) /\ RestMasks \in Seq(MaskType)
  <2>1. Samples \in Nat /\ valid_queue \in Seq(MaskType) /\ Len(valid_queue) \in Nat
    BY StreamAssumption DEF StreamAssumption, MaskType
  <2>. DEFINE s == AtMost(Samples, Len(valid_queue))
  <2>2. s \in 0..Len(valid_queue)
    BY <2>1 DEF AtMost
  <2>. HIDE DEF s, MaskType
  <2>3. /\ SubSeq(valid_queue, 1, s) \in Seq(MaskType)
        /\ SubSeq(valid_queue, s + 1, Len(valid_queue)) \in Seq(MaskType)
    BY <2>1, <2>2
  <2>. QED BY <2>3 DEF NextMasks, RestMasks, s
<1>1. CASE TakeFirstSegment
  <2>1. raw_queue[1] \in Waypoints
    BY <1>1 DEF TakeFirstSegment
  <2>. QED BY <1>0, <1>1, <2>1 DEF TakeFirstSegment, MaskType
<1>2. CASE NoStartingPoint
  BY <1>0, <1>2 DEF NoStartingPoint, MaskType
<1>3. CASE TakeSegment
  <2>1. raw_queue[2] \in Waypoints /\ Tail(raw_queue) \in Seq(Waypoints)
    BY <1>3 DEF TakeSegment
  <2>. QED BY <1>0, <1>3, <2>1 DEF TakeSegment, MaskType
<1>4. CASE FinishSegment
  <2>1. action_queue' \in Seq(SampleIds)
    <3>1. KeptSamples \in Seq(SampleIds)
      BY <1>4, KeptRange DEF FinishSegment
    <3>2. action_queue' = action_queue \/ action_queue' = action_queue \o KeptSamples
      BY <1>4 DEF FinishSegment
    <3>. HIDE DEF KeptSamples
    <3>3. action_queue \o KeptSamples \in Seq(SampleIds)
      BY <3>1, QueueConcat
    <3>. QED BY <3>2, <3>3
  <2>. QED BY <1>4, <2>1 DEF FinishSegment
<1>5. CASE InterpClear
  <2>1. /\ raw_queue' \in Seq(Waypoints) /\ action_queue' \in Seq(SampleIds)
        /\ valid_queue' \in Seq([of: Waypoints, ok: BOOLEAN])
        /\ first_segment' \in BOOLEAN /\ chunk_end' \in Int
    BY <1>5 DEF InterpClear, ClearQueue
  <2>2. interp' \in [at: {"wait", "segment", "clear", "pause"},
                     start: Waypoints \cup {0},
                     masks: Seq([of: Waypoints, ok: BOOLEAN])]
        /\ interp'.at = "pause"
    BY <1>5 DEF InterpClear
  <2>3. UNCHANGED <<chunks, pause, seeded, receiver, control, played, residue>>
    BY <1>5 DEF InterpClear
  <2>. QED BY <2>1, <2>2, <2>3
<1>6. CASE InterpPause
  BY <1>6 DEF InterpPause, StartPause
<1>. QED BY <1>1, <1>2, <1>3, <1>4, <1>5, <1>6 DEF Interpolate

LEMMA TypeControl == TypeInv /\ (Control \/ PauseEnds) => TypeInv'
<1>. SUFFICES ASSUME TypeInv, Control \/ PauseEnds PROVE TypeInv'
  OBVIOUS
<1>. USE DEF TypeInv, TypeOK, queues, ControlAt
<1>. HIDE DEF Waypoints, SampleIds
<1>1. CASE BeginReceive
  BY <1>1 DEF BeginReceive
<1>2. CASE CancelClear
  BY <1>2 DEF CancelClear, ClearQueue
<1>3. CASE CancelPause
  BY <1>3 DEF CancelPause, StartPause
<1>4. CASE TestPause
  BY <1>4 DEF TestPause
<1>5. CASE LookForData
  BY <1>5 DEF LookForData
<1>6. CASE ClearAgain
  BY <1>6 DEF ClearAgain, ClearQueue
<1>7. CASE Play
  <2>1. /\ Head(action_queue) \in SampleIds
        /\ Tail(action_queue) \in Seq(SampleIds)
    BY <1>7 DEF Play
  <2>. QED BY <1>7, <2>1 DEF Play
<1>8. CASE PlayNothing
  BY <1>8 DEF PlayNothing
<1>9. CASE SendState
  BY <1>9 DEF SendState
<1>10. CASE PauseEnds
  <2>1. /\ UNCHANGED <<chunks, raw_queue, valid_queue, first_segment,
                       action_queue, chunk_end, seeded, receiver, interp,
                       control, played>>
        /\ pause' \in BOOLEAN /\ residue' \in Nat
    BY <1>10 DEF PauseEnds
  <2>. QED BY <2>1
<1>. QED BY <1>1, <1>2, <1>3, <1>4, <1>5, <1>6, <1>7, <1>8, <1>9, <1>10 DEF Control

(* The queues, the numbers in them and the three threads stay in range.    *)
THEOREM TypeCorrect == Spec => []TypeOK
<1>1. TypeInv /\ UNCHANGED vars => TypeInv'
  BY DEF TypeInv, TypeOK, vars, queues
<1>2. IInv /\ TypeInv /\ [Next]_vars => TypeInv'
  BY <1>1, TypeReceive, TypeInterpolate, TypeControl DEF Next
<1>3. TypeInv => TypeOK
  BY DEF TypeInv
<1>. QED BY <1>2, <1>3, Invariance, TypeInit, PTL DEF Spec
=============================================================================
