------------------------ MODULE PolicyHandlerProofs ------------------------
(***************************************************************************)
(* Proofs about PolicyHandler, for every type of policy, every length of   *)
(* chunk, segment and pause.                                               *)
(*                                                                         *)
(* Three threads clear and pause in two steps each; what survives their    *)
(* races is that a pause of a failed start is no shorter than a cancel's,  *)
(* that a queue of actions once filled is emptied by a clear only          *)
(* (HeldWhenBegun), and that a chunk is promised while it has waypoints    *)
(* left (PromisedIsQueued).  What a thread held while the streams were     *)
(* cleared comes back into them; Forgotten says how the pause gets rid of  *)
(* it, cycle by cycle, before it ends.                                     *)
(***************************************************************************)
EXTENDS PolicyHandler, TLAPS

HeldWhenBegun == \A s \in Streams : begun[s] => action_queue[s] # <<>>

PromisedIsQueued == \A s \in Streams : chunk_end[s] > now => raw_queue[s] # <<>>

Honoured == cancelledAt <= now /\ CancelIsHonoured

IInv == TypeOK /\ HeldWhenBegun /\ PromisedIsQueued /\ Honoured

-----------------------------------------------------------------------------
LEMMA StreamsType ==
  /\ "first" \in Streams
  /\ Type = "cr" => "res" \in Streams
  /\ activeStreams \in Seq(Streams)
  /\ Streams \subseteq Threads /\ "control" \in Threads
  /\ \A s \in Streams : Horizon[s] \in Nat \ {0} /\ Samples[s] \in Nat \ {0}
<1>1. Streams = IF Type = "cr" THEN {"first", "res"} ELSE {"first"}
  BY DEF Streams
<1>2. activeStreams \in Seq(Streams)
  <2>1. CASE Type = "cr"
    BY <1>1, <2>1 DEF activeStreams
  <2>2. CASE Type # "cr"
    BY <1>1, <2>2 DEF activeStreams
  <2> QED
    BY <2>1, <2>2
<1> QED
  BY <1>1, <1>2, HandlerAssumption DEF Threads

\* As many times the same number.
LEMMA Repeated ==
  ASSUME NEW k \in Nat, NEW x \in Nat
  PROVE  /\ [j \in 1..k |-> x] \in Seq(Nat)
         /\ Len([j \in 1..k |-> x]) = k
  OBVIOUS

LEMMA NotEmpty ==
  ASSUME NEW q \in Seq(Nat), Len(q) > 0
  PROVE  q # <<>>
  OBVIOUS

\* A function that is changed in one place.
LEMMA Changed ==
  ASSUME NEW S, NEW T, NEW f \in [S -> T], NEW x \in S, NEW v \in T
  PROVE  /\ [f EXCEPT ![x] = v] \in [S -> T]
         /\ [f EXCEPT ![x] = v][x] = v
         /\ \A y \in S \ {x} : [f EXCEPT ![x] = v][y] = f[y]
  OBVIOUS

\* The sum of two readings of the clock and a pause.
LEMMA LongEnough ==
  ASSUME NEW t \in Nat, NEW d \in Nat, NEW least \in Nat, d >= least,
         NEW c \in Int, c <= t
  PROVE  t + d >= c + least /\ t + d \in Nat
  OBVIOUS

LEMMA Joined ==
  ASSUME NEW p \in Seq(Nat), NEW q \in Seq(Nat)
  PROVE  /\ p \o q \in Seq(Nat)
         /\ Len(p \o q) = Len(p) + Len(q)
         /\ Len(p) \in Nat /\ Len(q) \in Nat
         /\ p # <<>> \/ q # <<>> => p \o q # <<>>
<1>1. p \o q \in Seq(Nat) /\ Len(p \o q) = Len(p) + Len(q)
  OBVIOUS
<1>2. Len(p) \in Nat /\ Len(q) \in Nat
  OBVIOUS
<1>3. p # <<>> => Len(p) # 0
  OBVIOUS
<1>4. q # <<>> => Len(q) # 0
  OBVIOUS
<1> QED
  BY <1>1, <1>2, <1>3, <1>4

\* A thread at rest, and what it may be holding instead.
LEMMA ThreadTypes ==
  /\ Rest \in Receivers /\ Rest \in Interps
  /\ \A x \in Nat : /\ [at |-> "queue", from |-> x] \in Receivers
                    /\ [at |-> "push", from |-> x] \in Interps
  /\ \A r \in Receivers : r.from \in Nat
  /\ \A i \in Interps : i.from \in Nat /\ [i EXCEPT !.at = "clear"] \in Interps
  BY DEF Rest, Receivers, Interps

LEMMA InitInv == Init => IInv
<1> SUFFICES ASSUME Init PROVE IInv
  OBVIOUS
<1> USE DEF Init
<1>1. /\ <<>> \in Seq(Nat) /\ <<>> \in Seq(Streams)
      /\ MaxChunks \in Nat /\ MaxTime \in Nat /\ DefaultPause \in Nat
  BY HandlerAssumption
<1>2. control \in Controls
  BY DEF Controls
<1>3. now \in 0..MaxTime /\ chunks \in [Streams -> 0..MaxChunks]
  BY <1>1
<1>4. cancelledAt \in Int
  BY <1>1
<1>5. TypeOK
  BY <1>1, <1>2, <1>3, <1>4, ThreadTypes DEF TypeOK
<1>6. HeldWhenBegun /\ PromisedIsQueued
  BY DEF HeldWhenBegun, PromisedIsQueued
<1>7. Honoured
  BY <1>1 DEF Honoured, CancelIsHonoured
<1> QED
  BY <1>5, <1>6, <1>7 DEF IInv

-----------------------------------------------------------------------------
LEMMA ClearOneInv ==
  ASSUME IInv, NEW t \in Threads, ClearOne(t)
  PROVE  IInv'
<1> USE DEF IInv, ClearOne, sending
<1> DEFINE s == Head(left[t])
<1>1. s \in Streams /\ Tail(left[t]) \in Seq(Streams) /\ <<>> \in Seq(Nat)
  BY DEF TypeOK
<1>2. /\ raw_queue' = [raw_queue EXCEPT ![s] = <<>>]
      /\ first_segment' = [first_segment EXCEPT ![s] = TRUE]
      /\ action_queue' = [action_queue EXCEPT ![s] = <<>>]
      /\ begun' = [begun EXCEPT ![s] = FALSE]
      /\ chunk_end' = [chunk_end EXCEPT ![s] = now]
      /\ left' = [left EXCEPT ![t] = Tail(left[t])]
  OBVIOUS
<1> HIDE DEF s
<1>3. now \in Nat
  BY HandlerAssumption DEF TypeOK
<1>4. /\ raw_queue' \in [Streams -> Seq(Nat)]
      /\ action_queue' \in [Streams -> Seq(Nat)]
  <2>1. /\ raw_queue \in [Streams -> Seq(Nat)]
        /\ action_queue \in [Streams -> Seq(Nat)]
    BY DEF TypeOK
  <2> HIDE DEF IInv, ClearOne
  <2> QED
    BY <1>1, <1>2, <2>1, Changed
<1>5. TypeOK'
  <2>1. /\ first_segment' \in [Streams -> BOOLEAN]
        /\ begun' \in [Streams -> BOOLEAN]
    BY <1>2 DEF TypeOK
  <2>2. chunk_end' \in [Streams -> Nat]
    BY <1>2, <1>3 DEF TypeOK
  <2>3. left' \in [Threads -> Seq(Streams)]
    BY <1>1, <1>2 DEF TypeOK
  <2> QED
    BY <1>4, <2>1, <2>2, <2>3 DEF TypeOK
<1>6. HeldWhenBegun'
  BY <1>1, <1>2 DEF TypeOK, HeldWhenBegun
<1>7. PromisedIsQueued'
  <2>1. chunk_end'[s] = now /\ now' = now
    BY <1>1, <1>2 DEF TypeOK
  <2>2. \A u \in Streams \ {s} : chunk_end'[u] = chunk_end[u]
                              /\ raw_queue'[u] = raw_queue[u]
    BY <1>1, <1>2 DEF TypeOK
  <2> QED
    BY <1>3, <2>1, <2>2 DEF PromisedIsQueued
<1>8. Honoured'
  BY DEF Honoured, CancelIsHonoured
<1> QED
  BY <1>5, <1>6, <1>7, <1>8

\* A pause that is at least default_pause long, read off the clock now.
LEMMA PauseInv ==
  ASSUME TypeOK, Honoured, NEW d \in Nat, d >= DefaultPause, Pause(d),
         cancelledAt' \in {cancelledAt, now}, UNCHANGED now
  PROVE  /\ pause_until' \in Nat /\ cancelledAt' \in Int
         /\ Honoured'
<1>1. now \in Nat /\ cancelledAt \in Int /\ DefaultPause \in Nat
  BY HandlerAssumption DEF TypeOK
<1>2. pause_until' = now + d /\ cancelledAt <= now
  BY DEF Pause, Honoured
<1>3. cancelledAt' \in Int /\ cancelledAt' <= now
  BY <1>1, <1>2
<1> DEFINE c == cancelledAt'
           p == pause_until'
<1>4. c \in Int /\ c <= now /\ p = now + d
  BY <1>2, <1>3
<1> HIDE DEF c, p
<1>5. p >= c + DefaultPause /\ p \in Nat
  BY <1>1, <1>4, LongEnough
<1> QED
  BY <1>3, <1>5 DEF Honoured, CancelIsHonoured, c, p

LEMMA ReceiveChunkInv ==
  ASSUME IInv, NEW s \in Streams, ReceiveChunk(s)
  PROVE  IInv'
<1> USE DEF IInv, ReceiveChunk, streams, sending
<1>1. now \in Nat /\ chunks[s] \in 0..MaxChunks /\ MaxChunks \in Nat
  BY HandlerAssumption DEF TypeOK
<1>2. chunks' \in [Streams -> 0..MaxChunks]
  BY <1>1 DEF TypeOK
<1>3. receiver' \in [Streams -> Receivers]
  BY <1>1, ThreadTypes DEF TypeOK
<1>4. TypeOK'
  BY <1>2, <1>3 DEF TypeOK
<1>5. HeldWhenBegun' /\ PromisedIsQueued' /\ Honoured'
  BY DEF HeldWhenBegun, PromisedIsQueued, Honoured, CancelIsHonoured
<1> QED
  BY <1>4, <1>5

LEMMA QueueChunkInv ==
  ASSUME IInv, NEW s \in Streams, QueueChunk(s)
  PROVE  IInv'
<1> USE DEF IInv, QueueChunk, sending
<1> DEFINE chunk == [h \in 1..Horizon[s] |-> receiver[s].from]
           queue == raw_queue[s] \o chunk
           rest  == AtLeast(Len(queue) - 2, 0)
<1>1. chunk \in Seq(Nat) /\ Len(chunk) = Horizon[s] /\ Horizon[s] \in Nat \ {0}
  <2>1. receiver[s].from \in Nat /\ Horizon[s] \in Nat \ {0}
    BY StreamsType, ThreadTypes DEF TypeOK
  <2> QED
    BY <2>1, Repeated
<1>2. raw_queue[s] \in Seq(Nat)
  BY DEF TypeOK
<1>3. raw_queue' = [raw_queue EXCEPT ![s] = queue]
  OBVIOUS
<1>4. chunk_end' = [chunk_end EXCEPT ![s] = now + rest * Samples[s]]
  BY <1>3 DEF TypeOK
<1> HIDE DEF chunk
<1>5. queue \in Seq(Nat) /\ Len(queue) \in Nat \ {0}
  BY <1>1, <1>2, Joined
<1> HIDE DEF queue
<1>6. rest \in Nat
  BY <1>5 DEF AtLeast
<1> HIDE DEF rest
<1>7. now \in Nat /\ Samples[s] \in Nat
  BY HandlerAssumption, StreamsType DEF TypeOK
<1>8. now + rest * Samples[s] \in Nat
  BY <1>6, <1>7
<1>9. queue # <<>>
  BY <1>5
<1>10. TypeOK'
  <2>1. /\ raw_queue \in [Streams -> Seq(Nat)]
        /\ chunk_end \in [Streams -> Nat]
        /\ receiver \in [Streams -> Receivers]
        /\ receiver' = [receiver EXCEPT ![s] = Rest]
    BY DEF TypeOK
  <2>2. /\ raw_queue' \in [Streams -> Seq(Nat)]
        /\ chunk_end' \in [Streams -> Nat]
        /\ receiver' \in [Streams -> Receivers]
    <3> HIDE DEF IInv, QueueChunk
    <3> QED
      BY <1>3, <1>4, <1>5, <1>8, <2>1, ThreadTypes, Changed
  <2> QED
    BY <2>2 DEF TypeOK
<1>11. HeldWhenBegun' /\ Honoured'
  BY DEF HeldWhenBegun, Honoured, CancelIsHonoured
<1>12. PromisedIsQueued'
  BY <1>3, <1>4, <1>9 DEF TypeOK, PromisedIsQueued
<1> QED
  BY <1>10, <1>11, <1>12

LEMMA StartFailsInv ==
  ASSUME IInv, NEW s \in Streams, StartFails(s)
  PROVE  IInv'
<1> USE DEF IInv, StartFails, streams, sending
<1>1. /\ interp' \in [Streams -> Interps]
      /\ left' \in [Threads -> Seq(Streams)]
  <2>1. interp' = [interp EXCEPT ![s] = [interp[s] EXCEPT !.at = "clear"]]
    BY DEF TypeOK
  <2>2. [interp[s] EXCEPT !.at = "clear"] \in Interps
    BY ThreadTypes DEF TypeOK
  <2>3. left' = [left EXCEPT ![s] = activeStreams]
    OBVIOUS
  <2>4. interp \in [Streams -> Interps] /\ left \in [Threads -> Seq(Streams)]
    BY DEF TypeOK
  <2>5. s \in Threads /\ activeStreams \in Seq(Streams)
    BY StreamsType
  <2> HIDE DEF IInv, StartFails
  <2> QED
    BY <2>1, <2>2, <2>3, <2>4, <2>5, Changed
<1>2. TypeOK'
  BY <1>1 DEF TypeOK
<1>3. HeldWhenBegun' /\ PromisedIsQueued' /\ Honoured'
  BY DEF HeldWhenBegun, PromisedIsQueued, Honoured, CancelIsHonoured
<1> QED
  BY <1>2, <1>3

LEMMA FailurePauseInv ==
  ASSUME IInv, NEW s \in Streams, FailurePause(s)
  PROVE  IInv'
<1> USE DEF IInv, FailurePause, streams, sending
<1>1. pause_until' \in Nat /\ Honoured'
  BY PauseInv, HandlerAssumption
<1>2. TypeOK'
  BY <1>1, ThreadTypes DEF TypeOK
<1>3. HeldWhenBegun' /\ PromisedIsQueued'
  BY DEF HeldWhenBegun, PromisedIsQueued
<1> QED
  BY <1>1, <1>2, <1>3

\* The queue has four waypoints or more: one may go.
LEMMA TakeSegmentInv ==
  ASSUME IInv, NEW s \in Streams, TakeSegment(s)
  PROVE  IInv'
<1> USE DEF IInv, TakeSegment, sending
<1> DEFINE queue == raw_queue[s]
           rest  == IF first_segment[s] THEN queue ELSE Tail(queue)
           from  == queue[IF first_segment[s] THEN 1 ELSE 2]
<1>1. queue \in Seq(Nat) /\ Len(queue) >= 4
  BY DEF TypeOK
<1>2. raw_queue' = [raw_queue EXCEPT ![s] = rest]
  OBVIOUS
<1>3. interp' = [interp EXCEPT ![s] = [at |-> "push", from |-> from]]
  OBVIOUS
<1> HIDE DEF queue
<1>4. rest \in Seq(Nat) /\ rest # <<>>
  <2>1. Tail(queue) \in Seq(Nat) /\ Len(Tail(queue)) > 0 /\ queue # <<>>
    BY <1>1
  <2>2. Tail(queue) # <<>>
    BY <2>1, NotEmpty
  <2> QED
    BY <1>1, <2>1, <2>2
<1>5. from \in Nat
  BY <1>1
<1> HIDE DEF rest, from
<1>6. TypeOK'
  <2>1. /\ raw_queue' \in [Streams -> Seq(Nat)]
        /\ interp' \in [Streams -> Interps]
        /\ first_segment' \in [Streams -> BOOLEAN]
    <3>1. [at |-> "push", from |-> from] \in Interps
      BY <1>5, ThreadTypes
    <3>2. /\ raw_queue \in [Streams -> Seq(Nat)]
          /\ interp \in [Streams -> Interps]
          /\ first_segment \in [Streams -> BOOLEAN]
          /\ first_segment' = [first_segment EXCEPT ![s] = FALSE]
      BY DEF TypeOK
    <3> HIDE DEF IInv, TakeSegment
    <3> QED
      BY <1>2, <1>3, <1>4, <3>1, <3>2, Changed
  <2> QED
    BY <2>1 DEF TypeOK
<1>7. HeldWhenBegun' /\ Honoured'
  BY DEF HeldWhenBegun, Honoured, CancelIsHonoured
<1>8. PromisedIsQueued'
  BY <1>2, <1>4 DEF TypeOK, PromisedIsQueued
<1> QED
  BY <1>6, <1>7, <1>8

LEMMA PushSegmentInv ==
  ASSUME IInv, NEW s \in Streams, PushSegment(s)
  PROVE  IInv'
<1> USE DEF IInv, PushSegment, sending
<1>1. PICK kept \in 0..Samples[s] :
        /\ action_queue' = [action_queue EXCEPT
                              ![s] = @ \o [j \in 1..kept |-> interp[s].from]]
        /\ begun' = [begun EXCEPT ![s] = @ \/ kept > 0]
  OBVIOUS
<1> DEFINE more  == [j \in 1..kept |-> interp[s].from]
           queue == action_queue[s] \o more
<1>2. kept \in Nat /\ interp[s].from \in Nat
  <2>1. Samples[s] \in Nat
    BY StreamsType
  <2>2. interp[s] \in Interps
    BY DEF TypeOK
  <2> HIDE DEF IInv, PushSegment
  <2>3. kept \in Nat
    BY <2>1
  <2>4. interp[s].from \in Nat
    BY <2>2, ThreadTypes
  <2> QED
    BY <2>3, <2>4
<1>3. more \in Seq(Nat) /\ Len(more) = kept
  BY <1>2, Repeated
<1>4. action_queue[s] \in Seq(Nat)
  BY DEF TypeOK
<1>5. action_queue' = [action_queue EXCEPT ![s] = queue]
  BY <1>1
<1> HIDE DEF more
<1>6. kept > 0 => more # <<>>
  BY <1>3
<1>7. queue \in Seq(Nat) /\ (action_queue[s] # <<>> \/ kept > 0 => queue # <<>>)
  BY <1>3, <1>4, <1>6, Joined
<1> HIDE DEF queue
<1>8. TypeOK'
  <2>1. /\ action_queue' \in [Streams -> Seq(Nat)]
        /\ begun' \in [Streams -> BOOLEAN]
        /\ interp' \in [Streams -> Interps]
    <3>1. /\ action_queue \in [Streams -> Seq(Nat)]
          /\ begun \in [Streams -> BOOLEAN]
          /\ interp \in [Streams -> Interps]
          /\ interp' = [interp EXCEPT ![s] = Rest]
      BY DEF TypeOK
    <3>2. (begun[s] \/ kept > 0) \in BOOLEAN
      OBVIOUS
    <3> HIDE DEF IInv, PushSegment
    <3>3. action_queue' \in [Streams -> Seq(Nat)]
      BY <1>5, <1>7, <3>1, Changed
    <3>4. begun' \in [Streams -> BOOLEAN]
      BY <1>1, <3>1, <3>2, Changed
    <3>5. interp' \in [Streams -> Interps]
      BY <3>1, ThreadTypes, Changed
    <3> QED
      BY <3>3, <3>4, <3>5
  <2> QED
    BY <2>1 DEF TypeOK
<1>9. HeldWhenBegun'
  BY <1>1, <1>5, <1>7 DEF TypeOK, HeldWhenBegun
<1>10. PromisedIsQueued' /\ Honoured'
  BY DEF PromisedIsQueued, Honoured, CancelIsHonoured
<1> QED
  BY <1>8, <1>9, <1>10

-----------------------------------------------------------------------------
(* The control cycle.                                                      *)

\* The steps of the control cycle that only move it and choose what it has to
\* clear or to look at.
LEMMA ControlMovesInv ==
  ASSUME IInv, BeginReceive \/ Cancel \/ TestPause \/ LookAt \/ Looked \/ ClearedAgain
  PROVE  IInv'
<1> USE DEF IInv, BeginReceive, Cancel, TestPause, LookAt, Looked, ClearedAgain,
            ControlAt, streams, sending
<1>1. control' \in Controls
  <2>1. control \in Controls
    BY DEF TypeOK
  <2>2. \A to \in {"cancel", "test", "look", "popFirst"} :
          [control EXCEPT !.at = to] \in Controls
    BY <2>1 DEF Controls
  <2>3. CASE BeginReceive \/ Cancel \/ TestPause \/ ClearedAgain
    <3>. QED BY <2>2, <2>3
  <2>4. CASE LookAt
    <3>. HIDE DEF IInv
    <3>. QED BY <2>1, <2>4 DEF Controls
  <2>5. CASE Looked
    <3>. HIDE DEF IInv
    <3>. QED BY <2>1, <2>5 DEF Controls
  <2>. QED BY <2>3, <2>4, <2>5
<1>2. left' \in [Threads -> Seq(Streams)]
  <2>1. /\ activeStreams \in Seq(Streams) /\ <<>> \in Seq(Streams)
        /\ "control" \in Threads /\ left \in [Threads -> Seq(Streams)]
    BY StreamsType DEF TypeOK
  <2>2. left["control"] # <<>> => Tail(left["control"]) \in Seq(Streams)
    BY <2>1
  <2>3. \/ left' = left
        \/ left' = [left EXCEPT !["control"] = activeStreams]
        \/ left' = [left EXCEPT !["control"] = <<>>]
        \/ /\ left["control"] # <<>>
           /\ left' = [left EXCEPT !["control"] = Tail(left["control"])]
    OBVIOUS
  <2> HIDE DEF IInv, BeginReceive, Cancel, TestPause, LookAt, Looked, ClearedAgain
  <2>4. \A q \in Seq(Streams) :
          [left EXCEPT !["control"] = q] \in [Threads -> Seq(Streams)]
    BY <2>1, Changed
  <2> QED
    BY <2>1, <2>2, <2>3, <2>4
<1>3. UNCHANGED <<now, pause_until, streams, chunks, receiver, interp, sending,
                  cancelledAt>>
  OBVIOUS
<1> HIDE DEF BeginReceive, Cancel, TestPause, LookAt, Looked, ClearedAgain
<1>4. TypeOK'
  BY <1>1, <1>2, <1>3 DEF TypeOK
<1>5. HeldWhenBegun' /\ PromisedIsQueued' /\ Honoured'
  BY <1>3 DEF HeldWhenBegun, PromisedIsQueued, Honoured, CancelIsHonoured
<1> QED
  BY <1>4, <1>5

LEMMA CancelPauseInv ==
  ASSUME IInv, CancelPause
  PROVE  IInv'
<1> USE DEF IInv, CancelPause, ControlAt, streams, sending
<1>1. pause_until' \in Nat /\ cancelledAt' \in Int /\ Honoured'
  BY PauseInv, HandlerAssumption
<1>2. control' \in Controls
  BY DEF TypeOK, Controls
<1>3. TypeOK'
  BY <1>1, <1>2 DEF TypeOK
<1>4. HeldWhenBegun' /\ PromisedIsQueued'
  BY DEF HeldWhenBegun, PromisedIsQueued
<1> QED
  BY <1>1, <1>3, <1>4

\* What is popped leaves something behind.
LEMMA RestOfQueue ==
  ASSUME NEW queue \in Seq(Nat), queue # <<>>
  PROVE  RestOf(queue) \in Seq(Nat) /\ RestOf(queue) # <<>> /\ Head(queue) \in Nat
<1>1. Head(queue) \in Nat /\ Len(queue) \in Nat /\ Tail(queue) \in Seq(Nat)
      /\ Len(Tail(queue)) = Len(queue) - 1
  OBVIOUS
<1>2. CASE Len(queue) > 1
  <2>1. Len(Tail(queue)) > 0
    BY <1>1, <1>2
  <2>2. Tail(queue) # <<>>
    BY <1>1, <2>1, NotEmpty
  <2> QED
    BY <1>1, <1>2, <2>2 DEF RestOf
<1>3. CASE ~(Len(queue) > 1)
  BY <1>1, <1>3 DEF RestOf
<1> QED
  BY <1>2, <1>3

\* Popping from a stream, if there is anything in it.
LEMMA PopInv ==
  ASSUME IInv, NEW s \in Streams, control' \in Controls,
         \/ UNCHANGED action_queue
         \/ /\ action_queue[s] # <<>>
            /\ action_queue' = [action_queue EXCEPT ![s] = RestOf(action_queue[s])],
         UNCHANGED <<now, pause_until, begun, raw_queue, first_segment, chunk_end,
                     chunks, receiver, interp, left, sending, cancelledAt>>
  PROVE  IInv'
<1> USE DEF IInv, sending
<1>1. action_queue \in [Streams -> Seq(Nat)]
  BY DEF TypeOK
<1>2. action_queue[s] # <<>> =>
        RestOf(action_queue[s]) \in Seq(Nat) /\ RestOf(action_queue[s]) # <<>>
  BY <1>1, RestOfQueue
<1>3. /\ action_queue' \in [Streams -> Seq(Nat)]
      /\ \A u \in Streams : action_queue[u] # <<>> => action_queue'[u] # <<>>
  <2> HIDE DEF IInv
  <2>1. CASE UNCHANGED action_queue
    BY <1>1, <2>1
  <2>2. CASE /\ action_queue[s] # <<>>
             /\ action_queue' = [action_queue EXCEPT ![s] = RestOf(action_queue[s])]
    <3> DEFINE rest == RestOf(action_queue[s])
    <3>1. rest \in Seq(Nat) /\ rest # <<>>
      BY <1>2, <2>2
    <3>2. action_queue' = [action_queue EXCEPT ![s] = rest]
      BY <2>2
    <3> HIDE DEF rest
    <3> QED
      BY <1>1, <3>1, <3>2, Changed
  <2> QED
    BY <2>1, <2>2
<1>4. TypeOK'
  BY <1>3 DEF TypeOK
<1>5. HeldWhenBegun'
  BY <1>3 DEF HeldWhenBegun
<1>6. PromisedIsQueued' /\ Honoured'
  BY DEF PromisedIsQueued, Honoured, CancelIsHonoured
<1> QED
  BY <1>4, <1>5, <1>6

\* Where the control cycle goes from a stream, and with what.
LEMMA ControlMoves ==
  ASSUME NEW c \in Controls, NEW a \in Nat \cup {None}, NEW to \in {"popRes", "send"}
  PROVE  /\ [c EXCEPT !.at = to, !.first = a] \in Controls
         /\ [c EXCEPT !.at = to, !.res = a] \in Controls
         /\ [c EXCEPT !.at = to, !.first = a, !.res = None] \in Controls
  BY DEF Controls

LEMMA PopFirstInv ==
  ASSUME IInv, PopFirst
  PROVE  IInv'
<1>1. "first" \in Streams /\ action_queue["first"] \in Seq(Nat)
  BY StreamsType DEF IInv, TypeOK
<1>2. action_queue["first"] # <<>> => Head(action_queue["first"]) \in Nat
  BY <1>1
<1>3. control \in Controls /\ None \in Nat \cup {None}
  BY DEF IInv, TypeOK
<1>4. control' \in Controls
  <2>1. PICK to \in {"popRes", "send"}, a \in Nat \cup {None} :
          control' = [control EXCEPT !.at = to, !.first = a, !.res = None]
    BY <1>2 DEF PopFirst
  <2> QED
    BY <1>3, <2>1, ControlMoves
<1> QED
  BY <1>1, <1>4, PopInv DEF PopFirst

LEMMA PopResInv ==
  ASSUME IInv, PopRes, Type = "cr"
  PROVE  IInv'
<1>1. "res" \in Streams /\ action_queue["res"] \in Seq(Nat)
  BY StreamsType DEF IInv, TypeOK
<1>2. action_queue["res"] # <<>> => Head(action_queue["res"]) \in Nat
  BY <1>1
<1>3. control \in Controls /\ None \in Nat \cup {None}
  BY DEF IInv, TypeOK
<1>4. control' \in Controls
  <2>1. \/ control' = [control EXCEPT !.at = "send", !.first = None]
        \/ \E b \in Nat \cup {None} :
             control' = [control EXCEPT !.at = "send", !.res = b]
    BY <1>2 DEF PopRes
  <2>2. CASE control' = [control EXCEPT !.at = "send", !.first = None]
    BY <1>3, <2>2, ControlMoves
  <2>3. ASSUME NEW b \in Nat \cup {None},
               control' = [control EXCEPT !.at = "send", !.res = b]
        PROVE  control' \in Controls
    BY <1>3, <2>3, ControlMoves
  <2> QED
    BY <2>1, <2>2, <2>3
<1> QED
  BY <1>1, <1>4, PopInv DEF PopRes

LEMMA SendInv ==
  ASSUME IInv, Send
  PROVE  IInv'
<1> USE DEF IInv, Send, ControlAt, streams
<1>1. control' \in Controls
  BY DEF TypeOK, Controls
<1>2. now \in Nat /\ chunk_end \in [Streams -> Nat]
  BY HandlerAssumption DEF TypeOK
<1>3. pending' \in [Streams -> Nat]
  BY <1>2 DEF AtLeast
<1>4. TypeOK'
  BY <1>1, <1>3 DEF TypeOK
<1>5. HeldWhenBegun' /\ PromisedIsQueued' /\ Honoured'
  BY DEF HeldWhenBegun, PromisedIsQueued, Honoured, CancelIsHonoured
<1> QED
  BY <1>4, <1>5

LEMMA SendPendingInv ==
  ASSUME IInv, SendPending
  PROVE  IInv'
<1> USE DEF IInv, SendPending, streams
<1>1. TypeOK'
  BY DEF TypeOK
<1>2. HeldWhenBegun' /\ PromisedIsQueued' /\ Honoured'
  BY DEF HeldWhenBegun, PromisedIsQueued, Honoured, CancelIsHonoured
<1> QED
  BY <1>1, <1>2

LEMMA TickInv ==
  ASSUME IInv, Tick
  PROVE  IInv'
<1> USE DEF IInv, Tick, streams, sending
<1>1. now \in Nat /\ now' = now + 1 /\ now' \in 0..MaxTime
  BY HandlerAssumption DEF TypeOK
<1>2. control' \in Controls
  BY DEF TypeOK, Controls
<1>3. TypeOK'
  BY <1>1, <1>2 DEF TypeOK
<1>4. HeldWhenBegun'
  BY DEF HeldWhenBegun
<1>5. PromisedIsQueued'
  <2>1. \A s \in Streams : chunk_end[s] > now + 1 => chunk_end[s] > now
    BY <1>1 DEF TypeOK
  <2> QED
    BY <1>1, <2>1 DEF PromisedIsQueued
<1>6. Honoured'
  <2>1. cancelledAt <= now => cancelledAt <= now + 1
    BY <1>1 DEF TypeOK
  <2> QED
    BY <1>1, <2>1 DEF Honoured, CancelIsHonoured
<1> QED
  BY <1>3, <1>4, <1>5, <1>6

LEMMA StutterInv ==
  ASSUME IInv, UNCHANGED vars
  PROVE  IInv'
  BY DEF IInv, vars, streams, sending, TypeOK, HeldWhenBegun, PromisedIsQueued,
         Honoured, CancelIsHonoured

-----------------------------------------------------------------------------
\* Only a handler of type "cr" pops from a residual stream, and only when it
\* has popped from the primary one.
ResOfCr == control.at = "popRes" => Type = "cr" /\ control.first # None

LEMMA ResOfCrInv ==
  ASSUME IInv, ResOfCr, [Next]_vars
  PROVE  ResOfCr'
<1> USE DEF ResOfCr
<1>1. ASSUME NEW s \in Streams, StreamStep(s) PROVE control' = control
  BY <1>1 DEF StreamStep, ReceiveChunk, QueueChunk, StartFails, FailurePause,
              TakeSegment, PushSegment, ClearOne
<1>2. CASE Control
  <2>1. control \in Controls
    BY DEF IInv, TypeOK
  <2>2. CASE PopFirst
    <3>1. action_queue["first"] \in Seq(Nat)
      BY StreamsType DEF IInv, TypeOK
    <3>2. action_queue["first"] # <<>> => Head(action_queue["first"]) \in Nat
      BY <3>1
    <3>3. \A x \in Nat : x # None
      BY HandlerAssumption
    <3> QED
      BY <2>1, <2>2, <3>2, <3>3 DEF PopFirst, Controls
  <2>3. CASE PopRes
    BY <2>1, <2>3 DEF PopRes, Controls
  <2>4. CASE LookAt
    BY <2>1, <2>4 DEF LookAt, Controls
  <2>5. CASE Looked
    BY <2>1, <2>5 DEF Looked, Controls
  <2>6. CASE ControlClears
    BY <2>6 DEF ControlClears, ClearOne
  <2>7. CASE BeginReceive \/ Cancel \/ CancelPause \/ TestPause \/ ClearedAgain \/ Send
    BY <2>1, <2>7 DEF BeginReceive, Cancel, CancelPause, TestPause, ClearedAgain,
                      Send, ControlAt, Controls
  <2> QED
    BY <1>2, <2>2, <2>3, <2>4, <2>5, <2>6, <2>7 DEF Control
<1>3. CASE SendPending \/ Tick \/ UNCHANGED vars
  BY <1>3 DEF SendPending, Tick, vars, IInv, TypeOK, Controls
<1> QED
  BY <1>1, <1>2, <1>3 DEF Next

LEMMA NextInv ==
  ASSUME IInv, ResOfCr, [Next]_vars
  PROVE  IInv'
<1>1. ASSUME NEW s \in Streams, StreamStep(s) PROVE IInv'
  BY <1>1, StreamsType, ReceiveChunkInv, QueueChunkInv, StartFailsInv,
     FailurePauseInv, TakeSegmentInv, PushSegmentInv, ClearOneInv
  DEF StreamStep
<1>2. CASE Control
  <2>1. CASE PopRes
    BY <2>1, PopResInv DEF PopRes, ResOfCr
  <2>2. CASE ControlClears
    BY <2>2, ClearOneInv, StreamsType DEF ControlClears
  <2> QED
    BY <1>2, <2>1, <2>2, ControlMovesInv, CancelPauseInv, PopFirstInv, SendInv
    DEF Control
<1> QED
  BY <1>1, <1>2, SendPendingInv, TickInv, StutterInv DEF Next

THEOREM Invariant == Spec => [](IInv /\ ResOfCr)
<1>1. Init => IInv /\ ResOfCr
  BY InitInv DEF Init, ResOfCr
<1>2. IInv /\ ResOfCr /\ [Next]_vars => (IInv /\ ResOfCr)'
  BY NextInv, ResOfCrInv
<1> QED
  BY <1>1, <1>2, PTL DEF Spec

\* The handler's members and what its threads hold are what they are declared
\* to be.
THEOREM TypeCorrect == Spec => []TypeOK
<1>1. IInv => TypeOK
  BY DEF IInv
<1> QED
  BY Invariant, <1>1, PTL

\* Whoever pauses last, and for whatever reason, a cancel lasts as long as it
\* is meant to.
THEOREM ACancelIsHonoured == Spec => []CancelIsHonoured
<1>1. IInv => CancelIsHonoured
  BY DEF IInv, Honoured
<1> QED
  BY Invariant, <1>1, PTL

\* Once both streams of a policy of type "cr" have an action, none is skipped,
\* however the two interpolation threads and the cycle interleave.
THEOREM ActionsAreLostAtTheStartOnly == Spec => LostOnlyAtStart
<1>1. ASSUME IInv, ResOfCr, [Next]_vars, control.at = "popRes",
             control'.first = None
      PROVE  ~begun["res"]
  <2>1. control' # control
    BY <1>1 DEF ResOfCr
  <2>2. PopRes
    <3>1. ASSUME NEW s \in Streams, StreamStep(s) PROVE FALSE
      BY <2>1, <3>1 DEF StreamStep, ReceiveChunk, QueueChunk, StartFails,
                        FailurePause, TakeSegment, PushSegment, ClearOne
    <3> QED
      BY <1>1, <2>1, <3>1
      DEF Next, Control, BeginReceive, Cancel, CancelPause, TestPause, LookAt,
          Looked, ClearedAgain, ControlClears, PopFirst, Send, ControlAt,
          SendPending, Tick, vars
  <2>3. action_queue["res"] = <<>>
    BY <1>1, <2>2 DEF PopRes, IInv, TypeOK, Controls, ResOfCr
  <2> QED
    BY <1>1, <2>3, StreamsType DEF IInv, HeldWhenBegun, ResOfCr
<1>2. IInv /\ ResOfCr /\ [Next]_vars =>
        [control.at = "popRes" /\ control'.first = None => ~begun["res"]]_vars
  BY <1>1
<1> QED
  BY Invariant, <1>2, PTL DEF Spec, LostOnlyAtStart

\* No policy is promised the time of a chunk that is no longer queued, for every
\* length of chunks and segments.
THEOREM APromiseHasWaypoints == Spec => PromiseNeedsChunk
<1>1. ASSUME IInv, [Next]_vars, control.at = "send", control'.at = "done",
             NEW s \in Streams, pending'[s] > 0
      PROVE  raw_queue[s] # <<>>
  <2>1. Send
    <3>1. ASSUME NEW u \in Streams, StreamStep(u) PROVE FALSE
      BY <1>1, <3>1 DEF StreamStep, ReceiveChunk, QueueChunk, StartFails,
                        FailurePause, TakeSegment, PushSegment, ClearOne
    <3> QED
      BY <1>1, <3>1
      DEF Next, Control, BeginReceive, Cancel, CancelPause, TestPause, LookAt,
          Looked, ClearedAgain, ControlClears, PopFirst, PopRes, ControlAt,
          SendPending, Tick, vars
  <2>2. now \in Nat /\ chunk_end[s] \in Nat
    BY <1>1, HandlerAssumption DEF IInv, TypeOK
  <2>3. pending'[s] = AtLeast(chunk_end[s] - now, 0)
    BY <2>1 DEF Send
  <2>4. chunk_end[s] > now
    BY <1>1, <2>2, <2>3 DEF AtLeast
  <2> QED
    BY <1>1, <2>4 DEF IInv, PromisedIsQueued
<1>2. IInv /\ [Next]_vars =>
        [control.at = "send" /\ control'.at = "done"
           => \A s \in Streams : pending'[s] > 0 => raw_queue[s] # <<>>]_vars
  BY <1>1
<1> QED
  BY Invariant, <1>2, PTL DEF Spec, PromiseNeedsChunk

-----------------------------------------------------------------------------
(* What a pause leaves behind.  A pause that lasts three cycles or more has *)
(* a whole cycle in which no receive thread holds a chunk from before it    *)
(* and whose look clears the waypoints, and then a whole cycle in which no  *)
(* interpolation thread holds a segment from before it and whose look       *)
(* clears the actions.                                                      *)

\* The stamps of a queue, and what a thread holds when it is at some place,
\* are not from before p.
FreshIn(queue, p) == \A i \in DOMAIN queue : queue[i] >= p
FreshHeld(h, place, p) == h.at = place => h.from >= p

\* A cycle at c, with the streams of queue still to look at or to clear, may
\* still find what is in stream s.
InLeft(s, queue) == \E i \in DOMAIN queue : queue[i] = s
ToSweep(s, c, queue) ==
  \/ c.at \in {"idle", "cancel", "test"}
  \/ c.at = "look" /\ c.found
  \/ c.at \in {"look", "clear"} /\ InLeft(s, queue)

HoldsNoOldChunk(s) == FreshHeld(receiver[s], "queue", pause_until)
HoldsNoOldSegment(s) == FreshHeld(interp[s], "push", pause_until)
QueuesNoOldWaypoint(s) == FreshIn(raw_queue[s], pause_until)
QueuesNoOldAction(s) == FreshIn(action_queue[s], pause_until)
StillToSweep(s) == ToSweep(s, control, left["control"])

Clean(s) ==
  /\ now >= pause_until - 2 =>
       HoldsNoOldChunk(s) /\ (StillToSweep(s) \/ QueuesNoOldWaypoint(s))
  /\ now >= pause_until - 1 =>
       /\ QueuesNoOldWaypoint(s) /\ HoldsNoOldSegment(s)
       /\ StillToSweep(s) \/ QueuesNoOldAction(s)
  /\ now >= pause_until => QueuesNoOldAction(s)

PoppedFresh ==
  now >= pause_until /\ control.at \in {"popRes", "send"} =>
    /\ control.first # None => control.first >= pause_until
    /\ control.res # None => control.res >= pause_until

Forgotten == (\A s \in Streams : Clean(s)) /\ PoppedFresh

LEMMA FreshQueues ==
  ASSUME NEW p \in Int
  PROVE  /\ FreshIn(<<>>, p)
         /\ \A q \in Seq(Nat) : q # <<>> /\ FreshIn(q, p) =>
              /\ Head(q) >= p /\ FreshIn(Tail(q), p) /\ FreshIn(RestOf(q), p)
         /\ \A q, r \in Seq(Nat) :
              FreshIn(q, p) /\ FreshIn(r, p) => FreshIn(q \o r, p)
<1>1. FreshIn(<<>>, p)
  BY DEF FreshIn
<1>2. ASSUME NEW q \in Seq(Nat), q # <<>>, FreshIn(q, p)
      PROVE  Head(q) >= p /\ FreshIn(Tail(q), p)
  <2>1. /\ Len(q) \in Nat /\ Len(q) >= 1 /\ Head(q) = q[1]
        /\ DOMAIN Tail(q) = 1..(Len(q) - 1) /\ DOMAIN q = 1..Len(q)
        /\ \A i \in 1..(Len(q) - 1) : Tail(q)[i] = q[i + 1]
    BY <1>2
  <2>2. \A i \in 1..(Len(q) - 1) : i + 1 \in 1..Len(q)
    BY <2>1
  <2>3. 1 \in 1..Len(q)
    BY <2>1
  <2>. HIDE DEF FreshIn
  <2>4. \A i \in 1..Len(q) : q[i] >= p
    BY <1>2, <2>1 DEF FreshIn
  <2>5. \A i \in DOMAIN Tail(q) : Tail(q)[i] >= p
    BY <2>1, <2>2, <2>4
  <2>. QED BY <2>1, <2>3, <2>4, <2>5 DEF FreshIn
<1>3. ASSUME NEW q \in Seq(Nat), NEW r \in Seq(Nat), FreshIn(q, p), FreshIn(r, p)
      PROVE  FreshIn(q \o r, p)
  <2>1. /\ Len(q) \in Nat /\ Len(r) \in Nat
        /\ DOMAIN (q \o r) = 1..(Len(q) + Len(r))
        /\ DOMAIN q = 1..Len(q) /\ DOMAIN r = 1..Len(r)
        /\ \A i \in 1..Len(q) : (q \o r)[i] = q[i]
        /\ \A i \in (Len(q) + 1)..(Len(q) + Len(r)) : (q \o r)[i] = r[i - Len(q)]
    OBVIOUS
  <2>2. ASSUME NEW i \in 1..(Len(q) + Len(r)) PROVE (q \o r)[i] >= p
    <3>1. CASE i \in 1..Len(q)
      BY <1>3, <2>1, <3>1 DEF FreshIn
    <3>2. CASE i \in (Len(q) + 1)..(Len(q) + Len(r))
      <4>1. i - Len(q) \in 1..Len(r)
        BY <2>1, <3>2
      <4>. QED BY <1>3, <2>1, <3>2, <4>1 DEF FreshIn
    <3>. QED BY <2>1, <2>2, <3>1, <3>2
  <2>. QED BY <2>1, <2>2 DEF FreshIn
<1>. QED BY <1>1, <1>2, <1>3 DEF RestOf

(* A step within a cycle keeps a stream clean if it brings in nothing old  *)
(* from where the stream has nothing old, and if the cycle gives up        *)
(* looking only at what it emptied or when the pause is over.              *)
LEMMA CleanStep ==
  ASSUME IInv, NEW s \in Streams, Clean(s), UNCHANGED <<now, pause_until>>,
         HoldsNoOldChunk(s) => HoldsNoOldChunk(s)',
         HoldsNoOldChunk(s) /\ QueuesNoOldWaypoint(s)
           => QueuesNoOldWaypoint(s)',
         QueuesNoOldWaypoint(s) /\ HoldsNoOldSegment(s)
           => HoldsNoOldSegment(s)',
         HoldsNoOldSegment(s) /\ QueuesNoOldAction(s) => QueuesNoOldAction(s)',
         \/ StillToSweep(s)' \/ ~StillToSweep(s) \/ now >= pause_until
         \/ QueuesNoOldWaypoint(s)' /\ QueuesNoOldAction(s)'
  PROVE  Clean(s)'
<1>1. now \in Int /\ pause_until \in Int
  BY HandlerAssumption DEF IInv, TypeOK
<1>2. /\ now >= pause_until => now >= pause_until - 1
      /\ now >= pause_until - 1 => now >= pause_until - 2
  BY <1>1
<1>3. /\ now >= pause_until - 2 =>
           HoldsNoOldChunk(s) /\ (StillToSweep(s) \/ QueuesNoOldWaypoint(s))
      /\ now >= pause_until - 1 =>
           /\ QueuesNoOldWaypoint(s) /\ HoldsNoOldSegment(s)
           /\ StillToSweep(s) \/ QueuesNoOldAction(s)
      /\ now >= pause_until => QueuesNoOldAction(s)
  BY Zenon DEF Clean
<1>4. /\ now >= pause_until - 2 =>
           HoldsNoOldChunk(s)' /\ (StillToSweep(s)' \/ QueuesNoOldWaypoint(s)')
      /\ now >= pause_until - 1 =>
           /\ QueuesNoOldWaypoint(s)' /\ HoldsNoOldSegment(s)'
           /\ StillToSweep(s)' \/ QueuesNoOldAction(s)'
      /\ now >= pause_until => QueuesNoOldAction(s)'
  BY <1>2, <1>3, Zenon
<1>. QED BY <1>4, Zenon DEF Clean

(* What belongs to a stream, and what the cycle still has to look at.      *)
StreamParts(s) == <<receiver[s], interp[s], raw_queue[s], action_queue[s]>>
LoopParts == <<control, left["control"]>>

LEMMA CleanUntouched ==
  ASSUME IInv, NEW s \in Streams, Clean(s), UNCHANGED <<now, pause_until>>,
         UNCHANGED StreamParts(s), UNCHANGED LoopParts
  PROVE  Clean(s)'
<1>1. /\ HoldsNoOldChunk(s)' = HoldsNoOldChunk(s)
      /\ HoldsNoOldSegment(s)' = HoldsNoOldSegment(s)
      /\ QueuesNoOldWaypoint(s)' = QueuesNoOldWaypoint(s)
      /\ QueuesNoOldAction(s)' = QueuesNoOldAction(s)
      /\ StillToSweep(s)' = StillToSweep(s)
  BY DEF StreamParts, LoopParts, HoldsNoOldChunk, HoldsNoOldSegment,
     QueuesNoOldWaypoint, QueuesNoOldAction, StillToSweep
<1>. QED BY <1>1, Zenon DEF Clean

LEMMA StreamsAreNotControl == \A s \in Streams : s \in Threads /\ s # "control"
BY DEF Streams, Threads

LEMMA CleanReceive ==
  ASSUME IInv, NEW s \in Streams, Clean(s), NEW u \in Streams, ReceiveChunk(u)
  PROVE  Clean(s)'
<1>1. /\ UNCHANGED <<now, pause_until, interp, raw_queue, action_queue, left,
                     control>>
      /\ receiver' = [receiver EXCEPT ![u] = IF Paused THEN Rest
                                       ELSE [at |-> "queue", from |-> now]]
      /\ receiver \in [Streams -> Receivers]
      /\ now \in Int /\ pause_until \in Int
  BY HandlerAssumption DEF ReceiveChunk, streams, IInv, TypeOK
<1>2. CASE s # u
  <2>1. receiver'[s] = receiver[s]
    BY <1>1, <1>2
  <2>. QED BY <1>1, <2>1, CleanUntouched DEF StreamParts, LoopParts
<1>3. CASE s = u
  <2>1. receiver'[s] = IF Paused THEN Rest ELSE [at |-> "queue", from |-> now]
    BY <1>1, <1>3
  <2>2. HoldsNoOldChunk(s)'
    BY <1>1, <2>1 DEF HoldsNoOldChunk, FreshHeld, Paused, Rest
  <2>3. /\ QueuesNoOldWaypoint(s)' = QueuesNoOldWaypoint(s)
        /\ HoldsNoOldSegment(s)' = HoldsNoOldSegment(s)
        /\ QueuesNoOldAction(s)' = QueuesNoOldAction(s)
        /\ StillToSweep(s)' = StillToSweep(s)
    BY <1>1 DEF HoldsNoOldSegment, QueuesNoOldWaypoint, QueuesNoOldAction,
       StillToSweep
  <2>. QED BY <1>1, <2>2, <2>3, CleanStep
<1>. QED BY <1>2, <1>3

LEMMA CleanQueue ==
  ASSUME IInv, NEW s \in Streams, Clean(s), NEW u \in Streams, QueueChunk(u)
  PROVE  Clean(s)'
<1>. DEFINE c == [h \in 1..Horizon[u] |-> receiver[u].from]
<1>1. /\ UNCHANGED <<now, pause_until, interp, action_queue, left, control>>
      /\ receiver' = [receiver EXCEPT ![u] = Rest]
      /\ raw_queue' = [raw_queue EXCEPT ![u] = raw_queue[u] \o c]
      /\ receiver[u].at = "queue"
  BY DEF QueueChunk, sending
<1>2. /\ receiver \in [Streams -> Receivers] /\ raw_queue \in [Streams -> Seq(Nat)]
      /\ pause_until \in Int
  BY DEF IInv, TypeOK
<1>3. CASE s # u
  <2>1. receiver'[s] = receiver[s] /\ raw_queue'[s] = raw_queue[s]
    BY <1>1, <1>2, <1>3
  <2>. QED BY <1>1, <2>1, CleanUntouched DEF StreamParts, LoopParts
<1>4. CASE s = u
  <2>1. receiver'[s] = Rest /\ raw_queue'[s] = raw_queue[s] \o c
    BY <1>1, <1>2, <1>4
  <2>2. HoldsNoOldChunk(s)'
    BY <1>1, <2>1 DEF HoldsNoOldChunk, FreshHeld, Rest
  <2>3. ASSUME HoldsNoOldChunk(s), QueuesNoOldWaypoint(s)
        PROVE  QueuesNoOldWaypoint(s)'
    <3>1. receiver[s].from >= pause_until /\ receiver[s].from \in Nat
      BY <1>1, <1>2, <1>4, <2>3, ThreadTypes DEF HoldsNoOldChunk, FreshHeld
    <3>2. c \in Seq(Nat) /\ FreshIn(c, pause_until)
      <4>1. Horizon[u] \in Nat
        BY StreamsType
      <4>. QED BY <1>4, <3>1, <4>1 DEF FreshIn
    <3>. HIDE DEF c
    <3>3. raw_queue[s] \in Seq(Nat) /\ FreshIn(raw_queue[s], pause_until)
      BY <1>2, <2>3 DEF QueuesNoOldWaypoint
    <3>4. FreshIn(raw_queue[s] \o c, pause_until)
      BY <1>2, <3>2, <3>3, FreshQueues
    <3>. QED BY <1>1, <2>1, <3>4 DEF QueuesNoOldWaypoint
  <2>4. /\ HoldsNoOldSegment(s)' = HoldsNoOldSegment(s)
        /\ QueuesNoOldAction(s)' = QueuesNoOldAction(s)
        /\ StillToSweep(s)' = StillToSweep(s)
    BY <1>1 DEF HoldsNoOldSegment, QueuesNoOldAction, StillToSweep
  <2>. QED BY <1>1, <2>2, <2>3, <2>4, CleanStep
<1>. QED BY <1>3, <1>4

LEMMA CleanStartFails ==
  ASSUME IInv, NEW s \in Streams, Clean(s), NEW u \in Streams, StartFails(u)
  PROVE  Clean(s)'
<1>1. /\ UNCHANGED <<now, pause_until, receiver, raw_queue, action_queue, control>>
      /\ interp' = [interp EXCEPT ![u].at = "clear"]
      /\ left' = [left EXCEPT ![u] = activeStreams]
      /\ interp \in [Streams -> Interps]
  BY DEF StartFails, streams, IInv, TypeOK
<1>2. left'["control"] = left["control"]
  BY <1>1, StreamsAreNotControl
<1>3. HoldsNoOldSegment(s) => HoldsNoOldSegment(s)'
  <2>1. CASE s = u
    <3>1. interp'[s].at = "clear"
      BY <1>1, <2>1 DEF Interps
    <3>. QED BY <3>1 DEF HoldsNoOldSegment, FreshHeld
  <2>2. CASE s # u
    <3>1. interp'[s] = interp[s]
      BY <1>1, <2>2
    <3>. QED BY <1>1, <3>1 DEF HoldsNoOldSegment
  <2>. QED BY <2>1, <2>2
<1>4. /\ HoldsNoOldChunk(s)' = HoldsNoOldChunk(s)
      /\ QueuesNoOldWaypoint(s)' = QueuesNoOldWaypoint(s)
      /\ QueuesNoOldAction(s)' = QueuesNoOldAction(s)
      /\ StillToSweep(s)' = StillToSweep(s)
  BY <1>1, <1>2 DEF HoldsNoOldChunk, QueuesNoOldWaypoint, QueuesNoOldAction,
     StillToSweep
<1>. QED BY <1>1, <1>3, <1>4, CleanStep

LEMMA CleanTake ==
  ASSUME IInv, NEW s \in Streams, Clean(s), NEW u \in Streams, TakeSegment(u)
  PROVE  Clean(s)'
<1>. DEFINE q == raw_queue[u]
            at == IF first_segment[u] THEN 1 ELSE 2
            rest == IF first_segment[u] THEN q ELSE Tail(q)
<1>1. /\ UNCHANGED <<now, pause_until, receiver, action_queue, control, left>>
      /\ interp' = [interp EXCEPT ![u] = [at |-> "push", from |-> q[at]]]
      /\ raw_queue' = [raw_queue EXCEPT ![u] = rest]
      /\ Len(q) >= 4
  BY DEF TakeSegment, sending
<1>2. /\ interp \in [Streams -> Interps] /\ raw_queue \in [Streams -> Seq(Nat)]
      /\ q \in Seq(Nat) /\ pause_until \in Int
  BY DEF IInv, TypeOK
<1>3. CASE s # u
  <2>1. interp'[s] = interp[s] /\ raw_queue'[s] = raw_queue[s]
    BY <1>1, <1>2, <1>3
  <2>. QED BY <1>1, <2>1, CleanUntouched DEF StreamParts, LoopParts
<1>4. CASE s = u
  <2>1. /\ interp'[s] = [at |-> "push", from |-> q[at]]
        /\ raw_queue'[s] = rest
    BY <1>1, <1>2, <1>4
  <2>2. ASSUME QueuesNoOldWaypoint(s)
        PROVE  QueuesNoOldWaypoint(s)' /\ HoldsNoOldSegment(s)'
    <3>1. FreshIn(q, pause_until)
      BY <1>4, <2>2 DEF QueuesNoOldWaypoint
    <3>2. q # <<>> /\ at \in DOMAIN q
      BY <1>1, <1>2
    <3>. HIDE DEF q
    <3>3. FreshIn(rest, pause_until)
      BY <1>2, <3>1, <3>2, FreshQueues
    <3>4. q[at] >= pause_until
      BY <3>1, <3>2 DEF FreshIn
    <3>. HIDE DEF rest, at
    <3>5. QueuesNoOldWaypoint(s)'
      BY <1>1, <2>1, <3>3 DEF QueuesNoOldWaypoint
    <3>6. HoldsNoOldSegment(s)'
      BY <1>1, <2>1, <3>4 DEF HoldsNoOldSegment, FreshHeld
    <3>. QED BY <3>5, <3>6
  <2>3. /\ HoldsNoOldChunk(s)' = HoldsNoOldChunk(s)
        /\ QueuesNoOldAction(s)' = QueuesNoOldAction(s)
        /\ StillToSweep(s)' = StillToSweep(s)
    BY <1>1 DEF HoldsNoOldChunk, QueuesNoOldAction, StillToSweep
  <2>. QED BY <1>1, <2>2, <2>3, CleanStep
<1>. QED BY <1>3, <1>4

LEMMA CleanPush ==
  ASSUME IInv, NEW s \in Streams, Clean(s), NEW u \in Streams, PushSegment(u)
  PROVE  Clean(s)'
<1>1. PICK kept \in 0..Samples[u] :
        action_queue' = [action_queue EXCEPT
          ![u] = action_queue[u] \o [j \in 1..kept |-> interp[u].from]]
  BY DEF PushSegment
<1>. DEFINE c == [j \in 1..kept |-> interp[u].from]
<1>2. /\ UNCHANGED <<now, pause_until, receiver, raw_queue, control, left>>
      /\ interp' = [interp EXCEPT ![u] = Rest]
      /\ interp[u].at = "push"
  BY DEF PushSegment, sending
<1>3. /\ interp \in [Streams -> Interps] /\ action_queue \in [Streams -> Seq(Nat)]
      /\ pause_until \in Int
  BY DEF IInv, TypeOK
<1>4. kept \in Nat
  BY StreamsType
<1>5. CASE s # u
  <2>1. interp'[s] = interp[s] /\ action_queue'[s] = action_queue[s]
    BY <1>1, <1>2, <1>3, <1>5
  <2>. QED BY <1>2, <2>1, CleanUntouched DEF StreamParts, LoopParts
<1>6. CASE s = u
  <2>1. interp'[s] = Rest /\ action_queue'[s] = action_queue[s] \o c
    BY <1>1, <1>2, <1>3, <1>6
  <2>2. HoldsNoOldSegment(s)'
    BY <1>2, <2>1 DEF HoldsNoOldSegment, FreshHeld, Rest
  <2>3. ASSUME HoldsNoOldSegment(s), QueuesNoOldAction(s)
        PROVE  QueuesNoOldAction(s)'
    <3>1. interp[s].from >= pause_until /\ interp[s].from \in Nat
      BY <1>2, <1>3, <1>6, <2>3, ThreadTypes DEF HoldsNoOldSegment, FreshHeld
    <3>2. c \in Seq(Nat) /\ FreshIn(c, pause_until)
      BY <1>4, <1>6, <3>1 DEF FreshIn
    <3>. HIDE DEF c
    <3>3. action_queue[s] \in Seq(Nat) /\ FreshIn(action_queue[s], pause_until)
      BY <1>3, <2>3 DEF QueuesNoOldAction
    <3>4. FreshIn(action_queue[s] \o c, pause_until)
      BY <1>3, <3>2, <3>3, FreshQueues
    <3>. QED BY <1>2, <2>1, <3>4 DEF QueuesNoOldAction
  <2>4. /\ HoldsNoOldChunk(s)' = HoldsNoOldChunk(s)
        /\ QueuesNoOldWaypoint(s)' = QueuesNoOldWaypoint(s)
        /\ StillToSweep(s)' = StillToSweep(s)
    BY <1>2 DEF HoldsNoOldChunk, QueuesNoOldWaypoint, StillToSweep
  <2>. QED BY <1>2, <2>2, <2>3, <2>4, CleanStep
<1>. QED BY <1>5, <1>6

LEMMA CleanClear ==
  ASSUME IInv, NEW s \in Streams, Clean(s), NEW t \in Threads, ClearOne(t)
  PROVE  Clean(s)'
<1>. DEFINE u == Head(left[t])
<1>1. /\ UNCHANGED <<now, pause_until, receiver, interp, control>>
      /\ left' = [left EXCEPT ![t] = Tail(left[t])]
      /\ raw_queue' = [raw_queue EXCEPT ![u] = <<>>]
      /\ action_queue' = [action_queue EXCEPT ![u] = <<>>]
      /\ left[t] # <<>>
  BY DEF ClearOne
<1>2. /\ raw_queue \in [Streams -> Seq(Nat)] /\ action_queue \in [Streams -> Seq(Nat)]
      /\ left \in [Threads -> Seq(Streams)] /\ pause_until \in Int
  BY DEF IInv, TypeOK
<1>3. left[t] \in Seq(Streams)
  BY <1>2
<1>4. u \in Streams
  BY <1>1, <1>3
<1>5. /\ HoldsNoOldChunk(s)' = HoldsNoOldChunk(s)
      /\ HoldsNoOldSegment(s)' = HoldsNoOldSegment(s)
  BY <1>1 DEF HoldsNoOldChunk, HoldsNoOldSegment
<1>6. CASE s = u
  <2>1. raw_queue'[s] = <<>> /\ action_queue'[s] = <<>>
    BY <1>1, <1>2, <1>4, <1>6
  <2>2. FreshIn(<<>>, pause_until)
    BY <1>2, FreshQueues
  <2>3. QueuesNoOldWaypoint(s)' /\ QueuesNoOldAction(s)'
    BY <1>1, <2>1, <2>2 DEF QueuesNoOldWaypoint, QueuesNoOldAction
  <2>. QED BY <1>1, <1>5, <2>3, CleanStep
<1>7. CASE s # u
  <2>1. raw_queue'[s] = raw_queue[s] /\ action_queue'[s] = action_queue[s]
    BY <1>1, <1>2, <1>4, <1>7
  <2>2. StillToSweep(s) => StillToSweep(s)'
    <3>1. CASE t # "control"
      <4>1. left'["control"] = left["control"]
        BY <1>1, <1>2, <3>1
      <4>. QED BY <1>1, <4>1 DEF StillToSweep
    <3>2. CASE t = "control"
      <4>. DEFINE q == left["control"]
      <4>1. left'["control"] = Tail(q) /\ q # <<>> /\ q \in Seq(Streams) /\ u = Head(q)
        BY <1>1, <1>2, <1>3, <3>2, StreamsType
      <4>. HIDE DEF q, u
      <4>2. InLeft(s, q) => InLeft(s, Tail(q))
        <5>. SUFFICES ASSUME NEW i \in DOMAIN q, q[i] = s PROVE InLeft(s, Tail(q))
          BY DEF InLeft
        <5>1. i # 1
          BY <1>7, <4>1
        <5>2. i - 1 \in DOMAIN Tail(q) /\ Tail(q)[i - 1] = q[i]
          BY <4>1, <5>1
        <5>. QED BY <5>2 DEF InLeft
      <4>. QED BY <1>1, <4>1, <4>2 DEF StillToSweep, ToSweep, q
    <3>. QED BY <3>1, <3>2
  <2>3. /\ QueuesNoOldWaypoint(s)' = QueuesNoOldWaypoint(s)
        /\ QueuesNoOldAction(s)' = QueuesNoOldAction(s)
    BY <1>1, <2>1 DEF QueuesNoOldWaypoint, QueuesNoOldAction
  <2>. QED BY <1>1, <1>5, <2>2, <2>3, CleanStep
<1>. QED BY <1>6, <1>7

\* A pause of three cycles or more: there is nothing to ask for yet.
LEMMA CleanPause ==
  ASSUME IInv, NEW d \in Nat, d >= 3, Pause(d), now' = now
  PROVE  Forgotten'
<1>. DEFINE p == pause_until'
            n == now
<1>1. n \in Int /\ p = n + d /\ now' = n
  BY HandlerAssumption DEF IInv, TypeOK, Pause
<1>. HIDE DEF p, n
<1>2. ~(n >= p - 2) /\ ~(n >= p - 1) /\ ~(n >= p)
  BY <1>1
<1>3. ~(now >= pause_until - 2)' /\ ~(now >= pause_until - 1)' /\ ~(now >= pause_until)'
  BY <1>1, <1>2, Zenon DEF p
<1>4. \A s \in Streams : Clean(s)'
  BY <1>3, Zenon DEF Clean
<1>5. PoppedFresh'
  BY <1>3, Zenon DEF PoppedFresh
<1>. QED BY <1>4, <1>5 DEF Forgotten

\* The cycle goes on: it still looks at the stream, or need not any more.
LEMMA CleanLoop ==
  ASSUME IInv, NEW s \in Streams, Clean(s),
         UNCHANGED <<now, pause_until, receiver, interp, raw_queue, action_queue>>,
         \/ StillToSweep(s)' \/ ~StillToSweep(s) \/ now >= pause_until
         \/ QueuesNoOldWaypoint(s) /\ QueuesNoOldAction(s)
  PROVE  Clean(s)'
<1>1. /\ HoldsNoOldChunk(s)' = HoldsNoOldChunk(s)
      /\ HoldsNoOldSegment(s)' = HoldsNoOldSegment(s)
      /\ QueuesNoOldWaypoint(s)' = QueuesNoOldWaypoint(s)
      /\ QueuesNoOldAction(s)' = QueuesNoOldAction(s)
  BY DEF HoldsNoOldChunk, HoldsNoOldSegment, QueuesNoOldWaypoint,
     QueuesNoOldAction
<1>. QED BY <1>1, CleanStep

LEMMA EveryStreamIsActive == \A s \in Streams : InLeft(s, activeStreams)
<1>1. CASE Type = "cr"
  <2>1. activeStreams = <<"first", "res">> /\ Streams = {"first", "res"}
    BY <1>1 DEF activeStreams, Streams
  <2>2. 1 \in DOMAIN activeStreams /\ 2 \in DOMAIN activeStreams
        /\ activeStreams[1] = "first" /\ activeStreams[2] = "res"
    BY <2>1
  <2>. QED BY <2>1, <2>2 DEF InLeft
<1>2. CASE Type # "cr"
  <2>1. activeStreams = <<"first">> /\ Streams = {"first"}
    BY <1>2 DEF activeStreams, Streams
  <2>2. 1 \in DOMAIN activeStreams /\ activeStreams[1] = "first"
    BY <2>1
  <2>. QED BY <2>1, <2>2 DEF InLeft
<1>. QED BY <1>1, <1>2

LEMMA CleanLook ==
  ASSUME IInv, NEW s \in Streams, Clean(s), LookAt
  PROVE  Clean(s)'
<1>. DEFINE q == left["control"]
            u == Head(q)
<1>1. /\ UNCHANGED <<now, pause_until, receiver, interp, raw_queue, action_queue>>
      /\ control.at = "look" /\ q # <<>>
      /\ control' = [control EXCEPT !.found =
           control.found \/ action_queue[u] # <<>> \/ raw_queue[u] # <<>>]
      /\ left' = [left EXCEPT !["control"] = Tail(q)]
  BY DEF LookAt, streams
<1>2. control \in Controls /\ left \in [Threads -> Seq(Streams)] /\ pause_until \in Int
  BY DEF IInv, TypeOK
<1>3. left'["control"] = Tail(q) /\ q \in Seq(Streams)
  BY <1>1, <1>2, StreamsType
<1>4. control'.at = "look"
  BY <1>1, <1>2 DEF Controls
<1>5. control'.found = (control.found \/ action_queue[u] # <<>> \/ raw_queue[u] # <<>>)
  BY <1>1, <1>2 DEF Controls
<1>6. CASE control.found \/ action_queue[u] # <<>> \/ raw_queue[u] # <<>>
  <2>1. StillToSweep(s)'
    BY <1>4, <1>5, <1>6, Zenon DEF StillToSweep, ToSweep
  <2>. QED BY <1>1, <2>1, CleanLoop
<1>7. CASE ~control.found /\ action_queue[u] = <<>> /\ raw_queue[u] = <<>>
  <2>1. CASE s = u
    <3>1. QueuesNoOldWaypoint(s) /\ QueuesNoOldAction(s)
      BY <1>2, <1>7, <2>1, FreshQueues DEF QueuesNoOldWaypoint, QueuesNoOldAction
    <3>. QED BY <1>1, <3>1, CleanLoop
  <2>2. CASE s # u
    <3>1. ASSUME InLeft(s, q) PROVE InLeft(s, Tail(q))
      <4>1. PICK i \in DOMAIN q : q[i] = s
        BY <3>1 DEF InLeft
      <4>2. i # 1
        BY <1>1, <1>3, <2>2, <4>1
      <4>3. i - 1 \in DOMAIN Tail(q) /\ Tail(q)[i - 1] = q[i]
        BY <1>1, <1>3, <4>1, <4>2
      <4>. QED BY <4>1, <4>3 DEF InLeft
    <3>2. StillToSweep(s) => InLeft(s, q)
      BY <1>1, <1>7 DEF StillToSweep, ToSweep
    <3>3. InLeft(s, Tail(q)) => StillToSweep(s)'
      BY <1>3, <1>4 DEF StillToSweep, ToSweep
    <3>. QED BY <1>1, <3>1, <3>2, <3>3, CleanLoop
  <2>. QED BY <2>1, <2>2
<1>. QED BY <1>6, <1>7

\* Popping takes the front action, or leaves the last.
LEMMA CleanPop ==
  ASSUME IInv, NEW s \in Streams, Clean(s), NEW u \in Streams,
         UNCHANGED <<now, pause_until, receiver, interp, raw_queue>>,
         control.at \in {"popFirst", "popRes"},
         \/ action_queue' = action_queue
         \/ /\ action_queue[u] # <<>>
            /\ action_queue' = [action_queue EXCEPT ![u] = RestOf(action_queue[u])]
  PROVE  Clean(s)'
<1>1. action_queue \in [Streams -> Seq(Nat)] /\ pause_until \in Int
  BY DEF IInv, TypeOK
<1>2. /\ HoldsNoOldChunk(s)' = HoldsNoOldChunk(s)
      /\ HoldsNoOldSegment(s)' = HoldsNoOldSegment(s)
      /\ QueuesNoOldWaypoint(s)' = QueuesNoOldWaypoint(s)
  BY DEF HoldsNoOldChunk, HoldsNoOldSegment, QueuesNoOldWaypoint
<1>3. ~StillToSweep(s)
  BY DEF StillToSweep, ToSweep
<1>4. QueuesNoOldAction(s) => QueuesNoOldAction(s)'
  <2>1. CASE action_queue'[s] = action_queue[s]
    BY <2>1 DEF QueuesNoOldAction
  <2>2. CASE /\ s = u /\ action_queue[s] # <<>>
             /\ action_queue'[s] = RestOf(action_queue[s])
    <3>1. FreshIn(action_queue[s], pause_until)
             => FreshIn(RestOf(action_queue[s]), pause_until)
      BY <1>1, <2>2, FreshQueues
    <3>. QED BY <2>2, <3>1 DEF QueuesNoOldAction
  <2>3. CASE s # u
    BY <1>1, <2>1, <2>3
  <2>. QED BY <1>1, <2>1, <2>2, <2>3
<1>. QED BY <1>2, <1>3, <1>4, CleanStep

LEMMA PoppedUntouched ==
  ASSUME PoppedFresh, UNCHANGED <<now, pause_until, control>>
  PROVE  PoppedFresh'
BY DEF PoppedFresh

LEMMA NothingPopped ==
  ASSUME control'.at \notin {"popRes", "send"}
  PROVE  PoppedFresh'
BY DEF PoppedFresh

LEMMA ForgottenStream ==
  ASSUME IInv, Forgotten, NEW u \in Streams, StreamStep(u), DefaultPause >= 3
  PROVE  Forgotten'
<1>1. ASSUME NEW s \in Streams, ~FailurePause(u) PROVE Clean(s)'
  <2>1. Clean(s) /\ u \in Threads
    BY StreamsType DEF Forgotten
  <2>. QED BY <1>1, <2>1, CleanReceive, CleanQueue, CleanStartFails, CleanTake,
              CleanPush, CleanClear DEF StreamStep
<1>2. CASE FailurePause(u)
  <2>1. LongPause \in Nat /\ LongPause >= 3
    BY HandlerAssumption
  <2>. QED BY <1>2, <2>1, CleanPause DEF FailurePause
<1>3. CASE ~FailurePause(u)
  <2>1. UNCHANGED <<now, pause_until, control>>
    BY <1>3 DEF StreamStep, ReceiveChunk, QueueChunk, StartFails, TakeSegment,
       PushSegment, ClearOne
  <2>2. PoppedFresh'
    BY <2>1, PoppedUntouched DEF Forgotten
  <2>. QED BY <1>1, <1>3, <2>2 DEF Forgotten
<1>. QED BY <1>2, <1>3

LEMMA ForgottenPopFirst ==
  ASSUME IInv, Forgotten, PopFirst
  PROVE  Forgotten'
<1>. DEFINE q == action_queue["first"]
<1>1. /\ UNCHANGED <<now, pause_until, receiver, interp, raw_queue>>
      /\ control.at = "popFirst"
      /\ \/ /\ q = <<>> /\ action_queue' = action_queue
            /\ control' = [control EXCEPT !.at = "send", !.first = None, !.res = None]
         \/ /\ q # <<>>
            /\ action_queue' = [action_queue EXCEPT !["first"] = RestOf(q)]
            /\ control' = [control EXCEPT
                             !.at = IF Type = "cr" THEN "popRes" ELSE "send",
                             !.first = Head(q), !.res = None]
  BY DEF PopFirst
<1>2. /\ "first" \in Streams /\ control \in Controls
      /\ action_queue \in [Streams -> Seq(Nat)] /\ pause_until \in Int /\ now \in Int
  BY StreamsType, HandlerAssumption DEF IInv, TypeOK
<1>3. ASSUME NEW s \in Streams PROVE Clean(s)'
  BY <1>1, <1>2, <1>3, CleanPop DEF Forgotten
<1>4. control'.res = None /\ (control'.first = None \/ (q # <<>> /\ control'.first = Head(q)))
  BY <1>1, <1>2 DEF Controls
<1>5. ASSUME now >= pause_until, q # <<>> PROVE Head(q) >= pause_until
  <2>1. FreshIn(q, pause_until)
    BY <1>2, <1>5 DEF Forgotten, Clean, QueuesNoOldAction
  <2>. QED BY <1>2, <1>5, <2>1, FreshQueues
<1>6. PoppedFresh'
  BY <1>1, <1>4, <1>5 DEF PoppedFresh
<1>. QED BY <1>3, <1>6 DEF Forgotten

LEMMA ForgottenPopRes ==
  ASSUME IInv, ResOfCr, Forgotten, PopRes
  PROVE  Forgotten'
<1>. DEFINE q == action_queue["res"]
<1>1. /\ UNCHANGED <<now, pause_until, receiver, interp, raw_queue>>
      /\ control.at = "popRes"
      /\ \/ /\ q = <<>> /\ action_queue' = action_queue
            /\ control' = [control EXCEPT !.at = "send", !.first = None]
         \/ /\ q # <<>>
            /\ action_queue' = [action_queue EXCEPT !["res"] = RestOf(q)]
            /\ control' = [control EXCEPT !.at = "send", !.res = Head(q)]
  BY DEF PopRes
<1>2. /\ "res" \in Streams /\ control \in Controls
      /\ action_queue \in [Streams -> Seq(Nat)] /\ pause_until \in Int /\ now \in Int
  BY <1>1, StreamsType, HandlerAssumption DEF IInv, TypeOK, ResOfCr
<1>3. ASSUME NEW s \in Streams PROVE Clean(s)'
  BY <1>1, <1>2, <1>3, CleanPop DEF Forgotten
<1>4. /\ control'.first = None \/ control'.first = control.first
      /\ \/ control'.res = control.res
         \/ (q # <<>> /\ control'.res = Head(q))
  BY <1>1, <1>2 DEF Controls
<1>5. ASSUME now >= pause_until, q # <<>> PROVE Head(q) >= pause_until
  <2>1. FreshIn(q, pause_until)
    BY <1>2, <1>5 DEF Forgotten, Clean, QueuesNoOldAction
  <2>. QED BY <1>2, <1>5, <2>1, FreshQueues
<1>6. PoppedFresh'
  BY <1>1, <1>4, <1>5 DEF PoppedFresh, Forgotten
<1>. QED BY <1>3, <1>6 DEF Forgotten

LEMMA ForgottenControl ==
  ASSUME IInv, ResOfCr, Forgotten, Control, DefaultPause >= 3
  PROVE  Forgotten'
<1>1. control \in Controls /\ left \in [Threads -> Seq(Streams)]
      /\ "control" \in Threads /\ now \in Int /\ pause_until \in Int
  BY StreamsType, HandlerAssumption DEF IInv, TypeOK
<1>2. CASE BeginReceive
  <2>1. control'.at = "test"
    BY <1>1, <1>2 DEF BeginReceive, ControlAt, Controls
  <2>2. \A s \in Streams : StillToSweep(s)'
    BY <2>1 DEF StillToSweep, ToSweep
  <2>. QED BY <1>2, <2>1, <2>2, CleanLoop, NothingPopped
           DEF BeginReceive, streams, Forgotten
<1>3. CASE Cancel
  <2>1. control'.at = "cancel"
    BY <1>1, <1>3 DEF Cancel, ControlAt, Controls
  <2>2. \A s \in Streams : StillToSweep(s)'
    BY <2>1 DEF StillToSweep, ToSweep
  <2>. QED BY <1>3, <2>1, <2>2, CleanLoop, NothingPopped
           DEF Cancel, streams, Forgotten
<1>4. CASE ControlClears
  <2>1. UNCHANGED <<now, pause_until, control>>
    BY <1>4 DEF ControlClears, ClearOne
  <2>2. PoppedFresh'
    BY <2>1, PoppedUntouched DEF Forgotten
  <2>. QED BY <1>1, <1>4, <2>2, CleanClear DEF ControlClears, Forgotten
<1>5. CASE CancelPause
  BY <1>5, CleanPause, HandlerAssumption DEF CancelPause
<1>6. CASE TestPause
  <2>1. control'.at = (IF Paused THEN "look" ELSE "popFirst")
    BY <1>1, <1>6 DEF TestPause, ControlAt, Controls
  <2>2. left'["control"] = IF Paused THEN activeStreams ELSE <<>>
    BY <1>1, <1>6 DEF TestPause
  <2>3. ASSUME NEW s \in Streams PROVE StillToSweep(s)' \/ now >= pause_until
    <3>1. CASE Paused
      BY <2>1, <2>2, <3>1, EveryStreamIsActive DEF StillToSweep, ToSweep
    <3>2. CASE ~Paused
      BY <1>1, <3>2 DEF Paused
    <3>. QED BY <3>1, <3>2
  <2>4. \A s \in Streams : Clean(s)'
    BY <1>6, <2>3, CleanLoop DEF TestPause, streams, Forgotten
  <2>. QED BY <2>1, <2>4, NothingPopped DEF Forgotten
<1>7. CASE LookAt
  <2>1. control'.at = "look"
    BY <1>1, <1>7 DEF LookAt, Controls
  <2>. QED BY <1>7, <2>1, CleanLook, NothingPopped DEF Forgotten
<1>8. CASE Looked
  <2>1. control'.at = (IF control.found THEN "clear" ELSE "popFirst")
    BY <1>1, <1>8 DEF Looked, Controls
  <2>2. left'["control"] = IF control.found THEN activeStreams ELSE <<>>
    BY <1>1, <1>8 DEF Looked
  <2>3. ASSUME NEW s \in Streams PROVE StillToSweep(s)' \/ ~StillToSweep(s)
    <3>1. CASE control.found
      BY <2>1, <2>2, <3>1, EveryStreamIsActive DEF StillToSweep, ToSweep
    <3>2. CASE ~control.found
      BY <1>8, <3>2 DEF Looked, StillToSweep, ToSweep, InLeft
    <3>. QED BY <3>1, <3>2
  <2>4. \A s \in Streams : Clean(s)'
    BY <1>8, <2>3, CleanLoop DEF Looked, streams, Forgotten
  <2>. QED BY <2>1, <2>4, NothingPopped DEF Forgotten
<1>9. CASE ClearedAgain
  <2>1. control'.at = "popFirst"
    BY <1>1, <1>9 DEF ClearedAgain, ControlAt, Controls
  <2>2. \A s \in Streams : ~StillToSweep(s)
    BY <1>9 DEF ClearedAgain, ControlAt, StillToSweep, ToSweep, InLeft
  <2>3. \A s \in Streams : Clean(s)'
    BY <1>9, <2>2, CleanLoop DEF ClearedAgain, streams, Forgotten
  <2>. QED BY <2>1, <2>3, NothingPopped DEF Forgotten
<1>10. CASE Send
  <2>1. control'.at = "done"
    BY <1>1, <1>10 DEF Send, ControlAt, Controls
  <2>2. \A s \in Streams : ~StillToSweep(s)
    BY <1>10 DEF Send, ControlAt, StillToSweep, ToSweep
  <2>3. \A s \in Streams : Clean(s)'
    BY <1>10, <2>2, CleanLoop DEF Send, streams, Forgotten
  <2>. QED BY <2>1, <2>3, NothingPopped DEF Forgotten
<1>. QED BY <1>2, <1>3, <1>4, <1>5, <1>6, <1>7, <1>8, <1>9, <1>10,
            ForgottenPopFirst, ForgottenPopRes DEF Control

\* A cycle that is over has swept what it could find, and every other thread
\* has put down what it held.
LEMMA ForgottenTick ==
  ASSUME IInv, Forgotten, Tick
  PROVE  Forgotten'
<1>1. now \in Int /\ pause_until \in Int /\ control \in Controls
  BY HandlerAssumption DEF IInv, TypeOK
<1>2. control'.at = "idle"
  BY <1>1 DEF Tick, Controls
<1>3. /\ now' = now + 1 /\ control.at = "done"
      /\ UNCHANGED <<pause_until, receiver, interp, raw_queue, action_queue>>
      /\ \A s \in Streams : receiver[s].at = "rest" /\ interp[s].at = "rest"
  BY DEF Tick, streams
<1>4. ASSUME NEW s \in Streams PROVE Clean(s)'
  <2>1. ~StillToSweep(s) /\ HoldsNoOldChunk(s)' /\ HoldsNoOldSegment(s)'
    BY <1>3 DEF StillToSweep, ToSweep, HoldsNoOldChunk, HoldsNoOldSegment,
       FreshHeld
  <2>2. /\ QueuesNoOldWaypoint(s)' = QueuesNoOldWaypoint(s)
        /\ QueuesNoOldAction(s)' = QueuesNoOldAction(s)
    BY <1>3 DEF QueuesNoOldWaypoint, QueuesNoOldAction
  <2>3. StillToSweep(s)'
    BY <1>2 DEF StillToSweep, ToSweep
  <2>. DEFINE n == now'
              p == pause_until'
  <2>4. /\ n >= p - 1 => now >= pause_until - 2
        /\ n >= p => now >= pause_until - 1
    BY <1>1, <1>3
  <2>. HIDE DEF n, p
  <2>5. /\ n >= p - 1 => QueuesNoOldWaypoint(s)'
        /\ n >= p => QueuesNoOldAction(s)'
    BY <1>4, <2>1, <2>2, <2>4, Zenon DEF Forgotten, Clean
  <2>. QED BY <2>1, <2>3, <2>5, Zenon DEF Clean, n, p
<1>. QED BY <1>2, <1>4, NothingPopped DEF Forgotten

LEMMA ForgottenStep ==
  ASSUME IInv, ResOfCr, Forgotten, [Next]_vars, DefaultPause >= 3
  PROVE  Forgotten'
<1>1. CASE SendPending \/ UNCHANGED vars
  <2>1. UNCHANGED <<now, pause_until, control, left, receiver, interp, raw_queue,
                    action_queue>>
    BY <1>1 DEF SendPending, vars, streams
  <2>2. \A s \in Streams : Clean(s)'
    BY <2>1, CleanUntouched DEF StreamParts, LoopParts, Forgotten
  <2>. QED BY <2>1, <2>2, PoppedUntouched DEF Forgotten
<1>. QED BY <1>1, ForgottenStream, ForgottenControl, ForgottenTick DEF Next

LEMMA ForgottenInit == Init => Forgotten
<1>. SUFFICES ASSUME Init PROVE Forgotten
  OBVIOUS
<1>1. control.at = "idle" /\ now = 0 /\ pause_until = 0
  BY DEF Init
<1>2. ASSUME NEW s \in Streams PROVE Clean(s)
  <2>1. raw_queue[s] = <<>> /\ action_queue[s] = <<>>
        /\ receiver[s].at = "rest" /\ interp[s].at = "rest"
    BY DEF Init, Rest
  <2>. QED BY <1>1, <2>1, FreshQueues DEF Clean, HoldsNoOldChunk,
       HoldsNoOldSegment, QueuesNoOldWaypoint, QueuesNoOldAction, FreshHeld
<1>. QED BY <1>1, <1>2 DEF Forgotten, PoppedFresh

\* When a pause is over nothing from before it is played, whatever a receive
\* or an interpolation thread held when it began, and whichever of the three
\* threads that pause was the last to do so.  The pause lasts three cycles or
\* more; default_pause is the time a whole chunk takes to play.
THEOREM NothingOldReturns ==
  ASSUME DefaultPause >= 3
  PROVE  Spec => []NothingOldAfterPause
<1>1. Forgotten /\ IInv => NothingOldAfterPause
  <2>1. IInv => now \in Int /\ pause_until \in Int
    BY HandlerAssumption DEF IInv, TypeOK
  <2>. QED BY <2>1 DEF NothingOldAfterPause, Forgotten, PoppedFresh, Paused
<1>2. IInv /\ ResOfCr /\ Forgotten /\ [Next]_vars => Forgotten'
  BY ForgottenStep
<1>. QED BY Invariant, ForgottenInit, <1>1, <1>2, PTL DEF Spec
=============================================================================
