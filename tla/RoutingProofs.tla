---------------------------- MODULE RoutingProofs ----------------------------
(***************************************************************************)
(* Proofs about Routing, for every two lists of fields the configurations  *)
(* may give, every timeout and every bound, and about the commands that    *)
(* two of the fields carry (CommandPipeline, at the end).                  *)
(*                                                                         *)
(* The codec comes first: encode() and decode() are loops over the list,   *)
(* and what they do to any state is shown by induction over the position   *)
(* in it (DecodeUndoesEncode).  Then the two invariants.  Clean needs      *)
(* nothing of the lists: whatever they say, a datagram that is decoded is  *)
(* as long as the fields it is decoded into, so it is no stray.  Honest    *)
(* needs lists that agree: then every datagram but the strays is what the  *)
(* peer encoded of one of its cycles, and so is what is read from it.      *)
(***************************************************************************)
EXTENDS Routing, CommandPipeline, WellFoundedInduction, TLAPS

-----------------------------------------------------------------------------
(* Induction over the position in a list, by its least counterexample, and  *)
(* the loops of the codec as functions that satisfy their recursion.        *)

\* A set of naturals has a least member.
LEMMA Smallest ==
  ASSUME NEW S \in SUBSET Nat, S # {}
  PROVE  \E m \in S : \A k \in S : m <= k
<1>. DEFINE R == OpToRel(<, Nat)
<1>1. IsWellFoundedOn(R, Nat)
  BY NatLessThanWellFounded
<1>. HIDE DEF R
<1>2. PICK m \in S : \A k \in S : ~ (<<k, m>> \in R)
  BY <1>1, WFMin
<1>3. ASSUME NEW k \in S, k < m PROVE <<k, m>> \in R
  BY <1>3 DEF R, OpToRel
<1>4. \A k \in S : ~ (k < m)
  BY <1>2, <1>3
<1>. QED BY <1>4

\* What holds at 0 and goes from each position to the next holds up to n.
LEMMA Induction ==
  ASSUME NEW n \in Nat, NEW S, 0 \in S, \A k \in 1..n : k - 1 \in S => k \in S
  PROVE  0..n \subseteq S
<1>. DEFINE Rest == (0..n) \ S
<1>. SUFFICES ASSUME Rest # {} PROVE FALSE
  OBVIOUS
<1>1. Rest \in SUBSET Nat
  OBVIOUS
<1>2. PICK m \in Rest : \A k \in Rest : m <= k
  <2>. HIDE DEF Rest
  <2>. QED BY <1>1, Smallest
<1>3. m \in 1..n
  BY <1>2
<1>4. m - 1 \in 0..n /\ m - 1 \in S
  BY <1>2, <1>3
<1>. QED BY <1>2, <1>3, <1>4

\* A loop from 1 to n whose body is a function of the index and of what the
\* iteration before left.
IsLoop(f, n, T, base, body) ==
  /\ f \in [0..n -> T]
  /\ f[0] = base /\ \A k \in 1..n : f[k] = body[k][f[k - 1]]

\* Every loop has run.
LEMMA Loop ==
  ASSUME NEW n \in Nat, NEW T, NEW base \in T, NEW body \in [1..n -> [T -> T]]
  PROVE  \E f : IsLoop(f, n, T, base, body)
<1>. DEFINE Upto(m) == \E f \in [0..m -> T] :
                         f[0] = base /\ \A k \in 1..m : f[k] = body[k][f[k - 1]]
            S == {m \in 0..n : Upto(m)}
<1>1. Upto(0)
  <2>. DEFINE f == [k \in 0..0 |-> base]
  <2>1. f \in [0..0 -> T] /\ f[0] = base /\ 1..0 = {}
    OBVIOUS
  <2>. QED BY <2>1
<1>2. ASSUME NEW m \in 1..n, Upto(m - 1) PROVE Upto(m)
  <2>1. PICK f \in [0..(m - 1) -> T] :
          f[0] = base /\ \A k \in 1..(m - 1) : f[k] = body[k][f[k - 1]]
    BY <1>2
  <2>. DEFINE next == body[m][f[m - 1]]
              g == [k \in 0..m |-> IF k = m THEN next ELSE f[k]]
  <2>2. f[m - 1] \in T
    BY <2>1
  <2>3. next \in T
    BY <2>2
  <2>4. \A k \in 0..m : k = m \/ k \in 0..(m - 1)
    OBVIOUS
  <2>. HIDE DEF next
  <2>5. g \in [0..m -> T]
    BY <2>1, <2>3, <2>4
  <2>6. g[0] = base
    BY <2>1
  <2>7. ASSUME NEW k \in 1..m PROVE g[k] = body[k][g[k - 1]]
    <3>1. g[k - 1] = f[k - 1]
      OBVIOUS
    <3>2. CASE k = m
      BY <3>1, <3>2 DEF next
    <3>3. CASE k # m
      <4>1. k \in 1..(m - 1)
        BY <3>3
      <4>. QED BY <2>1, <3>1, <3>3, <4>1
    <3>. QED BY <3>2, <3>3
  <2>. HIDE DEF g
  <2>. QED BY <2>5, <2>6, <2>7
<1>. HIDE DEF Upto
<1>3. 0..n \subseteq S
  <2>1. 0 \in S /\ \A k \in 1..n : k - 1 \in S => k \in S
    BY <1>1, <1>2
  <2>. HIDE DEF S
  <2>. QED BY <2>1, Induction
<1>4. Upto(n)
  BY <1>3
<1>. QED BY <1>4 DEF Upto, IsLoop

-----------------------------------------------------------------------------
(* The codec.                                                             *)

\* A state that is a sequence of the words W in every field, of the field's size.
States(W) == {d \in [Field -> Seq(W)] : \A f \in Field : Len(d[f]) = Size[f]}

\* The fields and their sizes.
LEMMA Fields ==
  /\ Field = {"leader_jp", "leader_jv", "follower_jp", "follower_jv",
              "gripper_cmd", "timestamp"}
  /\ Size \in [Field -> Nat] /\ \A f \in Field : Size[f] \in {1, 2}
  /\ Size["leader_jp"] = 2 /\ Size["leader_jv"] = 2
  /\ Size["follower_jp"] = 2 /\ Size["follower_jv"] = 2
  /\ Size["timestamp"] = 1 /\ Size["gripper_cmd"] = 1
<1>1. Field = {"leader_jp", "leader_jv", "follower_jp", "follower_jv",
              "gripper_cmd", "timestamp"}
  BY DEF Field, Size
<1>2. /\ Size["leader_jp"] = 2 /\ Size["leader_jv"] = 2
      /\ Size["follower_jp"] = 2 /\ Size["follower_jv"] = 2
      /\ Size["timestamp"] = 1 /\ Size["gripper_cmd"] = 1
  BY DEF Size
<1>3. \A f \in Field : Size[f] \in {1, 2}
  BY <1>1, <1>2
<1>4. Size = [f \in Field |-> Size[f]]
  BY DEF Field, Size
<1>5. Size \in [Field -> Nat]
  BY <1>3, <1>4
<1>. QED BY <1>1, <1>2, <1>3, <1>5

\* The offsets of the fields in a packet.
IsOffset(at, names) ==
  /\ at \in [0..Len(names) -> Nat]
  /\ at[0] = 0
  /\ \A k \in 1..Len(names) : at[k] = at[k - 1] + Size[names[k]]
  /\ at[Len(names)] = EncodedSize(names)

\* encodedSize() is the last of the offsets.
LEMMA Offsets ==
  ASSUME NEW names \in Seq(Field)
  PROVE  \E at : IsOffset(at, names)
<1>. DEFINE n == Len(names)
            P(g) == g = [k \in 0..n |->
                           IF k = 0 THEN 0 ELSE g[k - 1] + Size[names[k]]]
            body == [k \in 1..n |-> [x \in Nat |-> x + Size[names[k]]]]
<1>1. n \in Nat /\ \A k \in 1..n : names[k] \in Field /\ Size[names[k]] \in Nat
  BY Fields
<1>2. body \in [1..n -> [Nat -> Nat]]
  BY <1>1
<1>. HIDE DEF n
<1>3. PICK f : IsLoop(f, n, Nat, 0, body)
  <2>. HIDE DEF body
  <2>. QED BY <1>1, <1>2, Loop
<1>4. \A k \in 1..n : k - 1 \in 0..n /\ f[k - 1] \in Nat
  BY <1>1, <1>3 DEF IsLoop
<1>5. \A k \in 1..n : f[k] = f[k - 1] + Size[names[k]]
  BY <1>3, <1>4 DEF IsLoop
<1>6. P(f)
  <2>1. \A k \in 0..n : k = 0 \/ k \in 1..n
    BY <1>1
  <2>. QED BY <1>1, <1>3, <1>5, <2>1 DEF IsLoop
<1>. DEFINE at == CHOOSE g : P(g)
<1>7. EncodedSize(names) = at[n]
  BY DEF EncodedSize, n
<1>. HIDE DEF P
<1>8. P(at)
  BY <1>6, Zenon
<1>. HIDE DEF at
<1>9. at = [k \in 0..n |-> IF k = 0 THEN 0 ELSE at[k - 1] + Size[names[k]]]
  BY <1>8 DEF P
<1>10. 0 \in 0..n /\ \A k \in 1..n : k \in 0..n /\ k # 0
  BY <1>1
<1>11. at[0] = 0 /\ \A k \in 1..n : at[k] = at[k - 1] + Size[names[k]]
  BY <1>9, <1>10
<1>12. \A k \in 0..n : at[k] \in Nat
  <2>. DEFINE S == {k \in 0..n : at[k] \in Nat}
  <2>1. 0 \in S
    BY <1>10, <1>11
  <2>2. ASSUME NEW k \in 1..n, k - 1 \in S PROVE k \in S
    <3>1. at[k - 1] \in Nat /\ Size[names[k]] \in Nat
      BY <1>1, <2>2
    <3>. QED BY <1>10, <1>11, <3>1
  <2>. HIDE DEF S
  <2>3. 0..n \subseteq S
    BY <1>1, <2>1, <2>2, Induction
  <2>. QED BY <2>3 DEF S
<1>13. at \in [0..n -> Nat]
  BY <1>9, <1>12
<1>. QED BY <1>7, <1>11, <1>13 DEF IsOffset, n

\* What encode() has written after so many fields.
IsPacking(out, names, d, W) ==
  /\ out \in [0..Len(names) -> Seq(W)]
  /\ out[0] = <<>>
  /\ \A k \in 1..Len(names) : out[k] = out[k - 1] \o d[names[k]]
  /\ out[Len(names)] = Encode(names, d)

\* encode() is its loop.
LEMMA Packings ==
  ASSUME NEW names \in Seq(Field), NEW W, NEW d \in States(W)
  PROVE  \E out : IsPacking(out, names, d, W)
<1>. DEFINE n == Len(names)
            P(g) == g = [k \in 0..n |->
                           IF k = 0 THEN <<>> ELSE g[k - 1] \o d[names[k]]]
            body == [k \in 1..n |-> [x \in Seq(W) |-> x \o d[names[k]]]]
<1>1. n \in Nat /\ \A k \in 1..n : names[k] \in Field /\ d[names[k]] \in Seq(W)
  BY DEF States
<1>2. body \in [1..n -> [Seq(W) -> Seq(W)]]
  BY <1>1
<1>. HIDE DEF n
<1>3. PICK f : IsLoop(f, n, Seq(W), <<>>, body)
  <2>. HIDE DEF body
  <2>1. <<>> \in Seq(W)
    OBVIOUS
  <2>. QED BY <1>1, <1>2, <2>1, Loop
<1>4. \A k \in 1..n : k - 1 \in 0..n /\ f[k - 1] \in Seq(W)
  BY <1>1, <1>3 DEF IsLoop
<1>5. \A k \in 1..n : f[k] = f[k - 1] \o d[names[k]]
  BY <1>3, <1>4 DEF IsLoop
<1>6. P(f)
  <2>1. \A k \in 0..n : k = 0 \/ k \in 1..n
    BY <1>1
  <2>. QED BY <1>1, <1>3, <1>5, <2>1 DEF IsLoop
<1>. DEFINE out == CHOOSE g : P(g)
<1>7. Encode(names, d) = out[n]
  BY DEF Encode, n
<1>. HIDE DEF P
<1>8. P(out)
  BY <1>6, Zenon
<1>. HIDE DEF out
<1>9. out = [k \in 0..n |-> IF k = 0 THEN <<>> ELSE out[k - 1] \o d[names[k]]]
  BY <1>8 DEF P
<1>10. 0 \in 0..n /\ \A k \in 1..n : k \in 0..n /\ k # 0
  BY <1>1
<1>11. out[0] = <<>> /\ \A k \in 1..n : out[k] = out[k - 1] \o d[names[k]]
  BY <1>9, <1>10
<1>12. \A k \in 0..n : out[k] \in Seq(W)
  <2>. DEFINE S == {k \in 0..n : out[k] \in Seq(W)}
  <2>1. <<>> \in Seq(W)
    OBVIOUS
  <2>2. 0 \in S
    BY <2>1, <1>10, <1>11, Zenon
  <2>3. ASSUME NEW k \in 1..n, k - 1 \in S PROVE k \in S
    <3>1. out[k - 1] \in Seq(W) /\ d[names[k]] \in Seq(W)
      BY <1>1, <2>3
    <3>2. out[k - 1] \o d[names[k]] \in Seq(W)
      BY <3>1
    <3>. QED BY <1>10, <1>11, <3>2, Zenon
  <2>. HIDE DEF S
  <2>4. 0..n \subseteq S
    BY <1>1, <2>2, <2>3, Induction
  <2>. QED BY <2>4 DEF S
<1>13. out \in [0..n -> Seq(W)]
  BY <1>9, <1>12
<1>. QED BY <1>7, <1>11, <1>13 DEF IsPacking, n

\* A state being decoded.
Reads(W) == [data : States(W), offset : Nat, ok : BOOLEAN]

\* The loop body of decode() leaves a state and an offset.
LEMMA CopyReads ==
  ASSUME NEW W, NEW x \in Reads(W), NEW f \in Field, NEW bytes \in Seq(W)
  PROVE  Copy(x, f, bytes) \in Reads(W)
<1>1. /\ x.data \in States(W) /\ x.offset \in Nat /\ x.ok \in BOOLEAN
      /\ Size[f] \in Nat
  BY Fields DEF Reads
<1>2. CASE ~x.ok \/ x.offset + Size[f] > Len(bytes)
  <2>1. [x EXCEPT !.ok = FALSE] \in Reads(W)
    BY DEF Reads
  <2>. QED BY <1>2, <2>1 DEF Copy
<1>3. CASE x.ok /\ x.offset + Size[f] <= Len(bytes)
  <2>. DEFINE word == SubSeq(bytes, x.offset + 1, x.offset + Size[f])
  <2>1. word \in Seq(W) /\ Len(word) = Size[f]
    BY <1>1, <1>3
  <2>. HIDE DEF word
  <2>2. [x.data EXCEPT ![f] = word] \in States(W)
    BY <1>1, <2>1 DEF States
  <2>3. ~ (~x.ok \/ x.offset + Size[f] > Len(bytes))
    BY <1>1, <1>3
  <2>4. Copy(x, f, bytes) = [data |-> [x.data EXCEPT ![f] = word],
                             offset |-> x.offset + Size[f], ok |-> TRUE]
    BY <2>3 DEF Copy, word
  <2>5. x.offset + Size[f] \in Nat
    BY <1>1
  <2>. QED BY <2>2, <2>4, <2>5 DEF Reads
<1>. QED BY <1>1, <1>2, <1>3

\* What decode() has done after so many fields.
IsReading(done, names, bytes, d, W) ==
  /\ done \in [0..Len(names) -> Reads(W)]
  /\ done[0] = [data |-> d, offset |-> 0, ok |-> TRUE]
  /\ \A k \in 1..Len(names) : done[k] = Copy(done[k - 1], names[k], bytes)
  /\ Decode(names, bytes, d) =
       [data |-> done[Len(names)].data,
        ok |-> done[Len(names)].ok /\ done[Len(names)].offset = Len(bytes)]

\* decode() is its loop.
LEMMA Readings ==
  ASSUME NEW names \in Seq(Field), NEW W, NEW bytes \in Seq(W), NEW d \in States(W)
  PROVE  \E done : IsReading(done, names, bytes, d, W)
<1>. DEFINE n == Len(names)
            start == [data |-> d, offset |-> 0, ok |-> TRUE]
            P(g) == g = [k \in 0..n |->
                           IF k = 0 THEN start ELSE Copy(g[k - 1], names[k], bytes)]
            body == [k \in 1..n |-> [x \in Reads(W) |-> Copy(x, names[k], bytes)]]
<1>1. n \in Nat /\ start \in Reads(W)
      /\ \A k \in 1..n : /\ names[k] \in Field
                         /\ \A x \in Reads(W) : Copy(x, names[k], bytes) \in Reads(W)
  <2>1. start \in Reads(W)
    BY DEF Reads
  <2>. QED BY <2>1, CopyReads
<1>2. body \in [1..n -> [Reads(W) -> Reads(W)]]
  BY <1>1
<1>. HIDE DEF n
<1>3. PICK f : IsLoop(f, n, Reads(W), start, body)
  <2>. HIDE DEF body, start
  <2>. QED BY <1>1, <1>2, Loop
<1>4. \A k \in 1..n : k - 1 \in 0..n /\ f[k - 1] \in Reads(W)
  BY <1>1, <1>3 DEF IsLoop
<1>5. \A k \in 1..n : f[k] = Copy(f[k - 1], names[k], bytes)
  BY <1>3, <1>4 DEF IsLoop
<1>6. P(f)
  <2>. HIDE DEF start
  <2>1. \A k \in 0..n : k = 0 \/ k \in 1..n
    BY <1>1
  <2>. QED BY <1>1, <1>3, <1>5, <2>1 DEF IsLoop
<1>. DEFINE done == CHOOSE g : P(g)
            end == done[n]
<1>7. Decode(names, bytes, d) =
        [data |-> end.data, ok |-> end.ok /\ end.offset = Len(bytes)]
  BY DEF Decode, n
<1>. HIDE DEF P
<1>8. P(done)
  BY <1>6, Zenon
<1>. HIDE DEF done, start
<1>9. done = [k \in 0..n |-> IF k = 0 THEN start
                             ELSE Copy(done[k - 1], names[k], bytes)]
  BY <1>8 DEF P
<1>10. 0 \in 0..n /\ \A k \in 1..n : k \in 0..n /\ k # 0
  BY <1>1
<1>11. /\ done[0] = start
       /\ \A k \in 1..n : done[k] = Copy(done[k - 1], names[k], bytes)
  BY <1>9, <1>10
<1>12. \A k \in 0..n : done[k] \in Reads(W)
  <2>. DEFINE S == {k \in 0..n : done[k] \in Reads(W)}
  <2>1. 0 \in S
    BY <1>1, <1>10, <1>11
  <2>2. ASSUME NEW k \in 1..n, k - 1 \in S PROVE k \in S
    <3>1. done[k - 1] \in Reads(W)
      BY <2>2
    <3>. QED BY <1>1, <1>10, <1>11, <3>1
  <2>. HIDE DEF S
  <2>3. 0..n \subseteq S
    BY <1>1, <2>1, <2>2, Induction
  <2>. QED BY <2>3 DEF S
<1>13. done \in [0..n -> Reads(W)]
  BY <1>9, <1>12
<1>. QED BY <1>7, <1>11, <1>13 DEF IsReading, n, start

\* No field starts before the one in front of it.
LEMMA OffsetsGrow ==
  ASSUME NEW names \in Seq(Field), NEW at, IsOffset(at, names)
  PROVE  \A k \in 0..Len(names) : \A i \in 0..k : at[i] <= at[k]
<1>. DEFINE n == Len(names)
            S == {k \in 0..n : \A i \in 0..k : at[i] <= at[k]}
<1>1. /\ n \in Nat /\ at \in [0..n -> Nat]
      /\ \A k \in 1..n : at[k] = at[k - 1] + Size[names[k]]
      /\ \A k \in 1..n : Size[names[k]] \in Nat
  BY Fields DEF IsOffset
<1>. HIDE DEF n
<1>2. 0 \in S
  BY <1>1
<1>3. ASSUME NEW k \in 1..n, k - 1 \in S PROVE k \in S
  <2>. DEFINE a == at[k - 1]
              b == at[k]
              s == Size[names[k]]
  <2>1. k \in 0..n /\ k - 1 \in 0..n
    BY <1>1
  <2>2. a \in Nat /\ b \in Nat /\ s \in Nat
    BY <1>1, <2>1
  <2>3. b = a + s
    BY <1>1
  <2>. HIDE DEF a, b, s
  <2>4. a <= b
    BY <2>2, <2>3
  <2>5. /\ k \in 0..n /\ at[k - 1] \in Nat /\ at[k] \in Nat
        /\ at[k - 1] <= at[k]
    BY <2>1, <2>2, <2>4 DEF a, b
  <2>6. ASSUME NEW i \in 0..k PROVE at[i] <= at[k]
    <3>1. CASE i = k
      BY <2>5, <3>1
    <3>2. CASE i # k
      <4>1. i \in 0..(k - 1) /\ at[i] \in Nat
        BY <1>1, <3>2
      <4>2. at[i] <= at[k - 1]
        BY <1>3, <4>1
      <4>. QED BY <2>5, <4>1, <4>2
    <3>. QED BY <3>1, <3>2
  <2>. QED BY <2>5, <2>6
<1>. HIDE DEF S
<1>4. 0..n \subseteq S
  BY <1>1, <1>2, <1>3, Induction
<1>. QED BY <1>4 DEF S, n

\* The words of two sequences put together.
LEMMA Cuts ==
  ASSUME NEW W, NEW q \in Seq(W), NEW r \in Seq(W)
  PROVE  /\ \A a \in Nat, b \in Nat :
              b <= Len(q) => SubSeq(q \o r, a + 1, b) = SubSeq(q, a + 1, b)
         /\ SubSeq(q \o r, Len(q) + 1, Len(q) + Len(r)) = r
         /\ SubSeq(q, 1, Len(q)) = q
OBVIOUS

\* A packet has the fields one by one, each at its offset.
LEMMA PackedInOrder ==
  ASSUME NEW names \in Seq(Field), NEW at, IsOffset(at, names),
         NEW W, NEW d \in States(W), NEW out, IsPacking(out, names, d, W)
  PROVE  \A k \in 0..Len(names) :
           /\ Len(out[k]) = at[k]
           /\ \A i \in 1..k :
                SubSeq(out[k], at[i - 1] + 1, at[i - 1] + Size[names[i]])
                  = d[names[i]]
<1>. DEFINE n == Len(names)
            In(k, i) == SubSeq(out[k], at[i - 1] + 1, at[i - 1] + Size[names[i]])
            S == {k \in 0..n : /\ Len(out[k]) = at[k]
                               /\ \A i \in 1..k : In(k, i) = d[names[i]]}
<1>1. /\ at \in [0..n -> Nat] /\ at[0] = 0
      /\ \A k \in 1..n : at[k] = at[k - 1] + Size[names[k]]
  BY DEF IsOffset
<1>2. /\ out \in [0..n -> Seq(W)] /\ out[0] = <<>>
      /\ \A k \in 1..n : out[k] = out[k - 1] \o d[names[k]]
  BY DEF IsPacking
<1>3. n \in Nat
  OBVIOUS
<1>4. \A k \in 1..n : /\ names[k] \in Field /\ Size[names[k]] \in Nat
                      /\ d[names[k]] \in Seq(W)
                      /\ Len(d[names[k]]) = Size[names[k]]
  BY Fields DEF States
<1>5. \A k \in 0..n : \A i \in 0..k : at[i] <= at[k]
  BY OffsetsGrow
<1>. HIDE DEF n
<1>6. 0 \in S
  <2>1. Len(out[0]) = 0 /\ 1..0 = {} /\ 0 \in 0..n
    BY <1>2, <1>3
  <2>. QED BY <1>1, <2>1
<1>7. ASSUME NEW k \in 1..n, k - 1 \in S PROVE k \in S
  <2>. DEFINE q == out[k - 1]
              r == d[names[k]]
              a == at[k - 1]
              s == Size[names[k]]
  <2>1. k \in 0..n /\ k - 1 \in 0..n
    BY <1>3
  <2>2. a \in Nat /\ s \in Nat /\ at[k] = a + s
    BY <1>1, <1>4, <2>1
  <2>3. q \in Seq(W) /\ r \in Seq(W) /\ out[k] = q \o r
    BY <1>2, <1>4, <2>1
  <2>4. Len(q) = a /\ Len(r) = s
    BY <1>4, <1>7
  <2>5. \A i \in 1..(k - 1) : In(k - 1, i) = d[names[i]]
    BY <1>7
  <2>. HIDE DEF q, r, a, s, In
  <2>6. Len(out[k]) = at[k]
    <3>1. Len(q \o r) = Len(q) + Len(r)
      BY <2>3
    <3>. QED BY <2>2, <2>3, <2>4, <3>1, Zenon
  <2>7. ASSUME NEW i \in 1..k PROVE In(k, i) = d[names[i]]
    <3>1. CASE i = k
      <4>1. In(k, i) = SubSeq(out[k], a + 1, a + s)
        BY <3>1 DEF In, a, s
      <4>2. SubSeq(q \o r, Len(q) + 1, Len(q) + Len(r)) = r
        BY <2>3, Cuts
      <4>3. SubSeq(out[k], a + 1, a + s) = r
        BY <2>3, <2>4, <4>2
      <4>. QED BY <3>1, <4>1, <4>3 DEF r
    <3>2. CASE i # k
      <4>1. /\ i \in 1..(k - 1) /\ i \in 1..n /\ i - 1 \in 0..n
            /\ i \in 0..(k - 1)
        BY <1>3, <3>2
      <4>. DEFINE e == at[i - 1]
                  f == at[i]
      <4>2. f = e + Size[names[i]]
        BY <1>1, <4>1
      <4>3. e \in Nat /\ f \in Nat
        BY <1>1, <4>1
      <4>4. at[i] <= at[k - 1]
        BY <1>5, <2>1, <4>1
      <4>5. In(k - 1, i) = SubSeq(q, e + 1, f)
        BY <4>2 DEF In, q
      <4>6. In(k, i) = SubSeq(q \o r, e + 1, f)
        BY <2>3, <4>2 DEF In
      <4>7. f <= Len(q)
        BY <2>4, <4>4 DEF a
      <4>. HIDE DEF e, f
      <4>8. SubSeq(q \o r, e + 1, f) = SubSeq(q, e + 1, f)
        BY <2>3, <4>3, <4>7, Cuts
      <4>. QED BY <2>5, <4>1, <4>5, <4>6, <4>8
    <3>. QED BY <3>1, <3>2
  <2>. QED BY <2>1, <2>6, <2>7
<1>. HIDE DEF S
<1>8. 0..n \subseteq S
  BY <1>3, <1>6, <1>7, Induction
<1>. QED BY <1>8 DEF S, n

\* encode() writes as many words as encodedSize() says.
LEMMA EncodedWhole ==
  ASSUME NEW names \in Seq(Field), NEW W, NEW d \in States(W)
  PROVE  /\ Encode(names, d) \in Seq(W)
         /\ Len(Encode(names, d)) = EncodedSize(names)
<1>1. PICK at : IsOffset(at, names)
  BY Offsets
<1>2. PICK out : IsPacking(out, names, d, W)
  BY Packings
<1>3. Len(names) \in Nat /\ Len(names) \in 0..Len(names)
  OBVIOUS
<1>4. Len(out[Len(names)]) = at[Len(names)]
  BY <1>1, <1>2, <1>3, PackedInOrder
<1>. QED BY <1>1, <1>2, <1>3, <1>4 DEF IsOffset, IsPacking

\* A packet of the expected length is decoded to its end.
LEMMA ReadToTheEnd ==
  ASSUME NEW names \in Seq(Field), NEW W, NEW bytes \in Seq(W),
         Len(bytes) = EncodedSize(names), NEW d \in States(W),
         NEW at, IsOffset(at, names),
         NEW done, IsReading(done, names, bytes, d, W)
  PROVE  \A k \in 0..Len(names) : done[k].ok /\ done[k].offset = at[k]
<1>. DEFINE n == Len(names)
            S == {k \in 0..n : done[k].ok /\ done[k].offset = at[k]}
<1>1. /\ n \in Nat /\ at \in [0..n -> Nat] /\ done \in [0..n -> Reads(W)]
      /\ at[0] = 0 /\ done[0] = [data |-> d, offset |-> 0, ok |-> TRUE]
      /\ \A k \in 1..n : /\ at[k] = at[k - 1] + Size[names[k]]
                         /\ done[k] = Copy(done[k - 1], names[k], bytes)
      /\ at[n] = Len(bytes)
  <2>1. n \in Nat
    OBVIOUS
  <2>2. /\ at \in [0..n -> Nat] /\ at[0] = 0 /\ at[n] = EncodedSize(names)
        /\ \A k \in 1..n : at[k] = at[k - 1] + Size[names[k]]
    BY Zenon DEF IsOffset
  <2>3. /\ done \in [0..n -> Reads(W)]
        /\ done[0] = [data |-> d, offset |-> 0, ok |-> TRUE]
        /\ \A k \in 1..n : done[k] = Copy(done[k - 1], names[k], bytes)
    BY Zenon DEF IsReading
  <2>. QED BY <2>1, <2>2, <2>3, Zenon
<1>2. \A k \in 0..n : at[k] <= at[n]
  <2>1. n \in 0..n
    OBVIOUS
  <2>. QED BY <2>1, OffsetsGrow
<1>. HIDE DEF n
<1>3. 0 \in S
  BY <1>1
<1>4. ASSUME NEW k \in 1..n, k - 1 \in S PROVE k \in S
  <2>1. /\ k \in 0..n /\ done[k - 1].ok /\ done[k - 1].offset = at[k - 1]
        /\ at[k] = at[k - 1] + Size[names[k]] /\ at[k] \in Nat
        /\ done[k] = Copy(done[k - 1], names[k], bytes)
    BY <1>1, <1>4
  <2>2. ~ (~done[k - 1].ok \/ done[k - 1].offset + Size[names[k]] > Len(bytes))
    <3>1. at[k] <= Len(bytes)
      BY <1>1, <1>2, <2>1
    <3>2. Len(bytes) \in Nat
      OBVIOUS
    <3>. QED BY <2>1, <3>1, <3>2
  <2>3. done[k].ok /\ done[k].offset = at[k]
    BY <2>1, <2>2 DEF Copy
  <2>. QED BY <2>1, <2>3
<1>. HIDE DEF S
<1>5. 0..n \subseteq S
  BY <1>1, <1>3, <1>4, Induction
<1>. QED BY <1>5 DEF S, n

\* Its fields all have their sizes.
LEMMA DecodedWhole ==
  ASSUME NEW names \in Seq(Field), NEW W, NEW bytes \in Seq(W),
         Len(bytes) = EncodedSize(names), NEW d \in States(W)
  PROVE  /\ Decode(names, bytes, d).ok = TRUE
         /\ Decode(names, bytes, d).data \in States(W)
<1>1. PICK at : IsOffset(at, names)
  BY Offsets
<1>2. PICK done : IsReading(done, names, bytes, d, W)
  BY Readings
<1>3. Len(names) \in Nat /\ Len(names) \in 0..Len(names)
  OBVIOUS
<1>4. done[Len(names)].ok /\ done[Len(names)].offset = at[Len(names)]
  BY <1>1, <1>2, <1>3, ReadToTheEnd
<1>5. done[Len(names)] \in Reads(W)
  BY <1>2, <1>3 DEF IsReading
<1>. QED BY <1>1, <1>2, <1>4, <1>5 DEF IsOffset, IsReading, Reads

\* The state d with the first k fields of the list from st.
Named(names, k) == {names[i] : i \in 1..k}
Merged(names, k, st, d) ==
  [f \in Field |-> IF f \in Named(names, k) THEN st[f] ELSE d[f]]

\* decode() undoes encode(), for every list of fields, a name twice in it or
\* not, and leaves the fields that are not in the list as they were.
THEOREM DecodeUndoesEncode ==
  ASSUME NEW names \in Seq(Field), NEW W, NEW st \in States(W), NEW d \in States(W)
  PROVE  Decode(names, Encode(names, st), d) =
           [data |-> Merged(names, Len(names), st, d), ok |-> TRUE]
<1>. DEFINE n == Len(names)
            bytes == Encode(names, st)
<1>1. bytes \in Seq(W) /\ Len(bytes) = EncodedSize(names)
  BY EncodedWhole
<1>2. PICK at : IsOffset(at, names)
  BY Offsets
<1>3. PICK out : IsPacking(out, names, st, W)
  BY Packings
<1>4. n \in Nat /\ n \in 0..n
  OBVIOUS
<1>5. \A i \in 1..n :
        SubSeq(bytes, at[i - 1] + 1, at[i - 1] + Size[names[i]]) = st[names[i]]
  <2>1. bytes = out[n]
    BY <1>3 DEF IsPacking
  <2>. QED BY <1>2, <1>3, <1>4, <2>1, PackedInOrder
<1>. HIDE DEF bytes
<1>6. PICK done : IsReading(done, names, bytes, d, W)
  BY <1>1, Readings
<1>7. \A k \in 0..n : done[k].ok /\ done[k].offset = at[k]
  BY <1>1, <1>2, <1>6, ReadToTheEnd
<1>. DEFINE S == {k \in 0..n : done[k].data = Merged(names, k, st, d)}
<1>8. d = [f \in Field |-> d[f]]
  BY DEF States
<1>9. 0 \in S
  <2>1. done[0].data = d
    BY <1>6 DEF IsReading
  <2>2. Named(names, 0) = {}
    BY DEF Named
  <2>3. Merged(names, 0, st, d) = d
    BY <1>8, <2>2 DEF Merged
  <2>. QED BY <1>4, <2>1, <2>3
<1>10. ASSUME NEW k \in 1..n, k - 1 \in S PROVE k \in S
  <2>. DEFINE m == Merged(names, k - 1, st, d)
              f == names[k]
              x == done[k - 1]
  <2>1. k \in 0..n /\ k - 1 \in 0..n /\ f \in Field
    BY <1>4
  <2>2. x.data = m /\ x.ok /\ x.offset = at[k - 1] /\ done[k].ok
    BY <1>7, <1>10, <2>1
  <2>3. done[k] = Copy(x, f, bytes)
    BY <1>6 DEF IsReading
  <2>4. x \in Reads(W)
    BY <1>6, <2>1 DEF IsReading
  <2>. HIDE DEF m, f, x
  <2>5. ~ (~x.ok \/ x.offset + Size[f] > Len(bytes))
    <3>1. CASE ~x.ok \/ x.offset + Size[f] > Len(bytes)
      <4>1. done[k] = [x EXCEPT !.ok = FALSE]
        BY <2>3, <3>1 DEF Copy
      <4>2. done[k].ok = FALSE
        BY <2>4, <4>1 DEF Reads
      <4>. QED BY <2>2, <4>2
    <3>. QED BY <3>1
  <2>6. done[k].data =
          [x.data EXCEPT ![f] = SubSeq(bytes, x.offset + 1, x.offset + Size[f])]
    BY <2>3, <2>5 DEF Copy
  <2>7. done[k].data = [m EXCEPT ![f] = st[f]]
    BY <1>5, <2>2, <2>6 DEF f
  <2>8. Named(names, k) = Named(names, k - 1) \cup {f}
    <3>1. 1..k = (1..(k - 1)) \cup {k}
      OBVIOUS
    <3>. QED BY <3>1 DEF Named, f
  <2>9. [m EXCEPT ![f] = st[f]] = Merged(names, k, st, d)
    BY <2>1, <2>8 DEF m, Merged
  <2>. QED BY <2>1, <2>7, <2>9
<1>. HIDE DEF n, S
<1>11. 0..n \subseteq S
  BY <1>4, <1>9, <1>10, Induction
<1>12. done[n].data = Merged(names, n, st, d)
  BY <1>4, <1>11 DEF S
<1>13. done[n].ok = TRUE /\ done[n].offset = Len(bytes)
  <2>1. done[n] \in Reads(W)
    BY <1>4, <1>6 DEF IsReading, n
  <2>2. at[n] = Len(bytes)
    BY <1>1, <1>2 DEF IsOffset, n
  <2>. QED BY <1>4, <1>7, <2>1, <2>2 DEF Reads
<1>. QED BY <1>6, <1>12, <1>13 DEF IsReading, n, bytes

-----------------------------------------------------------------------------
(* Clean: whatever the two lists say.                                       *)

Times == 0..MaxTime

\* A word of a field.
CleanWords == [of : Field, part : 0..2, at : Times, turned : BOOLEAN]
CleanStates == States(CleanWords)

\* The datagram of Stray.
StrayOf(n) == [i \in 1..(EncodedSize(RecvFields(n)) - 1) |-> Junk]

\* A node that is up knows all the fields it was told of; everything there is
\* of the nodes' states, sent, on its way or stored, is clean.
Clean ==
  /\ now \in Times \ {0}
  /\ up \subseteq Node
  /\ \A n \in up : SendFields(n) \in Seq(Field) /\ RecvFields(n) \in Seq(Field)
  /\ data \in [Node -> CleanStates]
  /\ DOMAIN net = Node /\ DOMAIN latest = Node
  /\ \A n \in Node : \A d \in net[n] : d = StrayOf(n) \/ d \in Seq(CleanWords)
  /\ \A n \in Node : latest[n] # <<>> =>
       /\ n \in up
       /\ latest[n] \in Seq(CleanWords)
       /\ Len(latest[n]) = EncodedSize(RecvFields(n))

\* The names of the two arms' fields.
LEMMA Arms ==
  /\ Node = {"leader", "follower"}
  /\ \A n \in Node :
       /\ Peer(n) \in Node /\ Peer(Peer(n)) = n
       /\ {Jp(n), Jv(n), Jp(Peer(n)), Jv(Peer(n)), "timestamp"} \subseteq Field
       /\ {Jp(n), Jv(n)} \cap {Jp(Peer(n)), Jv(Peer(n)), "timestamp"} = {}
       /\ Jp(n) # Jv(n) /\ Size[Jp(n)] = 2 /\ Size[Jv(n)] = 2
BY Fields DEF Node, Peer, Jp, Jv

\* A value has the words of its field.
LEMMA ValueIsClean ==
  ASSUME NEW f \in Field, NEW t \in Times
  PROVE  /\ Value(f, t) \in Seq(CleanWords) /\ Len(Value(f, t)) = Size[f]
         /\ DOMAIN Value(f, t) = 1..Size[f]
         /\ \A i \in 1..Size[f] :
              Value(f, t)[i] = [of |-> f, part |-> i, at |-> t, turned |-> FALSE]
<1>1. Size[f] \in Nat
  BY Fields
<1>2. \A i \in 1..Size[f] : Word(f, i, t) \in CleanWords
  <2>. SUFFICES ASSUME NEW i \in 1..Size[f] PROVE Word(f, i, t) \in CleanWords
    OBVIOUS
  <2>1. i \in 0..2
    BY Fields
  <2>. QED BY <2>1 DEF Word, CleanWords
<1>3. Value(f, t) = [i \in 1..Size[f] |-> Word(f, i, t)]
  BY DEF Value
<1>4. Value(f, t) \in Seq(CleanWords) /\ Len(Value(f, t)) = Size[f]
  BY <1>1, <1>2, <1>3
<1>. QED BY <1>3, <1>4 DEF Word

\* mirrorAndOffset(), of one field.
Turned(v) == [i \in DOMAIN v |-> [v[i] EXCEPT !.turned = ~@]]

\* Mirroring changes no word's field.
LEMMA TurnedIsClean ==
  ASSUME NEW v \in Seq(CleanWords)
  PROVE  Turned(v) \in Seq(CleanWords) /\ Len(Turned(v)) = Len(v)
<1>1. DOMAIN v = 1..Len(v) /\ Len(v) \in Nat
  OBVIOUS
<1>2. \A i \in 1..Len(v) : [v[i] EXCEPT !.turned = ~@] \in CleanWords
  <2>. SUFFICES ASSUME NEW i \in 1..Len(v)
                PROVE  [v[i] EXCEPT !.turned = ~@] \in CleanWords
    OBVIOUS
  <2>1. v[i] \in CleanWords
    OBVIOUS
  <2>. QED BY <2>1 DEF CleanWords
<1>. QED BY <1>1, <1>2 DEF Turned

\* What the steps of a cycle make of a state is a state.
LEMMA CycleIsClean ==
  ASSUME NEW n \in Node, NEW d \in CleanStates, now \in Times
  PROVE  /\ Sample(n, d) \in CleanStates
         /\ MirrorAndOffset(n, d) \in CleanStates
         /\ Defaults(n, d) \in CleanStates
         /\ Stamped(d) \in CleanStates
<1>. DEFINE p == Peer(n)
<1>1. /\ Jp(n) \in Field /\ Jv(n) \in Field /\ Jp(p) \in Field /\ Jv(p) \in Field
      /\ "timestamp" \in Field
      /\ Jp(p) # Jv(p) /\ Size[Jp(n)] = 2 /\ Size[Jv(n)] = 2
      /\ Size[Jp(p)] = 2 /\ Size[Jv(p)] = 2
  BY Arms
<1>2. /\ d \in [Field -> Seq(CleanWords)] /\ \A f \in Field : Len(d[f]) = Size[f]
  BY DEF CleanStates, States
<1>. HIDE DEF p
<1>3. ASSUME NEW e \in CleanStates, NEW f \in Field, NEW v \in Seq(CleanWords),
             Len(v) = Size[f]
      PROVE  [e EXCEPT ![f] = v] \in CleanStates
  BY <1>3 DEF CleanStates, States
<1>4. Sample(n, d) \in CleanStates
  <2>1. [d EXCEPT ![Jp(n)] = Value(Jp(n), now)] \in CleanStates
    BY <1>1, <1>3, ValueIsClean
  <2>2. [[d EXCEPT ![Jp(n)] = Value(Jp(n), now)]
           EXCEPT ![Jv(n)] = Value(Jv(n), now)] \in CleanStates
    BY <1>1, <1>3, <2>1, ValueIsClean
  <2>. QED BY <2>2 DEF Sample
<1>5. MirrorAndOffset(n, d) \in CleanStates
  <2>. DEFINE e == [d EXCEPT ![Jp(p)] = Turned(d[Jp(p)])]
  <2>1. e \in CleanStates
    BY <1>1, <1>2, <1>3, TurnedIsClean
  <2>2. e[Jv(p)] = d[Jv(p)]
    BY <1>1, <1>2
  <2>3. [e EXCEPT ![Jv(p)] = Turned(d[Jv(p)])] \in CleanStates
    <3>. HIDE DEF e
    <3>. QED BY <1>1, <1>2, <1>3, <2>1, TurnedIsClean
  <2>4. MirrorAndOffset(n, d) = [e EXCEPT ![Jv(p)] = Turned(d[Jv(p)])]
    BY <2>2 DEF MirrorAndOffset, Turned, p
  <2>. QED BY <2>3, <2>4
<1>6. Defaults(n, d) \in CleanStates
  <2>. DEFINE e == [d EXCEPT ![Jp(p)] = d[Jp(n)]]
  <2>1. e \in CleanStates
    BY <1>1, <1>2, <1>3
  <2>2. [e EXCEPT ![Jv(p)] = d[Jv(n)]] \in CleanStates
    <3>. HIDE DEF e
    <3>. QED BY <1>1, <1>2, <1>3, <2>1
  <2>. QED BY <2>2 DEF Defaults, p
<1>7. Stamped(d) \in CleanStates
  BY <1>1, <1>3, ValueIsClean DEF Stamped
<1>. QED BY <1>4, <1>5, <1>6, <1>7

\* The constructor has looked at both lists.
LEMMA CleanStart ==
  ASSUME Clean, NEW n \in Node, Start(n)
  PROVE  Clean'
<1>1. SendFields(n) \in Seq(STRING) /\ RecvFields(n) \in Seq(STRING)
  <2>1. Peer(n) \in Node
    BY Arms
  <2>. QED BY <2>1, RoutingAssumption DEF SendFields, RecvFields
<1>2. ASSUME NEW names \in Seq(STRING), ValidateFields(names)
      PROVE  names \in Seq(Field)
  <2>1. \A i \in 1..Len(names) : names[i] \in Field
    BY <1>2 DEF ValidateFields
  <2>. QED BY <2>1
<1>3. SendFields(n) \in Seq(Field) /\ RecvFields(n) \in Seq(Field)
  BY <1>1, <1>2 DEF Start
<1>4. up' = up \cup {n} /\ UNCHANGED <<now, data, latest, net>>
  BY DEF Start
<1>5. \A m \in up' : SendFields(m) \in Seq(Field) /\ RecvFields(m) \in Seq(Field)
  BY <1>3, <1>4 DEF Clean
<1>. QED BY <1>4, <1>5 DEF Clean

\* What a node has received, whether it can be decoded or not.
LEMMA ReceivedIsClean ==
  ASSUME Clean, NEW n \in up, NEW d \in CleanStates
  PROVE  Received(n, d).data \in CleanStates
<1>1. CASE latest[n] = <<>>
  BY <1>1 DEF Received
<1>2. CASE latest[n] # <<>>
  <2>1. n \in Node /\ RecvFields(n) \in Seq(Field)
    BY DEF Clean
  <2>2. latest[n] \in Seq(CleanWords) /\ Len(latest[n]) = EncodedSize(RecvFields(n))
    BY <1>2, <2>1 DEF Clean
  <2>3. Decode(RecvFields(n), latest[n], d).data \in CleanStates
    BY <2>1, <2>2, DecodedWhole DEF CleanStates
  <2>. QED BY <1>2, <2>3 DEF Received
<1>. QED BY <1>1, <1>2

\* Whether a cycle of the node finds the peer near, and the state it leaves and
\* sends.
Near(n) == LET got == Received(n, Sample(n, data[n]))
           IN got.ok /\ Fresh(got.data)
After(n) == LET got == Received(n, Sample(n, data[n]))
            IN Stamped(IF Near(n) THEN MirrorAndOffset(n, got.data)
                       ELSE Defaults(n, got.data))

\* A cycle in these words.
LEMMA ACycle ==
  ASSUME NEW n \in Node, Cycle(n)
  PROVE  /\ n \in up /\ cycled[n] < now
         /\ data' = [data EXCEPT ![n] = After(n)]
         /\ alive' = [alive EXCEPT ![n] = Near(n)]
         /\ \/ net' = [net EXCEPT ![Peer(n)] =
                         net[Peer(n)] \cup {Encode(SendFields(n), After(n))}]
            \/ net' = net
         /\ cycled' = [cycled EXCEPT ![n] = now]
         /\ UNCHANGED <<now, up, latest>>
BY DEF Cycle, After, Near

\* It leaves a state.
LEMMA AfterIsClean ==
  ASSUME Clean, NEW n \in up
  PROVE  After(n) \in CleanStates
<1>1. n \in Node /\ data[n] \in CleanStates /\ now \in Times
  BY DEF Clean
<1>2. Sample(n, data[n]) \in CleanStates
  BY <1>1, CycleIsClean
<1>. DEFINE got == Received(n, Sample(n, data[n]))
<1>3. got.data \in CleanStates
  BY <1>2, ReceivedIsClean
<1>4. After(n) = Stamped(IF Near(n) THEN MirrorAndOffset(n, got.data)
                         ELSE Defaults(n, got.data))
  BY DEF After
<1>. HIDE DEF got
<1>5. MirrorAndOffset(n, got.data) \in CleanStates /\ Defaults(n, got.data) \in CleanStates
  BY <1>1, <1>3, CycleIsClean
<1>6. (IF Near(n) THEN MirrorAndOffset(n, got.data) ELSE Defaults(n, got.data))
        \in CleanStates
  BY <1>5
<1>. QED BY <1>1, <1>4, <1>6, CycleIsClean

\* And sends clean words.
LEMMA CleanCycle ==
  ASSUME Clean, NEW n \in Node, Cycle(n)
  PROVE  Clean'
<1>1. n \in up /\ data' = [data EXCEPT ![n] = After(n)] /\ UNCHANGED <<now, up, latest>>
  BY ACycle
<1>2. After(n) \in CleanStates
  BY <1>1, AfterIsClean
<1>3. data' \in [Node -> CleanStates]
  BY <1>1, <1>2 DEF Clean
<1>. DEFINE sent == Encode(SendFields(n), After(n))
<1>4. sent \in Seq(CleanWords)
  BY <1>1, <1>2, EncodedWhole DEF CleanStates, Clean
<1>5. \/ net' = [net EXCEPT ![Peer(n)] = net[Peer(n)] \cup {sent}]
      \/ net' = net
  BY ACycle
<1>. HIDE DEF sent
<1>6. /\ DOMAIN net' = Node
      /\ \A m \in Node : \A d \in net'[m] : d = StrayOf(m) \/ d \in Seq(CleanWords)
  BY <1>4, <1>5, Arms DEF Clean
<1>. QED BY <1>1, <1>3, <1>6 DEF Clean

\* The handle thread writes a field of its own.
LEMMA CleanCommand ==
  ASSUME Clean, Command
  PROVE  Clean'
<1>1. /\ data' = [data EXCEPT !["leader"].gripper_cmd = Value("gripper_cmd", now)]
      /\ UNCHANGED <<now, up, latest, net>>
  BY DEF Command
<1>. DEFINE d == data["leader"]
            v == Value("gripper_cmd", now)
            e == [d EXCEPT !["gripper_cmd"] = v]
<1>2. "leader" \in Node /\ "gripper_cmd" \in Field /\ now \in Times
  BY Arms, Fields DEF Clean
<1>3. v \in Seq(CleanWords) /\ Len(v) = Size["gripper_cmd"]
  BY <1>2, ValueIsClean
<1>4. d \in CleanStates
  BY <1>2 DEF Clean
<1>5. data' = [data EXCEPT !["leader"] = e]
  BY <1>1
<1>. HIDE DEF v, d
<1>6. e \in CleanStates
  BY <1>2, <1>3, <1>4 DEF CleanStates, States
<1>. HIDE DEF e
<1>7. data' \in [Node -> CleanStates]
  BY <1>5, <1>6 DEF Clean
<1>. QED BY <1>1, <1>7 DEF Clean

\* A size is a number.
LEMMA EncodedSizeType ==
  ASSUME NEW names \in Seq(Field)
  PROVE  EncodedSize(names) \in Nat
<1>1. PICK at : IsOffset(at, names)
  BY Offsets
<1>2. Len(names) \in 0..Len(names)
  OBVIOUS
<1>. QED BY <1>1, <1>2 DEF IsOffset

\* A stray is a word too short, and what is stored of nothing is nothing.
LEMMA ShortStray ==
  ASSUME NEW n, RecvFields(n) \in Seq(Field),
         ~ (Len(StrayOf(n)) < EncodedSize(RecvFields(n)))
  PROVE  SubSeq(StrayOf(n), 1, EncodedSize(RecvFields(n))) = <<>>
<1>. DEFINE E == EncodedSize(RecvFields(n))
            d == StrayOf(n)
<1>1. E \in Nat /\ ~ (Len(d) < E)
  BY EncodedSizeType
<1>2. d = [i \in 1..(E - 1) |-> Junk]
  BY DEF StrayOf
<1>. HIDE DEF E, d
<1>3. CASE E = 0
  <2>1. SubSeq(d, 1, E) = <<>>
    BY <1>3
  <2>. QED BY <2>1 DEF E, d
<1>4. CASE E # 0
  <2>1. E - 1 \in Nat
    BY <1>1, <1>4
  <2>2. d \in Seq({Junk}) /\ Len(d) = E - 1
    BY <1>2, <2>1
  <2>. QED BY <1>1, <2>1, <2>2
<1>. QED BY <1>3, <1>4

\* What is stored of a datagram, if it is long enough.
LEMMA Stored ==
  ASSUME NEW n, RecvFields(n) \in Seq(Field), NEW d,
         d = StrayOf(n) \/ d \in Seq(CleanWords),
         ~ (Len(d) < EncodedSize(RecvFields(n)))
  PROVE  LET E == EncodedSize(RecvFields(n))
         IN \/ SubSeq(d, 1, E) = <<>>
            \/ /\ d \in Seq(CleanWords) /\ SubSeq(d, 1, E) \in Seq(CleanWords)
               /\ Len(SubSeq(d, 1, E)) = E
<1>. DEFINE E == EncodedSize(RecvFields(n))
<1>1. E \in Nat
  BY EncodedSizeType
<1>2. ~ (Len(d) < E)
  OBVIOUS
<1>. HIDE DEF E
<1>3. CASE d \in Seq(CleanWords)
  <2>1. Len(d) \in Nat /\ E <= Len(d)
    BY <1>1, <1>2, <1>3
  <2>2. SubSeq(d, 1, E) \in Seq(CleanWords) /\ Len(SubSeq(d, 1, E)) = E
    BY <1>1, <1>3, <2>1
  <2>. QED BY <1>3, <2>2 DEF E
<1>4. CASE d = StrayOf(n)
  BY <1>2, <1>4, ShortStray DEF E
<1>. QED BY <1>3, <1>4

\* Only what is as long as the list is stored, and no stray is.
LEMMA CleanDeliver ==
  ASSUME Clean, NEW n \in Node, Deliver(n)
  PROVE  Clean'
<1>. DEFINE E == EncodedSize(RecvFields(n))
<1>1. PICK d \in net[n] :
        /\ n \in up
        /\ latest' = IF Len(d) < E THEN latest
                     ELSE [latest EXCEPT ![n] = SubSeq(d, 1, E)]
        /\ net' = [net EXCEPT ![n] = @ \ {d}] \/ UNCHANGED net
        /\ UNCHANGED <<now, up, data>>
  BY DEF Deliver
<1>2. RecvFields(n) \in Seq(Field) /\ (d = StrayOf(n) \/ d \in Seq(CleanWords))
  BY <1>1 DEF Clean
<1>3. /\ DOMAIN net' = Node
      /\ \A m \in Node : \A e \in net'[m] : e = StrayOf(m) \/ e \in Seq(CleanWords)
  BY <1>1 DEF Clean
<1>4. /\ DOMAIN latest' = Node
      /\ \A m \in Node : latest'[m] # <<>> =>
           /\ m \in up
           /\ latest'[m] \in Seq(CleanWords)
           /\ Len(latest'[m]) = EncodedSize(RecvFields(m))
  <2>1. CASE Len(d) < E
    BY <1>1, <2>1 DEF Clean
  <2>2. CASE ~ (Len(d) < E)
    <3>1. \/ SubSeq(d, 1, E) = <<>>
          \/ SubSeq(d, 1, E) \in Seq(CleanWords) /\ Len(SubSeq(d, 1, E)) = E
      BY <1>2, <2>2, Stored
    <3>2. latest' = [latest EXCEPT ![n] = SubSeq(d, 1, E)]
      BY <1>1, <2>2
    <3>3. n \in up
      BY <1>1
    <3>. DEFINE s == SubSeq(d, 1, E)
    <3>4. \A m \in Node : m # n => latest'[m] = latest[m]
      BY <3>2
    <3>5. latest'[n] = s /\ DOMAIN latest' = Node
      BY <3>2 DEF Clean
    <3>. HIDE DEF s
    <3>. QED BY <3>1, <3>3, <3>4, <3>5 DEF Clean, s
  <2>. QED BY <2>1, <2>2
<1>. QED BY <1>1, <1>3, <1>4 DEF Clean

LEMMA CleanNext == Clean /\ [Next]_vars => Clean'
<1>. SUFFICES ASSUME Clean, [Next]_vars PROVE Clean'
  OBVIOUS
<1>1. CASE Command
  BY <1>1, CleanCommand
<1>2. CASE Tick
  <2>1. now' = now + 1 /\ now < MaxTime /\ UNCHANGED <<up, data, latest, net>>
    BY <1>2 DEF Tick
  <2>2. now \in Times \ {0}
    BY DEF Clean
  <2>3. now' \in Times \ {0}
    BY <2>1, <2>2, RoutingAssumption DEF Times
  <2>. QED BY <2>1, <2>3 DEF Clean
<1>3. ASSUME NEW n \in Node, Start(n) PROVE Clean'
  BY <1>3, CleanStart
<1>4. ASSUME NEW n \in Node, Cycle(n) PROVE Clean'
  BY <1>4, CleanCycle
<1>5. ASSUME NEW n \in Node, Deliver(n) PROVE Clean'
  BY <1>5, CleanDeliver
<1>6. ASSUME NEW n \in Node, Stray(n) PROVE Clean'
  <2>1. net' = [net EXCEPT ![n] = @ \cup {StrayOf(n)}]
        /\ UNCHANGED <<now, up, data, latest>>
    BY <1>6 DEF Stray, StrayOf
  <2>2. /\ DOMAIN net' = Node
        /\ \A m \in Node : \A d \in net'[m] : d = StrayOf(m) \/ d \in Seq(CleanWords)
    BY <1>6, <2>1 DEF Clean
  <2>. QED BY <2>1, <2>2 DEF Clean
<1>7. CASE UNCHANGED vars
  BY <1>7 DEF vars, Clean
<1>. QED BY <1>1, <1>2, <1>3, <1>4, <1>5, <1>6, <1>7 DEF Next

LEMMA CleanInit == Init => Clean
<1>. SUFFICES ASSUME Init PROVE Clean
  OBVIOUS
<1>1. 0 \in Times /\ 1 \in Times \ {0}
  BY RoutingAssumption DEF Times
<1>2. \A f \in Field : Value(f, 0) \in Seq(CleanWords) /\ Len(Value(f, 0)) = Size[f]
  BY <1>1, ValueIsClean
<1>3. [f \in Field |-> Value(f, 0)] \in CleanStates
  BY <1>2 DEF CleanStates, States
<1>4. data \in [Node -> CleanStates]
  BY <1>3 DEF Init
<1>. QED BY <1>1, <1>4 DEF Init, Clean

\* A datagram that is too short leaves nothing in the state of a node, whatever
\* the two configurations list: receiveLoop() stores none and decode() meets
\* none.
THEOREM NothingStrayGetsIn == Spec => []NoJunk
<1>1. Clean => NoJunk
  <2>. SUFFICES ASSUME Clean, NEW n \in Node, NEW f \in Field, NEW i \in 1..Size[f]
                PROVE  data[n][f][i].of # "junk"
    BY DEF NoJunk
  <2>1. data[n][f] \in Seq(CleanWords) /\ Len(data[n][f]) = Size[f]
    BY DEF Clean, CleanStates, States
  <2>2. data[n][f][i] \in CleanWords
    BY <2>1
  <2>. QED BY <2>2, Fields DEF CleanWords
<1>. QED BY CleanInit, CleanNext, <1>1, PTL DEF Spec

-----------------------------------------------------------------------------
(* Honest: lists that agree.                                                *)

\* A state of node n's whose measurements are of one cycle, at a.
Measured(n, st, a) ==
  /\ st \in CleanStates
  /\ st[Jp(n)] = Value(Jp(n), a) /\ st[Jv(n)] = Value(Jv(n), a)
  /\ st.timestamp = Value("timestamp", a)

\* A packet the peer of n sent.
FromPeer(n, d) ==
  \E st \in CleanStates, a \in Times :
    Measured(Peer(n), st, a) /\ d = Encode(SendFields(Peer(n)), st)

\* What node n has of its peer is of one cycle, of which it judged the age.
Taken(n, a) ==
  /\ a \in Times
  /\ data[n][Jp(Peer(n))] = Turned(Value(Jp(Peer(n)), a))
  /\ data[n][Jv(Peer(n))] = Turned(Value(Jv(Peer(n)), a))
  /\ cycled[n] - a <= Timeout

\* Every datagram is the peer's, or a stray; what was kept is the peer's; and
\* so is what the node has of it while it takes it for alive.
Honest ==
  /\ DOMAIN alive = Node /\ DOMAIN cycled = Node
  /\ \A n \in Node : \A d \in net[n] : d = StrayOf(n) \/ FromPeer(n, d)
  /\ \A n \in Node : latest[n] # <<>> => FromPeer(n, latest[n])
  /\ \A n \in Node : alive[n] => \E a \in Times : Taken(n, a)

\* Whatever the packet, what a node reads leaves its own measurements alone and
\* has the peer's from one of its cycles.
LEMMA ReadsThePeer ==
  ASSUME Agreed, Clean, Honest, NEW n \in up, NEW d \in CleanStates,
         Received(n, d).ok
  PROVE  \E a \in Times :
           LET got == Received(n, d).data  p == Peer(n)
           IN /\ got[Jp(p)] = Value(Jp(p), a) /\ got[Jv(p)] = Value(Jv(p), a)
              /\ got.timestamp = Value("timestamp", a)
<1>1. n \in Node /\ RecvFields(n) \in Seq(Field)
  BY DEF Clean
<1>2. latest[n] # <<>>
  BY DEF Received
<1>. DEFINE p == Peer(n)
            names == SendFields(p)
<1>3. RecvFields(n) = names /\ names \in Seq(Field)
  BY <1>1 DEF Agreed
<1>4. PICK st \in CleanStates, a \in Times :
        Measured(p, st, a) /\ latest[n] = Encode(names, st)
  BY <1>1, <1>2 DEF Honest, FromPeer
<1>5. Received(n, d) = Decode(names, Encode(names, st), d)
  BY <1>2, <1>3, <1>4 DEF Received
<1>. HIDE DEF p, names
<1>6. Received(n, d).data = Merged(names, Len(names), st, d)
  BY <1>3, <1>4, <1>5, DecodeUndoesEncode DEF CleanStates
<1>7. {Jp(p), Jv(p), "timestamp"} \subseteq Named(names, Len(names))
  BY <1>1, Arms DEF Agreed, Named, p, names
<1>8. {Jp(p), Jv(p), "timestamp"} \subseteq Field
  BY <1>1, Arms DEF p
<1>9. \A f \in {Jp(p), Jv(p), "timestamp"} : Received(n, d).data[f] = st[f]
  BY <1>6, <1>7, <1>8 DEF Merged
<1>10. /\ st[Jp(p)] = Value(Jp(p), a) /\ st[Jv(p)] = Value(Jv(p), a)
       /\ st["timestamp"] = Value("timestamp", a)
  BY <1>4 DEF Measured
<1>. QED BY <1>9, <1>10 DEF p

\* And it has none of the node's own.
LEMMA KeepsItsOwn ==
  ASSUME Agreed, Clean, Honest, NEW n \in up, NEW d \in CleanStates,
         NEW f \in {Jp(n), Jv(n)}
  PROVE  Received(n, d).data[f] = d[f]
<1>1. n \in Node /\ RecvFields(n) \in Seq(Field)
  BY DEF Clean
<1>2. CASE latest[n] = <<>>
  BY <1>2 DEF Received
<1>3. CASE latest[n] # <<>>
  <2>. DEFINE p == Peer(n)
              names == SendFields(p)
  <2>1. RecvFields(n) = names /\ names \in Seq(Field)
    BY <1>1 DEF Agreed
  <2>2. PICK st \in CleanStates, a \in Times :
          Measured(p, st, a) /\ latest[n] = Encode(names, st)
    BY <1>1, <1>3 DEF Honest, FromPeer
  <2>3. Received(n, d) = Decode(names, Encode(names, st), d)
    BY <1>3, <2>1, <2>2 DEF Received
  <2>. HIDE DEF p, names
  <2>4. Received(n, d).data = Merged(names, Len(names), st, d)
    BY <2>1, <2>2, <2>3, DecodeUndoesEncode DEF CleanStates
  <2>5. p \in Node /\ Peer(p) = n /\ f \in Field
    BY <1>1, Arms DEF p
  <2>6. f \notin Named(names, Len(names))
    BY <2>5 DEF Agreed, Named, names
  <2>. QED BY <2>4, <2>5, <2>6 DEF Merged
<1>. QED BY <1>2, <1>3

\* The fields of a node, the peer's and the time are three things.
LEMMA Apart ==
  ASSUME NEW n \in Node
  PROVE  /\ Jp(n) \in Field /\ Jv(n) \in Field /\ "timestamp" \in Field
         /\ Jp(n) # "timestamp" /\ Jv(n) # "timestamp" /\ Jp(n) # Jv(n)
         /\ Jp(n) # Jp(Peer(n)) /\ Jp(n) # Jv(Peer(n))
         /\ Jv(n) # Jp(Peer(n)) /\ Jv(n) # Jv(Peer(n))
BY Fields DEF Node, Peer, Jp, Jv

\* What a cycle of node n leaves of its own measurements and, if it takes the
\* peer for alive, of the peer's.
LEMMA AfterACycle ==
  ASSUME Agreed, Clean, Honest, NEW n \in up
  PROVE  /\ Measured(n, After(n), now)
         /\ Near(n) => \E a \in Times :
              /\ After(n)[Jp(Peer(n))] = Turned(Value(Jp(Peer(n)), a))
              /\ After(n)[Jv(Peer(n))] = Turned(Value(Jv(Peer(n)), a))
              /\ now - a <= Timeout
<1>. DEFINE p == Peer(n)
            s == Sample(n, data[n])
            got == Received(n, s)
            r == got.data
            mine == {Jp(n), Jv(n)}
            theirs == {Jp(p), Jv(p)}
<1>1. n \in Node /\ now \in Times /\ data[n] \in CleanStates
  BY DEF Clean
<1>2. /\ mine \subseteq Field /\ theirs \subseteq Field /\ "timestamp" \in Field
      /\ mine \cap theirs = {} /\ "timestamp" \notin mine /\ "timestamp" \notin theirs
      /\ Jp(n) # Jv(n) /\ Jp(p) # Jv(p)
  <2>1. p \in Node
    BY <1>1, Arms
  <2>2. /\ Jp(n) \in Field /\ Jv(n) \in Field /\ "timestamp" \in Field
        /\ Jp(n) # "timestamp" /\ Jv(n) # "timestamp" /\ Jp(n) # Jv(n)
        /\ Jp(n) # Jp(p) /\ Jp(n) # Jv(p) /\ Jv(n) # Jp(p) /\ Jv(n) # Jv(p)
    BY <1>1, Apart
  <2>. HIDE DEF p
  <2>3. /\ Jp(p) \in Field /\ Jv(p) \in Field
        /\ Jp(p) # "timestamp" /\ Jv(p) # "timestamp" /\ Jp(p) # Jv(p)
    BY <2>1, Apart
  <2>. QED BY <2>2, <2>3
<1>3. s \in CleanStates
  BY <1>1, CycleIsClean
<1>4. s[Jp(n)] = Value(Jp(n), now) /\ s[Jv(n)] = Value(Jv(n), now)
  BY <1>1, <1>2 DEF Sample, CleanStates, States
<1>. HIDE DEF s
<1>5. r \in CleanStates
  BY <1>3, ReceivedIsClean
<1>6. r[Jp(n)] = Value(Jp(n), now) /\ r[Jv(n)] = Value(Jv(n), now)
  BY <1>3, <1>4, KeepsItsOwn
<1>7. After(n) \in CleanStates
  BY AfterIsClean
<1>8. DOMAIN r = Field
  BY <1>5 DEF CleanStates, States
<1>. DEFINE m == MirrorAndOffset(n, r)
            e == Defaults(n, r)
<1>9. After(n) = Stamped(IF Near(n) THEN m ELSE e)
  BY DEF After, s
<1>10. /\ DOMAIN m = Field /\ \A f \in mine : m[f] = r[f]
       /\ m[Jp(p)] = Turned(r[Jp(p)]) /\ m[Jv(p)] = Turned(r[Jv(p)])
  BY <1>2, <1>8 DEF MirrorAndOffset, Turned
<1>11. DOMAIN e = Field /\ \A f \in mine : e[f] = r[f]
  BY <1>2, <1>8 DEF Defaults
<1>12. Near(n) <=> got.ok /\ Fresh(r)
  BY DEF Near, s
<1>. HIDE DEF got, r, m, e
<1>13. ASSUME NEW x, DOMAIN x = Field
       PROVE  /\ Stamped(x).timestamp = Value("timestamp", now)
              /\ \A f \in Field : f # "timestamp" => Stamped(x)[f] = x[f]
  BY <1>2, <1>13 DEF Stamped
<1>14. /\ After(n).timestamp = Value("timestamp", now)
       /\ After(n)[Jp(n)] = Value(Jp(n), now) /\ After(n)[Jv(n)] = Value(Jv(n), now)
  <2>1. CASE Near(n)
    BY <1>2, <1>6, <1>9, <1>10, <1>13, <2>1
  <2>2. CASE ~Near(n)
    BY <1>2, <1>6, <1>9, <1>11, <1>13, <2>2
  <2>. QED BY <2>1, <2>2
<1>15. ASSUME Near(n)
       PROVE  \E a \in Times : /\ After(n)[Jp(p)] = Turned(Value(Jp(p), a))
                             /\ After(n)[Jv(p)] = Turned(Value(Jv(p), a))
                             /\ now - a <= Timeout
  <2>1. got.ok /\ Fresh(r)
    BY <1>12, <1>15
  <2>2. PICK a \in Times : /\ r[Jp(p)] = Value(Jp(p), a) /\ r[Jv(p)] = Value(Jv(p), a)
                         /\ r.timestamp = Value("timestamp", a)
    BY <1>3, <2>1, ReadsThePeer DEF got, r
  <2>3. Value("timestamp", a)[1].at = a
    <3>1. 1 \in 1..Size["timestamp"]
      BY Fields
    <3>2. Value("timestamp", a)[1] =
            [of |-> "timestamp", part |-> 1, at |-> a, turned |-> FALSE]
      BY <1>2, <3>1, ValueIsClean
    <3>. QED BY <3>2
  <2>4. now - a <= Timeout
    BY <2>1, <2>2, <2>3 DEF Fresh
  <2>5. After(n)[Jp(p)] = m[Jp(p)] /\ After(n)[Jv(p)] = m[Jv(p)]
    BY <1>2, <1>9, <1>10, <1>13, <1>15
  <2>. QED BY <1>10, <2>2, <2>4, <2>5
<1>. QED BY <1>7, <1>14, <1>15 DEF Measured

\* A step that touches neither what a node has of its peer nor its flags.
LEMMA HonestStays ==
  ASSUME Honest, UNCHANGED <<alive, cycled, latest>>,
         \A n \in Node : \A d \in net'[n] : d = StrayOf(n) \/ FromPeer(n, d),
         \A n \in Node : /\ data'[n][Jp(Peer(n))] = data[n][Jp(Peer(n))]
                         /\ data'[n][Jv(Peer(n))] = data[n][Jv(Peer(n))]
  PROVE  Honest'
BY DEF Honest, Taken

\* A cycle sends what it measured, with the time it measured it at.
LEMMA HonestCycle ==
  ASSUME Agreed, Clean, Honest, NEW n \in Node, Cycle(n)
  PROVE  Honest'
<1>1. /\ n \in up /\ data' = [data EXCEPT ![n] = After(n)]
      /\ alive' = [alive EXCEPT ![n] = Near(n)]
      /\ cycled' = [cycled EXCEPT ![n] = now]
      /\ latest' = latest
  BY ACycle
<1>. DEFINE sent == Encode(SendFields(n), After(n))
<1>2. \/ net' = [net EXCEPT ![Peer(n)] = net[Peer(n)] \cup {sent}]
      \/ net' = net
  BY ACycle
<1>3. Measured(n, After(n), now)
  BY <1>1, AfterACycle
<1>4. FromPeer(Peer(n), sent)
  <2>1. Peer(Peer(n)) = n
    BY Arms
  <2>2. After(n) \in CleanStates /\ now \in Times
    BY <1>3 DEF Measured, Clean
  <2>. QED BY <1>3, <2>1, <2>2 DEF FromPeer
<1>. HIDE DEF sent
<1>5. \A m \in Node : \A d \in net'[m] : d = StrayOf(m) \/ FromPeer(m, d)
  <2>1. DOMAIN net = Node
    BY DEF Clean
  <2>. QED BY <1>2, <1>4, <2>1 DEF Honest
<1>6. DOMAIN data = Node /\ DOMAIN alive = Node /\ DOMAIN cycled = Node
  BY DEF Clean, Honest
<1>7. ASSUME NEW m \in Node, alive'[m] PROVE \E a \in Times : Taken(m, a)'
  <2>1. CASE m = n
    <3>1. Near(n) /\ data'[n] = After(n) /\ cycled'[n] = now
      BY <1>1, <1>6, <1>7, <2>1
    <3>2. PICK a \in Times : /\ After(n)[Jp(Peer(n))] = Turned(Value(Jp(Peer(n)), a))
                           /\ After(n)[Jv(Peer(n))] = Turned(Value(Jv(Peer(n)), a))
                           /\ now - a <= Timeout
      BY <1>1, <3>1, AfterACycle
    <3>3. Taken(m, a)'
      BY <2>1, <3>1, <3>2 DEF Taken
    <3>. QED BY <3>3
  <2>2. CASE m # n
    <3>1. alive[m] /\ data'[m] = data[m] /\ cycled'[m] = cycled[m]
      BY <1>1, <1>6, <1>7, <2>2
    <3>2. PICK a \in Times : Taken(m, a)
      BY <3>1 DEF Honest
    <3>3. Taken(m, a)'
      BY <3>1, <3>2 DEF Taken
    <3>. QED BY <3>3
  <2>. QED BY <2>1, <2>2
<1>8. DOMAIN alive' = Node /\ DOMAIN cycled' = Node
  BY <1>1, <1>6
<1>9. \A m \in Node : latest'[m] # <<>> => FromPeer(m, latest'[m])
  BY <1>1 DEF Honest
<1>. QED BY <1>5, <1>7, <1>8, <1>9 DEF Honest, FromPeer, StrayOf

\* What the peer sent is stored uncut.
LEMMA HonestDeliver ==
  ASSUME Agreed, Clean, Honest, NEW n \in Node, Deliver(n)
  PROVE  Honest'
<1>. DEFINE E == EncodedSize(RecvFields(n))
<1>1. PICK d \in net[n] :
        /\ n \in up
        /\ latest' = IF Len(d) < E THEN latest
                     ELSE [latest EXCEPT ![n] = SubSeq(d, 1, E)]
        /\ net' = [net EXCEPT ![n] = @ \ {d}] \/ UNCHANGED net
        /\ UNCHANGED <<data, alive, cycled>>
  BY DEF Deliver
<1>2. RecvFields(n) \in Seq(Field) /\ (d = StrayOf(n) \/ FromPeer(n, d))
  BY <1>1 DEF Clean, Honest
<1>3. \A m \in Node : \A e \in net'[m] : e = StrayOf(m) \/ FromPeer(m, e)
  <2>1. DOMAIN net = Node
    BY DEF Clean
  <2>. QED BY <1>1, <2>1 DEF Honest
<1>4. FromPeer(n, d) => d \in Seq(CleanWords) /\ Len(d) = E
  <2>. SUFFICES ASSUME FromPeer(n, d) PROVE d \in Seq(CleanWords) /\ Len(d) = E
    OBVIOUS
  <2>1. PICK st \in CleanStates : d = Encode(SendFields(Peer(n)), st)
    BY DEF FromPeer
  <2>2. RecvFields(n) = SendFields(Peer(n))
    BY DEF Agreed
  <2>. QED BY <1>2, <2>1, <2>2, EncodedWhole DEF CleanStates
<1>5. ~ (Len(d) < E) => SubSeq(d, 1, E) = <<>> \/ FromPeer(n, SubSeq(d, 1, E))
  <2>. SUFFICES ASSUME ~ (Len(d) < E)
                PROVE  SubSeq(d, 1, E) = <<>> \/ FromPeer(n, SubSeq(d, 1, E))
    OBVIOUS
  <2>1. CASE FromPeer(n, d)
    <3>1. SubSeq(d, 1, Len(d)) = d
      BY <1>4, <2>1
    <3>. QED BY <1>4, <2>1, <3>1
  <2>2. CASE d = StrayOf(n)
    BY <1>2, <2>2, ShortStray
  <2>. QED BY <1>2, <2>1, <2>2
<1>. HIDE DEF E
<1>6. \A m \in Node : latest'[m] # <<>> => FromPeer(m, latest'[m])
  <2>1. DOMAIN latest = Node
    BY DEF Clean
  <2>2. CASE Len(d) < E
    BY <1>1, <2>2 DEF Honest
  <2>3. CASE ~ (Len(d) < E)
    <3>. DEFINE s == SubSeq(d, 1, E)
    <3>1. latest' = [latest EXCEPT ![n] = s]
      BY <1>1, <2>3
    <3>2. s = <<>> \/ FromPeer(n, s)
      BY <1>5, <2>3
    <3>. HIDE DEF s
    <3>. QED BY <2>1, <3>1, <3>2 DEF Honest
  <2>. QED BY <2>2, <2>3
<1>. QED BY <1>1, <1>3, <1>6 DEF Honest, Taken, FromPeer, StrayOf

LEMMA HonestNext == Agreed /\ Clean /\ Honest /\ [Next]_vars => Honest'
<1>. SUFFICES ASSUME Agreed, Clean, Honest, [Next]_vars PROVE Honest'
  OBVIOUS
<1>1. \A n \in Node : \A d \in net[n] : d = StrayOf(n) \/ FromPeer(n, d)
  BY DEF Honest
<1>2. CASE Command
  <2>1. /\ data' = [data EXCEPT !["leader"].gripper_cmd = Value("gripper_cmd", now)]
        /\ UNCHANGED <<latest, net, alive, cycled>>
    BY <1>2 DEF Command
  <2>2. \A n \in Node : \A f \in Field : f # "gripper_cmd" => data'[n][f] = data[n][f]
    BY <2>1 DEF Clean, CleanStates, States
  <2>3. \A n \in Node : /\ Jp(Peer(n)) \in Field /\ Jp(Peer(n)) # "gripper_cmd"
                        /\ Jv(Peer(n)) \in Field /\ Jv(Peer(n)) # "gripper_cmd"
    BY Fields DEF Node, Peer, Jp, Jv
  <2>. QED BY <1>1, <2>1, <2>2, <2>3, HonestStays
<1>3. CASE Tick
  <2>1. UNCHANGED <<data, latest, net, alive, cycled>>
    BY <1>3 DEF Tick
  <2>. QED BY <1>1, <2>1, HonestStays
<1>4. ASSUME NEW n \in Node, Start(n) PROVE Honest'
  <2>1. UNCHANGED <<data, latest, net, alive, cycled>>
    BY <1>4 DEF Start
  <2>. QED BY <1>1, <2>1, HonestStays
<1>5. ASSUME NEW n \in Node, Cycle(n) PROVE Honest'
  BY <1>5, HonestCycle
<1>6. ASSUME NEW n \in Node, Deliver(n) PROVE Honest'
  BY <1>6, HonestDeliver
<1>7. ASSUME NEW n \in Node, Stray(n) PROVE Honest'
  <2>1. net' = [net EXCEPT ![n] = @ \cup {StrayOf(n)}]
        /\ UNCHANGED <<data, latest, alive, cycled>>
    BY <1>7 DEF Stray, StrayOf
  <2>2. \A m \in Node : \A d \in net'[m] : d = StrayOf(m) \/ FromPeer(m, d)
    <3>1. DOMAIN net = Node
      BY DEF Clean
    <3>. QED BY <1>1, <1>7, <2>1, <3>1
  <2>. QED BY <2>1, <2>2, HonestStays
<1>8. CASE UNCHANGED vars
  <2>1. UNCHANGED <<data, latest, net, alive, cycled>>
    BY <1>8 DEF vars
  <2>. QED BY <1>1, <2>1, HonestStays
<1>. QED BY <1>2, <1>3, <1>4, <1>5, <1>6, <1>7, <1>8 DEF Next

LEMMA HonestInit == Init => Honest
BY DEF Init, Honest

LEMMA HonestAlways == ASSUME Agreed PROVE Spec => [](Clean /\ Honest)
<1>1. Init => Clean /\ Honest
  BY CleanInit, HonestInit
<1>2. Clean /\ Honest /\ [Next]_vars => (Clean /\ Honest)'
  BY CleanNext, HonestNext
<1>. QED BY <1>1, <1>2, PTL DEF Spec

\* A value of the peer's in our frame.
LEMMA ValueTurned ==
  ASSUME NEW f \in Field, NEW a \in Times
  PROVE  /\ DOMAIN Turned(Value(f, a)) = 1..Size[f]
         /\ \A i \in 1..Size[f] :
              Turned(Value(f, a))[i] = [of |-> f, part |-> i, at |-> a, turned |-> TRUE]
<1>. DEFINE v == Value(f, a)
<1>1. /\ DOMAIN v = 1..Size[f]
      /\ \A i \in 1..Size[f] :
           v[i] = [of |-> f, part |-> i, at |-> a, turned |-> FALSE]
  BY ValueIsClean
<1>. HIDE DEF v
<1>2. Turned(v) = [i \in 1..Size[f] |-> [v[i] EXCEPT !.turned = ~@]]
  BY <1>1 DEF Turned
<1>3. ASSUME NEW i \in 1..Size[f]
      PROVE  [v[i] EXCEPT !.turned = ~@] =
               [of |-> f, part |-> i, at |-> a, turned |-> TRUE]
  <2>. DEFINE r == [of |-> f, part |-> i, at |-> a, turned |-> FALSE]
  <2>1. [r EXCEPT !.turned = ~@] = [of |-> f, part |-> i, at |-> a, turned |-> ~FALSE]
    OBVIOUS
  <2>2. (~FALSE) = TRUE
    OBVIOUS
  <2>. QED BY <1>1, <2>1, <2>2
<1>. QED BY <1>2, <1>3 DEF v

\* With lists that agree, what theirIsNear() compares with the node's own
\* position is a position the peer measured, at most Timeout before, in our
\* frame; also after losses, repetitions, reordering and strays.
THEOREM ThePeerIsCompared ==
  ASSUME Agreed PROVE Spec => []ComparesThePeer
<1>1. Clean /\ Honest => ComparesThePeer
  <2>. SUFFICES ASSUME Honest, NEW n \in Node, alive[n]
                PROVE  LET theirs == data[n][Jp(Peer(n))]
                       IN /\ \A i \in DOMAIN theirs :
                               theirs[i] = [Word(Jp(Peer(n)), i, theirs[1].at)
                                              EXCEPT !.turned = TRUE]
                          /\ cycled[n] - theirs[1].at <= Timeout
    BY DEF ComparesThePeer
  <2>. DEFINE f == Jp(Peer(n))
              theirs == data[n][f]
  <2>1. PICK a \in Times : Taken(n, a)
    BY DEF Honest
  <2>2. f \in Field /\ 1 \in 1..Size[f]
    <3>1. Peer(n) \in Node
      BY Arms
    <3>. QED BY <3>1, Arms
  <2>3. theirs = Turned(Value(f, a)) /\ cycled[n] - a <= Timeout
    BY <2>1 DEF Taken
  <2>. HIDE DEF f, theirs
  <2>4. /\ DOMAIN theirs = 1..Size[f]
        /\ \A i \in 1..Size[f] :
             theirs[i] = [of |-> f, part |-> i, at |-> a, turned |-> TRUE]
    BY <2>2, <2>3, ValueTurned
  <2>5. theirs[1].at = a
    <3>1. theirs[1] = [of |-> f, part |-> 1, at |-> a, turned |-> TRUE]
      BY <2>2, <2>4
    <3>. QED BY <3>1
  <2>6. \A i \in DOMAIN theirs :
          theirs[i] = [Word(f, i, theirs[1].at) EXCEPT !.turned = TRUE]
    BY <2>4, <2>5 DEF Word
  <2>. QED BY <2>3, <2>5, <2>6 DEF f, theirs
<1>. QED BY HonestAlways, <1>1, PTL

\* And the peer's position and velocity are of one and the same cycle, mirrored
\* once, however often the packet was decoded.
THEOREM TheSnapshotIsWhole ==
  ASSUME Agreed PROVE Spec => []SnapshotIsWhole
<1>1. Clean /\ Honest => SnapshotIsWhole
  <2>. SUFFICES ASSUME Honest, NEW n \in Node, alive[n], NEW i \in 1..2
                PROVE  /\ data[n][Jp(Peer(n))][i].at = data[n][Jv(Peer(n))][1].at
                       /\ data[n][Jv(Peer(n))][i].of = Jv(Peer(n))
                       /\ data[n][Jv(Peer(n))][i].at = data[n][Jv(Peer(n))][1].at
                       /\ data[n][Jv(Peer(n))][i].turned
    BY DEF SnapshotIsWhole
  <2>1. PICK a \in Times : Taken(n, a)
    BY DEF Honest
  <2>. DEFINE p == Peer(n)
  <2>2. /\ Jp(p) \in Field /\ Size[Jp(p)] = 2 /\ Jv(p) \in Field /\ Size[Jv(p)] = 2
    <3>1. p \in Node
      BY Arms
    <3>. HIDE DEF p
    <3>. QED BY <3>1, Arms
  <2>3. /\ data[n][Jp(p)] = Turned(Value(Jp(p), a))
        /\ data[n][Jv(p)] = Turned(Value(Jv(p), a))
    BY <2>1 DEF Taken
  <2>. HIDE DEF p
  <2>4. \A j \in 1..2 :
          /\ data[n][Jp(p)][j] = [of |-> Jp(p), part |-> j, at |-> a, turned |-> TRUE]
          /\ data[n][Jv(p)][j] = [of |-> Jv(p), part |-> j, at |-> a, turned |-> TRUE]
    BY <2>2, <2>3, ValueTurned
  <2>. QED BY <2>4 DEF p
<1>. QED BY HonestAlways, <1>1, PTL

\* The flag and the history of every node.
Judged ==
  /\ alive \in [Node -> BOOLEAN]
  /\ cycled \in [Node -> Times]

LEMMA JudgedNext == Clean /\ Judged /\ [Next]_vars => Judged'
<1>. SUFFICES ASSUME Clean, Judged, [Next]_vars PROVE Judged'
  OBVIOUS
<1>1. ASSUME NEW n \in Node, Cycle(n) PROVE Judged'
  <2>1. now \in Times
    BY DEF Clean
  <2>2. /\ alive' = [alive EXCEPT ![n] = Near(n)]
        /\ cycled' = [cycled EXCEPT ![n] = now]
    BY <1>1, ACycle
  <2>3. Near(n) \in BOOLEAN
    BY DEF Near
  <2>. QED BY <2>1, <2>2, <2>3 DEF Judged
<1>2. CASE UNCHANGED <<alive, cycled>>
  BY <1>2 DEF Judged
<1>3. CASE Command \/ Tick \/ UNCHANGED vars
  BY <1>2, <1>3 DEF Command, Tick, vars
<1>4. ASSUME NEW n \in Node, Start(n) \/ Deliver(n) \/ Stray(n) PROVE Judged'
  BY <1>2, <1>4 DEF Start, Deliver, Stray
<1>. QED BY <1>1, <1>3, <1>4 DEF Next

\* A stray is made of words.
LEMMA StrayIsWords ==
  ASSUME NEW n \in Node
  PROVE  \A i \in DOMAIN StrayOf(n) : StrayOf(n)[i] \in Words
<1>1. Junk \in Words
  BY RoutingAssumption DEF Junk, Words
<1>. QED BY <1>1 DEF StrayOf

\* Every field keeps its size, and what a handler keeps is as long as the fields
\* it will be decoded into, for every two lists.
THEOREM RoutingTypes == Spec => []TypeOK
<1>1. Clean /\ Judged => TypeOK
  <2>. SUFFICES ASSUME Clean, Judged PROVE TypeOK
    OBVIOUS
  <2>1. CleanWords \subseteq Words
    BY DEF CleanWords, Words, Times
  <2>2. ASSUME NEW n \in Node, NEW f \in Field
        PROVE  data[n][f] \in [1..Size[f] -> Words]
    <3>1. data[n][f] \in Seq(CleanWords) /\ Len(data[n][f]) = Size[f]
      BY DEF Clean, CleanStates, States
    <3>2. data[n][f] \in [1..Size[f] -> CleanWords]
      BY <3>1
    <3>. QED BY <2>1, <3>2
  <2>3. ASSUME NEW n \in Node, NEW d \in net[n]
        PROVE  \A i \in DOMAIN d : d[i] \in Words
    <3>1. d = StrayOf(n) \/ d \in Seq(CleanWords)
      BY DEF Clean
    <3>2. CASE d = StrayOf(n)
      BY <3>2, StrayIsWords
    <3>3. CASE d \in Seq(CleanWords)
      BY <2>1, <3>3
    <3>. QED BY <3>1, <3>2, <3>3
  <2>4. \A n \in Node : latest[n] # <<>> => Len(latest[n]) = EncodedSize(RecvFields(n))
    BY DEF Clean
  <2>5. now \in 1..MaxTime
    BY RoutingAssumption DEF Clean, Times
  <2>6. up \subseteq Node /\ alive \in [Node -> BOOLEAN] /\ cycled \in [Node -> 0..MaxTime]
    BY DEF Clean, Judged, Times
  <2>. QED BY <2>2, <2>3, <2>4, <2>5, <2>6 DEF TypeOK
<1>2. Init => Judged
  BY RoutingAssumption DEF Init, Judged, Times
<1>. QED BY CleanInit, CleanNext, JudgedNext, <1>1, <1>2, PTL DEF Spec

-----------------------------------------------------------------------------
(* The commands, for every set of policy nodes, every set of gripper        *)
(* commands the policies may give and every bound on the wire.              *)
(*                                                                          *)
(* What the theorem says of a command travels with it: a command is good if *)
(* it does not let a policy speak over the operator.  The handle thread     *)
(* writes good commands and a policy module keeps them good, whatever it    *)
(* plays, during a cancel and otherwise; everything else only copies them.  *)

\* A command whose gripper field is the operator's if the operator has spoken.
Good(c) ==
  /\ c \in Commands
  /\ c.pressed => c.grip \in {-1, 1}

\* Every command there is, is good.
AllGood ==
  /\ Good(lst) /\ Good(fst)
  /\ \A c \in wire : Good(c)
  /\ latest_received # None => Good(latest_received)

PipelineInv == PipelineTypeOK /\ AllGood

-----------------------------------------------------------------------------
(* What receive() plays is a command of the policy, or nothing; and nothing *)
(* in a pause that has played all that was in flight.                       *)
LEMMA PlayedType ==
  ASSUME PipelineTypeOK, NEW n \in Nodes, NEW cmd \in Commands,
         NEW action \in Played(n, cmd)
  PROVE  /\ action \in PolicyGrips \cup {None}
         /\ n \in PolicyNodes /\ (cmd.cancel \/ policy[n].paused)
              /\ action # None => policy[n].left > 0
BY DEF PipelineTypeOK, Played

(* A policy module keeps a good command good: it writes only where the      *)
(* operator has said nothing.                                               *)
LEMMA PolicyKeepsGood ==
  ASSUME NEW cmd, Good(cmd), NEW action \in PolicyGrips \cup {None}
  PROVE  Good(AfterPolicy(cmd, action))
<1>1. cmd \in Commands
  BY DEF Good
<1>2. CASE action = None \/ cmd.grip # 0
  BY <1>2 DEF AfterPolicy
<1>3. CASE ~(action = None \/ cmd.grip # 0)
  <2>1. AfterPolicy(cmd, action) = [cmd EXCEPT !.grip = action]
    BY <1>3 DEF AfterPolicy
  <2>2. AfterPolicy(cmd, action) \in Commands
    BY <1>1, <1>3, <2>1 DEF Commands
  <2>3. ~cmd.pressed
    BY <1>3 DEF Good
  <2>4. AfterPolicy(cmd, action).pressed = cmd.pressed
    BY <1>1, <2>1 DEF Commands
  <2>. QED BY <2>2, <2>3, <2>4 DEF Good
<1>. QED BY <1>2, <1>3

(* What policy is.                                                          *)
Handlers == [PolicyNodes -> [action: PolicyGrips \cup {None}, paused: BOOLEAN,
                             left: 0..Residue]]

(* Hearing the policy keeps the types of the policy handlers: what a pause  *)
(* plays is counted down, and not below 0.                                  *)
LEMMA HearPolicyType ==
  ASSUME PipelineTypeOK, NEW n \in Nodes, NEW cmd \in Commands,
         NEW action \in Played(n, cmd), HearPolicy(n, cmd, action)
  PROVE  policy' \in Handlers
<1>1. policy \in Handlers /\ Residue \in Nat
  BY PipelineAssumption DEF PipelineTypeOK, Handlers
<1>. DEFINE spent == IF action = None THEN 0 ELSE 1
            hears == n \in PolicyNodes /\ (cmd.cancel \/ policy[n].paused)
<1>2. hears => policy[n].left - spent \in 0..Residue
  BY <1>1, PlayedType DEF Handlers
<1>3. policy' = [m \in PolicyNodes |->
                   IF m = n /\ (cmd.cancel \/ policy[m].paused)
                   THEN [action |-> None, paused |-> TRUE,
                         left |-> policy[m].left - spent]
                   ELSE policy[m]]
  BY DEF HearPolicy
<1>. HIDE DEF spent
<1>4. ASSUME NEW m \in PolicyNodes
      PROVE  policy'[m] \in [action: PolicyGrips \cup {None}, paused: BOOLEAN,
                             left: 0..Residue]
  <2>1. CASE m = n /\ (cmd.cancel \/ policy[m].paused)
    BY <1>2, <1>3, <2>1
  <2>2. CASE ~(m = n /\ (cmd.cancel \/ policy[m].paused))
    BY <1>1, <1>3, <2>2 DEF Handlers
  <2>. QED BY <2>1, <2>2
<1>. QED BY <1>3, <1>4 DEF Handlers

(* The handle thread writes a good command.                                 *)
LEMMA HandleWritesGood ==
  ASSUME hand' \in [target: OperatorGrips, cancel: BOOLEAN], WriteHandle
  PROVE  Good(lst')
BY DEF WriteHandle, Good, Commands, OperatorGrips

-----------------------------------------------------------------------------
LEMMA PipelineInitInv == PipelineInit => PipelineInv
<1>. SUFFICES ASSUME PipelineInit PROVE PipelineInv
  OBVIOUS
<1>1. NoCommand \in Commands /\ Good(NoCommand)
  BY DEF NoCommand, Commands, Good, OperatorGrips
<1>2. 0 <= Residue /\ Residue \in 0..Residue
  BY PipelineAssumption
<1>. QED BY <1>1, <1>2 DEF PipelineInit, PipelineInv, PipelineTypeOK, AllGood, OperatorGrips

LEMMA HandleInv ==
  ASSUME PipelineInv, HandleAnswers \/ HandleSilent PROVE PipelineInv'
<1>1. hand' \in [target: OperatorGrips, cancel: BOOLEAN] /\ WriteHandle
  <2>1. CASE HandleAnswers
    <3>1. PICK pressed \in SUBSET {"bumper", "trigger", "up"} :
            hand' = [target |-> Target(pressed, hand.target),
                     cancel |-> "up" \in pressed]
      BY <2>1 DEF HandleAnswers
    <3>2. Target(pressed, hand.target) \in OperatorGrips
      BY DEF Target, OperatorGrips, PipelineInv, PipelineTypeOK
    <3>. QED BY <2>1, <3>1, <3>2 DEF HandleAnswers
  <2>2. CASE HandleSilent
    BY <2>2 DEF HandleSilent, PipelineInv, PipelineTypeOK
  <2>. QED BY <2>1, <2>2
<1>2. Good(lst')
  BY <1>1, HandleWritesGood
<1>3. UNCHANGED <<wire, latest_received, fst, gripper, policy>>
  BY DEF HandleAnswers, HandleSilent
<1>. QED BY <1>1, <1>2, <1>3 DEF PipelineInv, PipelineTypeOK, AllGood, Good

LEMMA LeaderInv ==
  ASSUME PipelineInv, LeaderCycle PROVE PipelineInv'
<1>1. PICK action \in Played("leader", lst) :
        lst' = AfterPolicy(lst, action) /\ HearPolicy("leader", lst, action)
  BY DEF LeaderCycle
<1>2. lst \in Commands /\ Good(lst) /\ "leader" \in Nodes
  BY DEF PipelineInv, PipelineTypeOK, AllGood, Nodes
<1>3. Good(lst') /\ lst' \in Commands
  BY <1>1, <1>2, PlayedType, PolicyKeepsGood DEF PipelineInv, Good
<1>4. policy' \in Handlers
  BY <1>1, <1>2, HearPolicyType DEF PipelineInv
<1>5. wire' \subseteq wire \cup {lst'}
  BY DEF LeaderCycle
<1>6. UNCHANGED <<hand, latest_received, fst, gripper>>
  BY DEF LeaderCycle
<1>. QED BY <1>3, <1>4, <1>5, <1>6
         DEF PipelineInv, PipelineTypeOK, AllGood, Good, Handlers

LEMMA FollowerInv ==
  ASSUME PipelineInv, FollowerCycle PROVE PipelineInv'
<1>1. PICK action \in Played("follower", Decoded) :
        /\ fst' = AfterPolicy(Decoded, action)
        /\ HearPolicy("follower", Decoded, action)
  BY DEF FollowerCycle
<1>2. Good(Decoded) /\ Decoded \in Commands /\ "follower" \in Nodes
  BY DEF PipelineInv, AllGood, Decoded, Good, Nodes
<1>3. Good(fst') /\ fst' \in Commands
  BY <1>1, <1>2, PlayedType, PolicyKeepsGood DEF PipelineInv, Good
<1>4. policy' \in Handlers
  BY <1>1, <1>2, HearPolicyType DEF PipelineInv
<1>5. UNCHANGED <<hand, lst, wire, latest_received, gripper>>
  BY DEF FollowerCycle
<1>. QED BY <1>3, <1>4, <1>5
         DEF PipelineInv, PipelineTypeOK, AllGood, Good, Handlers

LEMMA EnvironmentInv ==
  ASSUME PipelineInv, Environment PROVE PipelineInv'
<1>1. CASE \E p \in wire : Lose(p) \/ Arrive(p)
  <2>1. PICK p \in wire : Lose(p) \/ Arrive(p)
    BY <1>1
  <2>2. /\ wire' \subseteq wire
        /\ latest_received' = latest_received \/ latest_received' = p
        /\ UNCHANGED <<hand, lst, fst, gripper, policy>>
    BY <2>1 DEF Lose, Arrive
  <2>. QED BY <2>1, <2>2 DEF PipelineInv, PipelineTypeOK, AllGood, Good
<1>2. CASE \E n \in PolicyNodes : PolicyActs(n) \/ PauseEnds(n)
  <2>1. PICK n \in PolicyNodes : PolicyActs(n) \/ PauseEnds(n)
    BY <1>2
  <2>2. policy \in Handlers /\ Residue \in 0..Residue
    BY PipelineAssumption DEF PipelineInv, PipelineTypeOK, Handlers
  <2>3. UNCHANGED <<hand, lst, wire, latest_received, fst, gripper>>
    BY <2>1 DEF PolicyActs, PauseEnds
  <2>4. CASE PolicyActs(n)
    <3>1. PICK g \in PolicyGrips : policy' = [policy EXCEPT ![n].action = g]
      BY <2>4 DEF PolicyActs
    <3>2. policy' \in Handlers
      BY <2>2, <3>1 DEF Handlers
    <3>. QED BY <2>3, <3>2 DEF PipelineInv, PipelineTypeOK, AllGood, Good, Handlers
  <2>5. CASE PauseEnds(n)
    <3>1. policy' \in Handlers
      BY <2>2, <2>5 DEF PauseEnds, Handlers
    <3>. QED BY <2>3, <3>1 DEF PipelineInv, PipelineTypeOK, AllGood, Good, Handlers
  <2>. QED BY <2>1, <2>4, <2>5
<1>. QED BY <1>1, <1>2 DEF Environment

LEMMA PipelineNextInv == PipelineInv /\ [PipelineNext]_pipelinevars => PipelineInv'
<1>. SUFFICES ASSUME PipelineInv, [PipelineNext]_pipelinevars PROVE PipelineInv'
  OBVIOUS
<1>1. CASE HandleAnswers \/ HandleSilent
  BY <1>1, HandleInv
<1>2. CASE LeaderCycle
  BY <1>2, LeaderInv
<1>3. CASE FollowerCycle
  BY <1>3, FollowerInv
<1>4. CASE GripperLoop
  BY <1>4 DEF GripperLoop, PipelineInv, PipelineTypeOK, AllGood, Good, Commands
<1>5. CASE Environment
  BY <1>5, EnvironmentInv
<1>6. CASE UNCHANGED pipelinevars
  BY <1>6 DEF pipelinevars, PipelineInv, PipelineTypeOK, AllGood, Good
<1>. QED BY <1>1, <1>2, <1>3, <1>4, <1>5, <1>6 DEF PipelineNext

\* Every command is good in every state.
LEMMA PipelineInvariance == PipelineSpec => []PipelineInv
BY PipelineInitInv, PipelineNextInv, PTL DEF PipelineSpec

-----------------------------------------------------------------------------
\* The commands, the policies and the gripper always have their types, in
\* every configuration of on_leader and on_follower.
THEOREM PipelineTypes == PipelineSpec => []PipelineTypeOK
<1>1. PipelineInv => PipelineTypeOK
  BY DEF PipelineInv
<1>. QED BY <1>1, PipelineInvariance, PTL

\* The operator keeps priority: once the handle thread has been told to open or
\* close, no packet and no state carries a policy's gripper command.
THEOREM OperatorFirst == PipelineSpec => []OperatorKeepsPriority
<1>1. PipelineInv => OperatorKeepsPriority
  BY DEF PipelineInv, AllGood, Good, OperatorKeepsPriority, Everywhere
<1>. QED BY <1>1, PipelineInvariance, PTL
=============================================================================
