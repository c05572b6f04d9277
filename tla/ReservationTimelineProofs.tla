---------------------- MODULE ReservationTimelineProofs ----------------------
(***************************************************************************)
(* The vector of segments implements the instant-by-instant plan, and the  *)
(* vector that a pass starts from is the capacity then in effect less the  *)
(* nodes then held: for every horizon, word size, set of running jobs and  *)
(* schedule of capacity changes.                                           *)
(*                                                                         *)
(* The inductive invariant is that the vector is well formed: it begins at *)
(* time 0 and its boundaries increase.  From it follow, in this order,     *)
(* what a vector stands for at an instant, that splitting and coalescing   *)
(* leave that alone, and that the walk of earliest_fit() never passes an   *)
(* instant at which the request fits.                                      *)
(***************************************************************************)
EXTENDS ReservationTimeline, SumProofs, SequenceTheorems

Instant == 0 .. Horizon
Segment == [time : Instant, free : 0 .. Word - 1]

(* It begins at time 0 and its boundaries increase. *)
WellFormed(s) ==
  /\ s \in Seq(Segment) /\ Len(s) >= 1 /\ s[1].time = 0
  /\ \A i, j \in 1 .. Len(s) : i < j => s[i].time < s[j].time

(* The segment in effect at t, and what the vector s says of t. *)
In(s, i, t) ==
  /\ i \in 1 .. Len(s) /\ s[i].time <= t
  /\ \A j \in 1 .. Len(s) : i < j => t < s[j].time
Free(s, t) == s[SegmentAt(s, t)].free

-----------------------------------------------------------------------------
LEMMA Constants ==
  /\ Horizon \in Nat /\ Word \in Nat \ {0}
  /\ Instant \subseteq Nat /\ 0 \in Instant
BY TimelineAssumption DEF Instant

LEMMA SegmentFacts ==
  ASSUME NEW s, WellFormed(s)
  PROVE  /\ Len(s) \in Nat /\ Len(s) >= 1 /\ 1 \in 1 .. Len(s) /\ s[1].time = 0
         /\ DOMAIN s = 1 .. Len(s)
         /\ \A i \in 1 .. Len(s) :
              /\ s[i] \in Segment /\ s[i].time \in Instant /\ s[i].free \in 0 .. Word - 1
              /\ s[i].time \in Nat /\ s[i].free \in Nat
         /\ \A i, j \in 1 .. Len(s) : i < j => s[i].time < s[j].time
<1>1. s \in Seq(Segment) /\ Len(s) \in Nat
  BY DEF WellFormed
<1>2. \A i \in 1 .. Len(s) : s[i] \in Segment
  BY <1>1
<1>3. ASSUME NEW i \in 1 .. Len(s)
      PROVE  /\ s[i].time \in Instant /\ s[i].free \in 0 .. Word - 1
             /\ s[i].time \in Nat /\ s[i].free \in Nat
  <2>1. s[i].time \in Instant /\ s[i].free \in 0 .. Word - 1
    BY <1>2 DEF Segment
  <2>2. s[i].time \in Nat
    BY <2>1, Constants
  <2>3. s[i].free \in Nat
    BY <2>1, Constants
  <2> QED BY <2>1, <2>2, <2>3
<1> QED BY <1>1, <1>2, <1>3 DEF WellFormed

(* Every instant is in one segment. *)
LEMMA InExists ==
  ASSUME NEW s, WellFormed(s), NEW t \in Nat
  PROVE  \E i : In(s, i, t)
<1> DEFINE T == {i \in 1 .. Len(s) : s[i].time <= t}
<1>1. T \subseteq 0 .. Len(s) /\ T # {} /\ Len(s) \in Nat
  BY SegmentFacts
<1>2. PICK i \in T : \A j \in T : j <= i
  BY <1>1, GreatestExists
<1>3. ASSUME NEW j \in 1 .. Len(s), i < j PROVE t < s[j].time
  <2>1. j \notin T /\ s[j].time \in Nat
    BY <1>1, <1>2, <1>3, SegmentFacts
  <2> QED BY <2>1
<1> QED BY <1>2, <1>3 DEF In

LEMMA InUnique ==
  ASSUME NEW s, WellFormed(s), NEW t \in Nat, NEW i, NEW j, In(s, i, t), In(s, j, t)
  PROVE  i = j
<1>1. /\ i \in 1 .. Len(s) /\ j \in 1 .. Len(s) /\ Len(s) \in Nat
      /\ s[i].time \in Nat /\ s[j].time \in Nat
      /\ s[i].time <= t /\ s[j].time <= t
      /\ i < j => t < s[j].time
      /\ j < i => t < s[i].time
  BY SegmentFacts DEF In
<1> QED BY <1>1

(* SegmentAt() finds it: it looks only at the next boundary. *)
LEMMA SegmentAtIs ==
  ASSUME NEW s, WellFormed(s), NEW t \in Nat
  PROVE  In(s, SegmentAt(s, t), t)
<1> DEFINE P(i) == s[i].time <= t /\ (i = Len(s) \/ t < s[i + 1].time)
<1>0. Len(s) \in Nat /\ \A i \in 1 .. Len(s) : s[i].time \in Nat
  BY SegmentFacts
<1>1. PICK k : In(s, k, t)
  BY InExists
<1>2. k \in 1 .. Len(s) /\ P(k)
  <2>1. k \in 1 .. Len(s) /\ s[k].time <= t
    BY <1>1 DEF In
  <2>2. k # Len(s) => k + 1 \in 1 .. Len(s) /\ k < k + 1
    BY <2>1, <1>0
  <2> QED BY <2>1, <2>2, <1>1 DEF In
<1>3. SegmentAt(s, t) = CHOOSE i \in 1 .. Len(s) : P(i)
  BY DEF SegmentAt
<1>4. SegmentAt(s, t) \in 1 .. Len(s) /\ P(SegmentAt(s, t))
  <2> HIDE DEF P
  <2> QED BY <1>2, <1>3
<1> DEFINE i == SegmentAt(s, t)
<1>5. ASSUME NEW j \in 1 .. Len(s), i < j PROVE t < s[j].time
  <2>1. i \in 1 .. Len(s) /\ i # Len(s) /\ i + 1 \in 1 .. Len(s) /\ t < s[i + 1].time
    BY <1>0, <1>4, <1>5
  <2>2. s[i + 1].time <= s[j].time
    <3>1. i + 1 = j \/ i + 1 < j
      BY <2>1, <1>5, <1>0
    <3>2. i + 1 < j => s[i + 1].time < s[j].time
      BY <2>1, SegmentFacts
    <3> QED BY <3>1, <3>2, <2>1, <1>0
  <2>3. s[i + 1].time \in Nat /\ s[j].time \in Nat
    BY <2>1, <1>0
  <2> HIDE DEF i
  <2> QED BY <2>1, <2>2, <2>3
<1> QED BY <1>4, <1>5 DEF In

LEMMA SegmentAtUnique ==
  ASSUME NEW s, WellFormed(s), NEW t \in Nat, NEW i, In(s, i, t)
  PROVE  SegmentAt(s, t) = i /\ Free(s, t) = s[i].free
<1>1. SegmentAt(s, t) = i
  BY SegmentAtIs, InUnique
<1> QED BY <1>1 DEF Free

LEMMA FreeType ==
  ASSUME NEW s, WellFormed(s), NEW t \in Nat
  PROVE  Free(s, t) \in 0 .. Word - 1
<1>1. SegmentAt(s, t) \in 1 .. Len(s)
  BY SegmentAtIs DEF In
<1> QED BY <1>1, SegmentFacts DEF Free

-----------------------------------------------------------------------------
(* What reserve() is made of leaves the free nodes at every instant. *)

LEMMA InsertAtIs ==
  ASSUME NEW S, NEW s \in Seq(S), NEW i \in 1 .. Len(s) + 1, NEW e \in S
  PROVE  /\ InsertAt(s, i, e) \in Seq(S) /\ Len(InsertAt(s, i, e)) = Len(s) + 1
         /\ \A k \in 1 .. Len(s) + 1 :
              InsertAt(s, i, e)[k] = IF k < i THEN s[k] ELSE IF k = i THEN e ELSE s[k - 1]
<1> DEFINE a == SubSeq(s, 1, i - 1)
<1> DEFINE b == SubSeq(s, i, Len(s))
<1> DEFINE m == <<e>>
<1>0. Len(s) \in Nat /\ i \in Int /\ i >= 1 /\ i <= Len(s) + 1 /\ \A k \in 1 .. Len(s) : s[k] \in S
  OBVIOUS
<1>1. /\ a \in Seq(S) /\ Len(a) = i - 1
      /\ \A k \in 1 .. i - 1 : a[k] = s[k]
  <2>1. \A k \in 1 .. i - 1 : s[k] \in S
    BY <1>0
  <2>2. /\ a \in Seq(S) /\ Len(a) = IF 1 <= i - 1 THEN (i - 1) - 1 + 1 ELSE 0
        /\ \A k \in 1 .. (i - 1) - 1 + 1 : a[k] = s[1 + k - 1]
    BY <2>1, <1>0, SubSeqProperties
  <2> HIDE DEF a
  <2>3. Len(a) = i - 1
    BY <2>2, <1>0
  <2>4. ASSUME NEW k \in 1 .. i - 1 PROVE a[k] = s[k]
    <3>1. k \in 1 .. (i - 1) - 1 + 1 /\ 1 + k - 1 = k
      BY <1>0
    <3> QED BY <3>1, <2>2
  <2> QED BY <2>2, <2>3, <2>4
<1>2. /\ b \in Seq(S) /\ Len(b) = Len(s) - i + 1
      /\ \A k \in 1 .. Len(s) - i + 1 : b[k] = s[i + k - 1]
  <2>1. \A k \in i .. Len(s) : s[k] \in S
    BY <1>0
  <2>2. /\ b \in Seq(S) /\ Len(b) = IF i <= Len(s) THEN Len(s) - i + 1 ELSE 0
        /\ \A k \in 1 .. Len(s) - i + 1 : b[k] = s[i + k - 1]
    BY <2>1, <1>0, SubSeqProperties
  <2> HIDE DEF b
  <2> QED BY <2>2, <1>0
<1>3. m \in Seq(S) /\ Len(m) = 1 /\ m[1] = e
  OBVIOUS
<1> HIDE DEF a, b, m
<1> DEFINE c == a \o m
<1>4. /\ c \in Seq(S) /\ Len(c) = i
      /\ \A k \in 1 .. i : c[k] = IF k < i THEN s[k] ELSE e
  <2>1. /\ c \in Seq(S) /\ Len(c) = Len(a) + Len(m)
        /\ \A k \in 1 .. Len(a) + Len(m) : c[k] = IF k <= Len(a) THEN a[k] ELSE m[k - Len(a)]
    BY <1>1, <1>3, ConcatProperties
  <2> HIDE DEF c
  <2>2. Len(c) = i
    BY <2>1, <1>1, <1>3, <1>0
  <2>3. ASSUME NEW k \in 1 .. i PROVE c[k] = IF k < i THEN s[k] ELSE e
    <3>1. k \in 1 .. Len(a) + Len(m) /\ (k < i <=> k <= Len(a)) /\ (~(k < i) => k - Len(a) = 1)
      BY <1>0, <1>1, <1>3
    <3>2. c[k] = IF k <= Len(a) THEN a[k] ELSE m[k - Len(a)]
      BY <3>1, <2>1
    <3>3. k < i => k \in 1 .. i - 1
      BY <1>0
    <3> QED BY <3>1, <3>2, <3>3, <1>1, <1>3
  <2> QED BY <2>1, <2>2, <2>3
<1> HIDE DEF c
<1> DEFINE q == c \o b
<1>5. InsertAt(s, i, e) = q
  BY DEF InsertAt, q, c, a, b, m
<1>6. /\ q \in Seq(S) /\ Len(q) = Len(c) + Len(b)
      /\ \A k \in 1 .. Len(c) + Len(b) : q[k] = IF k <= Len(c) THEN c[k] ELSE b[k - Len(c)]
  BY <1>2, <1>4, ConcatProperties
<1> HIDE DEF q
<1>7. Len(q) = Len(s) + 1
  BY <1>0, <1>2, <1>4, <1>6
<1>8. ASSUME NEW k \in 1 .. Len(s) + 1
      PROVE  q[k] = IF k < i THEN s[k] ELSE IF k = i THEN e ELSE s[k - 1]
  <2>1. q[k] = IF k <= i THEN c[k] ELSE b[k - i]
    <3>1. k \in 1 .. Len(c) + Len(b)
      BY <1>0, <1>2, <1>4
    <3> QED BY <3>1, <1>4, <1>6
  <2>2. k <= i => c[k] = IF k < i THEN s[k] ELSE e
    BY <1>0, <1>4
  <2>3. k > i => b[k - i] = s[k - 1]
    <3> SUFFICES ASSUME k > i PROVE b[k - i] = s[k - 1]
      OBVIOUS
    <3>1. k - i \in 1 .. Len(s) - i + 1 /\ i + (k - i) - 1 = k - 1
      BY <1>0
    <3>2. b[k - i] = s[i + (k - i) - 1]
      BY <3>1, <1>2
    <3> QED BY <3>1, <3>2
  <2> QED BY <2>1, <2>2, <2>3, <1>0
<1> QED BY <1>5, <1>6, <1>7, <1>8

LEMMA RemoveAtIs ==
  ASSUME NEW S, NEW s \in Seq(S), NEW i \in 1 .. Len(s)
  PROVE  /\ RemoveAt(s, i) \in Seq(S) /\ Len(RemoveAt(s, i)) = Len(s) - 1
         /\ \A k \in 1 .. Len(s) - 1 : RemoveAt(s, i)[k] = IF k < i THEN s[k] ELSE s[k + 1]
<1> DEFINE a == SubSeq(s, 1, i - 1)
<1> DEFINE b == SubSeq(s, i + 1, Len(s))
<1>0. Len(s) \in Nat /\ i \in Int /\ i >= 1 /\ i <= Len(s) /\ \A k \in 1 .. Len(s) : s[k] \in S
  OBVIOUS
<1>1. /\ a \in Seq(S) /\ Len(a) = i - 1
      /\ \A k \in 1 .. i - 1 : a[k] = s[k]
  <2>1. \A k \in 1 .. i - 1 : s[k] \in S
    BY <1>0
  <2>2. /\ a \in Seq(S) /\ Len(a) = IF 1 <= i - 1 THEN (i - 1) - 1 + 1 ELSE 0
        /\ \A k \in 1 .. (i - 1) - 1 + 1 : a[k] = s[1 + k - 1]
    BY <2>1, <1>0, SubSeqProperties
  <2> HIDE DEF a
  <2>3. Len(a) = i - 1
    BY <2>2, <1>0
  <2>4. ASSUME NEW k \in 1 .. i - 1 PROVE a[k] = s[k]
    <3>1. k \in 1 .. (i - 1) - 1 + 1 /\ 1 + k - 1 = k
      BY <1>0
    <3> QED BY <3>1, <2>2
  <2> QED BY <2>2, <2>3, <2>4
<1>2. /\ b \in Seq(S) /\ Len(b) = Len(s) - i
      /\ \A k \in 1 .. Len(s) - i : b[k] = s[i + k]
  <2>1. (\A k \in i + 1 .. Len(s) : s[k] \in S) /\ i + 1 \in Int
    BY <1>0
  <2>2. /\ b \in Seq(S) /\ Len(b) = IF i + 1 <= Len(s) THEN Len(s) - (i + 1) + 1 ELSE 0
        /\ \A k \in 1 .. Len(s) - (i + 1) + 1 : b[k] = s[(i + 1) + k - 1]
    BY <2>1, <1>0, SubSeqProperties
  <2> HIDE DEF b
  <2>3. Len(b) = Len(s) - i
    BY <2>2, <1>0
  <2>4. ASSUME NEW k \in 1 .. Len(s) - i PROVE b[k] = s[i + k]
    <3>1. k \in 1 .. Len(s) - (i + 1) + 1 /\ (i + 1) + k - 1 = i + k
      BY <1>0
    <3> QED BY <3>1, <2>2
  <2> QED BY <2>2, <2>3, <2>4
<1> HIDE DEF a, b
<1> DEFINE q == a \o b
<1>3. RemoveAt(s, i) = q
  BY DEF RemoveAt, q, a, b
<1>4. /\ q \in Seq(S) /\ Len(q) = Len(a) + Len(b)
      /\ \A k \in 1 .. Len(a) + Len(b) : q[k] = IF k <= Len(a) THEN a[k] ELSE b[k - Len(a)]
  BY <1>1, <1>2, ConcatProperties
<1> HIDE DEF q
<1>5. Len(q) = Len(s) - 1
  BY <1>0, <1>1, <1>2, <1>4
<1>6. ASSUME NEW k \in 1 .. Len(s) - 1
      PROVE  q[k] = IF k < i THEN s[k] ELSE s[k + 1]
  <2>1. q[k] = IF k <= i - 1 THEN a[k] ELSE b[k - (i - 1)]
    <3>1. k \in 1 .. Len(a) + Len(b)
      BY <1>0, <1>1, <1>2
    <3> QED BY <3>1, <1>1, <1>4
  <2>2. k < i => a[k] = s[k]
    BY <1>0, <1>1
  <2>3. k >= i => b[k - (i - 1)] = s[k + 1]
    <3> SUFFICES ASSUME k >= i PROVE b[k - (i - 1)] = s[k + 1]
      OBVIOUS
    <3>1. k - (i - 1) \in 1 .. Len(s) - i /\ i + (k - (i - 1)) = k + 1
      BY <1>0
    <3>2. b[k - (i - 1)] = s[i + (k - (i - 1))]
      BY <3>1, <1>2
    <3> QED BY <3>1, <3>2
  <2> QED BY <2>1, <2>2, <2>3, <1>0
<1> QED BY <1>3, <1>4, <1>5, <1>6

(* The vectors s and q say the same of every instant. *)
Same(s, q) == \A u \in Nat : Free(q, u) = Free(s, u)

(* split_at() makes t a boundary and loses none. *)
LEMMA SplitKeeps ==
  ASSUME NEW s, WellFormed(s), NEW t \in Instant
  PROVE  LET q == split_at(s, t)
         IN  /\ WellFormed(q) /\ Same(s, q)
             /\ \E k \in 1 .. Len(q) : q[k].time = t
             /\ \A k \in 1 .. Len(s) : \E m \in 1 .. Len(q) : q[m].time = s[k].time
<1> DEFINE i == SegmentAt(s, t)
<1> DEFINE e == [time |-> t, free |-> s[i].free]
<1> DEFINE q == InsertAt(s, i + 1, e)
<1>1. In(s, i, t) /\ t \in Nat
  BY SegmentAtIs, Constants
<1> HIDE DEF i
<1>2. CASE s[i].time = t
  <2>1. split_at(s, t) = s
    BY <1>2 DEF split_at, i
  <2> QED BY <2>1, <1>1, <1>2 DEF Same, In
<1>3. CASE s[i].time # t
  <2>1. split_at(s, t) = q
    BY <1>3 DEF split_at, i
  <2>2. /\ Len(s) \in Nat /\ Len(s) >= 1 /\ i \in 1 .. Len(s) /\ s[i].time < t
        /\ s \in Seq(Segment) /\ s[1].time = 0
        /\ \A k \in 1 .. Len(s) : s[k].time \in Nat
        /\ \A k \in 1 .. Len(s) : i < k => t < s[k].time
        /\ \A k, j \in 1 .. Len(s) : k < j => s[k].time < s[j].time
    BY <1>1, <1>3, SegmentFacts DEF In, WellFormed
  <2>3. e \in Segment /\ e.time = t /\ e.free = s[i].free
    BY <2>2, SegmentFacts DEF Segment
  <2> HIDE DEF e
  <2>4. /\ q \in Seq(Segment) /\ Len(q) = Len(s) + 1
        /\ \A k \in 1 .. Len(s) + 1 :
             q[k] = IF k < i + 1 THEN s[k] ELSE IF k = i + 1 THEN e ELSE s[k - 1]
    <3> DEFINE p == i + 1
    <3>1. p \in 1 .. Len(s) + 1
      BY <2>2
    <3>0. s \in Seq(Segment) /\ e \in Segment
      BY <2>2, <2>3
    <3> HIDE DEF p
    <3>2. /\ InsertAt(s, p, e) \in Seq(Segment) /\ Len(InsertAt(s, p, e)) = Len(s) + 1
          /\ \A k \in 1 .. Len(s) + 1 :
               InsertAt(s, p, e)[k] = IF k < p THEN s[k] ELSE IF k = p THEN e ELSE s[k - 1]
      BY <3>0, <3>1, InsertAtIs
    <3> QED BY <3>2 DEF p
  <2> HIDE DEF q
  <2>5. \A k \in 1 .. Len(s) + 1 :
          q[k].time = IF k < i + 1 THEN s[k].time ELSE IF k = i + 1 THEN t ELSE s[k - 1].time
    BY <2>3, <2>4
  <2>6. ASSUME NEW k \in 1 .. Len(q), NEW j \in 1 .. Len(q), k < j
        PROVE  q[k].time < q[j].time
    <3>1. k \in 1 .. Len(s) + 1 /\ j \in 1 .. Len(s) + 1
      BY <2>4
    <3>2. CASE j < i + 1
      <4>1. k \in 1 .. Len(s) /\ j \in 1 .. Len(s) /\ k < i + 1
        BY <2>2, <3>1, <3>2, <2>6
      <4> QED BY <4>1, <3>1, <3>2, <2>2, <2>5, <2>6
    <3>3. CASE j = i + 1
      <4>1. k \in 1 .. Len(s) /\ k < i + 1 /\ (k = i \/ k < i)
        BY <2>2, <3>1, <3>3, <2>6
      <4>2. s[k].time < t
        BY <4>1, <2>2, <1>1
      <4> QED BY <4>1, <4>2, <3>1, <3>3, <2>5
    <3>4. CASE j > i + 1
      <4>1. j - 1 \in 1 .. Len(s) /\ i < j - 1 /\ q[j].time = s[j - 1].time
        BY <2>2, <3>1, <3>4, <2>5
      <4>2. CASE k < i + 1
        <5>1. k \in 1 .. Len(s) /\ k < j - 1
          BY <2>2, <3>1, <4>1, <4>2
        <5> QED BY <5>1, <4>1, <4>2, <3>1, <2>2, <2>5
      <4>3. CASE k = i + 1
        BY <4>1, <4>3, <3>1, <2>2, <2>5, SMTT(60)
      <4>4. CASE k > i + 1
        <5>1. k - 1 \in 1 .. Len(s) /\ k - 1 < j - 1
          BY <2>2, <3>1, <4>1, <4>4, <2>6
        <5> QED BY <5>1, <4>1, <4>4, <3>1, <2>2, <2>5, SMTT(60)
      <4> QED BY <4>2, <4>3, <4>4, <3>1, <2>2
    <3> QED BY <3>1, <3>2, <3>3, <3>4, <2>2
  <2>7. WellFormed(q)
    <3>1. Len(q) >= 1 /\ 1 \in 1 .. Len(s) + 1 /\ 1 < i + 1
      BY <2>2, <2>4
    <3>2. q[1].time = 0
      BY <3>1, <2>2, <2>5
    <3> QED BY <2>4, <2>6, <3>1, <3>2 DEF WellFormed
  <2>8. ASSUME NEW u \in Nat PROVE Free(q, u) = Free(s, u)
    <3> DEFINE j == SegmentAt(s, u)
    <3>1. In(s, j, u) /\ Free(s, u) = s[j].free
      BY SegmentAtIs DEF Free
    <3> HIDE DEF j
    <3>2. /\ j \in 1 .. Len(s) /\ s[j].time <= u
          /\ \A k \in 1 .. Len(s) : j < k => u < s[k].time
      BY <3>1 DEF In
    <3> DEFINE m == IF j < i \/ (j = i /\ u < t) THEN j ELSE j + 1
    <3>3. m \in 1 .. Len(q) /\ m \in 1 .. Len(s) + 1
      BY <2>2, <2>4, <3>2
    <3>4. q[m].time <= u /\ q[m].free = s[j].free
      <4>1. CASE j < i \/ (j = i /\ u < t)
        <5>1. q[m] = s[j]
          BY <4>1, <2>2, <2>4, <3>2
        <5> QED BY <5>1, <3>2
      <4>2. CASE j = i /\ ~(u < t)
        <5>1. q[m] = e
          BY <4>2, <2>2, <2>4, <3>2
        <5> QED BY <5>1, <4>2, <2>3, <1>1
      <4>3. CASE j > i
        <5>1. m = j + 1 /\ m \in 1 .. Len(s) + 1 /\ ~(m < i + 1) /\ m # i + 1 /\ m - 1 = j
          BY <4>3, <2>2, <3>2
        <5>2. q[m] = s[j]
          BY <5>1, <2>4
        <5> QED BY <5>2, <3>2
      <4> QED BY <4>1, <4>2, <4>3, <2>2, <3>2
    <3>5. ASSUME NEW k \in 1 .. Len(q), m < k PROVE u < q[k].time
      <4>1. k \in 1 .. Len(s) + 1
        BY <2>4
      <4>2. CASE k < i + 1
        <5>1. k \in 1 .. Len(s) /\ j < k
          BY <4>1, <4>2, <3>2, <3>5, <2>2
        <5> QED BY <5>1, <4>1, <4>2, <3>2, <2>5
      <4>3. CASE k = i + 1
        <5>1. q[k].time = t
          BY <4>1, <4>3, <2>5
        <5>2. j < i \/ (j = i /\ u < t)
          BY <4>3, <3>2, <3>5, <2>2
        <5>3. CASE j < i
          <6>1. u < s[i].time
            BY <5>3, <3>2, <2>2
          <6> QED BY <6>1, <5>1, <2>2, <1>1
        <5> QED BY <5>1, <5>2, <5>3
      <4>4. CASE k > i + 1
        <5>1. k - 1 \in 1 .. Len(s) /\ j < k - 1 /\ q[k].time = s[k - 1].time
          BY <4>1, <4>4, <3>2, <3>5, <2>2, <2>5
        <5> QED BY <5>1, <3>2
      <4> QED BY <4>1, <4>2, <4>3, <4>4, <2>2
    <3> HIDE DEF m
    <3>6. In(q, m, u)
      BY <3>3, <3>4, <3>5 DEF In
    <3> QED BY <3>1, <3>4, <3>6, <2>7, SegmentAtUnique
  <2>9. \E k \in 1 .. Len(q) : q[k].time = t
    <3>1. i + 1 \in 1 .. Len(q) /\ i + 1 \in 1 .. Len(s) + 1
      BY <2>2, <2>4
    <3>2. q[i + 1].time = t
      BY <3>1, <2>5, <2>2
    <3> QED BY <3>1, <3>2
  <2>10. ASSUME NEW k \in 1 .. Len(s) PROVE \E m \in 1 .. Len(q) : q[m].time = s[k].time
    <3>1. CASE k < i + 1
      <4>1. k \in 1 .. Len(q) /\ k \in 1 .. Len(s) + 1
        BY <2>2, <2>4
      <4> QED BY <4>1, <3>1, <2>5
    <3>2. CASE ~(k < i + 1)
      <4>1. k + 1 \in 1 .. Len(q) /\ k + 1 \in 1 .. Len(s) + 1 /\ ~(k + 1 < i + 1) /\ k + 1 # i + 1
            /\ (k + 1) - 1 = k
        BY <2>2, <2>4, <3>2
      <4>2. q[k + 1].time = s[k].time
        BY <4>1, <2>5
      <4> QED BY <4>1, <4>2
    <3> QED BY <3>1, <3>2
  <2> QED BY <2>1, <2>7, <2>8, <2>9, <2>10 DEF Same
<1> QED BY <1>2, <1>3

(* A boundary that changes nothing may go. *)
LEMMA CoalesceKeeps ==
  ASSUME NEW s, WellFormed(s), NEW i \in 1 .. Len(s)
  PROVE  LET q == coalesce(s, i)
         IN  /\ WellFormed(q) /\ Same(s, q)
             /\ q = s \/ (i > 1 /\ Len(q) = Len(s) - 1)
<1> DEFINE q == RemoveAt(s, i)
<1>1. CASE ~(i > 1 /\ s[i - 1].free = s[i].free)
  <2>1. coalesce(s, i) = s
    BY <1>1 DEF coalesce
  <2> QED BY <2>1 DEF Same
<1>2. CASE i > 1 /\ s[i - 1].free = s[i].free
  <2>1. coalesce(s, i) = q
    BY <1>2 DEF coalesce
  <2>2. /\ Len(s) \in Nat /\ Len(s) >= 1 /\ i > 1
        /\ s \in Seq(Segment) /\ s[1].time = 0
        /\ \A k \in 1 .. Len(s) : s[k].time \in Nat
        /\ \A k, j \in 1 .. Len(s) : k < j => s[k].time < s[j].time
    BY <1>2, SegmentFacts DEF WellFormed
  <2>3. /\ q \in Seq(Segment) /\ Len(q) = Len(s) - 1
        /\ \A k \in 1 .. Len(s) - 1 : q[k] = IF k < i THEN s[k] ELSE s[k + 1]
    BY <2>2, RemoveAtIs
  <2> HIDE DEF q
  <2>4. ASSUME NEW k \in 1 .. Len(q), NEW j \in 1 .. Len(q), k < j
        PROVE  q[k].time < q[j].time
    <3> DEFINE kk == IF k < i THEN k ELSE k + 1
    <3> DEFINE jj == IF j < i THEN j ELSE j + 1
    <3>1. kk \in 1 .. Len(s) /\ jj \in 1 .. Len(s) /\ kk < jj
      BY <2>2, <2>3, <2>4
    <3>2. q[k] = s[kk] /\ q[j] = s[jj]
      BY <2>3
    <3> HIDE DEF kk, jj
    <3> QED BY <3>1, <3>2, <2>2
  <2>5. WellFormed(q)
    <3>1. Len(q) >= 1 /\ 1 \in 1 .. Len(s) - 1 /\ 1 < i
      BY <2>2, <2>3
    <3>2. q[1] = s[1]
      BY <3>1, <2>3
    <3> QED BY <2>2, <2>3, <2>4, <3>1, <3>2 DEF WellFormed
  <2>6. ASSUME NEW u \in Nat PROVE Free(q, u) = Free(s, u)
    <3> DEFINE j == SegmentAt(s, u)
    <3>1. In(s, j, u) /\ Free(s, u) = s[j].free
      BY SegmentAtIs DEF Free
    <3> HIDE DEF j
    <3>2. /\ j \in 1 .. Len(s) /\ s[j].time <= u
          /\ \A k \in 1 .. Len(s) : j < k => u < s[k].time
      BY <3>1 DEF In
    <3> DEFINE m == IF j < i THEN j ELSE j - 1
    <3>3. m \in 1 .. Len(q) /\ m \in 1 .. Len(s) - 1
      BY <2>2, <2>3, <3>2
    <3>4. q[m].time <= u /\ q[m].free = s[j].free
      <4>1. CASE j < i
        BY <4>1, <2>3, <3>2, <3>3
      <4>2. CASE j = i
        <5>1. m = i - 1 /\ m < i /\ m \in 1 .. Len(s) /\ i - 1 < i
          BY <4>2, <2>2
        <5>2. q[m] = s[i - 1]
          BY <5>1, <2>3, <3>3
        <5>3. s[i - 1].time < s[i].time /\ s[i - 1].time \in Nat /\ s[i].time \in Nat
          BY <5>1, <2>2
        <5> HIDE DEF m
        <5> QED BY <5>2, <5>3, <4>2, <3>2, <1>2
      <4>3. CASE j > i
        <5>1. m = j - 1 /\ ~(m < i) /\ m + 1 = j
          BY <4>3, <2>2, <3>2
        <5>2. q[m] = s[j]
          BY <5>1, <2>3, <3>3
        <5> QED BY <5>2, <3>2
      <4> QED BY <4>1, <4>2, <4>3, <2>2, <3>2
    <3>5. ASSUME NEW k \in 1 .. Len(q), m < k PROVE u < q[k].time
      <4> DEFINE kk == IF k < i THEN k ELSE k + 1
      <4>1. kk \in 1 .. Len(s) /\ j < kk
        BY <2>2, <2>3, <3>2, <3>5
      <4>2. q[k] = s[kk]
        BY <2>3
      <4> HIDE DEF kk
      <4> QED BY <4>1, <4>2, <3>2
    <3> HIDE DEF m
    <3>6. In(q, m, u)
      BY <3>3, <3>4, <3>5 DEF In
    <3> QED BY <3>1, <3>4, <3>6, <2>5, SegmentAtUnique
  <2> QED BY <2>1, <2>2, <2>3, <2>5, <2>6 DEF Same
<1> QED BY <1>1, <1>2

(* Boundary() is the segment that begins at t. *)
LEMMA BoundaryIs ==
  ASSUME NEW s, WellFormed(s), NEW t \in Nat, \E k \in 1 .. Len(s) : s[k].time = t
  PROVE  Boundary(s, t) \in 1 .. Len(s) /\ s[Boundary(s, t)].time = t
<1> DEFINE P(k) == s[k].time = t
<1>1. Boundary(s, t) = CHOOSE k \in 1 .. Len(s) : P(k)
  BY DEF Boundary
<1>2. \E k \in 1 .. Len(s) : P(k)
  OBVIOUS
<1>3. Boundary(s, t) \in 1 .. Len(s) /\ P(Boundary(s, t))
  <2> HIDE DEF P
  <2> QED BY <1>1, <1>2
<1> QED BY <1>3

(* The unsigned subtraction of reserve() is that of the plan. *)
LEMMA SubtractIs ==
  ASSUME NEW a \in 0 .. Word - 1, NEW n \in 0 .. Word - 1
  PROVE  (a - n) % Word = Plan!Minus(a, n) /\ Plan!Minus(a, n) \in 0 .. Word - 1
BY Constants DEF Plan!Minus

(* reserve() subtracts n at the instants from start on and before          *)
(* start + d, and nowhere else.                                            *)
LEMMA ReservedIs ==
  ASSUME WellFormed(segs), NEW start \in Instant, NEW d \in Nat \ {0}, start + d \in Instant,
         NEW n \in 0 .. Word - 1
  PROVE  LET q == ReservedSegments(start, n, d)
         IN  /\ WellFormed(q)
             /\ \A u \in Nat : Free(q, u) = IF start <= u /\ u < start + d
                                             THEN Plan!Minus(Free(segs, u), n) ELSE Free(segs, u)
<1> DEFINE fin == start + d
<1> DEFINE once == split_at(segs, start)
<1> DEFINE split == split_at(once, fin)
<1> DEFINE first == Boundary(split, start)
<1> DEFINE last == Boundary(split, fin)
<1> DEFINE taken == [i \in 1 .. Len(split) |->
                       IF first <= i /\ i < last
                       THEN [split[i] EXCEPT !.free = (@ - n) % Word] ELSE split[i]]
<1> DEFINE less == coalesce(taken, first)
<1> DEFINE at == IF less = taken THEN last ELSE last - 1
<1>0. /\ ReservedSegments(start, n, d) = coalesce(less, at)
      /\ start \in Nat /\ fin \in Nat /\ fin \in Instant /\ start < fin
  BY Constants DEF ReservedSegments
<1> HIDE DEF fin
<1>1. /\ WellFormed(once) /\ Same(segs, once)
      /\ \E k \in 1 .. Len(once) : once[k].time = start
  BY SplitKeeps
<1> HIDE DEF once
<1>2. /\ WellFormed(split) /\ Same(once, split)
      /\ \E k \in 1 .. Len(split) : split[k].time = fin
      /\ \A k \in 1 .. Len(once) : \E m \in 1 .. Len(split) : split[m].time = once[k].time
  BY <1>0, <1>1, SplitKeeps
<1> HIDE DEF split
<1>3. \E k \in 1 .. Len(split) : split[k].time = start
  BY <1>1, <1>2
<1>4. /\ first \in 1 .. Len(split) /\ split[first].time = start
      /\ last \in 1 .. Len(split) /\ split[last].time = fin
  BY <1>0, <1>2, <1>3, BoundaryIs
<1> HIDE DEF first, last
<1>5. /\ Len(split) \in Nat /\ Len(split) >= 1 /\ split[1].time = 0 /\ split \in Seq(Segment)
      /\ \A i \in 1 .. Len(split) :
           /\ split[i] \in Segment /\ split[i].time \in Nat
           /\ split[i].free \in 0 .. Word - 1
      /\ \A i, j \in 1 .. Len(split) : i < j => split[i].time < split[j].time
  BY <1>2, SegmentFacts DEF WellFormed
<1>6. first < last
  <2>1. last < first => fin < start
    BY <1>4, <1>5
  <2>2. last # first
    BY <1>0, <1>4
  <2> QED BY <2>1, <2>2, <1>0, <1>4, <1>5
<1>7. ASSUME NEW i \in 1 .. Len(split)
      PROVE  /\ taken[i] \in Segment /\ taken[i].time = split[i].time
             /\ taken[i].free = IF first <= i /\ i < last THEN Plan!Minus(split[i].free, n)
                                ELSE split[i].free
  <2>1. CASE first <= i /\ i < last
    <3>1. taken[i] = [split[i] EXCEPT !.free = (@ - n) % Word]
      BY <2>1
    <3>2. split[i] \in Segment /\ split[i].free \in 0 .. Word - 1
      BY <1>5
    <3>3. /\ (split[i].free - n) % Word = Plan!Minus(split[i].free, n)
          /\ Plan!Minus(split[i].free, n) \in 0 .. Word - 1
      BY <3>2, SubtractIs
    <3> HIDE DEF taken
    <3> QED BY <2>1, <3>1, <3>2, <3>3 DEF Segment
  <2>2. CASE ~(first <= i /\ i < last)
    <3>1. taken[i] = split[i]
      BY <2>2
    <3> HIDE DEF taken
    <3> QED BY <2>2, <3>1, <1>5
  <2> QED BY <2>1, <2>2
<1>8. taken \in Seq(Segment) /\ Len(taken) = Len(split)
  <2>1. taken = [i \in 1 .. Len(split) |-> taken[i]]
    OBVIOUS
  <2> HIDE DEF taken
  <2>2. taken \in [1 .. Len(split) -> Segment]
    BY <1>7, <2>1
  <2>3. Len(split) \in Nat
    BY <1>5
  <2> QED BY ONLY <2>2, <2>3
<1> HIDE DEF taken
<1>9. WellFormed(taken)
  <2>1. taken[1].time = 0 /\ 1 \in 1 .. Len(split)
    BY <1>5, <1>7
  <2>2. ASSUME NEW i \in 1 .. Len(taken), NEW j \in 1 .. Len(taken), i < j
        PROVE  taken[i].time < taken[j].time
    BY <2>2, <1>5, <1>7, <1>8
  <2> QED BY <2>1, <2>2, <1>5, <1>8 DEF WellFormed
<1>10. ASSUME NEW u \in Nat
       PROVE  Free(taken, u) = IF start <= u /\ u < fin
                               THEN Plan!Minus(Free(segs, u), n) ELSE Free(segs, u)
  <2> DEFINE j == SegmentAt(split, u)
  <2>1. In(split, j, u) /\ Free(split, u) = split[j].free
    BY <1>2, SegmentAtIs DEF Free
  <2> HIDE DEF j
  <2>2. /\ j \in 1 .. Len(split) /\ split[j].time <= u
        /\ \A k \in 1 .. Len(split) : j < k => u < split[k].time
    BY <2>1 DEF In
  <2>3. In(taken, j, u)
    BY <2>2, <1>7, <1>8 DEF In
  <2>4. Free(taken, u) = taken[j].free
    BY <2>3, <1>9, SegmentAtUnique
  <2>5. first <= j <=> start <= u
    <3>1. first < j => split[first].time < split[j].time
      BY <1>4, <1>5, <2>2
    <3>2. j < first => u < start
      BY <1>4, <2>2
    <3>3. first <= j => start <= u
      <4>1. first = j => start <= u
        BY <1>4, <2>2
      <4>2. split[j].time \in Nat /\ split[j].time <= u
        BY <1>5, <2>2
      <4>3. first < j => start < split[j].time
        BY <3>1, <1>4
      <4> QED BY <4>1, <4>2, <4>3, <1>0, <1>4, <2>2, <1>5
    <3> QED BY <3>2, <3>3, <2>2, <1>4, <1>5, <1>0
  <2>6. j < last <=> u < fin
    <3>1. last < j => split[last].time < split[j].time
      BY <1>4, <1>5, <2>2
    <3>2. j < last => u < fin
      BY <1>4, <2>2
    <3> QED BY <3>1, <3>2, <2>2, <1>4, <1>5, <1>0
  <2>7. Free(split, u) = Free(segs, u)
    BY <1>1, <1>2 DEF Same
  <2> QED BY <2>1, <2>2, <2>4, <2>5, <2>6, <2>7, <1>7
<1>11. /\ WellFormed(less) /\ Same(taken, less)
       /\ less = taken \/ (first > 1 /\ Len(less) = Len(taken) - 1)
  BY <1>4, <1>8, <1>9, CoalesceKeeps
<1> HIDE DEF less
<1>12. at \in 1 .. Len(less)
  BY <1>4, <1>5, <1>6, <1>8, <1>11
<1> HIDE DEF at
<1>13. WellFormed(coalesce(less, at)) /\ Same(less, coalesce(less, at))
  BY <1>11, <1>12, CoalesceKeeps
<1>14. \A u \in Nat : Free(coalesce(less, at), u) = Free(taken, u)
  BY <1>11, <1>13 DEF Same
<1> QED BY <1>0, <1>10, <1>13, <1>14 DEF fin

-----------------------------------------------------------------------------
(* What earliest_fit() promises, from the free nodes at each instant. *)

FreeNodes == [t \in Instant |-> Free(segs, t)]
Fits(n, d, t) == Plan!Fits(FreeNodes, n, d, t)
Earliest(n, d, s) == Plan!EarliestFit(FreeNodes, n, d, s)

LEMMA FitsIs ==
  ASSUME NEW n, NEW d, NEW t
  PROVE  Fits(n, d, t) <=>
           \A u \in Instant : t <= u /\ (u = t \/ u < t + d) => Free(segs, u) >= n
BY DEF Fits, Plan!Fits, Plan!Needs, FreeNodes, Plan!Time, Instant

LEMMA NoneFits ==
  ASSUME NEW n, NEW d, NEW s, \A t \in Instant : s <= t => ~Fits(n, d, t)
  PROVE  Earliest(n, d, s) = NoFit
<1>1. Plan!FirstFits(FreeNodes, n, d, s) = {}
  BY DEF Plan!FirstFits, Plan!Time, Instant, Fits
<1> QED BY <1>1 DEF Earliest, Plan!EarliestFit, NoFit, Plan!NoFit

LEMMA FirstThatFits ==
  ASSUME NEW n, NEW d, NEW s, NEW t \in Instant, s <= t, Fits(n, d, t),
         \A u \in Instant : s <= u /\ u < t => ~Fits(n, d, u)
  PROVE  Earliest(n, d, s) = t
<1> DEFINE F == Plan!FirstFits(FreeNodes, n, d, s)
<1>1. t \in F
  BY DEF Plan!FirstFits, Plan!Time, Instant, Fits
<1>2. \A u \in F : u \in Instant /\ s <= u /\ Fits(n, d, u)
                    /\ \A v \in Instant : s <= v /\ v < u => ~Fits(n, d, v)
  BY DEF Plan!FirstFits, Plan!Time, Instant, Fits
<1> HIDE DEF F
<1>3. ASSUME NEW u \in F PROVE u = t
  <2>1. u \in Nat /\ t \in Nat /\ ~(u < t) /\ ~(t < u)
    BY <1>2, <1>3, Constants
  <2> QED BY <2>1
<1>4. Earliest(n, d, s) = IF F = {} THEN Plan!NoFit ELSE CHOOSE u \in F : TRUE
  BY DEF Earliest, Plan!EarliestFit, F
<1>5. (CHOOSE u \in F : TRUE) \in F
  BY <1>1
<1> QED BY <1>1, <1>3, <1>4, <1>5

(* Instants at which the request does not fit may be skipped. *)
LEMMA SkipTo ==
  ASSUME NEW n, NEW d, NEW s \in Instant, NEW r \in Instant, s <= r,
         \A t \in Instant : s <= t /\ t < r => ~Fits(n, d, t)
  PROVE  Earliest(n, d, s) = Earliest(n, d, r)
<1> DEFINE T == {t \in Instant : r <= t /\ Fits(n, d, t)}
<1>0. T \subseteq Nat /\ s \in Nat /\ r \in Nat /\ Instant \subseteq Nat
  BY Constants
<1>1. CASE T = {}
  <2>1. \A t \in Instant : r <= t => ~Fits(n, d, t)
    BY <1>1
  <2>2. ASSUME NEW t \in Instant, s <= t PROVE ~Fits(n, d, t)
    BY <2>1, <2>2, <1>0
  <2> QED BY <2>1, <2>2, NoneFits
<1>2. CASE T # {}
  <2>1. PICK t \in T : \A y \in T : t <= y
    BY <1>0, <1>2, LeastExists
  <2>2. t \in Instant /\ r <= t /\ Fits(n, d, t) /\ t \in Nat /\ s <= t
    BY <2>1, <1>0
  <2>3. ASSUME NEW u \in Instant, r <= u, u < t PROVE ~Fits(n, d, u)
    <3>1. u \notin T
      BY <2>1, <2>2, <2>3, <1>0
    <3> QED BY <3>1, <2>3
  <2>4. ASSUME NEW u \in Instant, s <= u, u < t PROVE ~Fits(n, d, u)
    BY <2>3, <2>4, <1>0
  <2> QED BY <2>2, <2>3, <2>4, FirstThatFits
<1> QED BY <1>1, <1>2

-----------------------------------------------------------------------------
(* The walk over the segments. *)

Stops(i, n, until, k) ==
  k > Len(segs) \/ segs[k].free < n \/ (k > i /\ segs[k].time >= until)

LEMMA ScanEndIs ==
  ASSUME WellFormed(segs), NEW i \in 1 .. Len(segs), NEW n \in Nat, NEW until \in Int
  PROVE  LET k == ScanEnd(i, n, until)
         IN  /\ k \in i .. Len(segs) + 1 /\ Stops(i, n, until, k)
             /\ \A m \in i .. k - 1 : m <= Len(segs) /\ segs[m].free >= n
                                       /\ (m > i => segs[m].time < until)
<1> DEFINE Q(k) ==
      /\ k > Len(segs) \/ segs[k].free < n \/ (k > i /\ segs[k].time >= until)
      /\ \A m \in i .. k - 1 : segs[m].free >= n /\ (m > i => segs[m].time < until)
<1> DEFINE T == {k \in i .. Len(segs) + 1 : Stops(i, n, until, k)}
<1>0. Len(segs) \in Nat /\ \A m \in 1 .. Len(segs) : segs[m].time \in Nat /\ segs[m].free \in Nat
  BY SegmentFacts
<1>1. T \subseteq Nat /\ T # {}
  <2>1. Len(segs) + 1 \in T
    BY <1>0 DEF Stops
  <2>2. T \subseteq Nat
    BY <1>0
  <2> HIDE DEF T
  <2> QED BY <2>1, <2>2
<1>2. PICK k \in T : \A y \in T : k <= y
  BY <1>1, LeastExists
<1>3. k \in i .. Len(segs) + 1 /\ Q(k)
  <2>1. k \in i .. Len(segs) + 1 /\ Stops(i, n, until, k)
    BY <1>2
  <2>2. ASSUME NEW m \in i .. k - 1 PROVE segs[m].free >= n /\ (m > i => segs[m].time < until)
    <3>1. m \in i .. Len(segs) + 1 /\ m \notin T /\ m \in 1 .. Len(segs)
      BY <1>0, <1>2, <2>1
    <3>2. ~Stops(i, n, until, m)
      BY <3>1
    <3> HIDE DEF T
    <3> QED BY <3>1, <3>2, <1>0 DEF Stops
  <2> QED BY <2>1, <2>2 DEF Stops
<1>4. ScanEnd(i, n, until) = CHOOSE j \in i .. Len(segs) + 1 : Q(j)
  BY DEF ScanEnd
<1>5. ScanEnd(i, n, until) \in i .. Len(segs) + 1 /\ Q(ScanEnd(i, n, until))
  <2> HIDE DEF Q
  <2> QED BY <1>3, <1>4
<1> DEFINE e == ScanEnd(i, n, until)
<1> HIDE DEF e, T
<1>6. e \in i .. Len(segs) + 1 /\ Q(e)
  BY <1>5 DEF e
<1>7. \A m \in i .. e - 1 : m <= Len(segs)
  BY <1>6, <1>0
<1> QED BY <1>6, <1>7 DEF Stops, e

LEMMA NextLargeIs ==
  ASSUME WellFormed(segs), NEW k \in 0 .. Len(segs), NEW n \in Nat
  PROVE  LET m == NextLarge(k, n)
         IN  /\ m \in k + 1 .. Len(segs) + 1
             /\ m > Len(segs) \/ segs[m].free >= n
             /\ \A i \in k + 1 .. m - 1 : segs[i].free < n
<1> DEFINE S(m) == m > Len(segs) \/ segs[m].free >= n
<1> DEFINE Q(m) == S(m) /\ \A i \in k + 1 .. m - 1 : segs[i].free < n
<1> DEFINE T == {m \in k + 1 .. Len(segs) + 1 : S(m)}
<1>0. Len(segs) \in Nat /\ \A m \in 1 .. Len(segs) : segs[m].free \in Nat
  BY SegmentFacts
<1>1. T \subseteq Nat /\ T # {}
  <2>1. Len(segs) + 1 \in T
    BY <1>0
  <2>2. T \subseteq Nat
    BY <1>0
  <2> HIDE DEF T
  <2> QED BY <2>1, <2>2
<1>2. PICK m \in T : \A y \in T : m <= y
  BY <1>1, LeastExists
<1>3. m \in k + 1 .. Len(segs) + 1 /\ Q(m)
  <2>1. m \in k + 1 .. Len(segs) + 1 /\ S(m)
    BY <1>2
  <2>2. ASSUME NEW i \in k + 1 .. m - 1 PROVE segs[i].free < n
    <3>1. i \in k + 1 .. Len(segs) + 1 /\ i \notin T /\ i \in 1 .. Len(segs)
      BY <1>0, <1>2, <2>1
    <3>2. ~S(i)
      BY <3>1
    <3> HIDE DEF T
    <3> QED BY <3>1, <3>2, <1>0
  <2> QED BY <2>1, <2>2
<1>4. NextLarge(k, n) = CHOOSE j \in k + 1 .. Len(segs) + 1 : Q(j)
  BY DEF NextLarge
<1>5. NextLarge(k, n) \in k + 1 .. Len(segs) + 1 /\ Q(NextLarge(k, n))
  <2> HIDE DEF Q
  <2> QED BY <1>3, <1>4
<1> QED BY <1>5

(* The free nodes at the start of a segment, and in it. *)
LEMMA FreeIn ==
  ASSUME WellFormed(segs), NEW j, NEW t \in Nat, In(segs, j, t)
  PROVE  Free(segs, t) = segs[j].free
BY SegmentAtUnique

LEMMA InStart ==
  ASSUME WellFormed(segs), NEW j \in 1 .. Len(segs)
  PROVE  In(segs, j, segs[j].time)
<1>1. /\ segs[j].time \in Nat
      /\ \A k \in 1 .. Len(segs) : j < k => segs[j].time < segs[k].time
  BY SegmentFacts
<1> QED BY <1>1 DEF In

(* The walk from start, in segment i, ends behind the interval: it fits. *)
LEMMA WalkFits ==
  ASSUME WellFormed(segs), NEW n \in Nat, NEW d \in Nat \ {0}, NEW start \in Instant,
         NEW i, In(segs, i, start), FitsFrom(i, start, n, d)
  PROVE  Fits(n, d, start)
<1> DEFINE k == ScanEnd(i, n, start + d)
<1>0. /\ start \in Nat /\ start + d \in Int /\ i \in 1 .. Len(segs) /\ Len(segs) \in Nat
      /\ segs[i].time <= start
      /\ \A m \in 1 .. Len(segs) : segs[m].time \in Nat /\ segs[m].free \in Nat
  BY Constants, SegmentFacts DEF In
<1>1. /\ k \in i .. Len(segs) + 1
      /\ \A m \in i .. k - 1 : segs[m].free >= n
      /\ k > Len(segs) \/ (k # i /\ segs[k].time >= start + d)
  BY <1>0, ScanEndIs DEF FitsFrom
<1> HIDE DEF k
<1>2. ASSUME NEW u \in Instant, start <= u, u = start \/ u < start + d
      PROVE  Free(segs, u) >= n
  <2>0. u \in Nat /\ u < start + d
    BY <1>0, <1>2, Constants
  <2>1. PICK j : In(segs, j, u)
    BY <2>0, InExists
  <2>2. /\ j \in 1 .. Len(segs) /\ segs[j].time <= u
        /\ \A m \in 1 .. Len(segs) : j < m => u < segs[m].time
    BY <2>1 DEF In
  <2>3. i <= j
    <3>1. j < i => u < segs[i].time
      BY <2>2, <1>0
    <3>2. segs[i].time \in Nat
      BY <1>0
    <3> QED BY <3>1, <3>2, <2>0, <2>2, <1>0, <1>2
  <2>4. j < k
    <3> SUFFICES ASSUME ~(j < k) PROVE FALSE
      OBVIOUS
    <3>1. k \in 1 .. Len(segs) /\ k <= j /\ segs[k].time >= start + d
      BY <1>0, <1>1, <2>2
    <3>2. k < j => segs[k].time < segs[j].time
      BY <3>1, <2>2, SegmentFacts
    <3>3. segs[k].time <= segs[j].time /\ segs[k].time \in Nat /\ segs[j].time \in Nat
      <4>1. k = j \/ k < j
        BY <3>1, <2>2, <1>0
      <4> QED BY <4>1, <3>1, <3>2, <2>2, <1>0
    <3> QED BY <3>1, <3>3, <2>0, <2>2, <1>0
  <2>5. segs[j].free >= n
    BY <2>2, <2>3, <2>4, <1>0, <1>1
  <2> QED BY <2>0, <2>1, <2>5, FreeIn
<1> QED BY <1>2, FitsIs

(* It ends at a segment that is too small: nothing fits from start on      *)
(* until the next segment that is large enough.                            *)
LEMMA WalkBlocked ==
  ASSUME WellFormed(segs), NEW n \in Nat, NEW d \in Nat \ {0}, NEW start \in Instant,
         NEW i, In(segs, i, start), ~FitsFrom(i, start, n, d)
  PROVE  LET m == NextLarge(ScanEnd(i, n, start + d), n)
         IN  /\ m \in i + 1 .. Len(segs) + 1
             /\ \A t \in Instant : start <= t /\ (m <= Len(segs) => t < segs[m].time) => ~Fits(n, d, t)
<1> DEFINE k == ScanEnd(i, n, start + d)
<1> DEFINE m == NextLarge(k, n)
<1>0. /\ start \in Nat /\ start + d \in Int /\ i \in 1 .. Len(segs) /\ Len(segs) \in Nat
      /\ segs[i].time <= start
      /\ \A j \in 1 .. Len(segs) : segs[j].time \in Nat /\ segs[j].time \in Instant /\ segs[j].free \in Nat
  BY Constants, SegmentFacts DEF In
<1>1. /\ k \in i .. Len(segs) + 1 /\ Stops(i, n, start + d, k)
      /\ ~(k > Len(segs) \/ (k # i /\ segs[k].time >= start + d))
  BY <1>0, ScanEndIs DEF FitsFrom
<1> HIDE DEF k
<1>2. /\ k \in i .. Len(segs) /\ k \in 0 .. Len(segs) /\ k \in 1 .. Len(segs)
      /\ segs[k].free < n /\ (k # i => segs[k].time < start + d)
  <2>1. k \in i .. Len(segs) /\ k \in 0 .. Len(segs) /\ k \in 1 .. Len(segs)
    BY <1>0, <1>1
  <2>2. segs[k].time \in Nat
    BY <1>0, <2>1
  <2> QED BY <2>1, <2>2, <1>0, <1>1 DEF Stops
<1>3. /\ m \in k + 1 .. Len(segs) + 1
      /\ \A j \in k + 1 .. m - 1 : segs[j].free < n
  BY <1>2, NextLargeIs
<1> HIDE DEF m
<1>4. ASSUME NEW t \in Instant, start <= t, m <= Len(segs) => t < segs[m].time
      PROVE  ~Fits(n, d, t)
  <2>0. t \in Nat
    BY Constants
  <2>1. PICK j : In(segs, j, t)
    BY <2>0, InExists
  <2>2. /\ j \in 1 .. Len(segs) /\ segs[j].time <= t
        /\ \A h \in 1 .. Len(segs) : j < h => t < segs[h].time
    BY <2>1 DEF In
  <2>3. i <= j
    <3>1. j < i => t < segs[i].time
      BY <2>2, <1>0
    <3>2. segs[i].time \in Nat
      BY <1>0
    <3> QED BY <3>1, <3>2, <2>0, <2>2, <1>0, <1>4
  <2>4. j < m
    <3> SUFFICES ASSUME ~(j < m) PROVE FALSE
      OBVIOUS
    <3>1. m \in 1 .. Len(segs) /\ m <= j /\ t < segs[m].time
      BY <1>0, <1>2, <1>3, <1>4, <2>2
    <3>2. m < j => segs[m].time < segs[j].time
      BY <3>1, <2>2, SegmentFacts
    <3>3. segs[m].time <= segs[j].time /\ segs[m].time \in Nat /\ segs[j].time \in Nat
      <4>1. m = j \/ m < j
        BY <3>1, <2>2, <1>0
      <4> QED BY <4>1, <3>1, <3>2, <2>2, <1>0
    <3> QED BY <3>1, <3>3, <2>0, <2>2, <1>0
  <2>5. CASE k <= j
    <3>1. segs[j].free < n
      BY <2>2, <2>4, <2>5, <1>0, <1>2, <1>3
    <3>2. Free(segs, t) = segs[j].free /\ segs[j].free \in Nat
      BY <2>0, <2>1, <2>2, <1>0, FreeIn
    <3>3. ~(Free(segs, t) >= n) /\ t <= t
      BY <3>1, <3>2, <2>0
    <3> QED BY <3>3, FitsIs
  <2>6. CASE j < k
    <3> DEFINE u == segs[k].time
    <3>1. k # i /\ u < start + d /\ u \in Nat /\ u \in Instant
      BY <2>2, <2>3, <2>6, <1>0, <1>2
    <3>2. t < u
      BY <2>2, <2>6, <1>2
    <3>3. In(segs, k, u)
      BY <1>2, InStart
    <3>4. Free(segs, u) = segs[k].free /\ segs[k].free \in Nat
      BY <3>1, <3>3, <1>0, <1>2, FreeIn
    <3> HIDE DEF u
    <3>5. ~(Free(segs, u) >= n) /\ t <= u /\ u < t + d
      BY <3>1, <3>2, <3>4, <1>0, <1>2, <1>4, <2>0, SMTT(60)
    <3> QED BY <3>1, <3>5, FitsIs
  <2> QED BY <2>2, <2>5, <2>6, <1>0, <1>2
<1>5. m \in i + 1 .. Len(segs) + 1
  BY <1>0, <1>2, <1>3
<1> QED BY <1>4, <1>5 DEF m, k

(* One turn of the search at the start of segment i, and the answer of the *)
(* plan from there on.                                                     *)
ResumeStep(n, d, f, i) ==
  IF i > Len(segs) THEN NoFit
  ELSE IF FitsFrom(i, segs[i].time, n, d) THEN segs[i].time
  ELSE f[NextLarge(ScanEnd(i, n, segs[i].time + d), n)]
IsResume(n, d, f) == f = [i \in 1 .. Len(segs) + 1 |-> ResumeStep(n, d, f, i)]
Ahead(n, d, i) == IF i > Len(segs) THEN NoFit ELSE Earliest(n, d, segs[i].time)

(* From an instant in segment i, the plan's answer is start itself, or the *)
(* one from the segment where the search resumes.                          *)
LEMMA TurnIs ==
  ASSUME WellFormed(segs), NEW n \in Nat, NEW d \in Nat \ {0}, NEW start \in Instant,
         NEW i, In(segs, i, start)
  PROVE  LET m == NextLarge(ScanEnd(i, n, start + d), n)
         IN  /\ FitsFrom(i, start, n, d) => Earliest(n, d, start) = start
             /\ ~FitsFrom(i, start, n, d) => /\ m \in i + 1 .. Len(segs) + 1
                                             /\ Earliest(n, d, start) = Ahead(n, d, m)
<1> DEFINE m == NextLarge(ScanEnd(i, n, start + d), n)
<1>0. /\ start \in Nat /\ Instant \subseteq Nat /\ Len(segs) \in Nat /\ i \in 1 .. Len(segs)
      /\ \A j \in 1 .. Len(segs) : segs[j].time \in Instant
      /\ \A j \in 1 .. Len(segs) : i < j => start < segs[j].time
  BY Constants, SegmentFacts DEF In
<1>1. CASE FitsFrom(i, start, n, d)
  <2>1. Fits(n, d, start)
    BY <1>1, WalkFits
  <2>2. start <= start /\ \A u \in Instant : ~(start <= u /\ u < start)
    BY <1>0
  <2>3. Earliest(n, d, start) = start
    BY <2>1, <2>2, FirstThatFits
  <2> QED BY <1>1, <2>3
<1>2. CASE ~FitsFrom(i, start, n, d)
  <2>1. /\ m \in i + 1 .. Len(segs) + 1
        /\ \A t \in Instant : start <= t /\ (m <= Len(segs) => t < segs[m].time) => ~Fits(n, d, t)
    BY <1>2, WalkBlocked
  <2> HIDE DEF m
  <2>2. CASE m > Len(segs)
    <3>1. \A t \in Instant : start <= t => ~Fits(n, d, t)
      BY <2>1, <2>2, <1>0
    <3>2. Earliest(n, d, start) = NoFit
      BY <3>1, NoneFits
    <3> QED BY <1>2, <2>1, <2>2, <3>2 DEF Ahead, m
  <2>3. CASE ~(m > Len(segs))
    <3>1. m \in 1 .. Len(segs) /\ i < m /\ m <= Len(segs)
      BY <2>1, <2>3, <1>0
    <3>2. segs[m].time \in Instant /\ start <= segs[m].time
      <4>1. start < segs[m].time /\ segs[m].time \in Instant
        BY <3>1, <1>0
      <4>2. segs[m].time \in Nat
        BY <4>1, <1>0
      <4> QED BY <4>1, <4>2, <1>0
    <3>3. \A t \in Instant : start <= t /\ t < segs[m].time => ~Fits(n, d, t)
      BY <2>1
    <3>4. Earliest(n, d, start) = Earliest(n, d, segs[m].time)
      BY <3>2, <3>3, SkipTo
    <3> QED BY <1>2, <2>1, <2>3, <3>4 DEF Ahead, m
  <2> QED BY <2>2, <2>3
<1> QED BY <1>1, <1>2

LEMMA AheadStep ==
  ASSUME WellFormed(segs), NEW n \in Nat, NEW d \in Nat \ {0}, NEW i \in 1 .. Len(segs)
  PROVE  LET m == NextLarge(ScanEnd(i, n, segs[i].time + d), n)
         IN  /\ FitsFrom(i, segs[i].time, n, d) => Ahead(n, d, i) = segs[i].time
             /\ ~FitsFrom(i, segs[i].time, n, d) => /\ m \in i + 1 .. Len(segs) + 1
                                                    /\ Ahead(n, d, i) = Ahead(n, d, m)
<1>1. segs[i].time \in Instant /\ Len(segs) \in Nat /\ In(segs, i, segs[i].time)
  BY SegmentFacts, InStart
<1>2. Ahead(n, d, i) = Earliest(n, d, segs[i].time)
  BY <1>1 DEF Ahead
<1> QED BY <1>1, <1>2, TurnIs

(* The function that the search recurs on exists and gives these answers. *)
LEMMA ResumeExists ==
  ASSUME WellFormed(segs), NEW n \in Nat, NEW d \in Nat \ {0}
  PROVE  \E f : IsResume(n, d, f)
<1> DEFINE g == [i \in 1 .. Len(segs) + 1 |-> Ahead(n, d, i)]
<1>0. Len(segs) \in Nat
  BY SegmentFacts
<1>1. ASSUME NEW i \in 1 .. Len(segs) + 1 PROVE Ahead(n, d, i) = ResumeStep(n, d, g, i)
  <2>1. CASE i > Len(segs)
    BY <2>1 DEF Ahead, ResumeStep
  <2>2. CASE ~(i > Len(segs))
    <3> DEFINE m == NextLarge(ScanEnd(i, n, segs[i].time + d), n)
    <3>1. i \in 1 .. Len(segs)
      BY <2>2, <1>0
    <3>2. /\ FitsFrom(i, segs[i].time, n, d) => Ahead(n, d, i) = segs[i].time
          /\ ~FitsFrom(i, segs[i].time, n, d) => /\ m \in i + 1 .. Len(segs) + 1
                                                 /\ Ahead(n, d, i) = Ahead(n, d, m)
      BY <3>1, AheadStep
    <3> HIDE DEF m
    <3>3. ~FitsFrom(i, segs[i].time, n, d) => m \in 1 .. Len(segs) + 1
      BY <3>1, <3>2, <1>0
    <3>4. ~FitsFrom(i, segs[i].time, n, d) => g[m] = Ahead(n, d, m)
      BY <3>3
    <3> HIDE DEF g
    <3> QED BY <2>2, <3>2, <3>4 DEF ResumeStep, m
  <2> QED BY <2>1, <2>2
<1>2. g = [i \in 1 .. Len(segs) + 1 |-> ResumeStep(n, d, g, i)]
  <2>1. \A i \in 1 .. Len(segs) + 1 : g[i] = Ahead(n, d, i)
    OBVIOUS
  <2>2. g = [i \in 1 .. Len(segs) + 1 |-> g[i]]
    OBVIOUS
  <2> HIDE DEF g
  <2> QED BY <1>1, <2>1, <2>2
<1> HIDE DEF g
<1> QED BY <1>2 DEF IsResume

LEMMA ResumeIs ==
  ASSUME WellFormed(segs), NEW n \in Nat, NEW d \in Nat \ {0},
         NEW f, IsResume(n, d, f), NEW i \in 1 .. Len(segs) + 1
  PROVE  f[i] = Ahead(n, d, i)
<1> DEFINE T == {j \in 1 .. Len(segs) + 1 : f[j] # Ahead(n, d, j)}
<1>0. Len(segs) \in Nat
  BY SegmentFacts
<1>1. \A j \in 1 .. Len(segs) + 1 : f[j] = ResumeStep(n, d, f, j)
  <2>1. \A j \in 1 .. Len(segs) + 1 :
          [k \in 1 .. Len(segs) + 1 |-> ResumeStep(n, d, f, k)][j] = ResumeStep(n, d, f, j)
    OBVIOUS
  <2> QED BY <2>1 DEF IsResume
<1>2. ASSUME T # {} PROVE FALSE
  <2>1. T \subseteq 0 .. Len(segs) + 1 /\ Len(segs) + 1 \in Nat
    BY <1>0
  <2>2. PICK j \in T : \A y \in T : y <= j
    BY <1>2, <2>1, GreatestExists
  <2>3. /\ j \in 1 .. Len(segs) + 1 /\ f[j] # Ahead(n, d, j)
        /\ \A y \in 1 .. Len(segs) + 1 : j < y => f[y] = Ahead(n, d, y)
    <3>1. j \in 1 .. Len(segs) + 1 /\ f[j] # Ahead(n, d, j)
      BY <2>2
    <3>2. ASSUME NEW y \in 1 .. Len(segs) + 1, j < y PROVE f[y] = Ahead(n, d, y)
      <4>1. y \notin T
        BY <2>2, <3>1, <3>2, <1>0
      <4> QED BY <4>1
    <3> QED BY <3>1, <3>2
  <2> HIDE DEF T
  <2>4. f[j] = ResumeStep(n, d, f, j)
    BY <1>1, <2>3
  <2>5. CASE j > Len(segs)
    BY <2>3, <2>4, <2>5 DEF Ahead, ResumeStep
  <2>6. CASE ~(j > Len(segs))
    <3> DEFINE m == NextLarge(ScanEnd(j, n, segs[j].time + d), n)
    <3>1. j \in 1 .. Len(segs)
      BY <2>3, <2>6, <1>0
    <3>2. /\ FitsFrom(j, segs[j].time, n, d) => Ahead(n, d, j) = segs[j].time
          /\ ~FitsFrom(j, segs[j].time, n, d) => /\ m \in j + 1 .. Len(segs) + 1
                                                 /\ Ahead(n, d, j) = Ahead(n, d, m)
      BY <3>1, AheadStep
    <3> HIDE DEF m
    <3>3. ~FitsFrom(j, segs[j].time, n, d) => m \in 1 .. Len(segs) + 1 /\ j < m
      BY <3>1, <3>2, <1>0
    <3>4. ~FitsFrom(j, segs[j].time, n, d) => f[m] = Ahead(n, d, m)
      BY <3>3, <2>3
    <3> QED BY <2>3, <2>4, <2>6, <3>2, <3>4 DEF ResumeStep, m
  <2> QED BY <2>5, <2>6
<1>3. T = {}
  BY <1>2
<1> QED BY <1>3

(* earliest_fit() for an interval is the earliest fit. *)
LEMMA IntervalFitIs ==
  ASSUME WellFormed(segs), NEW n \in Nat, NEW d \in Nat \ {0}, NEW start \in Instant
  PROVE  IntervalFit(n, d, start) = Earliest(n, d, start)
<1> DEFINE F == CHOOSE f : f = [i \in 1 .. Len(segs) + 1 |->
                  IF i > Len(segs) THEN NoFit
                  ELSE IF FitsFrom(i, segs[i].time, n, d) THEN segs[i].time
                  ELSE f[NextLarge(ScanEnd(i, n, segs[i].time + d), n)]]
<1> DEFINE j == SegmentAt(segs, start)
<1> DEFINE m == NextLarge(ScanEnd(j, n, start + d), n)
<1>1. IntervalFit(n, d, start) = IF FitsFrom(j, start, n, d) THEN start ELSE F[m]
  BY Zenon DEF IntervalFit
<1>2. IsResume(n, d, F)
  <2>1. \E f : f = [i \in 1 .. Len(segs) + 1 |->
                  IF i > Len(segs) THEN NoFit
                  ELSE IF FitsFrom(i, segs[i].time, n, d) THEN segs[i].time
                  ELSE f[NextLarge(ScanEnd(i, n, segs[i].time + d), n)]]
    BY ResumeExists DEF IsResume, ResumeStep
  <2> QED BY <2>1, Zenon DEF IsResume, ResumeStep
<1>3. Len(segs) \in Nat /\ start \in Nat /\ In(segs, j, start) /\ j \in 1 .. Len(segs)
  BY Constants, SegmentFacts, SegmentAtIs DEF In
<1> HIDE DEF F, j
<1>4. /\ FitsFrom(j, start, n, d) => Earliest(n, d, start) = start
      /\ ~FitsFrom(j, start, n, d) => /\ m \in j + 1 .. Len(segs) + 1
                                      /\ Earliest(n, d, start) = Ahead(n, d, m)
  BY <1>3, TurnIs
<1> HIDE DEF m
<1>5. ~FitsFrom(j, start, n, d) => F[m] = Ahead(n, d, m)
  <2>1. ~FitsFrom(j, start, n, d) => m \in 1 .. Len(segs) + 1
    BY <1>3, <1>4
  <2> QED BY <2>1, <1>2, ResumeIs
<1> QED BY <1>1, <1>4, <1>5

(* And so is the capacity at a point. *)
LEMMA PointFitIs ==
  ASSUME WellFormed(segs), NEW n \in Nat, NEW d \in Int, d <= 0, NEW start \in Instant
  PROVE  PointFit(n, start) = Earliest(n, d, start)
<1> DEFINE i == SegmentAt(segs, start)
<1> DEFINE m == NextLarge(i - 1, n)
<1>0. /\ start \in Nat /\ Instant \subseteq Nat /\ Len(segs) \in Nat
      /\ i \in 1 .. Len(segs) /\ segs[i].time <= start
      /\ \A k \in 1 .. Len(segs) : i < k => start < segs[k].time
      /\ \A k \in 1 .. Len(segs) : segs[k].time \in Nat /\ segs[k].time \in Instant /\ segs[k].free \in Nat
  BY Constants, SegmentFacts, SegmentAtIs DEF In
<1>1. PointFit(n, start) =
        IF m > Len(segs) THEN NoFit ELSE IF segs[m].time <= start THEN start ELSE segs[m].time
  BY DEF PointFit
<1> HIDE DEF i
<1>2. /\ m \in i .. Len(segs) + 1
      /\ m > Len(segs) \/ segs[m].free >= n
      /\ \A k \in i .. m - 1 : segs[k].free < n
  <2> DEFINE h == i - 1
  <2>1. h \in 0 .. Len(segs) /\ h + 1 = i
    BY <1>0
  <2> HIDE DEF h
  <2>2. /\ NextLarge(h, n) \in h + 1 .. Len(segs) + 1
        /\ NextLarge(h, n) > Len(segs) \/ segs[NextLarge(h, n)].free >= n
        /\ \A k \in h + 1 .. NextLarge(h, n) - 1 : segs[k].free < n
    BY <2>1, NextLargeIs
  <2>3. m = NextLarge(h, n)
    BY DEF h
  <2> HIDE DEF m
  <2> QED BY <2>1, <2>2, <2>3
<1> HIDE DEF m
<1>3. ASSUME NEW t \in Instant PROVE Fits(n, d, t) <=> Free(segs, t) >= n
  <2>1. t \in Nat
    BY <1>0
  <2>2. \A u \in Instant : t <= u /\ (u = t \/ u < t + d) <=> u = t
    BY <2>1, <1>0
  <2> QED BY <2>2, FitsIs
<1>4. ASSUME NEW t \in Instant, start <= t, m <= Len(segs) => t < segs[m].time
      PROVE  ~Fits(n, d, t)
  <2>0. t \in Nat
    BY <1>0
  <2>1. PICK j : In(segs, j, t)
    BY <2>0, InExists
  <2>2. /\ j \in 1 .. Len(segs) /\ segs[j].time <= t
        /\ \A k \in 1 .. Len(segs) : j < k => t < segs[k].time
    BY <2>1 DEF In
  <2>3. i <= j
    <3>1. j < i => t < segs[i].time
      BY <2>2, <1>0
    <3>2. segs[i].time \in Nat
      BY <1>0
    <3> QED BY <3>1, <3>2, <2>0, <2>2, <1>0, <1>4
  <2>4. j < m
    <3> SUFFICES ASSUME ~(j < m) PROVE FALSE
      OBVIOUS
    <3>1. m \in 1 .. Len(segs) /\ m <= j /\ t < segs[m].time
      BY <1>0, <1>2, <1>4, <2>2
    <3>2. m < j => segs[m].time < segs[j].time
      BY <3>1, <2>2, SegmentFacts
    <3>3. segs[m].time <= segs[j].time /\ segs[m].time \in Nat /\ segs[j].time \in Nat
      <4>1. m = j \/ m < j
        BY <3>1, <2>2, <1>0
      <4> QED BY <4>1, <3>1, <3>2, <2>2, <1>0
    <3> QED BY <3>1, <3>3, <2>0, <2>2, <1>0
  <2>5. segs[j].free < n /\ segs[j].free \in Nat
    BY <2>2, <2>3, <2>4, <1>0, <1>2
  <2>6. Free(segs, t) = segs[j].free
    BY <2>0, <2>1, FreeIn
  <2> QED BY <2>5, <2>6, <1>3
<1>5. CASE m > Len(segs)
  <2>1. \A t \in Instant : start <= t => ~Fits(n, d, t)
    BY <1>0, <1>2, <1>4, <1>5
  <2> QED BY <2>1, <1>1, <1>5, NoneFits
<1>6. CASE ~(m > Len(segs))
  <2> DEFINE t == IF segs[m].time <= start THEN start ELSE segs[m].time
  <2>1. m \in 1 .. Len(segs) /\ segs[m].free >= n
    BY <1>0, <1>2, <1>6
  <2>2. t \in Instant /\ t \in Nat /\ start <= t /\ segs[m].time <= t
    BY <2>1, <1>0
  <2>3. In(segs, m, t)
    <3>1. CASE segs[m].time <= start
      <4>1. m = i
        BY <3>1, <2>1, <1>0, <1>2
      <4> QED BY <4>1, <3>1, <1>0 DEF In
    <3>2. CASE ~(segs[m].time <= start)
      BY <3>2, <2>1, InStart
    <3> QED BY <3>1, <3>2
  <2>4. \A u \in Instant : start <= u /\ u < t => ~Fits(n, d, u)
    <3> SUFFICES ASSUME NEW u \in Instant, start <= u, u < t PROVE ~Fits(n, d, u)
      OBVIOUS
    <3>1. t = segs[m].time
      BY <1>0
    <3> QED BY <3>1, <1>4
  <2>5. PointFit(n, start) = t
    BY <1>1, <1>6
  <2> HIDE DEF t
  <2>6. Fits(n, d, t)
    <3>1. Free(segs, t) = segs[m].free
      BY <2>2, <2>3, FreeIn
    <3> QED BY <3>1, <2>1, <2>2, <1>3
  <2> QED BY <2>2, <2>4, <2>5, <2>6, FirstThatFits
<1> QED BY <1>5, <1>6

-----------------------------------------------------------------------------
(* Sums over finite sets, and the sorted times. *)

(* A finite set of times can be put in order; every time is then listed. *)
Ordered(T, s) ==
  /\ s \in [1 .. Cardinality(T) -> T]
  /\ \A i, j \in 1 .. Cardinality(T) : i < j => s[i] < s[j]

LEMMA OrderedExists ==
  ASSUME NEW T \in SUBSET Instant
  PROVE  \E s : Ordered(T, s)
<1> DEFINE D == {r \in SUBSET Instant : ~\E s : Ordered(r, s)}
<1>0. IsFiniteSet(Instant)
  BY FS_Interval, TimelineAssumption DEF Instant
<1>1. ASSUME D # {} PROVE FALSE
  <2>0. D \in SUBSET SUBSET Instant
    OBVIOUS
  <2>1. PICK r \in D : /\ IsFiniteSet(r) /\ Cardinality(r) \in Nat
                       /\ \A y \in D : Cardinality(y) \in Nat /\ Cardinality(r) <= Cardinality(y)
    BY <1>0, <1>1, <2>0, SmallestExists
  <2>2. r \in SUBSET Instant /\ ~\E s : Ordered(r, s)
    BY <2>1
  <2>3. CASE r = {}
    <3>1. Cardinality(r) = 0
      BY <2>3, FS_EmptySet
    <3>2. [i \in 1 .. 0 |-> 0] \in [1 .. 0 -> r]
      OBVIOUS
    <3>3. Ordered(r, [i \in 1 .. 0 |-> 0])
      BY <3>1, <3>2 DEF Ordered
    <3> QED BY <3>3, <2>2
  <2>4. CASE r # {}
    <3>1. r \subseteq 0 .. Horizon /\ Horizon \in Nat
      BY <2>2, Constants DEF Instant
    <3>2. PICK x \in r : \A y \in r : y <= x
      BY <3>1, <2>4, GreatestExists
    <3> DEFINE q == r \ {x}
    <3> DEFINE n == Cardinality(r)
    <3>3. Cardinality(q) = n - 1 /\ n \in Nat /\ n - 1 \in Nat
      <4>1. IsFiniteSet(q) /\ Cardinality(q) = n - 1
        BY <2>1, <3>2, FS_RemoveElement
      <4>2. Cardinality(q) \in Nat
        BY <4>1, FS_CardinalityType
      <4> QED BY <4>1, <4>2, <2>1
    <3> HIDE DEF n
    <3>4. q \in SUBSET Instant /\ q \notin D
      <4>1. Cardinality(q) < n
        BY <3>3
      <4> QED BY <4>1, <3>3, <2>1, <2>2 DEF n
    <3>5. PICK s : Ordered(q, s)
      BY <3>4
    <3>6. /\ s \in [1 .. n - 1 -> q]
          /\ \A i, j \in 1 .. n - 1 : i < j => s[i] < s[j]
      BY <3>3, <3>5 DEF Ordered
    <3>7. \A y \in q : y \in r /\ y < x /\ y \in Nat
      <4> SUFFICES ASSUME NEW y \in q PROVE y \in r /\ y < x /\ y \in Nat
        OBVIOUS
      <4>1. y \in r /\ y # x /\ y \in Nat /\ x \in Nat
        BY <3>1, <3>2
      <4> QED BY <4>1, <3>2
    <3> HIDE DEF q, D
    <3> DEFINE e == [i \in 1 .. n |-> IF i = n THEN x ELSE s[i]]
    <3>8. ASSUME NEW i \in 1 .. n PROVE e[i] \in r /\ e[i] = IF i = n THEN x ELSE s[i]
      <4>1. i # n => i \in 1 .. n - 1
        BY <3>3
      <4> QED BY <4>1, <3>2, <3>6, <3>7
    <3>9. e \in [1 .. n -> r]
      BY <3>8
    <3> HIDE DEF e
    <3>10. ASSUME NEW i \in 1 .. n, NEW j \in 1 .. n, i < j PROVE e[i] < e[j]
      <4>1. i \in 1 .. n - 1 /\ i # n
        BY <3>3, <3>10
      <4>2. e[i] = s[i] /\ s[i] \in q /\ s[i] < x
        BY <4>1, <3>6, <3>7, <3>8
      <4>3. CASE j = n
        BY <4>2, <4>3, <3>8
      <4>4. CASE j # n
        <5>1. j \in 1 .. n - 1
          BY <3>3, <4>4
        <5> QED BY <5>1, <4>1, <4>2, <4>4, <3>6, <3>8, <3>10
      <4> QED BY <4>3, <4>4
    <3>11. Ordered(r, e)
      BY <3>9, <3>10 DEF Ordered, n
    <3> QED BY <3>11, <2>2
  <2> QED BY <2>3, <2>4
<1>2. T \notin D
  BY <1>1
<1> QED BY <1>2

LEMMA InOrderIs ==
  ASSUME NEW T \in SUBSET Instant
  PROVE  /\ Cardinality(T) \in Nat
         /\ InOrder(T) \in [1 .. Cardinality(T) -> T]
         /\ \A i, j \in 1 .. Cardinality(T) : i < j => InOrder(T)[i] < InOrder(T)[j]
         /\ \A t \in T : \E i \in 1 .. Cardinality(T) : InOrder(T)[i] = t
<1> DEFINE n == Cardinality(T)
<1> DEFINE s == InOrder(T)
<1>0. IsFiniteSet(T) /\ n \in Nat /\ Instant \subseteq Nat
  <2>1. IsFiniteSet(Instant)
    BY FS_Interval, TimelineAssumption DEF Instant
  <2>2. IsFiniteSet(T)
    BY <2>1, FS_Subset
  <2>3. n \in Nat
    BY <2>2, FS_CardinalityType
  <2> QED BY <2>2, <2>3, Constants
<1>1. PICK e : Ordered(T, e)
  BY OrderedExists
<1>2. s \in [1 .. n -> T] /\ \A i, j \in 1 .. n : i < j => s[i] < s[j]
  <2> DEFINE P(f) == \A i, j \in 1 .. n : i < j => f[i] < f[j]
  <2>1. s = CHOOSE f \in [1 .. n -> T] : P(f)
    BY DEF InOrder
  <2>2. e \in [1 .. n -> T] /\ P(e)
    BY <1>1 DEF Ordered
  <2>3. s \in [1 .. n -> T] /\ P(s)
    <3> HIDE DEF P, s, n
    <3> QED BY <2>1, <2>2
  <2> QED BY <2>3
<1> HIDE DEF s
<1>3. s \in Injection(1 .. n, T)
  <2>1. ASSUME NEW i \in 1 .. n, NEW j \in 1 .. n, s[i] = s[j] PROVE i = j
    <3>1. i \in Nat /\ j \in Nat /\ s[i] \in Nat /\ s[j] \in Nat
      <4>1. s[i] \in T /\ s[j] \in T
        BY <1>2
      <4>2. T \subseteq Nat
        BY <1>0
      <4>3. s[i] \in Nat /\ s[j] \in Nat
        BY <4>1, <4>2
      <4> QED BY <4>3, <1>0
    <3>2. ~(i < j) /\ ~(j < i)
      BY <3>1, <2>1, <1>2
    <3> QED BY <3>1, <3>2
  <2> QED BY <2>1, <1>2 DEF Injection, IsInjective
<1>4. Cardinality(1 .. n) = n
  <2>1. Cardinality(1 .. n) = IF 1 > n THEN 0 ELSE n - 1 + 1
    BY <1>0, FS_Interval
  <2> QED BY <2>1, <1>0
<1>5. s \in Surjection(1 .. n, T)
  BY <1>0, <1>3, <1>4, FS_Injection
<1>6. \A t \in T : \E i \in 1 .. n : s[i] = t
  BY <1>5 DEF Surjection
<1> QED BY <1>0, <1>2, <1>6 DEF s

-----------------------------------------------------------------------------
(* The vector that a pass starts from. *)

(* The nodes held after t by running jobs, and the balance then. *)
Held(src, t) == NodesEnding(src, 0 .. Horizon \ 1 .. t)
Net(src, t) == ReferenceCapacity(src, t + 1) - Held(src, t)

LEMMA SourceFacts ==
  ASSUME NEW src \in Sources
  PROVE  /\ \A j \in RunningJobs : src.running[j].end \in Instant /\ src.running[j].nodes \in Nat
         /\ src.capacity \in 0 .. Word - 1
         /\ \A c \in src.changes : /\ c.time \in Instant /\ c.time \in Nat /\ c.time > 0
                                  /\ c.total \in 0 .. Word - 1
         /\ \A c, e \in src.changes : c # e => c.time # e.time
         /\ IsFiniteSet(RunningJobs)
<1>1. /\ src.running \in [RunningJobs -> [end : 0 .. Horizon, nodes : JobNodes]]
      /\ src.capacity \in Capacities
      /\ src.changes \in SUBSET Change
      /\ \A c, e \in src.changes : c # e => c.time # e.time
  BY DEF Sources
<1>2. JobNodes \subseteq Nat /\ Capacities \subseteq 0 .. Word - 1 /\ Horizon \in Nat /\ Word \in Nat
      /\ IsFiniteSet(RunningJobs)
  BY TimelineAssumption
<1>3. ASSUME NEW j \in RunningJobs
      PROVE  src.running[j].end \in Instant /\ src.running[j].nodes \in Nat
  <2>1. src.running[j] \in [end : 0 .. Horizon, nodes : JobNodes]
    BY <1>1
  <2> QED BY <2>1, <1>2 DEF Instant
<1>4. ASSUME NEW c \in src.changes
      PROVE  c.time \in Instant /\ c.time \in Nat /\ c.time > 0 /\ c.total \in 0 .. Word - 1
  <2>1. c \in Change
    BY <1>1
  <2>2. c.time \in 1 .. Horizon /\ c.total \in Capacities
    BY <2>1 DEF Change
  <2>3. c.total \in 0 .. Word - 1
    BY <2>2, <1>2
  <2> QED BY <2>2, <2>3, <1>2 DEF Instant
<1> QED BY <1>1, <1>2, <1>3, <1>4

LEMMA NodesType ==
  ASSUME NEW src \in Sources, NEW T
  PROVE  NodesEnding(src, T) \in Nat
<1> DEFINE F == [j \in RunningJobs |-> src.running[j].nodes]
<1> DEFINE A == {j \in RunningJobs : src.running[j].end \in T}
<1>1. \A x \in A : F[x] \in Nat
  BY SourceFacts
<1>2. IsFiniteSet(A)
  BY SourceFacts, FS_Subset
<1>3. 0 \in Nat /\ \A a, b \in Nat : a + b \in Nat
  OBVIOUS
<1>4. NodesEnding(src, T) = SumFunctionOnSet(F, A)
  BY DEF NodesEnding
<1> HIDE DEF F, A
<1>5. SumFunctionOnSet(F, A) \in Nat
  BY <1>1, <1>2, <1>3, SumType, Zenon
<1> QED BY <1>4, <1>5

(* Jobs that end at different times are counted apart. *)
LEMMA NodesSplit ==
  ASSUME NEW src \in Sources, NEW T, NEW U, NEW V,
         \A j \in RunningJobs :
           /\ src.running[j].end \in T <=> (src.running[j].end \in U \/ src.running[j].end \in V)
           /\ ~(src.running[j].end \in U /\ src.running[j].end \in V)
  PROVE  NodesEnding(src, T) = NodesEnding(src, U) + NodesEnding(src, V)
<1> DEFINE F == [j \in RunningJobs |-> src.running[j].nodes]
<1> DEFINE A == {j \in RunningJobs : src.running[j].end \in U}
<1> DEFINE B == {j \in RunningJobs : src.running[j].end \in V}
<1> DEFINE C == {j \in RunningJobs : src.running[j].end \in T}
<1>1. C = A \cup B /\ A \cap B = {} /\ A \in SUBSET RunningJobs /\ B \in SUBSET RunningJobs
  OBVIOUS
<1>2. IsFiniteSet(RunningJobs) /\ \A x \in RunningJobs : F[x] \in Int
  BY SourceFacts
<1>3. /\ NodesEnding(src, T) = SumFunctionOnSet(F, C)
      /\ NodesEnding(src, U) = SumFunctionOnSet(F, A)
      /\ NodesEnding(src, V) = SumFunctionOnSet(F, B)
  BY DEF NodesEnding
<1> HIDE DEF A, B, C, F
<1>4. SumFunctionOnSet(F, A \cup B) = SumFunctionOnSet(F, A) + SumFunctionOnSet(F, B)
  BY <1>1, <1>2, SumUnion
<1> QED BY <1>1, <1>3, <1>4

(* Between two times at which no job ends, the nodes that end at the later *)
(* one are released.                                                       *)
LEMMA HeldStep ==
  ASSUME NEW src \in Sources, NEW t \in Nat, NEW u \in Nat, t < u,
         \A j \in RunningJobs : ~(t < src.running[j].end /\ src.running[j].end < u)
  PROVE  Held(src, t) = Held(src, u) + NodesEnding(src, {u})
<1>1. ASSUME NEW j \in RunningJobs
      PROVE  LET e == src.running[j].end
             IN  /\ e \in 0 .. Horizon \ 1 .. t <=> (e \in 0 .. Horizon \ 1 .. u \/ e \in {u})
                 /\ ~(e \in 0 .. Horizon \ 1 .. u /\ e \in {u})
  <2> DEFINE e == src.running[j].end
  <2>1. e \in 0 .. Horizon /\ Horizon \in Nat /\ ~(t < e /\ e < u)
    BY SourceFacts, Constants DEF Instant
  <2> HIDE DEF e
  <2>2. /\ e \in 0 .. Horizon \ 1 .. t <=> (e \in 0 .. Horizon \ 1 .. u \/ e \in {u})
        /\ ~(e \in 0 .. Horizon \ 1 .. u /\ e \in {u})
    BY <2>1
  <2> QED BY <2>2 DEF e
<1> QED BY <1>1, NodesSplit DEF Held

LEMMA HeldSame ==
  ASSUME NEW src \in Sources, NEW t \in Nat, NEW u \in Nat, t <= u,
         \A j \in RunningJobs : ~(t < src.running[j].end /\ src.running[j].end <= u)
  PROVE  Held(src, t) = Held(src, u)
<1>1. ASSUME NEW j \in RunningJobs
      PROVE  src.running[j].end \in 0 .. Horizon \ 1 .. t <=> src.running[j].end \in 0 .. Horizon \ 1 .. u
  <2> DEFINE e == src.running[j].end
  <2>1. e \in 0 .. Horizon /\ Horizon \in Nat /\ ~(t < e /\ e <= u)
    BY SourceFacts, Constants DEF Instant
  <2> HIDE DEF e
  <2>2. e \in 0 .. Horizon \ 1 .. t <=> e \in 0 .. Horizon \ 1 .. u
    BY <2>1
  <2> QED BY <2>2 DEF e
<1>2. {j \in RunningJobs : src.running[j].end \in 0 .. Horizon \ 1 .. t}
        = {j \in RunningJobs : src.running[j].end \in 0 .. Horizon \ 1 .. u}
  BY <1>1
<1> QED BY <1>2 DEF Held, NodesEnding

-----------------------------------------------------------------------------
(* The capacity in effect. *)

LEMMA ReferenceOf ==
  ASSUME NEW src \in Sources, NEW t, NEW c \in src.changes, c.time < t,
         \A e \in src.changes : e.time < t => e.time <= c.time
  PROVE  ReferenceCapacity(src, t) = c.total
<1> DEFINE E == {e \in src.changes : e.time < t}
<1> DEFINE P(e) == \A f \in E : f.time <= e.time
<1>1. c \in E /\ P(c)
  OBVIOUS
<1>2. ReferenceCapacity(src, t) = IF E = {} THEN src.capacity ELSE (CHOOSE e \in E : P(e)).total
  BY DEF ReferenceCapacity
<1>3. ASSUME NEW e \in E, P(e) PROVE e = c
  <2>1. e \in src.changes /\ e.time <= c.time /\ c.time <= e.time
    BY <1>1, <1>3
  <2>2. e.time \in Nat /\ c.time \in Nat
    BY <2>1, SourceFacts
  <2>3. e.time = c.time
    BY <2>1, <2>2
  <2> QED BY <2>1, <2>3, SourceFacts
<1> HIDE DEF E, P
<1>4. (CHOOSE e \in E : P(e)) \in E /\ P(CHOOSE e \in E : P(e))
  BY <1>1
<1>5. (CHOOSE e \in E : P(e)) = c
  BY <1>3, <1>4
<1> QED BY <1>1, <1>2, <1>5

LEMMA ReferenceSame ==
  ASSUME NEW src \in Sources, NEW t, NEW u, \A c \in src.changes : c.time < t <=> c.time < u
  PROVE  ReferenceCapacity(src, t) = ReferenceCapacity(src, u)
<1> DEFINE E == {c \in src.changes : c.time < t}
<1> DEFINE G == {c \in src.changes : c.time < u}
<1> DEFINE Top(S) == CHOOSE c \in S : \A e \in S : e.time <= c.time
<1>1. E = G
  OBVIOUS
<1>2. /\ ReferenceCapacity(src, t) = IF E = {} THEN src.capacity ELSE Top(E).total
      /\ ReferenceCapacity(src, u) = IF G = {} THEN src.capacity ELSE Top(G).total
  BY DEF ReferenceCapacity
<1> HIDE DEF E, G, Top
<1> QED BY <1>1, <1>2

LEMMA ReferenceType ==
  ASSUME NEW src \in Sources, NEW t \in Nat
  PROVE  ReferenceCapacity(src, t) \in 0 .. Word - 1
<1> DEFINE E == {e \in src.changes : e.time < t}
<1>1. CASE E = {}
  BY <1>1, SourceFacts DEF ReferenceCapacity
<1>2. CASE E # {}
  <2> DEFINE T == {x \in Instant : \E e \in E : e.time = x}
  <2>1. T \subseteq 0 .. Horizon /\ Horizon \in Nat /\ T # {}
    <3>1. PICK e \in E : TRUE
      BY <1>2
    <3>2. e.time \in T
      BY <3>1, SourceFacts
    <3>3. T \subseteq 0 .. Horizon /\ Horizon \in Nat
      BY Constants DEF Instant
    <3> HIDE DEF T
    <3> QED BY <3>2, <3>3
  <2>2. PICK x \in T : \A y \in T : y <= x
    BY <2>1, GreatestExists
  <2>3. PICK c \in E : c.time = x
    BY <2>2
  <2>4. c \in src.changes /\ c.time < t
    BY <2>3
  <2>5. ASSUME NEW e \in src.changes, e.time < t PROVE e.time <= c.time
    <3>1. e.time \in T
      BY <2>5, SourceFacts
    <3> HIDE DEF T
    <3> QED BY <3>1, <2>2, <2>3
  <2>6. ReferenceCapacity(src, t) = c.total
    BY <2>4, <2>5, ReferenceOf
  <2> QED BY <2>4, <2>6, SourceFacts
<1> QED BY <1>1, <1>2

(* The delta at t: the nodes released, and the difference between the      *)
(* capacities in effect after and before.                                  *)
LEMMA DeltaIs ==
  ASSUME NEW src \in Sources, NEW t \in Nat
  PROVE  /\ Delta(src, t) = NodesEnding(src, {t})
                            + (ReferenceCapacity(src, t + 1) - ReferenceCapacity(src, t))
         /\ Delta(src, t) \in Int
<1> DEFINE r == ReferenceCapacity(src, t)
<1> DEFINE F == [c \in src.changes |-> c.total - r]
<1> DEFINE A == {c \in src.changes : c.time = t}
<1> DEFINE n == NodesEnding(src, {t})
<1>0. /\ r \in Int /\ n \in Int /\ ReferenceCapacity(src, t + 1) \in Int
      /\ \A c \in src.changes : c.time \in Nat /\ c.total \in Int
  <2>1. r \in 0 .. Word - 1 /\ ReferenceCapacity(src, t + 1) \in 0 .. Word - 1 /\ Word \in Nat
    BY ReferenceType, Constants
  <2>2. n \in Nat
    BY NodesType
  <2>3. \A c \in src.changes : c.time \in Nat /\ c.total \in Int
    BY SourceFacts, Constants
  <2> QED BY <2>1, <2>2, <2>3
<1>1. Delta(src, t) = n + SumFunctionOnSet(F, A)
  BY DEF Delta
<1> HIDE DEF n, r
<1>2. CASE A = {}
  <2>1. SumFunctionOnSet(F, A) = 0
    <3> HIDE DEF F, A
    <3> QED BY <1>2, SumEmpty
  <2>2. \A c \in src.changes : c.time < t + 1 <=> c.time < t
    BY <1>0, <1>2
  <2>3. ReferenceCapacity(src, t + 1) = r
    BY <2>2, ReferenceSame DEF r
  <2> HIDE DEF A, F
  <2> QED BY <2>1, <2>3, <1>0, <1>1 DEF n, r
<1>3. CASE A # {}
  <2>1. PICK c \in A : TRUE
    BY <1>3
  <2>2. c \in src.changes /\ c.time = t /\ A = {c}
    BY <2>1, SourceFacts
  <2>3. F[c] = c.total - r /\ F[c] \in Int
    BY <2>2, <1>0
  <2>4. SumFunctionOnSet(F, A) = c.total - r
    <3> HIDE DEF F, A
    <3> QED BY <2>2, <2>3, SumSingle
  <2>5. c.time < t + 1 /\ \A e \in src.changes : e.time < t + 1 => e.time <= c.time
    BY <2>2, <1>0
  <2>6. ReferenceCapacity(src, t + 1) = c.total
    BY <2>2, <2>5, ReferenceOf
  <2> HIDE DEF A, F
  <2> QED BY <2>2, <2>4, <2>6, <1>0, <1>1 DEF n, r
<1> QED BY <1>2, <1>3

LEMMA DeltaTimesFacts ==
  ASSUME NEW src \in Sources
  PROVE  /\ DeltaTimes(src) \subseteq Instant
         /\ \A j \in RunningJobs : src.running[j].end \in DeltaTimes(src)
         /\ \A c \in src.changes : c.time \in DeltaTimes(src)
<1>1. \A j \in RunningJobs : src.running[j].end \in Instant
  BY SourceFacts
<1>2. \A c \in src.changes : c.time \in Instant
  BY SourceFacts
<1> QED BY <1>1, <1>2 DEF DeltaTimes

(* The balance changes at the deltas only, and by them. *)
LEMMA NetStep ==
  ASSUME NEW src \in Sources, NEW t \in Nat, NEW u \in Nat, t < u,
         \A x \in DeltaTimes(src) : ~(t < x /\ x < u)
  PROVE  Net(src, u) = Net(src, t) + Delta(src, u)
<1>1. Held(src, t) = Held(src, u) + NodesEnding(src, {u})
  BY DeltaTimesFacts, HeldStep
<1>2. ReferenceCapacity(src, u) = ReferenceCapacity(src, t + 1)
  <2>1. ASSUME NEW c \in src.changes PROVE c.time < u <=> c.time < t + 1
    <3>1. c.time \in Nat /\ ~(t < c.time /\ c.time < u)
      BY DeltaTimesFacts, SourceFacts
    <3> QED BY <3>1
  <2> QED BY <2>1, ReferenceSame
<1>3. Delta(src, u) = NodesEnding(src, {u}) + (ReferenceCapacity(src, u + 1) - ReferenceCapacity(src, u))
  BY DeltaIs
<1>4. /\ Held(src, t) \in Int /\ Held(src, u) \in Int /\ NodesEnding(src, {u}) \in Int
      /\ ReferenceCapacity(src, u + 1) \in Int /\ ReferenceCapacity(src, u) \in Int
  <2>1. Held(src, t) \in Nat /\ Held(src, u) \in Nat /\ NodesEnding(src, {u}) \in Nat
    BY NodesType DEF Held
  <2>2. ReferenceCapacity(src, u + 1) \in 0 .. Word - 1 /\ ReferenceCapacity(src, u) \in 0 .. Word - 1
    BY ReferenceType
  <2> QED BY <2>1, <2>2, Constants
<1> QED BY <1>1, <1>2, <1>3, <1>4 DEF Net

LEMMA NetSame ==
  ASSUME NEW src \in Sources, NEW t \in Nat, NEW u \in Nat, t <= u,
         \A x \in DeltaTimes(src) : ~(t < x /\ x <= u)
  PROVE  Net(src, u) = Net(src, t)
<1>1. Held(src, t) = Held(src, u)
  BY DeltaTimesFacts, HeldSame
<1>2. ReferenceCapacity(src, u + 1) = ReferenceCapacity(src, t + 1)
  <2>1. ASSUME NEW c \in src.changes PROVE c.time < u + 1 <=> c.time < t + 1
    <3>1. c.time \in Nat /\ ~(t < c.time /\ c.time <= u)
      BY DeltaTimesFacts, SourceFacts
    <3> QED BY <3>1
  <2> QED BY <2>1, ReferenceSame
<1> QED BY <1>1, <1>2 DEF Net

LEMMA NetType ==
  ASSUME NEW src \in Sources, NEW t \in Nat
  PROVE  Net(src, t) \in Int /\ clamp(Net(src, t)) \in 0 .. Word - 1
<1> DEFINE r == ReferenceCapacity(src, t + 1)
<1>1. r \in 0 .. Word - 1 /\ Word \in Nat \ {0}
  BY ReferenceType, Constants
<1>2. Held(src, t) \in Nat
  BY NodesType DEF Held
<1>3. Net(src, t) = r - Held(src, t)
  BY DEF Net
<1> HIDE DEF r
<1> QED BY <1>1, <1>2, <1>3 DEF clamp

(* It starts from the capacity less all running jobs, negative when the    *)
(* system is overcommitted.                                                *)
LEMMA StartIs ==
  ASSUME NEW src \in Sources
  PROVE  StartBalance(src) = Net(src, 0)
<1>1. ReferenceCapacity(src, 0 + 1) = src.capacity
  <2>1. {c \in src.changes : c.time < 0 + 1} = {}
    BY SourceFacts
  <2> QED BY <2>1 DEF ReferenceCapacity
<1>2. Held(src, 0) = Occupied(src)
  <2>1. 0 .. Horizon \ 1 .. 0 = 0 .. Horizon
    BY Constants
  <2> QED BY <2>1 DEF Held, Occupied
<1>3. src.capacity \in Nat /\ Occupied(src) \in Nat
  BY NodesType, SourceFacts, Constants DEF Occupied
<1>4. StartBalance(src) = src.capacity - Occupied(src)
  BY <1>3 DEF StartBalance, Available, clamp
<1> QED BY <1>1, <1>2, <1>4 DEF Net

-----------------------------------------------------------------------------
(* The times after the planning time, and the boundary of each segment. *)
Later(src) == {t \in DeltaTimes(src) : t > 0}
BoundaryTime(src, i) == IF i = 0 THEN 0 ELSE InOrder(Later(src))[i]
Deltas(src) == [t \in DeltaTimes(src) |-> Delta(src, t)]
FirstTimes(src, i) == {InOrder(Later(src))[k] : k \in 1 .. i}

LEMMA LaterFacts ==
  ASSUME NEW src \in Sources, NEW n, n = Cardinality(Later(src))
  PROVE  /\ n \in Nat /\ InOrder(Later(src)) \in [1 .. n -> Later(src)]
         /\ \A i \in 0 .. n : BoundaryTime(src, i) \in Instant /\ BoundaryTime(src, i) \in Nat
         /\ \A i \in 1 .. n : BoundaryTime(src, i) \in DeltaTimes(src)
         /\ \A i, j \in 0 .. n : i < j => BoundaryTime(src, i) < BoundaryTime(src, j)
         /\ \A x \in DeltaTimes(src) : x > 0 => \E i \in 1 .. n : BoundaryTime(src, i) = x
<1> DEFINE s == InOrder(Later(src))
<1>0. Later(src) \in SUBSET Instant /\ Later(src) \subseteq DeltaTimes(src) /\ \A t \in Later(src) : t > 0
  BY DeltaTimesFacts DEF Later
<1>1. /\ n \in Nat /\ s \in [1 .. n -> Later(src)]
      /\ \A i, j \in 1 .. n : i < j => s[i] < s[j]
      /\ \A t \in Later(src) : \E i \in 1 .. n : s[i] = t
  BY <1>0, InOrderIs
<1>2. BoundaryTime(src, 0) = 0 /\ \A i \in 1 .. n : BoundaryTime(src, i) = s[i]
  BY <1>1 DEF BoundaryTime
<1> HIDE DEF s
<1>3. ASSUME NEW i \in 0 .. n PROVE BoundaryTime(src, i) \in Instant /\ BoundaryTime(src, i) \in Nat
  <2>1. CASE i = 0
    BY <2>1, <1>2, Constants
  <2>2. CASE i # 0
    <3>1. i \in 1 .. n
      BY <2>2, <1>1
    <3>2. s[i] \in Later(src)
      BY <3>1, <1>1
    <3>3. s[i] \in Instant
      BY <3>2, <1>0
    <3> QED BY <3>1, <3>3, <1>2, Constants
  <2> QED BY <2>1, <2>2
<1>4. ASSUME NEW i \in 1 .. n PROVE BoundaryTime(src, i) \in DeltaTimes(src) /\ BoundaryTime(src, i) > 0
  <2>1. s[i] \in Later(src)
    BY <1>1
  <2> QED BY <2>1, <1>0, <1>2
<1>5. ASSUME NEW i \in 0 .. n, NEW j \in 0 .. n, i < j PROVE BoundaryTime(src, i) < BoundaryTime(src, j)
  <2>1. j \in 1 .. n
    BY <1>1, <1>5
  <2>2. CASE i = 0
    BY <2>1, <2>2, <1>2, <1>4
  <2>3. CASE i # 0
    <3>1. i \in 1 .. n
      BY <2>3, <1>1
    <3> QED BY <3>1, <2>1, <1>1, <1>2, <1>5
  <2> QED BY <2>2, <2>3
<1>6. ASSUME NEW x \in DeltaTimes(src), x > 0 PROVE \E i \in 1 .. n : BoundaryTime(src, i) = x
  <2>1. x \in Later(src)
    BY <1>6 DEF Later
  <2> QED BY <2>1, <1>1, <1>2
<1> QED BY <1>1, <1>3, <1>4, <1>5, <1>6 DEF s

(* No delta lies between two successive boundaries. *)
LEMMA NoneBetween ==
  ASSUME NEW src \in Sources, NEW n, n = Cardinality(Later(src)), NEW i \in 1 .. n,
         NEW x \in DeltaTimes(src)
  PROVE  ~(BoundaryTime(src, i - 1) < x /\ x < BoundaryTime(src, i))
<1> SUFFICES ASSUME BoundaryTime(src, i - 1) < x, x < BoundaryTime(src, i) PROVE FALSE
  OBVIOUS
<1>0. /\ n \in Nat
      /\ \A k \in 0 .. n : BoundaryTime(src, k) \in Nat
      /\ \A k, m \in 0 .. n : k < m => BoundaryTime(src, k) < BoundaryTime(src, m)
      /\ \A y \in DeltaTimes(src) : y > 0 => \E k \in 1 .. n : BoundaryTime(src, k) = y
  BY LaterFacts
<1>1. x \in Nat /\ i - 1 \in 0 .. n /\ i \in 0 .. n
  <2>1. x \in Instant
    BY DeltaTimesFacts
  <2>2. x \in Nat
    BY <2>1, Constants
  <2> QED BY <2>2, <1>0
<1>2. x > 0
  <2>1. BoundaryTime(src, i - 1) \in Nat
    BY <1>0, <1>1
  <2> QED BY <2>1, <1>1
<1>3. PICK k \in 1 .. n : BoundaryTime(src, k) = x
  BY <1>0, <1>2
<1>4. k \in 0 .. n /\ k \in Nat
  BY <1>0
<1>5. CASE k < i
  <2>1. k = i - 1 \/ k < i - 1
    BY <1>5, <1>4, <1>0
  <2>2. k < i - 1 => x < BoundaryTime(src, i - 1)
    BY <1>0, <1>1, <1>3, <1>4
  <2>3. BoundaryTime(src, i - 1) \in Nat
    BY <1>0, <1>1
  <2>4. BoundaryTime(src, i - 1) < x
    OBVIOUS
  <2> QED BY <2>1, <2>2, <2>3, <2>4, <1>1, <1>3
<1>6. CASE ~(k < i)
  <2>1. k = i \/ i < k
    BY <1>6, <1>4, <1>0
  <2>2. i < k => BoundaryTime(src, i) < x
    BY <1>0, <1>1, <1>3, <1>4
  <2>3. BoundaryTime(src, i) \in Nat
    BY <1>0, <1>1
  <2>4. x < BoundaryTime(src, i)
    OBVIOUS
  <2> QED BY <2>1, <2>2, <2>3, <2>4, <1>1, <1>3
<1> QED BY <1>5, <1>6

(* After i deltas the balance is that of the i-th boundary. *)
LEMMA BalanceIs ==
  ASSUME NEW src \in Sources, NEW n, n = Cardinality(Later(src)), NEW m \in 0 .. n
  PROVE  StartBalance(src) + SumFunctionOnSet(Deltas(src), FirstTimes(src, m))
           = Net(src, BoundaryTime(src, m))
<1> DEFINE Sum(i) == SumFunctionOnSet(Deltas(src), FirstTimes(src, i))
<1> DEFINE T == {i \in 0 .. n : StartBalance(src) + Sum(i) # Net(src, BoundaryTime(src, i))}
<1>0. /\ n \in Nat
      /\ \A i \in 0 .. n : BoundaryTime(src, i) \in Nat
      /\ \A i \in 1 .. n : BoundaryTime(src, i) \in DeltaTimes(src)
      /\ \A i, j \in 0 .. n : i < j => BoundaryTime(src, i) < BoundaryTime(src, j)
  BY LaterFacts
<1>1. \A i \in 0 .. n : FirstTimes(src, i) \in SUBSET DeltaTimes(src)
                       /\ \A x : x \in FirstTimes(src, i) <=> \E k \in 1 .. i : BoundaryTime(src, k) = x
  <2> SUFFICES ASSUME NEW i \in 0 .. n
               PROVE  /\ FirstTimes(src, i) \in SUBSET DeltaTimes(src)
                      /\ \A x : x \in FirstTimes(src, i) <=> \E k \in 1 .. i : BoundaryTime(src, k) = x
    OBVIOUS
  <2>1. \A k \in 1 .. i : BoundaryTime(src, k) = InOrder(Later(src))[k] /\ k \in 1 .. n
    BY <1>0 DEF BoundaryTime
  <2>2. \A x : x \in FirstTimes(src, i) <=> \E k \in 1 .. i : BoundaryTime(src, k) = x
    BY <2>1 DEF FirstTimes
  <2>3. \A x \in FirstTimes(src, i) : x \in DeltaTimes(src)
    BY <2>1, <2>2, <1>0
  <2> QED BY <2>2, <2>3
<1>2. IsFiniteSet(DeltaTimes(src)) /\ \A x \in DeltaTimes(src) : Deltas(src)[x] = Delta(src, x)
                                                                 /\ Deltas(src)[x] \in Int
  <2>1. IsFiniteSet(Instant)
    BY FS_Interval, TimelineAssumption DEF Instant
  <2>2. DeltaTimes(src) \subseteq Instant
    BY DeltaTimesFacts
  <2>3. IsFiniteSet(DeltaTimes(src))
    BY <2>1, <2>2, FS_Subset
  <2>4. ASSUME NEW x \in DeltaTimes(src) PROVE Deltas(src)[x] = Delta(src, x) /\ Delta(src, x) \in Int
    <3>1. x \in Nat
      BY <2>2, Constants
    <3> QED BY <3>1, DeltaIs DEF Deltas
  <2> QED BY <2>3, <2>4
<1>3. \A i \in 0 .. n : Sum(i) \in Int
  <2> SUFFICES ASSUME NEW i \in 0 .. n PROVE Sum(i) \in Int
    OBVIOUS
  <2>1. /\ IsFiniteSet(FirstTimes(src, i)) /\ 0 \in Int /\ (\A a, b \in Int : a + b \in Int)
        /\ \A x \in FirstTimes(src, i) : Deltas(src)[x] \in Int
    BY <1>1, <1>2, FS_Subset
  <2> QED BY <2>1, SumType
<1>4. ASSUME T # {} PROVE FALSE
  <2>1. PICK i \in T : \A y \in T : i <= y
    <3>1. T \subseteq Nat
      BY <1>0
    <3> QED BY <3>1, <1>4, LeastExists
  <2>2. i \in 0 .. n /\ StartBalance(src) + Sum(i) # Net(src, BoundaryTime(src, i))
    BY <2>1
  <2>3. CASE i = 0
    <3>1. FirstTimes(src, 0) = {}
      BY DEF FirstTimes
    <3>2. Sum(0) = 0
      BY <3>1, SumEmpty
    <3>3. BoundaryTime(src, 0) = 0 /\ StartBalance(src) = Net(src, 0) /\ Net(src, 0) \in Int
      BY StartIs, NetType DEF BoundaryTime
    <3> HIDE DEF Sum
    <3> QED BY <2>2, <2>3, <3>2, <3>3
  <2>4. CASE i # 0
    <3> DEFINE h == i - 1
    <3> DEFINE t == BoundaryTime(src, h)
    <3> DEFINE u == BoundaryTime(src, i)
    <3>1. i \in 1 .. n /\ h \in 0 .. n /\ h < i /\ i \in Nat /\ h \in Nat /\ i = h + 1
      BY <1>0, <2>2, <2>4
    <3>2. StartBalance(src) + Sum(h) = Net(src, t)
      <4>1. h \notin T
        <5> HIDE DEF T
        <5> QED BY <2>1, <3>1
      <4> QED BY <4>1, <3>1
    <3>3. t \in Nat /\ u \in Nat /\ t < u /\ u \in DeltaTimes(src)
      BY <1>0, <3>1
    <3>4. Net(src, u) = Net(src, t) + Delta(src, u)
      <4>1. \A x \in DeltaTimes(src) : ~(t < x /\ x < u)
        BY <3>1, NoneBetween
      <4> HIDE DEF t, u
      <4> QED BY <4>1, <3>3, NetStep
    <3>5. u \notin FirstTimes(src, h)
      <4> SUFFICES ASSUME NEW k \in 1 .. h, BoundaryTime(src, k) = u PROVE FALSE
        BY <1>1, <3>1
      <4>1. k \in 0 .. n /\ k < i /\ i \in 0 .. n
        BY <3>1, <1>0
      <4>2. BoundaryTime(src, k) < u
        BY <4>1, <1>0
      <4> QED BY <4>2, <3>3
    <3>6. FirstTimes(src, i) = FirstTimes(src, h) \cup {u}
      <4>1. \A k : k \in 1 .. i <=> k \in 1 .. h \/ k = i
        BY <3>1
      <4>2. \A x : x \in FirstTimes(src, i) <=> \E k \in 1 .. i : BoundaryTime(src, k) = x
        BY <1>1, <2>2
      <4>3. \A x : x \in FirstTimes(src, h) <=> \E k \in 1 .. h : BoundaryTime(src, k) = x
        BY <1>1, <3>1
      <4>4. \A x : x \in FirstTimes(src, i) <=> x \in FirstTimes(src, h) \/ x = u
        BY <4>1, <4>2, <4>3
      <4> HIDE DEF h, u
      <4> QED BY <4>4
    <3>7. Sum(i) = Delta(src, u) + Sum(h)
      <4> DEFINE A == FirstTimes(src, h)
      <4>1. A \in SUBSET DeltaTimes(src) /\ u \in DeltaTimes(src) \ A /\ FirstTimes(src, i) = A \cup {u}
        BY <1>1, <3>1, <3>3, <3>5, <3>6
      <4> HIDE DEF A, u
      <4>2. SumFunctionOnSet(Deltas(src), A \cup {u}) = Deltas(src)[u] + SumFunctionOnSet(Deltas(src), A)
        BY <4>1, <1>2, SumAdd
      <4> QED BY <4>1, <4>2, <1>2 DEF A
    <3>8. /\ StartBalance(src) \in Int /\ Sum(h) \in Int /\ Delta(src, u) \in Int
      BY <1>3, <3>1, <3>3, StartIs, NetType, DeltaIs
    <3> HIDE DEF Sum, h, t, u, T
    <3>9. StartBalance(src) + Sum(i) = Net(src, u)
      BY <3>2, <3>4, <3>7, <3>8
    <3> QED BY <3>9, <2>2 DEF u
  <2> QED BY <2>3, <2>4
<1>5. m \notin T
  BY <1>4
<1> QED BY <1>5

(* The vector, segment by segment. *)
LEMMA TimelineIs ==
  ASSUME NEW src \in Sources, NEW n, n = Cardinality(Later(src))
  PROVE  LET s == reservation_timeline(src)
         IN  /\ s \in Seq(Segment) /\ Len(s) = n + 1
             /\ \A i \in 0 .. n : /\ s[i + 1].time = BoundaryTime(src, i)
                                  /\ s[i + 1].free = clamp(Net(src, BoundaryTime(src, i)))
<1> DEFINE later == InOrder(Later(src))
<1> DEFINE seg(i) == [time |-> BoundaryTime(src, i), free |-> clamp(Net(src, BoundaryTime(src, i)))]
<1> DEFINE upTo(i) == StartBalance(src) + SumFunctionOnSet(Deltas(src), FirstTimes(src, i))
<1> DEFINE a == <<[time |-> 0, free |-> clamp(StartBalance(src))]>>
<1> DEFINE b == [i \in 1 .. Len(later) |-> [time |-> later[i], free |-> clamp(upTo(i))]]
<1>1. reservation_timeline(src) = a \o b
  BY DEF reservation_timeline, Later, Deltas, FirstTimes
<1>2. /\ n \in Nat /\ later \in [1 .. n -> Later(src)]
      /\ \A i \in 0 .. n : BoundaryTime(src, i) \in Instant /\ BoundaryTime(src, i) \in Nat
  BY LaterFacts
<1>3. Len(later) = n
  <2> HIDE DEF later
  <2> QED BY ONLY <1>2
<1>4. \A i \in 0 .. n : seg(i) \in Segment
  <2> SUFFICES ASSUME NEW i \in 0 .. n PROVE seg(i) \in Segment
    OBVIOUS
  <2>1. BoundaryTime(src, i) \in Instant /\ BoundaryTime(src, i) \in Nat
    BY <1>2
  <2>2. clamp(Net(src, BoundaryTime(src, i))) \in 0 .. Word - 1
    BY <2>1, NetType
  <2> QED BY <2>1, <2>2 DEF Segment
<1>5. a = <<seg(0)>>
  BY StartIs DEF BoundaryTime
<1>6. b = [i \in 1 .. n |-> seg(i)]
  <2>1. ASSUME NEW i \in 1 .. n PROVE later[i] = BoundaryTime(src, i) /\ upTo(i) = Net(src, BoundaryTime(src, i))
    <3>1. i \in 0 .. n /\ i # 0
      BY <1>2
    <3> QED BY <3>1, BalanceIs DEF BoundaryTime
  <2> HIDE DEF later, upTo
  <2> QED BY <2>1, <1>3
<1> HIDE DEF a, b
<1>7. a \in Seq(Segment) /\ Len(a) = 1 /\ a[1] = seg(0)
  <2>1. seg(0) \in Segment
    BY <1>2, <1>4
  <2> HIDE DEF seg
  <2> QED BY <2>1, <1>5
<1>8. b \in Seq(Segment) /\ Len(b) = n /\ \A i \in 1 .. n : b[i] = seg(i)
  <2>1. \A i \in 1 .. n : seg(i) \in Segment
    BY <1>2, <1>4
  <2> HIDE DEF seg
  <2>2. b \in [1 .. n -> Segment]
    BY <2>1, <1>6
  <2>3. b \in Seq(Segment) /\ Len(b) = n
    BY ONLY <2>2, <1>2
  <2> QED BY <2>3, <1>6
<1> DEFINE s == a \o b
<1>9. /\ s \in Seq(Segment) /\ Len(s) = Len(a) + Len(b)
      /\ \A i \in 1 .. Len(a) + Len(b) : s[i] = IF i <= Len(a) THEN a[i] ELSE b[i - Len(a)]
  BY <1>7, <1>8, ConcatProperties
<1> HIDE DEF s
<1>10. Len(s) = n + 1
  BY <1>2, <1>7, <1>8, <1>9
<1>11. ASSUME NEW i \in 0 .. n PROVE s[i + 1] = seg(i)
  <2>1. s[i + 1] = IF i + 1 <= 1 THEN a[i + 1] ELSE b[(i + 1) - 1]
    <3>1. i + 1 \in 1 .. Len(a) + Len(b)
      BY <1>2, <1>7, <1>8
    <3> QED BY <3>1, <1>7, <1>9
  <2>2. CASE i = 0
    BY <2>1, <2>2, <1>7
  <2>3. CASE i # 0
    <3>1. i \in 1 .. n /\ ~(i + 1 <= 1) /\ (i + 1) - 1 = i
      BY <2>3, <1>2
    <3> QED BY <3>1, <2>1, <1>8
  <2> QED BY <2>2, <2>3
<1>12. \A i \in 0 .. n : /\ s[i + 1].time = BoundaryTime(src, i)
                        /\ s[i + 1].free = clamp(Net(src, BoundaryTime(src, i)))
  <2>1. \A i \in 0 .. n : /\ seg(i).time = BoundaryTime(src, i)
                          /\ seg(i).free = clamp(Net(src, BoundaryTime(src, i)))
    OBVIOUS
  <2> HIDE DEF seg
  <2> QED BY <2>1, <1>11
<1> QED BY <1>1, <1>9, <1>10, <1>12 DEF s

(* It is well formed, and says of every instant what the running jobs and  *)
(* the capacity changes say.                                               *)
LEMMA TimelineExact ==
  ASSUME NEW src \in Sources
  PROVE  LET s == reservation_timeline(src)
         IN  WellFormed(s) /\ \A t \in Instant : Free(s, t) = clamp(Net(src, t))
<1> DEFINE s == reservation_timeline(src)
<1> DEFINE n == Cardinality(Later(src))
<1>1. /\ s \in Seq(Segment) /\ Len(s) = n + 1
      /\ \A i \in 0 .. n : /\ s[i + 1].time = BoundaryTime(src, i)
                           /\ s[i + 1].free = clamp(Net(src, BoundaryTime(src, i)))
  BY TimelineIs
<1>2. /\ n \in Nat
      /\ \A i \in 0 .. n : BoundaryTime(src, i) \in Nat
      /\ \A i, j \in 0 .. n : i < j => BoundaryTime(src, i) < BoundaryTime(src, j)
      /\ \A x \in DeltaTimes(src) : x > 0 => \E i \in 1 .. n : BoundaryTime(src, i) = x
  BY LaterFacts
<1> HIDE DEF s, n
<1>3. ASSUME NEW k \in 1 .. Len(s)
      PROVE  /\ k - 1 \in 0 .. n /\ s[k].time = BoundaryTime(src, k - 1)
             /\ s[k].free = clamp(Net(src, BoundaryTime(src, k - 1)))
  <2>1. k - 1 \in 0 .. n /\ (k - 1) + 1 = k
    BY <1>1, <1>2
  <2>2. s[(k - 1) + 1].time = BoundaryTime(src, k - 1)
        /\ s[(k - 1) + 1].free = clamp(Net(src, BoundaryTime(src, k - 1)))
    BY <2>1, <1>1
  <2> QED BY <2>1, <2>2
<1>4. WellFormed(s)
  <2>1. Len(s) >= 1 /\ 1 \in 1 .. Len(s)
    BY <1>1, <1>2
  <2>2. s[1].time = 0
    <3>1. s[1].time = BoundaryTime(src, 1 - 1)
      BY <2>1, <1>3
    <3> QED BY <3>1 DEF BoundaryTime
  <2>3. ASSUME NEW i \in 1 .. Len(s), NEW j \in 1 .. Len(s), i < j PROVE s[i].time < s[j].time
    <3>1. i - 1 \in 0 .. n /\ j - 1 \in 0 .. n /\ i - 1 < j - 1
      BY <1>1, <1>2, <2>3
    <3>2. BoundaryTime(src, i - 1) < BoundaryTime(src, j - 1)
      BY <3>1, <1>2
    <3> QED BY <3>2, <1>3
  <2> QED BY <2>1, <2>2, <2>3, <1>1 DEF WellFormed
<1>5. ASSUME NEW t \in Instant PROVE Free(s, t) = clamp(Net(src, t))
  <2>0. t \in Nat
    BY Constants
  <2>1. PICK k : In(s, k, t)
    BY <2>0, <1>4, InExists
  <2>2. Free(s, t) = s[k].free
    BY <2>0, <2>1, <1>4, SegmentAtUnique
  <2>3. /\ k \in 1 .. Len(s) /\ s[k].time <= t
        /\ \A j \in 1 .. Len(s) : k < j => t < s[j].time
    BY <2>1 DEF In
  <2> DEFINE b == BoundaryTime(src, k - 1)
  <2>4. k - 1 \in 0 .. n /\ b \in Nat /\ b <= t /\ s[k].free = clamp(Net(src, b))
    BY <2>3, <1>2, <1>3
  <2>5. ASSUME NEW x \in DeltaTimes(src), b < x, x <= t PROVE FALSE
    <3>1. x \in Nat /\ x > 0
      <4>1. x \in Instant
        BY DeltaTimesFacts
      <4>2. x \in Nat
        BY <4>1, Constants
      <4> HIDE DEF b
      <4> QED BY <4>2, <2>4, <2>5
    <3>2. PICK i \in 1 .. n : BoundaryTime(src, i) = x
      BY <3>1, <1>2
    <3>3. i \in 0 .. n /\ i \in Nat /\ i + 1 \in 1 .. Len(s)
      BY <1>1, <1>2
    <3>4. s[i + 1].time = x
      BY <3>2, <3>3, <1>1
    <3>5. CASE i <= k - 1
      <4>1. i = k - 1 \/ i < k - 1
        BY <3>3, <3>5, <2>4, <1>2
      <4>2. i < k - 1 => x < b
        BY <3>2, <3>3, <2>4, <1>2
      <4>3. i = k - 1 => x = b
        BY <3>2
      <4> HIDE DEF b
      <4> QED BY <4>1, <4>2, <4>3, <3>1, <2>4, <2>5
    <3>6. CASE ~(i <= k - 1)
      <4>1. k < i + 1
        BY <3>3, <3>6, <2>3, <1>1, <1>2
      <4>2. t < x
        BY <4>1, <3>3, <3>4, <2>3
      <4> QED BY <4>2, <3>1, <2>0, <2>5
    <3> QED BY <3>5, <3>6
  <2> HIDE DEF b
  <2>6. Net(src, t) = Net(src, b)
    BY <2>0, <2>4, <2>5, NetSame
  <2> QED BY <2>2, <2>4, <2>6
<1> QED BY <1>4, <1>5 DEF s

-----------------------------------------------------------------------------
(* The invariant and the theorems. *)

Inv ==
  /\ WellFormed(segs)
  /\ \A src \in source : src \in Sources /\ segs = reservation_timeline(src)

LEMMA RequestFacts ==
  ASSUME NEW n \in Requests, NEW d \in Durations
  PROVE  n \in 0 .. Word - 1 /\ n \in Nat /\ d \in Int
BY TimelineAssumption

LEMMA ReserveKeeps ==
  ASSUME Inv, NEW n \in Requests, NEW d \in Durations, NEW start \in 0 .. Horizon,
         reserve(n, d, start)
  PROVE  /\ WellFormed(segs)'
         /\ Plan!Reserve(n, d, start)
<1>0. /\ WellFormed(segs) /\ n \in 0 .. Word - 1 /\ n \in Nat /\ d \in Int
      /\ start \in Instant /\ start \in Nat /\ Horizon \in Nat /\ start + d <= Horizon
  BY RequestFacts, Constants DEF Inv, reserve, Instant
<1>1. /\ WellFormed(segs')
      /\ \A u \in Instant : Free(segs', u) = IF start <= u /\ u < start + d
                                              THEN Plan!Minus(Free(segs, u), n) ELSE Free(segs, u)
  <2>1. CASE d <= 0
    <3>1. segs' = segs
      BY <2>1 DEF reserve
    <3>2. \A u \in Instant : ~(start <= u /\ u < start + d)
      BY <2>1, <1>0 DEF Instant
    <3> QED BY <3>1, <3>2, <1>0
  <2>2. CASE ~(d <= 0)
    <3>1. d \in Nat \ {0} /\ start + d \in Instant
      BY <2>2, <1>0 DEF Instant
    <3>2. segs' = ReservedSegments(start, n, d)
      BY <2>2 DEF reserve
    <3> QED BY <3>1, <3>2, <1>0, Constants, ReservedIs
  <2> QED BY <2>1, <2>2
<1>2. [t \in 0 .. Horizon |-> FreeAt(t)]' = Plan!Reserved([t \in 0 .. Horizon |-> FreeAt(t)], start, n, d)
  BY <1>1 DEF Plan!Reserved, Plan!Time, FreeAt, Free, Instant
<1>3. WellFormed(segs)'
  BY <1>1 DEF WellFormed
<1> QED BY <1>2, <1>3, <1>0 DEF Plan!Reserve, reserve

LEMMA SearchKeeps ==
  ASSUME Inv, NEW n \in Requests, NEW d \in Durations, NEW start \in Origins,
         earliest_fit(n, d, start)
  PROVE  /\ WellFormed(segs)'
         /\ Plan!Search(n, d, start)
<1>0. WellFormed(segs) /\ n \in Nat /\ d \in Int /\ start \in Instant /\ segs' = segs
  BY RequestFacts, TimelineAssumption DEF Inv, earliest_fit, Instant
<1>1. (IF d <= 0 THEN PointFit(n, start) ELSE IntervalFit(n, d, start)) = Earliest(n, d, start)
  <2>1. CASE d <= 0
    BY <2>1, <1>0, PointFitIs
  <2>2. CASE ~(d <= 0)
    <3>1. d \in Nat \ {0}
      BY <2>2, <1>0
    <3> QED BY <2>2, <3>1, <1>0, IntervalFitIs
  <2> QED BY <2>1, <2>2
<1>2. [t \in 0 .. Horizon |-> FreeAt(t)] = FreeNodes
  BY DEF FreeAt, FreeNodes, Free, Instant
<1>3. call' = Plan!Searched(n, d, start, Earliest(n, d, start))
  BY <1>1 DEF earliest_fit
<1>4. [t \in 0 .. Horizon |-> FreeAt(t)]' = [t \in 0 .. Horizon |-> FreeAt(t)]
  BY <1>0 DEF FreeAt
<1>5. WellFormed(segs)'
  BY <1>0 DEF WellFormed
<1> QED BY <1>2, <1>3, <1>4, <1>5 DEF Plan!Search, Earliest

LEMMA InvInductive == Spec => []Inv
<1>1. Init => Inv
  BY TimelineExact DEF Init, Inv
<1>2. Inv /\ [Next]_vars => Inv'
  <2> SUFFICES ASSUME Inv, [Next]_vars PROVE Inv'
    OBVIOUS
  <2>1. CASE UNCHANGED vars
    BY <2>1 DEF vars, Inv, WellFormed
  <2>2. CASE Next
    <3>1. WellFormed(segs)'
      BY <2>2, SearchKeeps, ReserveKeeps DEF Next
    <3>2. source' = {}
      BY <2>2 DEF Next, earliest_fit, reserve
    <3> QED BY <3>1, <3>2 DEF Inv
  <2> QED BY <2>1, <2>2
<1> QED BY <1>1, <1>2, PTL DEF Spec

(* The boundaries of m_free_nodes increase from the planning time on,      *)
(* whatever is reserved: the vector on which split_at() and earliest_fit() *)
(* search for a boundary stays sorted.                                     *)
THEOREM BoundariesIncrease == Spec => []WellFormed(segs)
<1>1. Inv => WellFormed(segs)
  BY DEF Inv
<1> QED BY <1>1, InvInductive, PTL

(* The vector that reservation_timeline() builds is, at each instant, the  *)
(* capacity then in effect less the nodes then held, for any running jobs, *)
(* overdue ones, and any schedule of changes, an overcommitted one too.    *)
THEOREM ProfileAlwaysExact == Spec => []ProfileIsFreeCapacity
<1>1. Inv => ProfileIsFreeCapacity
  <2> SUFFICES ASSUME Inv, NEW src \in source, NEW t \in 0 .. Horizon
               PROVE  FreeAt(t) = clamp(ReferenceCapacity(src, t + 1)
                                        - NodesEnding(src, 0 .. Horizon \ 1 .. t))
    BY DEF ProfileIsFreeCapacity
  <2>1. src \in Sources /\ segs = reservation_timeline(src) /\ t \in Instant
    BY DEF Inv, Instant
  <2>2. Free(segs, t) = clamp(Net(src, t))
    BY <2>1, TimelineExact
  <2> QED BY <2>2 DEF Free, FreeAt, Net, Held
<1> QED BY <1>1, InvInductive, PTL

(* The vector of segments implements the plan: earliest_fit() gives the    *)
(* first instant at which the request fits, and reserve() subtracts at the *)
(* instants of its interval and at no other.                               *)
THEOREM TimelineIsThePlan == Spec => TimelineImplementsPlan
<1>1. Init => Plan!Init
  <2> SUFFICES ASSUME Init PROVE Plan!Init
    OBVIOUS
  <2>1. WellFormed(segs) /\ call = Plan!NoCall
    BY TimelineExact DEF Init
  <2>2. [t \in 0 .. Horizon |-> FreeAt(t)] \in [0 .. Horizon -> 0 .. Word - 1]
    <3>1. ASSUME NEW t \in 0 .. Horizon PROVE FreeAt(t) \in 0 .. Word - 1
      <4>1. t \in Nat
        BY Constants
      <4> QED BY <4>1, <2>1, FreeType DEF FreeAt, Free
    <3> QED BY <3>1
  <2> QED BY <2>1, <2>2 DEF Plan!Init, Plan!Time, Plan!Nodes
<1>2. Inv /\ [Next]_vars => [Plan!Next]_<<[t \in 0 .. Horizon |-> FreeAt(t)], call>>
  <2> SUFFICES ASSUME Inv, [Next]_vars
               PROVE  [Plan!Next]_<<[t \in 0 .. Horizon |-> FreeAt(t)], call>>
    OBVIOUS
  <2>1. CASE UNCHANGED vars
    BY <2>1 DEF vars, FreeAt
  <2>2. CASE Next
    <3>1. PICK n \in Requests, d \in Durations :
            \/ \E start \in Origins : earliest_fit(n, d, start)
            \/ \E start \in 0 .. Horizon : reserve(n, d, start)
      BY <2>2 DEF Next
    <3>2. CASE \E start \in Origins : earliest_fit(n, d, start)
      <4>1. \E start \in Origins : Plan!Search(n, d, start)
        BY <3>2, SearchKeeps
      <4> QED BY <4>1 DEF Plan!Next
    <3>3. CASE \E start \in 0 .. Horizon : reserve(n, d, start)
      <4>1. \E start \in 0 .. Horizon : Plan!Reserve(n, d, start)
        BY <3>3, ReserveKeeps
      <4> QED BY <4>1 DEF Plan!Next, Plan!Time
    <3> QED BY <3>1, <3>2, <3>3
  <2> QED BY <2>1, <2>2
<1> QED BY <1>1, <1>2, InvInductive, PTL DEF Spec, Plan!Spec, TimelineImplementsPlan
=============================================================================
