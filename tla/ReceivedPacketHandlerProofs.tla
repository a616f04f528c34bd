------------------- MODULE ReceivedPacketHandlerProofs -------------------
(***************************************************************************)
(* What the two operations on the ACK range list compute, for lists of any *)
(* length: they keep the list canonical, ReceivedPacket adds exactly its   *)
(* packet and DeleteUpTo removes exactly the packets up to its limit.  And *)
(* the invariants of the received packet handler, for any limits, any      *)
(* packet numbers and any number of packets between two ACK frames.        *)
(***************************************************************************)
EXTENDS ReceivedPacketHandler, PacketNumber, SequenceTheorems, WellFoundedInduction, TLAPS

\* The provers of a leaf that names none: a step may need Zenon, or SMT at length.
USE SMTT(10), ZenonT(20), SMTT(30)

Intervals == [Start : Int, End : Int]

\* The least element of a set of naturals, which Min chooses.
LEMMA MinOfNats ==
    ASSUME NEW I \in SUBSET Nat, I # {}
    PROVE  Min(I) \in I /\ \A i \in I : Min(I) <= i
<1>1. IsWellFoundedOn(OpToRel(<, Nat), Nat)
  BY NatLessThanWellFounded
<1>2. PICK x \in I : \A y \in I : ~ (<<y, x>> \in OpToRel(<, Nat))
  BY <1>1, WFMin
<1>3. ASSUME NEW y \in I PROVE x <= y
  <2>1. y < x => <<y, x>> \in OpToRel(<, Nat)
    BY Zenon DEF OpToRel
  <2>2. ~ (y < x)
    BY <1>2, <2>1
  <2> QED
    BY <2>2
<1> QED
  BY <1>3 DEF Min

\* The greatest element of a bounded set of naturals, which Max chooses.
LEMMA MaxOfNats ==
    ASSUME NEW n \in Nat, NEW I \in SUBSET (0 .. n), I # {}
    PROVE  Max(I) \in I /\ \A i \in I : i <= Max(I)
<1> DEFINE J == {n - i : i \in I}
<1>1. J \in SUBSET Nat /\ J # {}
  <2>1. \A i \in I : n - i \in Nat
    OBVIOUS
  <2> QED
    BY <2>1, Zenon
<1>2. Min(J) \in J /\ \A j \in J : Min(J) <= j
  BY <1>1, MinOfNats
<1>3. PICK x \in I : Min(J) = n - x
  BY <1>2
<1>4. ASSUME NEW i \in I PROVE i <= x
  <2>1. n - i \in J
    BY Zenon
  <2>2. n - x <= n - i
    BY <1>2, <1>3, <2>1
  <2> HIDE DEF J
  <2>3. i \in 0 .. n /\ x \in 0 .. n
    OBVIOUS
  <2> QED
    BY <2>2, <2>3
<1> QED
  BY <1>4 DEF Max

LEMMA IntervalFields ==
    ASSUME NEW rs \in Seq(Intervals), NEW i \in 1 .. Len(rs)
    PROVE  rs[i] \in Intervals /\ rs[i].Start \in Int /\ rs[i].End \in Int
<1>1. rs[i] \in Intervals
  BY ElementOfSeq
<1> QED
  BY <1>1 DEF Intervals

(***************************************************************************)
(* The elements of a list after InsertAt and RemoveAt.                     *)
(***************************************************************************)
LEMMA InsertAtElements ==
    ASSUME NEW S, NEW s \in Seq(S), NEW i \in 1 .. Len(s) + 1, NEW e \in S
    PROVE  /\ InsertAt(s, i, e) \in Seq(S)
           /\ Len(InsertAt(s, i, e)) = Len(s) + 1
           /\ \A j \in 1 .. Len(s) + 1 :
                  InsertAt(s, i, e)[j] = IF j < i THEN s[j] ELSE IF j = i THEN e ELSE s[j - 1]
<1> DEFINE a == SubSeq(s, 1, i - 1)
           b == SubSeq(s, i, Len(s))
<1>1. a \in Seq(S) /\ Len(a) = i - 1 /\ \A j \in 1 .. i - 1 : a[j] = s[j]
  BY SubSeqProperties, ElementOfSeq
<1>2. b \in Seq(S) /\ Len(b) = Len(s) - i + 1 /\ \A j \in 1 .. Len(s) - i + 1 : b[j] = s[i + j - 1]
  BY SubSeqProperties, ElementOfSeq
<1>3. InsertAt(s, i, e) = a \o <<e>> \o b
  BY DEF InsertAt
<1> HIDE DEF a, b
<1>4. /\ a \o <<e>> \in Seq(S)
      /\ Len(a \o <<e>>) = i
      /\ \A j \in 1 .. i : (a \o <<e>>)[j] = IF j < i THEN s[j] ELSE e
  BY <1>1
<1> DEFINE c == a \o <<e>>
<1> HIDE DEF c
<1>5. /\ c \o b \in Seq(S)
      /\ Len(c \o b) = Len(c) + Len(b)
      /\ \A j \in 1 .. Len(c) + Len(b) : (c \o b)[j] = IF j <= Len(c) THEN c[j] ELSE b[j - Len(c)]
  <2>1. c \in Seq(S)
    BY <1>4 DEF c
  <2> QED
    BY <1>2, <2>1, ConcatProperties, Zenon
<1>6. /\ Len(c) = i
      /\ \A j \in 1 .. i : c[j] = IF j < i THEN s[j] ELSE e
      /\ InsertAt(s, i, e) = c \o b
  BY <1>3, <1>4 DEF c
<1>7. Len(c) + Len(b) = Len(s) + 1
  BY <1>2, <1>6
<1>8. ASSUME NEW j \in 1 .. Len(s) + 1
      PROVE  (c \o b)[j] = IF j < i THEN s[j] ELSE IF j = i THEN e ELSE s[j - 1]
  <2>1. (c \o b)[j] = IF j <= Len(c) THEN c[j] ELSE b[j - Len(c)]
    BY <1>5, <1>7
  <2>2. CASE j <= i
    BY <1>6, <2>1, <2>2
  <2>3. CASE ~ (j <= i)
    <3>1. j - i \in 1 .. Len(s) - i + 1 /\ i + (j - i) - 1 = j - 1 /\ ~ (j < i) /\ j # i
      BY <2>3
    <3>2. b[j - i] = s[i + (j - i) - 1]
      BY <1>2, <3>1
    <3> QED
      BY <1>6, <2>1, <2>3, <3>1, <3>2
  <2> QED
    BY <2>2, <2>3, Zenon
<1> QED
  BY <1>5, <1>6, <1>7, <1>8

LEMMA RemoveAtElements ==
    ASSUME NEW S, NEW s \in Seq(S), NEW i \in 1 .. Len(s)
    PROVE  /\ RemoveAt(s, i) \in Seq(S)
           /\ Len(RemoveAt(s, i)) = Len(s) - 1
           /\ \A j \in 1 .. Len(s) - 1 :
                  RemoveAt(s, i)[j] = IF j < i THEN s[j] ELSE s[j + 1]
<1> DEFINE a == SubSeq(s, 1, i - 1)
           b == SubSeq(s, i + 1, Len(s))
<1>1. a \in Seq(S) /\ Len(a) = i - 1 /\ \A j \in 1 .. i - 1 : a[j] = s[j]
  BY SubSeqProperties, ElementOfSeq
<1>2. b \in Seq(S) /\ Len(b) = Len(s) - i /\ \A j \in 1 .. Len(s) - i : b[j] = s[i + j]
  BY SubSeqProperties, ElementOfSeq
<1>3. RemoveAt(s, i) = a \o b
  BY DEF RemoveAt
<1> HIDE DEF a, b
<1>4. /\ a \o b \in Seq(S)
      /\ Len(a \o b) = Len(a) + Len(b)
      /\ \A j \in 1 .. Len(a) + Len(b) : (a \o b)[j] = IF j <= Len(a) THEN a[j] ELSE b[j - Len(a)]
  BY <1>1, <1>2, ConcatProperties, Zenon
<1>5. Len(a) + Len(b) = Len(s) - 1
  BY <1>1, <1>2
<1>6. ASSUME NEW j \in 1 .. Len(s) - 1
      PROVE  (a \o b)[j] = IF j < i THEN s[j] ELSE s[j + 1]
  <2>1. (a \o b)[j] = IF j <= Len(a) THEN a[j] ELSE b[j - Len(a)]
    BY <1>4, <1>5
  <2>2. CASE j < i
    BY <1>1, <2>1, <2>2
  <2>3. CASE ~ (j < i)
    <3>1. j - Len(a) \in 1 .. Len(s) - i /\ i + (j - Len(a)) = j + 1 /\ ~ (j <= Len(a))
      BY <1>1, <2>3
    <3>2. b[j - Len(a)] = s[i + (j - Len(a))]
      BY <1>2, <3>1
    <3> QED
      BY <2>1, <2>3, <3>1, <3>2
  <2> QED
    BY <2>2, <2>3, Zenon
<1> QED
  BY <1>3, <1>4, <1>5, <1>6, Zenon

(***************************************************************************)
(* Where the backward scan of ReceivedPacket and the forward scan of       *)
(* DeleteUpTo stop.                                                        *)
(***************************************************************************)
LEMMA ScanStopPlace ==
    ASSUME NEW rs \in Seq(Intervals), NEW p \in Int
    PROVE  /\ ScanStop(rs, p) \in 0 .. Len(rs)
           /\ ScanStop(rs, p) # 0 => rs[ScanStop(rs, p)].Start <= p + 1
           /\ \A j \in 1 .. Len(rs) : j > ScanStop(rs, p) => rs[j].Start > p + 1
<1> DEFINE I == {i \in 1 .. Len(rs) : rs[i].Start <= p + 1}
<1>1. ScanStop(rs, p) = IF I # {} THEN Max(I) ELSE 0
  BY DEF ScanStop, LastOf
<1>2. I # {} => Max(I) \in I /\ \A i \in I : i <= Max(I)
  <2>1. I \in SUBSET (0 .. Len(rs)) /\ Len(rs) \in Nat
    OBVIOUS
  <2> QED
    BY <2>1, MaxOfNats, Zenon
<1>3. \A j \in 1 .. Len(rs) : rs[j].Start \in Int
  BY IntervalFields
<1>4. CASE I = {}
  <2>1. \A j \in 1 .. Len(rs) : ~ (rs[j].Start <= p + 1)
    BY <1>4, Zenon
  <2> QED
    BY <1>1, <1>3, <1>4, <2>1
<1>5. CASE I # {}
  <2>1. /\ Max(I) \in 1 .. Len(rs) /\ rs[Max(I)].Start <= p + 1
        /\ \A j \in 1 .. Len(rs) : rs[j].Start <= p + 1 => j <= Max(I)
    BY <1>2, <1>5, Zenon
  <2> HIDE DEF I
  <2> QED
    BY <1>1, <1>3, <1>5, <2>1
<1> QED
  BY <1>4, <1>5

LEMMA DeleteStopPlace ==
    ASSUME NEW rs \in Seq(Intervals), NEW p \in Int
    PROVE  /\ DeleteStop(rs, p) \in 0 .. Len(rs)
           /\ DeleteStop(rs, p) # 0 => rs[DeleteStop(rs, p)].End > p
           /\ \A j \in 1 .. Len(rs) :
                  DeleteStop(rs, p) = 0 \/ j < DeleteStop(rs, p) => rs[j].End <= p
<1> DEFINE I == {j \in 1 .. Len(rs) : rs[j].End > p}
<1>1. DeleteStop(rs, p) = IF I # {} THEN Min(I) ELSE 0
  BY DEF DeleteStop, FirstOf
<1>2. I # {} => Min(I) \in I /\ \A j \in I : Min(I) <= j
  <2>1. I \in SUBSET Nat
    OBVIOUS
  <2> QED
    BY <2>1, MinOfNats, Zenon
<1>3. \A j \in 1 .. Len(rs) : rs[j].End \in Int
  BY IntervalFields
<1>4. CASE I = {}
  <2>1. \A j \in 1 .. Len(rs) : ~ (rs[j].End > p)
    BY <1>4, Zenon
  <2> QED
    BY <1>1, <1>3, <1>4, <2>1
<1>5. CASE I # {}
  <2>1. /\ Min(I) \in 1 .. Len(rs) /\ rs[Min(I)].End > p
        /\ \A j \in 1 .. Len(rs) : rs[j].End > p => Min(I) <= j
    BY <1>2, <1>5, Zenon
  <2> HIDE DEF I
  <2> QED
    BY <1>1, <1>3, <1>5, <2>1
<1> QED
  BY <1>4, <1>5

LEMMA InPackets ==
    ASSUME NEW rs \in Seq(Intervals), NEW q
    PROVE  q \in Packets(rs) <=>
               \E i \in 1 .. Len(rs) : q \in Int /\ rs[i].Start <= q /\ q <= rs[i].End
<1>1. \A j \in 1 .. Len(rs) : rs[j].Start \in Int /\ rs[j].End \in Int
  BY IntervalFields
<1>2. DOMAIN rs = 1 .. Len(rs)
  OBVIOUS
<1>3. q \in Packets(rs) <=> \E i \in 1 .. Len(rs) : q \in rs[i].Start .. rs[i].End
  BY <1>2, Zenon DEF Packets
<1> QED
  BY <1>1, <1>3

(***************************************************************************)
(* MergeWithPrev is called with a list that is canonical except that the   *)
(* ranges i - 1 and i may touch.  It closes that gap and nothing else.     *)
(***************************************************************************)
LEMMA MergeWithPrevCorrect ==
    ASSUME NEW rs \in Seq(Intervals), NEW i \in 1 .. Len(rs),
           \A j \in 1 .. Len(rs) : rs[j].Start <= rs[j].End,
           \A j, k \in 1 .. Len(rs) :
               j < k => IF j = i - 1 /\ k = i THEN rs[j].End < rs[k].Start
                                              ELSE rs[j].End + 1 < rs[k].Start
    PROVE  /\ MergeWithPrev(rs, i) \in Seq(Intervals)
           /\ Canonical(MergeWithPrev(rs, i))
           /\ Packets(MergeWithPrev(rs, i)) = Packets(rs)
           /\ Len(MergeWithPrev(rs, i)) > 0
<1> DEFINE m == MergeWithPrev(rs, i)
<1>f. \A j \in 1 .. Len(rs) : rs[j] \in Intervals /\ rs[j].Start \in Int /\ rs[j].End \in Int
  BY IntervalFields
<1>1. CASE i > 1 /\ rs[i - 1].End + 1 = rs[i].Start
  <2> DEFINE e == [rs EXCEPT ![i - 1].End = rs[i].End]
  <2>1. /\ e \in Seq(Intervals) /\ Len(e) = Len(rs)
        /\ \A j \in 1 .. Len(rs) :
               /\ e[j].Start = rs[j].Start
               /\ e[j].End = IF j = i - 1 THEN rs[i].End ELSE rs[j].End
    <3> DEFINE x == [rs[i - 1] EXCEPT !.End = rs[i].End]
    <3>1. i - 1 \in 1 .. Len(rs)
      BY <1>1
    <3>2. x \in Intervals /\ x.Start = rs[i - 1].Start /\ x.End = rs[i].End
      BY <1>f, <3>1, Zenon DEF Intervals
    <3>3. e = [rs EXCEPT ![i - 1] = x]
      OBVIOUS
    <3> HIDE DEF x, e
    <3> QED
      BY <3>1, <3>2, <3>3, ExceptSeq
  <2>2. m = RemoveAt(e, i)
    BY <1>1 DEF MergeWithPrev
  <2> HIDE DEF e, m
  <2>3. /\ m \in Seq(Intervals) /\ Len(m) = Len(rs) - 1
        /\ \A j \in 1 .. Len(rs) - 1 : m[j] = IF j < i THEN e[j] ELSE e[j + 1]
    <3>1. i \in 1 .. Len(e)
      BY <2>1
    <3>2. /\ RemoveAt(e, i) \in Seq(Intervals)
          /\ Len(RemoveAt(e, i)) = Len(e) - 1
          /\ \A j \in 1 .. Len(e) - 1 : RemoveAt(e, i)[j] = IF j < i THEN e[j] ELSE e[j + 1]
      BY <2>1, <3>1, RemoveAtElements
    <3> QED
      BY <2>1, <2>2, <3>2
  <2>4. ASSUME NEW j \in 1 .. Len(rs) - 1
        PROVE  /\ m[j].Start = IF j < i THEN rs[j].Start ELSE rs[j + 1].Start
               /\ m[j].End = IF j < i - 1 THEN rs[j].End ELSE rs[j + 1].End
    <3>1. j \in 1 .. Len(rs) /\ j + 1 \in 1 .. Len(rs)
      OBVIOUS
    <3>2. CASE j < i
      <4>1. m[j] = e[j]
        BY <2>3, <3>2
      <4>2. j = i - 1 => j + 1 = i
        OBVIOUS
      <4> QED
        BY <2>1, <3>1, <3>2, <4>1, <4>2
    <3>3. CASE ~ (j < i)
      <4>1. m[j] = e[j + 1]
        BY <2>3, <3>3
      <4> QED
        BY <2>1, <3>1, <3>3, <4>1
    <3> QED
      BY <3>2, <3>3
  <2>5. Canonical(m)
    <3>1. DOMAIN m = 1 .. Len(rs) - 1
      BY <2>3
    <3>2. ASSUME NEW j \in 1 .. Len(rs) - 1 PROVE m[j].Start <= m[j].End
      <4>1. j \in 1 .. Len(rs) /\ j + 1 \in 1 .. Len(rs)
        OBVIOUS
      <4>2. rs[j].Start <= rs[j].End /\ rs[j + 1].Start <= rs[j + 1].End
        BY <4>1
      <4>3. rs[j].End < rs[j + 1].Start
        BY <1>f, <4>1
      <4> QED
        BY <1>f, <2>4, <4>1, <4>2, <4>3
    <3>3. ASSUME NEW j \in 1 .. Len(rs) - 1, NEW k \in 1 .. Len(rs) - 1, j < k
          PROVE  m[j].End + 1 < m[k].Start
      <4>1. /\ j \in 1 .. Len(rs) /\ j + 1 \in 1 .. Len(rs)
            /\ k \in 1 .. Len(rs) /\ k + 1 \in 1 .. Len(rs)
        OBVIOUS
      <4> DEFINE u == IF j < i - 1 THEN j ELSE j + 1
                 v == IF k < i THEN k ELSE k + 1
      <4>2. u \in 1 .. Len(rs) /\ v \in 1 .. Len(rs) /\ u < v /\ ~ (u = i - 1 /\ v = i)
        BY <3>3
      <4>3. m[j].End = rs[u].End /\ m[k].Start = rs[v].Start
        BY <2>4
      <4> HIDE DEF u, v
      <4> QED
        BY <4>2, <4>3
    <3> QED
      BY <3>1, <3>2, <3>3 DEF Canonical
  <2>6. ASSUME NEW q PROVE q \in Packets(m) <=> q \in Packets(rs)
    <3>1. ASSUME q \in Packets(m) PROVE q \in Packets(rs)
      <4>1. PICK j \in 1 .. Len(rs) - 1 : q \in Int /\ m[j].Start <= q /\ q <= m[j].End
        BY <2>3, <3>1, InPackets
      <4>3. j \in 1 .. Len(rs) /\ j + 1 \in 1 .. Len(rs)
        OBVIOUS
      <4>2. \/ rs[j].Start <= q /\ q <= rs[j].End
            \/ rs[j + 1].Start <= q /\ q <= rs[j + 1].End
        <5>1. CASE j = i - 1
          <6>1. rs[j].End + 1 = rs[j + 1].Start
            BY <1>1, <5>1
          <6>2. rs[j].Start <= q /\ q <= rs[j + 1].End
            BY <2>4, <4>1, <5>1
          <6> QED
            BY <1>f, <4>1, <4>3, <6>1, <6>2
        <5>2. CASE j # i - 1
          BY <2>4, <4>1, <5>2
        <5> QED
          BY <5>1, <5>2
      <4> QED
        BY <4>1, <4>2, <4>3, InPackets
    <3>2. ASSUME q \in Packets(rs) PROVE q \in Packets(m)
      <4>1. PICK j \in 1 .. Len(rs) : q \in Int /\ rs[j].Start <= q /\ q <= rs[j].End
        BY <3>2, InPackets
      <4>2. CASE j < i
        <5>1. j \in 1 .. Len(rs) - 1 /\ j + 1 \in 1 .. Len(rs)
          BY <4>2
        <5>2. rs[j].End < rs[j + 1].Start /\ rs[j + 1].Start <= rs[j + 1].End
          BY <1>f, <5>1
        <5>3. m[j].Start <= q /\ q <= m[j].End
          BY <1>f, <2>4, <4>1, <4>2, <5>1, <5>2
        <5> QED
          BY <2>3, <4>1, <5>1, <5>3, InPackets
      <4>3. CASE ~ (j < i)
        <5> DEFINE k == j - 1
        <5>1. k \in 1 .. Len(rs) - 1 /\ k + 1 = j /\ ~ (k < i - 1)
          BY <1>1, <4>3
        <5>2. m[k].End = rs[j].End
          BY <2>4, <5>1
        <5>3. m[k].Start <= rs[j].Start
          <6>1. CASE k < i
            <7>1. k = i - 1 /\ j = i
              BY <5>1, <6>1, <4>3
            <7>2. m[k].Start = rs[k].Start /\ rs[k].Start <= rs[k].End /\ rs[k].End + 1 = rs[j].Start
              BY <1>1, <2>4, <5>1, <7>1
            <7> QED
              BY <1>f, <5>1, <7>2
          <6>2. CASE ~ (k < i)
            <7>1. m[k].Start = rs[j].Start
              BY <2>4, <5>1, <6>2
            <7> QED
              BY <1>f, <7>1
          <6> QED
            BY <6>1, <6>2
        <5>4. m[k].Start \in Int /\ m[k].End \in Int
          BY <2>3, <5>1, IntervalFields
        <5> HIDE DEF k
        <5>5. m[k].Start <= q /\ q <= m[k].End
          BY <1>f, <4>1, <5>2, <5>3, <5>4
        <5> QED
          BY <2>3, <4>1, <5>1, <5>5, InPackets
      <4> QED
        BY <4>2, <4>3
    <3> QED
      BY <3>1, <3>2
  <2>7. Packets(m) = Packets(rs)
    BY <2>6, Zenon
  <2> QED
    BY <1>1, <2>3, <2>5, <2>7 DEF m
<1>2. CASE ~ (i > 1 /\ rs[i - 1].End + 1 = rs[i].Start)
  <2>1. m = rs
    BY <1>2 DEF MergeWithPrev
  <2>2. DOMAIN rs = 1 .. Len(rs)
    OBVIOUS
  <2>3. ASSUME NEW j \in 1 .. Len(rs), NEW k \in 1 .. Len(rs), j < k
        PROVE  rs[j].End + 1 < rs[k].Start
    BY <1>2, <1>f, <2>3
  <2>4. Canonical(rs)
    BY <2>2, <2>3 DEF Canonical
  <2> QED
    BY <2>1, <2>4
<1> QED
  BY <1>1, <1>2

(***************************************************************************)
(* A packet that touches no range is inserted between its neighbours.      *)
(***************************************************************************)
LEMMA InsertIntoGap ==
    ASSUME NEW rs \in Seq(Intervals), NEW p \in Int, NEW a \in 1 .. Len(rs) + 1, Canonical(rs),
           \A j \in 1 .. Len(rs) : j < a => rs[j].End + 1 < p,
           \A j \in 1 .. Len(rs) : j >= a => rs[j].Start > p + 1
    PROVE  LET t == InsertAt(rs, a, Interval(p, p))
           IN  t \in Seq(Intervals) /\ Canonical(t) /\ Packets(t) = Packets(rs) \cup {p} /\ Len(t) > 0
<1> DEFINE e == Interval(p, p)
           t == InsertAt(rs, a, e)
<1>a. /\ a \in 1 .. Len(rs) + 1
      /\ \A j \in 1 .. Len(rs) : j < a => rs[j].End + 1 < p
      /\ \A j \in 1 .. Len(rs) : j >= a => rs[j].Start > p + 1
  OBVIOUS
<1>f. \A j \in 1 .. Len(rs) : rs[j] \in Intervals /\ rs[j].Start \in Int /\ rs[j].End \in Int
  BY IntervalFields
<1>c. /\ \A j \in 1 .. Len(rs) : rs[j].Start <= rs[j].End
      /\ \A j, k \in 1 .. Len(rs) : j < k => rs[j].End + 1 < rs[k].Start
  <2>1. DOMAIN rs = 1 .. Len(rs)
    OBVIOUS
  <2> QED
    BY <2>1 DEF Canonical
<1>e. e \in Intervals /\ e.Start = p /\ e.End = p
  BY DEF Interval, Intervals
<1> HIDE DEF e
<1>2. /\ t \in Seq(Intervals) /\ Len(t) = Len(rs) + 1
      /\ \A j \in 1 .. Len(rs) + 1 :
             t[j] = IF j < a THEN rs[j] ELSE IF j = a THEN e ELSE rs[j - 1]
  BY <1>e, InsertAtElements
<1> HIDE DEF t
<1>3. Canonical(t)
  <2>1. DOMAIN t = 1 .. Len(rs) + 1
    BY <1>2
  <2>2. ASSUME NEW j \in 1 .. Len(rs) + 1 PROVE t[j].Start <= t[j].End
    <3>1. CASE j < a
      <4>1. j \in 1 .. Len(rs) /\ t[j] = rs[j]
        BY <1>a, <1>2, <3>1
      <4> QED
        BY <1>c, <4>1
    <3>2. CASE j = a
      BY <1>e, <1>2, <3>2
    <3>3. CASE j > a
      <4>1. j - 1 \in 1 .. Len(rs) /\ t[j] = rs[j - 1]
        BY <1>a, <1>2, <3>3
      <4> QED
        BY <1>c, <4>1
    <3> QED
      BY <1>a, <3>1, <3>2, <3>3
  <2>3. ASSUME NEW j \in 1 .. Len(rs) + 1, NEW k \in 1 .. Len(rs) + 1, j < k
        PROVE  t[j].End + 1 < t[k].Start
    <3>1. CASE k < a
      <4>1. j \in 1 .. Len(rs) /\ k \in 1 .. Len(rs) /\ t[j] = rs[j] /\ t[k] = rs[k]
        BY <1>a, <1>2, <2>3, <3>1
      <4> QED
        BY <1>c, <2>3, <4>1
    <3>2. CASE k = a
      <4>1. j \in 1 .. Len(rs) /\ j < a /\ t[j] = rs[j] /\ t[k] = e
        BY <1>a, <1>2, <2>3, <3>2
      <4> QED
        BY <1>e, <1>a, <4>1
    <3>3. CASE k > a /\ j = a
      <4>1. k - 1 \in 1 .. Len(rs) /\ k - 1 >= a /\ t[j] = e /\ t[k] = rs[k - 1]
        BY <1>a, <1>2, <3>3
      <4> QED
        BY <1>e, <1>f, <1>a, <4>1
    <3>4. CASE k > a /\ j < a
      <4>1. k - 1 \in 1 .. Len(rs) /\ j \in 1 .. Len(rs) /\ j < k - 1 /\ t[j] = rs[j] /\ t[k] = rs[k - 1]
        BY <1>a, <1>2, <3>4
      <4> QED
        BY <1>c, <4>1
    <3>5. CASE k > a /\ j > a
      <4>1. /\ k - 1 \in 1 .. Len(rs) /\ j - 1 \in 1 .. Len(rs) /\ j - 1 < k - 1
            /\ t[j] = rs[j - 1] /\ t[k] = rs[k - 1]
        BY <1>a, <1>2, <2>3, <3>5
      <4> QED
        BY <1>c, <4>1
    <3> QED
      BY <1>a, <3>1, <3>2, <3>3, <3>4, <3>5
  <2> QED
    BY <2>1, <2>2, <2>3 DEF Canonical
<1>4. ASSUME NEW q PROVE q \in Packets(t) <=> q \in Packets(rs) \/ q = p
  <2>1. ASSUME q \in Packets(t) PROVE q \in Packets(rs) \/ q = p
    <3>1. PICK j \in 1 .. Len(rs) + 1 : q \in Int /\ t[j].Start <= q /\ q <= t[j].End
      BY <1>2, <2>1, InPackets
    <3>2. CASE j < a
      <4>1. j \in 1 .. Len(rs) /\ t[j] = rs[j]
        BY <1>a, <1>2, <3>2
      <4> QED
        BY <3>1, <4>1, InPackets
    <3>3. CASE j = a
      BY <1>e, <1>2, <3>1, <3>3
    <3>4. CASE j > a
      <4>1. j - 1 \in 1 .. Len(rs) /\ t[j] = rs[j - 1]
        BY <1>a, <1>2, <3>4
      <4> QED
        BY <3>1, <4>1, InPackets
    <3> QED
      BY <1>a, <3>2, <3>3, <3>4
  <2>2. ASSUME q \in Packets(rs) PROVE q \in Packets(t)
    <3>1. PICK j \in 1 .. Len(rs) : q \in Int /\ rs[j].Start <= q /\ q <= rs[j].End
      BY <2>2, InPackets
    <3>2. CASE j < a
      <4>1. j \in 1 .. Len(t) /\ t[j] = rs[j]
        BY <1>a, <1>2, <3>2
      <4> QED
        BY <1>2, <3>1, <4>1, InPackets
    <3>3. CASE ~ (j < a)
      <4>1. j + 1 \in 1 .. Len(t) /\ t[j + 1] = rs[j]
        BY <1>a, <1>2, <3>3
      <4> QED
        BY <1>2, <3>1, <4>1, InPackets
    <3> QED
      BY <3>2, <3>3
  <2>3. p \in Packets(t)
    <3>1. a \in 1 .. Len(t) /\ t[a] = e
      BY <1>a, <1>2
    <3> QED
      BY <1>e, <1>2, <3>1, InPackets
  <2> QED
    BY <2>1, <2>2, <2>3
<1>5. Packets(t) = Packets(rs) \cup {p}
  BY <1>4, Zenon
<1> QED
  BY <1>2, <1>3, <1>5 DEF t, e

(***************************************************************************)
(* ReceivedPacket keeps the list canonical, adds exactly the packet p and  *)
(* leaves the list non-empty, wherever p falls: below, between, next to or *)
(* inside the ranges (receivedPacketHistory.ReceivedPacket).               *)
(***************************************************************************)
THEOREM HistoryReceivedPacketCorrect ==
    ASSUME NEW rs \in Seq(Intervals), NEW p \in Int, Canonical(rs)
    PROVE  LET t == HistoryReceivedPacket(rs, p)
           IN  /\ t \in Seq(Intervals)
               /\ Canonical(t)
               /\ Packets(t) = Packets(rs) \cup {p}
               /\ Len(t) > 0
<1> DEFINE t == HistoryReceivedPacket(rs, p)
           s == ScanStop(rs, p)
           e == Interval(p, p)
<1>f. \A j \in 1 .. Len(rs) : rs[j] \in Intervals /\ rs[j].Start \in Int /\ rs[j].End \in Int
  BY IntervalFields
<1>c. /\ \A j \in 1 .. Len(rs) : rs[j].Start <= rs[j].End
      /\ \A j, k \in 1 .. Len(rs) : j < k => rs[j].End + 1 < rs[k].Start
  <2>1. DOMAIN rs = 1 .. Len(rs)
    OBVIOUS
  <2> QED
    BY <2>1 DEF Canonical
<1>s. /\ s \in 0 .. Len(rs)
      /\ s # 0 => rs[s].Start <= p + 1
      /\ \A j \in 1 .. Len(rs) : j > s => rs[j].Start > p + 1
  BY ScanStopPlace, Zenon
<1>e. e \in Intervals /\ e.Start = p /\ e.End = p
  BY DEF Interval, Intervals
<1> HIDE DEF s, e
<1>i. ASSUME /\ t = InsertAt(rs, s + 1, e)
             /\ \A j \in 1 .. Len(rs) : j < s + 1 => rs[j].End + 1 < p
      PROVE  t \in Seq(Intervals) /\ Canonical(t) /\ Packets(t) = Packets(rs) \cup {p} /\ Len(t) > 0
  <2>1. s + 1 \in 1 .. Len(rs) + 1
    BY <1>s
  <2>2. \A j \in 1 .. Len(rs) : j >= s + 1 => rs[j].Start > p + 1
    BY <1>s
  <2> HIDE DEF t
  <2> QED
    BY <1>i, <2>1, <2>2, InsertIntoGap DEF e
<1>1. CASE s = 0
  <2>1. SubSeq(rs, 1, 0) = <<>> /\ SubSeq(rs, 1, Len(rs)) = rs
    BY SubSeqEmpty, SubSeqFull
  <2>2. t = <<e>> \o rs
    BY <1>1 DEF HistoryReceivedPacket, s, e
  <2>3. <<>> \o <<e>> = <<e>>
    BY <1>e, ConcatEmptySeq
  <2>4. InsertAt(rs, s + 1, e) = <<e>> \o rs
    BY <1>1, <2>1, <2>3 DEF InsertAt
  <2> HIDE DEF t
  <2>5. \A j \in 1 .. Len(rs) : j < s + 1 => rs[j].End + 1 < p
    BY <1>1
  <2> QED
    BY <1>i, <2>2, <2>4, <2>5, Zenon DEF t
<1>2. CASE s # 0 /\ rs[s].Start <= p /\ p <= rs[s].End
  <2>1. s \in 1 .. Len(rs)
    BY <1>s, <1>2
  <2>2. p \in rs[s].Start .. rs[s].End
    BY <1>f, <1>2, <2>1
  <2>3. t = rs
    <3>1. p # rs[s].End + 1 /\ p # rs[s].Start - 1
      BY <1>f, <1>2, <2>1
    <3> QED
      BY <1>2, <2>2, <3>1 DEF HistoryReceivedPacket, s
  <2>4. p \in Packets(rs)
    BY <1>2, <2>1, InPackets
  <2>5. Len(rs) > 0
    BY <2>1
  <2> QED
    BY <2>3, <2>4, <2>5
<1>3. CASE s # 0 /\ p = rs[s].End + 1
  <2> DEFINE x == [rs EXCEPT ![s].End = p]
  <2>1. s \in 1 .. Len(rs)
    BY <1>s, <1>3
  <2>2. t = MergeWithPrev(x, s)
    <3>1. p \notin rs[s].Start .. rs[s].End /\ p # rs[s].Start - 1
      BY <1>c, <1>f, <1>3, <2>1
    <3> QED
      BY <1>3, <3>1 DEF HistoryReceivedPacket, s
  <2>3. /\ x \in Seq(Intervals) /\ Len(x) = Len(rs)
        /\ \A j \in 1 .. Len(rs) : x[j].Start = rs[j].Start /\ x[j].End = IF j = s THEN p ELSE rs[j].End
    <3> DEFINE y == [rs[s] EXCEPT !.End = p]
    <3>1. y \in Intervals /\ y.Start = rs[s].Start /\ y.End = p
      BY <1>f, <2>1 DEF Intervals
    <3>2. x = [rs EXCEPT ![s] = y]
      OBVIOUS
    <3> HIDE DEF x, y
    <3> QED
      BY <2>1, <3>1, <3>2, ExceptSeq
  <2> HIDE DEF x, t
  <2>4. ASSUME NEW j \in 1 .. Len(x) PROVE x[j].Start <= x[j].End
    BY <1>c, <1>f, <1>3, <2>1, <2>3
  <2>5. ASSUME NEW j \in 1 .. Len(x), NEW k \in 1 .. Len(x), j < k
        PROVE  x[j].End + 1 < x[k].Start
    <3>1. CASE j = s
      BY <1>s, <2>3, <2>5, <3>1
    <3>2. CASE j # s
      BY <1>c, <2>3, <2>5, <3>2
    <3> QED
      BY <3>1, <3>2
  <2>6. ASSUME NEW q PROVE q \in Packets(x) <=> q \in Packets(rs) \/ q = p
    <3>1. ASSUME q \in Packets(x) PROVE q \in Packets(rs) \/ q = p
      <4>1. PICK j \in 1 .. Len(x) : q \in Int /\ x[j].Start <= q /\ q <= x[j].End
        BY <2>3, <3>1, InPackets
      <4>2. j \in 1 .. Len(rs) /\ (q = p \/ (rs[j].Start <= q /\ q <= rs[j].End))
        BY <1>f, <1>3, <2>3, <4>1
      <4> QED
        BY <4>1, <4>2, InPackets
    <3>2. ASSUME q \in Packets(rs) PROVE q \in Packets(x)
      <4>1. PICK j \in 1 .. Len(rs) : q \in Int /\ rs[j].Start <= q /\ q <= rs[j].End
        BY <3>2, InPackets
      <4>2. j \in 1 .. Len(x) /\ x[j].Start <= q /\ q <= x[j].End
        BY <1>f, <1>3, <2>3, <4>1
      <4> QED
        BY <2>3, <4>1, <4>2, InPackets
    <3>3. p \in Packets(x)
      <4>1. s \in 1 .. Len(x) /\ x[s].Start <= p /\ p <= x[s].End
        <5>1. s \in 1 .. Len(x) /\ x[s].Start = rs[s].Start /\ x[s].End = p
          BY <2>1, <2>3
        <5>2. rs[s].Start \in Int /\ rs[s].End \in Int /\ rs[s].Start <= rs[s].End
          BY <1>c, <1>f, <2>1
        <5> QED
          BY <1>3, <5>1, <5>2
      <4> QED
        BY <2>3, <4>1, InPackets
    <3> QED
      BY <3>1, <3>2, <3>3
  <2>7. Packets(x) = Packets(rs) \cup {p}
    BY <2>6, Zenon
  <2>8. \A j, k \in 1 .. Len(x) :
            j < k => IF j = s - 1 /\ k = s THEN x[j].End < x[k].Start ELSE x[j].End + 1 < x[k].Start
    <3>1. \A j \in 1 .. Len(x) : x[j].Start \in Int /\ x[j].End \in Int
      BY <2>3, IntervalFields
    <3> QED
      BY <2>5, <3>1
  <2>9. s \in 1 .. Len(x)
    BY <2>1, <2>3
  <2>10. /\ t \in Seq(Intervals) /\ Canonical(t) /\ Packets(t) = Packets(x) /\ Len(t) > 0
    BY <2>2, <2>3, <2>4, <2>8, <2>9, MergeWithPrevCorrect
  <2> QED
    BY <2>7, <2>10 DEF t
<1>4. CASE s # 0 /\ p = rs[s].Start - 1
  <2> DEFINE x == [rs EXCEPT ![s].Start = p]
  <2>1. s \in 1 .. Len(rs)
    BY <1>s, <1>4
  <2>2. t = MergeWithPrev(x, s)
    <3>1. p \notin rs[s].Start .. rs[s].End /\ p # rs[s].End + 1
      BY <1>c, <1>f, <1>4, <2>1
    <3> QED
      BY <1>4, <3>1 DEF HistoryReceivedPacket, s
  <2>3. /\ x \in Seq(Intervals) /\ Len(x) = Len(rs)
        /\ \A j \in 1 .. Len(rs) : x[j].End = rs[j].End /\ x[j].Start = IF j = s THEN p ELSE rs[j].Start
    <3> DEFINE y == [rs[s] EXCEPT !.Start = p]
    <3>1. y \in Intervals /\ y.End = rs[s].End /\ y.Start = p
      BY <1>f, <2>1 DEF Intervals
    <3>2. x = [rs EXCEPT ![s] = y]
      OBVIOUS
    <3> HIDE DEF x, y
    <3> QED
      BY <2>1, <3>1, <3>2, ExceptSeq
  <2> HIDE DEF x, t
  <2>4. ASSUME NEW j \in 1 .. Len(x) PROVE x[j].Start <= x[j].End
    BY <1>c, <1>f, <1>4, <2>1, <2>3
  <2>5. ASSUME NEW j \in 1 .. Len(x), NEW k \in 1 .. Len(x), j < k
        PROVE  IF j = s - 1 /\ k = s THEN x[j].End < x[k].Start ELSE x[j].End + 1 < x[k].Start
    <3>1. CASE k # s
      <4>1. x[j].End + 1 < x[k].Start
        BY <1>c, <2>3, <2>5, <3>1
      <4> QED
        BY <3>1, <4>1
    <3>2. CASE k = s /\ j = s - 1
      <4>1. x[j].End = rs[j].End /\ x[k].Start = p /\ rs[j].End + 1 < rs[s].Start
        BY <1>c, <2>1, <2>3, <2>5, <3>2
      <4> QED
        BY <1>f, <1>4, <2>1, <2>3, <3>2, <4>1
    <3>3. CASE k = s /\ j # s - 1
      <4>1. s - 1 \in 1 .. Len(rs) /\ j < s - 1
        BY <2>1, <2>3, <2>5, <3>3
      <4>2. rs[j].End + 1 < rs[s - 1].Start /\ rs[s - 1].Start <= rs[s - 1].End /\ rs[s - 1].End + 1 < rs[s].Start
        BY <1>c, <2>1, <2>3, <4>1
      <4>3. x[j].End = rs[j].End /\ x[k].Start = p
        BY <2>1, <2>3, <2>5, <3>3
      <4>4. rs[j].End + 1 < p
        <5>1. j \in 1 .. Len(rs)
          BY <2>3
        <5>2. rs[j].End \in Int /\ rs[s - 1].Start \in Int /\ rs[s - 1].End \in Int /\ rs[s].Start \in Int
          BY <1>f, <2>1, <4>1, <5>1
        <5>3. p = rs[s].Start - 1
          BY <1>4
        <5>4. rs[s - 1].End < p
          BY <4>2, <5>2, <5>3
        <5>5. rs[j].End + 1 < rs[s - 1].End
          BY <4>2, <5>2
        <5> QED
          BY <5>2, <5>4, <5>5
      <4> QED
        BY <3>3, <4>3, <4>4
    <3> QED
      BY <3>1, <3>2, <3>3
  <2>6. ASSUME NEW q PROVE q \in Packets(x) <=> q \in Packets(rs) \/ q = p
    <3>1. ASSUME q \in Packets(x) PROVE q \in Packets(rs) \/ q = p
      <4>1. PICK j \in 1 .. Len(x) : q \in Int /\ x[j].Start <= q /\ q <= x[j].End
        BY <2>3, <3>1, InPackets
      <4>2. j \in 1 .. Len(rs) /\ (q = p \/ (rs[j].Start <= q /\ q <= rs[j].End))
        <5>1. j \in 1 .. Len(rs) /\ x[j].End = rs[j].End
          BY <2>3
        <5>2. CASE j = s
          <6>1. x[j].Start = rs[j].Start - 1 /\ x[j].Start = p
            BY <1>4, <2>3, <5>1, <5>2
          <6> QED
            BY <1>f, <4>1, <5>1, <6>1
        <5>3. CASE j # s
          BY <2>3, <4>1, <5>1, <5>3
        <5> QED
          BY <5>2, <5>3
      <4> QED
        BY <4>1, <4>2, InPackets
    <3>2. ASSUME q \in Packets(rs) PROVE q \in Packets(x)
      <4>1. PICK j \in 1 .. Len(rs) : q \in Int /\ rs[j].Start <= q /\ q <= rs[j].End
        BY <3>2, InPackets
      <4>2. j \in 1 .. Len(x) /\ x[j].Start <= q /\ q <= x[j].End
        BY <1>f, <1>4, <2>3, <4>1
      <4> QED
        BY <2>3, <4>1, <4>2, InPackets
    <3>3. p \in Packets(x)
      <4>1. s \in 1 .. Len(x) /\ x[s].Start <= p /\ p <= x[s].End
        <5>1. s \in 1 .. Len(x) /\ x[s].Start = p /\ x[s].End = rs[s].End
          BY <2>1, <2>3
        <5>2. rs[s].Start \in Int /\ rs[s].End \in Int /\ rs[s].Start <= rs[s].End
          BY <1>c, <1>f, <2>1
        <5> QED
          BY <1>4, <5>1, <5>2
      <4> QED
        BY <2>3, <4>1, InPackets
    <3> QED
      BY <3>1, <3>2, <3>3
  <2>7. Packets(x) = Packets(rs) \cup {p}
    BY <2>6, Zenon
  <2>8. s \in 1 .. Len(x)
    BY <2>1, <2>3
  <2>9. /\ t \in Seq(Intervals) /\ Canonical(t) /\ Packets(t) = Packets(x) /\ Len(t) > 0
    BY <2>2, <2>3, <2>4, <2>5, <2>8, MergeWithPrevCorrect
  <2> QED
    BY <2>7, <2>9 DEF t
<1>5. CASE s # 0 /\ p > rs[s].End + 1
  <2>1. s \in 1 .. Len(rs)
    BY <1>s, <1>5
  <2>2. p \notin rs[s].Start .. rs[s].End /\ p # rs[s].End + 1 /\ p # rs[s].Start - 1
    BY <1>c, <1>f, <1>5, <2>1
  <2>3. t = InsertAt(rs, s + 1, e)
    BY <1>5, <2>2 DEF HistoryReceivedPacket, s, e
  <2> HIDE DEF t
  <2>4. ASSUME NEW j \in 1 .. Len(rs), j < s + 1 PROVE rs[j].End + 1 < p
    <3>1. CASE j = s
      BY <1>f, <1>5, <2>1, <3>1
    <3>2. CASE j < s
      <4>1. rs[j].End + 1 < rs[s].Start /\ rs[s].Start <= rs[s].End
        BY <1>c, <2>1, <3>2
      <4> QED
        BY <1>f, <1>5, <2>1, <4>1
    <3> QED
      BY <2>1, <2>4, <3>1, <3>2
  <2> QED
    BY <1>i, <2>3, <2>4 DEF t
<1>6. \/ s = 0
      \/ s # 0 /\ rs[s].Start <= p /\ p <= rs[s].End
      \/ s # 0 /\ p = rs[s].End + 1
      \/ s # 0 /\ p = rs[s].Start - 1
      \/ s # 0 /\ p > rs[s].End + 1
  <2>1. CASE s # 0
    <3>1. s \in 1 .. Len(rs) /\ rs[s].Start <= p + 1
      BY <1>s, <2>1
    <3> QED
      BY <1>f, <2>1, <3>1
  <2> QED
    BY <2>1
<1> QED
  BY <1>1, <1>2, <1>3, <1>4, <1>5, <1>6

(***************************************************************************)
(* DeleteUpTo keeps the list canonical and removes exactly the packets up  *)
(* to p: whole ranges, and the front of the range that contains p          *)
(* (receivedPacketHistory.DeleteUpTo).                                     *)
(***************************************************************************)
THEOREM DeleteUpToCorrect ==
    ASSUME NEW rs \in Seq(Intervals), NEW p \in Int, Canonical(rs)
    PROVE  LET t == DeleteUpTo(rs, p)
           IN  /\ t \in Seq(Intervals)
               /\ Canonical(t)
               /\ Packets(t) = {q \in Packets(rs) : q > p}
<1> DEFINE t == DeleteUpTo(rs, p)
           i == DeleteStop(rs, p)
           n == Len(rs) - i + 1
<1>f. \A j \in 1 .. Len(rs) : rs[j] \in Intervals /\ rs[j].Start \in Int /\ rs[j].End \in Int
  BY IntervalFields
<1>c. /\ \A j \in 1 .. Len(rs) : rs[j].Start <= rs[j].End
      /\ \A j, k \in 1 .. Len(rs) : j < k => rs[j].End + 1 < rs[k].Start
  <2>1. DOMAIN rs = 1 .. Len(rs)
    OBVIOUS
  <2> QED
    BY <2>1 DEF Canonical
<1>i. /\ i \in 0 .. Len(rs)
      /\ i # 0 => rs[i].End > p
      /\ \A j \in 1 .. Len(rs) : i = 0 \/ j < i => rs[j].End <= p
  BY DeleteStopPlace
<1> HIDE DEF i
<1>1. CASE i = 0
  <2>1. t = <<>>
    BY <1>1 DEF DeleteUpTo, i
  <2>2. Canonical(t) /\ Packets(t) = {} /\ t \in Seq(Intervals)
    BY <2>1 DEF Canonical, Packets
  <2>3. ASSUME NEW q \in Packets(rs) PROVE ~ (q > p)
    <3>1. PICK j \in 1 .. Len(rs) : q \in Int /\ rs[j].Start <= q /\ q <= rs[j].End
      BY InPackets
    <3>2. rs[j].End <= p
      BY <1>1, <1>i
    <3> QED
      BY <1>f, <3>1, <3>2
  <2>4. {q \in Packets(rs) : q > p} = {}
    BY <2>3, Zenon
  <2> QED
    BY <2>2, <2>4
<1>2. CASE i # 0
  <2> DEFINE u == SubSeq(rs, i, Len(rs))
             a == IF rs[i].Start > p THEN rs[i].Start ELSE p + 1
             y == [u[1] EXCEPT !.Start = a]
  <2>1. i \in 1 .. Len(rs) /\ n \in Nat /\ n >= 1
    BY <1>i, <1>2
  <2>2. u \in Seq(Intervals) /\ Len(u) = n /\ \A j \in 1 .. n : u[j] = rs[i + j - 1]
    BY <1>f, <2>1, SubSeqProperties
  <2>3. u[1] = rs[i]
    BY <2>1, <2>2
  <2>4. a \in Int /\ a > p /\ rs[i].Start <= a /\ a <= rs[i].End
    BY <1>c, <1>f, <1>i, <1>2, <2>1
  <2>5. y \in Intervals /\ y.Start = a /\ y.End = rs[i].End
    <3> HIDE DEF u, a
    <3>1. rs[i] \in Intervals
      BY <1>f, <2>1
    <3> QED
      BY <2>3, <2>4, <3>1 DEF Intervals
  <2>6. t = [u EXCEPT ![1] = y]
    BY <1>2, <2>3 DEF DeleteUpTo, i
  <2> HIDE DEF u, y, t, a
  <2>7. /\ t \in Seq(Intervals) /\ Len(t) = n
        /\ \A j \in 1 .. n : t[j] = IF j = 1 THEN y ELSE u[j]
    <3>1. 1 \in 1 .. Len(u)
      BY <2>1, <2>2
    <3> QED
      BY <2>2, <2>5, <2>6, <3>1, ExceptSeq
  <2>8. ASSUME NEW j \in 1 .. n
        PROVE  /\ i + j - 1 \in 1 .. Len(rs)
               /\ t[j].End = rs[i + j - 1].End
               /\ t[j].Start = IF j = 1 THEN a ELSE rs[i + j - 1].Start
    <3>1. i + j - 1 \in 1 .. Len(rs)
      BY <2>1
    <3>2. CASE j = 1
      BY <2>1, <2>5, <2>7, <3>1, <3>2
    <3>3. CASE j # 1
      <4>1. t[j] = rs[i + j - 1]
        BY <2>2, <2>7, <3>3
      <4> QED
        BY <3>1, <3>3, <4>1
    <3> QED
      BY <3>2, <3>3
  <2>9. Canonical(t)
    <3>1. DOMAIN t = 1 .. n
      BY <2>7
    <3>2. ASSUME NEW j \in 1 .. n PROVE t[j].Start <= t[j].End
      <4>1. CASE j = 1
        <5>1. t[j].Start = a /\ t[j].End = rs[i].End
          BY <2>1, <2>8, <4>1
        <5> QED
          BY <2>4, <5>1
      <4>2. CASE j # 1
        BY <1>c, <2>8, <4>2
      <4> QED
        BY <4>1, <4>2
    <3>3. ASSUME NEW j \in 1 .. n, NEW k \in 1 .. n, j < k
          PROVE  t[j].End + 1 < t[k].Start
      <4> DEFINE jj == i + j - 1
                 kk == i + k - 1
      <4>1. jj \in 1 .. Len(rs) /\ kk \in 1 .. Len(rs) /\ jj < kk
        BY <2>1, <2>8, <3>3
      <4>2. t[j].End = rs[jj].End /\ t[k].Start = rs[kk].Start
        BY <2>8, <3>3
      <4> HIDE DEF jj, kk
      <4> QED
        BY <1>c, <4>1, <4>2
    <3> QED
      BY <3>1, <3>2, <3>3 DEF Canonical
  <2>10. ASSUME NEW q PROVE q \in Packets(t) <=> q \in Packets(rs) /\ q > p
    <3>1. ASSUME q \in Packets(t) PROVE q \in Packets(rs) /\ q > p
      <4>1. PICK j \in 1 .. n : q \in Int /\ t[j].Start <= q /\ q <= t[j].End
        BY <2>7, <3>1, InPackets
      <4> DEFINE jj == i + j - 1
      <4>2. jj \in 1 .. Len(rs) /\ q <= rs[jj].End
        BY <2>8, <4>1
      <4>3. rs[jj].Start <= q /\ q > p
        <5>1. CASE j = 1
          <6>1. jj = i /\ t[j].Start = a
            BY <2>1, <2>8, <5>1
          <6> QED
            BY <1>f, <2>1, <2>4, <4>1, <6>1
        <5>2. CASE j # 1
          <6>1. t[j].Start = rs[jj].Start /\ i < jj
            BY <2>1, <2>8, <5>2
          <6> HIDE DEF jj
          <6>2. rs[i].End + 1 < rs[jj].Start
            BY <1>c, <2>1, <4>2, <6>1
          <6> QED
            BY <1>f, <1>i, <1>2, <2>1, <4>1, <4>2, <6>1, <6>2
        <5> QED
          BY <5>1, <5>2
      <4> HIDE DEF jj
      <4> QED
        BY <4>1, <4>2, <4>3, InPackets
    <3>2. ASSUME q \in Packets(rs), q > p PROVE q \in Packets(t)
      <4>1. PICK j \in 1 .. Len(rs) : q \in Int /\ rs[j].Start <= q /\ q <= rs[j].End
        BY <3>2, InPackets
      <4>2. ~ (j < i)
        BY <1>f, <1>i, <3>2, <4>1
      <4> DEFINE k == j - i + 1
      <4>3. k \in 1 .. n /\ i + k - 1 = j
        BY <2>1, <4>2
      <4> HIDE DEF k
      <4>4. t[k].End = rs[j].End /\ t[k].Start = IF k = 1 THEN a ELSE rs[j].Start
        BY <2>8, <4>3
      <4>5. t[k].Start <= q
        <5>1. CASE k = 1
          <6>1. j = i
            BY <2>1, <4>3, <5>1
          <6>2. a <= q
            BY <1>f, <2>1, <3>2, <4>1, <6>1 DEF a
          <6> QED
            BY <4>4, <5>1, <6>2
        <5>2. CASE k # 1
          BY <4>1, <4>4, <5>2
        <5> QED
          BY <5>1, <5>2
      <4> QED
        BY <2>7, <4>1, <4>3, <4>4, <4>5, InPackets
    <3> QED
      BY <3>1, <3>2
  <2>11. Packets(t) = {q \in Packets(rs) : q > p}
    BY <2>10, Zenon
  <2> QED
    BY <2>7, <2>9, <2>11 DEF t
<1> QED
  BY <1>1, <1>2
---------------------------------------------------------------------------
Handlers ==
    [largestObserved : 0 .. MaxPacketNumber, lowerLimit : 0 .. MaxPacketNumber,
     ranges : Seq(Intervals),
     packetsReceivedSinceLastAck : 0 .. MaxSinceLastAck,
     retransmittablePacketsReceivedSinceLastAck : 0 .. MaxSinceLastAck,
     ackQueued : BOOLEAN, ackAlarm : {"zero", "future", "passed"},
     lastAck : 0 .. MaxPacketNumber, version : Versions]

(***************************************************************************)
(* The inductive invariant.  Beyond the invariants it implies it says that *)
(* the largest packet observed is never deleted, because a STOP_WAITING    *)
(* frame cannot reach the number of the packet that carries it, and that   *)
(* the packets still owed an ACK are in the history.                       *)
(***************************************************************************)
Largest ==
    IF received = {}
    THEN h.lowerLimit = 0 /\ h.largestObserved = 0
    ELSE /\ h.lowerLimit < h.largestObserved
         /\ h.largestObserved \in Packets(h.ranges)

IInv ==
    /\ h \in Handlers
    /\ open \in BOOLEAN
    /\ received \subseteq PacketNumbers
    /\ maxLimit \in 0 .. MaxPacketNumber
    /\ owed \subseteq Packets(h.ranges)
    /\ h.retransmittablePacketsReceivedSinceLastAck <= h.packetsReceivedSinceLastAck
    /\ HistoryExact
    /\ h.lowerLimit <= maxLimit
    /\ \A q \in Packets(h.ranges) : q > h.lowerLimit
    /\ \A q \in received : q <= h.largestObserved
    /\ open => Largest
    /\ open /\ (h.ackQueued \/ h.ackAlarm # "zero") => received # {}
    /\ OwedIsScheduled

(***************************************************************************)
(* maybeQueueAck touches only the counters, the flag and the alarm.  It    *)
(* leaves an ACK scheduled if there was one or the packet asks for one.    *)
(***************************************************************************)
LEMMA MaybeQueueAckEffect ==
    ASSUME NEW hh \in Handlers, NEW p, NEW b \in BOOLEAN,
           hh.packetsReceivedSinceLastAck < MaxSinceLastAck,
           hh.retransmittablePacketsReceivedSinceLastAck <= hh.packetsReceivedSinceLastAck
    PROVE  LET g == maybeQueueAck(hh, p, b)
           IN  /\ g \in Handlers
               /\ g.retransmittablePacketsReceivedSinceLastAck <= g.packetsReceivedSinceLastAck
               /\ g.ranges = hh.ranges /\ g.lowerLimit = hh.lowerLimit
               /\ g.largestObserved = hh.largestObserved
               /\ b \/ hh.ackQueued \/ hh.ackAlarm # "zero" => g.ackQueued \/ g.ackAlarm # "zero"
<1> DEFINE packets == hh.packetsReceivedSinceLastAck + 1
           retrans == hh.retransmittablePacketsReceivedSinceLastAck + (IF b THEN 1 ELSE 0)
           queued == \/ hh.ackQueued
                     \/ hh.lastAck = 0
                     \/ hh.version < Version39 /\ packets >= MaxPacketsReceivedBeforeAckSend
                     \/ p < hh.lastAck
                     \/ GetHighestAckRange(hh.ranges).Start > hh.lastAck
                     \/ b /\ retrans >= RetransmittablePacketsBeforeAck
           alarm == IF queued THEN "zero"
                    ELSE IF b /\ hh.ackAlarm = "zero" THEN "future" ELSE hh.ackAlarm
           g == maybeQueueAck(hh, p, b)
<1>1. packets \in 0 .. MaxSinceLastAck /\ retrans \in 0 .. MaxSinceLastAck /\ retrans <= packets
  BY LimitsAssumption DEF Handlers
<1>2. queued \in BOOLEAN
  OBVIOUS
<1>3. alarm \in {"zero", "future", "passed"}
  BY DEF Handlers
<1>4. b \/ hh.ackQueued \/ hh.ackAlarm # "zero" => queued \/ alarm # "zero"
  OBVIOUS
<1>5. g = [hh EXCEPT !.packetsReceivedSinceLastAck = packets,
                     !.retransmittablePacketsReceivedSinceLastAck = retrans,
                     !.ackQueued = queued, !.ackAlarm = alarm]
  BY DEF maybeQueueAck
<1> HIDE DEF packets, retrans, queued, alarm, g
<1>6. /\ g \in Handlers
      /\ g.packetsReceivedSinceLastAck = packets
      /\ g.retransmittablePacketsReceivedSinceLastAck = retrans
      /\ g.ackQueued = queued /\ g.ackAlarm = alarm
      /\ g.ranges = hh.ranges /\ g.lowerLimit = hh.lowerLimit
      /\ g.largestObserved = hh.largestObserved
  BY <1>1, <1>2, <1>3, <1>5, Zenon DEF Handlers
<1> QED
  BY <1>1, <1>4, <1>6 DEF g

(***************************************************************************)
(* What one call of ReceivedPacket does to a handler with a canonical      *)
(* history.                                                                *)
(***************************************************************************)
LEMMA ReceivedPacketEffect ==
    ASSUME NEW hh \in Handlers, NEW p \in PacketNumbers, NEW b \in BOOLEAN,
           Canonical(hh.ranges),
           hh.packetsReceivedSinceLastAck < MaxSinceLastAck,
           hh.retransmittablePacketsReceivedSinceLastAck <= hh.packetsReceivedSinceLastAck
    PROVE  LET g == ReceivedPacket(hh, p, b)
           IN  /\ g \in Handlers
               /\ g.retransmittablePacketsReceivedSinceLastAck <= g.packetsReceivedSinceLastAck
               /\ Canonical(g.ranges)
               /\ Packets(g.ranges) = Packets(hh.ranges) \cup (IF p > hh.lowerLimit THEN {p} ELSE {})
               /\ g.lowerLimit = hh.lowerLimit
               /\ g.largestObserved = IF p > hh.largestObserved THEN p ELSE hh.largestObserved
               /\ (b /\ p > hh.lowerLimit) \/ hh.ackQueued \/ hh.ackAlarm # "zero"
                      => g.ackQueued \/ g.ackAlarm # "zero"
               /\ p <= hh.lowerLimit => g.ackQueued = hh.ackQueued /\ g.ackAlarm = hh.ackAlarm
<1> DEFINE g == ReceivedPacket(hh, p, b)
           o == Observe(hh, p)
<1>p. p \in Int /\ p \in 0 .. MaxPacketNumber
  BY LimitsAssumption DEF PacketNumbers
<1>l. hh.lowerLimit \in Int /\ hh.ranges \in Seq(Intervals)
  BY DEF Handlers
<1>o. /\ o \in Handlers
      /\ o.largestObserved = IF p > hh.largestObserved THEN p ELSE hh.largestObserved
      /\ o = [hh EXCEPT !.largestObserved = o.largestObserved]
  BY <1>p DEF Observe, Handlers
<1> HIDE DEF o
<1>1. CASE p <= hh.lowerLimit
  <2>1. g = o
    BY <1>1 DEF ReceivedPacket, o
  <2>2. ~ (p > hh.lowerLimit)
    BY <1>1, <1>p, <1>l
  <2> HIDE DEF g
  <2>3. /\ g.ranges = hh.ranges /\ g.lowerLimit = hh.lowerLimit
        /\ g.ackQueued = hh.ackQueued /\ g.ackAlarm = hh.ackAlarm
        /\ g.packetsReceivedSinceLastAck = hh.packetsReceivedSinceLastAck
        /\ g.retransmittablePacketsReceivedSinceLastAck = hh.retransmittablePacketsReceivedSinceLastAck
    BY <1>o, <2>1 DEF Handlers
  <2> QED
    BY <1>o, <2>1, <2>2, <2>3 DEF g
<1>2. CASE p > hh.lowerLimit
  <2> DEFINE t == HistoryReceivedPacket(hh.ranges, p)
             m == [o EXCEPT !.ranges = t]
  <2>1. ~ (p <= hh.lowerLimit)
    BY <1>2, <1>p, <1>l
  <2>2. o.ranges = hh.ranges
    BY <1>o DEF Handlers
  <2>3. g = maybeQueueAck(m, p, b)
    BY <2>1, <2>2 DEF ReceivedPacket, o
  <2>4. t \in Seq(Intervals) /\ Canonical(t) /\ Packets(t) = Packets(hh.ranges) \cup {p}
    BY <1>l, <1>p, HistoryReceivedPacketCorrect
  <2> HIDE DEF t, g
  <2>5. /\ m \in Handlers /\ m.ranges = t /\ m.lowerLimit = hh.lowerLimit
        /\ m.largestObserved = o.largestObserved
        /\ m.ackQueued = hh.ackQueued /\ m.ackAlarm = hh.ackAlarm
        /\ m.packetsReceivedSinceLastAck = hh.packetsReceivedSinceLastAck
        /\ m.retransmittablePacketsReceivedSinceLastAck = hh.retransmittablePacketsReceivedSinceLastAck
    BY <1>o, <2>4, Zenon DEF Handlers
  <2> HIDE DEF m
  <2>6. /\ g \in Handlers
        /\ g.retransmittablePacketsReceivedSinceLastAck <= g.packetsReceivedSinceLastAck
        /\ g.ranges = m.ranges /\ g.lowerLimit = m.lowerLimit
        /\ g.largestObserved = m.largestObserved
        /\ b \/ m.ackQueued \/ m.ackAlarm # "zero" => g.ackQueued \/ g.ackAlarm # "zero"
    BY <2>3, <2>5, MaybeQueueAckEffect
  <2> QED
    BY <1>2, <1>o, <2>1, <2>4, <2>5, <2>6 DEF g
<1> QED
  BY <1>1, <1>2, <1>p, <1>l

(***************************************************************************)
(* The same for SetLowerLimit.                                             *)
(***************************************************************************)
LEMMA SetLowerLimitEffect ==
    ASSUME NEW hh \in Handlers, NEW p \in 0 .. MaxPacketNumber, Canonical(hh.ranges)
    PROVE  LET g == SetLowerLimit(hh, p)
           IN  /\ g \in Handlers
               /\ Canonical(g.ranges)
               /\ Packets(g.ranges) = {q \in Packets(hh.ranges) : q > p}
               /\ g.lowerLimit = p
               /\ g.largestObserved = hh.largestObserved
               /\ g.ackQueued = hh.ackQueued /\ g.ackAlarm = hh.ackAlarm
               /\ g.packetsReceivedSinceLastAck = hh.packetsReceivedSinceLastAck
               /\ g.retransmittablePacketsReceivedSinceLastAck
                      = hh.retransmittablePacketsReceivedSinceLastAck
<1> DEFINE t == DeleteUpTo(hh.ranges, p)
<1>1. hh.ranges \in Seq(Intervals) /\ p \in Int
  BY DEF Handlers
<1>2. t \in Seq(Intervals) /\ Canonical(t) /\ Packets(t) = {q \in Packets(hh.ranges) : q > p}
  BY <1>1, DeleteUpToCorrect, Zenon
<1>3. SetLowerLimit(hh, p) = [hh EXCEPT !.lowerLimit = p, !.ranges = t]
  BY DEF SetLowerLimit
<1> HIDE DEF t
<1> QED
  BY <1>2, <1>3, Zenon DEF Handlers

(***************************************************************************)
(* Reversing the ranges for the wire loses no packet.                      *)
(***************************************************************************)
LEMMA ReversePackets ==
    ASSUME NEW rs \in Seq(Intervals)
    PROVE  Packets(Reverse(rs)) = Packets(rs)
<1>1. DOMAIN Reverse(rs) = 1 .. Len(rs) /\ DOMAIN rs = 1 .. Len(rs)
  BY DEF Reverse
<1>2. ASSUME NEW i \in 1 .. Len(rs)
      PROVE  Len(rs) - i + 1 \in 1 .. Len(rs) /\ Reverse(rs)[i] = rs[Len(rs) - i + 1]
  BY DEF Reverse
<1>3. ASSUME NEW i \in 1 .. Len(rs)
      PROVE  \E j \in 1 .. Len(rs) : Reverse(rs)[j] = rs[i]
  <2>1. Len(rs) - i + 1 \in 1 .. Len(rs) /\ Len(rs) - (Len(rs) - i + 1) + 1 = i
    OBVIOUS
  <2> QED
    BY <1>2, <2>1
<1>4. ASSUME NEW q
      PROVE  q \in Packets(Reverse(rs)) <=> q \in Packets(rs)
  <2>1. q \in Packets(Reverse(rs)) <=>
            \E i \in 1 .. Len(rs) : q \in Reverse(rs)[i].Start .. Reverse(rs)[i].End
    BY <1>1, Zenon DEF Packets
  <2>2. q \in Packets(rs) <=> \E i \in 1 .. Len(rs) : q \in rs[i].Start .. rs[i].End
    BY <1>1, Zenon DEF Packets
  <2> QED
    BY <1>2, <1>3, <2>1, <2>2, Zenon
<1> QED
  BY <1>4, Zenon

(***************************************************************************)
(* With the inductive invariant an ACK frame stands for exactly the        *)
(* history, whether it carries the ranges or, with one range, only its     *)
(* two ends (GetAckFrame).                                                 *)
(***************************************************************************)
LEMMA AckFrameExactFromIInv == IInv => AckFrameExact
<1> SUFFICES ASSUME IInv, open, h.ranges # <<>>
             PROVE  AckedBy(AckFrame(h)) = Packets(h.ranges)
  BY DEF AckFrameExact
<1> DEFINE rs == h.ranges
<1>1. rs \in Seq(Intervals) /\ h.largestObserved \in Int
  BY DEF IInv, Handlers
<1>2. Len(rs) \in Nat /\ Len(rs) >= 1 /\ DOMAIN rs = 1 .. Len(rs)
  BY <1>1, EmptySeq
<1>3. Canonical(rs) /\ Packets(rs) \subseteq received /\ \A q \in received : q <= h.largestObserved
  BY DEF IInv, HistoryExact
<1>4. rs[1].Start \in Int /\ rs[1].End \in Int /\ rs[1].Start <= rs[1].End
  BY <1>1, <1>2, <1>3, IntervalFields DEF Canonical
<1>5. rs[1].Start \in Packets(rs) /\ rs[1].End \in Packets(rs)
  <2>1. 1 \in 1 .. Len(rs) /\ rs[1].Start <= rs[1].Start /\ rs[1].End <= rs[1].End
    BY <1>2, <1>4
  <2> QED
    BY <1>1, <1>4, <2>1, InPackets
<1>6. h.largestObserved \in Packets(rs)
  BY <1>3, <1>5 DEF IInv, Largest
<1>7. CASE Len(rs) > 1
  <2>1. AckFrame(h).AckRanges = Reverse(rs)
    BY <1>7 DEF AckFrame
  <2>2. Reverse(rs) # <<>>
    <3>1. DOMAIN Reverse(rs) = 1 .. Len(rs) /\ 1 \in 1 .. Len(rs)
      BY <1>2 DEF Reverse
    <3> QED
      BY <3>1
  <2> QED
    BY <1>1, <2>1, <2>2, ReversePackets DEF AckedBy
<1>8. CASE ~ (Len(rs) > 1)
  <2>1. Len(rs) = 1
    <3> HIDE DEF rs
    <3>1. Len(rs) \in Nat /\ Len(rs) >= 1
      BY <1>2
    <3> QED
      BY <1>8, <3>1
  <2>2. AckedBy(AckFrame(h)) = rs[1].Start .. h.largestObserved
    BY <1>8 DEF AckFrame, AckedBy
  <2>3. Packets(rs) = rs[1].Start .. rs[1].End
    <3>1. DOMAIN rs = {1}
      BY <1>2, <2>1
    <3> QED
      BY <3>1, Zenon DEF Packets
  <2>4. h.largestObserved = rs[1].End
    <3>1. rs[1].End <= h.largestObserved
      BY <1>3, <1>5
    <3>2. h.largestObserved <= rs[1].End
      BY <1>4, <1>6, <2>3
    <3> QED
      BY <1>1, <1>4, <3>1, <3>2
  <2> QED
    BY <2>2, <2>3, <2>4
<1> QED
  BY <1>7, <1>8

LEMMA InitIInv == Init => IInv
<1> SUFFICES ASSUME Init PROVE IInv
  OBVIOUS
<1>1. PICK v \in Versions : h = NewReceivedPacketHandler(v)
  BY DEF Init
<1>2. <<>> \in Seq(Intervals) /\ Canonical(<<>>) /\ Packets(<<>>) = {}
  BY DEF Canonical, Packets
<1>3. h.ranges = <<>> /\ h.lowerLimit = 0 /\ h.largestObserved = 0 /\ h.ackQueued = FALSE /\ h.ackAlarm = "zero"
  BY <1>1 DEF NewReceivedPacketHandler
<1>4. h \in Handlers /\ h.retransmittablePacketsReceivedSinceLastAck <= h.packetsReceivedSinceLastAck
  BY <1>1, <1>2, LimitsAssumption DEF NewReceivedPacketHandler, Handlers
<1>5. received = {} /\ owed = {} /\ maxLimit = 0 /\ open = TRUE
  BY DEF Init
<1>6. 0 \in 0 .. MaxPacketNumber
  BY LimitsAssumption
<1> QED
  BY <1>2, <1>3, <1>4, <1>5, <1>6 DEF IInv, HistoryExact, Largest, OwedIsScheduled

(***************************************************************************)
(* path.handlePacketImpl preserves the invariant: the packet is recorded,  *)
(* then the STOP_WAITING frame it may carry deletes what lies below it.    *)
(***************************************************************************)
LEMMA HandlePacketPreserves ==
    ASSUME IInv, NEW p \in PacketNumbers, NEW b \in BOOLEAN, NEW l \in 0 .. p,
           HandlePacket(p, b, l)
    PROVE  IInv'
<1> DEFINE g == ReceivedPacket(h, p, b)
<1>p. p \in Int /\ p >= 1 /\ p <= MaxPacketNumber /\ l \in Int /\ 0 <= l /\ l <= p /\ MaxPacketNumber \in Int
  BY LimitsAssumption DEF PacketNumbers
<1>h. /\ h \in Handlers /\ Canonical(h.ranges)
      /\ h.packetsReceivedSinceLastAck < MaxSinceLastAck
      /\ h.retransmittablePacketsReceivedSinceLastAck <= h.packetsReceivedSinceLastAck
      /\ h.lowerLimit \in Int /\ h.largestObserved \in Int /\ maxLimit \in Int
  BY DEF IInv, HistoryExact, HandlePacket, Handlers
<1>g. /\ g \in Handlers
      /\ g.retransmittablePacketsReceivedSinceLastAck <= g.packetsReceivedSinceLastAck
      /\ Canonical(g.ranges)
      /\ Packets(g.ranges) = Packets(h.ranges) \cup (IF p > h.lowerLimit THEN {p} ELSE {})
      /\ g.lowerLimit = h.lowerLimit
      /\ g.largestObserved = IF p > h.largestObserved THEN p ELSE h.largestObserved
      /\ (b /\ p > h.lowerLimit) \/ h.ackQueued \/ h.ackAlarm # "zero"
             => g.ackQueued \/ g.ackAlarm # "zero"
      /\ p <= h.lowerLimit => g.ackQueued = h.ackQueued /\ g.ackAlarm = h.ackAlarm
  BY <1>h, ReceivedPacketEffect
<1> DEFINE newOwed == owed \cup (IF b /\ p > h.lowerLimit THEN {p} ELSE {})
<1>a. /\ open = TRUE /\ open' = open
      /\ h' = IF l = 0 THEN g ELSE SetLowerLimit(g, l - 1)
      /\ owed' = {q \in newOwed : q >= l}
      /\ received' = received \cup {p}
      /\ maxLimit' = IF l - 1 > maxLimit THEN l - 1 ELSE maxLimit
  BY DEF HandlePacket, IInv
<1> HIDE DEF g
<1>s. ASSUME l # 0
      PROVE  /\ h' \in Handlers
             /\ Canonical(h'.ranges)
             /\ Packets(h'.ranges) = {q \in Packets(g.ranges) : q > l - 1}
             /\ h'.lowerLimit = l - 1
             /\ h'.largestObserved = g.largestObserved
             /\ h'.ackQueued = g.ackQueued /\ h'.ackAlarm = g.ackAlarm
             /\ h'.packetsReceivedSinceLastAck = g.packetsReceivedSinceLastAck
             /\ h'.retransmittablePacketsReceivedSinceLastAck
                    = g.retransmittablePacketsReceivedSinceLastAck
  <2>1. l - 1 \in 0 .. MaxPacketNumber
    BY <1>p, <1>s
  <2>2. h' = SetLowerLimit(g, l - 1)
    BY <1>a, <1>s
  <2> QED
    BY <1>g, <2>1, <2>2, SetLowerLimitEffect
<1>i. /\ Packets(h.ranges) \subseteq received /\ received \subseteq PacketNumbers
      /\ \A q \in received : q \in Int /\ q <= h.largestObserved
      /\ \A q \in received \ Packets(h.ranges) : q <= maxLimit
      /\ \A q \in Packets(h.ranges) : q > h.lowerLimit
      /\ owed \subseteq Packets(h.ranges) /\ h.lowerLimit <= maxLimit
      /\ maxLimit \in 0 .. MaxPacketNumber
  BY DEF IInv, HistoryExact, PacketNumbers
<1>n. received = {} => p > h.lowerLimit
  BY <1>a, <1>p DEF IInv, Largest
<1>1. /\ h' \in Handlers /\ Canonical(h'.ranges)
      /\ h'.retransmittablePacketsReceivedSinceLastAck <= h'.packetsReceivedSinceLastAck
      /\ h'.largestObserved = g.largestObserved
      /\ h'.ackQueued = g.ackQueued /\ h'.ackAlarm = g.ackAlarm
      /\ h'.lowerLimit = IF l = 0 THEN h.lowerLimit ELSE l - 1
  BY <1>a, <1>g, <1>s
<1>2. ASSUME NEW q
      PROVE  q \in Packets(h'.ranges) <=>
                 /\ q \in Packets(h.ranges) \/ (q = p /\ p > h.lowerLimit)
                 /\ l = 0 \/ q > l - 1
  <2>1. CASE l = 0
    BY <1>a, <1>g, <2>1
  <2>2. CASE l # 0
    BY <1>g, <1>s, <2>2
  <2> QED
    BY <2>1, <2>2
<1>3. received' \subseteq PacketNumbers /\ maxLimit' \in 0 .. MaxPacketNumber
  <2>1. received' \subseteq PacketNumbers
    BY <1>a, <1>i
  <2>2. maxLimit' \in 0 .. MaxPacketNumber
    BY <1>a, <1>i, <1>p
  <2> QED
    BY <2>1, <2>2
<1>4. owed' \subseteq Packets(h'.ranges)
  <2> SUFFICES ASSUME NEW q \in owed' PROVE q \in Packets(h'.ranges)
    OBVIOUS
  <2>1. q >= l /\ (q \in Packets(h.ranges) \/ (q = p /\ p > h.lowerLimit))
    BY <1>a, <1>i
  <2>2. q \in Int
    BY <1>i, <1>p, <2>1, Zenon
  <2>3. l = 0 \/ q > l - 1
    BY <1>p, <2>1, <2>2
  <2> QED
    BY <1>2, <2>1, <2>3
<1>5. HistoryExact'
  <2>1. Packets(h'.ranges) \subseteq received'
    BY <1>2, <1>a, <1>i
  <2>2. ASSUME NEW q \in received' \ Packets(h'.ranges) PROVE q <= maxLimit'
    <3>1. q \in Int /\ maxLimit' \in Int /\ maxLimit <= maxLimit' /\ l - 1 <= maxLimit'
      <4>1. q \in Int
        BY <1>a, <1>i, <1>p
      <4>2. maxLimit' \in Int /\ maxLimit <= maxLimit' /\ l - 1 <= maxLimit'
        BY <1>a, <1>h, <1>p
      <4> QED
        BY <4>1, <4>2
    <3>2. CASE q \in Packets(h.ranges) \/ (q = p /\ p > h.lowerLimit)
      <4>1. ~ (l = 0 \/ q > l - 1)
        BY <1>2, <3>2
      <4> QED
        BY <1>p, <3>1, <4>1
    <3>3. CASE ~ (q \in Packets(h.ranges) \/ (q = p /\ p > h.lowerLimit))
      <4>1. q <= maxLimit
        BY <1>a, <1>h, <1>i, <1>p, <3>3
      <4> QED
        BY <1>h, <3>1, <4>1
    <3> QED
      BY <3>2, <3>3
  <2> QED
    BY <1>1, <2>1, <2>2 DEF HistoryExact
<1>6. h'.lowerLimit <= maxLimit'
  BY <1>1, <1>a, <1>h, <1>i, <1>p
<1>7. ASSUME NEW q \in Packets(h'.ranges) PROVE q > h'.lowerLimit
  BY <1>1, <1>2, <1>i
<1>8. /\ p <= h'.largestObserved /\ h.largestObserved <= h'.largestObserved
      /\ h'.largestObserved \in Int
  BY <1>1, <1>g, <1>h, <1>p
<1>9. ASSUME NEW q \in received' PROVE q <= h'.largestObserved
  <2>1. CASE q = p
    BY <1>8, <2>1
  <2>2. CASE q \in received
    BY <1>8, <1>h, <1>i, <2>2
  <2> QED
    BY <1>a, <2>1, <2>2
<1>10. Largest'
  <2>1. received' # {}
    BY <1>a
  <2>2. h'.largestObserved \in Packets(h.ranges) \/ (h'.largestObserved = p /\ p > h.lowerLimit)
    <3>1. CASE p > h.lowerLimit /\ p > h.largestObserved
      BY <1>1, <1>g, <3>1
    <3>2. CASE p > h.lowerLimit /\ ~ (p > h.largestObserved)
      <4>1. h'.largestObserved = h.largestObserved
        BY <1>1, <1>g, <3>2
      <4>2. CASE received = {}
        <5>1. h.largestObserved = 0
          BY <1>a, <4>2 DEF IInv, Largest
        <5> QED
          BY <1>p, <3>2, <5>1
      <4>3. CASE received # {}
        BY <1>a, <4>1, <4>3 DEF IInv, Largest
      <4> QED
        BY <4>2, <4>3
    <3>3. CASE ~ (p > h.lowerLimit)
      <4>1. h.lowerLimit < h.largestObserved /\ h.largestObserved \in Packets(h.ranges)
        BY <1>a, <1>n, <3>3 DEF IInv, Largest
      <4>2. ~ (p > h.largestObserved)
        BY <1>h, <1>p, <3>3, <4>1
      <4> QED
        BY <1>1, <1>g, <4>1, <4>2
    <3> QED
      BY <3>1, <3>2, <3>3
  <2>3. l = 0 \/ h'.largestObserved > l - 1
    BY <1>8, <1>p
  <2>4. h'.largestObserved \in Packets(h'.ranges)
    BY <1>2, <2>2, <2>3
  <2>5. h'.lowerLimit < h'.largestObserved
    <3>1. h'.largestObserved > h'.lowerLimit
      BY <1>7, <2>4
    <3>2. h'.lowerLimit \in Int
      BY <1>1, <1>h, <1>p
    <3> QED
      BY <1>8, <3>1, <3>2
  <2> QED
    BY <2>1, <2>4, <2>5 DEF Largest
<1>11. OwedIsScheduled'
  <2>1. ASSUME owed' # {} PROVE h'.ackQueued \/ h'.ackAlarm # "zero"
    <3>1. owed # {} \/ (b /\ p > h.lowerLimit)
      BY <1>a, <2>1
    <3>2. owed # {} => h.ackQueued \/ h.ackAlarm # "zero"
      BY DEF IInv, OwedIsScheduled
    <3> QED
      BY <1>1, <1>g, <3>1, <3>2
  <2> QED
    BY <2>1 DEF OwedIsScheduled
<1>12. received' # {} /\ open' \in BOOLEAN
  BY <1>a
<1> QED
  BY <1>1, <1>3, <1>4, <1>5, <1>6, <1>7, <1>9, <1>10, <1>11, <1>12 DEF IInv

LEMMA NextPreservesIInv == IInv /\ [Next]_vars => IInv'
<1> SUFFICES ASSUME IInv, [Next]_vars PROVE IInv'
  OBVIOUS
<1>1. ASSUME NEW p \in PacketNumbers, NEW b \in BOOLEAN, NEW l \in 0 .. p, HandlePacket(p, b, l)
      PROVE  IInv'
  BY <1>1, HandlePacketPreserves
<1>2. ASSUME NEW p \in PacketNumbers, RejectPacket(p) PROVE IInv'
  <2>1. /\ h' = Observe(h, p) /\ open' = FALSE
        /\ received' = received /\ maxLimit' = maxLimit /\ owed' = owed
    BY <1>2 DEF RejectPacket
  <2>2. p \in 0 .. MaxPacketNumber /\ h \in Handlers /\ h.largestObserved \in Int
    BY LimitsAssumption DEF PacketNumbers, IInv, Handlers
  <2>3. /\ h' \in Handlers /\ h'.ranges = h.ranges /\ h'.lowerLimit = h.lowerLimit
        /\ h'.ackQueued = h.ackQueued /\ h'.ackAlarm = h.ackAlarm
        /\ h'.packetsReceivedSinceLastAck = h.packetsReceivedSinceLastAck
        /\ h'.retransmittablePacketsReceivedSinceLastAck = h.retransmittablePacketsReceivedSinceLastAck
        /\ h.largestObserved <= h'.largestObserved /\ h'.largestObserved \in Int
    BY <2>1, <2>2 DEF Observe, Handlers
  <2>4. ASSUME NEW q \in received PROVE q <= h'.largestObserved
    <3>1. q \in Int /\ q <= h.largestObserved
      BY LimitsAssumption DEF IInv, PacketNumbers
    <3> QED
      BY <2>2, <2>3, <3>1
  <2> QED
    BY <2>1, <2>3, <2>4, Zenon DEF IInv, HistoryExact, OwedIsScheduled
<1>2a. ASSUME RejectZero PROVE IInv'
  <2>1. /\ h' = h /\ open' = FALSE
        /\ received' = received /\ maxLimit' = maxLimit /\ owed' = owed
    BY <1>2a DEF RejectZero
  <2> QED
    BY <2>1, Zenon DEF IInv, HistoryExact, OwedIsScheduled, Largest
<1>3. ASSUME AckAlarmPasses PROVE IInv'
  <2>1. /\ h' = [h EXCEPT !.ackAlarm = "passed"] /\ h.ackAlarm = "future" /\ open' = open
        /\ received' = received /\ maxLimit' = maxLimit /\ owed' = owed
    BY <1>3 DEF AckAlarmPasses
  <2>2. /\ h' \in Handlers /\ h'.ranges = h.ranges /\ h'.lowerLimit = h.lowerLimit
        /\ h'.ackAlarm = "passed"
        /\ h'.packetsReceivedSinceLastAck = h.packetsReceivedSinceLastAck
        /\ h'.retransmittablePacketsReceivedSinceLastAck = h.retransmittablePacketsReceivedSinceLastAck
        /\ h'.largestObserved = h.largestObserved
    BY <2>1 DEF IInv, Handlers
  <2> QED
    BY <2>1, <2>2 DEF IInv, HistoryExact, OwedIsScheduled, Largest
<1>4. ASSUME GetAckFrame PROVE IInv'
  <2>1. /\ h' = AfterAckFrame(h) /\ open' = open /\ open = TRUE /\ AckDue(h)
        /\ received' = received /\ maxLimit' = maxLimit
        /\ owed' = owed \ AckedBy(AckFrame(h))
    BY <1>4 DEF GetAckFrame, IInv
  <2>2. /\ h' \in Handlers /\ h'.ranges = h.ranges /\ h'.lowerLimit = h.lowerLimit
        /\ h'.ackQueued = FALSE /\ h'.ackAlarm = "zero"
        /\ h'.packetsReceivedSinceLastAck = 0
        /\ h'.retransmittablePacketsReceivedSinceLastAck = 0
        /\ h'.largestObserved = h.largestObserved
    <3>1. h \in Handlers /\ 0 \in 0 .. MaxSinceLastAck
      BY LimitsAssumption DEF IInv
    <3> DEFINE no == FALSE
    <3>2. h' = [h EXCEPT !.lastAck = h.largestObserved, !.ackAlarm = "zero", !.ackQueued = no,
                         !.packetsReceivedSinceLastAck = 0,
                         !.retransmittablePacketsReceivedSinceLastAck = 0]
      BY <2>1 DEF AfterAckFrame
    <3>3. h.largestObserved \in 0 .. MaxPacketNumber /\ no \in BOOLEAN
      BY <3>1 DEF Handlers
    <3>4. h' \in Handlers
      <4> HIDE DEF no
      <4> QED
        BY <3>1, <3>2, <3>3, Zenon DEF Handlers
    <3> QED
      BY <3>1, <3>2, <3>4 DEF Handlers
  <2>3. owed' = {}
    <3>1. received # {}
      BY <2>1 DEF AckDue, IInv
    <3>2. h.largestObserved \in Packets(h.ranges)
      BY <2>1, <3>1 DEF IInv, Largest
    <3>3. h.ranges # <<>>
      BY <3>2 DEF Packets
    <3>4. AckedBy(AckFrame(h)) = Packets(h.ranges)
      BY <2>1, <3>3, AckFrameExactFromIInv DEF AckFrameExact
    <3> QED
      BY <2>1, <3>4 DEF IInv
  <2> QED
    BY <2>1, <2>2, <2>3 DEF IInv, HistoryExact, OwedIsScheduled, Largest
<1>5. ASSUME UNCHANGED vars PROVE IInv'
  BY <1>5 DEF vars, IInv, HistoryExact, OwedIsScheduled, Largest
<1> QED
  BY <1>1, <1>2, <1>2a, <1>3, <1>4, <1>5 DEF Next

THEOREM Invariance == Spec => []IInv
  BY InitIInv, NextPreservesIInv, PTL DEF Spec

(***************************************************************************)
(* The ends of the ranges are packet numbers, which gives the type         *)
(* invariant its stronger type of the range list.                          *)
(***************************************************************************)
LEMMA RangeType ==
    ASSUME NEW rs \in Seq(Intervals), Canonical(rs), NEW S, Packets(rs) \subseteq S
    PROVE  rs \in Seq([Start : S, End : S])
<1>1. ASSUME NEW i \in 1 .. Len(rs) PROVE rs[i] \in [Start : S, End : S]
  <2>1. rs[i] \in Intervals /\ rs[i].Start \in Int /\ rs[i].End \in Int
    BY IntervalFields
  <2>2. rs[i].Start <= rs[i].End
    BY DEF Canonical
  <2>3. rs[i].Start \in Packets(rs) /\ rs[i].End \in Packets(rs)
    <3>1. rs[i].Start <= rs[i].Start /\ rs[i].End <= rs[i].End
      BY <2>1
    <3> QED
      BY <2>1, <2>2, <3>1, InPackets
  <2> QED
    BY <2>1, <2>3 DEF Intervals
<1>2. Len(rs) \in Nat /\ rs \in [1 .. Len(rs) -> Intervals]
  BY LenProperties
<1>3. rs \in [1 .. Len(rs) -> [Start : S, End : S]]
  BY <1>1, <1>2, Zenon
<1> DEFINE T == [Start : S, End : S]
<1>4. Seq(T) = UNION {[1 .. n -> T] : n \in Nat}
  BY SeqDef, Zenon
<1>5. rs \in UNION {[1 .. n -> T] : n \in Nat}
  <2> HIDE DEF T
  <2>1. rs \in [1 .. Len(rs) -> T]
    BY <1>3 DEF T
  <2> QED
    BY <1>2, <2>1, Zenon
<1> QED
  BY <1>4, <1>5, Zenon

(***************************************************************************)
(* The type invariant of the handler, for every value of the limits.       *)
(***************************************************************************)
THEOREM TypeCorrect == Spec => []TypeOK
<1>1. IInv => TypeOK
  <2> SUFFICES ASSUME IInv PROVE TypeOK
    OBVIOUS
  <2>1. h.ranges \in Seq(Intervals) /\ Canonical(h.ranges) /\ Packets(h.ranges) \subseteq PacketNumbers
    BY DEF IInv, Handlers, HistoryExact
  <2>2. h.ranges \in Seq([Start : PacketNumbers, End : PacketNumbers])
    BY <2>1, RangeType, Zenon
  <2>3. owed \subseteq PacketNumbers
    BY <2>1 DEF IInv
  <2> QED
    BY <2>2, <2>3 DEF IInv, TypeOK, Handlers
<1> QED
  BY <1>1, Invariance, PTL

(***************************************************************************)
(* The range list is canonical, holds only packets that arrived, and lacks *)
(* only packets that a STOP_WAITING limit reached, in every order of       *)
(* arrivals, duplicates and STOP_WAITING frames.                           *)
(***************************************************************************)
THEOREM HistoryIsExact == Spec => []HistoryExact
<1>1. IInv => HistoryExact
  BY DEF IInv
<1> QED
  BY <1>1, Invariance, PTL

(***************************************************************************)
(* Every ACK frame acknowledges exactly the packets of the history.        *)
(***************************************************************************)
THEOREM AckFramesAreExact == Spec => []AckFrameExact
  BY AckFrameExactFromIInv, Invariance, PTL

(***************************************************************************)
(* GetAckFrame never indexes an empty range list.                          *)
(***************************************************************************)
THEOREM AckFramesHaveARange == Spec => []AckDueHasRange
<1>1. IInv => AckDueHasRange
  <2> SUFFICES ASSUME IInv, open, h.ackQueued \/ h.ackAlarm # "zero"
               PROVE  h.ranges # <<>>
    BY DEF AckDueHasRange
  <2>1. h.largestObserved \in Packets(h.ranges)
    BY DEF IInv, Largest
  <2> QED
    BY <2>1 DEF Packets
<1> QED
  BY <1>1, Invariance, PTL

(***************************************************************************)
(* No retransmittable packet is forgotten: while one is not reported, an   *)
(* ACK is queued or the ACK alarm is set.                                  *)
(***************************************************************************)
THEOREM OwedPacketsAreScheduled == Spec => []OwedIsScheduled
<1>1. IInv => OwedIsScheduled
  BY DEF IInv
<1> QED
  BY <1>1, Invariance, PTL

(***************************************************************************)
(* The numbers of the packets that reach the handler: the path completes   *)
(* what the wire carries of them.                                          *)
(***************************************************************************)

\* path.handlePacketImpl completes the number of every packet that is less
\* than half an epoch away from the next expected one, on either side, to the
\* number its sender gave it.  In the first epoch the wrapped candidate of the
\* epoch before never wins.
THEOREM InferExact ==
    ASSUME NEW len \in PacketNumberLen, NEW last \in Reachable, NEW pn \in Reachable,
           2 * delta(last + 1, pn) < EpochDelta(len)
    PROVE  InferPacketNumber(len, last, OnWire(len, pn)) = pn
<1>1. last \in Nat /\ pn \in Nat /\ last < 9223372036854775808 /\ pn < 9223372036854775808
  BY DEF Reachable
<1>2. CASE len = 1
  <2>1. EpochDelta(len) = 256
    BY <1>2 DEF EpochDelta
  <2>2. 2 * delta(last + 1, pn) < 256
    BY <2>1
  <2>3. Candidate(256, last, pn % 256) = pn
    BY ONLY <1>1, <2>2 DEF Candidate, closestTo, delta, Wrap
  <2> QED
    BY <2>1, <2>3 DEF InferPacketNumber, OnWire
<1>3. CASE len = 2
  <2>1. EpochDelta(len) = 65536
    BY <1>3 DEF EpochDelta
  <2>2. 2 * delta(last + 1, pn) < 65536
    BY <2>1
  <2>3. Candidate(65536, last, pn % 65536) = pn
    BY ONLY <1>1, <2>2 DEF Candidate, closestTo, delta, Wrap
  <2> QED
    BY <2>1, <2>3 DEF InferPacketNumber, OnWire
<1>4. CASE len = 4
  <2>1. EpochDelta(len) = 4294967296
    BY <1>4 DEF EpochDelta
  <2>2. 2 * delta(last + 1, pn) < 4294967296
    BY <2>1
  <2>3. Candidate(4294967296, last, pn % 4294967296) = pn
    BY ONLY <1>1, <2>2 DEF Candidate, closestTo, delta, Wrap
  <2> QED
    BY <2>1, <2>3 DEF InferPacketNumber, OnWire
<1>5. CASE len = 6
  <2>1. EpochDelta(len) = 281474976710656
    BY <1>5 DEF EpochDelta
  <2>2. 2 * delta(last + 1, pn) < 281474976710656
    BY <2>1
  <2>3. Candidate(281474976710656, last, pn % 281474976710656) = pn
    BY ONLY <1>1, <2>2 DEF Candidate, closestTo, delta, Wrap
  <2> QED
    BY <2>1, <2>3 DEF InferPacketNumber, OnWire
<1> QED
  BY <1>2, <1>3, <1>4, <1>5 DEF PacketNumberLen

\* The length that GetPacketNumberLengthForPublicHeader chooses is enough under
\* these conditions: fewer than 2^47 numbers since leastUnacked; the packet was
\* not overtaken by half an epoch of its length; and either it is less than 2^15
\* ahead of the number the receiver expects next, or the receiver has come as far
\* as leastUnacked.  The sender does not see to the last one: leastUnacked is the
\* front of its history, which an RTO moves on without any ACK
\* (sent_packet_handler.go:131), and nothing bounds how far.
THEOREM HeaderLengthSuffices ==
    ASSUME NEW pn \in Reachable, NEW leastUnacked \in Reachable, NEW last \in Reachable,
           leastUnacked <= pn,
           pn - leastUnacked < 140737488355328,
           pn - (last + 1) < 32768 \/ leastUnacked <= last + 1,
           2 * (last + 1 - pn) < EpochDelta(GetPacketNumberLengthForPublicHeader(pn, leastUnacked))
    PROVE  LET len == GetPacketNumberLengthForPublicHeader(pn, leastUnacked)
           IN InferPacketNumber(len, last, OnWire(len, pn)) = pn
<1> DEFINE len == GetPacketNumberLengthForPublicHeader(pn, leastUnacked)
<1>1. (pn - leastUnacked) % Wrap = pn - leastUnacked
  BY DEF Reachable, Wrap
<1>2. /\ len \in PacketNumberLen
      /\ 2 * (pn - leastUnacked) < EpochDelta(len)
      /\ 65536 <= EpochDelta(len)
  BY <1>1 DEF GetPacketNumberLengthForPublicHeader, PacketNumberLen, EpochDelta, Reachable
<1>3. EpochDelta(len) \in Int
  BY <1>2 DEF EpochDelta, PacketNumberLen
<1>4. 2 * delta(last + 1, pn) < EpochDelta(len)
  <2> HIDE DEF len
  <2> 2 * (last + 1 - pn) < EpochDelta(len)
    BY DEF len
  <2> QED
    BY <1>2, <1>3 DEF delta, Reachable
<1> QED
  <2> HIDE DEF len
  <2> InferPacketNumber(len, last, OnWire(len, pn)) = pn
    BY <1>2, <1>4, InferExact
  <2> QED
    BY DEF len

\* The last condition of HeaderLengthSuffices cannot be dropped: a packet more than
\* half an epoch of its length ahead of the number the receiver expects next is
\* taken for another one, whatever leastUnacked made the sender choose that length,
\* except in the first epoch, which has no candidate below.
THEOREM HeaderLengthTooShort ==
    ASSUME NEW pn \in Reachable, NEW leastUnacked \in Reachable, NEW last \in Reachable,
           2 * (pn - (last + 1)) > EpochDelta(GetPacketNumberLengthForPublicHeader(pn, leastUnacked)),
           pn >= EpochDelta(GetPacketNumberLengthForPublicHeader(pn, leastUnacked))
    PROVE  LET len == GetPacketNumberLengthForPublicHeader(pn, leastUnacked)
           IN InferPacketNumber(len, last, OnWire(len, pn)) # pn
<1> DEFINE len == GetPacketNumberLengthForPublicHeader(pn, leastUnacked)
<1>1. last \in Nat /\ pn \in Nat /\ last < 9223372036854775808 /\ pn < 9223372036854775808
  BY DEF Reachable
<1>2. len = 2 \/ len = 4 \/ len = 6
  BY DEF GetPacketNumberLengthForPublicHeader
<1>3. 2 * (pn - (last + 1)) > EpochDelta(len) /\ pn >= EpochDelta(len)
  OBVIOUS
<1> HIDE DEF len
<1>4. CASE len = 2
  <2>1. EpochDelta(len) = 65536
    BY <1>4 DEF EpochDelta
  <2>2. 2 * (pn - (last + 1)) > 65536 /\ pn >= 65536
    BY <1>3, <2>1
  <2>3. Candidate(65536, last, pn % 65536) # pn
    BY ONLY <1>1, <2>2 DEF Candidate, closestTo, delta, Wrap
  <2> QED
    BY <2>1, <2>3 DEF InferPacketNumber, OnWire, len
<1>5. CASE len = 4
  <2>1. EpochDelta(len) = 4294967296
    BY <1>5 DEF EpochDelta
  <2>2. 2 * (pn - (last + 1)) > 4294967296 /\ pn >= 4294967296
    BY <1>3, <2>1
  <2>3. Candidate(4294967296, last, pn % 4294967296) # pn
    BY ONLY <1>1, <2>2 DEF Candidate, closestTo, delta, Wrap
  <2> QED
    BY <2>1, <2>3 DEF InferPacketNumber, OnWire, len
<1>6. CASE len = 6
  <2>1. EpochDelta(len) = 281474976710656
    BY <1>6 DEF EpochDelta
  <2>2. 2 * (pn - (last + 1)) > 281474976710656 /\ pn >= 281474976710656
    BY <1>3, <2>1
  <2>3. Candidate(281474976710656, last, pn % 281474976710656) # pn
    BY ONLY <1>1, <2>2 DEF Candidate, closestTo, delta, Wrap
  <2> QED
    BY <2>1, <2>3 DEF InferPacketNumber, OnWire, len
<1> QED
  BY <1>2, <1>4, <1>5, <1>6
=============================================================================
