--------------------- MODULE SentPacketHandlerLemmas ---------------------
(***************************************************************************)
(* What the operators of the sent packet handler do to a handler, for      *)
(* lists of any length: the loops over the packets that a frame            *)
(* acknowledges or a timer gives up on, the weight of the history, and the *)
(* ACK frames of a peer.  A loop is proved with a loop invariant: what has *)
(* happened after n of the packets.                                        *)
(***************************************************************************)
EXTENDS SentPacketHandler, FiniteSetTheorems, WellFoundedInduction, TLAPS

\* The provers of a leaf that names none: a step may need Zenon, or SMT at length.
USE SMTT(10), ZenonT(20), SMTT(30)

HandlerFields ==
    {"lastSentPacketNumber", "skippedPackets", "LargestAcked", "largestReceivedPacketWithAck",
     "packetHistory", "retransmissionQueue", "bytesInFlight", "tlpCount", "lossTime", "alarm",
     "rttKnown", "packets", "numNonRetransmittablePackets", "largestLeastUnackedSent",
     "nextLeastUnacked", "lastStopWaitingFrame"}

\* The packets of a history are in the order of their numbers.
InOrder(history) ==
    \A i, j \in 1 .. Len(history) :
        i < j => history[i].PacketNumber < history[j].PacketNumber

\* What the loops over the packets keep: the history is in order, holds packets
\* that were sent, and bytesInFlight is what it weighs.
HistoryInv(ss) ==
    /\ DOMAIN ss = HandlerFields
    /\ ss.packetHistory \in Seq(PacketType)
    /\ ss.retransmissionQueue \in Seq(PacketType)
    /\ InOrder(ss.packetHistory)
    /\ ss.lastSentPacketNumber \in 0 .. MaxSent
    /\ \A i \in 1 .. Len(ss.packetHistory) :
           ss.packetHistory[i].PacketNumber <= ss.lastSentPacketNumber
    /\ ss.bytesInFlight = Bytes(ss.packetHistory)
    /\ ss.nextLeastUnacked \in 0 .. ss.lastSentPacketNumber + 1
    /\ ss.tlpCount \in 0 .. MaxTailLossProbes

RestInv(ss) ==
    /\ ss.skippedPackets = <<>>
    /\ ss.LargestAcked \in 0 .. ss.lastSentPacketNumber
    /\ ss.largestReceivedPacketWithAck \in 0 .. MaxAcks
    /\ ss.packets \in 0 .. ss.lastSentPacketNumber
    /\ ss.numNonRetransmittablePackets \in 0 .. ss.lastSentPacketNumber
    /\ ss.lossTime \in BOOLEAN /\ ss.alarm \in BOOLEAN /\ ss.rttKnown \in BOOLEAN
    /\ ss.largestLeastUnackedSent \in Nat
    /\ ss.lastStopWaitingFrame \in 0 .. ss.nextLeastUnacked

\* An ACK frame of the peer: what it says was received was received.
HonestFrame(frame, numbers) ==
    /\ frame.LargestAcked \in numbers /\ frame.LargestAcked \in Nat
    /\ frame.LowestAcked \in Nat
    /\ frame.AckRanges \in Seq([Start : Int, End : Int])
    /\ frame.AckRanges = <<>> => frame.LowestAcked .. frame.LargestAcked \subseteq numbers
    /\ frame.AckRanges # <<>> => frame.AckRanges[1].End = frame.LargestAcked
    /\ \A i \in 1 .. Len(frame.AckRanges) :
           frame.AckRanges[i].Start .. frame.AckRanges[i].End \subseteq numbers

\* The least element of a set of naturals, which Min chooses.
LEMMA MinOfNats ==
    ASSUME NEW I \in SUBSET Nat, I # {}
    PROVE  Min(I) \in I /\ \A i \in I : Min(I) <= i
<1>1. IsWellFoundedOn(OpToRel(<, Nat), Nat)
  BY NatLessThanWellFounded
<1>2. PICK x \in I : \A y \in I : ~ (<<y, x>> \in OpToRel(<, Nat))
  BY <1>1, WFMin
<1>3. ASSUME NEW y \in I PROVE x <= y
  <2>1. y < x => <<y, x>> \in OpToRel(<, Nat)
    BY Zenon DEF OpToRel
  <2>2. ~ (y < x)
    BY <1>2, <2>1
  <2> QED
    BY <2>2
<1> QED
  BY <1>3, Zenon DEF Min

\* The greatest element of a bounded set of naturals, which Max chooses.
LEMMA MaxOfNats ==
    ASSUME NEW n \in Nat, NEW I \in SUBSET (0 .. n), I # {}
    PROVE  Max(I) \in I /\ \A i \in I : i <= Max(I)
<1> DEFINE J == {n - i : i \in I}
<1>1. J \in SUBSET Nat /\ J # {}
  <2>1. \A i \in I : n - i \in Nat
    OBVIOUS
  <2> QED
    BY <2>1, Zenon
<1>2. Min(J) \in J /\ \A j \in J : Min(J) <= j
  BY <1>1, MinOfNats, Zenon
<1>3. PICK x \in I : Min(J) = n - x
  BY <1>2, Zenon
<1>4. ASSUME NEW i \in I PROVE i <= x
  <2>1. n - i \in J
    BY Zenon
  <2>2. n - x <= n - i
    BY <1>2, <1>3, <2>1
  <2> HIDE DEF J
  <2>3. i \in 0 .. n /\ x \in 0 .. n
    OBVIOUS
  <2> QED
    BY <2>2, <2>3
<1> QED
  BY <1>4, Zenon DEF Max

\* Counting up to N, one at a time.
LEMMA CountUp ==
    ASSUME NEW N \in Nat, NEW S, 0 \in S, \A n \in 0 .. N : n # N /\ n \in S => n + 1 \in S
    PROVE  \A n \in 0 .. N : n \in S
<1> DEFINE I == {n \in 0 .. N : n \notin S}
<1>1. SUFFICES ASSUME I # {} PROVE FALSE
  BY <1>1
<1>2. I \in SUBSET Nat
  OBVIOUS
<1>3. Min(I) \in I /\ \A i \in I : Min(I) <= i
  BY <1>1, <1>2, MinOfNats
<1> DEFINE m == Min(I)
<1>4. m \in 0 .. N /\ m \notin S /\ m # 0
  BY <1>3
<1>5. m - 1 \notin I
  <2> HIDE DEF I
  <2>1. ~ (m <= m - 1)
    BY <1>4
  <2> QED
    BY <1>3, <2>1
<1>6. m - 1 \in 0 .. N /\ m - 1 # N /\ (m - 1) + 1 = m
  BY <1>4
<1>7. m - 1 \in S
  BY <1>5, <1>6
<1> HIDE DEF m
<1> QED
  BY <1>4, <1>6, <1>7

(***************************************************************************)
(* Packets and lists of packets.                                           *)
(***************************************************************************)
LEMMA PacketFields ==
    ASSUME NEW p \in PacketType
    PROVE  p.PacketNumber \in 1 .. MaxSent /\ p.PacketNumber \in Nat /\ p.Length \in Nat
<1>1. p.PacketNumber \in 1 .. MaxSent /\ p.Length \in Lengths
  BY DEF PacketType
<1>2. Lengths \subseteq Nat /\ MaxSent \in Nat
  BY SentLimitsAssumption
<1> DEFINE n == p.PacketNumber
           l == p.Length
<1>3. n \in 1 .. MaxSent /\ l \in Lengths
  BY <1>1
<1> HIDE DEF n, l
<1>4. n \in Nat /\ l \in Nat
  BY <1>2, <1>3
<1> QED
  BY <1>1, <1>4 DEF n, l

\* An element of a list of members of S is in S.
LEMMA ElementIn ==
    ASSUME NEW S, NEW q \in Seq(S), NEW i \in 1 .. Len(q)
    PROVE  q[i] \in S
OBVIOUS

LEMMA InRange ==
    ASSUME NEW S, NEW q \in Seq(S), NEW x
    PROVE  /\ x \in Range(q) <=> \E i \in 1 .. Len(q) : q[i] = x
           /\ x \in Range(q) => x \in S
<1>1. DOMAIN q = 1 .. Len(q) /\ \A i \in 1 .. Len(q) : q[i] \in S
  OBVIOUS
<1>2. x \in Range(q) <=> \E i \in 1 .. Len(q) : q[i] = x
  BY <1>1, Zenon DEF Range
<1> QED
  BY <1>1, <1>2, Zenon

LEMMA AppendRange ==
    ASSUME NEW S, NEW q \in Seq(S), NEW x \in S
    PROVE  Append(q, x) \in Seq(S) /\ Range(Append(q, x)) = Range(q) \cup {x}
<1> DEFINE w == Append(q, x)
<1>1. w \in Seq(S) /\ Len(w) = Len(q) + 1 /\ w[Len(q) + 1] = x /\ \A i \in 1 .. Len(q) : w[i] = q[i]
  OBVIOUS
<1> HIDE DEF w
<1>2. ASSUME NEW y PROVE y \in Range(w) <=> y \in Range(q) \cup {x}
  <2>1. y \in Range(w) <=> \E i \in 1 .. Len(w) : w[i] = y
    BY <1>1, InRange
  <2>2. y \in Range(q) <=> \E i \in 1 .. Len(q) : q[i] = y
    BY InRange
  <2>3. Len(q) \in Nat
    OBVIOUS
  <2> QED
    BY <1>1, <2>1, <2>2, <2>3
<1> QED
  BY <1>1, <1>2, Zenon DEF w

\* The elements of two lists in a row.
LEMMA ConcatIs ==
    ASSUME NEW S, NEW a \in Seq(S), NEW b \in Seq(S)
    PROVE  /\ a \o b \in Seq(S)
           /\ Len(a \o b) = Len(a) + Len(b)
           /\ \A j \in 1 .. Len(a) + Len(b) :
                  (a \o b)[j] = IF j <= Len(a) THEN a[j] ELSE b[j - Len(a)]
<1>1. Len(a) \in Nat /\ Len(b) \in Nat
  OBVIOUS
<1>2. a \o b \in Seq(S) /\ Len(a \o b) = Len(a) + Len(b)
  OBVIOUS
<1>3. ASSUME NEW j \in 1 .. Len(a) + Len(b)
      PROVE  (a \o b)[j] = IF j <= Len(a) THEN a[j] ELSE b[j - Len(a)]
  BY <1>1
<1> QED
  BY <1>2, <1>3, Zenon

\* The elements of a list without its i-th one, as packetHistory.Remove leaves it.
LEMMA RemoveAtElements ==
    ASSUME NEW S, NEW q \in Seq(S), NEW i \in 1 .. Len(q)
    PROVE  /\ RemoveAt(q, i) \in Seq(S)
           /\ Len(RemoveAt(q, i)) = Len(q) - 1
           /\ \A j \in 1 .. Len(q) - 1 :
                  RemoveAt(q, i)[j] = IF j < i THEN q[j] ELSE q[j + 1]
<1> DEFINE a == SubSeq(q, 1, i - 1)
           b == SubSeq(q, i + 1, Len(q))
<1>1. a \in Seq(S) /\ Len(a) = i - 1 /\ \A j \in 1 .. i - 1 : a[j] = q[j]
  OBVIOUS
<1>2. b \in Seq(S) /\ Len(b) = Len(q) - i /\ \A j \in 1 .. Len(q) - i : b[j] = q[i + j]
  OBVIOUS
<1>3. RemoveAt(q, i) = a \o b
  BY DEF RemoveAt
<1> HIDE DEF a, b
<1>4. /\ a \o b \in Seq(S)
      /\ Len(a \o b) = Len(a) + Len(b)
      /\ \A j \in 1 .. Len(a) + Len(b) : (a \o b)[j] = IF j <= Len(a) THEN a[j] ELSE b[j - Len(a)]
  BY <1>1, <1>2, ConcatIs, Zenon
<1>5. Len(a) + Len(b) = Len(q) - 1
  BY <1>1, <1>2
<1>6. ASSUME NEW j \in 1 .. Len(q) - 1
      PROVE  (a \o b)[j] = IF j < i THEN q[j] ELSE q[j + 1]
  <2>1. (a \o b)[j] = IF j <= Len(a) THEN a[j] ELSE b[j - Len(a)]
    BY <1>4, <1>5
  <2>2. CASE j < i
    BY <1>1, <2>1, <2>2
  <2>3. CASE ~ (j < i)
    <3>1. j - Len(a) \in 1 .. Len(q) - i /\ i + (j - Len(a)) = j + 1 /\ ~ (j <= Len(a))
      BY <1>1, <2>3
    <3>2. b[j - Len(a)] = q[i + (j - Len(a))]
      BY <1>2, <3>1
    <3> QED
      BY <2>1, <2>3, <3>1, <3>2
  <2> QED
    BY <2>2, <2>3, Zenon
<1> QED
  BY <1>3, <1>4, <1>5, <1>6, Zenon

LEMMA WithoutIs ==
    ASSUME NEW h \in Seq(PacketType), InOrder(h), NEW p \in Range(h)
    PROVE  /\ Without(h, p) \in Seq(PacketType)
           /\ InOrder(Without(h, p))
           /\ Range(Without(h, p)) = Range(h) \ {p}
<1> DEFINE I == {i \in 1 .. Len(h) : h[i] = p}
           k == Min(I)
           w == RemoveAt(h, k)
<1>1. \E i \in 1 .. Len(h) : h[i] = p
  BY InRange
<1>2. Without(h, p) = w
  BY <1>1 DEF Without, FirstOf
<1>3. k \in 1 .. Len(h) /\ h[k] = p
  <2>1. I \in SUBSET Nat /\ I # {}
    BY <1>1
  <2>2. k \in I
    BY <2>1, MinOfNats, Zenon
  <2> QED
    BY <2>2, Zenon
<1> HIDE DEF k
<1>4. /\ w \in Seq(PacketType) /\ Len(w) = Len(h) - 1
      /\ \A j \in 1 .. Len(h) - 1 : w[j] = IF j < k THEN h[j] ELSE h[j + 1]
  BY <1>3, RemoveAtElements
<1>5. \A i \in 1 .. Len(h) : h[i] \in PacketType /\ h[i].PacketNumber \in Nat
  BY PacketFields
<1>6. \A i, j \in 1 .. Len(h) : i < j => h[i].PacketNumber < h[j].PacketNumber
  BY DEF InOrder
<1>7. \A i \in 1 .. Len(h) : h[i] = p => i = k
  BY <1>3, <1>5, <1>6
<1>l. Len(h) \in Nat
  OBVIOUS
<1> DEFINE n == Len(h)
           m == Len(w)
<1> HIDE DEF w, n, m
<1>8. ASSUME NEW i \in 1 .. Len(w), NEW j \in 1 .. Len(w), i < j
      PROVE  w[i].PacketNumber < w[j].PacketNumber
  <2>1. i \in 1 .. n - 1 /\ j \in 1 .. n - 1 /\ n \in Nat /\ k \in 1 .. n
    BY <1>3, <1>4, <1>l DEF n
  <2>2. \A x, y \in 1 .. n : x < y => h[x].PacketNumber < h[y].PacketNumber
    BY <1>6 DEF n
  <2>3. /\ w[i] = IF i < k THEN h[i] ELSE h[i + 1]
        /\ w[j] = IF j < k THEN h[j] ELSE h[j + 1]
    BY <1>4, <2>1 DEF n
  <2> QED
    BY ONLY <1>8, <2>1, <2>2, <2>3
<1>9. ASSUME NEW y PROVE y \in Range(w) <=> y \in Range(h) \ {p}
  <2>1. y \in Range(w) <=> \E i \in 1 .. m : w[i] = y
    BY <1>4, InRange DEF m
  <2>2. y \in Range(h) <=> \E i \in 1 .. n : h[i] = y
    BY InRange DEF n
  <2>3. /\ n \in Nat /\ m = n - 1 /\ k \in 1 .. n
        /\ \A j \in 1 .. n - 1 : w[j] = IF j < k THEN h[j] ELSE h[j + 1]
        /\ \A i \in 1 .. n : h[i] = p => i = k
        /\ h[k] = p
    BY <1>3, <1>4, <1>7, <1>l DEF n, m
  <2>4. ASSUME NEW i \in 1 .. n, h[i] = y, y # p PROVE \E j \in 1 .. m : w[j] = y
    <3>1. CASE i < k
      <4>1. i \in 1 .. m /\ w[i] = y
        BY ONLY <2>3, <2>4, <3>1
      <4> QED
        BY <4>1
    <3>2. CASE i > k
      <4>1. i - 1 \in 1 .. n - 1 /\ ~ (i - 1 < k) /\ (i - 1) + 1 = i
        BY ONLY <2>3, <3>2, <2>4
      <4>2. w[i - 1] = y
        BY <2>3, <2>4, <4>1
      <4> QED
        BY <2>3, <4>1, <4>2
    <3> QED
      BY <2>3, <2>4, <3>1, <3>2
  <2>5. ASSUME NEW j \in 1 .. m, w[j] = y PROVE (\E i \in 1 .. n : h[i] = y) /\ y # p
    <3>1. PICK i \in 1 .. n : w[j] = h[i] /\ i # k
      BY ONLY <2>3, <2>5
    <3> QED
      BY <2>3, <2>5, <3>1
  <2> QED
    BY <2>1, <2>2, <2>4, <2>5
<1> QED
  BY <1>2, <1>4, <1>8, <1>9 DEF InOrder

(***************************************************************************)
(* The bytes of a list of packets, one packet more or less.                *)
(***************************************************************************)
BytesOf(S) == UNION {{p} \X (1 .. p.Length) : p \in S}

LEMMA BytesFinite ==
    ASSUME NEW S \in SUBSET PacketType, IsFiniteSet(S)
    PROVE  IsFiniteSet(BytesOf(S))
<1> DEFINE B(p) == {p} \X (1 .. p.Length)
           T == {B(p) : p \in S}
<1>1. \A p \in S : IsFiniteSet(B(p))
  <2> TAKE p \in S
  <2>1. p.Length \in Nat /\ 1 \in Int
    BY PacketFields
  <2>2. IsFiniteSet({p}) /\ IsFiniteSet(1 .. p.Length)
    <3>1. IsFiniteSet({p})
      BY FS_Singleton, Zenon
    <3>2. IsFiniteSet(1 .. p.Length)
      BY <2>1, FS_Interval
    <3> QED
      BY <3>1, <3>2
  <2> QED
    BY <2>2, FS_Product, Zenon
<1>2. IsFiniteSet(T)
  <2> DEFINE f == [p \in S |-> B(p)]
  <2>1. f \in Surjection(S, T)
    <3>1. f \in [S -> T]
      BY Zenon
    <3>2. \A x \in T : \E p \in S : f[p] = x
      BY Zenon
    <3> QED
      BY <3>1, <3>2, Zenon DEF Surjection
  <2> QED
    BY <2>1, FS_Surjection, Zenon
<1>3. \A x \in T : IsFiniteSet(x)
  BY <1>1, Zenon
<1>4. BytesOf(S) = UNION T
  BY Zenon DEF BytesOf
<1> QED
  BY <1>2, <1>3, <1>4, FS_UNION, Zenon

LEMMA BytesAdd ==
    ASSUME NEW S \in SUBSET PacketType, IsFiniteSet(S), NEW p \in PacketType, p \notin S
    PROVE  /\ Cardinality(BytesOf(S)) \in Nat
           /\ Cardinality(BytesOf(S \cup {p})) = Cardinality(BytesOf(S)) + p.Length
<1> DEFINE A == BytesOf(S)
           B == {p} \X (1 .. p.Length)
<1>1. IsFiniteSet(A)
  BY BytesFinite
<1>2. IsFiniteSet(B) /\ Cardinality(B) = p.Length
  <2>1. p.Length \in Nat
    BY PacketFields
  <2>2. IsFiniteSet({p}) /\ Cardinality({p}) = 1
    BY FS_Singleton, Zenon
  <2>3. IsFiniteSet(1 .. p.Length) /\ Cardinality(1 .. p.Length) = p.Length
    <3>1. IsFiniteSet(1 .. p.Length) /\ Cardinality(1 .. p.Length) = IF 1 > p.Length THEN 0 ELSE p.Length - 1 + 1
      BY <2>1, FS_Interval
    <3> QED
      BY <2>1, <3>1
  <2>4. Cardinality(B) = 1 * p.Length /\ IsFiniteSet(B)
    BY <2>2, <2>3, FS_Product, ZenonT(30)
  <2> QED
    BY <2>1, <2>4
<1>3. BytesOf(S \cup {p}) = A \cup B
  BY Zenon DEF BytesOf
<1>4. A \cap B = {}
  <2> SUFFICES ASSUME NEW x \in A, x \in B PROVE FALSE
    BY Zenon
  <2>1. PICK q \in S : x \in {q} \X (1 .. q.Length)
    BY Zenon DEF BytesOf
  <2>2. x[1] = q /\ x[1] = p
    BY <2>1
  <2> QED
    BY <2>2
<1> HIDE DEF A, B
<1>5. Cardinality(A \cup B) = Cardinality(A) + Cardinality(B) - Cardinality({})
  BY <1>1, <1>2, <1>4, FS_Union
<1>6. Cardinality({}) = 0 /\ Cardinality(A) \in Nat /\ Cardinality(B) \in Nat
  BY <1>1, <1>2, FS_EmptySet, FS_CardinalityType
<1>7. Cardinality(A \cup B) = Cardinality(A) + Cardinality(B)
  BY <1>5, <1>6
<1> QED
  BY <1>2, <1>3, <1>6, <1>7, Zenon DEF A

LEMMA RangeFinite ==
    ASSUME NEW q \in Seq(PacketType)
    PROVE  IsFiniteSet(Range(q)) /\ Range(q) \in SUBSET PacketType
<1>1. DOMAIN q = 1 .. Len(q) /\ Len(q) \in Nat
  OBVIOUS
<1>2. IsFiniteSet(DOMAIN q)
  BY <1>1, FS_Interval
<1>3. q \in Surjection(DOMAIN q, Range(q))
  <2>1. q \in [DOMAIN q -> Range(q)]
    <3>1. q = [i \in DOMAIN q |-> q[i]]
      OBVIOUS
    <3> QED
      BY <3>1, Zenon DEF Range
  <2> QED
    BY <2>1, Zenon DEF Surjection, Range
<1>4. Range(q) \in SUBSET PacketType
  BY InRange
<1> QED
  BY <1>2, <1>3, <1>4, FS_Surjection, Zenon

LEMMA BytesMore ==
    ASSUME NEW h \in Seq(PacketType), NEW w \in Seq(PacketType), NEW p \in PacketType,
           p \notin Range(h), Range(w) = Range(h) \cup {p}
    PROVE  Bytes(h) \in Nat /\ Bytes(w) = Bytes(h) + p.Length
<1> DEFINE S == Range(h)
<1>1. S \in SUBSET PacketType /\ IsFiniteSet(S) /\ p \notin S
  BY RangeFinite
<1>2. Bytes(h) = Cardinality(BytesOf(S)) /\ Bytes(w) = Cardinality(BytesOf(S \cup {p}))
  BY Zenon DEF Bytes, BytesOf
<1> HIDE DEF S
<1> QED
  BY <1>1, <1>2, BytesAdd

LEMMA BytesEmpty == Bytes(<<>>) = 0
<1>1. Range(<<>>) = {}
  <2>1. DOMAIN <<>> = {}
    OBVIOUS
  <2> QED
    BY <2>1, Zenon DEF Range
<1>2. BytesOf({}) = {}
  BY Zenon DEF BytesOf
<1>3. Bytes(<<>>) = Cardinality(BytesOf({}))
  BY <1>1, Zenon DEF Bytes, BytesOf
<1> QED
  BY <1>2, <1>3, FS_EmptySet

(***************************************************************************)
(* One packet leaves the history, acknowledged or for retransmission.      *)
(***************************************************************************)

\* The handlers t and ss agree on all fields but those of the set changed.
Keeps(t, ss, changed) ==
    DOMAIN t = HandlerFields /\ \A x \in HandlerFields \ changed : t[x] = ss[x]

\* t is ss after the packets of gone were queued for retransmission.
Queued(ss, t, gone) ==
    /\ HistoryInv(t)
    /\ Range(t.packetHistory) = Range(ss.packetHistory) \ gone
    /\ Range(t.retransmissionQueue) = Range(ss.retransmissionQueue) \cup gone
    /\ ss.nextLeastUnacked <= t.nextLeastUnacked
    /\ Keeps(t, ss, {"packetHistory", "retransmissionQueue", "bytesInFlight", "nextLeastUnacked"})

\* t is ss after the packets of gone were acknowledged.
Settled(ss, t, gone) ==
    /\ HistoryInv(t)
    /\ Range(t.packetHistory) = Range(ss.packetHistory) \ gone
    /\ Keeps(t, ss, {"packetHistory", "bytesInFlight", "tlpCount"})

\* What leaves the history when packet p does.
LEMMA RemoveKeeps ==
    ASSUME NEW ss, HistoryInv(ss), NEW p \in Range(ss.packetHistory)
    PROVE  LET h == ss.packetHistory
               w == Without(h, p)
           IN  /\ w \in Seq(PacketType) /\ InOrder(w) /\ Range(w) = Range(h) \ {p}
               /\ \A i \in 1 .. Len(w) : w[i].PacketNumber <= ss.lastSentPacketNumber
               /\ Bytes(w) = ss.bytesInFlight - p.Length
               /\ p \in PacketType /\ p.PacketNumber <= ss.lastSentPacketNumber
<1> DEFINE h == ss.packetHistory
           w == Without(h, p)
           last == ss.lastSentPacketNumber
<1>1. /\ h \in Seq(PacketType) /\ InOrder(h) /\ p \in Range(h)
      /\ \A i \in 1 .. Len(h) : h[i].PacketNumber <= last
      /\ ss.bytesInFlight = Bytes(h)
  BY DEF HistoryInv
<1> HIDE DEF h, last
<1>2. w \in Seq(PacketType) /\ InOrder(w) /\ Range(w) = Range(h) \ {p}
  BY <1>1, WithoutIs
<1> HIDE DEF w
<1>3. p \in PacketType
  BY <1>1, InRange
<1>4. \A q \in Range(h) : q.PacketNumber <= last
  BY <1>1, InRange
<1>5. \A i \in 1 .. Len(w) : w[i].PacketNumber <= last
  <2> TAKE i \in 1 .. Len(w)
  <2>1. w[i] \in Range(w)
    BY <1>2, InRange
  <2> QED
    BY <1>2, <1>4, <2>1
<1>6. Bytes(w) \in Nat /\ Bytes(h) = Bytes(w) + p.Length
  <2>1. p \notin Range(w) /\ Range(h) = Range(w) \cup {p}
    BY <1>1, <1>2, Zenon
  <2> QED
    BY <1>1, <1>2, <1>3, <2>1, BytesMore, Zenon
<1>7. Bytes(w) = Bytes(h) - p.Length
  BY <1>3, <1>6, PacketFields
<1> QED
  BY <1>1, <1>2, <1>3, <1>4, <1>5, <1>7 DEF h, w, last

LEMMA QueueOne ==
    ASSUME NEW ss, HistoryInv(ss), NEW p \in Range(ss.packetHistory)
    PROVE  Queued(ss, queuePacketForRetransmission(ss, p), {p})
<1> DEFINE t == queuePacketForRetransmission(ss, p)
           h == ss.packetHistory
           q == ss.retransmissionQueue
           w == Without(h, p)
           last == ss.lastSentPacketNumber
           n == p.PacketNumber
           least == ss.nextLeastUnacked
<1>d. DOMAIN ss = HandlerFields
  BY DEF HistoryInv
<1>1. /\ Keeps(t, ss, {"packetHistory", "retransmissionQueue", "bytesInFlight", "nextLeastUnacked"})
      /\ t.packetHistory = w
      /\ t.retransmissionQueue = Append(q, p)
      /\ t.bytesInFlight = ss.bytesInFlight - p.Length
      /\ t.nextLeastUnacked = IF n >= least THEN n + 1 ELSE least
      /\ t.lastSentPacketNumber = last /\ t.tlpCount = ss.tlpCount
      /\ DOMAIN t = HandlerFields
  BY <1>d, Zenon DEF queuePacketForRetransmission, NothingBelow, HandlerFields, Keeps
<1>2. /\ w \in Seq(PacketType) /\ InOrder(w) /\ Range(w) = Range(h) \ {p}
      /\ \A i \in 1 .. Len(w) : w[i].PacketNumber <= last
      /\ Bytes(w) = ss.bytesInFlight - p.Length
      /\ p \in PacketType /\ n <= last
  BY RemoveKeeps, Zenon
<1>3. last \in 0 .. MaxSent /\ least \in 0 .. last + 1 /\ q \in Seq(PacketType) /\ ss.tlpCount \in 0 .. MaxTailLossProbes
  BY DEF HistoryInv
<1>4. n \in Nat
  BY <1>2, PacketFields
<1> HIDE DEF t, h, q, w, last, n, least
<1>5. t.nextLeastUnacked \in 0 .. last + 1 /\ least <= t.nextLeastUnacked
  <2> DEFINE l == t.nextLeastUnacked
  <2>1. l = IF n >= least THEN n + 1 ELSE least
    BY <1>1
  <2>2. MaxSent \in Nat
    BY SentLimitsAssumption
  <2> HIDE DEF l
  <2>3. l \in 0 .. last + 1 /\ least <= l
    BY <1>2, <1>3, <1>4, <2>1, <2>2
  <2> QED
    BY <2>3 DEF l
<1>6. Append(q, p) \in Seq(PacketType) /\ Range(Append(q, p)) = Range(q) \cup {p}
  BY <1>2, <1>3, AppendRange
<1>7. HistoryInv(t)
  BY <1>1, <1>2, <1>3, <1>5, <1>6 DEF HistoryInv
<1>8. /\ Range(t.packetHistory) = Range(h) \ {p}
      /\ Range(t.retransmissionQueue) = Range(q) \cup {p}
  BY <1>1, <1>2, <1>6
<1> QED
  BY <1>1, <1>5, <1>7, <1>8 DEF Queued, t, h, q, least

LEMMA AckOne ==
    ASSUME NEW ss, HistoryInv(ss), NEW p \in Range(ss.packetHistory)
    PROVE  Settled(ss, onPacketAcked(ss, p), {p})
<1> DEFINE t == onPacketAcked(ss, p)
           h == ss.packetHistory
           w == Without(h, p)
           last == ss.lastSentPacketNumber
<1>d. DOMAIN ss = HandlerFields
  BY DEF HistoryInv
<1>1. /\ Keeps(t, ss, {"packetHistory", "bytesInFlight", "tlpCount"})
      /\ t.packetHistory = w
      /\ t.retransmissionQueue = ss.retransmissionQueue
      /\ t.bytesInFlight = ss.bytesInFlight - p.Length
      /\ t.nextLeastUnacked = ss.nextLeastUnacked
      /\ t.lastSentPacketNumber = last /\ t.tlpCount = 0
      /\ DOMAIN t = HandlerFields
  BY <1>d, Zenon DEF onPacketAcked, HandlerFields, Keeps
<1>2. /\ w \in Seq(PacketType) /\ InOrder(w) /\ Range(w) = Range(h) \ {p}
      /\ \A i \in 1 .. Len(w) : w[i].PacketNumber <= last
      /\ Bytes(w) = ss.bytesInFlight - p.Length
  BY RemoveKeeps
<1>3. /\ last \in 0 .. MaxSent /\ ss.nextLeastUnacked \in 0 .. last + 1
      /\ ss.retransmissionQueue \in Seq(PacketType)
  BY DEF HistoryInv
<1>4. 0 \in 0 .. MaxTailLossProbes
  BY SentLimitsAssumption
<1> HIDE DEF t, h, w, last
<1>5. HistoryInv(t)
  BY <1>1, <1>2, <1>3, <1>4 DEF HistoryInv
<1>6. Range(t.packetHistory) = Range(h) \ {p}
  BY <1>1, <1>2
<1> QED
  BY <1>1, <1>5, <1>6 DEF Settled, t, h

LEMMA KeepsTrans ==
    ASSUME NEW a, NEW b, NEW c, NEW F, Keeps(b, a, F), Keeps(c, b, F)
    PROVE  Keeps(c, a, F)
BY Zenon DEF Keeps

LEMMA QueuedTrans ==
    ASSUME NEW a, NEW b, NEW c, NEW G, NEW H, HistoryInv(a), Queued(a, b, G), Queued(b, c, H)
    PROVE  Queued(a, c, G \cup H)
<1>1. /\ Range(c.packetHistory) = Range(a.packetHistory) \ (G \cup H)
      /\ Range(c.retransmissionQueue) = Range(a.retransmissionQueue) \cup (G \cup H)
  <2>1. /\ Range(b.packetHistory) = Range(a.packetHistory) \ G
        /\ Range(b.retransmissionQueue) = Range(a.retransmissionQueue) \cup G
        /\ Range(c.packetHistory) = Range(b.packetHistory) \ H
        /\ Range(c.retransmissionQueue) = Range(b.retransmissionQueue) \cup H
    BY DEF Queued
  <2> QED
    BY <2>1, Zenon
<1>2. a.nextLeastUnacked <= c.nextLeastUnacked
  <2> DEFINE x == a.nextLeastUnacked
             y == b.nextLeastUnacked
             z == c.nextLeastUnacked
  <2>1. x \in Nat /\ y \in Nat /\ z \in Nat
    <3>1. ASSUME NEW ss, HistoryInv(ss) PROVE ss.nextLeastUnacked \in Nat
      <4> DEFINE l == ss.nextLeastUnacked
                 m == ss.lastSentPacketNumber
      <4>1. l \in 0 .. m + 1
        BY <3>1 DEF HistoryInv
      <4> HIDE DEF l, m
      <4>2. l \in Nat
        BY <4>1
      <4> QED
        BY <4>2 DEF l
    <3>2. HistoryInv(b) /\ HistoryInv(c)
      BY DEF Queued
    <3> QED
      BY <3>1, <3>2
  <2>2. x <= y /\ y <= z
    BY DEF Queued
  <2> HIDE DEF x, y, z
  <2>3. x <= z
    BY <2>1, <2>2
  <2> QED
    BY <2>3 DEF x, z
<1>3. Keeps(c, a, {"packetHistory", "retransmissionQueue", "bytesInFlight", "nextLeastUnacked"})
  BY KeepsTrans DEF Queued
<1> QED
  BY <1>1, <1>2, <1>3 DEF Queued

LEMMA SettledTrans ==
    ASSUME NEW a, NEW b, NEW c, NEW G, NEW H, Settled(a, b, G), Settled(b, c, H)
    PROVE  Settled(a, c, G \cup H)
<1>1. Range(c.packetHistory) = Range(a.packetHistory) \ (G \cup H)
  <2>1. /\ Range(b.packetHistory) = Range(a.packetHistory) \ G
        /\ Range(c.packetHistory) = Range(b.packetHistory) \ H
    BY DEF Settled
  <2> QED
    BY <2>1, Zenon
<1>2. Keeps(c, a, {"packetHistory", "bytesInFlight", "tlpCount"})
  BY KeepsTrans DEF Settled
<1> QED
  BY <1>1, <1>2 DEF Settled

(***************************************************************************)
(* The loops that queue and that acknowledge several packets.              *)
(***************************************************************************)

\* A list of different packets of the history, as the loops collect them.
Collected(ps, history) ==
    /\ ps \in Seq(PacketType)
    /\ \A i \in 1 .. Len(ps) : ps[i] \in Range(history)
    /\ \A i, j \in 1 .. Len(ps) : i < j => ps[i] # ps[j]

LEMMA QueueLoop ==
    ASSUME NEW ss, NEW ps \in Seq(PacketType)
    PROVE  \E f : /\ f[0] = ss
                  /\ \A n \in 1 .. Len(ps) : f[n] = queuePacketForRetransmission(f[n - 1], ps[n])
                  /\ Queue(ss, ps) = f[Len(ps)]
<1> DEFINE N == Len(ps)
           Def(f, m) == f = [n \in 0 .. m |-> IF n = 0 THEN ss ELSE queuePacketForRetransmission(f[n - 1], ps[n])]
           S == {m \in 0 .. N : \E f : Def(f, m)}
           F == CHOOSE f : Def(f, N)
<1>1. N \in Nat
  OBVIOUS
<1>2. Queue(ss, ps) = F[N]
  BY Zenon DEF Queue
<1> HIDE DEF N
<1>3. 0 \in S
  <2>1. Def([n \in 0 .. 0 |-> ss], 0)
    <3>1. \A n \in 0 .. 0 : n = 0
      OBVIOUS
    <3> QED
      BY <3>1, Zenon
  <2>2. \E f : Def(f, 0)
    BY <2>1, Zenon
  <2> HIDE DEF Def
  <2> QED
    BY <1>1, <2>2
<1>4. ASSUME NEW m \in 0 .. N, m # N, m \in S PROVE m + 1 \in S
  <2>1. PICK f : Def(f, m)
    BY <1>4
  <2> DEFINE g == [n \in 0 .. m + 1 |-> IF n = m + 1 THEN queuePacketForRetransmission(f[m], ps[m + 1]) ELSE f[n]]
  <2>2. \A n \in 0 .. m : f[n] = IF n = 0 THEN ss ELSE queuePacketForRetransmission(f[n - 1], ps[n])
    BY <2>1, Zenon
  <2>3. \A n \in 0 .. m + 1 : g[n] = IF n = 0 THEN ss ELSE queuePacketForRetransmission(g[n - 1], ps[n])
    <3> TAKE n \in 0 .. m + 1
    <3>1. CASE n = m + 1
      <4>1. n # 0 /\ n - 1 = m /\ m \in 0 .. m + 1 /\ m # m + 1
        BY <1>1, <3>1
      <4>2. g[m] = f[m] /\ g[n] = queuePacketForRetransmission(f[m], ps[m + 1])
        BY <3>1, <4>1, Zenon
      <4> QED
        BY <3>1, <4>1, <4>2, Zenon
    <3>2. CASE n # m + 1
      <4>1. n \in 0 .. m
        BY <1>1, <3>2
      <4>2. g[n] = f[n]
        BY <3>2, Zenon
      <4>3. CASE n = 0
        BY <2>2, <4>1, <4>2, <4>3, Zenon
      <4>4. CASE n # 0
        <5>1. n - 1 \in 0 .. m + 1 /\ n - 1 # m + 1
          BY <1>1, <4>1, <4>4
        <5>2. g[n - 1] = f[n - 1]
          BY <5>1, Zenon
        <5> QED
          BY <2>2, <4>1, <4>2, <4>4, <5>2, Zenon
      <4> QED
        BY <4>3, <4>4
    <3> QED
      BY <3>1, <3>2
  <2>4. Def(g, m + 1)
    <3>1. g = [n \in 0 .. m + 1 |-> g[n]]
      BY Zenon
    <3> HIDE DEF g
    <3> QED
      BY <2>3, <3>1, Zenon
  <2>5. m + 1 \in 0 .. N
    BY <1>1, <1>4
  <2> HIDE DEF Def, g
  <2> QED
    BY <2>4, <2>5
<1>5. N \in S
  <2>1. \A m \in 0 .. N : m # N /\ m \in S => m + 1 \in S
    BY <1>4
  <2> HIDE DEF S
  <2>2. N \in 0 .. N
    BY <1>1
  <2> QED
    BY <1>1, <1>3, <2>1, <2>2, CountUp, Zenon
<1>6. Def(F, N)
  <2>1. \E f : Def(f, N)
    BY <1>5
  <2> QED
    BY <2>1, Zenon
<1> HIDE DEF F
<1>7. \A n \in 0 .. N : F[n] = IF n = 0 THEN ss ELSE queuePacketForRetransmission(F[n - 1], ps[n])
  BY <1>6, Zenon
<1>8. F[0] = ss
  <2>1. 0 \in 0 .. N
    BY <1>1
  <2> QED
    BY <1>7, <2>1, Zenon
<1>9. \A n \in 1 .. N : F[n] = queuePacketForRetransmission(F[n - 1], ps[n])
  <2> TAKE n \in 1 .. N
  <2>1. n \in 0 .. N /\ n # 0
    BY <1>1
  <2> QED
    BY <1>7, <2>1, Zenon
<1> QED
  BY <1>2, <1>8, <1>9, Zenon DEF N

LEMMA AckLoop ==
    ASSUME NEW ss, NEW frame, NewlyAcked(ss, frame) \in Seq(PacketType)
    PROVE  LET ps == NewlyAcked(ss, frame)
           IN  \E f : /\ f[0] = ss
                      /\ \A n \in 1 .. Len(ps) : f[n] = onPacketAcked(f[n - 1], ps[n])
                      /\ Acked(ss, frame) = f[Len(ps)]
<1> DEFINE ps == NewlyAcked(ss, frame)
           N == Len(ps)
           Def(f, m) == f = [n \in 0 .. m |-> IF n = 0 THEN ss ELSE onPacketAcked(f[n - 1], ps[n])]
           S == {m \in 0 .. N : \E f : Def(f, m)}
           F == CHOOSE f : Def(f, N)
<1>1. N \in Nat
  OBVIOUS
<1>2. Acked(ss, frame) = F[N]
  BY Zenon DEF Acked
<1> HIDE DEF N, ps
<1>3. 0 \in S
  <2>1. Def([n \in 0 .. 0 |-> ss], 0)
    <3>1. \A n \in 0 .. 0 : n = 0
      OBVIOUS
    <3> QED
      BY <3>1, Zenon
  <2>2. \E f : Def(f, 0)
    BY <2>1, Zenon
  <2> HIDE DEF Def
  <2> QED
    BY <1>1, <2>2
<1>4. ASSUME NEW m \in 0 .. N, m # N, m \in S PROVE m + 1 \in S
  <2>1. PICK f : Def(f, m)
    BY <1>4
  <2> DEFINE g == [n \in 0 .. m + 1 |-> IF n = m + 1 THEN onPacketAcked(f[m], ps[m + 1]) ELSE f[n]]
  <2>2. \A n \in 0 .. m : f[n] = IF n = 0 THEN ss ELSE onPacketAcked(f[n - 1], ps[n])
    BY <2>1, Zenon
  <2>3. \A n \in 0 .. m + 1 : g[n] = IF n = 0 THEN ss ELSE onPacketAcked(g[n - 1], ps[n])
    <3> TAKE n \in 0 .. m + 1
    <3>1. CASE n = m + 1
      <4>1. n # 0 /\ n - 1 = m /\ m \in 0 .. m + 1 /\ m # m + 1
        BY <1>1, <3>1
      <4>2. g[m] = f[m] /\ g[n] = onPacketAcked(f[m], ps[m + 1])
        BY <3>1, <4>1, Zenon
      <4> QED
        BY <3>1, <4>1, <4>2, Zenon
    <3>2. CASE n # m + 1
      <4>1. n \in 0 .. m
        BY <1>1, <3>2
      <4>2. g[n] = f[n]
        BY <3>2, Zenon
      <4>3. CASE n = 0
        BY <2>2, <4>1, <4>2, <4>3, Zenon
      <4>4. CASE n # 0
        <5>1. n - 1 \in 0 .. m + 1 /\ n - 1 # m + 1
          BY <1>1, <4>1, <4>4
        <5>2. g[n - 1] = f[n - 1]
          BY <5>1, Zenon
        <5> QED
          BY <2>2, <4>1, <4>2, <4>4, <5>2, Zenon
      <4> QED
        BY <4>3, <4>4
    <3> QED
      BY <3>1, <3>2
  <2>4. Def(g, m + 1)
    <3>1. g = [n \in 0 .. m + 1 |-> g[n]]
      BY Zenon
    <3> HIDE DEF g
    <3> QED
      BY <2>3, <3>1, Zenon
  <2>5. m + 1 \in 0 .. N
    BY <1>1, <1>4
  <2> HIDE DEF Def, g
  <2> QED
    BY <2>4, <2>5
<1>5. N \in S
  <2>1. \A m \in 0 .. N : m # N /\ m \in S => m + 1 \in S
    BY <1>4, Zenon
  <2> HIDE DEF S
  <2>2. N \in 0 .. N
    BY <1>1
  <2> QED
    BY <1>1, <1>3, <2>1, <2>2, CountUp, Zenon
<1>6. Def(F, N)
  <2>1. \E f : Def(f, N)
    BY <1>5
  <2> QED
    BY <2>1, Zenon
<1> HIDE DEF F
<1>7. \A n \in 0 .. N : F[n] = IF n = 0 THEN ss ELSE onPacketAcked(F[n - 1], ps[n])
  BY <1>6, Zenon
<1>8. F[0] = ss
  <2>1. 0 \in 0 .. N
    BY <1>1
  <2> QED
    BY <1>7, <2>1, Zenon
<1>9. \A n \in 1 .. N : F[n] = onPacketAcked(F[n - 1], ps[n])
  <2> TAKE n \in 1 .. N
  <2>1. n \in 0 .. N /\ n # 0
    BY <1>1
  <2> QED
    BY <1>7, <2>1, Zenon
<1> QED
  BY <1>2, <1>8, <1>9, Zenon DEF N, ps

LEMMA NewlyAckedLoop ==
    ASSUME NEW ss, NEW frame, ss.packetHistory \in Seq(PacketType)
    PROVE  LET h == ss.packetHistory
           IN  \E f : /\ f[0] = <<>>
                      /\ \A n \in 1 .. Len(h) :
                             f[n] = IF EvaluatedAsAcked(frame, h[n].PacketNumber)
                                    THEN Append(f[n - 1], h[n]) ELSE f[n - 1]
                      /\ NewlyAcked(ss, frame) = f[Len(h)]
<1> DEFINE h == ss.packetHistory
           N == Len(h)
           Step(list, n) == IF EvaluatedAsAcked(frame, h[n].PacketNumber) THEN Append(list, h[n]) ELSE list
           Def(f, m) == f = [n \in 0 .. m |-> IF n = 0 THEN <<>> ELSE Step(f[n - 1], n)]
           S == {m \in 0 .. N : \E f : Def(f, m)}
           F == CHOOSE f : Def(f, N)
<1>1. N \in Nat
  OBVIOUS
<1>2. NewlyAcked(ss, frame) = F[N]
  BY Zenon DEF NewlyAcked
<1> HIDE DEF N, h, Step
<1>3. 0 \in S
  <2>1. Def([n \in 0 .. 0 |-> <<>>], 0)
    <3>1. \A n \in 0 .. 0 : n = 0
      OBVIOUS
    <3> QED
      BY <3>1, Zenon
  <2>2. \E f : Def(f, 0)
    BY <2>1, Zenon
  <2> HIDE DEF Def
  <2> QED
    BY <1>1, <2>2
<1>4. ASSUME NEW m \in 0 .. N, m # N, m \in S PROVE m + 1 \in S
  <2>1. PICK f : Def(f, m)
    BY <1>4
  <2> DEFINE g == [n \in 0 .. m + 1 |-> IF n = m + 1 THEN Step(f[m], m + 1) ELSE f[n]]
  <2>2. \A n \in 0 .. m : f[n] = IF n = 0 THEN <<>> ELSE Step(f[n - 1], n)
    BY <2>1, Zenon
  <2>3. \A n \in 0 .. m + 1 : g[n] = IF n = 0 THEN <<>> ELSE Step(g[n - 1], n)
    <3> TAKE n \in 0 .. m + 1
    <3>1. CASE n = m + 1
      <4>1. n # 0 /\ n - 1 = m /\ m \in 0 .. m + 1 /\ m # m + 1
        BY <1>1, <3>1
      <4>2. g[m] = f[m] /\ g[n] = Step(f[m], m + 1)
        BY <3>1, <4>1, Zenon
      <4> QED
        BY <3>1, <4>1, <4>2, Zenon
    <3>2. CASE n # m + 1
      <4>1. n \in 0 .. m
        BY <1>1, <3>2
      <4>2. g[n] = f[n]
        BY <3>2, Zenon
      <4>3. CASE n = 0
        BY <2>2, <4>1, <4>2, <4>3, Zenon
      <4>4. CASE n # 0
        <5>1. n - 1 \in 0 .. m + 1 /\ n - 1 # m + 1
          BY <1>1, <4>1, <4>4
        <5>2. g[n - 1] = f[n - 1]
          BY <5>1, Zenon
        <5> QED
          BY <2>2, <4>1, <4>2, <4>4, <5>2, Zenon
      <4> QED
        BY <4>3, <4>4
    <3> QED
      BY <3>1, <3>2
  <2>4. Def(g, m + 1)
    <3>1. g = [n \in 0 .. m + 1 |-> g[n]]
      BY Zenon
    <3> HIDE DEF g
    <3> QED
      BY <2>3, <3>1, Zenon
  <2>5. m + 1 \in 0 .. N
    BY <1>1, <1>4
  <2> HIDE DEF Def, g
  <2> QED
    BY <2>4, <2>5
<1>5. N \in S
  <2>1. \A m \in 0 .. N : m # N /\ m \in S => m + 1 \in S
    BY <1>4, Zenon
  <2> HIDE DEF S
  <2>2. N \in 0 .. N
    BY <1>1
  <2> QED
    BY <1>1, <1>3, <2>1, <2>2, CountUp, Zenon
<1>6. Def(F, N)
  <2>1. \E f : Def(f, N)
    BY <1>5
  <2> QED
    BY <2>1, Zenon
<1> HIDE DEF F
<1>7. \A n \in 0 .. N : F[n] = IF n = 0 THEN <<>> ELSE Step(F[n - 1], n)
  BY <1>6, Zenon
<1>8. F[0] = <<>>
  <2>1. 0 \in 0 .. N
    BY <1>1
  <2> QED
    BY <1>7, <2>1, Zenon
<1>9. \A n \in 1 .. N : F[n] = Step(F[n - 1], n)
  <2> TAKE n \in 1 .. N
  <2>1. n \in 0 .. N /\ n # 0
    BY <1>1
  <2> QED
    BY <1>7, <2>1, Zenon
<1> QED
  BY <1>2, <1>8, <1>9, Zenon DEF N, h, Step

LEMMA QueueKeeps ==
    ASSUME NEW ss, HistoryInv(ss), NEW ps, Collected(ps, ss.packetHistory)
    PROVE  Queued(ss, Queue(ss, ps), Range(ps))
<1>1. /\ ps \in Seq(PacketType) /\ Len(ps) \in Nat
      /\ \A i \in 1 .. Len(ps) : ps[i] \in Range(ss.packetHistory)
      /\ \A i, j \in 1 .. Len(ps) : i < j => ps[i] # ps[j]
  BY DEF Collected
<1>2. PICK f : /\ f[0] = ss
               /\ \A n \in 1 .. Len(ps) : f[n] = queuePacketForRetransmission(f[n - 1], ps[n])
               /\ Queue(ss, ps) = f[Len(ps)]
  BY <1>1, QueueLoop
<1> DEFINE N == Len(ps)
           First(n) == {ps[i] : i \in 1 .. n}
           S == {n \in 0 .. N : Queued(ss, f[n], First(n))}
<1>3. First(0) = {} /\ First(N) = Range(ps)
  <2>1. First(0) = {}
    <3>1. 1 .. 0 = {}
      OBVIOUS
    <3> QED
      BY <3>1, Zenon
  <2>2. DOMAIN ps = 1 .. N
    BY <1>1
  <2> QED
    BY <2>1, <2>2, Zenon DEF Range
<1>4. 0 \in S
  <2>1. Queued(ss, ss, {})
    <3>1. Keeps(ss, ss, {"packetHistory", "retransmissionQueue", "bytesInFlight", "nextLeastUnacked"})
      BY DEF Keeps, HistoryInv
    <3>2. ss.nextLeastUnacked <= ss.nextLeastUnacked
      <4> DEFINE l == ss.nextLeastUnacked
                 m == ss.lastSentPacketNumber
      <4>1. l \in 0 .. m + 1
        BY DEF HistoryInv
      <4> HIDE DEF l, m
      <4>2. l <= l
        BY <4>1
      <4> QED
        BY <4>2 DEF l
    <3> QED
      BY <3>1, <3>2 DEF Queued
  <2>2. Queued(ss, f[0], First(0))
    BY <1>2, <1>3, <2>1, Zenon
  <2>3. 0 \in 0 .. N
    BY <1>1
  <2> HIDE DEF First, N
  <2> QED
    BY <2>2, <2>3
<1>5. ASSUME NEW n \in 0 .. N, n # N, n \in S PROVE n + 1 \in S
  <2>1. n + 1 \in 1 .. N /\ (n + 1) - 1 = n /\ n + 1 \in 0 .. N /\ n \in Nat
    BY <1>1, <1>5
  <2>2. Queued(ss, f[n], First(n))
    BY <1>5
  <2>3. f[n + 1] = queuePacketForRetransmission(f[n], ps[n + 1])
    BY <1>2, <2>1, Zenon
  <2>4. ps[n + 1] \in Range(ss.packetHistory) /\ ps[n + 1] \notin First(n)
    <3>1. \A i \in 1 .. n : i \in 1 .. N /\ i < n + 1
      BY <1>1, <2>1
    <3> QED
      BY <1>1, <2>1, <3>1
  <2>5. First(n + 1) = First(n) \cup {ps[n + 1]}
    <3>1. 1 .. n + 1 = (1 .. n) \cup {n + 1}
      BY <2>1
    <3> QED
      BY <3>1, Zenon
  <2> HIDE DEF First, N
  <2>6. HistoryInv(f[n]) /\ ps[n + 1] \in Range(f[n].packetHistory)
    BY <2>2, <2>4 DEF Queued
  <2> DEFINE t == f[n]
             u == f[n + 1]
             p == ps[n + 1]
  <2>7. Queued(ss, t, First(n)) /\ u = queuePacketForRetransmission(t, p) /\ HistoryInv(t) /\ p \in Range(t.packetHistory)
    BY <2>2, <2>3, <2>6
  <2> HIDE DEF t, u, p
  <2>8. Queued(t, u, {p})
    BY <2>7, QueueOne
  <2>9. Queued(ss, u, First(n) \cup {p})
    BY <2>7, <2>8, QueuedTrans
  <2> QED
    BY <2>1, <2>5, <2>9 DEF u, p
<1>6. N \in S
  <2>1. \A n \in 0 .. N : n # N /\ n \in S => n + 1 \in S
    BY <1>5, Zenon
  <2>2. N \in 0 .. N /\ N \in Nat
    BY <1>1
  <2> HIDE DEF S, N
  <2> QED
    BY <1>4, <2>1, <2>2, CountUp
<1> QED
  BY <1>2, <1>3, <1>6, Zenon

LEMMA AckedKeeps ==
    ASSUME NEW ss, HistoryInv(ss), NEW frame, Collected(NewlyAcked(ss, frame), ss.packetHistory)
    PROVE  Settled(ss, Acked(ss, frame), Range(NewlyAcked(ss, frame)))
<1> DEFINE ps == NewlyAcked(ss, frame)
<1>1. /\ ps \in Seq(PacketType) /\ Len(ps) \in Nat
      /\ \A i \in 1 .. Len(ps) : ps[i] \in Range(ss.packetHistory)
      /\ \A i, j \in 1 .. Len(ps) : i < j => ps[i] # ps[j]
  BY DEF Collected
<1>2. PICK f : /\ f[0] = ss
               /\ \A n \in 1 .. Len(ps) : f[n] = onPacketAcked(f[n - 1], ps[n])
               /\ Acked(ss, frame) = f[Len(ps)]
  BY <1>1, AckLoop
<1> HIDE DEF ps
<1> DEFINE N == Len(ps)
           First(n) == {ps[i] : i \in 1 .. n}
           S == {n \in 0 .. N : Settled(ss, f[n], First(n))}
<1>3. First(0) = {} /\ First(N) = Range(ps)
  <2>1. First(0) = {}
    <3>1. 1 .. 0 = {}
      OBVIOUS
    <3> QED
      BY <3>1, Zenon
  <2>2. DOMAIN ps = 1 .. N
    BY <1>1
  <2> QED
    BY <2>1, <2>2, Zenon DEF Range
<1>4. 0 \in S
  <2>1. Settled(ss, ss, {})
    BY DEF Settled, Keeps, HistoryInv
  <2>2. Settled(ss, f[0], First(0))
    BY <1>2, <1>3, <2>1, Zenon
  <2>3. 0 \in 0 .. N
    BY <1>1
  <2> HIDE DEF First, N
  <2> QED
    BY <2>2, <2>3
<1>5. ASSUME NEW n \in 0 .. N, n # N, n \in S PROVE n + 1 \in S
  <2>1. n + 1 \in 1 .. N /\ (n + 1) - 1 = n /\ n + 1 \in 0 .. N /\ n \in Nat
    BY <1>1, <1>5
  <2>2. Settled(ss, f[n], First(n))
    BY <1>5
  <2>3. f[n + 1] = onPacketAcked(f[n], ps[n + 1])
    BY <1>2, <2>1, Zenon
  <2>4. ps[n + 1] \in Range(ss.packetHistory) /\ ps[n + 1] \notin First(n)
    <3>1. \A i \in 1 .. n : i \in 1 .. N /\ i < n + 1
      BY <1>1, <2>1
    <3> QED
      BY <1>1, <2>1, <3>1
  <2>5. First(n + 1) = First(n) \cup {ps[n + 1]}
    <3>1. 1 .. n + 1 = (1 .. n) \cup {n + 1}
      BY <2>1
    <3> QED
      BY <3>1, Zenon
  <2> HIDE DEF First, N
  <2>6. HistoryInv(f[n]) /\ ps[n + 1] \in Range(f[n].packetHistory)
    BY <2>2, <2>4 DEF Settled
  <2> DEFINE t == f[n]
             u == f[n + 1]
             p == ps[n + 1]
  <2>7. Settled(ss, t, First(n)) /\ u = onPacketAcked(t, p) /\ HistoryInv(t) /\ p \in Range(t.packetHistory)
    BY <2>2, <2>3, <2>6
  <2> HIDE DEF t, u, p
  <2>8. Settled(t, u, {p})
    BY <2>7, AckOne
  <2>9. Settled(ss, u, First(n) \cup {p})
    BY <2>7, <2>8, SettledTrans
  <2> QED
    BY <2>1, <2>5, <2>9 DEF u, p
<1>6. N \in S
  <2>1. \A n \in 0 .. N : n # N /\ n \in S => n + 1 \in S
    BY <1>5, Zenon
  <2>2. N \in 0 .. N /\ N \in Nat
    BY <1>1
  <2> HIDE DEF S, N
  <2> QED
    BY <1>4, <2>1, <2>2, CountUp
<1> QED
  BY <1>2, <1>3, <1>6 DEF ps

(***************************************************************************)
(* What determineNewlyAckedPackets and detectLostPackets collect.          *)
(***************************************************************************)
LEMMA InOrderIsCollected ==
    ASSUME NEW h \in Seq(PacketType), NEW q \in Seq(PacketType), InOrder(q),
           \A i \in 1 .. Len(q) : \E k \in 1 .. Len(h) : q[i] = h[k]
    PROVE  Collected(q, h)
<1>1. \A i \in 1 .. Len(q) : q[i] \in Range(h)
  BY InRange, Zenon
<1>2. \A i, j \in 1 .. Len(q) : i < j => q[i] # q[j]
  <2>1. \A i \in 1 .. Len(q) : q[i].PacketNumber \in Nat
    BY PacketFields
  <2> QED
    BY <2>1 DEF InOrder
<1> QED
  BY <1>1, <1>2 DEF Collected

LEMMA NewlyAckedIs ==
    ASSUME NEW ss, NEW frame, ss.packetHistory \in Seq(PacketType), InOrder(ss.packetHistory)
    PROVE  /\ Collected(NewlyAcked(ss, frame), ss.packetHistory)
           /\ \A p \in Range(NewlyAcked(ss, frame)) : EvaluatedAsAcked(frame, p.PacketNumber)
<1> DEFINE h == ss.packetHistory
           N == Len(h)
           Ev(p) == EvaluatedAsAcked(frame, p.PacketNumber)
<1>1. PICK f : /\ f[0] = <<>>
               /\ \A n \in 1 .. Len(h) :
                      f[n] = IF EvaluatedAsAcked(frame, h[n].PacketNumber)
                             THEN Append(f[n - 1], h[n]) ELSE f[n - 1]
               /\ NewlyAcked(ss, frame) = f[Len(h)]
  BY NewlyAckedLoop
<1>2. h \in Seq(PacketType) /\ InOrder(h) /\ N \in Nat
  OBVIOUS
<1> HIDE DEF h
<1>3. \A i \in 1 .. N : h[i] \in PacketType /\ h[i].PacketNumber \in Nat
  BY <1>2, PacketFields
<1> DEFINE Good(q, n) == /\ q \in Seq(PacketType) /\ InOrder(q)
                         /\ \A i \in 1 .. Len(q) : \E k \in 1 .. n : q[i] = h[k] /\ Ev(q[i])
           S == {n \in 0 .. N : Good(f[n], n)}
<1>4. 0 \in S
  <2>1. Good(<<>>, 0)
    BY DEF InOrder
  <2>2. 0 \in 0 .. N
    BY <1>2
  <2> HIDE DEF Good
  <2> QED
    BY <1>1, <2>1, <2>2
<1>5. ASSUME NEW n \in 0 .. N, n # N, n \in S PROVE n + 1 \in S
  <2>1. n + 1 \in 1 .. N /\ (n + 1) - 1 = n /\ n + 1 \in 0 .. N /\ n \in Nat
    BY <1>2, <1>5
  <2>2. Good(f[n], n)
    BY <1>5
  <2>3. f[n + 1] = IF Ev(h[n + 1]) THEN Append(f[n], h[n + 1]) ELSE f[n]
    BY <1>1, <2>1, Zenon
  <2> DEFINE q == f[n]
             p == h[n + 1]
             w == Append(q, p)
  <2>4. Good(q, n) /\ p \in PacketType /\ p.PacketNumber \in Nat
    BY <1>3, <2>1, <2>2
  <2>5. \A i \in 1 .. Len(q) : \E k \in 1 .. n : q[i] = h[k] /\ Ev(q[i])
    BY <2>4
  <2>6. \A i \in 1 .. Len(q) : q[i].PacketNumber \in Nat /\ q[i].PacketNumber < p.PacketNumber
    <3> TAKE i \in 1 .. Len(q)
    <3>1. PICK k \in 1 .. n : q[i] = h[k]
      BY <2>5
    <3>2. k \in 1 .. N /\ k < n + 1
      BY <1>2, <2>1
    <3>3. h[k].PacketNumber < h[n + 1].PacketNumber
      BY <1>2, <2>1, <3>2 DEF InOrder
    <3> QED
      BY <1>3, <3>1, <3>2, <3>3
  <2>7. Good(q, n + 1)
    <3>1. \A k \in 1 .. n : k \in 1 .. n + 1
      BY <2>1
    <3> QED
      BY <2>4, <3>1, Zenon
  <2>8. ASSUME Ev(p) PROVE Good(w, n + 1)
    <3>1. q \in Seq(PacketType) /\ InOrder(q)
      BY <2>4
    <3>2. /\ w \in Seq(PacketType) /\ Len(w) = Len(q) + 1 /\ w[Len(q) + 1] = p
          /\ \A i \in 1 .. Len(q) : w[i] = q[i]
      BY <2>4, <3>1
    <3> DEFINE m == Len(q)
    <3>3. m \in Nat /\ Len(w) = m + 1
      BY <3>1, <3>2
    <3> HIDE DEF q, w
    <3>4. InOrder(w)
      <4> SUFFICES ASSUME NEW i \in 1 .. Len(w), NEW j \in 1 .. Len(w), i < j
                   PROVE  w[i].PacketNumber < w[j].PacketNumber
        BY DEF InOrder
      <4> HIDE DEF m
      <4>1. i \in 1 .. m /\ w[i] = q[i]
        BY <3>2, <3>3 DEF m
      <4>2. CASE j = m + 1
        BY <2>6, <3>2, <4>1, <4>2 DEF m
      <4>3. CASE j # m + 1
        <5>1. j \in 1 .. m
          BY <3>3, <4>3
        <5>2. w[j] = q[j]
          BY <3>2, <5>1 DEF m
        <5> QED
          BY <3>1, <4>1, <5>1, <5>2 DEF InOrder, m
      <4> QED
        BY <4>2, <4>3
    <3>5. \A i \in 1 .. Len(w) : \E k \in 1 .. n + 1 : w[i] = h[k] /\ Ev(w[i])
      <4> TAKE i \in 1 .. Len(w)
      <4>1. CASE i = m + 1
        <5>1. w[i] = p /\ n + 1 \in 1 .. n + 1
          BY <2>1, <3>2, <4>1
        <5> QED
          BY <2>8, <5>1, Zenon
      <4>2. CASE i # m + 1
        <5>1. i \in 1 .. m
          BY <3>3, <4>2
        <5>2. w[i] = q[i]
          BY <3>2, <5>1
        <5>3. \A k \in 1 .. n : k \in 1 .. n + 1
          BY <2>1
        <5> QED
          BY <2>5, <5>1, <5>2, <5>3, Zenon
      <4> QED
        BY <4>1, <4>2
    <3> QED
      BY <3>2, <3>4, <3>5
  <2>9. Good(f[n + 1], n + 1)
    <3> HIDE DEF Good, Ev
    <3> QED
      BY <2>3, <2>7, <2>8
  <2> HIDE DEF Good
  <2> QED
    BY <2>1, <2>9
<1>6. N \in S
  <2>1. \A n \in 0 .. N : n # N /\ n \in S => n + 1 \in S
    BY <1>5
  <2>2. N \in 0 .. N /\ N \in Nat
    BY <1>2
  <2> HIDE DEF S, N
  <2> QED
    BY <1>4, <2>1, <2>2, CountUp, Zenon
<1> DEFINE q == NewlyAcked(ss, frame)
<1>7. Good(q, N)
  BY <1>1, <1>6
<1> HIDE DEF q
<1>8. Collected(q, h)
  <2>1. \A i \in 1 .. Len(q) : \E k \in 1 .. Len(h) : q[i] = h[k]
    BY <1>7, Zenon
  <2> QED
    BY <1>2, <1>7, <2>1, InOrderIsCollected
<1>9. \A p \in Range(q) : Ev(p)
  <2> TAKE p \in Range(q)
  <2>1. \E i \in 1 .. Len(q) : q[i] = p
    BY <1>7, InRange
  <2> QED
    BY <1>7, <2>1, Zenon
<1> QED
  BY <1>8, <1>9 DEF q, h

LEMMA UpToIs ==
    ASSUME NEW ss, HistoryInv(ss), ss.LargestAcked \in Nat
    PROVE  \E m \in 0 .. Len(ss.packetHistory) :
               /\ UpToLargestAcked(ss) = SubSeq(ss.packetHistory, 1, m)
               /\ \A i \in 1 .. Len(ss.packetHistory) :
                      i <= m <=> ss.packetHistory[i].PacketNumber <= ss.LargestAcked
<1> DEFINE h == ss.packetHistory
           la == ss.LargestAcked
           I == {i \in 1 .. Len(h) : h[i].PacketNumber > la}
           stop == IF I # {} THEN Min(I) ELSE 0
           u == UpToLargestAcked(ss)
<1>1. h \in Seq(PacketType) /\ InOrder(h) /\ la \in Nat /\ Len(h) \in Nat
  BY DEF HistoryInv
<1>2. u = IF stop = 0 THEN h ELSE SubSeq(h, 1, stop - 1)
  BY DEF UpToLargestAcked, FirstOf
<1> HIDE DEF h, la, u
<1>3. \A i \in 1 .. Len(h) : h[i].PacketNumber \in Nat
  BY <1>1, PacketFields
<1>4. CASE I = {}
  <2>1. \A i \in 1 .. Len(h) : ~ (h[i].PacketNumber > la)
    BY <1>4, Zenon
  <2>2. u = SubSeq(h, 1, Len(h))
    <3>1. u = h
      BY <1>2, <1>4
    <3>2. h = SubSeq(h, 1, Len(h))
      BY <1>1
    <3> QED
      BY <3>1, <3>2
  <2>3. \A i \in 1 .. Len(h) : i <= Len(h) <=> h[i].PacketNumber <= la
    BY <1>1, <1>3, <2>1
  <2>4. Len(h) \in 0 .. Len(h)
    BY <1>1
  <2> QED
    BY <2>2, <2>3, <2>4 DEF h, la, u
<1>5. CASE I # {}
  <2> DEFINE k == Min(I)
  <2>1. k \in I /\ \A i \in I : k <= i
    <3>1. I \in SUBSET Nat
      OBVIOUS
    <3> QED
      BY <1>5, <3>1, MinOfNats, Zenon
  <2>2. k \in 1 .. Len(h) /\ h[k].PacketNumber > la /\ \A i \in 1 .. Len(h) : h[i].PacketNumber > la => k <= i
    BY <2>1, Zenon
  <2>3. stop = k /\ k # 0
    BY <1>5, <2>2
  <2> HIDE DEF k, I
  <2>4. u = SubSeq(h, 1, k - 1) /\ k - 1 \in 0 .. Len(h)
    BY <1>1, <1>2, <2>2, <2>3
  <2>5. ASSUME NEW i \in 1 .. Len(h) PROVE i <= k - 1 <=> h[i].PacketNumber <= la
    <3>1. k < i => h[k].PacketNumber < h[i].PacketNumber
      BY <1>1, <2>2 DEF InOrder
    <3>2. h[i].PacketNumber > la => k <= i
      BY <2>2
    <3>3. h[i].PacketNumber \in Nat /\ h[k].PacketNumber \in Nat /\ k \in Nat /\ (k = i => h[i].PacketNumber > la)
      BY <1>3, <2>2
    <3> QED
      BY <1>1, <2>2, <3>1, <3>2, <3>3
  <2>6. \A i \in 1 .. Len(h) : i <= k - 1 <=> h[i].PacketNumber <= la
    BY <2>5
  <2> QED
    BY <2>4, <2>6 DEF h, la, u
<1> QED
  BY <1>4, <1>5

\* Something is up to LargestAcked exactly when a packet of the history is.
LEMMA UpToNonEmpty ==
    ASSUME NEW ss, HistoryInv(ss), ss.LargestAcked \in Nat
    PROVE  UpToLargestAcked(ss) # <<>> <=>
               \E q \in Range(ss.packetHistory) : q.PacketNumber <= ss.LargestAcked
<1> DEFINE h == ss.packetHistory
           la == ss.LargestAcked
           u == UpToLargestAcked(ss)
<1>1. h \in Seq(PacketType) /\ Len(h) \in Nat
  BY DEF HistoryInv
<1>2. PICK m \in 0 .. Len(h) : u = SubSeq(h, 1, m) /\ \A i \in 1 .. Len(h) : i <= m <=> h[i].PacketNumber <= la
  BY UpToIs
<1> HIDE DEF h, la, u
<1>3. u # <<>> <=> m # 0
  <2>1. Len(u) = m /\ u \in Seq(PacketType)
    BY <1>1, <1>2
  <2> QED
    BY <2>1, <1>2
<1>4. ASSUME m # 0 PROVE \E q \in Range(h) : q.PacketNumber <= la
  <2>1. 1 \in 1 .. Len(h) /\ 1 <= m
    BY <1>1, <1>4
  <2>2. h[1].PacketNumber <= la
    BY <1>2, <2>1
  <2>3. h[1] \in Range(h)
    BY <1>1, <2>1, InRange
  <2> QED
    BY <2>2, <2>3
<1>5. ASSUME NEW q \in Range(h), q.PacketNumber <= la PROVE m # 0
  <2>1. PICK i \in 1 .. Len(h) : h[i] = q
    BY <1>1, InRange
  <2>2. i <= m
    BY <1>2, <1>5, <2>1
  <2> QED
    BY <1>1, <2>2
<1>6. u # <<>> <=> \E q \in Range(h) : q.PacketNumber <= la
  BY <1>3, <1>4, <1>5
<1> QED
  BY <1>6 DEF h, la, u

\* The oldest packets are packets of the history.
LEMMA PrefixIs ==
    ASSUME NEW ss, HistoryInv(ss), NEW m \in 0 .. Len(ss.packetHistory)
    PROVE  LET h == ss.packetHistory
               q == SubSeq(h, 1, m)
           IN  /\ Collected(q, h) /\ Len(q) = m
               /\ \A i \in 1 .. m : q[i] = h[i]
               /\ \A i \in 1 .. Len(h) : i > m => h[i] \notin Range(q)
<1> DEFINE h == ss.packetHistory
           q == SubSeq(h, 1, m)
<1>1. h \in Seq(PacketType) /\ InOrder(h) /\ Len(h) \in Nat /\ m \in 0 .. Len(h)
  BY DEF HistoryInv
<1> HIDE DEF h
<1>2. q \in Seq(PacketType) /\ Len(q) = m /\ \A i \in 1 .. m : q[i] = h[i]
  <2>1. \A i \in 1 .. m : h[i] \in PacketType
    BY <1>1
  <2> QED
    BY <1>1, <2>1
<1> HIDE DEF q
<1>3. \A i \in 1 .. m : i \in 1 .. Len(h)
  BY <1>1
<1>4. InOrder(q)
  BY <1>1, <1>2, <1>3 DEF InOrder
<1>5. Collected(q, h)
  <2>1. \A i \in 1 .. Len(q) : \E k \in 1 .. Len(h) : q[i] = h[k]
    BY <1>2, <1>3, Zenon
  <2> QED
    BY <1>1, <1>2, <1>4, <2>1, InOrderIsCollected
<1>6. ASSUME NEW i \in 1 .. Len(h), i > m PROVE h[i] \notin Range(q)
  <2> SUFFICES ASSUME h[i] \in Range(q) PROVE FALSE
    OBVIOUS
  <2>1. PICK j \in 1 .. m : q[j] = h[i]
    BY <1>2, InRange
  <2>2. h[j] = h[i] /\ j < i /\ j \in 1 .. Len(h)
    BY <1>1, <1>2, <1>3, <1>6, <2>1
  <2>3. h[j].PacketNumber < h[i].PacketNumber
    BY <1>1, <2>2 DEF InOrder
  <2>4. h[i].PacketNumber \in Nat
    BY <1>1, PacketFields
  <2> QED
    BY <2>2, <2>3, <2>4
<1> QED
  BY <1>2, <1>5, <1>6 DEF h, q

(***************************************************************************)
(* The peer's frames.  Packets that reached it were sent, so a frame that  *)
(* reports what reached it acknowledges packets that were sent.            *)
(***************************************************************************)

\* The walk over the ranges acknowledges a packet only if the frame does, and
\* never at a range that ends below it.
LEMMA HonestAck ==
    ASSUME NEW frame, NEW numbers, HonestFrame(frame, numbers), NEW pn \in Nat,
           EvaluatedAsAcked(frame, pn)
    PROVE  pn \in numbers /\ (frame.AckRanges # <<>> => ~ (pn > RangeFor(frame, pn).End))
<1> DEFINE rs == frame.AckRanges
           la == frame.LargestAcked
           lo == frame.LowestAcked
           I == {i \in 1 .. Len(rs) : rs[i].End >= pn}
           k == IF I # {} THEN Max(I) ELSE 0
<1>1. /\ rs \in Seq([Start : Int, End : Int]) /\ la \in Nat /\ lo \in Nat /\ Len(rs) \in Nat
      /\ pn \in lo .. la
      /\ rs = <<>> \/ pn >= RangeFor(frame, pn).Start
      /\ rs = <<>> => lo .. la \subseteq numbers
      /\ rs # <<>> => rs[1].End = la
      /\ \A i \in 1 .. Len(rs) : rs[i].Start .. rs[i].End \subseteq numbers
  BY DEF HonestFrame, EvaluatedAsAcked
<1>2. RangeFor(frame, pn) = rs[IF k = 0 THEN 1 ELSE k]
  BY DEF RangeFor, LastOf
<1> HIDE DEF rs, la, lo
<1>3. CASE rs = <<>>
  BY <1>1, <1>3 DEF rs
<1>4. CASE rs # <<>>
  <2>1. 1 \in 1 .. Len(rs)
    BY <1>1, <1>4
  <2>2. \A i \in 1 .. Len(rs) : rs[i].Start \in Int /\ rs[i].End \in Int
    <3> TAKE i \in 1 .. Len(rs)
    <3>1. rs[i] \in [Start : Int, End : Int]
      BY <1>1, ElementIn, Zenon
    <3> QED
      BY <3>1
  <2>3. 1 \in I
    BY <1>1, <1>4, <2>1
  <2>4. Max(I) \in I
    <3>1. I \in SUBSET (0 .. Len(rs)) /\ I # {}
      BY <2>3
    <3> QED
      BY <1>1, <3>1, MaxOfNats, Zenon
  <2>5. k = Max(I)
    BY <2>3
  <2>6. k \in 1 .. Len(rs) /\ rs[k].End >= pn
    BY <2>4, <2>5, Zenon
  <2> HIDE DEF k, I
  <2>7. RangeFor(frame, pn) = rs[k]
    BY <1>2, <2>6
  <2> DEFINE r == rs[k]
  <2>8. r.Start \in Int /\ r.End \in Int /\ r.Start <= pn /\ pn <= r.End /\ r.Start .. r.End \subseteq numbers
    BY <1>1, <1>4, <2>2, <2>6, <2>7
  <2> HIDE DEF r
  <2> DEFINE a == r.Start
             b == r.End
  <2>9. a \in Int /\ b \in Int /\ a <= pn /\ pn <= b /\ a .. b \subseteq numbers /\ RangeFor(frame, pn).End = b
    BY <2>7, <2>8 DEF r
  <2> HIDE DEF a, b
  <2>10. pn \in a .. b /\ ~ (pn > b)
    BY <2>9
  <2> QED
    BY <2>9, <2>10
<1> QED
  BY <1>3, <1>4

\* More packets reach the peer: what its earlier frames say stays true.
LEMMA HonestStays ==
    ASSUME NEW frame, NEW numbers, HonestFrame(frame, numbers), NEW more
    PROVE  HonestFrame(frame, numbers \cup more)
<1> DEFINE rs == frame.AckRanges
           la == frame.LargestAcked
           lo == frame.LowestAcked
<1>1. /\ la \in numbers /\ la \in Nat /\ lo \in Nat /\ rs \in Seq([Start : Int, End : Int])
      /\ rs = <<>> => lo .. la \subseteq numbers
      /\ rs # <<>> => rs[1].End = la
      /\ \A i \in 1 .. Len(rs) : rs[i].Start .. rs[i].End \subseteq numbers
  BY DEF HonestFrame
<1> HIDE DEF rs, la, lo
<1>2. /\ la \in numbers \cup more
      /\ rs = <<>> => lo .. la \subseteq numbers \cup more
      /\ \A i \in 1 .. Len(rs) : rs[i].Start .. rs[i].End \subseteq numbers \cup more
  BY <1>1, Zenon
<1> QED
  BY <1>1, <1>2 DEF HonestFrame, rs, la, lo

\* The frame for a set of numbers whose ranges, lowest first, are given.
FrameWith(numbers, close, ranges) ==
    [LargestAcked |-> Max(numbers), LowestAcked |-> Min(numbers), close |-> close,
     AckRanges |-> IF Len(ranges) > 1 THEN Reverse(ranges) ELSE <<>>]

LEMMA FrameLoop ==
    ASSUME NEW numbers, NEW close, Max(numbers) \in Nat
    PROVE  \E f : /\ f[0] = <<>>
                  /\ \A n \in 1 .. Max(numbers) :
                         f[n] = IF n \in numbers THEN HistoryReceivedPacket(f[n - 1], n) ELSE f[n - 1]
                  /\ FrameOf(numbers, close) = FrameWith(numbers, close, f[Max(numbers)])
<1> DEFINE N == Max(numbers)
           Step(list, n) == IF n \in numbers THEN HistoryReceivedPacket(list, n) ELSE list
           Def(f, m) == f = [n \in 0 .. m |-> IF n = 0 THEN <<>> ELSE Step(f[n - 1], n)]
           S == {m \in 0 .. N : \E f : Def(f, m)}
           F == CHOOSE f : Def(f, N)
<1>1. N \in Nat
  OBVIOUS
<1>2. FrameOf(numbers, close) = FrameWith(numbers, close, F[N])
  BY Zenon DEF FrameOf, FrameWith
<1> HIDE DEF N, Step
<1>3. 0 \in S
  <2>1. Def([n \in 0 .. 0 |-> <<>>], 0)
    <3>1. \A n \in 0 .. 0 : n = 0
      OBVIOUS
    <3> QED
      BY <3>1, Zenon
  <2>2. \E f : Def(f, 0)
    BY <2>1, Zenon
  <2> HIDE DEF Def
  <2> QED
    BY <1>1, <2>2
<1>4. ASSUME NEW m \in 0 .. N, m # N, m \in S PROVE m + 1 \in S
  <2>1. PICK f : Def(f, m)
    BY <1>4
  <2> DEFINE g == [n \in 0 .. m + 1 |-> IF n = m + 1 THEN Step(f[m], m + 1) ELSE f[n]]
  <2>2. \A n \in 0 .. m : f[n] = IF n = 0 THEN <<>> ELSE Step(f[n - 1], n)
    BY <2>1, Zenon
  <2>3. \A n \in 0 .. m + 1 : g[n] = IF n = 0 THEN <<>> ELSE Step(g[n - 1], n)
    <3> TAKE n \in 0 .. m + 1
    <3>1. CASE n = m + 1
      <4>1. n # 0 /\ n - 1 = m /\ m \in 0 .. m + 1 /\ m # m + 1
        BY <1>1, <3>1
      <4>2. g[m] = f[m] /\ g[n] = Step(f[m], m + 1)
        BY <3>1, <4>1, Zenon
      <4> QED
        BY <3>1, <4>1, <4>2, Zenon
    <3>2. CASE n # m + 1
      <4>1. n \in 0 .. m
        BY <1>1, <3>2
      <4>2. g[n] = f[n]
        BY <3>2, Zenon
      <4>3. CASE n = 0
        BY <2>2, <4>1, <4>2, <4>3, Zenon
      <4>4. CASE n # 0
        <5>1. n - 1 \in 0 .. m + 1 /\ n - 1 # m + 1
          BY <1>1, <4>1, <4>4
        <5>2. g[n - 1] = f[n - 1]
          BY <5>1, Zenon
        <5> QED
          BY <2>2, <4>1, <4>2, <4>4, <5>2, Zenon
      <4> QED
        BY <4>3, <4>4
    <3> QED
      BY <3>1, <3>2
  <2>4. Def(g, m + 1)
    <3>1. g = [n \in 0 .. m + 1 |-> g[n]]
      BY Zenon
    <3> HIDE DEF g
    <3> QED
      BY <2>3, <3>1, Zenon
  <2>5. m + 1 \in 0 .. N
    BY <1>1, <1>4
  <2> HIDE DEF Def, g
  <2> QED
    BY <2>4, <2>5
<1>5. N \in S
  <2>1. \A m \in 0 .. N : m # N /\ m \in S => m + 1 \in S
    BY <1>4
  <2> HIDE DEF S
  <2>2. N \in 0 .. N
    BY <1>1
  <2> QED
    BY <1>1, <1>3, <2>1, <2>2, CountUp
<1>6. Def(F, N)
  <2>1. \E f : Def(f, N)
    BY <1>5
  <2> QED
    BY <2>1, Zenon
<1> HIDE DEF F
<1>7. \A n \in 0 .. N : F[n] = IF n = 0 THEN <<>> ELSE Step(F[n - 1], n)
  BY <1>6, Zenon
<1>8. F[0] = <<>>
  <2>1. 0 \in 0 .. N
    BY <1>1
  <2> QED
    BY <1>7, <2>1, Zenon
<1>9. \A n \in 1 .. N : F[n] = Step(F[n - 1], n)
  <2> TAKE n \in 1 .. N
  <2>1. n \in 0 .. N /\ n # 0
    BY <1>1
  <2> QED
    BY <1>7, <2>1, Zenon
<1> QED
  BY <1>2, <1>8, <1>9, Zenon DEF N, Step

\* The peer's ranges, built from the lowest number upwards, hold exactly the
\* numbers up to n; no two neighbours touch and none reaches above the last.
Ascending(ranges, numbers, n) ==
    /\ ranges \in Seq([Start : Int, End : Int])
    /\ \A i \in 1 .. Len(ranges) :
           /\ ranges[i].Start <= ranges[i].End
           /\ ranges[i].End <= n
           /\ ranges[i].End <= ranges[Len(ranges)].End
           /\ ranges[i].Start .. ranges[i].End \subseteq numbers
    /\ \A i \in 2 .. Len(ranges) : ranges[i - 1].End + 1 # ranges[i].Start
    /\ \A x \in numbers : x <= n =>
           \E i \in 1 .. Len(ranges) : x \in ranges[i].Start .. ranges[i].End

LEMMA AscendingOne ==
    ASSUME NEW numbers \in SUBSET Nat, NEW n \in Nat, n + 1 \in numbers,
           Ascending(<<>>, numbers, n)
    PROVE  Ascending(<<Interval(n + 1, n + 1)>>, numbers, n + 1)
<1> DEFINE e == Interval(n + 1, n + 1)
           q == <<e>>
<1>1. e \in [Start : Int, End : Int] /\ e.Start = n + 1 /\ e.End = n + 1
  BY DEF Interval
<1> HIDE DEF e
<1>2. q \in Seq([Start : Int, End : Int]) /\ Len(q) = 1 /\ q[1] = e
  BY <1>1
<1>3. \A x \in numbers : ~ (x <= n)
  BY DEF Ascending
<1>4. \A x \in numbers : x <= n + 1 => x = n + 1
  BY <1>3
<1>5. (n + 1) .. (n + 1) = {n + 1}
  OBVIOUS
<1> HIDE DEF q
<1>6. \A i \in 1 .. Len(q) : i = 1
  BY <1>2
<1>7. \A i \in 1 .. Len(q) :
           /\ q[i].Start <= q[i].End
           /\ q[i].End <= n + 1
           /\ q[i].End <= q[Len(q)].End
           /\ q[i].Start .. q[i].End \subseteq numbers
  BY <1>1, <1>2, <1>5, <1>6
<1>8. \A i \in 2 .. Len(q) : q[i - 1].End + 1 # q[i].Start
  BY <1>2
<1>9. \A x \in numbers : x <= n + 1 => \E i \in 1 .. Len(q) : x \in q[i].Start .. q[i].End
  <2> SUFFICES ASSUME NEW x \in numbers, x <= n + 1 PROVE \E i \in 1 .. Len(q) : x \in q[i].Start .. q[i].End
    OBVIOUS
  <2>1. x \in q[1].Start .. q[1].End /\ 1 \in 1 .. Len(q)
    BY <1>1, <1>2, <1>4, <1>5
  <2> QED
    BY <2>1
<1> QED
  BY <1>2, <1>7, <1>8, <1>9 DEF Ascending, q, e

\* The scan for the number after all of them stops at the last range.
LEMMA ScanAtEnd ==
    ASSUME NEW numbers, NEW n \in Nat, NEW rs, Ascending(rs, numbers, n)
    PROVE  ScanStop(rs, n + 1) = Len(rs)
<1> DEFINE m == Len(rs)
           I == {i \in 1 .. m : rs[i].Start <= (n + 1) + 1}
<1>1. m \in Nat /\ \A i \in 1 .. m : rs[i].Start \in Int /\ rs[i].Start <= (n + 1) + 1
  <2>1. rs \in Seq([Start : Int, End : Int])
    BY DEF Ascending
  <2>2. \A i \in 1 .. m : rs[i] \in [Start : Int, End : Int]
    BY <2>1, ElementIn, Zenon
  <2>3. \A i \in 1 .. m : rs[i].Start \in Int /\ rs[i].End \in Int /\ rs[i].Start <= rs[i].End /\ rs[i].End <= n
    BY <2>2 DEF Ascending
  <2>4. m \in Nat
    BY <2>1
  <2>5. ASSUME NEW i \in 1 .. m PROVE rs[i].Start \in Int /\ rs[i].Start <= (n + 1) + 1
    <3> DEFINE a == rs[i].Start
               b == rs[i].End
    <3>1. a \in Int /\ b \in Int /\ a <= b /\ b <= n
      BY <2>3
    <3> HIDE DEF a, b
    <3>2. a <= (n + 1) + 1
      BY <3>1
    <3> QED
      BY <3>1, <3>2 DEF a
  <2> QED
    BY <2>4, <2>5, Zenon
<1>2. ScanStop(rs, n + 1) = IF I # {} THEN Max(I) ELSE 0
  BY DEF ScanStop, LastOf
<1> HIDE DEF m
<1>3. I = 1 .. m
  BY <1>1, Zenon
<1> HIDE DEF I
<1>4. CASE m = 0
  <2>1. I = {}
    BY <1>3, <1>4
  <2> QED
    BY <1>2, <1>4, <2>1 DEF m
<1>5. CASE m # 0
  <2>1. m \in I /\ I \in SUBSET (0 .. m) /\ I # {}
    BY <1>1, <1>3, <1>5
  <2>2. Max(I) \in I /\ \A i \in I : i <= Max(I)
    BY <1>1, <2>1, MaxOfNats, Zenon
  <2>3. Max(I) = m
    <3> DEFINE z == Max(I)
    <3>1. z \in 1 .. m /\ m <= z
      BY <1>3, <2>1, <2>2
    <3> HIDE DEF z
    <3>2. z = m
      BY <1>1, <3>1
    <3> QED
      BY <3>2 DEF z
  <2> QED
    BY <1>2, <2>1, <2>3 DEF m
<1> QED
  BY <1>4, <1>5

LEMMA AscendingStep ==
    ASSUME NEW numbers \in SUBSET Nat, NEW n \in Nat, n + 1 \in numbers,
           NEW rs, Ascending(rs, numbers, n)
    PROVE  Ascending(HistoryReceivedPacket(rs, n + 1), numbers, n + 1)
<1> DEFINE m == Len(rs)
           p == n + 1
           e == Interval(p, p)
           t == HistoryReceivedPacket(rs, p)
           T == [Start : Int, End : Int]
<1>1. /\ rs \in Seq(T) /\ m \in Nat
      /\ \A i \in 1 .. m : rs[i].Start .. rs[i].End \subseteq numbers
      /\ \A i \in 2 .. m : rs[i - 1].End + 1 # rs[i].Start
      /\ \A x \in numbers : x <= n => \E i \in 1 .. m : x \in rs[i].Start .. rs[i].End
  BY DEF Ascending
<1>2. \A i \in 1 .. m : /\ rs[i] \in T /\ rs[i].Start \in Int /\ rs[i].End \in Int
                        /\ rs[i].Start <= rs[i].End /\ rs[i].End <= n
                        /\ rs[i].End <= rs[m].End
  <2>1. \A i \in 1 .. m : rs[i] \in T
    BY <1>1, ElementIn, Zenon
  <2> QED
    BY <2>1 DEF Ascending
<1>3. ScanStop(rs, p) = m
  BY ScanAtEnd
<1>4. CASE m = 0
  <2>1. rs = <<>>
    BY <1>1, <1>4
  <2>2. t = <<e>>
    <3>1. t = <<e>> \o rs
      BY <1>3, <1>4 DEF HistoryReceivedPacket
    <3>2. <<e>> \o <<>> = <<e>>
      OBVIOUS
    <3> QED
      BY <2>1, <3>1, <3>2
  <2>3. Ascending(<<e>>, numbers, p)
    BY <2>1, AscendingOne
  <2> QED
    BY <2>2, <2>3
<1>5. ASSUME m # 0, NEW l \in Nat, l \in {m, m + 1}, NEW x, x \in Seq(T), Len(x) = l,
             \A i \in 1 .. m : i # l => x[i] = rs[i],
             x[l].End = p,
             x[l].Start = IF l = m THEN rs[m].Start ELSE p,
             IF l = m THEN rs[m].End + 1 = p ELSE rs[m].End + 1 # p
      PROVE  Ascending(x, numbers, p)
  <2>m. m \in 1 .. m /\ p \in Nat /\ p \in numbers
    BY <1>1, <1>5
  <2> HIDE DEF m
  <2>i. \A i \in 1 .. l : i # l => i \in 1 .. m
    BY <1>1, <1>5
  <2>1. \A i \in 1 .. l : i # l => x[i] = rs[i] /\ i \in 1 .. m
    BY <1>5, <2>i
  <2>2. x[l].Start \in Int /\ x[l].End \in Int /\ x[l].Start <= x[l].End
    BY <1>2, <1>5, <2>m
  <2>3. x[l].Start .. x[l].End \subseteq numbers
    <3> DEFINE a == rs[m].Start
               b == rs[m].End
    <3>1. a .. b \subseteq numbers /\ a \in Int /\ b \in Int
      BY <1>1, <1>2, <2>m
    <3>2. CASE l = m
      <4>1. x[l].Start = a /\ x[l].End = b + 1 /\ b + 1 \in numbers
        BY <1>5, <2>m, <3>2
      <4> HIDE DEF a, b
      <4>2. a .. b + 1 \subseteq numbers
        BY <3>1, <4>1
      <4> QED
        BY <4>1, <4>2
    <3>3. CASE l # m
      <4>1. x[l].Start = p /\ x[l].End = p
        BY <1>5, <3>3
      <4>2. p .. p = {p}
        BY <2>m
      <4> QED
        BY <2>m, <4>1, <4>2
    <3> QED
      BY <3>2, <3>3
  <2>4. \A i \in 1 .. l :
           /\ x[i].Start <= x[i].End
           /\ x[i].End <= p
           /\ x[i].End <= x[l].End
           /\ x[i].Start .. x[i].End \subseteq numbers
    <3> TAKE i \in 1 .. l
    <3>1. CASE i = l
      BY <1>5, <2>m, <2>2, <2>3, <3>1
    <3>2. CASE i # l
      <4>1. x[i] = rs[i] /\ i \in 1 .. m
        BY <2>1, <3>2
      <4> DEFINE r == rs[i]
      <4>2. /\ r.Start \in Int /\ r.End \in Int /\ r.Start <= r.End /\ r.End <= n
            /\ r.Start .. r.End \subseteq numbers
        BY <1>1, <1>2, <4>1
      <4> HIDE DEF r
      <4>3. r.End <= p
        BY <4>2
      <4> QED
        BY <1>5, <4>1, <4>2, <4>3 DEF r
    <3> QED
      BY <3>1, <3>2
  <2>5. \A i \in 2 .. l : x[i - 1].End + 1 # x[i].Start
    <3> TAKE i \in 2 .. l
    <3>1. i - 1 \in 1 .. l /\ i - 1 # l /\ i \in 1 .. l
      BY <1>5
    <3>2. x[i - 1] = rs[i - 1]
      BY <2>1, <3>1
    <3>3. CASE i # l
      <4>1. x[i] = rs[i] /\ i \in 2 .. m
        BY <2>1, <3>1, <3>3, <1>5
      <4> QED
        BY <1>1, <3>2, <4>1, Zenon
    <3>4. CASE i = l /\ l = m
      <4>1. x[i].Start = rs[i].Start /\ i \in 2 .. m
        BY <1>5, <3>4
      <4> QED
        BY <1>1, <3>2, <4>1, Zenon
    <3>5. CASE i = l /\ l # m
      <4>1. i - 1 = m /\ x[i].Start = p
        BY <1>1, <1>5, <3>5
      <4> QED
        BY <1>5, <3>2, <3>5, <4>1
    <3> QED
      BY <3>3, <3>4, <3>5
  <2>6. \A y \in numbers : y <= p => \E i \in 1 .. l : y \in x[i].Start .. x[i].End
    <3> SUFFICES ASSUME NEW y \in numbers, y <= p PROVE \E i \in 1 .. l : y \in x[i].Start .. x[i].End
      OBVIOUS
    <3>l. l \in 1 .. l
      BY <1>1, <1>5
    <3>1. CASE y = p
      <4>1. y \in x[l].Start .. x[l].End
        BY <1>5, <2>2, <2>m, <3>1
      <4> QED
        BY <3>l, <4>1
    <3>2. CASE y # p
      <4>1. y <= n
        BY <3>2
      <4>2. PICK i \in 1 .. m : y \in rs[i].Start .. rs[i].End
        BY <1>1, <4>1, Zenon
      <4>3. i \in 1 .. l
        BY <1>1, <1>5, <4>2
      <4>4. CASE i # l
        BY <1>5, <4>2, <4>3, <4>4
      <4>5. CASE i = l
        <5>1. l = m
          BY <1>1, <1>5, <4>2, <4>5
        <5>2. x[l].Start = rs[i].Start /\ x[l].End = rs[i].End + 1 /\ rs[i].Start \in Int /\ rs[i].End \in Int
          BY <1>2, <1>5, <4>5, <5>1, <2>m
        <5> DEFINE a == rs[i].Start
                   b == rs[i].End
        <5> HIDE DEF a, b
        <5>3. y \in a .. b + 1
          BY <4>2, <5>2 DEF a, b
        <5> QED
          BY <3>l, <5>2, <5>3 DEF a, b
      <4> QED
        BY <4>4, <4>5
    <3> QED
      BY <3>1, <3>2
  <2> HIDE DEF T
  <2> QED
    BY <1>5, <2>4, <2>5, <2>6 DEF Ascending, T
<1>6. CASE m # 0 /\ p = rs[m].End + 1
  <2> DEFINE x == [rs EXCEPT ![m].End = p]
  <2>1. m \in 1 .. m /\ p \in Int
    BY <1>1, <1>6
  <2>2. t = MergeWithPrev(x, m)
    <3>1. p \notin rs[m].Start .. rs[m].End /\ p # rs[m].Start - 1
      <4> DEFINE a == rs[m].Start
                 b == rs[m].End
      <4>1. a \in Int /\ b \in Int /\ a <= b /\ p = b + 1
        BY <1>2, <1>6, <2>1
      <4> HIDE DEF a, b
      <4>2. p \notin a .. b /\ p # a - 1
        BY <4>1
      <4> QED
        BY <4>2 DEF a, b
    <3> QED
      BY <1>3, <1>6, <3>1, Zenon DEF HistoryReceivedPacket
  <2>3. /\ x \in Seq(T) /\ Len(x) = m
        /\ \A i \in 1 .. m : i # m => x[i] = rs[i]
        /\ x[m].Start = rs[m].Start /\ x[m].End = p
    <3>1. [rs[m] EXCEPT !.End = p] \in T /\ [rs[m] EXCEPT !.End = p].Start = rs[m].Start /\ [rs[m] EXCEPT !.End = p].End = p
      BY <1>2, <2>1
    <3> DEFINE v == [rs[m] EXCEPT !.End = p]
    <3>2. x = [rs EXCEPT ![m] = v]
      OBVIOUS
    <3> HIDE DEF v, x
    <3>3. v \in T /\ v.Start = rs[m].Start /\ v.End = p
      BY <3>1 DEF v
    <3> HIDE DEF T
    <3>4. x \in Seq(T) /\ Len(x) = m /\ \A i \in 1 .. m : x[i] = IF i = m THEN v ELSE rs[i]
      BY <1>1, <2>1, <3>2, <3>3
    <3> QED
      BY <2>1, <3>3, <3>4
  <2> HIDE DEF x
  <2>4. ~ (m > 1 /\ x[m - 1].End + 1 = x[m].Start)
    <3> SUFFICES ASSUME m > 1 PROVE x[m - 1].End + 1 # x[m].Start
      OBVIOUS
    <3>1. m - 1 \in 1 .. m /\ m - 1 # m /\ m \in 2 .. m
      BY <1>1
    <3> QED
      BY <1>1, <2>3, <3>1, Zenon
  <2>5. t = x
    BY <2>2, <2>4 DEF MergeWithPrev
  <2>6. Ascending(x, numbers, p)
    BY <1>1, <1>5, <1>6, <2>3, Zenon
  <2> QED
    BY <2>5, <2>6
<1>7. CASE m # 0 /\ p # rs[m].End + 1
  <2> DEFINE x == Append(rs, e)
  <2>1. m \in 1 .. m /\ p \in Int
    BY <1>1, <1>7
  <2>2. t = InsertAt(rs, m + 1, e)
    <3>1. p \notin rs[m].Start .. rs[m].End /\ p # rs[m].Start - 1
      <4> DEFINE a == rs[m].Start
                 b == rs[m].End
      <4>1. a \in Int /\ b \in Int /\ a <= b /\ b <= n
        BY <1>2, <2>1
      <4> HIDE DEF a, b
      <4>2. p \notin a .. b /\ p # a - 1
        BY <4>1
      <4> QED
        BY <4>2 DEF a, b
    <3> QED
      BY <1>3, <1>7, <3>1 DEF HistoryReceivedPacket
  <2>3. e \in T /\ e.Start = p /\ e.End = p
    BY <2>1 DEF Interval
  <2> HIDE DEF e, T
  <2>4. InsertAt(rs, m + 1, e) = x
    <3>1. SubSeq(rs, 1, (m + 1) - 1) = rs
      BY <1>1
    <3>2. SubSeq(rs, m + 1, Len(rs)) = <<>>
      BY <1>1
    <3>3. InsertAt(rs, m + 1, e) = rs \o <<e>> \o <<>>
      BY <3>1, <3>2, Zenon DEF InsertAt
    <3>4. rs \o <<e>> \in Seq(T) /\ rs \o <<e>> = Append(rs, e)
      BY <1>1, <2>3
    <3> QED
      BY <3>3, <3>4
  <2>5. x \in Seq(T) /\ Len(x) = m + 1 /\ x[m + 1] = e /\ \A i \in 1 .. m : x[i] = rs[i]
    BY <1>1, <2>3
  <2> HIDE DEF x
  <2>6. m + 1 \in Nat /\ m + 1 # m
    BY <1>1
  <2>7. Ascending(x, numbers, p)
    BY <1>5, <1>7, <2>3, <2>5, <2>6
  <2> QED
    BY <2>2, <2>4, <2>7
<1> QED
  BY <1>4, <1>6, <1>7

\* The frame that the receiving side builds from the numbers that reached it
\* says nothing else.
LEMMA FrameIsHonest ==
    ASSUME NEW K \in Nat, NEW numbers \in SUBSET (1 .. K), numbers # {}, NEW close
    PROVE  HonestFrame(FrameOf(numbers, close), numbers)
<1> DEFINE N == Max(numbers)
           L == Min(numbers)
<1>1. N \in numbers /\ \A x \in numbers : x <= N
  <2>1. numbers \in SUBSET (0 .. K)
    OBVIOUS
  <2> QED
    BY <2>1, MaxOfNats
<1>2. L \in numbers /\ \A x \in numbers : L <= x
  <2>1. numbers \in SUBSET Nat
    OBVIOUS
  <2> QED
    BY <2>1, MinOfNats
<1>3. numbers \in SUBSET Nat /\ \A x \in numbers : x >= 1
  OBVIOUS
<1>4. N \in Nat /\ L \in Nat
  BY <1>1, <1>2, <1>3, Zenon
<1>5. PICK f : /\ f[0] = <<>>
               /\ \A n \in 1 .. N :
                      f[n] = IF n \in numbers THEN HistoryReceivedPacket(f[n - 1], n) ELSE f[n - 1]
               /\ FrameOf(numbers, close) = FrameWith(numbers, close, f[N])
  BY <1>4, FrameLoop
<1> HIDE DEF N, L
<1> DEFINE S == {n \in 0 .. N : Ascending(f[n], numbers, n)}
<1>6. 0 \in S
  <2>1. Ascending(<<>>, numbers, 0)
    <3>1. \A x \in numbers : ~ (x <= 0)
      BY <1>3
    <3>2. <<>> \in Seq([Start : Int, End : Int]) /\ Len(<<>>) = 0 /\ 1 .. 0 = {} /\ 2 .. 0 = {}
      OBVIOUS
    <3> QED
      BY <3>1, <3>2, Zenon DEF Ascending
  <2>2. 0 \in 0 .. N
    BY <1>4
  <2> QED
    BY <1>5, <2>1, <2>2
<1>7. ASSUME NEW n \in 0 .. N, n # N, n \in S PROVE n + 1 \in S
  <2>1. n + 1 \in 1 .. N /\ (n + 1) - 1 = n /\ n + 1 \in 0 .. N /\ n \in Nat
    BY <1>4, <1>7
  <2>2. Ascending(f[n], numbers, n)
    BY <1>7
  <2>3. f[n + 1] = IF n + 1 \in numbers THEN HistoryReceivedPacket(f[n], n + 1) ELSE f[n]
    BY <1>5, <2>1, Zenon
  <2>4. CASE n + 1 \in numbers
    <3>1. Ascending(HistoryReceivedPacket(f[n], n + 1), numbers, n + 1)
      BY <1>3, <2>1, <2>2, <2>4, AscendingStep
    <3> QED
      BY <2>1, <2>3, <2>4, <3>1
  <2>5. CASE n + 1 \notin numbers
    <3> DEFINE q == f[n]
               m == Len(q)
    <3>1. /\ q \in Seq([Start : Int, End : Int])
          /\ \A i \in 1 .. m :
               /\ q[i].Start <= q[i].End /\ q[i].End <= n /\ q[i].End <= q[m].End
               /\ q[i].Start .. q[i].End \subseteq numbers
          /\ \A i \in 2 .. m : q[i - 1].End + 1 # q[i].Start
          /\ \A x \in numbers : x <= n => \E i \in 1 .. m : x \in q[i].Start .. q[i].End
      BY <2>2, Zenon DEF Ascending
    <3> HIDE DEF q
    <3>2. \A i \in 1 .. m : q[i].End <= n + 1
      <4> TAKE i \in 1 .. m
      <4>1. q[i] \in [Start : Int, End : Int]
        BY <3>1, ElementIn, Zenon
      <4>2. q[i].End \in Int
        BY <4>1
      <4> QED
        BY <2>1, <3>1, <4>2
    <3>3. \A x \in numbers : x <= n + 1 => x <= n
      BY <1>3, <2>1, <2>5
    <3>4. Ascending(q, numbers, n + 1)
      BY <3>1, <3>2, <3>3, Zenon DEF Ascending
    <3> QED
      BY <2>1, <2>3, <2>5, <3>4 DEF q
  <2> QED
    BY <2>4, <2>5
<1>8. N \in S
  <2>1. \A n \in 0 .. N : n # N /\ n \in S => n + 1 \in S
    BY <1>7
  <2>2. N \in 0 .. N
    BY <1>4
  <2> HIDE DEF S
  <2> QED
    BY <1>4, <1>6, <2>1, <2>2, CountUp
<1> DEFINE rs == f[N]
           m == Len(rs)
           T == [Start : Int, End : Int]
           ar == IF m > 1 THEN Reverse(rs) ELSE <<>>
<1>9. Ascending(rs, numbers, N)
  BY <1>8
<1> HIDE DEF rs
<1>10. /\ rs \in Seq(T) /\ m \in Nat
       /\ \A i \in 1 .. m : /\ rs[i] \in T /\ rs[i].Start \in Int /\ rs[i].End \in Int
                            /\ rs[i].End <= N /\ rs[i].End <= rs[m].End
                            /\ rs[i].Start .. rs[i].End \subseteq numbers
       /\ \A x \in numbers : \E i \in 1 .. m : x \in rs[i].Start .. rs[i].End
  <2>1. rs \in Seq(T)
    BY <1>9 DEF Ascending
  <2>2. \A i \in 1 .. m : rs[i] \in T
    BY <2>1, ElementIn, Zenon
  <2> QED
    BY <1>1, <1>9, <2>1, <2>2 DEF Ascending
<1>11. m # 0 /\ m \in 1 .. m
  <2>1. \E i \in 1 .. m : N \in rs[i].Start .. rs[i].End
    BY <1>1, <1>10
  <2> QED
    BY <1>10, <2>1
<1>12. rs[m].End = N
  <2>1. PICK i \in 1 .. m : N \in rs[i].Start .. rs[i].End
    BY <1>1, <1>10, Zenon
  <2> DEFINE a == rs[i].Start
             b == rs[i].End
             c == rs[m].End
  <2>2. a \in Int /\ b \in Int /\ c \in Int /\ N \in a .. b /\ b <= c /\ c <= N
    BY <1>10, <1>11, <2>1
  <2> HIDE DEF a, b, c
  <2>3. c = N
    BY <1>4, <2>2
  <2> QED
    BY <2>3 DEF c
<1>13. ASSUME m > 1
       PROVE  /\ ar \in Seq(T) /\ Len(ar) = m /\ ar # <<>>
              /\ \A i \in 1 .. m : ar[i] = rs[(m - i) + 1]
  <2>1. ar = [i \in 1 .. m |-> rs[(m - i) + 1]]
    BY <1>13 DEF Reverse
  <2>2. \A i \in 1 .. m : (m - i) + 1 \in 1 .. m
    BY <1>10
  <2>3. \A i \in 1 .. m : rs[(m - i) + 1] \in T
    BY <1>10, <2>2
  <2>4. m \in Nat
    BY <1>10
  <2> HIDE DEF ar, m, T
  <2>5. ar \in Seq(T) /\ Len(ar) = m /\ \A i \in 1 .. m : ar[i] = rs[(m - i) + 1]
    BY <2>1, <2>3, <2>4
  <2>6. ar # <<>>
    BY <1>11, <2>5
  <2> QED
    BY <2>5, <2>6
<1>14. ASSUME ~ (m > 1) PROVE ar = <<>> /\ L .. N \subseteq numbers
  <2>1. m = 1
    <3>1. m \in Nat /\ m # 0
      BY <1>10, <1>11
    <3> HIDE DEF m
    <3> QED
      BY <1>14, <3>1
  <2>2. L \in rs[1].Start .. rs[1].End /\ N \in rs[1].Start .. rs[1].End
    BY <1>1, <1>2, <1>10, <2>1
  <2> DEFINE a == rs[1].Start
             b == rs[1].End
  <2>3. a \in Int /\ b \in Int /\ L \in a .. b /\ N \in a .. b /\ a .. b \subseteq numbers
    BY <1>10, <2>1, <2>2
  <2> HIDE DEF a, b
  <2>4. L .. N \subseteq numbers
    BY <1>4, <2>3
  <2> QED
    BY <1>14, <2>4
<1> DEFINE fr == FrameOf(numbers, close)
<1>15. fr.LargestAcked = N /\ fr.LowestAcked = L /\ fr.AckRanges = ar
  BY <1>5 DEF FrameWith, N, L, rs
<1> HIDE DEF fr, ar, m, T
<1>16. ASSUME m > 1 PROVE HonestFrame(fr, numbers)
  <2>1. ar[1] = rs[m] /\ 1 \in 1 .. m
    <3>1. 1 \in 1 .. m /\ (m - 1) + 1 = m
      BY <1>10, <1>16
    <3> QED
      BY <1>13, <1>16, <3>1
  <2>2. ar[1].End = N
    BY <1>12, <2>1
  <2>3. \A i \in 1 .. Len(ar) : ar[i].Start .. ar[i].End \subseteq numbers
    <3> TAKE i \in 1 .. Len(ar)
    <3>1. i \in 1 .. m /\ (m - i) + 1 \in 1 .. m
      BY <1>10, <1>13, <1>16
    <3>2. ar[i] = rs[(m - i) + 1]
      BY <1>13, <1>16, <3>1
    <3> QED
      BY <1>10, <3>1, <3>2
  <2>4. ar \in Seq([Start : Int, End : Int]) /\ ar # <<>>
    BY <1>13, <1>16 DEF T
  <2> QED
    BY <1>1, <1>4, <1>15, <2>2, <2>3, <2>4, Zenon DEF HonestFrame
<1>17. ASSUME ~ (m > 1) PROVE HonestFrame(fr, numbers)
  <2>1. ar = <<>> /\ L .. N \subseteq numbers
    BY <1>14, <1>17
  <2>2. <<>> \in Seq([Start : Int, End : Int]) /\ 1 .. Len(<<>>) = {}
    OBVIOUS
  <2>3. \A i \in 1 .. Len(ar) : ar[i].Start .. ar[i].End \subseteq numbers
    BY <2>1, <2>2, Zenon
  <2> QED
    BY <1>1, <1>4, <1>15, <2>1, <2>2, <2>3, Zenon DEF HonestFrame
<1> QED
  BY <1>16, <1>17 DEF fr
==========================================================================
