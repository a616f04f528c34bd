------------------------ MODULE FlowControlProofs ------------------------
(***************************************************************************)
(* Flow control is safe for every set of streams, every window size and    *)
(* every order of arrival: the counters of the two endpoints stay nested   *)
(* in each other, per stream and for the connection.                       *)
(***************************************************************************)
EXTENDS FlowControl, FiniteSetTheorems, WellFoundedInduction, TLAPS

\* The provers of a leaf that names none: a step may need Zenon, or SMT at length.
USE SMTT(10), ZenonT(20), SMTT(30)

\* The least element of a set of naturals, which Min chooses.
LEMMA MinOfNats ==
    ASSUME NEW I \in SUBSET Nat, I # {}
    PROVE  Min(I) \in I /\ \A i \in I : Min(I) <= i
<1>1. IsWellFoundedOn(OpToRel(<, Nat), Nat)
  BY NatLessThanWellFounded
<1>2. PICK x \in I : \A y \in I : ~ (<<y, x>> \in OpToRel(<, Nat))
  BY <1>1, WFMin
<1>3. ASSUME NEW y \in I PROVE x <= y
  <2>1. y < x => <<y, x>> \in OpToRel(<, Nat)
    BY Zenon DEF OpToRel
  <2>2. ~ (y < x)
    BY <1>2, <2>1
  <2> QED
    BY <2>2
<1> QED
  BY <1>3 DEF Min

\* The greatest element of a bounded set of naturals, which Max chooses.
LEMMA MaxOfNats ==
    ASSUME NEW n \in Nat, NEW I \in SUBSET (0 .. n), I # {}
    PROVE  Max(I) \in I /\ \A i \in I : i <= Max(I)
<1> DEFINE J == {n - i : i \in I}
<1>1. J \in SUBSET Nat /\ J # {}
  <2>1. \A i \in I : n - i \in Nat
    OBVIOUS
  <2> QED
    BY <2>1, Zenon
<1>2. Min(J) \in J /\ \A j \in J : Min(J) <= j
  BY <1>1, MinOfNats
<1>3. PICK x \in I : Min(J) = n - x
  BY <1>2
<1>4. ASSUME NEW i \in I PROVE i <= x
  <2>1. n - i \in J
    BY Zenon
  <2>2. n - x <= n - i
    BY <1>2, <1>3, <2>1
  <2> HIDE DEF J
  <2>3. i \in 0 .. n /\ x \in 0 .. n
    OBVIOUS
  <2> QED
    BY <2>2, <2>3
<1> QED
  BY <1>4 DEF Max

(***************************************************************************)
(* Counting the bytes of the connection.  The counters of the connection   *)
(* are sums over its streams; as numbers of bytes they can be compared     *)
(* without summing.                                                        *)
(***************************************************************************)
LEMMA CountedFinite ==
    ASSUME NEW h
    PROVE  IsFiniteSet(CountedBytes(h)) /\ Cardinality(CountedBytes(h)) \in Nat
<1>1. IsFiniteSet(1 .. Target)
  BY FS_Interval, FlowAssumption
<1>2. IsFiniteSet(Contributing \X (1 .. Target))
  BY <1>1, FS_Product, FlowAssumption, Zenon
<1>3. CountedBytes(h) \in SUBSET (Contributing \X (1 .. Target))
  BY DEF CountedBytes
<1>4. IsFiniteSet(CountedBytes(h))
  BY <1>2, <1>3, FS_Subset
<1> QED
  BY <1>4, FS_CardinalityType

\* Higher offsets count at least as many bytes.
LEMMA CountMonotone ==
    ASSUME NEW g \in [Streams -> Nat], NEW h \in [Streams -> Nat],
           \A id \in Contributing : g[id] <= h[id]
    PROVE  Cardinality(CountedBytes(g)) <= Cardinality(CountedBytes(h))
<1>1. ASSUME NEW b \in CountedBytes(g) PROVE b \in CountedBytes(h)
  <2>1. b \in Contributing \X (1 .. Target) /\ b[2] <= g[b[1]]
    BY DEF CountedBytes
  <2>2. b[1] \in Contributing /\ b[2] \in 1 .. Target
    BY <2>1
  <2>3. b[1] \in Streams
    BY <2>2, FlowAssumption, Zenon
  <2>4. g[b[1]] \in Nat /\ h[b[1]] \in Nat /\ g[b[1]] <= h[b[1]]
    BY <2>2, <2>3
  <2>5. b[2] \in Nat
    BY <2>2, FlowAssumption
  <2>6. b[2] <= h[b[1]]
    BY <2>1, <2>4, <2>5
  <2> QED
    BY <2>1, <2>6 DEF CountedBytes
<1>2. CountedBytes(g) \in SUBSET CountedBytes(h)
  BY <1>1
<1>3. IsFiniteSet(CountedBytes(h))
  BY CountedFinite
<1> QED
  BY <1>2, <1>3, FS_Subset

\* n more bytes of one stream of the connection count as n.
LEMMA CountAdds ==
    ASSUME NEW g \in [Streams -> Nat], NEW h \in [Streams -> Nat],
           NEW id \in Contributing, NEW n \in Nat,
           h[id] = g[id] + n, h[id] <= Target,
           \A i \in Streams \ {id} : h[i] = g[i]
    PROVE  Cardinality(CountedBytes(h)) = Cardinality(CountedBytes(g)) + n
<1> DEFINE New == {id} \X (g[id] + 1 .. g[id] + n)
<1>1. id \in Streams /\ g[id] \in Nat /\ Target \in Nat
  BY FlowAssumption
<1>2. CountedBytes(h) = CountedBytes(g) \cup New
  <2>1. ASSUME NEW i \in Contributing, NEW k \in 1 .. Target
        PROVE  k <= h[i] <=> k <= g[i] \/ (i = id /\ k \in g[id] + 1 .. g[id] + n)
    <3>1. i \in Streams /\ k \in Nat /\ g[i] \in Nat
      BY FlowAssumption, <1>1
    <3>2. CASE i = id
      BY <3>1, <3>2
    <3>3. CASE i # id
      BY <3>1, <3>3
    <3> QED
      BY <3>2, <3>3
  <2>2. ASSUME NEW b \in Contributing \X (1 .. Target)
        PROVE  b \in CountedBytes(h) <=> b \in CountedBytes(g) \cup New
    <3>1. PICK i \in Contributing, k \in 1 .. Target : b = <<i, k>>
      OBVIOUS
    <3>2. b \in CountedBytes(h) <=> k <= h[i]
      BY <3>1 DEF CountedBytes
    <3>3. b \in CountedBytes(g) <=> k <= g[i]
      BY <3>1 DEF CountedBytes
    <3>4. b \in New <=> (i = id /\ k \in g[id] + 1 .. g[id] + n)
      BY <3>1
    <3> QED
      BY <3>2, <3>3, <3>4, <2>1
  <2>3. New \subseteq Contributing \X (1 .. Target)
    BY <1>1
  <2>4. /\ CountedBytes(h) \subseteq Contributing \X (1 .. Target)
        /\ CountedBytes(g) \subseteq Contributing \X (1 .. Target)
    BY DEF CountedBytes
  <2> QED
    BY <2>2, <2>3, <2>4
<1>3. IsFiniteSet(New) /\ Cardinality(New) = n
  <2>1. /\ IsFiniteSet(g[id] + 1 .. g[id] + n)
        /\ Cardinality(g[id] + 1 .. g[id] + n) = n
    <3> DEFINE a == g[id] + 1
               b == g[id] + n
    <3>1. a \in Int /\ b \in Int /\ (IF a > b THEN 0 ELSE b - a + 1) = n
      BY <1>1
    <3> HIDE DEF a, b
    <3>2. /\ IsFiniteSet(a .. b)
          /\ Cardinality(a .. b) = IF a > b THEN 0 ELSE b - a + 1
      BY <3>1, FS_Interval, Zenon
    <3>3. IsFiniteSet(a .. b) /\ Cardinality(a .. b) = n
      BY <3>1, <3>2
    <3> QED
      BY <3>3 DEF a, b
  <2>2. IsFiniteSet({id}) /\ Cardinality({id}) = 1
    BY FS_Singleton, Zenon
  <2>3. /\ IsFiniteSet({id} \X (g[id] + 1 .. g[id] + n))
        /\ Cardinality({id} \X (g[id] + 1 .. g[id] + n))
             = Cardinality({id}) * Cardinality(g[id] + 1 .. g[id] + n)
    BY <2>1, <2>2, FS_Product, Zenon
  <2> QED
    BY <2>1, <2>2, <2>3
<1>4. CountedBytes(g) \cap New = {}
  <2>1. ASSUME NEW b \in CountedBytes(g), b \in New PROVE FALSE
    <3>1. b \in {id} \X (g[id] + 1 .. g[id] + n)
      BY <2>1
    <3>2. b[1] = id /\ b[2] \in g[id] + 1 .. g[id] + n
      BY <3>1
    <3>3. b[2] <= g[b[1]]
      BY <2>1 DEF CountedBytes
    <3> QED
      BY <3>2, <3>3, <1>1
  <2> QED
    BY <2>1
<1> HIDE DEF New
<1>5. Cardinality({}) = 0
  BY FS_EmptySet
<1>6. IsFiniteSet(CountedBytes(g)) /\ Cardinality(CountedBytes(g)) \in Nat
  BY CountedFinite
<1>7. Cardinality(CountedBytes(g) \cup New)
        = Cardinality(CountedBytes(g)) + Cardinality(New) - Cardinality(CountedBytes(g) \cap New)
  BY <1>3, <1>6, FS_Union
<1>8. Cardinality(CountedBytes(h))
        = Cardinality(CountedBytes(g)) + Cardinality(New) - Cardinality(CountedBytes(g) \cap New)
  BY <1>2, <1>7
<1>9. Cardinality(CountedBytes(g) \cap New) = 0
  BY <1>4, <1>5
<1>10. Cardinality(New) = n
  BY <1>3
<1> QED
  BY <1>6, <1>8, <1>9, <1>10
(***************************************************************************)
(* What the methods of one flow controller keep and change.                *)
(***************************************************************************)
LEMMA Windows ==
    \A id \in Ids : /\ WindowOf(id) \in Nat /\ MaxWindowOf(id) \in Nat
                   /\ WindowOf(id) <= MaxWindowOf(id)
BY FlowAssumption DEF WindowOf, MaxWindowOf

LEMMA ConnNoStream == Conn \notin Streams /\ Contributing \subseteq Streams
BY FlowAssumption DEF Conn

\* maybeAdjustWindowIncrement never lowers the increment, nor raises it past the maximum.
LEMMA AdjustKeeps ==
    ASSUME NEW id \in Ids, NEW c \in Receiver, NEW fast \in BOOLEAN,
           c.receiveWindowIncrement <= MaxWindowOf(id)
    PROVE  LET a == maybeAdjustWindowIncrement(id, c, fast)
           IN  /\ a \in Receiver
               /\ a.bytesRead = c.bytesRead
               /\ a.highestReceived = c.highestReceived
               /\ a.receiveWindow = c.receiveWindow
               /\ c.receiveWindowIncrement <= a.receiveWindowIncrement
               /\ a.receiveWindowIncrement <= MaxWindowOf(id)
<1> DEFINE a == maybeAdjustWindowIncrement(id, c, fast)
           inc == IF c.timed /\ fast
                  THEN IF 2 * c.receiveWindowIncrement < MaxWindowOf(id)
                       THEN 2 * c.receiveWindowIncrement ELSE MaxWindowOf(id)
                  ELSE c.receiveWindowIncrement
<1>1. c.receiveWindowIncrement \in Nat /\ MaxWindowOf(id) \in Nat
  BY Windows DEF Receiver
<1>2. inc \in Nat /\ c.receiveWindowIncrement <= inc /\ inc <= MaxWindowOf(id)
  BY <1>1
<1>3. a = [c EXCEPT !.receiveWindowIncrement = inc]
  BY DEF maybeAdjustWindowIncrement
<1> HIDE DEF a, inc
<1>4. /\ a \in Receiver
      /\ a.bytesRead = c.bytesRead
      /\ a.highestReceived = c.highestReceived
      /\ a.receiveWindow = c.receiveWindow
      /\ a.receiveWindowIncrement = inc
  BY <1>2, <1>3 DEF Receiver
<1> QED
  BY <1>2, <1>4 DEF a

\* MaybeUpdateWindow only moves the window, and only forwards.
LEMMA UpdateKeeps ==
    ASSUME NEW id \in Ids, NEW c \in Receiver, NEW fast \in BOOLEAN,
           c.receiveWindowIncrement <= MaxWindowOf(id)
    PROVE  LET u == MaybeUpdateWindow(id, c, fast)
           IN  /\ u \in Receiver
               /\ u.bytesRead = c.bytesRead
               /\ u.highestReceived = c.highestReceived
               /\ c.receiveWindow <= u.receiveWindow
               /\ c.receiveWindowIncrement <= u.receiveWindowIncrement
               /\ u.receiveWindowIncrement <= MaxWindowOf(id)
<1> DEFINE u == MaybeUpdateWindow(id, c, fast)
           a == maybeAdjustWindowIncrement(id, c, fast)
           w == a.bytesRead + a.receiveWindowIncrement
           yes == TRUE
<1>0. yes \in BOOLEAN
  OBVIOUS
<1>1. /\ a \in Receiver
      /\ a.bytesRead = c.bytesRead
      /\ a.highestReceived = c.highestReceived
      /\ c.receiveWindowIncrement <= a.receiveWindowIncrement
      /\ a.receiveWindowIncrement <= MaxWindowOf(id)
  BY AdjustKeeps
<1>2. CASE ~ UpdateNecessary(c)
  <2>1. u = c
    BY <1>2 DEF MaybeUpdateWindow
  <2>2. c.receiveWindow \in Nat /\ c.receiveWindowIncrement \in Nat
    BY DEF Receiver
  <2> QED
    BY <2>1, <2>2
<1>3. CASE UpdateNecessary(c)
  <2>1. u = [a EXCEPT !.timed = yes, !.receiveWindow = w]
    BY <1>3 DEF MaybeUpdateWindow
  <2>2. /\ c.bytesRead \in Nat /\ c.receiveWindow \in Nat /\ c.receiveWindowIncrement \in Nat
        /\ a.receiveWindowIncrement \in Nat
    <3> HIDE DEF a
    <3> QED
      BY <1>1 DEF Receiver
  <2>3. w \in Nat /\ c.receiveWindow <= w
    <3> HIDE DEF a
    <3>1. c.receiveWindow - c.bytesRead < c.receiveWindowIncrement \div 2
      BY <1>3 DEF UpdateNecessary
    <3> QED
      BY <1>1, <2>2, <3>1
  <2> HIDE DEF u, a, w, yes
  <2>4. /\ u \in Receiver
        /\ u.bytesRead = a.bytesRead
        /\ u.highestReceived = a.highestReceived
        /\ u.receiveWindow = w
        /\ u.receiveWindowIncrement = a.receiveWindowIncrement
    BY <1>0, <1>1, <2>1, <2>3, Zenon DEF Receiver
  <2> QED
    BY <1>1, <2>3, <2>4 DEF u
<1> QED
  BY <1>2, <1>3

\* EnsureMinimumWindowIncrement only changes the increment and the time of the update.
LEMMA EnsureKeeps ==
    ASSUME NEW c \in Receiver, NEW inc \in Nat,
           c.receiveWindowIncrement <= MaxConnWindow
    PROVE  LET e == EnsureMinimumWindowIncrement(c, inc)
           IN  /\ e \in Receiver
               /\ e.bytesRead = c.bytesRead
               /\ e.highestReceived = c.highestReceived
               /\ e.receiveWindow = c.receiveWindow
               /\ c.receiveWindowIncrement <= e.receiveWindowIncrement
               /\ e.receiveWindowIncrement <= MaxConnWindow
<1> DEFINE e == EnsureMinimumWindowIncrement(c, inc)
           m == IF inc < MaxConnWindow THEN inc ELSE MaxConnWindow
           no == FALSE
<1>0. c.receiveWindowIncrement \in Nat
  BY DEF Receiver
<1>1. m \in Nat /\ m <= MaxConnWindow /\ no \in BOOLEAN
  BY FlowAssumption
<1>2. CASE inc > c.receiveWindowIncrement
  <2>1. e = [c EXCEPT !.receiveWindowIncrement = m, !.timed = no]
    BY <1>2 DEF EnsureMinimumWindowIncrement
  <2> HIDE DEF e, m, no
  <2>2. /\ e \in Receiver
        /\ e.bytesRead = c.bytesRead
        /\ e.highestReceived = c.highestReceived
        /\ e.receiveWindow = c.receiveWindow
        /\ e.receiveWindowIncrement = m
    BY <1>1, <2>1, Zenon DEF Receiver
  <2>3. c.receiveWindowIncrement <= m
    BY <1>0, <1>2, FlowAssumption DEF m
  <2> QED
    BY <1>1, <2>2, <2>3 DEF e
<1>3. CASE ~ (inc > c.receiveWindowIncrement)
  BY <1>0, <1>3 DEF EnsureMinimumWindowIncrement
<1> QED
  BY <1>2, <1>3
\* The increments that the streams ask of the connection have a greatest one.
LEMMA RaisedKeeps ==
    ASSUME TypeOK, NEW force \in BOOLEAN, NEW fast
    PROVE  LET e == RaisedConn(force, fast)
           IN  /\ e \in Receiver
               /\ e.bytesRead = rcv[Conn].bytesRead
               /\ e.highestReceived = rcv[Conn].highestReceived
               /\ e.receiveWindow = rcv[Conn].receiveWindow
               /\ rcv[Conn].receiveWindowIncrement <= e.receiveWindowIncrement
               /\ e.receiveWindowIncrement <= MaxConnWindow
<1> DEFINE raises == {(3 * NewIncrement(id, rcv[id], id \in fast)) \div 2 :
                         id \in Due(force) \cap Contributing}
           N == 3 * MaxStreamWindow
<1>0. MaxStreamWindow \in Nat /\ N \in Nat
  BY FlowAssumption
<1>1. ASSUME NEW id \in Streams
      PROVE  (3 * NewIncrement(id, rcv[id], id \in fast)) \div 2 \in 0 .. N
  <2> DEFINE b == id \in fast
             a == maybeAdjustWindowIncrement(id, rcv[id], b)
  <2>1. id \in Ids /\ b \in BOOLEAN /\ MaxWindowOf(id) = MaxStreamWindow
    BY ConnNoStream DEF Ids, MaxWindowOf
  <2>2. rcv[id] \in Receiver /\ rcv[id].receiveWindowIncrement <= MaxWindowOf(id)
    BY <2>1 DEF TypeOK
  <2> HIDE DEF b
  <2>3. a \in Receiver /\ a.receiveWindowIncrement <= MaxWindowOf(id)
    BY <2>1, <2>2, AdjustKeeps
  <2>4. NewIncrement(id, rcv[id], b) \in {0, a.receiveWindowIncrement, rcv[id].receiveWindowIncrement}
    BY DEF NewIncrement
  <2>5. a.receiveWindowIncrement \in 0 .. MaxStreamWindow
    <3> HIDE DEF a
    <3> QED
      BY <2>1, <2>3, <1>0 DEF Receiver
  <2>6. rcv[id].receiveWindowIncrement \in 0 .. MaxStreamWindow
    BY <2>1, <2>2, <1>0 DEF Receiver
  <2>7. NewIncrement(id, rcv[id], b) \in 0 .. MaxStreamWindow
    <3> HIDE DEF a
    <3> QED
      BY <2>4, <2>5, <2>6, <1>0
  <2>8. ASSUME NEW x \in 0 .. MaxStreamWindow PROVE (3 * x) \div 2 \in 0 .. N
    BY <1>0
  <2>9. (3 * NewIncrement(id, rcv[id], b)) \div 2 \in 0 .. N
    BY <2>7, <2>8
  <2> QED
    BY <2>9 DEF b
<1>2. raises \cup {0} \in SUBSET (0 .. N) /\ raises \cup {0} # {}
  <2>1. \A id \in Due(force) \cap Contributing : id \in Streams
    BY ConnNoStream
  <2>2. raises \subseteq 0 .. N
    BY <1>1, <2>1, Zenon
  <2>3. 0 \in 0 .. N
    BY <1>0
  <2> HIDE DEF raises, N
  <2> QED
    BY <2>2, <2>3
<1>3. Max(raises \cup {0}) \in 0 .. N
  <2> HIDE DEF raises, N
  <2> QED
    BY <1>0, <1>2, MaxOfNats, Zenon
<1>4. Max(raises \cup {0}) \in Nat
  BY <1>3, <1>0
<1>5. RaisedConn(force, fast) = EnsureMinimumWindowIncrement(rcv[Conn], Max(raises \cup {0}))
  BY DEF RaisedConn
<1>6. rcv[Conn] \in Receiver /\ rcv[Conn].receiveWindowIncrement <= MaxConnWindow
  BY DEF TypeOK, Ids, MaxWindowOf
<1> HIDE DEF raises
<1> QED
  BY <1>4, <1>5, <1>6, EnsureKeeps

(***************************************************************************)
(* The inductive invariant: besides the properties themselves, a stream    *)
(* sends no more than the application has, and every WINDOW_UPDATE frame   *)
(* that may still arrive lies between the negotiated window and the        *)
(* receiver's.                                                             *)
(***************************************************************************)
Inv ==
    /\ TypeOK
    /\ ConnCountsBytes
    /\ LimitsNested
    /\ NoFlowControlError
    /\ \A id \in Streams : snd[id].bytesSent <= Target
    /\ \A id \in Ids : WindowOf(id) <= rcv[id].receiveWindow
    /\ \A u \in updates : WindowOf(u[1]) <= u[2] /\ u[2] <= rcv[u[1]].receiveWindow

\* n more bytes of a stream count as n for the connection, or not at all.
LEMMA CountStep ==
    ASSUME NEW g \in [Streams -> Nat], NEW h \in [Streams -> Nat],
           NEW id \in Streams, NEW n \in Nat,
           h[id] = g[id] + n, h[id] <= Target,
           \A i \in Streams \ {id} : h[i] = g[i]
    PROVE  Cardinality(CountedBytes(h))
             = Cardinality(CountedBytes(g)) + IF id \in Contributing THEN n ELSE 0
<1>1. CASE id \in Contributing
  BY <1>1, CountAdds
<1>2. CASE id \notin Contributing
  <2>1. \A i \in Contributing : i \in Streams \ {id}
    BY <1>2, ConnNoStream
  <2>2. \A i \in Contributing : g[i] <= h[i] /\ h[i] <= g[i]
    BY <2>1
  <2>3. /\ Cardinality(CountedBytes(g)) <= Cardinality(CountedBytes(h))
        /\ Cardinality(CountedBytes(h)) <= Cardinality(CountedBytes(g))
    BY <2>2, CountMonotone
  <2>4. Cardinality(CountedBytes(g)) \in Nat /\ Cardinality(CountedBytes(h)) \in Nat
    BY CountedFinite
  <2> QED
    BY <1>2, <2>3, <2>4
<1> QED
  BY <1>1, <1>2

LEMMA OffsetTypes ==
    ASSUME TypeOK
    PROVE  /\ SentOffsets \in [Streams -> Nat]
           /\ ReceivedOffsets \in [Streams -> Nat]
           /\ ReadOffsets \in [Streams -> Nat]
<1>1. \A id \in Streams : snd[id] \in Sender /\ rcv[id] \in Receiver
  BY DEF TypeOK, Ids
<1>2. \A id \in Streams : /\ snd[id].bytesSent \in Nat
                          /\ rcv[id].highestReceived \in Nat /\ rcv[id].bytesRead \in Nat
  BY <1>1 DEF Sender, Receiver
<1> QED
  BY <1>2 DEF SentOffsets, ReceivedOffsets, ReadOffsets

LEMMA InitInv == Init => Inv
<1> SUFFICES ASSUME Init PROVE Inv
  OBVIOUS
<1>1. ASSUME NEW id \in Ids
      PROVE  /\ snd[id] \in Sender
             /\ snd[id].bytesSent = 0 /\ snd[id].sendWindow = 0
             /\ rcv[id] \in Receiver
             /\ rcv[id].bytesRead = 0 /\ rcv[id].highestReceived = 0
             /\ rcv[id].receiveWindow = WindowOf(id)
             /\ rcv[id].receiveWindowIncrement <= MaxWindowOf(id)
  BY Windows DEF Init, NewReceiver, Sender, Receiver
<1>2. TypeOK
  <2>1. snd \in [Ids -> Sender]
    BY <1>1, Zenon DEF Init
  <2>2. rcv \in [Ids -> Receiver]
    BY <1>1, Zenon DEF Init
  <2> QED
    BY <1>1, <2>1, <2>2, Zenon DEF Init, TypeOK
<1>3. LimitsNested
  <2>1. ASSUME NEW id \in Ids PROVE getSendWindow(id, snd[id]) = WindowOf(id)
    BY <1>1 DEF getSendWindow
  <2> QED
    BY <1>1, <2>1, Windows DEF LimitsNested
<1>4. ConnCountsBytes
  <2>1. ASSUME NEW h \in [Streams -> {0}] PROVE Cardinality(CountedBytes(h)) = 0
    <3>1. ASSUME NEW b \in CountedBytes(h) PROVE FALSE
      <4>1. b \in Contributing \X (1 .. Target) /\ b[2] <= h[b[1]]
        BY DEF CountedBytes
      <4>2. b[1] \in Streams /\ b[2] \in 1 .. Target
        BY <4>1, ConnNoStream
      <4>3. h[b[1]] = 0
        BY <4>2
      <4> QED
        BY <4>1, <4>2, <4>3, FlowAssumption
    <3>2. CountedBytes(h) = {}
      BY <3>1
    <3> QED
      BY <3>2, FS_EmptySet
  <2>2. Conn \in Ids /\ Streams \subseteq Ids
    BY DEF Ids
  <2>3. /\ SentOffsets \in [Streams -> {0}]
        /\ ReceivedOffsets \in [Streams -> {0}]
        /\ ReadOffsets \in [Streams -> {0}]
    BY <1>1, <2>2 DEF SentOffsets, ReceivedOffsets, ReadOffsets
  <2> QED
    BY <1>1, <2>1, <2>2, <2>3 DEF ConnCountsBytes
<1>5. \A id \in Streams : snd[id].bytesSent <= Target
  BY <1>1, FlowAssumption DEF Ids
<1> QED
  BY <1>1, <1>2, <1>3, <1>4, <1>5, Windows DEF Init, Inv, NoFlowControlError
\* The fields of the flow controllers are naturals, those of the connection too.
LEMMA FieldTypes ==
    ASSUME TypeOK, NEW id \in Ids
    PROVE  /\ snd[id] \in Sender /\ rcv[id] \in Receiver
           /\ snd[id].bytesSent \in Nat /\ snd[id].sendWindow \in Nat
           /\ rcv[id].bytesRead \in Nat /\ rcv[id].highestReceived \in Nat
           /\ rcv[id].receiveWindow \in Nat /\ rcv[id].receiveWindowIncrement \in Nat
           /\ getSendWindow(id, snd[id]) \in Nat
<1>1. snd[id] \in Sender /\ rcv[id] \in Receiver
  BY DEF TypeOK
<1>2. /\ snd[id].bytesSent \in Nat /\ snd[id].sendWindow \in Nat
      /\ rcv[id].bytesRead \in Nat /\ rcv[id].highestReceived \in Nat
      /\ rcv[id].receiveWindow \in Nat /\ rcv[id].receiveWindowIncrement \in Nat
  BY <1>1 DEF Sender, Receiver
<1> QED
  BY <1>1, <1>2, Windows DEF getSendWindow

\* A step that changes no flow controller and no set of frames keeps the invariant.
LEMMA FrameSame ==
    ASSUME Inv, UNCHANGED <<snd, rcv, updates, status>>, TypeOK'
    PROVE  Inv'
<1>1. /\ SentOffsets' = SentOffsets /\ ReceivedOffsets' = ReceivedOffsets
      /\ ReadOffsets' = ReadOffsets
  BY DEF SentOffsets, ReceivedOffsets, ReadOffsets
<1>2. ConnCountsBytes'
  BY <1>1 DEF Inv, ConnCountsBytes, CountedBytes
<1>3. LimitsNested'
  BY DEF Inv, LimitsNested, getSendWindow, WindowOf
<1> QED
  BY <1>2, <1>3 DEF Inv, NoFlowControlError, WindowOf

LEMMA SendStep ==
    ASSUME Inv, NEW id \in Streams, NEW n \in 1 .. Target, NEW fin \in BOOLEAN, Send(id, n, fin)
    PROVE  Inv'
<1> DEFINE add(i) == IF i \in Counts(id) THEN n ELSE 0
<1>0. TypeOK /\ LimitsNested /\ ConnCountsBytes /\ id \in Ids /\ Conn \in Ids /\ n \in Nat
  BY FlowAssumption DEF Inv, Ids
<1>1. Counts(id) \subseteq {id, Conn} /\ id \in Counts(id)
      /\ (Conn \in Counts(id) <=> id \in Contributing)
  BY ConnNoStream DEF Counts
<1>2. ASSUME NEW i \in Ids
      PROVE  /\ snd'[i] \in Sender
             /\ snd'[i].bytesSent = snd[i].bytesSent + add(i)
             /\ snd'[i].sendWindow = snd[i].sendWindow
  <2>1. snd[i] \in Sender /\ snd[i].bytesSent \in Nat
    BY <1>0, FieldTypes
  <2>2. snd'[i] = IF i \in Counts(id) THEN [snd[i] EXCEPT !.bytesSent = @ + n] ELSE snd[i]
    BY DEF Send
  <2> QED
    BY <1>0, <2>1, <2>2 DEF Sender
<1>3. UNCHANGED <<rcv, updates, peerBlocked, wasReset, gotReset, status>>
      /\ snd' = [i \in Ids |-> snd'[i]] /\ blocked' \in BOOLEAN
  BY DEF Send, Inv, TypeOK
<1>4. TypeOK'
  <2>1. snd' \in [Ids -> Sender]
    BY <1>2, <1>3
  <2> QED
    BY <1>0, <1>3, <2>1 DEF TypeOK, MaxWindowOf
<1>5. ASSUME NEW i \in Ids PROVE getSendWindow(i, snd'[i]) = getSendWindow(i, snd[i])
  BY <1>2 DEF getSendWindow
<1>6. n <= FlowSendWindowSize(id, snd[id])
      /\ (id \in Contributing => n <= FlowSendWindowSize(Conn, snd[Conn]))
  <2>1. n <= SendWindowSize(id)
    BY DEF Send
  <2>2. ASSUME NEW i \in Ids PROVE FlowSendWindowSize(i, snd[i]) \in Nat
    BY <1>0, FieldTypes DEF FlowSendWindowSize
  <2> QED
    BY <1>0, <2>1, <2>2 DEF SendWindowSize
<1>7. ASSUME NEW i \in Ids PROVE snd[i].bytesSent + add(i) <= getSendWindow(i, snd[i])
  <2>1. /\ snd[i].bytesSent \in Nat /\ getSendWindow(i, snd[i]) \in Nat
        /\ snd[i].bytesSent <= getSendWindow(i, snd[i])
    BY <1>0, FieldTypes DEF LimitsNested
  <2>2. FlowSendWindowSize(i, snd[i]) = getSendWindow(i, snd[i]) - snd[i].bytesSent
    BY <2>1 DEF FlowSendWindowSize
  <2>3. i \in Counts(id) => n <= FlowSendWindowSize(i, snd[i])
    BY <1>1, <1>6
  <2> QED
    BY <1>0, <2>1, <2>2, <2>3
<1>8. LimitsNested'
  <2>1. ASSUME NEW i \in Ids
        PROVE  /\ rcv'[i].bytesRead <= rcv'[i].highestReceived
               /\ rcv'[i].highestReceived <= snd'[i].bytesSent
               /\ snd'[i].bytesSent <= getSendWindow(i, snd'[i])
               /\ getSendWindow(i, snd'[i]) <= rcv'[i].receiveWindow
    <3>1. /\ rcv[i].bytesRead <= rcv[i].highestReceived
          /\ rcv[i].highestReceived <= snd[i].bytesSent
          /\ getSendWindow(i, snd[i]) <= rcv[i].receiveWindow
      BY <1>0 DEF LimitsNested
    <3>2. add(i) \in Nat /\ snd[i].bytesSent \in Nat /\ rcv[i].highestReceived \in Nat
      BY <1>0, FieldTypes
    <3>3. rcv'[i] = rcv[i]
      BY <1>3
    <3> HIDE DEF add
    <3> QED
      BY <1>2, <1>5, <1>7, <3>1, <3>2, <3>3
  <2> QED
    BY <2>1 DEF LimitsNested, getSendWindow, WindowOf
<1>9. \A i \in Streams : snd'[i].bytesSent <= Target
  <2>1. snd[id].bytesSent + n <= Target
    BY DEF Send
  <2>2. ASSUME NEW i \in Streams PROVE snd'[i].bytesSent <= Target
    <3>1. i \in Ids /\ snd[i].bytesSent \in Nat /\ snd[i].bytesSent <= Target
      BY <1>0, FieldTypes DEF Ids, Inv
    <3>2. i # id => i \notin Counts(id)
      BY <1>1, ConnNoStream
    <3> QED
      BY <1>2, <2>1, <3>1, <3>2
  <2> QED
    BY <2>2
<1>10. ConnCountsBytes'
  <2>1. SentOffsets \in [Streams -> Nat] /\ SentOffsets' \in [Streams -> Nat]
    <3>1. SentOffsets \in [Streams -> Nat]
      BY <1>0, OffsetTypes
    <3>2. \A i \in Streams : snd'[i].bytesSent \in Nat
      BY <1>2 DEF Ids, Sender
    <3> QED
      BY <3>1, <3>2 DEF SentOffsets
  <2>2. SentOffsets'[id] = SentOffsets[id] + n /\ SentOffsets'[id] <= Target
    BY <1>0, <1>1, <1>2, <1>9 DEF SentOffsets
  <2>3. \A i \in Streams \ {id} : SentOffsets'[i] = SentOffsets[i]
    <3>1. ASSUME NEW i \in Streams \ {id} PROVE snd'[i].bytesSent = snd[i].bytesSent
      <4>1. i \in Ids /\ i \notin Counts(id) /\ snd[i].bytesSent \in Nat
        BY <1>0, <1>1, ConnNoStream, FieldTypes DEF Ids
      <4> QED
        BY <1>2, <4>1
    <3> QED
      BY <3>1 DEF SentOffsets
  <2> DEFINE g == SentOffsets
             h == SentOffsets'
  <2>4. Cardinality(CountedBytes(h))
          = Cardinality(CountedBytes(g)) + IF id \in Contributing THEN n ELSE 0
    <3> HIDE DEF g, h
    <3>1. /\ g \in [Streams -> Nat] /\ h \in [Streams -> Nat]
          /\ h[id] = g[id] + n /\ h[id] <= Target
          /\ \A i \in Streams \ {id} : h[i] = g[i]
      BY <2>1, <2>2, <2>3 DEF g, h
    <3> QED
      BY <1>0, <3>1, CountStep
  <2>5. snd'[Conn].bytesSent = Cardinality(CountedBytes(h))
    BY <1>0, <1>1, <1>2, <2>4 DEF ConnCountsBytes
  <2>6. ReceivedOffsets' = ReceivedOffsets /\ ReadOffsets' = ReadOffsets
    BY <1>3 DEF ReceivedOffsets, ReadOffsets
  <2> QED
    BY <1>0, <1>3, <2>5, <2>6 DEF ConnCountsBytes, CountedBytes
<1> QED
  BY <1>3, <1>4, <1>8, <1>9, <1>10 DEF Inv, NoFlowControlError, WindowOf
\* What a stream frame or a RST_STREAM frame that arrives does to the receiver.
LEMMA ReceivedStep ==
    ASSUME Inv, NEW id \in Streams, NEW off \in Nat, off <= snd[id].bytesSent,
           rcv' = Received(id, off), UNCHANGED <<snd, updates, blocked, peerBlocked>>,
           wasReset' \subseteq Streams, gotReset' \subseteq wasReset', status' = Verdict(id, rcv')
    PROVE  Inv'
<1> DEFINE inc == Increment(rcv[id], off)
           c == IncrementHighestReceived(rcv[id], inc)
           add(i) == IF i \in Counts(id) THEN inc ELSE 0
<1>0. TypeOK /\ LimitsNested /\ ConnCountsBytes /\ id \in Ids /\ Conn \in Ids
      /\ snd[id].bytesSent <= Target /\ Target \in Nat
  BY FlowAssumption DEF Inv, Ids
<1>1. Counts(id) \subseteq {id, Conn} /\ id \in Counts(id)
      /\ (Conn \in Counts(id) <=> id \in Contributing)
  BY ConnNoStream DEF Counts
<1>2. inc \in Nat /\ rcv[id].highestReceived + inc <= snd[id].bytesSent
  <2>1. /\ rcv[id].highestReceived \in Nat /\ snd[id].bytesSent \in Nat
        /\ rcv[id].highestReceived <= snd[id].bytesSent
    BY <1>0, FieldTypes DEF LimitsNested
  <2> QED
    BY <2>1 DEF Increment
<1>3. c.highestReceived = rcv[id].highestReceived + inc /\ c.receiveWindow = rcv[id].receiveWindow
  <2>1. rcv[id] \in Receiver
    BY <1>0, FieldTypes
  <2> HIDE DEF inc
  <2> QED
    BY <2>1 DEF IncrementHighestReceived, Receiver
<1>4. ~ CheckFlowControlViolation(c)
  <2>1. /\ rcv[id].highestReceived \in Nat /\ snd[id].bytesSent \in Nat
        /\ getSendWindow(id, snd[id]) \in Nat /\ rcv[id].receiveWindow \in Nat
        /\ snd[id].bytesSent <= getSendWindow(id, snd[id])
        /\ getSendWindow(id, snd[id]) <= rcv[id].receiveWindow
    BY <1>0, FieldTypes DEF LimitsNested
  <2> HIDE DEF inc, c
  <2> QED
    BY <1>2, <1>3, <2>1 DEF CheckFlowControlViolation
<1>5. ASSUME NEW i \in Ids
      PROVE  /\ rcv'[i] \in Receiver
             /\ rcv'[i].highestReceived = rcv[i].highestReceived + add(i)
             /\ rcv'[i].bytesRead = rcv[i].bytesRead
             /\ rcv'[i].receiveWindow = rcv[i].receiveWindow
             /\ rcv'[i].receiveWindowIncrement = rcv[i].receiveWindowIncrement
  <2>1. rcv[i] \in Receiver /\ rcv[i].highestReceived \in Nat
    BY <1>0, FieldTypes
  <2>2. rcv'[i] = IF i \in Counts(id) THEN IncrementHighestReceived(rcv[i], inc) ELSE rcv[i]
    BY <1>1, <1>4 DEF Received
  <2> HIDE DEF inc
  <2> QED
    BY <1>2, <2>1, <2>2 DEF Receiver, IncrementHighestReceived
<1> HIDE DEF inc, c
<1>6. rcv' = [i \in Ids |-> rcv'[i]]
  BY DEF Received
<1>7. ASSUME NEW i \in Streams
      PROVE  /\ rcv'[i].highestReceived <= snd[i].bytesSent
             /\ rcv'[i].highestReceived \in Nat /\ rcv'[i].bytesRead \in Nat
             /\ i # id => rcv'[i].highestReceived = rcv[i].highestReceived
  <2>1. i \in Ids /\ rcv[i].highestReceived \in Nat /\ rcv[i].bytesRead \in Nat
        /\ rcv[i].highestReceived <= snd[i].bytesSent /\ (i # id => i \notin Counts(id))
    BY <1>0, <1>1, ConnNoStream, FieldTypes DEF Ids, LimitsNested
  <2> QED
    BY <1>1, <1>2, <1>5, <2>1
<1>8. /\ rcv'[Conn].highestReceived = Cardinality(CountedBytes(ReceivedOffsets'))
      /\ Cardinality(CountedBytes(ReceivedOffsets')) <= snd[Conn].bytesSent
      /\ ReadOffsets' = ReadOffsets
  <2> DEFINE g == ReceivedOffsets
             h == ReceivedOffsets'
             t == SentOffsets
  <2>1. g \in [Streams -> Nat] /\ t \in [Streams -> Nat] /\ h \in [Streams -> Nat]
    <3>1. g \in [Streams -> Nat] /\ t \in [Streams -> Nat]
      BY <1>0, OffsetTypes
    <3> QED
      BY <1>7, <3>1 DEF ReceivedOffsets
  <2>2. h[id] = g[id] + inc /\ h[id] <= Target
    <3>1. rcv'[id].highestReceived = rcv[id].highestReceived + inc
      BY <1>0, <1>1, <1>5
    <3>2. rcv[id].highestReceived \in Nat /\ snd[id].bytesSent \in Nat
      BY <1>0, FieldTypes
    <3> QED
      BY <1>0, <1>2, <3>1, <3>2 DEF ReceivedOffsets
  <2>3. \A i \in Streams \ {id} : h[i] = g[i]
    BY <1>7 DEF ReceivedOffsets
  <2>4. \A i \in Contributing : h[i] <= t[i]
    BY <1>7, ConnNoStream DEF ReceivedOffsets, SentOffsets
  <2>5. snd[Conn].bytesSent = Cardinality(CountedBytes(t))
        /\ rcv[Conn].highestReceived = Cardinality(CountedBytes(g))
    BY <1>0 DEF ConnCountsBytes
  <2>6. ReadOffsets' = ReadOffsets
    BY <1>5 DEF ReadOffsets, Ids
  <2> HIDE DEF g, h, t
  <2>7. Cardinality(CountedBytes(h))
          = Cardinality(CountedBytes(g)) + IF id \in Contributing THEN inc ELSE 0
    BY <1>2, <2>1, <2>2, <2>3, CountStep
  <2>8. Cardinality(CountedBytes(h)) <= Cardinality(CountedBytes(t))
    BY <2>1, <2>4, CountMonotone
  <2>9. rcv'[Conn].highestReceived = Cardinality(CountedBytes(h))
    BY <1>0, <1>1, <1>5, <2>5, <2>7
  <2>10. Cardinality(CountedBytes(h)) <= snd[Conn].bytesSent
    BY <2>5, <2>8
  <2> QED
    BY <2>6, <2>9, <2>10 DEF h
<1>9. LimitsNested'
  <2>1. ASSUME NEW i \in Ids
        PROVE  /\ rcv'[i].bytesRead <= rcv'[i].highestReceived
               /\ rcv'[i].highestReceived <= snd'[i].bytesSent
               /\ snd'[i].bytesSent <= getSendWindow(i, snd'[i])
               /\ getSendWindow(i, snd'[i]) <= rcv'[i].receiveWindow
    <3>1. /\ rcv[i].bytesRead <= rcv[i].highestReceived
          /\ snd[i].bytesSent <= getSendWindow(i, snd[i])
          /\ getSendWindow(i, snd[i]) <= rcv[i].receiveWindow
      BY <1>0 DEF LimitsNested
    <3>2. add(i) \in Nat /\ rcv[i].bytesRead \in Nat /\ rcv[i].highestReceived \in Nat
      BY <1>0, <1>2, FieldTypes
    <3>3. snd'[i] = snd[i]
      OBVIOUS
    <3>4. rcv'[i].highestReceived <= snd[i].bytesSent
      <4>1. CASE i = Conn
        BY <1>8, <4>1
      <4>2. CASE i \in Streams
        BY <1>7, <4>2
      <4> QED
        BY <4>1, <4>2 DEF Ids
    <3>5. rcv'[i].bytesRead <= rcv'[i].highestReceived
      <4> HIDE DEF add
      <4> QED
        BY <1>5, <3>1, <3>2
    <3> QED
      BY <1>5, <3>1, <3>3, <3>4, <3>5
  <2> QED
    BY <2>1 DEF LimitsNested, getSendWindow, WindowOf
<1>10. status' = "open"
  <2>1. ASSUME NEW i \in Counts(id) PROVE ~ CheckFlowControlViolation(rcv'[i])
    <3>1. i \in Ids
      BY <1>0, <1>1
    <3>2. /\ rcv'[i].highestReceived <= snd[i].bytesSent
          /\ snd[i].bytesSent <= getSendWindow(i, snd[i])
          /\ getSendWindow(i, snd[i]) <= rcv'[i].receiveWindow
      BY <1>9, <3>1 DEF LimitsNested, getSendWindow, WindowOf
    <3>3. /\ rcv'[i].highestReceived \in Nat /\ rcv'[i].receiveWindow \in Nat
          /\ snd[i].bytesSent \in Nat /\ getSendWindow(i, snd[i]) \in Nat
      BY <1>0, <1>5, <3>1, FieldTypes DEF Receiver
    <3> QED
      BY <3>2, <3>3 DEF CheckFlowControlViolation
  <2> QED
    BY <2>1 DEF Verdict
<1>11. TypeOK'
  <2>1. rcv' \in [Ids -> Receiver]
    BY <1>5, <1>6
  <2>2. \A i \in Ids : rcv'[i].receiveWindowIncrement <= MaxWindowOf(i)
    BY <1>0, <1>5 DEF TypeOK
  <2> QED
    BY <1>0, <1>10, <2>1, <2>2 DEF TypeOK, MaxWindowOf
<1>12. ConnCountsBytes'
  <2>1. SentOffsets' = SentOffsets
    BY DEF SentOffsets
  <2> QED
    BY <1>0, <1>5, <1>8, <2>1 DEF ConnCountsBytes, CountedBytes
<1>13. \A i \in Ids : WindowOf(i) <= rcv'[i].receiveWindow
  BY <1>5 DEF Inv
<1>14. \A u \in updates : WindowOf(u[1]) <= u[2] /\ u[2] <= rcv'[u[1]].receiveWindow
  <2>1. \A u \in updates : u[1] \in Ids
    BY <1>0 DEF TypeOK
  <2> QED
    BY <1>5, <2>1 DEF Inv
<1>15. \A i \in Streams : snd'[i].bytesSent <= Target
  BY DEF Inv
<1> QED
  BY <1>9, <1>10, <1>11, <1>12, <1>13, <1>14, <1>15 DEF Inv, NoFlowControlError, WindowOf
LEMMA ReadStep ==
    ASSUME Inv, NEW id \in Streams, NEW n \in 1 .. Target, Read(id, n)
    PROVE  Inv'
<1> DEFINE add(i) == IF i \in Counts(id) THEN n ELSE 0
<1>0. TypeOK /\ LimitsNested /\ ConnCountsBytes /\ id \in Ids /\ Conn \in Ids /\ n \in Nat
      /\ snd[id].bytesSent <= Target /\ Target \in Nat
      /\ rcv[id].bytesRead + n <= rcv[id].highestReceived
      /\ UNCHANGED <<snd, updates, blocked, peerBlocked, wasReset, gotReset, status>>
  BY FlowAssumption DEF Inv, Ids, Read
<1>1. Counts(id) \subseteq {id, Conn} /\ id \in Counts(id)
      /\ (Conn \in Counts(id) <=> id \in Contributing)
  BY ConnNoStream DEF Counts
<1>2. ASSUME NEW i \in Ids
      PROVE  /\ rcv'[i] \in Receiver
             /\ rcv'[i].bytesRead = rcv[i].bytesRead + add(i)
             /\ rcv'[i].highestReceived = rcv[i].highestReceived
             /\ rcv'[i].receiveWindow = rcv[i].receiveWindow
             /\ rcv'[i].receiveWindowIncrement = rcv[i].receiveWindowIncrement
  <2> DEFINE t == rcv[i].timed \/ rcv[i].bytesRead = 0
             m == rcv[i].bytesRead + n
  <2>1. rcv[i] \in Receiver /\ rcv[i].bytesRead \in Nat
    BY <1>0, FieldTypes
  <2>2. t \in BOOLEAN /\ m \in Nat
    BY <1>0, <2>1
  <2>3. CASE i \in Counts(id)
    <3>1. rcv'[i] = [rcv[i] EXCEPT !.timed = t, !.bytesRead = m]
      BY <2>3, Zenon DEF Read, AddBytesRead
    <3>2. add(i) = n /\ rcv[i].bytesRead + add(i) = m
      BY <2>3
    <3> HIDE DEF t, m, add
    <3> QED
      BY <2>1, <2>2, <3>1, <3>2, Zenon DEF Receiver
  <2>4. CASE i \notin Counts(id)
    <3>1. rcv'[i] = rcv[i] /\ add(i) = 0
      BY <2>4 DEF Read
    <3> QED
      BY <2>1, <3>1
  <2> QED
    BY <2>3, <2>4
<1>3. rcv' = [i \in Ids |-> rcv'[i]]
  BY DEF Read
<1>4. ASSUME NEW i \in Streams
      PROVE  /\ rcv'[i].bytesRead <= rcv[i].highestReceived
             /\ rcv'[i].bytesRead \in Nat
             /\ i # id => rcv'[i].bytesRead = rcv[i].bytesRead
  <2>1. i \in Ids /\ rcv[i].bytesRead \in Nat /\ rcv[i].bytesRead <= rcv[i].highestReceived
        /\ (i # id => i \notin Counts(id))
    BY <1>0, <1>1, ConnNoStream, FieldTypes DEF Ids, LimitsNested
  <2> QED
    BY <1>0, <1>1, <1>2, <2>1
<1>5. /\ rcv'[Conn].bytesRead = Cardinality(CountedBytes(ReadOffsets'))
      /\ Cardinality(CountedBytes(ReadOffsets')) <= rcv[Conn].highestReceived
      /\ ReceivedOffsets' = ReceivedOffsets
  <2> DEFINE g == ReadOffsets
             h == ReadOffsets'
             t == ReceivedOffsets
  <2>1. g \in [Streams -> Nat] /\ t \in [Streams -> Nat] /\ h \in [Streams -> Nat]
    <3>1. g \in [Streams -> Nat] /\ t \in [Streams -> Nat]
      BY <1>0, OffsetTypes
    <3> QED
      BY <1>4, <3>1 DEF ReadOffsets
  <2>2. h[id] = g[id] + n /\ h[id] <= Target
    <3>1. rcv'[id].bytesRead = rcv[id].bytesRead + n
      BY <1>0, <1>1, <1>2
    <3>2. rcv[id].highestReceived \in Nat /\ snd[id].bytesSent \in Nat /\ rcv[id].bytesRead \in Nat
          /\ rcv[id].highestReceived <= snd[id].bytesSent
      BY <1>0, FieldTypes DEF LimitsNested
    <3> QED
      BY <1>0, <3>1, <3>2 DEF ReadOffsets
  <2>3. \A i \in Streams \ {id} : h[i] = g[i]
    BY <1>4 DEF ReadOffsets
  <2>4. \A i \in Contributing : h[i] <= t[i]
    BY <1>4, ConnNoStream DEF ReceivedOffsets, ReadOffsets
  <2>5. rcv[Conn].highestReceived = Cardinality(CountedBytes(t))
        /\ rcv[Conn].bytesRead = Cardinality(CountedBytes(g))
    BY <1>0 DEF ConnCountsBytes
  <2>6. ReceivedOffsets' = ReceivedOffsets
    BY <1>2 DEF ReceivedOffsets, Ids
  <2> HIDE DEF g, h, t
  <2>7. Cardinality(CountedBytes(h))
          = Cardinality(CountedBytes(g)) + IF id \in Contributing THEN n ELSE 0
    BY <1>0, <2>1, <2>2, <2>3, CountStep
  <2>8. Cardinality(CountedBytes(h)) <= Cardinality(CountedBytes(t))
    BY <2>1, <2>4, CountMonotone
  <2>9. rcv'[Conn].bytesRead = Cardinality(CountedBytes(h))
    BY <1>0, <1>1, <1>2, <2>5, <2>7
  <2>10. Cardinality(CountedBytes(h)) <= rcv[Conn].highestReceived
    BY <2>5, <2>8
  <2> QED
    BY <2>6, <2>9, <2>10 DEF h
<1>6. LimitsNested'
  <2>1. ASSUME NEW i \in Ids
        PROVE  /\ rcv'[i].bytesRead <= rcv'[i].highestReceived
               /\ rcv'[i].highestReceived <= snd'[i].bytesSent
               /\ snd'[i].bytesSent <= getSendWindow(i, snd'[i])
               /\ getSendWindow(i, snd'[i]) <= rcv'[i].receiveWindow
    <3>1. /\ rcv[i].highestReceived <= snd[i].bytesSent
          /\ snd[i].bytesSent <= getSendWindow(i, snd[i])
          /\ getSendWindow(i, snd[i]) <= rcv[i].receiveWindow
      BY <1>0 DEF LimitsNested
    <3>2. snd'[i] = snd[i]
      BY <1>0
    <3>3. rcv'[i].bytesRead <= rcv[i].highestReceived
      <4>1. CASE i = Conn
        BY <1>5, <4>1
      <4>2. CASE i \in Streams
        BY <1>4, <4>2
      <4> QED
        BY <4>1, <4>2 DEF Ids
    <3> QED
      BY <1>2, <3>1, <3>2, <3>3
  <2> QED
    BY <2>1 DEF LimitsNested, getSendWindow, WindowOf
<1>7. TypeOK'
  <2>1. rcv' \in [Ids -> Receiver]
    BY <1>2, <1>3
  <2>2. \A i \in Ids : rcv'[i].receiveWindowIncrement <= MaxWindowOf(i)
    BY <1>0, <1>2 DEF TypeOK
  <2> QED
    BY <1>0, <2>1, <2>2 DEF TypeOK, MaxWindowOf
<1>8. ConnCountsBytes'
  <2>1. SentOffsets' = SentOffsets
    BY <1>0 DEF SentOffsets
  <2> QED
    BY <1>0, <1>2, <1>5, <2>1 DEF ConnCountsBytes, CountedBytes
<1>9. \A i \in Ids : WindowOf(i) <= rcv'[i].receiveWindow
  BY <1>2 DEF Inv
<1>10. \A u \in updates : WindowOf(u[1]) <= u[2] /\ u[2] <= rcv'[u[1]].receiveWindow
  <2>1. \A u \in updates : u[1] \in Ids
    BY <1>0 DEF TypeOK
  <2> QED
    BY <1>2, <2>1 DEF Inv
<1>11. \A i \in Streams : snd'[i].bytesSent <= Target
  BY <1>0 DEF Inv
<1> QED
  BY <1>0, <1>6, <1>7, <1>8, <1>9, <1>10, <1>11 DEF Inv, NoFlowControlError, WindowOf

LEMMA WindowUpdatesStep ==
    ASSUME Inv, NEW force \in BOOLEAN, NEW fast \in SUBSET Ids, GetWindowUpdates(force, fast)
    PROVE  Inv'
<1>0. TypeOK /\ LimitsNested /\ ConnCountsBytes
      /\ UNCHANGED <<snd, blocked, wasReset, gotReset, status>> /\ peerBlocked' \in BOOLEAN
      /\ rcv' = Updated(force, fast)
      /\ updates' = updates \cup UpdateFrames(force, rcv')
  BY Zenon DEF Inv, TypeOK, GetWindowUpdates
<1>1. ASSUME NEW i \in Ids
      PROVE  /\ rcv'[i] \in Receiver
             /\ rcv'[i].bytesRead = rcv[i].bytesRead
             /\ rcv'[i].highestReceived = rcv[i].highestReceived
             /\ rcv[i].receiveWindow <= rcv'[i].receiveWindow
             /\ rcv'[i].receiveWindowIncrement <= MaxWindowOf(i)
  <2> DEFINE c == IF i = Conn THEN RaisedConn(force, fast) ELSE rcv[i]
             b == i \in fast
  <2>1. /\ c \in Receiver
        /\ c.bytesRead = rcv[i].bytesRead
        /\ c.highestReceived = rcv[i].highestReceived
        /\ c.receiveWindow = rcv[i].receiveWindow
        /\ c.receiveWindowIncrement <= MaxWindowOf(i)
    <3>1. CASE i = Conn
      BY <1>0, <3>1, RaisedKeeps DEF MaxWindowOf
    <3>2. CASE i # Conn
      BY <1>0, <3>2 DEF TypeOK
    <3> QED
      BY <3>1, <3>2
  <2>2. rcv'[i] = MaybeUpdateWindow(i, c, b) /\ b \in BOOLEAN
    BY <1>0 DEF Updated
  <2> HIDE DEF b, c
  <2> QED
    BY <2>1, <2>2, UpdateKeeps
<1>2. rcv' \in [Ids -> Receiver]
  BY <1>0, <1>1 DEF Updated
<1>3. ASSUME NEW u \in updates'
      PROVE  /\ u \in Ids \X Nat
             /\ WindowOf(u[1]) <= u[2] /\ u[2] <= rcv'[u[1]].receiveWindow
  <2>1. CASE u \in updates
    <3>1. u \in Ids \X Nat /\ WindowOf(u[1]) <= u[2] /\ u[2] <= rcv[u[1]].receiveWindow
      BY <2>1 DEF Inv, TypeOK
    <3>2. u[1] \in Ids /\ u[2] \in Nat
      BY <3>1
    <3>3. rcv[u[1]].receiveWindow \in Nat /\ rcv'[u[1]].receiveWindow \in Nat
      BY <1>0, <1>1, <3>2, FieldTypes DEF Receiver
    <3> QED
      BY <1>1, <3>1, <3>2, <3>3
  <2>2. CASE u \in UpdateFrames(force, rcv')
    <3>1. PICK i \in Ids : u = <<i, rcv'[i].receiveWindow>>
      BY <2>2, Zenon DEF UpdateFrames
    <3>2. rcv[i].receiveWindow \in Nat /\ rcv'[i].receiveWindow \in Nat /\ WindowOf(i) \in Nat
      BY <1>0, <1>1, FieldTypes, Windows DEF Receiver
    <3>3. WindowOf(i) <= rcv[i].receiveWindow
      BY DEF Inv
    <3> QED
      BY <1>1, <3>1, <3>2, <3>3
  <2> QED
    BY <1>0, <2>1, <2>2
<1>4. TypeOK'
  <2>1. updates' \subseteq Ids \X Nat
    BY <1>3
  <2> QED
    BY <1>0, <1>1, <1>2, <2>1 DEF TypeOK, MaxWindowOf
<1>5. LimitsNested'
  <2>1. ASSUME NEW i \in Ids
        PROVE  /\ rcv'[i].bytesRead <= rcv'[i].highestReceived
               /\ rcv'[i].highestReceived <= snd'[i].bytesSent
               /\ snd'[i].bytesSent <= getSendWindow(i, snd'[i])
               /\ getSendWindow(i, snd'[i]) <= rcv'[i].receiveWindow
    <3>1. /\ rcv[i].bytesRead <= rcv[i].highestReceived
          /\ rcv[i].highestReceived <= snd[i].bytesSent
          /\ snd[i].bytesSent <= getSendWindow(i, snd[i])
          /\ getSendWindow(i, snd[i]) <= rcv[i].receiveWindow
      BY <1>0 DEF LimitsNested
    <3>2. snd'[i] = snd[i]
      BY <1>0
    <3>3. rcv[i].receiveWindow \in Nat /\ rcv'[i].receiveWindow \in Nat
          /\ getSendWindow(i, snd[i]) \in Nat
      BY <1>0, <1>1, FieldTypes DEF Receiver
    <3> QED
      BY <1>1, <3>1, <3>2, <3>3
  <2> QED
    BY <2>1 DEF LimitsNested, getSendWindow, WindowOf
<1>6. ConnCountsBytes'
  <2>1. SentOffsets' = SentOffsets /\ ReceivedOffsets' = ReceivedOffsets /\ ReadOffsets' = ReadOffsets
    BY <1>0, <1>1 DEF SentOffsets, ReceivedOffsets, ReadOffsets, Ids
  <2>2. Conn \in Ids
    BY DEF Ids
  <2> QED
    BY <1>0, <1>1, <2>1, <2>2 DEF ConnCountsBytes, CountedBytes
<1>7. \A i \in Ids : WindowOf(i) <= rcv'[i].receiveWindow
  <2>1. ASSUME NEW i \in Ids PROVE WindowOf(i) <= rcv'[i].receiveWindow
    <3>1. rcv[i].receiveWindow \in Nat /\ rcv'[i].receiveWindow \in Nat /\ WindowOf(i) \in Nat
          /\ WindowOf(i) <= rcv[i].receiveWindow
      BY <1>0, <1>1, FieldTypes, Windows DEF Receiver, Inv
    <3> QED
      BY <1>1, <3>1
  <2> QED
    BY <2>1
<1>8. \A i \in Streams : snd'[i].bytesSent <= Target
  BY <1>0 DEF Inv
<1> QED
  BY <1>0, <1>3, <1>4, <1>5, <1>6, <1>7, <1>8 DEF Inv, NoFlowControlError, WindowOf
LEMMA UpdateWindowStep ==
    ASSUME Inv, NEW u \in updates, UpdateWindow(u[1], u[2])
    PROVE  Inv'
<1> DEFINE id == u[1]
           off == u[2]
<1>0. TypeOK /\ LimitsNested /\ ConnCountsBytes
      /\ UNCHANGED <<rcv, updates, blocked, peerBlocked, wasReset, gotReset, status>>
      /\ snd' = [snd EXCEPT ![id] = UpdateSendWindow(snd[id], off)]
  BY DEF Inv, UpdateWindow
<1>1. id \in Ids /\ off \in Nat /\ WindowOf(id) <= off /\ off <= rcv[id].receiveWindow
  BY DEF Inv, TypeOK
<1> HIDE DEF id, off
<1>2. ASSUME NEW i \in Ids
      PROVE  /\ snd'[i] \in Sender
             /\ snd'[i].bytesSent = snd[i].bytesSent
             /\ i # id => snd'[i] = snd[i]
             /\ i = id => snd'[i].sendWindow = IF off > snd[i].sendWindow THEN off ELSE snd[i].sendWindow
  <2>1. snd[i] \in Sender /\ snd[i].sendWindow \in Nat /\ snd \in [Ids -> Sender]
    BY <1>0, FieldTypes DEF TypeOK
  <2>2. snd'[i] = IF i = id THEN UpdateSendWindow(snd[i], off) ELSE snd[i]
    BY <1>0, <1>1, <2>1
  <2> QED
    BY <1>1, <2>1, <2>2 DEF Sender, UpdateSendWindow
<1>3. TypeOK'
  <2>1. snd' \in [Ids -> Sender]
    BY <1>0, <1>2, Zenon DEF TypeOK
  <2> QED
    BY <1>0, <2>1 DEF TypeOK, MaxWindowOf
<1>4. ASSUME NEW i \in Ids
      PROVE  /\ getSendWindow(i, snd[i]) <= getSendWindow(i, snd'[i])
             /\ getSendWindow(i, snd'[i]) <= rcv[i].receiveWindow
             /\ getSendWindow(i, snd'[i]) \in Nat
  <2>1. /\ snd[i].sendWindow \in Nat /\ getSendWindow(i, snd[i]) \in Nat
        /\ rcv[i].receiveWindow \in Nat /\ WindowOf(i) \in Nat
        /\ getSendWindow(i, snd[i]) <= rcv[i].receiveWindow
    BY <1>0, FieldTypes, Windows DEF LimitsNested
  <2>2. CASE i # id
    BY <1>2, <2>1, <2>2
  <2>3. CASE i = id
    BY <1>1, <1>2, <2>1, <2>3 DEF getSendWindow
  <2> QED
    BY <2>2, <2>3
<1>5. LimitsNested'
  <2>1. ASSUME NEW i \in Ids
        PROVE  /\ rcv'[i].bytesRead <= rcv'[i].highestReceived
               /\ rcv'[i].highestReceived <= snd'[i].bytesSent
               /\ snd'[i].bytesSent <= getSendWindow(i, snd'[i])
               /\ getSendWindow(i, snd'[i]) <= rcv'[i].receiveWindow
    <3>1. /\ rcv[i].bytesRead <= rcv[i].highestReceived
          /\ rcv[i].highestReceived <= snd[i].bytesSent
          /\ snd[i].bytesSent <= getSendWindow(i, snd[i])
      BY <1>0 DEF LimitsNested
    <3>2. rcv'[i] = rcv[i]
      BY <1>0
    <3>3. snd[i].bytesSent \in Nat /\ getSendWindow(i, snd[i]) \in Nat
      BY <1>0, FieldTypes
    <3> QED
      BY <1>2, <1>4, <3>1, <3>2, <3>3
  <2> QED
    BY <2>1 DEF LimitsNested, getSendWindow, WindowOf
<1>6. ConnCountsBytes'
  <2>1. SentOffsets' = SentOffsets /\ ReceivedOffsets' = ReceivedOffsets /\ ReadOffsets' = ReadOffsets
    BY <1>0, <1>2 DEF SentOffsets, ReceivedOffsets, ReadOffsets, Ids
  <2>2. Conn \in Ids
    BY DEF Ids
  <2> QED
    BY <1>0, <1>2, <2>1, <2>2 DEF ConnCountsBytes, CountedBytes
<1>7. \A i \in Streams : snd'[i].bytesSent <= Target
  BY <1>2 DEF Inv, Ids
<1> QED
  BY <1>0, <1>3, <1>5, <1>6, <1>7 DEF Inv, NoFlowControlError, WindowOf

LEMMA NextInv == Inv /\ [Next]_vars => Inv'
<1> SUFFICES ASSUME Inv, [Next]_vars PROVE Inv'
  OBVIOUS
<1>0. TypeOK
  BY DEF Inv
<1>1. ASSUME NEW id \in Streams, NEW n \in 1 .. Target, NEW fin \in BOOLEAN, Send(id, n, fin)
      PROVE  Inv'
  BY <1>1, SendStep
<1>2. ASSUME NEW id \in Streams, NEW n \in 1 .. Target, ReceiveFrame(id, n)
      PROVE  Inv'
  <2>1. n \in Nat
    BY FlowAssumption
  <2>2. /\ n <= snd[id].bytesSent /\ rcv' = Received(id, n) /\ status' = Verdict(id, rcv')
        /\ UNCHANGED <<snd, updates, blocked, peerBlocked, wasReset, gotReset>>
    BY <1>2 DEF ReceiveFrame
  <2>3. wasReset' \subseteq Streams /\ gotReset' \subseteq wasReset'
    BY <1>0, <2>2 DEF TypeOK
  <2> QED
    BY <2>1, <2>2, <2>3, ReceivedStep
<1>3. ASSUME NEW id \in Streams, NEW n \in 1 .. Target, Read(id, n)
      PROVE  Inv'
  BY <1>3, ReadStep
<1>4. ASSUME NEW id \in Streams, Reset(id)
      PROVE  Inv'
  <2>1. UNCHANGED <<snd, rcv, updates, blocked, peerBlocked, gotReset, status>>
        /\ wasReset' = wasReset \cup {id}
    BY <1>4 DEF Reset
  <2>2. TypeOK'
    BY <1>0, <2>1 DEF TypeOK, MaxWindowOf
  <2> QED
    BY <2>1, <2>2, FrameSame
<1>5. ASSUME NEW id \in Streams, ReceiveReset(id)
      PROVE  Inv'
  <2>1. /\ id \in Ids /\ snd[id].bytesSent \in Nat /\ rcv[id].highestReceived \in Nat
        /\ rcv[id].highestReceived <= snd[id].bytesSent
    BY <1>0, FieldTypes DEF Ids, Inv, LimitsNested
  <2>2. /\ rcv' = Received(id, snd[id].bytesSent) /\ status' = Verdict(id, rcv')
        /\ UNCHANGED <<snd, updates, blocked, peerBlocked, wasReset>>
        /\ gotReset' = gotReset \cup {id} /\ id \in wasReset
    BY <1>5, <2>1 DEF ReceiveReset
  <2>3. wasReset' \subseteq Streams /\ gotReset' \subseteq wasReset'
    BY <1>0, <2>2 DEF TypeOK
  <2>4. snd[id].bytesSent <= snd[id].bytesSent
    BY <2>1
  <2> QED
    BY <2>1, <2>2, <2>3, <2>4, ReceivedStep
<1>6. ASSUME NEW force \in BOOLEAN, NEW fast \in SUBSET Timed, GetWindowUpdates(force, fast)
      PROVE  Inv'
  <2>1. fast \in SUBSET Ids
    BY DEF Timed
  <2> QED
    BY <1>6, <2>1, WindowUpdatesStep
<1>7. ASSUME NEW u \in updates, UpdateWindow(u[1], u[2])
      PROVE  Inv'
  BY <1>7, UpdateWindowStep
<1>8. ASSUME ReceiveBlocked
      PROVE  Inv'
  <2>1. UNCHANGED <<snd, rcv, updates, blocked, wasReset, gotReset, status>> /\ peerBlocked' = TRUE
    BY <1>8 DEF ReceiveBlocked
  <2>2. TypeOK'
    BY <1>0, <2>1 DEF TypeOK, MaxWindowOf
  <2> QED
    BY <2>1, <2>2, FrameSame
<1>9. CASE UNCHANGED vars
  <2>1. UNCHANGED <<snd, rcv, updates, blocked, peerBlocked, wasReset, gotReset, status>>
    BY <1>9 DEF vars
  <2>2. TypeOK'
    BY <1>0, <2>1 DEF TypeOK, MaxWindowOf
  <2> QED
    BY <2>1, <2>2, FrameSame
<1> QED
  BY <1>1, <1>2, <1>3, <1>4, <1>5, <1>6, <1>7, <1>8, <1>9 DEF Next

THEOREM Invariance == Spec => []Inv
BY InitInv, NextInv, PTL DEF Spec

\* Type correctness of the flow controllers; the increments never pass their maxima.
THEOREM TypeCorrect == Spec => []TypeOK
<1>1. Inv => TypeOK
  BY DEF Inv
<1> QED
  BY <1>1, Invariance, PTL

\* For any number of streams, any windows and any order of arrival, the counters of
\* sender and receiver stay nested: SendWindowSize and MaybeUpdateWindow never
\* subtract a larger number, per stream and for the connection.
THEOREM CountersStayNested == Spec => []LimitsNested
<1>1. Inv => LimitsNested
  BY DEF Inv
<1> QED
  BY <1>1, Invariance, PTL

\* No sender that runs this code is ever cut off by CheckFlowControlViolation, on a
\* stream or on the connection, nor by ResetStream.
THEOREM NoErrors == Spec => []NoFlowControlError
<1>1. Inv => NoFlowControlError
  BY DEF Inv
<1> QED
  BY <1>1, Invariance, PTL

\* IncrementHighestReceived, AddBytesRead and AddBytesSent keep the connection's
\* counters equal to the number of bytes on its streams.
THEOREM ConnectionCountsBytes == Spec => []ConnCountsBytes
<1>1. Inv => ConnCountsBytes
  BY DEF Inv
<1> QED
  BY <1>1, Invariance, PTL
-----------------------------------------------------------------------------
(***************************************************************************)
(* The endpoints do not wait for each other.  An increment never falls     *)
(* below the first window, so that a window with nothing left is due for   *)
(* an update; a window that has moved is in a WINDOW_UPDATE frame.         *)
(***************************************************************************)
Told ==
    \A id \in Ids :
        /\ WindowOf(id) <= rcv[id].receiveWindowIncrement
        /\ rcv[id].receiveWindow = WindowOf(id) \/ <<id, rcv[id].receiveWindow>> \in updates
        /\ snd[id].sendWindow = 0 \/ WindowOf(id) <= snd[id].sendWindow

LEMMA InitTold == Init => Told
  BY Windows DEF Init, Told, NewReceiver

\* A step that moves no window keeps Told.
LEMMA SameWindows ==
    ASSUME Told, UNCHANGED updates,
           \A id \in Ids : /\ rcv'[id].receiveWindow = rcv[id].receiveWindow
                           /\ rcv'[id].receiveWindowIncrement = rcv[id].receiveWindowIncrement
                           /\ snd'[id].sendWindow = snd[id].sendWindow
    PROVE  Told'
  BY DEF Told, WindowOf

LEMMA SendTold ==
    ASSUME TypeOK, Told, NEW id \in Streams, NEW n \in 1 .. Target, NEW fin, Send(id, n, fin)
    PROVE  Told'
<1>1. ASSUME NEW i \in Ids PROVE snd'[i].sendWindow = snd[i].sendWindow
  <2>1. snd[i] \in Sender
    BY FieldTypes
  <2>2. CASE i \in Counts(id)
    <3>1. snd'[i] = [snd[i] EXCEPT !.bytesSent = snd[i].bytesSent + n]
      BY <2>2 DEF Send
    <3> QED
      BY <2>1, <3>1 DEF Sender
  <2>3. CASE i \notin Counts(id)
    BY <2>3 DEF Send
  <2> QED
    BY <2>2, <2>3
<1>2. UNCHANGED <<rcv, updates>>
  BY DEF Send
<1> QED
  BY <1>1, <1>2, SameWindows

LEMMA ReceivedTold ==
    ASSUME TypeOK, Told, NEW id \in Streams, NEW byteOffset, rcv' = Received(id, byteOffset),
           UNCHANGED <<snd, updates>>
    PROVE  Told'
<1> DEFINE raised(i) == IncrementHighestReceived(rcv[i], Increment(rcv[id], byteOffset))
<1>1. ASSUME NEW i \in Ids
      PROVE  /\ raised(i).receiveWindow = rcv[i].receiveWindow
             /\ raised(i).receiveWindowIncrement = rcv[i].receiveWindowIncrement
  <2>1. rcv[i] \in Receiver
    BY FieldTypes
  <2> QED
    BY <2>1 DEF IncrementHighestReceived, Receiver
<1>2. ASSUME NEW i \in Ids PROVE rcv'[i] \in {raised(i), rcv[i]}
  BY DEF Received
<1> HIDE DEF raised
<1>3. ASSUME NEW i \in Ids
      PROVE  /\ rcv'[i].receiveWindow = rcv[i].receiveWindow
             /\ rcv'[i].receiveWindowIncrement = rcv[i].receiveWindowIncrement
  BY <1>1, <1>2
<1> QED
  BY <1>3, SameWindows

LEMMA ReadTold ==
    ASSUME TypeOK, Told, NEW id \in Streams, NEW n, Read(id, n)
    PROVE  Told'
<1>1. ASSUME NEW i \in Ids
      PROVE  /\ rcv'[i].receiveWindow = rcv[i].receiveWindow
             /\ rcv'[i].receiveWindowIncrement = rcv[i].receiveWindowIncrement
  <2>1. rcv[i] \in Receiver
    BY FieldTypes
  <2>2. rcv'[i] \in {AddBytesRead(rcv[i], n), rcv[i]}
    BY DEF Read
  <2>3. /\ AddBytesRead(rcv[i], n).receiveWindow = rcv[i].receiveWindow
        /\ AddBytesRead(rcv[i], n).receiveWindowIncrement = rcv[i].receiveWindowIncrement
    BY <2>1 DEF AddBytesRead, Receiver
  <2> QED
    BY <2>2, <2>3
<1>2. UNCHANGED <<snd, updates>>
  BY DEF Read
<1> QED
  BY <1>1, <1>2, SameWindows

\* GetWindowUpdates tells every window that it moves.
LEMMA WindowUpdatesTold ==
    ASSUME TypeOK, Told, NEW force \in BOOLEAN, NEW fast \in SUBSET Ids,
           GetWindowUpdates(force, fast)
    PROVE  Told'
<1>1. /\ UNCHANGED snd /\ rcv' = Updated(force, fast)
      /\ updates' = updates \cup UpdateFrames(force, rcv')
  BY DEF GetWindowUpdates
<1>2. ASSUME NEW i \in Ids
      PROVE  /\ rcv'[i].receiveWindowIncrement \in Nat
             /\ rcv[i].receiveWindowIncrement <= rcv'[i].receiveWindowIncrement
  <2> DEFINE r == IF i = Conn THEN RaisedConn(force, fast) ELSE rcv[i]
             b == i \in fast
  <2>1. /\ r \in Receiver /\ r.receiveWindowIncrement <= MaxWindowOf(i)
        /\ rcv[i].receiveWindowIncrement <= r.receiveWindowIncrement
    <3>1. CASE i = Conn
      BY <3>1, RaisedKeeps DEF MaxWindowOf
    <3>2. CASE i # Conn
      BY <3>2, FieldTypes DEF TypeOK
    <3> QED
      BY <3>1, <3>2
  <2>2. rcv'[i] = MaybeUpdateWindow(i, r, b) /\ b \in BOOLEAN
    BY <1>1 DEF Updated
  <2> HIDE DEF b, r
  <2>3. rcv'[i] \in Receiver /\ r.receiveWindowIncrement <= rcv'[i].receiveWindowIncrement
    BY <2>1, <2>2, UpdateKeeps
  <2>4. /\ rcv[i].receiveWindowIncrement \in Nat /\ r.receiveWindowIncrement \in Nat
        /\ rcv'[i].receiveWindowIncrement \in Nat
    BY <2>1, <2>3, FieldTypes DEF Receiver
  <2> QED
    BY <2>1, <2>3, <2>4
<1>3. ASSUME NEW i \in Ids
      PROVE  rcv'[i].receiveWindow = WindowOf(i) \/ <<i, rcv'[i].receiveWindow>> \in updates'
  <2>1. CASE rcv'[i].receiveWindow # rcv[i].receiveWindow
    BY <1>1, <2>1 DEF UpdateFrames
  <2>2. CASE rcv'[i].receiveWindow = rcv[i].receiveWindow
    BY <1>1, <2>2 DEF Told
  <2> QED
    BY <2>1, <2>2
<1>4. ASSUME NEW i \in Ids PROVE WindowOf(i) <= rcv'[i].receiveWindowIncrement
  <2>1. /\ WindowOf(i) \in Nat /\ rcv[i].receiveWindowIncrement \in Nat
        /\ WindowOf(i) <= rcv[i].receiveWindowIncrement
    BY FieldTypes, Windows, Zenon DEF Told
  <2> QED
    BY <1>2, <2>1
<1> QED
  BY <1>1, <1>3, <1>4, Zenon DEF Told, WindowOf

LEMMA UpdateWindowTold ==
    ASSUME Inv, Told, NEW u \in updates, UpdateWindow(u[1], u[2])
    PROVE  Told'
<1> DEFINE id == u[1]
           off == u[2]
<1>1. /\ TypeOK /\ id \in Ids /\ off \in Nat /\ WindowOf(id) <= off
      /\ UNCHANGED <<rcv, updates>> /\ snd' = [snd EXCEPT ![id] = UpdateSendWindow(snd[id], off)]
  BY DEF Inv, TypeOK, UpdateWindow
<1> HIDE DEF id, off
<1>2. ASSUME NEW i \in Ids
      PROVE  snd'[i].sendWindow = snd[i].sendWindow \/ WindowOf(i) <= snd'[i].sendWindow
  <2>1. snd[i] \in Sender /\ snd \in [Ids -> Sender]
    BY <1>1, FieldTypes DEF TypeOK
  <2>2. snd'[i] = IF i = id THEN UpdateSendWindow(snd[i], off) ELSE snd[i]
    BY <1>1, <2>1
  <2> QED
    BY <1>1, <2>1, <2>2 DEF Sender, UpdateSendWindow
<1> QED
  BY <1>1, <1>2 DEF Told, WindowOf

LEMMA NextTold == Inv /\ Told /\ [Next]_vars => Told'
<1> SUFFICES ASSUME Inv, Told, [Next]_vars PROVE Told'
  OBVIOUS
<1>0. TypeOK
  BY DEF Inv
<1>1. ASSUME NEW id \in Streams, NEW n \in 1 .. Target, NEW fin \in BOOLEAN, Send(id, n, fin)
      PROVE  Told'
  BY <1>0, <1>1, SendTold
<1>2. ASSUME NEW id \in Streams, NEW n \in 1 .. Target, ReceiveFrame(id, n)
      PROVE  Told'
  BY <1>0, <1>2, ReceivedTold DEF ReceiveFrame
<1>3. ASSUME NEW id \in Streams, NEW n \in 1 .. Target, Read(id, n)
      PROVE  Told'
  BY <1>0, <1>3, ReadTold
<1>4. ASSUME NEW id \in Streams, ReceiveReset(id)
      PROVE  Told'
  BY <1>0, <1>4, ReceivedTold DEF ReceiveReset
<1>5. ASSUME NEW force \in BOOLEAN, NEW fast \in SUBSET Timed, GetWindowUpdates(force, fast)
      PROVE  Told'
  <2>1. fast \in SUBSET Ids
    BY DEF Timed
  <2> QED
    BY <1>0, <1>5, <2>1, WindowUpdatesTold
<1>6. ASSUME NEW u \in updates, UpdateWindow(u[1], u[2])
      PROVE  Told'
  BY <1>6, UpdateWindowTold
<1>7. CASE (\E id \in Streams : Reset(id)) \/ ReceiveBlocked \/ UNCHANGED vars
  BY <1>7, SameWindows DEF Reset, ReceiveBlocked, vars
<1> QED
  BY <1>1, <1>2, <1>3, <1>4, <1>5, <1>6, <1>7 DEF Next

\* Nothing left to arrive, to be read or to be told leaves room in every window.
LEMMA QuietHasRoom ==
    ASSUME Inv, Told, wasReset = {}, Quiet, NEW id \in Ids
    PROVE  FlowSendWindowSize(id, snd[id]) > 0
<1>0. TypeOK /\ LimitsNested /\ ConnCountsBytes
  BY DEF Inv
<1> DEFINE w == rcv[id].receiveWindow
           r == rcv[id].bytesRead
           inc == rcv[id].receiveWindowIncrement
           known == getSendWindow(id, snd[id])
           sentBytes == snd[id].bytesSent
<1>1. /\ w \in Nat /\ r \in Nat /\ inc \in Nat /\ known \in Nat /\ sentBytes \in Nat
      /\ snd[id].sendWindow \in Nat
  BY <1>0, FieldTypes
<1>2. \A i \in Streams : rcv[i].bytesRead = snd[i].bytesSent
  BY <1>0 DEF Quiet, TypeOK
<1>3. r = sentBytes
  <2>1. CASE id \in Streams
    BY <1>2, <2>1
  <2>2. CASE id = Conn
    <3>1. ReadOffsets = SentOffsets
      BY <1>2 DEF ReadOffsets, SentOffsets
    <3> QED
      BY <1>0, <2>2, <3>1 DEF ConnCountsBytes
  <2> QED
    BY <2>1, <2>2 DEF Ids
<1>4. inc >= 2
  <2>1. WindowOf(id) <= inc /\ WindowOf(id) \in Nat
    BY Windows, Zenon DEF Told
  <2>2. WindowOf(id) >= 2
    BY WindowAssumption DEF WindowOf
  <2> QED
    BY <1>1, <2>1, <2>2
<1>5. w <= known
  <2>1. CASE w = WindowOf(id)
    <3>1. snd[id].sendWindow = 0 \/ WindowOf(id) <= snd[id].sendWindow
      BY Zenon DEF Told
    <3>2. known = IF snd[id].sendWindow = 0 THEN WindowOf(id) ELSE snd[id].sendWindow
      BY DEF getSendWindow
    <3> QED
      BY ONLY <1>1, <2>1, <3>1, <3>2
  <2>2. CASE <<id, w>> \in updates
    BY <2>2 DEF Quiet
  <2> QED
    BY <2>1, <2>2 DEF Told
<1>6. r <= w
  <2>1. sentBytes <= known /\ known <= w
    BY <1>0 DEF LimitsNested
  <2> HIDE DEF w, r, known, sentBytes
  <2> QED
    BY <1>1, <1>3, <2>1
<1>7. ~(r <= w /\ w - r < inc \div 2)
  BY DEF Quiet, UpdateNecessary
<1> HIDE DEF w, r, inc, known, sentBytes
<1>8. sentBytes < known
  <2>1. inc \div 2 >= 1
    BY <1>1, <1>4
  <2>2. inc \div 2 \in Nat
    BY <1>1
  <2> QED
    BY <1>1, <1>3, <1>5, <1>6, <1>7, <2>1, <2>2
<1>9. known - sentBytes > 0 /\ ~(sentBytes > known)
  BY <1>1, <1>8
<1> QED
  BY <1>9 DEF FlowSendWindowSize, known, sentBytes

\* For any windows of at least two bytes, any streams and any order of arrival:
\* when everything that was sent has arrived and was read, and no update is due
\* or on its way, every stream may send, by its own window and by that of the
\* connection (SendWindowSize, GetWindowUpdates).
THEOREM EndpointsDoNotWait == Spec => []NeverStuck
<1>1. Inv /\ Told => NeverStuck
  <2> SUFFICES ASSUME Inv, Told, wasReset = {}, Quiet, NEW id \in Streams
               PROVE  SendWindowSize(id) > 0
    BY DEF NeverStuck, CanSend
  <2>1. FlowSendWindowSize(id, snd[id]) > 0 /\ FlowSendWindowSize(Conn, snd[Conn]) > 0
    BY QuietHasRoom DEF Ids
  <2> QED
    BY <2>1 DEF SendWindowSize
<1>2. Spec => []Told
  BY InitTold, NextTold, Invariance, PTL DEF Spec
<1> QED
  BY <1>1, <1>2, Invariance, PTL
==========================================================================
