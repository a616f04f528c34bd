--------------------- MODULE SentPacketHandlerProofs ---------------------
(***************************************************************************)
(* The invariants of the sent packet handler, for any limits, any packet   *)
(* lengths and any number of packets and ACK frames.                       *)
(***************************************************************************)
EXTENDS SentPacketHandlerLemmas

\* The provers of a leaf that names none: a step may need Zenon, or SMT at length.
USE SMTT(10), ZenonT(20), SMTT(30)

\* What the peer knows and says: its frames name packets that reached it.
PeerInv ==
    /\ delivered \subseteq 1 .. s.lastSentPacketNumber
    /\ limits \subseteq Nat \X Nat
    /\ \A l \in limits : l[2] < l[1]
    /\ frames \in Seq(Range(frames)) /\ Len(frames) <= MaxAcks
    /\ \A i \in 1 .. Len(frames) : HonestFrame(frames[i], delivered)

\* The inductive invariant.
IInv ==
    /\ HistoryInv(s)
    /\ RestInv(s)
    /\ AlarmArmed
    /\ gen \in [next : 1 .. MaxSent + 1, nextToSkip : {0}]
    /\ s.lastSentPacketNumber < gen.next
    /\ status = "open" => gen.next = s.lastSentPacketNumber + 1
    /\ HonestAcksAccepted
    /\ NothingForgotten
    /\ PeerInv

(***************************************************************************)
(* The operations of the handler.  CoreInv is what each of them keeps.     *)
(***************************************************************************)
CoreInv(ss) == HistoryInv(ss) /\ RestInv(ss)

\* Every packet that ss holds, t holds as well or it reached the peer.
Holds(ss, t, reached) ==
    \A p \in Range(ss.packetHistory) \cup Range(ss.retransmissionQueue) :
        p \in Range(t.packetHistory) \cup Range(t.retransmissionQueue) \/ p.PacketNumber \in reached

SameLists(ss, t) ==
    /\ t.packetHistory = ss.packetHistory
    /\ t.retransmissionQueue = ss.retransmissionQueue
    /\ t.lastSentPacketNumber = ss.lastSentPacketNumber

LoopFields == {"packetHistory", "retransmissionQueue", "bytesInFlight", "nextLeastUnacked", "tlpCount"}

OtherFields ==
    {"skippedPackets", "LargestAcked", "largestReceivedPacketWithAck", "lossTime", "alarm", "rttKnown",
     "largestLeastUnackedSent", "nextLeastUnacked", "lastStopWaitingFrame"}

LEMMA KeepsMore ==
    ASSUME NEW t, NEW ss, NEW F, NEW G, F \subseteq G, Keeps(t, ss, F)
    PROVE  Keeps(t, ss, G)
BY Zenon DEF Keeps

LEMMA LeastIsNat ==
    ASSUME NEW ss, HistoryInv(ss)
    PROVE  /\ ss.nextLeastUnacked \in Nat /\ ss.lastSentPacketNumber \in Nat
           /\ ss.nextLeastUnacked <= ss.lastSentPacketNumber + 1
<1> DEFINE l == ss.nextLeastUnacked
           m == ss.lastSentPacketNumber
<1>1. l \in 0 .. m + 1 /\ m \in 0 .. MaxSent
  BY DEF HistoryInv
<1>2. MaxSent \in Nat
  BY SentLimitsAssumption
<1> HIDE DEF l, m
<1>3. l \in Nat /\ m \in Nat /\ l <= m + 1
  BY <1>1, <1>2
<1> QED
  BY <1>3 DEF l, m

\* The loops leave the rest of the handler alone.
LEMMA RestKept ==
    ASSUME NEW ss, NEW t, HistoryInv(ss), HistoryInv(t), RestInv(ss), Keeps(t, ss, LoopFields),
           ss.nextLeastUnacked <= t.nextLeastUnacked
    PROVE  /\ RestInv(t)
           /\ t.LargestAcked = ss.LargestAcked /\ t.lastSentPacketNumber = ss.lastSentPacketNumber
           /\ t.alarm = ss.alarm /\ t.lossTime = ss.lossTime
<1>1. /\ t.skippedPackets = ss.skippedPackets /\ t.LargestAcked = ss.LargestAcked
      /\ t.largestReceivedPacketWithAck = ss.largestReceivedPacketWithAck
      /\ t.packets = ss.packets
      /\ t.numNonRetransmittablePackets = ss.numNonRetransmittablePackets
      /\ t.lossTime = ss.lossTime /\ t.alarm = ss.alarm /\ t.rttKnown = ss.rttKnown
      /\ t.largestLeastUnackedSent = ss.largestLeastUnackedSent
      /\ t.lastStopWaitingFrame = ss.lastStopWaitingFrame
      /\ t.lastSentPacketNumber = ss.lastSentPacketNumber
  BY DEF Keeps, LoopFields, HandlerFields
<1>2. t.lastStopWaitingFrame \in 0 .. t.nextLeastUnacked
  <2> DEFINE a == ss.lastStopWaitingFrame
             b == ss.nextLeastUnacked
             c == t.nextLeastUnacked
  <2>1. a \in 0 .. b /\ b \in Nat /\ c \in Nat /\ b <= c
    BY LeastIsNat DEF RestInv
  <2> HIDE DEF a, b, c
  <2>2. a \in 0 .. c
    BY <2>1
  <2> QED
    BY <1>1, <2>2 DEF a, c
<1> QED
  BY <1>1, <1>2, Zenon DEF RestInv

\* An operation that leaves the lists alone.
LEMMA FieldsKept ==
    ASSUME NEW ss, NEW t, CoreInv(ss), Keeps(t, ss, OtherFields),
           t.skippedPackets = <<>>,
           t.LargestAcked \in 0 .. ss.lastSentPacketNumber,
           t.largestReceivedPacketWithAck \in 0 .. MaxAcks,
           t.lossTime \in BOOLEAN, t.alarm \in BOOLEAN, t.rttKnown \in BOOLEAN,
           t.largestLeastUnackedSent \in Nat,
           t.nextLeastUnacked \in 0 .. ss.lastSentPacketNumber + 1,
           t.lastStopWaitingFrame \in 0 .. t.nextLeastUnacked
    PROVE  CoreInv(t) /\ SameLists(ss, t)
<1>1. /\ t.packetHistory = ss.packetHistory /\ t.retransmissionQueue = ss.retransmissionQueue
      /\ t.lastSentPacketNumber = ss.lastSentPacketNumber
      /\ t.bytesInFlight = ss.bytesInFlight /\ t.tlpCount = ss.tlpCount
      /\ t.packets = ss.packets
      /\ t.numNonRetransmittablePackets = ss.numNonRetransmittablePackets
      /\ DOMAIN t = HandlerFields
  BY DEF Keeps, OtherFields, HandlerFields
<1>2. HistoryInv(t)
  BY <1>1, Zenon DEF CoreInv, HistoryInv
<1>3. RestInv(t)
  BY <1>1, Zenon DEF CoreInv, RestInv
<1> QED
  BY <1>1, <1>2, <1>3 DEF CoreInv, SameLists

\* The types of the fields that FieldsKept asks for, where they do not change.
LEMMA FieldTypes ==
    ASSUME NEW ss, CoreInv(ss)
    PROVE  /\ DOMAIN ss = HandlerFields
           /\ ss.skippedPackets = <<>>
           /\ ss.LargestAcked \in 0 .. ss.lastSentPacketNumber
           /\ ss.largestReceivedPacketWithAck \in 0 .. MaxAcks
           /\ ss.lossTime \in BOOLEAN /\ ss.alarm \in BOOLEAN /\ ss.rttKnown \in BOOLEAN
           /\ ss.largestLeastUnackedSent \in Nat
           /\ ss.nextLeastUnacked \in 0 .. ss.lastSentPacketNumber + 1
           /\ ss.lastStopWaitingFrame \in 0 .. ss.nextLeastUnacked
           /\ ss.packetHistory \in Seq(PacketType)
           /\ ss.retransmissionQueue \in Seq(PacketType)
BY Zenon DEF CoreInv, HistoryInv, RestInv

LEMMA AlarmKeeps ==
    ASSUME NEW ss, CoreInv(ss)
    PROVE  LET t == updateLossDetectionAlarm(ss)
           IN  /\ CoreInv(t) /\ SameLists(ss, t)
               /\ t.packetHistory # <<>> => t.alarm
               /\ t.lossTime = ss.lossTime /\ t.LargestAcked = ss.LargestAcked
<1> DEFINE t == updateLossDetectionAlarm(ss)
           b == ss.packetHistory # <<>>
<1>1. DOMAIN ss = HandlerFields
  BY FieldTypes
<1>2. t = [ss EXCEPT !.alarm = b]
  BY DEF updateLossDetectionAlarm
<1>3. b \in BOOLEAN
  OBVIOUS
<1>b. b = (ss.packetHistory # <<>>)
  OBVIOUS
<1> HIDE DEF b, t
<1>4. /\ DOMAIN t = HandlerFields /\ t.alarm = b
      /\ \A x \in HandlerFields \ {"alarm"} : t[x] = ss[x]
  BY <1>1, <1>2 DEF HandlerFields
<1>5. Keeps(t, ss, {"alarm"}) /\ t.alarm \in BOOLEAN
  BY <1>3, <1>4, Zenon DEF Keeps
<1>6. Keeps(t, ss, OtherFields)
  <2>1. {"alarm"} \subseteq OtherFields
    BY DEF OtherFields
  <2> QED
    BY <1>5, <2>1, KeepsMore
<1>7. /\ t.skippedPackets = ss.skippedPackets
      /\ t.LargestAcked = ss.LargestAcked
      /\ t.largestReceivedPacketWithAck = ss.largestReceivedPacketWithAck
      /\ t.lossTime = ss.lossTime /\ t.rttKnown = ss.rttKnown
      /\ t.largestLeastUnackedSent = ss.largestLeastUnackedSent
      /\ t.nextLeastUnacked = ss.nextLeastUnacked
      /\ t.lastStopWaitingFrame = ss.lastStopWaitingFrame
      /\ t.packetHistory = ss.packetHistory
  BY <1>4 DEF HandlerFields
<1>8. CoreInv(t) /\ SameLists(ss, t)
  BY <1>5, <1>6, <1>7, FieldTypes, FieldsKept
<1>9. t.packetHistory # <<>> => t.alarm
  BY <1>4, <1>7, <1>b, Zenon
<1> QED
  BY <1>7, <1>8, <1>9, Zenon DEF t

LEMMA SeenKeeps ==
    ASSUME NEW ss, CoreInv(ss), NEW with \in 0 .. MaxAcks
    PROVE  LET t == SeenWith(ss, with)
           IN  /\ CoreInv(t) /\ SameLists(ss, t)
               /\ t.alarm = ss.alarm /\ t.lossTime = ss.lossTime /\ t.LargestAcked = ss.LargestAcked
<1> DEFINE t == SeenWith(ss, with)
<1>1. DOMAIN ss = HandlerFields
  BY FieldTypes
<1>2. /\ Keeps(t, ss, {"largestReceivedPacketWithAck"}) /\ t.largestReceivedPacketWithAck = with
      /\ t.skippedPackets = ss.skippedPackets /\ t.LargestAcked = ss.LargestAcked
      /\ t.lossTime = ss.lossTime /\ t.alarm = ss.alarm /\ t.rttKnown = ss.rttKnown
      /\ t.largestLeastUnackedSent = ss.largestLeastUnackedSent
      /\ t.nextLeastUnacked = ss.nextLeastUnacked
      /\ t.lastStopWaitingFrame = ss.lastStopWaitingFrame
  BY <1>1 DEF SeenWith, HandlerFields, Keeps
<1> HIDE DEF t
<1>3. Keeps(t, ss, OtherFields)
  <2>1. {"largestReceivedPacketWithAck"} \subseteq OtherFields
    BY DEF OtherFields
  <2> QED
    BY <1>2, <2>1, KeepsMore
<1>4. CoreInv(t) /\ SameLists(ss, t)
  BY <1>2, <1>3, FieldTypes, FieldsKept
<1> QED
  BY <1>2, <1>4, Zenon DEF t

LEMMA TakenKeeps ==
    ASSUME NEW ss, CoreInv(ss), NEW largest \in 0 .. ss.lastSentPacketNumber
    PROVE  LET t == [ss EXCEPT !.LargestAcked = largest]
           IN  /\ CoreInv(t) /\ SameLists(ss, t)
               /\ t.alarm = ss.alarm /\ t.LargestAcked = largest
<1> DEFINE t == [ss EXCEPT !.LargestAcked = largest]
<1>1. DOMAIN ss = HandlerFields
  BY FieldTypes
<1>2. /\ Keeps(t, ss, {"LargestAcked"}) /\ t.LargestAcked = largest
      /\ t.skippedPackets = ss.skippedPackets
      /\ t.largestReceivedPacketWithAck = ss.largestReceivedPacketWithAck
      /\ t.lossTime = ss.lossTime /\ t.alarm = ss.alarm /\ t.rttKnown = ss.rttKnown
      /\ t.largestLeastUnackedSent = ss.largestLeastUnackedSent
      /\ t.nextLeastUnacked = ss.nextLeastUnacked
      /\ t.lastStopWaitingFrame = ss.lastStopWaitingFrame
  BY <1>1 DEF HandlerFields, Keeps
<1> HIDE DEF t
<1>3. Keeps(t, ss, OtherFields)
  <2>1. {"LargestAcked"} \subseteq OtherFields
    BY DEF OtherFields
  <2> QED
    BY <1>2, <2>1, KeepsMore
<1>4. CoreInv(t) /\ SameLists(ss, t)
  BY <1>2, <1>3, FieldTypes, FieldsKept
<1> QED
  BY <1>2, <1>4, Zenon DEF t

LEMMA RTTKeeps ==
    ASSUME NEW ss, CoreInv(ss), NEW largest
    PROVE  LET t == maybeUpdateRTT(ss, largest)
           IN  /\ CoreInv(t) /\ SameLists(ss, t)
               /\ t.alarm = ss.alarm /\ t.LargestAcked = ss.LargestAcked
<1> DEFINE t == maybeUpdateRTT(ss, largest)
           b == ss.rttKnown \/ \E p \in Range(ss.packetHistory) : p.PacketNumber = largest
<1>1. DOMAIN ss = HandlerFields
  BY FieldTypes
<1>2. t = [ss EXCEPT !.rttKnown = b]
  BY Zenon DEF maybeUpdateRTT
<1>b. b \in BOOLEAN
  BY Zenon
<1> HIDE DEF b
<1>3. /\ Keeps(t, ss, {"rttKnown"}) /\ t.rttKnown = b
      /\ t.skippedPackets = ss.skippedPackets /\ t.LargestAcked = ss.LargestAcked
      /\ t.largestReceivedPacketWithAck = ss.largestReceivedPacketWithAck
      /\ t.lossTime = ss.lossTime /\ t.alarm = ss.alarm
      /\ t.largestLeastUnackedSent = ss.largestLeastUnackedSent
      /\ t.nextLeastUnacked = ss.nextLeastUnacked
      /\ t.lastStopWaitingFrame = ss.lastStopWaitingFrame
  <2> HIDE DEF t
  <2> QED
    BY <1>1, <1>2 DEF HandlerFields, Keeps
<1> HIDE DEF t
<1>4. Keeps(t, ss, OtherFields)
  <2>1. {"rttKnown"} \subseteq OtherFields
    BY DEF OtherFields
  <2> QED
    BY <1>3, <2>1, KeepsMore
<1>5. CoreInv(t) /\ SameLists(ss, t)
  BY <1>b, <1>3, <1>4, FieldTypes, FieldsKept
<1> QED
  BY <1>3, <1>5, Zenon DEF t

LEMMA CollectKeeps ==
    ASSUME NEW ss, CoreInv(ss)
    PROVE  LET t == garbageCollectSkippedPackets(ss)
           IN  /\ CoreInv(t) /\ SameLists(ss, t)
               /\ t.alarm = ss.alarm /\ t.lossTime = ss.lossTime /\ t.LargestAcked = ss.LargestAcked
<1> DEFINE t == garbageCollectSkippedPackets(ss)
           I == {i \in 1 .. Len(ss.skippedPackets) : ss.skippedPackets[i] <= largestInOrderAcked(ss)}
           k == IF I # {} THEN Max(I) ELSE 0
           q == SubSeq(ss.skippedPackets, k + 1, Len(ss.skippedPackets))
<1>1. DOMAIN ss = HandlerFields /\ ss.skippedPackets = <<>>
  BY FieldTypes
<1>2. t = [ss EXCEPT !.skippedPackets = q]
  BY DEF garbageCollectSkippedPackets, LastOf
<1>3. q = <<>>
  <2>1. Len(ss.skippedPackets) = 0
    BY <1>1
  <2>2. I = {}
    BY <2>1
  <2>3. k = 0
    BY <2>2
  <2> HIDE DEF k
  <2> QED
    BY <1>1, <2>1, <2>3
<1> HIDE DEF q, t
<1>4. /\ Keeps(t, ss, {"skippedPackets"}) /\ t.skippedPackets = <<>> /\ t.LargestAcked = ss.LargestAcked
      /\ t.largestReceivedPacketWithAck = ss.largestReceivedPacketWithAck
      /\ t.lossTime = ss.lossTime /\ t.alarm = ss.alarm /\ t.rttKnown = ss.rttKnown
      /\ t.largestLeastUnackedSent = ss.largestLeastUnackedSent
      /\ t.nextLeastUnacked = ss.nextLeastUnacked
      /\ t.lastStopWaitingFrame = ss.lastStopWaitingFrame
  BY <1>1, <1>2, <1>3 DEF HandlerFields, Keeps
<1>5. Keeps(t, ss, OtherFields)
  <2>1. {"skippedPackets"} \subseteq OtherFields
    BY DEF OtherFields
  <2> QED
    BY <1>4, <2>1, KeepsMore
<1>6. CoreInv(t) /\ SameLists(ss, t)
  BY <1>4, <1>5, FieldTypes, FieldsKept
<1> QED
  BY <1>4, <1>6, Zenon DEF t

LEMMA NothingBelowKeeps ==
    ASSUME NEW ss, CoreInv(ss), NEW p \in 0 .. ss.lastSentPacketNumber
    PROVE  LET t == NothingBelow(ss, p)
           IN  /\ CoreInv(t) /\ SameLists(ss, t)
               /\ t.alarm = ss.alarm /\ t.lossTime = ss.lossTime /\ t.LargestAcked = ss.LargestAcked
<1> DEFINE t == NothingBelow(ss, p)
           least == ss.nextLeastUnacked
           next == IF p >= least THEN p + 1 ELSE least
<1>1. DOMAIN ss = HandlerFields
  BY FieldTypes
<1>2. t = [ss EXCEPT !.nextLeastUnacked = next]
  BY DEF NothingBelow
<1> HIDE DEF next, t
<1>3. /\ Keeps(t, ss, {"nextLeastUnacked"}) /\ t.nextLeastUnacked = next
      /\ t.skippedPackets = ss.skippedPackets /\ t.LargestAcked = ss.LargestAcked
      /\ t.largestReceivedPacketWithAck = ss.largestReceivedPacketWithAck
      /\ t.lossTime = ss.lossTime /\ t.alarm = ss.alarm /\ t.rttKnown = ss.rttKnown
      /\ t.largestLeastUnackedSent = ss.largestLeastUnackedSent
      /\ t.lastStopWaitingFrame = ss.lastStopWaitingFrame
  BY <1>1, <1>2 DEF HandlerFields, Keeps
<1>4. Keeps(t, ss, OtherFields)
  <2>1. {"nextLeastUnacked"} \subseteq OtherFields
    BY DEF OtherFields
  <2> QED
    BY <1>3, <2>1, KeepsMore
<1>5. next \in 0 .. ss.lastSentPacketNumber + 1 /\ ss.lastStopWaitingFrame \in 0 .. next
  <2> DEFINE m == ss.lastSentPacketNumber
             f == ss.lastStopWaitingFrame
  <2>1. m \in Nat /\ least \in Nat /\ least <= m + 1
    BY LeastIsNat DEF CoreInv
  <2>2. f \in 0 .. least /\ p \in 0 .. m /\ next = IF p >= least THEN p + 1 ELSE least
    BY FieldTypes DEF next
  <2> HIDE DEF m, f, least
  <2>3. next \in 0 .. m + 1 /\ f \in 0 .. next
    BY <2>1, <2>2
  <2> QED
    BY <2>3 DEF m, f
<1>6. CoreInv(t) /\ SameLists(ss, t)
  BY <1>3, <1>4, <1>5, FieldTypes, FieldsKept
<1> QED
  BY <1>3, <1>6, Zenon DEF t

\* The STOP_WAITING frame the manager returns is at most nextLeastUnacked.
LEMMA StopWaitingKeeps ==
    ASSUME NEW ss, CoreInv(ss), NEW force \in BOOLEAN
    PROVE  LET t == GetStopWaitingFrame(ss, force)
           IN  /\ CoreInv(t) /\ SameLists(ss, t)
               /\ t.alarm = ss.alarm /\ t.lossTime = ss.lossTime /\ t.LargestAcked = ss.LargestAcked
               /\ StopWaiting(ss, force) \in 0 .. ss.nextLeastUnacked
<1> DEFINE t == GetStopWaitingFrame(ss, force)
           least == ss.nextLeastUnacked
           sent == ss.largestLeastUnackedSent
           last == ss.lastStopWaitingFrame
<1>1. DOMAIN ss = HandlerFields
  BY FieldTypes
<1>2. least \in Nat /\ sent \in Nat /\ last \in 0 .. least
  BY FieldTypes, LeastIsNat DEF CoreInv
<1>3. /\ Keeps(t, ss, {"largestLeastUnackedSent", "lastStopWaitingFrame"})
      /\ t.nextLeastUnacked = ss.nextLeastUnacked
      /\ t.skippedPackets = ss.skippedPackets /\ t.LargestAcked = ss.LargestAcked
      /\ t.largestReceivedPacketWithAck = ss.largestReceivedPacketWithAck
      /\ t.lossTime = ss.lossTime /\ t.alarm = ss.alarm /\ t.rttKnown = ss.rttKnown
      /\ t.largestLeastUnackedSent \in {least, sent}
      /\ t.lastStopWaitingFrame \in {least, last}
  <2>1. CASE NewLeastUnacked(ss)
    <3>1. t = [ss EXCEPT !.largestLeastUnackedSent = least, !.lastStopWaitingFrame = least]
      BY <2>1 DEF GetStopWaitingFrame
    <3> HIDE DEF t
    <3> QED
      BY <1>1, <3>1, Zenon DEF HandlerFields, Keeps
  <2>2. CASE ~ NewLeastUnacked(ss)
    <3>1. \E x \in {least, last} : t = [ss EXCEPT !.lastStopWaitingFrame = x]
      BY <2>2, Zenon DEF GetStopWaitingFrame
    <3> HIDE DEF t
    <3>2. PICK x \in {least, last} : t = [ss EXCEPT !.lastStopWaitingFrame = x]
      BY <3>1
    <3>3. /\ DOMAIN t = HandlerFields /\ t.lastStopWaitingFrame = x
          /\ \A y \in HandlerFields \ {"lastStopWaitingFrame"} : t[y] = ss[y]
      BY <1>1, <3>2 DEF HandlerFields
    <3> QED
      BY <3>3 DEF HandlerFields, Keeps
  <2> QED
    BY <2>1, <2>2
<1>4. t.largestLeastUnackedSent \in Nat /\ t.lastStopWaitingFrame \in 0 .. least
  BY <1>2, <1>3
<1>5. StopWaiting(ss, force) \in 0 .. least
  <2>1. StopWaiting(ss, force) \in {t.lastStopWaitingFrame, 0}
    BY Zenon DEF StopWaiting
  <2> HIDE DEF t, least
  <2> QED
    BY <1>2, <1>4, <2>1
<1> HIDE DEF t
<1>6. Keeps(t, ss, OtherFields)
  <2>1. {"largestLeastUnackedSent", "lastStopWaitingFrame"} \subseteq OtherFields
    BY DEF OtherFields
  <2> QED
    BY <1>3, <2>1, KeepsMore
<1>7. CoreInv(t) /\ SameLists(ss, t)
  BY <1>3, <1>4, <1>6, FieldTypes, FieldsKept
<1> QED
  BY <1>3, <1>5, <1>7, Zenon DEF t

\* What Queue and Acked do to a handler that is as it should be.
LEMMA QueueCore ==
    ASSUME NEW ss, CoreInv(ss), NEW ps, Collected(ps, ss.packetHistory)
    PROVE  LET t == Queue(ss, ps)
           IN  /\ CoreInv(t) /\ Holds(ss, t, {})
               /\ Range(t.packetHistory) = Range(ss.packetHistory) \ Range(ps)
               /\ t.alarm = ss.alarm /\ t.lossTime = ss.lossTime /\ t.LargestAcked = ss.LargestAcked
               /\ t.lastSentPacketNumber = ss.lastSentPacketNumber /\ t.tlpCount = ss.tlpCount
<1> DEFINE t == Queue(ss, ps)
<1>1. Queued(ss, t, Range(ps)) /\ HistoryInv(ss) /\ RestInv(ss)
  BY QueueKeeps DEF CoreInv
<1> HIDE DEF t
<1>2. Keeps(t, ss, LoopFields) /\ t.tlpCount = ss.tlpCount
  <2>1. Keeps(t, ss, {"packetHistory", "retransmissionQueue", "bytesInFlight", "nextLeastUnacked"})
    BY <1>1 DEF Queued
  <2>2. t.tlpCount = ss.tlpCount
    BY <2>1 DEF Keeps, HandlerFields
  <2>3. {"packetHistory", "retransmissionQueue", "bytesInFlight", "nextLeastUnacked"} \subseteq LoopFields
    BY DEF LoopFields
  <2> QED
    BY <2>1, <2>2, <2>3, KeepsMore
<1>3. /\ HistoryInv(t) /\ ss.nextLeastUnacked <= t.nextLeastUnacked
      /\ Range(t.packetHistory) = Range(ss.packetHistory) \ Range(ps)
      /\ Range(t.retransmissionQueue) = Range(ss.retransmissionQueue) \cup Range(ps)
  BY <1>1 DEF Queued
<1>4. /\ RestInv(t)
      /\ t.LargestAcked = ss.LargestAcked /\ t.lastSentPacketNumber = ss.lastSentPacketNumber
      /\ t.alarm = ss.alarm /\ t.lossTime = ss.lossTime
  BY <1>1, <1>2, <1>3, RestKept
<1>5. Holds(ss, t, {})
  BY <1>3, Zenon DEF Holds
<1> QED
  BY <1>2, <1>3, <1>4, <1>5, Zenon DEF CoreInv, t

LEMMA AckedCore ==
    ASSUME NEW ss, CoreInv(ss), NEW frame, NEW reached,
           \A p \in Range(NewlyAcked(ss, frame)) : p.PacketNumber \in reached
    PROVE  LET t == Acked(ss, frame)
           IN  /\ CoreInv(t) /\ Holds(ss, t, reached)
               /\ Range(t.packetHistory) \subseteq Range(ss.packetHistory)
               /\ t.alarm = ss.alarm /\ t.LargestAcked = ss.LargestAcked
               /\ t.lastSentPacketNumber = ss.lastSentPacketNumber
<1> DEFINE t == Acked(ss, frame)
           G == Range(NewlyAcked(ss, frame))
<1>1. HistoryInv(ss) /\ RestInv(ss) /\ ss.packetHistory \in Seq(PacketType) /\ InOrder(ss.packetHistory)
  BY DEF CoreInv, HistoryInv
<1>2. Settled(ss, t, G)
  BY <1>1, NewlyAckedIs, AckedKeeps
<1> HIDE DEF t, G
<1>3. Keeps(t, ss, {"packetHistory", "bytesInFlight", "tlpCount"})
  BY <1>2 DEF Settled
<1>4. Keeps(t, ss, LoopFields)
  <2>1. {"packetHistory", "bytesInFlight", "tlpCount"} \subseteq LoopFields
    BY DEF LoopFields
  <2> QED
    BY <1>3, <2>1, KeepsMore
<1>5. t.nextLeastUnacked = ss.nextLeastUnacked /\ t.retransmissionQueue = ss.retransmissionQueue
  BY <1>3 DEF Keeps, HandlerFields
<1>6. HistoryInv(t) /\ Range(t.packetHistory) = Range(ss.packetHistory) \ G
  BY <1>2 DEF Settled
<1>7. ss.nextLeastUnacked <= t.nextLeastUnacked
  <2>1. ss.nextLeastUnacked \in Nat
    BY <1>1, LeastIsNat
  <2> DEFINE l == ss.nextLeastUnacked
  <2> HIDE DEF l
  <2>2. l <= l
    BY <2>1 DEF l
  <2> QED
    BY <1>5, <2>2 DEF l
<1>8. /\ RestInv(t)
      /\ t.LargestAcked = ss.LargestAcked /\ t.lastSentPacketNumber = ss.lastSentPacketNumber
      /\ t.alarm = ss.alarm
  BY <1>1, <1>4, <1>6, <1>7, RestKept
<1>9. \A p \in G : p.PacketNumber \in reached
  BY DEF G
<1>10. Holds(ss, t, reached) /\ Range(t.packetHistory) \subseteq Range(ss.packetHistory)
  BY <1>5, <1>6, <1>9, Zenon DEF Holds
<1> QED
  BY <1>6, <1>8, <1>10, Zenon DEF CoreInv, t

LEMMA PrefixOfPrefix ==
    ASSUME NEW S, NEW h \in Seq(S), NEW m \in 0 .. Len(h), NEW j \in 0 .. m
    PROVE  SubSeq(SubSeq(h, 1, m), 1, j) = SubSeq(h, 1, j)
<1> DEFINE c == SubSeq(h, 1, m)
           a == SubSeq(c, 1, j)
           b == SubSeq(h, 1, j)
<1>0. Len(h) \in Nat /\ \A i \in 1 .. Len(h) : h[i] \in S
  OBVIOUS
<1>1. c \in Seq(S) /\ Len(c) = m /\ \A i \in 1 .. m : c[i] = h[i]
  BY <1>0
<1>2. b \in Seq(S) /\ Len(b) = j /\ \A i \in 1 .. j : b[i] = h[i]
  BY <1>0
<1> HIDE DEF c
<1>3. a \in Seq(S) /\ Len(a) = j /\ \A i \in 1 .. j : a[i] = c[i]
  <2>1. \A i \in 1 .. j : c[i] \in S
    BY <1>0, <1>1
  <2> QED
    BY <1>0, <1>1, <2>1
<1> HIDE DEF a, b
<1>4. \A i \in 1 .. j : a[i] = b[i]
  BY <1>0, <1>1, <1>2, <1>3
<1>5. a = b
  BY <1>2, <1>3, <1>4
<1> QED
  BY <1>5 DEF a, b, c

\* detectLostPackets: what it gives up on is queued, and it leaves a loss time
\* only for a packet that it left in the history.
LEMMA DetectKeeps ==
    ASSUME NEW ss, CoreInv(ss), NEW k \in Nat
    PROVE  LET t == detectLostPackets(ss, k)
           IN  /\ CoreInv(t) /\ Holds(ss, t, {})
               /\ Range(t.packetHistory) \subseteq Range(ss.packetHistory)
               /\ t.alarm = ss.alarm /\ t.LargestAcked = ss.LargestAcked
               /\ t.lastSentPacketNumber = ss.lastSentPacketNumber
               /\ t.lossTime => UpToLargestAcked(t) # <<>>
<1> DEFINE t == detectLostPackets(ss, k)
           h == ss.packetHistory
           la == ss.LargestAcked
           c == UpToLargestAcked(ss)
           j == Smaller(k, Len(c))
           ps == SubSeq(c, 1, j)
           u == Queue(ss, ps)
           b == k < Len(c)
<1>1. /\ HistoryInv(ss) /\ h \in Seq(PacketType) /\ Len(h) \in Nat /\ la \in Nat
  <2>1. HistoryInv(ss) /\ h \in Seq(PacketType) /\ la \in 0 .. ss.lastSentPacketNumber /\ ss.lastSentPacketNumber \in Nat
    BY FieldTypes, LeastIsNat DEF CoreInv
  <2> DEFINE last == ss.lastSentPacketNumber
  <2> HIDE DEF la, last
  <2>2. la \in Nat
    BY <2>1 DEF last
  <2> QED
    BY <2>1, <2>2
<1>2. PICK m \in 0 .. Len(h) : c = SubSeq(h, 1, m) /\ \A i \in 1 .. Len(h) : i <= m <=> h[i].PacketNumber <= la
  BY <1>1, UpToIs
<1>3. Len(c) = m
  BY <1>1, <1>2, PrefixIs
<1>4. t = [u EXCEPT !.lossTime = b]
  BY Zenon DEF detectLostPackets
<1> HIDE DEF t, c, h, la
<1>5. j = Smaller(k, m) /\ b = (k < m)
  BY <1>3
<1>6. j \in 0 .. m /\ (k < m => j = k) /\ j \in 0 .. Len(h)
  BY <1>1, <1>5 DEF Smaller
<1> HIDE DEF j
<1>7. ps = SubSeq(h, 1, j)
  BY <1>1, <1>2, <1>6, PrefixOfPrefix
<1> HIDE DEF ps
<1>8. Collected(ps, h) /\ \A i \in 1 .. Len(h) : i > j => h[i] \notin Range(ps)
  BY <1>1, <1>6, <1>7, PrefixIs DEF h
<1>9. /\ CoreInv(u) /\ Holds(ss, u, {})
      /\ Range(u.packetHistory) = Range(h) \ Range(ps)
      /\ u.alarm = ss.alarm /\ u.LargestAcked = la
      /\ u.lastSentPacketNumber = ss.lastSentPacketNumber
  BY <1>8, QueueCore DEF h, la
<1>b. b \in BOOLEAN
  OBVIOUS
<1>k. b => k < m
  BY <1>5
<1> HIDE DEF u, b
<1>10. DOMAIN u = HandlerFields
  BY <1>9, FieldTypes
<1>11. /\ Keeps(t, u, {"lossTime"}) /\ t.lossTime = b
       /\ t.skippedPackets = u.skippedPackets /\ t.LargestAcked = u.LargestAcked
       /\ t.largestReceivedPacketWithAck = u.largestReceivedPacketWithAck
       /\ t.alarm = u.alarm /\ t.rttKnown = u.rttKnown
       /\ t.largestLeastUnackedSent = u.largestLeastUnackedSent
       /\ t.nextLeastUnacked = u.nextLeastUnacked
       /\ t.lastStopWaitingFrame = u.lastStopWaitingFrame
  BY <1>4, <1>10 DEF HandlerFields, Keeps
<1>12. Keeps(t, u, OtherFields)
  <2>1. {"lossTime"} \subseteq OtherFields
    BY DEF OtherFields
  <2> QED
    BY <1>11, <2>1, KeepsMore
<1>13. CoreInv(t) /\ SameLists(u, t)
  BY <1>b, <1>9, <1>11, <1>12, FieldTypes, FieldsKept
<1>14. Holds(ss, t, {}) /\ Range(t.packetHistory) = Range(h) \ Range(ps)
  BY <1>9, <1>13, Zenon DEF SameLists, Holds
<1>15. ASSUME t.lossTime PROVE UpToLargestAcked(t) # <<>>
  <2>1. k < m
    BY <1>k, <1>11, <1>15
  <2>2. j + 1 \in 1 .. Len(h) /\ j + 1 > j /\ j + 1 <= m
    BY <1>1, <1>6, <2>1
  <2> DEFINE q == h[j + 1]
  <2>3. q \in Range(h) /\ q.PacketNumber <= la /\ q \notin Range(ps)
    <3>1. q \in Range(h)
      BY <1>1, <2>2, InRange
    <3>2. q.PacketNumber <= la
      BY <1>2, <2>2
    <3> QED
      BY <1>8, <2>2, <3>1, <3>2
  <2> HIDE DEF q
  <2>4. q \in Range(t.packetHistory) /\ t.LargestAcked = la
    BY <1>9, <1>11, <1>14, <2>3, Zenon
  <2>5. HistoryInv(t) /\ t.LargestAcked \in Nat
    BY <1>1, <1>13, <2>4 DEF CoreInv
  <2> QED
    BY <2>3, <2>4, <2>5, UpToNonEmpty
<1> QED
  BY <1>9, <1>11, <1>13, <1>14, <1>15, Zenon DEF SameLists, t, h, la

(***************************************************************************)
(* The handlers.  Sound(ss) is AlarmArmed of the handler ss of an open     *)
(* path; After(ss, t, reached) says that t is a handler as it should be    *)
(* that holds what ss holds, packets that reached the peer apart.          *)
(***************************************************************************)
Armed(ss) == ss.packetHistory # <<>> => ss.alarm

Sound(ss) == Armed(ss) /\ (ss.lossTime => UpToLargestAcked(ss) # <<>>)

After(ss, t, reached) ==
    CoreInv(t) /\ Holds(ss, t, reached) /\ t.lastSentPacketNumber = ss.lastSentPacketNumber

LEMMA AfterSame ==
    ASSUME NEW ss, NEW t, CoreInv(t), SameLists(ss, t), NEW reached
    PROVE  After(ss, t, reached)
BY Zenon DEF After, SameLists, Holds

LEMMA AfterMore ==
    ASSUME NEW ss, NEW t, CoreInv(t), Holds(ss, t, {}),
           t.lastSentPacketNumber = ss.lastSentPacketNumber, NEW reached
    PROVE  After(ss, t, reached)
BY Zenon DEF After, Holds

LEMMA AfterTrans ==
    ASSUME NEW a, NEW b, NEW c, NEW reached, After(a, b, reached), After(b, c, reached)
    PROVE  After(a, c, reached)
BY Zenon DEF After, Holds

LEMMA StaysArmed ==
    ASSUME NEW ss, NEW t, CoreInv(ss), CoreInv(t), Armed(ss), t.alarm = ss.alarm,
           Range(t.packetHistory) \subseteq Range(ss.packetHistory)
    PROVE  Armed(t)
<1> DEFINE h == ss.packetHistory
           w == t.packetHistory
<1>1. h \in Seq(PacketType) /\ w \in Seq(PacketType)
  BY FieldTypes
<1>2. Range(w) \subseteq Range(h)
  OBVIOUS
<1> HIDE DEF h, w
<1>3. ASSUME w # <<>> PROVE h # <<>>
  <2>1. 1 \in 1 .. Len(w)
    BY <1>1, <1>3
  <2>2. w[1] \in Range(h)
    BY <1>1, <1>2, <2>1, InRange
  <2>3. PICK i \in 1 .. Len(h) : h[i] = w[1]
    BY <1>1, <2>2, InRange
  <2> QED
    BY <1>1, <2>3
<1> QED
  BY <1>3 DEF Armed, h, w

LEMMA StaysSound ==
    ASSUME NEW ss, NEW t, Sound(ss), SameLists(ss, t),
           t.alarm = ss.alarm, t.lossTime = ss.lossTime, t.LargestAcked = ss.LargestAcked
    PROVE  Sound(t)
<1>1. UpToLargestAcked(t) = UpToLargestAcked(ss)
  BY DEF SameLists, UpToLargestAcked
<1> QED
  BY <1>1 DEF Sound, Armed, SameLists

\* What an honest frame acknowledges reached the peer, and no frame of the peer
\* is refused for what it says.
LEMMA HonestContent ==
    ASSUME NEW ss, CoreInv(ss), NEW frame, NEW numbers, HonestFrame(frame, numbers)
    PROVE  /\ ContentVerdict(ss, frame) = "ok"
           /\ \A p \in Range(NewlyAcked(ss, frame)) : p.PacketNumber \in numbers
<1>1. /\ ss.packetHistory \in Seq(PacketType) /\ InOrder(ss.packetHistory)
      /\ ss.skippedPackets = <<>>
  BY DEF CoreInv, HistoryInv, RestInv
<1> DEFINE acked == NewlyAcked(ss, frame)
<1>2. Collected(acked, ss.packetHistory) /\ \A p \in Range(acked) : EvaluatedAsAcked(frame, p.PacketNumber)
  BY <1>1, NewlyAckedIs
<1>3. acked \in Seq(PacketType)
  BY <1>2 DEF Collected
<1> HIDE DEF acked
<1>4. ASSUME NEW p \in Range(acked)
      PROVE  /\ p.PacketNumber \in numbers
             /\ frame.AckRanges # <<>> => ~ (p.PacketNumber > RangeFor(frame, p.PacketNumber).End)
  <2>1. p \in PacketType
    BY <1>3, InRange
  <2> DEFINE pn == p.PacketNumber
  <2>2. pn \in Nat /\ EvaluatedAsAcked(frame, pn)
    BY <1>2, <2>1, PacketFields
  <2> HIDE DEF pn
  <2>3. pn \in numbers /\ (frame.AckRanges # <<>> => ~ (pn > RangeFor(frame, pn).End))
    BY <2>2, HonestAck
  <2> QED
    BY <2>3 DEF pn
<1>5. ~ WrongPacketAcked(ss, frame)
  BY <1>4, Zenon DEF WrongPacketAcked, acked
<1>6. ~ \E p \in Range(ss.skippedPackets) : AcksPacket(frame, p)
  <2>1. Range(ss.skippedPackets) = {}
    BY <1>1 DEF Range
  <2> QED
    BY <2>1, Zenon
<1>7. ContentVerdict(ss, frame) = "ok"
  BY <1>5, <1>6, Zenon DEF ContentVerdict
<1> QED
  BY <1>4, <1>7 DEF acked

LEMMA HonestVerdict ==
    ASSUME NEW ss, CoreInv(ss), NEW frame, NEW numbers \in SUBSET (1 .. ss.lastSentPacketNumber),
           HonestFrame(frame, numbers), NEW with
    PROVE  /\ AckVerdict(ss, frame, with) \in {"ok", "DuplicateOrOutOfOrderAck"}
           /\ frame.LargestAcked \in 0 .. ss.lastSentPacketNumber
<1> DEFINE last == ss.lastSentPacketNumber
           largest == frame.LargestAcked
<1>1. last \in Nat /\ largest \in 1 .. last
  BY LeastIsNat DEF CoreInv, HonestFrame
<1> HIDE DEF last, largest
<1>2. largest \in 0 .. last /\ ~ (largest > last)
  BY <1>1
<1> QED
  BY <1>2, Zenon DEF AckVerdict, last, largest

\* ReceivedAck with a frame of the peer.
LEMMA AckKeeps ==
    ASSUME NEW ss, CoreInv(ss), Sound(ss),
           NEW frame, NEW numbers \in SUBSET (1 .. ss.lastSentPacketNumber), HonestFrame(frame, numbers),
           NEW with \in 0 .. MaxAcks, NEW k \in Nat
    PROVE  LET r == ReceivedAck(ss, frame, with, k)
           IN  /\ r.err \in {"ok", "DuplicateOrOutOfOrderAck"}
               /\ After(ss, r.handler, numbers) /\ Sound(r.handler)
<1> DEFINE largest == frame.LargestAcked
           seen  == SeenWith(ss, with)
           taken == [seen EXCEPT !.LargestAcked = largest]
           rtt   == maybeUpdateRTT(taken, largest)
           acked == Acked(rtt, frame)
           lost  == detectLostPackets(acked, k)
           timed == updateLossDetectionAlarm(lost)
           clean == garbageCollectSkippedPackets(timed)
           done  == NothingBelow(clean, largest)
           verdict == ContentVerdict(taken, frame)
           Goal(r) == /\ r.err \in {"ok", "DuplicateOrOutOfOrderAck"}
                      /\ After(ss, r.handler, numbers) /\ Sound(r.handler)
<1>1. AckVerdict(ss, frame, with) \in {"ok", "DuplicateOrOutOfOrderAck"} /\ largest \in 0 .. ss.lastSentPacketNumber
  BY HonestVerdict
<1>2. /\ CoreInv(seen) /\ SameLists(ss, seen)
      /\ seen.alarm = ss.alarm /\ seen.lossTime = ss.lossTime /\ seen.LargestAcked = ss.LargestAcked
  BY SeenKeeps
<1>3. After(ss, seen, numbers) /\ Sound(seen)
  BY <1>2, AfterSame, StaysSound
<1> HIDE DEF seen
<1>4. seen.lastSentPacketNumber = ss.lastSentPacketNumber
  BY <1>2 DEF SameLists
<1>5. /\ CoreInv(taken) /\ SameLists(seen, taken)
      /\ taken.LargestAcked = largest
  BY <1>1, <1>2, <1>4, TakenKeeps
<1>6. After(seen, taken, numbers)
  BY <1>5, AfterSame
<1> HIDE DEF taken
<1>7. verdict = "ok"
  BY <1>5, HonestContent
<1>8. CoreInv(rtt) /\ SameLists(taken, rtt)
  BY <1>5, RTTKeeps
<1>9. After(taken, rtt, numbers)
  BY <1>8, AfterSame
<1> HIDE DEF rtt
<1>10. \A p \in Range(NewlyAcked(rtt, frame)) : p.PacketNumber \in numbers
  BY <1>8, HonestContent
<1>11. CoreInv(acked) /\ Holds(rtt, acked, numbers) /\ acked.lastSentPacketNumber = rtt.lastSentPacketNumber
  BY <1>8, <1>10, AckedCore, Zenon
<1>12. After(rtt, acked, numbers)
  BY <1>11 DEF After
<1> HIDE DEF acked
<1>13. /\ CoreInv(lost) /\ Holds(acked, lost, {})
       /\ lost.lastSentPacketNumber = acked.lastSentPacketNumber
       /\ lost.lossTime => UpToLargestAcked(lost) # <<>>
  BY <1>11, DetectKeeps
<1>14. After(acked, lost, numbers)
  BY <1>13, AfterMore
<1> HIDE DEF lost
<1>15. /\ CoreInv(timed) /\ SameLists(lost, timed)
       /\ timed.packetHistory # <<>> => timed.alarm
       /\ timed.lossTime = lost.lossTime /\ timed.LargestAcked = lost.LargestAcked
  BY <1>13, AlarmKeeps
<1>16. After(lost, timed, numbers)
  BY <1>15, AfterSame
<1>17. Sound(timed)
  <2>1. UpToLargestAcked(timed) = UpToLargestAcked(lost)
    BY <1>15 DEF SameLists, UpToLargestAcked
  <2> QED
    BY <1>13, <1>15, <2>1 DEF Sound, Armed
<1> HIDE DEF timed
<1>18. /\ CoreInv(clean) /\ SameLists(timed, clean)
       /\ clean.alarm = timed.alarm /\ clean.lossTime = timed.lossTime
       /\ clean.LargestAcked = timed.LargestAcked
  BY <1>15, CollectKeeps
<1>19. After(timed, clean, numbers) /\ Sound(clean)
  BY <1>17, <1>18, AfterSame, StaysSound
<1> HIDE DEF clean
<1>20. After(ss, clean, numbers)
  <2>1. After(ss, taken, numbers)
    BY <1>3, <1>6, AfterTrans
  <2>2. After(ss, rtt, numbers)
    BY <2>1, <1>9, AfterTrans
  <2>3. After(ss, acked, numbers)
    BY <2>2, <1>12, AfterTrans
  <2>4. After(ss, lost, numbers)
    BY <2>3, <1>14, AfterTrans
  <2>5. After(ss, timed, numbers)
    BY <2>4, <1>16, AfterTrans
  <2> QED
    BY <2>5, <1>19, AfterTrans
<1>21. clean.lastSentPacketNumber = ss.lastSentPacketNumber
  BY <1>20 DEF After
<1>22. /\ CoreInv(done) /\ SameLists(clean, done)
       /\ done.alarm = clean.alarm /\ done.lossTime = clean.lossTime
       /\ done.LargestAcked = clean.LargestAcked
  BY <1>1, <1>18, <1>21, NothingBelowKeeps
<1>23. After(clean, done, numbers) /\ Sound(done)
  BY <1>19, <1>22, AfterSame, StaysSound
<1>24. After(ss, done, numbers)
  BY <1>20, <1>23, AfterTrans
<1>25. After(ss, ss, numbers)
  BY AfterSame DEF SameLists
<1> DEFINE v == AckVerdict(ss, frame, with)
           final == IF verdict = "ok" THEN done ELSE taken
<1>26. ReceivedAck(ss, frame, with, k) =
           IF v # "ok" THEN [handler |-> ss, err |-> v]
           ELSE IF RepeatedAck(seen, frame) THEN [handler |-> seen, err |-> "ok"]
           ELSE [handler |-> final, err |-> verdict]
  BY Zenon DEF ReceivedAck, seen, taken, rtt, acked, lost, timed, clean
<1>27. final = done
  BY <1>7
<1> HIDE DEF done, verdict, v, final
<1>28. Goal([handler |-> ss, err |-> v])
  BY <1>1, <1>25 DEF v
<1>29. Goal([handler |-> seen, err |-> "ok"])
  BY <1>3
<1>30. Goal([handler |-> final, err |-> verdict])
  BY <1>7, <1>23, <1>24, <1>27
<1> HIDE DEF Goal
<1>31. Goal(ReceivedAck(ss, frame, with, k))
  BY <1>26, <1>28, <1>29, <1>30
<1> QED
  BY <1>31 DEF Goal

\* ReceivedClosePath with a frame of the peer.
LEMMA ClosePathKeeps ==
    ASSUME NEW ss, CoreInv(ss), Armed(ss),
           NEW frame, NEW numbers \in SUBSET (1 .. ss.lastSentPacketNumber), HonestFrame(frame, numbers),
           NEW with \in 0 .. MaxAcks
    PROVE  LET r == ReceivedClosePath(ss, frame, with)
           IN  /\ r.err \in {"ok", "DuplicateOrOutOfOrderAck"}
               /\ After(ss, r.handler, numbers) /\ Armed(r.handler)
<1> DEFINE seen  == SeenWith(ss, with)
           acked == Acked(seen, frame)
           lost  == SetInflightAsLost(acked)
           done  == garbageCollectSkippedPackets(lost)
           verdict == ContentVerdict(seen, frame)
           Goal(r) == /\ r.err \in {"ok", "DuplicateOrOutOfOrderAck"}
                      /\ After(ss, r.handler, numbers) /\ Armed(r.handler)
<1>1. AckVerdict(ss, frame, with) \in {"ok", "DuplicateOrOutOfOrderAck"}
  BY HonestVerdict
<1>2. /\ CoreInv(seen) /\ SameLists(ss, seen) /\ seen.alarm = ss.alarm
  BY SeenKeeps
<1>3. After(ss, seen, numbers) /\ Armed(seen)
  BY <1>2, AfterSame DEF Armed, SameLists
<1> HIDE DEF seen
<1>4. verdict = "ok" /\ \A p \in Range(NewlyAcked(seen, frame)) : p.PacketNumber \in numbers
  BY <1>2, HonestContent
<1>5. /\ CoreInv(acked) /\ Holds(seen, acked, numbers)
      /\ Range(acked.packetHistory) \subseteq Range(seen.packetHistory)
      /\ acked.alarm = seen.alarm /\ acked.lastSentPacketNumber = seen.lastSentPacketNumber
  BY <1>2, <1>4, AckedCore, Zenon
<1>6. After(seen, acked, numbers) /\ Armed(acked)
  BY <1>2, <1>3, <1>5, StaysArmed DEF After
<1> HIDE DEF acked
<1>7. Collected(UpToLargestAcked(acked), acked.packetHistory)
  <2>1. HistoryInv(acked) /\ acked.LargestAcked \in 0 .. acked.lastSentPacketNumber
        /\ acked.lastSentPacketNumber \in Nat
    BY <1>5, FieldTypes, LeastIsNat DEF CoreInv
  <2> DEFINE la == acked.LargestAcked
             last == acked.lastSentPacketNumber
  <2> HIDE DEF la, last
  <2>2. la \in Nat
    BY <2>1 DEF la, last
  <2>3. PICK m \in 0 .. Len(acked.packetHistory) : UpToLargestAcked(acked) = SubSeq(acked.packetHistory, 1, m)
    BY <2>1, <2>2, UpToIs DEF la
  <2> QED
    BY <2>1, <2>3, PrefixIs
<1>8. /\ CoreInv(lost) /\ Holds(acked, lost, {})
      /\ Range(lost.packetHistory) \subseteq Range(acked.packetHistory)
      /\ lost.alarm = acked.alarm /\ lost.lastSentPacketNumber = acked.lastSentPacketNumber
  <2>1. lost = Queue(acked, UpToLargestAcked(acked))
    BY DEF SetInflightAsLost
  <2> HIDE DEF lost
  <2> DEFINE ps == UpToLargestAcked(acked)
  <2> HIDE DEF ps
  <2>2. /\ CoreInv(lost) /\ Holds(acked, lost, {})
        /\ Range(lost.packetHistory) = Range(acked.packetHistory) \ Range(ps)
        /\ lost.alarm = acked.alarm /\ lost.lastSentPacketNumber = acked.lastSentPacketNumber
    BY <1>5, <1>7, <2>1, QueueCore DEF ps
  <2> QED
    BY <2>2, Zenon
<1>9. After(acked, lost, numbers) /\ Armed(lost)
  BY <1>5, <1>6, <1>8, AfterMore, StaysArmed
<1> HIDE DEF lost
<1>10. CoreInv(done) /\ SameLists(lost, done) /\ done.alarm = lost.alarm
  BY <1>8, CollectKeeps
<1>11. After(lost, done, numbers) /\ Armed(done)
  BY <1>9, <1>10, AfterSame DEF Armed, SameLists
<1>12. After(ss, done, numbers)
  <2>1. After(ss, acked, numbers)
    BY <1>3, <1>6, AfterTrans
  <2>2. After(ss, lost, numbers)
    BY <2>1, <1>9, AfterTrans
  <2> QED
    BY <2>2, <1>11, AfterTrans
<1>13. After(ss, ss, numbers)
  BY AfterSame DEF SameLists
<1> DEFINE v == AckVerdict(ss, frame, with)
           final == IF verdict = "ok" THEN done ELSE seen
<1>14. ReceivedClosePath(ss, frame, with) =
           IF v # "ok" THEN [handler |-> ss, err |-> v] ELSE [handler |-> final, err |-> verdict]
  BY Zenon DEF ReceivedClosePath, seen, acked, lost
<1>15. final = done
  BY <1>4
<1> HIDE DEF done, verdict, v, final
<1>16. Goal([handler |-> ss, err |-> v])
  BY <1>1, <1>13 DEF v
<1>17. Goal([handler |-> final, err |-> verdict])
  BY <1>4, <1>11, <1>12, <1>15
<1> HIDE DEF Goal
<1>18. Goal(ReceivedClosePath(ss, frame, with))
  BY <1>14, <1>16, <1>17
<1> QED
  BY <1>18 DEF Goal

LEMMA ProbeKeeps ==
    ASSUME NEW ss, CoreInv(ss), ss.packetHistory # <<>>, ss.tlpCount < MaxTailLossProbes
    PROVE  LET t == retransmitTLP(ss)
           IN  CoreInv(t) /\ Holds(ss, t, {}) /\ t.lossTime = ss.lossTime
               /\ t.lastSentPacketNumber = ss.lastSentPacketNumber
<1> DEFINE h == ss.packetHistory
           p == Back(h)
           u == queuePacketForRetransmission(ss, p)
           c == u.tlpCount + 1
           t == [u EXCEPT !.tlpCount = c]
<1>1. HistoryInv(ss) /\ RestInv(ss) /\ h \in Seq(PacketType)
  BY FieldTypes DEF CoreInv
<1>2. p \in Range(h)
  <2>1. h # <<>>
    OBVIOUS
  <2> HIDE DEF h
  <2>2. Len(h) \in 1 .. Len(h) /\ p = h[Len(h)]
    BY <1>1, <2>1 DEF Back
  <2> QED
    BY <1>1, <2>2, InRange
<1> HIDE DEF p
<1>3. Queued(ss, u, {p})
  BY <1>1, <1>2, QueueOne
<1>4. t = retransmitTLP(ss)
  BY DEF retransmitTLP, p
<1> HIDE DEF u
<1>5. /\ Keeps(u, ss, {"packetHistory", "retransmissionQueue", "bytesInFlight", "nextLeastUnacked"})
      /\ HistoryInv(u) /\ DOMAIN u = HandlerFields
      /\ Range(u.packetHistory) = Range(h) \ {p}
      /\ Range(u.retransmissionQueue) = Range(ss.retransmissionQueue) \cup {p}
      /\ ss.nextLeastUnacked <= u.nextLeastUnacked
  BY <1>3 DEF Queued, HistoryInv
<1>6. u.tlpCount = ss.tlpCount
  BY <1>5 DEF Keeps, HandlerFields
<1>7. c \in 0 .. MaxTailLossProbes
  <2>1. ss.tlpCount \in 0 .. MaxTailLossProbes /\ ss.tlpCount < MaxTailLossProbes
    BY <1>1 DEF HistoryInv
  <2> DEFINE m == ss.tlpCount
  <2> HIDE DEF m
  <2>2. m + 1 \in 0 .. MaxTailLossProbes
    BY <2>1, SentLimitsAssumption DEF m
  <2> QED
    BY <1>6, <2>2 DEF m
<1> HIDE DEF c, h
<1>8. Keeps(t, u, {"tlpCount"}) /\ t.tlpCount = c
  BY <1>5 DEF Keeps, HandlerFields
<1>9. /\ t.packetHistory = u.packetHistory /\ t.retransmissionQueue = u.retransmissionQueue
      /\ t.nextLeastUnacked = u.nextLeastUnacked
      /\ t.lastSentPacketNumber = u.lastSentPacketNumber /\ t.bytesInFlight = u.bytesInFlight
      /\ DOMAIN t = HandlerFields
  BY <1>8 DEF Keeps, HandlerFields
<1> HIDE DEF t
<1>10. HistoryInv(t)
  BY <1>5, <1>7, <1>8, <1>9, ZenonT(30) DEF HistoryInv
<1>11. Keeps(t, ss, LoopFields)
  <2>1. Keeps(u, ss, LoopFields)
    <3>1. {"packetHistory", "retransmissionQueue", "bytesInFlight", "nextLeastUnacked"} \subseteq LoopFields
      BY DEF LoopFields
    <3> QED
      BY <1>5, <3>1, KeepsMore
  <2>2. Keeps(t, u, LoopFields)
    <3>1. {"tlpCount"} \subseteq LoopFields
      BY DEF LoopFields
    <3> QED
      BY <1>8, <3>1, KeepsMore
  <2> QED
    BY <2>1, <2>2, KeepsTrans
<1>12. RestInv(t) /\ t.lastSentPacketNumber = ss.lastSentPacketNumber /\ t.lossTime = ss.lossTime
  <2>1. ss.nextLeastUnacked <= t.nextLeastUnacked
    BY <1>5, <1>9
  <2> QED
    BY <1>1, <1>10, <1>11, <2>1, RestKept
<1>13. Holds(ss, t, {})
  BY <1>5, <1>9, Zenon DEF Holds, h
<1> QED
  BY <1>4, <1>10, <1>12, <1>13, Zenon DEF CoreInv

\* The loss detection alarm goes off.
LEMMA OnAlarmKeeps ==
    ASSUME NEW ss, CoreInv(ss), NEW k \in Nat, NEW failed \in BOOLEAN
    PROVE  ss.packetHistory # <<>> =>
               After(ss, OnAlarm(ss, k, failed), {}) /\ Sound(OnAlarm(ss, k, failed))
<1> SUFFICES ASSUME ss.packetHistory # <<>>
             PROVE  After(ss, OnAlarm(ss, k, failed), {}) /\ Sound(OnAlarm(ss, k, failed))
  OBVIOUS
<1> DEFINE h == ss.packetHistory
           all == IF failed \/ Len(h) < 2 THEN h ELSE SubSeq(h, 1, 2)
           u == IF ss.lossTime THEN detectLostPackets(ss, k)
                ELSE IF ss.tlpCount < MaxTailLossProbes THEN retransmitTLP(ss)
                ELSE Queue(ss, all)
           t == updateLossDetectionAlarm(u)
           Good(v) == /\ CoreInv(v) /\ Holds(ss, v, {})
                      /\ v.lastSentPacketNumber = ss.lastSentPacketNumber
                      /\ v.lossTime => UpToLargestAcked(v) # <<>>
<1>1. t = OnAlarm(ss, k, failed)
  BY Zenon DEF OnAlarm
<1>2. HistoryInv(ss) /\ h \in Seq(PacketType) /\ InOrder(h) /\ Len(h) \in Nat
  BY FieldTypes DEF CoreInv, HistoryInv
<1>3. Good(detectLostPackets(ss, k))
  BY DetectKeeps
<1>4. ASSUME ~ ss.lossTime, ss.tlpCount < MaxTailLossProbes PROVE Good(retransmitTLP(ss))
  <2> DEFINE v == retransmitTLP(ss)
  <2>1. CoreInv(v) /\ Holds(ss, v, {}) /\ v.lossTime = ss.lossTime
        /\ v.lastSentPacketNumber = ss.lastSentPacketNumber
    BY <1>4, ProbeKeeps
  <2> HIDE DEF v
  <2>2. Good(v)
    BY <1>4, <2>1
  <2> QED
    BY <2>2 DEF v
<1>5. ASSUME ~ ss.lossTime PROVE Good(Queue(ss, all))
  <2>1. Collected(h, h)
    BY <1>2, InOrderIsCollected
  <2>2. ASSUME ~ (Len(h) < 2) PROVE Collected(SubSeq(h, 1, 2), h)
    <3>1. 2 \in 0 .. Len(h)
      BY <1>2, <2>2
    <3> QED
      BY <1>2, <3>1, PrefixIs
  <2> HIDE DEF h
  <2>3. Collected(all, h)
    BY <2>1, <2>2
  <2> HIDE DEF all
  <2> DEFINE v == Queue(ss, all)
  <2>4. CoreInv(v) /\ Holds(ss, v, {}) /\ v.lossTime = ss.lossTime
        /\ v.lastSentPacketNumber = ss.lastSentPacketNumber
    BY <2>3, QueueCore DEF h
  <2> HIDE DEF v
  <2>5. Good(v)
    BY <1>5, <2>4
  <2> QED
    BY <2>5 DEF v
<1> HIDE DEF Good, all
<1>6. Good(u)
  BY <1>3, <1>4, <1>5
<1> HIDE DEF u
<1>7. /\ CoreInv(u) /\ Holds(ss, u, {})
      /\ u.lastSentPacketNumber = ss.lastSentPacketNumber
      /\ u.lossTime => UpToLargestAcked(u) # <<>>
  BY <1>6 DEF Good
<1>8. /\ CoreInv(t) /\ SameLists(u, t)
      /\ t.packetHistory # <<>> => t.alarm
      /\ t.lossTime = u.lossTime /\ t.LargestAcked = u.LargestAcked
  BY <1>7, AlarmKeeps
<1> HIDE DEF t
<1>9. After(ss, t, {})
  <2>1. After(ss, u, {}) /\ After(u, t, {})
    BY <1>7, <1>8, AfterSame DEF After
  <2> QED
    BY <2>1, AfterTrans
<1>10. Sound(t)
  <2>1. UpToLargestAcked(t) = UpToLargestAcked(u)
    BY <1>8 DEF SameLists, UpToLargestAcked
  <2> QED
    BY <1>7, <1>8, <2>1 DEF Sound, Armed
<1> QED
  BY <1>1, <1>9, <1>10

LEMMA OnAlarmEmpty ==
    ASSUME NEW ss, CoreInv(ss), Sound(ss), NEW k, NEW failed, ss.packetHistory = <<>>
    PROVE  After(ss, OnAlarm(ss, k, failed), {}) /\ Sound(OnAlarm(ss, k, failed))
<1> DEFINE t == updateLossDetectionAlarm(ss)
           b == ss.packetHistory # <<>>
<1>1. OnAlarm(ss, k, failed) = t
  <2>1. OnAlarm(ss, k, failed) = [ss EXCEPT !.alarm = FALSE]
    BY Zenon DEF OnAlarm
  <2>2. t = [ss EXCEPT !.alarm = b]
    BY Zenon DEF updateLossDetectionAlarm
  <2>3. b = FALSE
    OBVIOUS
  <2> QED
    BY <2>1, <2>2, <2>3, Zenon
<1>2. /\ CoreInv(t) /\ SameLists(ss, t)
      /\ t.packetHistory # <<>> => t.alarm
      /\ t.lossTime = ss.lossTime /\ t.LargestAcked = ss.LargestAcked
  BY AlarmKeeps
<1> HIDE DEF t
<1>3. After(ss, t, {})
  BY <1>2, AfterSame
<1>4. UpToLargestAcked(t) = UpToLargestAcked(ss)
  BY <1>2 DEF SameLists, UpToLargestAcked
<1>5. Sound(t)
  BY <1>2, <1>4 DEF Sound, Armed
<1> QED
  BY <1>1, <1>3, <1>5

\* No number is left out when the packets are numbered one after the other.
LEMMA NoSkip ==
    ASSUME NEW ss, ss.skippedPackets = <<>>, ss.lastSentPacketNumber \in Nat
    PROVE  SkipUpTo(ss, ss.lastSentPacketNumber + 1) = <<>>
<1> DEFINE last == ss.lastSentPacketNumber
           more == [i \in 1 .. (last + 1) - last - 1 |-> last + i]
           all  == ss.skippedPackets \o more
           drop == Len(all) - MaxTrackedSkippedPackets
<1> HIDE DEF last
<1>1. (last + 1) - last - 1 = 0
  BY DEF last
<1>2. more = <<>>
  <2>1. more = [i \in 1 .. 0 |-> last + i]
    BY <1>1
  <2>2. [i \in 1 .. 0 |-> last + i] = <<>>
    OBVIOUS
  <2> QED
    BY <2>1, <2>2
<1> HIDE DEF more
<1>3. all = <<>>
  BY <1>2
<1> HIDE DEF all
<1>4. ~ (drop > 0)
  BY <1>3, SentLimitsAssumption
<1>5. SkipUpTo(ss, last + 1) = IF drop > 0 THEN SubSeq(all, drop + 1, Len(all)) ELSE all
  BY Zenon DEF SkipUpTo, all, more, last
<1> QED
  BY <1>3, <1>4, <1>5 DEF last

\* The history after a packet with a new number was added.
LEMMA HistoryGrows ==
    ASSUME NEW ss, HistoryInv(ss), NEW p \in PacketType,
           p.PacketNumber = ss.lastSentPacketNumber + 1
    PROVE  LET h == ss.packetHistory
               w == Append(h, p)
           IN  /\ w \in Seq(PacketType) /\ InOrder(w) /\ Range(w) = Range(h) \cup {p}
               /\ \A i \in 1 .. Len(w) : w[i].PacketNumber <= p.PacketNumber
               /\ Bytes(w) = ss.bytesInFlight + p.Length
<1> DEFINE h == ss.packetHistory
           w == Append(h, p)
           last == ss.lastSentPacketNumber
           pn(i) == h[i].PacketNumber
<1>1. /\ h \in Seq(PacketType) /\ InOrder(h) /\ last \in Nat /\ Len(h) \in Nat
      /\ \A i \in 1 .. Len(h) : h[i] \in PacketType /\ pn(i) <= last
      /\ ss.bytesInFlight = Bytes(h)
  BY LeastIsNat DEF HistoryInv
<1> HIDE DEF h, last
<1>2. w \in Seq(PacketType) /\ Range(w) = Range(h) \cup {p}
  BY <1>1, AppendRange
<1>3. Len(w) = Len(h) + 1 /\ w[Len(h) + 1] = p /\ \A i \in 1 .. Len(h) : w[i] = h[i]
  BY <1>1
<1>4. p.PacketNumber = last + 1
  BY DEF last
<1>5. \A i \in 1 .. Len(h) : pn(i) \in Nat /\ pn(i) < last + 1
  <2> TAKE i \in 1 .. Len(h)
  <2>1. h[i] \in PacketType /\ pn(i) <= last
    BY <1>1
  <2>2. pn(i) \in Nat
    BY <2>1, PacketFields
  <2> HIDE DEF pn
  <2> QED
    BY <1>1, <2>1, <2>2
<1> HIDE DEF w
<1> DEFINE wn(i) == w[i].PacketNumber
<1>6. /\ \A i \in 1 .. Len(h) : wn(i) = pn(i)
      /\ wn(Len(h) + 1) = last + 1
  BY <1>3, <1>4
<1> HIDE DEF pn, wn
<1>7. \A i \in 1 .. Len(h) + 1 : wn(i) \in Nat /\ wn(i) <= last + 1
  <2> TAKE i \in 1 .. Len(h) + 1
  <2>1. CASE i \in 1 .. Len(h)
    BY <1>1, <1>5, <1>6, <2>1
  <2>2. CASE i = Len(h) + 1
    BY <1>1, <1>6, <2>2
  <2> QED
    BY <1>1, <2>1, <2>2
<1>8. \A i, j \in 1 .. Len(h) + 1 : i < j => wn(i) < wn(j)
  <2> TAKE i, j \in 1 .. Len(h) + 1
  <2> HAVE i < j
  <2>1. i \in 1 .. Len(h)
    BY <1>1
  <2>2. CASE j \in 1 .. Len(h)
    <3>1. pn(i) < pn(j)
      BY <1>1, <2>1, <2>2 DEF InOrder, pn
    <3> QED
      BY <1>6, <2>1, <2>2, <3>1
  <2>3. CASE j = Len(h) + 1
    BY <1>5, <1>6, <2>1, <2>3
  <2> QED
    BY <1>1, <2>2, <2>3
<1>9. InOrder(w)
  BY <1>3, <1>8 DEF InOrder, wn
<1>10. \A i \in 1 .. Len(w) : w[i].PacketNumber <= p.PacketNumber
  BY <1>3, <1>4, <1>7 DEF wn
<1>11. p \notin Range(h)
  <2> SUFFICES ASSUME p \in Range(h) PROVE FALSE
    OBVIOUS
  <2>1. PICK i \in 1 .. Len(h) : h[i] = p
    BY <1>1, InRange
  <2>2. pn(i) = last + 1
    BY <1>4, <2>1 DEF pn
  <2> QED
    BY <1>1, <1>5, <2>2
<1>12. Bytes(w) = Bytes(h) + p.Length
  BY <1>1, <1>2, <1>11, BytesMore
<1> QED
  BY <1>1, <1>2, <1>9, <1>10, <1>12 DEF h, w

LEMMA SentKeeps ==
    ASSUME NEW ss, CoreInv(ss), NEW p \in PacketType, NEW retransmittable \in BOOLEAN,
           p.PacketNumber = ss.lastSentPacketNumber + 1
    PROVE  LET t == SentPacket(ss, p, retransmittable)
           IN  /\ CoreInv(t) /\ Armed(t)
               /\ t.lastSentPacketNumber = p.PacketNumber
               /\ Range(ss.packetHistory) \subseteq Range(t.packetHistory)
               /\ t.retransmissionQueue = ss.retransmissionQueue
               /\ retransmittable => p \in Range(t.packetHistory)
               /\ t.lossTime = ss.lossTime /\ t.LargestAcked = ss.LargestAcked
<1> DEFINE h == ss.packetHistory
           w == IF retransmittable THEN Append(h, p) ELSE h
           n == p.PacketNumber
           last == ss.lastSentPacketNumber
           k == SkipUpTo(ss, n)
           c == ss.packets + 1
           m == IF retransmittable THEN 0 ELSE ss.numNonRetransmittablePackets + 1
           y == IF retransmittable THEN ss.bytesInFlight + p.Length ELSE ss.bytesInFlight
           u == [ss EXCEPT !.skippedPackets = k, !.lastSentPacketNumber = n, !.packets = c,
                           !.numNonRetransmittablePackets = m, !.bytesInFlight = y,
                           !.packetHistory = w]
           t == updateLossDetectionAlarm(u)
<1>1. t = SentPacket(ss, p, retransmittable)
  BY DEF SentPacket
<1>2. HistoryInv(ss) /\ RestInv(ss) /\ DOMAIN ss = HandlerFields /\ h \in Seq(PacketType)
  BY FieldTypes DEF CoreInv
<1>3. last \in Nat /\ n \in 1 .. MaxSent /\ n = last + 1
  BY <1>2, LeastIsNat, PacketFields
<1>4. k = <<>>
  BY <1>2, <1>3, NoSkip DEF RestInv
<1>5. /\ w \in Seq(PacketType) /\ InOrder(w) /\ Range(h) \subseteq Range(w)
      /\ retransmittable => p \in Range(w)
      /\ \A i \in 1 .. Len(w) : w[i].PacketNumber <= n
      /\ y = Bytes(w)
  <2>1. CASE retransmittable
    <3> DEFINE a == Append(h, p)
    <3>1. /\ a \in Seq(PacketType) /\ InOrder(a) /\ Range(a) = Range(h) \cup {p}
          /\ \A i \in 1 .. Len(a) : a[i].PacketNumber <= n
          /\ Bytes(a) = ss.bytesInFlight + p.Length
      BY <1>2, HistoryGrows
    <3>2. w = a /\ y = ss.bytesInFlight + p.Length
      BY <2>1
    <3> HIDE DEF a, w, y
    <3>3. Range(h) \subseteq Range(a) /\ p \in Range(a)
      BY <3>1, Zenon
    <3> QED
      BY <3>1, <3>2, <3>3
  <2>2. CASE ~ retransmittable
    <3>1. w = h /\ y = ss.bytesInFlight
      BY <2>2
    <3>2. InOrder(h) /\ ss.bytesInFlight = Bytes(h) /\ \A i \in 1 .. Len(h) : h[i].PacketNumber <= last
      BY <1>2 DEF HistoryInv
    <3>3. ASSUME NEW i \in 1 .. Len(h) PROVE h[i].PacketNumber <= n
      <4>1. h[i] \in PacketType /\ h[i].PacketNumber <= last
        BY <1>2, <3>2
      <4> DEFINE x == h[i].PacketNumber
      <4>2. x \in Nat
        BY <4>1, PacketFields
      <4> HIDE DEF x, n, last
      <4>3. x <= n
        BY <1>3, <4>1, <4>2 DEF x
      <4> QED
        BY <4>3 DEF x
    <3> HIDE DEF w, y
    <3> QED
      BY <1>2, <2>2, <3>1, <3>2, <3>3
  <2> QED
    BY <2>1, <2>2
<1>6. c \in 0 .. n /\ m \in 0 .. n
  <2> DEFINE a == ss.packets
             b == ss.numNonRetransmittablePackets
  <2>1. a \in 0 .. last /\ b \in 0 .. last
    BY <1>2 DEF RestInv
  <2> HIDE DEF a, b, n, last
  <2>2. a + 1 \in 0 .. n /\ b + 1 \in 0 .. n /\ 0 \in 0 .. n
    BY <1>3, <2>1
  <2> QED
    BY <2>2 DEF a, b
<1> HIDE DEF k, c, m, y, w, n, last, h
<1>7. /\ Keeps(u, ss, {"skippedPackets", "lastSentPacketNumber", "packets",
                        "numNonRetransmittablePackets", "bytesInFlight", "packetHistory"})
      /\ u.skippedPackets = k /\ u.lastSentPacketNumber = n /\ u.packets = c
      /\ u.numNonRetransmittablePackets = m /\ u.bytesInFlight = y /\ u.packetHistory = w
  BY <1>2, Zenon DEF HandlerFields, Keeps
<1> HIDE DEF u
<1>8. /\ DOMAIN u = HandlerFields
      /\ u.retransmissionQueue = ss.retransmissionQueue /\ u.nextLeastUnacked = ss.nextLeastUnacked
      /\ u.tlpCount = ss.tlpCount /\ u.LargestAcked = ss.LargestAcked
      /\ u.largestReceivedPacketWithAck = ss.largestReceivedPacketWithAck
      /\ u.lossTime = ss.lossTime /\ u.alarm = ss.alarm /\ u.rttKnown = ss.rttKnown
      /\ u.largestLeastUnackedSent = ss.largestLeastUnackedSent
      /\ u.lastStopWaitingFrame = ss.lastStopWaitingFrame
  BY <1>7 DEF HandlerFields, Keeps
<1>9. n \in 0 .. MaxSent /\ ss.nextLeastUnacked \in 0 .. n + 1 /\ ss.LargestAcked \in 0 .. n
  <2> DEFINE a == ss.nextLeastUnacked
             b == ss.LargestAcked
  <2>1. a \in 0 .. last + 1 /\ b \in 0 .. last
    BY <1>2 DEF HistoryInv, RestInv, last
  <2> HIDE DEF a, b
  <2>2. n \in 0 .. MaxSent /\ a \in 0 .. n + 1 /\ b \in 0 .. n
    BY <1>3, <2>1, SentLimitsAssumption
  <2> QED
    BY <2>2 DEF a, b
<1>10. HistoryInv(u)
  <2>1. ss.retransmissionQueue \in Seq(PacketType) /\ ss.tlpCount \in 0 .. MaxTailLossProbes
    BY <1>2 DEF HistoryInv
  <2> QED
    BY <1>5, <1>7, <1>8, <1>9, <2>1, ZenonT(30) DEF HistoryInv
<1>11. RestInv(u)
  BY <1>2, <1>4, <1>6, <1>7, <1>8, <1>9, ZenonT(30) DEF RestInv
<1>12. CoreInv(u)
  BY <1>10, <1>11 DEF CoreInv
<1>13. /\ CoreInv(t) /\ SameLists(u, t)
       /\ t.packetHistory # <<>> => t.alarm
       /\ t.lossTime = u.lossTime /\ t.LargestAcked = u.LargestAcked
  BY <1>12, AlarmKeeps
<1> HIDE DEF t
<1>14. /\ CoreInv(t) /\ Armed(t) /\ t.lastSentPacketNumber = n
       /\ Range(h) \subseteq Range(t.packetHistory)
       /\ t.retransmissionQueue = ss.retransmissionQueue
       /\ retransmittable => p \in Range(t.packetHistory)
       /\ t.lossTime = ss.lossTime /\ t.LargestAcked = ss.LargestAcked
  BY <1>5, <1>7, <1>8, <1>13, Zenon DEF SameLists, Armed
<1> QED
  BY <1>1, <1>14 DEF h, n

LEMMA NumbersHeld ==
    ASSUME NEW ss, NEW t, NEW reached, Holds(ss, t, reached)
    PROVE  \A n \in Numbers(ss.packetHistory) \cup Numbers(ss.retransmissionQueue) :
               n \in Numbers(t.packetHistory) \cup Numbers(t.retransmissionQueue) \cup reached
BY Zenon DEF Holds, Numbers

\* What IInv says of the handler and of the other variables.
LEMMA IInvParts ==
    ASSUME IInv
    PROVE  /\ CoreInv(s) /\ Armed(s)
           /\ status = "open" => Sound(s)
           /\ s.lastSentPacketNumber \in Nat
BY LeastIsNat DEF IInv, CoreInv, AlarmArmed, Armed, Sound

(***************************************************************************)
(* A step that only changes the handler and the status.                    *)
(***************************************************************************)
LEMMA HandlerStep ==
    ASSUME IInv, After(s, s', delivered), Armed(s'),
           status' \in {"open", "closed"}, status = "open", status' = "open" => Sound(s'),
           UNCHANGED <<gen, tracked, resent, delivered, limits, frames>>
    PROVE  IInv'
<1>1. CoreInv(s') /\ Holds(s, s', delivered) /\ s'.lastSentPacketNumber = s.lastSentPacketNumber
  BY DEF After
<1>2. HistoryInv(s)' /\ RestInv(s)'
  BY <1>1 DEF CoreInv, HistoryInv, RestInv
<1>3. AlarmArmed'
  BY DEF AlarmArmed, Armed, Sound
<1>4. /\ gen' \in [next : 1 .. MaxSent + 1, nextToSkip : {0}]
      /\ s'.lastSentPacketNumber < gen'.next
      /\ status' = "open" => gen'.next = s'.lastSentPacketNumber + 1
  BY <1>1 DEF IInv
<1>5. HonestAcksAccepted'
  BY DEF HonestAcksAccepted
<1>6. NothingForgotten'
  <2>1. NothingForgotten
    BY DEF IInv
  <2> QED
    BY <1>1, <2>1, NumbersHeld, Zenon DEF NothingForgotten
<1>7. PeerInv'
  BY <1>1 DEF IInv, PeerInv
<1> QED
  BY <1>2, <1>3, <1>4, <1>5, <1>6, <1>7 DEF IInv

LEMMA AlarmStep ==
    ASSUME IInv, NEW k \in 1 .. MaxSent, NEW failed \in BOOLEAN, Alarm(k, failed)
    PROVE  IInv'
<1>1. CoreInv(s) /\ Sound(s) /\ status = "open" /\ status' = "open"
  BY IInvParts DEF Alarm
<1>2. k \in Nat
  BY SentLimitsAssumption
<1>3. After(s, OnAlarm(s, k, failed), {}) /\ Sound(OnAlarm(s, k, failed))
  BY <1>1, <1>2, OnAlarmKeeps, OnAlarmEmpty
<1>4. s' = OnAlarm(s, k, failed)
  BY DEF Alarm
<1>5. After(s, s', {}) /\ Sound(s')
  BY <1>3, <1>4
<1>6. After(s, s', delivered) /\ Armed(s')
  <2>1. After(s, s', delivered)
    BY <1>5, AfterMore DEF After
  <2> QED
    BY <2>1, <1>5 DEF Sound
<1> QED
  BY <1>1, <1>5, <1>6, HandlerStep DEF Alarm

\* The frames of the peer are honest, for the handler that gets them.
LEMMA FramesHonest ==
    ASSUME IInv, NEW i \in DOMAIN frames
    PROVE  /\ HonestFrame(frames[i], delivered) /\ delivered \in SUBSET (1 .. s.lastSentPacketNumber)
           /\ i \in 0 .. MaxAcks
<1>1. PeerInv
  BY DEF IInv
<1>2. i \in 1 .. Len(frames) /\ Len(frames) \in Nat /\ Len(frames) <= MaxAcks
  BY <1>1 DEF PeerInv
<1>3. i \in 0 .. MaxAcks
  BY <1>2, SentLimitsAssumption
<1> QED
  BY <1>1, <1>2, <1>3 DEF PeerInv

LEMMA AckFrameStep ==
    ASSUME IInv, NEW i \in DOMAIN frames, NEW k \in 0 .. MaxSent, handleAckFrame(i, k)
    PROVE  IInv'
<1>1. CoreInv(s) /\ Sound(s) /\ Armed(s) /\ status = "open"
  BY IInvParts DEF handleAckFrame
<1>2. k \in Nat
  BY SentLimitsAssumption
<1> DEFINE frame == frames[i]
           r == ReceivedAck(s, frame, i, k)
<1>3. /\ HonestFrame(frame, delivered) /\ delivered \in SUBSET (1 .. s.lastSentPacketNumber)
      /\ i \in 0 .. MaxAcks
  BY FramesHonest
<1>4. /\ s' = r.handler
      /\ status' = IF r.err \in {"ok", "DuplicateOrOutOfOrderAck"} THEN status ELSE r.err
      /\ UNCHANGED <<gen, tracked, resent, delivered, limits, frames>>
  BY Zenon DEF handleAckFrame
<1> HIDE DEF frame
<1>5. r.err \in {"ok", "DuplicateOrOutOfOrderAck"} /\ After(s, r.handler, delivered) /\ Sound(r.handler)
  BY <1>1, <1>2, <1>3, AckKeeps
<1> HIDE DEF r
<1>6. After(s, s', delivered) /\ Sound(s') /\ status' = "open"
  BY <1>1, <1>4, <1>5
<1>7. Armed(s')
  BY <1>6 DEF Sound
<1> QED
  BY <1>1, <1>4, <1>6, <1>7, HandlerStep

LEMMA ClosePathFrameStep ==
    ASSUME IInv, NEW i \in DOMAIN frames, NEW last \in {s.largestReceivedPacketWithAck, i},
           handleClosePathFrame(i, last)
    PROVE  IInv'
<1>1. CoreInv(s) /\ Sound(s) /\ Armed(s) /\ status = "open"
  BY IInvParts DEF handleClosePathFrame
<1> DEFINE frame == frames[i]
           r == ReceivedClosePath(s, frame, last)
<1>2. /\ HonestFrame(frame, delivered) /\ delivered \in SUBSET (1 .. s.lastSentPacketNumber)
      /\ i \in 0 .. MaxAcks
  BY FramesHonest
<1>3. last \in 0 .. MaxAcks
  <2>1. s.largestReceivedPacketWithAck \in 0 .. MaxAcks
    BY <1>1, FieldTypes DEF CoreInv
  <2> QED
    BY <1>2, <2>1
<1>4. s' = r.handler /\ status' = "closed" /\ UNCHANGED <<gen, tracked, resent, delivered, limits, frames>>
  BY Zenon DEF handleClosePathFrame
<1> HIDE DEF frame
<1>5. After(s, r.handler, delivered) /\ Armed(r.handler)
  BY <1>1, <1>2, <1>3, ClosePathKeeps
<1> HIDE DEF r
<1>6. After(s, s', delivered) /\ Armed(s')
  BY <1>4, <1>5
<1> QED
  BY <1>1, <1>4, <1>6, HandlerStep

LEMMA PeerSendsStep ==
    ASSUME IInv, NEW more \in SUBSET (1 .. s.lastSentPacketNumber), NEW close \in BOOLEAN,
           NEW limit \in 0 .. MaxSent, PeerSends(more, close, limit)
    PROVE  IInv'
<1>1. s.lastSentPacketNumber \in Nat /\ PeerInv
  BY IInvParts DEF IInv
<1>2. /\ UNCHANGED <<s, gen, status, tracked, resent, limits>>
      /\ delivered' = delivered \cup more /\ delivered' # {}
      /\ limit = 0 \/ \E n \in delivered' : <<n, limit>> \in limits
      /\ Len(frames) < MaxAcks
  BY Zenon DEF PeerSends
<1> DEFINE K == s.lastSentPacketNumber
           numbers == {n \in delivered' : n > limit}
           new == FrameOf(numbers, close)
<1>3. delivered' \in SUBSET (1 .. K)
  BY <1>1, <1>2 DEF PeerInv
<1> HIDE DEF K
<1>4. numbers \in SUBSET (1 .. K) /\ K \in Nat
  BY <1>1, <1>3, Zenon DEF K
<1>5. numbers # {}
  <2>1. CASE limit = 0
    <3>1. PICK n : n \in delivered'
      BY <1>2
    <3>2. n > limit
      BY <1>3, <2>1, <3>1
    <3> QED
      BY <3>1, <3>2
  <2>2. CASE \E n \in delivered' : <<n, limit>> \in limits
    <3>1. PICK n \in delivered' : <<n, limit>> \in limits
      BY <2>2
    <3>2. \A l \in limits : l[2] < l[1]
      BY <1>1 DEF PeerInv
    <3>3. limit < n
      BY <3>1, <3>2
    <3>4. n > limit
      BY <1>3, <3>3, SentLimitsAssumption
    <3> QED
      BY <3>4
  <2> QED
    BY <1>2, <2>1, <2>2
<1>6. HonestFrame(new, numbers)
  BY <1>4, <1>5, FrameIsHonest, Zenon
<1>7. HonestFrame(new, delivered')
  <2>1. numbers \cup delivered' = delivered'
    OBVIOUS
  <2> HIDE DEF numbers
  <2> QED
    BY <1>6, <2>1, HonestStays
<1>8. frames' = Append(frames, new)
  BY DEF PeerSends
<1> HIDE DEF new, numbers
<1>9. \A i \in 1 .. Len(frames) : HonestFrame(frames[i], delivered')
  <2>1. \A i \in 1 .. Len(frames) : HonestFrame(frames[i], delivered)
    BY <1>1 DEF PeerInv
  <2> QED
    BY <1>2, <2>1, HonestStays, Zenon
<1>10. /\ Len(frames') = Len(frames) + 1
       /\ frames' \in Seq(Range(frames'))
       /\ frames'[Len(frames) + 1] = new
       /\ \A i \in 1 .. Len(frames) : frames'[i] = frames[i]
       /\ Len(frames) \in Nat
  <2> DEFINE S == Range(frames) \cup {new}
  <2>1. frames \in Seq(Range(frames))
    BY <1>1 DEF PeerInv
  <2>2. Range(frames) \subseteq S /\ new \in S
    OBVIOUS
  <2> HIDE DEF S
  <2>3. frames \in Seq(S)
    BY <2>1, <2>2
  <2>4. Append(frames, new) \in Seq(S) /\ Range(Append(frames, new)) = Range(frames) \cup {new}
    BY <2>2, <2>3, AppendRange
  <2>5. frames' \in Seq(Range(frames'))
    BY <1>8, <2>4 DEF S
  <2> QED
    BY <1>8, <2>3, <2>5
<1>11. ASSUME NEW i \in 1 .. Len(frames') PROVE HonestFrame(frames'[i], delivered')
  <2>1. i \in 1 .. Len(frames) \/ i = Len(frames) + 1
    BY <1>10
  <2> QED
    BY <1>7, <1>9, <1>10, <2>1
<1>12. PeerInv'
  <2>1. delivered' \subseteq 1 .. s'.lastSentPacketNumber
    BY <1>2, <1>3 DEF K
  <2>2. limits' \subseteq Nat \X Nat /\ \A l \in limits' : l[2] < l[1]
    BY <1>1, <1>2 DEF PeerInv
  <2>3. Len(frames') <= MaxAcks
    BY <1>2, <1>10, SentLimitsAssumption
  <2> QED
    BY <1>10, <1>11, <2>1, <2>2, <2>3 DEF PeerInv
<1>13. HistoryInv(s)' /\ RestInv(s)' /\ AlarmArmed' /\ HonestAcksAccepted'
  BY <1>2 DEF IInv, HistoryInv, RestInv, AlarmArmed, HonestAcksAccepted
<1>14. NothingForgotten'
  <2>1. NothingForgotten
    BY DEF IInv
  <2> QED
    BY <1>2, <2>1, Zenon DEF NothingForgotten
<1>15. /\ gen' \in [next : 1 .. MaxSent + 1, nextToSkip : {0}]
       /\ s'.lastSentPacketNumber < gen'.next
       /\ status' = "open" => gen'.next = s'.lastSentPacketNumber + 1
  BY <1>2 DEF IInv
<1> QED
  BY <1>12, <1>13, <1>14, <1>15 DEF IInv

LEMMA RetransmitStep ==
    ASSUME IInv, Retransmit
    PROVE  IInv'
<1> DEFINE q == s.retransmissionQueue
           w == Tail(q)
           t == [s EXCEPT !.retransmissionQueue = w]
<1>1. CoreInv(s) /\ HistoryInv(s) /\ RestInv(s)
  BY IInvParts DEF IInv
<1>2. q \in Seq(PacketType) /\ DOMAIN s = HandlerFields /\ q # <<>>
  BY <1>1, FieldTypes DEF Retransmit
<1>3. s' = t
  BY DEF Retransmit, DequeuePacketForRetransmission
<1>4. w \in Seq(PacketType) /\ \A p \in Range(q) : p = Head(q) \/ p \in Range(w)
  <2> HIDE DEF q
  <2>1. w \in Seq(PacketType) /\ Len(w) = Len(q) - 1 /\ \A i \in 1 .. Len(w) : w[i] = q[i + 1]
    BY <1>2
  <2> HIDE DEF w
  <2>2. ASSUME NEW p \in Range(q) PROVE p = Head(q) \/ p \in Range(w)
    <3>1. PICK i \in 1 .. Len(q) : q[i] = p
      BY <1>2, InRange
    <3>2. CASE i = 1
      BY <1>2, <3>1, <3>2
    <3>3. CASE i # 1
      <4>1. i - 1 \in 1 .. Len(w) /\ (i - 1) + 1 = i
        BY <1>2, <2>1, <3>3
      <4>2. w[i - 1] = p
        BY <2>1, <3>1, <4>1
      <4> QED
        BY <2>1, <4>1, <4>2, InRange
    <3> QED
      BY <3>2, <3>3
  <2> QED
    BY <2>1, <2>2
<1> HIDE DEF w, q
<1>5. Keeps(t, s, {"retransmissionQueue"}) /\ t.retransmissionQueue = w
  BY <1>2 DEF HandlerFields, Keeps
<1> HIDE DEF t
<1>6. /\ Keeps(t, s, LoopFields) /\ t.packetHistory = s.packetHistory
      /\ t.bytesInFlight = s.bytesInFlight /\ t.lastSentPacketNumber = s.lastSentPacketNumber
      /\ t.nextLeastUnacked = s.nextLeastUnacked /\ t.tlpCount = s.tlpCount
      /\ DOMAIN t = HandlerFields
  <2>1. {"retransmissionQueue"} \subseteq LoopFields
    BY DEF LoopFields
  <2>2. Keeps(t, s, LoopFields)
    BY <1>5, <2>1, KeepsMore
  <2> QED
    BY <1>5, <2>2 DEF Keeps, HandlerFields
<1>7. HistoryInv(t)
  BY <1>1, <1>4, <1>5, <1>6, Zenon DEF HistoryInv
<1>8. s.nextLeastUnacked <= t.nextLeastUnacked
  <2>1. s.nextLeastUnacked \in Nat
    BY <1>1, LeastIsNat
  <2> DEFINE l == s.nextLeastUnacked
  <2> HIDE DEF l
  <2>2. l <= l
    BY <2>1 DEF l
  <2> QED
    BY <1>6, <2>2 DEF l
<1>9. /\ RestInv(t) /\ t.LargestAcked = s.LargestAcked
      /\ t.alarm = s.alarm /\ t.lossTime = s.lossTime
  BY <1>1, <1>6, <1>7, <1>8, RestKept
<1>10. HistoryInv(s)' /\ RestInv(s)'
  BY <1>3, <1>7, <1>9 DEF HistoryInv, RestInv
<1>11. AlarmArmed'
  <2>1. UpToLargestAcked(s') = UpToLargestAcked(s)
    BY <1>3, <1>6, <1>9 DEF UpToLargestAcked
  <2>2. AlarmArmed /\ status' = status
    BY DEF IInv, Retransmit
  <2> QED
    BY <1>3, <1>6, <1>9, <2>1, <2>2 DEF AlarmArmed
<1>12. NothingForgotten'
  <2>1. NothingForgotten
    BY DEF IInv
  <2>2. /\ tracked' = tracked /\ delivered' = delivered
        /\ resent' = resent \cup {Head(q).PacketNumber}
    BY DEF Retransmit, q
  <2>3. /\ s'.packetHistory = s.packetHistory /\ s'.retransmissionQueue = w
    BY <1>3, <1>5, <1>6
  <2>4. \A n \in Numbers(q) : n \in Numbers(w) \cup resent'
    BY <1>4, <2>2, Zenon DEF Numbers
  <2> QED
    BY <2>1, <2>2, <2>3, <2>4, Zenon DEF NothingForgotten, q
<1>13. PeerInv'
  BY <1>3, <1>6 DEF IInv, PeerInv, Retransmit
<1>14. /\ gen' \in [next : 1 .. MaxSent + 1, nextToSkip : {0}]
       /\ s'.lastSentPacketNumber < gen'.next
       /\ status' = "open" => gen'.next = s'.lastSentPacketNumber + 1
       /\ HonestAcksAccepted'
  BY <1>3, <1>6 DEF IInv, Retransmit, HonestAcksAccepted
<1> QED
  BY <1>10, <1>11, <1>12, <1>13, <1>14 DEF IInv

LEMMA DuplicateKeeps ==
    ASSUME NEW ss, CoreInv(ss), NEW p \in PacketType
    PROVE  LET t == DuplicatePacket(ss, p)
           IN  /\ CoreInv(t) /\ t.packetHistory = ss.packetHistory
               /\ Range(ss.retransmissionQueue) \subseteq Range(t.retransmissionQueue)
               /\ t.lastSentPacketNumber = ss.lastSentPacketNumber
               /\ t.alarm = ss.alarm /\ t.lossTime = ss.lossTime /\ t.LargestAcked = ss.LargestAcked
<1> DEFINE q == ss.retransmissionQueue
           w == Append(q, p)
           t == [ss EXCEPT !.retransmissionQueue = w]
<1>1. t = DuplicatePacket(ss, p)
  BY DEF DuplicatePacket
<1>2. q \in Seq(PacketType) /\ DOMAIN ss = HandlerFields /\ HistoryInv(ss) /\ RestInv(ss)
  BY FieldTypes DEF CoreInv
<1>3. w \in Seq(PacketType) /\ Range(q) \subseteq Range(w)
  <2>1. w \in Seq(PacketType) /\ Range(w) = Range(q) \cup {p}
    BY <1>2, AppendRange
  <2> HIDE DEF w, q
  <2> QED
    BY <2>1, Zenon
<1> HIDE DEF w, q
<1>4. Keeps(t, ss, {"retransmissionQueue"}) /\ t.retransmissionQueue = w
  BY <1>2 DEF HandlerFields, Keeps
<1> HIDE DEF t
<1>5. /\ Keeps(t, ss, LoopFields) /\ t.packetHistory = ss.packetHistory
      /\ t.bytesInFlight = ss.bytesInFlight /\ t.lastSentPacketNumber = ss.lastSentPacketNumber
      /\ t.nextLeastUnacked = ss.nextLeastUnacked /\ t.tlpCount = ss.tlpCount
      /\ DOMAIN t = HandlerFields
  <2>1. {"retransmissionQueue"} \subseteq LoopFields
    BY DEF LoopFields
  <2>2. Keeps(t, ss, LoopFields)
    BY <1>4, <2>1, KeepsMore
  <2> QED
    BY <1>4, <2>2 DEF Keeps, HandlerFields
<1>6. HistoryInv(t)
  BY <1>2, <1>3, <1>4, <1>5, Zenon DEF HistoryInv
<1>7. ss.nextLeastUnacked <= t.nextLeastUnacked
  <2>1. ss.nextLeastUnacked \in Nat
    BY <1>2, LeastIsNat
  <2> DEFINE l == ss.nextLeastUnacked
  <2> HIDE DEF l
  <2>2. l <= l
    BY <2>1 DEF l
  <2> QED
    BY <1>5, <2>2 DEF l
<1>8. /\ RestInv(t) /\ t.LargestAcked = ss.LargestAcked
      /\ t.alarm = ss.alarm /\ t.lossTime = ss.lossTime
  BY <1>2, <1>5, <1>6, <1>7, RestKept
<1> QED
  BY <1>1, <1>3, <1>4, <1>5, <1>6, <1>8 DEF CoreInv, q

\* The generator never leaves a number out: nextToSkip stays 0.
LEMMA PopIs ==
    ASSUME NEW g \in [next : Nat, nextToSkip : {0}], NEW skip
    PROVE  LET h == Pop(g, skip)
           IN  h \in [next : Nat, nextToSkip : {0}] /\ h.next = g.next + 1
<1> DEFINE n == g.next
<1>1. n \in Nat /\ g.nextToSkip = 0
  OBVIOUS
<1>2. n + 1 # g.nextToSkip
  <2> HIDE DEF n
  <2>1. n + 1 # 0
    BY <1>1
  <2> QED
    BY <1>1, <2>1
<1>3. Pop(g, skip) = [g EXCEPT !.next = n + 1]
  BY <1>2, Zenon DEF Pop
<1> HIDE DEF n
<1>4. n = g.next
  BY DEF n
<1> QED
  BY <1>1, <1>3, <1>4

LEMMA SendStep ==
    ASSUME IInv, NEW r \in BOOLEAN, NEW d \in BOOLEAN, NEW length \in Lengths,
           NEW w \in {"none", "new", "force"}, Send(r, length, 0, w, d)
    PROVE  IInv'
<1> DEFINE force  == w = "force"
           before == IF w = "none" THEN s ELSE GetStopWaitingFrame(s, force)
           least  == IF w = "none" THEN 0 ELSE StopWaiting(s, force)
           number == gen.next
           p      == Packet(number, length)
           after  == SentPacket(before, p, r)
           final  == IF d THEN DuplicatePacket(after, p) ELSE after
<1>1. /\ status = "open" /\ number <= MaxSent
      /\ gen' = Pop(gen, 0)
      /\ resent' = resent /\ delivered' = delivered /\ frames' = frames
      /\ IF TooManyTracked(s)
         THEN s' = before /\ status' = "TooManyTrackedSentPackets" /\ tracked' = tracked /\ limits' = limits
         ELSE /\ s' = final
              /\ tracked' = IF r THEN tracked \cup {p.PacketNumber} ELSE tracked
              /\ limits' = IF least = 0 THEN limits ELSE limits \cup {<<p.PacketNumber, least - 1>>}
              /\ status' = status
  BY Zenon DEF Send
<1>2. /\ CoreInv(s) /\ Sound(s) /\ s.lastSentPacketNumber \in Nat
      /\ number \in 1 .. MaxSent + 1 /\ number = s.lastSentPacketNumber + 1
      /\ gen \in [next : 1 .. MaxSent + 1, nextToSkip : {0}]
  BY <1>1, IInvParts DEF IInv
<1> HIDE DEF number
<1>3. number \in 1 .. MaxSent /\ number \in Nat
  BY <1>1, <1>2, SentLimitsAssumption
<1>4. gen' \in [next : Nat, nextToSkip : {0}] /\ gen'.next = number + 1
  <2>1. gen \in [next : Nat, nextToSkip : {0}]
    BY <1>2, SentLimitsAssumption
  <2> QED
    BY <1>1, <2>1, PopIs DEF number
<1>5. /\ CoreInv(before) /\ SameLists(s, before)
      /\ before.alarm = s.alarm /\ before.lossTime = s.lossTime /\ before.LargestAcked = s.LargestAcked
      /\ least \in 0 .. s.nextLeastUnacked
  <2>1. CASE w = "none"
    <3>1. before = s /\ least = 0
      BY <2>1
    <3>2. s.nextLeastUnacked \in Nat
      BY <1>2, LeastIsNat DEF CoreInv
    <3> HIDE DEF before, least
    <3> QED
      BY <1>2, <3>1, <3>2 DEF SameLists
  <2>2. CASE w # "none"
    <3>1. before = GetStopWaitingFrame(s, force) /\ least = StopWaiting(s, force) /\ force \in BOOLEAN
      BY <2>2
    <3> HIDE DEF before, least, force
    <3> QED
      BY <1>2, <3>1, StopWaitingKeeps
  <2> QED
    BY <2>1, <2>2
<1>6. Sound(before)
  BY <1>2, <1>5, StaysSound
<1> HIDE DEF before, least
<1>7. p \in PacketType /\ p.PacketNumber = number
  BY <1>3 DEF Packet, PacketType
<1> HIDE DEF p
<1>8. /\ CoreInv(after) /\ Armed(after)
      /\ after.lastSentPacketNumber = number
      /\ Range(s.packetHistory) \subseteq Range(after.packetHistory)
      /\ after.retransmissionQueue = s.retransmissionQueue
      /\ r => p \in Range(after.packetHistory)
      /\ after.lossTime = s.lossTime /\ after.LargestAcked = s.LargestAcked
  <2>1. before.lastSentPacketNumber = s.lastSentPacketNumber
        /\ before.packetHistory = s.packetHistory /\ before.retransmissionQueue = s.retransmissionQueue
    BY <1>5 DEF SameLists
  <2>2. p.PacketNumber = before.lastSentPacketNumber + 1
    BY <1>2, <1>7, <2>1
  <2>3. /\ CoreInv(after) /\ Armed(after)
        /\ after.lastSentPacketNumber = p.PacketNumber
        /\ Range(before.packetHistory) \subseteq Range(after.packetHistory)
        /\ after.retransmissionQueue = before.retransmissionQueue
        /\ r => p \in Range(after.packetHistory)
        /\ after.lossTime = before.lossTime /\ after.LargestAcked = before.LargestAcked
    BY <1>5, <1>7, <2>2, SentKeeps
  <2> HIDE DEF after
  <2> QED
    BY <1>5, <1>7, <2>1, <2>3
<1> HIDE DEF after
<1>9. /\ CoreInv(final) /\ Armed(final)
      /\ final.lastSentPacketNumber = number
      /\ Range(s.packetHistory) \subseteq Range(final.packetHistory)
      /\ Range(s.retransmissionQueue) \subseteq Range(final.retransmissionQueue)
      /\ r => p \in Range(final.packetHistory)
      /\ final.lossTime = s.lossTime /\ final.LargestAcked = s.LargestAcked
  <2>1. CASE d
    <3>1. final = DuplicatePacket(after, p)
      BY <2>1
    <3> HIDE DEF final
    <3>2. /\ CoreInv(final) /\ final.packetHistory = after.packetHistory
          /\ Range(after.retransmissionQueue) \subseteq Range(final.retransmissionQueue)
          /\ final.lastSentPacketNumber = after.lastSentPacketNumber
          /\ final.alarm = after.alarm /\ final.lossTime = after.lossTime
          /\ final.LargestAcked = after.LargestAcked
      BY <1>7, <1>8, <3>1, DuplicateKeeps
    <3> QED
      BY <1>8, <3>2 DEF Armed
  <2>2. CASE ~ d
    <3>1. final = after
      BY <2>2
    <3> HIDE DEF final
    <3> QED
      BY <1>8, <3>1
  <2> QED
    BY <2>1, <2>2
<1> HIDE DEF final
<1>10. Sound(final)
  <2>1. ASSUME final.lossTime PROVE UpToLargestAcked(final) # <<>>
    <3>1. UpToLargestAcked(s) # <<>>
      BY <1>2, <1>9, <2>1 DEF Sound
    <3>2. HistoryInv(s) /\ HistoryInv(final) /\ s.LargestAcked \in 0 .. s.lastSentPacketNumber
      BY <1>2, <1>9, FieldTypes DEF CoreInv
    <3> DEFINE la == s.LargestAcked
    <3>3. la \in Nat
      <4> DEFINE last == s.lastSentPacketNumber
      <4> HIDE DEF la, last
      <4> QED
        BY <1>2, <3>2 DEF la, last
    <3>4. PICK q \in Range(s.packetHistory) : q.PacketNumber <= la
      BY <3>1, <3>2, <3>3, UpToNonEmpty
    <3>5. final.LargestAcked \in Nat /\ q \in Range(final.packetHistory) /\ q.PacketNumber <= final.LargestAcked
      BY <1>9, <3>3, <3>4
    <3> QED
      BY <3>2, <3>5, UpToNonEmpty
  <2> QED
    BY <1>9, <2>1 DEF Sound
<1>11. gen' \in [next : 1 .. MaxSent + 1, nextToSkip : {0}]
  <2>1. number + 1 \in 1 .. MaxSent + 1
    BY <1>3, SentLimitsAssumption
  <2> QED
    BY <1>4, <2>1
<1>12. PeerInv /\ NothingForgotten
  BY DEF IInv
<1>13. ASSUME TooManyTracked(s) PROVE IInv'
  <2>1. s' = before /\ status' = "TooManyTrackedSentPackets" /\ tracked' = tracked /\ limits' = limits
    BY <1>1, <1>13
  <2>2. /\ s'.packetHistory = s.packetHistory /\ s'.retransmissionQueue = s.retransmissionQueue
        /\ s'.lastSentPacketNumber = s.lastSentPacketNumber
    BY <1>5, <2>1 DEF SameLists
  <2>3. HistoryInv(s)' /\ RestInv(s)'
    BY <1>5, <2>1 DEF CoreInv, HistoryInv, RestInv
  <2>4. AlarmArmed'
    BY <1>6, <2>1 DEF AlarmArmed, Sound, Armed
  <2>5. NothingForgotten'
    BY <1>1, <1>12, <2>1, <2>2, ZenonT(30) DEF NothingForgotten
  <2>6. PeerInv'
    BY <1>1, <1>12, <2>1, <2>2 DEF PeerInv
  <2>7. s'.lastSentPacketNumber < gen'.next /\ (status' = "open" => gen'.next = s'.lastSentPacketNumber + 1)
        /\ HonestAcksAccepted'
    <3> DEFINE last == s.lastSentPacketNumber
    <3> HIDE DEF last
    <3>1. last < number + 1
      BY <1>2, <1>3 DEF last
    <3> QED
      BY <1>4, <2>1, <2>2, <3>1 DEF last, HonestAcksAccepted
  <2> QED
    BY <1>11, <2>3, <2>4, <2>5, <2>6, <2>7 DEF IInv
<1>14. ASSUME ~ TooManyTracked(s) PROVE IInv'
  <2>1. /\ s' = final /\ status' = "open"
        /\ tracked' = IF r THEN tracked \cup {p.PacketNumber} ELSE tracked
        /\ limits' = IF least = 0 THEN limits ELSE limits \cup {<<p.PacketNumber, least - 1>>}
    BY <1>1, <1>14
  <2>2. HistoryInv(s)' /\ RestInv(s)'
    BY <1>9, <2>1, Zenon DEF CoreInv, HistoryInv, RestInv
  <2>3. AlarmArmed'
    BY <1>10, <2>1 DEF AlarmArmed, Sound, Armed
  <2>4. s'.lastSentPacketNumber = number
    BY <1>9, <2>1
  <2>5. s'.lastSentPacketNumber < gen'.next /\ (status' = "open" => gen'.next = s'.lastSentPacketNumber + 1)
        /\ HonestAcksAccepted'
    BY <1>3, <1>4, <2>1, <2>4 DEF HonestAcksAccepted
  <2>6. NothingForgotten'
    <3>1. /\ Range(s.packetHistory) \subseteq Range(s'.packetHistory)
          /\ Range(s.retransmissionQueue) \subseteq Range(s'.retransmissionQueue)
          /\ r => p \in Range(s'.packetHistory)
      BY <1>9, <2>1
    <3>2. ASSUME NEW n \in tracked'
          PROVE  n \in Numbers(s'.packetHistory) \cup Numbers(s'.retransmissionQueue) \cup resent' \cup delivered'
      <4>1. CASE n \in tracked
        BY <1>1, <1>12, <3>1, <4>1, ZenonT(30) DEF NothingForgotten, Numbers
      <4>2. CASE n \notin tracked
        <5>1. r /\ n = p.PacketNumber
          BY <2>1, <4>2
        <5> QED
          BY <3>1, <5>1, ZenonT(30) DEF Numbers
      <4> QED
        BY <4>1, <4>2
    <3> QED
      BY <3>2, ZenonT(30) DEF NothingForgotten
  <2>7. PeerInv'
    <3>1. delivered' \subseteq 1 .. s'.lastSentPacketNumber
      <4> DEFINE last == s.lastSentPacketNumber
      <4>1. delivered \subseteq 1 .. last
        BY <1>12 DEF PeerInv
      <4> HIDE DEF last
      <4>2. delivered \subseteq 1 .. number
        BY <1>2, <4>1 DEF last
      <4> QED
        BY <1>1, <2>4, <4>2
    <3>2. ASSUME NEW l \in limits' PROVE l \in Nat \X Nat /\ l[2] < l[1]
      <4>1. CASE l \in limits
        BY <1>12, <4>1 DEF PeerInv
      <4>2. CASE l \notin limits
        <5>1. least # 0 /\ l = <<number, least - 1>>
          BY <1>7, <2>1, <4>2
        <5>2. s.nextLeastUnacked \in Nat /\ s.nextLeastUnacked <= number
          BY <1>2, LeastIsNat DEF CoreInv
        <5> DEFINE nl == s.nextLeastUnacked
        <5>3. least \in 0 .. nl
          BY <1>5
        <5> HIDE DEF nl
        <5>4. least - 1 \in Nat /\ least - 1 < number
          BY <1>3, <5>1, <5>2, <5>3 DEF nl
        <5> QED
          BY <1>3, <5>1, <5>4
      <4> QED
        BY <4>1, <4>2
    <3>3. limits' \subseteq Nat \X Nat /\ \A l \in limits' : l[2] < l[1]
      BY <3>2
    <3> QED
      BY <1>1, <1>12, <3>1, <3>3 DEF PeerInv
  <2> QED
    BY <1>11, <2>2, <2>3, <2>5, <2>6, <2>7 DEF IInv
<1> QED
  BY <1>13, <1>14

LEMMA InitIInv == Init => IInv
<1> SUFFICES ASSUME Init PROVE IInv
  OBVIOUS
<1>1. /\ s = NewSentPacketHandler /\ gen = NewGenerator /\ status = "open"
      /\ tracked = {} /\ delivered = {} /\ limits = {} /\ frames = <<>>
  BY DEF Init
<1>2. /\ DOMAIN s = HandlerFields
      /\ s.packetHistory = <<>> /\ s.retransmissionQueue = <<>> /\ s.skippedPackets = <<>>
      /\ s.lastSentPacketNumber = 0 /\ s.LargestAcked = 0 /\ s.largestReceivedPacketWithAck = 0
      /\ s.bytesInFlight = 0 /\ s.tlpCount = 0 /\ s.packets = 0 /\ s.numNonRetransmittablePackets = 0
      /\ s.largestLeastUnackedSent = 0 /\ s.nextLeastUnacked = 0 /\ s.lastStopWaitingFrame = 0
  BY <1>1 DEF NewSentPacketHandler, HandlerFields
<1>3. s.lossTime = FALSE /\ s.alarm = FALSE /\ s.rttKnown = FALSE
  BY <1>1, ZenonT(30) DEF NewSentPacketHandler
<1>4. HistoryInv(s)
  <2>1. <<>> \in Seq(PacketType) /\ Len(<<>>) = 0 /\ InOrder(<<>>) /\ Bytes(<<>>) = 0
    BY BytesEmpty DEF InOrder
  <2>2. 0 \in 0 .. MaxSent /\ 0 \in 0 .. 0 + 1 /\ 0 \in 0 .. MaxTailLossProbes
    BY SentLimitsAssumption
  <2> QED
    BY <1>2, <2>1, <2>2 DEF HistoryInv
<1>5. RestInv(s)
  <2>1. 0 \in 0 .. MaxAcks /\ 0 \in 0 .. 0 /\ 0 \in Nat
    BY SentLimitsAssumption
  <2> QED
    BY <1>2, <1>3, <2>1, ZenonT(30) DEF RestInv
<1>6. AlarmArmed
  BY <1>2, <1>3, ZenonT(30) DEF AlarmArmed
<1>7. /\ gen \in [next : 1 .. MaxSent + 1, nextToSkip : {0}]
      /\ s.lastSentPacketNumber < gen.next /\ gen.next = s.lastSentPacketNumber + 1
  BY <1>1, <1>2, SentLimitsAssumption DEF NewGenerator
<1>8. HonestAcksAccepted /\ NothingForgotten
  BY <1>1 DEF HonestAcksAccepted, NothingForgotten
<1>9. PeerInv
  <2>1. <<>> \in Seq(Range(<<>>)) /\ Len(<<>>) = 0
    OBVIOUS
  <2> QED
    BY <1>1, <2>1, SentLimitsAssumption DEF PeerInv
<1> QED
  BY <1>4, <1>5, <1>6, <1>7, <1>8, <1>9 DEF IInv

LEMMA NextIInv == IInv /\ [Next]_vars => IInv'
<1> SUFFICES ASSUME IInv, [Next]_vars PROVE IInv'
  OBVIOUS
<1>1. ASSUME NEW r \in BOOLEAN, NEW d \in BOOLEAN, NEW length \in Lengths,
             NEW w \in {"none", "new", "force"}, Send(r, length, 0, w, d)
      PROVE  IInv'
  BY <1>1, SendStep
<1>2. CASE Retransmit
  BY <1>2, RetransmitStep
<1>3. ASSUME NEW k \in 1 .. MaxSent, NEW failed \in BOOLEAN, Alarm(k, failed) PROVE IInv'
  BY <1>3, AlarmStep
<1>4. ASSUME NEW i \in DOMAIN frames, NEW k \in 0 .. MaxSent, handleAckFrame(i, k) PROVE IInv'
  BY <1>4, AckFrameStep
<1>5. ASSUME NEW i \in DOMAIN frames, NEW last \in {s.largestReceivedPacketWithAck, i},
             handleClosePathFrame(i, last)
      PROVE  IInv'
  BY <1>5, ClosePathFrameStep
<1>6. ASSUME NEW more \in SUBSET (1 .. s.lastSentPacketNumber), NEW close \in BOOLEAN,
             NEW limit \in 0 .. MaxSent, PeerSends(more, close, limit)
      PROVE  IInv'
  BY <1>6, PeerSendsStep
<1>7. CASE UNCHANGED vars
  BY <1>7 DEF vars, IInv, HistoryInv, RestInv, AlarmArmed, HonestAcksAccepted, NothingForgotten, PeerInv
<1> QED
  BY <1>1, <1>2, <1>3, <1>4, <1>5, <1>6, <1>7, ZenonT(30) DEF Next

(***************************************************************************)
(* The inductive invariant of the sent packet handler: the history is in   *)
(* order of sending and weighs bytesInFlight, no packet number is ever     *)
(* left out, what the peer's frames acknowledge did reach it, and every    *)
(* STOP_WAITING limit lies below the number of the packet it travelled in. *)
(***************************************************************************)
THEOREM SentInvariant == Spec => []IInv
BY InitIInv, NextIInv, PTL DEF Spec

(***************************************************************************)
(* bytesInFlight is the sum of the lengths of the packets in flight after  *)
(* any sequence of sends, alarms and ACKs that come twice, late or out of  *)
(* order, and the rest of the handler keeps its type.                      *)
(***************************************************************************)
THEOREM BytesStayExact == Spec => []BytesInFlightExact
<1>1. IInv => BytesInFlightExact
  <2> SUFFICES ASSUME IInv PROVE BytesInFlightExact
    OBVIOUS
  <2>1. HistoryInv(s) /\ RestInv(s)
    BY DEF IInv
  <2>2. s.bytesInFlight = Bytes(s.packetHistory) /\ s.packetHistory \in Seq(PacketType)
    BY <2>1 DEF HistoryInv
  <2>3. Bytes(s.packetHistory) \in Nat
    <3>1. IsFiniteSet(Range(s.packetHistory)) /\ Range(s.packetHistory) \in SUBSET PacketType
      BY <2>2, RangeFinite
    <3>2. IsFiniteSet(BytesOf(Range(s.packetHistory)))
      BY <3>1, BytesFinite
    <3>3. Cardinality(BytesOf(Range(s.packetHistory))) \in Nat
      BY <3>2, FS_CardinalityType
    <3> QED
      BY <3>3, Zenon DEF Bytes, BytesOf
  <2>4. s.packets \in 0 .. MaxSent /\ s.numNonRetransmittablePackets \in 0 .. MaxSent
    <3> DEFINE a == s.packets
               b == s.numNonRetransmittablePackets
               last == s.lastSentPacketNumber
    <3>1. a \in 0 .. last /\ b \in 0 .. last /\ last \in 0 .. MaxSent
      BY <2>1 DEF HistoryInv, RestInv
    <3> HIDE DEF a, b, last
    <3>2. a \in 0 .. MaxSent /\ b \in 0 .. MaxSent
      BY <3>1, SentLimitsAssumption
    <3> QED
      BY <3>2 DEF a, b
  <2>5. s.skippedPackets \in Seq(1 .. MaxSent)
    BY <2>1 DEF RestInv
  <2>6. gen \in [next : 1 .. MaxSent + 2, nextToSkip : Nat]
    BY SentLimitsAssumption DEF IInv
  <2>7. status \in {"open", "closed", "TooManyTrackedSentPackets", "AckForUnsentPacket",
                    "AckForSkippedPacket", "BUG"}
    BY DEF IInv, HonestAcksAccepted
  <2>8. {s.lossTime, s.alarm, s.rttKnown} \subseteq BOOLEAN
    BY <2>1, Zenon DEF RestInv
  <2>9. TypeOK
    BY <2>1, <2>2, <2>3, <2>4, <2>5, <2>6, <2>7, <2>8, ZenonT(30) DEF TypeOK, HistoryInv, RestInv
  <2> QED
    BY <2>2, <2>9 DEF BytesInFlightExact
<1> QED
  BY <1>1, SentInvariant, PTL

(***************************************************************************)
(* A retransmittable packet that left the handler was handed out for       *)
(* retransmission or reached the peer.                                     *)
(***************************************************************************)
THEOREM NoPacketForgotten == Spec => []NothingForgotten
<1>1. IInv => NothingForgotten
  BY DEF IInv
<1> QED
  BY <1>1, SentInvariant, PTL

(***************************************************************************)
(* As long as a packet is in flight the alarm is set, and the loss time of *)
(* an open path belongs to a packet that OnAlarm will find.                *)
(***************************************************************************)
THEOREM AlarmStaysArmed == Spec => []AlarmArmed
<1>1. IInv => AlarmArmed
  BY DEF IInv
<1> QED
  BY <1>1, SentInvariant, PTL

(***************************************************************************)
(* The difference that a STOP_WAITING frame is encoded as is never         *)
(* negative.                                                               *)
(***************************************************************************)
THEOREM StopWaitingIsWritable == Spec => []StopWaitingWritable
<1>1. IInv => StopWaitingWritable
  <2> SUFFICES ASSUME IInv PROVE StopWaitingWritable
    OBVIOUS
  <2> DEFINE nl == s.nextLeastUnacked
             last == s.lastSentPacketNumber
             next == gen.next
  <2>1. nl \in Nat /\ last \in Nat /\ nl <= last + 1 /\ last < next /\ next \in 1 .. MaxSent + 1
    BY LeastIsNat DEF IInv
  <2> HIDE DEF nl, last, next
  <2>2. nl <= next
    BY <2>1, SentLimitsAssumption
  <2> QED
    BY <2>2 DEF StopWaitingWritable, nl, next
<1> QED
  BY <1>1, SentInvariant, PTL

(***************************************************************************)
(* No ACK or CLOSE_PATH frame of a peer that reports what it received      *)
(* makes the handler return an error that closes the session, with any     *)
(* gaps in what arrived and any order of the frames.                       *)
(***************************************************************************)
THEOREM HonestAcksAreAccepted == Spec => []HonestAcksAccepted
<1>1. IInv => HonestAcksAccepted
  BY DEF IInv
<1> QED
  BY <1>1, SentInvariant, PTL
==========================================================================
