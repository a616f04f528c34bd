------------------------ MODULE SentPacketHandler ------------------------
(***************************************************************************)
(* The sending half of one path's ACK logic                                *)
(* (ackhandler/sent_packet_handler.go and stop_waiting_manager.go) with    *)
(* the path's packetNumberGenerator.  Operations are operators on the      *)
(* record s, the receiver of the Go methods.                               *)
(*                                                                         *)
(* Time is abstracted: lossTime and alarm say whether the Go time is set,  *)
(* and the number of packets that are old enough to be lost is a choice.   *)
(* The congestion controller only decides when to send; it is left out,    *)
(* and so is rtoCount, which only stretches the RTO.                       *)
(***************************************************************************)
EXTENDS ReceivedPacketHistory, FiniteSets

CONSTANTS
    MaxTrackedSentPackets,
    MaxTrackedSkippedPackets,
    MaxTailLossProbes,
    Lengths,         \* bound: the packet lengths
    MaxSent,         \* bound: packets sent on the path
    MaxAcks          \* bound: ACK and CLOSE_PATH frames the peer sends

ASSUME SentLimitsAssumption ==
    /\ MaxTrackedSentPackets \in Nat \ {0}
    /\ MaxTrackedSkippedPackets \in Nat
    /\ MaxTailLossProbes \in Nat
    /\ Lengths \subseteq Nat
    /\ MaxSent \in Nat
    /\ MaxAcks \in Nat

VARIABLES
    s,          \* the sentPacketHandler
    gen,        \* the packetNumberGenerator of the path
    status,     \* "open", "closed" by a CLOSE_PATH, or the session's error
    tracked,    \* history: numbers of the retransmittable packets sent
    resent,     \* history: numbers handed out for retransmission
    delivered,  \* the peer: packet numbers that reached it before its last ACK
    limits,     \* the peer: lower limits of the STOP_WAITING frames sent
    frames      \* the peer: its frames; ACK frame i travels in its packet i

vars == <<s, gen, status, tracked, resent, delivered, limits, frames>>

Packet(number, length) == [PacketNumber |-> number, Length |-> length]
--------------------------------------------------------------------------
(***************************************************************************)
(* The packet number generator.  skip is the random part of the distance   *)
(* to the next number left out.                                            *)
(***************************************************************************)
NewGenerator == [next |-> 1, nextToSkip |-> 0]

Pop(g, skip) ==
    IF g.next + 1 = g.nextToSkip
    THEN [next |-> g.next + 2, nextToSkip |-> g.next + 4 + skip]
    ELSE [g EXCEPT !.next = @ + 1]
--------------------------------------------------------------------------
(***************************************************************************)
(* The STOP_WAITING manager.  lastStopWaitingFrame is its LeastUnacked, or *)
(* 0 for nil.  StopWaiting is the frame that GetStopWaitingFrame returns.  *)
(***************************************************************************)
NewLeastUnacked(ss) == ss.nextLeastUnacked > ss.largestLeastUnackedSent

GetStopWaitingFrame(ss, force) ==
    IF NewLeastUnacked(ss)
    THEN [ss EXCEPT !.largestLeastUnackedSent = ss.nextLeastUnacked,
                    !.lastStopWaitingFrame = ss.nextLeastUnacked]
    ELSE [ss EXCEPT !.lastStopWaitingFrame =
              IF force /\ @ = 0 /\ ss.largestLeastUnackedSent > 0
              THEN ss.nextLeastUnacked ELSE @]

StopWaiting(ss, force) ==
    IF NewLeastUnacked(ss) \/ force THEN GetStopWaitingFrame(ss, force).lastStopWaitingFrame ELSE 0

\* Mutant: the number after next is taken as the least unacked one.
NothingBelow_OffByOne(ss, p) == [ss EXCEPT !.nextLeastUnacked = IF p >= @ THEN p + 2 ELSE @]

(***************************************************************************)
(* ReceivedAck and QueuedRetransmissionForPacketNumber: p and the numbers  *)
(* below it are not waited for any more.                                   *)
(***************************************************************************)
NothingBelow(ss, p) == [ss EXCEPT !.nextLeastUnacked = IF p >= @ THEN p + 1 ELSE @]
--------------------------------------------------------------------------
NewSentPacketHandler ==
    [lastSentPacketNumber |-> 0, skippedPackets |-> <<>>, LargestAcked |-> 0,
     largestReceivedPacketWithAck |-> 0, packetHistory |-> <<>>,
     retransmissionQueue |-> <<>>, bytesInFlight |-> 0, tlpCount |-> 0,
     lossTime |-> FALSE, alarm |-> FALSE, rttKnown |-> FALSE,
     packets |-> 0, numNonRetransmittablePackets |-> 0,
     largestLeastUnackedSent |-> 0, nextLeastUnacked |-> 0, lastStopWaitingFrame |-> 0]

largestInOrderAcked(ss) ==
    IF ss.packetHistory = <<>> THEN ss.LargestAcked ELSE ss.packetHistory[1].PacketNumber - 1

GetLeastUnacked(ss) == largestInOrderAcked(ss) + 1

updateLossDetectionAlarm(ss) == [ss EXCEPT !.alarm = ss.packetHistory # <<>>]

NumTracked(ss) == Len(ss.retransmissionQueue) + Len(ss.packetHistory)

TooManyTracked(ss) == NumTracked(ss) + 1 > MaxTrackedSentPackets

\* At most MaxTrackedSkippedPackets of the numbers left out are kept.
SkipUpTo(ss, number) ==
    LET all == ss.skippedPackets \o [i \in 1 .. number - ss.lastSentPacketNumber - 1 |->
                                         ss.lastSentPacketNumber + i]
        drop == Len(all) - MaxTrackedSkippedPackets
    IN  IF drop > 0 THEN SubSeq(all, drop + 1, Len(all)) ELSE all

SentPacket(ss, p, retransmittable) ==
    updateLossDetectionAlarm(
        [ss EXCEPT !.skippedPackets = SkipUpTo(ss, p.PacketNumber),
                   !.lastSentPacketNumber = p.PacketNumber,
                   !.packets = @ + 1,
                   !.numNonRetransmittablePackets = IF retransmittable THEN 0 ELSE @ + 1,
                   !.bytesInFlight = IF retransmittable THEN @ + p.Length ELSE @,
                   !.packetHistory = IF retransmittable THEN Append(@, p) ELSE @])

DuplicatePacket(ss, p) == [ss EXCEPT !.retransmissionQueue = Append(@, p)]

DequeuePacketForRetransmission(ss) == [ss EXCEPT !.retransmissionQueue = Tail(@)]

\* PacketList.Remove takes one element out of the list.
Without(history, p) ==
    RemoveAt(history, FirstOf({i \in 1 .. Len(history) : history[i] = p}))

\* Mutant: the packet leaves the history without being queued.
queuePacketForRetransmission_Lost(ss, p) ==
    NothingBelow([ss EXCEPT !.bytesInFlight = @ - p.Length,
                            !.packetHistory = Without(@, p)],
                 p.PacketNumber)

queuePacketForRetransmission(ss, p) ==
    NothingBelow([ss EXCEPT !.bytesInFlight = @ - p.Length,
                            !.retransmissionQueue = Append(@, p),
                            !.packetHistory = Without(@, p)],
                 p.PacketNumber)

\* Mutant: the bytes of an acknowledged packet stay in flight.
onPacketAcked_KeepsBytes(ss, p) ==
    [ss EXCEPT !.tlpCount = 0, !.packetHistory = Without(@, p)]

onPacketAcked(ss, p) ==
    [ss EXCEPT !.bytesInFlight = @ - p.Length, !.tlpCount = 0,
               !.packetHistory = Without(@, p)]

\* The packets ps are queued one after the other.
Queue(ss, ps) ==
    LET after[n \in 0 .. Len(ps)] ==
            IF n = 0 THEN ss ELSE queuePacketForRetransmission(after[n - 1], ps[n])
    IN  after[Len(ps)]

(***************************************************************************)
(* detectLostPackets looks at the packets up to LargestAcked, oldest       *)
(* first.  Up to k of them are older than the reordering delay; lossTime   *)
(* is when the next one will be.                                           *)
(***************************************************************************)
Smaller(a, b) == IF a < b THEN a ELSE b

UpToLargestAcked(ss) ==
    LET stop == FirstOf({i \in 1 .. Len(ss.packetHistory) :
                             ss.packetHistory[i].PacketNumber > ss.LargestAcked})
    IN  IF stop = 0 THEN ss.packetHistory ELSE SubSeq(ss.packetHistory, 1, stop - 1)

\* Mutant: lossTime is set, never reset.
detectLostPackets_Sticky(ss, k) ==
    LET candidates == UpToLargestAcked(ss)
    IN  [Queue(ss, SubSeq(candidates, 1, Smaller(k, Len(candidates))))
            EXCEPT !.lossTime = @ \/ k < Len(candidates)]

detectLostPackets(ss, k) ==
    LET candidates == UpToLargestAcked(ss)
    IN  [Queue(ss, SubSeq(candidates, 1, Smaller(k, Len(candidates))))
            EXCEPT !.lossTime = k < Len(candidates)]

SetInflightAsLost(ss) == Queue(ss, UpToLargestAcked(ss))

(***************************************************************************)
(* Which packets a frame acknowledges: wire.AckFrame.AcksPacket, and       *)
(* determineNewlyAckedPackets, which walks the ranges upwards beside the   *)
(* history.  It evaluates packet pn against the lowest range that ends at  *)
(* or above pn, or against the highest range when there is none.           *)
(***************************************************************************)
AcksPacket(frame, pn) ==
    /\ pn \in frame.LowestAcked .. frame.LargestAcked
    /\ frame.AckRanges = <<>> \/ \E r \in Range(frame.AckRanges) : pn \in r.Start .. r.End

\* Mutant: the walk stays at the lowest range.
RangeFor_Lowest(frame, pn) == Back(frame.AckRanges)

RangeFor(frame, pn) ==
    LET i == LastOf({j \in 1 .. Len(frame.AckRanges) : frame.AckRanges[j].End >= pn})
    IN  frame.AckRanges[IF i = 0 THEN 1 ELSE i]

EvaluatedAsAcked(frame, pn) ==
    /\ pn \in frame.LowestAcked .. frame.LargestAcked
    /\ frame.AckRanges = <<>> \/ pn >= RangeFor(frame, pn).Start

NewlyAcked(ss, frame) ==
    LET history == ss.packetHistory
        acked[n \in 0 .. Len(history)] ==
            IF n = 0 THEN <<>>
            ELSE IF EvaluatedAsAcked(frame, history[n].PacketNumber)
            THEN Append(acked[n - 1], history[n]) ELSE acked[n - 1]
    IN  acked[Len(history)]

WrongPacketAcked(ss, frame) ==
    /\ frame.AckRanges # <<>>
    /\ \E p \in Range(NewlyAcked(ss, frame)) :
           p.PacketNumber > RangeFor(frame, p.PacketNumber).End

garbageCollectSkippedPackets(ss) ==
    LET deleteIndex == LastOf({i \in 1 .. Len(ss.skippedPackets) :
                                   ss.skippedPackets[i] <= largestInOrderAcked(ss)})
    IN  [ss EXCEPT !.skippedPackets = SubSeq(@, deleteIndex + 1, Len(@))]

(***************************************************************************)
(* The checks that ReceivedAck and ReceivedClosePath make first, and those *)
(* on the packets that the frame acknowledges.                             *)
(***************************************************************************)
AckVerdict(ss, frame, with) ==
    IF frame.LargestAcked > ss.lastSentPacketNumber THEN "AckForUnsentPacket"
    ELSE IF with <= ss.largestReceivedPacketWithAck THEN "DuplicateOrOutOfOrderAck"
    ELSE "ok"

ContentVerdict(ss, frame) ==
    IF \E p \in Range(ss.skippedPackets) : AcksPacket(frame, p) THEN "AckForSkippedPacket"
    ELSE IF WrongPacketAcked(ss, frame) THEN "BUG"
    ELSE "ok"

RepeatedAck(ss, frame) == frame.LargestAcked <= largestInOrderAcked(ss)

SeenWith(ss, with) == [ss EXCEPT !.largestReceivedPacketWithAck = with]

maybeUpdateRTT(ss, largestAcked) ==
    [ss EXCEPT !.rttKnown = @ \/ \E p \in Range(ss.packetHistory) : p.PacketNumber = largestAcked]

Acked(ss, frame) ==
    LET ps == NewlyAcked(ss, frame)
        after[n \in 0 .. Len(ps)] ==
            IF n = 0 THEN ss ELSE onPacketAcked(after[n - 1], ps[n])
    IN  after[Len(ps)]

(***************************************************************************)
(* ReceivedAck and ReceivedClosePath return the handler and the error.     *)
(***************************************************************************)
ReceivedAck(ss, frame, with, k) ==
    LET seen  == SeenWith(ss, with)
        taken == [seen EXCEPT !.LargestAcked = frame.LargestAcked]
        lost  == detectLostPackets(Acked(maybeUpdateRTT(taken, frame.LargestAcked), frame), k)
        done  == NothingBelow(garbageCollectSkippedPackets(updateLossDetectionAlarm(lost)),
                              frame.LargestAcked)
        verdict == ContentVerdict(taken, frame)
    IN  IF AckVerdict(ss, frame, with) # "ok"
        THEN [handler |-> ss, err |-> AckVerdict(ss, frame, with)]
        ELSE IF RepeatedAck(seen, frame) THEN [handler |-> seen, err |-> "ok"]
        ELSE [handler |-> IF verdict = "ok" THEN done ELSE taken, err |-> verdict]

ReceivedClosePath(ss, frame, with) ==
    LET seen    == SeenWith(ss, with)
        verdict == ContentVerdict(seen, frame)
    IN  IF AckVerdict(ss, frame, with) # "ok"
        THEN [handler |-> ss, err |-> AckVerdict(ss, frame, with)]
        ELSE [handler |-> IF verdict = "ok"
                          THEN garbageCollectSkippedPackets(SetInflightAsLost(Acked(seen, frame)))
                          ELSE seen,
              err |-> verdict]

retransmitTLP(ss) ==
    [queuePacketForRetransmission(ss, Back(ss.packetHistory)) EXCEPT !.tlpCount = @ + 1]

\* Mutant: after the probes the alarm is only set again.
OnAlarm_NoRTO(ss, k, potentiallyFailed) ==
    IF ss.packetHistory = <<>>
    THEN [ss EXCEPT !.alarm = FALSE]
    ELSE updateLossDetectionAlarm(
            IF ss.lossTime THEN detectLostPackets(ss, k)
            ELSE IF ss.tlpCount < MaxTailLossProbes THEN retransmitTLP(ss)
            ELSE ss)

(***************************************************************************)
(* OnAlarm.  k is as in detectLostPackets; potentiallyFailed is the answer *)
(* of the path's onRTO callback.                                           *)
(***************************************************************************)
OnAlarm(ss, k, potentiallyFailed) ==
    IF ss.packetHistory = <<>>
    THEN [ss EXCEPT !.alarm = FALSE]
    ELSE updateLossDetectionAlarm(
            IF ss.lossTime THEN detectLostPackets(ss, k)
            ELSE IF ss.tlpCount < MaxTailLossProbes THEN retransmitTLP(ss)
            ELSE Queue(ss, IF potentiallyFailed \/ Len(ss.packetHistory) < 2
                           THEN ss.packetHistory ELSE SubSeq(ss.packetHistory, 1, 2)))
--------------------------------------------------------------------------
(***************************************************************************)
(* The peer acknowledges the packets that reached it above some lower      *)
(* limit it was given.  AckRanges is empty when there is one range.        *)
(***************************************************************************)
FrameOf(numbers, close) ==
    LET history[n \in 0 .. Max(numbers)] ==
            IF n = 0 THEN <<>>
            ELSE IF n \in numbers THEN HistoryReceivedPacket(history[n - 1], n) ELSE history[n - 1]
        ranges == history[Max(numbers)]
    IN  [LargestAcked |-> Max(numbers), LowestAcked |-> Min(numbers), close |-> close,
         AckRanges |-> IF Len(ranges) > 1 THEN Reverse(ranges) ELSE <<>>]

Init ==
    /\ s = NewSentPacketHandler
    /\ gen = NewGenerator
    /\ status = "open"
    /\ tracked = {} /\ resent = {}
    /\ delivered = {}
    /\ limits = {}
    /\ frames = <<>>

Numbers(ps) == {p.PacketNumber : p \in Range(ps)}

(***************************************************************************)
(* session.sendPackedPacket.  The scheduler may ask for a STOP_WAITING     *)
(* frame first (swf), and queues a packet sent on a path of unknown RTT    *)
(* for a second transmission (duplicate).                                  *)
(***************************************************************************)
Send(retransmittable, length, skip, swf, duplicate) ==
    LET force  == swf = "force"
        before == IF swf = "none" THEN s ELSE GetStopWaitingFrame(s, force)
        least  == IF swf = "none" THEN 0 ELSE StopWaiting(s, force)
        p      == Packet(gen.next, length)
        after  == SentPacket(before, p, retransmittable)
    IN  /\ status = "open"
        /\ gen.next <= MaxSent
        /\ duplicate => ~ s.rttKnown
        /\ gen' = Pop(gen, skip)
        /\ IF TooManyTracked(s)
           THEN /\ s' = before
                /\ status' = "TooManyTrackedSentPackets"
                /\ UNCHANGED <<tracked, limits>>
           ELSE /\ s' = IF duplicate THEN DuplicatePacket(after, p) ELSE after
                /\ tracked' = IF retransmittable THEN tracked \cup {p.PacketNumber} ELSE tracked
                /\ limits' = IF least = 0 THEN limits ELSE limits \cup {<<p.PacketNumber, least - 1>>}
                /\ UNCHANGED status
        /\ UNCHANGED <<resent, delivered, frames>>

\* scheduler.getRetransmission takes the packet and puts its frames in new packets.
Retransmit ==
    /\ status \in {"open", "closed"}
    /\ s.retransmissionQueue # <<>>
    /\ s' = DequeuePacketForRetransmission(s)
    /\ resent' = resent \cup {Head(s.retransmissionQueue).PacketNumber}
    /\ UNCHANGED <<gen, status, tracked, delivered, limits, frames>>

(***************************************************************************)
(* The session calls OnAlarm when the path's timer fires after the alarm.  *)
(* When lossTime was set, at least its packet is old enough by then.       *)
(***************************************************************************)
Alarm(k, potentiallyFailed) ==
    /\ status = "open"
    /\ s.alarm
    /\ UNCHANGED <<gen, status, tracked, resent, delivered, limits, frames>>
    /\ s' = OnAlarm(s, k, potentiallyFailed)

(***************************************************************************)
(* handleFrames ignores DuplicateOrOutOfOrderAck; any other error of an    *)
(* ACK closes the session.                                                 *)
(***************************************************************************)
handleAckFrame(i, k) ==
    LET result == ReceivedAck(s, frames[i], i, k)
    IN  /\ status = "open"
        /\ ~ frames[i].close
        /\ s' = result.handler
        /\ status' = IF result.err \in {"ok", "DuplicateOrOutOfOrderAck"} THEN status ELSE result.err
        /\ UNCHANGED <<gen, tracked, resent, delivered, limits, frames>>

(***************************************************************************)
(* The frame comes on another path.  ReceivedClosePath is given the number *)
(* of the last packet that came on this one: one that an ACK frame came    *)
(* with, or a later one without (i stands for it).  closePath comes first, *)
(* and handleFrames drops the error.  A closed path handles no packets and *)
(* its timer has stopped.                                                  *)
(***************************************************************************)
handleClosePathFrame(i, lastRcvdPacketNumber) ==
    /\ status = "open"
    /\ frames[i].close
    /\ s' = ReceivedClosePath(s, frames[i], lastRcvdPacketNumber).handler
    /\ status' = "closed"
    /\ UNCHANGED <<gen, tracked, resent, delivered, limits, frames>>

(***************************************************************************)
(* More packets reach the peer, in any order; it acknowledges what it has, *)
(* after any STOP_WAITING that reached it.  A packet that arrives when no  *)
(* ACK follows changes nothing here.                                       *)
(***************************************************************************)
PeerSends(more, close, limit) ==
    /\ status = "open"
    /\ Len(frames) < MaxAcks
    /\ \A i \in DOMAIN frames : ~ frames[i].close
    /\ delivered' = delivered \cup more
    /\ delivered' # {}
    /\ limit = 0 \/ \E n \in delivered' : <<n, limit>> \in limits
    /\ frames' = Append(frames, FrameOf({n \in delivered' : n > limit}, close))
    /\ UNCHANGED <<s, gen, status, tracked, resent, limits>>

Next ==
    \/ \E r, d \in BOOLEAN, length \in Lengths, w \in {"none", "new", "force"} :
           Send(r, length, 0, w, d)
    \/ Retransmit
    \/ \E k \in 1 .. MaxSent, failed \in BOOLEAN : Alarm(k, failed)
    \/ \E i \in DOMAIN frames, k \in 0 .. MaxSent : handleAckFrame(i, k)
    \/ \E i \in DOMAIN frames : \E last \in {s.largestReceivedPacketWithAck, i} :
           handleClosePathFrame(i, last)
    \/ \E more \in SUBSET (1 .. s.lastSentPacketNumber), close \in BOOLEAN, limit \in 0 .. MaxSent :
           PeerSends(more, close, limit)

Spec == Init /\ [][Next]_vars

\* The path's timer is rearmed at every change of the alarm.
FairSpec ==
    Spec /\ WF_vars(\E k \in 1 .. MaxSent, failed \in BOOLEAN : Alarm(k, failed))
--------------------------------------------------------------------------
PacketType == [PacketNumber : 1 .. MaxSent, Length : Lengths]

(***************************************************************************)
(* The type invariant.                                                     *)
(***************************************************************************)
TypeOK ==
    /\ s.packetHistory \in Seq(PacketType)
    /\ s.retransmissionQueue \in Seq(PacketType)
    /\ s.skippedPackets \in Seq(1 .. MaxSent)
    /\ s.lastSentPacketNumber \in 0 .. MaxSent
    /\ s.LargestAcked \in 0 .. s.lastSentPacketNumber
    /\ s.largestReceivedPacketWithAck \in 0 .. MaxAcks
    /\ s.bytesInFlight \in Nat
    /\ s.tlpCount \in 0 .. MaxTailLossProbes
    /\ {s.lossTime, s.alarm, s.rttKnown} \subseteq BOOLEAN
    /\ s.packets \in 0 .. MaxSent
    /\ s.numNonRetransmittablePackets \in 0 .. MaxSent
    /\ gen \in [next : 1 .. MaxSent + 2, nextToSkip : Nat]
    /\ status \in {"open", "closed", "TooManyTrackedSentPackets", "AckForUnsentPacket",
                   "AckForSkippedPacket", "BUG"}

\* The number of bytes in the packets ps: every packet counted with its Length.
Bytes(ps) == Cardinality(UNION {{p} \X (1 .. p.Length) : p \in Range(ps)})

(***************************************************************************)
(* bytesInFlight, which the congestion controller compares with its        *)
(* window, is the sum of the lengths of the packets in the history: no ACK *)
(* that comes twice, late, or after the packet was queued for              *)
(* retransmission makes it drift (or wrap below zero).  The rest of the    *)
(* state keeps its type.                                                   *)
(***************************************************************************)
BytesInFlightExact ==
    /\ TypeOK
    /\ s.bytesInFlight = Bytes(s.packetHistory)

(***************************************************************************)
(* A retransmittable packet that the handler does not hold any more, in    *)
(* the history or for retransmission, and did not hand out for             *)
(* retransmission, did reach the peer: neither ACKs with gaps, losses nor  *)
(* probes make the handler forget data.                                    *)
(***************************************************************************)
NothingForgotten ==
    \A n \in tracked :
        n \in Numbers(s.packetHistory) \cup Numbers(s.retransmissionQueue) \cup resent \cup delivered

(***************************************************************************)
(* The loss detection alarm is set as long as a packet is in flight, and a *)
(* loss time is set only when a packet waits for it, so OnAlarm always     *)
(* finds the packet it was set for (updateLossDetectionAlarm,              *)
(* detectLostPackets).                                                     *)
(***************************************************************************)
AlarmArmed ==
    /\ s.packetHistory # <<>> => s.alarm
    /\ s.lossTime /\ status = "open" => UpToLargestAcked(s) # <<>>

(***************************************************************************)
(* The next STOP_WAITING frame can be written: the frame is encoded as the *)
(* difference to the number of its packet, which is at least LeastUnacked. *)
(***************************************************************************)
StopWaitingWritable == s.nextLeastUnacked <= gen.next

(***************************************************************************)
(* The ACKs of a peer that reports what it received never make the handler *)
(* return an error that closes the session.                                *)
(***************************************************************************)
HonestAcksAccepted ==
    status \in {"open", "closed", "TooManyTrackedSentPackets"}

(***************************************************************************)
(* Every packet in flight leaves the history: it is acknowledged, or it is *)
(* queued for retransmission by a loss time, a probe or an RTO, unless the *)
(* path or the session closes.  Packets are appended in order, so it is    *)
(* enough that the oldest one does not stay the oldest forever.            *)
(***************************************************************************)
InFlightResolved ==
    \/ []<>(s.packetHistory = <<>> \/ status # "open")
    \/ []<><<largestInOrderAcked(s)' # largestInOrderAcked(s)>>_vars

(***************************************************************************)
(* session.handleClosePathFrame says that ReceivedClosePath "allows the    *)
(* host to retransmit packets sent on this path that were not acked by the *)
(* ClosePath frame": after it none of those packets is left in flight.     *)
(***************************************************************************)
ClosePathResendsTheRest ==
    status = "closed" =>
        \A p \in Range(s.packetHistory) : AcksPacket(Back(frames), p.PacketNumber)
==========================================================================
