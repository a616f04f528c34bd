---------------------- MODULE ReceivedPacketHandler ----------------------
(***************************************************************************)
(* The receiving half of one path's ACK logic                              *)
(* (ackhandler/received_packet_handler.go), driven the way                 *)
(* path.handlePacketImpl and scheduler.sendPacket drive it.  Every         *)
(* operation is an operator on the record h, the receiver of the Go        *)
(* methods, so that another module can run several of them in one step.    *)
(***************************************************************************)
EXTENDS ReceivedPacketHistory

CONSTANTS
    MaxTrackedReceivedAckRanges,
    MaxPacketsReceivedBeforeAckSend,
    RetransmittablePacketsBeforeAck,
    Versions,       \* the versions a connection may have negotiated
    MaxPacketNumber,\* bound: the largest packet number the peer uses
    MaxSinceLastAck \* bound: packets handled between two ACK frames

ASSUME LimitsAssumption ==
    /\ MaxTrackedReceivedAckRanges \in Nat \ {0}
    /\ MaxPacketsReceivedBeforeAckSend \in Nat \ {0}
    /\ RetransmittablePacketsBeforeAck \in Nat \ {0}
    /\ Versions \subseteq Nat
    /\ MaxPacketNumber \in Nat \ {0}
    /\ MaxSinceLastAck \in Nat \ {0}

VARIABLES
    h,          \* the receivedPacketHandler
    open,       \* FALSE once an error was returned: the session closes
    received,   \* history: every packet number ReceivedPacket accepted
    maxLimit,   \* history: the highest lower limit that was ever set
    owed        \* history: retransmittable packets no ACK frame reported yet

vars == <<h, open, received, maxLimit, owed>>

Version39 == 39
PacketNumbers == 1 .. MaxPacketNumber

(***************************************************************************)
(* lastAck is the LargestAcked of the last ACK frame, 0 when there was     *)
(* none.  ackAlarm abstracts the time: not set, in the future, passed.     *)
(***************************************************************************)
NewReceivedPacketHandler(version) ==
    [largestObserved |-> 0, lowerLimit |-> 0, ranges |-> <<>>,
     packetsReceivedSinceLastAck |-> 0,
     retransmittablePacketsReceivedSinceLastAck |-> 0,
     ackQueued |-> FALSE, ackAlarm |-> "zero", lastAck |-> 0, version |-> version]

\* Mutant: a retransmittable packet does not set the alarm.
maybeQueueAck_NoAlarm(hh, packetNumber, shouldInstigateAck) ==
    [hh EXCEPT !.packetsReceivedSinceLastAck = @ + 1,
               !.ackQueued = @ \/ hh.lastAck = 0 \/ packetNumber < hh.lastAck]

(***************************************************************************)
(* maybeQueueAck runs after the packet entered the history.                *)
(***************************************************************************)
maybeQueueAck(hh, packetNumber, shouldInstigateAck) ==
    LET packets == hh.packetsReceivedSinceLastAck + 1
        retrans == hh.retransmittablePacketsReceivedSinceLastAck
                   + (IF shouldInstigateAck THEN 1 ELSE 0)
        queued  == \/ hh.ackQueued
                   \/ hh.lastAck = 0
                   \/ hh.version < Version39 /\ packets >= MaxPacketsReceivedBeforeAckSend
                   \/ packetNumber < hh.lastAck
                   \/ GetHighestAckRange(hh.ranges).Start > hh.lastAck
                   \/ shouldInstigateAck /\ retrans >= RetransmittablePacketsBeforeAck
    IN  [hh EXCEPT !.packetsReceivedSinceLastAck = packets,
                   !.retransmittablePacketsReceivedSinceLastAck = retrans,
                   !.ackQueued = queued,
                   !.ackAlarm = IF queued THEN "zero"
                                ELSE IF shouldInstigateAck /\ @ = "zero" THEN "future"
                                ELSE @]

\* Mutant: any packet counts as the largest.
Observe_Always(hh, p) == [hh EXCEPT !.largestObserved = p]

(***************************************************************************)
(* ReceivedPacket up to its last statement.  TooManyRanges is the error    *)
(* of the history, returned before the packet is recorded.                 *)
(***************************************************************************)
Observe(hh, p) == [hh EXCEPT !.largestObserved = IF p > @ THEN p ELSE @]

TooManyRanges(hh, p) ==
    p > hh.lowerLimit /\ Len(hh.ranges) >= MaxTrackedReceivedAckRanges

ReceivedPacket(hh, p, shouldInstigateAck) ==
    LET seen == Observe(hh, p)
    IN  IF p <= hh.lowerLimit
        THEN seen
        ELSE maybeQueueAck([seen EXCEPT !.ranges = HistoryReceivedPacket(@, p)],
                           p, shouldInstigateAck)

\* Mutant: deletes the LeastUnacked packet too.
SetLowerLimit_OffByOne(hh, p) ==
    [hh EXCEPT !.lowerLimit = p, !.ranges = DeleteUpTo(@, p + 1)]

SetLowerLimit(hh, p) ==
    [hh EXCEPT !.lowerLimit = p, !.ranges = DeleteUpTo(@, p)]

(***************************************************************************)
(* GetAckFrame returns no frame unless an ACK is queued or its alarm has   *)
(* passed.  The frame carries its ranges only when there are several; with *)
(* one range it stands for LowestAcked .. LargestAcked.                    *)
(***************************************************************************)
\* Mutant: the alarm is never looked at.
AckDue_QueuedOnly(hh) == hh.ackQueued

AckDue(hh) == hh.ackQueued \/ hh.ackAlarm = "passed"

AckFrame(hh) ==
    [LargestAcked |-> hh.largestObserved,
     LowestAcked  |-> hh.ranges[1].Start,
     AckRanges    |-> IF Len(hh.ranges) > 1 THEN Reverse(hh.ranges) ELSE <<>>]

AfterAckFrame(hh) ==
    [hh EXCEPT !.lastAck = hh.largestObserved, !.ackAlarm = "zero", !.ackQueued = FALSE,
               !.packetsReceivedSinceLastAck = 0,
               !.retransmittablePacketsReceivedSinceLastAck = 0]

(***************************************************************************)
(* The packets the peer takes as acknowledged by an ACK frame.             *)
(***************************************************************************)
AckedBy(frame) ==
    IF frame.AckRanges = <<>>
    THEN frame.LowestAcked .. frame.LargestAcked
    ELSE Packets(frame.AckRanges)
--------------------------------------------------------------------------
Init ==
    /\ \E v \in Versions : h = NewReceivedPacketHandler(v)
    /\ open = TRUE
    /\ received = {}
    /\ maxLimit = 0
    /\ owed = {}

(***************************************************************************)
(* path.handlePacketImpl: ReceivedPacket, then handleFrames, where a       *)
(* STOP_WAITING frame sets the lower limit to LeastUnacked - 1.            *)
(* leastUnacked = 0 is a packet without that frame; the wire format        *)
(* subtracts from the packet number, so LeastUnacked is in 1 .. p.         *)
(***************************************************************************)
HandlePacket(p, shouldInstigateAck, leastUnacked) ==
    /\ open
    /\ h.packetsReceivedSinceLastAck < MaxSinceLastAck
    /\ ~ TooManyRanges(h, p)
    /\ LET after == ReceivedPacket(h, p, shouldInstigateAck)
       IN  /\ h' = IF leastUnacked = 0 THEN after ELSE SetLowerLimit(after, leastUnacked - 1)
           /\ owed' = {q \in owed \cup (IF shouldInstigateAck /\ p > h.lowerLimit THEN {p} ELSE {}) :
                           q >= leastUnacked}
    /\ received' = received \cup {p}
    /\ maxLimit' = IF leastUnacked - 1 > maxLimit THEN leastUnacked - 1 ELSE maxLimit
    /\ UNCHANGED open

RejectPacket(p) ==
    /\ open
    /\ TooManyRanges(h, p)
    /\ h' = Observe(h, p)
    /\ open' = FALSE
    /\ UNCHANGED <<received, maxLimit, owed>>

\* A peer numbers its packets from 1: errInvalidPacketNumber, before anything else.
RejectZero ==
    /\ open
    /\ open' = FALSE
    /\ UNCHANGED <<h, received, maxLimit, owed>>

AckAlarmPasses ==
    /\ open
    /\ h.ackAlarm = "future"
    /\ h' = [h EXCEPT !.ackAlarm = "passed"]
    /\ UNCHANGED <<open, received, maxLimit, owed>>

GetAckFrame ==
    /\ open
    /\ AckDue(h)
    /\ h' = AfterAckFrame(h)
    /\ owed' = owed \ AckedBy(AckFrame(h))
    /\ UNCHANGED <<open, received, maxLimit>>

Next ==
    \/ \E p \in PacketNumbers, b \in BOOLEAN : \E l \in 0 .. p : HandlePacket(p, b, l)
    \/ \E p \in PacketNumbers : RejectPacket(p)
    \/ RejectZero
    \/ AckAlarmPasses
    \/ GetAckFrame

Spec == Init /\ [][Next]_vars

(***************************************************************************)
(* The path's timer wakes the session loop at GetAlarmTimeout, and every   *)
(* call of sendPacket ends in ackRemainingPaths, which asks each path for  *)
(* its ACK frame.                                                          *)
(***************************************************************************)
FairSpec == Spec /\ WF_vars(AckAlarmPasses) /\ WF_vars(GetAckFrame)
--------------------------------------------------------------------------
(***************************************************************************)
(* The type invariant.                                                     *)
(***************************************************************************)
TypeOK ==
    /\ h \in [largestObserved : 0 .. MaxPacketNumber, lowerLimit : 0 .. MaxPacketNumber,
              ranges : Seq([Start : PacketNumbers, End : PacketNumbers]),
              packetsReceivedSinceLastAck : 0 .. MaxSinceLastAck,
              retransmittablePacketsReceivedSinceLastAck : 0 .. MaxSinceLastAck,
              ackQueued : BOOLEAN, ackAlarm : {"zero", "future", "passed"},
              lastAck : 0 .. MaxPacketNumber, version : Versions]
    /\ open \in BOOLEAN
    /\ received \subseteq PacketNumbers
    /\ maxLimit \in 0 .. MaxPacketNumber
    /\ owed \subseteq PacketNumbers

(***************************************************************************)
(* The range list is the canonical one of a set of packets that really     *)
(* arrived, whatever the order of arrivals, duplicates and deletions, and  *)
(* a packet that arrived is missing from it only if a STOP_WAITING limit   *)
(* reached it (ReceivedPacket and DeleteUpTo of receivedPacketHistory).    *)
(***************************************************************************)
HistoryExact ==
    /\ Canonical(h.ranges)
    /\ Packets(h.ranges) \subseteq received
    /\ \A p \in received \ Packets(h.ranges) : p <= maxLimit

(***************************************************************************)
(* An ACK or CLOSE_PATH frame built now acknowledges exactly the packets   *)
(* of the history.  GetAckFrame takes LargestAcked from largestObserved    *)
(* and leaves the ranges out when there is one, so this needs the highest  *)
(* range to end at largestObserved although SetLowerLimit deletes ranges.  *)
(***************************************************************************)
AckFrameExact ==
    open /\ h.ranges # <<>> => AckedBy(AckFrame(h)) = Packets(h.ranges)

(***************************************************************************)
(* GetAckFrame indexes the last ACK range without a check: whenever an ACK *)
(* is queued or its alarm is set there is a range to report.               *)
(***************************************************************************)
AckDueHasRange ==
    open /\ (h.ackQueued \/ h.ackAlarm # "zero") => h.ranges # <<>>

(***************************************************************************)
(* A retransmittable packet that no ACK frame reported yet is never        *)
(* forgotten: an ACK is queued or the ACK alarm is set (maybeQueueAck).    *)
(***************************************************************************)
OwedIsScheduled ==
    owed # {} => h.ackQueued \/ h.ackAlarm # "zero"

(***************************************************************************)
(* Every retransmittable packet is reported in an ACK frame eventually,    *)
(* unless a STOP_WAITING withdraws it or the session closes.               *)
(***************************************************************************)
OwedIsReported ==
    \A p \in PacketNumbers : p \in owed ~> p \notin owed \/ ~open
==========================================================================
