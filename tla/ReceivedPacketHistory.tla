---------------------- MODULE ReceivedPacketHistory ----------------------
(***************************************************************************)
(* The list of ACK ranges that one path keeps of the packet numbers it has *)
(* received (ackhandler/received_packet_history.go).  The linked list of   *)
(* PacketInterval is a sequence, its Front at index 1 and its Back at      *)
(* index Len.  The operations of the linked lists are written out here     *)
(* rather than taken from SequencesExt: every proof about them would carry *)
(* the whole of that module.                                               *)
(***************************************************************************)
EXTENDS Integers, Sequences, FiniteSetsExt

Back(list) == list[Len(list)]
InsertAt(list, i, e) == SubSeq(list, 1, i - 1) \o <<e>> \o SubSeq(list, i, Len(list))
RemoveAt(list, i) == SubSeq(list, 1, i - 1) \o SubSeq(list, i + 1, Len(list))
Reverse(list) == [i \in 1 .. Len(list) |-> list[Len(list) - i + 1]]

\* Where a forward and a backward scan stop, at one of the places given; 0 if
\* there is none and the scan runs off the list.
FirstOf(places) == IF places # {} THEN Min(places) ELSE 0
LastOf(places)  == IF places # {} THEN Max(places) ELSE 0

Interval(start, end) == [Start |-> start, End |-> end]

(***************************************************************************)
(* The backward scan of ReceivedPacket leaves its loop at the last range   *)
(* that contains p, touches p or lies below p: those with Start <= p + 1.  *)
(* It is 0 when the scan falls off the front of the list.                  *)
(***************************************************************************)
ScanStop(ranges, p) == LastOf({i \in 1 .. Len(ranges) : ranges[i].Start <= p + 1})

\* Mutant: touching ranges are left apart.
MergeWithPrev_Never(ranges, i) == ranges

(***************************************************************************)
(* A range that was extended is merged with its predecessor if the two now *)
(* touch.                                                                  *)
(***************************************************************************)
MergeWithPrev(ranges, i) ==
    IF i > 1 /\ ranges[i - 1].End + 1 = ranges[i].Start
    THEN RemoveAt([ranges EXCEPT ![i - 1].End = ranges[i].End], i)
    ELSE ranges

HistoryReceivedPacket(ranges, p) ==
    LET i == ScanStop(ranges, p)
    IN  IF i = 0
        THEN <<Interval(p, p)>> \o ranges
        ELSE CASE p \in ranges[i].Start .. ranges[i].End -> ranges
               [] p = ranges[i].End + 1   -> MergeWithPrev([ranges EXCEPT ![i].End = p], i)
               [] p = ranges[i].Start - 1 -> MergeWithPrev([ranges EXCEPT ![i].Start = p], i)
               [] OTHER                   -> InsertAt(ranges, i + 1, Interval(p, p))

(***************************************************************************)
(* DeleteUpTo drops the ranges that end at or below p and cuts the front   *)
(* of the first range that reaches above it, where its forward scan stops. *)
(***************************************************************************)
DeleteStop(ranges, p) == FirstOf({i \in 1 .. Len(ranges) : ranges[i].End > p})

DeleteUpTo(ranges, p) ==
    LET i == DeleteStop(ranges, p)
    IN  IF i = 0
        THEN <<>>
        ELSE [SubSeq(ranges, i, Len(ranges)) EXCEPT ![1].Start = IF @ > p THEN @ ELSE p + 1]

GetHighestAckRange(ranges) ==
    IF ranges = <<>> THEN Interval(0, 0) ELSE Back(ranges)

(***************************************************************************)
(* The packet numbers a list of ranges stands for, and the shape every     *)
(* list must have: sorted, disjoint, with at least one missing packet      *)
(* between two neighbours.                                                 *)
(***************************************************************************)
Packets(ranges) == UNION {ranges[i].Start .. ranges[i].End : i \in DOMAIN ranges}

Canonical(ranges) ==
    /\ \A i \in DOMAIN ranges : ranges[i].Start <= ranges[i].End
    /\ \A i, j \in DOMAIN ranges : i < j => ranges[i].End + 1 < ranges[j].Start
==========================================================================
