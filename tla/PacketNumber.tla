---------------------------- MODULE PacketNumber ----------------------------
(***************************************************************************)
(* The packet numbers on the wire: internal/protocol/packet_number.go.     *)
(*                                                                         *)
(* A packet carries only the low 1, 2, 4 or 6 bytes of its number.  The    *)
(* sender chooses the length from the distance to its least unacked        *)
(* packet; the path that receives it completes the number from the largest *)
(* one it has seen (path.handlePacketImpl).  Numbers are uint64, so the    *)
(* start of the epoch before the first one wraps.                          *)
(***************************************************************************)
EXTENDS Integers

PacketNumberLen == {1, 2, 4, 6}

\* uint64 arithmetic is modulo 2^64.
Wrap == 18446744073709551616

\* epochDelta: 2^(8 * len), written out because the provers do not compute powers.
EpochDelta(len) ==
    IF len = 1 THEN 256 ELSE
    IF len = 2 THEN 65536 ELSE
    IF len = 4 THEN 4294967296 ELSE 281474976710656

delta(a, b) == IF a < b THEN b - a ELSE a - b

closestTo(target, a, b) == IF delta(target, a) < delta(target, b) THEN a ELSE b

\* The candidate of three epochs that is closest to the next expected number.
Candidate(epochDelta, last, wire) ==
    LET epoch == last - (last % epochDelta)
        prevEpochBegin == (epoch - epochDelta) % Wrap
        nextEpochBegin == (epoch + epochDelta) % Wrap
        target == (last + 1) % Wrap
    IN closestTo(target, (epoch + wire) % Wrap,
           closestTo(target, (prevEpochBegin + wire) % Wrap,
                             (nextEpochBegin + wire) % Wrap))

InferPacketNumber(len, last, wire) == Candidate(EpochDelta(len), last, wire)

\* PublicHeader.Write keeps the low bytes of the number.
OnWire(len, packetNumber) == packetNumber % EpochDelta(len)

GetPacketNumberLengthForPublicHeader(packetNumber, leastUnacked) ==
    LET diff == (packetNumber - leastUnacked) % Wrap
    IN IF diff < 32768 THEN 2 ELSE IF diff < 2147483648 THEN 4 ELSE 6

\* The numbers a path can reach: a sender would need 2^63 packets to leave them.
Reachable == {n \in Nat : n < 9223372036854775808}
=============================================================================
