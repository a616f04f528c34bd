--------------------- MODULE MCReceivedPacketHandler ---------------------
(***************************************************************************)
(* ReceivedPacketHandler on a small instance.                              *)
(***************************************************************************)
EXTENDS ReceivedPacketHandler

\* One version below 39, with its extra ACK rule, and the multipath version.
MCVersions == {38, 512}
==========================================================================
