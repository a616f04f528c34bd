---------------------- MODULE MCSentPacketHandler ----------------------
(***************************************************************************)
(* SentPacketHandler on a small instance.                                  *)
(***************************************************************************)
EXTENDS SentPacketHandler

MCOneLength == {1}
=========================================================================
