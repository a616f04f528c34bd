------------------------- MODULE MCStreamTransfer -------------------------
(***************************************************************************)
(* StreamTransfer on a small instance; the cfgs choose the bounds.         *)
(***************************************************************************)
EXTENDS StreamTransfer
==========================================================================
