---------------------------- MODULE MCFlowControl ----------------------------
(***************************************************************************)
(* Small instances of FlowControl.                                         *)
(***************************************************************************)
EXTENDS FlowControl

MCStreams == {5, 7}
==============================================================================
