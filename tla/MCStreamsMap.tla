---------------------------- MODULE MCStreamsMap ----------------------------
(***************************************************************************)
(* Small instances of StreamsMap.                                          *)
(***************************************************************************)
EXTENDS StreamsMap

MCOpeners == {"o1", "o2"}
=============================================================================
