---------------------------- MODULE MCHandshake ----------------------------
(***************************************************************************)
(* Handshake with the limit of the code, three CHLOs (protocol.go:65).     *)
(***************************************************************************)
EXTENDS Handshake
=============================================================================
