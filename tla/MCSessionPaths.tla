--------------------------- MODULE MCSessionPaths ---------------------------
(***************************************************************************)
(* A small instance of SessionPaths.                                       *)
(***************************************************************************)
EXTENDS SessionPaths

MCPathIDs == {0, 1, 3}
=============================================================================
