-------------------------- MODULE MCStreamLifecycle --------------------------
(***************************************************************************)
(* Small instances of StreamLifecycle.                                     *)
(***************************************************************************)
EXTENDS StreamLifecycle

\* The clock reaches 1, so that 2 is a deadline that does not expire.
MCReadDeadlines == {1, 2}
MCWriteDeadlines == {1}
=============================================================================
