------------------------- MODULE MCStreamScheduler -------------------------
(***************************************************************************)
(* A small instance of StreamScheduler.  Only s1 is watched, so the other  *)
(* two streams are interchangeable.                                        *)
(***************************************************************************)
EXTENDS StreamScheduler, TLC

CONSTANTS s1, s2, s3

MCStreams == {s1, s2, s3}
MCWeights == {1}
MCSymmetry == Permutations({s2, s3})
=============================================================================
