--------------------------- MODULE MCSendStreams ---------------------------
(***************************************************************************)
(* The instances of SendStreams that TLC checks.                           *)
(***************************************************************************)
EXTENDS SendStreams, TLC

CONSTANTS s1, s2

MCSymmetry == Permutations(Streams)
=============================================================================
