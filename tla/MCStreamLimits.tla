--------------------------- MODULE MCStreamLimits ---------------------------
(***************************************************************************)
(* An instance of StreamLimits for TLC, with the compressed set in which   *)
(* the code keeps the identifiers of the collected streams.                *)
(***************************************************************************)
EXTENDS StreamLimits, CollectedIds
=============================================================================
