-------------------------- MODULE MCStreamTransfer --------------------------
(***************************************************************************)
(* The instance of StreamTransfer that TLC checks.                         *)
(***************************************************************************)
EXTENDS StreamTransfer
=============================================================================
