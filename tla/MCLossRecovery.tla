--------------------------- MODULE MCLossRecovery ---------------------------
(***************************************************************************)
(* An instance of LossRecovery for TLC: one handshake message, and one     *)
(* item of application data.  The sets of ranges that ACK frames carry and *)
(* send buffers keep, and the search for the MTU, are checked with it.     *)
(***************************************************************************)
EXTENDS LossRecovery, RangeSet, Pmtud

MCItems == [e \in Epochs |-> IF e = Initial THEN {} ELSE {"item"}]
=============================================================================
