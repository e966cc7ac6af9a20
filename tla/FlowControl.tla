---------------------------- MODULE FlowControl ----------------------------
(***************************************************************************)
(* The receive-side flow controller of quiche/src/flowcontrol.rs, as       *)
(* operators on its record.  One controller guards each stream and one the *)
(* whole connection.                                                       *)
(*                                                                         *)
(* The instant of the last update is kept only as the fact that there was  *)
(* one (`updated'); whether it lies within two round trips is a parameter. *)
(***************************************************************************)
EXTENDS StreamBasics

FlowControls == [consumed : Nat, max_data : Nat, window : Nat,
                 max_window : Nat, updated : BOOLEAN]

FcNew(max_data, window, max_window) ==
  [consumed |-> 0, max_data |-> max_data,
   window |-> Lesser(window, max_window), max_window |-> max_window,
   updated |-> FALSE]

\* Slip: assigned, not added.
AddConsumed_Overwrites(fc, n) == [fc EXCEPT !.consumed = n]

AddConsumed(fc, n) == [fc EXCEPT !.consumed = fc.consumed + n]

\* Slip: a quarter of the window, which rounds to zero for a small one.
ShouldUpdateMaxData_Quarter(fc) == fc.max_data - fc.consumed < fc.window \div 4

ShouldUpdateMaxData(fc) == fc.max_data - fc.consumed < fc.window \div 2

MaxDataNext(fc) == fc.consumed + fc.window

UpdateMaxData(fc) == [fc EXCEPT !.max_data = MaxDataNext(fc), !.updated = TRUE]

SetWindow(fc, w) == [fc EXCEPT !.window = Lesser(w, fc.max_window)]

AutotuneWindow(fc, recent) ==
  IF fc.updated /\ recent THEN SetWindow(fc, 2 * fc.window) ELSE fc

EnsureWindowLowerBound(fc, min_window) ==
  IF min_window > fc.window THEN SetWindow(fc, min_window) ELSE fc
=============================================================================
