---------------------------- MODULE RecvBufSpec ----------------------------
(***************************************************************************)
(* What one receive buffer promises: the operations of RecvBuf as actions  *)
(* on a single buffer, for RecvChunks to implement.                        *)
(***************************************************************************)
EXTENDS RecvBuf

CONSTANTS DataFrames, ResetFrames, InitialMaxData, MaxWindow

VARIABLE buf

Init == buf = RecvNew(InitialMaxData, InitialMaxData, MaxWindow)

DoWrite(f) == WriteError(buf, f) = "ok" /\ buf' = Write(buf, f)

DoReset(q) == ResetError(buf, q) = "ok" /\ buf' = Reset(buf, q)

DoEmit(n) == CanEmit(buf, n) /\ buf' = Emit(buf, n)

DoDeliverReset == ResetIsReady(buf) /\ buf' = DeliverReset(buf)

DoShutdown == ~buf.drain /\ buf' = Shutdown(buf)

DoUpdateMaxData == AlmostFull(buf) /\ buf' = [buf EXCEPT !.fc = UpdateMaxData(@)]

Next ==
  \/ \E f \in DataFrames : DoWrite(f)
  \/ \E q \in ResetFrames : DoReset(q)
  \/ \E n \in 0..buf.len : DoEmit(n)
  \/ DoDeliverReset \/ DoShutdown \/ DoUpdateMaxData

Spec == Init /\ [][Next]_buf
=============================================================================
