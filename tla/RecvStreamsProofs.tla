------------------------- MODULE RecvStreamsProofs -------------------------
(***************************************************************************)
(* The receive side is correct for any streams, frames, limits and         *)
(* windows: RecvInv is inductive, and the properties follow from it.       *)
(***************************************************************************)
EXTENDS RecvStreams, RecvBufProofs

\* A fresh receive buffer (RecvBuf::new()) satisfies the buffer's invariant.
LEMMA NewBuffer ==
  ASSUME NEW m \in Nat, NEW k \in Nat
  PROVE  /\ FcNew(m, m, k) \in FlowControls /\ WindowConsistent(FcNew(m, m, k))
         /\ RecvNew(m, m, k) \in RecvBufs /\ BufInv(RecvNew(m, m, k))
         /\ Unread(RecvNew(m, m, k)) = 0 /\ BytesKept(RecvNew(m, m, k), {})
<1> DEFINE w == FcNew(m, m, k)
           r == RecvNew(m, m, k)
<1>1. w \in FlowControls /\ WindowConsistent(w)
  BY DEF FcNew, FlowControls, WindowConsistent, Lesser
<1>2. w.consumed = 0 /\ w.max_data = m
  BY DEF FcNew
<1>3. r \in RecvBufs
  <2>1. NoReset \in Resets BY DEF NoReset, Resets
  <2> QED BY <1>1, <2>1 DEF RecvNew, RecvBufs
<1>4. BufInv(r)
  BY <1>1, <1>2 DEF RecvNew, BufInv, OffsetsOrdered, BufferedAhead, ResetConsistent,
                    DrainConsistent, NoReset, None, Bytes
<1>5. Unread(r) = 0 /\ BytesKept(r, {})
  BY DEF Unread, RecvNew, NoReset, BytesKept, Wanted, Bytes
<1> QED BY <1>1, <1>3, <1>4, <1>5

LEMMA RecvInit == Init => RecvInv
<1> SUFFICES ASSUME Init PROVE RecvInv OBVIOUS
<1> USE RecvAssumption DEF Init
<1>1. TypeOK
  <2>1. fc \in FlowControls /\ recv \in [Streams -> RecvBufs]
    BY NewBuffer
  <2>2. got \in [Streams -> SUBSET Nat]
    OBVIOUS
  <2>3. status \in [Streams -> {"idle", "open", "collected"}]
    OBVIOUS
  <2>4. owed \in [Streams -> Int] /\ wasted \in [Streams -> Nat] /\ rx_data \in Nat
    OBVIOUS
  <2>5. should_send_max_data \in BOOLEAN /\ closed \in BOOLEAN
    OBVIOUS
  <2>6. /\ readable \subseteq Streams /\ almost_full \subseteq Streams
        /\ stopped \subseteq Streams /\ held \subseteq Streams
        /\ inflight \subseteq ControlFrames
    OBVIOUS
  <2> QED BY <2>1, <2>2, <2>3, <2>4, <2>5, <2>6 DEF TypeOK
<1>2. \A s \in Streams : BufInv(recv[s]) /\ Unread(recv[s]) = 0 /\ BytesKept(recv[s], got[s])
  BY NewBuffer
<1>3. CreditLedger /\ NoByteLost
  BY <1>2 DEF CreditLedger, NoByteLost
<1>4. rx_data <= fc.max_data
  BY DEF FcNew
<1>5. UpdatesRaise
  BY NewBuffer DEF UpdatesRaise
<1> QED BY <1>1, <1>2, <1>3, <1>4, <1>5 DEF RecvInv

\* A STREAM frame that process_frame() accepts preserves the invariant.
LEMMA RecvStreamFrameInv ==
  ASSUME RecvInv, NEW s \in Streams, NEW f \in DataFrames, RecvStreamFrame(s, f)
  PROVE  RecvInv'
<1> DEFINE r == Write(recv[s], f)
           delta == MaxOffDelta(s, f)
           drained == IF recv[s].drain THEN delta ELSE 0
<1>1. f \in StreamFrames BY RecvAssumption DEF StreamFrames
<1>2. recv[s] \in RecvBufs /\ BufInv(recv[s]) /\ BytesKept(recv[s], got[s])
      /\ got[s] \in SUBSET Nat /\ fc \in FlowControls /\ rx_data \in Nat
      /\ WindowConsistent(fc)
  BY DEF RecvInv, TypeOK, NoByteLost, UpdatesRaise
<1>3. MaxOff(f) \in Nat /\ recv[s].len \in Nat /\ recv[s].drain \in BOOLEAN
  BY <1>1, <1>2 DEF MaxOff, StreamFrames, RecvBufs
<1>4. delta \in Nat /\ drained \in Nat /\ delta - drained \in Nat
  BY <1>3 DEF MaxOffDelta, SatSub
<1>5. delta <= fc.max_data - rx_data /\ WriteError(recv[s], f) = "ok"
  <2>1. ~(delta > fc.max_data - rx_data) /\ WriteError(recv[s], f) = "ok"
    BY DEF RecvStreamFrame, StreamFrameError
  <2>2. fc.max_data \in Nat /\ rx_data \in Nat BY <1>2 DEF FlowControls
  <2> HIDE DEF delta
  <2> QED BY <1>4, <2>1, <2>2
<1>6. r \in RecvBufs /\ BufInv(r) /\ r.fc = recv[s].fc
      /\ Unread(r) = IF recv[s].drain THEN 0 ELSE Unread(recv[s]) + Kept(recv[s], f)
  <2>1. PICK q \in ResetFrameSet : TRUE
    <3>1. [at |-> TRUE, error_code |-> 0, final_size |-> 0, reliable_size |-> 0]
             \in ResetFrameSet BY DEF ResetFrameSet
    <3> QED BY <3>1
  <2> QED BY <1>1, <1>2, <1>5, <2>1, WriteType, WriteInv, SameFlowControl
<1>7. BytesKept(r, got[s] \cup Bytes(f.off, MaxOff(f)))
  BY <1>1, <1>2, WriteBytes
<1>8. /\ recv' = [recv EXCEPT ![s] = r] /\ rx_data' = rx_data + delta
      /\ fc' = AddConsumed(fc, drained)
      /\ owed' = [owed EXCEPT ![s] = @ + (delta - drained)]
      /\ wasted' = [wasted EXCEPT ![s] =
              @ + (IF f.len = 0 /\ ~f.fin THEN delta - drained ELSE 0)]
      /\ got' = [got EXCEPT ![s] = @ \cup Bytes(f.off, MaxOff(f))]
      /\ readable' \in {readable, readable \cup {s}}
      /\ status' = [status EXCEPT ![s] = "open"]
      /\ UNCHANGED <<queueVars, closed, held>>
  BY DEF RecvStreamFrame, GetOrCreate, ArmReadable
<1>9. AddConsumed(fc, drained) \in FlowControls
      /\ WindowConsistent(fc') /\ fc'.max_data = fc.max_data /\ fc'.updated = fc.updated
      /\ (LimitDue(fc) => LimitDue(fc'))
  BY <1>2, <1>4, <1>8, FlowControlType, FlowControlInv DEF LimitDue
<1>10. TypeOK'
  <2>1. Bytes(f.off, MaxOff(f)) \in SUBSET Nat BY <1>1, <1>3 DEF Bytes, StreamFrames
  <2>2. (IF f.len = 0 /\ ~f.fin THEN delta - drained ELSE 0) \in Nat BY <1>4
  <2> HIDE DEF r, delta, drained
  <2> QED
    BY <1>4, <1>6, <1>8, <1>9, <2>1, <2>2 DEF RecvInv, TypeOK, queueVars
<1>11. \A t \in Streams : BufInv(recv'[t])
  BY <1>6, <1>8 DEF RecvInv, TypeOK
<1>12. CreditLedger'
  <2>1. Unread(recv[s]) \in Int
    BY <1>2, UnreadIsInt
  <2>2. owed[s] = Unread(recv[s]) + wasted[s] /\ owed[s] \in Int /\ wasted[s] \in Nat
    BY DEF RecvInv, CreditLedger, TypeOK
  <2>3. delta - drained = (IF recv[s].drain THEN 0 ELSE delta)
    BY <1>3, <1>4
  <2>4. recv[s].drain => Unread(recv[s]) = 0 BY DEF Unread
  <2>5. owed'[s] = Unread(recv'[s]) + wasted'[s]
    <3>1. recv'[s] = r /\ owed'[s] = owed[s] + (delta - drained)
          /\ wasted'[s] = wasted[s] + (IF f.len = 0 /\ ~f.fin THEN delta - drained ELSE 0)
      BY <1>8 DEF RecvInv, TypeOK
    <3>2. Kept(recv[s], f) = IF f.len = 0 /\ ~f.fin THEN 0 ELSE delta
      BY DEF Kept, MaxOffDelta
    <3> HIDE DEF r, delta, drained
    <3> QED BY <1>3, <1>4, <1>6, <2>1, <2>2, <2>3, <2>4, <3>1, <3>2
  <2>6. \A t \in Streams \ {s} : owed'[t] = Unread(recv'[t]) + wasted'[t]
    BY <1>8 DEF RecvInv, CreditLedger, TypeOK
  <2> QED BY <2>5, <2>6 DEF CreditLedger
<1>13. NoByteLost'
  BY <1>7, <1>8 DEF RecvInv, NoByteLost, TypeOK
<1>14. rx_data' <= fc'.max_data
  <2>1. fc.max_data \in Nat /\ rx_data \in Nat BY <1>2 DEF FlowControls
  <2>2. rx_data' = rx_data + delta /\ fc'.max_data = fc.max_data BY <1>8, <1>9
  <2> HIDE DEF delta
  <2> QED BY <1>4, <1>5, <2>1, <2>2
<1>15. UpdatesRaise'
  <2>1. \A t \in Streams : recv'[t].fc = recv[t].fc
    BY <1>6, <1>8 DEF RecvInv, TypeOK
  <2> QED BY <1>8, <1>9, <2>1 DEF RecvInv, UpdatesRaise, queueVars
<1> QED BY <1>10, <1>11, <1>12, <1>13, <1>14, <1>15 DEF RecvInv

\* An accepted RESET_STREAM or RESET_STREAM_AT preserves the invariant.
LEMMA RecvResetFrameInv ==
  ASSUME RecvInv, NEW s \in Streams, NEW q \in ResetFrames, RecvResetFrame(s, q)
  PROVE  RecvInv'
<1> DEFINE r == Reset(recv[s], q)
           delta == ResetDelta(s, q)
           credit == ResetCredit(recv[s], q)
<1>1. q \in ResetFrameSet BY RecvAssumption DEF ResetFrameSet
<1>2. recv[s] \in RecvBufs /\ BufInv(recv[s]) /\ BytesKept(recv[s], got[s])
      /\ got[s] \in SUBSET Nat /\ fc \in FlowControls /\ rx_data \in Nat
      /\ WindowConsistent(fc)
  BY DEF RecvInv, TypeOK, NoByteLost, UpdatesRaise
<1>3. delta \in Nat
  <2>1. q.final_size \in Nat BY <1>1 DEF ResetFrameSet
  <2>2. recv[s].len \in Nat BY <1>2 DEF RecvBufs
  <2> QED BY <2>1, <2>2 DEF ResetDelta, SatSub
<1>4. delta <= fc.max_data - rx_data /\ ResetError(recv[s], q) = "ok"
  <2>1. ~(delta > fc.max_data - rx_data) /\ ResetError(recv[s], q) = "ok"
    BY DEF RecvResetFrame, ResetFrameError
  <2>2. fc.max_data \in Nat /\ rx_data \in Nat BY <1>2 DEF FlowControls
  <2> HIDE DEF delta
  <2> QED BY <1>3, <2>1, <2>2
<1>5. r \in RecvBufs /\ BufInv(r) /\ credit \in Nat /\ r.fc = recv[s].fc
      /\ Unread(r) = Unread(recv[s]) + delta - credit
  <2>1. PICK f \in StreamFrames : TRUE
    <3>1. [off |-> 0, len |-> 0, fin |-> TRUE] \in StreamFrames BY DEF StreamFrames
    <3> QED BY <3>1
  <2>2. r.fc = recv[s].fc BY <1>1, <1>2, <2>1, SameFlowControl
  <2> QED BY <1>1, <1>2, <1>4, <2>2, ResetInv DEF ResetDelta
<1>6. BytesKept(r, got[s])
  BY <1>1, <1>2, ResetBytes
<1>7. /\ recv' = [recv EXCEPT ![s] = r] /\ rx_data' = rx_data + delta
      /\ fc' = AddConsumed(fc, credit)
      /\ owed' = [owed EXCEPT ![s] = @ + delta - credit]
      /\ readable' \in {readable, readable \cup {s}}
      /\ status' = [status EXCEPT ![s] = "open"]
      /\ UNCHANGED <<queueVars, closed, wasted, got, held>>
  BY DEF RecvResetFrame, GetOrCreate, ArmReadable
<1>8. AddConsumed(fc, credit) \in FlowControls
      /\ WindowConsistent(fc') /\ fc'.max_data = fc.max_data /\ fc'.updated = fc.updated
      /\ (LimitDue(fc) => LimitDue(fc'))
  BY <1>2, <1>5, <1>7, FlowControlType, FlowControlInv DEF LimitDue
<1> HIDE DEF r, delta, credit
<1>9. TypeOK'
  BY <1>3, <1>5, <1>7, <1>8 DEF RecvInv, TypeOK, queueVars
<1>10. \A t \in Streams : BufInv(recv'[t])
  BY <1>5, <1>7 DEF RecvInv, TypeOK
<1>11. CreditLedger'
  <2>1. Unread(recv[s]) \in Int
    BY <1>2, UnreadIsInt
  <2>2. owed[s] = Unread(recv[s]) + wasted[s] /\ owed[s] \in Int /\ wasted[s] \in Nat
    BY DEF RecvInv, CreditLedger, TypeOK
  <2>3. recv'[s] = r /\ owed'[s] = owed[s] + delta - credit /\ wasted'[s] = wasted[s]
    BY <1>7 DEF RecvInv, TypeOK
  <2>4. owed'[s] = Unread(recv'[s]) + wasted'[s]
    BY <1>3, <1>5, <2>1, <2>2, <2>3
  <2>5. \A t \in Streams \ {s} : owed'[t] = Unread(recv'[t]) + wasted'[t]
    BY <1>7 DEF RecvInv, CreditLedger, TypeOK
  <2> QED BY <2>4, <2>5 DEF CreditLedger
<1>12. NoByteLost'
  BY <1>6, <1>7 DEF RecvInv, NoByteLost, TypeOK
<1>13. rx_data' <= fc'.max_data
  <2>1. fc.max_data \in Nat /\ rx_data \in Nat BY <1>2 DEF FlowControls
  <2>2. rx_data' = rx_data + delta /\ fc'.max_data = fc.max_data BY <1>7, <1>8
  <2> QED BY <1>3, <1>4, <2>1, <2>2
<1>14. UpdatesRaise'
  <2>1. \A t \in Streams : recv'[t].fc = recv[t].fc
    BY <1>5, <1>7 DEF RecvInv, TypeOK
  <2> QED BY <1>7, <1>8, <2>1 DEF RecvInv, UpdatesRaise, queueVars
<1> QED BY <1>9, <1>10, <1>11, <1>12, <1>13, <1>14 DEF RecvInv

\* Reading n bytes (stream_recv()) preserves the invariant.
LEMMA StreamRecvInv ==
  ASSUME RecvInv, NEW s \in Streams, NEW n \in Nat, StreamRecv(s, n)
  PROVE  RecvInv'
<1> DEFINE r == Emit(recv[s], n)
<1>1. recv[s] \in RecvBufs /\ BufInv(recv[s]) /\ BytesKept(recv[s], got[s])
      /\ got[s] \in SUBSET Nat /\ fc \in FlowControls /\ rx_data \in Nat
      /\ WindowConsistent(fc) /\ recv[s].fc \in FlowControls
      /\ WindowConsistent(recv[s].fc)
  BY DEF RecvInv, TypeOK, NoByteLost, UpdatesRaise, RecvBufs, BufInv
<1>2. CanEmit(recv[s], n) BY DEF StreamRecv
<1>3. r \in RecvBufs /\ BufInv(r) /\ Unread(r) = Unread(recv[s]) - n
      /\ BytesKept(r, got[s])
  BY <1>1, <1>2, EmitInv, EmitBytes
<1>4. r.fc = AddConsumed(recv[s].fc, n) BY <1>1 DEF Emit, RecvBufs
<1>5. /\ recv' = [recv EXCEPT ![s] = r] /\ fc' = AddConsumed(fc, n)
      /\ owed' = [owed EXCEPT ![s] = @ - n]
      /\ almost_full' = IF AlmostFull(r) THEN almost_full \cup {s} ELSE almost_full
      /\ readable' \subseteq readable \cup {s} /\ held' \subseteq held
      /\ status' = [status EXCEPT ![s] = IF IsComplete(r) THEN "collected" ELSE @]
      /\ UNCHANGED <<rx_data, stopped, should_send_max_data, inflight, closed,
                     wasted, got>>
  BY DEF StreamRecv
<1>6. AddConsumed(fc, n) \in FlowControls
      /\ WindowConsistent(fc') /\ fc'.max_data = fc.max_data /\ fc'.updated = fc.updated
      /\ (LimitDue(fc) => LimitDue(fc'))
  BY <1>1, <1>5, FlowControlType, FlowControlInv DEF LimitDue
<1>7. /\ r.fc.updated = recv[s].fc.updated
      /\ LimitDue(recv[s].fc) => LimitDue(r.fc)
      /\ AlmostFull(r) => LimitDue(r.fc)
  <2>1. r.fc.updated = recv[s].fc.updated /\ (LimitDue(recv[s].fc) => LimitDue(r.fc))
    <3>1. LET w == recv[s].fc
              v == AddConsumed(w, n)
          IN  /\ v.max_data = w.max_data /\ v.updated = w.updated
              /\ w.max_data <= MaxDataNext(w) => w.max_data <= MaxDataNext(v)
      BY <1>1, FlowControlInv
    <3> HIDE DEF r
    <3> QED BY <1>4, <3>1 DEF LimitDue
  <2>2. r.fc \in FlowControls BY <1>3 DEF RecvBufs
  <2>3. AlmostFull(r) => LimitDue(r.fc)
    BY <2>2 DEF AlmostFull, ShouldUpdateMaxData, LimitDue, MaxDataNext, FlowControls
  <2> QED BY <2>1, <2>3
<1> HIDE DEF r
<1>8. TypeOK'
  <2>1. status' \in [Streams -> {"idle", "open", "collected"}]
    BY <1>5 DEF RecvInv, TypeOK
  <2> QED BY <1>3, <1>5, <1>6, <2>1 DEF RecvInv, TypeOK
<1>9. \A t \in Streams : BufInv(recv'[t])
  BY <1>3, <1>5 DEF RecvInv, TypeOK
<1>10. CreditLedger'
  <2>1. Unread(recv[s]) \in Int
    BY <1>1, UnreadIsInt
  <2>2. owed[s] = Unread(recv[s]) + wasted[s] /\ owed[s] \in Int /\ wasted[s] \in Nat
    BY DEF RecvInv, CreditLedger, TypeOK
  <2>3. recv'[s] = r /\ owed'[s] = owed[s] - n /\ wasted'[s] = wasted[s]
    BY <1>5 DEF RecvInv, TypeOK
  <2>4. owed'[s] = Unread(recv'[s]) + wasted'[s]
    <3> DEFINE u == Unread(recv[s])
    <3>1. Unread(recv'[s]) = u - n BY <1>3, <2>3
    <3>2. u \in Int /\ owed[s] = u + wasted[s] BY <2>1, <2>2
    <3> HIDE DEF u
    <3>3. (u + wasted[s]) - n = (u - n) + wasted[s] BY <2>2, <3>2
    <3>4. owed'[s] = (u - n) + wasted'[s] BY <2>3, <3>2, <3>3, Zenon
    <3> QED BY <3>1, <3>4, Zenon
  <2>5. \A t \in Streams \ {s} : owed'[t] = Unread(recv'[t]) + wasted'[t]
    BY <1>5 DEF RecvInv, CreditLedger, TypeOK
  <2> QED BY <2>4, <2>5 DEF CreditLedger
<1>11. NoByteLost'
  BY <1>3, <1>5 DEF RecvInv, NoByteLost, TypeOK
<1>12. rx_data' <= fc'.max_data
  BY <1>5, <1>6 DEF RecvInv
<1>13. UpdatesRaise'
  BY <1>5, <1>6, <1>7 DEF RecvInv, UpdatesRaise, TypeOK
<1> QED BY <1>8, <1>9, <1>10, <1>11, <1>12, <1>13 DEF RecvInv

\* Handing a reset to the application preserves the invariant.
LEMMA StreamRecvResetInv ==
  ASSUME RecvInv, NEW s \in Streams, StreamRecvReset(s)
  PROVE  RecvInv'
<1> DEFINE r == DeliverReset(recv[s])
<1>1. recv[s] \in RecvBufs /\ BufInv(recv[s]) /\ ResetIsReady(recv[s])
  BY DEF RecvInv, TypeOK, StreamRecvReset
<1>2. r \in RecvBufs /\ BufInv(r) /\ Unread(r) = Unread(recv[s])
  BY <1>1, DeliverResetInv
<1>3. r.fc = recv[s].fc /\ r.reset.delivered
  BY <1>1 DEF DeliverReset, RecvBufs, Resets
<1>4. BytesKept(r, got[s]) BY <1>3 DEF BytesKept
<1>5. /\ recv' = [recv EXCEPT ![s] = r]
      /\ status' = [status EXCEPT ![s] = IF IsComplete(r) THEN "collected" ELSE @]
      /\ readable' = readable \ {s} /\ held' = held \ {s}
      /\ UNCHANGED <<connVars, queueVars, closed, owed, wasted, got>>
  BY DEF StreamRecvReset
<1> HIDE DEF r
<1>6. TypeOK'
  <2>1. status' \in [Streams -> {"idle", "open", "collected"}]
    BY <1>5 DEF RecvInv, TypeOK
  <2> QED BY <1>2, <1>5, <2>1 DEF RecvInv, TypeOK, queueVars, connVars
<1>7. \A t \in Streams : BufInv(recv'[t]) /\ recv'[t].fc = recv[t].fc
                          /\ Unread(recv'[t]) = Unread(recv[t])
                          /\ BytesKept(recv'[t], got[t])
  BY <1>2, <1>3, <1>4, <1>5 DEF RecvInv, TypeOK, NoByteLost
<1> QED
  BY <1>5, <1>6, <1>7 DEF RecvInv, CreditLedger, NoByteLost, UpdatesRaise, connVars,
                          queueVars

\* stream_shutdown(Read) preserves the invariant.
LEMMA StreamShutdownReadInv ==
  ASSUME RecvInv, NEW s \in Streams, StreamShutdownRead(s)
  PROVE  RecvInv'
<1> DEFINE r == Shutdown(recv[s])
           credit == ShutdownCredit(recv[s])
<1>1. recv[s] \in RecvBufs /\ BufInv(recv[s]) /\ ~recv[s].drain
      /\ fc \in FlowControls /\ WindowConsistent(fc)
  BY DEF RecvInv, TypeOK, StreamShutdownRead, UpdatesRaise
<1>2. r \in RecvBufs /\ BufInv(r) /\ credit = Unread(recv[s]) /\ Unread(r) = 0
  BY <1>1, ShutdownInv
<1>3. r.fc = recv[s].fc /\ r.drain
  BY <1>1 DEF Shutdown, RecvBufs
<1>4. BytesKept(r, got[s]) BY <1>3 DEF BytesKept
<1>5. credit \in Nat
  <2>1. recv[s].off \in Nat /\ recv[s].len \in Nat /\ recv[s].reset \in Resets
    BY <1>1 DEF RecvBufs
  <2>2. recv[s].reset.reliable_size \in Nat BY <2>1 DEF Resets
  <2>3. recv[s].off <= recv[s].len BY <1>1 DEF BufInv, OffsetsOrdered
  <2> QED BY <2>1, <2>2, <2>3 DEF ShutdownCredit, SatSub
<1>6. /\ recv' = [recv EXCEPT ![s] = r] /\ fc' = AddConsumed(fc, credit)
      /\ owed' = [owed EXCEPT ![s] = @ - credit]
      /\ stopped' \in {stopped, stopped \cup {s}}
      /\ readable' = readable \ {s} /\ held' = held \ {s}
      /\ UNCHANGED <<status, rx_data, almost_full, should_send_max_data, inflight,
                     closed, wasted, got>>
  BY DEF StreamShutdownRead
<1>7. AddConsumed(fc, credit) \in FlowControls
      /\ WindowConsistent(fc') /\ fc'.max_data = fc.max_data /\ fc'.updated = fc.updated
      /\ (LimitDue(fc) => LimitDue(fc'))
  BY <1>1, <1>5, <1>6, FlowControlType, FlowControlInv DEF LimitDue
<1> HIDE DEF r, credit
<1>8. TypeOK'
  BY <1>2, <1>5, <1>6, <1>7 DEF RecvInv, TypeOK
<1>9. \A t \in Streams : BufInv(recv'[t]) /\ recv'[t].fc = recv[t].fc
                          /\ BytesKept(recv'[t], got[t])
  BY <1>2, <1>3, <1>4, <1>6 DEF RecvInv, TypeOK, NoByteLost
<1>10. CreditLedger'
  <2>1. owed[s] = Unread(recv[s]) + wasted[s] /\ owed[s] \in Int /\ wasted[s] \in Nat
    BY DEF RecvInv, CreditLedger, TypeOK
  <2>2. recv'[s] = r /\ owed'[s] = owed[s] - credit /\ wasted'[s] = wasted[s]
    BY <1>6 DEF RecvInv, TypeOK
  <2>3. owed'[s] = Unread(recv'[s]) + wasted'[s]
    <3>1. Unread(recv'[s]) = 0 /\ Unread(recv[s]) = credit BY <1>2, <2>2
    <3>2. (credit + wasted[s]) - credit = 0 + wasted[s] BY <1>5, <2>1
    <3> QED BY <2>1, <2>2, <3>1, <3>2, Zenon
  <2>4. \A t \in Streams \ {s} : owed'[t] = Unread(recv'[t]) + wasted'[t]
    BY <1>6 DEF RecvInv, CreditLedger, TypeOK
  <2> QED BY <2>3, <2>4 DEF CreditLedger
<1> QED
  BY <1>6, <1>7, <1>8, <1>9, <1>10 DEF RecvInv, NoByteLost, UpdatesRaise

\* Emitting MAX_STREAM_DATA preserves the invariant: the limit it commits is
\* no lower than what the stream has received.
LEMMA SendMaxStreamDataInv ==
  ASSUME RecvInv, NEW s \in Streams, NEW recent \in BOOLEAN, NEW room \in BOOLEAN,
         SendMaxStreamData(s, recent, room)
  PROVE  /\ RecvInv'
         /\ fc'.max_data = fc.max_data
         /\ \A t \in Streams : /\ recv'[t].fc.max_data >= recv[t].fc.max_data
                               /\ recv'[t].fin_off = recv[t].fin_off
                               /\ recv'[t].len = recv[t].len
<1>1. /\ recv[s] \in RecvBufs /\ BufInv(recv[s]) /\ s \in almost_full
      /\ fc \in FlowControls /\ WindowConsistent(fc) /\ recv[s].fc \in FlowControls
      /\ WindowConsistent(recv[s].fc) /\ LimitDue(recv[s].fc)
  BY DEF RecvInv, TypeOK, SendMaxStreamData, UpdatesRaise, BufInv, RecvBufs
<1>2. \A t \in Streams : recv[t].fc.max_data >= recv[t].fc.max_data
  BY DEF RecvInv, TypeOK, RecvBufs, FlowControls
<1>3. UNCHANGED <<status, rx_data, readable, stopped, should_send_max_data, closed,
                  owed, wasted, got, held>>
  BY DEF SendMaxStreamData, histVars
<1>4. CASE status[s] # "open"
  <2>1. almost_full' = almost_full \ {s} /\ UNCHANGED <<recv, fc, inflight>>
    BY <1>4 DEF SendMaxStreamData
  <2>2. TypeOK' BY <1>3, <2>1 DEF RecvInv, TypeOK
  <2> QED
    BY <1>2, <1>3, <2>1, <2>2 DEF RecvInv, CreditLedger, NoByteLost, UpdatesRaise
<1>5. CASE status[s] = "open"
  <2> DEFINE tuned == IF AlmostFull(recv[s])
                      THEN AutotuneWindow(recv[s].fc, recent) ELSE recv[s].fc
             w == IF room THEN UpdateMaxData(tuned) ELSE tuned
             r == [recv[s] EXCEPT !.fc = w]
             min == ConnectionWindowFor(tuned.window)
  <2>1. /\ tuned \in FlowControls /\ WindowConsistent(tuned) /\ LimitDue(tuned)
        /\ tuned.max_data = recv[s].fc.max_data /\ tuned.consumed >= recv[s].fc.consumed
        /\ tuned.consumed = recv[s].fc.consumed /\ tuned.updated = recv[s].fc.updated
    <3>1. recv[s].fc.consumed >= recv[s].fc.consumed BY <1>1 DEF FlowControls
    <3>2. AutotuneWindow(recv[s].fc, recent).consumed = recv[s].fc.consumed
      BY <1>1 DEF AutotuneWindow, SetWindow, FlowControls
    <3>3. CASE AlmostFull(recv[s])
      <4>1. tuned = AutotuneWindow(recv[s].fc, recent) BY <3>3
      <4>2. AutotuneWindow(recv[s].fc, recent) \in FlowControls
        BY <1>1, FlowControlType
      <4>3. LET v == AutotuneWindow(recv[s].fc, recent) IN
            WindowConsistent(v) /\ LimitDue(v) /\ v.max_data = recv[s].fc.max_data
            /\ v.updated = recv[s].fc.updated
        BY <1>1, FlowControlInv DEF LimitDue
      <4> HIDE DEF tuned
      <4> QED BY <3>1, <3>2, <4>1, <4>2, <4>3
    <3>4. CASE ~AlmostFull(recv[s]) BY <1>1, <3>1, <3>4
    <3> QED BY <3>3, <3>4
  <2>2. min \in Nat
    <3>1. tuned.window \in Nat BY <2>1 DEF FlowControls
    <3> HIDE DEF tuned
    <3> QED BY <3>1 DEF ConnectionWindowFor
  <2> HIDE DEF tuned
  <2>3. /\ w \in FlowControls /\ WindowConsistent(w) /\ w.consumed = recv[s].fc.consumed
        /\ w.max_data >= recv[s].fc.max_data /\ LimitDue(w)
        /\ (recv[s].fc.updated => w.updated) /\ (room => w.updated)
    <3>1. CASE room
      BY <1>1, <2>1, <3>1, FlowControlType, UpdateMaxDataInv DEF LimitDue
    <3>2. CASE ~room
      <4>1. w = tuned BY <3>2
      <4>2. recv[s].fc.max_data \in Nat BY <1>1 DEF FlowControls
      <4>3. w.max_data >= recv[s].fc.max_data BY <2>1, <4>1, <4>2
      <4> HIDE DEF w
      <4> QED BY <2>1, <3>2, <4>1, <4>3
    <3> QED BY <3>1, <3>2
  <2> HIDE DEF w
  <2>4. /\ r \in RecvBufs /\ BufInv(r) /\ r.fc = w /\ Unread(r) = Unread(recv[s])
        /\ r.fin_off = recv[s].fin_off /\ r.len = recv[s].len
        /\ BytesKept(r, got[s]) <=> BytesKept(recv[s], got[s])
    BY <1>1, <2>3, ReplaceFlowControl
  <2>5. /\ recv' = [recv EXCEPT ![s] = r]
        /\ almost_full' \subseteq almost_full
        /\ fc' \in {fc, EnsureWindowLowerBound(fc, min)}
        /\ inflight' \subseteq inflight \cup {MaxStreamDataFrame(s)}
        /\ ~room => inflight' = inflight
    <3>1. CASE room
      BY <1>5, <3>1 DEF SendMaxStreamData, tuned, w
    <3>2. CASE ~room
      BY <1>5, <3>2 DEF SendMaxStreamData, tuned, w
    <3> QED BY <3>1, <3>2
  <2>6. /\ fc' \in FlowControls /\ WindowConsistent(fc') /\ fc'.max_data = fc.max_data
        /\ fc'.updated = fc.updated /\ (LimitDue(fc) => LimitDue(fc'))
    <3> HIDE DEF min
    <3>1. CASE fc' = fc BY <1>1, <3>1
    <3>2. CASE fc' = EnsureWindowLowerBound(fc, min)
      <4>1. fc' \in FlowControls BY <1>1, <2>2, <3>2, FlowControlType
      <4> QED BY <1>1, <2>2, <3>2, <4>1, FlowControlInv DEF LimitDue
    <3> QED BY <2>5, <3>1, <3>2
  <2> HIDE DEF r, min
  <2>7. TypeOK'
    <3>1. MaxStreamDataFrame(s) \in ControlFrames
      BY DEF MaxStreamDataFrame, ControlFrames
    <3> QED BY <1>3, <2>4, <2>5, <2>6, <3>1 DEF RecvInv, TypeOK
  <2>8. /\ recv'[s] = r
        /\ \A t \in Streams \ {s} : recv'[t] = recv[t]
    BY <2>5 DEF RecvInv, TypeOK
  <2>9. \A t \in Streams : BufInv(recv'[t]) /\ Unread(recv'[t]) = Unread(recv[t])
                           /\ BytesKept(recv'[t], got[t])
    BY <2>4, <2>8 DEF RecvInv, NoByteLost
  <2>10. UpdatesRaise'
    <3>1. \A t \in Streams : MaxStreamDataFrame(t) = MaxStreamDataFrame(s) => t = s
      BY DEF MaxStreamDataFrame
    <3>2. MaxDataFrame # MaxStreamDataFrame(s)
      BY DEF MaxDataFrame, MaxStreamDataFrame
    <3>3. MaxDataFrame \in inflight' => fc'.updated
      BY <2>5, <2>6, <3>2 DEF RecvInv, UpdatesRaise
    <3>4. \A t \in Streams :
            /\ t \in almost_full' => LimitDue(recv'[t].fc)
            /\ MaxStreamDataFrame(t) \in inflight' => recv'[t].fc.updated
      BY <2>3, <2>4, <2>5, <2>8, <3>1 DEF RecvInv, UpdatesRaise
    <3> QED BY <1>3, <2>6, <3>3, <3>4 DEF RecvInv, UpdatesRaise
  <2>11. \A t \in Streams : /\ recv'[t].fc.max_data >= recv[t].fc.max_data
                            /\ recv'[t].fin_off = recv[t].fin_off
                            /\ recv'[t].len = recv[t].len
    BY <1>2, <2>3, <2>4, <2>8
  <2>12. rx_data' <= fc'.max_data BY <1>3, <2>6 DEF RecvInv
  <2>13. CreditLedger' /\ NoByteLost'
    BY <1>3, <2>9 DEF RecvInv, CreditLedger, NoByteLost
  <2> QED BY <2>6, <2>7, <2>9, <2>10, <2>11, <2>12, <2>13 DEF RecvInv
<1> QED BY <1>4, <1>5

\* Emitting MAX_DATA preserves the invariant, and raises the limit.
LEMMA SendMaxDataInv ==
  ASSUME RecvInv, NEW recent \in BOOLEAN, NEW room \in BOOLEAN, SendMaxData(recent, room)
  PROVE  RecvInv' /\ fc'.max_data >= fc.max_data /\ UNCHANGED recv
<1> DEFINE tuned == IF OrganicMaxData THEN AutotuneWindow(fc, recent) ELSE fc
<1>1. fc \in FlowControls /\ WindowConsistent(fc) /\ rx_data \in Nat
  BY DEF RecvInv, TypeOK, UpdatesRaise
<1>2. LimitDue(fc)
  <2>1. CASE should_send_max_data BY <2>1 DEF RecvInv, UpdatesRaise
  <2>2. CASE OrganicMaxData
    <3>1. fc.max_data \in Nat /\ fc.consumed \in Nat /\ fc.window \in Nat
      BY <1>1 DEF FlowControls
    <3> QED BY <2>2, <3>1 DEF OrganicMaxData, LimitDue, MaxDataNext
  <2> QED BY <2>1, <2>2 DEF SendMaxData
<1>3. /\ tuned \in FlowControls /\ WindowConsistent(tuned) /\ LimitDue(tuned)
      /\ tuned.max_data = fc.max_data /\ tuned.updated = fc.updated
  BY <1>1, <1>2, FlowControlType, FlowControlInv DEF LimitDue
<1>4. /\ fc' = (IF room THEN UpdateMaxData(tuned) ELSE tuned)
      /\ should_send_max_data' = ~room
      /\ inflight' = (IF room THEN inflight \cup {MaxDataFrame} ELSE inflight)
      /\ UNCHANGED <<status, recv, rx_data, readable, almost_full, stopped, closed,
                     owed, wasted, got, held>>
  BY DEF SendMaxData, histVars
<1> HIDE DEF tuned
<1>5. /\ fc' \in FlowControls /\ WindowConsistent(fc') /\ LimitDue(fc')
      /\ fc'.max_data >= fc.max_data /\ (fc.updated => fc'.updated)
      /\ (room => fc'.updated)
  <2>1. CASE room
    BY <1>3, <1>4, <2>1, FlowControlType, UpdateMaxDataInv DEF LimitDue
  <2>2. CASE ~room
    BY <1>1, <1>3, <1>4, <2>2 DEF FlowControls
  <2> QED BY <2>1, <2>2
<1>6. TypeOK'
  <2>1. MaxDataFrame \in ControlFrames BY DEF MaxDataFrame, ControlFrames
  <2>2. inflight' \subseteq ControlFrames BY <1>4, <2>1 DEF RecvInv, TypeOK
  <2>3. should_send_max_data' \in BOOLEAN BY <1>4
  <2>4. fc' \in FlowControls BY <1>5
  <2> QED BY <1>4, <2>2, <2>3, <2>4 DEF RecvInv, TypeOK
<1>7. rx_data' <= fc'.max_data
  <2>1. fc.max_data \in Nat /\ fc'.max_data \in Nat /\ rx_data \in Nat
    BY <1>1, <1>5 DEF FlowControls
  <2>2. rx_data' = rx_data /\ rx_data <= fc.max_data BY <1>4 DEF RecvInv
  <2> QED BY <1>5, <2>1, <2>2
<1>8. UpdatesRaise'
  <2>1. \A t \in Streams : MaxStreamDataFrame(t) # MaxDataFrame
    BY DEF MaxDataFrame, MaxStreamDataFrame
  <2> QED BY <1>4, <1>5, <2>1 DEF RecvInv, UpdatesRaise
<1>9. CreditLedger' /\ NoByteLost' /\ \A t \in Streams : BufInv(recv'[t])
  BY <1>4 DEF RecvInv, CreditLedger, NoByteLost
<1> QED BY <1>4, <1>5, <1>6, <1>7, <1>8, <1>9 DEF RecvInv

\* The steps that leave the buffers and both flow controllers alone.
LEMMA QuietStepInv ==
  ASSUME RecvInv, UNCHANGED <<recv, rx_data, fc, owed, wasted, got>>,
         TypeOK',
         \A s \in Streams : s \in almost_full' => s \in almost_full
                                                    \/ MaxStreamDataFrame(s) \in inflight,
         should_send_max_data' => should_send_max_data \/ MaxDataFrame \in inflight,
         \A s \in Streams : MaxStreamDataFrame(s) \in inflight'
                               => MaxStreamDataFrame(s) \in inflight,
         MaxDataFrame \in inflight' => MaxDataFrame \in inflight
  PROVE  RecvInv'
<1>1. \A s \in Streams : recv[s].fc.updated => LimitDue(recv[s].fc)
  BY DEF RecvInv, BufInv, WindowConsistent, LimitDue
<1>2. fc.updated => LimitDue(fc)
  BY DEF RecvInv, UpdatesRaise, WindowConsistent, LimitDue
<1>3. UpdatesRaise'
  BY <1>1, <1>2 DEF RecvInv, UpdatesRaise
<1> QED BY <1>3 DEF RecvInv, CreditLedger, NoByteLost

LEMMA RecvNext == RecvInv /\ [Next]_vars => RecvInv'
<1> SUFFICES ASSUME RecvInv, [Next]_vars PROVE RecvInv' OBVIOUS
<1>1. TypeOK BY DEF RecvInv
<1>2. ASSUME NEW s \in Streams, NEW f \in DataFrames, RecvStreamFrame(s, f)
      PROVE  RecvInv'
  BY <1>2, RecvStreamFrameInv
<1>3. ASSUME NEW s \in Streams, GetOrCreate(s) \/ UNCHANGED status, CloseOnError
      PROVE  RecvInv'
  <2>1. status' \in [Streams -> {"idle", "open", "collected"}]
    BY <1>1, <1>3 DEF GetOrCreate, TypeOK
  <2>2. UNCHANGED <<recv, rx_data, fc, readable, almost_full, stopped, inflight,
                    should_send_max_data, owed, wasted, got, held>> /\ closed' = TRUE
    BY <1>3 DEF CloseOnError, connVars, queueVars, histVars
  <2>3. TypeOK' BY <1>1, <2>1, <2>2 DEF TypeOK
  <2> QED BY <2>2, <2>3, QuietStepInv
<1>4. ASSUME NEW s \in Streams, NEW q \in ResetFrames, RecvResetFrame(s, q)
      PROVE  RecvInv'
  BY <1>4, RecvResetFrameInv
<1>5. ASSUME NEW s \in Streams, ReadableNext(s) PROVE RecvInv'
  <2>1. TypeOK' BY <1>1, <1>5 DEF ReadableNext, TypeOK, connVars, queueVars
  <2> QED BY <1>5, <2>1, QuietStepInv DEF ReadableNext, connVars, queueVars
<1>6. ASSUME NEW s \in Streams, NEW n \in 0..recv[s].len, StreamRecv(s, n)
      PROVE  RecvInv'
  BY <1>6, StreamRecvInv
<1>7. ASSUME NEW s \in Streams, NEW recent \in BOOLEAN, NEW room \in BOOLEAN,
             SendMaxStreamData(s, recent, room)
      PROVE  RecvInv'
  BY <1>7, SendMaxStreamDataInv
<1>8. ASSUME NEW recent \in BOOLEAN, NEW room \in BOOLEAN, SendMaxData(recent, room)
      PROVE  RecvInv'
  BY <1>8, SendMaxDataInv
<1>9. ASSUME NEW s \in Streams, SendStopSending(s) PROVE RecvInv'
  <2>1. StopSendingFrame(s) \in ControlFrames
        /\ StopSendingFrame(s) # MaxDataFrame
        /\ \A t \in Streams : StopSendingFrame(s) # MaxStreamDataFrame(t)
    BY DEF StopSendingFrame, ControlFrames, MaxDataFrame, MaxStreamDataFrame
  <2>2. /\ inflight' = inflight \cup {StopSendingFrame(s)} /\ stopped' \subseteq stopped
        /\ UNCHANGED <<status, recv, rx_data, fc, readable, almost_full,
                       should_send_max_data, closed, owed, wasted, got, held>>
    BY <1>9 DEF SendStopSending, connVars, histVars
  <2>3. TypeOK' BY <1>1, <2>1, <2>2 DEF TypeOK
  <2> QED BY <2>1, <2>2, <2>3, QuietStepInv
<1>10. ASSUME NEW f \in inflight, LoseFrame(f) PROVE RecvInv'
  <2>1. /\ inflight' \subseteq inflight
        /\ UNCHANGED <<status, recv, rx_data, fc, readable, closed, owed, wasted, got, held>>
    BY <1>10 DEF LoseFrame, connVars, histVars
  <2>2. f \in ControlFrames BY <1>1 DEF TypeOK
  <2>3. CASE f.type = "MAX_DATA"
    <3>1. f = MaxDataFrame BY <2>2, <2>3 DEF ControlFrames, MaxDataFrame
    <3>2. should_send_max_data' \in BOOLEAN /\ UNCHANGED <<almost_full, stopped>>
      BY <1>1, <1>10, <2>3 DEF LoseFrame, TypeOK
    <3>3. TypeOK' BY <1>1, <2>1, <3>2 DEF TypeOK
    <3> QED BY <2>1, <3>1, <3>2, <3>3, QuietStepInv
  <2>4. CASE f.type = "MAX_STREAM_DATA"
    <3>1. f.stream \in Streams /\ f = MaxStreamDataFrame(f.stream)
      BY <2>2, <2>4 DEF ControlFrames, MaxStreamDataFrame
    <3>2. almost_full' \subseteq almost_full \cup {f.stream}
          /\ UNCHANGED <<should_send_max_data, stopped>>
      BY <1>10, <2>4 DEF LoseFrame
    <3>3. TypeOK' BY <1>1, <2>1, <3>1, <3>2 DEF TypeOK
    <3>4. \A s \in Streams : s \in almost_full' => s \in almost_full
                                                    \/ MaxStreamDataFrame(s) \in inflight
      BY <3>1, <3>2
    <3> QED BY <2>1, <3>2, <3>3, <3>4, QuietStepInv
  <2>5. CASE f.type = "STOP_SENDING"
    <3>1. f.stream \in Streams
      BY <2>2, <2>5 DEF ControlFrames
    <3>2. stopped' \subseteq stopped \cup {f.stream}
          /\ UNCHANGED <<should_send_max_data, almost_full>>
      BY <1>10, <2>5 DEF LoseFrame
    <3>3. TypeOK' BY <1>1, <2>1, <3>1, <3>2 DEF TypeOK
    <3> QED BY <2>1, <3>2, <3>3, QuietStepInv
  <2> QED BY <1>10, <2>3, <2>4, <2>5 DEF LoseFrame
<1>11. CASE UNCHANGED vars
  <2>1. TypeOK' BY <1>1, <1>11 DEF TypeOK, vars
  <2> QED BY <1>11, <2>1, QuietStepInv DEF vars
<1>12. CASE FromPeer
  BY <1>2, <1>3, <1>4, <1>12 DEF FromPeer, RejectStreamFrame, RejectResetFrame
<1>13. CASE ByApplication
  BY <1>5, <1>6, <1>13, StreamRecvResetInv, StreamShutdownReadInv DEF ByApplication
<1>14. CASE OnSend
  BY <1>7, <1>8, <1>9, <1>10, <1>14 DEF OnSend
<1> QED BY <1>11, <1>12, <1>13, <1>14 DEF Next

\* The inductive invariant holds throughout every run of the receive side.
THEOREM RecvInvariant == Spec => []RecvInv
BY RecvInit, RecvNext, PTL DEF Spec

\* The types are kept (TypeOK).
THEOREM RecvTypeCorrect == Spec => []TypeOK
<1>1. RecvInv => TypeOK BY DEF RecvInv
<1> QED BY <1>1, RecvInvariant, PTL

\* Connection credit is neither lost nor granted twice, whatever the peer sends
\* and the application reads, resets or shuts down.
THEOREM RecvCreditLedger == Spec => []CreditLedger
<1>1. RecvInv => CreditLedger BY DEF RecvInv
<1> QED BY <1>1, RecvInvariant, PTL

\* No accepted byte is lost and no other byte is delivered.
THEOREM RecvNoByteLost == Spec => []NoByteLost
<1>1. RecvInv => NoByteLost BY DEF RecvInv
<1> QED BY <1>1, RecvInvariant, PTL

\* The unsigned subtractions of the receive path do not underflow.
THEOREM RecvNoUnderflow == Spec => []NoUnderflow
<1>1. RecvInv => NoUnderflow BY DEF RecvInv, NoUnderflow, BufInv, OffsetsOrdered
<1> QED BY <1>1, RecvInvariant, PTL

-----------------------------------------------------------------------------
(* Notification and collection.                                            *)

\* What stream t owes NotifyInv.
NotifyAt(t) ==
  /\ status[t] = "open" /\ Ready(recv[t]) <=> t \in readable \cup held
  /\ status[t] = "collected" =>
       /\ recv[t].fin_off # None
       /\ recv[t].off = recv[t].fin_off
       /\ owed[t] = wasted[t]
  /\ status[t] = "idle" => ~Ready(recv[t])

LEMMA NotifyPointwise ==
  ASSUME TypeOK PROVE NotifyInv <=> \A t \in Streams : NotifyAt(t)
BY DEF TypeOK, NotifyInv, ReadableExact, CollectedIsSettled, NotifyAt

\* A step of stream s need only be checked at s.
LEMMA NotifyLocal ==
  ASSUME RecvInv, RecvInv', NotifyInv, NEW s \in Streams, NotifyAt(s)',
         \A t \in Streams \ {s} :
           /\ recv'[t] = recv[t] /\ status'[t] = status[t]
           /\ owed'[t] = owed[t] /\ wasted'[t] = wasted[t]
           /\ t \in readable' <=> t \in readable
           /\ t \in held' <=> t \in held
  PROVE  NotifyInv'
<1>1. TypeOK /\ TypeOK' BY DEF RecvInv
<1>2. \A t \in Streams : NotifyAt(t) BY <1>1, NotifyPointwise
<1>3. ASSUME NEW t \in Streams PROVE NotifyAt(t)'
  <2>1. CASE t = s BY <2>1
  <2>2. CASE t # s BY <1>2, <2>2 DEF NotifyAt
  <2> QED BY <2>1, <2>2
<1>4. (NotifyInv <=> \A t \in Streams : NotifyAt(t))'
  BY <1>1 DEF TypeOK, NotifyInv, ReadableExact, CollectedIsSettled, NotifyAt
<1> QED BY <1>3, <1>4

LEMMA NotifyNext ==
  ASSUME RecvInv, RecvInv', NotifyInv, [Next]_vars
  PROVE  NotifyInv'
<1>1. TypeOK /\ TypeOK' BY DEF RecvInv
<1>2. \A t \in Streams : NotifyAt(t) BY <1>1, NotifyPointwise
<1>3. \A t \in Streams : recv[t] \in RecvBufs /\ BufInv(recv[t])
  BY <1>1 DEF RecvInv, TypeOK
<1>4. ASSUME NEW s \in Streams, NEW r,
             GetOrCreate(s), recv' = [recv EXCEPT ![s] = r], ArmReadable(s, r),
             Ready(recv[s]) => Ready(r), held' = held,
             \A t \in Streams \ {s} : owed'[t] = owed[t] /\ wasted'[t] = wasted[t]
      PROVE  NotifyInv'
  <2>1. status' = [status EXCEPT ![s] = "open"] /\ status[s] # "collected"
    BY <1>4 DEF GetOrCreate
  <2>2. readable' = IF ~Ready(recv[s]) /\ Ready(r) THEN readable \cup {s} ELSE readable
    BY <1>4 DEF ArmReadable
  <2>3. recv'[s] = r /\ status'[s] = "open" BY <1>1, <1>4, <2>1 DEF TypeOK
  <2>4. status[s] \in {"idle", "open"} BY <1>1, <2>1 DEF TypeOK
  <2>5. Ready(r) <=> s \in readable' \cup held'
    BY <1>2, <1>4, <2>2, <2>4 DEF NotifyAt
  <2>6. NotifyAt(s)' BY <2>3, <2>5 DEF NotifyAt
  <2> QED BY <1>1, <1>4, <2>1, <2>2, <2>6, NotifyLocal DEF TypeOK
<1>5. ASSUME NEW s \in Streams, NEW f \in DataFrames, RecvStreamFrame(s, f)
      PROVE  NotifyInv'
  <2>1. f \in StreamFrames /\ WriteError(recv[s], f) = "ok"
    BY <1>5, RecvAssumption DEF StreamFrames, RecvStreamFrame, StreamFrameError
  <2>2. Ready(recv[s]) => Ready(Write(recv[s], f)) BY <1>3, <2>1, ReadyKept
  <2> QED BY <1>1, <1>4, <1>5, <2>2 DEF RecvStreamFrame, TypeOK
<1>6. ASSUME NEW s \in Streams, NEW q \in ResetFrames, RecvResetFrame(s, q)
      PROVE  NotifyInv'
  <2>1. q \in ResetFrameSet /\ ResetError(recv[s], q) = "ok"
    BY <1>6, RecvAssumption DEF ResetFrameSet, RecvResetFrame, ResetFrameError
  <2>2. Ready(recv[s]) => Ready(Reset(recv[s], q)) BY <1>3, <2>1, ReadyKept
  <2> QED BY <1>1, <1>4, <1>6, <2>2 DEF RecvResetFrame, TypeOK
<1>7. ASSUME NEW s \in Streams, GetOrCreate(s) \/ UNCHANGED status, CloseOnError
      PROVE  NotifyInv'
  <2>1. UNCHANGED <<recv, readable, owed, wasted, held>>
    BY <1>7 DEF CloseOnError, histVars
  <2>2. \/ status[s] # "collected" /\ status' = [status EXCEPT ![s] = "open"]
        \/ UNCHANGED status
    BY <1>7 DEF GetOrCreate
  <2>3. NotifyAt(s)'
    BY <1>1, <1>2, <2>1, <2>2 DEF NotifyAt, TypeOK
  <2> QED BY <1>1, <2>1, <2>2, <2>3, NotifyLocal DEF TypeOK
<1>8. ASSUME NEW s \in Streams, ReadableNext(s) PROVE NotifyInv'
  <2>1. /\ s \in readable /\ readable' = readable \ {s} /\ held' = held \cup {s}
        /\ UNCHANGED <<status, recv, owed, wasted>>
    BY <1>8 DEF ReadableNext
  <2>2. NotifyAt(s)' BY <1>2, <2>1 DEF NotifyAt
  <2> QED BY <2>1, <2>2, NotifyLocal
<1>9. ASSUME NEW s \in Streams, NEW n \in Nat, StreamRecv(s, n) PROVE NotifyInv'
  <2> DEFINE r == Emit(recv[s], n)
             still == Ready(r) /\ (s \in Incremental \/ ~IsFin(r))
  <2>1. /\ status[s] = "open" /\ CanEmit(recv[s], n)
        /\ recv' = [recv EXCEPT ![s] = r] /\ owed' = [owed EXCEPT ![s] = @ - n]
        /\ status' = [status EXCEPT ![s] = IF IsFin(r) THEN "collected" ELSE @]
        /\ readable' = (IF ~still THEN readable \ {s}
                        ELSE IF s \in Incremental THEN readable \cup {s} ELSE readable)
        /\ held' = (IF still THEN held ELSE held \ {s})
        /\ UNCHANGED wasted
    BY <1>9 DEF StreamRecv, IsComplete
  <2>2. s \in readable \cup held
    BY <1>2, <2>1 DEF NotifyAt, CanEmit, Ready
  <2>3. /\ recv'[s] = r /\ (IsFin(r) => status'[s] = "collected")
        /\ (~IsFin(r) => status'[s] = "open")
    BY <1>1, <2>1 DEF TypeOK
  <2>4. IsFin(r) => ~Ready(r) /\ r.fin_off # None /\ r.off = r.fin_off /\ Unread(r) = 0
    BY <1>3, <2>1, EmitComplete
  <2>5. IsFin(r) => owed'[s] = wasted'[s]
    <3>1. owed'[s] = Unread(recv'[s]) + wasted'[s] /\ wasted'[s] \in Nat
      BY <1>1 DEF RecvInv, CreditLedger, TypeOK
    <3>2. 0 + wasted'[s] = wasted'[s] BY <3>1
    <3> HIDE DEF r
    <3> QED BY <2>3, <2>4, <3>1, <3>2, Zenon
  <2>6. s \in readable' \cup held' <=> Ready(r) /\ ~IsFin(r)
    <3> HIDE DEF r
    <3> QED BY <2>1, <2>2, <2>4
  <2> HIDE DEF r
  <2>7. NotifyAt(s)' BY <2>3, <2>4, <2>5, <2>6 DEF NotifyAt
  <2> QED BY <1>1, <2>1, <2>7, NotifyLocal DEF TypeOK
<1>10. ASSUME NEW s \in Streams, StreamRecvReset(s) PROVE NotifyInv'
  <2> DEFINE r == DeliverReset(recv[s])
  <2>1. /\ ResetIsReady(recv[s]) /\ recv' = [recv EXCEPT ![s] = r]
        /\ status' = [status EXCEPT ![s] = IF IsFin(r) THEN "collected" ELSE @]
        /\ readable' = readable \ {s} /\ held' = held \ {s}
        /\ UNCHANGED <<owed, wasted>>
    BY <1>10 DEF StreamRecvReset, IsComplete
  <2>2. /\ r.off = r.fin_off /\ r.fin_off # None /\ r.data = {} /\ ~r.finbuf
        /\ r.reset.set /\ r.reset.delivered
    BY <1>3, <2>1 DEF DeliverReset, ResetIsReady, BufInv, ResetConsistent, RecvBufs,
                      Resets, None
  <2>3. ~Ready(r) /\ IsFin(r)
    BY <2>2 DEF Ready, ResetIsReady, DataIsReady, IsFin
  <2>4. recv'[s] = r /\ status'[s] = "collected"
    BY <1>1, <2>1, <2>3 DEF TypeOK
  <2>5. owed'[s] = wasted'[s]
    <3>1. owed'[s] = Unread(recv'[s]) + wasted'[s] /\ wasted'[s] \in Nat
      BY <1>1 DEF RecvInv, CreditLedger, TypeOK
    <3>2. Unread(r) = 0 BY <2>2 DEF Unread
    <3> HIDE DEF r
    <3> QED BY <2>4, <3>1, <3>2
  <2> HIDE DEF r
  <2>6. NotifyAt(s)' BY <2>1, <2>2, <2>3, <2>4, <2>5 DEF NotifyAt
  <2> QED BY <1>1, <2>1, <2>6, NotifyLocal DEF TypeOK
<1>11. ASSUME NEW s \in Streams, StreamShutdownRead(s) PROVE NotifyInv'
  <2> DEFINE r == Shutdown(recv[s])
  <2>1. /\ status[s] = "open" /\ recv' = [recv EXCEPT ![s] = r] /\ UNCHANGED <<status, wasted>>
        /\ owed' = [owed EXCEPT ![s] = @ - ShutdownCredit(recv[s])]
        /\ readable' = readable \ {s} /\ held' = held \ {s}
    BY <1>11 DEF StreamShutdownRead
  <2>2. r.data = {} /\ ~r.finbuf /\ (r.reset.set => r.reset.delivered)
    BY <1>3 DEF Shutdown, RecvBufs, Resets
  <2>3. ~Ready(r) BY <2>2 DEF Ready, ResetIsReady, DataIsReady
  <2>4. recv'[s] = r BY <1>1, <2>1 DEF TypeOK
  <2> HIDE DEF r
  <2>5. NotifyAt(s)' BY <2>1, <2>3, <2>4 DEF NotifyAt
  <2> QED BY <1>1, <2>1, <2>5, NotifyLocal DEF TypeOK
<1>12. ASSUME \A t \in Streams :
                 \/ recv'[t] = recv[t]
                 \/ status[t] = "open" /\ (Ready(recv'[t]) <=> Ready(recv[t])),
              UNCHANGED <<status, readable, held, owed, wasted>>
       PROVE  NotifyInv'
  <2>1. \A t \in Streams : NotifyAt(t)'
    BY <1>2, <1>12 DEF NotifyAt
  <2>2. (NotifyInv <=> \A t \in Streams : NotifyAt(t))'
    BY <1>1 DEF TypeOK, NotifyInv, ReadableExact, CollectedIsSettled, NotifyAt
  <2> QED BY <2>1, <2>2
<1>13. ASSUME NEW s \in Streams, NEW recent \in BOOLEAN, NEW room \in BOOLEAN,
              SendMaxStreamData(s, recent, room)
       PROVE  NotifyInv'
  <2>1. /\ UNCHANGED <<status, readable, held, owed, wasted>>
        /\ \A t \in Streams \ {s} : recv'[t] = recv[t]
        /\ \/ recv' = recv
           \/ status[s] = "open" /\ \E w : recv'[s] = [recv[s] EXCEPT !.fc = w]
    <3>1. CASE status[s] # "open"
      BY <1>13, <3>1 DEF SendMaxStreamData, histVars
    <3>2. CASE status[s] = "open" /\ room
      BY <1>1, <1>13, <3>2 DEF SendMaxStreamData, histVars, TypeOK
    <3>3. CASE status[s] = "open" /\ ~room
      BY <1>1, <1>13, <3>3 DEF SendMaxStreamData, histVars, TypeOK
    <3> QED BY <3>1, <3>2, <3>3
  <2>2. ASSUME NEW w PROVE Ready([recv[s] EXCEPT !.fc = w]) <=> Ready(recv[s])
    <3>1. LET e == [recv[s] EXCEPT !.fc = w] IN
          /\ e.data = recv[s].data /\ e.off = recv[s].off /\ e.finbuf = recv[s].finbuf
          /\ e.fin_off = recv[s].fin_off /\ e.reset = recv[s].reset
      BY <1>3 DEF RecvBufs
    <3> QED BY <3>1 DEF Ready, ResetIsReady, DataIsReady
  <2>3. CASE recv' = recv BY <1>12, <2>1, <2>3
  <2>4. CASE status[s] = "open" /\ \E w : recv'[s] = [recv[s] EXCEPT !.fc = w]
    <3>1. Ready(recv'[s]) <=> Ready(recv[s]) BY <2>2, <2>4
    <3> QED BY <1>12, <2>1, <2>4, <3>1
  <2> QED BY <2>1, <2>3, <2>4
<1>14. CASE \/ \E recent, room \in BOOLEAN : SendMaxData(recent, room)
            \/ \E s \in Streams : SendStopSending(s)
            \/ \E f \in inflight : LoseFrame(f)
            \/ UNCHANGED vars
  <2>1. UNCHANGED <<recv, status, readable, held, owed, wasted>>
    BY <1>14 DEF SendMaxData, SendStopSending, LoseFrame, histVars, vars
  <2> QED BY <1>12, <2>1
<1>15. CASE FromPeer
  BY <1>5, <1>6, <1>7, <1>15 DEF FromPeer, RejectStreamFrame, RejectResetFrame
<1>16. CASE ByApplication
  <2>1. PICK s \in Streams : \/ ReadableNext(s)
                             \/ \E n \in 0..recv[s].len : StreamRecv(s, n)
                             \/ StreamRecvReset(s)
                             \/ StreamShutdownRead(s)
    BY <1>16 DEF ByApplication
  <2>2. CASE \E n \in 0..recv[s].len : StreamRecv(s, n)
    <3>1. PICK n \in 0..recv[s].len : StreamRecv(s, n) BY <2>2
    <3>2. recv[s].len \in Nat BY <1>3 DEF RecvBufs
    <3>3. n \in Nat BY <3>1, <3>2
    <3> QED BY <1>9, <3>1, <3>3
  <2> QED BY <1>8, <1>10, <1>11, <2>1, <2>2
<1>17. CASE OnSend
  BY <1>13, <1>14, <1>17 DEF OnSend
<1> QED BY <1>14, <1>15, <1>16, <1>17 DEF Next

LEMMA NotifyInit == Init => NotifyInv
<1> SUFFICES ASSUME Init PROVE NotifyInv OBVIOUS
<1>1. \A s \in Streams : ~Ready(recv[s]) /\ status[s] = "idle"
  BY DEF Init, RecvNew, NoReset, Ready, ResetIsReady, DataIsReady
<1> QED
  BY <1>1 DEF Init, NotifyInv, ReadableExact, CollectedIsSettled

LEMMA NotifyInvariant == Spec => []NotifyInv
<1>1. RecvInv /\ RecvInv' /\ NotifyInv /\ [Next]_vars => NotifyInv'
  BY NotifyNext
<1> QED BY <1>1, NotifyInit, RecvInvariant, PTL DEF Spec

\* stream_readable_next() misses no stream with something to read, and returns
\* no other, for any interleaving of frames, reads, resets and shutdowns.
THEOREM RecvReadableExact == Spec => []ReadableExact
<1>1. NotifyInv => ReadableExact BY DEF NotifyInv
<1> QED BY <1>1, NotifyInvariant, PTL

\* A stream is collected only when it is read to its final size and has given
\* all its credit back.
THEOREM RecvCollectedIsSettled == Spec => []CollectedIsSettled
<1>1. NotifyInv => CollectedIsSettled BY DEF NotifyInv
<1> QED BY <1>1, NotifyInvariant, PTL

-----------------------------------------------------------------------------
(* What no step withdraws: limits and final sizes.                         *)

LEMMA RecvStep ==
  ASSUME RecvInv, [Next]_vars
  PROVE  /\ fc'.max_data >= fc.max_data
         /\ \A t \in Streams :
              /\ recv'[t].fc.max_data >= recv[t].fc.max_data
              /\ recv[t].fin_off # None =>
                   recv'[t].fin_off = recv[t].fin_off /\ recv'[t].len = recv[t].len
<1> DEFINE Same(r, e) == /\ e.fc.max_data >= r.fc.max_data
                         /\ r.fin_off # None => e.fin_off = r.fin_off /\ e.len = r.len
           Goal == fc'.max_data >= fc.max_data /\ \A t \in Streams : Same(recv[t], recv'[t])
<1>1. TypeOK /\ fc.max_data \in Nat /\ fc.consumed \in Nat
  BY DEF RecvInv, TypeOK, FlowControls
<1>2. \A t \in Streams : /\ recv[t] \in RecvBufs /\ BufInv(recv[t])
                         /\ recv[t].fc.max_data \in Nat /\ Same(recv[t], recv[t])
  <2> SUFFICES ASSUME NEW t \in Streams
               PROVE  /\ recv[t] \in RecvBufs /\ BufInv(recv[t])
                      /\ recv[t].fc.max_data \in Nat /\ Same(recv[t], recv[t])
    OBVIOUS
  <2>1. recv[t] \in RecvBufs /\ BufInv(recv[t]) BY <1>1 DEF RecvInv, TypeOK
  <2>2. recv[t].fc \in FlowControls BY <2>1 DEF RecvBufs
  <2>3. recv[t].fc.max_data \in Nat BY <2>2 DEF FlowControls
  <2>4. recv[t].fc.max_data >= recv[t].fc.max_data BY <2>3
  <2> QED BY <2>1, <2>3, <2>4, Zenon
<1>3. \A n : AddConsumed(fc, n).max_data = fc.max_data
  BY <1>1 DEF AddConsumed, TypeOK, FlowControls
<1>4. ASSUME NEW s \in Streams, NEW r, recv' = [recv EXCEPT ![s] = r], Same(recv[s], r),
             fc' = fc \/ \E n : fc' = AddConsumed(fc, n)
      PROVE  Goal
  <2>1. fc'.max_data = fc.max_data BY <1>3, <1>4
  <2>2. \A t \in Streams : recv'[t] = IF t = s THEN r ELSE recv[t]
    BY <1>1, <1>4 DEF TypeOK
  <2> HIDE DEF Same
  <2>3. \A t \in Streams : Same(recv[t], recv'[t]) BY <1>2, <1>4, <2>2
  <2>4. fc'.max_data >= fc.max_data BY <1>1, <2>1
  <2> QED BY <2>3, <2>4
<1>5. ASSUME NEW s \in Streams, NEW f \in DataFrames, RecvStreamFrame(s, f) PROVE Goal
  <2>1. f \in StreamFrames /\ WriteError(recv[s], f) = "ok"
    BY <1>5, RecvAssumption DEF StreamFrames, RecvStreamFrame, StreamFrameError
  <2>2. \A r \in RecvBufs : Write(r, f).fc = r.fc BY <2>1 DEF Write, RecvBufs
  <2>3. Same(recv[s], Write(recv[s], f))
    BY <1>2, <2>1, <2>2, FinalSizeKept
  <2>4. recv' = [recv EXCEPT ![s] = Write(recv[s], f)]
        /\ (fc' = fc \/ \E n : fc' = AddConsumed(fc, n))
    BY <1>5 DEF RecvStreamFrame
  <2> HIDE DEF Same, Goal
  <2> QED BY <1>4, <2>3, <2>4
<1>6. ASSUME NEW s \in Streams, NEW q \in ResetFrames, RecvResetFrame(s, q) PROVE Goal
  <2>1. q \in ResetFrameSet /\ ResetError(recv[s], q) = "ok"
    BY <1>6, RecvAssumption DEF ResetFrameSet, RecvResetFrame, ResetFrameError
  <2>2. \A r \in RecvBufs : Reset(r, q).fc = r.fc
    BY <2>1 DEF Reset, FirstReset, LaterReset, RecvBufs
  <2>3. Same(recv[s], Reset(recv[s], q))
    BY <1>2, <2>1, <2>2, FinalSizeKept
  <2>4. recv' = [recv EXCEPT ![s] = Reset(recv[s], q)]
        /\ (fc' = fc \/ \E n : fc' = AddConsumed(fc, n))
    BY <1>6 DEF RecvResetFrame
  <2> HIDE DEF Same, Goal
  <2> QED BY <1>4, <2>3, <2>4
<1>7. ASSUME NEW s \in Streams, NEW n, StreamRecv(s, n) PROVE Goal
  <2>1. \A r \in RecvBufs : /\ Emit(r, n).fc.max_data = r.fc.max_data
                           /\ Emit(r, n).fin_off = r.fin_off /\ Emit(r, n).len = r.len
    BY DEF Emit, AddConsumed, RecvBufs, FlowControls
  <2>2. Same(recv[s], Emit(recv[s], n)) BY <1>2, <2>1
  <2>3. recv' = [recv EXCEPT ![s] = Emit(recv[s], n)] /\ fc' = AddConsumed(fc, n)
    BY <1>7 DEF StreamRecv
  <2> HIDE DEF Same, Goal
  <2> QED BY <1>4, <2>2, <2>3
<1>8. ASSUME NEW s \in Streams, StreamRecvReset(s) PROVE Goal
  <2>1. \A r \in RecvBufs : LET e == DeliverReset(r) IN
                             e.fc = r.fc /\ e.fin_off = r.fin_off /\ e.len = r.len
    BY DEF DeliverReset, RecvBufs
  <2>2. Same(recv[s], DeliverReset(recv[s])) BY <1>2, <2>1
  <2>3. recv' = [recv EXCEPT ![s] = DeliverReset(recv[s])] /\ fc' = fc
    BY <1>8 DEF StreamRecvReset, connVars
  <2> HIDE DEF Same, Goal
  <2> QED BY <1>4, <2>2, <2>3
<1>9. ASSUME NEW s \in Streams, StreamShutdownRead(s) PROVE Goal
  <2>1. \A r \in RecvBufs : LET e == Shutdown(r) IN
                             e.fc = r.fc /\ e.fin_off = r.fin_off /\ e.len = r.len
    BY DEF Shutdown, RecvBufs
  <2>2. Same(recv[s], Shutdown(recv[s])) BY <1>2, <2>1
  <2>3. recv' = [recv EXCEPT ![s] = Shutdown(recv[s])]
        /\ \E n : fc' = AddConsumed(fc, n)
    BY <1>9 DEF StreamShutdownRead
  <2> HIDE DEF Same, Goal
  <2> QED BY <1>4, <2>2, <2>3
<1>10. ASSUME NEW s \in Streams, NEW recent \in BOOLEAN, NEW room \in BOOLEAN,
              SendMaxStreamData(s, recent, room)
       PROVE  Goal
  <2>1. /\ fc'.max_data = fc.max_data
        /\ \A t \in Streams : /\ recv'[t].fc.max_data >= recv[t].fc.max_data
                              /\ recv'[t].fin_off = recv[t].fin_off
                              /\ recv'[t].len = recv[t].len
    BY <1>10, SendMaxStreamDataInv, Zenon
  <2>2. fc'.max_data >= fc.max_data BY <1>1, <2>1
  <2> QED BY <2>1, <2>2, Zenon
<1>11. ASSUME NEW recent \in BOOLEAN, NEW room \in BOOLEAN, SendMaxData(recent, room)
       PROVE  Goal
  <2>1. fc'.max_data >= fc.max_data /\ recv' = recv BY <1>11, SendMaxDataInv, Zenon
  <2> HIDE DEF Same
  <2> QED BY <1>2, <2>1, Zenon
<1>12. ASSUME UNCHANGED <<recv, fc>> PROVE Goal
  BY <1>1, <1>2, <1>12
<1> SUFFICES Goal OBVIOUS
<1> HIDE DEF Goal
<1>13. CASE FromPeer
  BY <1>5, <1>6, <1>12, <1>13
  DEF FromPeer, RejectStreamFrame, RejectResetFrame, CloseOnError, connVars
<1>14. CASE ByApplication
  BY <1>7, <1>8, <1>9, <1>12, <1>14 DEF ByApplication, ReadableNext, connVars
<1>15. CASE OnSend
  BY <1>10, <1>11, <1>12, <1>15 DEF OnSend, SendStopSending, LoseFrame, connVars
<1>16. CASE UNCHANGED vars BY <1>12, <1>16 DEF vars
<1> QED BY <1>13, <1>14, <1>15, <1>16 DEF Next

\* The final size of a stream and the data charged for it never change once
\* known, whatever STREAM and RESET frames follow.
THEOREM RecvFinalSizeFixed == Spec => FinalSizeFixed
<1>1. RecvInv /\ [Next]_vars =>
        [\A s \in Streams : recv[s].fin_off # None =>
           recv'[s].fin_off = recv[s].fin_off /\ recv'[s].len = recv[s].len]_vars
  BY RecvStep
<1> QED BY <1>1, RecvInvariant, PTL DEF Spec, FinalSizeFixed

\* No limit once advertised is withdrawn by an update, a repeat after a loss or
\* a change of the window.
THEOREM RecvLimitsNeverShrink == Spec => LimitsNeverShrink
<1>1. RecvInv /\ [Next]_vars =>
        [/\ fc'.max_data >= fc.max_data
         /\ \A s \in Streams : recv'[s].fc.max_data >= recv[s].fc.max_data]_vars
  BY RecvStep
<1> QED BY <1>1, RecvInvariant, PTL DEF Spec, LimitsNeverShrink
=============================================================================
