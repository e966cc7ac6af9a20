--------------------------- MODULE RecvBufProofs ---------------------------
(***************************************************************************)
(* What the operations of RecvBuf preserve, for every buffer and frame.    *)
(***************************************************************************)
EXTENDS RecvBuf, TLAPS

StreamFrames == [off : Nat, len : Nat, fin : BOOLEAN]

ResetFrameSet == [at : BOOLEAN, error_code : Nat, final_size : Nat,
                  reliable_size : Nat]

\* The flow controller's operations keep its type, and its window and limit
\* in order (flowcontrol.rs).
LEMMA FlowControlType ==
  ASSUME NEW w \in FlowControls, NEW n \in Nat, NEW b \in BOOLEAN
  PROVE  /\ AddConsumed(w, n) \in FlowControls
         /\ UpdateMaxData(w) \in FlowControls
         /\ AutotuneWindow(w, b) \in FlowControls
         /\ EnsureWindowLowerBound(w, n) \in FlowControls
<1>1. AddConsumed(w, n) \in FlowControls
  BY DEF FlowControls, AddConsumed
<1>2. UpdateMaxData(w) \in FlowControls
  <2>1. MaxDataNext(w) \in Nat BY DEF FlowControls, MaxDataNext
  <2> QED BY <2>1 DEF FlowControls, UpdateMaxData
<1>3. ASSUME NEW k \in Nat PROVE SetWindow(w, k) \in FlowControls
  BY DEF FlowControls, SetWindow, Lesser
<1>4. 2 * w.window \in Nat
  BY DEF FlowControls
<1>5. AutotuneWindow(w, b) \in FlowControls
  BY <1>3, <1>4 DEF AutotuneWindow
<1>6. EnsureWindowLowerBound(w, n) \in FlowControls
  BY <1>3 DEF EnsureWindowLowerBound
<1> QED
  BY <1>1, <1>2, <1>5, <1>6

\* write() keeps the buffer's type.
LEMMA WriteType ==
  ASSUME NEW r \in RecvBufs, NEW f \in StreamFrames
  PROVE  Write(r, f) \in RecvBufs
<1>1. MaxOff(f) \in Nat BY DEF MaxOff, StreamFrames
<1>2. KeepUntil(r, f) \in Nat
  BY <1>1 DEF KeepUntil, RecvBufs, Resets, Lesser
<1>3. r.off \in Nat /\ r.len \in Nat /\ f.off \in Nat
  BY DEF RecvBufs, StreamFrames
<1>4. Bytes(Greater(r.off, f.off), KeepUntil(r, f)) \in SUBSET Nat
  BY <1>2, <1>3 DEF Bytes, Greater
<1>5. FinBufAfter(r, f) \in BOOLEAN
  BY DEF FinBufAfter, RecvBufs
<1>6. Greater(r.len, KeepUntil(r, f)) \in Nat
  BY <1>2, <1>3 DEF Greater
<1>7. (IF f.fin THEN MaxOff(f) ELSE r.fin_off) \in Nat \cup {None}
  BY <1>1 DEF RecvBufs
<1> QED
  BY <1>4, <1>5, <1>6, <1>7 DEF Write, RecvBufs

\* Reading keeps the buffer's invariant, and what is read is what the stream
\* no longer holds unread (emit_or_discard()).
LEMMA EmitInv ==
  ASSUME NEW r \in RecvBufs, BufInv(r), NEW n \in Nat, CanEmit(r, n)
  PROVE  /\ Emit(r, n) \in RecvBufs
         /\ BufInv(Emit(r, n))
         /\ Unread(Emit(r, n)) = Unread(r) - n
<1> DEFINE e == Emit(r, n)
<1>1. /\ r.off \in Nat /\ r.len \in Nat /\ r.fc \in FlowControls /\ r.drain \in BOOLEAN
      /\ r.fin_off \in Nat \cup {None} /\ r.reset \in Resets /\ r.data \subseteq Nat
      /\ r.finbuf \in BOOLEAN
  BY DEF RecvBufs
<1>2. /\ e.data = r.data \ Bytes(r.off, r.off + n) /\ e.off = r.off + n
      /\ e.finbuf = (r.finbuf /\ n > 0) /\ e.fc = AddConsumed(r.fc, n)
      /\ e.len = r.len /\ e.fin_off = r.fin_off /\ e.reset = r.reset
      /\ e.drain = r.drain
  BY DEF Emit, RecvBufs
<1>3. e \in RecvBufs
  <2>1. AddConsumed(r.fc, n) \in FlowControls BY <1>1, FlowControlType
  <2>2. r.data \ Bytes(r.off, r.off + n) \in SUBSET Nat BY <1>1
  <2>3. r.off + n \in Nat BY <1>1
  <2>4. (r.finbuf /\ n > 0) \in BOOLEAN OBVIOUS
  <2> QED BY <2>1, <2>2, <2>3, <2>4 DEF Emit, RecvBufs
<1>4. ~r.drain /\ ~r.reset.delivered
  BY <1>1 DEF CanEmit, BufInv, ResetConsistent, DrainConsistent, DataIsReady, ResetIsReady, OffsetsOrdered, None
<1>5. r.off + n <= r.len
  BY <1>1 DEF CanEmit, BufInv, BufferedAhead, OffsetsOrdered, Bytes
<1>6. OffsetsOrdered(e)
  BY <1>1, <1>2, <1>5 DEF BufInv, OffsetsOrdered, AddConsumed, FlowControls
<1>7. BufferedAhead(e)
  BY <1>1, <1>2, <1>5 DEF BufInv, BufferedAhead, Bytes
<1>8. ResetConsistent(e)
  BY <1>1, <1>2, <1>4 DEF BufInv, ResetConsistent
<1>9. DrainConsistent(e)
  BY <1>1, <1>2, <1>4 DEF DrainConsistent
<1>10. WindowConsistent(e.fc)
  BY <1>1, <1>2 DEF BufInv, WindowConsistent, AddConsumed, MaxDataNext, FlowControls
<1>11. Unread(e) = Unread(r) - n
  BY <1>1, <1>2, <1>4, <1>5 DEF Unread, SatSub, BufInv, ResetConsistent, CanEmit, ResetIsReady, BufferedAhead, Bytes, Resets
<1> QED
  BY <1>3, <1>6, <1>7, <1>8, <1>9, <1>10, <1>11 DEF BufInv

\* Handing the reset to the application keeps the invariant and owes nothing
\* (deliver_reset()).
LEMMA DeliverResetInv ==
  ASSUME NEW r \in RecvBufs, BufInv(r), ResetIsReady(r)
  PROVE  /\ DeliverReset(r) \in RecvBufs
         /\ BufInv(DeliverReset(r))
         /\ Unread(r) = 0 /\ Unread(DeliverReset(r)) = 0
<1> DEFINE e == DeliverReset(r)
<1>1. /\ r.off \in Nat /\ r.len \in Nat /\ r.fc \in FlowControls /\ r.drain \in BOOLEAN
      /\ r.fin_off \in Nat \cup {None} /\ r.reset \in Resets /\ r.data \subseteq Nat
      /\ r.finbuf \in BOOLEAN
  BY DEF RecvBufs
<1>2. /\ e.data = {} /\ e.off = r.reset.final_size /\ e.finbuf = FALSE
      /\ e.fc = r.fc /\ e.len = r.len /\ e.fin_off = r.fin_off
      /\ e.drain = r.drain
      /\ e.reset = [r.reset EXCEPT !.delivered = TRUE]
  BY DEF DeliverReset, RecvBufs
<1>3. e \in RecvBufs
  <2>1. r.reset.final_size \in Nat BY <1>1 DEF Resets
  <2>2. [r.reset EXCEPT !.delivered = TRUE] \in Resets BY <1>1 DEF Resets
  <2> QED BY <2>1, <2>2, <1>1 DEF DeliverReset, RecvBufs
<1>4. r.reset.set /\ r.reset.final_size = r.len /\ ~r.reset.delivered /\ ~r.drain
  BY <1>1 DEF BufInv, ResetConsistent, OffsetsOrdered, DrainConsistent, ResetIsReady,
              Resets, None
<1>5. /\ e.reset.set /\ e.reset.delivered /\ e.reset.final_size = r.reset.final_size
      /\ e.reset.reliable_size = r.reset.reliable_size
  BY <1>1, <1>2, <1>4 DEF Resets
<1>6. OffsetsOrdered(e) /\ BufferedAhead(e)
  BY <1>1, <1>2, <1>4 DEF BufInv, OffsetsOrdered, BufferedAhead, FlowControls
<1>7. ResetConsistent(e)
  BY <1>1, <1>2, <1>4, <1>5 DEF BufInv, ResetConsistent
<1>8. DrainConsistent(e) /\ WindowConsistent(e.fc)
  BY <1>2, <1>4 DEF BufInv, DrainConsistent
<1>9. Unread(r) = 0 /\ Unread(e) = 0
  BY <1>1, <1>4, <1>5 DEF Unread, SatSub, ResetIsReady, Resets
<1> QED
  BY <1>3, <1>6, <1>7, <1>8, <1>9 DEF BufInv

\* Shutting the read side down keeps the invariant, and the credit it returns
\* is all the stream still held unread (shutdown()).
LEMMA ShutdownInv ==
  ASSUME NEW r \in RecvBufs, BufInv(r), ~r.drain
  PROVE  /\ Shutdown(r) \in RecvBufs
         /\ BufInv(Shutdown(r))
         /\ ShutdownCredit(r) = Unread(r) /\ Unread(Shutdown(r)) = 0
<1> DEFINE e == Shutdown(r)
<1>1. /\ r.off \in Nat /\ r.len \in Nat /\ r.fc \in FlowControls /\ r.drain \in BOOLEAN
      /\ r.fin_off \in Nat \cup {None} /\ r.reset \in Resets /\ r.data \subseteq Nat
      /\ r.finbuf \in BOOLEAN
  BY DEF RecvBufs
<1>2. /\ e.data = {} /\ e.off = r.len /\ e.finbuf = FALSE
      /\ e.fc = r.fc /\ e.len = r.len /\ e.fin_off = r.fin_off
      /\ e.drain = TRUE
      /\ e.reset = [r.reset EXCEPT !.delivered = r.reset.set]
  BY DEF Shutdown, RecvBufs
<1>3. e \in RecvBufs
  <2>1. [r.reset EXCEPT !.delivered = r.reset.set] \in Resets BY <1>1 DEF Resets
  <2> QED BY <2>1, <1>1 DEF Shutdown, RecvBufs
<1>4. /\ e.reset.set = r.reset.set /\ e.reset.delivered = r.reset.set
      /\ e.reset.final_size = r.reset.final_size
      /\ e.reset.reliable_size = r.reset.reliable_size
  BY <1>1, <1>2 DEF Resets
<1>5. OffsetsOrdered(e) /\ BufferedAhead(e)
  BY <1>1, <1>2 DEF BufInv, OffsetsOrdered, BufferedAhead, FlowControls
<1>6. ResetConsistent(e)
  BY <1>1, <1>2, <1>4 DEF BufInv, ResetConsistent
<1>7. DrainConsistent(e) /\ WindowConsistent(e.fc)
  BY <1>2, <1>4 DEF BufInv, DrainConsistent
<1>8. Unread(e) = 0 BY <1>2 DEF Unread
<1>9. ShutdownCredit(r) = Unread(r)
  <2>1. CASE r.reset.delivered
    BY <2>1, <1>1 DEF ShutdownCredit, Unread, SatSub, BufInv, ResetConsistent,
                      OffsetsOrdered, Resets, None
  <2>2. CASE ~r.reset.delivered
    BY <2>2 DEF ShutdownCredit, Unread
  <2> QED BY <2>1, <2>2
<1> QED
  BY <1>3, <1>5, <1>6, <1>7, <1>8, <1>9 DEF BufInv

\* What a frame adds to a stream's unread bytes, when the stream is not
\* drained: all the connection charges for it, unless write() ignores it.
Kept(r, f) == IF f.len = 0 /\ ~f.fin THEN 0 ELSE SatSub(MaxOff(f), r.len)

\* Storing an accepted frame keeps the invariant, and the stream holds unread
\* what the frame added to it (write()).
LEMMA WriteInv ==
  ASSUME NEW r \in RecvBufs, BufInv(r), NEW f \in StreamFrames,
         WriteError(r, f) = "ok"
  PROVE  /\ BufInv(Write(r, f))
         /\ Unread(Write(r, f)) = IF r.drain THEN 0 ELSE Unread(r) + Kept(r, f)
<1> DEFINE e == Write(r, f)
           end == KeepUntil(r, f)
           max == MaxOff(f)
           fin == IF f.fin THEN MaxOff(f) ELSE r.fin_off
<1>1. /\ r.off \in Nat /\ r.len \in Nat /\ r.fc \in FlowControls /\ r.drain \in BOOLEAN
      /\ r.fin_off \in Nat \cup {None} /\ r.reset \in Resets /\ r.data \subseteq Nat
      /\ r.finbuf \in BOOLEAN
      /\ r.reset.reliable_size \in Nat /\ r.reset.final_size \in Nat
      /\ r.reset.set \in BOOLEAN /\ r.reset.delivered \in BOOLEAN
      /\ r.fc.consumed \in Nat /\ r.fc.max_data \in Nat
  BY DEF RecvBufs, Resets, FlowControls
<1>2. f.off \in Nat /\ f.len \in Nat /\ f.fin \in BOOLEAN /\ max \in Nat
      /\ max = f.off + f.len
  BY DEF StreamFrames, MaxOff
<1>3. /\ max <= r.fc.max_data
      /\ r.fin_off # None => max <= r.fin_off
      /\ r.fin_off # None /\ f.fin => max = r.fin_off
      /\ f.fin => max >= r.len
  BY <1>1, <1>2 DEF WriteError, None
<1>4. r.reset.set => r.fin_off # None /\ r.len = r.fin_off /\ max <= r.len
                     /\ r.reset.reliable_size <= r.len /\ r.reset.final_size = r.len
  BY <1>1, <1>2, <1>3 DEF BufInv, ResetConsistent, OffsetsOrdered, None
<1>5. /\ r.fc.consumed <= r.off /\ r.off <= r.len /\ r.len <= r.fc.max_data
      /\ r.fin_off # None => r.fin_off = r.len
      /\ r.drain => r.off = r.len /\ r.data = {} /\ ~r.finbuf
  BY <1>1 DEF BufInv, OffsetsOrdered, DrainConsistent
<1>6. end \in Nat /\ end <= max /\ (r.reset.set => end <= r.reset.reliable_size)
      /\ (~r.reset.set => end = max)
  BY <1>1, <1>2 DEF KeepUntil, Lesser
<1>7. CASE r.fin_off # None /\ f.len = 0
  <2>1. e = r BY <1>7 DEF Write
  <2>2. Kept(r, f) = 0
    BY <1>1, <1>2, <1>3, <1>5, <1>7 DEF Kept, SatSub
  <2>3. r.drain => Unread(r) = 0 BY DEF Unread
  <2>4. Unread(r) \in Int
    BY <1>1 DEF Unread, SatSub
  <2> QED BY <2>1, <2>2, <2>3, <2>4
<1>8. CASE ~(r.fin_off # None /\ f.len = 0) /\ NothingToStore(r, f)
  <2>1. e = [r EXCEPT !.fin_off = fin] BY <1>8 DEF Write
  <2>2. /\ e.data = r.data /\ e.off = r.off /\ e.finbuf = r.finbuf
        /\ e.fc = r.fc /\ e.len = r.len /\ e.fin_off = fin
        /\ e.drain = r.drain /\ e.reset = r.reset
    BY <2>1 DEF RecvBufs
  <2>3. f.fin => max = r.len
    <3>1. CASE r.fin_off # None BY <3>1, <1>3, <1>5
    <3>2. CASE r.fin_off = None
      BY <3>2, <1>8, <1>1, <1>2, <1>3, <1>4, <1>5, <1>6 DEF NothingToStore
    <3> QED BY <3>1, <3>2
  <2>4. OffsetsOrdered(e)
    BY <1>1, <1>2, <1>5, <2>2, <2>3 DEF OffsetsOrdered
  <2>5. r.fin_off # None => fin = r.fin_off
    BY <1>3
  <2>6. BufferedAhead(e)
    BY <1>1, <1>2, <2>2, <2>5 DEF BufInv, BufferedAhead, None
  <2>7. ResetConsistent(e) /\ DrainConsistent(e) /\ WindowConsistent(e.fc)
    BY <2>2, <2>5, <1>4 DEF BufInv, ResetConsistent, DrainConsistent
  <2>8. Unread(e) = Unread(r) BY <2>2 DEF Unread
  <2>9. Kept(r, f) = 0
    BY <1>8, <1>1, <1>2, <1>4, <1>5, <1>6 DEF Kept, SatSub, NothingToStore
  <2>10. r.drain => Unread(r) = 0 BY DEF Unread
  <2>11. Unread(r) \in Int
    BY <1>1 DEF Unread, SatSub
  <2> QED BY <2>4, <2>6, <2>7, <2>8, <2>9, <2>10, <2>11 DEF BufInv
<1>9. CASE ~(r.fin_off # None /\ f.len = 0) /\ ~NothingToStore(r, f) /\ r.drain
  <2>1. e = [r EXCEPT !.fin_off = fin, !.len = Greater(r.len, end),
                      !.off = Greater(r.len, end)]
    BY <1>9 DEF Write
  <2>2. /\ e.data = r.data /\ e.off = Greater(r.len, end) /\ e.finbuf = r.finbuf
        /\ e.fc = r.fc /\ e.len = Greater(r.len, end) /\ e.fin_off = fin
        /\ e.drain = r.drain /\ e.reset = r.reset
    BY <2>1 DEF RecvBufs
  <2>3. ~r.reset.set
    BY <1>9 DEF NothingToStore
  <2>4. end = max BY <2>3, <1>6
  <2>5. OffsetsOrdered(e)
    BY <1>1, <1>2, <1>3, <1>5, <2>2, <2>4 DEF OffsetsOrdered, Greater
  <2>6. BufferedAhead(e) /\ ResetConsistent(e) /\ DrainConsistent(e)
        /\ WindowConsistent(e.fc)
    BY <1>5, <1>9, <2>2, <2>3 DEF BufInv, BufferedAhead, ResetConsistent,
                                  DrainConsistent
  <2>7. Unread(e) = 0 BY <1>9, <2>2 DEF Unread
  <2> QED BY <1>9, <2>5, <2>6, <2>7 DEF BufInv
<1>10. CASE ~(r.fin_off # None /\ f.len = 0) /\ ~NothingToStore(r, f) /\ ~r.drain
  <2> DEFINE new == Bytes(Greater(r.off, f.off), end)
  <2>1. e = [r EXCEPT !.fin_off = fin, !.len = Greater(r.len, end),
                      !.data = r.data \cup new, !.finbuf = FinBufAfter(r, f)]
    BY <1>10 DEF Write
  <2>2. /\ e.data = r.data \cup new /\ e.off = r.off /\ e.finbuf = FinBufAfter(r, f)
        /\ e.fc = r.fc /\ e.len = Greater(r.len, end) /\ e.fin_off = fin
        /\ e.drain = r.drain /\ e.reset = r.reset
    BY <2>1 DEF RecvBufs
  <2>3. ~r.reset.delivered /\ (r.reset.set => e.len = r.len)
    BY <1>1, <1>2, <1>4, <1>6, <1>10, <2>2 DEF NothingToStore, BufInv, ResetConsistent,
        Greater
  <2>4. OffsetsOrdered(e)
    BY <1>1, <1>2, <1>3, <1>4, <1>5, <1>6, <2>2, <2>3 DEF OffsetsOrdered, Greater
  <2>5. e.data \subseteq Bytes(e.off, e.len)
    BY <1>1, <1>2, <1>5, <1>6, <2>2 DEF BufInv, BufferedAhead, Bytes, Greater
  <2>6. e.finbuf => e.fin_off # None /\ (e.fin_off - 1) \notin e.data
    <3> HAVE e.finbuf
    <3>1. CASE f.len = 0
      <4>1. f.fin /\ r.fin_off = None /\ ~r.reset.set /\ end = max /\ fin = max
        BY <3>1, <1>10, <1>4, <1>6 DEF NothingToStore
      <4>2. max - 1 \notin r.data
        BY <3>1, <2>2 DEF FinBufAfter
      <4>3. max - 1 \notin new
        BY <3>1, <4>1, <1>1, <1>2 DEF Bytes, Greater
      <4> QED BY <4>1, <4>2, <4>3, <2>2, <1>2 DEF None
    <3>2. CASE f.len # 0
      <4>1. r.finbuf /\ end # r.fin_off
        BY <3>2, <2>2 DEF FinBufAfter
      <4>2. r.fin_off # None /\ (r.fin_off - 1) \notin r.data /\ fin = r.fin_off
        BY <4>1, <1>3 DEF BufInv, BufferedAhead
      <4>3. (r.fin_off - 1) \notin new
        BY <4>1, <4>2, <1>1, <1>2, <1>3, <1>6 DEF Bytes, Greater
      <4> QED BY <4>2, <4>3, <2>2
    <3> QED BY <3>1, <3>2
  <2>7. ResetConsistent(e)
    <3>1. r.reset.set => new \subseteq Bytes(0, r.reset.reliable_size)
      BY <1>1, <1>2, <1>6 DEF Bytes, Greater
    <3>2. r.reset.set => ~e.finbuf /\ fin = r.fin_off
      BY <1>3, <1>4, <1>10, <2>2 DEF FinBufAfter, BufInv, ResetConsistent
    <3> QED BY <3>1, <3>2, <2>2, <2>3 DEF BufInv, ResetConsistent
  <2>8. DrainConsistent(e) /\ WindowConsistent(e.fc)
    BY <1>10, <2>2 DEF BufInv, DrainConsistent
  <2>9. Unread(e) = Unread(r) + Kept(r, f)
    <3>1. CASE r.reset.set
      <4>1. Kept(r, f) = 0 BY <3>1, <1>1, <1>2, <1>4 DEF Kept, SatSub
      <4>2. Unread(e) = Unread(r) BY <3>1, <2>2 DEF Unread
      <4>3. Unread(r) \in Int BY <1>1 DEF Unread, SatSub
      <4> QED BY <4>1, <4>2, <4>3
    <3>2. CASE ~r.reset.set
      <4>1. Unread(e) = e.len - r.off /\ Unread(r) = r.len - r.off
        BY <3>2, <1>10, <2>2, <2>3 DEF Unread
      <4>2. e.len = r.len + Kept(r, f)
        BY <3>2, <1>1, <1>2, <1>6, <1>10, <2>2 DEF Kept, SatSub, Greater, NothingToStore
      <4>3. Kept(r, f) \in Nat
        BY <1>1, <1>2 DEF Kept, SatSub
      <4> QED BY <4>1, <4>2, <4>3, <1>1
    <3> QED BY <3>1, <3>2
  <2> QED BY <1>10, <2>4, <2>5, <2>6, <2>7, <2>8, <2>9 DEF BufInv, BufferedAhead
<1> QED
  BY <1>7, <1>8, <1>9, <1>10, <1>1

\* An accepted reset keeps the buffer's type and invariant; the credit it
\* returns is what the connection charges for it and the stream will not hold
\* unread any more (reset_inner()).
LEMMA ResetInv ==
  ASSUME NEW r \in RecvBufs, BufInv(r), NEW q \in ResetFrameSet,
         ResetError(r, q) = "ok"
  PROVE  /\ Reset(r, q) \in RecvBufs
         /\ BufInv(Reset(r, q))
         /\ ResetCredit(r, q) \in Nat
         /\ Unread(Reset(r, q)) =
              Unread(r) + SatSub(q.final_size, r.len) - ResetCredit(r, q)
<1>1. /\ r.off \in Nat /\ r.len \in Nat /\ r.fc \in FlowControls /\ r.drain \in BOOLEAN
      /\ r.fin_off \in Nat \cup {None} /\ r.reset \in Resets /\ r.data \subseteq Nat
      /\ r.finbuf \in BOOLEAN
      /\ r.reset.reliable_size \in Nat /\ r.reset.final_size \in Nat
      /\ r.reset.set \in BOOLEAN /\ r.reset.delivered \in BOOLEAN
      /\ r.fc.consumed \in Nat /\ r.fc.max_data \in Nat
  BY DEF RecvBufs, Resets, FlowControls
<1>2. /\ q.final_size \in Nat /\ q.reliable_size \in Nat /\ q.at \in BOOLEAN
      /\ q.error_code \in Nat
  BY DEF ResetFrameSet
<1>3. /\ q.reliable_size <= q.final_size /\ q.final_size <= r.fc.max_data
      /\ r.fin_off # None => r.fin_off = q.final_size
      /\ q.final_size >= r.len
  BY <1>1, <1>2 DEF ResetError
<1>4. /\ r.fc.consumed <= r.off /\ r.off <= r.len /\ r.len <= r.fc.max_data
      /\ r.fin_off # None => r.fin_off = r.len
      /\ r.drain => r.off = r.len /\ r.data = {} /\ ~r.finbuf
                    /\ (r.reset.set => r.reset.delivered)
      /\ r.reset.set => r.fin_off = r.reset.final_size
      /\ r.reset.set => r.reset.reliable_size <= r.reset.final_size
      /\ r.reset.delivered => r.reset.set /\ r.off = r.len /\ r.data = {}
      /\ r.data \subseteq Bytes(r.off, r.len)
  BY <1>1 DEF BufInv, OffsetsOrdered, DrainConsistent, ResetConsistent, BufferedAhead
<1>5. DiscardAfter(r, q.reliable_size) \subseteq Bytes(0, q.reliable_size)
      /\ DiscardAfter(r, q.reliable_size) \subseteq r.data
  BY DEF DiscardAfter
<1>6. CASE ~r.reset.set
  <2> DEFINE e == FirstReset(r, q)
  <2>1. Reset(r, q) = e /\ ResetCredit(r, q) = FirstResetCredit(r, q)
    BY <1>6 DEF Reset, ResetCredit
  <2>2. /\ e.fin_off = q.final_size /\ e.len = q.final_size
        /\ e.data = DiscardAfter(r, q.reliable_size) /\ e.finbuf = FALSE
        /\ e.off = (IF r.drain THEN q.final_size ELSE r.off)
        /\ e.fc = r.fc /\ e.drain = r.drain
        /\ e.reset = [set |-> TRUE, error_code |-> q.error_code,
                      final_size |-> q.final_size, reliable_size |-> q.reliable_size,
                      reliable_semantics |-> q.at, delivered |-> r.drain]
    BY DEF FirstReset, RecvBufs
  <2>3. e \in RecvBufs
    <3>1. [set |-> TRUE, error_code |-> q.error_code,
           final_size |-> q.final_size, reliable_size |-> q.reliable_size,
           reliable_semantics |-> q.at, delivered |-> r.drain] \in Resets
      BY <1>1, <1>2 DEF Resets
    <3>2. DiscardAfter(r, q.reliable_size) \in SUBSET Nat BY <1>1, <1>5
    <3>3. (IF r.drain THEN q.final_size ELSE r.off) \in Nat BY <1>1, <1>2
    <3> QED BY <3>1, <3>2, <3>3, <1>1, <1>2 DEF FirstReset, RecvBufs
  <2>4. OffsetsOrdered(e)
    BY <1>1, <1>2, <1>3, <1>4, <2>2 DEF OffsetsOrdered
  <2>5. BufferedAhead(e)
    BY <1>1, <1>2, <1>3, <1>4, <1>5, <2>2 DEF BufferedAhead, Bytes
  <2>6. ResetConsistent(e)
    BY <1>1, <1>2, <1>3, <1>4, <1>5, <2>2 DEF ResetConsistent
  <2>7. DrainConsistent(e) /\ WindowConsistent(e.fc)
    BY <1>4, <1>5, <2>2 DEF BufInv, DrainConsistent
  <2>8. FirstResetCredit(r, q) \in Nat
    BY <1>1, <1>2 DEF FirstResetCredit, SatSub, Greater
  <2>9. Unread(e) = Unread(r) + SatSub(q.final_size, r.len) - FirstResetCredit(r, q)
    BY <1>1, <1>2, <1>3, <1>4, <1>6, <2>2 DEF Unread, FirstResetCredit, SatSub, Greater
  <2> QED BY <2>1, <2>3, <2>4, <2>5, <2>6, <2>7, <2>8, <2>9 DEF BufInv
<1>7. CASE r.reset.set
  <2> DEFINE e == LaterReset(r, q)
             lower == (q.at \/ r.reset.reliable_semantics)
                        /\ q.reliable_size < r.reset.reliable_size
  <2>1. Reset(r, q) = e /\ ResetCredit(r, q) = LaterResetCredit(r, q)
    BY <1>7 DEF Reset, ResetCredit
  <2>2. q.final_size = r.len /\ r.reset.final_size = r.len /\ r.fin_off # None
    BY <1>1, <1>2, <1>3, <1>4, <1>7 DEF None
  <2>3. SatSub(q.final_size, r.len) = 0 BY <1>1, <2>2 DEF SatSub
  <2>4. CASE ~lower
    <3>1. e = r \/ e = [r EXCEPT !.reset.reliable_semantics = TRUE]
      BY <2>4, <1>1, <1>2 DEF LaterReset
    <3>2. e \in RecvBufs
      <4>1. [r.reset EXCEPT !.reliable_semantics = TRUE] \in Resets BY <1>1 DEF Resets
      <4> QED BY <3>1, <4>1 DEF RecvBufs
    <3>3. /\ e.data = r.data /\ e.off = r.off /\ e.finbuf = r.finbuf
          /\ e.fc = r.fc /\ e.len = r.len /\ e.fin_off = r.fin_off
          /\ e.drain = r.drain /\ e.reset.set = r.reset.set
          /\ e.reset.final_size = r.reset.final_size
          /\ e.reset.reliable_size = r.reset.reliable_size
          /\ e.reset.delivered = r.reset.delivered
      BY <3>1, <1>1 DEF RecvBufs, Resets
    <3>4. BufInv(e)
      BY <3>3 DEF BufInv, OffsetsOrdered, BufferedAhead, ResetConsistent, DrainConsistent
    <3>5. LaterResetCredit(r, q) = 0
      BY <2>4, <1>1, <1>2 DEF LaterResetCredit
    <3>6. Unread(e) = Unread(r) /\ Unread(r) \in Int
      BY <3>3, <1>1 DEF Unread, SatSub
    <3> QED BY <2>1, <2>3, <3>2, <3>4, <3>5, <3>6
  <2>5. CASE lower
    <3>1. e = [r EXCEPT !.reset.reliable_semantics = TRUE,
                        !.reset.reliable_size = q.reliable_size,
                        !.data = DiscardAfter(r, q.reliable_size), !.finbuf = FALSE]
      BY <2>5, <1>1, <1>2 DEF LaterReset
    <3>2. /\ e.data = DiscardAfter(r, q.reliable_size) /\ e.off = r.off
          /\ e.finbuf = FALSE
          /\ e.fc = r.fc /\ e.len = r.len /\ e.fin_off = r.fin_off
          /\ e.drain = r.drain
          /\ e.reset = [[r.reset EXCEPT !.reliable_semantics = TRUE]
                           EXCEPT !.reliable_size = q.reliable_size]
      BY <3>1 DEF RecvBufs
    <3>3. /\ e.reset.set = r.reset.set
          /\ e.reset.final_size = r.reset.final_size
          /\ e.reset.reliable_size = q.reliable_size
          /\ e.reset.delivered = r.reset.delivered
          /\ e.reset \in Resets
      BY <3>2, <1>1, <1>2 DEF Resets
    <3>4. e \in RecvBufs
      <4>1. DiscardAfter(r, q.reliable_size) \in SUBSET Nat BY <1>1, <1>5
      <4> QED BY <3>1, <3>2, <3>3, <4>1 DEF RecvBufs
    <3>5. OffsetsOrdered(e) BY <3>2 DEF BufInv, OffsetsOrdered
    <3>6. BufferedAhead(e) BY <1>4, <1>5, <3>2 DEF BufferedAhead
    <3>7. ResetConsistent(e)
      BY <1>2, <1>3, <1>4, <1>5, <2>2, <3>2, <3>3 DEF ResetConsistent
    <3>8. DrainConsistent(e) /\ WindowConsistent(e.fc)
      BY <1>4, <1>5, <3>2, <3>3 DEF BufInv, DrainConsistent
    <3>9. LaterResetCredit(r, q) \in Nat
      BY <1>1, <1>2 DEF LaterResetCredit, SatSub, Greater
    <3>10. Unread(e) = Unread(r) - LaterResetCredit(r, q)
      BY <1>1, <1>2, <1>7, <2>5, <3>2, <3>3
      DEF Unread, LaterResetCredit, SatSub, Greater
    <3>11. Unread(r) \in Int BY <1>1 DEF Unread, SatSub
    <3> QED
      BY <2>1, <2>3, <3>4, <3>5, <3>6, <3>7, <3>8, <3>9, <3>10, <3>11 DEF BufInv
  <2> QED BY <2>4, <2>5
<1> QED
  BY <1>6, <1>7, <1>1

\* Reading returns bytes that were accepted, and drops no other byte.
LEMMA EmitBytes ==
  ASSUME NEW r \in RecvBufs, BufInv(r), NEW n \in Nat, CanEmit(r, n),
         NEW g \in SUBSET Nat, BytesKept(r, g)
  PROVE  BytesKept(Emit(r, n), g)
<1> DEFINE e == Emit(r, n)
<1>1. r.off \in Nat /\ r.data \subseteq Nat
  BY DEF RecvBufs
<1>2. /\ e.data = r.data \ Bytes(r.off, r.off + n) /\ e.off = r.off + n
      /\ e.reset = r.reset /\ e.drain = r.drain
  BY DEF Emit, RecvBufs
<1>3. SUFFICES ASSUME ~r.drain, ~r.reset.delivered
               PROVE  Wanted(e, g) = e.data /\ Bytes(0, e.off) \subseteq g
  BY <1>2 DEF BytesKept
<1>4. Wanted(r, g) = r.data /\ Bytes(0, r.off) \subseteq g
  BY <1>3 DEF BytesKept
<1>5. Bytes(r.off, r.off + n) \subseteq r.data BY DEF CanEmit
<1>6. Wanted(e, g) = Wanted(r, g) \ Bytes(r.off, r.off + n)
  BY <1>1, <1>2 DEF Wanted, Bytes
<1>7. r.data \subseteq g BY <1>4 DEF Wanted
<1>8. Bytes(0, r.off + n) \subseteq Bytes(0, r.off) \cup Bytes(r.off, r.off + n)
  BY <1>1 DEF Bytes
<1> QED BY <1>2, <1>4, <1>5, <1>6, <1>7, <1>8

\* Storing a frame keeps its bytes that the application has not read and a
\* reset has not given up, and drops no byte stored before.
LEMMA WriteBytes ==
  ASSUME NEW r \in RecvBufs, BufInv(r), NEW f \in StreamFrames,
         NEW g \in SUBSET Nat, BytesKept(r, g)
  PROVE  BytesKept(Write(r, f), g \cup Bytes(f.off, MaxOff(f)))
<1> DEFINE e == Write(r, f)
           end == KeepUntil(r, f)
           new == Bytes(f.off, MaxOff(f))
<1>1. /\ r.off \in Nat /\ r.data \subseteq Nat /\ r.drain \in BOOLEAN
      /\ r.reset.reliable_size \in Nat /\ r.reset.set \in BOOLEAN
      /\ r.reset.delivered \in BOOLEAN
  BY DEF RecvBufs, Resets
<1>2. f.off \in Nat /\ f.len \in Nat /\ MaxOff(f) = f.off + f.len
  BY DEF StreamFrames, MaxOff
<1>3. e.drain = r.drain /\ e.reset = r.reset
  BY DEF Write, RecvBufs
<1>4. SUFFICES ASSUME ~r.drain, ~r.reset.delivered
               PROVE  /\ Wanted(e, g \cup new) = e.data
                      /\ Bytes(0, e.off) \subseteq g \cup new
  BY <1>3 DEF BytesKept
<1>5. Wanted(r, g) = r.data /\ Bytes(0, r.off) \subseteq g
  BY <1>4 DEF BytesKept
<1>6. e.off = r.off
  BY <1>4 DEF Write, RecvBufs
<1>7. Wanted(e, g \cup new) = r.data \cup Wanted(r, new)
  BY <1>3, <1>5, <1>6 DEF Wanted
<1>8. CASE f.len = 0
  <2>1. new = {} BY <1>2, <1>8 DEF Bytes
  <2>2. Wanted(r, new) = {} BY <2>1 DEF Wanted
  <2>3. e.data = r.data
    <3>1. Bytes(Greater(r.off, f.off), end) = {}
      BY <1>1, <1>2, <1>8 DEF Bytes, Greater, KeepUntil, Lesser
    <3> QED BY <3>1 DEF Write, RecvBufs
  <2> QED BY <1>5, <1>6, <1>7, <2>2, <2>3
<1>9. CASE f.len # 0 /\ NothingToStore(r, f)
  <2>1. e.data = r.data BY <1>9 DEF Write, RecvBufs
  <2>2. Wanted(r, new) = {}
    BY <1>1, <1>2, <1>4, <1>9 DEF Wanted, Bytes, NothingToStore, KeepUntil, Lesser
  <2> QED BY <1>5, <1>6, <1>7, <2>1, <2>2
<1>10. CASE f.len # 0 /\ ~NothingToStore(r, f)
  <2>1. e.data = r.data \cup Bytes(Greater(r.off, f.off), end)
    BY <1>4, <1>10 DEF Write, RecvBufs
  <2>2. Wanted(r, new) = Bytes(Greater(r.off, f.off), end)
    BY <1>1, <1>2 DEF Wanted, Bytes, Greater, KeepUntil, Lesser
  <2> QED BY <1>5, <1>6, <1>7, <2>1, <2>2
<1> QED BY <1>8, <1>9, <1>10

\* The bytes of a range that starts at 0 are the offsets below its end.
LEMMA BelowIsIn ==
  ASSUME NEW b \in Nat, NEW n \in Nat
  PROVE  b < n <=> b \in Bytes(0, n)
BY DEF Bytes

\* A reset gives up the bytes at or above its Reliable Size and no other.
LEMMA ResetBytes ==
  ASSUME NEW r \in RecvBufs, BufInv(r), NEW q \in ResetFrameSet,
         NEW g \in SUBSET Nat, BytesKept(r, g)
  PROVE  BytesKept(Reset(r, q), g)
<1> DEFINE e == Reset(r, q)
<1>1. /\ r.off \in Nat /\ r.data \subseteq Nat /\ r.drain \in BOOLEAN
      /\ r.reset \in Resets
      /\ r.reset.reliable_size \in Nat /\ r.reset.set \in BOOLEAN
      /\ q.reliable_size \in Nat
  BY DEF RecvBufs, Resets, ResetFrameSet
<1>2. CASE ~r.reset.set
  <2>1. /\ e.data = r.data \cap Bytes(0, q.reliable_size) /\ e.drain = r.drain
        /\ e.off = (IF r.drain THEN q.final_size ELSE r.off)
        /\ e.reset.set /\ e.reset.reliable_size = q.reliable_size
        /\ e.reset.delivered = r.drain
    BY <1>2 DEF Reset, FirstReset, DiscardAfter, RecvBufs
  <2>2. SUFFICES ASSUME ~r.drain
                 PROVE  Wanted(e, g) = e.data /\ Bytes(0, e.off) \subseteq g
    BY <2>1 DEF BytesKept
  <2>3. ~r.reset.delivered BY <1>2 DEF BufInv, ResetConsistent
  <2>4. Wanted(r, g) = r.data /\ Bytes(0, r.off) \subseteq g
    BY <2>2, <2>3 DEF BytesKept
  <2>5. Wanted(e, g) = Wanted(r, g) \cap Bytes(0, q.reliable_size)
    <3>1. Wanted(e, g) = {b \in g : b >= r.off /\ b < q.reliable_size}
      BY <2>1, <2>2 DEF Wanted
    <3>2. Wanted(r, g) = {b \in g : b >= r.off} BY <1>2 DEF Wanted
    <3>3. ASSUME NEW b \in g
          PROVE  b < q.reliable_size <=> b \in Bytes(0, q.reliable_size)
      <4>1. b \in Nat OBVIOUS
      <4> QED BY <1>1, <4>1, BelowIsIn
    <3> QED BY <3>1, <3>2, <3>3
  <2> QED BY <2>1, <2>2, <2>4, <2>5
<1>3. CASE r.reset.set
  <2>1. \/ e = r
        \/ e = [r EXCEPT !.reset.reliable_semantics = TRUE]
        \/ /\ q.reliable_size < r.reset.reliable_size
           /\ e = [r EXCEPT !.reset.reliable_semantics = TRUE,
                            !.reset.reliable_size = q.reliable_size,
                            !.data = DiscardAfter(r, q.reliable_size),
                            !.finbuf = FALSE]
    BY <1>1, <1>3 DEF Reset, LaterReset
  <2>2. \/ /\ e.data = r.data /\ e.off = r.off /\ e.drain = r.drain
           /\ e.reset.set = r.reset.set /\ e.reset.delivered = r.reset.delivered
           /\ e.reset.reliable_size = r.reset.reliable_size
        \/ /\ e.data = r.data \cap Bytes(0, q.reliable_size)
           /\ e.off = r.off /\ e.drain = r.drain
           /\ e.reset.set = r.reset.set /\ e.reset.delivered = r.reset.delivered
           /\ e.reset.reliable_size = q.reliable_size
           /\ q.reliable_size < r.reset.reliable_size
    <3>1. CASE e = r BY <3>1
    <3>2. CASE e = [r EXCEPT !.reset.reliable_semantics = TRUE]
      BY <1>1, <3>2 DEF RecvBufs, Resets
    <3>3. CASE /\ q.reliable_size < r.reset.reliable_size
               /\ e = [r EXCEPT !.reset.reliable_semantics = TRUE,
                                !.reset.reliable_size = q.reliable_size,
                                !.data = DiscardAfter(r, q.reliable_size),
                                !.finbuf = FALSE]
      <4>1. /\ e.data = DiscardAfter(r, q.reliable_size)
            /\ e.off = r.off /\ e.drain = r.drain
            /\ e.reset = [[r.reset EXCEPT !.reliable_semantics = TRUE]
                             EXCEPT !.reliable_size = q.reliable_size]
        BY <3>3 DEF RecvBufs
      <4>2. /\ e.reset.set = r.reset.set /\ e.reset.delivered = r.reset.delivered
            /\ e.reset.reliable_size = q.reliable_size
        BY <1>1, <4>1 DEF Resets
      <4> QED BY <3>3, <4>1, <4>2 DEF DiscardAfter
    <3> QED BY <2>1, <3>1, <3>2, <3>3
  <2>3. SUFFICES ASSUME ~r.drain, ~r.reset.delivered
                 PROVE  Wanted(e, g) = e.data /\ Bytes(0, e.off) \subseteq g
    BY <2>2 DEF BytesKept
  <2>4. Wanted(r, g) = r.data /\ Bytes(0, r.off) \subseteq g
    BY <2>3 DEF BytesKept
  <2>5. CASE e.data = r.data /\ e.off = r.off /\ e.reset.set = r.reset.set
             /\ e.reset.reliable_size = r.reset.reliable_size
    BY <2>4, <2>5 DEF Wanted
  <2>6. CASE /\ e.data = r.data \cap Bytes(0, q.reliable_size) /\ e.off = r.off
             /\ e.reset.set = r.reset.set /\ e.reset.reliable_size = q.reliable_size
             /\ q.reliable_size < r.reset.reliable_size
    <3>1. Wanted(e, g) = Wanted(r, g) \cap Bytes(0, q.reliable_size)
      <4>1. Wanted(e, g) = {b \in g : b >= r.off /\ b < q.reliable_size}
        BY <1>3, <2>6 DEF Wanted
      <4>2. Wanted(r, g) = {b \in g : b >= r.off /\ b < r.reset.reliable_size}
        BY <1>3 DEF Wanted
      <4>3. ASSUME NEW b \in g
            PROVE  b < q.reliable_size
                     <=> b < r.reset.reliable_size /\ b \in Bytes(0, q.reliable_size)
        <5>1. b \in Nat OBVIOUS
        <5>2. b < q.reliable_size <=> b \in Bytes(0, q.reliable_size)
          BY <1>1, <5>1, BelowIsIn
        <5>3. b < q.reliable_size => b < r.reset.reliable_size
          BY <1>1, <2>6, <5>1
        <5> QED BY <5>2, <5>3
      <4> QED BY <4>1, <4>2, <4>3
    <3> QED BY <2>4, <2>6, <3>1
  <2> QED BY <2>2, <2>5, <2>6
<1> QED BY <1>2, <1>3, <1>1

\* What a stream holds unread is a number.
LEMMA UnreadIsInt ==
  ASSUME NEW r \in RecvBufs
  PROVE  Unread(r) \in Int
<1>1. r.off \in Nat /\ r.len \in Nat /\ r.reset \in Resets BY DEF RecvBufs
<1>2. r.reset.reliable_size \in Nat BY <1>1 DEF Resets
<1> QED BY <1>1, <1>2 DEF Unread, SatSub

\* Only reading consumes a stream's own credit.
LEMMA SameFlowControl ==
  ASSUME NEW r \in RecvBufs, NEW f \in StreamFrames, NEW q \in ResetFrameSet
  PROVE  /\ Write(r, f).fc = r.fc
         /\ Reset(r, q).fc = r.fc
         /\ DeliverReset(r).fc = r.fc
         /\ Shutdown(r).fc = r.fc
<1>1. Write(r, f).fc = r.fc BY DEF Write, RecvBufs
<1>2. Reset(r, q).fc = r.fc
  BY DEF Reset, FirstReset, LaterReset, RecvBufs
<1>3. DeliverReset(r).fc = r.fc BY DEF DeliverReset, RecvBufs
<1>4. Shutdown(r).fc = r.fc BY DEF Shutdown, RecvBufs
<1> QED BY <1>1, <1>2, <1>3, <1>4

\* Consuming bytes or widening the window keeps the limits consistent, and an
\* update that was due stays due.
LEMMA FlowControlInv ==
  ASSUME NEW w \in FlowControls, WindowConsistent(w), NEW n \in Nat,
         NEW b \in BOOLEAN
  PROVE  \A v \in {AddConsumed(w, n), AutotuneWindow(w, b),
                   EnsureWindowLowerBound(w, n)} :
           /\ WindowConsistent(v)
           /\ v.max_data = w.max_data /\ v.updated = w.updated
           /\ w.consumed <= v.consumed /\ w.window <= v.window
           /\ w.max_data <= MaxDataNext(w) => w.max_data <= MaxDataNext(v)
<1>1. ASSUME NEW k \in Nat, k >= w.window
      PROVE  LET v == SetWindow(w, k) IN
             /\ WindowConsistent(v)
             /\ v.max_data = w.max_data /\ v.updated = w.updated
             /\ w.consumed <= v.consumed /\ w.window <= v.window
             /\ w.max_data <= MaxDataNext(w) => w.max_data <= MaxDataNext(v)
  BY <1>1 DEF SetWindow, Lesser, WindowConsistent, MaxDataNext, FlowControls
<1>2. LET v == AddConsumed(w, n) IN
             /\ WindowConsistent(v)
             /\ v.max_data = w.max_data /\ v.updated = w.updated
             /\ w.consumed <= v.consumed /\ w.window <= v.window
             /\ w.max_data <= MaxDataNext(w) => w.max_data <= MaxDataNext(v)
  BY DEF AddConsumed, WindowConsistent, MaxDataNext, FlowControls
<1>3. w.window \in Nat /\ 2 * w.window \in Nat /\ 2 * w.window >= w.window
  BY DEF FlowControls
<1>4. w.consumed <= w.consumed /\ w.window <= w.window
  BY DEF FlowControls
<1>5. AutotuneWindow(w, b) \in {w, SetWindow(w, 2 * w.window)}
  BY DEF AutotuneWindow
<1>6. \/ EnsureWindowLowerBound(w, n) = w
      \/ n >= w.window /\ EnsureWindowLowerBound(w, n) = SetWindow(w, n)
  BY <1>3 DEF EnsureWindowLowerBound
<1> QED BY <1>1, <1>2, <1>3, <1>4, <1>5, <1>6

\* Committing an update that is due raises the limit (update_max_data()).
LEMMA UpdateMaxDataInv ==
  ASSUME NEW w \in FlowControls, WindowConsistent(w), w.max_data <= MaxDataNext(w)
  PROVE  LET v == UpdateMaxData(w) IN
         /\ WindowConsistent(v) /\ v.max_data <= MaxDataNext(v)
         /\ v.max_data >= w.max_data /\ v.consumed = w.consumed /\ v.updated
<1>1. /\ w.consumed \in Nat /\ w.window \in Nat /\ w.max_data \in Nat
      /\ w.max_window \in Nat /\ MaxDataNext(w) = w.consumed + w.window
  BY DEF FlowControls, MaxDataNext
<1>2. LET v == UpdateMaxData(w) IN
      /\ v.max_data = MaxDataNext(w) /\ v.consumed = w.consumed /\ v.updated = TRUE
      /\ v.window = w.window /\ v.max_window = w.max_window
  BY DEF UpdateMaxData, FlowControls
<1> QED BY <1>1, <1>2 DEF WindowConsistent, MaxDataNext

\* A flow controller may replace a stream's when it has the same consumed
\* bytes and no lower limit.
LEMMA ReplaceFlowControl ==
  ASSUME NEW r \in RecvBufs, BufInv(r), NEW w \in FlowControls, WindowConsistent(w),
         w.consumed = r.fc.consumed, w.max_data >= r.fc.max_data
  PROVE  LET e == [r EXCEPT !.fc = w] IN
         /\ e \in RecvBufs /\ BufInv(e) /\ e.fc = w /\ Unread(e) = Unread(r)
         /\ e.fin_off = r.fin_off /\ e.len = r.len /\ (Ready(e) <=> Ready(r))
         /\ \A g : BytesKept(e, g) <=> BytesKept(r, g)
<1> DEFINE e == [r EXCEPT !.fc = w]
<1>1. e \in RecvBufs BY DEF RecvBufs
<1>2. /\ e.data = r.data /\ e.off = r.off /\ e.finbuf = r.finbuf
      /\ e.fc = w /\ e.len = r.len /\ e.fin_off = r.fin_off
      /\ e.drain = r.drain /\ e.reset = r.reset
  BY DEF RecvBufs
<1>3. OffsetsOrdered(e)
  BY <1>2 DEF BufInv, OffsetsOrdered, RecvBufs, FlowControls
<1>4. BufInv(e)
  BY <1>2, <1>3 DEF BufInv, BufferedAhead, ResetConsistent, DrainConsistent
<1>5. Unread(e) = Unread(r) BY <1>2 DEF Unread
<1>6. Ready(e) <=> Ready(r)
  BY <1>2 DEF Ready, ResetIsReady, DataIsReady
<1>7. \A g : Wanted(e, g) = Wanted(r, g) BY <1>2 DEF Wanted
<1>8. \A g : BytesKept(e, g) <=> BytesKept(r, g)
  BY <1>2, <1>7 DEF BytesKept
<1> HIDE DEF e
<1>9. /\ e \in RecvBufs /\ BufInv(e) /\ e.fc = w /\ Unread(e) = Unread(r)
      /\ e.fin_off = r.fin_off /\ e.len = r.len /\ (Ready(e) <=> Ready(r))
      /\ \A g : BytesKept(e, g) <=> BytesKept(r, g)
  BY <1>1, <1>2, <1>4, <1>5, <1>6, <1>8
<1> QED BY <1>9 DEF e

\* No operation changes a final size that is known, or the length then
\* charged for the stream.
LEMMA FinalSizeKept ==
  ASSUME NEW r \in RecvBufs, BufInv(r), r.fin_off # None
  PROVE  /\ \A f \in StreamFrames : WriteError(r, f) = "ok" =>
               Write(r, f).fin_off = r.fin_off /\ Write(r, f).len = r.len
         /\ \A q \in ResetFrameSet : ResetError(r, q) = "ok" =>
               Reset(r, q).fin_off = r.fin_off /\ Reset(r, q).len = r.len
<1>1. r.len \in Nat /\ r.fin_off = r.len /\ r.fc.max_data \in Nat
      /\ r.reset.reliable_size \in Nat
  BY DEF RecvBufs, FlowControls, Resets, BufInv, OffsetsOrdered
<1>2. ASSUME NEW f \in StreamFrames, WriteError(r, f) = "ok"
      PROVE  Write(r, f).fin_off = r.fin_off /\ Write(r, f).len = r.len
  <2>1. MaxOff(f) \in Nat /\ f.fin \in BOOLEAN BY DEF MaxOff, StreamFrames
  <2>2. MaxOff(f) <= r.len /\ (f.fin => MaxOff(f) = r.fin_off)
    BY <1>1, <1>2, <2>1 DEF WriteError
  <2>3. KeepUntil(r, f) \in Nat /\ KeepUntil(r, f) <= r.len
    BY <1>1, <2>1, <2>2 DEF KeepUntil, Lesser
  <2>4. Greater(r.len, KeepUntil(r, f)) = r.len
    BY <1>1, <2>3 DEF Greater
  <2> QED BY <2>2, <2>4 DEF Write, RecvBufs
<1>3. ASSUME NEW q \in ResetFrameSet, ResetError(r, q) = "ok"
      PROVE  Reset(r, q).fin_off = r.fin_off /\ Reset(r, q).len = r.len
  <2>1. q.final_size = r.fin_off
    BY <1>1, <1>3 DEF ResetError, ResetFrameSet
  <2> QED BY <1>1, <2>1 DEF Reset, FirstReset, LaterReset, RecvBufs
<1> QED BY <1>2, <1>3

\* A readable stream stays readable when a frame arrives.
LEMMA ReadyKept ==
  ASSUME NEW r \in RecvBufs, BufInv(r), Ready(r)
  PROVE  /\ \A f \in StreamFrames : WriteError(r, f) = "ok" => Ready(Write(r, f))
         /\ \A q \in ResetFrameSet : ResetError(r, q) = "ok" => Ready(Reset(r, q))
<1>1. /\ r.off \in Nat /\ r.len \in Nat /\ r.drain \in BOOLEAN
      /\ r.fin_off \in Nat \cup {None} /\ r.reset \in Resets /\ r.data \subseteq Nat
      /\ r.finbuf \in BOOLEAN
      /\ r.reset.reliable_size \in Nat /\ r.reset.final_size \in Nat
      /\ r.reset.set \in BOOLEAN /\ r.reset.delivered \in BOOLEAN
  BY DEF RecvBufs, Resets
<1>2. /\ ~r.drain
      /\ r.finbuf => r.fin_off # None /\ ~r.reset.set
      /\ r.fin_off # None => r.fin_off = r.len
      /\ r.off <= r.len
      /\ r.reset.set => r.data \subseteq Bytes(0, r.reset.reliable_size)
      /\ r.reset.delivered => r.reset.set /\ r.data = {}
  BY <1>1 DEF BufInv, OffsetsOrdered, DrainConsistent, ResetConsistent, BufferedAhead,
              Ready, ResetIsReady, DataIsReady
<1>3. ASSUME NEW f \in StreamFrames, WriteError(r, f) = "ok"
      PROVE  Ready(Write(r, f))
  <2> DEFINE e == Write(r, f)
  <2>1. f.off \in Nat /\ f.len \in Nat /\ f.fin \in BOOLEAN /\ MaxOff(f) = f.off + f.len
    BY DEF StreamFrames, MaxOff
  <2>2. e.reset = r.reset /\ e.off = r.off /\ r.data \subseteq e.data
    BY <1>2 DEF Write, RecvBufs
  <2>3. CASE ResetIsReady(r)
    BY <2>2, <2>3 DEF Ready, ResetIsReady
  <2>4. CASE r.off \in r.data
    BY <2>2, <2>4 DEF Ready, DataIsReady
  <2>5. CASE r.finbuf /\ r.off = r.fin_off
    <3>1. MaxOff(f) <= r.off /\ r.fin_off # None /\ ~r.reset.set
          /\ (f.fin => MaxOff(f) = r.fin_off)
      BY <1>1, <1>2, <1>3, <2>1, <2>5 DEF WriteError, None
    <3>2. KeepUntil(r, f) = MaxOff(f) BY <3>1 DEF KeepUntil
    <3>3. e.finbuf = r.finbuf /\ e.fin_off = r.fin_off
      <4>1. CASE f.len = 0
        BY <3>1, <4>1 DEF Write
      <4>2. CASE f.len # 0
        <5>1. NothingToStore(r, f)
          BY <1>1, <2>1, <3>1, <3>2, <4>2 DEF NothingToStore
        <5> QED BY <3>1, <4>2, <5>1 DEF Write, RecvBufs
      <4> QED BY <4>1, <4>2
    <3> QED BY <2>2, <2>5, <3>3 DEF Ready, DataIsReady
  <2> QED BY <2>3, <2>4, <2>5 DEF Ready, DataIsReady
<1>4. ASSUME NEW q \in ResetFrameSet, ResetError(r, q) = "ok"
      PROVE  Ready(Reset(r, q))
  <2> DEFINE e == Reset(r, q)
  <2>1. q.final_size \in Nat /\ q.reliable_size \in Nat /\ q.at \in BOOLEAN
    BY DEF ResetFrameSet
  <2>2. /\ q.reliable_size <= q.final_size /\ q.final_size >= r.len
        /\ r.fin_off # None => r.fin_off = q.final_size
    BY <1>1, <1>4, <2>1 DEF ResetError
  <2>3. CASE ~r.reset.set
    <3>1. /\ e.off = r.off /\ e.reset.set /\ e.reset.delivered = FALSE
          /\ e.reset.reliable_size = q.reliable_size
          /\ e.data = r.data \cap Bytes(0, q.reliable_size)
      BY <1>2, <2>3 DEF Reset, FirstReset, DiscardAfter, RecvBufs
    <3>2. CASE r.off >= q.reliable_size
      BY <3>1, <3>2 DEF Ready, ResetIsReady
    <3>3. CASE r.off < q.reliable_size
      <4>1. r.off \in r.data
        BY <1>1, <1>2, <2>1, <2>2, <2>3, <3>3 DEF Ready, ResetIsReady, DataIsReady
      <4>2. r.off \in e.data
        BY <1>1, <2>1, <3>1, <3>3, <4>1 DEF Bytes
      <4> QED BY <3>1, <4>2 DEF Ready, DataIsReady
    <3> QED BY <1>1, <2>1, <3>2, <3>3
  <2>4. CASE r.reset.set
    <3>1. \/ /\ e.data = r.data /\ e.off = r.off /\ e.reset.set
             /\ e.reset.delivered = r.reset.delivered
             /\ e.reset.reliable_size = r.reset.reliable_size
          \/ /\ e.data = r.data \cap Bytes(0, q.reliable_size)
             /\ e.off = r.off /\ e.reset.set
             /\ e.reset.delivered = r.reset.delivered
             /\ e.reset.reliable_size = q.reliable_size
             /\ q.reliable_size < r.reset.reliable_size
      <4>1. CASE e = r BY <2>4, <4>1
      <4>2. CASE e = [r EXCEPT !.reset.reliable_semantics = TRUE]
        BY <1>1, <2>4, <4>2 DEF RecvBufs, Resets
      <4>3. CASE /\ q.reliable_size < r.reset.reliable_size
                 /\ e = [r EXCEPT !.reset.reliable_semantics = TRUE,
                                  !.reset.reliable_size = q.reliable_size,
                                  !.data = DiscardAfter(r, q.reliable_size),
                                  !.finbuf = FALSE]
        <5>1. /\ e.data = DiscardAfter(r, q.reliable_size) /\ e.off = r.off
              /\ e.reset = [[r.reset EXCEPT !.reliable_semantics = TRUE]
                               EXCEPT !.reliable_size = q.reliable_size]
          BY <4>3 DEF RecvBufs
        <5>2. /\ e.reset.set = r.reset.set /\ e.reset.delivered = r.reset.delivered
              /\ e.reset.reliable_size = q.reliable_size
          BY <1>1, <5>1 DEF Resets
        <5> QED BY <2>4, <4>3, <5>1, <5>2 DEF DiscardAfter
      <4> QED
        BY <1>1, <2>1, <2>4, <4>1, <4>2, <4>3 DEF Reset, LaterReset
    <3>2. ~r.reset.delivered /\ (r.off \in r.data \/ r.off >= r.reset.reliable_size)
      BY <1>2, <2>4 DEF Ready, ResetIsReady, DataIsReady
    <3>3. CASE e.off >= e.reset.reliable_size
      BY <3>1, <3>2, <3>3 DEF Ready, ResetIsReady
    <3>4. CASE e.off < e.reset.reliable_size
      <4>1. r.off \in r.data BY <1>1, <2>1, <3>1, <3>2, <3>4
      <4>2. r.off \in e.data
        BY <1>1, <2>1, <3>1, <3>4, <4>1 DEF Bytes
      <4> QED BY <3>1, <4>2 DEF Ready, DataIsReady
    <3> QED BY <1>1, <2>1, <3>1, <3>3, <3>4
  <2> QED BY <2>3, <2>4, <1>1
<1> QED BY <1>3, <1>4

\* A stream that a read completes is read to its final size, has nothing more
\* to read and holds nothing unread.
LEMMA EmitComplete ==
  ASSUME NEW r \in RecvBufs, BufInv(r), NEW n \in Nat, CanEmit(r, n),
         IsFin(Emit(r, n))
  PROVE  LET e == Emit(r, n) IN
         /\ ~Ready(e) /\ e.fin_off # None /\ e.off = e.fin_off /\ Unread(e) = 0
<1> DEFINE e == Emit(r, n)
<1>1. /\ r.off \in Nat /\ r.len \in Nat /\ r.fin_off \in Nat \cup {None}
      /\ r.data \subseteq Nat /\ r.finbuf \in BOOLEAN /\ r.drain \in BOOLEAN
      /\ r.reset.reliable_size \in Nat /\ r.reset.set \in BOOLEAN
      /\ r.reset.delivered \in BOOLEAN
  BY DEF RecvBufs, Resets
<1>2. /\ e.data = r.data \ Bytes(r.off, r.off + n) /\ e.off = r.off + n
      /\ e.finbuf = (r.finbuf /\ n > 0) /\ e.len = r.len /\ e.fin_off = r.fin_off
      /\ e.reset = r.reset /\ e.drain = r.drain
  BY DEF Emit, RecvBufs
<1>3. ~r.drain /\ ~r.reset.delivered
  BY <1>1 DEF CanEmit, BufInv, ResetConsistent, DrainConsistent, DataIsReady,
              ResetIsReady, OffsetsOrdered, None
<1>4. ~r.reset.set
  BY <1>1, <1>2, <1>3 DEF IsFin, CanEmit, ResetIsReady
<1>5. r.fin_off = r.off + n /\ r.fin_off # None /\ r.fin_off = r.len
  BY <1>1, <1>2, <1>4 DEF IsFin, BufInv, OffsetsOrdered, None
<1>6. e.off \notin e.data
  BY <1>1, <1>2, <1>5 DEF BufInv, BufferedAhead, Bytes
<1>7. ~e.finbuf
  <2> SUFFICES ASSUME r.finbuf, n > 0 PROVE FALSE BY <1>2
  <2>1. r.fin_off - 1 \in Bytes(r.off, r.off + n) BY <1>1, <1>5 DEF Bytes
  <2> QED BY <2>1 DEF CanEmit, BufInv, BufferedAhead
<1>8. ~Ready(e)
  BY <1>2, <1>4, <1>6, <1>7 DEF Ready, ResetIsReady, DataIsReady
<1>9. Unread(e) = 0
  BY <1>1, <1>2, <1>3, <1>4, <1>5 DEF Unread
<1> QED BY <1>2, <1>5, <1>8, <1>9
=============================================================================
