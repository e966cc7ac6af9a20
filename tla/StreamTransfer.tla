--------------------------- MODULE StreamTransfer ---------------------------
(***************************************************************************)
(* One stream between two endpoints that both run this code: the send      *)
(* buffer of one and the receive buffer of the other, over a network that  *)
(* loses, duplicates and reorders.  Frames are not consumed by delivery,   *)
(* so `wire' holds every STREAM frame ever sent and `grants' every stream  *)
(* limit ever announced.                                                   *)
(*                                                                         *)
(* What SendStreams and RecvStreams establish of the queues is taken for   *)
(* granted here: data that may be sent is sent, and the frames of the      *)
(* control queues (MAX_STREAM_DATA, STOP_SENDING, RESET_STREAM) are sent   *)
(* until one of them arrives.                                              *)
(***************************************************************************)
EXTENDS SendBuf, RecvBuf, FiniteSetsExt

CONSTANTS
  Window,        \* initial_max_stream_data and the largest window
  MaxSize,       \* bound: bytes the application writes
  WriteLens,     \* bound: sizes of a stream_send()
  PacketLens,    \* bound: room for stream data in a packet
  ReliableSizes, \* bound: arguments of stream_shutdown_at()
  MaxLosses      \* bound: packets declared lost

ASSUME TransferAssumption ==
  /\ Window \in Nat /\ MaxSize \in Nat /\ MaxLosses \in Nat
  /\ WriteLens \subseteq Nat \ {0} /\ PacketLens \subseteq Nat \ {0}
  /\ ReliableSizes \subseteq Nat

VARIABLES
  snd,      \* the sender's SendBuf
  sendDone, \* the sender has collected the stream
  writable, \* the stream was stopped and is in the sender's writable queue
  rcv,      \* the receiver's RecvBuf
  recvDone, \* the receiver has collected the stream
  wire,     \* STREAM frames sent
  flight,   \* those the sender's loss recovery tracks
  seen,     \* those of the tracked that were delivered
  cancels,  \* RESET_STREAM[_AT] frames sent
  heard,    \* those delivered
  stop,     \* STOP_SENDING was sent
  grants,   \* stream limits the receiver announced
  losses    \* packets declared lost so far

sendVars == <<snd, sendDone, writable>>
recvVars == <<rcv, recvDone>>
netVars == <<wire, flight, seen, cancels, heard, stop, grants, losses>>
vars == <<sendVars, recvVars, netVars>>

Init ==
  /\ snd = SendNew(Window) /\ sendDone = FALSE /\ writable = FALSE
  /\ rcv = RecvNew(Window, Window, Window) /\ recvDone = FALSE
  /\ wire = {} /\ flight = {} /\ seen = {} /\ cancels = {} /\ heard = {}
  /\ stop = FALSE /\ grants = {} /\ losses = 0

-----------------------------------------------------------------------------
(* The sender.                                                             *)

\* stream_send().  FIN comes with the last bytes of the application.
WriteData(len, fin) ==
  /\ ~snd.stopped /\ ~snd.shutdown /\ ~SendIsFin(snd)
  /\ SendCap(snd) > 0
  /\ snd.off + len <= MaxSize
  /\ snd' = SendWrite(snd, len, fin)
  /\ UNCHANGED <<sendDone, writable, recvVars, netVars>>

EmitData(cap) ==
  /\ ~sendDone /\ IsFlushable(snd) /\ CanSendBuffered(snd)
  /\ \E n \in EmitLens(snd, cap) :
       /\ snd' = SendEmit(snd, n)
       /\ wire' = wire \cup {EmitFrame(snd, n)}
       /\ flight' = flight \cup {EmitFrame(snd, n)}
       /\ seen' = seen \ {EmitFrame(snd, n)}
  /\ UNCHANGED <<sendDone, writable, recvVars, cancels, heard, stop, grants, losses>>

\* The frame that announces the reset goes out with it.
SendCancel(b) == cancels' = cancels \cup {ResetFrameOf(b)}

Abandon(q) ==
  LET b == [Terminate(snd, q, Cardinality(Discarded(snd, q))) EXCEPT !.shutdown = TRUE]
  IN  /\ ~sendDone
      /\ ShutdownResult(snd, q) = "ok"
      /\ snd' = b
      /\ writable' = FALSE
      /\ SendCancel(b)
      /\ UNCHANGED <<sendDone, recvVars, wire, flight, seen, heard, stop, grants, losses>>

\* STOP_SENDING: unless the stream was reset before, it is reset and put in
\* the writable queue for the application to learn of it.
RecvStop ==
  LET q == ResetRequest(FALSE, 0, OrdinaryFinalSize(snd), 0)
      b == IF snd.reset.set THEN snd
           ELSE Terminate(snd, q, Cardinality(Discarded(snd, q)))
  IN  /\ stop /\ ~sendDone /\ ~snd.stopped
      /\ snd' = [b EXCEPT !.stopped = TRUE]
      /\ writable' = ~snd.reset.set
      /\ SendCancel(b)
      /\ UNCHANGED <<sendDone, recvVars, wire, flight, seen, heard, stop, grants, losses>>

\* stream_writable_next() reports the stopped stream, which leaves the queue.
ReportStopped ==
  /\ writable
  /\ writable' = FALSE
  /\ UNCHANGED <<snd, sendDone, recvVars, netVars>>

\* Slip: the error is returned and the stream left to an acknowledgement.
ObserveStopped_Leaves ==
  /\ ~sendDone /\ snd.stopped
  /\ writable' = FALSE
  /\ UNCHANGED <<snd, sendDone, recvVars, netVars>>

\* stream_send(), stream_capacity() or stream_writable() on a stopped stream:
\* the caller gets StreamStopped, and a stream that is complete is collected.
ObserveStopped ==
  /\ ~sendDone /\ snd.stopped
  /\ writable' = FALSE
  /\ sendDone' = SendIsComplete(snd)
  /\ UNCHANGED <<snd, recvVars, netVars>>

RecvGrant(max) ==
  /\ max \in grants /\ max > snd.max_data /\ ~sendDone
  /\ snd' = [snd EXCEPT !.max_data = max]
  /\ UNCHANGED <<sendDone, writable, recvVars, netVars>>

\* An acknowledgement collects a complete stream, unless it was stopped and is
\* in the writable queue: then the application has yet to learn of it.
Settled(b) == SendIsComplete(b) /\ ~(writable /\ b.stopped)

RecvAck(f) ==
  /\ f \in flight \cap seen /\ ~sendDone
  /\ snd' = AckAndDrop(snd, f, Cardinality(AckDropped(snd, f)))
  /\ sendDone' = Settled(snd')
  /\ flight' = flight \ {f} /\ seen' = seen \ {f}
  /\ UNCHANGED <<writable, recvVars, wire, cancels, heard, stop, grants, losses>>

RecvAckCancel(q) ==
  /\ q \in heard /\ ~sendDone /\ ~snd.reset.acked
  /\ snd' = AckReset(snd, q)
  /\ sendDone' = Settled(snd')
  /\ UNCHANGED <<writable, recvVars, netVars>>

\* A packet is declared lost, whether it was or not.
Lose(f) ==
  /\ f \in flight /\ losses < MaxLosses /\ ~sendDone
  /\ snd' = IF CanSendBuffered(snd)
            THEN Retransmit(snd, f, Cardinality(Retransmitted(snd, f))) ELSE snd
  /\ flight' = flight \ {f} /\ seen' = seen \ {f}
  /\ losses' = losses + 1
  /\ UNCHANGED <<sendDone, writable, recvVars, wire, cancels, heard, stop, grants>>

-----------------------------------------------------------------------------
(* The receiver.  A stream it has collected ignores frames; the packets    *)
(* are acknowledged all the same.                                          *)

Deliver(f) ==
  /\ f \in wire
  /\ rcv' = IF recvDone THEN rcv ELSE Write(rcv, f)
  /\ seen' = IF f \in flight THEN seen \cup {f} ELSE seen
  /\ UNCHANGED <<sendVars, recvDone, wire, flight, cancels, heard, stop, grants, losses>>

DeliverCancel(q) ==
  /\ q \in cancels
  /\ rcv' = IF recvDone THEN rcv ELSE Reset(rcv, q)
  /\ heard' = heard \cup {q}
  /\ UNCHANGED <<sendVars, recvDone, wire, flight, seen, cancels, stop, grants, losses>>

\* stream_recv(), and the MAX_STREAM_DATA it makes due.
ReadData(n) ==
  /\ ~recvDone /\ CanEmit(rcv, n)
  /\ LET r == Emit(rcv, n)
     IN  IF AlmostFull(r)
         THEN /\ rcv' = [r EXCEPT !.fc = UpdateMaxData(@)]
              /\ grants' = grants \cup {MaxDataNext(r.fc)}
         ELSE rcv' = r /\ UNCHANGED grants
  /\ recvDone' = IsFin(rcv')
  /\ UNCHANGED <<sendVars, wire, flight, seen, cancels, heard, stop, losses>>

ReadReset ==
  /\ ~recvDone /\ ResetIsReady(rcv)
  /\ rcv' = DeliverReset(rcv)
  /\ recvDone' = TRUE
  /\ UNCHANGED <<sendVars, netVars>>

StopReading ==
  /\ ~recvDone /\ ~rcv.drain
  /\ rcv' = Shutdown(rcv)
  /\ stop' = (stop \/ ~IsFin(rcv'))
  /\ UNCHANGED <<sendVars, recvDone, wire, flight, seen, cancels, heard, grants, losses>>

-----------------------------------------------------------------------------
Abandonments ==
  {ResetRequest(FALSE, 0, OrdinaryFinalSize(snd), 0)}
    \cup {ResetRequest(TRUE, 0, ReliableFinalSize(snd), n) : n \in ReliableSizes}

Emission == \E cap \in PacketLens : EmitData(cap)
Granting == \E max \in grants : RecvGrant(max)
Reading == ReadReset \/ \E n \in 0..rcv.len : ReadData(n)

Next ==
  \/ \E len \in WriteLens, fin \in BOOLEAN : WriteData(len, fin)
  \/ Emission
  \/ \E q \in Abandonments : Abandon(q)
  \/ RecvStop \/ ReportStopped \/ ObserveStopped
  \/ Granting
  \/ \E f \in flight : RecvAck(f) \/ Lose(f)
  \/ \E q \in heard : RecvAckCancel(q)
  \/ \E f \in wire : Deliver(f)
  \/ \E q \in cancels : DeliverCancel(q)
  \/ Reading
  \/ StopReading

Spec == Init /\ [][Next]_vars

\* A packet that is not declared lost is delivered and acknowledged; the
\* control frames arrive in the end; the reader keeps reading, and the writer
\* looks at a stream that is stopped.
Undelivered == \E f \in flight \ seen : Deliver(f)
Uncancelled == \E q \in cancels \ heard : DeliverCancel(q)
Acknowledging == (\E f \in flight : RecvAck(f)) \/ \E q \in heard : RecvAckCancel(q)

Fairness ==
  /\ WF_vars(Emission) /\ WF_vars(Granting) /\ WF_vars(RecvStop)
  /\ WF_vars(Undelivered) /\ WF_vars(Uncancelled) /\ WF_vars(Acknowledging)
  /\ WF_vars(Reading) /\ WF_vars(ObserveStopped)

FairSpec == Spec /\ Fairness

-----------------------------------------------------------------------------
(* Properties                                                              *)

\* Two endpoints that run this code never accuse each other: no STREAM frame
\* and no reset, however late, repeated or out of order, is a flow control or
\* final size error for the receiver.
NoAccusation ==
  ~recvDone => /\ \A f \in wire : WriteError(rcv, f) = "ok"
               /\ \A q \in cancels : ResetError(rcv, q) = "ok"

\* The sender collects the stream only once the receiver has all it was owed:
\* the bytes up to the final size and the size, or the prefix and the reset.
DoneIsDelivered ==
  sendDone =>
    \/ recvDone \/ rcv.drain
    \/ /\ snd.reset.set => rcv.reset.set
       /\ rcv.fin_off = snd.fin_off
       /\ LET owed == IF snd.reset.set THEN snd.reset.reliable_size ELSE snd.fin_off
          IN  Bytes(rcv.off, owed) \subseteq rcv.data

Outcome ==
  IF rcv.drain THEN "stopped"
  ELSE IF rcv.reset.delivered THEN "reset"
  ELSE IF recvDone THEN "fin" ELSE "open"

Abstract == INSTANCE ByteStream WITH
  written <- snd.off, size <- snd.fin_off,
  prefix <- IF snd.reset.set THEN snd.reset.reliable_size ELSE None,
  taken <- rcv.fc.consumed, outcome <- Outcome

\* The two buffers and the network implement a byte stream: the bytes are read
\* in order and once, the end is seen after all of them, a reset after the
\* prefix it promised.
ImplementsByteStream == Abstract!Spec

\* A stream that was ended is read to its end, and one that was reset is
\* noticed: whatever is lost, the receiver is not left waiting.
EndIsReached == (snd.fin_off # None) ~> (recvDone \/ rcv.drain)

\* A writer that has used up its credit gets more, as long as the reader reads:
\* the receiver's updates are due in time and a stale one does no harm.
CreditArrives ==
  (SendCap(snd) = 0) ~> (SendCap(snd) > 0 \/ snd.fin_off # None \/ rcv.drain)

\* The sender is not left with the stream either.  An acknowledgement collects
\* it, whatever was lost before.  If the receiver stopped it and it completes
\* before the application has learnt of the stop, no acknowledgement does, and
\* it goes when the application looks at it.
SenderFinishes == (snd.fin_off # None) ~> sendDone
=============================================================================
