---------------------------- MODULE SendStreams ----------------------------
(***************************************************************************)
(* The send side of the streams of a connection (quiche/src/lib.rs and     *)
(* stream/mod.rs): what the application writes, resets and is told, what   *)
(* is put in packets, and what acknowledgements, losses and the frames of  *)
(* the peer do to it.  Streams are the locally opened unidirectional ones. *)
(*                                                                         *)
(* A STREAM or RESET_STREAM frame in `inflight' or `resets' is in a packet *)
(* the loss recovery tracks.  It is acknowledged once or lost once; until  *)
(* then a probe timeout may have its contents sent again.                  *)
(***************************************************************************)
EXTENDS SendBuf, FiniteSetsExt

CONSTANTS
  Streams,               \* stream IDs
  Incremental,           \* the streams with incremental priority
  InitialMaxStreamData,  \* the peer's initial_max_stream_data_uni
  InitialMaxData,        \* the peer's initial_max_data
  MaxData,               \* bound: the limits the peer may come to announce
  WriteLens,             \* bound: sizes of a stream_send()
  Watermarks,            \* bound: arguments of stream_writable()
  PacketLens,            \* bound: room for stream data in a packet
  Cwnds,                 \* bound: values of cwnd_available()
  Codes,                 \* error codes
  ReliableSizes,         \* bound: arguments of stream_shutdown_at()
  MaxInflight,           \* bound: frames of a stream in flight
  TxCapFactor,           \* tx_cap_factor, 1 unless configured
  FullPackets,           \* TRUE: max_tracked_frames_per_packet is finite
  WideHeaders            \* TRUE: a frame header may exceed MAX_STREAM_OVERHEAD

ASSUME SendAssumption ==
  /\ Incremental \subseteq Streams
  /\ InitialMaxStreamData \in Nat /\ InitialMaxData \in Nat
  /\ MaxData \subseteq Nat /\ WriteLens \subseteq Nat /\ Watermarks \subseteq Nat
  /\ PacketLens \subseteq Nat \ {0} /\ Cwnds \subseteq Nat /\ Codes \subseteq Nat
  /\ ReliableSizes \subseteq Nat /\ MaxInflight \in Nat /\ TxCapFactor \in Nat \ {0}
  /\ FullPackets \in BOOLEAN /\ WideHeaders \in BOOLEAN

VARIABLES
  status,        \* idle, open (in StreamMap::streams) or collected
  snd,           \* Stream::send
  send_lowat,    \* Stream::send_lowat
  flushable,     \* StreamMap::flushable
  writable,      \* StreamMap::writable
  send_terminal, \* StreamMap::send_terminal
  blocked,       \* StreamMap::blocked, None for a stream not in it
  reset,         \* StreamMap::reset, {} or the frame to send
  tx_buffered,   \* StreamMap::tx_buffered
  tx_data,       \* Connection::tx_data
  max_tx_data,   \* Connection::max_tx_data
  tx_cap,        \* Connection::tx_cap
  blocked_limit, \* Connection::blocked_limit
  inflight,      \* STREAM frames tracked by loss recovery
  resets,        \* RESET_STREAM and RESET_STREAM_AT frames tracked by it
  handed         \* ghost: streams the application may write without waiting

queueVars == <<flushable, writable, send_terminal, blocked, reset>>
connVars == <<tx_buffered, tx_data, max_tx_data, tx_cap, blocked_limit>>
netVars == <<inflight, resets>>
vars == <<status, snd, send_lowat, queueVars, connVars, netVars, handed>>

\* The same STREAM frame may be in several packets: `copy' tells them apart.
\* Of a reset that is in several one is kept: losing any sends it again, and
\* acknowledging any is enough.

Open(s) == status[s] = "open"

IsWritable(s) == SendIsWritable(snd[s], send_lowat[s])

Init ==
  /\ status = [s \in Streams |-> "idle"]
  /\ snd = [s \in Streams |-> SendNew(InitialMaxStreamData)]
  /\ send_lowat = [s \in Streams |-> 1]
  /\ flushable = {} /\ writable = {} /\ send_terminal = {}
  /\ blocked = [s \in Streams |-> None]
  /\ reset = [s \in Streams |-> {}]
  /\ tx_buffered = 0 /\ tx_data = 0
  /\ max_tx_data = InitialMaxData
  /\ tx_cap \in {TxCapFactor * Lesser(w, InitialMaxData) : w \in Cwnds}
  /\ blocked_limit = None
  /\ inflight = [s \in Streams |-> {}]
  /\ resets = [s \in Streams |-> {}]
  /\ handed = {}

\* update_tx_cap(): the congestion window leaves room for some w bytes.
UpdateTxCap ==
  \E w \in Cwnds : tx_cap' = TxCapFactor * Lesser(w, max_tx_data' - tx_data')

\* StreamMap::collect(), when the stream is done with.
CollectIf(s, done) ==
  /\ status' = IF done THEN [status EXCEPT ![s] = "collected"] ELSE status
  /\ flushable' = IF done THEN flushable \ {s} ELSE flushable

\* A stream that becomes flushable, or has a lone FIN to send, is queued; one
\* that was flushable is in the queue already.
QueueFlushable(s, b, empty_fin) ==
  IF (IsFlushable(b) \/ empty_fin) /\ ~IsFlushable(snd[s])
  THEN flushable \cup {s} ELSE flushable

-----------------------------------------------------------------------------
(* stream_send()                                                           *)

NoteBlockedLimit(len) ==
  blocked_limit' = IF max_tx_data - tx_data < len THEN max_tx_data ELSE blocked_limit

\* STREAM_DATA_BLOCKED is due once for each limit the stream is blocked at.
NoteBlockedAt(s, b, isBlocked) ==
  IF ~isBlocked
  THEN /\ snd' = [snd EXCEPT ![s] = [b EXCEPT !.blocked_at = None]]
       /\ blocked' = [blocked EXCEPT ![s] = None]
  ELSE /\ snd' = [snd EXCEPT ![s] = [b EXCEPT !.blocked_at = b.max_data]]
       /\ blocked' = IF b.blocked_at = b.max_data THEN blocked
                     ELSE [blocked EXCEPT ![s] = b.max_data]

\* get_or_create(): a new stream is writable if its credit allows it.
Created(s) ==
  IF status[s] = "idle" /\ IsWritable(s) THEN writable \cup {s} ELSE writable

\* Why stream_send() gives up before it writes.
Refused(s, len, fin) ==
  snd[s].shutdown \/ (SendIsFin(snd[s]) /\ (len # 0 \/ ~fin))

StreamSendRefused(s, len, fin) ==
  /\ Open(s) /\ ~snd[s].stopped
  /\ Refused(s, len, fin)
  /\ NoteBlockedLimit(len)
  /\ UNCHANGED <<status, snd, send_lowat, queueVars, tx_buffered, tx_data,
                 max_tx_data, tx_cap, netVars, handed>>

\* Slip: the stream is not queued again.
Rearm_Not(s) == writable

\* A stream that the connection's capacity holds up is reported again.
Rearm(s) == IF IsWritable(s) THEN writable \cup {s} ELSE writable

StreamSendBlocked(s, len, fin) ==
  /\ status[s] \in {"idle", "open"} /\ ~snd[s].stopped
  /\ ~Refused(s, len, fin)
  /\ len > 0 /\ (tx_cap = 0 \/ SendCap(snd[s]) = 0)
  /\ NoteBlockedLimit(len)
  /\ status' = [status EXCEPT ![s] = "open"]
  /\ writable' = IF tx_cap = 0 THEN Rearm(s) ELSE Created(s)
  /\ handed' = handed \ {s}
  /\ UNCHANGED <<snd, send_lowat, flushable, send_terminal, blocked, reset,
                 tx_buffered, tx_data, max_tx_data, tx_cap, netVars>>

StreamSend(s, len, fin) ==
  /\ status[s] \in {"idle", "open"} /\ ~snd[s].stopped
  /\ ~Refused(s, len, fin)
  /\ len > 0 => tx_cap > 0 /\ SendCap(snd[s]) > 0
  /\ LET cap == Lesser(tx_cap, len)
         b == SendWrite(snd[s], cap, fin /\ cap = len)
         sent == b.off - snd[s].off
         isWritable == SendIsWritable(b, send_lowat[s])
     IN  /\ NoteBlockedAt(s, b, sent < cap)
         /\ flushable' = QueueFlushable(s, b, len = 0 /\ fin)
         /\ writable' =
              IF ~isWritable THEN writable \ {s}
              ELSE IF s \in Incremental \/ (IsWritable(s) /\ cap < len)
              THEN writable \cup {s} ELSE Created(s)
         /\ tx_cap' = tx_cap - sent
         /\ tx_data' = tx_data + sent
         /\ tx_buffered' = tx_buffered + sent
         /\ handed' = IF sent < len THEN handed \ {s} ELSE handed \cup
                        (IF status[s] = "idle" THEN {s} ELSE {})
  /\ NoteBlockedLimit(len)
  /\ status' = [status EXCEPT ![s] = "open"]
  /\ UNCHANGED <<send_lowat, send_terminal, reset, max_tx_data, netVars>>

\* stream_send(), stream_capacity() or stream_writable() on a stopped stream:
\* the caller gets StreamStopped, and a stream that is complete is collected.
\* The first, with len bytes, has looked at the connection's limit by then.
ObserveStopped(s, len) ==
  /\ Open(s) /\ snd[s].stopped
  /\ NoteBlockedLimit(len)
  /\ send_terminal' = send_terminal \ {s}
  /\ writable' = writable \ {s}
  /\ handed' = handed \cup {s}
  /\ CollectIf(s, SendIsComplete(snd[s]))
  /\ UNCHANGED <<snd, send_lowat, blocked, reset, tx_buffered, tx_data, max_tx_data,
                 tx_cap, netVars>>

\* stream_writable() when the capacity is below len.
StreamWritable(s, len) ==
  /\ Open(s) /\ ~snd[s].stopped /\ ~snd[s].shutdown
  /\ Lesser(tx_cap, SendCap(snd[s])) < len
  /\ send_lowat' = [send_lowat EXCEPT ![s] = Greater(1, len)]
  /\ NoteBlockedLimit(len)
  /\ IF SendCap(snd[s]) < len
     THEN NoteBlockedAt(s, snd[s], TRUE) /\ UNCHANGED writable
     ELSE /\ writable' = IF SendIsWritable(snd[s], Greater(1, len))
                         THEN writable \cup {s} ELSE writable
          /\ UNCHANGED <<snd, blocked>>
  /\ handed' = handed \ {s}
  /\ UNCHANGED <<status, flushable, send_terminal, reset, tx_buffered, tx_data,
                 max_tx_data, tx_cap, netVars>>

\* stream_writable_next(): stopped streams first, whatever the capacity.
StreamWritableNext(s) ==
  /\ \/ s \in send_terminal
     \/ /\ send_terminal = {} /\ tx_cap > 0 /\ s \in writable
        /\ snd[s].stopped \/ Lesser(tx_cap, SendCap(snd[s])) >= send_lowat[s]
  /\ send_terminal' = send_terminal \ {s}
  /\ writable' = writable \ {s}
  /\ handed' = handed \cup {s}
  /\ UNCHANGED <<status, snd, send_lowat, flushable, blocked, reset, connVars, netVars>>

-----------------------------------------------------------------------------
(* stream_shutdown(Write), stream_shutdown_at() and STOP_SENDING           *)

\* What both do once the send buffer is b: settle the ledgers and the queues.
\* The capacity is recomputed at the end.
AfterTermination(s, b, droppedTxData) ==
  /\ snd' = [snd EXCEPT ![s] = b]
  /\ tx_buffered' = tx_buffered + b.buffered - snd[s].buffered
  /\ tx_data' = SatSub(tx_data, droppedTxData)
  /\ blocked' = [blocked EXCEPT ![s] = None]
  /\ flushable' = IF IsFlushable(b) THEN flushable \cup {s} ELSE flushable \ {s}
  /\ reset' = IF b.reset.set /\ ~b.reset.acked
              THEN [reset EXCEPT ![s] = {ResetFrameOf(b)}] ELSE reset
  /\ UNCHANGED max_tx_data
  /\ UpdateTxCap

Terminated(b, q) == Terminate(b, q, Cardinality(Discarded(b, q)))

StreamShutdownWrite(s, q) ==
  /\ Open(s)
  /\ \/ /\ ShutdownResult(snd[s], q) = "ok"
        /\ AfterTermination(s, [Terminated(snd[s], q) EXCEPT !.shutdown = TRUE],
                            DroppedTxData(snd[s], q))
        /\ writable' = writable \ {s}
     \/ /\ ShutdownResult(snd[s], q) = "unchanged"
        /\ snd' = [snd EXCEPT ![s].shutdown = TRUE]
        /\ UNCHANGED <<flushable, writable, blocked, reset, tx_buffered, tx_data,
                       max_tx_data, tx_cap>>
  /\ UNCHANGED <<status, send_lowat, send_terminal, blocked_limit, netVars, handed>>

StreamShutdown(s, code) ==
  StreamShutdownWrite(s, ResetRequest(FALSE, code, OrdinaryFinalSize(snd[s]), 0))

StreamShutdownAt(s, code, reliable_size) ==
  StreamShutdownWrite(s, ResetRequest(TRUE, code, ReliableFinalSize(snd[s]),
                                      reliable_size))

\* process_stop_sending(): unless the stream was reset before, it is reset
\* and the application is woken up to learn of it.
RecvStopSending(s, code) ==
  LET q == ResetRequest(FALSE, code, OrdinaryFinalSize(snd[s]), 0)
      changed == ~snd[s].reset.set
      b == IF changed THEN Terminated(snd[s], q) ELSE snd[s]
  IN  /\ Open(s) /\ ~snd[s].stopped
      /\ AfterTermination(s, [b EXCEPT !.stopped = TRUE],
                          IF changed THEN DroppedTxData(snd[s], q) ELSE 0)
      /\ send_terminal' = IF changed THEN send_terminal \cup {s} ELSE send_terminal
      /\ writable' = IF changed THEN writable \cup {s} ELSE writable
      /\ handed' = handed \ {s}
      /\ UNCHANGED <<status, send_lowat, blocked_limit, netVars>>

-----------------------------------------------------------------------------
(* Frames of the peer: credit and acknowledgements.  The capacity is       *)
(* updated at the end of each packet.                                      *)

RecvMaxData(max) ==
  /\ max_tx_data' = Greater(max_tx_data, max)
  /\ UNCHANGED <<status, snd, send_lowat, queueVars, tx_buffered, tx_data,
                 blocked_limit, netVars, handed>>
  /\ UpdateTxCap

RecvMaxStreamData(s, max) ==
  LET b == [snd[s] EXCEPT !.max_data = Greater(@, max)]
  IN  /\ Open(s)
      /\ snd' = [snd EXCEPT ![s] = b]
      /\ flushable' = QueueFlushable(s, b, FALSE)
      /\ writable' = IF SendIsWritable(b, send_lowat[s])
                     THEN writable \cup {s} ELSE writable
      /\ UNCHANGED <<status, send_lowat, send_terminal, blocked, reset, tx_buffered,
                     tx_data, max_tx_data, blocked_limit, netVars, handed>>
      /\ UpdateTxCap

\* Slip: the application is not waited for.
Settled_Untold(s, b) == SendIsComplete(b)

\* A complete stream goes, unless it was stopped and the application, which
\* its place in the writable queue stands for, has yet to be told.
Settled(s, b) == SendIsComplete(b) /\ ~(s \in writable /\ b.stopped)

CollectQueues(s, done) ==
  /\ writable' = IF done THEN writable \ {s} ELSE writable
  /\ send_terminal' = IF done THEN send_terminal \ {s} ELSE send_terminal

AckStream(s, f) ==
  LET dropped == Cardinality(AckDropped(snd[s], f))
      b == AckAndDrop(snd[s], f, dropped)
  IN  /\ Open(s) /\ f \in inflight[s]
      /\ inflight' = [inflight EXCEPT ![s] = @ \ {f}]
      /\ snd' = [snd EXCEPT ![s] = b]
      /\ tx_buffered' = tx_buffered - dropped
      /\ CollectIf(s, Settled(s, b))
      /\ CollectQueues(s, Settled(s, b))
      /\ UNCHANGED <<send_lowat, blocked, reset, tx_data, max_tx_data,
                     blocked_limit, resets, handed>>
      /\ UpdateTxCap

\* Only the frame of the current reset counts.
AckResetFrame(s, f) ==
  LET b == AckReset(snd[s], f)
  IN  /\ Open(s) /\ f \in resets[s]
      /\ resets' = [resets EXCEPT ![s] = @ \ {f}]
      /\ snd' = [snd EXCEPT ![s] = b]
      /\ reset' = IF ResetFrameOf(snd[s]) = f THEN [reset EXCEPT ![s] = {}] ELSE reset
      /\ CollectIf(s, Settled(s, b))
      /\ CollectQueues(s, Settled(s, b))
      /\ UNCHANGED <<send_lowat, blocked, tx_buffered, tx_data, max_tx_data,
                     blocked_limit, inflight, handed>>
      /\ UpdateTxCap

-----------------------------------------------------------------------------
(* send(): first the frames declared lost, or probed for, are queued again, *)
(* then the packet is filled.                                              *)

\* A lost packet leaves the flight; a probe timeout leaves it there.
LoseStream(s, f, probe) ==
  LET n == Cardinality(Retransmitted(snd[s], f))
      b == Retransmit(snd[s], f, n)
      empty_fin == f.len = 0 /\ f.fin /\ ~snd[s].reset.set
  IN  /\ Open(s) /\ f \in inflight[s]
      /\ inflight' = IF probe THEN inflight ELSE [inflight EXCEPT ![s] = @ \ {f}]
      /\ IF CanSendBuffered(snd[s])
         THEN /\ snd' = [snd EXCEPT ![s] = b]
              /\ flushable' = QueueFlushable(s, b, empty_fin)
              /\ tx_buffered' = tx_buffered + n
         ELSE UNCHANGED <<snd, flushable, tx_buffered>>
      /\ UNCHANGED <<status, send_lowat, writable, send_terminal, blocked, reset,
                     tx_data, max_tx_data, tx_cap, blocked_limit, resets, handed>>

\* Slip: the reset that was lost is sent, not the current one.
LoseReset_Stale(s, f, probe) ==
  /\ Open(s) /\ f \in resets[s]
  /\ resets' = IF probe THEN resets ELSE [resets EXCEPT ![s] = @ \ {f}]
  /\ reset' = IF snd[s].reset.acked THEN reset ELSE [reset EXCEPT ![s] = {f}]
  /\ UNCHANGED <<status, snd, send_lowat, flushable, writable, send_terminal,
                 blocked, connVars, inflight, handed>>

\* Whatever reset was lost, the current one is sent, if not yet acknowledged.
LoseReset(s, f, probe) ==
  /\ Open(s) /\ f \in resets[s]
  /\ resets' = IF probe THEN resets ELSE [resets EXCEPT ![s] = @ \ {f}]
  /\ reset' = IF snd[s].reset.acked THEN reset
              ELSE [reset EXCEPT ![s] = {ResetFrameOf(snd[s])}]
  /\ UNCHANGED <<status, snd, send_lowat, flushable, writable, send_terminal,
                 blocked, connVars, inflight, handed>>

\* The frame, as the lowest of its copies that is not in flight.
Numbered(f, S) ==
  LET copies == {g.copy : g \in {g \in S : [g EXCEPT !.copy = f.copy] = f}}
  IN  [f EXCEPT !.copy = Lowest((0..MaxInflight) \ copies)]

\* The STREAM frame.  It is encoded before it is known whether it can be
\* tracked: in a packet that holds its fill of frames it is not.
EmitStream(s, cap, tracked) ==
  LET b == snd[s]
  IN  /\ s \in flushable /\ CanSendBuffered(b)
      /\ Cardinality(inflight[s]) < MaxInflight
      /\ \E n \in EmitLens(b, cap) :
           /\ snd' = [snd EXCEPT ![s] = SendEmit(b, n)]
           /\ inflight' = IF tracked
                THEN [inflight EXCEPT ![s] = @ \cup {Numbered(EmitFrame(b, n), @)}]
                ELSE inflight
           /\ flushable' = IF IsFlushable(SendEmit(b, n)) THEN flushable
                           ELSE flushable \ {s}
           /\ tx_buffered' = tx_buffered - n
      /\ UNCHANGED <<status, send_lowat, writable, send_terminal, blocked, reset,
                     tx_data, max_tx_data, tx_cap, blocked_limit, resets, handed>>

\* A stream with nothing left to deliver, or whose frame header does not fit
\* in the room left, is dropped from the queue.
SkipStream(s) ==
  /\ s \in flushable /\ (WideHeaders \/ ~CanSendBuffered(snd[s]))
  /\ flushable' = flushable \ {s}
  /\ UNCHANGED <<status, snd, send_lowat, writable, send_terminal, blocked, reset,
                 connVars, netVars, handed>>

EmitReset(s) ==
  /\ reset[s] # {}
  /\ resets' = [resets EXCEPT ![s] = @ \cup reset[s]]
  /\ reset' = [reset EXCEPT ![s] = {}]
  /\ UNCHANGED <<status, snd, send_lowat, flushable, writable, send_terminal,
                 blocked, connVars, inflight, handed>>

SendDataBlocked ==
  /\ blocked_limit # None
  /\ blocked_limit' = None
  /\ UNCHANGED <<status, snd, send_lowat, queueVars, tx_buffered, tx_data,
                 max_tx_data, tx_cap, netVars, handed>>

SendStreamDataBlocked(s) ==
  /\ blocked[s] # None
  /\ blocked' = [blocked EXCEPT ![s] = None]
  /\ UNCHANGED <<status, snd, send_lowat, flushable, writable, send_terminal,
                 reset, connVars, netVars, handed>>

-----------------------------------------------------------------------------
Application(s) ==
  \/ \E len \in WriteLens, fin \in BOOLEAN :
       \/ StreamSend(s, len, fin)
       \/ StreamSendBlocked(s, len, fin)
       \/ StreamSendRefused(s, len, fin)
  \/ \E len \in WriteLens \cup {0} : ObserveStopped(s, len)
  \/ \E len \in Watermarks : StreamWritable(s, len)
  \/ StreamWritableNext(s)
  \/ \E code \in Codes : StreamShutdown(s, code)
  \/ \E code \in Codes, reliable_size \in ReliableSizes :
       StreamShutdownAt(s, code, reliable_size)

Receive(s) ==
  \/ \E code \in Codes : RecvStopSending(s, code)
  \/ \E max \in MaxData : RecvMaxStreamData(s, max)
  \/ \E f \in inflight[s] : AckStream(s, f)
  \/ \E f \in resets[s] : AckResetFrame(s, f)

Send(s) ==
  \/ \E f \in inflight[s], probe \in BOOLEAN : LoseStream(s, f, probe)
  \/ \E f \in resets[s], probe \in BOOLEAN : LoseReset(s, f, probe)
  \/ \E cap \in PacketLens, tracked \in {TRUE, ~FullPackets} :
       EmitStream(s, cap, tracked)
  \/ SkipStream(s)
  \/ EmitReset(s)
  \/ SendStreamDataBlocked(s)

Next ==
  \/ \E s \in Streams : Application(s) \/ Receive(s) \/ Send(s)
  \/ \E max \in MaxData : RecvMaxData(max)
  \/ SendDataBlocked

Spec == Init /\ [][Next]_vars

-----------------------------------------------------------------------------
(* Properties                                                              *)

\* The offsets of a stream, and what its frames in flight carry of them.
Carried(s) == UNION {Bytes(f.off, MaxOff(f)) : f \in inflight[s]}

\* The end of what must reach the peer.
Owed(b) == IF b.reset.set THEN b.reset.reliable_size ELSE b.off

\* A byte the peer must get and has not acknowledged is still in the buffer,
\* and is queued to be sent or is in a packet whose loss would be noticed; a
\* stream with data it may send is in the queue that send() serves.
\* (emit(), ack_and_drop(), retransmit() and the handling of lost frames.)
NoDataForgotten ==
  \A s \in Streams : Open(s) =>
    /\ \A o \in Bytes(0, Owed(snd[s])) :
         \/ o \in snd[s].acked
         \/ /\ snd[s].front <= o /\ o < Back(snd[s])
            /\ o \in snd[s].unsent \/ o \in Carried(s)
    /\ IsFlushable(snd[s]) /\ CanSendBuffered(snd[s]) => s \in flushable

\* A stream that has become writable, by is_writable(), is in the queue that
\* stream_writable_next() serves, unless the application has it in hand.
WritableQueued ==
  \A s \in Streams : Open(s) /\ IsWritable(s) => s \in writable \cup handed

\* Someone will still send the FIN, or has sent it and will hear of it: the
\* stream is queued, or the last byte, with which it would be repeated, or the
\* FIN itself is in flight.
FinOnItsWay(s) ==
  LET b == snd[s]
  IN  \/ b.fin_acked \/ s \in flushable
      \/ b.fin_off - 1 \in b.unsent \cup Carried(s)
      \/ \E f \in inflight[s] : f.fin

\* The documentation of stream_send() (lib.rs:6661): an empty write with fin
\* "will lead to a 0-length FIN STREAM frame being sent at the latest offset".
\* The FIN of an open stream is acknowledged or on its way.
FinNotForgotten ==
  \A s \in Streams :
    Open(s) /\ snd[s].fin_off # None /\ ~snd[s].reset.set => FinOnItsWay(s)

\* A reset that is not acknowledged is queued or in flight in its current
\* form, also after its Reliable Size was reduced.
ResetNotForgotten ==
  \A s \in Streams :
    Open(s) /\ snd[s].reset.set /\ ~snd[s].reset.acked =>
      ResetFrameOf(snd[s]) \in reset[s] \cup resets[s]

\* Whatever is in flight or queued tells the peer the same final size, and no
\* frame reaches beyond it.
FinalSizeAgrees ==
  \A s \in Streams :
    LET b == snd[s]
    IN  /\ \A f \in inflight[s] : /\ MaxOff(f) <= b.emit_off
                                  /\ f.fin => b.fin_off = MaxOff(f)
        /\ \A q \in reset[s] \cup resets[s] : q.final_size = b.fin_off
        /\ b.fin_off # None => b.emit_off <= b.fin_off

\* The connection counts what its streams count, and stays within limits: the
\* data written and not withdrawn by a reset, with what tx_cap still lets the
\* application write, is covered by the peer's limits, and tx_buffered is what
\* the send buffers have queued (a stream is collected with its buffer as it
\* is), over writes, losses, acknowledgements and resets in any order.
SendLedger ==
  /\ \A s \in Streams : /\ snd[s].off <= snd[s].max_data
                        /\ snd[s].buffered = Cardinality(snd[s].unsent)
  /\ tx_data = MapThenSumSet(LAMBDA s : snd[s].off, Streams)
  /\ tx_data + tx_cap <= max_tx_data
  /\ tx_buffered = MapThenSumSet(LAMBDA s : snd[s].buffered, Streams)

\* max_tx_data is the "Peer's flow control limit for the connection" (lib.rs:1772).
WithinConnectionLimit == tx_data <= max_tx_data

\* debug_check_tx_buffered_consistency() (stream/mod.rs:1121) asserts of
\* tx_buffered that it "matches the actual bytes in send buffers across all
\* streams", those that are not collected.
BufferedConsistent ==
  tx_buffered = MapThenSumSet(LAMBDA s : snd[s].buffered, {s \in Streams : Open(s)})

\* A stream stopped by the peer is not collected before the application was
\* given it: the acknowledgement of the reset may come first.
StopIsHanded ==
  \A s \in Streams :
    status[s] = "collected" /\ snd[s].stopped /\ ~snd[s].shutdown => s \in handed
=============================================================================
