---------------------------- MODULE RecvStreams ----------------------------
(***************************************************************************)
(* The receive side of one connection: the STREAM, RESET_STREAM and        *)
(* RESET_STREAM_AT handlers of process_frame(), stream_recv(),             *)
(* stream_shutdown(Read), stream_readable_next(), and the part of          *)
(* send_single() that emits and retransmits MAX_STREAM_DATA, MAX_DATA and  *)
(* STOP_SENDING.  The streams are opened by the peer and unidirectional.   *)
(*                                                                         *)
(* A frame the connection rejects closes it: later packets are ignored and *)
(* only the application goes on reading what is buffered.                  *)
(***************************************************************************)
EXTENDS RecvBuf, FiniteSetsExt

CONSTANTS
  Streams,          \* the peer's unidirectional streams
  Incremental,      \* those with an incremental priority
  DataFrames,       \* the STREAM frames the peer may send: [off, len, fin]
  ResetFrames,      \* its RESET_STREAM and RESET_STREAM_AT frames
  InitialMaxStreamData, MaxStreamWindow,
  InitialMaxData, MaxConnWindow,
  Cap               \* bound on rx_data, standing for the varint limit

ASSUME RecvAssumption ==
  /\ Incremental \subseteq Streams
  /\ DataFrames \subseteq [off : Nat, len : Nat, fin : BOOLEAN]
  /\ ResetFrames \subseteq [at : BOOLEAN, error_code : Nat, final_size : Nat,
                            reliable_size : Nat]
  /\ \A q \in ResetFrames : ~q.at => q.reliable_size = 0
  /\ InitialMaxStreamData \in Nat /\ MaxStreamWindow \in Nat
  /\ InitialMaxData \in Nat /\ MaxConnWindow \in Nat
  /\ Cap \in Nat

VARIABLES
  status,               \* "idle", "open" or "collected", per stream
  recv,                 \* the stream's RecvBuf
  rx_data,              \* connection: bytes charged against flow control
  fc,                   \* connection: the flow controller
  readable,             \* streams queued for stream_readable_next()
  almost_full,          \* streams that owe the peer a MAX_STREAM_DATA
  stopped,              \* streams that owe the peer a STOP_SENDING
  should_send_max_data, \* the connection owes the peer a MAX_DATA
  inflight,             \* control frames in packets not yet acked or lost
  closed,               \* local_error is set
  \* History: they observe the run and guide nothing.
  owed,                 \* bytes charged for a stream and not yet credited
  wasted,               \* of these, charged for frames write() ignored
  got,                  \* byte offsets accepted
  held                  \* popped by stream_readable_next(), not drained since

connVars == <<rx_data, fc>>
queueVars == <<almost_full, stopped, should_send_max_data, inflight>>
histVars == <<owed, wasted, got, held>>
vars == <<status, recv, rx_data, fc, readable, almost_full, stopped,
          should_send_max_data, inflight, closed, owed, wasted, got, held>>

ControlFrames ==
  [type : {"MAX_STREAM_DATA", "STOP_SENDING"}, stream : Streams]
    \cup [type : {"MAX_DATA"}]

MaxStreamDataFrame(s) == [type |-> "MAX_STREAM_DATA", stream |-> s]
StopSendingFrame(s) == [type |-> "STOP_SENDING", stream |-> s]
MaxDataFrame == [type |-> "MAX_DATA"]

Init ==
  /\ status = [s \in Streams |-> "idle"]
  /\ recv = [s \in Streams |->
               RecvNew(InitialMaxStreamData, InitialMaxStreamData, MaxStreamWindow)]
  /\ rx_data = 0
  /\ fc = FcNew(InitialMaxData, InitialMaxData, MaxConnWindow)
  /\ readable = {}
  /\ almost_full = {}
  /\ stopped = {}
  /\ should_send_max_data = FALSE
  /\ inflight = {}
  /\ closed = FALSE
  /\ owed = [s \in Streams |-> 0]
  /\ wasted = [s \in Streams |-> 0]
  /\ got = [s \in Streams |-> {}]
  /\ held = {}

-----------------------------------------------------------------------------
(* The handlers of process_frame().                                        *)

\* get_or_create_stream(): a collected stream's frames are ignored.
GetOrCreate(s) ==
  /\ ~closed
  /\ status[s] # "collected"
  /\ status' = [status EXCEPT ![s] = "open"]

\* A handler that returns an error leaves the stream it created behind.
CloseOnError ==
  /\ closed' = TRUE
  /\ UNCHANGED <<recv, connVars, readable, queueVars, histVars>>

\* Slip: a reset does not make a stream readable.
ArmReadable_DataOnly(s, r) ==
  readable' = IF ~Ready(recv[s]) /\ DataIsReady(r) THEN readable \cup {s} ELSE readable

\* The stream joins the readable queue when it becomes readable.
ArmReadable(s, r) ==
  readable' = IF ~Ready(recv[s]) /\ Ready(r) THEN readable \cup {s} ELSE readable

MaxOffDelta(s, f) == SatSub(MaxOff(f), recv[s].len)

\* Slip: only the stream's own limit is checked.
StreamFrameError_StreamOnly(s, f) == WriteError(recv[s], f)

StreamFrameError(s, f) ==
  IF MaxOffDelta(s, f) > fc.max_data - rx_data THEN "FlowControl"
  ELSE WriteError(recv[s], f)

RecvStreamFrame(s, f) ==
  /\ GetOrCreate(s)
  /\ StreamFrameError(s, f) = "ok"
  /\ rx_data + MaxOffDelta(s, f) <= Cap
  /\ LET r == Write(recv[s], f)
         delta == MaxOffDelta(s, f)
         drained == IF recv[s].drain THEN delta ELSE 0
     IN  /\ recv' = [recv EXCEPT ![s] = r]
         /\ ArmReadable(s, r)
         /\ rx_data' = rx_data + delta
         /\ fc' = AddConsumed(fc, drained)
         /\ owed' = [owed EXCEPT ![s] = @ + (delta - drained)]
         /\ wasted' = [wasted EXCEPT ![s] =
              @ + (IF f.len = 0 /\ ~f.fin THEN delta - drained ELSE 0)]
         /\ got' = [got EXCEPT ![s] = @ \cup Bytes(f.off, MaxOff(f))]
  /\ UNCHANGED <<queueVars, closed, held>>

RejectStreamFrame(s, f) ==
  /\ GetOrCreate(s)
  /\ StreamFrameError(s, f) # "ok"
  /\ CloseOnError

ResetDelta(s, q) == SatSub(q.final_size, recv[s].len)

ResetFrameError(s, q) ==
  IF ResetDelta(s, q) > fc.max_data - rx_data THEN "FlowControl"
  ELSE ResetError(recv[s], q)

RecvResetFrame(s, q) ==
  /\ GetOrCreate(s)
  /\ q.reliable_size <= q.final_size
  /\ ResetFrameError(s, q) = "ok"
  /\ rx_data + ResetDelta(s, q) <= Cap
  /\ LET r == Reset(recv[s], q)
         credit == ResetCredit(recv[s], q)
     IN  /\ recv' = [recv EXCEPT ![s] = r]
         /\ ArmReadable(s, r)
         /\ rx_data' = rx_data + ResetDelta(s, q)
         /\ fc' = AddConsumed(fc, credit)
         /\ owed' = [owed EXCEPT ![s] = @ + ResetDelta(s, q) - credit]
  /\ UNCHANGED <<queueVars, closed, wasted, got, held>>

\* Reliable Size above Final Size is refused before the stream is looked up.
RejectResetFrame(s, q) ==
  /\ \/ /\ q.reliable_size > q.final_size
        /\ ~closed
        /\ UNCHANGED status
     \/ /\ q.reliable_size <= q.final_size
        /\ GetOrCreate(s)
        /\ ResetFrameError(s, q) # "ok"
  /\ CloseOnError

-----------------------------------------------------------------------------
(* The application.                                                        *)

ReadableNext(s) ==
  /\ s \in readable
  /\ readable' = readable \ {s}
  /\ held' = held \cup {s}
  /\ UNCHANGED <<status, recv, connVars, queueVars, closed, owed, wasted, got>>

\* Slip: a stream whose size is known counts as complete.
IsComplete_SizeKnown(r) == r.fin_off # None

\* is_complete() for a stream the peer opened in one direction.
IsComplete(r) == IsFin(r)

\* stream_recv() returns n bytes.
StreamRecv(s, n) ==
  /\ status[s] = "open"
  /\ CanEmit(recv[s], n)
  /\ LET r == Emit(recv[s], n)
         still == Ready(r) /\ (s \in Incremental \/ ~IsComplete(r))
     IN  /\ recv' = [recv EXCEPT ![s] = r]
         /\ fc' = AddConsumed(fc, n)
         /\ owed' = [owed EXCEPT ![s] = @ - n]
         /\ almost_full' = IF AlmostFull(r) THEN almost_full \cup {s} ELSE almost_full
         /\ status' = [status EXCEPT ![s] = IF IsComplete(r) THEN "collected" ELSE @]
         /\ readable' = IF ~still THEN readable \ {s}
                        ELSE IF s \in Incremental THEN readable \cup {s}
                        ELSE readable
         /\ held' = IF still THEN held ELSE held \ {s}
  /\ UNCHANGED <<rx_data, stopped, should_send_max_data, inflight, closed,
                 wasted, got>>

\* stream_recv() returns the StreamReset error.
StreamRecvReset(s) ==
  /\ status[s] = "open"
  /\ ResetIsReady(recv[s])
  /\ LET r == DeliverReset(recv[s])
     IN  /\ recv' = [recv EXCEPT ![s] = r]
         /\ status' = [status EXCEPT ![s] = IF IsComplete(r) THEN "collected" ELSE @]
  /\ readable' = readable \ {s}
  /\ held' = held \ {s}
  /\ UNCHANGED <<connVars, queueVars, closed, owed, wasted, got>>

\* stream_shutdown(Shutdown::Read)
StreamShutdownRead(s) ==
  /\ status[s] = "open"
  /\ ~recv[s].drain
  /\ LET r == Shutdown(recv[s])
         credit == ShutdownCredit(recv[s])
     IN  /\ recv' = [recv EXCEPT ![s] = r]
         /\ fc' = AddConsumed(fc, credit)
         /\ owed' = [owed EXCEPT ![s] = @ - credit]
         /\ stopped' = IF IsFin(r) THEN stopped ELSE stopped \cup {s}
  /\ readable' = readable \ {s}
  /\ held' = held \ {s}
  /\ UNCHANGED <<status, rx_data, almost_full, should_send_max_data, inflight,
                 closed, wasted, got>>

-----------------------------------------------------------------------------
(* send_single(): emission, and requeueing of what a lost packet carried.  *)

\* The f64 product `recv_win * CONNECTION_WINDOW_FACTOR', truncated.
ConnectionWindowFor(w) == (w * 3) \div 2

\* A window is tuned before the frame is known to fit the packet (`room').
SendMaxStreamData(s, recent, room) ==
  /\ ~closed
  /\ s \in almost_full
  /\ IF status[s] # "open"
     THEN /\ almost_full' = almost_full \ {s}
          /\ UNCHANGED <<recv, fc, inflight>>
     ELSE LET tuned == IF AlmostFull(recv[s])
                       THEN AutotuneWindow(recv[s].fc, recent) ELSE recv[s].fc
          IN  IF ~room
              THEN /\ recv' = [recv EXCEPT ![s].fc = tuned]
                   /\ UNCHANGED <<almost_full, fc, inflight>>
              ELSE /\ recv' = [recv EXCEPT ![s].fc = UpdateMaxData(tuned)]
                   /\ almost_full' = almost_full \ {s}
                   /\ fc' = EnsureWindowLowerBound(fc, ConnectionWindowFor(tuned.window))
                   /\ inflight' = inflight \cup {MaxStreamDataFrame(s)}
  /\ UNCHANGED <<status, rx_data, readable, stopped, should_send_max_data,
                 closed, histVars>>

\* An update of the limit is due, as opposed to the repeat of a lost one.
OrganicMaxData == ShouldUpdateMaxData(fc) /\ fc.max_data < MaxDataNext(fc)

\* Slip: the repeat is forgotten when the packet has no room for it.
SendMaxData_Forgets(recent, room) ==
  /\ ~closed
  /\ OrganicMaxData \/ should_send_max_data
  /\ fc' = IF room THEN UpdateMaxData(fc) ELSE fc
  /\ should_send_max_data' = FALSE
  /\ inflight' = IF room THEN inflight \cup {MaxDataFrame} ELSE inflight
  /\ UNCHANGED <<status, recv, rx_data, readable, almost_full, stopped, closed, histVars>>

SendMaxData(recent, room) ==
  /\ ~closed
  /\ OrganicMaxData \/ should_send_max_data
  /\ LET tuned == IF OrganicMaxData THEN AutotuneWindow(fc, recent) ELSE fc
     IN  fc' = IF room THEN UpdateMaxData(tuned) ELSE tuned
  /\ should_send_max_data' = ~room
  /\ inflight' = IF room THEN inflight \cup {MaxDataFrame} ELSE inflight
  /\ UNCHANGED <<status, recv, rx_data, readable, almost_full, stopped, closed,
                 histVars>>

SendStopSending(s) ==
  /\ ~closed
  /\ s \in stopped
  /\ stopped' = stopped \ {s}
  /\ inflight' = inflight \cup {StopSendingFrame(s)}
  /\ UNCHANGED <<status, recv, connVars, readable, almost_full,
                 should_send_max_data, closed, histVars>>

\* Another packet may carry the same frame, so the frame may stay in flight.
LoseFrame(f) ==
  /\ ~closed
  /\ f \in inflight
  /\ inflight' \in {inflight, inflight \ {f}}
  /\ \/ /\ f.type = "MAX_DATA"
        /\ should_send_max_data' = TRUE
        /\ UNCHANGED <<almost_full, stopped>>
     \/ /\ f.type = "MAX_STREAM_DATA"
        /\ almost_full' = IF status[f.stream] = "open"
                          THEN almost_full \cup {f.stream} ELSE almost_full
        /\ UNCHANGED <<should_send_max_data, stopped>>
     \/ /\ f.type = "STOP_SENDING"
        /\ stopped' = IF status[f.stream] = "open" /\ ~IsFin(recv[f.stream])
                      THEN stopped \cup {f.stream} ELSE stopped
        /\ UNCHANGED <<should_send_max_data, almost_full>>
  /\ UNCHANGED <<status, recv, connVars, readable, closed, histVars>>

-----------------------------------------------------------------------------
FromPeer ==
  \E s \in Streams :
    \/ \E f \in DataFrames : RecvStreamFrame(s, f) \/ RejectStreamFrame(s, f)
    \/ \E q \in ResetFrames : RecvResetFrame(s, q) \/ RejectResetFrame(s, q)

ByApplication ==
  \E s \in Streams :
    \/ ReadableNext(s)
    \/ \E n \in 0..recv[s].len : StreamRecv(s, n)
    \/ StreamRecvReset(s)
    \/ StreamShutdownRead(s)

OnSend ==
  \/ \E s \in Streams, recent, room \in BOOLEAN : SendMaxStreamData(s, recent, room)
  \/ \E recent, room \in BOOLEAN : SendMaxData(recent, room)
  \/ \E s \in Streams : SendStopSending(s)
  \/ \E f \in inflight : LoseFrame(f)

Next == FromPeer \/ ByApplication \/ OnSend

Spec == Init /\ [][Next]_vars

\* The application drains what is readable and the connection sends what it
\* has queued; the peer and the network promise nothing.
Fairness ==
  /\ \A s \in Streams :
       /\ WF_vars(StreamRecvReset(s) \/ \E n \in 0..recv[s].len : StreamRecv(s, n))
       /\ WF_vars(SendMaxStreamData(s, FALSE, TRUE))
       /\ WF_vars(SendStopSending(s))
  /\ WF_vars(SendMaxData(FALSE, TRUE))

FairSpec == Spec /\ Fairness

-----------------------------------------------------------------------------
(* What the receive side promises.                                         *)

TypeOK ==
  /\ status \in [Streams -> {"idle", "open", "collected"}]
  /\ recv \in [Streams -> RecvBufs]
  /\ rx_data \in Nat
  /\ fc \in FlowControls
  /\ readable \subseteq Streams
  /\ almost_full \subseteq Streams
  /\ stopped \subseteq Streams
  /\ should_send_max_data \in BOOLEAN
  /\ inflight \subseteq ControlFrames
  /\ closed \in BOOLEAN
  /\ owed \in [Streams -> Int]
  /\ wasted \in [Streams -> Nat]
  /\ got \in [Streams -> SUBSET Nat]
  /\ held \subseteq Streams

\* Connection credit is neither lost nor granted twice: over any sequence of
\* STREAM and RESET_STREAM[_AT] frames, reads and shutdowns, what a stream
\* was charged and not yet given back is exactly what it still holds unread,
\* besides what it was charged for frames that write() ignored.
CreditLedger ==
  \A s \in Streams : owed[s] = Unread(recv[s]) + wasted[s]

\* No unsigned subtraction of the receive path underflows: the connection
\* limit covers rx_data, and a stream's limit covers what it received, read
\* and consumed.
NoUnderflow ==
  /\ rx_data <= fc.max_data
  /\ \A s \in Streams :
       /\ recv[s].off <= recv[s].len /\ recv[s].len <= recv[s].fc.max_data
       /\ recv[s].fc.consumed <= recv[s].off

\* Every accepted byte at or above the read offset stays buffered until the
\* application reads it, discards it with a shutdown, or a reset's Reliable
\* Size gives it up; and only accepted bytes are buffered or read.
NoByteLost == \A s \in Streams : BytesKept(recv[s], got[s])

\* stream_readable_next() misses no stream: one with something to read is
\* queued, or was handed to the application, which has not drained it since.
\* And it returns no stream without anything to read.
ReadableExact ==
  /\ \A s \in Streams : status[s] = "open" /\ Ready(recv[s]) => s \in readable \cup held
  /\ \A s \in readable \cup held : status[s] = "open" /\ Ready(recv[s])

\* A stream is collected only once its size is known and nothing it was
\* charged for is outstanding: is_complete() holds for good.
CollectedIsSettled ==
  \A s \in Streams : status[s] = "collected" =>
    /\ recv[s].fin_off # None
    /\ recv[s].off = recv[s].fin_off
    /\ owed[s] = wasted[s]

\* When the application has read all a stream may receive, a MAX_STREAM_DATA
\* is queued.
StreamCreditIsQueued ==
  \A s \in Streams :
    /\ InitialMaxStreamData > 0
    /\ status[s] = "open"
    /\ recv[s].fin_off = None
    /\ recv[s].fc.consumed = recv[s].fc.max_data
    => s \in almost_full

\* The peer is never left waiting: credit that ran out is queued to be
\* renewed, and a lost MAX_DATA, MAX_STREAM_DATA or STOP_SENDING is queued
\* again for as long as the stream needs it.
NothingForgotten ==
  /\ StreamCreditIsQueued
  /\ fc.updated => should_send_max_data \/ MaxDataFrame \in inflight
  /\ \A s \in Streams : status[s] = "open" =>
       /\ recv[s].fc.updated => s \in almost_full \/ MaxStreamDataFrame(s) \in inflight
       /\ recv[s].drain /\ ~IsFin(recv[s])
            => s \in stopped \/ StopSendingFrame(s) \in inflight

\* The final size of a stream, once known, never changes, and neither does
\* the amount of data charged for the stream.
FinalSizeFixed ==
  [][\A s \in Streams : recv[s].fin_off # None =>
       recv'[s].fin_off = recv[s].fin_off /\ recv'[s].len = recv[s].len]_vars

\* No advertised limit is ever withdrawn, by an update, a retransmission or a
\* window change.
LimitsNeverShrink ==
  [][/\ fc'.max_data >= fc.max_data
     /\ \A s \in Streams : recv'[s].fc.max_data >= recv[s].fc.max_data]_vars

\* The connection's account is the sum of its streams': no byte is counted
\* consumed before it was received, on any stream.
ConnectionLedger ==
  /\ fc.consumed <= rx_data
  /\ rx_data - fc.consumed = MapThenSumSet(LAMBDA s : owed[s], Streams)

\* The inductive invariant of the receive side: the buffers' invariant, the
\* ledger, the flow-control bounds, and for every limit due to be sent that
\* committing it does not lower what was advertised.
LimitDue(w) == w.max_data <= MaxDataNext(w)

UpdatesRaise ==
  /\ WindowConsistent(fc)
  /\ should_send_max_data => LimitDue(fc)
  /\ MaxDataFrame \in inflight => fc.updated
  /\ \A s \in Streams :
       /\ s \in almost_full => LimitDue(recv[s].fc)
       /\ MaxStreamDataFrame(s) \in inflight => recv[s].fc.updated

RecvInv ==
  /\ TypeOK
  /\ \A s \in Streams : BufInv(recv[s])
  /\ CreditLedger
  /\ NoByteLost
  /\ rx_data <= fc.max_data
  /\ UpdatesRaise

\* What is inductive, given RecvInv, about notification and collection.
NotifyInv ==
  /\ ReadableExact
  /\ CollectedIsSettled
  /\ \A s \in Streams : status[s] = "idle" => ~Ready(recv[s])

-----------------------------------------------------------------------------
(* What the documentation says and the code does not do.                   *)

\* "A unidirectional stream is considered completed when [...] the stream's
\* read direction has been shutdown", and completed streams raise the limit
\* on open streams: a stream shut down for reading whose final size is known
\* is eventually collected.
ShutdownReturnsCredit ==
  \A s \in Streams :
    (status[s] = "open" /\ recv[s].drain /\ recv[s].fin_off # None)
      ~> (status[s] = "collected" \/ closed)

\* "A unidirectional stream is considered completed when all incoming data has
\* been read by the application (up to the fin offset)": a stream read to its
\* final offset is eventually collected.
ReadToFinReturnsCredit ==
  \A s \in Streams :
    (status[s] = "open" /\ ~recv[s].reset.set /\ recv[s].off = recv[s].fin_off)
      ~> (status[s] = "collected" \/ recv[s].reset.set \/ recv[s].drain \/ closed)
=============================================================================
