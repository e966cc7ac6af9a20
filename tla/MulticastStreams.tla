-------------------------- MODULE MulticastStreams --------------------------
(***************************************************************************)
(* Multicast STREAM data on one connection of a server (quiche/src/lib.rs, *)
(* the multicast_* methods; tokio-quiche/src/multicast/server_control.rs,  *)
(* the calls of them).  A shared publisher sends each range of a stream in *)
(* a channel packet.  Once the client has proven the channel viable, with  *)
(* an MC_ACK, the connection withholds the range: it keeps the bytes as if *)
(* sent, and sends them over unicast only if the channel packet is         *)
(* reported lost or the channel is given up.                               *)
(*                                                                         *)
(* The client acknowledges a channel packet only after the MC_INTEGRITY    *)
(* that this connection relays once it has registered the packet.  MC_ACK  *)
(* and MC_STATE frames come in any order and may be arbitrarily late.      *)
(***************************************************************************)
EXTENDS SendBuf, FiniteSetsExt, SequencesExt

CONSTANTS
  Channels,         \* channel IDs
  Streams,          \* stream IDs, of the server's unidirectional streams
  reordering_threshold,
  max_pending_ranges_per_connection,
  max_pending_ranges_per_channel,
  max_withheld_bytes_per_connection,
  max_withheld_bytes_per_channel,
  MaxStreamData,    \* the client's limit on a stream
  MaxPackets,       \* bound: packets of a channel
  PublishLens,      \* bound: sizes of a published range
  ReliableSizes     \* bound: arguments of stream_shutdown_at()

ASSUME MulticastAssumption ==
  /\ reordering_threshold \in Nat \ {0}
  /\ {max_pending_ranges_per_connection, max_pending_ranges_per_channel,
      max_withheld_bytes_per_connection, max_withheld_bytes_per_channel,
      MaxStreamData, MaxPackets} \subseteq Nat
  /\ PublishLens \subseteq Nat /\ ReliableSizes \subseteq Nat

VARIABLES
  status,         \* idle, open or collected
  snd,            \* Stream::send
  flushable,      \* StreamMap::flushable
  tx_buffered,    \* StreamMap::tx_buffered
  inflight,       \* STREAM frames tracked by loss recovery
  probe,          \* multicast_probe_states
  recovery,       \* multicast_stream_recovery
  withheld_bytes, \* multicast_stream_withheld_bytes
  pending_ranges, \* multicast_stream_pending_ranges
  deliveries,     \* multicast_stream_deliveries, None or the max_offset
  registered,     \* packets of the channel the client may acknowledge
  generation      \* ghost: the first packet that can prove the channel viable

streamVars == <<status, snd, flushable, tx_buffered, inflight>>
ledgerVars == <<withheld_bytes, pending_ranges, deliveries>>
vars == <<streamVars, probe, recovery, ledgerVars, registered, generation>>

Open(s) == status[s] = "open"

\* A channel the connection does not know of, and one without STREAM state.
\* "Down" is what the code treats alike: JoinFailed, Left, Retired, TimedOut.
NoProbe == [status |-> "none", deadline |-> FALSE, ack_timeout |-> FALSE]
NoRecovery == [present |-> FALSE, first |-> None, largest |-> None, acked |-> None,
               awaiting |-> FALSE, pending |-> {}, bytes |-> 0]

\* Packet numbers start at 0.
NextPacket(c) == Cardinality(registered[c])

Init ==
  /\ status = [s \in Streams |-> "idle"]
  /\ snd = [s \in Streams |-> SendNew(MaxStreamData)]
  /\ flushable = {} /\ tx_buffered = 0
  /\ inflight = [s \in Streams |-> {}]
  /\ probe = [c \in Channels |-> NoProbe]
  /\ recovery = [c \in Channels |-> NoRecovery]
  /\ withheld_bytes = 0 /\ pending_ranges = 0
  /\ deliveries = [s \in Streams |-> None]
  /\ registered = [c \in Channels |-> {}]
  /\ generation = [c \in Channels |-> 0]

TotalLen(ranges) == MapThenSumSet(LAMBDA r : r.len, ranges)

-----------------------------------------------------------------------------
(* Ranges leave `pending' in the order of their packets.                   *)

InOrder(ranges) == SetToSortSeq(ranges, LAMBDA q, r : q.pn < r.pn)
OfStream(ranges, s) == {r \in ranges : r.stream = s}

\* multicast_stream_mark_delivered(), for the send buffer.
MarkDelivered(b, r) == AckAndDrop(b, r, Cardinality(AckDropped(b, r)))

\* multicast_stream_schedule_range(), for the send buffer.
ScheduleRange(b, r) ==
  IF CanSendBuffered(b) THEN Retransmit(b, r, Cardinality(Retransmitted(b, r))) ELSE b

Delivered(b, ranges) == FoldLeft(MarkDelivered, b, InOrder(ranges))
Scheduled(b, ranges) == FoldLeft(ScheduleRange, b, InOrder(ranges))

\* Whether releasing the ranges puts the stream in the flushable queue.
Requeues(s, b, ranges) ==
  /\ OfStream(ranges, s) # {} /\ CanSendBuffered(b)
  /\ \/ IsFlushable(b)
     \/ \E r \in OfStream(ranges, s) : r.len = 0 /\ r.fin

\* The streams and the ledgers after `done' was reported delivered and `lost'
\* was released.  A stream that is complete is collected.
Resolved(done, lost) ==
  LET open == {s \in Streams : Open(s)}
      acked == [s \in Streams |-> IF s \in open THEN Delivered(snd[s], OfStream(done, s))
                                  ELSE snd[s]]
      complete == {s \in open : OfStream(done, s) # {} /\ SendIsComplete(acked[s])}
      after == [s \in Streams |->
                  IF s \in open \ complete THEN Scheduled(acked[s], OfStream(lost, s))
                  ELSE acked[s]]
  IN  [snd |-> after,
       status |-> [s \in Streams |-> IF s \in complete THEN "collected" ELSE status[s]],
       flushable |-> (flushable \ complete) \cup
                       {s \in open \ complete : Requeues(s, after[s], lost)},
       tx_buffered |-> tx_buffered +
          MapThenSumSet(LAMBDA s : after[s].buffered - acked[s].buffered, Streams),
       deliveries |-> [s \in Streams |->
          IF s \in complete THEN None
          ELSE Max({deliveries[s]} \cup {MaxOff(r) : r \in OfStream(done, s)})],
       withheld_bytes |-> SatSub(withheld_bytes, TotalLen(done \cup lost)),
       pending_ranges |-> SatSub(pending_ranges, Cardinality(done \cup lost))]

Become(r) ==
  /\ snd' = r.snd /\ status' = r.status
  /\ flushable' = r.flushable /\ tx_buffered' = r.tx_buffered
  /\ deliveries' = r.deliveries
  /\ withheld_bytes' = r.withheld_bytes /\ pending_ranges' = r.pending_ranges

-----------------------------------------------------------------------------
(* multicast_set_probe_state()                                             *)

\* Slip: what is withheld stays withheld.
Released_Kept(c, state) == {}

\* multicast_stream_release_channel(), unless the channel is viable.
Released(c, state) == IF state = "Viable" THEN {} ELSE recovery[c].pending

WithoutPending(r, ranges) ==
  [r EXCEPT !.pending = @ \ ranges, !.bytes = SatSub(@, TotalLen(ranges))]

Release(ranges) == Become(Resolved({}, ranges))

SetProbeState(c, state, deadline) ==
  probe' = [probe EXCEPT ![c].status = state, ![c].deadline = deadline]

\* multicast_on_timeout()
OnTimeout(c) ==
  /\ probe[c].status \in {"Probing", "Viable"} /\ probe[c].deadline
  /\ SetProbeState(c, "Down", FALSE)
  /\ Release(Released(c, "Down"))
  /\ recovery' = [recovery EXCEPT ![c] = WithoutPending(@, Released(c, "Down"))]
  /\ UNCHANGED <<inflight, registered, generation>>

\* multicast_on_state_frame(), for the client's MC_STATE or a local one.
StateDeadline(c, state) ==
  state = "Probing" /\ (probe[c].deadline \/ probe[c].ack_timeout)

OnStateFrame(c, state) ==
  /\ probe[c].status # "none"
  /\ SetProbeState(c, state, StateDeadline(c, state))
  /\ Release(Released(c, state))
  /\ recovery' = [recovery EXCEPT ![c] = WithoutPending(@, Released(c, state))]
  /\ UNCHANGED <<inflight, registered, generation>>

\* Slip: acknowledgements of the last generation still count.
StartGeneration_Same(r) == r

\* An ACK must go beyond what was published before.
StartGeneration(r) ==
  IF r.present THEN [r EXCEPT !.acked = r.largest, !.awaiting = r.largest = None] ELSE r

\* upsert_channel_config(): a channel known from before is probed anew, and the
\* ACK timeout is set.
UpsertChannelConfig(c, r) ==
  LET known == probe[c].status # "none"
  IN  /\ recovery' = [recovery EXCEPT ![c] = IF known THEN StartGeneration(r) ELSE r]
      /\ probe' = [probe EXCEPT ![c] = [status |-> "Probing", deadline |-> FALSE,
                                        ack_timeout |-> TRUE]]
      /\ generation' = [generation EXCEPT ![c] = NextPacket(c)]

\* AttachStreamPublisher: the recovery state is created before the channel is
\* configured.
AttachStreamPublisher(c) ==
  /\ ~recovery[c].present
  /\ UpsertChannelConfig(c, [recovery[c] EXCEPT !.present = TRUE])
  /\ UNCHANGED <<streamVars, ledgerVars, registered>>

\* multicast_probe_reset(), which sending MC_JOIN calls.
ProbeReset(c) ==
  /\ recovery[c].present
  /\ SetProbeState(c, "Probing", FALSE)
  /\ Release(Released(c, "Probing"))
  /\ recovery' = [recovery EXCEPT
       ![c] = WithoutPending(StartGeneration(@), Released(c, "Probing"))]
  /\ generation' = [generation EXCEPT ![c] = NextPacket(c)]
  /\ UNCHANGED <<inflight, registered>>

\* Detaching probes anew, retiring says so; either stops the channel.
StopChannel(c, state) ==
  /\ recovery[c].present
  /\ SetProbeState(c, state, FALSE)
  /\ Release(Released(c, state))
  /\ recovery' = [recovery EXCEPT ![c] = NoRecovery]
  /\ UNCHANGED <<inflight, registered, generation>>

-----------------------------------------------------------------------------
(* multicast_stream_send_buf()                                             *)

\* Slip: the range that reaches the limit is let in.
WouldExceed_After(c, len) ==
  \/ pending_ranges > max_pending_ranges_per_connection
  \/ Cardinality(recovery[c].pending) > max_pending_ranges_per_channel
  \/ withheld_bytes > max_withheld_bytes_per_connection
  \/ recovery[c].bytes > max_withheld_bytes_per_channel

\* multicast_stream_recovery_would_exceed()
WouldExceed(c, len) ==
  \/ pending_ranges >= max_pending_ranges_per_connection
  \/ Cardinality(recovery[c].pending) >= max_pending_ranges_per_channel
  \/ withheld_bytes + len > max_withheld_bytes_per_connection
  \/ recovery[c].bytes + len > max_withheld_bytes_per_channel

\* SendBuf::write_at(): one chunk; withheld bytes count as sent.
WriteAt(b, len, fin, transmit) ==
  [b EXCEPT !.fin_off = IF fin THEN b.off + len ELSE @,
            !.fin_acked = IF fin THEN FALSE ELSE @,
            !.cuts = IF len > 0 THEN @ \cup {b.off + len} ELSE @,
            !.unsent = IF transmit THEN @ \cup Bytes(b.off, b.off + len) ELSE @,
            !.off = b.off + len,
            !.buffered = IF transmit THEN @ + len ELSE @]

\* The connection's credit is shared with streams that are not modelled: it may
\* be below len at any time.
MayLackCredit(len) == len > 0

\* Why multicast_stream_do_send_buf() gives up, the connection's credit apart.
CannotWrite(s, len) ==
  \/ status[s] = "collected"
  \/ snd[s].shutdown \/ snd[s].stopped \/ SendIsFin(snd[s])
  \/ SendCap(snd[s]) < len

Register(c) ==
  /\ recovery[c].present /\ NextPacket(c) < MaxPackets
  /\ registered' = [registered EXCEPT ![c] = @ \cup {NextPacket(c)}]

Published(r, pn) ==
  [r EXCEPT !.awaiting = FALSE, !.first = IF @ = None THEN pn ELSE @, !.largest = pn]

\* The channel is viable and there is room: the range is withheld.
PublishWithheld(c, s, len, fin) ==
  LET pn == NextPacket(c)
      r == [pn |-> pn, stream |-> s, off |-> snd[s].off, len |-> len, fin |-> fin]
  IN  /\ Register(c)
      /\ probe[c].status = "Viable" /\ ~WouldExceed(c, len) /\ ~CannotWrite(s, len)
      /\ snd' = [snd EXCEPT ![s] = WriteAt(@, len, fin, FALSE)]
      /\ status' = [status EXCEPT ![s] = "open"]
      /\ recovery' = [recovery EXCEPT
           ![c] = [Published(@, pn) EXCEPT !.pending = @ \cup {r}, !.bytes = @ + len]]
      /\ withheld_bytes' = withheld_bytes + len
      /\ pending_ranges' = pending_ranges + 1
      /\ UNCHANGED <<flushable, tx_buffered, inflight, probe, deliveries, generation>>

\* The range is written to be sent over unicast.
Written(r, s, len, fin) ==
  LET b == WriteAt(r.snd[s], len, fin, TRUE)
      queued == (IsFlushable(b) \/ (len = 0 /\ fin)) /\ ~IsFlushable(r.snd[s])
  IN  [r EXCEPT !.snd[s] = b, !.status[s] = "open",
                !.flushable = IF queued THEN @ \cup {s} ELSE @,
                !.tx_buffered = @ + len]

PublishFallback(c, s, len, fin) ==
  /\ Register(c)
  /\ probe[c].status # "Viable" /\ ~CannotWrite(s, len)
  /\ Become(Written(Resolved({}, {}), s, len, fin))
  /\ recovery' = [recovery EXCEPT ![c] = Published(@, NextPacket(c))]
  /\ UNCHANGED <<inflight, probe, generation>>

\* At a limit the channel is given up first, whether or not the range can
\* then be written.
PublishLimited(c, s, len, fin) ==
  LET lost == Released(c, "RecoveryLimited")
      r == WithoutPending(recovery[c], lost)
      released == Resolved({}, lost)
  IN  /\ probe[c].status = "Viable" /\ WouldExceed(c, len)
      /\ SetProbeState(c, "RecoveryLimited", FALSE)
      /\ \/ /\ CannotWrite(s, len) \/ MayLackCredit(len)
            /\ recovery[c].present /\ NextPacket(c) < MaxPackets
            /\ Become(released)
            /\ recovery' = [recovery EXCEPT ![c] = r]
            /\ UNCHANGED registered
         \/ /\ ~CannotWrite(s, len)
            /\ Become(Written(released, s, len, fin))
            /\ recovery' = [recovery EXCEPT ![c] = Published(r, NextPacket(c))]
            /\ Register(c)
      /\ UNCHANGED <<inflight, generation>>

-----------------------------------------------------------------------------
(* multicast_process_peer_ack()                                            *)

\* Why multicast_stream_on_peer_ack() fails: nothing such was published.
InvalidAckRange(r, largest) ==
  /\ r.present
  /\ \/ r.largest = None /\ ~r.awaiting
     \/ r.largest # None /\ largest > r.largest

\* An ACK of packets from before the channel was attached is ignored.
Ignored(r, largest) == r.present /\ (r.largest = None \/ largest < r.first)

Fresh(r, largest) == ~r.present \/ r.acked = None \/ largest > r.acked

\* What the ACK makes of the channel: viable, but for one given up at a limit.
OnPeerAck(c) ==
  IF probe[c].status = "RecoveryLimited" THEN UNCHANGED probe
  ELSE SetProbeState(c, "Viable", probe[c].ack_timeout)

ProcessPeerAck(c, acked) ==
  LET r == recovery[c]
      largest == Max(acked)
      done == {q \in r.pending : q.pn \in acked}
      lost == {q \in r.pending \ done : q.pn + reordering_threshold <= largest}
      late == IF Fresh(r, largest) THEN lost ELSE {}
  IN  /\ probe[c].status # "none"
      /\ ~InvalidAckRange(r, largest) /\ ~Ignored(r, largest)
      /\ recovery' = IF r.present
           THEN [recovery EXCEPT
                   ![c] = [WithoutPending(r, done \cup late) EXCEPT
                             !.acked = Max({@, largest})]]
           ELSE recovery
      /\ Become(Resolved(done, late))
      /\ IF Fresh(r, largest) THEN OnPeerAck(c) ELSE UNCHANGED probe
      /\ UNCHANGED <<inflight, registered, generation>>

-----------------------------------------------------------------------------
(* The unicast side: packets of the connection, and the end of a stream.   *)

\* send(): a STREAM frame with all that is contiguous.
EmitStream(s) ==
  LET b == snd[s]
  IN  /\ s \in flushable
      /\ IF CanSendBuffered(b)
         THEN \E n \in EmitLens(b, MaxStreamData + 1) :
                /\ snd' = [snd EXCEPT ![s] = SendEmit(b, n)]
                /\ inflight' = [inflight EXCEPT ![s] = @ \cup {EmitFrame(b, n)}]
                /\ flushable' = IF IsFlushable(SendEmit(b, n)) THEN flushable
                                ELSE flushable \ {s}
                /\ tx_buffered' = tx_buffered - n
         ELSE /\ flushable' = flushable \ {s}
              /\ UNCHANGED <<snd, inflight, tx_buffered>>
      /\ UNCHANGED <<status, probe, recovery, ledgerVars, registered, generation>>

AckStream(s, f) ==
  LET b == AckAndDrop(snd[s], f, Cardinality(AckDropped(snd[s], f)))
      done == SendIsComplete(b) /\ ~b.stopped
  IN  /\ Open(s)
      /\ inflight' = [inflight EXCEPT ![s] = @ \ {f}]
      /\ snd' = [snd EXCEPT ![s] = b]
      /\ tx_buffered' = tx_buffered + b.buffered - snd[s].buffered
      /\ status' = IF done THEN [status EXCEPT ![s] = "collected"] ELSE status
      /\ flushable' = IF done THEN flushable \ {s} ELSE flushable
      /\ deliveries' = IF done THEN [deliveries EXCEPT ![s] = None] ELSE deliveries
      /\ UNCHANGED <<probe, recovery, withheld_bytes, pending_ranges, registered,
                     generation>>

LoseStream(s, f) ==
  LET b == Retransmit(snd[s], f, Cardinality(Retransmitted(snd[s], f)))
      empty_fin == f.len = 0 /\ f.fin /\ ~snd[s].reset.set
  IN  /\ Open(s)
      /\ inflight' = [inflight EXCEPT ![s] = @ \ {f}]
      /\ IF CanSendBuffered(snd[s])
         THEN /\ snd' = [snd EXCEPT ![s] = b]
              /\ flushable' = IF (IsFlushable(b) \/ empty_fin) /\ ~IsFlushable(snd[s])
                              THEN flushable \cup {s} ELSE flushable
              /\ tx_buffered' = tx_buffered + b.buffered - snd[s].buffered
         ELSE UNCHANGED <<snd, flushable, tx_buffered>>
      /\ UNCHANGED <<status, probe, recovery, ledgerVars, registered, generation>>

\* Slip: what the client got over multicast is not counted.
FinalSizeWith_Emitted(s, size) == size

\* A reset covers what the client has acknowledged over multicast.
FinalSizeWith(s, size) == Greater(size, deliveries[s])

\* What is withheld of the stream, and the channels without it.
Pending(s) == UNION {OfStream(recovery[c].pending, s) : c \in Channels}
Forgotten(s) == [c \in Channels |->
  WithoutPending(recovery[c], OfStream(recovery[c].pending, s))]

\* What is withheld below the Reliable Size is sent over unicast.
Owing(b, s) == FoldLeft(LAMBDA x, r : Retransmit(x, r, Cardinality(Retransmitted(x, r))),
                        b, InOrder(Pending(s)))

\* multicast_stream_take_pending_for_stream(), and what both callers do else.
AfterTermination(s, b) ==
  /\ snd' = [snd EXCEPT ![s] = b]
  /\ tx_buffered' = tx_buffered + b.buffered - snd[s].buffered
  /\ flushable' = IF IsFlushable(b) THEN flushable \cup {s} ELSE flushable \ {s}
  /\ recovery' = Forgotten(s)
  /\ withheld_bytes' = SatSub(withheld_bytes, TotalLen(Pending(s)))
  /\ pending_ranges' = SatSub(pending_ranges, Cardinality(Pending(s)))
  /\ deliveries' = [deliveries EXCEPT ![s] = None]

Terminated(b, q) == Terminate(b, q, Cardinality(Discarded(b, q)))

\* stream_shutdown_write()
StreamShutdown(s, q) ==
  /\ Open(s) /\ ShutdownResult(snd[s], q) = "ok"
  /\ AfterTermination(s, [Owing(Terminated(snd[s], q), s) EXCEPT !.shutdown = TRUE])
  /\ UNCHANGED <<status, inflight, probe, registered, generation>>

Shutdown(s) ==
  StreamShutdown(s, ResetRequest(FALSE, 0,
                                 FinalSizeWith(s, OrdinaryFinalSize(snd[s])), 0))

ShutdownAt(s, reliable_size) ==
  StreamShutdown(s, ResetRequest(TRUE, 0,
                                 FinalSizeWith(s, ReliableFinalSize(snd[s])),
                                 reliable_size))

\* process_stop_sending()
RecvStopSending(s) ==
  LET q == ResetRequest(FALSE, 0, FinalSizeWith(s, OrdinaryFinalSize(snd[s])), 0)
  IN  /\ Open(s) /\ ~snd[s].stopped
      /\ IF snd[s].reset.set
         THEN /\ snd' = [snd EXCEPT ![s].stopped = TRUE]
              /\ flushable' = IF IsFlushable(snd[s]) THEN flushable \cup {s}
                              ELSE flushable \ {s}
              /\ UNCHANGED <<tx_buffered, recovery, ledgerVars>>
         ELSE AfterTermination(s, [Terminated(snd[s], q) EXCEPT !.stopped = TRUE])
      /\ UNCHANGED <<status, inflight, probe, registered, generation>>

\* The acknowledgement of the reset; one that is stopped waits for the
\* application.
AckResetFrame(s) ==
  LET b == AckReset(snd[s], ResetFrameOf(snd[s]))
      done == SendIsComplete(b) /\ ~b.stopped
  IN  /\ Open(s) /\ snd[s].reset.set /\ ~snd[s].reset.acked
      /\ snd' = [snd EXCEPT ![s] = b]
      /\ status' = IF done THEN [status EXCEPT ![s] = "collected"] ELSE status
      /\ flushable' = IF done THEN flushable \ {s} ELSE flushable
      /\ UNCHANGED <<tx_buffered, inflight, probe, recovery, ledgerVars, registered,
                     generation>>

-----------------------------------------------------------------------------
Channel(c) ==
  \/ AttachStreamPublisher(c) \/ ProbeReset(c) \/ OnTimeout(c)
  \/ \E state \in {"Probing", "Down"} : OnStateFrame(c, state)
  \/ \E state \in {"Probing", "Down"} : StopChannel(c, state)
  \/ \E acked \in SUBSET registered[c] \ {{}} : ProcessPeerAck(c, acked)
  \/ \E s \in Streams, len \in PublishLens, fin \in BOOLEAN :
       \/ PublishWithheld(c, s, len, fin)
       \/ PublishFallback(c, s, len, fin)
       \/ PublishLimited(c, s, len, fin)

Stream(s) ==
  \/ EmitStream(s)
  \/ \E f \in inflight[s] : AckStream(s, f) \/ LoseStream(s, f)
  \/ Shutdown(s) \/ RecvStopSending(s) \/ AckResetFrame(s)
  \/ \E size \in ReliableSizes : ShutdownAt(s, size)

Next == (\E c \in Channels : Channel(c)) \/ (\E s \in Streams : Stream(s))

Spec == Init /\ [][Next]_vars

-----------------------------------------------------------------------------
(* Properties                                                              *)

Carried(s) == UNION {Bytes(f.off, MaxOff(f)) : f \in inflight[s]}

\* A deadline watches the channel, and its end releases what is withheld.
Watched(c) == probe[c].status = "Viable" /\ probe[c].deadline

Withheld(s) ==
  UNION {Bytes(r.off, MaxOff(r)) :
           r \in OfStream(UNION {recovery[c].pending : c \in {c \in Channels : Watched(c)}}, s)}

\* A byte that the client must get and has not acknowledged is queued, in a
\* packet whose loss is noticed, or withheld on a viable channel whose deadline
\* is armed: an MC_ACK, the timeout or the end of the channel resolves it.
RangeNotForgotten ==
  \A s \in Streams : Open(s) =>
    LET b == snd[s]
        owed == IF b.reset.set THEN b.reset.reliable_size ELSE b.off
    IN  \A o \in Bytes(0, owed) \ b.acked :
          \/ o \in b.unsent /\ s \in flushable
          \/ o \in Carried(s) \cup Withheld(s)

\* The connection's and the channels' totals are those of the ranges withheld,
\* however these were resolved, and stay within the limits.
WithheldLedger ==
  /\ \A c \in Channels :
       /\ recovery[c].bytes = TotalLen(recovery[c].pending)
       /\ recovery[c].bytes <= max_withheld_bytes_per_channel
       /\ Cardinality(recovery[c].pending) <= max_pending_ranges_per_channel
  /\ withheld_bytes = MapThenSumSet(LAMBDA c : recovery[c].bytes, Channels)
  /\ withheld_bytes <= max_withheld_bytes_per_connection
  /\ pending_ranges =
       MapThenSumSet(LAMBDA c : Cardinality(recovery[c].pending), Channels)
  /\ pending_ranges <= max_pending_ranges_per_connection

\* The final size of a reset covers every byte the client has acknowledged,
\* over unicast or multicast, and every byte sent to it over unicast.
ResetCoversDelivered ==
  \A s \in Streams : snd[s].reset.set =>
    /\ snd[s].emit_off <= snd[s].reset.final_size
    /\ \A o \in snd[s].acked : o < snd[s].reset.final_size

\* A channel with a publisher is viable only if the client acknowledged a
\* packet published since it was last attached or probed anew.  However late
\* an MC_ACK comes, it is not taken for an error of the client.
ViableIsProven ==
  \A c \in Channels : recovery[c].present =>
    /\ probe[c].status = "Viable" => recovery[c].acked >= generation[c]
    /\ \A pn \in registered[c] : ~InvalidAckRange(recovery[c], pn)
=============================================================================
