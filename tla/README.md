# A TLA+ development of quiche's transport

This directory models the transport of this repository in TLA+, checks the
models with TLC and proves theorems about them with TLAPS. It covers what every
user of the library depends on: that the bytes written to a stream are read, in
order and once, at the other end; that the credits for bytes and for streams
neither leak nor stall; that what is lost is sent again; that connection
identifiers and paths stay consistent with what the peer believes; and what
this repository adds, streams over multicast channels, with the queue that
feeds them.

Line numbers without a file are those of `src/quiche/src/lib.rs`; other files are
named below `src/quiche/src/` unless they start with a crate's name.

## The system and its parts

| part | source | here |
|---|---|---|
| flow-control windows | `flowcontrol.rs` | `FlowControl` |
| receive buffer | `stream/recv_buf.rs`, `range_buf.rs` | `RecvBuf`, `RecvChunks`, `RecvBufSpec` |
| receive side of a connection | `lib.rs`, `stream/mod.rs` | `RecvStreams` |
| send buffer | `stream/send_buf.rs` | `SendBuf` |
| send side of a connection | `lib.rs`, `stream/mod.rs` | `SendStreams` |
| a stream end to end | both buffers | `StreamTransfer`, `ByteStream` |
| stream IDs, limits on their number | `stream/mod.rs`, `lib.rs` | `StreamLimits`, `CollectedIds` |
| loss recovery, PTO, packet number spaces | `recovery/congestion/recovery.rs`, `lib.rs` | `LossRecovery` |
| ranges of bytes and packet numbers | `ranges.rs` | `RangeSet` |
| connection IDs | `cid.rs`, `lib.rs` | `ConnectionIds`, `CidExchange` |
| paths and migration | `path.rs`, `lib.rs` | `Paths`, `Migration` |
| datagram queues | `dgram.rs` | `DatagramQueue` |
| path MTU discovery | `pmtud.rs` | `Pmtud` |
| streams over multicast channels | `multicast.rs`, `lib.rs`, `tokio-quiche/src/multicast/server_control.rs` | `MulticastStreams` |
| queue between receive tasks and worker | `tokio-quiche/src/multicast/bounded_queue.rs`, `client.rs` | `BoundedQueue` |
| packets between two endpoints | `recovery/congestion/recovery.rs`; the network is external | `Wire` |

What has no module is listed under *Not modelled*.

A `Connection` is single-threaded: the application calls `recv()`, `send()`,
`on_timeout()` and the stream functions in any order, and each call runs to
its end. An action of a model is therefore one handler, or one iteration of the
packet assembly in `send_single()`, and the interleavings are those of calls,
frames, acknowledgements and losses. `BoundedQueue` is the exception: several
tasks share it, and there a step is what happens under one lock, or one call
of the runtime.

## The modules

`StreamBasics` holds offsets, ranges and saturating subtraction. `FlowControl`
is the window as a record; time appears only as whether the last update was
less than two round trips ago, which is all that `autotune_window()` asks.

`RecvBuf` gives the operations of the receive buffer as operators on a record
whose `data` is the set of buffered offsets and whose `finbuf` tells whether the
empty chunk that carries a FIN is stored. `RecvChunks` has the `BTreeMap`
itself, keyed by the end of each chunk, with the overlap loop of `write()`
(177-208). `RecvBufSpec` makes the operators actions, and `RecvChunks` implements
it under the mapping `AbsBuf`.

`RecvStreams` is the receive side of a connection. `RecvStreamFrame` and
`RecvResetFrame` are the handlers of `process_frame()`; `RejectStreamFrame` and
`RejectResetFrame` are their error returns, after which the connection is
closed. `StreamRecv`, `StreamRecvReset`, `StreamShutdownRead` and `ReadableNext` are
the application's calls. `SendMaxStreamData`, `SendMaxData` and `SendStopSending` are the
parts of `send_single()` that emit these frames, with the window autotuning
that goes with them; a packet may have no room (`room = FALSE`). `LoseFrame` is the
handling of their loss. The variables `owed`, `wasted`, `got` and `held` are history:
no guard reads them.

`SendBuf` gives the operations of the send buffer. The chunks become the set
`cuts` of their ends, since acknowledgements and retransmissions move whole
chunks; `unsent` is what is queued. `SendStreams` adds the queues of the stream map
and the connection's accounts. A frame in `inflight` is in a packet that the
loss recovery tracks; it is acknowledged once or lost once, and a probe may
queue its contents before that. The congestion window is any value of
`Cwnds` each time the code reads it.

`StreamTransfer` joins a send buffer and a receive buffer. `wire` only grows,
so that every frame ever sent may arrive again at any time. It implements
`ByteStream`, which knows five variables: bytes written, final size, owed prefix,
bytes taken, and how the reader's side ended. A stream that the reader stopped
is in the sender's writable queue until `stream_writable_next()` reports it
(`ReportStopped`) or a call on it returns the error (`ObserveStopped`); as long as it is
there, an acknowledgement does not collect it (4154-4161, 4228-4244).

`Wire` is a bag of packets. Each is in two places: on the network, where it
flies, arrives or is dropped, and in the sender's loss recovery, which awaits
its fate. The two are independent, so a packet may be declared lost and arrive
later, and an acknowledgement may be outstanding for one that arrived.

`StreamLimits` has an endpoint that opens streams of one type and one that
accepts them, over `Wire`. `OpenStream` may skip numbers, which opens the lower
ones implicitly (`stream/mod.rs` 563). `AcceptorCollect` returns a credit, `SendMaxStreams`
announces it, `SendStreamsBlocked` asks for it, and `Requeue` is what the loss of
each frame does. `Seqs` are the numbers tried. `CollectedIds` has the structure that stands for the set of
collected numbers: a contiguous prefix, sparse and dense chunks, and runs of
full chunks.

`ConnectionIds` gives the operations of `cid.rs` on the lists of both kinds of
identifiers, with the errors that leave a half-made change behind.
`CidExchange` joins an issuer and a user over `Wire`. A lost RETIRE_CONNECTION_ID that
finds the set of retirements full (4851) is dropped: `send()` returns the error and the
connection stays open. `Paths` gives the operations of
`path.rs` on a map of paths. `Migration` is one established endpoint, client or
server: the handler of a packet is a chain of operators (route, frames,
allocation of identifiers, detection of the peer's migration), and `Send`, `OnTimeout`,
`RetireDcid`, `ProbePath` and `Migrate` are the other calls.

`LossRecovery` has the sent packets of the three spaces as a function from
packet numbers to records, and `bytes_in_flight` as the code keeps it. The bodies
of packets are items the endpoint has to deliver, taken again from
`lost_frames` as `send_single()` does. `OnAckReceived` acknowledges any subset of
the packets, `OnLossTimeout` and `OnProbeTimeout` are the two branches of
`on_loss_detection_timeout()`, and `HandshakePacketArrives`, `KeysArrive`,
`HandshakeCompletes` and `HandshakeDone` drive the spaces through the handshake of
either side. Time is a choice: which packets are late. A packet may be sent in any
space that has keys, whatever the congestion window.

`MulticastStreams` is one connection of a server. `PublishWithheld`, `PublishFallback`
and `PublishLimited` are the branches of `multicast_stream_send_buf()`;
`ProcessPeerAck`, `OnStateFrame` and `OnTimeout` resolve ranges and probe states;
`AttachStreamPublisher` (with `UpsertChannelConfig`), `StopChannel` and `ProbeReset` are what
the driver in `server_control.rs` calls. The unicast side is `SendBuf` again, with the stream's
end (`Shutdown`, `RecvStopSending`) in the multicast form.

`BoundedQueue` has one program counter per task. Admission (`Start`, `Wrap`,
`PollReady`, `PollWait`, `Resume`) follows the loop of `send()`: try, register with
`Notify`, try again, wait. `Release` drops a permit and `NotifyReleased` wakes one
waiter in a later step. A task may be aborted where its future is suspended,
and passes a wake-up it had received on to another, as tokio's `Notified` does
when dropped.

`RangeSet`, `Pmtud`, `DatagramQueue` and `CollectedIds` are functions on records and have
no behaviour of their own. Each ends with assumptions that TLC evaluates when
it checks the run whose module extends it.

In each module an operator with a suffix and the comment *Slip* is a faulty
variant of the definition after it. It is not used by any specification; it
serves to confirm that the property it names would notice that fault.

## What is checked

All runs use deadlock checking off: an application may stop calling, and a
finished or closed connection takes no further step.

| run | instance | result |
|---|---|---|
| `recv_streams` | two incremental streams of 2 bytes sharing a connection window of 2 growing to 3, symmetric | 7 invariants hold, about 230,000 states |
| `chunks` | one buffer of 6 bytes | 2 properties hold, about 2,600 states |
| `send_delivery` | one stream of 3 bytes, chunks of 2, two frames in flight | 5 invariants hold, about 266,000 states |
| `send_credit` | two streams, connection limit 2 then 3, window 0 or 3 | 2 invariants hold, about 159,000 states |
| `transfer` | 3 bytes, window 2, packets of 1 or 2 bytes, one loss | 6 properties hold, about 70,000 states |
| `limits` | two streams allowed, numbers 0, 1 and 3 tried, one fault; sets of collected numbers below 10 in chunks of 3 | 4 properties hold, about 88,000 states |
| `identifiers` | two identifiers at a time, three in all, one fault | 3 properties hold, about 124,000 states |
| `migration` | three address pairs, two paths, three identifiers, client and server, with and without reuse of identifiers | 2 invariants hold, about 209,000 states |
| `recovery` | four packet numbers over three spaces, threshold 2 growing to 3, client and server; ranges below 8, MTUs up to 14 | 3 invariants hold, about 145,000 states |
| `multicast` | one channel, one stream of 2 bytes, three channel packets, limits of 1 and 2 | 4 invariants hold, about 125,000 states |
| `queue` | three tasks, two items, 3 bytes, items of 1, 3 and 4 bytes, four calls; datagram queues over four calls | 2 properties hold, about 55,000 states |
| `fin_lost` | one stream, one frame in flight, a lone FIN | `FinNotForgotten` is violated |

**Bounds.** Two streams of two bytes let ranges overlap, leave gaps, and compete
for a connection limit that is smaller than what both may send. `chunks` has six
bytes for three separate chunks. `Cap` bounds `rx_data`
where the code has the varint limit. On the send side a chunk size of 2 against
packets of 1 and 2 and 3 bytes of data gives partly acknowledged chunks,
retransmissions that cut chunks, and a frame that ends inside one. Two frames
in flight are needed for acknowledgements out of order. `transfer` also passes
with two losses, and with four bytes, in longer runs.

`MaxFaults` in `limits` and `identifiers` counts dropped packets and wrong
verdicts of loss recovery together. One is enough for the known hazards (a
retransmission that overtakes, a late copy of a frame, a frame lost just before
its successor); reordering and delay cost nothing. Number 3 is refused at the
limit 2 and again at 3, so that STREAMS_BLOCKED frames with both limits are under
way at once and the older may be declared lost after the newer was sent; it also
leaves a gap that opens number 2 implicitly. In `identifiers` the set of
retirements never holds the six it may: its overflow in the midst of a
NEW_CONNECTION_ID, or by a retirement that is queued again, is in the model and
in the proof of `HeldIsAccepted`, and does not occur in the run. The real constants of
`CollectedIds` (1024 bits to a chunk) become 3, and every order of insertion below
the bound is tried. In `migration` a third address pair is needed for a path to
be evicted while another keeps its identifier; `MAX_PROBING_TIMEOUTS` is 1 (3 in the
code), so that a path fails at its first loss. In `recovery` four packet numbers
let the packet threshold, a probe and an acknowledgement of a packet already
declared lost meet. In `multicast` the three channel packets are one that proves
the channel and two that are withheld, or one withheld and one that exceeds
the limit. This is the connection's limit in bytes: with one channel and these
values no limit of the channel is exceeded before it, and two ranges are within
the limit on ranges. With four channel packets, which takes four minutes, the
limit on ranges is exceeded too, and the properties hold. In `queue` an item of 4
bytes never fits, one of 3 fits only alone, two of 1 use up the items and not the
bytes, and the two waiting tasks compete with one that never waits.

**Fairness.** `StreamTransfer`
assumes that data that may be sent is sent (`NoDataForgotten` is why it stays
queued), that a packet which is not declared
lost is delivered and acknowledged, that control frames arrive in the end
(`NothingForgotten` and `ResetNotForgotten` are why they are repeated), that the
reader's application reads, and that the writer's looks at a stream that was
stopped, which `stream_writable_next()` reports to it (`StopIsHanded` is why it is not
gone by then). Nothing is assumed of writing, resetting, stopping or losing.
`StreamLimits` and `CidExchange` assume that the driver calls `send()` while something
is queued, that the network delivers what it does not drop, and that a dropped
packet is declared lost in the end (`TimerArmed` is why). Nothing is assumed of
the application: no stream is bound to complete and no identifier to be issued.
`BoundedQueue` assumes that the runtime polls a task that was woken and that the
worker drains a queue that is not empty. Nobody is bound to close the queue, and
no call is bound to be made.

**Receive side.** `CreditLedger`: what a stream was charged and has not been given
back is what it holds unread. `ConnectionLedger`: the connection's account is the
sum of these. `NoUnderflow`: the unsigned subtractions are safe. `NoByteLost`: an
accepted byte stays until it is read, discarded or given up. `ReadableExact`: the
edge-triggered queue misses no stream and reports none in vain.
`CollectedIsSettled`: nothing is collected early. `NothingForgotten`: the frames the
peer waits for are due or in flight, and a stream whose window calls for an
update is queued for it. `ReadableLenExact`: `readable_len()` is exact.
`ImplementsRecvBuf`: the map of chunks implements the set.

**Send side.** `NoDataForgotten`: a byte the peer is owed is acknowledged, or
buffered and either in flight or queued, and a stream with queued data is in
the flushable queue. `WritableQueued`: a stream that regains capacity is announced.
`ResetNotForgotten`: a reset is repeated in its current
form. `FinalSizeAgrees`: all frames tell the same final size. `SendLedger`: the
accounts add up and stay within the peer's limits. `StopIsHanded`: a stopped stream
is not collected before the application was given it.

**End to end.** `ImplementsByteStream` is the refinement. `NoAccusation`: no frame,
however late, is an error to the receiver. `DoneIsDelivered`: the sender lets go
only of what has arrived. `EndIsReached`, `CreditArrives` and `SenderFinishes` are
the liveness of both ends. The last one rests on the writer's application where
the reader stopped the stream: if the acknowledgements complete it first, they
leave it in place, and only the call that returns the error collects it.

**Number of streams.** `OpenerNotAccused`: a stream opened within the announced
limit is within the enforced one when its frame arrives. `LiveStreamsBounded`: a
late frame reopens no collected stream, and each collected stream gives one
credit. `BlockedIsTold`: the last STREAMS_BLOCKED is not forgotten. `CreditReturns`:
an opener that waits gets the credit there is.

**Identifiers and paths.** `HeldIsAccepted`: what the user may send to, the issuer
accepts. `IdsNotForgotten`: no announcement or retirement is lost between the ends.
`RotationCompletes`: what was to be retired leaves the issuer's list. `PathDcidHeld`
and `NoDcidLeaked`: the two links between paths and identifiers agree, so that
`send()` finds its identifier, two paths do not share one, and none is lost to a
path that is gone.

**Loss recovery.** `InFlightLedger`: the counters are those of the packets that are
neither acknowledged nor lost. `ItemNotForgotten`: an item is acknowledged,
watched, or queued again; a client's Handshake items count only once it is
complete, as before that they may be written in another packet. `TimerArmed`: while
data that may be probed is in flight, a timer will fire or a packet is about
to go out.

**Multicast.** `RangeNotForgotten`: a byte not yet acknowledged is queued, in flight,
or withheld on a channel whose deadline is armed. `WithheldLedger`: the totals are
those of the ranges and stay within the limits. `ResetCoversDelivered`: a final
size lies above all that was delivered either way. `ViableIsProven`: a channel is
trusted only on the evidence of its present generation.

**Queue.** `RetainedLedger`: the permits are those of the items between admission and
processing. `SendersFinish`: no caller of `send()` waits for ever.

**Algorithms.** These are assumptions, evaluated by TLC in the run named:
`CollectedExact` (`limits`): the compressed set is the set, whatever the order of
insertion. `RangeSetExact` (`recovery`): both representations of a range set, and
the changes between them, give the set of numbers inserted and not removed.
`SearchFindsMtu` and `SearchIsSound` (`recovery`): without random loss the search ends
with the path's MTU, also after a revalidation that lowers it; with loss it
never claims a size that was not acknowledged, and the size of the next probe
stays between the bounds. `DatagramsAccounted` (`queue`): counts and bytes are those
of the queue, the limits hold, and making room drops the oldest and no more
than needed.

## Where the code and its documentation differ

`fin_lost` is a run of its own: `stream_send("", fin)` queues the stream; if
retransmitted data is emitted first, the stream leaves the queue (6025) and the
FIN is not sent, unless the last byte has to be sent again. The documentation
(6659-6662) promises a FIN frame.

Five more have a configuration here. `tlc -config <file> <module>` prints a
counterexample for each:

* `MCSendStreams_full_packet.cfg` (`MCSendStreams`): with
  `max_tracked_frames_per_packet`, a STREAM frame at the cap is
  written and not tracked (6011), so its loss goes unnoticed. The
  documentation (1425-1426) says that such frames remain queued.
* `MCSendStreams_tx_buffered.cfg`: a reliable reset that ends inside a partly
  acknowledged chunk lets the stream be collected with bytes still counted,
  against the check of `stream/mod.rs` 1121.
* `MCRecvStreams_late_fin.cfg` (`MCRecvStreams`): a FIN that arrives with data
  already read (`recv_buf.rs` 153) completes
  a stream that no call will collect; `MCRecvStreams_shutdown_credit.cfg`: nor is a
  stream collected that was shut down for reading before its size was known.
  The documentation (1227-1229) calls both completed.
* `MCSendStreams_cap_factor.cfg`: `update_tx_cap()` scales the peer's credit along with
  the congestion window (12106), so a factor above one passes the limit of 1772.

`MCRecvStreams_one.cfg` is a further instance that passes: one stream of up to 4
bytes, with the action properties `FinalSizeFixed` and `LimitsNeverShrink`.

Others are visible in the models. On the streams:

* `rx_data` is charged for frames that `write()` ignores (the history variable
  `wasted`). A window of one byte never makes an update due.
* `is_writable()` compares strictly, so a capacity exactly equal to the low
  watermark does not announce the stream.
* A frame header longer than `MAX_STREAM_OVERHEAD` takes the stream out of the queue
  (5972): with `WideHeaders = TRUE`, `NoDataForgotten` fails.
* A stopped stream that `stream_writable_next()` has returned can be collected by
  an acknowledgement before the application asks for the error.

On loss recovery and the MTU search:

* `on_path_change()` declares packets lost without setting the timer again. If it
  then fires with nothing in flight and without Handshake keys, probes are
  asked of the Initial space, whose keys are gone; they are never sent, and the
  congestion window is ignored from then on ("Ignore cwnd when sending probe
  packets.", `recovery.rs` 906).
* A padded ACK in a space that never sent anything ack-eliciting makes the
  timer's computation skip the space that has data in flight; `TimerArmed` excepts
  this case.
* `revalidate_pmtu()` keeps the smallest size that failed, and a dropped probe does
  not clear it, where the comment (`pmtud.rs` 227-229) says that the search "will
  restart from a fresh state". `Pmtud` follows the code. With a cap of one tracked
  frame, the PING of a probe is not tracked and the search waits for ever.
* A `RangeSet` at capacity drops its lowest range before the insertion, not the
  smallest after it, as the documentation has it.

On identifiers and paths:

* A call of `new_scid()` that fails may already have raised `retire_prior_to`. When the
  head of the queue of announcements was retired meanwhile, `send()` fails until
  the queue changes (5301).
* Frames repeated after a loss can be an error to the receiver, which is why
  the properties of `CidExchange` have `closed`: a second RETIRE_CONNECTION_ID when one
  identifier is left (`cid.rs` 578; 199-201 says that nothing is modified), a
  NEW_CONNECTION_ID sent again with a `retire_prior_to` that passed it (`cid.rs`
  481-485), and a packet that was sent to an identifier since retired.
* A repeated NEW_CONNECTION_ID with a higher `retire_prior_to` is ignored
  (`cid.rs` 471-479). A late copy of the frame brings back an identifier that
  the application retired, which is why `HeldIsAccepted` mentions `asked`.
* A server's verified path fails at the first lost challenge once its budget
  is used up (`path.rs` 564-565).
* On a server that reuses an identifier after the peer's migration, a path may
  keep one that was retired, where a comment wants to "make sure retired
  connection IDs are not in use anymore" (11815-11816); `PathDcidHeld` excepts this
  setting. Without reuse, a peer that migrates to a path that has no
  identifier yet leaves the server without an active path, and the next packet
  that is not a probe is an error (4301); and such a path is not superseded when
  another becomes active, so that two are active later, against `path.rs`
  940-942.

On multicast:

* A range that was received and not yet acknowledged is not covered by the
  final size of a reset. `ResetCoversDelivered` therefore speaks of what was
  acknowledged.
* An MC_ACK that comes after the channel was left makes it viable again until
  the acknowledgement timeout; that `StopChannel` is followed by a new generation
  is due to the order of calls in the driver, not to the connection.
* `multicast_stream_mark_delivered()` records the delivery before it knows that the
  stream exists, and does not look at what `ack_and_drop()` returns.
* The FIN of an empty range is exposed to `fin_lost` as well and is not part of
  `RangeNotForgotten`.

On the queue: with unlimited traffic of small items a large one may wait for
ever. `SendersFinish` holds because the number of calls is bounded.

## What is proved

**Receive side.** `RecvBufProofs` and `RecvStreamsProofs` prove, for any set of streams, any frames and any
limits, the invariants `TypeOK`, `CreditLedger`, `NoByteLost`, `NoUnderflow`, `ReadableExact`
and `CollectedIsSettled` and the action properties `FinalSizeFixed` and
`LimitsNeverShrink` of `RecvStreams`. The only assumption is `RecvAssumption`: the
constants are naturals, frames have their fields, and a plain reset has no
reliable size.

None of these is inductive alone. `RecvInv` is: it adds to the ledger and to
`NoByteLost` the invariant `BufInv` of each buffer (offsets are ordered; what is
buffered lies between them; a reset and a shutdown leave the buffer in a known
shape; the window does not exceed its maximum and consumed bytes are bounded)
and `UpdatesRaise`, which says that whenever an update is due, committing it
raises the limit. The ledger needs `BufInv` because what a reset gives back
is computed from the offsets; `LimitsNeverShrink` needs `UpdatesRaise` because a lost
frame makes an update due again long after the threshold was crossed.
`NotifyInv` is inductive relative to `RecvInv` and yields the properties about the
readable queue and collection.

`RecvBufProofs` has the lemmas: each operation of the buffer preserves its type and
`BufInv`, moves `Unread` by exactly the credit it reports, and keeps `BytesKept`.
`RecvStreamsProofs` has one step per action and under it one per conjunct.

**Number of streams.** `StreamLimitsProofs` proves `OpenerNotAccused` and
`LiveStreamsBounded` of `StreamLimits` for any initial limit and any number of streams,
losses and delays, from `StreamLimitsAssumption`. The invariant follows a limit on
its way: what the opener believes, and every MAX_STREAMS frame in a packet,
is at most what the acceptor enforces; every STREAM frame in a packet carries
a number the opener has opened; the next limit is the initial one plus the
number of collected streams, and the streams that are live or collected lie
below the count of opened ones, so that their number is bounded by it.

**Identifiers.** `CidExchangeProofs` proves `HeldIsAccepted` of `CidExchange` for any limits and
any number of identifiers, losses, late and repeated frames, from
`LimitsAssumption`. The invariant says where a number can be: every one the user
holds lies between its `largest_retire_prior_to` and the issuer's next number,
while every number the issuer has let go of lies below the user's
`largest_retire_prior_to` or was asked for by the user's application, since the
RETIRE_CONNECTION_ID that made the issuer let go came from one of the two.
For this it also says of each packet that it announces a number that was
created, or retires one that may be retired.

`WireProofs` has what both need of the bag of packets: what may be in it after a
packet is sent, received, dropped or settled.

Model-checked only: liveness, which the prover does not treat; `ConnectionLedger`,
`SendLedger`, `InFlightLedger`, `WithheldLedger` and `RetainedLedger`, which are sums over sets
and need induction over them; the refinements; what is computed by a fold or a
recursion (`Migration`, `MulticastStreams`, the algorithms); and the properties of the send
side.

## Not modelled

* *Congestion control* (`recovery/congestion`, `recovery/gcongestion`): floating point.
  `SendStreams` takes the window from a set, and `LossRecovery` only feeds it. The
  second implementation of loss recovery, in `gcongestion`, is not modelled.
* *HTTP/3, WebTransport and the tokio driver above them* (`h3/`,
  `tokio-quiche/src/http3`): a parser per stream and a table of sessions, over
  the streams modelled here. Their state is what applications send, and they
  would be a development of their own.
* *The life of a connection*: idle timeout, draining, key update and stateless
  reset are timers and flags with one assignment each. The handshake is
  modelled as far as loss recovery sees it.
* *Multicast beyond streams*: datagrams on channels, announcement, keys and
  integrity of channels, and the client's side of them, which consist of
  cryptographic checks and calls to the operating system.
* *Task kill switch* and *buffer pool*: small concurrent structures on which no
  result of the transport depends.
* *QPACK, wire encoding, packet headers, C interface*: stateless conversions.
* *TLS and packet protection*: an external library.
* *Sockets, router, worker loop, qlog, netlog, h3i, apps*: I/O and tools.

Inside the modelled parts: streams are unidirectional (a bidirectional one is the
pair of both sides, and only `is_complete()` and `collect()` relate them), and
one type of stream stands for the four. Priorities are reduced to incremental
or not: any queued stream may be served. Byte values and time are abstracted
away. The multicast branches of the stream functions are in `MulticastStreams`
only. There the connection's credit, which other streams share, is not counted:
any write may fail for lack of it. In
`StreamTransfer` each write has at least one byte, so that the lone FIN of
`fin_lost` does not occur, and probes are not sent. Identifiers of length zero,
path events and the statistics of every part are left out.
