---------------------------- MODULE LossRecovery ----------------------------
(***************************************************************************)
(* Loss recovery of one path (quiche/src/recovery/congestion/recovery.rs)  *)
(* with the calls quiche/src/lib.rs makes: packets in three packet number  *)
(* spaces, acknowledgements of any subset of them in any order, losses by  *)
(* packet threshold and by time, probe timeouts, changes of path, and the  *)
(* disposal of a space when its keys are dropped.                          *)
(*                                                                         *)
(* Time is abstract.  A timer is armed or not and may fire once armed; the *)
(* choice `late` says which packets are past the loss delay, and `stale`   *)
(* which lost ones are older than a round trip.  The congestion window,    *)
(* the RTT and the statistics are left out: recovery only feeds them.      *)
(***************************************************************************)
EXTENDS Integers, FiniteSets, FiniteSetsExt

CONSTANTS INITIAL_PACKET_THRESHOLD,
          MAX_PACKET_THRESHOLD,
          MAX_PTO_PROBES_COUNT,
          Items,    \* Items[e]: what the endpoint has to deliver in space e
          MaxPkts   \* bound on the packet numbers

ASSUME RecoveryAssumption ==
  /\ INITIAL_PACKET_THRESHOLD \in Nat \ {0}
  /\ MAX_PACKET_THRESHOLD \in Nat
  /\ MAX_PTO_PROBES_COUNT \in Nat \ {0}

Initial == 0
Handshake == 1
Application == 2
Epochs == Initial..Application

None == -1

VARIABLES
  is_server,
  epochs,           \* RecoveryEpoch of each space
  timer,            \* loss_timer is armed
  pto_count,        \* up to MAX_PTO_PROBES_COUNT, beyond it nothing changes
  bytes_in_flight,
  pkt_thresh,
  next_pkt_num,     \* packet 0, the first Initial packet, is settled
  queued,           \* items waiting to be written, by space
  done,             \* items whose acknowledgement was seen, by space
  keys,             \* spaces with keys
  dropped,          \* spaces whose keys are gone
  completed,        \* the handshake is complete
  verified          \* the peer has verified our address

recVars == <<epochs, timer, pto_count, bytes_in_flight, pkt_thresh>>
hsVars == <<keys, dropped, completed, verified>>
vars == <<is_server, recVars, next_pkt_num, queued, done, hsVars>>

NoPackets == [n \in {} |-> 0]

NewEpoch ==
  [sent |-> NoPackets, largest_acked |-> None, loss_time |-> FALSE,
   loss_probes |-> 0, in_flight_count |-> 0, last_eliciting |-> FALSE,
   lost_frames_ack |-> {}, lost_frames_pto |-> {}]

(* The packets send_single() builds.  A packet that is not ack-eliciting   *)
(* has no size for recovery, even when its padding puts it in flight.      *)
Packet(eliciting, in_flight, has_data, probe, size, frames) ==
  [ack_eliciting |-> eliciting, in_flight |-> in_flight, has_data |-> has_data,
   is_pmtud_probe |-> probe, size |-> size, frames |-> frames,
   acked |-> FALSE, lost |-> FALSE]

DataPacket(item) == Packet(TRUE, TRUE, TRUE, FALSE, 2, {item})
ControlPacket(item) == Packet(TRUE, TRUE, FALSE, FALSE, 2, {item})
PingPacket == Packet(TRUE, TRUE, FALSE, FALSE, 1, {})
PmtudProbe == Packet(TRUE, TRUE, FALSE, TRUE, 3, {})
AckPacket == Packet(FALSE, FALSE, FALSE, FALSE, 0, {})
PaddedAck == Packet(FALSE, TRUE, FALSE, FALSE, 0, {})

Init ==
  /\ is_server \in BOOLEAN
  /\ epochs = [e \in Epochs |-> NewEpoch]
  /\ timer = FALSE
  /\ pto_count = 0
  /\ bytes_in_flight = 0
  /\ pkt_thresh = INITIAL_PACKET_THRESHOLD
  /\ next_pkt_num = 1
  /\ queued = IF is_server THEN Items ELSE [Items EXCEPT ![Handshake] = {}]
  /\ done = [e \in Epochs |-> {}]
  /\ keys = {Initial}
  /\ dropped = {}
  /\ completed = FALSE
  /\ verified = is_server

Bytes(sent, S) == MapThenSumSet(LAMBDA n : sent[n].size, S)

Outstanding(sent) == {n \in DOMAIN sent : ~sent[n].acked /\ ~sent[n].lost}

InFlight(sent) == {n \in Outstanding(sent) : sent[n].in_flight}

SaturatingSub(a, b) == Max({0, a - b})

-----------------------------------------------------------------------------
(* The timer.                                                              *)

has_handshake_keys == Handshake \in keys

(* The spaces pto_time_and_space compares, in order: those with packets in *)
(* flight, the last one only when the handshake is complete.               *)
PtoSpaces(eps, complete) ==
  {e \in Epochs : eps[e].in_flight_count # 0 /\ (e = Application => complete)}

(* The spaces it may find to be the earliest.  One that never sent an      *)
(* ack-eliciting packet has no time: None compares as earlier than any     *)
(* time and erases what came before.                                       *)
PtoCandidates(eps, complete) ==
  {e \in PtoSpaces(eps, complete) :
     \A f \in PtoSpaces(eps, complete) : f >= e => eps[f].last_eliciting}

(* Slip: nothing in flight or a verified address, either one disarms it.   *)
TimerFor_Either(eps, bytes, complete, verif) ==
  \/ \E e \in Epochs : eps[e].loss_time
  \/ bytes # 0 /\ ~verif /\ PtoCandidates(eps, complete) # {}

(* set_loss_detection_timer: is the timer armed afterwards?                *)
TimerFor(eps, bytes, complete, verif) ==
  \/ \E e \in Epochs : eps[e].loss_time
  \/ /\ bytes = 0
     /\ ~verif
  \/ /\ bytes # 0
     /\ PtoCandidates(eps, complete) # {}

-----------------------------------------------------------------------------
(* Operations on a space.                                                  *)

(* The oldest packets that are settled are forgotten; a lost one only when *)
(* it is stale, so that a late acknowledgement is noticed.                 *)
drain_acked_and_lost_packets(sent, stale) ==
  LET kept(n) == \/ ~sent[n].acked /\ ~sent[n].lost
                 \/ sent[n].lost /\ n \notin stale
      rest == {n \in DOMAIN sent : \E m \in DOMAIN sent : m <= n /\ kept(m)}
  IN [n \in rest |-> sent[n]]

(* Packets up to the largest acknowledged one are lost when they are late  *)
(* or pkt_thresh behind; the first that is neither arms the loss timer.    *)
LostBy(ep, late, thresh) ==
  LET largest == Max({0, ep.largest_acked})
  IN {n \in Outstanding(ep.sent) :
        n <= largest /\ (n \in late \/ largest >= n + thresh)}

detect_lost_packets(ep, late, thresh, stale) ==
  LET lost == LostBy(ep, late, thresh)
      largest == Max({0, ep.largest_acked})
      marked == [n \in DOMAIN ep.sent |->
                   IF n \in lost THEN [ep.sent[n] EXCEPT !.lost = TRUE, !.frames = {}]
                   ELSE ep.sent[n]]
      counted == {n \in lost : ep.sent[n].in_flight \/ ep.sent[n].is_pmtud_probe}
  IN [ep EXCEPT
        !.sent = drain_acked_and_lost_packets(marked, stale \ lost),
        !.loss_time = \E n \in Outstanding(ep.sent) \ lost : n <= largest,
        !.lost_frames_ack = @ \cup UNION {ep.sent[n].frames : n \in lost},
        !.in_flight_count = @ - Cardinality(counted)]

LostBytes(ep, late, thresh) == Bytes(ep.sent, LostBy(ep, late, thresh) \cap InFlight(ep.sent))

(* Slip: a packet declared lost is settled again by a late acknowledgement. *)
NewlyAcked_Lost(ep, ranges) == {n \in ranges : ~ep.sent[n].acked}

(* The packets of `ranges` are acknowledged.                               *)
NewlyAcked(ep, ranges) == ranges \cap Outstanding(ep.sent)

MarkAcked(ep, ranges) ==
  LET newly == NewlyAcked(ep, ranges)
  IN [ep EXCEPT
        !.sent = [n \in DOMAIN @ |->
                    IF n \in newly THEN [@[n] EXCEPT !.acked = TRUE, !.frames = {}]
                    ELSE IF n \in ranges THEN [@[n] EXCEPT !.acked = TRUE]
                    ELSE @[n]],
        !.in_flight_count = @ - Cardinality({n \in newly : ep.sent[n].in_flight}),
        !.largest_acked = IF newly = {} THEN @ ELSE Max({0, @, Max(newly)})]

(* An acknowledged packet that had been declared lost widens the           *)
(* threshold by how far behind it was.                                     *)
ThresholdAfter(ep, ranges) ==
  LET spurious == {n \in ranges : ep.sent[n].lost /\ ~ep.sent[n].acked}
      largest == Max({0, ep.largest_acked, Max(ranges)})
  IN IF spurious = {} THEN pkt_thresh
     ELSE Max({pkt_thresh, Min({largest - Min(spurious) + 1, MAX_PACKET_THRESHOLD})})

(* drop_epoch_state, from the given spaces and bytes: the keys of a space  *)
(* go, and its packets with them.                                          *)
Discard(e, eps, bytes, complete, verif) ==
  LET left == [eps EXCEPT ![e] = [NewEpoch EXCEPT !.largest_acked = eps[e].largest_acked]]
      rest == SaturatingSub(bytes, Bytes(eps[e].sent, InFlight(eps[e].sent)))
  IN /\ keys' = keys \ {e}
     /\ dropped' = dropped \cup {e}
     /\ epochs' = left
     /\ bytes_in_flight' = rest
     /\ timer' = TimerFor(left, rest, complete, verif)

-----------------------------------------------------------------------------
(* Steps.                                                                  *)

(* Slip: only what a probe timeout repeats is queued again.                *)
Requeued_ProbesOnly(e) == queued[e] \cup (epochs[e].lost_frames_pto \ done[e])

(* send(): what recovery gave up in this space is queued again, then one   *)
(* packet is built and recorded.                                           *)
Requeued(e) ==
  queued[e] \cup ((epochs[e].lost_frames_ack \cup epochs[e].lost_frames_pto) \ done[e])

Sent(e, pkt) ==
  [epochs EXCEPT ![e] =
     [@ EXCEPT
        !.sent = [n \in DOMAIN @ \cup {next_pkt_num} |->
                    IF n = next_pkt_num THEN pkt ELSE @[n]],
        !.loss_probes = IF pkt.ack_eliciting /\ ~pkt.is_pmtud_probe
                          THEN SaturatingSub(@, 1) ELSE @,
        !.last_eliciting = @ \/ (pkt.in_flight /\ pkt.ack_eliciting),
        !.in_flight_count = IF pkt.in_flight THEN @ + 1 ELSE @,
        !.lost_frames_ack = {}, !.lost_frames_pto = {}]]

(* A client's first Handshake packet ends the Initial space.               *)
OnPacketSent(e, pkt, taken) ==
  LET eps == Sent(e, pkt)
      bytes == IF pkt.in_flight THEN bytes_in_flight + pkt.size ELSE bytes_in_flight
      armed == IF pkt.in_flight THEN TimerFor(eps, bytes, completed, verified) ELSE timer
      ends == ~is_server /\ e = Handshake /\ Initial \in keys
  IN /\ IF ends
          THEN Discard(Initial, eps, bytes, completed, verified)
          ELSE /\ epochs' = eps /\ bytes_in_flight' = bytes /\ timer' = armed
               /\ UNCHANGED <<keys, dropped>>
     /\ queued' = [queued EXCEPT ![e] = Requeued(e) \ taken]
     /\ next_pkt_num' = next_pkt_num + 1
     /\ UNCHANGED <<is_server, pto_count, pkt_thresh, done, completed, verified>>

(* write_pkt_type(): a packet needs the keys of its space.  The rest of it *)
(* orders the spaces by what they have to send; here any space may be      *)
(* next, whatever the congestion window.                                   *)
CanSend(e) == e \in keys /\ next_pkt_num < MaxPkts

SendItem(e, item, has_data) ==
  /\ CanSend(e)
  /\ item \in Requeued(e)
  /\ OnPacketSent(e, IF has_data THEN DataPacket(item) ELSE ControlPacket(item), {item})

(* A PING stands in when nothing else elicits an ACK and a probe is due,   *)
(* too many packets elicited none, or the application asks for one: the    *)
(* last two may be at any time.                                            *)
SendPing(e) ==
  /\ CanSend(e)
  /\ Requeued(e) = {}
  /\ OnPacketSent(e, PingPacket, {})

SendPmtudProbe ==
  /\ CanSend(Application)
  /\ completed
  /\ OnPacketSent(Application, PmtudProbe, {})

(* Only an ACK, padded when it shares a datagram with an Initial packet.   *)
SendAck(e, padded) ==
  /\ CanSend(e)
  /\ Requeued(e) = {} /\ epochs[e].loss_probes = 0
  /\ padded => e = Application
  /\ OnPacketSent(e, IF padded THEN PaddedAck ELSE AckPacket, {})

(* An ACK frame, with losses detected after it; the frames acknowledged    *)
(* are handed over before the packet is done.                              *)
OnAckReceived(e, ranges, late, stale) ==
  LET ep == epochs[e]
      newly == NewlyAcked(ep, ranges)
      marked == MarkAcked(ep, ranges)
      thresh == ThresholdAfter(ep, ranges)
      after == detect_lost_packets(marked, late, thresh, stale)
      eps == [epochs EXCEPT ![e] = after]
      bytes == SaturatingSub(SaturatingSub(bytes_in_flight, LostBytes(marked, late, thresh)),
                             Bytes(ep.sent, {n \in newly : ep.sent[n].in_flight}))
      verif == verified \/ e = Handshake \/ (e = Application /\ completed)
  IN /\ e \in keys
     /\ pkt_thresh' = thresh
     /\ verified' = verif
     /\ done' = [done EXCEPT ![e] = @ \cup UNION {ep.sent[n].frames : n \in newly}]
     /\ IF newly = {}
          THEN /\ epochs' = [epochs EXCEPT ![e].sent =
                               drain_acked_and_lost_packets(marked.sent, stale)]
               /\ UNCHANGED <<bytes_in_flight, pto_count, timer>>
          ELSE /\ epochs' = eps
               /\ bytes_in_flight' = bytes
               /\ pto_count' = 0
               /\ timer' = TimerFor(eps, bytes, completed, verif)
     /\ UNCHANGED <<is_server, next_pkt_num, queued, keys, dropped, completed>>

(* Losses by time, in the space whose loss timer is due.                   *)
OnLossTimeout(e, late, stale) ==
  LET eps == [epochs EXCEPT ![e] =
                detect_lost_packets(epochs[e], late, pkt_thresh, stale)]
      bytes == SaturatingSub(bytes_in_flight, LostBytes(epochs[e], late, pkt_thresh))
  IN /\ timer
     /\ epochs[e].loss_time
     /\ epochs' = eps
     /\ bytes_in_flight' = bytes
     /\ timer' = TimerFor(eps, bytes, completed, verified)
     /\ UNCHANGED <<is_server, pto_count, pkt_thresh, next_pkt_num, queued, done, hsVars>>

(* The space a probe timeout probes: the earliest one with packets in      *)
(* flight, or else the one that lets a client unblock the server.          *)
ProbeSpaces ==
  IF bytes_in_flight > 0 THEN PtoCandidates(epochs, completed)
  ELSE IF has_handshake_keys THEN {Handshake} ELSE {Initial}

(* The oldest data packets are written again, unless the frames of the     *)
(* last probe still wait.                                                  *)
OnProbeTimeout(e) ==
  LET ep == epochs[e]
      count == Min({pto_count + 1, MAX_PTO_PROBES_COUNT})
      data == {n \in Outstanding(ep.sent) : ep.sent[n].has_data}
      oldest == {n \in data : Cardinality({m \in data : m < n}) < count}
      again == UNION {ep.sent[n].frames : n \in oldest}
      eps == [epochs EXCEPT ![e].loss_probes = count,
                ![e].lost_frames_pto = IF @ # {} THEN @ ELSE again]
  IN /\ timer
     /\ \A f \in Epochs : ~epochs[f].loss_time
     /\ e \in ProbeSpaces
     /\ pto_count' = count
     /\ epochs' = eps
     /\ timer' = TimerFor(eps, bytes_in_flight, completed, verified)
     /\ UNCHANGED <<is_server, bytes_in_flight, pkt_thresh, next_pkt_num, queued, done,
                    hsVars>>

(* Another path becomes active: losses are detected in every space, and    *)
(* the timer stays as it was.                                              *)
OnPathChange(late, stale) ==
  /\ completed
  /\ epochs' = [e \in Epochs |->
                  detect_lost_packets(epochs[e], late, pkt_thresh, stale)]
  /\ bytes_in_flight' = SaturatingSub(bytes_in_flight,
       MapThenSumSet(LAMBDA e : LostBytes(epochs[e], late, pkt_thresh), Epochs))
  /\ UNCHANGED <<is_server, timer, pto_count, pkt_thresh, next_pkt_num, queued, done,
                 hsVars>>

(* A Handshake packet from the client ends the server's Initial space.     *)
HandshakePacketArrives ==
  /\ is_server
  /\ {Initial, Handshake} \subseteq keys
  /\ Discard(Initial, epochs, bytes_in_flight, completed, verified)
  /\ UNCHANGED <<is_server, pto_count, pkt_thresh, next_pkt_num, queued, done,
                 completed, verified>>

KeysArrive ==
  /\ keys = {Initial}
  /\ keys' = Epochs
  /\ UNCHANGED <<is_server, recVars, next_pkt_num, queued, done, dropped, completed,
                 verified>>

(* The handshake completes.  This confirms it for a server, which drops    *)
(* its Handshake space; a client has its last message to send.             *)
HandshakeCompletes ==
  /\ ~completed
  /\ {Handshake, Application} \subseteq keys
  /\ completed' = TRUE
  /\ IF is_server
       THEN Discard(Handshake, epochs, bytes_in_flight, TRUE, verified) /\ UNCHANGED queued
       ELSE /\ queued' = [queued EXCEPT ![Handshake] = @ \cup Items[Handshake]]
            /\ UNCHANGED <<epochs, bytes_in_flight, timer, keys, dropped>>
  /\ UNCHANGED <<is_server, pto_count, pkt_thresh, next_pkt_num, done, verified>>

(* HANDSHAKE_DONE confirms the handshake for a client; the server sends it *)
(* when it has the client's last message.                                  *)
HandshakeDone ==
  /\ ~is_server /\ completed
  /\ Handshake \in keys
  /\ queued[Handshake] = {}
  /\ verified' = TRUE
  /\ Discard(Handshake, epochs, bytes_in_flight, completed, TRUE)
  /\ UNCHANGED <<is_server, pto_count, pkt_thresh, next_pkt_num, queued, done, completed>>

(* Packets are late in the order they were sent, and lost ones go stale in *)
(* that order.                                                             *)
UpTo(n) == 0..n
LateSets(e) == {{}} \cup {UpTo(n) : n \in Outstanding(epochs[e].sent)}
StaleSets(e) ==
  {{}} \cup {UpTo(n) : n \in DOMAIN epochs[e].sent \ Outstanding(epochs[e].sent)}

Next ==
  \/ \E e \in Epochs :
       \/ \E item \in Requeued(e), has_data \in {TRUE, e # Application} :
            SendItem(e, item, has_data)
       \/ SendPing(e)
       \/ \E padded \in BOOLEAN : SendAck(e, padded)
       \/ \E ranges \in SUBSET DOMAIN epochs[e].sent \ {{}},
             late \in LateSets(e), stale \in StaleSets(e) :
            OnAckReceived(e, ranges, late, stale)
       \/ \E late \in LateSets(e), stale \in StaleSets(e) : OnLossTimeout(e, late, stale)
       \/ OnProbeTimeout(e)
  \/ SendPmtudProbe
  \/ \E late \in UNION {LateSets(e) : e \in Epochs},
        stale \in UNION {StaleSets(e) : e \in Epochs} : OnPathChange(late, stale)
  \/ HandshakePacketArrives \/ KeysArrive \/ HandshakeCompletes \/ HandshakeDone

Spec == Init /\ [][Next]_vars

-----------------------------------------------------------------------------
(* The counters of what is in flight are those of the packets that are     *)
(* neither acknowledged nor lost: nothing is subtracted twice by a late    *)
(* acknowledgement, a second loss verdict or the end of a space, and no    *)
(* saturating subtraction hides a difference.                              *)
InFlightLedger ==
  /\ \A e \in Epochs :
       epochs[e].in_flight_count = Cardinality(InFlight(epochs[e].sent))
  /\ bytes_in_flight =
       MapThenSumSet(LAMBDA e : Bytes(epochs[e].sent, InFlight(epochs[e].sent)), Epochs)

(* What an endpoint has to deliver is acknowledged, in a packet recovery   *)
(* still watches, given back as lost, or waiting to be written, as long as *)
(* its space has keys.                                                     *)
ItemNotForgotten ==
  \A e \in Epochs \ dropped :
    (e = Handshake => is_server \/ completed) =>
      Items[e] \subseteq
        done[e] \cup queued[e] \cup epochs[e].lost_frames_ack
          \cup UNION {epochs[e].sent[n].frames : n \in Outstanding(epochs[e].sent)}

(* Something waits to be sent, and send() will send it.                    *)
SendPending ==
  \E e \in keys : Requeued(e) # {} \/ epochs[e].loss_probes > 0

(* While data that may be probed is in flight, the loss timer is armed or  *)
(* a packet is about to be sent, which arms it; the exception is padding   *)
(* in a space that never sent anything ack-eliciting, which disarms it.    *)
TimerArmed ==
  (/\ \E e \in PtoSpaces(epochs, completed) :
        Bytes(epochs[e].sent, InFlight(epochs[e].sent)) > 0
   /\ \A e \in Epochs : epochs[e].in_flight_count > 0 => epochs[e].last_eliciting)
  => timer \/ SendPending
=============================================================================
