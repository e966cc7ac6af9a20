---------------------------- MODULE StreamLimits ----------------------------
(***************************************************************************)
(* Stream count limits (quiche/src/stream/mod.rs, quiche/src/lib.rs): one  *)
(* endpoint opens streams of one type, the other accepts them, collects    *)
(* them when they are complete and gives the credit back with MAX_STREAMS; *)
(* an opener that runs out says so with STREAMS_BLOCKED.  The four stream  *)
(* types are counted apart and by the same code, so one stands for all.    *)
(* Frames are lost, delayed and reordered, and loss detection may be       *)
(* wrong, so that a frame may arrive after its stream is gone.             *)
(***************************************************************************)
EXTENDS Wire, Sequences, FiniteSets, FiniteSetsExt

CONSTANTS InitialMaxStreams, \* initial_max_streams_* of the acceptor
          Seqs,              \* bound: the sequence numbers the opener tries
          MaxFaults          \* bound on dropped packets and wrong verdicts

ASSUME StreamLimitsAssumption ==
  /\ InitialMaxStreams \in Nat
  /\ Seqs \subseteq Nat
  /\ MaxFaults \in Nat

VARIABLES opener,    \* StreamMap of the endpoint that opens
          acceptor,  \* StreamMap of the endpoint that accepts
          pkts,      \* bag of packets, see Wire
          accused,   \* the acceptor answered a stream with StreamLimit
          faults

limitVars == <<opener, acceptor, pkts, accused, faults>>

None == -1   \* Option::None, below every Some

StreamFrame(seq) == [kind |-> "stream", n |-> seq]
MaxStreamsFrame(max) == [kind |-> "max_streams", n |-> max]
StreamsBlockedFrame(limit) == [kind |-> "streams_blocked", n |-> limit]

(* The count check of get_or_create for a stream that is not in the map.   *)
CountAfter(opened, seq) == Max({opened, seq + 1})

LimitsInit ==
  /\ opener = [peer_max |-> InitialMaxStreams, opened |-> 0, streams |-> {},
               flushable |-> {}, collected |-> {},
               blocked_at |-> None, blocked_sent |-> None]
  /\ acceptor = [max |-> InitialMaxStreams, next |-> InitialMaxStreams,
                 opened |-> 0, streams |-> {}, collected |-> {},
                 should_send |-> FALSE, told |-> None]
  /\ pkts = EmptyBag
  /\ accused = FALSE
  /\ faults = 0

(* stream_send() on a stream the opener does not have yet: it is created   *)
(* with its first data, or the limit is in the way and is recorded.        *)
OpenStream(seq) ==
  /\ seq \notin opener.streams \cup opener.collected
  /\ LET n == CountAfter(opener.opened, seq)
     IN opener' =
          IF n > opener.peer_max
            THEN [opener EXCEPT !.blocked_at = Max({@, opener.peer_max})]
            ELSE [opener EXCEPT !.opened = n, !.streams = @ \cup {seq},
                                !.flushable = @ \cup {seq}]
  /\ UNCHANGED <<acceptor, pkts, accused, faults>>

SendStream(seq) ==
  /\ seq \in opener.flushable
  /\ opener' = [opener EXCEPT !.flushable = @ \ {seq}]
  /\ pkts' = Emit(pkts, StreamFrame(seq))
  /\ UNCHANGED <<acceptor, accused, faults>>

has_pending_stream_blocked_frame == opener.blocked_sent < opener.blocked_at

SendStreamsBlocked ==
  /\ has_pending_stream_blocked_frame
  /\ opener' = [opener EXCEPT !.blocked_sent = opener.blocked_at]
  /\ pkts' = Emit(pkts, StreamsBlockedFrame(opener.blocked_at))
  /\ UNCHANGED <<acceptor, accused, faults>>

(* Slip: credit is held back until half a window of it has gathered.       *)
should_update_max_streams_Gather ==
  acceptor.next - acceptor.max > InitialMaxStreams \div 2

should_update_max_streams ==
  /\ acceptor.next # acceptor.max
  /\ Max({0, acceptor.max - acceptor.opened}) <= InitialMaxStreams \div 2

(* Slip: the new limit is announced and not enforced.                      *)
SendMaxStreams_NotEnforced ==
  /\ should_update_max_streams \/ acceptor.should_send
  /\ acceptor' = [acceptor EXCEPT !.should_send = FALSE]
  /\ pkts' = Emit(pkts, MaxStreamsFrame(acceptor.next))
  /\ UNCHANGED <<opener, accused, faults>>

(* The frame announces `next`, and from then on `next` is enforced.        *)
SendMaxStreams ==
  /\ should_update_max_streams \/ acceptor.should_send
  /\ acceptor' = [acceptor EXCEPT !.max = acceptor.next, !.should_send = FALSE]
  /\ pkts' = Emit(pkts, MaxStreamsFrame(acceptor.next))
  /\ UNCHANGED <<opener, accused, faults>>

(* Slip: collected streams are not remembered.                             *)
Vacant_Forgetful(seq) == seq \notin acceptor.streams

Vacant(seq) == seq \notin acceptor.streams /\ seq \notin acceptor.collected

(* A frame on a stream of the opener reaches get_or_create: a collected    *)
(* stream answers Done, a live one takes the frame, any other is created   *)
(* within the limit.                                                       *)
RecvStream(p) ==
  /\ p.frame.kind = "stream"
  /\ LET seq == p.frame.n
         n == CountAfter(acceptor.opened, seq)
     IN /\ acceptor' = IF Vacant(seq) /\ n <= acceptor.max
                         THEN [acceptor EXCEPT !.opened = n,
                                               !.streams = @ \cup {seq}]
                         ELSE acceptor
        /\ accused' = (accused \/ (Vacant(seq) /\ n > acceptor.max))
  /\ UNCHANGED <<opener, faults>>

(* update_peer_max_streams keeps the larger limit.                         *)
RecvMaxStreams(p) ==
  /\ p.frame.kind = "max_streams"
  /\ opener' = [opener EXCEPT !.peer_max = Max({@, p.frame.n})]
  /\ UNCHANGED <<acceptor, accused, faults>>

(* The acceptor only counts STREAMS_BLOCKED frames; `told` is the largest  *)
(* limit it has heard of.                                                  *)
RecvStreamsBlocked(p) ==
  /\ p.frame.kind = "streams_blocked"
  /\ acceptor' = [acceptor EXCEPT !.told = Max({@, p.frame.n})]
  /\ UNCHANGED <<opener, accused, faults>>

Recv(p) ==
  /\ p.wire = "flying"
  /\ RecvStream(p) \/ RecvMaxStreams(p) \/ RecvStreamsBlocked(p)
  /\ pkts' = Arrives(pkts, p)

(* The acceptor's stream is complete: collect() gives a credit back.       *)
AcceptorCollect(seq) ==
  /\ seq \in acceptor.streams
  /\ acceptor' = [acceptor EXCEPT !.next = @ + 1, !.streams = @ \ {seq},
                                  !.collected = @ \cup {seq}]
  /\ UNCHANGED <<opener, pkts, accused, faults>>

(* An acknowledged frame completes the opener's stream, and collect() of a *)
(* local stream gives no credit.                                           *)
Acked(p) ==
  /\ p.wire = "arrived"
  /\ pkts' = Forgets(pkts, p)
  /\ opener' = IF p.frame.kind = "stream" /\ p.frame.n \in opener.streams
                 THEN [opener EXCEPT !.streams = @ \ {p.frame.n},
                                     !.flushable = @ \ {p.frame.n},
                                     !.collected = @ \cup {p.frame.n}]
                 ELSE opener
  /\ UNCHANGED <<acceptor, accused, faults>>

Drop(p) ==
  /\ p.wire = "flying"
  /\ faults < MaxFaults
  /\ faults' = faults + 1
  /\ pkts' = Vanishes(pkts, p)
  /\ UNCHANGED <<opener, acceptor, accused>>

(* Slip: only a limit older than the latest is sent again.                 *)
force_retransmit_sent_limit_eq_Older(limit) ==
  [opener EXCEPT !.blocked_sent = IF limit < @ THEN None ELSE @]

(* send() takes a frame recovery gives up and queues its content again;    *)
(* only the latest STREAMS_BLOCKED is worth repeating.                     *)
force_retransmit_sent_limit_eq(limit) ==
  [opener EXCEPT !.blocked_sent = IF @ = limit THEN None ELSE @]

Requeue(frame) ==
  \/ /\ frame.kind = "stream"
     /\ opener' = [opener EXCEPT !.flushable = @ \cup ({frame.n} \cap opener.streams)]
     /\ UNCHANGED acceptor
  \/ /\ frame.kind = "streams_blocked"
     /\ opener' = force_retransmit_sent_limit_eq(frame.n)
     /\ UNCHANGED acceptor
  \/ /\ frame.kind = "max_streams"
     /\ acceptor' = [acceptor EXCEPT !.should_send = TRUE]
     /\ UNCHANGED opener

(* A verdict about a packet that was not dropped is wrong.                 *)
Lost(p) ==
  /\ p.tracked
  /\ \/ p.wire = "dropped" /\ UNCHANGED faults
     \/ p.wire # "dropped" /\ faults < MaxFaults /\ faults' = faults + 1
  /\ Requeue(p.frame)
  /\ pkts' = Forgets(pkts, p)
  /\ UNCHANGED accused

LimitsNext ==
  \/ \E seq \in Seqs : OpenStream(seq) \/ SendStream(seq) \/ AcceptorCollect(seq)
  \/ SendStreamsBlocked
  \/ SendMaxStreams
  \/ \E p \in BagToSet(pkts) : Recv(p) \/ Acked(p) \/ Drop(p) \/ Lost(p)

(* A driver loop sends while something is queued, the network carries a    *)
(* packet that it does not drop, and timers declare a dropped one lost.    *)
LimitsFairness ==
  /\ WF_limitVars(SendMaxStreams)
  /\ WF_limitVars(SendStreamsBlocked)
  /\ WF_limitVars(\E seq \in opener.flushable : SendStream(seq))
  /\ WF_limitVars(\E p \in BagToSet(pkts) : Recv(p))
  /\ WF_limitVars(\E p \in BagToSet(pkts) : p.wire = "dropped" /\ Lost(p))

LimitsSpec == LimitsInit /\ [][LimitsNext]_limitVars /\ LimitsFairness

-----------------------------------------------------------------------------
(* An opener that runs this code is never accused: each stream it opens is *)
(* within the limit the acceptor enforces when the frame arrives, however  *)
(* MAX_STREAMS frames are lost, repeated or reordered.                     *)
OpenerNotAccused == ~accused

(* The acceptor never holds more live streams than it first allowed: a     *)
(* late frame reopens no collected stream and no credit is given twice.    *)
LiveStreamsBounded ==
  /\ Cardinality(acceptor.streams) <= InitialMaxStreams
  /\ acceptor.streams \cap acceptor.collected = {}
  /\ acceptor.next = InitialMaxStreams + Cardinality(acceptor.collected)

(* An opener stopped by the limit gets the credit the acceptor has to      *)
(* give: the half-window rule of should_update never holds the last credit *)
(* back, and a lost MAX_STREAMS is sent again.                             *)
CreditReturns ==
  \A seq \in Seqs :
    (opener.opened = seq + 1 /\ opener.peer_max = seq + 1 /\ acceptor.next > seq + 1)
      ~> (opener.peer_max > seq + 1)

(* The latest limit the opener was stopped at is known to the acceptor, on *)
(* its way, or still to be sent: no order of losses, late verdicts and     *)
(* newer limits drops it.                                                  *)
BlockedIsTold ==
  \/ acceptor.told >= opener.blocked_at
  \/ has_pending_stream_blocked_frame
  \/ Tracked(pkts, StreamsBlockedFrame(opener.blocked_at))
=============================================================================
