---------------------------- MODULE CidExchange ----------------------------
(***************************************************************************)
(* Two endpoints exchange connection identifiers (quiche/src/lib.rs over   *)
(* quiche/src/cid.rs): the issuer announces source identifiers, the user   *)
(* sends on one path with one of them and retires the old ones.  Packets   *)
(* are lost, delayed and reordered, and loss detection may be wrong: a     *)
(* frame is written again although its first packet arrives, or arrived.   *)
(* An error in a frame handler closes the connection.                      *)
(***************************************************************************)
EXTENDS ConnectionIds, Wire

CONSTANTS MaxScids,   \* bound on the identifiers the issuer creates
          MaxFaults   \* bound on dropped packets and wrong loss verdicts

VARIABLES src,        \* the issuer's source identifiers
          dst,        \* the user's destination identifiers
          dcid,       \* active_dcid_seq of the user's path
          pkts,       \* bag of packets: on the wire, or still in recovery's sight
          closed,     \* a frame handler failed
          asked,      \* numbers the user's application retired with retire_dcid()
          faults

vars == <<src, dst, dcid, pkts, closed, asked, faults>>

ThePath == 0

NewIdFrame(seq, rpt) == [kind |-> "new", seq |-> seq, rpt |-> rpt, via |-> 0]
RetireFrame(seq, via) == [kind |-> "retire", seq |-> seq, rpt |-> 0, via |-> via]

Packets == BagToSet(pkts)

Init ==
  /\ src = NewSource(ThePath)
  /\ dst = NewDestination(ThePath)
  /\ dcid = 0
  /\ pkts = EmptyBag
  /\ closed = FALSE
  /\ asked = {}
  /\ faults = 0

(* Connection::new_scid.                                                   *)
NewScid(known, retire_if_needed) ==
  /\ ~closed
  /\ src' = new_scid(src, known, retire_if_needed)
  /\ src'.next <= MaxScids
  /\ UNCHANGED <<dst, dcid, pkts, closed, asked, faults>>

(* send() writes the NEW_CONNECTION_ID frame at the head of the queue.     *)
(* When that identifier is gone the whole send() fails.                    *)
SendBlocked == src.advertise # <<>> /\ Head(src.advertise) \notin DOMAIN src.scids

SendNewConnectionId ==
  /\ ~closed
  /\ src.advertise # <<>>
  /\ ~SendBlocked
  /\ LET seq == Head(src.advertise)
     IN /\ src' = mark_advertise_new_scid_seq(src, seq, FALSE)
        /\ pkts' = Emit(pkts, NewIdFrame(seq, src.retire_prior_to))
  /\ UNCHANGED <<dst, dcid, closed, asked, faults>>

(* send() writes a RETIRE_CONNECTION_ID frame, never about the identifier  *)
(* the packet itself is sent to.                                           *)
SendRetireConnectionId(seq) ==
  /\ ~closed
  /\ dcid # NoSeq
  /\ seq # dcid
  /\ dst' = mark_retire_dcid_seq(dst, seq, FALSE)
  /\ pkts' = Emit(pkts, RetireFrame(seq, dcid))
  /\ UNCHANGED <<src, dcid, closed, asked, faults>>

(* The path takes the lowest identifier no path uses, if there is one.     *)
Relink(d) ==
  LET seq == lowest_available_dcid_seq(d)
  IN /\ dst' = IF seq = NoSeq THEN d ELSE link_dcid_to_path_id(d, seq, ThePath)
     /\ dcid' = seq

RecvNewConnectionId(p) ==
  /\ ~closed
  /\ p.wire = "flying" /\ p.frame.kind = "new"
  /\ pkts' = Arrives(pkts, p)
  /\ LET r == new_dcid(dst, p.frame.seq, p.frame.rpt)
     IN /\ IF dcid = NoSeq \/ dcid \in r.retired THEN Relink(r.dst)
           ELSE dst' = r.dst /\ dcid' = dcid
        /\ closed' = r.err
  /\ UNCHANGED <<src, asked, faults>>

(* A packet sent to an identifier that is gone maps to no path.            *)
RecvRetireConnectionId(p) ==
  /\ ~closed
  /\ p.wire = "flying" /\ p.frame.kind = "retire"
  /\ pkts' = Arrives(pkts, p)
  /\ LET r == retire_scid(src, p.frame.seq, p.frame.via)
         unknown == p.frame.via \notin DOMAIN src.scids
     IN /\ src' = IF unknown THEN src ELSE r.src
        /\ closed' = (unknown \/ r.err)
  /\ UNCHANGED <<dst, dcid, asked, faults>>

(* Connection::retire_dcid on the only path.                               *)
RetireDcid(seq) ==
  /\ ~closed
  /\ dcid # NoSeq
  /\ ~(seq = dcid /\ lowest_available_dcid_seq(dst) = NoSeq)
  /\ LET r == retire_dcid(dst, seq)
     IN IF r.pid # NoPath /\ ~r.err THEN Relink(r.dst)
        ELSE dst' = r.dst /\ dcid' = dcid
  /\ asked' = asked \cup {seq}
  /\ UNCHANGED <<src, pkts, closed, faults>>

Drop(p) ==
  /\ p.wire = "flying"
  /\ faults < MaxFaults
  /\ faults' = faults + 1
  /\ pkts' = Vanishes(pkts, p)
  /\ UNCHANGED <<src, dst, dcid, closed, asked>>

Acked(p) ==
  /\ p.wire = "arrived"
  /\ pkts' = Forgets(pkts, p)
  /\ UNCHANGED <<src, dst, dcid, closed, asked, faults>>

(* Slip: a lost RETIRE_CONNECTION_ID frame is not queued again.            *)
Requeue_NewOnly(frame) ==
  /\ src' = IF frame.kind = "new" THEN mark_advertise_new_scid_seq(src, frame.seq, TRUE)
            ELSE src
  /\ UNCHANGED dst

(* Slip: a lost NEW_CONNECTION_ID frame is not queued again.               *)
Requeue_RetireOnly(frame) ==
  /\ dst' = IF frame.kind = "retire" THEN mark_retire_dcid_seq(dst, frame.seq, TRUE)
            ELSE dst
  /\ UNCHANGED src

(* send() takes a frame recovery gives up and queues its content again.    *)
(* When the retire set is full mark_retire_dcid_seq() changes nothing:     *)
(* send() returns IdLimit, the connection stays open, and the frame, which *)
(* recovery has handed over, is gone.                                      *)
Requeue(frame) ==
  IF frame.kind = "new"
    THEN src' = mark_advertise_new_scid_seq(src, frame.seq, TRUE) /\ UNCHANGED dst
    ELSE dst' = mark_retire_dcid_seq(dst, frame.seq, TRUE) /\ UNCHANGED src

(* The packet is declared lost; the verdict is wrong when it was not       *)
(* dropped.                                                                *)
Lost(p) ==
  /\ ~closed
  /\ p.tracked
  /\ \/ p.wire = "dropped" /\ UNCHANGED faults
     \/ p.wire # "dropped" /\ faults < MaxFaults /\ faults' = faults + 1
  /\ Requeue(p.frame)
  /\ pkts' = Forgets(pkts, p)
  /\ UNCHANGED <<dcid, closed, asked>>

(* A probe timeout sends the content again and keeps waiting for the       *)
(* packet.                                                                 *)
Probed(p) ==
  /\ ~closed
  /\ p.tracked
  /\ faults < MaxFaults
  /\ faults' = faults + 1
  /\ Requeue(p.frame)
  /\ UNCHANGED <<dcid, pkts, closed, asked>>

Next ==
  \/ \E known, retire_if_needed \in BOOLEAN : NewScid(known, retire_if_needed)
  \/ SendNewConnectionId
  \/ \E seq \in dst.retire : SendRetireConnectionId(seq)
  \/ \E seq \in DOMAIN dst.dcids : RetireDcid(seq)
  \/ \E p \in Packets : \/ RecvNewConnectionId(p) \/ RecvRetireConnectionId(p)
                        \/ Drop(p) \/ Acked(p) \/ Lost(p) \/ Probed(p)

(* A driver loop sends while something is queued, the network carries a    *)
(* packet that it does not drop, and timers declare a dropped one lost.    *)
Fairness ==
  /\ WF_vars(SendNewConnectionId)
  /\ WF_vars(\E seq \in dst.retire : SendRetireConnectionId(seq))
  /\ WF_vars(\E p \in Packets : RecvNewConnectionId(p) \/ RecvRetireConnectionId(p))
  /\ WF_vars(\E p \in Packets : p.wire = "dropped" /\ Lost(p))

Spec == Init /\ [][Next]_vars /\ Fairness

-----------------------------------------------------------------------------
InSight(kind, seq) ==
  \E p \in Packets : p.tracked /\ p.frame.kind = kind /\ p.frame.seq = seq

(* Every identifier the user holds is one the issuer still accepts, unless *)
(* the user's own application retired it (then a late copy of its          *)
(* NEW_CONNECTION_ID frame brings it back): rotation never leaves the user *)
(* sending to an identifier that is gone.                                  *)
HeldIsAccepted ==
  closed \/ DOMAIN dst.dcids \subseteq DOMAIN src.scids \cup asked

(* No identifier falls between the endpoints: each one the issuer keeps is *)
(* held by the user, or still to be announced, or its retirement is still  *)
(* to be told; whatever was lost is queued again.                          *)
IdsNotForgotten ==
  closed \/ \A s \in DOMAIN src.scids :
    \/ s \in DOMAIN dst.dcids \/ s \in dst.retire
    \/ Contains(src.advertise, s) \/ InSight("new", s) \/ InSight("retire", s)

(* Rotation completes: an identifier the user was told to retire leaves    *)
(* the issuer's list, whatever frames are lost, unless the connection      *)
(* fails first.                                                            *)
RotationCompletes ==
  \A s \in 0..MaxScids :
    (s \in DOMAIN src.scids /\ s < dst.largest_retire_prior_to)
      ~> (s \notin DOMAIN src.scids \/ closed)
=============================================================================
