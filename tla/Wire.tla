-------------------------------- MODULE Wire --------------------------------
(***************************************************************************)
(* Packets between two endpoints, each carrying one frame a model is       *)
(* about.  A packet is in two places at once: the network delivers, delays *)
(* or drops it, and the sender's loss recovery (quiche/src/recovery/)      *)
(* tracks it until it is acknowledged or declared lost, rightly or not.    *)
(***************************************************************************)
EXTENDS Integers, Bags

(* `wire`: where the packet is; `tracked`: recovery awaits its fate.       *)
Sent(frame) == [frame |-> frame, wire |-> "flying", tracked |-> TRUE]

Emit(pkts, frame) == pkts (+) SetToBag({Sent(frame)})

(* A packet whose fate is known on both sides is forgotten, as recovery    *)
(* drains those acknowledged or lost from its list.                        *)
Settle(pkts, p, wire, tracked) ==
  LET q == [p EXCEPT !.wire = wire, !.tracked = tracked]
      rest == pkts (-) SetToBag({p})
  IN IF wire # "flying" /\ ~tracked THEN rest ELSE rest (+) SetToBag({q})

(* The frame is in one of recovery's sent packets.                         *)
Tracked(pkts, frame) ==
  \E p \in BagToSet(pkts) : p.tracked /\ p.frame = frame

Arrives(pkts, p) == Settle(pkts, p, "arrived", p.tracked)
Vanishes(pkts, p) == Settle(pkts, p, "dropped", p.tracked)

(* Recovery is done with the packet: acknowledged, or declared lost.       *)
Forgets(pkts, p) == Settle(pkts, p, p.wire, FALSE)
=============================================================================
