----------------------------- MODULE WireProofs -----------------------------
(***************************************************************************)
(* Which frames the packets carry after each operation of Wire.            *)
(***************************************************************************)
EXTENDS Wire, TLAPS

PacketsOf(F) ==
  [frame : F, wire : {"flying", "arrived", "dropped"}, tracked : BOOLEAN]

(* Sending adds one packet, with the frame sent (send_single()).           *)
LEMMA EmitAdds ==
  ASSUME NEW F, NEW B, DOMAIN B \subseteq PacketsOf(F), NEW f \in F
  PROVE  /\ DOMAIN Emit(B, f) \subseteq PacketsOf(F)
         /\ \A q \in DOMAIN Emit(B, f) : q.frame = f \/ q \in DOMAIN B
<1>1. DOMAIN Emit(B, f) = DOMAIN B \cup {Sent(f)}
  BY DEF Emit, SetToBag, (+)
<1>2. Sent(f) \in PacketsOf(F) /\ Sent(f).frame = f
  BY DEF Sent, PacketsOf
<1> QED
  BY <1>1, <1>2

(* However a packet is settled, no new frame comes into sight.             *)
LEMMA SettleKeeps ==
  ASSUME NEW F, NEW B, DOMAIN B \subseteq PacketsOf(F), NEW p \in DOMAIN B,
         NEW w \in {"flying", "arrived", "dropped"}, NEW t \in BOOLEAN
  PROVE  /\ DOMAIN Settle(B, p, w, t) \subseteq PacketsOf(F)
         /\ \A q \in DOMAIN Settle(B, p, w, t) : \E o \in DOMAIN B : q.frame = o.frame
<1> DEFINE q == [p EXCEPT !.wire = w, !.tracked = t]
           rest == B (-) SetToBag({p})
<1>1. q \in PacketsOf(F) /\ q.frame = p.frame
  BY DEF PacketsOf
<1>2. DOMAIN rest \subseteq DOMAIN B
  BY DEF (-), SetToBag
<1>3. DOMAIN (rest (+) SetToBag({q})) = DOMAIN rest \cup {q}
  BY DEF (+), SetToBag
<1>4. DOMAIN Settle(B, p, w, t) \subseteq DOMAIN B \cup {q}
  BY <1>2, <1>3 DEF Settle
<1> QED
  BY <1>1, <1>4

(* A packet that arrives, vanishes or is acknowledged or given up brings   *)
(* no new frame into sight.                                                *)
LEMMA FateKeeps ==
  ASSUME NEW F, NEW B, DOMAIN B \subseteq PacketsOf(F), NEW p \in DOMAIN B,
         NEW C \in {Arrives(B, p), Vanishes(B, p), Forgets(B, p)}
  PROVE  /\ DOMAIN C \subseteq PacketsOf(F)
         /\ \A q \in DOMAIN C : \E o \in DOMAIN B : q.frame = o.frame
<1>1. p.wire \in {"flying", "arrived", "dropped"} /\ p.tracked \in BOOLEAN
  BY DEF PacketsOf
<1>2. \E w \in {"flying", "arrived", "dropped"}, t \in BOOLEAN : C = Settle(B, p, w, t)
  BY <1>1 DEF Arrives, Vanishes, Forgets
<1>3. PICK w \in {"flying", "arrived", "dropped"}, t \in BOOLEAN : C = Settle(B, p, w, t)
  BY <1>2
<1>4. /\ DOMAIN Settle(B, p, w, t) \subseteq PacketsOf(F)
      /\ \A q \in DOMAIN Settle(B, p, w, t) : \E o \in DOMAIN B : q.frame = o.frame
  BY SettleKeeps
<1> QED
  BY <1>3, <1>4, Zenon
=============================================================================
