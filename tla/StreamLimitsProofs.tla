------------------------- MODULE StreamLimitsProofs -------------------------
(***************************************************************************)
(* Stream credit is conserved for every initial limit, every number of     *)
(* streams and every number of faults: the opener is never accused, and    *)
(* the acceptor never holds more live streams than it first allowed.       *)
(***************************************************************************)
EXTENDS StreamLimits, WireProofs, FiniteSetTheorems

Frames == [kind : {"stream", "max_streams", "streams_blocked"}, n : Int]

PacketSet == PacketsOf(Frames)

Openers ==
  [peer_max : Nat, opened : Nat, streams : SUBSET Nat, flushable : SUBSET Nat,
   collected : SUBSET Nat, blocked_at : Int, blocked_sent : Int]

Acceptors ==
  [max : Nat, next : Nat, opened : Nat, streams : SUBSET Nat, collected : SUBSET Nat,
   should_send : BOOLEAN, told : Int]

LimitsTypeOK ==
  /\ opener \in Openers
  /\ acceptor \in Acceptors
  /\ DOMAIN pkts \subseteq PacketSet
  /\ accused \in BOOLEAN
  /\ faults \in Nat

(* A frame tells of a stream the opener has opened, or of a limit that the *)
(* acceptor enforces already.                                              *)
Honest(f, opened, max) ==
  /\ f.kind = "stream" => f.n \in Nat /\ f.n < opened
  /\ f.kind = "max_streams" => f.n \in Nat /\ f.n <= max

(* The opener's limit lags behind the acceptor's, whatever is on the way.  *)
OpenerInv ==
  /\ opener.opened <= opener.peer_max
  /\ opener.peer_max <= acceptor.max
  /\ \A s \in opener.streams \cup opener.flushable : s < opener.opened
  /\ \A p \in DOMAIN pkts : Honest(p.frame, opener.opened, acceptor.max)
  /\ ~accused

(* The acceptor's streams are among the first `opened`, live or collected, *)
(* and each one collected gave one credit.                                 *)
AcceptorInv ==
  /\ acceptor.opened <= acceptor.max
  /\ acceptor.max <= acceptor.next
  /\ \A s \in acceptor.streams \cup acceptor.collected : s < acceptor.opened
  /\ acceptor.streams \cap acceptor.collected = {}
  /\ acceptor.next = InitialMaxStreams + Cardinality(acceptor.collected)

LimitsInv == LimitsTypeOK /\ OpenerInv /\ AcceptorInv

-----------------------------------------------------------------------------
(* The larger of two numbers, as Max computes it.                          *)
LEMMA MaxOfTwo ==
  ASSUME NEW a \in Int, NEW b \in Int
  PROVE  Max({a, b}) = IF a >= b THEN a ELSE b
<1> DEFINE m == IF a >= b THEN a ELSE b
<1>1. m \in {a, b} /\ \A y \in {a, b} : m >= y
  OBVIOUS
<1>2. \A x \in {a, b} : (\A y \in {a, b} : x >= y) => x = m
  OBVIOUS
<1> QED
  BY <1>1, <1>2 DEF Max

(* Finitely many numbers lie below a bound, and two disjoint sets of them  *)
(* have no more members together than the bound.                           *)
LEMMA BelowBound ==
  ASSUME NEW n \in Nat, NEW S \in SUBSET Nat, NEW T \in SUBSET Nat,
         \A s \in S \cup T : s < n, S \cap T = {}
  PROVE  /\ IsFiniteSet(S) /\ IsFiniteSet(T)
         /\ Cardinality(S) \in Nat /\ Cardinality(T) \in Nat
         /\ Cardinality(S) + Cardinality(T) <= n
<1>1. IsFiniteSet(0..(n - 1)) /\ Cardinality(0..(n - 1)) = n
  BY FS_Interval
<1>2. S \in SUBSET (0..(n - 1)) /\ T \in SUBSET (0..(n - 1))
        /\ S \cup T \in SUBSET (0..(n - 1))
  OBVIOUS
<1>3. IsFiniteSet(S) /\ IsFiniteSet(T)
  BY <1>1, <1>2, FS_Subset
<1>4. Cardinality(S) \in Nat /\ Cardinality(T) \in Nat
  BY <1>3, FS_CardinalityType
<1>5. Cardinality(S \cup T) <= n
  <2>1. Cardinality(S \cup T) <= Cardinality(0..(n - 1))
    BY <1>1, <1>2, FS_Subset, Zenon
  <2> QED BY <2>1, <1>1
<1>6. Cardinality(S \cup T) = Cardinality(S) + Cardinality(T) - Cardinality(S \cap T)
  BY <1>3, FS_Union
<1>7. Cardinality(S \cap T) = 0
  BY FS_EmptySet
<1> QED
  BY <1>3, <1>4, <1>5, <1>6, <1>7

-----------------------------------------------------------------------------
(* The invariant holds before any stream is opened.                        *)
LEMMA LimitsInitInv == LimitsInit => LimitsInv
<1> SUFFICES ASSUME LimitsInit PROVE LimitsInv
  OBVIOUS
<1> USE StreamLimitsAssumption
<1>1. DOMAIN pkts = {}
  BY DEF LimitsInit, EmptyBag, SetToBag
<1>2. LimitsTypeOK
  <2>1. opener \in Openers
    BY DEF LimitsInit, Openers, None
  <2>2. acceptor \in Acceptors
    BY DEF LimitsInit, Acceptors, None
  <2> QED BY <1>1, <2>1, <2>2 DEF LimitsInit, LimitsTypeOK
<1>3. OpenerInv
  BY <1>1 DEF LimitsInit, OpenerInv
<1>4. Cardinality({}) = 0
  BY FS_EmptySet
<1>5. AcceptorInv
  BY <1>4 DEF LimitsInit, AcceptorInv
<1> QED
  BY <1>2, <1>3, <1>5 DEF LimitsInv

(* What the packets promise still holds when no promise is withdrawn.      *)
LEMMA HonestKept ==
  ASSUME NEW f \in Frames, NEW o \in Nat, NEW o2 \in Nat, NEW m \in Nat, NEW m2 \in Nat,
         o <= o2, m <= m2, Honest(f, o, m)
  PROVE  Honest(f, o2, m2)
BY DEF Honest, Frames

(* The bag after a packet was received, dropped or settled: its frames     *)
(* were all on their way before.                                           *)
LEMMA PacketFate ==
  ASSUME LimitsInv, NEW p \in DOMAIN pkts
  PROVE  \A B \in {Arrives(pkts, p), Vanishes(pkts, p), Forgets(pkts, p)} :
           /\ DOMAIN B \subseteq PacketSet
           /\ \A q \in DOMAIN B : Honest(q.frame, opener.opened, acceptor.max)
<1>1. DOMAIN pkts \subseteq PacketsOf(Frames)
        /\ \A q \in DOMAIN pkts : Honest(q.frame, opener.opened, acceptor.max)
  BY DEF LimitsInv, LimitsTypeOK, OpenerInv, PacketSet
<1>2. ASSUME NEW B \in {Arrives(pkts, p), Vanishes(pkts, p), Forgets(pkts, p)}
      PROVE  /\ DOMAIN B \subseteq PacketsOf(Frames)
             /\ \A q \in DOMAIN B : \E o \in DOMAIN pkts : q.frame = o.frame
  BY <1>1, FateKeeps
<1> QED
  BY <1>1, <1>2, Zenon DEF PacketSet

(* An acceptor that does not change keeps its part of the invariant.       *)
LEMMA AcceptorKept ==
  ASSUME AcceptorInv, acceptor' = acceptor
  PROVE  AcceptorInv'
BY DEF AcceptorInv

(* stream_send() opens a stream within the limit, or records the limit.    *)
LEMMA OpenStreamInv ==
  ASSUME LimitsInv, NEW seq \in Nat, OpenStream(seq)
  PROVE  LimitsInv'
<1> DEFINE n == CountAfter(opener.opened, seq)
<1>1. /\ opener \in Openers /\ opener.opened \in Nat /\ opener.peer_max \in Nat
      /\ opener.blocked_at \in Int /\ acceptor.max \in Nat
      /\ opener.streams \in SUBSET Nat /\ opener.flushable \in SUBSET Nat
  BY DEF LimitsInv, LimitsTypeOK, Openers, Acceptors
<1>2. n \in Nat /\ opener.opened <= n /\ seq < n
  BY <1>1, MaxOfTwo DEF CountAfter
<1>3. AcceptorInv' /\ acceptor' = acceptor /\ pkts' = pkts /\ accused' = accused
        /\ faults' = faults
  BY AcceptorKept DEF LimitsInv, OpenStream
<1> HIDE DEF n
<1>4. CASE n > opener.peer_max
  <2>1. opener' = [opener EXCEPT !.blocked_at = Max({@, opener.peer_max})]
    BY <1>4 DEF OpenStream, n
  <2>2. Max({opener.blocked_at, opener.peer_max}) \in Int
    BY <1>1, MaxOfTwo
  <2>3. opener' \in Openers
    BY <1>1, <2>1, <2>2 DEF Openers
  <2>4. /\ opener'.opened = opener.opened /\ opener'.peer_max = opener.peer_max
        /\ opener'.streams = opener.streams /\ opener'.flushable = opener.flushable
    BY <1>1, <2>1 DEF Openers
  <2> QED
    BY <1>3, <2>3, <2>4 DEF LimitsInv, LimitsTypeOK, OpenerInv
<1>5. CASE ~(n > opener.peer_max)
  <2>1. opener' = [opener EXCEPT !.opened = n, !.streams = @ \cup {seq},
                                 !.flushable = @ \cup {seq}]
    BY <1>5 DEF OpenStream, n
  <2>2. opener' \in Openers
    BY <1>1, <1>2, <2>1 DEF Openers
  <2>3. /\ opener'.opened = n /\ opener'.peer_max = opener.peer_max
        /\ opener'.streams = opener.streams \cup {seq}
        /\ opener'.flushable = opener.flushable \cup {seq}
    BY <1>1, <2>1 DEF Openers
  <2>4. opener'.opened <= opener'.peer_max
    BY <1>1, <1>2, <1>5, <2>3
  <2>5. \A s \in opener'.streams \cup opener'.flushable : s < opener'.opened
    BY <1>1, <1>2, <2>3 DEF LimitsInv, OpenerInv
  <2>6. \A p \in DOMAIN pkts : Honest(p.frame, n, acceptor.max)
    <3> SUFFICES ASSUME NEW p \in DOMAIN pkts PROVE Honest(p.frame, n, acceptor.max)
      OBVIOUS
    <3>1. p.frame \in Frames /\ Honest(p.frame, opener.opened, acceptor.max)
      BY DEF LimitsInv, LimitsTypeOK, OpenerInv, PacketSet, PacketsOf
    <3> QED BY <1>1, <1>2, <3>1, HonestKept
  <2> QED
    BY <1>3, <2>2, <2>3, <2>4, <2>5, <2>6 DEF LimitsInv, LimitsTypeOK, OpenerInv
<1> QED
  BY <1>4, <1>5

(* A packet sent with a frame that promises nothing new.                   *)
LEMMA EmitHonest ==
  ASSUME LimitsInv, NEW f \in Frames, NEW m \in Nat, acceptor.max <= m,
         Honest(f, opener.opened, m)
  PROVE  /\ DOMAIN Emit(pkts, f) \subseteq PacketSet
         /\ \A p \in DOMAIN Emit(pkts, f) : Honest(p.frame, opener.opened, m)
<1>1. DOMAIN pkts \subseteq PacketsOf(Frames)
  BY DEF LimitsInv, LimitsTypeOK, PacketSet
<1>2. /\ DOMAIN Emit(pkts, f) \subseteq PacketsOf(Frames)
      /\ \A q \in DOMAIN Emit(pkts, f) : q.frame = f \/ q \in DOMAIN pkts
  BY <1>1, EmitAdds
<1>3. opener.opened \in Nat /\ acceptor.max \in Nat
  BY DEF LimitsInv, LimitsTypeOK, Openers, Acceptors
<1>4. ASSUME NEW p \in DOMAIN pkts PROVE Honest(p.frame, opener.opened, m)
  <2>1. p.frame \in Frames /\ Honest(p.frame, opener.opened, acceptor.max)
    BY DEF LimitsInv, LimitsTypeOK, OpenerInv, PacketSet, PacketsOf
  <2> QED BY <1>3, <2>1, HonestKept
<1> QED
  BY <1>2, <1>4, Zenon DEF PacketSet

(* A STREAM frame is about a stream that was opened.                       *)
LEMMA SendStreamInv ==
  ASSUME LimitsInv, NEW seq \in Nat, SendStream(seq)
  PROVE  LimitsInv'
<1> DEFINE f == StreamFrame(seq)
<1>1. opener \in Openers /\ opener.flushable \in SUBSET Nat /\ acceptor.max \in Nat
  BY DEF LimitsInv, LimitsTypeOK, Openers, Acceptors
<1>2. f \in Frames /\ Honest(f, opener.opened, acceptor.max)
  BY DEF StreamFrame, Frames, Honest, SendStream, LimitsInv, OpenerInv
<1>3. opener' = [opener EXCEPT !.flushable = @ \ {seq}]
  BY DEF SendStream
<1>4. opener' \in Openers
  BY <1>1, <1>3 DEF Openers
<1>5. /\ opener'.opened = opener.opened /\ opener'.peer_max = opener.peer_max
      /\ opener'.streams = opener.streams /\ opener'.flushable \subseteq opener.flushable
  BY <1>1, <1>3 DEF Openers
<1>6. /\ DOMAIN pkts' \subseteq PacketSet
      /\ \A p \in DOMAIN pkts' : Honest(p.frame, opener.opened, acceptor.max)
  BY <1>1, <1>2, EmitHonest DEF SendStream
<1>7. AcceptorInv' /\ acceptor' = acceptor /\ accused' = accused /\ faults' = faults
  BY AcceptorKept DEF LimitsInv, SendStream
<1> QED
  BY <1>4, <1>5, <1>6, <1>7 DEF LimitsInv, LimitsTypeOK, OpenerInv

(* A STREAMS_BLOCKED frame promises nothing.                               *)
LEMMA SendStreamsBlockedInv ==
  ASSUME LimitsInv, SendStreamsBlocked
  PROVE  LimitsInv'
<1> DEFINE f == StreamsBlockedFrame(opener.blocked_at)
<1>1. opener \in Openers /\ opener.blocked_at \in Int /\ acceptor.max \in Nat
  BY DEF LimitsInv, LimitsTypeOK, Openers, Acceptors
<1>2. f \in Frames /\ Honest(f, opener.opened, acceptor.max)
  BY <1>1 DEF StreamsBlockedFrame, Frames, Honest
<1>3. opener' = [opener EXCEPT !.blocked_sent = opener.blocked_at]
  BY DEF SendStreamsBlocked
<1>4. opener' \in Openers
  BY <1>1, <1>3 DEF Openers
<1>5. /\ opener'.opened = opener.opened /\ opener'.peer_max = opener.peer_max
      /\ opener'.streams = opener.streams /\ opener'.flushable = opener.flushable
  BY <1>1, <1>3 DEF Openers
<1>6. /\ DOMAIN pkts' \subseteq PacketSet
      /\ \A p \in DOMAIN pkts' : Honest(p.frame, opener.opened, acceptor.max)
  BY <1>1, <1>2, EmitHonest DEF SendStreamsBlocked
<1>7. AcceptorInv' /\ acceptor' = acceptor /\ accused' = accused /\ faults' = faults
  BY AcceptorKept DEF LimitsInv, SendStreamsBlocked
<1> QED
  BY <1>4, <1>5, <1>6, <1>7 DEF LimitsInv, LimitsTypeOK, OpenerInv

(* A MAX_STREAMS frame announces the limit enforced from then on.          *)
LEMMA SendMaxStreamsInv ==
  ASSUME LimitsInv, SendMaxStreams
  PROVE  LimitsInv'
<1> DEFINE f == MaxStreamsFrame(acceptor.next)
<1>1. /\ acceptor \in Acceptors /\ acceptor.max \in Nat /\ acceptor.next \in Nat
      /\ acceptor.opened \in Nat /\ opener.peer_max \in Nat
      /\ acceptor.opened <= acceptor.max /\ acceptor.max <= acceptor.next
      /\ opener.peer_max <= acceptor.max
  BY DEF LimitsInv, LimitsTypeOK, Openers, Acceptors, OpenerInv, AcceptorInv
<1>2. f \in Frames /\ Honest(f, opener.opened, acceptor.next)
  BY <1>1 DEF MaxStreamsFrame, Frames, Honest
<1>3. acceptor' = [acceptor EXCEPT !.max = acceptor.next, !.should_send = FALSE]
  BY DEF SendMaxStreams
<1>4. acceptor' \in Acceptors
  BY <1>1, <1>3 DEF Acceptors
<1>5. /\ acceptor'.max = acceptor.next /\ acceptor'.next = acceptor.next
      /\ acceptor'.opened = acceptor.opened /\ acceptor'.streams = acceptor.streams
      /\ acceptor'.collected = acceptor.collected
  BY <1>1, <1>3 DEF Acceptors
<1>6. /\ DOMAIN pkts' \subseteq PacketSet
      /\ \A p \in DOMAIN pkts' : Honest(p.frame, opener.opened, acceptor.next)
  BY <1>1, <1>2, EmitHonest DEF SendMaxStreams
<1>7. opener' = opener /\ accused' = accused /\ faults' = faults
  BY DEF SendMaxStreams
<1>8. acceptor.opened <= acceptor.next /\ opener.peer_max <= acceptor.next
        /\ acceptor.next <= acceptor.next
  BY <1>1
<1>9. AcceptorInv'
  BY <1>5, <1>8 DEF LimitsInv, AcceptorInv
<1>10. OpenerInv'
  BY <1>5, <1>6, <1>7, <1>8 DEF LimitsInv, OpenerInv
<1> QED
  BY <1>4, <1>6, <1>7, <1>9, <1>10 DEF LimitsInv, LimitsTypeOK

(* get_or_create: the acceptor finds the stream, or has the credit for it. *)
LEMMA RecvStreamInv ==
  ASSUME LimitsInv, NEW p \in DOMAIN pkts, RecvStream(p), pkts' = Arrives(pkts, p)
  PROVE  LimitsInv'
<1> DEFINE seq == p.frame.n
           n == CountAfter(acceptor.opened, seq)
<1>1. /\ acceptor \in Acceptors /\ acceptor.max \in Nat /\ acceptor.opened \in Nat
      /\ acceptor.streams \in SUBSET Nat /\ acceptor.collected \in SUBSET Nat
      /\ opener.opened \in Nat /\ opener.peer_max \in Nat
  BY DEF LimitsInv, LimitsTypeOK, Openers, Acceptors
<1>2. seq \in Nat /\ seq < opener.opened
  BY DEF LimitsInv, OpenerInv, Honest, RecvStream
<1>3. /\ opener.opened <= opener.peer_max /\ opener.peer_max <= acceptor.max
      /\ acceptor.opened <= acceptor.max
  BY DEF LimitsInv, OpenerInv, AcceptorInv
<1>4. n \in Nat /\ n <= acceptor.max /\ acceptor.opened <= n /\ seq < n
  BY <1>1, <1>2, <1>3, MaxOfTwo DEF CountAfter
<1>5. opener' = opener /\ faults' = faults
  BY DEF RecvStream
<1>6. accused' = accused
  BY <1>1, <1>4 DEF RecvStream, LimitsInv, LimitsTypeOK
<1>7. /\ DOMAIN pkts' \subseteq PacketSet
      /\ \A q \in DOMAIN pkts' : Honest(q.frame, opener.opened, acceptor.max)
  BY PacketFate
<1>8. CASE Vacant(seq)
  <2>1. acceptor' = [acceptor EXCEPT !.opened = n, !.streams = @ \cup {seq}]
    BY <1>4, <1>8 DEF RecvStream
  <2> HIDE DEF n, seq
  <2>2. acceptor' \in Acceptors
    BY <1>1, <1>2, <1>4, <2>1 DEF Acceptors
  <2>3. /\ acceptor'.max = acceptor.max /\ acceptor'.next = acceptor.next
        /\ acceptor'.opened = n /\ acceptor'.streams = acceptor.streams \cup {seq}
        /\ acceptor'.collected = acceptor.collected
    BY <1>1, <2>1 DEF Acceptors
  <2>4. \A s \in acceptor'.streams \cup acceptor'.collected : s < acceptor'.opened
    BY <1>1, <1>4, <2>3 DEF LimitsInv, AcceptorInv
  <2>5. acceptor'.streams \cap acceptor'.collected = {}
    BY <1>8, <2>3 DEF LimitsInv, AcceptorInv, Vacant
  <2>6. AcceptorInv'
    BY <1>4, <2>3, <2>4, <2>5 DEF LimitsInv, AcceptorInv
  <2>7. OpenerInv'
    BY <1>5, <1>6, <1>7, <2>3 DEF LimitsInv, OpenerInv
  <2> QED
    BY <1>5, <1>6, <1>7, <2>2, <2>6, <2>7 DEF LimitsInv, LimitsTypeOK
<1>9. CASE ~Vacant(seq)
  <2>1. acceptor' = acceptor
    BY <1>9 DEF RecvStream
  <2>2. AcceptorInv'
    BY <2>1, AcceptorKept DEF LimitsInv
  <2> QED
    BY <1>5, <1>6, <1>7, <2>1, <2>2 DEF LimitsInv, LimitsTypeOK, OpenerInv
<1> QED
  BY <1>8, <1>9

(* update_peer_max_streams() takes a limit that is enforced.               *)
LEMMA RecvMaxStreamsInv ==
  ASSUME LimitsInv, NEW p \in DOMAIN pkts, RecvMaxStreams(p), pkts' = Arrives(pkts, p)
  PROVE  LimitsInv'
<1> DEFINE m == Max({opener.peer_max, p.frame.n})
<1>1. /\ opener \in Openers /\ opener.opened \in Nat /\ opener.peer_max \in Nat
      /\ acceptor.max \in Nat
  BY DEF LimitsInv, LimitsTypeOK, Openers, Acceptors
<1>2. p.frame.n \in Nat /\ p.frame.n <= acceptor.max
  BY DEF LimitsInv, OpenerInv, Honest, RecvMaxStreams
<1>3. opener.opened <= opener.peer_max /\ opener.peer_max <= acceptor.max
  BY DEF LimitsInv, OpenerInv
<1>4. m \in Nat /\ m <= acceptor.max /\ opener.opened <= m
  BY <1>1, <1>2, <1>3, MaxOfTwo
<1>5. opener' = [opener EXCEPT !.peer_max = m]
  BY DEF RecvMaxStreams
<1> HIDE DEF m
<1>6. opener' \in Openers
  BY <1>1, <1>4, <1>5 DEF Openers
<1>7. /\ opener'.opened = opener.opened /\ opener'.peer_max = m
      /\ opener'.streams = opener.streams /\ opener'.flushable = opener.flushable
  BY <1>1, <1>5 DEF Openers
<1>8. /\ DOMAIN pkts' \subseteq PacketSet
      /\ \A q \in DOMAIN pkts' : Honest(q.frame, opener.opened, acceptor.max)
  BY PacketFate
<1>9. AcceptorInv' /\ acceptor' = acceptor /\ accused' = accused /\ faults' = faults
  BY AcceptorKept DEF LimitsInv, RecvMaxStreams
<1> QED
  BY <1>4, <1>6, <1>7, <1>8, <1>9 DEF LimitsInv, LimitsTypeOK, OpenerInv

(* STREAMS_BLOCKED changes no limit.                                       *)
LEMMA RecvStreamsBlockedInv ==
  ASSUME LimitsInv, NEW p \in DOMAIN pkts, RecvStreamsBlocked(p), pkts' = Arrives(pkts, p)
  PROVE  LimitsInv'
<1> DEFINE m == Max({acceptor.told, p.frame.n})
<1>1. acceptor \in Acceptors /\ acceptor.told \in Int /\ p.frame.n \in Int
  BY DEF LimitsInv, LimitsTypeOK, Acceptors, PacketSet, PacketsOf, Frames
<1>2. m \in Int
  BY <1>1, MaxOfTwo
<1>3. acceptor' = [acceptor EXCEPT !.told = m]
  BY DEF RecvStreamsBlocked
<1> HIDE DEF m
<1>4. acceptor' \in Acceptors
  BY <1>1, <1>2, <1>3 DEF Acceptors
<1>5. /\ acceptor'.max = acceptor.max /\ acceptor'.next = acceptor.next
      /\ acceptor'.opened = acceptor.opened /\ acceptor'.streams = acceptor.streams
      /\ acceptor'.collected = acceptor.collected
  BY <1>1, <1>3 DEF Acceptors
<1>6. /\ DOMAIN pkts' \subseteq PacketSet
      /\ \A q \in DOMAIN pkts' : Honest(q.frame, opener.opened, acceptor.max)
  BY PacketFate
<1>7. opener' = opener /\ accused' = accused /\ faults' = faults
  BY DEF RecvStreamsBlocked
<1>8. AcceptorInv'
  BY <1>5 DEF LimitsInv, AcceptorInv
<1> QED
  BY <1>4, <1>5, <1>6, <1>7, <1>8 DEF LimitsInv, LimitsTypeOK, OpenerInv

(* collect() gives one credit for a stream that was not collected before.  *)
LEMMA AcceptorCollectInv ==
  ASSUME LimitsInv, NEW seq \in Nat, AcceptorCollect(seq)
  PROVE  LimitsInv'
<1>1. /\ acceptor \in Acceptors /\ acceptor.max \in Nat /\ acceptor.next \in Nat
      /\ acceptor.opened \in Nat
      /\ acceptor.streams \in SUBSET Nat /\ acceptor.collected \in SUBSET Nat
  BY DEF LimitsInv, LimitsTypeOK, Acceptors
<1>2. /\ acceptor.max <= acceptor.next
      /\ \A s \in acceptor.streams \cup acceptor.collected : s < acceptor.opened
      /\ acceptor.streams \cap acceptor.collected = {}
      /\ acceptor.next = InitialMaxStreams + Cardinality(acceptor.collected)
  BY DEF LimitsInv, AcceptorInv
<1>3. seq \in acceptor.streams /\ seq \notin acceptor.collected
  BY <1>2 DEF AcceptorCollect
<1>4. IsFiniteSet(acceptor.collected) /\ Cardinality(acceptor.collected) \in Nat
  BY <1>1, <1>2, BelowBound
<1>5. Cardinality(acceptor.collected \cup {seq}) = Cardinality(acceptor.collected) + 1
  BY <1>3, <1>4, FS_AddElement
<1>6. acceptor' = [acceptor EXCEPT !.next = @ + 1, !.streams = @ \ {seq},
                                   !.collected = @ \cup {seq}]
  BY DEF AcceptorCollect
<1>7. acceptor' \in Acceptors
  <2>1. /\ acceptor.next + 1 \in Nat /\ acceptor.streams \ {seq} \in SUBSET Nat
        /\ acceptor.collected \cup {seq} \in SUBSET Nat
    BY <1>1
  <2> QED BY <1>1, <1>6, <2>1 DEF Acceptors
<1>8. /\ acceptor'.max = acceptor.max /\ acceptor'.next = acceptor.next + 1
      /\ acceptor'.opened = acceptor.opened
      /\ acceptor'.streams = acceptor.streams \ {seq}
      /\ acceptor'.collected = acceptor.collected \cup {seq}
  BY <1>1, <1>6 DEF Acceptors
<1>9. acceptor'.next = InitialMaxStreams + Cardinality(acceptor'.collected)
  BY <1>2, <1>4, <1>5, <1>8, StreamLimitsAssumption
<1>10. acceptor'.max <= acceptor'.next
  BY <1>1, <1>2, <1>8
<1>11. \A s \in acceptor'.streams \cup acceptor'.collected : s < acceptor'.opened
  BY <1>2, <1>3, <1>8
<1>12. acceptor'.streams \cap acceptor'.collected = {}
  BY <1>2, <1>8
<1>13. AcceptorInv'
  BY <1>8, <1>9, <1>10, <1>11, <1>12 DEF LimitsInv, AcceptorInv
<1>14. opener' = opener /\ pkts' = pkts /\ accused' = accused /\ faults' = faults
  BY DEF AcceptorCollect
<1> QED
  BY <1>7, <1>8, <1>13, <1>14 DEF LimitsInv, LimitsTypeOK, OpenerInv

(* An opener that only forgets, or queues again a stream it has, keeps the *)
(* invariant, whatever becomes of the packet.                              *)
LEMMA OpenerKeeps ==
  ASSUME LimitsInv, NEW p \in DOMAIN pkts,
         pkts' \in {Arrives(pkts, p), Vanishes(pkts, p), Forgets(pkts, p)},
         opener' \in Openers, opener'.opened = opener.opened,
         opener'.peer_max = opener.peer_max,
         opener'.streams \subseteq opener.streams,
         opener'.flushable \subseteq opener.streams \cup opener.flushable,
         acceptor' \in Acceptors, acceptor'.max = acceptor.max,
         AcceptorInv', accused' = accused, faults' \in Nat
  PROVE  LimitsInv'
<1>1. /\ DOMAIN pkts' \subseteq PacketSet
      /\ \A q \in DOMAIN pkts' : Honest(q.frame, opener.opened, acceptor.max)
  BY PacketFate, Zenon
<1> QED
  BY <1>1 DEF LimitsInv, LimitsTypeOK, OpenerInv

(* An acknowledgement completes the opener's stream, without credit.       *)
LEMMA AckedInv ==
  ASSUME LimitsInv, NEW p \in DOMAIN pkts, Acked(p)
  PROVE  LimitsInv'
<1>1. opener \in Openers /\ p.frame.n \in Int /\ opener.streams \in SUBSET Nat
  BY DEF LimitsInv, LimitsTypeOK, Openers, PacketSet, PacketsOf, Frames
<1>2. /\ opener' \in Openers /\ opener'.opened = opener.opened
      /\ opener'.peer_max = opener.peer_max /\ opener'.streams \subseteq opener.streams
      /\ opener'.flushable \subseteq opener.streams \cup opener.flushable
  <2>1. CASE p.frame.kind = "stream" /\ p.frame.n \in opener.streams
    <3>1. opener' = [opener EXCEPT !.streams = @ \ {p.frame.n},
                                   !.flushable = @ \ {p.frame.n},
                                   !.collected = @ \cup {p.frame.n}]
      BY <2>1 DEF Acked
    <3>2. p.frame.n \in Nat
      BY <1>1, <2>1
    <3> QED BY <1>1, <3>1, <3>2 DEF Openers
  <2>2. CASE ~(p.frame.kind = "stream" /\ p.frame.n \in opener.streams)
    BY <1>1, <2>2 DEF Acked
  <2> QED BY <2>1, <2>2
<1>3. AcceptorInv' /\ acceptor' = acceptor /\ accused' = accused /\ faults' = faults
  BY AcceptorKept DEF LimitsInv, Acked
<1>4. acceptor \in Acceptors /\ faults \in Nat
  BY DEF LimitsInv, LimitsTypeOK
<1>5. pkts' = Forgets(pkts, p)
  BY DEF Acked
<1> QED
  BY <1>2, <1>3, <1>4, <1>5, OpenerKeeps

(* The network drops a packet.                                             *)
LEMMA DropInv ==
  ASSUME LimitsInv, NEW p \in DOMAIN pkts, Drop(p)
  PROVE  LimitsInv'
<1>1. AcceptorInv' /\ acceptor' = acceptor /\ opener' = opener /\ accused' = accused
  BY AcceptorKept DEF LimitsInv, Drop
<1>2. acceptor \in Acceptors /\ opener \in Openers /\ faults \in Nat
  BY DEF LimitsInv, LimitsTypeOK
<1>3. faults' \in Nat /\ pkts' = Vanishes(pkts, p)
  BY <1>2 DEF Drop
<1> QED
  BY <1>1, <1>2, <1>3, OpenerKeeps

(* A frame given up is queued again: no stream opens and no limit moves.   *)
LEMMA LostInv ==
  ASSUME LimitsInv, NEW p \in DOMAIN pkts, Lost(p)
  PROVE  LimitsInv'
<1>1. /\ acceptor \in Acceptors /\ opener \in Openers /\ faults \in Nat
      /\ opener.streams \in SUBSET Nat /\ opener.flushable \in SUBSET Nat
  BY DEF LimitsInv, LimitsTypeOK, Openers
<1>2. faults' \in Nat /\ pkts' = Forgets(pkts, p) /\ accused' = accused
        /\ Requeue(p.frame)
  BY <1>1 DEF Lost
<1>3. CASE acceptor' = acceptor
           /\ opener' = [opener EXCEPT !.flushable =
                            @ \cup ({p.frame.n} \cap opener.streams)]
  <2>1. opener' \in Openers
    BY <1>1, <1>3 DEF Openers
  <2>2. /\ opener'.opened = opener.opened /\ opener'.peer_max = opener.peer_max
        /\ opener'.streams = opener.streams
        /\ opener'.flushable \subseteq opener.streams \cup opener.flushable
    BY <1>1, <1>3 DEF Openers
  <2>3. AcceptorInv'
    BY <1>3, AcceptorKept DEF LimitsInv
  <2> QED BY <1>1, <1>2, <1>3, <2>1, <2>2, <2>3, OpenerKeeps
<1>4. CASE acceptor' = acceptor
           /\ opener' = force_retransmit_sent_limit_eq(p.frame.n)
  <2>1. opener' \in Openers
    BY <1>1, <1>4 DEF Openers, force_retransmit_sent_limit_eq, None
  <2>2. /\ opener'.opened = opener.opened /\ opener'.peer_max = opener.peer_max
        /\ opener'.streams = opener.streams /\ opener'.flushable = opener.flushable
    BY <1>1, <1>4 DEF Openers, force_retransmit_sent_limit_eq
  <2>3. AcceptorInv'
    BY <1>4, AcceptorKept DEF LimitsInv
  <2> QED BY <1>1, <1>2, <1>4, <2>1, <2>2, <2>3, OpenerKeeps
<1>5. CASE opener' = opener /\ acceptor' = [acceptor EXCEPT !.should_send = TRUE]
  <2>1. acceptor' \in Acceptors
    BY <1>1, <1>5 DEF Acceptors
  <2>2. /\ acceptor'.max = acceptor.max /\ acceptor'.next = acceptor.next
        /\ acceptor'.opened = acceptor.opened /\ acceptor'.streams = acceptor.streams
        /\ acceptor'.collected = acceptor.collected
    BY <1>1, <1>5 DEF Acceptors
  <2>3. AcceptorInv'
    BY <2>2 DEF LimitsInv, AcceptorInv
  <2> QED BY <1>1, <1>2, <1>5, <2>1, <2>2, <2>3, OpenerKeeps
<1> QED
  BY <1>2, <1>3, <1>4, <1>5 DEF Requeue

-----------------------------------------------------------------------------
(* Every step keeps the invariant.                                         *)
LEMMA LimitsStepInv ==
  ASSUME LimitsInv, [LimitsNext]_limitVars
  PROVE  LimitsInv'
<1>1. ASSUME NEW seq \in Seqs,
             OpenStream(seq) \/ SendStream(seq) \/ AcceptorCollect(seq)
      PROVE  LimitsInv'
  <2>1. seq \in Nat
    BY StreamLimitsAssumption
  <2> QED
    BY <1>1, <2>1, OpenStreamInv, SendStreamInv, AcceptorCollectInv
<1>2. CASE SendStreamsBlocked
  BY <1>2, SendStreamsBlockedInv
<1>3. CASE SendMaxStreams
  BY <1>3, SendMaxStreamsInv
<1>4. ASSUME NEW p \in DOMAIN pkts, Recv(p) \/ Acked(p) \/ Drop(p) \/ Lost(p)
      PROVE  LimitsInv'
  <2>1. CASE Recv(p)
    BY <2>1, RecvStreamInv, RecvMaxStreamsInv, RecvStreamsBlockedInv DEF Recv
  <2> QED
    BY <1>4, <2>1, AckedInv, DropInv, LostInv
<1>5. CASE UNCHANGED limitVars
  BY <1>5 DEF LimitsInv, LimitsTypeOK, OpenerInv, AcceptorInv, limitVars
<1> QED
  BY <1>1, <1>2, <1>3, <1>4, <1>5 DEF LimitsNext, BagToSet

(* Credit is conserved in every reachable state.                           *)
THEOREM LimitsInvariant == LimitsSpec => []LimitsInv
<1>1. LimitsInit => LimitsInv
  BY LimitsInitInv
<1>2. LimitsInv /\ [LimitsNext]_limitVars => LimitsInv'
  BY LimitsStepInv
<1> QED
  BY <1>1, <1>2, PTL DEF LimitsSpec

(* The acceptor never answers a stream of the opener with StreamLimit, for *)
(* every initial limit and however frames are lost, repeated or reordered. *)
THEOREM LimitsOpenerNotAccused == LimitsSpec => []OpenerNotAccused
<1>1. LimitsInv => OpenerNotAccused
  BY DEF LimitsInv, OpenerInv, OpenerNotAccused
<1> QED
  BY <1>1, LimitsInvariant, PTL

(* The acceptor never has more live streams than it first allowed, reopens *)
(* no collected stream and gives each credit once.                         *)
THEOREM LimitsLiveStreamsBounded == LimitsSpec => []LiveStreamsBounded
<1>1. ASSUME LimitsInv PROVE LiveStreamsBounded
  <2>1. /\ acceptor.max \in Nat /\ acceptor.next \in Nat /\ acceptor.opened \in Nat
        /\ acceptor.streams \in SUBSET Nat /\ acceptor.collected \in SUBSET Nat
    BY <1>1 DEF LimitsInv, LimitsTypeOK, Acceptors
  <2>2. /\ acceptor.opened <= acceptor.max /\ acceptor.max <= acceptor.next
        /\ \A s \in acceptor.streams \cup acceptor.collected : s < acceptor.opened
        /\ acceptor.streams \cap acceptor.collected = {}
        /\ acceptor.next = InitialMaxStreams + Cardinality(acceptor.collected)
    BY <1>1 DEF LimitsInv, AcceptorInv
  <2>3. /\ Cardinality(acceptor.streams) \in Nat /\ Cardinality(acceptor.collected) \in Nat
        /\ Cardinality(acceptor.streams) + Cardinality(acceptor.collected) <= acceptor.opened
    BY <2>1, <2>2, BelowBound
  <2>4. Cardinality(acceptor.streams) <= InitialMaxStreams
    BY <2>1, <2>2, <2>3, StreamLimitsAssumption
  <2> QED BY <2>2, <2>4 DEF LiveStreamsBounded
<1> QED
  BY <1>1, LimitsInvariant, PTL
=============================================================================
