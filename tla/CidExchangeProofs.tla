------------------------- MODULE CidExchangeProofs -------------------------
(***************************************************************************)
(* Rotation of connection identifiers is safe for all limits and any       *)
(* number of identifiers and faults: the user holds only identifiers the   *)
(* issuer accepts, but for those its own application retired.              *)
(***************************************************************************)
EXTENDS CidExchange, WireProofs, FiniteSetTheorems, WellFoundedInduction

IsSource(s) ==
  s = [scids |-> s.scids, advertise |-> s.advertise, next |-> s.next,
       retire_prior_to |-> s.retire_prior_to]

IsDestination(d) ==
  d = [dcids |-> d.dcids, retire |-> d.retire,
       largest_retire_prior_to |-> d.largest_retire_prior_to]

FrameSet == [kind : {"new", "retire"}, seq : Nat, rpt : Int, via : Int]

(* The identifiers a retirement may be about: those the issuer asked to    *)
(* retire before `largest`, and those the application retired.             *)
Retirable(largest, retired) == {s \in Nat : s < largest \/ s \in retired}

(* The issuer has every identifier it created but those whose retirement   *)
(* was told.                                                               *)
SourceInv(s, retirable) ==
  /\ IsSource(s)
  /\ s.next \in Nat /\ s.retire_prior_to \in Int
  /\ \A q \in DOMAIN s.scids : q \in Nat /\ q < s.next
  /\ \A q \in Nat : q < s.next /\ q \notin DOMAIN s.scids => q \in retirable

(* The user holds nothing it was told to retire, and tells of nothing else. *)
DestinationInv(d, next, retirable) ==
  /\ IsDestination(d)
  /\ d.largest_retire_prior_to \in Int
  /\ \A q \in DOMAIN d.dcids :
       q \in Nat /\ q < next /\ d.largest_retire_prior_to <= q
  /\ d.retire \subseteq retirable

(* An announcement is of an identifier that was created, a retirement of   *)
(* one that may be retired.                                                *)
Truthful(f, next, retirable) ==
  /\ f.kind = "new" => f.seq < next
  /\ f.kind = "retire" => f.seq \in retirable

May == Retirable(dst.largest_retire_prior_to, asked)

CidOpen ==
  /\ SourceInv(src, May)
  /\ DestinationInv(dst, src.next, May)
  /\ dcid \in Int
  /\ DOMAIN pkts \subseteq PacketsOf(FrameSet)
  /\ \A p \in DOMAIN pkts : Truthful(p.frame, src.next, May)

CidInv == closed \/ CidOpen

-----------------------------------------------------------------------------
(* Nothing ceases to be true of a frame when more identifiers are created  *)
(* or retired.                                                             *)
LEMMA TruthfulKept ==
  ASSUME NEW f \in FrameSet, NEW n \in Nat, NEW n2 \in Nat, n <= n2, NEW S, NEW T,
         S \subseteq T, Truthful(f, n, S)
  PROVE  Truthful(f, n2, T)
BY DEF Truthful, FrameSet

(* The lowest number of a set is a number, if there is one.                *)
LEMMA LowestType ==
  ASSUME NEW S, S \subseteq Nat
  PROVE  Lowest(S) \in Int
<1>1. CASE S = {}
  BY <1>1 DEF Lowest, NoSeq
<1>2. CASE S # {}
  <2> DEFINE T == {0..m : m \in S}
             R == StrictSubsetOrdering(Nat)
  <2>1. T \subseteq FiniteSubsetsOf(Nat)
    <3> SUFFICES ASSUME NEW m \in S PROVE 0..m \in FiniteSubsetsOf(Nat)
      OBVIOUS
    <3>1. IsFiniteSet(0..m)
      BY FS_Interval
    <3> QED BY <3>1 DEF FiniteSubsetsOf
  <2>2. IsWellFoundedOn(R, FiniteSubsetsOf(Nat))
    BY FS_StrictSubsetOrderingWellFounded
  <2>3. T # {}
    BY <1>2
  <2> HIDE DEF T, R
  <2>4. PICK t \in T : \A u \in T : ~(<<u, t>> \in R)
    BY <2>1, <2>2, <2>3, WFMin
  <2>5. PICK x \in S : t = 0..x
    BY DEF T
  <2>6. ASSUME NEW y \in S PROVE x <= y
    <3> SUFFICES ASSUME y < x PROVE FALSE
      OBVIOUS
    <3>1. 0..y \in T
      BY DEF T
    <3>2. 0..y \subseteq 0..x /\ x \in 0..x /\ x \notin 0..y
      OBVIOUS
    <3>3. 0..y \in SUBSET Nat /\ 0..x \in SUBSET Nat
      OBVIOUS
    <3>4. <<0..y, 0..x>> \in R
      BY <3>2, <3>3 DEF R, StrictSubsetOrdering
    <3> QED BY <2>4, <2>5, <3>1, <3>4
  <2>7. Min(S) \in S
    BY <2>6 DEF Min
  <2>8. Lowest(S) = Min(S)
    BY <1>2 DEF Lowest
  <2>9. S \subseteq Int
    OBVIOUS
  <2> QED BY <2>7, <2>8, <2>9, Zenon
<1> QED
  BY <1>1, <1>2

(* An update of one field leaves the others as they were.                  *)
LEMMA SourceFields ==
  ASSUME NEW s, IsSource(s), NEW x
  PROVE  /\ LET t == [s EXCEPT !.advertise = x]
            IN  /\ IsSource(t) /\ t.scids = s.scids /\ t.next = s.next
                /\ t.retire_prior_to = s.retire_prior_to
         /\ LET t == [s EXCEPT !.retire_prior_to = x]
            IN  /\ IsSource(t) /\ t.scids = s.scids /\ t.next = s.next
                /\ t.retire_prior_to = x
         /\ LET t == [s EXCEPT !.scids = x]
            IN  /\ IsSource(t) /\ t.scids = x /\ t.next = s.next
                /\ t.retire_prior_to = s.retire_prior_to
BY DEF IsSource

(* The lowest usable identifier is a number.                               *)
LEMMA LowestUsableType ==
  ASSUME NEW s, NEW R, SourceInv(s, R)
  PROVE  lowest_usable_scid_seq(s) \in Int
<1>1. {q \in DOMAIN s.scids : q >= s.retire_prior_to} \subseteq Nat
  BY DEF SourceInv
<1> QED
  BY <1>1, LowestType DEF lowest_usable_scid_seq

(* Queueing an identifier to be announced, or not, changes no list.        *)
LEMMA AdvertiseInv ==
  ASSUME NEW s, NEW R, SourceInv(s, R), NEW q, NEW b \in BOOLEAN
  PROVE  /\ SourceInv(mark_advertise_new_scid_seq(s, q, b), R)
         /\ mark_advertise_new_scid_seq(s, q, b).next = s.next
<1> DEFINE x == IF b THEN Append(s.advertise, q) ELSE RemoveFirst(s.advertise, q)
<1>1. mark_advertise_new_scid_seq(s, q, b) = [s EXCEPT !.advertise = x]
  BY DEF mark_advertise_new_scid_seq
<1> HIDE DEF x
<1>2. IsSource(s)
  BY DEF SourceInv
<1> DEFINE t == mark_advertise_new_scid_seq(s, q, b)
<1>3. IsSource(t) /\ t.scids = s.scids /\ t.next = s.next
        /\ t.retire_prior_to = s.retire_prior_to
  <2> DEFINE u == [s EXCEPT !.advertise = x]
  <2>1. IsSource(u) /\ u.scids = s.scids /\ u.next = s.next
          /\ u.retire_prior_to = s.retire_prior_to
    BY <1>2, SourceFields, Zenon
  <2> HIDE DEF u
  <2> QED BY <1>1, <2>1, Zenon DEF u
<1> HIDE DEF t
<1>4. SourceInv(t, R)
  BY <1>3 DEF SourceInv
<1> QED
  BY <1>3, <1>4 DEF t

(* new_scid() creates the next identifier, or none.                        *)
LEMMA NewScidInv ==
  ASSUME NEW s, NEW R, SourceInv(s, R), NEW known \in BOOLEAN, NEW retire \in BOOLEAN
  PROVE  /\ SourceInv(new_scid(s, known, retire), R)
         /\ s.next <= new_scid(s, known, retire).next
<1> DEFINE full == Size(s.scids) >= SourceLimit
           lowest == lowest_usable_scid_seq(s)
           raised == IF full THEN [s EXCEPT !.retire_prior_to = lowest + 1] ELSE s
           listed == [raised EXCEPT !.scids = With(@, s.next, NoPath)]
           created == [raised EXCEPT !.scids = With(@, s.next, NoPath), !.next = @ + 1]
<1>1. IsSource(s) /\ s.next \in Nat /\ s.retire_prior_to \in Int
  BY DEF SourceInv
<1> HIDE DEF full
<1>2. /\ IsSource(raised) /\ raised.scids = s.scids /\ raised.next = s.next
      /\ raised.retire_prior_to \in {s.retire_prior_to, lowest + 1}
  <2>1. CASE full
    BY <1>1, <2>1, SourceFields, Zenon
  <2>2. CASE ~full
    BY <1>1, <2>2, Zenon
  <2> QED BY <2>1, <2>2
<1>3. lowest + 1 \in Int
  <2>1. lowest \in Int
    BY LowestUsableType
  <2> QED BY <2>1
<1> HIDE DEF raised, lowest
<1>31. SourceInv(raised, R)
  BY <1>1, <1>2, <1>3 DEF SourceInv
<1>4. IsSource(listed) /\ listed.scids = With(s.scids, s.next, NoPath)
        /\ listed.next = s.next /\ listed.retire_prior_to = raised.retire_prior_to
  <2> DEFINE x == With(raised.scids, s.next, NoPath)
         u == [raised EXCEPT !.scids = x]
  <2>1. listed = u
    OBVIOUS
  <2> HIDE DEF listed, x
  <2>2. IsSource(u) /\ u.scids = x /\ u.next = raised.next
          /\ u.retire_prior_to = raised.retire_prior_to
    BY <1>2 DEF IsSource
  <2> HIDE DEF u
  <2> QED BY <1>2, <2>1, <2>2 DEF x
<1>5. created = [listed EXCEPT !.next = s.next + 1]
  BY <1>2 DEF IsSource
<1> HIDE DEF listed
<1>6. IsSource(created) /\ created.scids = With(s.scids, s.next, NoPath)
        /\ created.next = s.next + 1 /\ created.retire_prior_to = raised.retire_prior_to
  <2> DEFINE u == [listed EXCEPT !.next = s.next + 1]
  <2>1. IsSource(u) /\ u.scids = listed.scids /\ u.next = s.next + 1
          /\ u.retire_prior_to = listed.retire_prior_to
    BY <1>4 DEF IsSource
  <2> HIDE DEF created
  <2>2. created = u
    BY <1>5
  <2> HIDE DEF u
  <2> QED BY <1>4, <2>1, <2>2
<1> HIDE DEF created
<1>7. DOMAIN created.scids = DOMAIN s.scids \cup {s.next}
  BY <1>6 DEF With
<1>8. \A q \in DOMAIN created.scids : q \in Nat /\ q < created.next
  BY <1>1, <1>6, <1>7 DEF SourceInv
<1>9. \A q \in Nat : q < created.next /\ q \notin DOMAIN created.scids => q \in R
  <2> SUFFICES ASSUME NEW q \in Nat, q < created.next, q \notin DOMAIN created.scids
               PROVE  q \in R
    OBVIOUS
  <2>1. q # s.next /\ q \notin DOMAIN s.scids
    BY <1>7
  <2>2. q < s.next
    BY <1>1, <1>6, <2>1
  <2> QED BY <2>1, <2>2 DEF SourceInv
<1>10. SourceInv(created, R)
  BY <1>1, <1>6, <1>8, <1>9, <1>31 DEF SourceInv
<1>11. SourceInv(mark_advertise_new_scid_seq(created, s.next, TRUE), R)
        /\ mark_advertise_new_scid_seq(created, s.next, TRUE).next = s.next + 1
  BY <1>6, <1>10, AdvertiseInv
<1>12. \/ new_scid(s, known, retire) = s
       \/ new_scid(s, known, retire) = raised
       \/ new_scid(s, known, retire) = mark_advertise_new_scid_seq(created, s.next, TRUE)
  BY DEF new_scid, full, lowest, raised, created, listed
<1>13. s.next <= s.next /\ s.next <= s.next + 1
  BY <1>1
<1> QED
  BY <1>2, <1>31, <1>11, <1>12, <1>13

(* retire_scid() drops at most the identifier the frame is about.          *)
LEMMA RetireScidInv ==
  ASSUME NEW s, NEW R, SourceInv(s, R), NEW q \in R, NEW via
  PROVE  /\ SourceInv(retire_scid(s, q, via).src, R)
         /\ retire_scid(s, q, via).src.next = s.next
<1> DEFINE removed == [s EXCEPT !.scids = Without(@, {q})]
           lowest == lowest_usable_scid_seq(removed)
           left == [removed EXCEPT !.retire_prior_to = lowest]
<1>1. IsSource(s)
  BY DEF SourceInv
<1>2. IsSource(removed) /\ removed.scids = Without(s.scids, {q}) /\ removed.next = s.next
        /\ removed.retire_prior_to = s.retire_prior_to
  BY <1>1, SourceFields, Zenon
<1> HIDE DEF removed
<1>3. DOMAIN removed.scids = DOMAIN s.scids \ {q}
  BY <1>2 DEF Without
<1>4. SourceInv(removed, R)
  BY <1>2, <1>3 DEF SourceInv
<1>5. lowest \in Int
  BY <1>4, LowestUsableType
<1> HIDE DEF lowest
<1>51. IsSource(left) /\ left.scids = removed.scids /\ left.next = s.next
         /\ left.retire_prior_to = lowest
  <2>1. IsSource(left) /\ left.scids = removed.scids /\ left.next = removed.next
          /\ left.retire_prior_to = lowest
    BY <1>2 DEF IsSource
  <2> QED BY <1>2, <2>1
<1> HIDE DEF left
<1>6. SourceInv(left, R)
  BY <1>2, <1>4, <1>5, <1>51 DEF SourceInv
<1>7. retire_scid(s, q, via).src \in {s, removed, left}
  BY DEF retire_scid, removed, lowest, left
<1> QED
  BY <1>2, <1>4, <1>51, <1>6, <1>7

-----------------------------------------------------------------------------
(* More may be retired when more was asked for.                            *)
LEMMA RetirableGrows ==
  ASSUME NEW m \in Int, NEW n \in Int, m <= n, NEW A, NEW B, A \subseteq B
  PROVE  Retirable(m, A) \subseteq Retirable(n, B)
BY DEF Retirable

(* Only the numbers held and the numbers to retire matter.                 *)
LEMMA DestinationFields ==
  ASSUME NEW d, NEW e, NEW n, NEW R, DestinationInv(d, n, R), IsDestination(e),
         DOMAIN e.dcids \subseteq DOMAIN d.dcids,
         e.largest_retire_prior_to = d.largest_retire_prior_to,
         e.retire \subseteq R
  PROVE  DestinationInv(e, n, R)
BY DEF DestinationInv

(* Giving an identifier to the path changes no list of numbers.            *)
LEMMA LinkInv ==
  ASSUME NEW d, NEW n, NEW R, DestinationInv(d, n, R), NEW q, NEW pid
  PROVE  /\ DestinationInv(link_dcid_to_path_id(d, q, pid), n, R)
         /\ link_dcid_to_path_id(d, q, pid).largest_retire_prior_to
              = d.largest_retire_prior_to
<1> DEFINE e == link_dcid_to_path_id(d, q, pid)
<1>1. IsDestination(d)
  BY DEF DestinationInv
<1>2. /\ IsDestination(e) /\ DOMAIN e.dcids = DOMAIN d.dcids /\ e.retire = d.retire
      /\ e.largest_retire_prior_to = d.largest_retire_prior_to
  BY <1>1 DEF link_dcid_to_path_id, IsDestination
<1>3. d.retire \subseteq R
  BY DEF DestinationInv
<1> HIDE DEF e
<1> QED
  BY <1>2, <1>3, DestinationFields DEF e

(* The set of numbers to retire is replaced.                               *)
LEMMA RetireFieldInv ==
  ASSUME NEW d, NEW n, NEW R, DestinationInv(d, n, R), NEW x, x \subseteq R
  PROVE  /\ DestinationInv([d EXCEPT !.retire = x], n, R)
         /\ [d EXCEPT !.retire = x].largest_retire_prior_to = d.largest_retire_prior_to
<1> DEFINE e == [d EXCEPT !.retire = x]
<1>1. IsDestination(d)
  BY DEF DestinationInv
<1>2. /\ IsDestination(e) /\ e.dcids = d.dcids /\ e.retire = x
      /\ e.largest_retire_prior_to = d.largest_retire_prior_to
  BY <1>1 DEF IsDestination
<1> HIDE DEF e
<1>3. DestinationInv(e, n, R)
  BY <1>2, DestinationFields
<1> QED
  BY <1>2, <1>3 DEF e

(* A number is queued to be retired, if there is room for it.              *)
LEMMA MarkRetireInv ==
  ASSUME NEW d, NEW n, NEW R, DestinationInv(d, n, R), NEW q \in R
  PROVE  /\ DestinationInv(mark_retire_dcid_seq(d, q, TRUE), n, R)
         /\ mark_retire_dcid_seq(d, q, TRUE).largest_retire_prior_to
              = d.largest_retire_prior_to
<1> DEFINE x == IF MarkRetireFails(d) THEN d.retire ELSE d.retire \cup {q}
<1>1. x \subseteq R
  BY DEF DestinationInv
<1>2. mark_retire_dcid_seq(d, q, TRUE) = [d EXCEPT !.retire = x]
  BY DEF mark_retire_dcid_seq
<1> HIDE DEF x
<1>3. /\ DestinationInv([d EXCEPT !.retire = x], n, R)
      /\ [d EXCEPT !.retire = x].largest_retire_prior_to = d.largest_retire_prior_to
  BY <1>1, RetireFieldInv
<1> QED
  BY <1>2, <1>3, Zenon

(* A number whose frame is sent is queued no more.                         *)
LEMMA UnmarkRetireInv ==
  ASSUME NEW d, NEW n, NEW R, DestinationInv(d, n, R), NEW q
  PROVE  /\ DestinationInv(mark_retire_dcid_seq(d, q, FALSE), n, R)
         /\ mark_retire_dcid_seq(d, q, FALSE).largest_retire_prior_to
              = d.largest_retire_prior_to
<1> DEFINE x == d.retire \ {q}
<1>1. x \subseteq R
  BY DEF DestinationInv
<1>2. mark_retire_dcid_seq(d, q, FALSE) = [d EXCEPT !.retire = x]
  BY DEF mark_retire_dcid_seq
<1> HIDE DEF x
<1>3. /\ DestinationInv([d EXCEPT !.retire = x], n, R)
      /\ [d EXCEPT !.retire = x].largest_retire_prior_to = d.largest_retire_prior_to
  BY <1>1, RetireFieldInv
<1> QED
  BY <1>2, <1>3, Zenon

(* retire_dcid() takes the number off the list.                            *)
LEMMA RetireDcidInv ==
  ASSUME NEW d, NEW n, NEW R, DestinationInv(d, n, R), NEW q \in R
  PROVE  /\ DestinationInv(retire_dcid(d, q).dst, n, R)
         /\ retire_dcid(d, q).dst.largest_retire_prior_to = d.largest_retire_prior_to
<1> DEFINE x == Without(d.dcids, {q})
           removed == [d EXCEPT !.dcids = x]
           e == mark_retire_dcid_seq(removed, q, TRUE)
<1>1. IsDestination(d) /\ d.retire \subseteq R
  BY DEF DestinationInv
<1>2. DOMAIN x \subseteq DOMAIN d.dcids
  BY DEF Without
<1>3. retire_dcid(d, q).dst \in {d, e}
  BY DEF retire_dcid
<1> HIDE DEF x
<1>4. /\ IsDestination(removed) /\ removed.dcids = x /\ removed.retire = d.retire
      /\ removed.largest_retire_prior_to = d.largest_retire_prior_to
  BY <1>1 DEF IsDestination
<1> HIDE DEF removed
<1>5. DestinationInv(removed, n, R)
  BY <1>1, <1>2, <1>4, DestinationFields
<1>6. DestinationInv(e, n, R) /\ e.largest_retire_prior_to = d.largest_retire_prior_to
  BY <1>4, <1>5, MarkRetireInv
<1> HIDE DEF e
<1> QED
  BY <1>3, <1>6

(* new_dcid() without an error: what it retires it was asked to, and what  *)
(* it adds was not retired before.                                         *)
LEMMA NewDcidInv ==
  ASSUME NEW d, NEW n, NEW A, NEW q \in Nat, q < n, NEW rpt \in Int,
         DestinationInv(d, n, Retirable(d.largest_retire_prior_to, A)),
         ~new_dcid(d, q, rpt).err
  PROVE  LET e == new_dcid(d, q, rpt).dst
         IN  /\ d.largest_retire_prior_to <= e.largest_retire_prior_to
             /\ DestinationInv(e, n, Retirable(e.largest_retire_prior_to, A))
<1> DEFINE L == d.largest_retire_prior_to
           raises == rpt > L
           M == IF raises THEN rpt ELSE L
           old == IF raises THEN {s \in DOMAIN d.dcids : s < rpt} ELSE {}
           room == RetireCapacity - Cardinality(d.retire)
           queued == IF Cardinality(old) <= room THEN old
                     ELSE CHOOSE c \in SUBSET old : Cardinality(c) = room
           retiring == [dcids |-> Without(d.dcids, old), retire |-> d.retire \cup queued,
                        largest_retire_prior_to |-> M]
           added == [retiring EXCEPT !.dcids = With(@, q, NoPath)]
           late == mark_retire_dcid_seq(d, q, TRUE)
           e == new_dcid(d, q, rpt).dst
<1>1. L \in Int /\ IsDestination(d) /\ d.retire \subseteq Retirable(L, A)
        /\ \A s \in DOMAIN d.dcids : s \in Nat /\ s < n /\ L <= s
  BY DEF DestinationInv
<1>2. \/ e = d
      \/ e = late /\ q < L
      \/ e = added /\ queued = old /\ ~(rpt > q) /\ ~(q < L)
  BY DEF new_dcid, RetiredBefore
<1> HIDE DEF e
<1>3. CASE e = d
  BY <1>1, <1>3 DEF e
<1>4. CASE e = late /\ q < L
  <2>1. q \in Retirable(L, A)
    BY <1>1, <1>4 DEF Retirable
  <2>2. DestinationInv(late, n, Retirable(L, A)) /\ late.largest_retire_prior_to = L
    BY <2>1, MarkRetireInv
  <2> HIDE DEF late
  <2> QED BY <1>1, <1>4, <2>2 DEF e
<1>5. CASE e = added /\ queued = old /\ ~(rpt > q) /\ ~(q < L)
  <2>1. M \in Int /\ L <= M /\ M <= q
    BY <1>1, <1>5
  <2>2. old \subseteq Retirable(M, A)
    BY <1>1 DEF Retirable
  <2>3. Retirable(L, A) \subseteq Retirable(M, A)
    BY <1>1, <2>1, RetirableGrows
  <2>4. \A s \in DOMAIN d.dcids \ old : M <= s
    BY <1>1
  <2>5. added = [dcids |-> With(Without(d.dcids, old), q, NoPath),
                 retire |-> d.retire \cup old, largest_retire_prior_to |-> M]
    <3> DEFINE w == Without(d.dcids, old)
               y == d.retire \cup queued
               x == With(w, q, NoPath)
    <3> HIDE DEF M
    <3>1. \A v, z, u : [[dcids |-> v, retire |-> z, largest_retire_prior_to |-> M]
                         EXCEPT !.dcids = u]
                      = [dcids |-> u, retire |-> z, largest_retire_prior_to |-> M]
      OBVIOUS
    <3>2. retiring.dcids = w
      OBVIOUS
    <3>3. added = [retiring EXCEPT !.dcids = x]
      BY <3>2
    <3>4. y = d.retire \cup old
      BY <1>5
    <3> HIDE DEF added, old, queued, w, x
    <3>5. added = [dcids |-> x, retire |-> y, largest_retire_prior_to |-> M]
      BY <3>1, <3>3, Zenon
    <3> HIDE DEF y
    <3> QED BY <3>4, <3>5, Zenon DEF w, x
  <2> HIDE DEF old, M, added, queued
  <2>6. /\ IsDestination(added) /\ added.retire = d.retire \cup old
        /\ added.dcids = With(Without(d.dcids, old), q, NoPath)
        /\ added.largest_retire_prior_to = M
    BY <2>5 DEF IsDestination
  <2>7. DOMAIN added.dcids = (DOMAIN d.dcids \ old) \cup {q}
    BY <2>6 DEF With, Without
  <2>8. \A s \in DOMAIN added.dcids : s \in Nat /\ s < n /\ M <= s
    BY <1>1, <2>1, <2>4, <2>7
  <2>9. added.retire \subseteq Retirable(M, A)
    BY <1>1, <2>2, <2>3, <2>6
  <2>10. DestinationInv(added, n, Retirable(M, A))
    BY <2>1, <2>6, <2>8, <2>9 DEF DestinationInv
  <2> QED BY <1>5, <2>1, <2>6, <2>10 DEF e
<1> QED
  BY <1>2, <1>3, <1>4, <1>5

-----------------------------------------------------------------------------
(* The invariant holds after the handshake.                                *)
LEMMA CidInitInv == Init => CidInv
<1> SUFFICES ASSUME Init PROVE CidOpen
  BY DEF CidInv
<1>1. /\ src = [scids |-> [s \in {0} |-> ThePath], advertise |-> <<>>, next |-> 1,
                retire_prior_to |-> 0]
      /\ dst = [dcids |-> [s \in {0} |-> ThePath], retire |-> {},
                largest_retire_prior_to |-> 0]
  BY DEF Init, NewSource, NewDestination
<1>2. SourceInv(src, May)
  BY <1>1 DEF SourceInv, IsSource
<1>3. DestinationInv(dst, src.next, May)
  BY <1>1 DEF DestinationInv, IsDestination
<1>4. DOMAIN pkts = {} /\ dcid \in Int
  BY DEF Init, EmptyBag, SetToBag
<1> QED
  BY <1>2, <1>3, <1>4 DEF CidOpen

(* More identifiers and more retirements leave the lists in order.         *)
LEMMA ListsKept ==
  ASSUME NEW s, NEW d, NEW n \in Nat, NEW n2 \in Nat, n <= n2, NEW R, NEW T, R \subseteq T
  PROVE  /\ SourceInv(s, R) => SourceInv(s, T)
         /\ DestinationInv(d, n, R) => DestinationInv(d, n2, T)
BY DEF SourceInv, DestinationInv

(* What a step must show to keep the invariant.                            *)
LEMMA StepKeeps ==
  ASSUME CidOpen, src.next <= src'.next, May \subseteq May', SourceInv(src', May'),
         DestinationInv(dst', src'.next, May'), dcid' \in Int,
         DOMAIN pkts' \subseteq PacketsOf(FrameSet),
         \A q \in DOMAIN pkts' : \/ \E o \in DOMAIN pkts : q.frame = o.frame
                                 \/ Truthful(q.frame, src'.next, May')
  PROVE  CidInv'
<1>1. src.next \in Nat /\ src'.next \in Nat
  BY DEF CidOpen, SourceInv
<1>2. ASSUME NEW o \in DOMAIN pkts PROVE Truthful(o.frame, src'.next, May')
  <2>1. o.frame \in FrameSet /\ Truthful(o.frame, src.next, May)
    BY DEF CidOpen, PacketsOf
  <2> HIDE DEF May
  <2> QED BY <1>1, <2>1, TruthfulKept
<1>3. \A q \in DOMAIN pkts' : Truthful(q.frame, src'.next, May')
  BY <1>2, Zenon
<1> QED
  BY <1>3 DEF CidInv, CidOpen

(* A packet sent, or settled, gives no frame that is not true.             *)
LEMMA PacketFrames ==
  ASSUME CidOpen
  PROVE  /\ \A f \in FrameSet :
              /\ DOMAIN Emit(pkts, f) \subseteq PacketsOf(FrameSet)
              /\ \A q \in DOMAIN Emit(pkts, f) : q.frame = f \/ q \in DOMAIN pkts
         /\ \A p \in DOMAIN pkts :
              \A C \in {Arrives(pkts, p), Vanishes(pkts, p), Forgets(pkts, p)} :
                /\ DOMAIN C \subseteq PacketsOf(FrameSet)
                /\ \A q \in DOMAIN C : \E o \in DOMAIN pkts : q.frame = o.frame
<1>1. DOMAIN pkts \subseteq PacketsOf(FrameSet)
  BY DEF CidOpen
<1>2. ASSUME NEW f \in FrameSet
      PROVE  /\ DOMAIN Emit(pkts, f) \subseteq PacketsOf(FrameSet)
             /\ \A q \in DOMAIN Emit(pkts, f) : q.frame = f \/ q \in DOMAIN pkts
  BY <1>1, EmitAdds
<1>3. ASSUME NEW p \in DOMAIN pkts,
             NEW C \in {Arrives(pkts, p), Vanishes(pkts, p), Forgets(pkts, p)}
      PROVE  /\ DOMAIN C \subseteq PacketsOf(FrameSet)
             /\ \A q \in DOMAIN C : \E o \in DOMAIN pkts : q.frame = o.frame
  BY <1>1, FateKeeps
<1> QED
  BY <1>2, <1>3, Zenon

(* Connection::new_scid().                                                 *)
LEMMA NewScidStep ==
  ASSUME CidOpen, NEW known \in BOOLEAN, NEW retire \in BOOLEAN, NewScid(known, retire)
  PROVE  CidInv'
<1>1. dst' = dst /\ pkts' = pkts /\ asked' = asked /\ dcid' = dcid
        /\ src' = new_scid(src, known, retire)
  BY DEF NewScid
<1>2. SourceInv(src, May) /\ DestinationInv(dst, src.next, May)
        /\ DOMAIN pkts \subseteq PacketsOf(FrameSet) /\ dcid \in Int
  BY DEF CidOpen
<1>3. May' = May
  BY <1>1 DEF May
<1> HIDE DEF May
<1>4. SourceInv(src', May) /\ src.next <= src'.next
  BY <1>1, <1>2, NewScidInv
<1>5. src.next \in Nat /\ src'.next \in Nat
  BY <1>2, <1>4 DEF SourceInv
<1>6. DestinationInv(dst, src'.next, May)
  BY <1>2, <1>4, <1>5, ListsKept
<1> QED
  BY <1>1, <1>2, <1>3, <1>4, <1>6, StepKeeps

(* send() announces an identifier that is in the list.                     *)
LEMMA SendNewConnectionIdStep ==
  ASSUME CidOpen, SendNewConnectionId
  PROVE  CidInv'
<1> DEFINE seq == Head(src.advertise)
           f == NewIdFrame(seq, src.retire_prior_to)
<1>1. dst' = dst /\ pkts' = Emit(pkts, f) /\ asked' = asked /\ dcid' = dcid
        /\ src' = mark_advertise_new_scid_seq(src, seq, FALSE)
  BY DEF SendNewConnectionId
<1>2. SourceInv(src, May) /\ DestinationInv(dst, src.next, May) /\ dcid \in Int
  BY DEF CidOpen
<1>3. May' = May
  BY <1>1 DEF May
<1>4. seq \in DOMAIN src.scids
  BY DEF SendNewConnectionId, SendBlocked
<1> HIDE DEF May, seq
<1>5. seq \in Nat /\ seq < src.next /\ src.retire_prior_to \in Int /\ src.next \in Nat
  BY <1>2, <1>4 DEF SourceInv
<1>6. SourceInv(src', May) /\ src'.next = src.next
  BY <1>1, <1>2, AdvertiseInv
<1>7. f \in FrameSet /\ Truthful(f, src.next, May)
  BY <1>5 DEF NewIdFrame, FrameSet, Truthful
<1> HIDE DEF f
<1>8. DOMAIN pkts' \subseteq PacketsOf(FrameSet)
        /\ \A q \in DOMAIN pkts' : q.frame = f \/ q \in DOMAIN pkts
  BY <1>1, <1>7, PacketFrames, Zenon
<1>9. \A q \in DOMAIN pkts' : \/ \E o \in DOMAIN pkts : q.frame = o.frame
                              \/ Truthful(q.frame, src'.next, May')
  BY <1>3, <1>6, <1>7, <1>8, Zenon
<1>10. src.next <= src'.next
  BY <1>5, <1>6
<1> QED
  BY <1>1, <1>2, <1>3, <1>6, <1>8, <1>9, <1>10, StepKeeps

(* send() tells of the retirement of a number in the queue.                *)
LEMMA SendRetireConnectionIdStep ==
  ASSUME CidOpen, NEW seq \in dst.retire, SendRetireConnectionId(seq)
  PROVE  CidInv'
<1> DEFINE f == RetireFrame(seq, dcid)
<1>1. src' = src /\ pkts' = Emit(pkts, f) /\ asked' = asked /\ dcid' = dcid
        /\ dst' = mark_retire_dcid_seq(dst, seq, FALSE)
  BY DEF SendRetireConnectionId
<1>2. SourceInv(src, May) /\ DestinationInv(dst, src.next, May) /\ dcid \in Int
  BY DEF CidOpen
<1>3. DestinationInv(dst', src.next, May)
        /\ dst'.largest_retire_prior_to = dst.largest_retire_prior_to
  BY <1>1, <1>2, UnmarkRetireInv
<1>4. May' = May
  BY <1>1, <1>3 DEF May
<1>5. seq \in May /\ seq \in Nat
  BY <1>2 DEF DestinationInv, May, Retirable
<1> HIDE DEF May
<1>6. f \in FrameSet /\ Truthful(f, src.next, May)
  BY <1>2, <1>5 DEF RetireFrame, FrameSet, Truthful
<1> HIDE DEF f
<1>7. DOMAIN pkts' \subseteq PacketsOf(FrameSet)
        /\ \A q \in DOMAIN pkts' : q.frame = f \/ q \in DOMAIN pkts
  BY <1>1, <1>6, PacketFrames, Zenon
<1>8. \A q \in DOMAIN pkts' : \/ \E o \in DOMAIN pkts : q.frame = o.frame
                              \/ Truthful(q.frame, src'.next, May')
  BY <1>1, <1>4, <1>6, <1>7, Zenon
<1>9. src.next <= src'.next
  BY <1>1, <1>2 DEF SourceInv
<1> QED
  BY <1>1, <1>2, <1>3, <1>4, <1>7, <1>8, <1>9, StepKeeps

(* The path takes another identifier of the list, or has none.             *)
LEMMA RelinkInv ==
  ASSUME NEW d, NEW n, NEW R, DestinationInv(d, n, R), Relink(d)
  PROVE  /\ DestinationInv(dst', n, R) /\ dcid' \in Int
         /\ dst'.largest_retire_prior_to = d.largest_retire_prior_to
<1> DEFINE free == {s \in DOMAIN d.dcids : d.dcids[s] = NoPath}
           seq == lowest_available_dcid_seq(d)
<1>1. free \subseteq Nat
  BY DEF DestinationInv
<1>2. seq \in Int
  BY <1>1, LowestType DEF lowest_available_dcid_seq
<1>3. dcid' = seq /\ dst' \in {d, link_dcid_to_path_id(d, seq, ThePath)}
  BY DEF Relink
<1> HIDE DEF seq
<1> QED
  BY <1>2, <1>3, LinkInv

(* A NEW_CONNECTION_ID frame that is accepted.                             *)
LEMMA RecvNewConnectionIdStep ==
  ASSUME CidOpen, NEW p \in DOMAIN pkts, RecvNewConnectionId(p)
  PROVE  CidInv'
<1> DEFINE r == new_dcid(dst, p.frame.seq, p.frame.rpt)
           e == r.dst
<1>1. /\ src' = src /\ pkts' = Arrives(pkts, p) /\ asked' = asked /\ closed' = r.err
      /\ (dst' = e /\ dcid' = dcid) \/ Relink(e)
      /\ p.frame.kind = "new"
  BY DEF RecvNewConnectionId
<1>2. SourceInv(src, May) /\ DestinationInv(dst, src.next, May) /\ dcid \in Int
        /\ p.frame \in FrameSet /\ Truthful(p.frame, src.next, May)
  BY DEF CidOpen, PacketsOf
<1>3. p.frame.seq \in Nat /\ p.frame.seq < src.next /\ p.frame.rpt \in Int
  BY <1>1, <1>2 DEF Truthful, FrameSet
<1>4. CASE r.err
  BY <1>1, <1>4 DEF CidInv
<1>5. CASE ~r.err
  <2>1. /\ dst.largest_retire_prior_to <= e.largest_retire_prior_to
        /\ DestinationInv(e, src.next, Retirable(e.largest_retire_prior_to, asked))
    BY <1>2, <1>3, <1>5, NewDcidInv DEF May
  <2> HIDE DEF e, r
  <2>2. /\ DestinationInv(dst', src.next, Retirable(e.largest_retire_prior_to, asked))
        /\ dcid' \in Int /\ dst'.largest_retire_prior_to = e.largest_retire_prior_to
    <3>1. CASE dst' = e /\ dcid' = dcid
      BY <1>2, <2>1, <3>1
    <3>2. CASE Relink(e)
      BY <2>1, <3>2, RelinkInv
    <3> QED BY <1>1, <3>1, <3>2
  <2>3. May' = Retirable(e.largest_retire_prior_to, asked)
    BY <1>1, <2>2 DEF May
  <2>4. dst.largest_retire_prior_to \in Int /\ e.largest_retire_prior_to \in Int
    BY <1>2, <2>1 DEF DestinationInv
  <2>5. May \subseteq May'
    BY <2>1, <2>3, <2>4, RetirableGrows DEF May
  <2> HIDE DEF May
  <2>6. src.next \in Nat
    BY <1>2 DEF SourceInv
  <2>7. SourceInv(src', May') /\ DestinationInv(dst', src'.next, May')
    BY <1>1, <1>2, <2>2, <2>3, <2>5, <2>6, ListsKept
  <2>8. /\ DOMAIN pkts' \subseteq PacketsOf(FrameSet)
        /\ \A q \in DOMAIN pkts' : \E o \in DOMAIN pkts : q.frame = o.frame
    BY <1>1, PacketFrames
  <2>9. src.next <= src'.next
    BY <1>1, <2>6
  <2> QED BY <2>2, <2>5, <2>7, <2>8, <2>9, StepKeeps
<1> QED
  BY <1>4, <1>5

(* A RETIRE_CONNECTION_ID frame.                                           *)
LEMMA RecvRetireConnectionIdStep ==
  ASSUME CidOpen, NEW p \in DOMAIN pkts, RecvRetireConnectionId(p)
  PROVE  CidInv'
<1> DEFINE t == retire_scid(src, p.frame.seq, p.frame.via).src
<1>1. /\ dst' = dst /\ pkts' = Arrives(pkts, p) /\ asked' = asked /\ dcid' = dcid
      /\ src' \in {src, t} /\ p.frame.kind = "retire"
  BY DEF RecvRetireConnectionId
<1>2. SourceInv(src, May) /\ DestinationInv(dst, src.next, May) /\ dcid \in Int
        /\ Truthful(p.frame, src.next, May)
  BY DEF CidOpen
<1>3. May' = May
  BY <1>1 DEF May
<1> HIDE DEF May
<1>4. p.frame.seq \in May
  BY <1>1, <1>2 DEF Truthful
<1>5. SourceInv(t, May) /\ t.next = src.next
  BY <1>2, <1>4, RetireScidInv
<1> HIDE DEF t
<1>6. SourceInv(src', May) /\ src'.next = src.next
  BY <1>1, <1>2, <1>5
<1>7. /\ DOMAIN pkts' \subseteq PacketsOf(FrameSet)
      /\ \A q \in DOMAIN pkts' : \E o \in DOMAIN pkts : q.frame = o.frame
  BY <1>1, PacketFrames
<1>8. src.next <= src'.next
  BY <1>2, <1>6 DEF SourceInv
<1> QED
  BY <1>1, <1>2, <1>3, <1>6, <1>7, <1>8, StepKeeps

(* Connection::retire_dcid().                                              *)
LEMMA RetireDcidStep ==
  ASSUME CidOpen, NEW seq \in DOMAIN dst.dcids, RetireDcid(seq)
  PROVE  CidInv'
<1> DEFINE e == retire_dcid(dst, seq).dst
           L == dst.largest_retire_prior_to
           R == Retirable(L, asked \cup {seq})
<1>1. /\ src' = src /\ pkts' = pkts /\ asked' = asked \cup {seq}
      /\ (dst' = e /\ dcid' = dcid) \/ Relink(e)
  BY DEF RetireDcid
<1>2. SourceInv(src, May) /\ DestinationInv(dst, src.next, May) /\ dcid \in Int
        /\ DOMAIN pkts \subseteq PacketsOf(FrameSet)
  BY DEF CidOpen
<1>3. src.next \in Nat /\ L \in Int /\ seq \in Nat
  BY <1>2 DEF SourceInv, DestinationInv
<1>4. May \subseteq R /\ seq \in R
  BY <1>3 DEF May, Retirable
<1> HIDE DEF R
<1>5. SourceInv(src, R) /\ DestinationInv(dst, src.next, R)
  BY <1>2, <1>3, <1>4, ListsKept
<1>6. DestinationInv(e, src.next, R) /\ e.largest_retire_prior_to = L
  BY <1>4, <1>5, RetireDcidInv
<1> HIDE DEF e
<1>7. DestinationInv(dst', src.next, R) /\ dcid' \in Int
        /\ dst'.largest_retire_prior_to = L
  <2>1. CASE dst' = e /\ dcid' = dcid
    BY <1>2, <1>6, <2>1
  <2>2. CASE Relink(e)
    BY <1>6, <2>2, RelinkInv
  <2> QED BY <1>1, <2>1, <2>2
<1>8. May' = R
  BY <1>1, <1>7 DEF May, R
<1>9. src.next <= src'.next
  BY <1>1, <1>3
<1> HIDE DEF May
<1> QED
  BY <1>1, <1>2, <1>4, <1>5, <1>7, <1>8, <1>9, StepKeeps

(* A frame that is queued again, whether its packet is kept in sight or    *)
(* not.                                                                    *)
LEMMA RequeueStep ==
  ASSUME CidOpen, NEW p \in DOMAIN pkts, Requeue(p.frame), dcid' = dcid, asked' = asked,
         DOMAIN pkts' \subseteq PacketsOf(FrameSet),
         \A q \in DOMAIN pkts' : \E o \in DOMAIN pkts : q.frame = o.frame
  PROVE  CidInv'
<1> DEFINE seq == p.frame.seq
<1>1. SourceInv(src, May) /\ DestinationInv(dst, src.next, May) /\ dcid \in Int
        /\ p.frame \in FrameSet /\ Truthful(p.frame, src.next, May)
  BY DEF CidOpen, PacketsOf
<1>2. src.next <= src.next
  BY <1>1 DEF SourceInv
<1>3. CASE p.frame.kind = "new"
  <2>1. src' = mark_advertise_new_scid_seq(src, seq, TRUE) /\ dst' = dst
    BY <1>3 DEF Requeue
  <2>2. May' = May
    BY <2>1 DEF May
  <2> HIDE DEF May
  <2>3. SourceInv(src', May) /\ src'.next = src.next
    BY <1>1, <2>1, AdvertiseInv
  <2> QED BY <1>1, <1>2, <2>1, <2>2, <2>3, StepKeeps
<1>4. CASE p.frame.kind = "retire"
  <2>1. dst' = mark_retire_dcid_seq(dst, seq, TRUE) /\ src' = src
    BY <1>4 DEF Requeue
  <2>2. seq \in May
    BY <1>1, <1>4 DEF Truthful
  <2>3. DestinationInv(dst', src.next, May)
          /\ dst'.largest_retire_prior_to = dst.largest_retire_prior_to
    BY <1>1, <2>1, <2>2, MarkRetireInv
  <2>4. May' = May
    BY <2>3 DEF May
  <2> HIDE DEF May
  <2> QED BY <1>1, <1>2, <2>1, <2>3, <2>4, StepKeeps
<1> QED
  BY <1>1, <1>3, <1>4 DEF FrameSet

(* A packet whose fate changes, and nothing else.                          *)
LEMMA FateStep ==
  ASSUME CidOpen, UNCHANGED <<src, dst, dcid, asked>>,
         DOMAIN pkts' \subseteq PacketsOf(FrameSet),
         \A q \in DOMAIN pkts' : \E o \in DOMAIN pkts : q.frame = o.frame
  PROVE  CidInv'
<1>1. SourceInv(src, May) /\ DestinationInv(dst, src.next, May) /\ dcid \in Int
  BY DEF CidOpen
<1>2. src.next <= src.next
  BY <1>1 DEF SourceInv
<1>3. May' = May
  BY DEF May
<1> HIDE DEF May
<1> QED
  BY <1>1, <1>2, <1>3, StepKeeps

(* Every step of the issuer, of the user and of the network keeps the      *)
(* invariant.                                                              *)
LEMMA CidStepInv == CidInv /\ [Next]_vars => CidInv'
<1> SUFFICES ASSUME CidInv, [Next]_vars PROVE CidInv'
  OBVIOUS
<1>1. CASE UNCHANGED vars
  BY <1>1 DEF vars, CidInv, CidOpen, May
<1>2. CASE closed
  <2> SUFFICES ASSUME Next PROVE closed'
    BY <1>1 DEF CidInv
  <2> QED BY <1>2 DEF Next, NewScid, SendNewConnectionId, SendRetireConnectionId,
             RetireDcid, RecvNewConnectionId, RecvRetireConnectionId, Drop, Acked, Lost,
             Probed
<1>3. CASE CidOpen /\ Next
  <2>1. ASSUME NEW known \in BOOLEAN, NEW retire \in BOOLEAN, NewScid(known, retire)
        PROVE  CidInv'
    BY <1>3, <2>1, NewScidStep
  <2>2. CASE SendNewConnectionId
    BY <1>3, <2>2, SendNewConnectionIdStep
  <2>3. ASSUME NEW seq \in dst.retire, SendRetireConnectionId(seq) PROVE CidInv'
    BY <1>3, <2>3, SendRetireConnectionIdStep
  <2>4. ASSUME NEW seq \in DOMAIN dst.dcids, RetireDcid(seq) PROVE CidInv'
    BY <1>3, <2>4, RetireDcidStep
  <2>5. ASSUME NEW p \in Packets,
               \/ RecvNewConnectionId(p) \/ RecvRetireConnectionId(p)
               \/ Drop(p) \/ Acked(p) \/ Lost(p) \/ Probed(p)
        PROVE  CidInv'
    <3>1. p \in DOMAIN pkts /\ DOMAIN pkts \subseteq PacketsOf(FrameSet)
      BY <1>3 DEF Packets, BagToSet, CidOpen
    <3>2. ASSUME NEW C \in {Arrives(pkts, p), Vanishes(pkts, p), Forgets(pkts, p)}
          PROVE  /\ DOMAIN C \subseteq PacketsOf(FrameSet)
                 /\ \A q \in DOMAIN C : \E o \in DOMAIN pkts : q.frame = o.frame
      BY <1>3, <3>1, PacketFrames
    <3>3. CASE RecvNewConnectionId(p)
      BY <1>3, <3>1, <3>3, RecvNewConnectionIdStep
    <3>4. CASE RecvRetireConnectionId(p)
      BY <1>3, <3>1, <3>4, RecvRetireConnectionIdStep
    <3>5. CASE Drop(p)
      <4>1. UNCHANGED <<src, dst, dcid, asked>> /\ pkts' = Vanishes(pkts, p)
        BY <3>5 DEF Drop
      <4>2. /\ DOMAIN pkts' \subseteq PacketsOf(FrameSet)
            /\ \A q \in DOMAIN pkts' : \E o \in DOMAIN pkts : q.frame = o.frame
        BY <3>2, <4>1
      <4> QED BY <1>3, <4>1, <4>2, FateStep
    <3>6. CASE Acked(p)
      <4>1. UNCHANGED <<src, dst, dcid, asked>> /\ pkts' = Forgets(pkts, p)
        BY <3>6 DEF Acked
      <4>2. /\ DOMAIN pkts' \subseteq PacketsOf(FrameSet)
            /\ \A q \in DOMAIN pkts' : \E o \in DOMAIN pkts : q.frame = o.frame
        BY <3>2, <4>1
      <4> QED BY <1>3, <4>1, <4>2, FateStep
    <3>7. CASE Lost(p)
      <4>1. Requeue(p.frame) /\ dcid' = dcid /\ asked' = asked
              /\ pkts' = Forgets(pkts, p)
        BY <3>7 DEF Lost
      <4>2. /\ DOMAIN pkts' \subseteq PacketsOf(FrameSet)
            /\ \A q \in DOMAIN pkts' : \E o \in DOMAIN pkts : q.frame = o.frame
        BY <3>2, <4>1
      <4> QED BY <1>3, <3>1, <4>1, <4>2, RequeueStep
    <3>8. CASE Probed(p)
      <4>1. Requeue(p.frame) /\ dcid' = dcid /\ asked' = asked /\ pkts' = pkts
        BY <3>8 DEF Probed
      <4> QED BY <1>3, <3>1, <4>1, RequeueStep
    <3> QED BY <2>5, <3>3, <3>4, <3>5, <3>6, <3>7, <3>8
  <2> QED BY <1>3, <2>1, <2>2, <2>3, <2>4, <2>5 DEF Next
<1> QED
  BY <1>1, <1>2, <1>3 DEF CidInv

-----------------------------------------------------------------------------
(* The lists of both endpoints and the frames between them agree in every  *)
(* reachable state (cid.rs: new_scid(), new_dcid(), retire_scid(),         *)
(* retire_dcid()).                                                         *)
THEOREM CidInvariant == Spec => []CidInv
<1>1. Init => CidInv
  BY CidInitInv
<1>2. CidInv /\ [Next]_vars => CidInv'
  BY CidStepInv
<1> QED
  BY <1>1, <1>2, PTL DEF Spec

(* Whatever is lost, delayed, reordered or sent again, and for all limits, *)
(* the user holds only identifiers the issuer accepts or its own           *)
(* application retired: what the user holds is not below the largest       *)
(* retire_prior_to it was told (new_dcid()), and whatever left the         *)
(* issuer's list (retire_scid()) is below it or was asked for.             *)
THEOREM CidHeldIsAccepted == Spec => []HeldIsAccepted
<1>1. CidInv => HeldIsAccepted
  <2> SUFFICES ASSUME CidOpen, NEW q \in DOMAIN dst.dcids
               PROVE  q \in DOMAIN src.scids \cup asked
    BY DEF CidInv, HeldIsAccepted
  <2>1. q \in Nat /\ q < src.next /\ dst.largest_retire_prior_to <= q
          /\ dst.largest_retire_prior_to \in Int
    BY DEF CidOpen, DestinationInv
  <2>2. q \in DOMAIN src.scids \/ q \in May
    BY <2>1 DEF CidOpen, SourceInv
  <2> QED BY <2>1, <2>2 DEF May, Retirable
<1> QED
  BY <1>1, CidInvariant, PTL
=============================================================================
