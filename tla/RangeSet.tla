------------------------------ MODULE RangeSet ------------------------------
(***************************************************************************)
(* The set of ranges of quiche/src/ranges.rs, which holds the acknowledged *)
(* bytes of a send buffer and the packet numbers to acknowledge.  SendBuf  *)
(* takes it for the set of numbers it stands for; here the two             *)
(* representations (a short sorted vector, and a map from the start of a   *)
(* range to its end) and the conversions between them are checked against  *)
(* that set, for every sequence of insertions and removals below a bound.  *)
(*                                                                         *)
(* A range is a pair <<start, end>>, the end excluded, and may be empty:   *)
(* the acknowledgement of a lone FIN inserts one.                          *)
(***************************************************************************)
EXTENDS Integers, Sequences, FiniteSets
LOCAL INSTANCE SequencesExt
LOCAL INSTANCE FiniteSetsExt

CONSTANTS MAX_INLINE_CAPACITY,
          MIN_TO_INLINE,
          RangeCapacity,    \* the capacity of the set
          RangeBound        \* the largest end of a range that is tried

\* Every set of the code has room for more ranges than a vector holds.
ASSUME RangeCapacityAssumption == RangeCapacity >= MAX_INLINE_CAPACITY

EmptyRangeSet == [tree |-> FALSE, inner |-> << >>]

\* The vector: ranges the new end reaches are merged into the one at pos.
RECURSIVE merge_following(_, _)
merge_following(inner, pos) ==
  IF pos < Len(inner) /\ inner[pos][2] >= inner[pos + 1][1]
  THEN merge_following(
         [RemoveAt(inner, pos + 1) EXCEPT ![pos][2] = Max({@, inner[pos + 1][2]})],
         pos)
  ELSE inner

inline_insert(inner, start, end) ==
  LET pos == SelectInSeq(inner, LAMBDA r : start <= r[2])
      widened == [inner EXCEPT ![pos] = <<Min({start, @[1]}), Max({end, @[2]})>>]
  IN IF pos = 0 THEN Append(inner, <<start, end>>)
     ELSE IF end < inner[pos][1] THEN InsertAt(inner, pos, <<start, end>>)
     ELSE IF end > inner[pos][2] THEN merge_following(widened, pos)
     ELSE widened

RECURSIVE inline_remove_until(_, _)
inline_remove_until(inner, largest) ==
  IF inner = << >> THEN inner
  ELSE LET first == inner[1]
           start == Max({largest + 1, first[1]})
       IN IF largest >= first[2] THEN inline_remove_until(Tail(inner), largest)
          ELSE IF start = first[2] THEN Tail(inner)
          ELSE <<<<start, first[2]>>>> \o Tail(inner)

\* The map, as the set of its entries.
range_overlaps(r, other) ==
  \/ other[1] \in r[1]..r[2]
  \/ other[2] \in r[1]..r[2]

LOCAL Within(item, n) == item[1] <= n /\ n < item[2]
LOCAL FirstOf(ranges) == CHOOSE r \in ranges : \A q \in ranges : r[1] <= q[1]
LOCAL LastOf(ranges) == CHOOSE r \in ranges : \A q \in ranges : r[1] >= q[1]
LOCAL Hull(r, q) == <<Min({r[1], q[1]}), Max({r[2], q[2]})>>

\* What follows is compared with the inserted item, not with the merged range.
RECURSIVE absorb_following(_, _, _)
absorb_following(ranges, merged, item) ==
  LET following == {r \in ranges : r[1] >= merged[1]}
      r == FirstOf(following)
  IN IF following = {} THEN <<ranges, merged>>
     ELSE IF Within(item, r[1]) /\ Within(item, r[2])
       THEN absorb_following(ranges \ {r}, merged, item)
     ELSE IF range_overlaps(r, item)
       THEN absorb_following(ranges \ {r}, Hull(merged, r), item)
     ELSE <<ranges, merged>>

btree_insert(ranges, item) ==
  LET preceding == {r \in ranges : r[1] <= item[1]}
      joined == {r \in preceding : r = LastOf(preceding) /\ range_overlaps(r, item)}
      start == IF joined = {} THEN item ELSE Hull(item, LastOf(joined))
      absorbed == absorb_following(ranges \ joined, start, item)
      kept == IF Cardinality(absorbed[1]) >= RangeCapacity
              THEN absorbed[1] \ {FirstOf(absorbed[1])} ELSE absorbed[1]
  IN {r \in kept : r[1] # absorbed[2][1]} \cup {absorbed[2]}

RECURSIVE cut_ranges(_, _, _)
cut_ranges(ranges, cut, largest) ==
  IF cut = {} THEN ranges
  ELSE LET r == FirstOf(cut)
           rest == ranges \ {r}
       IN cut_ranges(IF r[2] > largest + 1
                     THEN btree_insert(rest, <<largest + 1, r[2]>>) ELSE rest,
                     cut \ {r}, largest)

btree_remove_until(ranges, largest) ==
  cut_ranges(ranges, {r \in ranges : r[1] <= largest}, largest)

-----------------------------------------------------------------------------
LOCAL InOrder(ranges) == SetToSortSeq(ranges, LAMBDA r, q : r[1] < q[1])

fixup(tree, inner) ==
  [tree |-> IF tree THEN Len(inner) > MIN_TO_INLINE ELSE Len(inner) = MAX_INLINE_CAPACITY,
   inner |-> inner]

insert(set, item) ==
  fixup(set.tree,
        IF set.tree THEN InOrder(btree_insert(ToSet(set.inner), item))
        ELSE inline_insert(set.inner, item[1], item[2]))

remove_until(set, largest) ==
  fixup(set.tree,
        IF set.tree THEN InOrder(btree_remove_until(ToSet(set.inner), largest))
        ELSE inline_remove_until(set.inner, largest))

-----------------------------------------------------------------------------
RangesTried == {r \in (0..RangeBound) \X (0..RangeBound) : r[1] <= r[2]}

Numbers(inner) == UNION {r[1]..(r[2] - 1) : r \in ToSet(inner)}

\* The sets that k calls lead to.
RECURSIVE RangeSetsAfter(_)
RangeSetsAfter(k) ==
  IF k = 0 THEN {EmptyRangeSet}
  ELSE LET before == RangeSetsAfter(k - 1)
       IN before \cup {insert(set, item) : set \in before, item \in RangesTried}
                 \cup {remove_until(set, n) : set \in before, n \in 0..RangeBound}

\* The lowest range is given up when a new one does not fit.
Evicted(set, item) ==
  IF /\ Len(set.inner) = RangeCapacity
     /\ \A r \in ToSet(set.inner) : r[2] < item[1] \/ item[2] < r[1]
  THEN Numbers(<<set.inner[1]>>) ELSE {}

\* After any calls the ranges are sorted and apart by at least one number, so
\* that one range from 0 to the end means that everything is there; an
\* insertion adds the numbers of its item and a removal takes away those up to
\* its argument, and neither touches another number, the lowest range of a full
\* set apart.
ASSUME RangeSetExact ==
  \A set \in RangeSetsAfter(RangeCapacity + 1) :
    /\ \A i \in 1..(Len(set.inner) - 1) : set.inner[i][2] < set.inner[i + 1][1]
    /\ \A r \in ToSet(set.inner) : r[1] <= r[2]
    /\ Len(set.inner) <= RangeCapacity
    /\ set.tree => Len(set.inner) > MIN_TO_INLINE
    /\ ~set.tree => Len(set.inner) < MAX_INLINE_CAPACITY
    /\ \A item \in RangesTried :
         Numbers(insert(set, item).inner)
           = (Numbers(set.inner) \ Evicted(set, item)) \cup (item[1]..(item[2] - 1))
    /\ \A n \in 0..RangeBound :
         Numbers(remove_until(set, n).inner) = Numbers(set.inner) \ (0..n)
=============================================================================
