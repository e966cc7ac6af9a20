---------------------------- MODULE CollectedIds ----------------------------
(***************************************************************************)
(* The compressed set of collected streams (CollectedStreamSpace of        *)
(* quiche/src/stream/mod.rs), of which a connection has one for each type  *)
(* of stream.  StreamLimits takes it for the set it stands for; here the   *)
(* structure itself is checked against that set, for every order of        *)
(* insertion of the numbers below a bound.                                 *)
(*                                                                         *)
(* A space has the end of the contiguous prefix (None before the first), a *)
(* map of partly filled chunks, and a map of runs of full chunks, from the *)
(* first to the one after the last.  A chunk is its set of bits and        *)
(* whether it is stored densely: only a dense chunk is known to be full.   *)
(***************************************************************************)
EXTENDS Integers, FiniteSets, FiniteSetsExt

CONSTANTS COLLECTED_STREAM_CHUNK_BITS,
          COLLECTED_STREAM_DENSE_THRESHOLD,
          CollectedBound      \* the sequence numbers that are tried

LOCAL Bits == COLLECTED_STREAM_CHUNK_BITS
LOCAL Nothing == -1

EmptySpace ==
  [contiguous_end |-> Nothing, chunks |-> [i \in {} |-> 0],
   full_chunk_ranges |-> [i \in {} |-> 0]]

LOCAL Put(map, key, value) ==
  [k \in DOMAIN map \cup {key} |-> IF k = key THEN value ELSE map[k]]
LOCAL Drop(map, keys) == [k \in DOMAIN map \ keys |-> map[k]]

full_chunk_range_contains(space, index) ==
  LET starts == {k \in DOMAIN space.full_chunk_ranges : k <= index}
  IN starts # {} /\ index < space.full_chunk_ranges[Max(starts)]

space_contains(space, sequence) ==
  LET index == sequence \div Bits
  IN \/ sequence <= space.contiguous_end
     \/ full_chunk_range_contains(space, index)
     \/ /\ index \in DOMAIN space.chunks
        /\ sequence % Bits \in space.chunks[index].bits

\* The new chunk joins the run that ends where it starts, and the one that
\* starts where it ends.
insert_full_chunk(ranges, index) ==
  LET below == {k \in DOMAIN ranges : k <= index}
      joined == {k \in below : k = Max(below) /\ ranges[k] >= index}
      start == IF joined = {} THEN index ELSE Max(joined)
      end == Max({index + 1} \cup {ranges[k] : k \in joined})
      above == {k \in DOMAIN ranges \ joined : k >= start}
      next == {k \in above : k = Min(above) /\ k <= end}
  IN Put(Drop(ranges, joined \cup next), start,
         Max({end} \cup {ranges[k] : k \in next}))

\* The prefix grows over the run, or the bit, that follows it.
RECURSIVE promote_contiguous(_)
promote_contiguous(space) ==
  LET expected == space.contiguous_end + 1
      index == expected \div Bits
      bit == expected % Bits
      left == space.chunks[index].bits \ {bit}
  IN IF bit = 0 /\ index \in DOMAIN space.full_chunk_ranges
       THEN promote_contiguous(
              [space EXCEPT !.contiguous_end = space.full_chunk_ranges[index] * Bits - 1,
                            !.full_chunk_ranges = Drop(@, {index})])
     ELSE IF index \in DOMAIN space.chunks /\ bit \in space.chunks[index].bits
       THEN promote_contiguous(
              [space EXCEPT !.contiguous_end = expected,
                            !.chunks = IF left = {} THEN Drop(@, {index})
                                       ELSE [@ EXCEPT ![index].bits = left]])
     ELSE space

chunk_insert(chunk, bit) ==
  LET bits == chunk.bits \cup {bit}
  IN [bits |-> bits,
      dense |-> chunk.dense \/ Cardinality(bits) >= COLLECTED_STREAM_DENSE_THRESHOLD]

space_insert(space, sequence) ==
  LET index == sequence \div Bits
      chunk == chunk_insert(IF index \in DOMAIN space.chunks THEN space.chunks[index]
                            ELSE [bits |-> {}, dense |-> FALSE],
                            sequence % Bits)
      is_full == chunk.dense /\ chunk.bits = 0..(Bits - 1)
      stored == IF is_full
                THEN [space EXCEPT !.chunks = Drop(@, {index}),
                                   !.full_chunk_ranges = insert_full_chunk(@, index)]
                ELSE [space EXCEPT !.chunks = Put(@, index, chunk)]
  IN IF space_contains(space, sequence) THEN space
     ELSE promote_contiguous(
            IF sequence = space.contiguous_end + 1
            THEN [space EXCEPT !.contiguous_end = sequence] ELSE stored)

-----------------------------------------------------------------------------
Sequences0 == 0..(CollectedBound - 1)

Members(space) == {n \in Sequences0 : space_contains(space, n)}

\* The spaces that some order of k insertions leads to.
RECURSIVE SpacesAfter(_)
SpacesAfter(k) ==
  IF k = 0 THEN {EmptySpace}
  ELSE {space_insert(space, n) : space \in SpacesAfter(k - 1), n \in Sequences0}

\* Whatever the order in which streams are collected, exactly the collected
\* ones are members, nothing is stored for what the prefix covers, and runs of
\* full chunks are apart: a late frame for a collected stream finds it, a new
\* stream is never taken for a collected one, and the storage shrinks again.
ASSUME CollectedExact ==
  \A space \in UNION {SpacesAfter(k) : k \in 0..CollectedBound} :
    /\ \A n \in Sequences0 : Members(space_insert(space, n)) = Members(space) \cup {n}
    /\ \A i \in DOMAIN space.chunks : Max(space.chunks[i].bits) + i * Bits > space.contiguous_end + 1
    /\ \A i, j \in DOMAIN space.full_chunk_ranges :
         /\ i * Bits > space.contiguous_end + 1
         /\ i < j => space.full_chunk_ranges[i] < j
=============================================================================
