----------------------------- MODULE RecvChunks -----------------------------
(***************************************************************************)
(* The BTreeMap inside RecvBuf (quiche/src/stream/recv_buf.rs): the loop of *)
(* write() that cuts an incoming range against the chunks already buffered,*)
(* the loops of emit_or_discard(), discard_after() and readable_len().     *)
(*                                                                         *)
(* `chunks' maps the end of each chunk, its key in the map, to its start;  *)
(* consume() moves the start.  The other fields are those of RecvBuf.      *)
(***************************************************************************)
EXTENDS RecvBuf, Sequences, FiniteSetsExt

CONSTANTS DataFrames, ResetFrames, InitialMaxData, MaxWindow

ASSUME ChunksAssumption ==
  /\ DataFrames \subseteq [off : Nat, len : Nat, fin : BOOLEAN]
  /\ ResetFrames \subseteq [at : BOOLEAN, error_code : Nat, final_size : Nat,
                            reliable_size : Nat]
  /\ InitialMaxData \in Nat /\ MaxWindow \in Nat

VARIABLES
  chunks,   \* the map: end of a chunk -> its start
  rest      \* the scalar fields; rest.data and rest.finbuf are not used

vars == <<chunks, rest>>

NoChunks == [k \in {} |-> 0]

Put(c, from, to) == [k \in DOMAIN c \cup {to} |-> IF k = to THEN from ELSE c[k]]

\* The buffer as a set of bytes and the empty chunk that carries FIN.
AbsBuf == [rest EXCEPT !.data = UNION {Bytes(chunks[k], k) : k \in DOMAIN chunks},
                       !.finbuf = \E k \in DOMAIN chunks : chunks[k] = k]

-----------------------------------------------------------------------------
(* write()                                                                 *)

\* The inner loop: the range from..to against the chunks that end in keys,
\* lowest first.  It is stored, unless a chunk contains it; `later' is the
\* part cut off behind an overlap, queued for another round of the outer loop.
RECURSIVE Cut(_, _, _, _, _)
Cut(c, from, to, keys, later) ==
  LET k == Min(keys)
  IN  IF keys = {} THEN [c |-> Put(c, from, to), later |-> later, top |-> to]
      ELSE IF c[k] > to THEN [c |-> Put(c, from, to), later |-> later, top |-> to]
      ELSE IF from >= c[k] /\ to <= k THEN [c |-> c, later |-> later, top |-> 0]
      ELSE IF from >= c[k] /\ from < k THEN Cut(c, k, to, keys \ {k}, later)
      ELSE IF from < c[k] /\ to > c[k]
        THEN Cut(c, from, c[k], keys \ {k}, Append(later, <<c[k], to>>))
      ELSE Cut(c, from, to, keys \ {k}, later)

\* Slip: the empty range that carries FIN is not looked at.
KeysToCheck_NoFin(c, from, to, len) ==
  IF from < len THEN {k \in DOMAIN c : k >= from} ELSE {}

\* The chunks that may overlap the range: none when it starts at or above all
\* that was received, unless it is the empty range that carries FIN.
KeysToCheck(c, from, to, len) ==
  IF from < len \/ from = to THEN {k \in DOMAIN c : k >= from} ELSE {}

\* The outer loop over the ranges still to store.
RECURSIVE Store(_, _, _, _)
Store(c, off, len, queue) ==
  IF queue = <<>> THEN [c |-> c, len |-> len]
  ELSE LET from == Greater(off, Head(queue)[1])
           to == Head(queue)[2]
           cut == Cut(c, from, to, KeysToCheck(c, from, to, len), Tail(queue))
       IN  Store(cut.c, off, Greater(len, cut.top), cut.later)

WriteChunks(f) ==
  /\ WriteError(rest, f) = "ok"
  /\ IF rest.fin_off # None /\ f.len = 0 THEN UNCHANGED vars
     ELSE LET fin_off == IF f.fin THEN MaxOff(f) ELSE rest.fin_off
              stored == Store(chunks, rest.off, rest.len, << <<f.off, KeepUntil(rest, f)>> >>)
          IN  IF NothingToStore(rest, f)
              THEN chunks' = chunks /\ rest' = [rest EXCEPT !.fin_off = fin_off]
              ELSE IF rest.drain
              THEN /\ chunks' = chunks
                   /\ rest' = [rest EXCEPT !.fin_off = fin_off, !.len = stored.len,
                                           !.off = stored.len]
              ELSE /\ chunks' = stored.c
                   /\ rest' = [rest EXCEPT !.fin_off = fin_off, !.len = stored.len]

-----------------------------------------------------------------------------
(* The other operations.                                                   *)

Front(c) == Min(DOMAIN c)

ChunkReady(c, off) == IF DOMAIN c = {} THEN FALSE ELSE c[Front(c)] = off

\* emit_or_discard() with room for cap bytes.
RECURSIVE Take(_, _, _)
Take(c, off, cap) ==
  IF cap = 0 \/ ~ChunkReady(c, off) THEN [c |-> c, off |-> off]
  ELSE LET k == Front(c)
           n == Lesser(k - c[k], cap)
       IN  IF n < k - c[k] THEN [c |-> Put(c, off + n, k), off |-> off + n]
           ELSE Take([j \in DOMAIN c \ {k} |-> c[j]], off + n, cap - n)

EmitChunks(cap) ==
  /\ ChunkReady(chunks, rest.off)
  /\ ~ResetIsReady(rest)
  /\ LET took == Take(chunks, rest.off, cap)
     IN  /\ chunks' = took.c
         /\ rest' = [rest EXCEPT !.off = took.off,
                                 !.fc = AddConsumed(@, took.off - rest.off)]

DeliverResetChunks ==
  /\ ResetIsReady(rest)
  /\ chunks' = NoChunks
  /\ rest' = DeliverReset(rest)

DiscardChunksAfter(c, end) ==
  LET kept == {k \in DOMAIN c : c[k] < end}
  IN  [e \in {Lesser(k, end) : k \in kept} |->
         c[CHOOSE k \in kept : Lesser(k, end) = e]]

ResetChunks(q) ==
  /\ ResetError(rest, q) = "ok"
  /\ rest' = Reset(rest, q)
  /\ chunks' = IF rest'.reset.set /\ (~rest.reset.set
                    \/ rest'.reset.reliable_size < rest.reset.reliable_size)
               THEN DiscardChunksAfter(chunks, rest'.reset.reliable_size)
               ELSE chunks

ShutdownChunks ==
  /\ ~rest.drain
  /\ chunks' = NoChunks
  /\ rest' = Shutdown(rest)

UpdateMaxDataChunks ==
  /\ AlmostFull(rest)
  /\ rest' = [rest EXCEPT !.fc = UpdateMaxData(@)]
  /\ UNCHANGED chunks

\* readable_len(), below the 64 KiB at which the code stops counting.
RECURSIVE Contiguous(_, _, _)
Contiguous(c, next, limit) ==
  IF ~ChunkReady(c, next) THEN 0
  ELSE LET k == Front(c)
           end == Lesser(k, limit)
       IN  (end - next) + (IF end = limit THEN 0
                           ELSE Contiguous([j \in DOMAIN c \ {k} |-> c[j]], end, limit))

\* Slip: what lies behind a gap is counted too.
ReadableLen_CountsAll == Cardinality(AbsBuf.data)

ReadableLen ==
  IF ResetIsReady(rest) THEN 0
  ELSE Contiguous(chunks, rest.off,
                  IF rest.reset.set THEN rest.reset.reliable_size ELSE rest.fc.max_data)

-----------------------------------------------------------------------------
Init ==
  /\ chunks = NoChunks
  /\ rest = RecvNew(InitialMaxData, InitialMaxData, MaxWindow)

Next ==
  \/ \E f \in DataFrames : WriteChunks(f)
  \/ \E q \in ResetFrames : ResetChunks(q)
  \/ \E cap \in 1..(rest.len + 1) : EmitChunks(cap)
  \/ DeliverResetChunks
  \/ ShutdownChunks
  \/ UpdateMaxDataChunks

Spec == Init /\ [][Next]_vars

-----------------------------------------------------------------------------
\* readable_len() is what stream_recv() with a large enough buffer returns:
\* it never counts bytes behind a gap, and misses none before it.
ReadableLenExact ==
  LET n == ReadableLen IN
    /\ Bytes(rest.off, rest.off + n) \subseteq AbsBuf.data
    /\ ~ResetIsReady(rest) => rest.off + n \notin AbsBuf.data

Abstract == INSTANCE RecvBufSpec WITH buf <- AbsBuf

\* Every operation on the map is the operation of RecvBuf on the set of bytes
\* it holds: the overlap loop neither loses nor invents a byte, and keeps the
\* empty FIN chunk exactly as long as no chunk ends at the final offset.
ImplementsRecvBuf == Abstract!Spec
=============================================================================
