------------------------------ MODULE RecvBuf ------------------------------
(***************************************************************************)
(* The receive buffer of one stream (quiche/src/stream/recv_buf.rs), as    *)
(* operators on its record.                                                *)
(*                                                                         *)
(* `data' is the set of buffered byte offsets.  The code keeps a BTreeMap  *)
(* of disjoint chunks; RecvChunks models that map and its overlap handling *)
(* and is shown to implement this module.  The one thing a set of offsets  *)
(* cannot hold is the empty chunk that only carries FIN: `finbuf' says     *)
(* that it is queued.                                                      *)
(***************************************************************************)
EXTENDS FlowControl

Resets == [set : BOOLEAN, error_code : Nat, final_size : Nat,
           reliable_size : Nat, reliable_semantics : BOOLEAN,
           delivered : BOOLEAN]

NoReset == [set |-> FALSE, error_code |-> 0, final_size |-> 0,
            reliable_size |-> 0, reliable_semantics |-> FALSE,
            delivered |-> FALSE]

RecvBufs == [data : SUBSET Nat, finbuf : BOOLEAN, off : Nat, len : Nat,
             fc : FlowControls, fin_off : Nat \cup {None}, reset : Resets,
             drain : BOOLEAN]

RecvNew(max_data, window, max_window) ==
  [data |-> {}, finbuf |-> FALSE, off |-> 0, len |-> 0,
   fc |-> FcNew(max_data, window, max_window), fin_off |-> None,
   reset |-> NoReset, drain |-> FALSE]

-----------------------------------------------------------------------------
\* Slip: the prefix need not be read first.
ResetIsReady_Early(r) == r.reset.set /\ ~r.reset.delivered

ResetIsReady(r) ==
  r.reset.set /\ ~r.reset.delivered /\ r.off >= r.reset.reliable_size

DataIsReady(r) == r.off \in r.data \/ (r.finbuf /\ r.off = r.fin_off)

Ready(r) == ResetIsReady(r) \/ DataIsReady(r)

IsFin(r) ==
  IF r.reset.set THEN r.reset.delivered \/ r.reset.reliable_size = 0
                 ELSE r.fin_off = r.off

AlmostFull(r) == r.fin_off = None /\ ShouldUpdateMaxData(r.fc)

-----------------------------------------------------------------------------
(* write(): the checks, then the effect on a frame that passed them.       *)

WriteError(r, f) ==
  IF MaxOff(f) > r.fc.max_data
    THEN "FlowControl"
  ELSE IF \/ r.fin_off # None /\ MaxOff(f) > r.fin_off
          \/ r.fin_off # None /\ f.fin /\ MaxOff(f) # r.fin_off
          \/ f.fin /\ MaxOff(f) < r.len
    THEN "FinalSize"
  ELSE "ok"

\* A reset stream keeps only what lies below its Reliable Size.
KeepUntil(r, f) ==
  IF r.reset.set THEN Lesser(MaxOff(f), r.reset.reliable_size) ELSE MaxOff(f)

\* Slip: a frame that starts below the read offset is taken for a duplicate.
NothingToStore_ByStart(r, f) ==
  \/ r.reset.set /\ (\/ r.reset.delivered
                     \/ r.drain
                     \/ f.off >= r.reset.reliable_size)
  \/ f.len = 0 /\ ~f.fin
  \/ f.len > 0 /\ r.off > f.off

\* The frame carries nothing the buffer still wants.
NothingToStore(r, f) ==
  \/ r.reset.set /\ (\/ r.reset.delivered
                     \/ r.drain
                     \/ f.off >= r.reset.reliable_size)
  \/ f.len = 0 /\ ~f.fin
  \/ f.len > 0 /\ r.off >= KeepUntil(r, f)

\* Whether the empty FIN chunk is queued once the frame is stored: a chunk
\* that ends at the same offset makes it redundant.
FinBufAfter(r, f) ==
  IF f.len = 0 THEN (MaxOff(f) - 1) \notin r.data
               ELSE r.finbuf /\ KeepUntil(r, f) # r.fin_off

Write(r, f) ==
  IF r.fin_off # None /\ f.len = 0 THEN r
  ELSE LET fin_off == IF f.fin THEN MaxOff(f) ELSE r.fin_off
           end == KeepUntil(r, f)
           len == Greater(r.len, end)
       IN  IF NothingToStore(r, f) THEN [r EXCEPT !.fin_off = fin_off]
           ELSE IF r.drain
             THEN [r EXCEPT !.fin_off = fin_off, !.len = len, !.off = len]
           ELSE [r EXCEPT !.fin_off = fin_off, !.len = len,
                          !.data = r.data \cup Bytes(Greater(r.off, f.off), end),
                          !.finbuf = FinBufAfter(r, f)]

-----------------------------------------------------------------------------
(* emit_or_discard() with room for at least one byte.                      *)

\* n bytes are read: the contiguous run at `off', or the start of it when
\* the caller's buffer is full.
Emit(r, n) ==
  [r EXCEPT !.data = r.data \ Bytes(r.off, r.off + n), !.off = r.off + n,
            !.finbuf = r.finbuf /\ n > 0, !.fc = AddConsumed(r.fc, n)]

CanEmit(r, n) ==
  /\ DataIsReady(r) /\ ~ResetIsReady(r)
  /\ Bytes(r.off, r.off + n) \subseteq r.data
  /\ n = 0 => r.off \notin r.data

\* The application is handed the StreamReset error.
DeliverReset(r) ==
  [r EXCEPT !.reset.delivered = TRUE, !.off = r.reset.final_size,
            !.data = {}, !.finbuf = FALSE]

-----------------------------------------------------------------------------
(* reset() and reset_at(); q is the frame, q.at says which of the two.     *)

ResetError(r, q) ==
  IF q.reliable_size > q.final_size THEN "InvalidFrame"
  ELSE IF q.final_size > r.fc.max_data THEN "FlowControl"
  ELSE IF \/ r.fin_off # None /\ r.fin_off # q.final_size
          \/ q.final_size < r.len
    THEN "FinalSize"
  ELSE IF /\ r.reset.set /\ (q.at \/ r.reset.reliable_semantics)
          /\ r.reset.error_code # q.error_code
    THEN "InvalidState"
  ELSE "ok"

DiscardAfter(r, end) == r.data \cap Bytes(0, end)

FirstReset(r, q) ==
  [r EXCEPT !.fin_off = q.final_size, !.len = q.final_size,
            !.reset = [set |-> TRUE, error_code |-> q.error_code,
                       final_size |-> q.final_size,
                       reliable_size |-> q.reliable_size,
                       reliable_semantics |-> q.at,
                       delivered |-> r.drain],
            !.data = DiscardAfter(r, q.reliable_size), !.finbuf = FALSE,
            !.off = IF r.drain THEN q.final_size ELSE r.off]

FirstResetCredit(r, q) ==
  IF r.drain THEN SatSub(q.final_size, r.off)
             ELSE SatSub(q.final_size, Greater(q.reliable_size, r.off))

\* A later reset may only lower the Reliable Size.
LaterReset(r, q) ==
  IF ~(q.at \/ r.reset.reliable_semantics) THEN r
  ELSE IF q.reliable_size >= r.reset.reliable_size
    THEN [r EXCEPT !.reset.reliable_semantics = TRUE]
  ELSE [r EXCEPT !.reset.reliable_semantics = TRUE,
                 !.reset.reliable_size = q.reliable_size,
                 !.data = DiscardAfter(r, q.reliable_size), !.finbuf = FALSE]

LaterResetCredit(r, q) ==
  IF \/ ~(q.at \/ r.reset.reliable_semantics)
     \/ q.reliable_size >= r.reset.reliable_size
     \/ r.drain \/ r.reset.delivered
    THEN 0
    ELSE SatSub(Greater(r.reset.reliable_size, r.off),
                Greater(q.reliable_size, r.off))

Reset(r, q) == IF r.reset.set THEN LaterReset(r, q) ELSE FirstReset(r, q)

ResetCredit(r, q) ==
  IF r.reset.set THEN LaterResetCredit(r, q) ELSE FirstResetCredit(r, q)

-----------------------------------------------------------------------------
(* shutdown()                                                              *)

Shutdown(r) ==
  [r EXCEPT !.drain = TRUE, !.data = {}, !.finbuf = FALSE, !.off = r.len,
            !.reset.delivered = r.reset.set]

\* Slip: what a reset already gave back is given back again.
ShutdownCredit_Twice(r) == r.len - r.off

ShutdownCredit(r) ==
  IF r.reset.set THEN SatSub(r.reset.reliable_size, r.off) ELSE r.len - r.off

-----------------------------------------------------------------------------
(* What every operation of the buffer preserves, part by part.             *)

\* The offsets are ordered, and the final size, once known, is the length.
OffsetsOrdered(r) ==
  /\ r.fc.consumed <= r.off /\ r.off <= r.len /\ r.len <= r.fc.max_data
  /\ r.fin_off # None => r.fin_off = r.len

\* Buffered bytes are unread; the empty FIN chunk follows no buffered byte.
BufferedAhead(r) ==
  /\ r.data \subseteq Bytes(r.off, r.len)
  /\ r.finbuf => r.fin_off # None /\ (r.fin_off - 1) \notin r.data

\* A reset fixes the size, keeps bytes below its Reliable Size only, and once
\* delivered nothing is left to read.
ResetConsistent(r) ==
  /\ r.reset.set => /\ r.reset.final_size = r.fin_off
                    /\ r.reset.reliable_size <= r.reset.final_size
                    /\ ~r.finbuf
                    /\ r.data \subseteq Bytes(0, r.reset.reliable_size)
  /\ r.reset.delivered => r.reset.set /\ r.off = r.len /\ r.data = {}

\* A stream shut down for reading buffers nothing.
DrainConsistent(r) ==
  r.drain => /\ r.off = r.len /\ r.data = {} /\ ~r.finbuf
             /\ r.reset.set => r.reset.delivered

\* Committing an update cannot lower a limit that was updated before.
WindowConsistent(w) ==
  /\ w.window <= w.max_window
  /\ w.updated => w.max_data <= MaxDataNext(w)

BufInv(r) ==
  /\ OffsetsOrdered(r)
  /\ BufferedAhead(r)
  /\ ResetConsistent(r)
  /\ DrainConsistent(r)
  /\ WindowConsistent(r.fc)

\* Received bytes the application can still read or has yet to give up.
Unread(r) ==
  IF r.drain \/ r.reset.delivered THEN 0
  ELSE IF r.reset.set THEN SatSub(r.reset.reliable_size, r.off)
  ELSE r.len - r.off

\* Of the accepted bytes g, those the buffer must still hold.
Wanted(r, g) ==
  {b \in g : b >= r.off /\ (r.reset.set => b < r.reset.reliable_size)}

BytesKept(r, g) ==
  ~r.drain /\ ~r.reset.delivered =>
    Wanted(r, g) = r.data /\ Bytes(0, r.off) \subseteq g
=============================================================================
