------------------------------ MODULE SendBuf ------------------------------
(***************************************************************************)
(* The send buffer of one stream (quiche/src/stream/send_buf.rs), as       *)
(* operators on its record.                                                *)
(*                                                                         *)
(* The chunks of the code's VecDeque are contiguous: `front' is the start  *)
(* of the first, `cuts' the ends of all.  A chunk's position splits it     *)
(* into bytes sent and bytes to send: `unsent' is the set of the latter,   *)
(* and the index `pos' of the chunk to send from is the chunk of the       *)
(* lowest of them.  `acked' is the RangeSet as a set of offsets.  The      *)
(* retention limits are the default ones, that is none.                    *)
(***************************************************************************)
EXTENDS StreamBasics

CONSTANT SendBufferSize   \* SEND_BUFFER_SIZE: where write() cuts its input

ASSUME SendBufAssumption == SendBufferSize \in Nat \ {0}

NoSendReset == [set |-> FALSE, at |-> FALSE, error_code |-> 0, final_size |-> 0,
                reliable_size |-> 0, acked |-> FALSE]

SendNew(max_data) ==
  [front |-> 0, cuts |-> {}, unsent |-> {}, off |-> 0, emit_off |-> 0,
   buffered |-> 0, max_data |-> max_data, blocked_at |-> None,
   fin_off |-> None, fin_acked |-> FALSE, shutdown |-> FALSE,
   reset |-> NoSendReset, acked |-> {}, stopped |-> FALSE]

Lowest(S) == CHOOSE x \in S : \A y \in S : x <= y
Highest(S) == CHOOSE x \in S : \A y \in S : x >= y

-----------------------------------------------------------------------------
\* The end of the retained data.
Back(b) == IF b.cuts = {} THEN b.front ELSE Highest(b.cuts)

\* The first offset to send; the end of the stream when there is none.
OffFront(b) == IF b.unsent = {} THEN b.off ELSE Lowest(b.unsent)

\* The end of the contiguously acknowledged prefix, an offset of 0..off.
AckOff(b) == Lowest({o \in 0..b.off : o \notin b.acked} \cup {b.off})

SendCap(b) == b.max_data - b.off

SendIsFin(b) == b.fin_off = b.off

IsFlushable(b) ==
  /\ b.cuts # {}
  /\ OffFront(b) < b.off
  /\ OffFront(b) < b.max_data

SendIsWritable(b, lowat) ==
  ~b.shutdown /\ ~SendIsFin(b) /\ b.off + lowat < b.max_data

\* Slip: a reset stream sends no data, not even the prefix it owes.
CanSendBuffered_NotReset(b) == ~b.reset.set /\ ~b.stopped

CanSendBuffered(b) ==
  IF b.reset.set THEN AckOff(b) < b.reset.reliable_size ELSE ~b.stopped

\* Slip: the acknowledgement of the reset is enough.
SendIsComplete_NoPrefix(b) ==
  IF b.reset.set THEN b.reset.acked
  ELSE b.fin_off # None /\ b.fin_acked /\ b.acked = Bytes(0, b.fin_off)

SendIsComplete(b) ==
  IF b.reset.set
  THEN b.reset.acked /\ AckOff(b) >= b.reset.reliable_size
  ELSE b.fin_off # None /\ b.fin_acked /\ b.acked = Bytes(0, b.fin_off)

-----------------------------------------------------------------------------
(* write()                                                                 *)

ChunkEnds(off, n) ==
  {e \in (off + 1)..(off + n) : (e - off) % SendBufferSize = 0 \/ e = off + n}

\* Slip: the stream's credit is not looked at.
WriteLen_Unchecked(b, len) == len

\* len bytes with or without fin, of which the stream's credit may allow only
\* a part; fin is then put off.  The caller has ruled out a stream that was
\* stopped, shut down or finished, but for a repeated empty fin.
WriteLen(b, len) == Lesser(len, SendCap(b))

SendWrite(b, len, fin) ==
  LET n == WriteLen(b, len)
      all == fin /\ n = len
  IN  [b EXCEPT !.fin_off = IF all THEN b.off + len ELSE @,
                !.fin_acked = IF all THEN FALSE ELSE @,
                !.cuts = @ \cup ChunkEnds(b.off, n),
                !.unsent = @ \cup Bytes(b.off, b.off + n),
                !.off = @ + n,
                !.buffered = @ + n]

-----------------------------------------------------------------------------
(* emit(): n bytes from the first offset to send.                          *)

\* The output has room for cap bytes: n of them are filled, the contiguous
\* run or the start of it.
EmitLens(b, cap) ==
  {n \in 0..cap : /\ Bytes(OffFront(b), OffFront(b) + n) \subseteq b.unsent
                  /\ n < cap => OffFront(b) + n \notin b.unsent}

EmitFrame(b, n) ==
  [off |-> OffFront(b), len |-> n, fin |-> b.fin_off = OffFront(b) + n, copy |-> 0]

\* Slip: a retransmission lowers the mark.
SendEmit_Lowers(b, n) ==
  [b EXCEPT !.unsent = @ \ Bytes(OffFront(b), OffFront(b) + n),
            !.buffered = @ - n,
            !.emit_off = OffFront(b) + n]

SendEmit(b, n) ==
  [b EXCEPT !.unsent = @ \ Bytes(OffFront(b), OffFront(b) + n),
            !.buffered = @ - n,
            !.emit_off = Greater(@, OffFront(b) + n)]

-----------------------------------------------------------------------------
(* ack_and_drop() with ack_fin(), and retransmit().                        *)

Ack(b, f) == [b EXCEPT !.acked = @ \cup Bytes(f.off, MaxOff(f))]

\* Slip: what lies below the frame is taken for acknowledged.
AckFront_Gaps(b, f) ==
  LET done == {c \in b.cuts : c <= MaxOff(f)}
  IN  IF done = {} THEN b.front ELSE Highest(done)

\* The chunks that lie below the acknowledged prefix are dropped.
AckFront(b, f) ==
  LET ack_off == AckOff(Ack(b, f))
      done == {c \in b.cuts : c <= ack_off}
  IN  IF f.off > ack_off \/ done = {} THEN b.front ELSE Highest(done)

\* Bytes queued for retransmission that are dropped with their chunk.
AckDropped(b, f) == {o \in b.unsent : o < AckFront(b, f)}

AckAndDrop(b, f, dropped) ==
  [Ack(b, f) EXCEPT !.front = AckFront(b, f),
                    !.cuts = {c \in @ : c > AckFront(b, f)},
                    !.unsent = @ \ AckDropped(b, f),
                    !.buffered = SatSub(@, dropped),
                    !.fin_acked = @ \/ (f.fin /\ b.fin_off = MaxOff(f))]

\* Where the range to retransmit ends: a reset gives up what is beyond.
RetransmitEnd(b, f) ==
  IF b.reset.set THEN Lesser(MaxOff(f), b.reset.reliable_size) ELSE MaxOff(f)

\* The bytes of the range that are retained and not queued already.
Retransmitted(b, f) ==
  IF b.cuts = {} \/ RetransmitEnd(b, f) <= AckOff(b) THEN {}
  ELSE Bytes(Greater(f.off, b.front), Lesser(RetransmitEnd(b, f), Back(b))) \ b.unsent

\* A chunk that reaches beyond the range is split where the range ends.
RetransmitCuts(b, f) ==
  LET end == RetransmitEnd(b, f)
  IN  IF /\ b.cuts # {} /\ f.off < end /\ end > AckOff(b)
         /\ b.front < end /\ end < Back(b)
      THEN {end} ELSE {}

\* Slip: counts the frame's length, not what was queued.
Retransmit_Length(b, f, n) ==
  [b EXCEPT !.unsent = @ \cup Retransmitted(b, f),
            !.cuts = @ \cup RetransmitCuts(b, f),
            !.buffered = @ + f.len]

Retransmit(b, f, n) ==
  [b EXCEPT !.unsent = @ \cup Retransmitted(b, f),
            !.cuts = @ \cup RetransmitCuts(b, f),
            !.buffered = @ + n]

-----------------------------------------------------------------------------
(* terminate(), and its callers stop(), shutdown() and shutdown_at().      *)

\* Every byte below end is acknowledged or retained.
RetainedCovers(b, end) ==
  end <= b.off /\ \A o \in 0..(end - 1) : o \in b.acked \/ (b.front <= o /\ o < Back(b))

\* What shutdown(), shutdown_at() or stop() asks terminate() for.
ResetRequest(at, error_code, final_size, reliable_size) ==
  [at |-> at, error_code |-> error_code, final_size |-> final_size,
   reliable_size |-> reliable_size]

TerminateResult(b, q) ==
  IF q.reliable_size > q.final_size THEN "FinalSize"
  ELSE IF b.fin_off # None /\ b.fin_off # q.final_size THEN "InvalidState"
  ELSE IF /\ b.reset.set
          /\ \/ b.reset.error_code # q.error_code
             \/ b.reset.final_size # q.final_size
             \/ q.reliable_size > b.reset.reliable_size
    THEN "InvalidState"
  ELSE IF b.reset.set /\ q.reliable_size = b.reset.reliable_size THEN "unchanged"
  ELSE IF ~RetainedCovers(b, q.reliable_size) THEN "InvalidState"
  ELSE "ok"

\* discard_after(): what is queued beyond the Reliable Size.
Discarded(b, q) == {o \in b.unsent : o >= q.reliable_size}

DroppedTxData(b, q) == IF b.reset.set THEN 0 ELSE SatSub(b.off, q.final_size)

Terminate(b, q, dropped) ==
  [b EXCEPT !.unsent = @ \ Discarded(b, q),
            !.cuts = IF @ = {} \/ b.front >= q.reliable_size THEN {}
                     ELSE {c \in @ : c <= q.reliable_size}
                            \cup {Lesser(Back(b), q.reliable_size)},
            !.buffered = SatSub(@, dropped),
            !.off = q.final_size, !.fin_off = q.final_size,
            !.blocked_at = None,
            !.reset = [set |-> TRUE, at |-> q.at, error_code |-> q.error_code,
                       final_size |-> q.final_size,
                       reliable_size |-> q.reliable_size, acked |-> FALSE]]

OrdinaryFinalSize(b) ==
  IF b.reset.set THEN b.reset.final_size
  ELSE IF b.fin_off # None THEN b.fin_off ELSE b.emit_off

ReliableFinalSize(b) ==
  IF b.reset.set THEN b.reset.final_size
  ELSE IF b.fin_off # None THEN b.fin_off ELSE b.off

\* The frame that announces the reset.
ResetFrameOf(b) == ResetRequest(b.reset.at, b.reset.error_code,
                                b.reset.final_size, b.reset.reliable_size)

\* shutdown() and shutdown_at() refuse a send side that has ended.
ShutdownResult(b, q) ==
  IF \/ b.reset.set /\ SendIsComplete(b)
     \/ q.at /\ SendIsComplete(b)
     \/ ~q.at /\ b.shutdown /\ (b.reset.set => b.reset.reliable_size = 0)
  THEN "Done" ELSE TerminateResult(b, q)

AckReset(b, q) == [b EXCEPT !.reset.acked = @ \/ (b.reset.set /\ ResetFrameOf(b) = q)]
=============================================================================
