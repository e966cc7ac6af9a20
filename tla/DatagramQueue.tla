---------------------------- MODULE DatagramQueue ----------------------------
(***************************************************************************)
(* The queue of QUIC datagrams (quiche/src/dgram.rs), of which a           *)
(* connection has one for each direction, as functions on its record,      *)
(* checked for every sequence of calls up to a bound.                      *)
(*                                                                         *)
(* A datagram has a length, the size of the allocation that holds it       *)
(* (Unknown when the buffer does not tell), and a flag for what a purge    *)
(* asks about it.  Limits are items, bytes and bytes allocated; Unbounded  *)
(* is usize::MAX.  High-water marks are left out.                          *)
(***************************************************************************)
EXTENDS Integers, Sequences
LOCAL INSTANCE SequencesExt

CONSTANTS Unbounded, DatagramLimits, Datagrams, MaxDatagramCalls

LOCAL Unknown == -1

\* What the counter of allocated bytes adds for a datagram.
LOCAL Charged(d) == IF d.capacity = Unknown THEN 0 ELSE d.capacity

LOCAL Total(seq, Op(_)) == FoldLeft(LAMBDA sum, d : sum + Op(d), 0, seq)
LOCAL Len1(d) == d.len

with_queue_limits(limits) ==
  [queue |-> << >>, bytes |-> 0, allocation |-> 0, max |-> limits]

can_push(q, len, allocation) ==
  /\ Len(q.queue) + 1 <= q.max.items
  /\ q.bytes + len <= q.max.bytes
  /\ q.allocation + allocation <= q.max.allocation

try_push(q, d) ==
  IF d.capacity = Unknown /\ q.max.allocation # Unbounded
    THEN [result |-> "InvalidState", q |-> q]
  ELSE IF ~can_push(q, d.len, Charged(d))
    THEN [result |-> "Done", q |-> q]
  ELSE [result |-> "ok",
        q |-> [q EXCEPT !.queue = Append(@, d), !.bytes = @ + d.len,
                        !.allocation = @ + Charged(d)]]

LOCAL SaturatingSub(a, b) == IF a > b THEN a - b ELSE 0

dgram_pop(q) ==
  IF q.queue = << >> THEN q
  ELSE [q EXCEPT !.queue = Tail(@),
                 !.bytes = SaturatingSub(@, Head(q.queue).len),
                 !.allocation = SaturatingSub(@, Charged(Head(q.queue)))]

try_push_drop_oldest(q, d) ==
  IF d.capacity = Unknown /\ q.max.allocation # Unbounded
    THEN [result |-> "InvalidState", q |-> q]
  ELSE IF Len(q.queue) < q.max.items THEN try_push(q, d)
  ELSE IF \/ q.queue = << >>
          \/ SaturatingSub(q.bytes, Head(q.queue).len) + d.len > q.max.bytes
          \/ SaturatingSub(q.allocation, Charged(Head(q.queue))) + Charged(d)
               > q.max.allocation
    THEN [result |-> "Done", q |-> q]
  ELSE try_push(dgram_pop(q), d)

purge(q) ==
  LET kept == SelectSeq(q.queue, LAMBDA d : ~d.purged)
  IN [q EXCEPT !.queue = kept, !.bytes = Total(kept, Len1),
               !.allocation = Total(kept, Charged)]

can_set_limits(q, limits) ==
  /\ Len(q.queue) <= limits.items
  /\ q.bytes <= limits.bytes
  /\ limits.allocation # Unbounded => \A i \in 1..Len(q.queue) : q.queue[i].capacity # Unknown
  /\ q.allocation <= limits.allocation

set_limits(q, limits) == IF can_set_limits(q, limits) THEN [q EXCEPT !.max = limits] ELSE q

-----------------------------------------------------------------------------
\* The queues that at most k calls lead to.
RECURSIVE QueuesAfter(_)
QueuesAfter(k) ==
  IF k = 0 THEN {with_queue_limits(limits) : limits \in DatagramLimits}
  ELSE LET before == QueuesAfter(k - 1)
       IN before \cup {try_push(q, d).q : q \in before, d \in Datagrams}
                 \cup {try_push_drop_oldest(q, d).q : q \in before, d \in Datagrams}
                 \cup {dgram_pop(q) : q \in before}
                 \cup {purge(q) : q \in before}
                 \cup {set_limits(q, limits) : q \in before, limits \in DatagramLimits}

\* After any calls the counters are the sums over the queue and within the
\* limits, whatever the limits were changed to on the way; the oldest datagram
\* is only given up for one that is then accepted; and a refused one changes
\* nothing.
ASSUME DatagramsAccounted ==
  \A q \in QueuesAfter(MaxDatagramCalls) :
    /\ q.bytes = Total(q.queue, Len1) /\ q.allocation = Total(q.queue, Charged)
    /\ Len(q.queue) <= q.max.items
    /\ q.bytes <= q.max.bytes
    /\ q.allocation <= q.max.allocation
    /\ \A d \in Datagrams :
         LET r == try_push_drop_oldest(q, d)
         IN IF r.result # "ok" THEN r.q = q
            ELSE r.q.queue = Append(IF Len(q.queue) = q.max.items THEN Tail(q.queue)
                                    ELSE q.queue, d)
==============================================================================
