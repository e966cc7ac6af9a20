--------------------------- MODULE MCBoundedQueue ---------------------------
(***************************************************************************)
(* The instance of BoundedQueue that TLC checks, with the queue of         *)
(* datagrams, which is another one with limits on items and bytes.         *)
(***************************************************************************)
EXTENDS BoundedQueue, DatagramQueue, TLC

CONSTANTS s1, s2, s3

\* Limits on the items, on the bytes and on the allocation that are each
\* reached first by some datagrams, with and without a finite allocation.
MCDatagramLimits ==
  {[items |-> 2, bytes |-> 3, allocation |-> Unbounded],
   [items |-> 3, bytes |-> 2, allocation |-> 4],
   [items |-> 2, bytes |-> 4, allocation |-> 3]}

MCDatagrams ==
  {d \in [len : 0..2, capacity : -1..3, purged : BOOLEAN] :
     d.capacity = -1 \/ d.capacity \in d.len..(d.len + 1)}
=============================================================================
