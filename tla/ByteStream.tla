----------------------------- MODULE ByteStream -----------------------------
(***************************************************************************)
(* What a unidirectional stream promises its two ends.  The writer appends *)
(* bytes and ends the stream, cleanly or with a reset that still delivers  *)
(* a prefix.  The reader gets the bytes in order, each once; it sees a     *)
(* clean end only after all of them, and a reset only after the prefix.    *)
(***************************************************************************)
EXTENDS StreamBasics

VARIABLES
  written,  \* bytes the writer committed
  size,     \* the final size, None while the stream is open
  prefix,   \* of a stream that was reset, the bytes still owed; None before
  taken,    \* bytes the reader got
  outcome   \* of the reader: "open", "fin", "reset", or "stopped" by itself

vars == <<written, size, prefix, taken, outcome>>

Init ==
  /\ written = 0 /\ size = None /\ prefix = None
  /\ taken = 0 /\ outcome = "open"

Append(last) ==
  /\ size = None
  /\ written' \in Nat /\ written' >= written
  /\ size' = IF last THEN written' ELSE None
  /\ UNCHANGED <<prefix, taken, outcome>>

\* A reset may withdraw bytes the reader has not got, and a later one may owe
\* less than the one before.
Abort(final, owed) ==
  /\ taken <= final /\ final <= written /\ owed <= final
  /\ size # None => final = size
  /\ prefix # None => owed <= prefix
  /\ written' = final /\ size' = final /\ prefix' = owed
  /\ UNCHANGED <<taken, outcome>>

Take(n) ==
  /\ outcome = "open"
  /\ taken' = taken + n /\ taken' <= written
  /\ outcome' \in {"open"} \cup (IF taken' = size THEN {"fin"} ELSE {})
  /\ UNCHANGED <<written, size, prefix>>

TakeReset ==
  /\ outcome = "open"
  /\ prefix # None /\ taken >= prefix
  /\ outcome' = "reset"
  /\ UNCHANGED <<written, size, prefix, taken>>

Stop ==
  /\ outcome = "open"
  /\ outcome' = "stopped"
  /\ UNCHANGED <<written, size, prefix, taken>>

Next ==
  \/ \E last \in BOOLEAN : Append(last)
  \/ \E final, owed \in 0..written : Abort(final, owed)
  \/ \E n \in 0..written : Take(n)
  \/ TakeReset
  \/ Stop

Spec == Init /\ [][Next]_vars
=============================================================================
