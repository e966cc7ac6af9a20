---------------------------- MODULE StreamBasics ----------------------------
(***************************************************************************)
(* What both directions of a stream are described with: byte offsets,      *)
(* ranges of them, and the arithmetic of u64.                              *)
(***************************************************************************)
EXTENDS Integers

\* Option::None where an offset may be absent.
None == -1

\* std::cmp::min and max
Lesser(a, b) == IF a <= b THEN a ELSE b
Greater(a, b) == IF a >= b THEN a ELSE b

\* u64::saturating_sub
SatSub(a, b) == IF a >= b THEN a - b ELSE 0

\* The half-open byte range a..b.
Bytes(a, b) == a..(b - 1)

\* RangeBuf::max_off()
MaxOff(f) == f.off + f.len
=============================================================================
