--------------------------- MODULE MCRecvStreams ---------------------------
(***************************************************************************)
(* Instances of RecvStreams for TLC.  Offsets run to MaxSize; every frame  *)
(* within it is offered, so frames overlap, repeat, leave gaps, change the *)
(* final size or exceed a limit.                                           *)
(***************************************************************************)
EXTENDS RecvStreams, TLC

CONSTANTS MaxSize, MaxLen, Codes

MCDataFrames ==
  {f \in [off : 0..MaxSize, len : 0..MaxLen, fin : BOOLEAN] : MaxOff(f) <= MaxSize}

MCResetFrames ==
  {q \in [at : BOOLEAN, error_code : Codes, final_size : 0..MaxSize,
          reliable_size : 0..MaxSize] : ~q.at => q.reliable_size = 0}

\* For the instance with two streams: a reset at once, one that keeps a prefix,
\* and one whose sizes contradict each other.
MCFewResets ==
  {q \in MCResetFrames : \/ q.final_size = MaxSize /\ q.reliable_size \in {0, 1}
                         \/ q.final_size = 1 /\ q.reliable_size = MaxSize}

StreamSymmetry == Permutations(Streams)
=============================================================================
