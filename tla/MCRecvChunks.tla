---------------------------- MODULE MCRecvChunks ----------------------------
(* RecvChunks for TLC: every frame within MaxSize bytes, so a range may cut *)
(* across up to three buffered chunks and the gaps between them.           *)
EXTENDS RecvChunks

CONSTANTS MaxSize, Codes

MCDataFrames ==
  {f \in [off : 0..MaxSize, len : 0..MaxSize, fin : BOOLEAN] : MaxOff(f) <= MaxSize}

MCResetFrames ==
  {q \in [at : {TRUE}, error_code : Codes, final_size : 0..MaxSize,
          reliable_size : 0..MaxSize] : q.reliable_size <= q.final_size}
=============================================================================
