----------------------------- MODULE MCBitStream -----------------------------
(***************************************************************************)
(* Every stream of up to MaxStream bytes, for TLC.                         *)
(***************************************************************************)
EXTENDS BitStream

CONSTANT MaxStream   \* bound on the bytes of a stream

MCStreams == UNION {[1..ByteBits * n -> {0, 1}] : n \in 0..MaxStream}
=============================================================================
