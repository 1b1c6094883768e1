---------------------------- MODULE MCLz5Decoder ----------------------------
(* Constants for the run of Lz5Decoder: a window of 4 bytes. *)
EXTENDS Lz5Decoder

MCFill == [i \in Index |-> IF i = 1 THEN 1 ELSE 0]
MCStartPos == -3
=============================================================================
