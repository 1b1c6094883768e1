---------------------------- MODULE MCLhv2Decoder ----------------------------
(* Constants for the runs of Lhv2Decoder: windows of 2 and 4 bytes. *)
EXTENDS Lhv2Decoder

MCFill == [i \in Index |-> IF i = 1 THEN 1 ELSE 0]
=============================================================================
