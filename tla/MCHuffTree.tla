------------------------------ MODULE MCHuffTree ------------------------------
(* The tables of code lengths: every short one, and some longer ones that  *)
(* meet the limits of the index range and of the size of a table.          *)
EXTENDS HuffTree

MCLengths ==
  UNION {[1..n -> 0..4] : n \in 0..3}
    \cup [1..4 -> 0..3]
    \cup {f \in [1..5 -> 1..4] : \A i \in 1..4 : f[i] <= f[i+1]}
    \cup {<<1, 9>>, <<1, 1, 255>>, <<1, 2, 3, 4, 5, 5>>, <<3, 1, 3, 3, 3>>, <<2, 2, 2, 3, 3, 0>>, <<6>>,
          <<2, 2, 2, 3, 3, 0, 0, 0>>, <<1, 2, 3, 4, 4, 0, 0, 0, 0>>}
=============================================================================
