--------------------------- MODULE MCHeaderAccess ---------------------------
(***************************************************************************)
(* Constants for the run of HeaderAccess: a byte has 32 values, so that    *)
(* the smallest headers of every level still fit their length fields.      *)
(***************************************************************************)
EXTENDS HeaderAccess

(* Streams that are empty, end in the header, and are longer than 2^32. *)
MCEofs == {0, 30, U32 + 20}

(* 32 and 64 bits. *)
MCUsizeModuli == {U32, U32 * B}

MCSizes == {9, U32 - 1}

(* No length at all, the base header alone, and with an extra header. *)
MCLongLens == {0, 32, 40}

(* Too short; 3 (in level 3: 5) is for an identifier alone, 4 to 8 are     *)
(* for texts, 19 is for the sizes and 27 for the dates; then a length      *)
(* whose lowest two bytes are 0, and two that make sums wrap around.       *)
MCExtraLens == {0, 2, 3, 4, 5, 6, 8, 19, 27, U16, U32 - 32, U32 - 10}

MCExtraShapes ==
  ({"common"} \X {3, 4, 5, 6})
  \cup ({"filename"} \X {5, 8}) \cup ({"path"} \X {6, 8}) \cup ({"comment"} \X {3, 4, 6})
  \cup {<<"attrs", 5>>, <<"unix_time", 8>>, <<"msdos_time", 27>>,
        <<"msdos_size", 19>>, <<"other", U16>>, <<"other", U32 - 32>>, <<"other", U32 - 10>>}

(* Texts in which the parts of a path, and names and comments, meet. *)
MCTexts ==
  {<<>>, <<".">>, <<"nil">>, <<".", ".">>, <<"nil", "a">>, <<"a", "ff">>,
   <<".", ".", "/">>, <<"a", "/", "a">>, <<".", "\\", "a">>, <<"nil", "nil", "a">>,
   <<"a", "/", ".", ".", "ff">>, <<"a", "nil", "a", "/", ".">>}

(* The epoch is 35 ticks; before and after it, between seconds and on      *)
(* them, and one that is no i64.                                           *)
MCFiletimes == {0, 5, 31, 36, 47, 1000}

(* 31 December 1999 23:59:58, 29 February 2100, second 62. *)
MCMsdosTimes == {<<10143, 49021>>, <<61533, 0>>, <<10143, 31>>}
=============================================================================
