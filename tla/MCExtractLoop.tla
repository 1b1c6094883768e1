---------------------------- MODULE MCExtractLoop ----------------------------
(***************************************************************************)
(* Four archives.  Archive a has a stored file shorter than its header     *)
(* says, a compressed, an unsupported and an empty file and an end marker; *)
(* the bytes inside the data look like headers and markers.  Archive b has *)
(* a malformed second header, archives c and d end inside the data of a    *)
(* file, a stored and a compressed one.                                    *)
(***************************************************************************)
EXTENDS ExtractLoop

Header(kind, csize, osize) == [kind |-> kind, hlen |-> 1, csize |-> csize, osize |-> osize]
Marker  == [kind |-> "marker",  hlen |-> 1, csize |-> 0, osize |-> 0]
Garbage == [kind |-> "garbage", hlen |-> 2, csize |-> 0, osize |-> 0]

Tape == [
  a |-> <<Header("passthrough", 2, 3), Marker, Header("passthrough", 0, 1),
          Header("compressed", 3, 4), Garbage, Marker, Header("passthrough", 1, 1),
          Header("unsupported", 2, 1), Marker, Garbage,
          Header("passthrough", 0, 0), Marker, Garbage>>,
  b |-> <<Header("compressed", 1, 3), Garbage, Garbage, Garbage>>,
  c |-> <<Header("compressed", 1, 1), Marker, Header("passthrough", 4, 4), Garbage>>,
  d |-> <<Header("compressed", 1, 1), Marker, Header("compressed", 3, 2), Garbage>>]

MCSources == DOMAIN Tape
MCEof     == [s \in MCSources |-> Len(Tape[s])]
MCContent == [s \in MCSources |-> [p \in 0..Len(Tape[s])-1 |-> Tape[s][p+1]]]
=============================================================================
