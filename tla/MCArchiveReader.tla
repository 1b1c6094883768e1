--------------------------- MODULE MCArchiveReader ---------------------------
(***************************************************************************)
(* Archives for the runs of ArchiveReader.  Stream a holds a stored file,  *)
(* an end marker and trailing bytes; stream b a compressed file, a file of *)
(* an unsupported method and data cut off by the end of the stream.        *)
(***************************************************************************)
EXTENDS ArchiveReader

Header(kind, csize, osize) == [kind |-> kind, hlen |-> 1, csize |-> csize, osize |-> osize]
Marker  == [kind |-> "marker",  hlen |-> 1, csize |-> 0, osize |-> 0]
Garbage == [kind |-> "garbage", hlen |-> 2, csize |-> 0, osize |-> 0]

MCSources == {"a", "b"}

Tape == [a |-> <<Header("passthrough", 2, 3), Garbage, Header("compressed", 1, 1),
                 Header("passthrough", 1, 1), Marker, Marker, Garbage>>,
         b |-> <<Header("compressed", 2, 2), Marker, Garbage,
                 Header("unsupported", 1, 1), Garbage,
                 Header("passthrough", 3, 2), Marker>>]

MCEof     == [s \in MCSources |-> Len(Tape[s])]
MCContent == [s \in MCSources |-> [p \in 0..MCEof[s]-1 |-> Tape[s][p+1]]]
=============================================================================
