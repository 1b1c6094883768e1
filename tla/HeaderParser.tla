---------------------------- MODULE HeaderParser ----------------------------
(***************************************************************************)
(* LhaHeader::read of src/header/parser.rs: the headers of levels 0 to 3   *)
(* with their many lengths.  The bytes of a header are chosen when they    *)
(* are read; those the parser does not look at (names, dates, contents of  *)
(* extra headers) are left out, their number is kept.  Lengths in bytes    *)
(* are the real ones; the values a byte can have are a parameter.          *)
(*                                                                         *)
(* The Wrapping sum and the CRC-16 are replaced by how many bytes went     *)
(* into them; whether a checksum matches is a nondeterministic choice.     *)
(* pos and the field `at` of extra headers, positions in the stream, are   *)
(* auxiliary: the parser itself only has len.                              *)
(***************************************************************************)
EXTENDS Integers, Sequences

CONSTANTS
  B,             \* how many values a byte has (256)
  Eofs,          \* the lengths of the streams
  UsizeModuli,   \* 2^w for the targets' w-bit usize
  FirstBytes,    \* the values of the first byte
  Csums,         \* the values of the second byte
  FilenameLens,  \* the lengths of the name in headers of level 0 and 1
  OsTypes,       \* the systems an archive can name
  Sizes,         \* the values of the sizes in the header
  LongLens,      \* the lengths of whole level 3 headers
  ExtraLens,     \* the lengths of extra headers
  ExtraShapes,   \* the <<identifier, length>> an extra header can have
  MaxExtras      \* bound: so many extra headers, then only the end of them

U16 == B * B
U32 == U16 * U16

Identifiers == {"common", "filename", "path", "comment", "attrs", "msdos_time",
                "msdos_size", "unix_time", "other"}

(* A length of 32 bits can exceed the fields that every header has. *)
ASSUME ByteAssumption == B \in Nat /\ B >= 3
ASSUME StreamAssumption == Eofs \subseteq Nat /\ UsizeModuli \subseteq {U32, U32 * B}
ASSUME FieldAssumption ==
  /\ FirstBytes \subseteq 0..(B - 1) /\ Csums \subseteq 0..(B - 1) /\ 0 \in Csums
  /\ FilenameLens \subseteq 0..(B - 1)
  /\ Sizes \subseteq 0..(U32 - 1) /\ LongLens \subseteq 0..(U32 - 1)
  /\ ExtraLens \subseteq 0..(U32 - 1) /\ 0 \in ExtraLens
ASSUME ShapesAssumption == ExtraShapes \subseteq Identifiers \X Nat
ASSUME OsAssumption == "generic" \in OsTypes
ASSUME MaxExtrasAssumption == MaxExtras \in Nat

VARIABLES
  pc,          \* where read is; "none", "some" and "err" are its results
  pos,         \* the bytes taken from the stream
  eof, usize,  \* the stream's length and the target, fixed
  parser,      \* [len, crc, csum]: bytes counted, digested and summed
  cleared,     \* which of the digested bytes were cleared before
  head,        \* the fields of the header
  extras,      \* the extra headers read: [id, at, len, next]
  extra,       \* extra_header_len, the length of the next one
  header_crc   \* whether a CRC-16 was found

target == <<eof, usize>>
vars   == <<pc, pos, eof, usize, parser, cleared, head, extras, extra, header_crc>>
loop   == <<cleared, extras, extra, header_crc>>

Results == {"none", "some", "err"}

Smaller(a, b) == IF a < b THEN a ELSE b

NoHeader == [header_len |-> 0, csum |-> 0, level |-> 0, filename |-> 0, extended |-> 0,
             os |-> "generic", long |-> 0, first |-> 0, skip |-> 0, compressed |-> 0,
             sizes |-> "base", attrs |-> "base"]

NewParser == [len |-> 0, crc |-> 0, csum |-> 0]

Init ==
  /\ pc = "first" /\ pos = 0
  /\ eof \in Eofs /\ usize \in UsizeModuli
  /\ parser = NewParser /\ cleared = {} /\ head = NoHeader
  /\ extras = <<>> /\ extra = 0 /\ header_crc = FALSE

-----------------------------------------------------------------------------
(* read_exact and read_limit_no_checksums when they succeed. *)
Take(n) == pos + n <= eof /\ pos' = pos + n

(* Err: what was read so far is dropped, but not put back. *)
Fails(taken) ==
  /\ pos + taken <= eof /\ pos' = pos + taken
  /\ pc' = "err"
  /\ parser' = NewParser /\ cleared' = {} /\ head' = NoHeader
  /\ extras' = <<>> /\ extra' = 0 /\ header_crc' = FALSE
  /\ UNCHANGED target

(* update_checksums_no_wrapping_sum *)
DigestNoSum(p, n) == [p EXCEPT !.len = @ + n, !.crc = @ + n]

(* update_checksums *)
Digest(p, n) == [DigestNoSum(p, n) EXCEPT !.csum = @ + n]

(* parser.csum = Wrapping(0) *)
ResetCsum(p) == [p EXCEPT !.csum = 0]

(* The extra headers' bytes collected so far. *)
ExtrasLen ==
  IF extras = <<>> THEN 0
  ELSE extras[Len(extras)].at + extras[Len(extras)].len - extras[1].at

-----------------------------------------------------------------------------
(* read_u8_or_none: a 0 and the end of the stream are the end of archive. *)
ReadFirstByte ==
  /\ pc = "first"
  /\ \/ pos = eof /\ pc' = "none" /\ UNCHANGED <<pos, parser, head>>
     \/ /\ Take(1)
        /\ parser' = DigestNoSum(parser, 1)
        /\ \E n \in FirstBytes :
             /\ head' = [head EXCEPT !.header_len = n]
             /\ pc' = IF n = 0 THEN "none" ELSE "base"
  /\ UNCHANGED <<loop, target>>

(* The checksum byte, which the sum leaves out, and LhaRawBaseHeader.  The *)
(* value of the byte is only kept where it is part of a length.            *)
ReadBase ==
  /\ pc = "base"
  /\ \/ Fails(20)     \* the level is unknown
     \/ /\ Take(20)
        /\ parser' = Digest(ResetCsum(Digest(parser, 1)), 19)
        /\ \E csum \in Csums, level \in 0..3, size \in Sizes :
             /\ level < 2 => csum = 0
             /\ head' = [head EXCEPT !.csum = csum, !.level = level,
                                     !.skip = size, !.compressed = size]
             /\ pc' = IF level < 2 THEN "filename_len" ELSE "file_crc"
        /\ UNCHANGED <<loop, target>>

(* The name's length, compared with the header's before it is used. *)
ReadFilenameLen ==
  /\ pc = "filename_len"
  /\ \E n \in FilenameLens :
       \/ head.header_len < parser.len + 1 + n /\ Fails(1)
       \/ /\ head.header_len >= parser.len + 1 + n
          /\ Take(1)
          /\ parser' = Digest(parser, 1)
          /\ head' = [head EXCEPT !.filename = n]
          /\ pc' = "filename"
          /\ UNCHANGED <<loop, target>>

ReadFilename ==
  /\ pc = "filename" /\ Take(head.filename)
  /\ parser' = Digest(parser, head.filename)
  /\ pc' = "file_crc"
  /\ UNCHANGED <<head, loop, target>>

(* The file's checksum and, from level 1 on, the system. *)
FileCrcBytes == IF head.level > 0 THEN 3 ELSE 2

ReadFileCrc ==
  /\ pc = "file_crc" /\ Take(FileCrcBytes)
  /\ parser' = Digest(parser, FileCrcBytes)
  /\ \E os \in IF head.level > 0 THEN OsTypes ELSE {"generic"} :
       head' = [head EXCEPT !.os = os]
  /\ pc' = IF head.level < 2 THEN "extended" ELSE "lengths"
  /\ UNCHANGED <<loop, target>>

(* The header_len that a header without an extended area has: it does not  *)
(* count its first two bytes, which in level 1 make up for the length of   *)
(* the first extra header that is still to come.                           *)
MinLen(p) == IF head.level = 0 THEN p.len - 2 ELSE p.len

ExtendedLen == head.header_len - MinLen(parser)

(* The extended area; in level 0 its first byte is the system. *)
ReadExtendedArea ==
  /\ pc = "extended"
  /\ \/ head.header_len < MinLen(parser) /\ Fails(0)
     \/ /\ head.header_len >= MinLen(parser)
        /\ Take(ExtendedLen)
        /\ parser' = Digest(parser, ExtendedLen)
        /\ IF head.level = 0 /\ ExtendedLen # 0
           THEN \E os \in OsTypes :
                  head' = [head EXCEPT !.os = os, !.extended = ExtendedLen - 1]
           ELSE head' = [head EXCEPT !.extended = ExtendedLen]
        /\ pc' = "lengths"
        /\ UNCHANGED <<loop, target>>

LengthBytes == CASE head.level = 0 -> 0
                 [] head.level \in {1, 2} -> 2
                 [] head.level = 3 -> 8

(* The values of the field with the length of the next extra header. *)
NextLens(level) ==
  LET limit == IF level = 3 THEN U32 ELSE U16
  IN IF Len(extras) < MaxExtras THEN {n \in ExtraLens : n < limit} ELSE {0}

LongLen ==
  CASE head.level < 2 -> {0}
    [] head.level = 2 -> {head.header_len + B * head.csum}
    [] head.level = 3 -> LongLens

(* The lengths of the whole header (levels 2 and 3) and of the first extra *)
(* header.  The first two bytes of a level 3 header are fixed.             *)
ReadLengths ==
  /\ pc = "lengths"
  /\ \/ head.level = 3 /\ (head.header_len # 4 \/ head.csum # 0) /\ Fails(LengthBytes)
     \/ /\ head.level = 3 => head.header_len = 4 /\ head.csum = 0
        /\ Take(LengthBytes)
        /\ parser' = Digest(parser, LengthBytes)
        /\ \E first \in IF head.level = 0 THEN {0} ELSE NextLens(head.level), long \in LongLen :
             head' = [head EXCEPT !.first = first, !.long = long]
        /\ pc' = "check"
        /\ UNCHANGED <<loop, target>>

(* The checksum of levels 0 and 1 may match or not.  The u32 addition of   *)
(* levels 2 and 3 wraps around.                                            *)
CheckBase ==
  /\ pc = "check"
  /\ \/ head.level < 2 /\ Fails(0)
     \/ head.level >= 2 /\ head.long < (parser.len + head.first) % U32 /\ Fails(0)
     \/ /\ head.level >= 2 => head.long >= (parser.len + head.first) % U32
        /\ pc' = "extra"
        /\ extra' = head.first
        /\ UNCHANGED <<pos, parser, head, cleared, extras, header_crc, target>>

-----------------------------------------------------------------------------
(* One turn of the loop over the extra headers, whose length is checked    *)
(* with a usize that may wrap around: against the whole header's length    *)
(* or, in level 1, against the size that includes the extra headers.       *)
InExtra == pc = "extra" /\ extra # 0

MinExtraLen == IF head.level = 3 THEN 5 ELSE 3

LengthAccepted ==
  /\ extra >= MinExtraLen
  /\ IF head.long # 0
     THEN head.long >= (parser.len + extra - 2) % usize
     ELSE head.compressed >= (ExtrasLen + extra) % usize

(* A buffer of any size is granted. *)
MayAllocateAny(n) == TRUE

(* No buffer is larger than isize::MAX. *)
MayAllocate(n) == n < usize \div 2

(* A length that is not accepted, or no memory for the extra header. *)
RejectExtra == InExtra /\ Fails(0)

(* The bytes of the length field, its lowest, that lie within the two      *)
(* bytes after the identifier.                                             *)
CrcOverlap(len) ==
  LET data == len - 1 - (IF head.level = 3 THEN 4 ELSE 2)
  IN IF data < 2 THEN 2 - data ELSE 0

(* The length field of an extra header as it is stored.  Clearing the      *)
(* CRC-16 of a common header that is too short clears bytes of it.         *)
StoredNext(id, len, field) ==
  LET low == CASE CrcOverlap(len) = 0 -> 1
               [] CrcOverlap(len) = 1 -> B
               [] CrcOverlap(len) = 2 -> U16
  IN IF id = "common" THEN field - (field % low) ELSE field

(* The length read before the CRC-16 is cleared. *)
NextLengthEarly(id, len, field) == field

(* The length of the next extra header, read from what is stored. *)
NextLength(id, len, field) == StoredNext(id, len, field)

(* A CRC-16 that is cleared after it has gone into the checksum. *)
ClearedCrcLate(id) == {}

(* Which of the bytes to be digested the clearing of the CRC-16 changes. *)
ClearedCrc(id) == IF id = "common" THEN {parser.crc + 1, parser.crc + 2} ELSE {}

(* An extra header is read, looked at, and digested with its CRC-16        *)
(* cleared.  The sizes only count from level 2 on, and if the header and   *)
(* the length field that follows it have 16 bytes.                         *)
ReadExtra ==
  /\ InExtra /\ LengthAccepted /\ MayAllocate(ExtrasLen + extra)
  /\ \E id \in Identifiers, field \in NextLens(head.level) :
       /\ <<id, extra>> \in ExtraShapes
       /\ \/ id = "common" /\ header_crc /\ Fails(extra)     \* a second one
          \/ /\ id = "common" => ~header_crc
             /\ Take(extra)
             /\ parser' = DigestNoSum(parser, extra)
             /\ cleared' = cleared \cup ClearedCrc(id)
             /\ header_crc' = (header_crc \/ id = "common")
             /\ extras' = Append(extras, [id |-> id, at |-> pos, len |-> extra,
                                          next |-> StoredNext(id, extra, field)])
             /\ extra' = NextLength(id, extra, field)
             /\ IF id = "msdos_size" /\ head.level >= 2 /\ extra - 1 >= 16
                THEN \E size \in Sizes :
                       head' = [head EXCEPT !.compressed = size, !.sizes = "extra"]
                ELSE head' = [head EXCEPT !.attrs = IF id = "attrs" THEN "extra" ELSE @]
             /\ UNCHANGED <<pc, target>>

(* The end of the loop: the length of the whole header.  Level 2 may have  *)
(* a byte of padding, or a length that leaves out its own two bytes.       *)
EndExtras ==
  /\ pc = "extra" /\ extra = 0
  /\ \/ /\ head.level = 2
        /\ head.long \notin {parser.len - 2, parser.len, parser.len + 1}
        /\ Fails(0)
     \/ /\ head.level = 2 => head.long \in {parser.len - 2, parser.len, parser.len + 1}
        /\ pc' = IF head.level = 2 /\ head.long = parser.len + 1 THEN "padding" ELSE "crc"
        /\ UNCHANGED <<pos, parser, head, loop, target>>

(* The padding byte counts and is digested. *)
Padding(p) == Digest(p, 1)

ReadPadding ==
  /\ pc = "padding" /\ Take(1)
  /\ parser' = Padding(parser)
  /\ pc' = "crc"
  /\ UNCHANGED <<head, loop, target>>

(* The size as it is in the header. *)
DataSizeWhole(skip) == skip

(* Level 1 sizes include the extra headers. *)
DataSize(skip) == IF head.level = 1 THEN skip - ExtrasLen ELSE skip

(* The CRC-16 of the whole header, if it has one, may match or not.  The   *)
(* last comparison, of level 1, can no longer fail.                        *)
CheckCrc ==
  /\ pc = "crc"
  /\ \/ header_crc /\ Fails(0)
     \/ /\ head.level = 1 => ExtrasLen <= head.compressed
        /\ pc' = "some"
        /\ head' = [head EXCEPT !.compressed = DataSize(@)]
        /\ UNCHANGED <<pos, parser, loop, target>>

(* The bytes that the next step reads. *)
Wanted ==
  CASE pc \in {"first", "filename_len", "padding"} -> 1
    [] pc = "base" -> 20
    [] pc = "filename" -> head.filename
    [] pc = "file_crc" -> FileCrcBytes
    [] pc = "extended" -> ExtendedLen
    [] pc = "lengths" -> LengthBytes
    [] InExtra /\ LengthAccepted /\ MayAllocate(ExtrasLen + extra) -> extra
    [] OTHER -> 0

(* A read fails because the stream does, or ends too early; it has taken   *)
(* nothing, or all there is but for the last byte wanted.                  *)
ReadFails ==
  /\ pc \notin Results /\ Wanted > 0
  /\ \E taken \in {0, Smaller(Wanted - 1, eof - pos)} : Fails(taken)

ParserNext ==
  \/ ReadFirstByte
  \/ ReadBase
  \/ ReadFilenameLen
  \/ ReadFilename
  \/ ReadFileCrc
  \/ ReadExtendedArea
  \/ ReadLengths
  \/ CheckBase
  \/ RejectExtra
  \/ ReadExtra
  \/ EndExtras
  \/ ReadPadding
  \/ CheckCrc
  \/ ReadFails

ParserSpec == Init /\ [][ParserNext]_vars

-----------------------------------------------------------------------------
(* A header of level 0, 1 or 2 that is accepted ends where its lengths     *)
(* say, and the file's data where the sizes say.  Levels 0 and 1 do not    *)
(* count their first two bytes, level 1 not the extra headers either,      *)
(* which its size counts: what is left of the size for the data does not   *)
(* underflow.  Level 2 may leave out two bytes.                            *)
EndsWhereLengthsSay ==
  pc = "some" =>
    /\ head.level = 0 => pos = head.header_len + 2
    /\ head.level = 1 => /\ head.compressed \in 0..head.skip
                         /\ pos = head.header_len + 2 + (head.skip - head.compressed)
    /\ head.level = 2 => pos \in {head.long, head.long + 2}

(* A length of the whole header that is not 0 is a limit: although what it *)
(* is compared with may wrap around, and each extra header names the next  *)
(* one's length, no more than two bytes beyond it are ever taken.          *)
LongLengthIsLimit ==
  pc = "some" /\ head.level >= 2 /\ head.long # 0 => pos <= head.long + 2

(* The checksums are taken over what they protect: the sum over all of the *)
(* base header but its first two bytes, the CRC-16 over every byte of the  *)
(* header, with those of the CRC-16 itself cleared and no others.          *)
ChecksumsCoverHeader ==
  /\ pc = "check" /\ head.level < 2 => parser.csum = head.header_len
  /\ pc = "crc" =>
       /\ parser.crc = pos
       /\ cleared = UNION {{extras[i].at + 1, extras[i].at + 2} :
                             i \in {j \in DOMAIN extras : extras[j].id = "common"}}
=============================================================================
