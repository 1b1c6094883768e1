---------------------------- MODULE ArchiveReader ----------------------------
(***************************************************************************)
(* LhaDecodeReader of src/decode.rs over the Take reader of                *)
(* src/stub_io.rs: the session that opens an archive stream, reads the     *)
(* current file, skips what is left of it and finds the next header.       *)
(*                                                                         *)
(* A stream is a tape: Content[s][p] says what LhaHeader::read meets when  *)
(* it starts at byte p of stream s.  Every byte has an answer, those in    *)
(* the middle of some file's data too, because a session that loses its    *)
(* place will ask for a header there.  What the decoders make of the       *)
(* compressed data is a nondeterministic choice (LzDecoder models it): a   *)
(* decoded byte is its number in the decoded file.                         *)
(*                                                                         *)
(* The auxiliary variables are last (the operation that just returned),    *)
(* delivered (the bytes of the current file that the caller received) and  *)
(* clean (no read of the current file failed); and in the decoder, end     *)
(* (where the file's data ends) and slip (the bytes that failed reads took *)
(* from the stream and not off the limit).                                 *)
(***************************************************************************)
EXTENDS Integers, Sequences

CONSTANTS
  Sources,       \* the streams a caller has
  NoSource,      \* not a stream
  Eof,           \* Eof[s]: the length of stream s
  Content,       \* Content[s][p]: an Item
  BufLens,       \* the lengths of the buffers passed to read
  UsizeModulus,  \* 2^w for the w-bit usize of the target
  IoErrors       \* whether reading a stream can fail with an I/O error

DecoderKinds == {"passthrough", "compressed", "unsupported"}

(* What a header reader can meet: the end marker, bytes that are no header *)
(* and headers of files, with their sizes.                                 *)
Item == [kind: DecoderKinds \cup {"marker", "garbage"},
         hlen: Nat \ {0}, csize: Nat, osize: Nat]

ASSUME NoSourceAssumption == NoSource \notin Sources
ASSUME EofAssumption     == Eof \in [Sources -> Nat]
ASSUME ContentAssumption ==
  \A s \in Sources : Content[s] \in [0..Eof[s]-1 -> Item]
ASSUME BufLensAssumption == BufLens \subseteq Nat
ASSUME UsizeAssumption   == UsizeModulus \in Nat \ {0}
ASSUME IoErrorsAssumption == IoErrors \in BOOLEAN

VARIABLES
  pos,            \* pos[s]: how much of stream s has been consumed
  owner,          \* owner[s]: "caller", "reader", or "dropped"
  header,         \* the last parsed header: [osize, start]
  crc,            \* the bytes digested since the last reset
  output_length,  \* the bytes of the current file read so far
  decoder,        \* NoDecoder or [kind, src, limit, produced, end, slip]
  last, delivered, clean

vars == <<pos, owner, header, crc, output_length, decoder, last, delivered, clean>>
file == <<header, crc, output_length, delivered, clean>>

NoDecoder == [kind |-> "none", src |-> NoSource, limit |-> 0, produced |-> 0, end |-> 0, slip |-> 0]
PhonyHeader == [osize |-> 0, start |-> 0]

Smaller(a, b) == IF a < b THEN a ELSE b

-----------------------------------------------------------------------------
(* LhaDecodeReader::default: no stream and a phony header. *)
Init ==
  /\ pos = [s \in Sources |-> 0]
  /\ owner = [s \in Sources |-> "caller"]
  /\ header = PhonyHeader
  /\ crc = <<>> /\ output_length = 0 /\ decoder = NoDecoder
  /\ last = [op |-> "default", res |-> "ok", src |-> NoSource, at |-> 0, due |-> 0,
             slip |-> 0, want |-> 0, len |-> 0]
  /\ delivered = <<>> /\ clean = TRUE

(* An operation that looked for a header at byte `at`, where `due` is the  *)
(* byte at which the previous file's data, read with this slip, ends.      *)
Sought(op, res, s, at, due, slip) ==
  [op |-> op, res |-> res, src |-> s, at |-> at, due |-> due, slip |-> slip,
   want |-> 0, len |-> 0]

(* LhaHeader::read from byte p of stream s: the outcomes.  The end marker  *)
(* and the end of the stream are Ok(None).  A header can be rejected at    *)
(* any place up to its end; a read of it fails before its end.             *)
NoItem == [kind |-> "garbage", hlen |-> 1, csize |-> 0, osize |-> 0]
ItemAt(s, p) == IF p < Eof[s] THEN Content[s][p] ELSE NoItem

Parsed(res, q, item) == [res |-> res, pos |-> q, item |-> item]

LhaHeaderRead(s, p) ==
  LET item == ItemAt(s, p)
      stop == Smaller(p + item.hlen, Eof[s])
      Rejected == {Parsed("err", q, NoItem) : q \in p..stop}
      ReadFails == {Parsed("err", q, NoItem) : q \in p..Smaller(p + item.hlen - 1, Eof[s])}
  IN (IF p >= Eof[s]
      THEN {Parsed("none", p, NoItem)}
      ELSE IF item.kind = "marker"
      THEN {Parsed("none", p + 1, NoItem)}
      ELSE IF item.kind = "garbage" \/ p + item.hlen > Eof[s]
      THEN Rejected
      ELSE {Parsed("some", stop, item)})
     \cup (IF IoErrors THEN ReadFails ELSE {})

(* The stream limited to the wrong size. *)
NewFromHeaderOriginalSize(s, item, p) ==
  [kind |-> item.kind, src |-> s, limit |-> item.osize, produced |-> 0,
   end |-> p + item.csize, slip |-> 0]

(* DecoderAny::new_from_header: the stream limited to the compressed size. *)
NewFromHeader(s, item, p) ==
  [kind |-> item.kind, src |-> s, limit |-> item.csize, produced |-> 0,
   end |-> p + item.csize, slip |-> 0]

(* UnsupportedDecoder::new(rd.take(0)) *)
NoMoreFiles(s, p) ==
  [kind |-> "unsupported", src |-> s, limit |-> 0, produced |-> 0, end |-> p, slip |-> 0]

(* The reader takes stream s and drops the one it had. *)
TakeOver(s, old) ==
  [x \in Sources |-> IF x = s THEN "reader"
                     ELSE IF x = old.src THEN "dropped"
                     ELSE owner[x]]

(* A new file that goes on with the checksum and length of the old one. *)
ResetFileForgets ==
  UNCHANGED <<crc, output_length>> /\ delivered' = <<>> /\ clean' = TRUE

(* self.crc.reset(); self.output_length = 0 *)
ResetFile ==
  crc' = <<>> /\ output_length' = 0 /\ delivered' = <<>> /\ clean' = TRUE

(* A stream that is not handed back. *)
ReturnStreamNot(s) == UNCHANGED owner

(* wrap_err, take_inner: the caller gets the stream back. *)
ReturnStream(s) == owner' = [owner EXCEPT ![s] = "caller"]

(* A parsed header and its decoder replace the session's. *)
Install(s, o, from) ==
  /\ decoder' = NewFromHeader(s, o.item, o.pos)
  /\ header' = [osize |-> o.item.osize, start |-> from]
  /\ ResetFile

(* The body of begin_new on stream s at byte `from`, with `old` in the     *)
(* decoder field: a failure changes nothing but the stream, which goes     *)
(* back to the caller inside the error; Ok(None) leaves the old header.    *)
BeginNewFrom(s, from, old, op, due, slip) ==
  \E o \in LhaHeaderRead(s, from) :
    /\ pos' = [pos EXCEPT ![s] = o.pos]
    /\ last' = Sought(op, o.res, s, from, due, slip)
    /\ \/ /\ o.res = "some"
          /\ Install(s, o, from)
          /\ owner' = TakeOver(s, old)
       \/ /\ o.res = "none"
          /\ decoder' = NoMoreFiles(s, o.pos)
          /\ ResetFile /\ UNCHANGED header
          /\ owner' = TakeOver(s, old)
       \/ /\ o.res = "err"
          /\ decoder' = old
          /\ ReturnStream(s)
          /\ UNCHANGED file

(* new(s), by a caller without a reader or with an empty one.  Unlike      *)
(* begin_new it takes an archive without a header for an error.            *)
New(s) ==
  /\ owner[s] = "caller" /\ decoder = NoDecoder
  /\ \E o \in LhaHeaderRead(s, pos[s]) :
       /\ pos' = [pos EXCEPT ![s] = o.pos]
       /\ \/ /\ o.res = "some"
             /\ Install(s, o, pos[s])
             /\ owner' = TakeOver(s, decoder)
             /\ last' = Sought("new", "some", s, pos[s], pos[s], 0)
          \/ /\ o.res # "some"
             /\ last' = Sought("new", "err", s, pos[s], pos[s], 0)
             /\ UNCHANGED <<decoder, owner>> /\ UNCHANGED file

(* begin_new(s) *)
BeginNew(s) ==
  /\ owner[s] = "caller"
  /\ BeginNewFrom(s, pos[s], decoder, "begin_new", pos[s], 0)

(* begin_with_header_and_decoder, the caller having parsed a header of     *)
(* stream s and built its decoder with new_from_header.                    *)
BeginWithHeaderAndDecoder(s) ==
  /\ owner[s] = "caller"
  /\ \E o \in LhaHeaderRead(s, pos[s]) :
       /\ o.res = "some"
       /\ pos' = [pos EXCEPT ![s] = o.pos]
       /\ Install(s, o, pos[s])
       /\ owner' = TakeOver(s, decoder)
       /\ last' = Sought("begin_with", o.res, s, pos[s], pos[s], 0)

-----------------------------------------------------------------------------
(* A skip that leaves one byte of the file's data behind. *)
DiscardToEndShort(s, p, limit) ==
  IF p + limit <= Eof[s] /\ limit > 1 THEN p + limit - 1 ELSE Smaller(p + limit, Eof[s])

(* A skip by seeking, which can leave the stream past its end. *)
DiscardToEndSeeks(s, p, limit) == p + limit

(* discard_to_end on a Take with this limit at byte p of a stream: where   *)
(* the stream ends up.                                                     *)
DiscardToEnd(s, p, limit) == Smaller(p + limit, Eof[s])

(* next_file: the decoder is taken, the rest of its data is discarded and  *)
(* begin_new looks for a header.  Panics without a decoder.                *)
NextFile ==
  /\ decoder # NoDecoder
  /\ BeginNewFrom(decoder.src,
                  DiscardToEnd(decoder.src, pos[decoder.src], decoder.limit),
                  NoDecoder, "next_file", decoder.end, decoder.slip)

(* next_file, the discarding failing before the limit is reached. *)
NextFileDiscardFails ==
  /\ IoErrors /\ decoder # NoDecoder /\ decoder.limit > 0
  /\ \E q \in pos[decoder.src]..DiscardToEnd(decoder.src, pos[decoder.src], decoder.limit - 1) :
       /\ pos' = [pos EXCEPT ![decoder.src] = q]
       /\ last' = Sought("discard", "err", decoder.src, q, decoder.end, decoder.slip)
  /\ decoder' = NoDecoder
  /\ ReturnStream(decoder.src)
  /\ UNCHANGED file

(* take_inner: the stream, if there is one, is returned and the header's   *)
(* size is cleared.                                                        *)
TakeInner ==
  /\ \/ decoder # NoDecoder /\ ReturnStream(decoder.src)
     \/ decoder = NoDecoder /\ UNCHANGED owner
  /\ decoder' = NoDecoder
  /\ header' = [header EXCEPT !.osize = 0]
  /\ ResetFile
  /\ last' = Sought("take_inner", "ok", decoder.src, 0, 0, 0)
  /\ UNCHANGED pos

(* into_inner: the reader is consumed; the caller goes on with a default   *)
(* one.  Panics without a decoder.                                         *)
IntoInner ==
  /\ decoder # NoDecoder
  /\ ReturnStream(decoder.src)
  /\ decoder' = NoDecoder /\ header' = PhonyHeader
  /\ ResetFile
  /\ last' = Sought("into_inner", "ok", decoder.src, 0, 0, 0)
  /\ UNCHANGED pos

-----------------------------------------------------------------------------
(* fill_buffer with len slots, for a decoder d whose stream is at byte p:  *)
(* the outcomes.  `used` bytes leave the stream, `counted` of them are     *)
(* taken off the limit and `made` bytes are decoded.                       *)
Filled(ok, used, counted, made) ==
  [ok |-> ok, used |-> used, counted |-> counted, made |-> made]

(* PassthroughDecoder: Take::read_exact.  Beyond the limit it fails and    *)
(* reads nothing; if the inner read_exact fails the limit stays as it was. *)
FillPassthrough(d, p, len) ==
  IF len > d.limit
  THEN {Filled(FALSE, 0, 0, 0)}
  ELSE (IF p + len <= Eof[d.src]
        THEN {Filled(TRUE, len, len, len)}
        ELSE {Filled(FALSE, Eof[d.src] - p, 0, Eof[d.src] - p)})
       \cup (IF IoErrors
             THEN {Filled(FALSE, j, 0, j) : j \in 0..Smaller(len - 1, Eof[d.src] - p)}
             ELSE {})

(* A read_exact of two bytes, the copy of lz5, that meets the stream's end *)
(* in the middle takes the byte there is and leaves the limit as it was.   *)
CutShort(d, p, f) ==
  /\ p + f.used = Eof[d.src] /\ d.limit > f.used
  /\ f.used = f.counted + 1

(* The other decoders read their input through Take::read_all, and lz5     *)
(* through Take::read_exact, byte by byte but for its copies.  Both take   *)
(* off the limit what they return, not what a failed read consumed.        *)
FillCompressed(d, p, len) ==
  LET avail == Smaller(d.limit, Eof[d.src] - p)
  IN {f \in [ok: BOOLEAN, used: 0..avail, counted: 0..avail, made: 0..len] :
        /\ f.ok <=> f.made = len
        /\ \/ f.counted = f.used
           \/ ~f.ok /\ f.counted < f.used /\ (IoErrors \/ CutShort(d, p, f))
        /\ len = 0 => f.used = 0}

FillBuffer(d, p, len) ==
  IF d.kind = "passthrough" THEN FillPassthrough(d, p, len)
  ELSE IF d.kind = "compressed" THEN FillCompressed(d, p, len)
  ELSE {Filled(FALSE, 0, 0, 0)}

(* The decoded bytes numbered from..from+len-1; all numbers past the end   *)
(* of the file stand for bytes that do not belong to it.                   *)
Bytes(from, len) == [i \in 1..len |-> Smaller(from + i - 1, header.osize)]

(* buf.len().min((original_size - output_length) as usize) *)
ReadLen(n) == Smaller(n, (header.osize - output_length) % UsizeModulus)

(* Progress that is counted and digested when the call failed, too. *)
AccountFailed(f, len) ==
  /\ output_length' = output_length + f.made
  /\ crc' = crc \o Bytes(decoder.produced, f.made)
  /\ IF f.ok
     THEN delivered' = delivered \o Bytes(decoder.produced, len) /\ UNCHANGED clean
     ELSE clean' = FALSE /\ UNCHANGED delivered

(* Progress that is digested but not counted. *)
AccountStalls(f, len) ==
  /\ UNCHANGED output_length
  /\ IF f.ok
     THEN /\ crc' = Bytes(decoder.produced, len)
          /\ delivered' = Bytes(decoder.produced, len)
          /\ UNCHANGED clean
     ELSE clean' = FALSE /\ UNCHANGED <<crc, delivered>>

(* The rest of read: `?` returns the error before anything is counted. *)
Account(f, len) ==
  IF f.ok
  THEN /\ output_length' = output_length + len
       /\ crc' = crc \o Bytes(decoder.produced, len)
       /\ delivered' = delivered \o Bytes(decoder.produced, len)
       /\ UNCHANGED clean
  ELSE clean' = FALSE /\ UNCHANGED <<output_length, crc, delivered>>

(* read(buf) with a buffer of n bytes.  Panics without a decoder. *)
Read(n) ==
  /\ decoder # NoDecoder
  /\ \E f \in FillBuffer(decoder, pos[decoder.src], ReadLen(n)) :
       /\ pos' = [pos EXCEPT ![decoder.src] = @ + f.used]
       /\ decoder' = [decoder EXCEPT !.limit = @ - f.counted,
                                     !.slip = @ + f.used - f.counted,
                                     !.produced = Smaller(@ + f.made, header.osize)]
       /\ last' = [Sought("read", IF f.ok THEN "ok" ELSE "err", decoder.src, 0, 0, 0)
                     EXCEPT !.want = n, !.len = ReadLen(n)]
       /\ Account(f, ReadLen(n))
  /\ UNCHANGED <<owner, header>>

Next ==
  \/ \E s \in Sources : New(s) \/ BeginNew(s) \/ BeginWithHeaderAndDecoder(s)
  \/ NextFile
  \/ NextFileDiscardFails
  \/ TakeInner
  \/ IntoInner
  \/ \E n \in BufLens : Read(n)

Spec == Init /\ [][Next]_vars

-----------------------------------------------------------------------------
Decoders == [kind: DecoderKinds, src: Sources, limit: Nat, produced: Nat, end: Nat, slip: Nat]

TypeOK ==
  /\ pos \in [Sources -> Nat] /\ \A s \in Sources : pos[s] <= Eof[s]
  /\ owner \in [Sources -> {"caller", "reader", "dropped"}]
  /\ header \in [osize: Nat, start: Nat]
  /\ crc \in Seq(Nat) /\ output_length \in Nat
  /\ decoder \in Decoders \cup {NoDecoder}
  /\ delivered \in Seq(Nat) /\ clean \in BOOLEAN

(* Every stream is where the API says: in the reader exactly when the      *)
(* decoder reads from it, and back with the caller when an operation that  *)
(* received it failed (decode.rs, begin_new, next_file, wrap_err).         *)
StreamAccounting ==
  /\ \A s \in Sources : owner[s] = "reader" <=> decoder.src = s
  /\ last.op \in {"new", "begin_new", "next_file", "discard"} /\ last.res = "err"
       => owner[last.src] = "caller"

(* The Take limit is what is left of the current file's data: the stream   *)
(* position plus the limit is the end of the data, but for the bytes that  *)
(* failed reads took from the stream without taking them off the limit.    *)
LimitReachesDataEnd ==
  decoder # NoDecoder => pos[decoder.src] + decoder.limit = decoder.end + decoder.slip

(* next_file looks for a header where the current file's data ends,        *)
(* however much of it was read: never inside the data, and past its end    *)
(* only by what failed reads of that file took from the stream.            *)
NextFilePassesData ==
  last.op = "next_file" => last.at = Smaller(last.due + last.slip, Eof[last.src])

(* next_file looks for the next header exactly where the current file's    *)
(* data ends, failed reads or not: "The remaining content of the previous  *)
(* file is being skipped" (decode.rs, next_file).                          *)
NextFileLandsOnHeader ==
  last.op = "next_file" => last.at = Smaller(last.due, Eof[last.src])

(* len() never underflows: no more bytes are counted than the file has,    *)
(* whatever sequence of files, failures and takes led here.                *)
LenNeverUnderflows == output_length <= header.osize

(* A caller that read a file to its end and sees the checksum match has    *)
(* received exactly the file, bytes lost in failed reads included.         *)
Complete == [i \in 1..header.osize |-> i - 1]
CrcIsOk  == crc = Complete
VerifiedIsDelivered ==
  output_length = header.osize /\ CrcIsOk => delivered = Complete

(* Conversely, a file read to its end without a failed read verifies: the  *)
(* checksum was reset when the file was begun and saw every byte once.     *)
CleanReadVerifies ==
  decoder # NoDecoder /\ clean /\ output_length = header.osize => CrcIsOk

(* read answers Ok(0) to a caller with room only at the end of the file.   *)
ZeroMeansEndOfFile ==
  last.op = "read" /\ last.res = "ok" /\ last.want > 0 /\ last.len = 0
    => output_length = header.osize
=============================================================================
