---------------------------- MODULE HeaderProofs ----------------------------
(***************************************************************************)
(* Proofs about HeaderParser and HeaderAccess, for every range of a byte,  *)
(* every stream, every value of the fields of a header, any number of      *)
(* extra headers and all texts, times and dates in them: where a header    *)
(* ends, what its checksums cover, which extra headers are walked, dates   *)
(* and path names.                                                         *)
(***************************************************************************)
EXTENDS HeaderAccess, SequenceTheorems, WellFoundedInduction, TLAPS

-----------------------------------------------------------------------------
(* The widths of the sums. *)

(* A length of 32 bits exceeds the fixed fields of a header.               *)
LEMMA U32Type == U32 \in Nat /\ U32 >= 81
<1>1. U16 \in Nat /\ U16 >= 9
  <2>1. B \in Nat /\ B >= 3
    BY ByteAssumption
  <2>2. B * B \in Nat /\ B * B >= 9
    BY <2>1
  <2> QED BY <2>2 DEF U16
<1>2. U16 * U16 >= 9 * 9 /\ U16 * U16 \in Nat
  BY <1>1
<1> QED BY <1>2 DEF U32

(* A usize is at least as wide as a length.                                *)
LEMMA UsizeType == \A u \in UsizeModuli : u \in Nat /\ u >= U32
<1> SUFFICES ASSUME NEW u \in {U32, U32 * B}
             PROVE  u \in Nat /\ u >= U32
  BY StreamAssumption
<1>1. U32 * B \in Nat /\ U32 * B >= U32
  BY U32Type, ByteAssumption
<1> QED BY <1>1, U32Type

-----------------------------------------------------------------------------
(* The inductive invariant of the parser. *)

Levels == 0..3

Header ==
  [header_len: Nat, csum: Nat, level: Levels, filename: Nat, extended: Nat,
   os: OsTypes, long: Nat, first: 0..(U32 - 1), skip: Nat, compressed: Int,
   sizes: {"base", "extra"}, attrs: {"base", "extra"}]

ParserState == [len: Nat, crc: Nat, csum: Nat]

ExtraHeader == [id: Identifiers, at: Nat, len: Nat, next: Nat]

Steps == {"first", "base", "filename_len", "filename", "file_crc", "extended",
          "lengths", "check", "extra", "padding", "crc", "answered"}

ParserTypeOK ==
  /\ pc \in Steps \cup Results
  /\ pos \in Nat /\ eof \in Nat /\ pos <= eof /\ usize \in UsizeModuli
  /\ parser \in ParserState
  /\ head \in Header
  /\ extras \in Seq(ExtraHeader) /\ extra \in Nat
  /\ header_crc \in BOOLEAN

(* The parser's own count, and the digest's, is the position in the        *)
(* stream; the sum leaves out the first two bytes.                         *)
CountsAgree ==
  /\ pc # "err" => parser.len = pos /\ parser.crc = pos
  /\ pc \in {"filename_len", "filename", "file_crc", "extended", "lengths", "check"} =>
       parser.csum = pos - 2

(* Where the base header ends. *)
BaseEnd == IF head.level < 2 THEN head.header_len + 2
           ELSE IF head.level = 2 THEN 26 ELSE 32

Accepted == {"some", "answered"}
PastBase == {"extra", "padding", "crc"} \cup Accepted

(* How far the base header has been read, field by field. *)
BaseProgress ==
  /\ pc \in {"first", "base"} => head.level = 0
  /\ pc = "first" => pos = 0
  /\ pc = "base" => pos = 1
  /\ pc = "filename_len" => pos = 21 /\ head.level < 2
  /\ pc = "filename" => pos = 22 /\ head.level < 2
  /\ pc = "file_crc" => pos = IF head.level < 2 THEN 22 + head.filename ELSE 21
  /\ pc = "extended" => head.level < 2
  /\ pc = "lengths" => pos = IF head.level = 1 THEN head.header_len
                             ELSE IF head.level = 0 THEN head.header_len + 2 ELSE 24
  /\ pc = "check" => pos = BaseEnd

(* The extra headers read lie one behind the other, from the end of the    *)
(* base header to the current position (but for a byte of padding), and    *)
(* each names the length of the next one.                                  *)
ExtrasChain ==
  /\ pc \notin PastBase => extras = <<>>
  /\ pc \in PastBase /\ extras = <<>> => extra = head.first
  /\ extras # <<>> => /\ extras[1].at = BaseEnd
                      /\ extras[1].len = head.first
                      /\ extras[Len(extras)].next = extra
  /\ \A i \in 1..Len(extras) : extras[i].len > 0
  /\ \A i \in 1..(Len(extras) - 1) : /\ extras[i+1].at = extras[i].at + extras[i].len
                                     /\ extras[i+1].len = extras[i].next
  /\ ExtrasLen \in Nat
  /\ pc \in PastBase \ {"extra"} => extra = 0
  /\ pc \in {"extra", "padding"} => pos = BaseEnd + ExtrasLen
  /\ pc \in {"crc"} \cup Accepted /\ head.level # 2 => pos = BaseEnd + ExtrasLen

(* What has been established about the lengths that the header gives for   *)
(* itself and for the data.                                                *)
LengthsHold ==
  /\ head.level = 0 => head.first = 0
  /\ pc \notin Accepted => head.compressed >= 0
  /\ head.level < 2 => head.long = 0
  /\ head.level = 1 => head.compressed = IF pc \in Accepted THEN head.skip - ExtrasLen ELSE head.skip
  /\ head.level = 1 => ExtrasLen <= head.skip
  /\ pc = "padding" => head.level = 2 /\ head.long = pos + 1
  /\ pc \in {"crc"} \cup Accepted /\ head.level = 2 => pos \in {head.long, head.long + 2}
  /\ pc \in PastBase /\ head.level = 3 /\ head.long = 0 => head.first + 32 = U32
  /\ pc \in PastBase /\ head.level = 3 /\ head.long # 0 /\ (extra = 0 \/ extras # <<>>) =>
       pos <= head.long + 2

(* The two bytes after the identifiers of the common headers among xs. *)
CrcBytes(xs) ==
  UNION {{xs[i].at + 1, xs[i].at + 2} : i \in {j \in DOMAIN xs : xs[j].id = "common"}}

(* What is cleared are the CRC-16s.                                        *)
ClearedIsCrc == cleared = CrcBytes(extras)

ParserInv ==
  ParserTypeOK /\ CountsAgree /\ BaseProgress /\ ExtrasChain /\ LengthsHold /\ ClearedIsCrc

(* Without extra headers nothing is cleared.                               *)
LEMMA NoCrcBytes == CrcBytes(<<>>) = {}
BY DEF CrcBytes

-----------------------------------------------------------------------------
(* The invariant holds at the beginning and after every error. *)

(* The initial fields of a header are fields of a header.                  *)
LEMMA NoHeaderType ==
  /\ NoHeader \in Header
  /\ NoHeader.level = 0 /\ NoHeader.first = 0 /\ NoHeader.long = 0
  /\ NoHeader.compressed = 0 /\ NoHeader.skip = 0
BY OsAssumption, U32Type DEF NoHeader, Header, Levels

(* Init and errors leave no extra headers behind.                          *)
LEMMA NoExtras == extras = <<>> => ExtrasLen = 0
BY DEF ExtrasLen

(* LhaHeader::read begins with nothing counted.                            *)
LEMMA InitParser == Init => ParserInv
<1> SUFFICES ASSUME Init PROVE ParserInv
  OBVIOUS
<1>1. ParserTypeOK
  <2>1. pos \in Nat /\ eof \in Nat /\ pos <= eof /\ usize \in UsizeModuli
    BY StreamAssumption DEF Init
  <2>2. pc \in Steps \cup Results
    BY DEF Init, Steps
  <2>3. parser \in ParserState /\ head \in Header
    BY NoHeaderType DEF Init, NewParser, ParserState
  <2>4. extras \in Seq(ExtraHeader) /\ extra \in Nat
    BY EmptySeq DEF Init
  <2>5. header_crc \in BOOLEAN
    BY Zenon DEF Init
  <2> QED BY <2>1, <2>2, <2>3, <2>4, <2>5 DEF ParserTypeOK
<1>2. CountsAgree /\ BaseProgress
  BY NoHeaderType DEF Init, CountsAgree, BaseProgress, NewParser
<1>3. ExtrasChain /\ LengthsHold
  BY NoHeaderType, NoExtras DEF Init, ExtrasChain, LengthsHold, PastBase, Accepted
<1>4. ClearedIsCrc
  BY NoCrcBytes DEF Init, ClearedIsCrc
<1> QED BY <1>1, <1>2, <1>3, <1>4 DEF ParserInv

(* An error drops everything that the invariant speaks of.                 *)
LEMMA FailsStep ==
  ASSUME ParserInv, NEW n \in Nat, Fails(n)
  PROVE  ParserInv'
<1>1. ParserTypeOK'
  <2>1. pos' \in Nat /\ pos' <= eof' /\ eof' \in Nat /\ usize' \in UsizeModuli
    BY DEF ParserInv, ParserTypeOK, Fails, target
  <2>2. pc' \in Steps \cup Results
    BY DEF Fails, Results
  <2>3. parser' \in ParserState /\ head' \in Header
    BY NoHeaderType DEF Fails, NewParser, ParserState
  <2>4. extras' \in Seq(ExtraHeader) /\ extra' \in Nat
    BY EmptySeq DEF Fails
  <2>5. header_crc' \in BOOLEAN
    BY Zenon DEF Fails
  <2> QED BY <2>1, <2>2, <2>3, <2>4, <2>5 DEF ParserTypeOK
<1>2. CountsAgree' /\ BaseProgress'
  BY NoHeaderType DEF Fails, CountsAgree, BaseProgress
<1>3. ExtrasChain' /\ LengthsHold'
  <2>1. ExtrasLen' = 0
    BY DEF Fails, ExtrasLen
  <2>2. pc' = "err" /\ extras' = <<>> /\ extra' = 0 /\ head' = NoHeader
    BY DEF Fails
  <2>3. ExtrasChain'
    BY <2>1, <2>2 DEF ExtrasChain, PastBase, Accepted
  <2>4. LengthsHold'
    BY <2>1, <2>2, NoHeaderType DEF LengthsHold, PastBase, Accepted
  <2> QED BY <2>3, <2>4
<1>4. ClearedIsCrc'
  BY NoCrcBytes DEF Fails, ClearedIsCrc
<1> QED BY <1>1, <1>2, <1>3, <1>4 DEF ParserInv

-----------------------------------------------------------------------------
(* The base header. *)

(* What update_checksums and update_checksums_no_wrapping_sum count.       *)
LEMMA DigestCounts ==
  ASSUME NEW p \in ParserState, NEW n \in Nat
  PROVE  /\ Digest(p, n) \in ParserState
         /\ Digest(p, n).len = p.len + n
         /\ Digest(p, n).crc = p.crc + n
         /\ Digest(p, n).csum = p.csum + n
         /\ DigestNoSum(p, n) \in ParserState
         /\ DigestNoSum(p, n).len = p.len + n
         /\ DigestNoSum(p, n).crc = p.crc + n
         /\ DigestNoSum(p, n).csum = p.csum
         /\ ResetCsum(p) \in ParserState
         /\ ResetCsum(p).len = p.len
         /\ ResetCsum(p).crc = p.crc
         /\ ResetCsum(p).csum = 0
<1>1. DigestNoSum(p, n) = [len |-> p.len + n, crc |-> p.crc + n, csum |-> p.csum]
  <2> DEFINE q == [p EXCEPT !.len = p.len + n]
  <2>1. q = [len |-> p.len + n, crc |-> p.crc, csum |-> p.csum]
    BY DEF ParserState
  <2>2. DigestNoSum(p, n) = [q EXCEPT !.crc = p.crc + n]
    BY Zenon DEF DigestNoSum
  <2> HIDE DEF q
  <2> QED BY <2>1, <2>2
<1>2. Digest(p, n) = [len |-> p.len + n, crc |-> p.crc + n, csum |-> p.csum + n]
  BY <1>1 DEF Digest
<1>3. ResetCsum(p) = [len |-> p.len, crc |-> p.crc, csum |-> 0]
  BY DEF ResetCsum, ParserState
<1>4. p.len \in Nat /\ p.crc \in Nat /\ p.csum \in Nat
  BY DEF ParserState
<1> QED BY <1>1, <1>2, <1>3, <1>4 DEF ParserState

WithBase(h, csum, level, size) ==
  [h EXCEPT !.csum = csum, !.level = level, !.skip = size, !.compressed = size]

(* The fields of LhaRawBaseHeader.                                         *)
LEMMA WithBaseFields ==
  ASSUME NEW h \in Header, NEW csum \in Nat, NEW level \in Levels, NEW size \in Nat
  PROVE  LET n == WithBase(h, csum, level, size)
         IN /\ n \in Header /\ n.level = level /\ n.first = h.first /\ n.long = h.long
            /\ n.compressed = size /\ n.skip = size
<1> DEFINE n1 == [h EXCEPT !.csum = csum]
           n2 == [n1 EXCEPT !.level = level]
           n3 == [n2 EXCEPT !.skip = size]
           n4 == [n3 EXCEPT !.compressed = size]
<1>1. n1 \in Header /\ n1.first = h.first /\ n1.long = h.long
  BY DEF Header
<1>2. n2 \in Header /\ n2.first = h.first /\ n2.long = h.long /\ n2.level = level
  <2> HIDE DEF n1
  <2> QED BY <1>1 DEF Header
<1>3. /\ n3 \in Header /\ n3.first = h.first /\ n3.long = h.long /\ n3.level = level
      /\ n3.skip = size
  <2> HIDE DEF n2
  <2> QED BY <1>2 DEF Header
<1>4. /\ n4 \in Header /\ n4.first = h.first /\ n4.long = h.long /\ n4.level = level
      /\ n4.skip = size /\ n4.compressed = size
  <2> HIDE DEF n3
  <2> QED BY <1>3 DEF Header
<1>5. WithBase(h, csum, level, size) = n4
  BY Zenon DEF WithBase
<1> QED BY ONLY <1>4, <1>5, Zenon

(* Before the first extra header only counts, positions and fields change. *)
LEMMA BaseStep ==
  ASSUME ParserInv, UNCHANGED <<loop, target>>,
         pc \notin PastBase, pc' \in (Steps \cup Results) \ PastBase,
         pos' \in Nat, pos' <= eof, parser' \in ParserState, head' \in Header,
         head'.level = 0 => head'.first = 0,
         head'.level < 2 => head'.long = 0,
         head'.level = 1 => head'.compressed = head'.skip,
         head'.compressed >= 0,
         CountsAgree', BaseProgress'
  PROVE  ParserInv'
<1>1. /\ UNCHANGED <<cleared, extras, extra, header_crc, eof, usize>>
      /\ extras = <<>>
  BY DEF loop, target, ParserInv, ExtrasChain
<1>2. ParserTypeOK'
  BY <1>1 DEF ParserInv, ParserTypeOK
<1>3. ExtrasLen' = 0
  BY <1>1 DEF ExtrasLen
<1>4. ExtrasChain'
  BY <1>1, <1>3 DEF ParserInv, ExtrasChain, PastBase, Accepted
<1>5. LengthsHold'
  <2>1. head'.level = 1 => 0 <= head'.skip
    BY DEF Header
  <2> QED BY <1>1, <1>3, <2>1 DEF LengthsHold, PastBase, Accepted
<1>6. ClearedIsCrc'
  BY <1>1 DEF ParserInv, ClearedIsCrc
<1> QED BY <1>2, <1>4, <1>5, <1>6 DEF ParserInv

(* The first byte, or the end of the archive.                              *)
LEMMA ReadFirstByteStep ==
  ASSUME ParserInv, ReadFirstByte
  PROVE  ParserInv'
<1> USE DEF ParserInv, ParserTypeOK
<1>0. /\ pc = "first" /\ pc \notin PastBase /\ pos = 0
      /\ parser.len = 0 /\ parser.crc = 0 /\ head.level = 0
      /\ UNCHANGED <<loop, target>>
  BY DEF ReadFirstByte, BaseProgress, CountsAgree, PastBase, Accepted
<1>1. head.first = 0 /\ head.long = 0 /\ head.compressed >= 0 /\ extras = <<>>
  BY <1>0 DEF LengthsHold, ExtrasChain, Accepted
<1>2. CASE pos = eof /\ pc' = "none" /\ UNCHANGED <<pos, parser, head>>
  <2>1. CountsAgree' /\ BaseProgress'
    BY <1>0, <1>2 DEF CountsAgree, BaseProgress
  <2>2. pc' \in (Steps \cup Results) \ PastBase
    BY <1>2 DEF Results, PastBase, Accepted
  <2> QED BY <1>0, <1>1, <1>2, <2>1, <2>2, BaseStep
<1>3. ASSUME Take(1), parser' = DigestNoSum(parser, 1), NEW n \in FirstBytes,
             head' = [head EXCEPT !.header_len = n],
             pc' = IF n = 0 THEN "none" ELSE "base"
      PROVE  ParserInv'
  <2>1. pos' = 1 /\ pos' <= eof
    BY <1>0, <1>3 DEF Take
  <2>2. parser' \in ParserState /\ parser'.len = 1 /\ parser'.crc = 1
    <3>1. parser \in ParserState /\ 1 \in Nat
      OBVIOUS
    <3>2. parser' \in ParserState /\ parser'.len = parser.len + 1 /\ parser'.crc = parser.crc + 1
      BY ONLY <1>3, <3>1, DigestCounts, Zenon
    <3> QED BY ONLY <1>0, <3>2
  <2>3. n \in Nat
    BY FieldAssumption, ByteAssumption
  <2>4. /\ head' \in Header /\ head'.level = 0 /\ head'.first = 0 /\ head'.long = 0
        /\ head'.compressed >= 0
    BY <1>0, <1>1, <1>3, <2>3 DEF Header
  <2>5. CountsAgree' /\ BaseProgress'
    BY <1>3, <2>1, <2>2, <2>4 DEF CountsAgree, BaseProgress
  <2>6. pc' \in (Steps \cup Results) \ PastBase
    BY <1>3 DEF Steps, Results, PastBase, Accepted
  <2> QED BY <1>0, <2>1, <2>2, <2>4, <2>5, <2>6, BaseStep
<1> QED BY <1>2, <1>3 DEF ReadFirstByte

(* LhaRawBaseHeader and the checksum byte before it.                       *)
LEMMA ReadBaseStep ==
  ASSUME ParserInv, ReadBase
  PROVE  ParserInv'
<1> USE DEF ParserInv, ParserTypeOK
<1>0. /\ pc = "base" /\ pc \notin PastBase /\ pos = 1
      /\ parser.len = 1 /\ parser.crc = 1 /\ head.level = 0
  BY DEF ReadBase, BaseProgress, CountsAgree, PastBase, Accepted
<1>1. head.first = 0 /\ head.long = 0
  BY <1>0 DEF LengthsHold
<1>2. CASE Fails(20)
  BY <1>2, FailsStep
<1>3. ASSUME Take(20), parser' = Digest(ResetCsum(Digest(parser, 1)), 19),
             NEW csum \in Csums, NEW level \in 0..3, NEW size \in Sizes,
             head' = [head EXCEPT !.csum = csum, !.level = level,
                                  !.skip = size, !.compressed = size],
             pc' = IF level < 2 THEN "filename_len" ELSE "file_crc",
             UNCHANGED <<loop, target>>
      PROVE  ParserInv'
  <2>1. pos' = 21 /\ pos' <= eof
    BY <1>0, <1>3 DEF Take
  <2>2. parser' \in ParserState /\ parser'.len = 21 /\ parser'.crc = 21 /\ parser'.csum = 19
    <3> DEFINE p1 == Digest(parser, 1)
               p2 == ResetCsum(p1)
    <3>0. parser \in ParserState /\ 1 \in Nat /\ 19 \in Nat
      OBVIOUS
    <3>1. p1 \in ParserState /\ p1.len = parser.len + 1 /\ p1.crc = parser.crc + 1
      BY ONLY DigestCounts, <3>0, Zenon
    <3> HIDE DEF p1
    <3>2. p2 \in ParserState /\ p2.len = p1.len /\ p2.crc = p1.crc /\ p2.csum = 0
      BY ONLY DigestCounts, <3>0, <3>1, Zenon
    <3> HIDE DEF p2
    <3>3. parser' = Digest(p2, 19)
      BY ONLY <1>3, Zenon DEF p2, p1
    <3>4. /\ parser' \in ParserState /\ parser'.len = p2.len + 19
          /\ parser'.crc = p2.crc + 19 /\ parser'.csum = p2.csum + 19
      BY ONLY DigestCounts, <3>0, <3>2, <3>3, Zenon
    <3> QED BY ONLY <1>0, <3>1, <3>2, <3>4
  <2>3. csum \in Nat /\ size \in Nat /\ level \in Levels
    BY FieldAssumption, ByteAssumption, U32Type DEF Levels
  <2>4. /\ head' \in Header /\ head'.level = level /\ head'.first = 0 /\ head'.long = 0
        /\ head'.compressed = head'.skip /\ head'.compressed >= 0
    <3>1. /\ head \in Header
          /\ head' = WithBase(head, csum, level, size)
      BY <1>3 DEF WithBase
    <3>2. LET n == WithBase(head, csum, level, size)
          IN /\ n \in Header /\ n.level = level /\ n.first = head.first /\ n.long = head.long
             /\ n.compressed = size /\ n.skip = size
      BY ONLY <2>3, <3>1, WithBaseFields, Zenon
    <3> QED BY ONLY <1>1, <2>3, <3>1, <3>2
  <2>5. CountsAgree' /\ BaseProgress'
    BY <1>3, <2>1, <2>2, <2>4 DEF CountsAgree, BaseProgress
  <2>6. pc' \in (Steps \cup Results) \ PastBase
    BY <1>3 DEF Steps, PastBase, Accepted
  <2> QED BY <1>0, <1>3, <2>1, <2>2, <2>4, <2>5, <2>6, BaseStep
<1> QED BY <1>2, <1>3 DEF ReadBase

(* A field that is read and digested moves all the counts.                 *)
LEMMA DigestTake ==
  ASSUME ParserTypeOK, CountsAgree, pc # "err", NEW n \in Nat,
         Take(n), parser' = Digest(parser, n)
  PROVE  /\ pos' \in Nat /\ pos' = pos + n /\ pos' <= eof
         /\ parser' \in ParserState /\ parser'.len = pos' /\ parser'.crc = pos'
         /\ parser'.csum = parser.csum + n
<1>1. parser \in ParserState /\ n \in Nat
  BY DEF ParserTypeOK
<1>2. /\ parser' \in ParserState /\ parser'.len = parser.len + n
      /\ parser'.crc = parser.crc + n /\ parser'.csum = parser.csum + n
  BY ONLY <1>1, DigestCounts, parser' = Digest(parser, n), Zenon
<1>3. pos' \in Nat /\ pos' = pos + n /\ pos' <= eof
  BY DEF Take, ParserTypeOK
<1> QED BY <1>2, <1>3 DEF CountsAgree

(* The length of the name.                                                 *)
LEMMA ReadFilenameLenStep ==
  ASSUME ParserInv, ReadFilenameLen
  PROVE  ParserInv'
<1> USE DEF ParserInv
<1>0. /\ pc = "filename_len" /\ pc \notin PastBase /\ pc # "err" /\ pos = 21
      /\ head.level < 2 /\ parser.csum = pos - 2 /\ head \in Header
  BY DEF ReadFilenameLen, BaseProgress, CountsAgree, PastBase, Accepted, ParserTypeOK
<1>1. /\ head.level = 0 => head.first = 0
      /\ head.long = 0 /\ head.compressed >= 0
      /\ head.level = 1 => head.compressed = head.skip
  BY <1>0 DEF LengthsHold, Accepted
<1>2. CASE Fails(1)
  BY <1>2, FailsStep
<1>3. ASSUME NEW n \in FilenameLens, Take(1), parser' = Digest(parser, 1),
             head' = [head EXCEPT !.filename = n], pc' = "filename",
             UNCHANGED <<loop, target>>
      PROVE  ParserInv'
  <2>1. n \in Nat
    BY FieldAssumption, ByteAssumption
  <2>2. /\ pos' \in Nat /\ pos' = pos + 1 /\ pos' <= eof
        /\ parser' \in ParserState /\ parser'.len = pos' /\ parser'.crc = pos'
        /\ parser'.csum = parser.csum + 1
    BY ONLY <1>0, <1>3, DigestTake, ParserInv, 1 \in Nat DEF ParserInv
  <2>3. /\ head' \in Header /\ head'.level = head.level /\ head'.first = head.first
        /\ head'.long = head.long /\ head'.compressed = head.compressed
        /\ head'.skip = head.skip
    BY <1>0, <1>3, <2>1 DEF Header
  <2>4. CountsAgree' /\ BaseProgress'
    BY <1>0, <1>3, <2>2, <2>3 DEF CountsAgree, BaseProgress
  <2>5. pc' \in (Steps \cup Results) \ PastBase
    BY <1>3 DEF Steps, PastBase, Accepted
  <2> QED BY <1>0, <1>1, <1>3, <2>2, <2>3, <2>4, <2>5, BaseStep
<1> QED BY <1>2, <1>3 DEF ReadFilenameLen

(* The name.                                                               *)
LEMMA ReadFilenameStep ==
  ASSUME ParserInv, ReadFilename
  PROVE  ParserInv'
<1> USE DEF ParserInv
<1>0. /\ pc = "filename" /\ pc \notin PastBase /\ pc # "err" /\ pos = 22
      /\ head.level < 2 /\ parser.csum = pos - 2 /\ head \in Header
  BY DEF ReadFilename, BaseProgress, CountsAgree, PastBase, Accepted, ParserTypeOK
<1>1. /\ head.level = 0 => head.first = 0
      /\ head.long = 0 /\ head.compressed >= 0
      /\ head.level = 1 => head.compressed = head.skip
  BY <1>0 DEF LengthsHold, Accepted
<1>2. /\ pc' = "file_crc" /\ head' = head /\ UNCHANGED <<loop, target>>
  BY DEF ReadFilename
<1>f. head.filename \in Nat /\ head.level \in Int
  BY <1>0 DEF Header, Levels
<1>3. /\ pos' \in Nat /\ pos' = pos + head.filename /\ pos' <= eof
      /\ parser' \in ParserState /\ parser'.len = pos' /\ parser'.crc = pos'
      /\ parser'.csum = parser.csum + head.filename
  BY ONLY <1>0, <1>f, DigestTake, ParserInv, ReadFilename DEF ParserInv, ReadFilename
<1>4. CountsAgree' /\ BaseProgress'
  BY ONLY <1>0, <1>f, <1>2, <1>3 DEF CountsAgree, BaseProgress
<1>5. pc' \in (Steps \cup Results) \ PastBase
  BY <1>2 DEF Steps, PastBase, Accepted
<1> QED BY <1>0, <1>1, <1>2, <1>3, <1>4, <1>5, BaseStep

(* The file's checksum and the system.                                     *)
LEMMA ReadFileCrcStep ==
  ASSUME ParserInv, ReadFileCrc
  PROVE  ParserInv'
<1> USE DEF ParserInv
<1>0. /\ pc = "file_crc" /\ pc \notin PastBase /\ pc # "err"
      /\ pos = IF head.level < 2 THEN 22 + head.filename ELSE 21
      /\ parser.csum = pos - 2 /\ head \in Header
  BY DEF ReadFileCrc, BaseProgress, CountsAgree, PastBase, Accepted, ParserTypeOK
<1>1. /\ head.level = 0 => head.first = 0
      /\ head.level < 2 => head.long = 0
      /\ head.compressed >= 0
      /\ head.level = 1 => head.compressed = head.skip
  BY <1>0 DEF LengthsHold, Accepted
<1>2. FileCrcBytes \in Nat /\ (head.level >= 2 => FileCrcBytes = 3) /\ head.level \in Int
  BY <1>0 DEF FileCrcBytes, Header, Levels
<1>3. /\ pos' \in Nat /\ pos' = pos + FileCrcBytes /\ pos' <= eof
      /\ parser' \in ParserState /\ parser'.len = pos' /\ parser'.crc = pos'
      /\ parser'.csum = parser.csum + FileCrcBytes
  BY ONLY <1>0, <1>2, DigestTake, ParserInv, ReadFileCrc DEF ParserInv, ReadFileCrc
<1>4. PICK os \in OsTypes : head' = [head EXCEPT !.os = os]
  BY OsAssumption DEF ReadFileCrc
<1>5. /\ head' \in Header /\ head'.level = head.level /\ head'.first = head.first
      /\ head'.long = head.long /\ head'.compressed = head.compressed
      /\ head'.skip = head.skip
  BY <1>0, <1>4 DEF Header
<1>6. pc' = (IF head.level < 2 THEN "extended" ELSE "lengths") /\ UNCHANGED <<loop, target>>
  BY DEF ReadFileCrc
<1>7. CountsAgree' /\ BaseProgress'
  BY ONLY <1>0, <1>2, <1>3, <1>5, <1>6 DEF CountsAgree, BaseProgress
<1>8. pc' \in (Steps \cup Results) \ PastBase
  BY <1>6 DEF Steps, PastBase, Accepted
<1> QED BY <1>0, <1>1, <1>3, <1>5, <1>6, <1>7, <1>8, BaseStep

WithExtended(h, os, n) == [h EXCEPT !.os = os, !.extended = n]
WithLengths(h, first, long) == [h EXCEPT !.first = first, !.long = long]

(* The fields of the extended area.                                        *)
LEMMA WithExtendedFields ==
  ASSUME NEW h \in Header, NEW os \in OsTypes, NEW e \in Nat
  PROVE  LET n == WithExtended(h, os, e)
         IN /\ n \in Header /\ n.level = h.level /\ n.first = h.first /\ n.long = h.long
            /\ n.compressed = h.compressed /\ n.skip = h.skip /\ n.header_len = h.header_len
<1> DEFINE n1 == [h EXCEPT !.os = os]
           n2 == [n1 EXCEPT !.extended = e]
<1>1. /\ n1 \in Header /\ n1.level = h.level /\ n1.first = h.first /\ n1.long = h.long
      /\ n1.compressed = h.compressed /\ n1.skip = h.skip /\ n1.header_len = h.header_len
  BY DEF Header
<1>2. /\ n2 \in Header /\ n2.level = h.level /\ n2.first = h.first /\ n2.long = h.long
      /\ n2.compressed = h.compressed /\ n2.skip = h.skip /\ n2.header_len = h.header_len
  <2> HIDE DEF n1
  <2> QED BY <1>1 DEF Header
<1>3. WithExtended(h, os, e) = n2
  BY Zenon DEF WithExtended
<1> QED BY ONLY <1>2, <1>3, Zenon

(* The fields with the lengths.                                            *)
LEMMA WithLengthsFields ==
  ASSUME NEW h \in Header, NEW first \in 0..(U32 - 1), NEW long \in Nat
  PROVE  LET n == WithLengths(h, first, long)
         IN /\ n \in Header /\ n.level = h.level /\ n.first = first /\ n.long = long
            /\ n.compressed = h.compressed /\ n.skip = h.skip /\ n.header_len = h.header_len
<1> DEFINE n1 == [h EXCEPT !.first = first]
           n2 == [n1 EXCEPT !.long = long]
<1>1. /\ n1 \in Header /\ n1.level = h.level /\ n1.first = first
      /\ n1.compressed = h.compressed /\ n1.skip = h.skip /\ n1.header_len = h.header_len
  BY DEF Header
<1>2. /\ n2 \in Header /\ n2.level = h.level /\ n2.first = first /\ n2.long = long
      /\ n2.compressed = h.compressed /\ n2.skip = h.skip /\ n2.header_len = h.header_len
  <2> HIDE DEF n1
  <2> QED BY <1>1 DEF Header
<1>3. WithLengths(h, first, long) = n2
  BY Zenon DEF WithLengths
<1> QED BY ONLY <1>2, <1>3, Zenon

(* The extended area ends where the header's length says.                  *)
LEMMA ReadExtendedAreaStep ==
  ASSUME ParserInv, ReadExtendedArea
  PROVE  ParserInv'
<1> USE DEF ParserInv
<1>0. /\ pc = "extended" /\ pc \notin PastBase /\ pc # "err" /\ head.level < 2
      /\ parser.len = pos /\ parser.csum = pos - 2 /\ head \in Header /\ pos \in Nat
  BY DEF ReadExtendedArea, BaseProgress, CountsAgree, PastBase, Accepted, ParserTypeOK
<1>1. /\ head.level = 0 => head.first = 0
      /\ head.long = 0 /\ head.compressed >= 0
      /\ head.level = 1 => head.compressed = head.skip
  BY <1>0 DEF LengthsHold, Accepted
<1>2. CASE Fails(0)
  BY <1>2, FailsStep
<1>3. CASE /\ head.header_len >= MinLen(parser)
           /\ Take(ExtendedLen)
           /\ parser' = Digest(parser, ExtendedLen)
           /\ IF head.level = 0 /\ ExtendedLen # 0
              THEN \E os \in OsTypes :
                     head' = [head EXCEPT !.os = os, !.extended = ExtendedLen - 1]
              ELSE head' = [head EXCEPT !.extended = ExtendedLen]
           /\ pc' = "lengths"
           /\ UNCHANGED <<loop, target>>
  <2>1. /\ ExtendedLen \in Nat
        /\ head.level = 0 => pos + ExtendedLen = head.header_len + 2
        /\ head.level = 1 => pos + ExtendedLen = head.header_len
        /\ head.level \in {0, 1} /\ head.header_len \in Nat
    <3>1. head.header_len >= MinLen(parser)
      BY <1>3
    <3>2. head.level \in {0, 1} /\ head.header_len \in Nat
      BY <1>0 DEF Header, Levels
    <3> QED BY ONLY <1>0, <3>1, <3>2 DEF ExtendedLen, MinLen
  <2>2. /\ pos' \in Nat /\ pos' = pos + ExtendedLen /\ pos' <= eof
        /\ parser' \in ParserState /\ parser'.len = pos' /\ parser'.crc = pos'
        /\ parser'.csum = parser.csum + ExtendedLen
    BY ONLY <1>0, <1>3, <2>1, DigestTake, ParserInv DEF ParserInv
  <2>3. /\ head' \in Header /\ head'.level = head.level /\ head'.first = head.first
        /\ head'.long = head.long /\ head'.compressed = head.compressed
        /\ head'.skip = head.skip /\ head'.header_len = head.header_len
    <3>1. CASE head.level = 0 /\ ExtendedLen # 0
      <4>1. PICK os \in OsTypes : head' = WithExtended(head, os, ExtendedLen - 1)
        BY <1>3, <3>1 DEF WithExtended
      <4>2. head \in Header /\ os \in OsTypes /\ ExtendedLen - 1 \in Nat
        BY <1>0, <2>1, <3>1
      <4>3. LET n == WithExtended(head, os, ExtendedLen - 1)
            IN /\ n \in Header /\ n.level = head.level /\ n.first = head.first
               /\ n.long = head.long /\ n.compressed = head.compressed /\ n.skip = head.skip
               /\ n.header_len = head.header_len
        BY ONLY <4>2, WithExtendedFields, Zenon
      <4> QED BY ONLY <4>1, <4>3
    <3>2. CASE ~(head.level = 0 /\ ExtendedLen # 0)
      <4>1. head' = [head EXCEPT !.extended = ExtendedLen]
        BY <1>3, <3>2
      <4> QED BY ONLY <1>0, <2>1, <4>1 DEF Header
    <3> QED BY <3>1, <3>2
  <2>4. pc' = "lengths" /\ UNCHANGED <<loop, target>>
    BY <1>3
  <2>5. CountsAgree' /\ BaseProgress'
    BY ONLY <1>0, <2>1, <2>2, <2>3, <2>4 DEF CountsAgree, BaseProgress
  <2>6. pc' \in (Steps \cup Results) \ PastBase
    BY <2>4 DEF Steps, PastBase, Accepted
  <2>7. /\ head'.level = 0 => head'.first = 0
        /\ head'.level < 2 => head'.long = 0
        /\ head'.level = 1 => head'.compressed = head'.skip
        /\ head'.compressed >= 0
    BY <1>1, <2>3
  <2> QED BY ONLY ParserInv, <1>0, <2>2, <2>3, <2>4, <2>5, <2>6, <2>7, BaseStep
<1> QED BY <1>2, <1>3 DEF ReadExtendedArea

(* The lengths that each level has.                                        *)
LEMMA LengthBytesByLevel ==
  /\ head.level = 0 => LengthBytes = 0
  /\ head.level \in {1, 2} => LengthBytes = 2
  /\ head.level = 3 => LengthBytes = 8
<1>1. ASSUME head.level = 0 PROVE LengthBytes = 0
  <2>1. head.level = 0 /\ head.level \notin {1, 2} /\ head.level # 3
    BY <1>1
  <2> QED BY ONLY <2>1, Zenon DEF LengthBytes
<1>2. ASSUME head.level \in {1, 2} PROVE LengthBytes = 2
  <2>1. head.level \in {1, 2} /\ head.level # 0 /\ head.level # 3
    BY <1>2
  <2> QED BY ONLY <2>1, Zenon DEF LengthBytes
<1>3. ASSUME head.level = 3 PROVE LengthBytes = 8
  <2>1. head.level = 3 /\ head.level \notin {1, 2} /\ head.level # 0
    BY <1>3
  <2> QED BY ONLY <2>1, Zenon DEF LengthBytes
<1> QED BY ONLY <1>1, <1>2, <1>3, Zenon

(* The length of the whole header is in levels 2 and 3 only.               *)
LEMMA LongLenByLevel ==
  ASSUME head \in Header
  PROVE  LongLen \subseteq Nat /\ (head.level < 2 => LongLen = {0})
<1>0. head.level \in {0, 1, 2, 3} /\ head.header_len + B * head.csum \in Nat
  <2>1. head.header_len \in Nat /\ head.csum \in Nat /\ B \in Nat
    BY ByteAssumption DEF Header
  <2>2. B * head.csum \in Nat
    BY ONLY <2>1
  <2>3. head.level \in {0, 1, 2, 3}
    BY DEF Header, Levels
  <2> QED BY ONLY <2>1, <2>2, <2>3
<1>1. ASSUME head.level < 2 PROVE LongLen = {0}
  <2>1. head.level < 2 /\ head.level # 2 /\ head.level # 3
    BY <1>0, <1>1
  <2> QED BY ONLY <2>1, Zenon DEF LongLen
<1>2. ASSUME head.level = 2 PROVE LongLen = {head.header_len + B * head.csum}
  <2>1. ~(head.level < 2) /\ head.level = 2 /\ head.level # 3
    BY <1>2
  <2> QED BY ONLY <2>1, Zenon DEF LongLen
<1>3. ASSUME head.level = 3 PROVE LongLen = LongLens
  <2>1. ~(head.level < 2) /\ head.level # 2 /\ head.level = 3
    BY <1>3
  <2> QED BY ONLY <2>1, Zenon DEF LongLen
<1>4. LongLens \subseteq Nat
  BY FieldAssumption, U32Type
<1>5. CASE head.level < 2
  BY ONLY <1>1, <1>5
<1>6. CASE head.level = 2
  BY ONLY <1>0, <1>2, <1>6
<1>7. CASE head.level = 3
  <2>1. LongLen \subseteq Nat
    BY ONLY <1>3, <1>4, <1>7, Zenon
  <2>2. ~(head.level < 2)
    BY ONLY <1>7
  <2> QED BY ONLY <2>1, <2>2, Zenon
<1> QED BY ONLY <1>0, <1>5, <1>6, <1>7

(* Lengths of extra headers have 32 bits at most.                          *)
LEMMA NextLensType == NextLens(head.level) \subseteq 0..(U32 - 1)
BY FieldAssumption, U32Type DEF NextLens

(* The lengths of the whole header and of the first extra header.          *)
LEMMA ReadLengthsStep ==
  ASSUME ParserInv, ReadLengths
  PROVE  ParserInv'
<1> USE DEF ParserInv
<1>0. /\ pc = "lengths" /\ pc \notin PastBase /\ pc # "err"
      /\ pos = IF head.level = 1 THEN head.header_len
               ELSE IF head.level = 0 THEN head.header_len + 2 ELSE 24
      /\ parser.csum = pos - 2 /\ head \in Header /\ pos \in Nat
  BY DEF ReadLengths, BaseProgress, CountsAgree, PastBase, Accepted, ParserTypeOK
<1>1. /\ head.compressed >= 0
      /\ head.level = 1 => head.compressed = head.skip
  BY <1>0 DEF LengthsHold, Accepted
<1>2. head.level \in {0, 1, 2, 3} /\ head.header_len \in Nat
  BY <1>0 DEF Header, Levels
<1>3. LengthBytes \in Nat
  BY <1>2, LengthBytesByLevel
<1>4. CASE Fails(LengthBytes)
  BY <1>3, <1>4, FailsStep
<1>5. ASSUME Take(LengthBytes), parser' = Digest(parser, LengthBytes),
             NEW first \in IF head.level = 0 THEN {0} ELSE NextLens(head.level),
             NEW long \in LongLen,
             head' = [head EXCEPT !.first = first, !.long = long],
             pc' = "check", UNCHANGED <<loop, target>>
      PROVE  ParserInv'
  <2>1. /\ first \in 0..(U32 - 1) /\ long \in Nat /\ head \in Header
        /\ head.level = 0 => first = 0
        /\ head.level < 2 => long = 0
    <3>1. 0 \in 0..(U32 - 1)
      BY U32Type
    <3> QED BY <1>0, <3>1, NextLensType, LongLenByLevel
  <2>2. /\ pos' \in Nat /\ pos' = pos + LengthBytes /\ pos' <= eof
        /\ parser' \in ParserState /\ parser'.len = pos' /\ parser'.crc = pos'
        /\ parser'.csum = parser.csum + LengthBytes
    BY ONLY <1>0, <1>3, <1>5, DigestTake, ParserInv DEF ParserInv
  <2>3. /\ head' \in Header /\ head'.level = head.level /\ head'.first = first
        /\ head'.long = long /\ head'.compressed = head.compressed
        /\ head'.skip = head.skip /\ head'.header_len = head.header_len
    <3>1. head' = WithLengths(head, first, long)
      BY <1>5 DEF WithLengths
    <3>2. LET n == WithLengths(head, first, long)
          IN /\ n \in Header /\ n.level = head.level /\ n.first = first /\ n.long = long
             /\ n.compressed = head.compressed /\ n.skip = head.skip
             /\ n.header_len = head.header_len
      BY ONLY <2>1, WithLengthsFields, Zenon
    <3> QED BY ONLY <3>1, <3>2
  <2>4. pc' = "check" /\ UNCHANGED <<loop, target>>
    BY <1>5
  <2>5. pos' = BaseEnd'
    BY ONLY <1>0, <1>2, <2>2, <2>3, LengthBytesByLevel DEF BaseEnd
  <2>6. CountsAgree' /\ BaseProgress'
    BY ONLY <1>0, <1>3, <2>2, <2>4, <2>5 DEF CountsAgree, BaseProgress
  <2>7. pc' \in (Steps \cup Results) \ PastBase
    BY <2>4 DEF Steps, PastBase, Accepted
  <2>8. /\ head'.level = 0 => head'.first = 0
        /\ head'.level < 2 => head'.long = 0
        /\ head'.level = 1 => head'.compressed = head'.skip
        /\ head'.compressed >= 0
    BY <1>1, <2>1, <2>3
  <2> QED BY ONLY ParserInv, <1>0, <2>2, <2>3, <2>4, <2>6, <2>7, <2>8, BaseStep
<1> QED BY <1>4, <1>5 DEF ReadLengths

(* A sum that does not reach the modulus does not wrap around, and one     *)
(* below twice the modulus wraps around once.                              *)
LEMMA Wraps ==
  ASSUME NEW a \in Nat, NEW m \in Nat, m > 0
  PROVE  /\ a < m => a % m = a
         /\ a >= m /\ a < 2 * m => a % m = a - m
OBVIOUS

(* The base header is complete: its lengths have been compared.            *)
LEMMA CheckBaseStep ==
  ASSUME ParserInv, CheckBase
  PROVE  ParserInv'
<1> USE DEF ParserInv
<1>0. /\ pc = "check" /\ pc \notin PastBase /\ pc # "err" /\ pos = BaseEnd /\ parser.len = pos
      /\ extras = <<>> /\ head \in Header /\ pos \in Nat
  BY DEF CheckBase, BaseProgress, CountsAgree, PastBase, Accepted, ParserTypeOK, ExtrasChain
<1>1. CASE Fails(0)
  BY <1>1, FailsStep
<1>2. CASE /\ head.level >= 2 => head.long >= (parser.len + head.first) % U32
           /\ pc' = "extra"
           /\ extra' = head.first
           /\ UNCHANGED <<pos, parser, head, cleared, extras, header_crc, target>>
  <2>1. head.level \in {0, 1, 2, 3} /\ head.first \in 0..(U32 - 1) /\ head.long \in Nat
        /\ head.skip \in Nat /\ head.header_len \in Nat
    BY <1>0 DEF Header, Levels
  <2>2. ParserTypeOK'
    BY <1>2, <2>1, U32Type DEF ParserTypeOK, Steps, target
  <2>3. CountsAgree' /\ BaseProgress'
    BY <1>0, <1>2 DEF CountsAgree, BaseProgress
  <2>4. ExtrasLen' = 0 /\ BaseEnd' = BaseEnd
    BY <1>0, <1>2 DEF ExtrasLen, BaseEnd
  <2>5. ExtrasChain'
    BY <1>0, <1>2, <2>4 DEF ExtrasChain, PastBase, Accepted
  <2>6. ASSUME head.level = 3
        PROVE  IF head.long = 0 THEN head.first + 32 = U32
                                ELSE head.first = 0 => pos <= head.long + 2
    <3>1. pos = 32 /\ head.long >= (32 + head.first) % U32
      BY <1>0, <1>2, <2>6 DEF BaseEnd
    <3>2. /\ 32 + head.first < U32 => (32 + head.first) % U32 = 32 + head.first
          /\ 32 + head.first >= U32 => (32 + head.first) % U32 = 32 + head.first - U32
      BY <2>1, U32Type, Wraps
    <3>3. PICK m \in Nat : m = U32 /\ m >= 81
      BY U32Type
    <3>r. PICK r : r = (32 + head.first) % U32
      OBVIOUS
    <3>4. r = IF 32 + head.first < m THEN 32 + head.first ELSE 32 + head.first - m
      BY ONLY <2>1, <3>2, <3>3, <3>r
    <3> QED BY ONLY <2>1, <3>1, <3>3, <3>r, <3>4
  <2>7. LengthsHold'
    BY <1>0, <1>2, <2>1, <2>4, <2>6 DEF LengthsHold, PastBase, Accepted
  <2>8. ClearedIsCrc'
    BY <1>2 DEF ClearedIsCrc
  <2> QED BY <2>2, <2>3, <2>5, <2>7, <2>8
<1> QED BY <1>1, <1>2 DEF CheckBase

-----------------------------------------------------------------------------
(* The extra headers. *)

(* A length field keeps its type when its lowest bytes are cleared.        *)
LEMMA StoredNextType ==
  ASSUME head \in Header, NEW id, NEW len \in Nat, len >= MinExtraLen, NEW field \in Nat
  PROVE  StoredNext(id, len, field) \in Nat
<1>1. CrcOverlap(len) \in {0, 1, 2}
  BY DEF CrcOverlap, MinExtraLen
<1> DEFINE low == CASE CrcOverlap(len) = 0 -> 1
                    [] CrcOverlap(len) = 1 -> B
                    [] CrcOverlap(len) = 2 -> U16
<1>2. low \in {1, B, U16}
  <2>1. CASE CrcOverlap(len) = 0
    <3>1. CrcOverlap(len) = 0 /\ CrcOverlap(len) # 1 /\ CrcOverlap(len) # 2
      BY <2>1
    <3> QED BY ONLY <3>1, Zenon
  <2>2. CASE CrcOverlap(len) = 1
    <3>1. CrcOverlap(len) = 1 /\ CrcOverlap(len) # 0 /\ CrcOverlap(len) # 2
      BY <2>2
    <3> QED BY ONLY <3>1, Zenon
  <2>3. CASE CrcOverlap(len) = 2
    <3>1. CrcOverlap(len) = 2 /\ CrcOverlap(len) # 1 /\ CrcOverlap(len) # 0
      BY <2>3
    <3> QED BY ONLY <3>1, Zenon
  <2> HIDE DEF low
  <2> QED BY ONLY <1>1, <2>1, <2>2, <2>3
<1>3. 1 \in Nat \ {0} /\ B \in Nat \ {0} /\ U16 \in Nat \ {0}
  <2>1. B \in Nat /\ B >= 3
    BY ByteAssumption
  <2>2. B * B \in Nat /\ B * B >= 9
    BY ONLY <2>1
  <2> QED BY <2>1, <2>2 DEF U16
<1>4. StoredNext(id, len, field) = IF id = "common" THEN field - (field % low) ELSE field
  BY ONLY Zenon DEF StoredNext
<1> HIDE DEF low
<1>5. field % low \in 0..(low - 1) /\ field % low <= field
  BY ONLY <1>2, <1>3, field \in Nat
<1> QED BY ONLY <1>4, <1>5, field \in Nat

(* The bytes of CRC-16s, header by header.                                 *)
LEMMA CrcBytesIn ==
  ASSUME NEW xs \in Seq(ExtraHeader), NEW x
  PROVE  x \in CrcBytes(xs) <=>
           \E i \in 1..Len(xs) : xs[i].id = "common" /\ x \in {xs[i].at + 1, xs[i].at + 2}
<1>1. DOMAIN xs = 1..Len(xs)
  BY LenProperties
<1> QED BY <1>1, Zenon DEF CrcBytes

(* A common header adds its CRC-16, others nothing.                        *)
LEMMA CrcBytesAppend ==
  ASSUME NEW xs \in Seq(ExtraHeader), NEW e \in ExtraHeader
  PROVE  CrcBytes(Append(xs, e)) =
           CrcBytes(xs) \cup (IF e.id = "common" THEN {e.at + 1, e.at + 2} ELSE {})
<1> DEFINE ys == Append(xs, e)
           n == Len(xs)
<1>1. /\ ys \in Seq(ExtraHeader) /\ Len(ys) = n + 1 /\ n \in Nat
      /\ ys[n + 1] = e /\ \A i \in 1..n : ys[i] = xs[i]
  BY AppendProperties, LenProperties
<1> HIDE DEF ys, n
<1>2. ASSUME NEW x \in CrcBytes(ys)
      PROVE  x \in CrcBytes(xs) \/ (e.id = "common" /\ x \in {e.at + 1, e.at + 2})
  <2>1. PICK i \in 1..Len(ys) : ys[i].id = "common" /\ x \in {ys[i].at + 1, ys[i].at + 2}
    BY ONLY <1>1, <1>2, CrcBytesIn, Zenon
  <2>2. CASE i = n + 1
    BY ONLY <1>1, <2>1, <2>2, Zenon
  <2>3. CASE i # n + 1
    <3>1. i \in 1..n
      BY ONLY <1>1, <2>3, i \in 1..Len(ys)
    <3>2. xs[i].id = "common" /\ x \in {xs[i].at + 1, xs[i].at + 2}
      BY ONLY <1>1, <2>1, <3>1, Zenon
    <3> QED BY ONLY <3>1, <3>2, CrcBytesIn, xs \in Seq(ExtraHeader), Zenon DEF n
  <2> QED BY <2>2, <2>3
<1>3. ASSUME NEW x \in CrcBytes(xs)
      PROVE  x \in CrcBytes(ys)
  <2>1. PICK i \in 1..n : xs[i].id = "common" /\ x \in {xs[i].at + 1, xs[i].at + 2}
    BY ONLY <1>3, CrcBytesIn, xs \in Seq(ExtraHeader), Zenon DEF n
  <2>2. i \in 1..Len(ys)
    BY <1>1
  <2> QED BY ONLY <1>1, <2>1, <2>2, CrcBytesIn, Zenon
<1>4. ASSUME e.id = "common", NEW x \in {e.at + 1, e.at + 2}
      PROVE  x \in CrcBytes(ys)
  <2>1. n + 1 \in 1..Len(ys)
    BY <1>1
  <2> QED BY ONLY <1>1, <1>4, <2>1, CrcBytesIn, Zenon
<1>5. CrcBytes(ys) = CrcBytes(xs) \cup (IF e.id = "common" THEN {e.at + 1, e.at + 2} ELSE {})
  BY ONLY <1>2, <1>3, <1>4, Zenon
<1> QED BY <1>5 DEF ys

WithSizes(h, size) == [h EXCEPT !.compressed = size, !.sizes = "extra"]

(* The sizes of an extra header.                                           *)
LEMMA WithSizesFields ==
  ASSUME NEW h \in Header, NEW size \in Nat
  PROVE  LET n == WithSizes(h, size)
         IN /\ n \in Header /\ n.level = h.level /\ n.first = h.first /\ n.long = h.long
            /\ n.compressed = size /\ n.skip = h.skip /\ n.header_len = h.header_len
<1> DEFINE n1 == [h EXCEPT !.compressed = size]
           n2 == [n1 EXCEPT !.sizes = "extra"]
<1>1. /\ n1 \in Header /\ n1.level = h.level /\ n1.first = h.first /\ n1.long = h.long
      /\ n1.compressed = size /\ n1.skip = h.skip /\ n1.header_len = h.header_len
  BY DEF Header
<1>2. /\ n2 \in Header /\ n2.level = h.level /\ n2.first = h.first /\ n2.long = h.long
      /\ n2.compressed = size /\ n2.skip = h.skip /\ n2.header_len = h.header_len
  <2> HIDE DEF n1
  <2> QED BY <1>1 DEF Header
<1>3. WithSizes(h, size) = n2
  BY Zenon DEF WithSizes
<1> QED BY ONLY <1>2, <1>3, Zenon

(* The length of an extra header that is accepted, and for which there is  *)
(* memory, is compared without wrapping around.                            *)
LEMMA LengthIsCompared ==
  ASSUME ParserInv, InExtra, LengthAccepted, MayAllocate(ExtrasLen + extra)
  PROVE  /\ extra > 0 /\ extra >= MinExtraLen
         /\ head.level = 1 => ExtrasLen + extra <= head.skip
         /\ head.level = 3 /\ head.long # 0 => pos + extra <= head.long + 2
<1> USE DEF ParserInv
<1>0. /\ pc = "extra" /\ extra \in Nat /\ extra # 0 /\ extra >= MinExtraLen
      /\ parser.len = pos /\ pos \in Nat /\ pos = BaseEnd + ExtrasLen /\ ExtrasLen \in Nat
      /\ head \in Header /\ usize \in UsizeModuli
  BY DEF InExtra, LengthAccepted, CountsAgree, ExtrasChain, PastBase, Accepted, ParserTypeOK
<1>1. PICK u \in Nat : u = usize /\ u >= 81
  BY <1>0, U32Type, UsizeType
<1>2. ExtrasLen + extra < u \div 2
  BY <1>1 DEF MayAllocate
<1>3. head.skip \in Nat /\ head.long \in Nat /\ head.compressed \in Int
  BY <1>0 DEF Header
<1>4. ASSUME head.level = 1 PROVE ExtrasLen + extra <= head.skip
  <2>1. head.long = 0 /\ head.compressed = head.skip
    BY <1>0, <1>4 DEF LengthsHold, Accepted
  <2>2. head.skip >= (ExtrasLen + extra) % u
    BY <1>1, <2>1 DEF LengthAccepted
  <2>3. PICK n \in Nat : n = ExtrasLen + extra /\ n < u
    BY <1>0, <1>1, <1>2
  <2>4. n % u = n
    BY ONLY <1>1, <2>3, Wraps, n \in Nat, u \in Nat
  <2> QED BY <2>2, <2>3, <2>4
<1>5. ASSUME head.level = 3, head.long # 0 PROVE pos + extra <= head.long + 2
  <2>1. head.long >= (pos + extra - 2) % u /\ pos = 32 + ExtrasLen
    BY <1>0, <1>1, <1>5 DEF LengthAccepted, BaseEnd
  <2>2. PICK n \in Nat : n = pos + extra - 2 /\ n < u
    BY <1>0, <1>1, <1>2, <2>1
  <2>3. n % u = n
    BY ONLY <1>1, <2>2, Wraps, n \in Nat, u \in Nat
  <2> QED BY <1>0, <1>3, <2>1, <2>2, <2>3
<1> QED BY <1>0, <1>4, <1>5

(* An extra header is put at the end of the chain.                         *)
LEMMA ReadExtraStep ==
  ASSUME ParserInv, ReadExtra
  PROVE  ParserInv'
<1> USE DEF ParserInv
<1>0. /\ pc = "extra" /\ extra \in Nat /\ extra > 0 /\ extra >= MinExtraLen
      /\ head.level = 1 => ExtrasLen + extra <= head.skip
      /\ head.level = 3 /\ head.long # 0 => pos + extra <= head.long + 2
  BY LengthIsCompared DEF ReadExtra, InExtra, ParserTypeOK
<1>1. /\ parser.len = pos /\ parser.crc = pos /\ pos \in Nat /\ pos = BaseEnd + ExtrasLen
      /\ ExtrasLen \in Nat /\ head \in Header /\ extras \in Seq(ExtraHeader)
      /\ parser \in ParserState /\ head.compressed >= 0
  BY <1>0 DEF CountsAgree, ExtrasChain, PastBase, Accepted, ParserTypeOK, LengthsHold
<1>2. PICK id \in Identifiers, field \in NextLens(head.level) :
        \/ id = "common" /\ header_crc /\ Fails(extra)
        \/ /\ id = "common" => ~header_crc
           /\ Take(extra)
           /\ parser' = DigestNoSum(parser, extra)
           /\ cleared' = cleared \cup ClearedCrc(id)
           /\ header_crc' = (header_crc \/ id = "common")
           /\ extras' = Append(extras, [id |-> id, at |-> pos, len |-> extra,
                                        next |-> StoredNext(id, extra, field)])
           /\ extra' = NextLength(id, extra, field)
           /\ IF id = "msdos_size" /\ head.level >= 2 /\ extra - 1 >= 16
              THEN \E size \in Sizes :
                     head' = [head EXCEPT !.compressed = size, !.sizes = "extra"]
              ELSE head' = [head EXCEPT !.attrs = IF id = "attrs" THEN "extra" ELSE @]
           /\ UNCHANGED <<pc, target>>
  BY DEF ReadExtra
<1>3. CASE Fails(extra)
  BY <1>0, <1>3, FailsStep
<1>4. CASE ~Fails(extra)
  <2> DEFINE next == StoredNext(id, extra, field)
             e == [id |-> id, at |-> pos, len |-> extra, next |-> next]
  <2>1. next \in Nat
    <3>1. field \in Nat
      BY NextLensType, U32Type
    <3> QED BY <1>0, <1>1, <3>1, StoredNextType
  <2> HIDE DEF next
  <2>2. e \in ExtraHeader /\ e.id = id /\ e.at = pos /\ e.len = extra /\ e.next = next
    BY <1>0, <1>1, <2>1 DEF ExtraHeader
  <2>3. /\ extras' = Append(extras, e) /\ extra' = next /\ UNCHANGED <<pc, eof, usize>>
        /\ header_crc' = (header_crc \/ id = "common")
        /\ cleared' = cleared \cup ClearedCrc(id)
    BY <1>2, <1>4 DEF next, NextLength, target
  <2>4. pos' = pos + extra /\ pos' <= eof
    BY <1>2, <1>4 DEF Take
  <2>5. parser' \in ParserState /\ parser'.len = pos + extra /\ parser'.crc = pos + extra
    <3>1. parser' = DigestNoSum(parser, extra) /\ parser \in ParserState /\ extra \in Nat
      BY <1>0, <1>1, <1>2, <1>4
    <3>2. /\ parser' \in ParserState
          /\ parser'.len = parser.len + extra /\ parser'.crc = parser.crc + extra
      BY ONLY <3>1, DigestCounts, Zenon
    <3> QED BY <1>1, <3>2
  <2>6. /\ head' \in Header /\ head'.level = head.level /\ head'.first = head.first
        /\ head'.long = head.long /\ head'.skip = head.skip /\ head'.compressed >= 0
        /\ head'.header_len = head.header_len
        /\ head.level < 2 => head'.compressed = head.compressed
    <3>1. CASE id = "msdos_size" /\ head.level >= 2 /\ extra - 1 >= 16
      <4>1. PICK size \in Sizes : head' = WithSizes(head, size)
        BY <1>2, <1>4, <3>1 DEF WithSizes
      <4>2. head \in Header /\ size \in Nat
        BY <1>1, FieldAssumption, U32Type
      <4>3. LET n == WithSizes(head, size)
            IN /\ n \in Header /\ n.level = head.level /\ n.first = head.first
               /\ n.long = head.long /\ n.compressed = size /\ n.skip = head.skip
               /\ n.header_len = head.header_len
        BY ONLY <4>2, WithSizesFields, Zenon
      <4>4. head.level \in Int
        BY <1>1 DEF Header, Levels
      <4> QED BY ONLY <3>1, <4>1, <4>2, <4>3, <4>4
    <3>2. CASE ~(id = "msdos_size" /\ head.level >= 2 /\ extra - 1 >= 16)
      <4>1. head' = [head EXCEPT !.attrs = IF id = "attrs" THEN "extra" ELSE @]
        BY <1>2, <1>4, <3>2
      <4> QED BY ONLY <1>1, <4>1 DEF Header
    <3> QED BY <3>1, <3>2
  <2>7. BaseEnd' = BaseEnd
    BY ONLY <2>6 DEF BaseEnd
  <2> DEFINE n == Len(extras)
  <2>8. /\ extras' \in Seq(ExtraHeader) /\ Len(extras') = n + 1 /\ n \in Nat
        /\ extras'[n + 1] = e /\ \A i \in 1..n : extras'[i] = extras[i]
        /\ extras' # <<>>
    <3>1. e \in ExtraHeader /\ extras \in Seq(ExtraHeader)
      BY <1>1, <2>2
    <3> HIDE DEF e
    <3> QED BY ONLY <2>3, <3>1, AppendProperties, LenProperties, EmptySeq
  <2> HIDE DEF e, n
  <2>9. ExtrasLen' = ExtrasLen + extra
    <3>1. ExtrasLen' = extras'[n + 1].at + extras'[n + 1].len - extras'[1].at
      BY ONLY <2>8 DEF ExtrasLen
    <3>2. ExtrasLen' = pos + extra - extras'[1].at
      BY ONLY <2>2, <2>8, <3>1
    <3>3. CASE extras = <<>>
      <4>1. n = 0 /\ extras'[1] = e
        BY ONLY <2>8, <3>3, EmptySeq DEF n
      <4>2. ExtrasLen = 0
        BY ONLY <3>3 DEF ExtrasLen
      <4> QED BY ONLY <1>0, <1>1, <2>2, <3>2, <4>1, <4>2
    <3>4. CASE extras # <<>>
      <4>1. 1 \in 1..n
        BY ONLY <1>1, <3>4, EmptySeq DEF n
      <4>2. extras'[1] = extras[1] /\ extras[1].at = BaseEnd
        BY <2>8, <3>4, <4>1 DEF ExtrasChain
      <4>3. BaseEnd \in Int
        BY ONLY <1>1 DEF BaseEnd, Header
      <4> QED BY ONLY <1>0, <1>1, <3>2, <4>2, <4>3
    <3> QED BY <3>3, <3>4
  <2>10. ParserTypeOK'
    <3>1. header_crc' \in BOOLEAN
      BY <2>3, Zenon
    <3>2. pos' \in Nat /\ pos' <= eof' /\ eof' \in Nat /\ usize' \in UsizeModuli
      BY <1>0, <1>1, <2>3, <2>4 DEF ParserTypeOK
    <3> QED BY <2>1, <2>3, <2>5, <2>6, <2>8, <3>1, <3>2 DEF ParserTypeOK
  <2>11. CountsAgree' /\ BaseProgress'
    BY <1>0, <2>3, <2>4, <2>5 DEF CountsAgree, BaseProgress
  <2>12. ExtrasChain'
    <3>1. /\ pc' = "extra" /\ pc' \in PastBase
          /\ pos' = BaseEnd' + ExtrasLen' /\ ExtrasLen' \in Nat
      <4>1. BaseEnd \in Int
        BY ONLY <1>1 DEF BaseEnd, Header
      <4> QED BY <1>0, <1>1, <2>3, <2>4, <2>7, <2>9, <4>1 DEF PastBase
    <3>2. extras'[Len(extras')].next = extra'
      BY <2>2, <2>3, <2>8
    <3>3. extras'[1].at = BaseEnd' /\ extras'[1].len = head'.first
      <4>1. CASE extras = <<>>
        <5>1. n = 0 /\ extras'[1] = e /\ extra = head.first /\ ExtrasLen = 0
          BY <1>0, <2>8, <4>1, EmptySeq DEF n, ExtrasChain, PastBase, ExtrasLen
        <5>2. BaseEnd \in Int
          BY ONLY <1>1 DEF BaseEnd, Header
        <5> QED BY ONLY <1>1, <2>2, <2>6, <2>7, <5>1, <5>2
      <4>2. CASE extras # <<>>
        <5>1. 1 \in 1..n
          BY ONLY <1>1, <4>2, EmptySeq DEF n
        <5>2. extras'[1] = extras[1] /\ extras[1].at = BaseEnd /\ extras[1].len = head.first
          BY <2>8, <4>2, <5>1 DEF ExtrasChain
        <5> QED BY ONLY <2>6, <2>7, <5>2
      <4> QED BY <4>1, <4>2
    <3>4. ASSUME NEW i \in 1..Len(extras') PROVE extras'[i].len > 0
      <4>1. CASE i = n + 1
        BY ONLY <1>0, <2>2, <2>8, <4>1
      <4>2. CASE i # n + 1
        <5>1. i \in 1..n
          BY ONLY <2>8, <4>2, i \in 1..Len(extras')
        <5>2. extras[i].len > 0
          BY <5>1 DEF n, ExtrasChain
        <5> QED BY <2>8, <5>1, <5>2
      <4> QED BY <4>1, <4>2
    <3>5. ASSUME NEW i \in 1..(Len(extras') - 1)
          PROVE  /\ extras'[i+1].at = extras'[i].at + extras'[i].len
                 /\ extras'[i+1].len = extras'[i].next
      <4>0. i \in 1..n
        BY ONLY <2>8, i \in 1..(Len(extras') - 1)
      <4>1. CASE i = n
        <5>1. /\ extras # <<>> /\ extras[n].next = extra /\ extras[1].at = BaseEnd
          BY <4>0, <4>1, <1>1, EmptySeq DEF n, ExtrasChain
        <5>2. extras'[i] = extras[n] /\ extras'[i+1] = e
          BY ONLY <2>8, <4>0, <4>1
        <5>3. ExtrasLen = extras[n].at + extras[n].len - extras[1].at
          BY ONLY <5>1 DEF ExtrasLen, n
        <5>4. extras[n] \in ExtraHeader
          BY ONLY <1>1, <4>0, <4>1, ElementOfSeq DEF n
        <5>5. extras[n].at \in Nat /\ extras[n].len \in Nat
          BY ONLY <5>4 DEF ExtraHeader
        <5>6. BaseEnd \in Int
          BY ONLY <1>1 DEF BaseEnd, Header
        <5>7. pos = extras[n].at + extras[n].len
          <6>1. PICK a \in Nat : a = extras[n].at
            BY ONLY <5>5
          <6>2. PICK l \in Nat : l = extras[n].len
            BY ONLY <5>5
          <6>3. ExtrasLen = a + l - BaseEnd
            BY ONLY <5>1, <5>3, <6>1, <6>2, Zenon
          <6>4. pos = BaseEnd + ExtrasLen
            BY ONLY <1>1
          <6>5. pos = a + l
            BY ONLY <5>6, <6>3, <6>4, a \in Nat, l \in Nat
          <6> QED BY ONLY <6>1, <6>2, <6>5
        <5> QED BY ONLY <2>2, <5>1, <5>2, <5>7
      <4>2. CASE i # n
        <5>1. i \in 1..(n - 1) /\ i \in 1..n /\ i + 1 \in 1..n
          BY ONLY <2>8, <4>0, <4>2
        <5>2. /\ extras[i+1].at = extras[i].at + extras[i].len
              /\ extras[i+1].len = extras[i].next
          BY <5>1 DEF n, ExtrasChain
        <5>3. extras'[i] = extras[i] /\ extras'[i+1] = extras[i+1]
          BY ONLY <2>8, <5>1
        <5> QED BY ONLY <5>2, <5>3, Zenon
      <4> QED BY <4>1, <4>2
    <3> QED BY ONLY <2>8, <3>1, <3>2, <3>3, <3>4, <3>5 DEF ExtrasChain, PastBase, Accepted
  <2>13. LengthsHold'
    <3>1. pc' = "extra" /\ pc = "extra"
      BY <1>0, <2>3
    <3>2. LengthsHold
      OBVIOUS
    <3> QED BY ONLY <1>0, <2>4, <2>6, <2>9, <3>1, <3>2 DEF LengthsHold, PastBase, Accepted
  <2>14. ClearedIsCrc'
    <3>1. e \in ExtraHeader /\ extras \in Seq(ExtraHeader)
      BY <1>1, <2>2 DEF e
    <3>2. CrcBytes(Append(extras, e)) =
            CrcBytes(extras) \cup (IF e.id = "common" THEN {e.at + 1, e.at + 2} ELSE {})
      BY ONLY <3>1, CrcBytesAppend, Zenon
    <3>3. ClearedCrc(id) = IF e.id = "common" THEN {e.at + 1, e.at + 2} ELSE {}
      BY <1>1, <2>2 DEF ClearedCrc, e
    <3>4. cleared = CrcBytes(extras)
      BY DEF ClearedIsCrc
    <3> QED BY ONLY <2>3, <3>2, <3>3, <3>4, Zenon DEF ClearedIsCrc
  <2> QED BY <2>10, <2>11, <2>12, <2>13, <2>14
<1> QED BY <1>2, <1>3, <1>4

(* The end of the loop.                                                    *)
LEMMA EndExtrasStep ==
  ASSUME ParserInv, EndExtras
  PROVE  ParserInv'
<1> USE DEF ParserInv
<1>0. /\ pc = "extra" /\ extra = 0 /\ parser.len = pos /\ pos \in Nat /\ head \in Header
      /\ pc \in PastBase
  BY DEF EndExtras, CountsAgree, ParserTypeOK, PastBase
<1>1. CASE Fails(0)
  BY <1>1, FailsStep
<1>2. CASE /\ head.level = 2 => head.long \in {parser.len - 2, parser.len, parser.len + 1}
           /\ pc' = IF head.level = 2 /\ head.long = parser.len + 1 THEN "padding" ELSE "crc"
           /\ UNCHANGED <<pos, parser, head, loop, target>>
  <2>1. /\ UNCHANGED <<pos, eof, usize, parser, cleared, head, extras, extra, header_crc>>
        /\ pc' \in {"padding", "crc"} /\ pc' \in PastBase
        /\ pc' = "padding" => head.level = 2 /\ head.long = pos + 1
        /\ pc' = "crc" /\ head.level = 2 => head.long \in {pos - 2, pos}
    BY <1>0, <1>2 DEF loop, target, PastBase
  <2>2. ParserTypeOK'
    BY <2>1 DEF ParserTypeOK, Steps
  <2>3. CountsAgree' /\ BaseProgress'
    BY <1>0, <2>1 DEF CountsAgree, BaseProgress
  <2>4. ExtrasLen' = ExtrasLen /\ BaseEnd' = BaseEnd
    BY <2>1 DEF ExtrasLen, BaseEnd
  <2>5. ExtrasChain'
    BY <1>0, <2>1, <2>4 DEF ExtrasChain, PastBase, Accepted
  <2>6. LengthsHold'
    <3>1. head.long \in Nat
      BY <1>0 DEF Header
    <3>2. pc' = "crc" /\ head.level = 2 => pos \in {head.long, head.long + 2}
      BY ONLY <1>0, <2>1, <3>1
    <3>3. LengthsHold
      OBVIOUS
    <3> QED BY ONLY <1>0, <2>1, <2>4, <3>2, <3>3 DEF LengthsHold, PastBase, Accepted
  <2>7. ClearedIsCrc'
    BY <2>1 DEF ClearedIsCrc
  <2> QED BY <2>2, <2>3, <2>5, <2>6, <2>7
<1> QED BY <1>1, <1>2 DEF EndExtras

(* The padding of level 2.                                                 *)
LEMMA ReadPaddingStep ==
  ASSUME ParserInv, ReadPadding
  PROVE  ParserInv'
<1> USE DEF ParserInv
<1>0. /\ pc = "padding" /\ pc # "err" /\ extra = 0 /\ head \in Header /\ pos \in Nat
      /\ head.level = 2 /\ head.long = pos + 1
  BY DEF ReadPadding, ParserTypeOK, ExtrasChain, PastBase, LengthsHold
<1>1. /\ pc' = "crc"
      /\ UNCHANGED <<eof, usize, cleared, head, extras, extra, header_crc>>
  BY DEF ReadPadding, loop, target
<1>2. /\ pos' \in Nat /\ pos' = pos + 1 /\ pos' <= eof
      /\ parser' \in ParserState /\ parser'.len = pos' /\ parser'.crc = pos'
  BY ONLY <1>0, DigestTake, ParserInv, ReadPadding, 1 \in Nat DEF ParserInv, ReadPadding, Padding
<1>3. ParserTypeOK'
  BY <1>1, <1>2 DEF ParserTypeOK, Steps
<1>4. CountsAgree' /\ BaseProgress'
  BY <1>1, <1>2 DEF CountsAgree, BaseProgress
<1>5. ExtrasLen' = ExtrasLen /\ BaseEnd' = BaseEnd
  BY <1>1 DEF ExtrasLen, BaseEnd
<1>6. ExtrasChain'
  BY <1>0, <1>1, <1>5 DEF ExtrasChain, PastBase, Accepted
<1>7. LengthsHold'
  <2>1. LengthsHold
    OBVIOUS
  <2> QED BY ONLY <1>0, <1>1, <1>2, <1>5, <2>1 DEF LengthsHold, PastBase, Accepted
<1>8. ClearedIsCrc'
  BY <1>1 DEF ClearedIsCrc
<1> QED BY <1>3, <1>4, <1>6, <1>7, <1>8

(* The header is accepted.                                                 *)
LEMMA CheckCrcStep ==
  ASSUME ParserInv, CheckCrc
  PROVE  ParserInv'
<1> USE DEF ParserInv
<1>0. /\ pc = "crc" /\ extra = 0 /\ head \in Header /\ ExtrasLen \in Nat
  BY DEF CheckCrc, ParserTypeOK, ExtrasChain, PastBase
<1>1. CASE Fails(0)
  BY <1>1, FailsStep
<1>2. CASE /\ pc' = "some"
           /\ head' = [head EXCEPT !.compressed = DataSize(@)]
           /\ UNCHANGED <<pos, parser, loop, target>>
  <2>1. /\ pc' = "some"
        /\ UNCHANGED <<pos, eof, usize, parser, cleared, extras, extra, header_crc>>
    BY <1>2 DEF loop, target
  <2>2. DataSize(head.compressed) = IF head.level = 1 THEN head.compressed - ExtrasLen
                                                      ELSE head.compressed
    BY DEF DataSize
  <2>3. DataSize(head.compressed) \in Int
    BY <1>0, <2>2 DEF Header
  <2>4. /\ head' \in Header /\ head'.level = head.level /\ head'.first = head.first
        /\ head'.long = head.long /\ head'.skip = head.skip
        /\ head'.compressed = DataSize(head.compressed)
        /\ head'.header_len = head.header_len
    BY <1>0, <1>2, <2>3 DEF Header
  <2>5. ParserTypeOK'
    BY <2>1, <2>4 DEF ParserTypeOK, Results
  <2>6. CountsAgree' /\ BaseProgress'
    BY <1>0, <2>1 DEF CountsAgree, BaseProgress
  <2>7. ExtrasLen' = ExtrasLen /\ BaseEnd' = BaseEnd
    BY <2>1, <2>4 DEF ExtrasLen, BaseEnd
  <2>8. ExtrasChain'
    BY <1>0, <2>1, <2>4, <2>7 DEF ExtrasChain, PastBase, Accepted
  <2>9. LengthsHold'
    <3>1. LengthsHold
      OBVIOUS
    <3> QED BY ONLY <1>0, <2>1, <2>2, <2>4, <2>7, <3>1 DEF LengthsHold, PastBase, Accepted
  <2>10. ClearedIsCrc'
    BY <2>1 DEF ClearedIsCrc
  <2> QED BY <2>5, <2>6, <2>8, <2>9, <2>10
<1> QED BY <1>1, <1>2 DEF CheckCrc

(* What a step wants to read is a number of bytes.                         *)
LEMMA WantedType ==
  ASSUME ParserInv
  PROVE  Wanted \in Int
<1> USE DEF ParserInv
<1>0. /\ head \in Header /\ extra \in Nat /\ parser \in ParserState
  BY DEF ParserTypeOK
<1>1. 1 \in Int /\ 20 \in Int /\ 0 \in Int
  OBVIOUS
<1>2. head.filename \in Int /\ FileCrcBytes \in Int /\ extra \in Int
  BY <1>0 DEF Header, FileCrcBytes
<1>3. ExtendedLen \in Int
  <2>1. head.header_len \in Int /\ parser.len \in Int
    BY <1>0 DEF Header, ParserState
  <2> QED BY ONLY <2>1 DEF ExtendedLen, MinLen
<1>4. LengthBytes \in Int
  <2>1. head.level \in {0, 1, 2, 3}
    BY <1>0 DEF Header, Levels
  <2> QED BY ONLY <2>1, LengthBytesByLevel
<1> QED BY ONLY <1>1, <1>2, <1>3, <1>4, Zenon DEF Wanted

(* A read that fails leaves the stream somewhere.                          *)
LEMMA ReadFailsStep ==
  ASSUME ParserInv, ReadFails
  PROVE  ParserInv'
<1>1. PICK taken \in {0, Smaller(Wanted - 1, eof - pos)} : Fails(taken)
  BY DEF ReadFails
<1>2. Wanted \in Int /\ Wanted > 0
  BY WantedType DEF ReadFails
<1>3. eof - pos \in Nat
  BY DEF ParserInv, ParserTypeOK
<1>4. taken \in Nat
  BY <1>1, <1>2, <1>3 DEF Smaller
<1> QED BY <1>1, <1>4, FailsStep

(* Every step of the parser.                                               *)
LEMMA ParserStep ==
  ASSUME ParserInv, ParserNext
  PROVE  ParserInv'
<1>1. CASE ReadFirstByte
  BY <1>1, ReadFirstByteStep
<1>2. CASE ReadBase
  BY <1>2, ReadBaseStep
<1>3. CASE ReadFilenameLen
  BY <1>3, ReadFilenameLenStep
<1>4. CASE ReadFilename
  BY <1>4, ReadFilenameStep
<1>5. CASE ReadFileCrc
  BY <1>5, ReadFileCrcStep
<1>6. CASE ReadExtendedArea
  BY <1>6, ReadExtendedAreaStep
<1>7. CASE ReadLengths
  BY <1>7, ReadLengthsStep
<1>8. CASE CheckBase
  BY <1>8, CheckBaseStep
<1>9. CASE RejectExtra
  BY <1>9, FailsStep DEF RejectExtra
<1>10. CASE ReadExtra
  BY <1>10, ReadExtraStep
<1>11. CASE EndExtras
  BY <1>11, EndExtrasStep
<1>12. CASE ReadPadding
  BY <1>12, ReadPaddingStep
<1>13. CASE CheckCrc
  BY <1>13, CheckCrcStep
<1>14. CASE ReadFails
  BY <1>14, ReadFailsStep
<1> QED BY <1>1, <1>2, <1>3, <1>4, <1>5, <1>6, <1>7, <1>8, <1>9, <1>10, <1>11, <1>12,
           <1>13, <1>14 DEF ParserNext

HeaderVars == <<pos, eof, usize, parser, cleared, head, extras, extra, header_crc>>

(* Steps that leave the parser alone, or only give the answers.            *)
LEMMA ParserIdle ==
  ASSUME ParserInv, (pc' = pc) \/ (pc = "some" /\ pc' = "answered"),
         UNCHANGED HeaderVars
  PROVE  ParserInv'
<1> USE DEF ParserInv, HeaderVars
<1>1. ParserTypeOK'
  BY DEF ParserTypeOK, Steps
<1>2. CountsAgree' /\ BaseProgress'
  BY DEF CountsAgree, BaseProgress, BaseEnd
<1>3. ExtrasLen' = ExtrasLen /\ BaseEnd' = BaseEnd
  BY DEF ExtrasLen, BaseEnd
<1>4. ExtrasChain'
  BY <1>3 DEF ExtrasChain, PastBase, Accepted
<1>5. LengthsHold'
  BY <1>3 DEF LengthsHold, PastBase, Accepted
<1>6. ClearedIsCrc'
  BY DEF ClearedIsCrc
<1> QED BY <1>1, <1>2, <1>4, <1>5, <1>6

-----------------------------------------------------------------------------
(* What the parser guarantees. *)

(* The invariant implies where a header ends.                              *)
LEMMA InvEnds == ParserInv => EndsWhereLengthsSay
<1> SUFFICES ASSUME ParserInv, pc = "some" PROVE EndsWhereLengthsSay
  BY DEF EndsWhereLengthsSay
<1> USE DEF ParserInv
<1>0. /\ head \in Header /\ pos \in Nat /\ extra = 0 /\ ExtrasLen \in Nat
      /\ extras = <<>> => head.first = 0
      /\ head.level # 2 => pos = BaseEnd + ExtrasLen
  BY DEF ParserTypeOK, ExtrasChain, PastBase, Accepted
<1>1. head.header_len \in Nat /\ head.skip \in Nat
  BY <1>0 DEF Header
<1>2. ASSUME head.level = 0 PROVE pos = head.header_len + 2
  <2>1. extras = <<>>
    <3>1. ASSUME extras # <<>> PROVE FALSE
      <4>1. 1 \in 1..Len(extras) /\ extras[1].len = head.first
        BY <3>1, EmptySeq DEF ParserTypeOK, ExtrasChain
      <4>2. extras[1].len > 0
        BY <4>1 DEF ExtrasChain
      <4>3. head.first = 0
        BY <1>2 DEF LengthsHold
      <4> QED BY <4>1, <4>2, <4>3
    <3> QED BY <3>1
  <2> QED BY <1>0, <1>1, <1>2, <2>1, NoExtras DEF BaseEnd
<1>3. ASSUME head.level = 1
      PROVE  /\ head.compressed \in 0..head.skip
             /\ pos = head.header_len + 2 + (head.skip - head.compressed)
  <2>1. pos = head.header_len + 2 + ExtrasLen
    BY <1>0, <1>1, <1>3 DEF BaseEnd
  <2>2. head.compressed = head.skip - ExtrasLen /\ ExtrasLen <= head.skip
    BY <1>3 DEF LengthsHold, Accepted
  <2> QED BY ONLY <1>0, <1>1, <2>1, <2>2
<1>4. ASSUME head.level = 2 PROVE pos \in {head.long, head.long + 2}
  BY <1>4 DEF LengthsHold, Accepted
<1> QED BY ONLY <1>2, <1>3, <1>4 DEF EndsWhereLengthsSay

(* The invariant implies that the length of the whole header is a limit.   *)
LEMMA InvLimits == ParserInv => LongLengthIsLimit
<1> SUFFICES ASSUME ParserInv, pc = "some", head.level >= 2, head.long # 0
             PROVE  pos <= head.long + 2
  BY DEF LongLengthIsLimit
<1> USE DEF ParserInv
<1>1. head \in Header /\ pos \in Nat /\ extra = 0
  BY DEF ParserTypeOK, ExtrasChain, PastBase, Accepted
<1>2. head.level \in {2, 3} /\ head.long \in Nat
  BY <1>1 DEF Header, Levels
<1>3. CASE head.level = 2
  <2>1. pos \in {head.long, head.long + 2}
    BY <1>3 DEF LengthsHold, Accepted
  <2> QED BY ONLY <1>1, <1>2, <2>1
<1>4. CASE head.level = 3
  BY <1>1, <1>4 DEF LengthsHold, PastBase, Accepted
<1> QED BY ONLY <1>2, <1>3, <1>4

(* The invariant implies what the checksums cover.                         *)
LEMMA InvCovers == ParserInv => ChecksumsCoverHeader
<1> SUFFICES ASSUME ParserInv PROVE ChecksumsCoverHeader
  OBVIOUS
<1> USE DEF ParserInv
<1>1. ASSUME pc = "check", head.level < 2 PROVE parser.csum = head.header_len
  <2>1. head.header_len \in Nat
    BY DEF ParserTypeOK, Header
  <2> QED BY <1>1, <2>1 DEF CountsAgree, BaseProgress, BaseEnd
<1>2. ASSUME pc = "crc" PROVE parser.crc = pos
  BY <1>2 DEF CountsAgree
<1>3. cleared = UNION {{extras[i].at + 1, extras[i].at + 2} :
                         i \in {j \in DOMAIN extras : extras[j].id = "common"}}
  BY ONLY ParserInv, Zenon DEF ParserInv, ClearedIsCrc, CrcBytes
<1> QED BY ONLY <1>1, <1>2, <1>3, Zenon DEF ChecksumsCoverHeader

(* At every step of LhaHeader::read by itself the counts, the chain of     *)
(* extra headers and the lengths agree.                                    *)
THEOREM ParserInvariant == ParserSpec => []ParserInv
<1>1. Init => ParserInv
  BY InitParser
<1>2. ParserInv /\ [ParserNext]_vars => ParserInv'
  <2> SUFFICES ASSUME ParserInv, [ParserNext]_vars PROVE ParserInv'
    OBVIOUS
  <2>1. CASE ParserNext
    BY <2>1, ParserStep
  <2>2. CASE UNCHANGED vars
    <3>1. pc' = pc /\ UNCHANGED HeaderVars
      BY <2>2 DEF vars, HeaderVars
    <3> QED BY ONLY ParserInv, <3>1, ParserIdle
  <2> QED BY <2>1, <2>2
<1> QED BY <1>1, <1>2, PTL DEF ParserSpec

-----------------------------------------------------------------------------
(* The walk over the extra headers. *)

(* The iterator stands behind the k-th of the headers that read went       *)
(* through, with the length that this header gives for the next one.       *)
WalkFollows ==
  /\ walk \in [at: Nat, length: Nat, k: Nat, lost: BOOLEAN]
  /\ ~walk.lost
  /\ pc \notin Accepted => walk.k = 0 /\ walk.at = 0
  /\ pc \in Accepted =>
       /\ walk.k \in 0..Len(extras)
       /\ walk.k = 0 => walk.length = head.first /\ walk.at = 0
       /\ walk.k # 0 => /\ walk.length = extras[walk.k].next
                        /\ walk.at = extras[walk.k].at + extras[walk.k].len - extras[1].at
  /\ pc = "answered" => walk.length = 0

(* The parser does nothing more once it has returned.                      *)
LEMMA ParserHasReturned == ParserNext => pc \notin Accepted
<1> SUFFICES ASSUME ParserNext, pc \in Accepted PROVE FALSE
  OBVIOUS
<1>1. ReadFails
  BY DEF ParserNext, Accepted, ReadFirstByte, ReadBase, ReadFilenameLen, ReadFilename,
         ReadFileCrc, ReadExtendedArea, ReadLengths, CheckBase, RejectExtra, ReadExtra,
         InExtra, EndExtras, ReadPadding, CheckCrc
<1>2. pc = "answered" /\ Wanted > 0
  BY <1>1 DEF ReadFails, Accepted, Results
<1>3. Wanted = 0
  <2>1. /\ pc \notin {"first", "filename_len", "padding"} /\ pc # "base" /\ pc # "filename"
        /\ pc # "file_crc" /\ pc # "extended" /\ pc # "lengths" /\ ~InExtra
    BY <1>2 DEF InExtra
  <2> QED BY ONLY <2>1, Zenon DEF Wanted
<1> QED BY <1>2, <1>3

(* Only the last check makes read return a header.                         *)
LEMMA OnlyCheckCrcAccepts ==
  ASSUME ParserInv, ParserNext
  PROVE  /\ pc' # "answered"
         /\ pc' = "some" => head'.first = head.first
<1>1. ASSUME NEW n, Fails(n) PROVE pc' = "err"
  BY <1>1 DEF Fails
<1>2. CASE CheckCrc
  <2>1. CASE Fails(0)
    BY <1>1, <2>1
  <2>2. CASE pc' = "some" /\ head' = [head EXCEPT !.compressed = DataSize(@)]
    BY <2>2 DEF ParserInv, ParserTypeOK, Header
  <2> QED BY <1>2, <2>1, <2>2 DEF CheckCrc
<1>3. CASE ReadFirstByte
  BY <1>3 DEF ReadFirstByte
<1>4. CASE ReadBase
  BY <1>1, <1>4 DEF ReadBase
<1>5. CASE ReadFilenameLen
  BY <1>1, <1>5 DEF ReadFilenameLen
<1>6. CASE ReadFilename
  BY <1>6 DEF ReadFilename
<1>7. CASE ReadFileCrc
  BY <1>7 DEF ReadFileCrc
<1>8. CASE ReadExtendedArea
  BY <1>1, <1>8 DEF ReadExtendedArea
<1>9. CASE ReadLengths
  BY <1>1, <1>9 DEF ReadLengths
<1>10. CASE CheckBase
  BY <1>1, <1>10 DEF CheckBase
<1>11. CASE RejectExtra
  BY <1>1, <1>11 DEF RejectExtra
<1>12. CASE ReadExtra
  <2>1. pc = "extra" /\ (pc' = "err" \/ pc' = pc)
    BY <1>1, <1>12 DEF ReadExtra, InExtra
  <2> QED BY <2>1
<1>13. CASE EndExtras
  BY <1>1, <1>13 DEF EndExtras
<1>14. CASE ReadPadding
  BY <1>14 DEF ReadPadding
<1>15. CASE ReadFails
  BY <1>1, <1>15 DEF ReadFails
<1> QED BY <1>2, <1>3, <1>4, <1>5, <1>6, <1>7, <1>8, <1>9, <1>10, <1>11, <1>12, <1>13,
           <1>14, <1>15 DEF ParserNext

(* At the beginning there is nothing to walk.                              *)
LEMMA WalkInit == AccessInit => WalkFollows
BY DEF AccessInit, Init, WalkFollows, Accepted

(* When read returns, the walk is at the first extra header.               *)
LEMMA WalkParse ==
  ASSUME ParserInv, WalkFollows, Parse
  PROVE  WalkFollows'
<1>1. pc \notin Accepted /\ pc' # "answered" /\ (pc' = "some" => head'.first = head.first)
  BY ParserHasReturned, OnlyCheckCrcAccepts DEF Parse
<1>2. head.first \in Nat
  BY U32Type DEF ParserInv, ParserTypeOK, Header
<1>3. walk' = [walk EXCEPT !.length = IF pc' = "some" THEN head.first ELSE 0]
  BY DEF Parse
<1>4. /\ walk' \in [at: Nat, length: Nat, k: Nat, lost: BOOLEAN]
      /\ walk'.k = 0 /\ walk'.at = 0 /\ walk'.lost = walk.lost
      /\ pc' = "some" => walk'.length = head.first
  BY <1>1, <1>2, <1>3 DEF WalkFollows
<1>5. ParserInv'
  BY ParserStep DEF Parse
<1>6. Len(extras') \in Nat
  BY <1>5, LenProperties DEF ParserInv, ParserTypeOK
<1> QED BY <1>1, <1>4, <1>6 DEF WalkFollows, Accepted

(* The headers that the walk has still before it are those of the chain.   *)
LEMMA NextOfWalk ==
  ASSUME ParserInv, WalkFollows, pc \in Accepted
  PROVE  /\ walk.length # 0 =>
              LET k == walk.k + 1
              IN /\ k \in DOMAIN extras /\ k \in 1..Len(extras)
                 /\ walk.at = extras[k].at - extras[1].at
                 /\ walk.length = extras[k].len
         /\ walk.length = 0 => walk.k = Len(extras)
<1> USE DEF ParserInv
<1>0. /\ extras \in Seq(ExtraHeader) /\ extra = 0 /\ head \in Header
      /\ DOMAIN extras = 1..Len(extras) /\ Len(extras) \in Nat
      /\ walk.k \in 0..Len(extras)
  BY LenProperties DEF ParserTypeOK, ExtrasChain, PastBase, Accepted, WalkFollows
<1>1. CASE walk.k = 0
  <2>1. walk.length = head.first /\ walk.at = 0
    BY <1>1 DEF WalkFollows
  <2>2. CASE extras = <<>>
    <3>1. head.first = 0 /\ Len(extras) = 0
      BY <1>0, <2>2, EmptySeq DEF ExtrasChain, PastBase
    <3> QED BY <1>1, <2>1, <3>1
  <2>3. CASE extras # <<>>
    <3>1. 1 \in 1..Len(extras) /\ extras[1].len = head.first
      BY <1>0, <2>3, EmptySeq DEF ExtrasChain
    <3>2. extras[1].len > 0
      BY <3>1 DEF ExtrasChain
    <3>3. extras[1].at \in Nat
      <4>1. extras[1] \in ExtraHeader
        BY ONLY <1>0, <3>1, ElementOfSeq
      <4> QED BY <4>1 DEF ExtraHeader
    <3> QED BY ONLY <1>0, <1>1, <2>1, <3>1, <3>2, <3>3
  <2> QED BY <2>2, <2>3
<1>2. CASE walk.k # 0
  <2>1. /\ walk.k \in 1..Len(extras) /\ extras # <<>>
        /\ walk.length = extras[walk.k].next
        /\ walk.at = extras[walk.k].at + extras[walk.k].len - extras[1].at
    <3>1. walk.k \in 1..Len(extras)
      BY <1>0, <1>2
    <3>2. extras # <<>>
      BY <1>0, <3>1, EmptySeq
    <3> QED BY <1>2, <3>1, <3>2 DEF WalkFollows
  <2>2. CASE walk.k = Len(extras)
    <3>1. walk.length = 0
      BY <1>0, <2>1, <2>2 DEF ExtrasChain
    <3> QED BY <2>2, <3>1
  <2>3. CASE walk.k # Len(extras)
    <3> DEFINE k == walk.k
    <3>1. k \in 1..(Len(extras) - 1) /\ k \in 1..Len(extras) /\ k + 1 \in 1..Len(extras)
          /\ 1 \in 1..Len(extras)
      BY ONLY <1>0, <2>1, <2>3
    <3>2. /\ extras[k+1].at = extras[k].at + extras[k].len
          /\ extras[k+1].len = extras[k].next
          /\ extras[k+1].len > 0
      BY <3>1 DEF ExtrasChain
    <3>3. extras[k] \in ExtraHeader /\ extras[1] \in ExtraHeader
      BY ONLY <1>0, <3>1, ElementOfSeq
    <3>4. extras[k].at \in Nat /\ extras[k].len \in Nat /\ extras[1].at \in Nat
      BY ONLY <3>3 DEF ExtraHeader
    <3>5. walk.at = extras[k+1].at - extras[1].at
      <4>1. PICK a \in Nat : a = extras[k].at
        BY ONLY <3>4
      <4>2. PICK l \in Nat : l = extras[k].len
        BY ONLY <3>4
      <4>3. PICK b \in Nat : b = extras[1].at
        BY ONLY <3>4
      <4>4. walk.at = a + l - b /\ extras[k+1].at = a + l
        BY ONLY <2>1, <3>2, <4>1, <4>2, <4>3, Zenon
      <4>5. a + l - b = (a + l) - b
        OBVIOUS
      <4> QED BY ONLY <4>3, <4>4, <4>5, Zenon
    <3>6. walk.length = extras[k+1].len /\ walk.length # 0
      BY ONLY <2>1, <3>2
    <3> QED BY ONLY <1>0, <3>1, <3>5, <3>6
  <2> QED BY <2>2, <2>3
<1> QED BY <1>1, <1>2

WalkState == [at: Nat, length: Nat, k: Nat, lost: BOOLEAN]

Walked(w, at, length, k) == [w EXCEPT !.at = at, !.length = length, !.k = k]

(* The iterator after one header.                                          *)
LEMMA WalkedFields ==
  ASSUME NEW w \in WalkState, NEW at \in Nat, NEW length \in Nat, NEW k \in Nat
  PROVE  LET n == Walked(w, at, length, k)
         IN n \in WalkState /\ n.at = at /\ n.length = length /\ n.k = k /\ n.lost = w.lost
<1> DEFINE n1 == [w EXCEPT !.at = at]
           n2 == [n1 EXCEPT !.length = length]
           n3 == [n2 EXCEPT !.k = k]
<1>1. n1 \in WalkState /\ n1.at = at /\ n1.lost = w.lost
  BY DEF WalkState
<1>2. n2 \in WalkState /\ n2.at = at /\ n2.length = length /\ n2.lost = w.lost
  <2> HIDE DEF n1
  <2> QED BY <1>1 DEF WalkState
<1>3. n3 \in WalkState /\ n3.at = at /\ n3.length = length /\ n3.k = k /\ n3.lost = w.lost
  <2> HIDE DEF n2
  <2> QED BY <1>2 DEF WalkState
<1>4. Walked(w, at, length, k) = n3
  BY Zenon DEF Walked
<1> QED BY ONLY <1>3, <1>4, Zenon

(* ExtraHeaderIter::next goes from one header of the chain to the next.    *)
LEMMA WalkIterNext ==
  ASSUME ParserInv, WalkFollows, IterNext
  PROVE  /\ WalkFollows'
         /\ \E id \in Identifiers, n \in Int : \E data \in Contents(id, n) :
              acc' = Visit(id, n, data)
<1>0. pc = "some" /\ walk.length # 0 /\ UNCHANGED vars
  BY DEF IterNext
<1> DEFINE k == walk.k + 1
           n == walk.length - CounterSize - 1
<1>1. /\ k \in DOMAIN extras /\ k \in 1..Len(extras)
      /\ walk.at = extras[k].at - extras[1].at
      /\ walk.length = extras[k].len
  BY <1>0, NextOfWalk DEF Accepted
<1>2. /\ \E data \in Contents(extras[k].id, n) : acc' = Visit(extras[k].id, n, data)
      /\ walk' = Walked(walk, walk.at + walk.length, extras[k].next, k)
  <2>1. IF /\ k \in DOMAIN extras
           /\ walk.at = extras[k].at - extras[1].at
           /\ walk.length = extras[k].len
        THEN /\ \E data \in Contents(extras[k].id, n) : acc' = Visit(extras[k].id, n, data)
             /\ walk' = [walk EXCEPT !.at = @ + walk.length, !.length = extras[k].next,
                                     !.k = k]
        ELSE walk' = [walk EXCEPT !.lost = TRUE] /\ UNCHANGED acc
    BY Zenon DEF IterNext
  <2> HIDE DEF k, n
  <2> QED BY ONLY <1>1, <2>1, Zenon DEF Walked
<1> HIDE DEF k, n
<1>3. /\ walk \in WalkState /\ walk.at \in Nat /\ walk.length \in Nat /\ walk.k \in Nat
      /\ ~walk.lost
  BY DEF WalkFollows, WalkState
<1>4. extras[k] \in ExtraHeader /\ extras[1] \in ExtraHeader /\ 1 \in 1..Len(extras)
  <2>1. extras \in Seq(ExtraHeader) /\ Len(extras) \in Nat
    BY LenProperties DEF ParserInv, ParserTypeOK
  <2>2. 1 \in 1..Len(extras)
    BY ONLY <1>1, <2>1
  <2> QED BY ONLY <1>1, <2>1, <2>2, ElementOfSeq
<1>5. /\ extras[k].at \in Nat /\ extras[k].len \in Nat /\ extras[k].next \in Nat
      /\ extras[1].at \in Nat /\ extras[k].id \in Identifiers
  BY ONLY <1>4 DEF ExtraHeader
<1>6. walk.at + walk.length \in Nat /\ k \in Nat /\ k # 0 /\ walk.k = k - 1
  BY ONLY <1>3 DEF k
<1>7. LET m == Walked(walk, walk.at + walk.length, extras[k].next, k)
      IN /\ m \in WalkState /\ m.at = walk.at + walk.length
         /\ m.length = extras[k].next /\ m.k = k /\ m.lost = walk.lost
  <2> DEFINE a == walk.at + walk.length
             x == extras[k].next
  <2>1. walk \in WalkState /\ a \in Nat /\ x \in Nat /\ k \in Nat
    BY ONLY <1>3, <1>5, <1>6
  <2> HIDE DEF a, x
  <2>2. LET m == Walked(walk, a, x, k)
        IN m \in WalkState /\ m.at = a /\ m.length = x /\ m.k = k /\ m.lost = walk.lost
    BY ONLY <2>1, WalkedFields
  <2> QED BY ONLY <2>2, Zenon DEF a, x
<1>8. /\ walk' \in WalkState /\ walk'.at = walk.at + walk.length
      /\ walk'.length = extras[k].next /\ walk'.k = k /\ ~walk'.lost
  BY ONLY <1>2, <1>3, <1>7, Zenon
<1>9. walk'.at = extras[k].at + extras[k].len - extras[1].at
  <2>1. PICK a \in Nat : a = extras[k].at
    BY ONLY <1>5
  <2>2. PICK l \in Nat : l = extras[k].len
    BY ONLY <1>5
  <2>3. PICK b \in Nat : b = extras[1].at
    BY ONLY <1>5
  <2>4. walk'.at = (a - b) + l
    BY ONLY <1>1, <1>8, <2>1, <2>2, <2>3, Zenon
  <2>5. (a - b) + l = a + l - b
    OBVIOUS
  <2> QED BY ONLY <2>1, <2>2, <2>3, <2>4, <2>5, Zenon
<1>10. WalkFollows'
  <2>1. UNCHANGED <<pc, extras, head>>
    BY <1>0 DEF vars
  <2>2. k \in 0..Len(extras)
    BY ONLY <1>1
  <2> QED BY ONLY <1>0, <1>6, <1>8, <1>9, <2>1, <2>2 DEF WalkFollows, WalkState, Accepted
<1>11. n \in Int
  BY <1>3 DEF n, CounterSize
<1> QED BY ONLY <1>2, <1>5, <1>10, <1>11, Zenon

(* The methods return at the end of the walk.                              *)
LEMMA WalkAnswer ==
  ASSUME WalkFollows, Answer
  PROVE  WalkFollows'
<1>1. /\ pc = "some" /\ walk.length = 0 /\ pc' = "answered"
      /\ UNCHANGED <<extras, head, walk>>
  BY DEF Answer
<1> QED BY <1>1 DEF WalkFollows, Accepted

AccessInv == ParserInv /\ WalkFollows

(* Every step of the parser and of the methods.                            *)
LEMMA AccessStep ==
  ASSUME AccessInv, [AccessNext]_allVars
  PROVE  AccessInv'
<1> USE DEF AccessInv
<1>1. CASE Parse
  BY <1>1, ParserStep, WalkParse DEF Parse
<1>2. CASE IterNext
  <2>1. pc' = pc /\ UNCHANGED HeaderVars
    BY <1>2 DEF IterNext, vars, HeaderVars
  <2>2. ParserInv'
    BY ONLY ParserInv, <2>1, ParserIdle
  <2> QED BY <1>2, <2>2, WalkIterNext
<1>3. CASE Answer
  <2>1. pc = "some" /\ pc' = "answered" /\ UNCHANGED HeaderVars
    BY <1>3 DEF Answer, HeaderVars
  <2>2. ParserInv'
    BY ONLY ParserInv, <2>1, ParserIdle
  <2> QED BY <1>3, <2>2, WalkAnswer
<1>4. CASE UNCHANGED allVars
  <2>1. pc' = pc /\ UNCHANGED HeaderVars /\ UNCHANGED <<extras, head, walk>>
    BY <1>4 DEF allVars, vars, HeaderVars
  <2>2. ParserInv'
    BY ONLY ParserInv, <2>1, ParserIdle
  <2>3. WalkFollows'
    BY ONLY WalkFollows, <2>1 DEF WalkFollows, Accepted
  <2> QED BY <2>2, <2>3
<1> QED BY <1>1, <1>2, <1>3, <1>4 DEF AccessNext, Ended

(* The walk of iter_extra stays with the headers that read went through.   *)
THEOREM AccessInvariant == AccessSpec => []AccessInv
<1>1. AccessInit => AccessInv
  BY InitParser, WalkInit DEF AccessInit, AccessInv
<1>2. AccessInv /\ [AccessNext]_allVars => AccessInv'
  BY AccessStep
<1> QED BY <1>1, <1>2, PTL DEF AccessSpec

(* A header of level 0, 1 or 2 that LhaHeader::read accepts ends where its *)
(* lengths say, and its level 1 data size does not underflow, for every    *)
(* width of usize and number of extra headers.                             *)
THEOREM HeaderEnds == AccessSpec => []EndsWhereLengthsSay
<1>1. AccessInv => EndsWhereLengthsSay
  BY InvEnds DEF AccessInv
<1> QED BY <1>1, AccessInvariant, PTL

(* A header of level 2 or 3 with a length takes at most two bytes beyond   *)
(* it, as no sum of lengths that LhaHeader::read compares with it can wrap *)
(* around unnoticed.                                                       *)
THEOREM LengthLimitsHeader == AccessSpec => []LongLengthIsLimit
<1>1. AccessInv => LongLengthIsLimit
  BY InvLimits DEF AccessInv
<1> QED BY <1>1, AccessInvariant, PTL

(* The sum and the CRC-16 are taken over the whole header, with the bytes  *)
(* of the CRC-16 itself cleared and no others.                             *)
THEOREM HeaderIsChecked == AccessSpec => []ChecksumsCoverHeader
<1>1. AccessInv => ChecksumsCoverHeader
  BY InvCovers DEF AccessInv
<1> QED BY <1>1, AccessInvariant, PTL

(* iter_extra never splits at a wrong place, and yields all the headers.   *)
THEOREM IterFollows == AccessSpec => []IterFollowsParser
<1>1. AccessInv => IterFollowsParser
  <2> SUFFICES ASSUME AccessInv PROVE IterFollowsParser
    OBVIOUS
  <2>1. ~walk.lost
    BY DEF AccessInv, WalkFollows
  <2>2. ASSUME pc = "answered" PROVE walk.k = Len(extras)
    BY <2>2, NextOfWalk DEF AccessInv, WalkFollows, Accepted
  <2> QED BY <2>1, <2>2 DEF IterFollowsParser
<1> QED BY <1>1, AccessInvariant, PTL

(* The comparison of the sizes in level 1 that comes last cannot fail: the *)
(* size of the data is never negative.                                     *)
DataSizeIsNatural == pc = "crc" /\ head.level = 1 => ExtrasLen <= head.compressed

(* parse_header subtracts the extra headers from the size in the header    *)
(* without underflow.                                                      *)
THEOREM NoUnderflow == AccessSpec => []DataSizeIsNatural
<1>1. AccessInv => DataSizeIsNatural
  BY DEF AccessInv, ParserInv, LengthsHold, Accepted, DataSizeIsNatural
<1> QED BY <1>1, AccessInvariant, PTL

-----------------------------------------------------------------------------
(* Dates. *)

(* Nanoseconds below a second are taken as they are.                       *)
LEMMA ScaleType ==
  /\ TicksPerSec \in Nat /\ TicksPerSec > 0 /\ NanosPerTick \in Nat /\ NanosPerTick > 0
  /\ NanosPerSec \in Nat /\ NanosPerSec > 0
  /\ U32 \in Nat /\ U32 >= 3 * NanosPerSec
<1>1. /\ TicksPerSec \in Nat /\ TicksPerSec > 0 /\ NanosPerTick \in Nat /\ NanosPerTick > 0
      /\ U32 >= 3 * NanosPerSec
  BY ScaleAssumption
<1>2. TicksPerSec * NanosPerTick \in Nat /\ TicksPerSec * NanosPerTick > 0
  BY ONLY <1>1
<1> QED BY <1>1, <1>2, U32Type DEF NanosPerSec

(* A product of a remainder.                                               *)
LEMMA BelowProduct ==
  ASSUME NEW r \in Nat, NEW t \in Nat, NEW n \in Nat, n > 0, r < t
  PROVE  r * n \in Nat /\ r * n < t * n
<1>1. PICK d \in Nat : t = r + d /\ d > 0
  <2>1. t - r \in Nat /\ t = r + (t - r) /\ t - r > 0
    OBVIOUS
  <2> QED BY <2>1
<1>2. t * n = r * n + d * n
  BY ONLY <1>1, r \in Nat, d \in Nat, n \in Nat
<1>3. d * n > 0 /\ d * n \in Nat /\ r * n \in Nat
  BY ONLY <1>1, r \in Nat, d \in Nat, n \in Nat, n > 0
<1> QED BY ONLY <1>2, <1>3

(* Division leaves a remainder.                                            *)
LEMMA Division ==
  ASSUME NEW a \in Nat, NEW t \in Nat, t > 0
  PROVE  \E q \in Nat, r \in Nat : q = a \div t /\ a = q * t + r /\ r < t /\ r = a % t
<1>1. a \div t \in Nat /\ a % t \in Nat /\ a % t < t
  OBVIOUS
<1>2. a = t * (a \div t) + (a % t)
  OBVIOUS
<1>3. t * (a \div t) = (a \div t) * t
  BY <1>1
<1> QED BY <1>1, <1>2, <1>3

(* Division that rounds towards zero: the remainder has the sign of the    *)
(* dividend.                                                               *)
LEMMA TruncDivision ==
  ASSUME NEW a \in Int, NEW t \in Nat, t > 0
  PROVE  \E r \in Int : /\ TruncDiv(a, t) \in Int
                        /\ a = TruncDiv(a, t) * t + r
                        /\ -t < r /\ r < t
                        /\ r < 0 => a < 0 /\ a % t # 0
<1>1. CASE a >= 0
  <2>1. PICK q \in Nat, r \in Nat : q = a \div t /\ a = q * t + r /\ r < t /\ r = a % t
    BY ONLY <1>1, a \in Int, t \in Nat, t > 0, Division
  <2>2. TruncDiv(a, t) = q
    BY ONLY <1>1, <2>1 DEF TruncDiv
  <2>3. r \in Int /\ -t < r /\ ~(r < 0) /\ q \in Int
    BY ONLY <2>1, t \in Nat, r \in Nat, q \in Nat
  <2> QED BY ONLY <2>1, <2>2, <2>3, Zenon
<1>2. CASE ~(a >= 0)
  <2>0. PICK b \in Nat : b = -a /\ b > 0
    BY ONLY <1>2, a \in Int
  <2>1. PICK q \in Nat, s \in Nat : q = b \div t /\ b = q * t + s /\ s < t /\ s = b % t
    BY ONLY Division, b \in Nat, t \in Nat, t > 0
  <2>2. TruncDiv(a, t) = -q
    BY ONLY <1>2, <2>0, <2>1 DEF TruncDiv
  <2>3. PICK p \in Nat : p = q * t
    BY ONLY q \in Nat, t \in Nat
  <2>4. (-q) * t = -p
    BY ONLY <2>3, q \in Nat, t \in Nat
  <2>5. a = -p + (-s)
    BY ONLY <2>0, <2>1, <2>3, a \in Int, s \in Nat, p \in Nat
  <2>6. -s \in Int /\ -t < -s /\ -s < t /\ -q \in Int
    BY ONLY <2>1, t \in Nat, s \in Nat, t > 0, q \in Nat
  <2>7. ASSUME -s < 0 PROVE a < 0 /\ a % t # 0
    <3>0. a < 0
      BY ONLY <1>2, a \in Int
    <3>1. SUFFICES ASSUME a % t = 0 PROVE FALSE
      BY <3>0, Zenon
    <3>2. a \div t \in Int /\ a = t * (a \div t)
      <4>1. a = t * (a \div t) + (a % t) /\ a \div t \in Int
        BY ONLY a \in Int, t \in Nat, t > 0
      <4>2. t * (a \div t) \in Int
        BY ONLY <4>1, t \in Nat
      <4> QED BY ONLY <3>1, <4>1, <4>2
    <3>3. PICK c \in Int : c = a \div t
      BY ONLY <3>2
    <3>4. s = t * (-c - q)
      <4>1. a = t * c /\ p = t * q
        BY ONLY <2>3, <3>2, <3>3, q \in Nat, t \in Nat
      <4>2. t * (-c - q) = -(t * c) - (t * q)
        BY ONLY t \in Nat, c \in Int, q \in Nat
      <4> QED BY ONLY <2>5, <4>1, <4>2, s \in Nat, p \in Nat, a \in Int
    <3>5. PICK d \in Int : d = -c - q
      <4>1. -c - q \in Int
        BY ONLY c \in Int, q \in Nat
      <4> QED BY ONLY <4>1, Zenon
    <3>6. s = t * d /\ s > 0 /\ s < t
      BY ONLY <2>1, <2>7, <3>4, <3>5, s \in Nat
    <3>7. CASE d <= 0
      <4>1. t * d <= 0
        BY ONLY <3>7, d \in Int, t \in Nat
      <4> QED BY ONLY <3>6, <4>1, s \in Nat
    <3>8. CASE d >= 1
      <4>1. t * d >= t
        BY ONLY <3>8, d \in Int, t \in Nat
      <4> QED BY ONLY <3>6, <4>1, s \in Nat, t \in Nat
    <3> QED BY ONLY <3>7, <3>8, d \in Int
  <2>8. a = TruncDiv(a, t) * t + (-s)
    BY ONLY <2>2, <2>4, <2>5, Zenon
  <2>9. TruncDiv(a, t) \in Int
    BY ONLY <2>2, <2>6
  <2> QED BY ONLY <2>6, <2>7, <2>8, <2>9, Zenon
<1> QED BY <1>1, <1>2

(* The nanoseconds of a remainder: exact if it is not negative, and out of *)
(* chrono's range if it is.                                                *)
LEMMA NanosOfRest ==
  ASSUME NEW r \in Int, -TicksPerSec < r, r < TicksPerSec
  PROVE  IF r >= 0 THEN Nanos(r) = r * NanosPerTick /\ Nanos(r) < 2 * NanosPerSec
                   ELSE ~(Nanos(r) < 2 * NanosPerSec)
<1>0. PICK t \in Nat : t = TicksPerSec /\ t > 0
  BY ONLY ScaleType
<1>n. PICK n \in Nat : n = NanosPerTick /\ n > 0
  BY ONLY ScaleType
<1>s. PICK s \in Nat : s = NanosPerSec /\ s > 0 /\ s = t * n
  BY ONLY ScaleType, <1>0, <1>n DEF NanosPerSec
<1>u. PICK u \in Nat : u = U32 /\ u >= 3 * s
  BY ONLY ScaleType, <1>s
<1>1. CASE r >= 0
  <2>1. r \in Nat /\ r < t
    BY ONLY <1>0, <1>1, r \in Int, r < TicksPerSec
  <2>2. r * n \in Nat /\ r * n < t * n
    BY ONLY <1>n, <2>1, BelowProduct, r \in Nat, t \in Nat, n \in Nat
  <2>3. PICK x \in Nat : x = r * n /\ x < s
    BY ONLY <1>s, <2>2
  <2>4. x < u /\ u > 0 /\ x < 2 * s
    BY ONLY <1>s, <1>u, <2>3, x \in Nat, s \in Nat, u \in Nat
  <2>5. x % u = x
    BY ONLY <2>4, Wraps, x \in Nat, u \in Nat
  <2>6. Nanos(r) = x
    BY ONLY <1>n, <1>u, <2>3, <2>5, Zenon DEF Nanos
  <2> QED BY ONLY <1>1, <1>n, <1>s, <2>3, <2>4, <2>6
<1>2. CASE ~(r >= 0)
  <2>1. PICK m \in Nat : m = -r /\ m > 0 /\ m < t
    BY ONLY <1>0, <1>2, r \in Int, -TicksPerSec < r
  <2>2. m * n \in Nat /\ m * n < t * n /\ m * n > 0
    <3>1. m * n > 0
      BY ONLY <1>n, <2>1, m \in Nat, n \in Nat
    <3> QED BY ONLY <1>n, <2>1, <3>1, BelowProduct, m \in Nat, t \in Nat, n \in Nat
  <2>3. PICK x \in Nat : x = m * n /\ x < s /\ x > 0
    BY ONLY <1>s, <2>2
  <2>4. r * n = -x
    <3>1. (-m) * n = -(m * n)
      BY ONLY m \in Nat, n \in Nat
    <3>2. r = -m
      BY ONLY <2>1, r \in Int
    <3> QED BY ONLY <2>3, <3>1, <3>2, Zenon
  <2>5. (-x) % u = u - x
    <3>1. u - x \in 0..(u - 1) /\ u > 0
      BY ONLY <1>s, <1>u, <2>3, x \in Nat, s \in Nat, u \in Nat
    <3>2. -x = u * (-1) + (u - x)
      BY ONLY x \in Nat, u \in Nat
    <3> QED BY ONLY <3>1, <3>2, x \in Nat, u \in Nat
  <2>6. Nanos(r) = u - x
    BY ONLY <1>n, <1>u, <2>4, <2>5, Zenon DEF Nanos
  <2>7. ~(u - x < 2 * s)
    BY ONLY <1>u, <2>3, x \in Nat, s \in Nat, u \in Nat
  <2> QED BY ONLY <1>2, <1>s, <2>6, <2>7
<1> QED BY <1>1, <1>2

(* parse_win_filetime: the instant to the tick, or none.                   *)
LEMMA FiletimeExact ==
  ASSUME NEW raw \in Nat
  PROVE  LET t  == ParseWinFiletime(raw)
             ft == raw - EpochTicks
         IN IF t = NoTime
            THEN raw >= I64Modulus \/ (ft < 0 /\ ft % TicksPerSec # 0)
            ELSE t.secs * NanosPerSec + t.nanos = ft * NanosPerTick
<1> DEFINE ft == raw - EpochTicks
           secs == TruncDiv(ft, TicksPerSec)
           r == ft - secs * TicksPerSec
<1>1. CASE raw >= I64Modulus
  <2>1. ParseWinFiletime(raw) = NoTime
    BY <1>1 DEF ParseWinFiletime
  <2> QED BY <1>1, <2>1
<1>2. CASE ~(raw >= I64Modulus)
  <2>1. ParseWinFiletime(raw) = TimestampOpt(secs, Nanos(r))
    BY ONLY <1>2, Zenon DEF ParseWinFiletime
  <2>2. ft \in Int
    BY ScaleAssumption
  <2> HIDE DEF ft
  <2>t. PICK t \in Nat : t = TicksPerSec /\ t > 0
    BY ONLY ScaleType
  <2>n. PICK n \in Nat : n = NanosPerTick /\ n > 0
    BY ONLY ScaleType
  <2>3. PICK x \in Int : /\ secs \in Int /\ ft = secs * t + x
                         /\ -t < x /\ x < t
                         /\ x < 0 => ft < 0 /\ ft % t # 0
    BY ONLY <2>2, <2>t, TruncDivision, t \in Nat
  <2> HIDE DEF secs
  <2>4. PICK p \in Int : p = secs * t
    BY ONLY <2>3, t \in Nat
  <2>5. r = x
    BY ONLY <2>2, <2>3, <2>4, <2>t, x \in Int DEF r
  <2>6. IF x >= 0 THEN Nanos(x) = x * NanosPerTick /\ Nanos(x) < 2 * NanosPerSec
                  ELSE ~(Nanos(x) < 2 * NanosPerSec)
    BY ONLY <2>3, <2>t, NanosOfRest, x \in Int
  <2> HIDE DEF r
  <2>7. CASE x >= 0
    <3>1. ParseWinFiletime(raw) = [kind |-> "utc", secs |-> secs, nanos |-> x * n]
      BY ONLY <2>1, <2>5, <2>6, <2>7, <2>n, Zenon DEF TimestampOpt
    <3>2. ParseWinFiletime(raw) # NoTime
      BY ONLY <3>1 DEF NoTime
    <3>3. ParseWinFiletime(raw).secs = secs /\ ParseWinFiletime(raw).nanos = x * n
      BY ONLY <3>1
    <3>4. secs * (t * n) + x * n = ft * n
      <4>1. secs * (t * n) = (secs * t) * n
        BY ONLY <2>3, t \in Nat, n \in Nat
      <4>2. (p + x) * n = p * n + x * n
        BY ONLY p \in Int, x \in Int, n \in Nat
      <4> QED BY ONLY <2>3, <2>4, <4>1, <4>2, Zenon
    <3> QED BY ONLY <2>t, <2>n, <3>2, <3>3, <3>4, Zenon DEF NanosPerSec, ft
  <2>8. CASE ~(x >= 0)
    <3>1. ParseWinFiletime(raw) = NoTime
      BY ONLY <2>1, <2>5, <2>6, <2>8, Zenon DEF TimestampOpt
    <3>2. ft < 0 /\ ft % TicksPerSec # 0
      BY ONLY <2>3, <2>8, <2>t, x \in Int
    <3> QED BY ONLY <3>1, <3>2, Zenon DEF ft
  <2> QED BY ONLY <2>7, <2>8, Zenon
<1> QED BY <1>1, <1>2

(* A 16-bit word cut at two of its bits.                                   *)
LEMMA WordParts ==
  ASSUME NEW w \in Nat, NEW n \in {16, 64}
  PROVE  (32 * n) * (w \div (32 * n)) + 32 * ((w \div 32) % n) + (w % 32) = w
<1>1. PICK q \in Nat, r \in Nat : q = w \div 32 /\ w = q * 32 + r /\ r < 32 /\ r = w % 32
  BY ONLY Division, w \in Nat
<1>2. PICK y \in Nat, m \in Nat : y = q \div n /\ q = y * n + m /\ m < n /\ m = q % n
  BY ONLY Division, q \in Nat, n \in {16, 64}
<1>3. CASE n = 16
  <2>1. w = 512 * y + (32 * m + r) /\ 32 * m + r < 512
    BY ONLY <1>1, <1>2, <1>3, q \in Nat, r \in Nat, y \in Nat, m \in Nat
  <2>2. w \div 512 = y
    BY ONLY <2>1, w \in Nat, y \in Nat, m \in Nat, r \in Nat
  <2> QED BY ONLY <1>1, <1>2, <1>3, <2>1, <2>2, y \in Nat, m \in Nat, r \in Nat
<1>4. CASE n = 64
  <2>1. w = 2048 * y + (32 * m + r) /\ 32 * m + r < 2048
    BY ONLY <1>1, <1>2, <1>4, q \in Nat, r \in Nat, y \in Nat, m \in Nat
  <2>2. w \div 2048 = y
    BY ONLY <2>1, w \in Nat, y \in Nat, m \in Nat, r \in Nat
  <2> QED BY ONLY <1>1, <1>2, <1>4, <2>1, <2>2, y \in Nat, m \in Nat, r \in Nat
<1> QED BY <1>3, <1>4

(* parse_msdos_datetime can be undone.                                     *)
LEMMA MsdosExact ==
  ASSUME NEW dt \in Nat, NEW tm \in Nat
  PROVE  <<dt, tm>> = MsdosWords(MsdosFields(dt, tm))
<1> DEFINE f == MsdosFields(dt, tm)
<1>1. /\ f.year = 1980 + dt \div 512 /\ f.mon = (dt \div 32) % 16 /\ f.day = dt % 32
      /\ f.hour = tm \div 2048 /\ f.min = (tm \div 32) % 64 /\ f.sec = 2 * (tm % 32)
  BY DEF MsdosFields
<1> HIDE DEF f
<1>2. 512 * (f.year - 1980) + 32 * f.mon + f.day = dt
  <2>1. 512 * (dt \div 512) + 32 * ((dt \div 32) % 16) + (dt % 32) = dt
    BY ONLY WordParts, dt \in Nat
  <2>2. PICK y \in Nat : y = dt \div 512
    BY ONLY dt \in Nat
  <2>3. f.year - 1980 = y
    BY ONLY <1>1, <2>2, y \in Nat
  <2> QED BY ONLY <1>1, <2>1, <2>2, <2>3
<1>3. 2048 * f.hour + 32 * f.min + f.sec \div 2 = tm
  <2>1. 2048 * (tm \div 2048) + 32 * ((tm \div 32) % 64) + (tm % 32) = tm
    BY ONLY WordParts, tm \in Nat
  <2>2. PICK r \in Nat : r = tm % 32
    BY ONLY tm \in Nat
  <2>3. f.sec \div 2 = r
    BY ONLY <1>1, <2>2, r \in Nat
  <2> QED BY ONLY <1>1, <2>1, <2>2, <2>3
<1>4. <<dt, tm>> = <<512 * (f.year - 1980) + 32 * f.mon + f.day,
                     2048 * f.hour + 32 * f.min + f.sec \div 2>>
  BY ONLY <1>2, <1>3
<1> QED BY ONLY <1>4 DEF f, MsdosWords

(* The dates that the walk can find. *)
FoundDate(d) ==
  \/ d = NoDate
  \/ \E ts \in UnixTimes : d = Date("unix", ts, TimestampOpt(ts, 0))
  \/ \E ft \in Filetimes : d = Date("filetime", ft, ParseWinFiletime(ft))

(* The dates that parse_last_modified can answer. *)
AnsweredDate(d) ==
  \/ d # NoDate /\ FoundDate(d)
  \/ \E ts \in UnixTimes : d = Date("field", ts, TimestampOpt(ts, 0))
  \/ \E ts \in UnixTimes : d = Date("area", ts, TimestampOpt(ts, 0))
  \/ \E ts \in MsdosTimes : d = Date("msdos", ts, ParseMsdosDatetime(ts[1], ts[2]))

DateComesFromHeader ==
  /\ "date" \in DOMAIN acc
  /\ IF pc = "answered" THEN AnsweredDate(acc.date) ELSE FoundDate(acc.date)

(* An extra header sets the date from its own contents, or leaves it.      *)
LEMMA VisitDate ==
  ASSUME "date" \in DOMAIN acc, FoundDate(acc.date),
         NEW id, NEW n, NEW data \in Contents(id, n)
  PROVE  "date" \in DOMAIN Visit(id, n, data) /\ FoundDate(Visit(id, n, data).date)
<1> DEFINE v == Visit(id, n, data)
<1>1. \/ v = [acc EXCEPT !.filename = ParseStrNilterm(data, Nilterm, FALSE),
                         !.raw = data, !.renamed = TRUE]
      \/ v = [acc EXCEPT !.buf = ParsePathname(data, @), !.str = ParsePathnameToStr(data, @)]
      \/ v = [acc EXCEPT !.comment = FirstComment(@, ParseStrNilterm(data, FALSE, TRUE))]
      \/ /\ id = "unix_time"
         /\ v = [acc EXCEPT !.date = Date("unix", data, TimestampOpt(data, 0))]
      \/ /\ id = "msdos_time"
         /\ v = [acc EXCEPT !.date = Date("filetime", data, ParseWinFiletime(data))]
      \/ v = acc
  BY ONLY Zenon DEF Visit
<1> HIDE DEF v
<1>2. CASE v = [acc EXCEPT !.filename = ParseStrNilterm(data, Nilterm, FALSE),
                           !.raw = data, !.renamed = TRUE]
  BY ONLY <1>2, "date" \in DOMAIN acc, FoundDate(acc.date), Zenon DEF v
<1>3. CASE v = [acc EXCEPT !.buf = ParsePathname(data, @),
                           !.str = ParsePathnameToStr(data, @)]
  BY ONLY <1>3, "date" \in DOMAIN acc, FoundDate(acc.date), Zenon DEF v
<1>4. CASE v = [acc EXCEPT !.comment = FirstComment(@, ParseStrNilterm(data, FALSE, TRUE))]
  BY ONLY <1>4, "date" \in DOMAIN acc, FoundDate(acc.date), Zenon DEF v
<1>5. CASE /\ id = "unix_time"
           /\ v = [acc EXCEPT !.date = Date("unix", data, TimestampOpt(data, 0))]
  <2>1. "date" \in DOMAIN v /\ v.date = Date("unix", data, TimestampOpt(data, 0))
    BY ONLY <1>5, "date" \in DOMAIN acc, Zenon
  <2>2. data \in UnixTimes
    <3>1. /\ id \notin {"filename", "path", "comment"} /\ id = "unix_time"
          /\ id # "msdos_time"
      BY <1>5
    <3>2. Contents(id, n) = UnixTimes
      BY ONLY <3>1, Zenon DEF Contents
    <3> QED BY <3>2
  <2> QED BY ONLY <2>1, <2>2, Zenon DEF FoundDate, v
<1>6. CASE /\ id = "msdos_time"
           /\ v = [acc EXCEPT !.date = Date("filetime", data, ParseWinFiletime(data))]
  <2>1. "date" \in DOMAIN v /\ v.date = Date("filetime", data, ParseWinFiletime(data))
    BY ONLY <1>6, "date" \in DOMAIN acc, Zenon
  <2>2. data \in Filetimes
    <3>1. /\ id \notin {"filename", "path", "comment"} /\ id = "msdos_time"
          /\ id # "unix_time"
      BY <1>6
    <3>2. Contents(id, n) = Filetimes
      BY ONLY <3>1, Zenon DEF Contents
    <3> QED BY <3>2
  <2> QED BY ONLY <2>1, <2>2, Zenon DEF FoundDate, v
<1>7. CASE v = acc
  BY ONLY <1>7, "date" \in DOMAIN acc, FoundDate(acc.date), Zenon DEF v
<1> QED BY ONLY <1>1, <1>2, <1>3, <1>4, <1>5, <1>6, <1>7, Zenon

(* The answer changes the date to one of LastModified.                     *)
LEMMA AnswerDate ==
  ASSUME DateComesFromHeader, Answer
  PROVE  DateComesFromHeader'
<1>1. pc = "some" /\ pc' = "answered" /\ pc # "answered"
  BY DEF Answer
<1>2. PICK field \in TextsOf(head.filename), date \in LastModified :
        acc' = [acc EXCEPT !.buf = PathBuf(field), !.str = PathStr(field),
                           !.comment = Comment(field), !.date = date]
  BY DEF Answer
<1>3. "date" \in DOMAIN acc /\ FoundDate(acc.date)
  BY <1>1 DEF DateComesFromHeader
<1>4. "date" \in DOMAIN acc' /\ acc'.date = date
  BY ONLY <1>2, <1>3, Zenon
<1>5. AnsweredDate(date)
  <2>1. date \in LastModified
    BY <1>2
  <2> QED BY ONLY <1>3, <2>1, Zenon DEF LastModified, AnsweredDate
<1> QED BY ONLY <1>1, <1>4, <1>5, Zenon DEF DateComesFromHeader

(* Every step keeps the date to what the header holds.                     *)
LEMMA DateStep ==
  ASSUME AccessInv, DateComesFromHeader, [AccessNext]_allVars
  PROVE  DateComesFromHeader'
<1>1. CASE Parse
  <2>1. pc # "answered" /\ pc' # "answered" /\ acc' = acc
    BY <1>1, ParserHasReturned, OnlyCheckCrcAccepts DEF Parse, AccessInv, Accepted
  <2> QED BY ONLY DateComesFromHeader, <2>1, Zenon DEF DateComesFromHeader
<1>2. CASE IterNext
  <2>1. pc # "answered" /\ pc' # "answered"
    BY <1>2 DEF IterNext, vars
  <2>a. PICK id \in Identifiers, n \in Int : \E data \in Contents(id, n) :
                                               acc' = Visit(id, n, data)
    BY ONLY <1>2, AccessInv, WalkIterNext, Zenon DEF AccessInv
  <2>2. PICK data \in Contents(id, n) : acc' = Visit(id, n, data)
    BY ONLY <2>a, Zenon
  <2>3. "date" \in DOMAIN acc /\ FoundDate(acc.date)
    BY ONLY <2>1, DateComesFromHeader, Zenon DEF DateComesFromHeader
  <2>4. "date" \in DOMAIN Visit(id, n, data) /\ FoundDate(Visit(id, n, data).date)
    BY ONLY <2>3, VisitDate, data \in Contents(id, n), Zenon
  <2> QED BY ONLY <2>1, <2>2, <2>4, Zenon DEF DateComesFromHeader
<1>3. CASE Answer
  BY <1>3, AnswerDate
<1>4. CASE UNCHANGED allVars
  <2>1. pc' = pc /\ acc' = acc
    BY <1>4 DEF allVars, vars
  <2> QED BY ONLY DateComesFromHeader, <2>1, Zenon DEF DateComesFromHeader
<1> QED BY <1>1, <1>2, <1>3, <1>4 DEF AccessNext, Ended

(* A number of seconds is answered as it is.                               *)
LEMMA UnixTimeExact ==
  ASSUME NEW ts
  PROVE  /\ TimestampOpt(ts, 0) # NoTime
         /\ TimestampOpt(ts, 0).secs = ts /\ TimestampOpt(ts, 0).nanos = 0
<1>1. 0 < 2 * NanosPerSec
  BY ScaleType
<1>2. TimestampOpt(ts, 0) = [kind |-> "utc", secs |-> ts, nanos |-> 0]
  BY ONLY <1>1, Zenon DEF TimestampOpt
<1> QED BY ONLY <1>2 DEF NoTime

(* The words of an MS-DOS date.                                            *)
LEMMA WordsAreNats == Words \subseteq Nat
BY DEF Words

(* The words of a day and of a time of day are taken apart as they were    *)
(* put together.                                                           *)
LEMMA DatesAreAnswered ==
  ASSUME NEW date \in DateWords, NEW time \in TimeWords
  PROVE  IsDate(MsdosFields(date, time))
<1>a. PICK e \in (1980..2107) \X (1..12) \X (1..31) :
        e[3] <= DaysIn(e[1], e[2]) /\ date = 512 * (e[1] - 1980) + 32 * e[2] + e[3]
  BY ONLY date \in DateWords DEF DateWords
<1>b. PICK y \in 1980..2107 : y = e[1]
  BY ONLY e \in (1980..2107) \X (1..12) \X (1..31)
<1>c. PICK m \in 1..12 : m = e[2]
  BY ONLY e \in (1980..2107) \X (1..12) \X (1..31)
<1>d. PICK d \in 1..31 : d = e[3]
  BY ONLY e \in (1980..2107) \X (1..12) \X (1..31)
<1>1. d <= DaysIn(y, m) /\ date = 512 * (y - 1980) + 32 * m + d
  BY ONLY <1>a, <1>b, <1>c, <1>d
<1>e. PICK t \in (0..23) \X (0..59) \X (0..29) : time = 2048 * t[1] + 32 * t[2] + t[3]
  BY ONLY time \in TimeWords DEF TimeWords
<1>f. PICK h \in 0..23 : h = t[1]
  BY ONLY t \in (0..23) \X (0..59) \X (0..29)
<1>g. PICK mi \in 0..59 : mi = t[2]
  BY ONLY t \in (0..23) \X (0..59) \X (0..29)
<1>h. PICK s \in 0..29 : s = t[3]
  BY ONLY t \in (0..23) \X (0..59) \X (0..29)
<1>2. time = 2048 * h + 32 * mi + s
  BY ONLY <1>e, <1>f, <1>g, <1>h
<1>3. PICK a \in 0..127 : a = y - 1980 /\ y = 1980 + a
  BY ONLY y \in 1980..2107
<1>4. date \div 512 = a /\ date \div 32 = 16 * a + m /\ date % 32 = d
  BY ONLY <1>1, <1>3, a \in 0..127, m \in 1..12, d \in 1..31
<1>5. (date \div 32) % 16 = m
  BY ONLY <1>4, a \in 0..127, m \in 1..12
<1>6. time \div 2048 = h /\ time \div 32 = 64 * h + mi /\ time % 32 = s
  BY ONLY <1>2, h \in 0..23, mi \in 0..59, s \in 0..29
<1>7. (time \div 32) % 64 = mi
  BY ONLY <1>6, h \in 0..23, mi \in 0..59
<1> DEFINE f == MsdosFields(date, time)
<1>8. f.year = y /\ f.mon = m /\ f.day = d /\ f.hour = h /\ f.min = mi /\ f.sec = 2 * s
  BY ONLY <1>3, <1>4, <1>5, <1>6, <1>7 DEF MsdosFields
<1> HIDE DEF f
<1>9. f.day \in 1..DaysIn(f.year, f.mon)
  <2>1. DaysIn(y, m) \in Nat
    BY ONLY m \in 1..12 DEF DaysIn
  <2>2. d \in 1..DaysIn(y, m)
    BY ONLY <1>1, <2>1, d \in 1..31
  <2>3. DaysIn(f.year, f.mon) = DaysIn(y, m)
    BY ONLY <1>8
  <2> QED BY ONLY <1>8, <2>2, <2>3
<1>10. f.mon \in 1..12 /\ f.hour < 24 /\ f.min < 60 /\ f.sec < 60
  BY ONLY <1>8, m \in 1..12, h \in 0..23, mi \in 0..59, s \in 0..29
<1> QED BY ONLY <1>9, <1>10 DEF IsDate, f

(* A date that was found or stored in the header is exact.                 *)
LEMMA AnsweredIsExact ==
  ASSUME AnsweredDate(acc.date)
  PROVE  DateIsExact
<1>0. ASSUME NEW source, NEW raw, NEW t
      PROVE  /\ Date(source, raw, t).source = source
             /\ Date(source, raw, t).raw = raw
             /\ Date(source, raw, t).time = t
  BY DEF Date
<1>1. ASSUME acc.date.source \notin {"filetime", "msdos"},
             \E ts \in UnixTimes : acc.date.raw = ts /\ acc.date.time = TimestampOpt(ts, 0)
      PROVE  DateIsExact
  <2>1. acc.date.time # NoTime /\ acc.date.time.secs = acc.date.raw /\ acc.date.time.nanos = 0
    BY ONLY <1>1, UnixTimeExact
  <2>2. acc.date.source # "filetime" /\ acc.date.source # "msdos"
    BY ONLY <1>1
  <2> QED BY ONLY <2>1, <2>2, Zenon DEF DateIsExact
<1>2. ASSUME NEW ft \in Filetimes, acc.date = Date("filetime", ft, ParseWinFiletime(ft))
      PROVE  DateIsExact
  <2>1. /\ acc.date.source = "filetime" /\ acc.date.raw = ft
        /\ acc.date.time = ParseWinFiletime(ft)
    BY ONLY <1>0, <1>2
  <2>2. ft \in Nat
    BY ONLY TimesAssumption, ft \in Filetimes, Zenon
  <2>3. IF acc.date.time = NoTime
        THEN \/ acc.date.raw >= I64Modulus
             \/ /\ acc.date.raw - EpochTicks < 0
                /\ (acc.date.raw - EpochTicks) % TicksPerSec # 0
        ELSE acc.date.time.secs * NanosPerSec + acc.date.time.nanos =
               (acc.date.raw - EpochTicks) * NanosPerTick
    BY ONLY <2>1, <2>2, FiletimeExact, Zenon
  <2>4. acc.date.source = "filetime" /\ acc.date.source # "msdos"
    BY ONLY <2>1
  <2> QED BY ONLY <2>3, <2>4, Zenon DEF DateIsExact
<1>3. ASSUME NEW ts \in MsdosTimes,
             acc.date = Date("msdos", ts, ParseMsdosDatetime(ts[1], ts[2]))
      PROVE  DateIsExact
  <2>a. ts \in Words \X Words
    BY ONLY MsdosAssumption, ts \in MsdosTimes
  <2>1. PICK dt \in Words, tm \in Words : ts = <<dt, tm>>
    BY ONLY <2>a
  <2>2. /\ acc.date.source = "msdos" /\ acc.date.source # "filetime"
        /\ acc.date.raw = <<dt, tm>>
        /\ acc.date.time = ParseMsdosDatetime(dt, tm)
    BY ONLY <1>0, <1>3, <2>1
  <2>3. CASE acc.date.time = NoTime
    <3>1. ~IsDate(MsdosFields(dt, tm))
      <4>1. ASSUME IsDate(MsdosFields(dt, tm)) PROVE FALSE
        <5>1. acc.date.time = [kind |-> "naive", fields |-> MsdosFields(dt, tm)]
          BY ONLY <2>2, <4>1, Zenon DEF ParseMsdosDatetime
        <5> QED BY ONLY <2>3, <5>1 DEF NoTime
      <4> QED BY <4>1
    <3>2. ~(dt \in DateWords /\ tm \in TimeWords)
      BY ONLY <3>1, DatesAreAnswered
    <3>3. acc.date.raw \notin DateWords \X TimeWords
      BY ONLY <2>2, <3>2
    <3> QED BY ONLY <2>2, <2>3, <3>3, Zenon DEF DateIsExact
  <2>4. CASE acc.date.time # NoTime
    <3>1. acc.date.time = [kind |-> "naive", fields |-> MsdosFields(dt, tm)]
      BY ONLY <2>2, <2>4, Zenon DEF ParseMsdosDatetime
    <3>2. acc.date.time.fields = MsdosFields(dt, tm)
      BY ONLY <3>1
    <3>3. acc.date.raw = MsdosWords(acc.date.time.fields)
      <4>1. dt \in Nat /\ tm \in Nat
        BY ONLY WordsAreNats, dt \in Words, tm \in Words, Zenon
      <4> QED BY ONLY <2>2, <3>2, <4>1, MsdosExact
    <3>4. IsDate(acc.date.time.fields)
      <4>1. IsDate(MsdosFields(dt, tm))
        BY ONLY <2>2, <2>4, Zenon DEF ParseMsdosDatetime
      <4> QED BY ONLY <3>2, <4>1, Zenon
    <3> QED BY ONLY <2>2, <2>4, <3>3, <3>4, Zenon DEF DateIsExact
  <2> QED BY <2>3, <2>4
<1>4. ASSUME NEW ts \in UnixTimes, NEW source \in {"unix", "field", "area"},
             acc.date = Date(source, ts, TimestampOpt(ts, 0))
      PROVE  DateIsExact
  <2>1. /\ acc.date.source = source /\ acc.date.raw = ts
        /\ acc.date.time = TimestampOpt(ts, 0)
    BY ONLY <1>0, <1>4
  <2>2. acc.date.source \notin {"filetime", "msdos"}
    BY ONLY <2>1, source \in {"unix", "field", "area"}
  <2> QED BY ONLY <1>1, <2>1, <2>2, ts \in UnixTimes, Zenon
<1> QED BY ONLY <1>2, <1>3, <1>4, AnsweredDate(acc.date), Zenon DEF AnsweredDate, FoundDate

(* parse_last_modified answers the instant that was stored, to the tick.   *)
(* It answers none only to words that are no MS-DOS date, to a FILETIME    *)
(* that is no i64, and to one before 1970 with a fraction of a second.     *)
THEOREM DatesAreExact == AccessSpec => []DateIsExact
<1>1. AccessInit => DateComesFromHeader
  <2> SUFFICES ASSUME AccessInit PROVE DateComesFromHeader
    OBVIOUS
  <2>1. pc # "answered"
    BY DEF AccessInit, Init
  <2>2. "date" \in DOMAIN acc /\ acc.date = NoDate
    BY DEF AccessInit
  <2> QED BY ONLY <2>1, <2>2, Zenon DEF DateComesFromHeader, FoundDate
<1>2. AccessInv /\ DateComesFromHeader /\ [AccessNext]_allVars => DateComesFromHeader'
  BY DateStep
<1>3. DateComesFromHeader => DateIsExact
  <2>1. ASSUME DateComesFromHeader, pc = "answered" PROVE DateIsExact
    BY <2>1, AnsweredIsExact DEF DateComesFromHeader
  <2>2. ASSUME pc # "answered" PROVE DateIsExact
    BY ONLY <2>2, Zenon DEF DateIsExact
  <2> QED BY <2>1, <2>2
<1> QED BY <1>1, <1>2, <1>3, AccessInvariant, PTL DEF AccessSpec

-----------------------------------------------------------------------------
(* Induction over sequences. *)

(* A set of natural numbers that is not empty has a least element.         *)
LEMMA Least ==
  ASSUME NEW S \in SUBSET Nat, S # {}
  PROVE  \E x \in S : \A y \in S : x <= y
<1> DEFINE R == OpToRel(<, Nat)
<1>1. IsWellFoundedOn(R, Nat)
  BY ONLY NatLessThanWellFounded, Zenon
<1>2. PICK x \in S : \A y \in S : ~ (<<y, x>> \in R)
  <2> HIDE DEF R
  <2> QED BY ONLY WFMin, <1>1, S \subseteq Nat, S # {}, Zenon
<1>3. \A y \in S : ~(y < x)
  BY <1>2 DEF OpToRel
<1> QED BY <1>3, SMT

(* A set that holds the empty sequence, and with a sequence every longer   *)
(* one by an element, holds all of them.                                   *)
LEMMA SeqInduction ==
  ASSUME NEW A, NEW S, <<>> \in S,
         \A t \in Seq(A) : t \in S => \A c \in A : Append(t, c) \in S
  PROVE  \A s \in Seq(A) : s \in S
<1> SUFFICES ASSUME NEW s \in Seq(A), s \notin S PROVE FALSE
  OBVIOUS
<1> DEFINE R == {n \in Nat : \E u \in Seq(A) : u \notin S /\ Len(u) = n}
<1>1. PICK n \in R : \A m \in R : n <= m
  <2>1. Len(s) \in Nat
    BY LenProperties
  <2>2. Len(s) \in R
    BY ONLY <2>1, s \in Seq(A), s \notin S
  <2>3. R \in SUBSET Nat /\ R # {}
    BY ONLY <2>2
  <2> HIDE DEF R
  <2> QED BY ONLY <2>3, Least
<1>2. PICK u \in Seq(A) : u \notin S /\ Len(u) = n
  BY ONLY <1>1
<1>3. PICK t \in Seq(A), c \in A : u = Append(t, c)
  <2>1. u # <<>>
    BY ONLY <1>2, <<>> \in S
  <2> QED BY ONLY <2>1, u \in Seq(A), SequenceEmptyOrAppend
<1>4. Len(t) \in Nat /\ n = Len(t) + 1
  BY ONLY <1>2, <1>3, t \in Seq(A), c \in A, LenProperties, AppendProperties
<1>5. t \in S
  <2>1. ASSUME t \notin S PROVE FALSE
    <3>1. Len(t) \in R
      BY ONLY <1>4, <2>1, t \in Seq(A)
    <3> HIDE DEF R
    <3> QED BY ONLY <1>1, <1>4, <3>1
  <2> QED BY ONLY <2>1
<1>6. u \in S
  BY ONLY <1>3, <1>5, t \in Seq(A), c \in A,
          \A v \in Seq(A) : v \in S => \A d \in A : Append(v, d) \in S
<1> QED BY ONLY <1>2, <1>6

-----------------------------------------------------------------------------
(* Splitting.  A run is a function that satisfies the equation of a loop.  *)

SplitRun(f, data, seps) ==
  f = [n \in 0..Len(data) |->
         IF n = 0 THEN << <<>> >> ELSE AddChar(f[n - 1], data[n], seps)]

(* Every run of the loop ends with the same parts.                         *)
SplitRuns(data, seps) ==
  /\ \E f : SplitRun(f, data, seps)
  /\ \A f : SplitRun(f, data, seps) => f[Len(data)] = Split(data, seps)

(* The function of Split is a run if there is one.                         *)
LEMMA SplitIsRun ==
  ASSUME NEW data, NEW seps, NEW g, SplitRun(g, data, seps)
  PROVE  \E f : SplitRun(f, data, seps) /\ Split(data, seps) = f[Len(data)]
<1> DEFINE Q(f) == [n \in 0..Len(data) |->
                      IF n = 0 THEN << <<>> >> ELSE AddChar(f[n - 1], data[n], seps)]
           F == CHOOSE f : f = Q(f)
<1>1. g = Q(g)
  BY DEF SplitRun
<1>2. F = Q(F)
  <2> HIDE DEF Q
  <2> QED BY ONLY <1>1
<1>3. Split(data, seps) = F[Len(data)]
  BY DEF Split
<1>4. SplitRun(F, data, seps)
  <2> HIDE DEF F
  <2> QED BY ONLY <1>2 DEF SplitRun
<1> HIDE DEF F
<1> QED BY ONLY <1>3, <1>4

(* Nothing to split is one part.                                           *)
LEMMA SplitNil ==
  ASSUME NEW seps
  PROVE  SplitRuns(<<>>, seps) /\ Split(<<>>, seps) = << <<>> >>
<1>0. Len(<<>>) = 0 /\ 0..0 = {0}
  OBVIOUS
<1>1. ASSUME NEW f, SplitRun(f, <<>>, seps) PROVE f[0] = << <<>> >>
  BY ONLY <1>0, <1>1 DEF SplitRun
<1>2. SplitRun([n \in 0..0 |-> << <<>> >>], <<>>, seps)
  BY ONLY <1>0 DEF SplitRun
<1>3. PICK f : SplitRun(f, <<>>, seps) /\ Split(<<>>, seps) = f[Len(<<>>)]
  BY ONLY <1>2, SplitIsRun, Zenon
<1>4. Split(<<>>, seps) = << <<>> >>
  BY ONLY <1>0, <1>1, <1>3
<1> QED BY ONLY <1>0, <1>1, <1>2, <1>4, Zenon DEF SplitRuns

(* One more character is one more turn.                                    *)
LEMMA SplitMore ==
  ASSUME NEW A, NEW t \in Seq(A), NEW c \in A, NEW seps, SplitRuns(t, seps)
  PROVE  /\ SplitRuns(Append(t, c), seps)
         /\ Split(Append(t, c), seps) = AddChar(Split(t, seps), c, seps)
<1> DEFINE m == Len(t)
           u == Append(t, c)
<1>1. /\ m \in Nat /\ Len(u) = m + 1 /\ u[m + 1] = c
      /\ \A n \in 1..m : u[n] = t[n]
  BY ONLY t \in Seq(A), c \in A, LenProperties, AppendProperties
<1> HIDE DEF m, u
<1>2. ASSUME NEW f, SplitRun(f, u, seps)
      PROVE  /\ f[m + 1] = AddChar(f[m], c, seps)
             /\ SplitRun([n \in 0..m |-> f[n]], t, seps)
  <2>1. \A n \in 0..m+1 : f[n] = IF n = 0 THEN << <<>> >> ELSE AddChar(f[n - 1], u[n], seps)
    BY ONLY <1>1, <1>2 DEF SplitRun
  <2>2. m + 1 \in 0..m+1 /\ m + 1 # 0 /\ (m + 1) - 1 = m
    BY ONLY <1>1
  <2>3. f[m + 1] = AddChar(f[m], c, seps)
    BY ONLY <1>1, <2>1, <2>2
  <2> DEFINE e == [n \in 0..m |-> f[n]]
  <2>4. \A n \in 0..m : e[n] = f[n]
    OBVIOUS
  <2>5. e = [n \in 0..m |-> e[n]]
    OBVIOUS
  <2> HIDE DEF e
  <2>6. ASSUME NEW n \in 0..m
        PROVE  e[n] = IF n = 0 THEN << <<>> >> ELSE AddChar(e[n - 1], t[n], seps)
    <3>1. CASE n = 0
      BY ONLY <2>1, <2>4, <3>1, <1>1
    <3>2. CASE n # 0
      <4>1. n \in 0..m+1 /\ n - 1 \in 0..m /\ n \in 1..m
        BY ONLY <3>2, n \in 0..m, <1>1
      <4> QED BY ONLY <1>1, <2>1, <2>4, <3>2, <4>1, n \in 0..m
    <3> QED BY ONLY <3>1, <3>2
  <2>7. SplitRun(e, t, seps)
    BY ONLY <2>5, <2>6 DEF SplitRun, m
  <2> QED BY ONLY <2>3, <2>7 DEF e
<1>3. ASSUME NEW f, SplitRun(f, u, seps)
      PROVE  f[m + 1] = AddChar(Split(t, seps), c, seps)
  <2> DEFINE e == [n \in 0..m |-> f[n]]
  <2>1. f[m + 1] = AddChar(f[m], c, seps) /\ SplitRun(e, t, seps)
    BY ONLY <1>2, <1>3
  <2>2. e[m] = f[m]
    BY ONLY <1>1
  <2>3. e[m] = Split(t, seps)
    <3> HIDE DEF e
    <3> QED BY ONLY <2>1, SplitRuns(t, seps), Zenon DEF SplitRuns, m
  <2> QED BY ONLY <2>1, <2>2, <2>3
<1>4. PICK e : SplitRun(e, t, seps)
  BY ONLY SplitRuns(t, seps) DEF SplitRuns
<1> DEFINE g == [n \in 0..m+1 |-> IF n = m + 1 THEN AddChar(e[m], c, seps) ELSE e[n]]
<1>5. SplitRun(g, u, seps)
  <2>1. \A n \in 0..m : e[n] = IF n = 0 THEN << <<>> >> ELSE AddChar(e[n - 1], t[n], seps)
    BY ONLY <1>4 DEF SplitRun, m
  <2>2. \A n \in 0..m+1 : g[n] = IF n = m + 1 THEN AddChar(e[m], c, seps) ELSE e[n]
    OBVIOUS
  <2>3. g = [n \in 0..m+1 |-> g[n]]
    OBVIOUS
  <2> HIDE DEF g
  <2>4. ASSUME NEW n \in 0..m+1
        PROVE  g[n] = IF n = 0 THEN << <<>> >> ELSE AddChar(g[n - 1], u[n], seps)
    <3>1. CASE n = m + 1
      <4>1. n # 0 /\ n - 1 = m /\ m \in 0..m+1 /\ m # m + 1
        BY ONLY <3>1, <1>1
      <4> QED BY ONLY <1>1, <2>2, <3>1, <4>1, n \in 0..m+1
    <3>2. CASE n = 0
      <4>1. 0 \in 0..m+1 /\ 0 \in 0..m /\ 0 # m + 1
        BY ONLY <1>1
      <4> QED BY ONLY <2>1, <2>2, <3>2, <4>1
    <3>3. CASE n # 0 /\ n # m + 1
      <4>1. n \in 0..m /\ n \in 1..m /\ n - 1 \in 0..m+1 /\ n - 1 # m + 1
        BY ONLY <3>3, n \in 0..m+1, <1>1
      <4> QED BY ONLY <1>1, <2>1, <2>2, <3>3, <4>1, n \in 0..m+1
    <3> QED BY ONLY <3>1, <3>2, <3>3
  <2> QED BY ONLY <1>1, <2>3, <2>4 DEF SplitRun
<1> HIDE DEF g
<1>6. PICK f : SplitRun(f, u, seps) /\ Split(u, seps) = f[Len(u)]
  BY ONLY <1>5, SplitIsRun, Zenon
<1>7. Split(u, seps) = AddChar(Split(t, seps), c, seps)
  BY ONLY <1>1, <1>3, <1>6
<1>8. SplitRuns(u, seps)
  BY ONLY <1>1, <1>3, <1>5, <1>7, Zenon DEF SplitRuns
<1> QED BY ONLY <1>7, <1>8 DEF u

(* Split, one character after the other.                                   *)
LEMMA SplitAppend ==
  ASSUME NEW A, NEW s \in Seq(A), NEW c \in A, NEW seps
  PROVE  Split(Append(s, c), seps) = AddChar(Split(s, seps), c, seps)
<1> DEFINE S == {t \in Seq(A) : SplitRuns(t, seps)}
<1>1. <<>> \in S
  BY SplitNil
<1>2. ASSUME NEW t \in Seq(A), t \in S, NEW d \in A PROVE Append(t, d) \in S
  <2>1. SplitRuns(t, seps)
    BY ONLY <1>2
  <2>2. SplitRuns(Append(t, d), seps)
    BY ONLY <2>1, t \in Seq(A), d \in A, SplitMore
  <2>3. Append(t, d) \in Seq(A)
    BY ONLY t \in Seq(A), d \in A, AppendProperties
  <2> QED BY ONLY <2>2, <2>3
<1>3. s \in S
  <2> HIDE DEF S
  <2> QED BY ONLY <1>1, <1>2, s \in Seq(A), SeqInduction, Zenon
<1>4. SplitRuns(s, seps)
  BY ONLY <1>3
<1> QED BY ONLY <1>4, s \in Seq(A), c \in A, SplitMore

-----------------------------------------------------------------------------
(* The loop of parse_pathname. *)

AddPartsRun(f, parts, path) ==
  f = [n \in 0..Len(parts) |->
         IF n = 0 THEN path ELSE AddPart(f[n - 1], parts[n])]

(* Every run of the loop ends with the same path.                          *)
AddPartsRuns(parts, path) ==
  /\ \E f : AddPartsRun(f, parts, path)
  /\ \A f : AddPartsRun(f, parts, path) => f[Len(parts)] = AddParts(parts, path)

(* The function of AddParts is a run if there is one.                      *)
LEMMA AddPartsIsRun ==
  ASSUME NEW parts, NEW path, NEW g, AddPartsRun(g, parts, path)
  PROVE  \E f : AddPartsRun(f, parts, path) /\ AddParts(parts, path) = f[Len(parts)]
<1> DEFINE Q(f) == [n \in 0..Len(parts) |->
                      IF n = 0 THEN path ELSE AddPart(f[n - 1], parts[n])]
           F == CHOOSE f : f = Q(f)
<1>1. g = Q(g)
  BY DEF AddPartsRun
<1>2. F = Q(F)
  <2> HIDE DEF Q
  <2> QED BY ONLY <1>1
<1>3. AddParts(parts, path) = F[Len(parts)]
  BY DEF AddParts
<1>4. AddPartsRun(F, parts, path)
  <2> HIDE DEF F
  <2> QED BY ONLY <1>2 DEF AddPartsRun
<1> HIDE DEF F
<1> QED BY ONLY <1>3, <1>4

(* Without parts the path stays.                                           *)
LEMMA AddPartsNil ==
  ASSUME NEW path
  PROVE  AddPartsRuns(<<>>, path) /\ AddParts(<<>>, path) = path
<1>0. Len(<<>>) = 0 /\ 0..0 = {0}
  OBVIOUS
<1>1. ASSUME NEW f, AddPartsRun(f, <<>>, path) PROVE f[0] = path
  BY ONLY <1>0, <1>1 DEF AddPartsRun
<1>2. AddPartsRun([n \in 0..0 |-> path], <<>>, path)
  BY ONLY <1>0 DEF AddPartsRun
<1>3. PICK f : AddPartsRun(f, <<>>, path) /\ AddParts(<<>>, path) = f[Len(<<>>)]
  BY ONLY <1>2, AddPartsIsRun, Zenon
<1>4. AddParts(<<>>, path) = path
  BY ONLY <1>0, <1>1, <1>3
<1> QED BY ONLY <1>0, <1>1, <1>2, <1>4, Zenon DEF AddPartsRuns

(* One more part is one more turn.                                         *)
LEMMA AddPartsMore ==
  ASSUME NEW A, NEW t \in Seq(A), NEW c \in A, NEW path, AddPartsRuns(t, path)
  PROVE  /\ AddPartsRuns(Append(t, c), path)
         /\ AddParts(Append(t, c), path) = AddPart(AddParts(t, path), c)
<1> DEFINE m == Len(t)
           u == Append(t, c)
<1>1. /\ m \in Nat /\ Len(u) = m + 1 /\ u[m + 1] = c
      /\ \A n \in 1..m : u[n] = t[n]
  BY ONLY t \in Seq(A), c \in A, LenProperties, AppendProperties
<1> HIDE DEF m, u
<1>2. ASSUME NEW f, AddPartsRun(f, u, path)
      PROVE  /\ f[m + 1] = AddPart(f[m], c)
             /\ AddPartsRun([n \in 0..m |-> f[n]], t, path)
  <2>1. \A n \in 0..m+1 : f[n] = IF n = 0 THEN path ELSE AddPart(f[n - 1], u[n])
    BY ONLY <1>1, <1>2 DEF AddPartsRun
  <2>2. m + 1 \in 0..m+1 /\ m + 1 # 0 /\ (m + 1) - 1 = m
    BY ONLY <1>1
  <2>3. f[m + 1] = AddPart(f[m], c)
    BY ONLY <1>1, <2>1, <2>2
  <2> DEFINE e == [n \in 0..m |-> f[n]]
  <2>4. \A n \in 0..m : e[n] = f[n]
    OBVIOUS
  <2>5. e = [n \in 0..m |-> e[n]]
    OBVIOUS
  <2> HIDE DEF e
  <2>6. ASSUME NEW n \in 0..m
        PROVE  e[n] = IF n = 0 THEN path ELSE AddPart(e[n - 1], t[n])
    <3>1. CASE n = 0
      BY ONLY <2>1, <2>4, <3>1, <1>1
    <3>2. CASE n # 0
      <4>1. n \in 0..m+1 /\ n - 1 \in 0..m /\ n \in 1..m
        BY ONLY <3>2, n \in 0..m, <1>1
      <4> QED BY ONLY <1>1, <2>1, <2>4, <3>2, <4>1, n \in 0..m
    <3> QED BY ONLY <3>1, <3>2
  <2>7. AddPartsRun(e, t, path)
    BY ONLY <2>5, <2>6 DEF AddPartsRun, m
  <2> QED BY ONLY <2>3, <2>7 DEF e
<1>3. ASSUME NEW f, AddPartsRun(f, u, path)
      PROVE  f[m + 1] = AddPart(AddParts(t, path), c)
  <2> DEFINE e == [n \in 0..m |-> f[n]]
  <2>1. f[m + 1] = AddPart(f[m], c) /\ AddPartsRun(e, t, path)
    BY ONLY <1>2, <1>3
  <2>2. e[m] = f[m]
    BY ONLY <1>1
  <2>3. e[m] = AddParts(t, path)
    <3> HIDE DEF e
    <3> QED BY ONLY <2>1, AddPartsRuns(t, path), Zenon DEF AddPartsRuns, m
  <2> QED BY ONLY <2>1, <2>2, <2>3
<1>4. PICK e : AddPartsRun(e, t, path)
  BY ONLY AddPartsRuns(t, path) DEF AddPartsRuns
<1> DEFINE g == [n \in 0..m+1 |-> IF n = m + 1 THEN AddPart(e[m], c) ELSE e[n]]
<1>5. AddPartsRun(g, u, path)
  <2>1. \A n \in 0..m : e[n] = IF n = 0 THEN path ELSE AddPart(e[n - 1], t[n])
    BY ONLY <1>4 DEF AddPartsRun, m
  <2>2. \A n \in 0..m+1 : g[n] = IF n = m + 1 THEN AddPart(e[m], c) ELSE e[n]
    OBVIOUS
  <2>3. g = [n \in 0..m+1 |-> g[n]]
    OBVIOUS
  <2> HIDE DEF g
  <2>4. ASSUME NEW n \in 0..m+1
        PROVE  g[n] = IF n = 0 THEN path ELSE AddPart(g[n - 1], u[n])
    <3>1. CASE n = m + 1
      <4>1. n # 0 /\ n - 1 = m /\ m \in 0..m+1 /\ m # m + 1
        BY ONLY <3>1, <1>1
      <4> QED BY ONLY <1>1, <2>2, <3>1, <4>1, n \in 0..m+1
    <3>2. CASE n = 0
      <4>1. 0 \in 0..m+1 /\ 0 \in 0..m /\ 0 # m + 1
        BY ONLY <1>1
      <4> QED BY ONLY <2>1, <2>2, <3>2, <4>1
    <3>3. CASE n # 0 /\ n # m + 1
      <4>1. n \in 0..m /\ n \in 1..m /\ n - 1 \in 0..m+1 /\ n - 1 # m + 1
        BY ONLY <3>3, n \in 0..m+1, <1>1
      <4> QED BY ONLY <1>1, <2>1, <2>2, <3>3, <4>1, n \in 0..m+1
    <3> QED BY ONLY <3>1, <3>2, <3>3
  <2> QED BY ONLY <1>1, <2>3, <2>4 DEF AddPartsRun
<1> HIDE DEF g
<1>6. PICK f : AddPartsRun(f, u, path) /\ AddParts(u, path) = f[Len(u)]
  BY ONLY <1>5, AddPartsIsRun, Zenon
<1>7. AddParts(u, path) = AddPart(AddParts(t, path), c)
  BY ONLY <1>1, <1>3, <1>6
<1>8. AddPartsRuns(u, path)
  BY ONLY <1>1, <1>3, <1>5, <1>7, Zenon DEF AddPartsRuns
<1> QED BY ONLY <1>7, <1>8 DEF u

(* parse_pathname, one part after the other.                               *)
LEMMA AddPartsAppend ==
  ASSUME NEW A, NEW s \in Seq(A), NEW c \in A, NEW path
  PROVE  AddParts(Append(s, c), path) = AddPart(AddParts(s, path), c)
<1> DEFINE S == {t \in Seq(A) : AddPartsRuns(t, path)}
<1>1. <<>> \in S
  BY AddPartsNil
<1>2. ASSUME NEW t \in Seq(A), t \in S, NEW d \in A PROVE Append(t, d) \in S
  <2>1. AddPartsRuns(t, path)
    BY ONLY <1>2
  <2>2. AddPartsRuns(Append(t, d), path)
    BY ONLY <2>1, t \in Seq(A), d \in A, AddPartsMore
  <2>3. Append(t, d) \in Seq(A)
    BY ONLY t \in Seq(A), d \in A, AppendProperties
  <2> QED BY ONLY <2>2, <2>3
<1>3. s \in S
  <2> HIDE DEF S
  <2> QED BY ONLY <1>1, <1>2, s \in Seq(A), SeqInduction, Zenon
<1>4. AddPartsRuns(s, path)
  BY ONLY <1>3
<1> QED BY ONLY <1>4, s \in Seq(A), c \in A, AddPartsMore

-----------------------------------------------------------------------------
(* The loop of parse_pathname_to_str. *)

AddPartsToStrRun(f, parts, path) ==
  f = [n \in 0..Len(parts) |->
         IF n = 0 THEN path ELSE AddPartToStr(f[n - 1], parts[n])]

(* Every run of the loop ends with the same text.                          *)
AddPartsToStrRuns(parts, path) ==
  /\ \E f : AddPartsToStrRun(f, parts, path)
  /\ \A f : AddPartsToStrRun(f, parts, path) => f[Len(parts)] = AddPartsToStr(parts, path)

(* The function of AddPartsToStr is a run if there is one.                 *)
LEMMA AddPartsToStrIsRun ==
  ASSUME NEW parts, NEW path, NEW g, AddPartsToStrRun(g, parts, path)
  PROVE  \E f : AddPartsToStrRun(f, parts, path) /\ AddPartsToStr(parts, path) = f[Len(parts)]
<1> DEFINE Q(f) == [n \in 0..Len(parts) |->
                      IF n = 0 THEN path ELSE AddPartToStr(f[n - 1], parts[n])]
           F == CHOOSE f : f = Q(f)
<1>1. g = Q(g)
  BY DEF AddPartsToStrRun
<1>2. F = Q(F)
  <2> HIDE DEF Q
  <2> QED BY ONLY <1>1
<1>3. AddPartsToStr(parts, path) = F[Len(parts)]
  BY DEF AddPartsToStr
<1>4. AddPartsToStrRun(F, parts, path)
  <2> HIDE DEF F
  <2> QED BY ONLY <1>2 DEF AddPartsToStrRun
<1> HIDE DEF F
<1> QED BY ONLY <1>3, <1>4

(* Without parts the text stays.                                           *)
LEMMA AddPartsToStrNil ==
  ASSUME NEW path
  PROVE  AddPartsToStrRuns(<<>>, path) /\ AddPartsToStr(<<>>, path) = path
<1>0. Len(<<>>) = 0 /\ 0..0 = {0}
  OBVIOUS
<1>1. ASSUME NEW f, AddPartsToStrRun(f, <<>>, path) PROVE f[0] = path
  BY ONLY <1>0, <1>1 DEF AddPartsToStrRun
<1>2. AddPartsToStrRun([n \in 0..0 |-> path], <<>>, path)
  BY ONLY <1>0 DEF AddPartsToStrRun
<1>3. PICK f : AddPartsToStrRun(f, <<>>, path) /\ AddPartsToStr(<<>>, path) = f[Len(<<>>)]
  BY ONLY <1>2, AddPartsToStrIsRun, Zenon
<1>4. AddPartsToStr(<<>>, path) = path
  BY ONLY <1>0, <1>1, <1>3
<1> QED BY ONLY <1>0, <1>1, <1>2, <1>4, Zenon DEF AddPartsToStrRuns

(* One more part is one more turn.                                         *)
LEMMA AddPartsToStrMore ==
  ASSUME NEW A, NEW t \in Seq(A), NEW c \in A, NEW path, AddPartsToStrRuns(t, path)
  PROVE  /\ AddPartsToStrRuns(Append(t, c), path)
         /\ AddPartsToStr(Append(t, c), path) = AddPartToStr(AddPartsToStr(t, path), c)
<1> DEFINE m == Len(t)
           u == Append(t, c)
<1>1. /\ m \in Nat /\ Len(u) = m + 1 /\ u[m + 1] = c
      /\ \A n \in 1..m : u[n] = t[n]
  BY ONLY t \in Seq(A), c \in A, LenProperties, AppendProperties
<1> HIDE DEF m, u
<1>2. ASSUME NEW f, AddPartsToStrRun(f, u, path)
      PROVE  /\ f[m + 1] = AddPartToStr(f[m], c)
             /\ AddPartsToStrRun([n \in 0..m |-> f[n]], t, path)
  <2>1. \A n \in 0..m+1 : f[n] = IF n = 0 THEN path ELSE AddPartToStr(f[n - 1], u[n])
    BY ONLY <1>1, <1>2 DEF AddPartsToStrRun
  <2>2. m + 1 \in 0..m+1 /\ m + 1 # 0 /\ (m + 1) - 1 = m
    BY ONLY <1>1
  <2>3. f[m + 1] = AddPartToStr(f[m], c)
    BY ONLY <1>1, <2>1, <2>2
  <2> DEFINE e == [n \in 0..m |-> f[n]]
  <2>4. \A n \in 0..m : e[n] = f[n]
    OBVIOUS
  <2>5. e = [n \in 0..m |-> e[n]]
    OBVIOUS
  <2> HIDE DEF e
  <2>6. ASSUME NEW n \in 0..m
        PROVE  e[n] = IF n = 0 THEN path ELSE AddPartToStr(e[n - 1], t[n])
    <3>1. CASE n = 0
      BY ONLY <2>1, <2>4, <3>1, <1>1
    <3>2. CASE n # 0
      <4>1. n \in 0..m+1 /\ n - 1 \in 0..m /\ n \in 1..m
        BY ONLY <3>2, n \in 0..m, <1>1
      <4> QED BY ONLY <1>1, <2>1, <2>4, <3>2, <4>1, n \in 0..m
    <3> QED BY ONLY <3>1, <3>2
  <2>7. AddPartsToStrRun(e, t, path)
    BY ONLY <2>5, <2>6 DEF AddPartsToStrRun, m
  <2> QED BY ONLY <2>3, <2>7 DEF e
<1>3. ASSUME NEW f, AddPartsToStrRun(f, u, path)
      PROVE  f[m + 1] = AddPartToStr(AddPartsToStr(t, path), c)
  <2> DEFINE e == [n \in 0..m |-> f[n]]
  <2>1. f[m + 1] = AddPartToStr(f[m], c) /\ AddPartsToStrRun(e, t, path)
    BY ONLY <1>2, <1>3
  <2>2. e[m] = f[m]
    BY ONLY <1>1
  <2>3. e[m] = AddPartsToStr(t, path)
    <3> HIDE DEF e
    <3> QED BY ONLY <2>1, AddPartsToStrRuns(t, path), Zenon DEF AddPartsToStrRuns, m
  <2> QED BY ONLY <2>1, <2>2, <2>3
<1>4. PICK e : AddPartsToStrRun(e, t, path)
  BY ONLY AddPartsToStrRuns(t, path) DEF AddPartsToStrRuns
<1> DEFINE g == [n \in 0..m+1 |-> IF n = m + 1 THEN AddPartToStr(e[m], c) ELSE e[n]]
<1>5. AddPartsToStrRun(g, u, path)
  <2>1. \A n \in 0..m : e[n] = IF n = 0 THEN path ELSE AddPartToStr(e[n - 1], t[n])
    BY ONLY <1>4 DEF AddPartsToStrRun, m
  <2>2. \A n \in 0..m+1 : g[n] = IF n = m + 1 THEN AddPartToStr(e[m], c) ELSE e[n]
    OBVIOUS
  <2>3. g = [n \in 0..m+1 |-> g[n]]
    OBVIOUS
  <2> HIDE DEF g
  <2>4. ASSUME NEW n \in 0..m+1
        PROVE  g[n] = IF n = 0 THEN path ELSE AddPartToStr(g[n - 1], u[n])
    <3>1. CASE n = m + 1
      <4>1. n # 0 /\ n - 1 = m /\ m \in 0..m+1 /\ m # m + 1
        BY ONLY <3>1, <1>1
      <4> QED BY ONLY <1>1, <2>2, <3>1, <4>1, n \in 0..m+1
    <3>2. CASE n = 0
      <4>1. 0 \in 0..m+1 /\ 0 \in 0..m /\ 0 # m + 1
        BY ONLY <1>1
      <4> QED BY ONLY <2>1, <2>2, <3>2, <4>1
    <3>3. CASE n # 0 /\ n # m + 1
      <4>1. n \in 0..m /\ n \in 1..m /\ n - 1 \in 0..m+1 /\ n - 1 # m + 1
        BY ONLY <3>3, n \in 0..m+1, <1>1
      <4> QED BY ONLY <1>1, <2>1, <2>2, <3>3, <4>1, n \in 0..m+1
    <3> QED BY ONLY <3>1, <3>2, <3>3
  <2> QED BY ONLY <1>1, <2>3, <2>4 DEF AddPartsToStrRun
<1> HIDE DEF g
<1>6. PICK f : AddPartsToStrRun(f, u, path) /\ AddPartsToStr(u, path) = f[Len(u)]
  BY ONLY <1>5, AddPartsToStrIsRun, Zenon
<1>7. AddPartsToStr(u, path) = AddPartToStr(AddPartsToStr(t, path), c)
  BY ONLY <1>1, <1>3, <1>6
<1>8. AddPartsToStrRuns(u, path)
  BY ONLY <1>1, <1>3, <1>5, <1>7, Zenon DEF AddPartsToStrRuns
<1> QED BY ONLY <1>7, <1>8 DEF u

(* parse_pathname_to_str, one part after the other.                        *)
LEMMA AddPartsToStrAppend ==
  ASSUME NEW A, NEW s \in Seq(A), NEW c \in A, NEW path
  PROVE  AddPartsToStr(Append(s, c), path) = AddPartToStr(AddPartsToStr(s, path), c)
<1> DEFINE S == {t \in Seq(A) : AddPartsToStrRuns(t, path)}
<1>1. <<>> \in S
  BY AddPartsToStrNil
<1>2. ASSUME NEW t \in Seq(A), t \in S, NEW d \in A PROVE Append(t, d) \in S
  <2>1. AddPartsToStrRuns(t, path)
    BY ONLY <1>2
  <2>2. AddPartsToStrRuns(Append(t, d), path)
    BY ONLY <2>1, t \in Seq(A), d \in A, AddPartsToStrMore
  <2>3. Append(t, d) \in Seq(A)
    BY ONLY t \in Seq(A), d \in A, AppendProperties
  <2> QED BY ONLY <2>2, <2>3
<1>3. s \in S
  <2> HIDE DEF S
  <2> QED BY ONLY <1>1, <1>2, s \in Seq(A), SeqInduction, Zenon
<1>4. AddPartsToStrRuns(s, path)
  BY ONLY <1>3
<1> QED BY ONLY <1>4, s \in Seq(A), c \in A, AddPartsToStrMore

-----------------------------------------------------------------------------
(* The parts of a text. *)

(* Another last part.                                                      *)
WithLast(parts, part) == [parts EXCEPT ![Len(parts)] = part]

(* What it is to change the last part.                                     *)
LEMMA LastPart ==
  ASSUME NEW P, NEW parts \in Seq(P), parts # <<>>, NEW x \in P
  PROVE  /\ parts[Len(parts)] \in P
         /\ WithLast(parts, x) \in Seq(P) /\ WithLast(parts, x) # <<>>
         /\ WithLast(parts, x)[Len(WithLast(parts, x))] = x
         /\ \A y \in P : WithLast(WithLast(parts, x), y) = WithLast(parts, y)
         /\ WithLast(parts, parts[Len(parts)]) = parts
<1> DEFINE n == Len(parts)
<1>1. n \in Nat \ {0} /\ n \in 1..n /\ DOMAIN parts = 1..n /\ parts \in [1..n -> P]
  <2>1. n \in Nat \ {0}
    BY ONLY parts \in Seq(P), parts # <<>>, EmptySeq
  <2>2. DOMAIN parts = 1..n /\ parts \in [1..n -> P]
    BY ONLY parts \in Seq(P), LenProperties
  <2> HIDE DEF n
  <2>3. n \in 1..n
    BY ONLY <2>1
  <2> QED BY ONLY <2>1, <2>2, <2>3
<1>2. ASSUME NEW y \in P
      PROVE  /\ WithLast(parts, y) \in Seq(P) /\ Len(WithLast(parts, y)) = n
             /\ WithLast(parts, y) = [parts EXCEPT ![n] = y]
  BY ONLY <1>1, y \in P, parts \in Seq(P), ExceptSeq, Zenon DEF WithLast
<1> DEFINE q == WithLast(parts, x)
<1>3. q \in Seq(P) /\ Len(q) = n /\ q = [parts EXCEPT ![n] = x]
  BY ONLY <1>2, x \in P
<1> HIDE DEF n, q
<1>4. q[n] = x /\ q # <<>>
  <2>1. q[n] = x
    BY ONLY <1>1, <1>3
  <2>2. q # <<>>
    BY ONLY <1>1, <1>3, EmptySeq
  <2> QED BY ONLY <2>1, <2>2
<1>5. ASSUME NEW y \in P PROVE WithLast(q, y) = WithLast(parts, y)
  <2>1. WithLast(q, y) = [q EXCEPT ![n] = y]
    BY ONLY <1>3 DEF WithLast
  <2>2. WithLast(parts, y) = [parts EXCEPT ![n] = y]
    BY ONLY <1>2, y \in P
  <2>3. [q EXCEPT ![n] = y] = [parts EXCEPT ![n] = y]
    BY ONLY <1>1, <1>3
  <2> QED BY ONLY <2>1, <2>2, <2>3
<1>6. WithLast(parts, parts[n]) = parts
  <2>1. WithLast(parts, parts[n]) = [parts EXCEPT ![n] = parts[n]]
    BY ONLY <1>1 DEF WithLast, n
  <2>2. [parts EXCEPT ![n] = parts[n]] = parts
    BY ONLY <1>1
  <2> QED BY ONLY <2>1, <2>2
<1>7. parts[n] \in P
  BY ONLY <1>1
<1> QED BY ONLY <1>3, <1>4, <1>5, <1>6, <1>7, Zenon DEF n, q

(* What a character adds.                                                  *)
LEMMA CharAdded ==
  ASSUME NEW parts, NEW c, NEW seps
  PROVE  /\ c \in seps => AddChar(parts, c, seps) = Append(parts, <<>>)
         /\ c \notin seps =>
              AddChar(parts, c, seps) = WithLast(parts, Append(parts[Len(parts)], c))
BY ONLY Zenon DEF AddChar, WithLast

(* A text has one part or more, and no separator is in them.               *)
LEMMA PartsType ==
  ASSUME NEW A, NEW s \in Seq(A), NEW seps
  PROVE  Split(s, seps) \in Seq(Seq(A \ seps)) /\ Split(s, seps) # <<>>
<1> DEFINE P == Seq(A \ seps)
           S == {t \in Seq(A) : Split(t, seps) \in Seq(P) /\ Split(t, seps) # <<>>}
<1>1. <<>> \in S
  <2>1. << <<>> >> \in Seq(P) /\ << <<>> >> # <<>>
    OBVIOUS
  <2>2. Split(<<>>, seps) = << <<>> >>
    BY ONLY SplitNil
  <2>3. <<>> \in Seq(A)
    OBVIOUS
  <2> QED BY ONLY <2>1, <2>2, <2>3
<1>2. ASSUME NEW t \in Seq(A), t \in S, NEW c \in A PROVE Append(t, c) \in S
  <2> DEFINE p == Split(t, seps)
  <2>1. p \in Seq(P) /\ p # <<>>
    BY ONLY <1>2
  <2>2. Append(t, c) \in Seq(A)
    BY ONLY t \in Seq(A), c \in A, AppendProperties
  <2>3. Split(Append(t, c), seps) = AddChar(p, c, seps)
    BY ONLY t \in Seq(A), c \in A, SplitAppend
  <2> HIDE DEF p, P
  <2>4. CASE c \in seps
    <3>1. <<>> \in P
      BY EmptySeq DEF P
    <3>2. Append(p, <<>>) \in Seq(P) /\ Append(p, <<>>) # <<>>
      BY ONLY <2>1, <3>1, AppendProperties
    <3>3. Split(Append(t, c), seps) = Append(p, <<>>)
      BY ONLY <2>3, <2>4, CharAdded
    <3> QED BY ONLY <2>2, <3>2, <3>3
  <2>5. CASE c \notin seps
    <3>0. <<>> \in P
      BY EmptySeq DEF P
    <3>1. p[Len(p)] \in P
      BY ONLY <2>1, <3>0, LastPart
    <3>2. Append(p[Len(p)], c) \in P
      BY ONLY <3>1, <2>5, c \in A, AppendProperties DEF P
    <3>3. WithLast(p, Append(p[Len(p)], c)) \in Seq(P)
          /\ WithLast(p, Append(p[Len(p)], c)) # <<>>
      BY ONLY <2>1, <3>2, LastPart
    <3>4. Split(Append(t, c), seps) = WithLast(p, Append(p[Len(p)], c))
      BY ONLY <2>3, <2>5, CharAdded
    <3> QED BY ONLY <2>2, <3>3, <3>4
  <2> QED BY ONLY <2>4, <2>5
<1>3. s \in S
  <2> HIDE DEF S
  <2> QED BY ONLY <1>1, <1>2, s \in Seq(A), SeqInduction, Zenon
<1> QED BY ONLY <1>3

(* Appending and concatenating.                                            *)
LEMMA AppendLast ==
  ASSUME NEW A, NEW s \in Seq(A), NEW t \in Seq(A), NEW c \in A
  PROVE  /\ s \o t \in Seq(A) /\ Append(t, c) \in Seq(A)
         /\ s \o Append(t, c) = Append(s \o t, c)
<1>1. s \o t \in Seq(A) /\ Append(t, c) \in Seq(A) /\ <<c>> \in Seq(A)
  BY ONLY s \in Seq(A), t \in Seq(A), c \in A, ConcatProperties, AppendProperties
<1>2. Append(t, c) = t \o <<c>> /\ Append(s \o t, c) = (s \o t) \o <<c>>
  BY ONLY <1>1, t \in Seq(A), c \in A, AppendIsConcat
<1>3. (s \o t) \o <<c>> = s \o (t \o <<c>>)
  BY ONLY <1>1, s \in Seq(A), t \in Seq(A), ConcatAssociative
<1> QED BY ONLY <1>1, <1>2, <1>3

(* What has no separator goes to the last part.                            *)
LEMMA SplitConcat ==
  ASSUME NEW A, NEW s \in Seq(A), NEW seps, NEW C, C = A \ seps, NEW name \in Seq(C)
  PROVE  Split(s \o name, seps) =
           WithLast(Split(s, seps), Split(s, seps)[Len(Split(s, seps))] \o name)
<1> DEFINE p == Split(s, seps)
           last == p[Len(p)]
           S == {t \in Seq(C) : Split(s \o t, seps) = WithLast(p, last \o t)}
<1>1. p \in Seq(Seq(C)) /\ p # <<>>
  BY ONLY s \in Seq(A), C = A \ seps, PartsType
<1>2. last \in Seq(C)
  <2>1. <<>> \in Seq(C)
    BY ONLY EmptySeq
  <2> HIDE DEF p
  <2> QED BY ONLY <1>1, <2>1, LastPart
<1>3. <<>> \in S
  <2>1. s \o <<>> = s
    BY ONLY s \in Seq(A), ConcatEmptySeq
  <2>2. last \o <<>> = last
    BY ONLY <1>2, ConcatEmptySeq
  <2>3. WithLast(p, last) = p
    BY ONLY <1>1, <1>2, LastPart
  <2>4. <<>> \in Seq(C)
    BY ONLY EmptySeq
  <2> QED BY ONLY <2>1, <2>2, <2>3, <2>4
<1>4. ASSUME NEW t \in Seq(C), t \in S, NEW c \in C PROVE Append(t, c) \in S
  <2>1. Split(s \o t, seps) = WithLast(p, last \o t)
    BY ONLY <1>4
  <2>2. t \in Seq(A) /\ c \in A /\ c \notin seps
    BY ONLY t \in Seq(C), c \in C, C = A \ seps, SeqMonotonic
  <2> HIDE DEF p, last
  <2>a. s \o t \in Seq(A) /\ s \o Append(t, c) = Append(s \o t, c)
    BY ONLY <2>2, s \in Seq(A), AppendLast
  <2>b. /\ last \o t \in Seq(C) /\ Append(t, c) \in Seq(C)
        /\ last \o Append(t, c) = Append(last \o t, c)
    <3> QED BY ONLY <1>2, t \in Seq(C), c \in C, AppendLast
  <2>3. /\ s \o t \in Seq(A) /\ s \o Append(t, c) = Append(s \o t, c)
        /\ last \o t \in Seq(C) /\ Append(t, c) \in Seq(C)
        /\ last \o Append(t, c) = Append(last \o t, c)
    BY ONLY <2>a, <2>b
  <2> DEFINE q == WithLast(p, last \o t)
  <2>4. Split(s \o Append(t, c), seps) = WithLast(q, Append(q[Len(q)], c))
    <3>1. Split(Append(s \o t, c), seps) = AddChar(Split(s \o t, seps), c, seps)
      BY ONLY <2>2, <2>3, SplitAppend
    <3>2. AddChar(q, c, seps) = WithLast(q, Append(q[Len(q)], c))
      BY ONLY <2>2, CharAdded
    <3> QED BY ONLY <2>1, <2>3, <3>1, <3>2
  <2>5. q[Len(q)] = last \o t
    <3>1. ASSUME NEW x \in Seq(C) PROVE WithLast(p, x)[Len(WithLast(p, x))] = x
      BY ONLY <1>1, x \in Seq(C), LastPart
    <3> QED BY ONLY <2>3, <3>1, Zenon
  <2>6. WithLast(q, last \o Append(t, c)) = WithLast(p, last \o Append(t, c))
    <3>1. last \o Append(t, c) \in Seq(C)
      <4> QED BY ONLY <1>2, <2>3, ConcatProperties
    <3>2. ASSUME NEW x \in Seq(C), NEW y \in Seq(C)
          PROVE  WithLast(WithLast(p, x), y) = WithLast(p, y)
      BY ONLY <1>1, x \in Seq(C), y \in Seq(C), LastPart
    <3> QED BY ONLY <2>3, <3>1, <3>2, Zenon
  <2> QED BY ONLY <2>3, <2>4, <2>5, <2>6 DEF last
<1>5. name \in S
  <2> HIDE DEF S
  <2> QED BY ONLY <1>3, <1>4, name \in Seq(C), SeqInduction, Zenon
<1> QED BY ONLY <1>5

(* A name behind a separator is a part of its own.                         *)
LEMMA SplitName ==
  ASSUME NEW A, NEW s \in Seq(A), NEW seps, NEW sep \in A, sep \in seps,
         NEW C, C = A \ seps, NEW name \in Seq(C)
  PROVE  /\ Split(Append(s, sep) \o name, seps) = Append(Split(s, seps), name)
         /\ Split(name, seps) = <<name>>
<1> DEFINE p == Split(s, seps)
           e == Append(p, <<>>)
<1>0. name \in Seq(C) /\ <<>> \in Seq(C) /\ <<>> \in Seq(A) /\ <<>> \o name = name
  BY ONLY name \in Seq(C), EmptySeq, ConcatEmptySeq
<1>1. p \in Seq(Seq(C)) /\ Append(s, sep) \in Seq(A)
  BY ONLY s \in Seq(A), sep \in A, C = A \ seps, PartsType, AppendProperties
<1>2. Split(Append(s, sep), seps) = e
  BY ONLY s \in Seq(A), sep \in A, sep \in seps, SplitAppend, CharAdded
<1> HIDE DEF p
<1>3. e[Len(e)] = <<>> /\ Len(e) = Len(p) + 1 /\ e \in Seq(Seq(C)) /\ Len(p) \in Nat
  BY ONLY <1>0, <1>1, AppendProperties, LenProperties
<1>a. ASSUME NEW u \in Seq(A), NEW v, Split(u, seps) = v
      PROVE  Split(u \o name, seps) = WithLast(v, v[Len(v)] \o name)
  <2>1. Split(u \o name, seps) =
          WithLast(Split(u, seps), Split(u, seps)[Len(Split(u, seps))] \o name)
    BY ONLY u \in Seq(A), name \in Seq(C), C = A \ seps, SplitConcat
  <2> QED BY ONLY <1>a, <2>1
<1>4. Split(Append(s, sep) \o name, seps) = WithLast(e, name)
  <2>1. Split(Append(s, sep) \o name, seps) = WithLast(e, e[Len(e)] \o name)
    <3> HIDE DEF e
    <3> QED BY ONLY <1>1, <1>2, <1>a, Zenon
  <2> QED BY ONLY <1>0, <1>3, <2>1
<1>5. WithLast(e, name) = Append(p, name)
  <2>1. WithLast(e, name) = [e EXCEPT ![Len(p) + 1] = name]
    BY ONLY <1>3 DEF WithLast
  <2>2. /\ [e EXCEPT ![Len(p) + 1] = name] \in Seq(Seq(C))
        /\ Len([e EXCEPT ![Len(p) + 1] = name]) = Len(p) + 1
        /\ \A i \in 1..Len(p) + 1 :
             [e EXCEPT ![Len(p) + 1] = name][i] = IF i = Len(p) + 1 THEN name ELSE e[i]
    <3>1. Len(p) + 1 \in 1..Len(e)
      BY ONLY <1>3
    <3> HIDE DEF e
    <3> QED BY ONLY <1>0, <1>3, <3>1, ExceptSeq
  <2>3. /\ Append(p, name) \in Seq(Seq(C)) /\ Len(Append(p, name)) = Len(p) + 1
        /\ \A i \in 1..Len(p) : Append(p, name)[i] = p[i] /\ e[i] = p[i]
        /\ Append(p, name)[Len(p) + 1] = name
    BY ONLY <1>0, <1>1, AppendProperties
  <2>4. ASSUME NEW i \in 1..Len(p) + 1
        PROVE  [e EXCEPT ![Len(p) + 1] = name][i] = Append(p, name)[i]
    <3>1. i = Len(p) + 1 \/ (i \in 1..Len(p) /\ i # Len(p) + 1)
      BY ONLY <1>3, i \in 1..Len(p) + 1
    <3> QED BY ONLY <2>2, <2>3, <3>1, i \in 1..Len(p) + 1
  <2>5. [e EXCEPT ![Len(p) + 1] = name] = Append(p, name)
    <3> DEFINE x == [e EXCEPT ![Len(p) + 1] = name]
               y == Append(p, name)
    <3>1. x \in Seq(Seq(C)) /\ y \in Seq(Seq(C)) /\ Len(x) = Len(p) + 1 /\ Len(y) = Len(x)
      BY ONLY <2>2, <2>3
    <3>2. \A i \in 1..Len(x) : x[i] = y[i]
      BY ONLY <2>4, <3>1
    <3> HIDE DEF x, y
    <3>3. x = y
      BY ONLY <3>1, <3>2, SeqEqual, Zenon
    <3> QED BY ONLY <3>3 DEF x, y
  <2> QED BY ONLY <2>1, <2>5
<1>6. Split(name, seps) = <<name>>
  <2>1. Split(<<>>, seps) = << <<>> >>
    BY ONLY SplitNil
  <2>2. Len(<< <<>> >>) = 1 /\ << <<>> >>[1] = <<>>
    OBVIOUS
  <2>3. Split(<<>> \o name, seps) = WithLast(<< <<>> >>, <<>> \o name)
    <3> DEFINE v == << <<>> >>
    <3>1. v[Len(v)] = <<>> /\ Split(<<>>, seps) = v
      BY ONLY <2>1, <2>2
    <3> HIDE DEF v
    <3>2. Split(<<>> \o name, seps) = WithLast(v, v[Len(v)] \o name)
      BY ONLY <1>0, <1>a, <3>1
    <3> QED BY ONLY <3>1, <3>2 DEF v
  <2>4. WithLast(<< <<>> >>, name) = <<name>>
    BY ONLY <2>2 DEF WithLast
  <2> QED BY ONLY <1>0, <2>3, <2>4
<1> QED BY ONLY <1>4, <1>5, <1>6 DEF p

-----------------------------------------------------------------------------
(* Names. *)

(* The characters of a name.                                               *)
Printed == {"a", ".", "\\", "%00", "%ff", "_"}

(* The names that come from a path.                                        *)
NameSet == {name \in Seq(Printed) : IsName(name)}

(* Every character is printed as one that separates nothing.               *)
LEMMA ShownPrinted == \A c \in Chars : Shown(c, FALSE) \in Printed
BY DEF Chars, Shown, IsSeparator, Printed

(* A name keeps its length, and a dot comes from a dot only.               *)
LEMMA NameText ==
  ASSUME NEW data \in Seq(Chars)
  PROVE  /\ ParseStrNilterm(data, FALSE, FALSE) \in Seq(Printed)
         /\ IsName(data) => IsName(ParseStrNilterm(data, FALSE, FALSE))
<1> DEFINE n == Len(data)
           r == [i \in 1..n |-> Shown(data[i], FALSE)]
<1>1. n \in Nat /\ DOMAIN data = 1..n /\ \A i \in 1..n : data[i] \in Chars
  BY LenProperties, ElementOfSeq
<1>2. ParseStrNilterm(data, FALSE, FALSE) = r
  BY ONLY <1>1 DEF ParseStrNilterm
<1>3. r \in Seq(Printed) /\ Len(r) = n /\ \A i \in 1..n : r[i] = Shown(data[i], FALSE)
  <2>1. \A i \in 1..n : Shown(data[i], FALSE) \in Printed
    BY ONLY <1>1, ShownPrinted
  <2> HIDE DEF n
  <2>2. r \in [1..n -> Printed] /\ DOMAIN r = 1..n /\ \A i \in 1..n : r[i] = Shown(data[i], FALSE)
    BY ONLY <2>1
  <2> HIDE DEF r
  <2>3. r \in Seq(Printed)
    BY ONLY <1>1, <2>2, SeqDef
  <2>4. Len(r) = n
    BY ONLY <1>1, <2>2, <2>3, LenProperties
  <2> QED BY ONLY <2>2, <2>3, <2>4
<1> HIDE DEF n, r
<1>4. \A c \in Chars : Shown(c, FALSE) = "." => c = "."
  BY DEF Chars, Shown, IsSeparator
<1>5. ASSUME r = <<>> PROVE data = <<>>
  BY ONLY <1>3, <1>5, data \in Seq(Chars), EmptySeq DEF n
<1>6. ASSUME r = <<".">> PROVE data = <<".">>
  <2>1. Len(r) = 1 /\ r[1] = "."
    BY ONLY <1>6
  <2>2. n = 1 /\ 1 \in 1..1
    BY ONLY <1>3, <2>1
  <2>3. data[1] = "."
    BY ONLY <1>1, <1>3, <1>4, <2>1, <2>2, Zenon
  <2> QED BY ONLY <2>2, <2>3, data \in Seq(Chars) DEF n
<1>7. ASSUME r = <<".", ".">> PROVE data = <<".", ".">>
  <2>1. Len(r) = 2 /\ r[1] = "." /\ r[2] = "."
    BY ONLY <1>7
  <2>2. n = 2 /\ 1 \in 1..2 /\ 2 \in 1..2
    BY ONLY <1>3, <2>1
  <2>3. data[1] = "." /\ data[2] = "."
    BY ONLY <1>1, <1>3, <1>4, <2>1, <2>2, Zenon
  <2> QED BY ONLY <2>2, <2>3, data \in Seq(Chars) DEF n
<1>8. IsName(data) => IsName(r)
  BY ONLY <1>5, <1>6, <1>7, Zenon DEF IsName
<1> QED BY ONLY <1>2, <1>3, <1>8

(* A text ends at the first nil, if there is one.                          *)
LEMMA HeadOfText ==
  ASSUME NEW data \in Seq(Chars)
  PROVE  SplitDataAtNilOrEnd(data).head \in Seq(Chars)
<1> DEFINE nils == {i \in DOMAIN data : data[i] = "nil"}
<1>1. Len(data) \in Nat /\ DOMAIN data = 1..Len(data)
  BY LenProperties
<1>2. CASE nils = {}
  <2>1. SplitDataAtNilOrEnd(data).head = data
    BY ONLY <1>2 DEF SplitDataAtNilOrEnd
  <2> QED BY ONLY <2>1, data \in Seq(Chars)
<1>3. CASE nils # {}
  <2>1. SplitDataAtNilOrEnd(data).head = SubSeq(data, 1, Min(nils) - 1)
    BY ONLY <1>3 DEF SplitDataAtNilOrEnd
  <2>2. PICK x \in nils : \A y \in nils : x <= y
    <3>1. nils \in SUBSET Nat
      BY ONLY <1>1
    <3> HIDE DEF nils
    <3> QED BY ONLY <1>3, <3>1, Least
  <2>3. Min(nils) \in nils
    <3>1. Min(nils) = CHOOSE u \in nils : \A y \in nils : u <= y
      BY DEF Min
    <3> HIDE DEF nils
    <3> QED BY ONLY <2>2, <3>1, x \in nils
  <2>4. Min(nils) \in 1..Len(data)
    BY ONLY <1>1, <2>3
  <2>5. \A k \in 1..Len(data) : SubSeq(data, 1, k - 1) \in Seq(Chars)
    BY ONLY <1>1, data \in Seq(Chars)
  <2> QED BY ONLY <2>1, <2>4, <2>5
<1> QED BY ONLY <1>2, <1>3

(* The text that parse_str_nilterm prints, up to a nil or not.             *)
LEMMA PrintedText ==
  ASSUME NEW data \in Seq(Chars), NEW nilterm \in BOOLEAN
  PROVE  ParseStrNilterm(data, nilterm, FALSE) \in Seq(Printed)
<1> DEFINE text == IF nilterm THEN SplitDataAtNilOrEnd(data).head ELSE data
<1>1. text \in Seq(Chars)
  BY ONLY data \in Seq(Chars), HeadOfText
<1>2. ParseStrNilterm(data, nilterm, FALSE) = ParseStrNilterm(text, FALSE, FALSE)
  BY ONLY Zenon DEF ParseStrNilterm
<1> HIDE DEF text
<1> QED BY ONLY <1>1, <1>2, NameText

-----------------------------------------------------------------------------
(* The two forms of a path. *)

(* A path as text, split at its separators, is the path as components.     *)
Joined(str, buf) ==
  IF buf = <<>> THEN str = <<>> ELSE str # <<>> /\ Split(str, {"/"}) = buf

(* Both forms of the path, and the names allowed in it.                    *)
GoodPath(str, buf) ==
  /\ buf \in Seq(NameSet)
  /\ str \in Seq(Printed \cup {"/"})
  /\ Joined(str, buf)

(* A name is pushed to both forms alike.                                   *)
LEMMA PushJoined ==
  ASSUME NEW str \in Seq(Printed \cup {"/"}), NEW N, NEW buf \in Seq(N), Joined(str, buf),
         NEW name \in Seq(Printed), name # <<>>
  PROVE  /\ PushName(str, name) \in Seq(Printed \cup {"/"})
         /\ Joined(PushName(str, name), Append(buf, name))
<1> DEFINE A == Printed \cup {"/"}
           C == Printed
           sep == "/"
           seps == {sep}
<1>1. C = A \ seps /\ sep \in A /\ sep \in seps
  BY DEF Printed
<1> HIDE DEF A, C, sep, seps
<1>2. str \in Seq(A) /\ name \in Seq(C) /\ name \in Seq(A)
  <2>1. str \in Seq(A) /\ name \in Seq(C)
    BY DEF A, C
  <2>2. C \subseteq A
    BY ONLY <1>1
  <2> QED BY ONLY <2>1, <2>2, SeqMonotonic
<1>a. ASSUME NEW u \in Seq(A)
      PROVE  /\ Split(Append(u, sep) \o name, seps) = Append(Split(u, seps), name)
             /\ Split(name, seps) = <<name>>
  <2>1. name \in Seq(C) /\ C = A \ seps /\ sep \in A /\ sep \in seps
    BY ONLY <1>1, <1>2
  <2> QED BY ONLY <2>1, u \in Seq(A), SplitName
<1>3. Append(buf, name) # <<>>
  <2>1. Len(Append(buf, name)) = Len(buf) + 1 /\ Len(buf) \in Nat
    BY ONLY buf \in Seq(N), LenProperties
  <2>2. Len(<<>>) = 0
    OBVIOUS
  <2>3. Len(Append(buf, name)) # 0
    BY ONLY <2>1
  <2> QED BY ONLY <2>2, <2>3
<1>4. CASE buf = <<>>
  <2>1. str = <<>>
    BY ONLY <1>4, Joined(str, buf) DEF Joined
  <2>2. PushName(str, name) = name
    <3>1. <<>> \o name = name
      BY ONLY <1>2, ConcatEmptySeq
    <3> QED BY ONLY <2>1, <3>1 DEF PushName
  <2>3. Split(name, seps) = <<name>>
    <3>1. <<>> \in Seq(A)
      BY ONLY EmptySeq
    <3> QED BY ONLY <1>a, <3>1
  <2>4. Append(buf, name) = <<name>>
    BY ONLY <1>4
  <2>5. Joined(name, <<name>>)
    <3>1. <<name>> # <<>>
      BY ONLY <1>3, <2>4
    <3> QED BY ONLY <2>3, <3>1, name # <<>>, Zenon DEF Joined, sep, seps
  <2> QED BY ONLY <1>2, <2>2, <2>4, <2>5 DEF A
<1>5. CASE buf # <<>>
  <2>1. str # <<>> /\ Split(str, seps) = buf
    BY ONLY <1>5, Joined(str, buf), Zenon DEF Joined, sep, seps
  <2>2. PushName(str, name) = Append(str, sep) \o name
    BY ONLY <2>1, Zenon DEF PushName, sep
  <2>3. Split(Append(str, sep) \o name, seps) = Append(buf, name)
    <3>1. Split(Append(str, sep) \o name, seps) = Append(Split(str, seps), name)
      BY ONLY <1>2, <1>a
    <3> QED BY ONLY <2>1, <3>1
  <2>4. Append(str, sep) \o name \in Seq(A)
    <3>1. Append(str, sep) \in Seq(A)
      BY ONLY <1>1, <1>2, AppendProperties
    <3> QED BY ONLY <1>2, <3>1, ConcatProperties
  <2>5. Append(str, sep) \o name # <<>>
    <3>1. ASSUME Append(str, sep) \o name = <<>> PROVE name = <<>>
      <4>1. Append(str, sep) \in Seq(A)
        BY ONLY <1>1, <1>2, AppendProperties
      <4> QED BY ONLY <1>2, <3>1, <4>1, ConcatEqualIffEmpty
    <3> QED BY ONLY <3>1, name # <<>>
  <2>6. Joined(PushName(str, name), Append(buf, name))
    BY ONLY <1>3, <2>2, <2>3, <2>5, Zenon DEF Joined, sep, seps
  <2> QED BY ONLY <2>2, <2>4, <2>6 DEF A
<1> QED BY ONLY <1>4, <1>5

(* A part of a path is added to both forms, or to none.                    *)
LEMMA PartJoined ==
  ASSUME NEW str, NEW buf, GoodPath(str, buf), NEW part \in Seq(Chars)
  PROVE  GoodPath(AddPartToStr(str, part), AddPart(buf, part))
<1>1. CASE ~IsName(part)
  <2>1. AddPartToStr(str, part) = str /\ AddPart(buf, part) = buf
    BY ONLY <1>1 DEF AddPartToStr, AddPart
  <2> QED BY ONLY <2>1, GoodPath(str, buf)
<1>2. CASE IsName(part)
  <2> DEFINE name == ParseStrNilterm(part, FALSE, FALSE)
  <2>1. AddPartToStr(str, part) = PushName(str, name) /\ AddPart(buf, part) = Append(buf, name)
    BY ONLY <1>2 DEF AddPartToStr, AddPart
  <2>2. name \in Seq(Printed) /\ IsName(name)
    BY ONLY <1>2, part \in Seq(Chars), NameText
  <2> HIDE DEF name
  <2>3. name # <<>> /\ name \in NameSet
    <3>1. name # <<>>
      BY ONLY <2>2, Zenon DEF IsName
    <3> QED BY ONLY <2>2, <3>1, Zenon DEF NameSet
  <2>4. buf \in Seq(NameSet) /\ str \in Seq(Printed \cup {"/"}) /\ Joined(str, buf)
    BY ONLY GoodPath(str, buf) DEF GoodPath
  <2>5. /\ PushName(str, name) \in Seq(Printed \cup {"/"})
        /\ Joined(PushName(str, name), Append(buf, name))
    BY ONLY <2>2, <2>3, <2>4, PushJoined, Zenon
  <2>6. Append(buf, name) \in Seq(NameSet)
    BY ONLY <2>3, <2>4, AppendProperties
  <2> QED BY ONLY <2>1, <2>5, <2>6, Zenon DEF GoodPath
<1> QED BY ONLY <1>1, <1>2

(* parse_pathname and parse_pathname_to_str add the same names.            *)
LEMMA PathsJoined ==
  ASSUME NEW str, NEW buf, GoodPath(str, buf), NEW data \in Seq(Chars)
  PROVE  GoodPath(ParsePathnameToStr(data, str), ParsePathname(data, buf))
<1> DEFINE P == Seq(Chars \ Separators)
           S == {t \in Seq(P) : GoodPath(AddPartsToStr(t, str), AddParts(t, buf))}
<1>1. Split(data, Separators) \in Seq(P)
  BY ONLY data \in Seq(Chars), PartsType
<1>2. P \subseteq Seq(Chars)
  <2>1. ASSUME NEW part \in P PROVE part \in Seq(Chars)
    BY ONLY part \in P, SeqMonotonic, Chars \ Separators \subseteq Chars
  <2> QED BY ONLY <2>1
<1> HIDE DEF P
<1>3. <<>> \in S
  <2>1. <<>> \in Seq(P)
    BY ONLY EmptySeq
  <2> QED BY ONLY <2>1, GoodPath(str, buf), AddPartsNil, AddPartsToStrNil
<1>4. ASSUME NEW t \in Seq(P), t \in S, NEW part \in P PROVE Append(t, part) \in S
  <2>1. GoodPath(AddPartsToStr(t, str), AddParts(t, buf))
    BY ONLY <1>4
  <2>2. part \in Seq(Chars)
    BY ONLY <1>2, part \in P
  <2>3. GoodPath(AddPartToStr(AddPartsToStr(t, str), part), AddPart(AddParts(t, buf), part))
    BY ONLY <2>1, <2>2, PartJoined
  <2>4. /\ AddParts(Append(t, part), buf) = AddPart(AddParts(t, buf), part)
        /\ AddPartsToStr(Append(t, part), str) = AddPartToStr(AddPartsToStr(t, str), part)
    BY ONLY t \in Seq(P), part \in P, AddPartsAppend, AddPartsToStrAppend
  <2>5. Append(t, part) \in Seq(P)
    BY ONLY t \in Seq(P), part \in P, AppendProperties
  <2> QED BY ONLY <2>3, <2>4, <2>5
<1>5. Split(data, Separators) \in S
  <2> HIDE DEF S
  <2> QED BY ONLY <1>1, <1>3, <1>4, SeqInduction, Zenon
<1>6. GoodPath(AddPartsToStr(Split(data, Separators), str), AddParts(Split(data, Separators), buf))
  BY ONLY <1>5
<1> QED BY ONLY <1>6, Zenon DEF ParsePathname, ParsePathnameToStr

-----------------------------------------------------------------------------
(* The invariant of the path names. *)

HasPath == "buf" \in DOMAIN acc /\ "str" \in DOMAIN acc /\ "filename" \in DOMAIN acc

(* A name that replaces the field's is the last component, as it is.       *)
AnsweredPath ==
  /\ Joined(acc.str, acc.buf)
  /\ \/ acc.buf \in Seq(NameSet) /\ acc.filename = <<>>
     \/ /\ acc.filename \in Seq(Printed) /\ acc.filename # <<>>
        /\ \E path \in Seq(NameSet) : acc.buf = Append(path, acc.filename)

PathInv ==
  /\ HasPath
  /\ IF pc = "answered"
     THEN AnsweredPath
     ELSE GoodPath(acc.str, acc.buf) /\ acc.filename \in Seq(Printed)

(* Without extra headers the path is empty.                                *)
LEMMA InitPath == AccessInit => PathInv
<1> SUFFICES ASSUME AccessInit PROVE PathInv
  OBVIOUS
<1>1. pc # "answered"
  BY DEF AccessInit, Init
<1>2. /\ "buf" \in DOMAIN acc /\ "str" \in DOMAIN acc /\ "filename" \in DOMAIN acc
      /\ acc.buf = <<>> /\ acc.str = <<>> /\ acc.filename = <<>>
  BY DEF AccessInit
<1>3. GoodPath(<<>>, <<>>)
  <2>1. <<>> \in Seq(NameSet) /\ <<>> \in Seq(Printed \cup {"/"})
    BY ONLY EmptySeq
  <2> QED BY ONLY <2>1 DEF GoodPath, Joined
<1>4. <<>> \in Seq(Printed)
  BY ONLY EmptySeq
<1> QED BY ONLY <1>1, <1>2, <1>3, <1>4, Zenon DEF PathInv, HasPath

(* An extra header adds to both forms of the path, or sets the name.       *)
LEMMA VisitPath ==
  ASSUME HasPath, GoodPath(acc.str, acc.buf), acc.filename \in Seq(Printed),
         NEW id, NEW n, NEW data \in Contents(id, n),
         acc' = Visit(id, n, data)
  PROVE  /\ HasPath' /\ GoodPath(acc'.str, acc'.buf)
         /\ acc'.filename \in Seq(Printed)
<1> DEFINE v == Visit(id, n, data)
<1>0. "buf" \in DOMAIN acc /\ "str" \in DOMAIN acc /\ "filename" \in DOMAIN acc
  BY ONLY HasPath DEF HasPath
<1>1. \/ /\ id = "filename"
         /\ v = [acc EXCEPT !.filename = ParseStrNilterm(data, Nilterm, FALSE),
                            !.raw = data, !.renamed = TRUE]
      \/ /\ id = "path"
         /\ v = [acc EXCEPT !.buf = ParsePathname(data, @), !.str = ParsePathnameToStr(data, @)]
      \/ v = [acc EXCEPT !.comment = FirstComment(@, ParseStrNilterm(data, FALSE, TRUE))]
      \/ v = [acc EXCEPT !.date = Date("unix", data, TimestampOpt(data, 0))]
      \/ v = [acc EXCEPT !.date = Date("filetime", data, ParseWinFiletime(data))]
      \/ v = acc
  BY ONLY Zenon DEF Visit
<1>2. ASSUME id \in {"filename", "path"} PROVE data \in Seq(Chars)
  <2>1. Contents(id, n) = TextsOf(n)
    <3>1. id \in {"filename", "path", "comment"}
      BY ONLY <1>2
    <3>2. id # "unix_time" /\ id # "msdos_time"
      BY ONLY <1>2
    <3> QED BY ONLY <3>1, <3>2, Zenon DEF Contents
  <2>2. data \in Texts
    BY ONLY <2>1, data \in Contents(id, n), Zenon DEF TextsOf
  <2> QED BY ONLY <2>2, TextsAssumption
<1> HIDE DEF v
<1>3. ASSUME "buf" \in DOMAIN v, "str" \in DOMAIN v, "filename" \in DOMAIN v,
             GoodPath(v.str, v.buf), v.filename \in Seq(Printed)
      PROVE  /\ HasPath' /\ GoodPath(acc'.str, acc'.buf)
             /\ acc'.filename \in Seq(Printed)
  <2>1. acc' = v
    BY DEF v
  <2>2. HasPath'
    BY ONLY <1>3, <2>1, Zenon DEF HasPath
  <2> QED BY ONLY <1>3, <2>1, <2>2, Zenon
<1>4. CASE /\ id = "filename"
           /\ v = [acc EXCEPT !.filename = ParseStrNilterm(data, Nilterm, FALSE),
                              !.raw = data, !.renamed = TRUE]
  <2>1. /\ "buf" \in DOMAIN v /\ "str" \in DOMAIN v /\ "filename" \in DOMAIN v
        /\ v.buf = acc.buf /\ v.str = acc.str
        /\ v.filename = ParseStrNilterm(data, Nilterm, FALSE)
    BY ONLY <1>0, <1>4, Zenon
  <2>2. data \in Seq(Chars) /\ Nilterm \in BOOLEAN
    <3>1. id \in {"filename", "path"}
      BY ONLY <1>4
    <3> QED BY ONLY <1>2, <3>1 DEF Nilterm
  <2>3. ParseStrNilterm(data, Nilterm, FALSE) \in Seq(Printed)
    BY ONLY <2>2, PrintedText
  <2> QED BY ONLY <1>3, <2>1, <2>3, GoodPath(acc.str, acc.buf), Zenon
<1>5. CASE /\ id = "path"
           /\ v = [acc EXCEPT !.buf = ParsePathname(data, @),
                              !.str = ParsePathnameToStr(data, @)]
  <2>1. /\ "buf" \in DOMAIN v /\ "str" \in DOMAIN v /\ "filename" \in DOMAIN v
        /\ v.buf = ParsePathname(data, acc.buf) /\ v.str = ParsePathnameToStr(data, acc.str)
        /\ v.filename = acc.filename
    BY ONLY <1>0, <1>5, Zenon
  <2>2. data \in Seq(Chars)
    <3>1. id \in {"filename", "path"}
      BY ONLY <1>5
    <3> QED BY ONLY <1>2, <3>1
  <2>3. GoodPath(ParsePathnameToStr(data, acc.str), ParsePathname(data, acc.buf))
    BY ONLY <2>2, GoodPath(acc.str, acc.buf), PathsJoined
  <2> QED BY ONLY <1>3, <2>1, <2>3, acc.filename \in Seq(Printed), Zenon
<1>6. CASE \/ v = [acc EXCEPT !.comment = FirstComment(@, ParseStrNilterm(data, FALSE, TRUE))]
           \/ v = [acc EXCEPT !.date = Date("unix", data, TimestampOpt(data, 0))]
           \/ v = [acc EXCEPT !.date = Date("filetime", data, ParseWinFiletime(data))]
           \/ v = acc
  <2>1. /\ "buf" \in DOMAIN v /\ "str" \in DOMAIN v /\ "filename" \in DOMAIN v
        /\ v.buf = acc.buf /\ v.str = acc.str /\ v.filename = acc.filename
    BY ONLY <1>0, <1>6, Zenon
  <2> QED BY ONLY <1>3, <2>1, GoodPath(acc.str, acc.buf), acc.filename \in Seq(Printed), Zenon
<1> QED BY ONLY <1>1, <1>4, <1>5, <1>6, Zenon

(* The answer adds the name that replaces the field, or the field's path.  *)
LEMMA AnswerPath ==
  ASSUME PathInv, Answer
  PROVE  PathInv'
<1>1. pc = "some" /\ pc' = "answered" /\ pc # "answered"
  BY DEF Answer
<1>2. PICK field \in TextsOf(head.filename), date \in LastModified :
        acc' = [acc EXCEPT !.buf = PathBuf(field), !.str = PathStr(field),
                           !.comment = Comment(field), !.date = date]
  BY DEF Answer
<1>3. /\ "buf" \in DOMAIN acc /\ "str" \in DOMAIN acc /\ "filename" \in DOMAIN acc
      /\ GoodPath(acc.str, acc.buf) /\ acc.filename \in Seq(Printed)
  BY ONLY <1>1, PathInv, Zenon DEF PathInv, HasPath
<1>4. /\ "buf" \in DOMAIN acc' /\ "str" \in DOMAIN acc' /\ "filename" \in DOMAIN acc'
      /\ acc'.buf = PathBuf(field) /\ acc'.str = PathStr(field)
      /\ acc'.filename = acc.filename
  BY ONLY <1>2, <1>3, Zenon
<1>5. ASSUME AnsweredPath' PROVE PathInv'
  BY ONLY <1>1, <1>4, <1>5, Zenon DEF PathInv, HasPath
<1>6. CASE acc.filename # <<>>
  <2>1. PathBuf(field) = Append(acc.buf, acc.filename)
        /\ PathStr(field) = PushName(acc.str, acc.filename)
    BY ONLY <1>6, Zenon DEF PathBuf, PathStr
  <2>2. acc.buf \in Seq(NameSet) /\ acc.str \in Seq(Printed \cup {"/"})
        /\ Joined(acc.str, acc.buf)
    BY ONLY <1>3, Zenon DEF GoodPath
  <2>3. Joined(PushName(acc.str, acc.filename), Append(acc.buf, acc.filename))
    BY ONLY <1>3, <1>6, <2>2, PushJoined
  <2>4. AnsweredPath'
    BY ONLY <1>3, <1>4, <1>6, <2>1, <2>2, <2>3, Zenon DEF AnsweredPath
  <2> QED BY ONLY <1>5, <2>4
<1>7. CASE acc.filename = <<>>
  <2> DEFINE text == IF Nilterm THEN SplitDataAtNilOrEnd(field).head ELSE field
  <2>1. PathBuf(field) = ParsePathname(text, acc.buf)
        /\ PathStr(field) = ParsePathnameToStr(text, acc.str)
    BY ONLY <1>7, Zenon DEF PathBuf, PathStr
  <2>2. text \in Seq(Chars)
    <3>1. field \in Texts
      BY ONLY field \in TextsOf(head.filename), Zenon DEF TextsOf
    <3>2. field \in Seq(Chars)
      BY ONLY <3>1, TextsAssumption
    <3> QED BY ONLY <3>2, HeadOfText
  <2> HIDE DEF text
  <2>3. GoodPath(ParsePathnameToStr(text, acc.str), ParsePathname(text, acc.buf))
    BY ONLY <1>3, <2>2, PathsJoined
  <2>4. ParsePathname(text, acc.buf) \in Seq(NameSet)
        /\ Joined(ParsePathnameToStr(text, acc.str), ParsePathname(text, acc.buf))
    BY ONLY <2>3, Zenon DEF GoodPath
  <2>5. AnsweredPath'
    BY ONLY <1>4, <1>7, <2>1, <2>4, Zenon DEF AnsweredPath
  <2> QED BY ONLY <1>5, <2>5
<1> QED BY ONLY <1>6, <1>7

(* Every step keeps the two forms of the path together.                    *)
LEMMA PathStep ==
  ASSUME AccessInv, PathInv, [AccessNext]_allVars
  PROVE  PathInv'
<1>1. CASE Parse
  <2>1. pc # "answered" /\ pc' # "answered" /\ acc' = acc
    BY <1>1, ParserHasReturned, OnlyCheckCrcAccepts DEF Parse, AccessInv, Accepted
  <2> QED BY ONLY PathInv, <2>1, Zenon DEF PathInv, HasPath
<1>2. CASE IterNext
  <2>1. pc # "answered" /\ pc' # "answered"
    BY <1>2 DEF IterNext, vars
  <2>a. PICK id \in Identifiers, n \in Int : \E data \in Contents(id, n) :
                                               acc' = Visit(id, n, data)
    BY ONLY <1>2, AccessInv, WalkIterNext, Zenon DEF AccessInv
  <2>2. PICK data \in Contents(id, n) : acc' = Visit(id, n, data)
    BY ONLY <2>a, Zenon
  <2>3. HasPath /\ GoodPath(acc.str, acc.buf) /\ acc.filename \in Seq(Printed)
    BY ONLY <2>1, PathInv, Zenon DEF PathInv
  <2>4. HasPath' /\ GoodPath(acc'.str, acc'.buf) /\ acc'.filename \in Seq(Printed)
    BY ONLY <2>2, <2>3, VisitPath, data \in Contents(id, n)
  <2> QED BY ONLY <2>1, <2>4, Zenon DEF PathInv
<1>3. CASE Answer
  BY <1>3, AnswerPath
<1>4. CASE UNCHANGED allVars
  <2>1. pc' = pc /\ acc' = acc
    BY <1>4 DEF allVars, vars
  <2> QED BY ONLY PathInv, <2>1, Zenon DEF PathInv, HasPath, AnsweredPath
<1> QED BY <1>1, <1>2, <1>3, <1>4 DEF AccessNext, Ended

(* The path names answered at the end are built from one invariant.        *)
LEMMA PathsInvariant == AccessSpec => []PathInv
<1>1. AccessInv /\ PathInv /\ [AccessNext]_allVars => PathInv'
  BY PathStep
<1> QED BY <1>1, InitPath, AccessInvariant, PTL DEF AccessSpec

(* parse_pathname and parse_pathname_to_str answer the same path, from any *)
(* texts, in whatever order and number the headers with them come.         *)
THEOREM FormsOfPathAgree == AccessSpec => []PathsAgree
<1>1. PathInv => PathsAgree
  <2>1. ASSUME PathInv, pc = "answered" PROVE Joined(acc.str, acc.buf)
    BY ONLY <2>1, Zenon DEF PathInv, AnsweredPath
  <2>2. ASSUME Joined(acc.str, acc.buf) PROVE PathsAgree
    BY ONLY <2>2, Zenon DEF PathsAgree, Joined
  <2>3. ASSUME pc # "answered" PROVE PathsAgree
    BY ONLY <2>3, Zenon DEF PathsAgree
  <2> QED BY <2>1, <2>2, <2>3
<1> QED BY <1>1, PathsInvariant, PTL

(* A name that came from a path, or was printed from a header, separates   *)
(* nothing and is not empty; that from a path is not "." or ".." either.   *)
LEMMA NamesAreNames ==
  /\ \A name \in NameSet : /\ name \in Seq(Printed) /\ name # <<>>
                           /\ name \notin {<<".">>, <<".", ".">>}
  /\ \A name \in Seq(Printed) :
       \A j \in DOMAIN name : name[j] \notin {"/", "ff", "nil"}
<1>1. ASSUME NEW name \in NameSet
      PROVE  /\ name \in Seq(Printed) /\ name # <<>>
             /\ name \notin {<<".">>, <<".", ".">>}
  BY ONLY name \in NameSet, Zenon DEF NameSet, IsName
<1>2. ASSUME NEW name \in Seq(Printed), NEW j \in DOMAIN name
      PROVE  name[j] \notin {"/", "ff", "nil"}
  <2>1. name[j] \in Printed
    BY ONLY name \in Seq(Printed), j \in DOMAIN name, LenProperties, ElementOfSeq
  <2> QED BY ONLY <2>1 DEF Printed
<1> QED BY ONLY <1>1, <1>2, Zenon

(* Each component of the path that parse_pathname answers is one printable *)
(* name, whatever the texts of the headers are.                            *)
THEOREM PathsAreOfNames == AccessSpec => []ComponentsAreNames
<1>1. ASSUME PathInv, pc = "answered", NEW i \in DOMAIN acc.buf
      PROVE  /\ acc.buf[i] # <<>>
             /\ \A j \in DOMAIN acc.buf[i] : acc.buf[i][j] \notin {"/", "ff", "nil"}
             /\ i < Len(acc.buf) \/ acc.filename = <<>> =>
                  acc.buf[i] \notin {<<".">>, <<".", ".">>}
  <2>1. \/ acc.buf \in Seq(NameSet) /\ acc.filename = <<>>
        \/ /\ acc.filename \in Seq(Printed) /\ acc.filename # <<>>
           /\ \E path \in Seq(NameSet) : acc.buf = Append(path, acc.filename)
    BY ONLY <1>1, Zenon DEF PathInv, AnsweredPath
  <2>2. CASE acc.buf[i] \in NameSet
    <3>1. acc.buf[i] \in Seq(Printed) /\ acc.buf[i] # <<>>
          /\ acc.buf[i] \notin {<<".">>, <<".", ".">>}
      BY ONLY <2>2, NamesAreNames, Zenon
    <3> QED BY ONLY <3>1, NamesAreNames, Zenon
  <2>3. CASE acc.buf \in Seq(NameSet)
    <3>1. acc.buf[i] \in NameSet
      BY ONLY <2>3, i \in DOMAIN acc.buf, LenProperties, ElementOfSeq
    <3> QED BY ONLY <2>2, <3>1
  <2>4. CASE /\ acc.filename \in Seq(Printed) /\ acc.filename # <<>>
             /\ \E path \in Seq(NameSet) : acc.buf = Append(path, acc.filename)
    <3>1. PICK path \in Seq(NameSet) : acc.buf = Append(path, acc.filename)
      BY ONLY <2>4
    <3>2. Len(path) \in Nat /\ Len(acc.buf) = Len(path) + 1
          /\ DOMAIN acc.buf = 1..Len(path) + 1
          /\ acc.buf[Len(path) + 1] = acc.filename
          /\ \A k \in 1..Len(path) : acc.buf[k] = path[k] /\ path[k] \in NameSet
      BY ONLY <3>1, path \in Seq(NameSet), LenProperties, ElementOfSeq
    <3>3. CASE i \in 1..Len(path)
      <4>1. acc.buf[i] \in NameSet
        BY ONLY <3>2, <3>3
      <4> QED BY ONLY <2>2, <4>1
    <3>4. CASE i = Len(path) + 1
      <4>1. acc.buf[i] = acc.filename /\ ~(i < Len(acc.buf))
        BY ONLY <3>2, <3>4
      <4> QED BY ONLY <2>4, <4>1, NamesAreNames, Zenon
    <3>5. i \in 1..Len(path) \/ i = Len(path) + 1
      BY ONLY <3>2, i \in DOMAIN acc.buf
    <3> QED BY ONLY <3>3, <3>4, <3>5
  <2> QED BY ONLY <2>1, <2>3, <2>4
<1>2. PathInv => ComponentsAreNames
  BY ONLY <1>1, Zenon DEF ComponentsAreNames
<1> QED BY <1>2, PathsInvariant, PTL
=============================================================================
