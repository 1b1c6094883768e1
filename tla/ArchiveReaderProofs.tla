------------------------- MODULE ArchiveReaderProofs -------------------------
(***************************************************************************)
(* Proofs about ArchiveReader, for every set of streams and their          *)
(* contents, every buffer length and width of usize, with and without I/O  *)
(* errors.                                                                 *)
(***************************************************************************)
EXTENDS ArchiveReader, SequenceTheorems, TLAPS

-----------------------------------------------------------------------------
(* What the operators return. *)

(* The smaller of two lengths is one of them and bounded by both.          *)
LEMMA SmallerType ==
  \A a, b \in Nat : /\ Smaller(a, b) \in Nat /\ Smaller(a, b) <= a /\ Smaller(a, b) <= b
                    /\ Smaller(a, b) = a \/ Smaller(a, b) = b
BY DEF Smaller

(* What a header parser meets at a byte of a stream is an item.            *)
LEMMA ItemAtType ==
  ASSUME NEW s \in Sources, NEW p \in Nat
  PROVE  /\ ItemAt(s, p).hlen \in Nat /\ ItemAt(s, p).csize \in Nat /\ ItemAt(s, p).osize \in Nat
         /\ ItemAt(s, p).kind \in DecoderKinds \cup {"marker", "garbage"}
         /\ ItemAt(s, p).kind = "garbage" \/ p < Eof[s]
<1>1. CASE p < Eof[s]
  <2>1. p \in 0..Eof[s]-1 /\ Content[s] \in [0..Eof[s]-1 -> Item]
    BY <1>1, EofAssumption, ContentAssumption
  <2>2. Content[s][p] \in Item
    BY <2>1
  <2> QED BY <1>1, <2>2 DEF ItemAt, Item
<1>2. CASE ~(p < Eof[s])
  BY <1>2 DEF ItemAt, NoItem
<1> QED BY <1>1, <1>2

(* LhaHeader::read never moves backwards or past the end of the stream,    *)
(* and the header it returns is one of a file.                             *)
LEMMA HeaderReadOutcome ==
  ASSUME NEW s \in Sources, NEW p \in Nat, p <= Eof[s], NEW o \in LhaHeaderRead(s, p)
  PROVE  /\ o.res \in {"some", "none", "err"}
         /\ o.pos \in Nat /\ o.pos <= Eof[s]
         /\ o.res = "some" => /\ o.item.kind \in DecoderKinds
                              /\ o.item.csize \in Nat /\ o.item.osize \in Nat
                              /\ p < Eof[s] /\ o.item = Content[s][p]
<1> DEFINE item == ItemAt(s, p)
           stop == Smaller(p + item.hlen, Eof[s])
           Rejected == {Parsed("err", q, NoItem) : q \in p..stop}
           ReadFails == {Parsed("err", q, NoItem) : q \in p..Smaller(p + item.hlen - 1, Eof[s])}
<1>1. Eof[s] \in Nat
  BY EofAssumption
<1>2. /\ item.hlen \in Nat /\ item.csize \in Nat /\ item.osize \in Nat
      /\ item.kind \in DecoderKinds \cup {"marker", "garbage"}
  BY ItemAtType
<1>3. stop \in Nat /\ stop <= Eof[s]
  <2>1. p + item.hlen \in Nat
    BY <1>2
  <2> HIDE DEF item
  <2> QED BY <1>1, <2>1, SmallerType
<1>4. ASSUME o \in Rejected \cup ReadFails
      PROVE  o.res = "err" /\ o.pos \in Nat /\ o.pos <= Eof[s]
  <2>1. \A q \in p..Smaller(p + item.hlen - 1, Eof[s]) : q \in p..stop
    BY <1>1, <1>2 DEF Smaller
  <2>2. PICK q \in p..stop : o = Parsed("err", q, NoItem)
    BY <1>4, <2>1
  <2> HIDE DEF stop
  <2> QED BY <1>1, <1>3, <2>2 DEF Parsed
<1>5. \/ o \in Rejected \cup ReadFails
      \/ p >= Eof[s] /\ o = Parsed("none", p, NoItem)
      \/ p < Eof[s] /\ o = Parsed("none", p + 1, NoItem)
      \/ /\ p < Eof[s] /\ item.kind \notin {"marker", "garbage"}
         /\ o = Parsed("some", stop, item)
  <2> HIDE DEF item
  <2> USE DEF LhaHeaderRead
  <2> QED BY <1>1 DEF item
<1>6. CASE p >= Eof[s] /\ o = Parsed("none", p, NoItem)
  BY <1>1, <1>6 DEF Parsed
<1>7. CASE p < Eof[s] /\ o = Parsed("none", p + 1, NoItem)
  BY <1>1, <1>7 DEF Parsed
<1>8. CASE /\ p < Eof[s] /\ item.kind \notin {"marker", "garbage"}
           /\ o = Parsed("some", stop, item)
  <2>1. item = Content[s][p]
    BY <1>8 DEF ItemAt
  <2> HIDE DEF item, stop
  <2> QED BY <1>2, <1>3, <1>8, <2>1 DEF Parsed
<1> QED BY <1>4, <1>5, <1>6, <1>7, <1>8

(* fill_buffer takes no more from the stream than there is, takes no more  *)
(* off the limit than it took from the stream, and succeeds only with the  *)
(* whole buffer filled.                                                    *)
SoundFill(d, p, len, f) ==
  /\ f.used \in Nat /\ f.counted \in Nat /\ f.made \in Nat
  /\ p + f.used <= Eof[d.src]
  /\ f.counted <= f.used /\ f.counted <= d.limit
  /\ f.ok => f.made = len

(* Every outcome of the decoders' fill_buffer is sound.                    *)
LEMMA FillOutcome ==
  ASSUME NEW d \in Decoders, NEW p \in Nat, p <= Eof[d.src], NEW len \in Nat,
         NEW f \in FillBuffer(d, p, len)
  PROVE  SoundFill(d, p, len, f)
<1>1. d.src \in Sources /\ d.limit \in Nat /\ Eof[d.src] \in Nat
  BY EofAssumption DEF Decoders
<1>2. SoundFill(d, p, len, Filled(FALSE, 0, 0, 0))
  BY <1>1 DEF SoundFill, Filled
<1>3. ASSUME f \in FillPassthrough(d, p, len)
      PROVE  SoundFill(d, p, len, f)
  <2>1. CASE len > d.limit
    BY <1>2, <1>3, <2>1 DEF FillPassthrough
  <2>2. CASE ~(len > d.limit)
    <3>1. \/ p + len <= Eof[d.src] /\ f = Filled(TRUE, len, len, len)
          \/ f = Filled(FALSE, Eof[d.src] - p, 0, Eof[d.src] - p)
          \/ \E j \in 0..Smaller(len - 1, Eof[d.src] - p) : f = Filled(FALSE, j, 0, j)
      BY <1>3, <2>2 DEF FillPassthrough
    <3>2. CASE p + len <= Eof[d.src] /\ f = Filled(TRUE, len, len, len)
      BY <1>1, <2>2, <3>2 DEF SoundFill, Filled
    <3>3. CASE f = Filled(FALSE, Eof[d.src] - p, 0, Eof[d.src] - p)
      BY <1>1, <3>3 DEF SoundFill, Filled
    <3>4. CASE \E j \in 0..Smaller(len - 1, Eof[d.src] - p) : f = Filled(FALSE, j, 0, j)
      <4>1. PICK j \in 0..Smaller(len - 1, Eof[d.src] - p) : f = Filled(FALSE, j, 0, j)
        BY <3>4
      <4>2. j \in Nat /\ p + j <= Eof[d.src]
        BY <1>1 DEF Smaller
      <4> QED BY <1>1, <4>1, <4>2 DEF SoundFill, Filled
    <3> QED BY <3>1, <3>2, <3>3, <3>4
  <2> QED BY <2>1, <2>2
<1>4. ASSUME f \in FillCompressed(d, p, len)
      PROVE  SoundFill(d, p, len, f)
  <2>1. PICK avail \in Nat : avail = Smaller(d.limit, Eof[d.src] - p)
    BY <1>1 DEF Smaller
  <2>2. avail <= d.limit /\ p + avail <= Eof[d.src]
    BY <1>1, <2>1 DEF Smaller
  <2>3. /\ f.used \in 0..avail /\ f.counted \in 0..avail /\ f.made \in 0..len
        /\ f.ok => f.made = len
        /\ f.counted = f.used \/ f.counted < f.used
    BY ONLY <1>4, <2>1 DEF FillCompressed
  <2> QED BY <1>1, <2>2, <2>3 DEF SoundFill
<1>5. CASE d.kind = "passthrough"
  BY <1>3, <1>5 DEF FillBuffer
<1>6. CASE d.kind = "compressed"
  BY <1>4, <1>6 DEF FillBuffer
<1>7. CASE d.kind \notin {"passthrough", "compressed"}
  BY <1>2, <1>7 DEF FillBuffer
<1> QED BY <1>5, <1>6, <1>7

-----------------------------------------------------------------------------
(* The inductive invariant. *)

(* The first part of StreamAccounting: who has the streams. *)
Owned == \A x \in Sources : owner[x] = "reader" <=> decoder.src = x

(* Its second part: a failed operation has returned the stream. *)
Returned ==
  last.op \in {"new", "begin_new", "next_file", "discard"} /\ last.res = "err"
    => owner[last.src] = "caller"

(* read digests exactly the bytes that it hands out. *)
DigestIsDelivered == crc = delivered

Numbers(n) == [i \in 1..n |-> i - 1]

(* As long as no read failed, the bytes digested are the first bytes of    *)
(* the file, and the decoder is where the reader thinks it is.             *)
DigestIsPrefix ==
  decoder # NoDecoder /\ clean
    => decoder.produced = output_length /\ crc = Numbers(output_length)

(* What holds of the session itself, without the record of its last call.  *)
Session ==
  /\ TypeOK /\ Owned /\ LimitReachesDataEnd /\ LenNeverUnderflows
  /\ DigestIsDelivered /\ DigestIsPrefix

IndInv == Session /\ Returned /\ NextFilePassesData

(* The two parts make up StreamAccounting.                                 *)
LEMMA StreamAccountingParts == StreamAccounting <=> Owned /\ Returned
BY DEF StreamAccounting, Owned, Returned

(* A file of which nothing was read has nothing digested.                  *)
LEMMA NoNumbers == Numbers(0) = <<>>
BY DEF Numbers

(* LhaDecodeReader::default satisfies the invariant.                       *)
LEMMA InitSession == Init => IndInv
<1> SUFFICES ASSUME Init PROVE IndInv
  OBVIOUS
<1>1. TypeOK
  BY EofAssumption DEF Init, TypeOK, PhonyHeader
<1>2. Owned
  BY NoSourceAssumption DEF Init, Owned, NoDecoder
<1>3. LimitReachesDataEnd /\ LenNeverUnderflows /\ DigestIsDelivered /\ DigestIsPrefix
  BY DEF Init, LimitReachesDataEnd, LenNeverUnderflows, DigestIsDelivered, DigestIsPrefix,
         PhonyHeader
<1>4. Returned /\ NextFilePassesData
  BY DEF Init, Returned, NextFilePassesData
<1> QED BY <1>1, <1>2, <1>3, <1>4 DEF IndInv, Session

(* A session that begins with decoder d on stream s: what new, begin_new,  *)
(* begin_with_header_and_decoder and next_file leave when they succeed.    *)
LEMMA SessionBegins ==
  ASSUME TypeOK, NEW s \in Sources, NEW old, NEW q \in Nat, q <= Eof[s],
         NEW d \in Decoders, d.src = s, d.produced = 0, q + d.limit = d.end + d.slip,
         \A x \in Sources \ {s} : owner[x] = "reader" <=> old.src = x,
         pos' = [pos EXCEPT ![s] = q],
         owner' = TakeOver(s, old),
         decoder' = d,
         header' \in [osize: Nat, start: Nat],
         ResetFile
  PROVE  Session'
<1>1. TypeOK'
  <2>1. pos' \in [Sources -> Nat] /\ \A x \in Sources : pos'[x] <= Eof[x]
    BY DEF TypeOK
  <2>2. owner' \in [Sources -> {"caller", "reader", "dropped"}]
    BY DEF TypeOK, TakeOver
  <2> QED BY <2>1, <2>2 DEF TypeOK, ResetFile
<1>2. Owned'
  BY DEF TakeOver, Owned
<1>3. LimitReachesDataEnd'
  <2>1. pos'[s] = q
    BY DEF TypeOK
  <2> QED BY <2>1 DEF LimitReachesDataEnd
<1>4. LenNeverUnderflows' /\ DigestIsDelivered'
  BY DEF LenNeverUnderflows, DigestIsDelivered, ResetFile
<1>5. DigestIsPrefix'
  BY NoNumbers DEF DigestIsPrefix, ResetFile
<1> QED BY <1>1, <1>2, <1>3, <1>4, <1>5 DEF Session

(* A parsed header whose decoder is installed begins a session.            *)
LEMMA InstallBegins ==
  ASSUME TypeOK, NEW s \in Sources, NEW old, NEW from \in Nat, NEW o,
         o.pos \in Nat, o.pos <= Eof[s],
         o.item.kind \in DecoderKinds, o.item.csize \in Nat, o.item.osize \in Nat,
         \A x \in Sources \ {s} : owner[x] = "reader" <=> old.src = x,
         pos' = [pos EXCEPT ![s] = o.pos],
         owner' = TakeOver(s, old),
         Install(s, o, from)
  PROVE  Session'
<1>1. /\ decoder' \in Decoders /\ decoder'.src = s /\ decoder'.produced = 0
      /\ o.pos + decoder'.limit = decoder'.end + decoder'.slip
  BY DEF Install, NewFromHeader, Decoders
<1>2. header' \in [osize: Nat, start: Nat] /\ ResetFile
  BY DEF Install
<1>3. PICK q \in Nat : q = o.pos
  OBVIOUS
<1>4. PICK d \in Decoders : d = decoder'
  BY <1>1
<1> QED BY <1>1, <1>2, <1>3, <1>4, SessionBegins

(* A session that has lost its decoder and keeps or clears its file.       *)
LEMMA SessionStops ==
  ASSUME Session, NEW s \in Sources, decoder.src = s,
         pos' \in [Sources -> Nat], \A x \in Sources : pos'[x] <= Eof[x],
         ReturnStream(s),
         decoder' = NoDecoder,
         \/ UNCHANGED file
         \/ ResetFile /\ header' \in [osize: Nat, start: Nat]
  PROVE  Session' /\ owner'[s] = "caller"
<1>1. TypeOK'
  <2>1. owner' \in [Sources -> {"caller", "reader", "dropped"}]
    BY DEF Session, TypeOK, ReturnStream
  <2>2. CASE UNCHANGED file
    BY <2>1, <2>2 DEF Session, TypeOK, file
  <2>3. CASE ResetFile /\ header' \in [osize: Nat, start: Nat]
    BY <2>1, <2>3 DEF TypeOK, ResetFile
  <2> QED BY <2>2, <2>3
<1>2. Owned' /\ owner'[s] = "caller"
  <2>1. owner'[s] = "caller" /\ \A x \in Sources \ {s} : owner'[x] = owner[x]
    BY DEF Session, TypeOK, ReturnStream
  <2> QED BY <2>1, NoSourceAssumption DEF Session, Owned, NoDecoder
<1>3. LimitReachesDataEnd' /\ DigestIsPrefix'
  BY DEF LimitReachesDataEnd, DigestIsPrefix
<1>4. LenNeverUnderflows' /\ DigestIsDelivered'
  BY DEF Session, LenNeverUnderflows, DigestIsDelivered, ResetFile, file
<1> QED BY <1>1, <1>2, <1>3, <1>4 DEF Session

-----------------------------------------------------------------------------
(* One lemma per operation. *)

(* The body of begin_new, shared with next_file: header, none or error.    *)
LEMMA BeginNewFromKeeps ==
  ASSUME Session, NEW s \in Sources, NEW from \in Nat, from <= Eof[s],
         NEW old \in Decoders \cup {NoDecoder}, old.src # s,
         \A x \in Sources \ {s} : owner[x] = "reader" <=> old.src = x,
         old = decoder \/ (old = NoDecoder /\ decoder.src = s),
         NEW op, NEW due, NEW slip,
         BeginNewFrom(s, from, old, op, due, slip)
  PROVE  /\ Session'
         /\ last'.op = op /\ last'.at = from /\ last'.src = s
         /\ last'.due = due /\ last'.slip = slip
         /\ last'.res = "err" => owner'[s] = "caller"
<1>1. PICK o \in LhaHeaderRead(s, from) :
        /\ pos' = [pos EXCEPT ![s] = o.pos]
        /\ last' = Sought(op, o.res, s, from, due, slip)
        /\ \/ /\ o.res = "some"
              /\ Install(s, o, from)
              /\ owner' = TakeOver(s, old)
           \/ /\ o.res = "none"
              /\ decoder' = NoMoreFiles(s, o.pos)
              /\ ResetFile /\ UNCHANGED header
              /\ owner' = TakeOver(s, old)
           \/ /\ o.res = "err"
              /\ decoder' = old
              /\ ReturnStream(s)
              /\ UNCHANGED file
  BY DEF BeginNewFrom
<1>2. /\ o.pos \in Nat /\ o.pos <= Eof[s]
      /\ o.res = "some" => /\ o.item.kind \in DecoderKinds
                           /\ o.item.csize \in Nat /\ o.item.osize \in Nat
  BY HeaderReadOutcome
<1>3. /\ last'.op = op /\ last'.at = from /\ last'.src = s
      /\ last'.due = due /\ last'.slip = slip /\ last'.res = o.res
  BY <1>1 DEF Sought
<1>4. CASE o.res = "some"
  <2>1. Install(s, o, from) /\ owner' = TakeOver(s, old)
    BY <1>1, <1>4
  <2>2. Session'
    BY <1>1, <1>2, <1>4, <2>1, InstallBegins DEF Session
  <2> QED BY <1>3, <1>4, <2>2
<1>5. CASE o.res = "none"
  <2>1. /\ decoder' = NoMoreFiles(s, o.pos) /\ ResetFile /\ UNCHANGED header
        /\ owner' = TakeOver(s, old)
    BY <1>1, <1>5
  <2>2. PICK d \in Decoders : /\ d = NoMoreFiles(s, o.pos) /\ d.src = s /\ d.produced = 0
                              /\ o.pos + d.limit = d.end + d.slip
    <3>1. NoMoreFiles(s, o.pos) \in Decoders
      BY <1>2 DEF NoMoreFiles, Decoders, DecoderKinds
    <3> QED BY <1>2, <3>1 DEF NoMoreFiles
  <2>3. header' \in [osize: Nat, start: Nat]
    BY <2>1 DEF Session, TypeOK
  <2>4. Session'
    BY <1>1, <1>2, <2>1, <2>2, <2>3, SessionBegins DEF Session
  <2> QED BY <1>3, <1>5, <2>4
<1>6. CASE o.res = "err"
  <2>1. decoder' = old /\ ReturnStream(s) /\ UNCHANGED file
    BY <1>1, <1>6
  <2>2. pos' \in [Sources -> Nat] /\ \A x \in Sources : pos'[x] <= Eof[x]
    BY <1>1, <1>2 DEF Session, TypeOK
  <2>3. CASE old = NoDecoder /\ decoder.src = s
    <3>1. Session' /\ owner'[s] = "caller"
      BY <2>1, <2>2, <2>3, SessionStops
    <3> QED BY <1>3, <3>1
  <2>4. CASE old = decoder
    <3>1. UNCHANGED <<header, crc, output_length, delivered, clean, decoder>>
      BY <2>1, <2>4 DEF file
    <3>2. /\ owner' \in [Sources -> {"caller", "reader", "dropped"}]
          /\ owner'[s] = "caller" /\ \A x \in Sources \ {s} : owner'[x] = owner[x]
      BY <2>1 DEF Session, TypeOK, ReturnStream
    <3>3. TypeOK'
      BY <2>2, <3>1, <3>2 DEF Session, TypeOK
    <3>4. Owned'
      BY <2>4, <3>1, <3>2 DEF Session, Owned
    <3>5. LimitReachesDataEnd'
      <4>1. decoder # NoDecoder => decoder.src \in Sources
        BY DEF Session, TypeOK, Decoders
      <4> QED BY <1>1, <2>4, <3>1, <4>1 DEF Session, TypeOK, LimitReachesDataEnd
    <3>6. LenNeverUnderflows' /\ DigestIsDelivered' /\ DigestIsPrefix'
      BY <3>1 DEF Session, LenNeverUnderflows, DigestIsDelivered, DigestIsPrefix
    <3> QED BY <1>3, <3>2, <3>3, <3>4, <3>5, <3>6 DEF Session
  <2> QED BY <2>3, <2>4
<1> QED BY <1>1, <1>4, <1>5, <1>6

(* new keeps the invariant.                                                *)
LEMMA NewKeeps ==
  ASSUME IndInv, NEW s \in Sources, New(s)
  PROVE  IndInv'
<1>1. owner[s] = "caller" /\ decoder = NoDecoder
  BY DEF New
<1>2. pos[s] \in Nat /\ pos[s] <= Eof[s]
  BY DEF IndInv, Session, TypeOK
<1>3. PICK o \in LhaHeaderRead(s, pos[s]) :
        /\ pos' = [pos EXCEPT ![s] = o.pos]
        /\ \/ /\ o.res = "some"
              /\ Install(s, o, pos[s])
              /\ owner' = TakeOver(s, decoder)
              /\ last' = Sought("new", "some", s, pos[s], pos[s], 0)
           \/ /\ o.res # "some"
              /\ last' = Sought("new", "err", s, pos[s], pos[s], 0)
              /\ UNCHANGED <<decoder, owner>> /\ UNCHANGED file
  BY DEF New
<1>4. /\ o.pos \in Nat /\ o.pos <= Eof[s]
      /\ o.res = "some" => /\ o.item.kind \in DecoderKinds
                           /\ o.item.csize \in Nat /\ o.item.osize \in Nat
  BY <1>2, HeaderReadOutcome
<1>5. CASE o.res = "some"
  <2>1. /\ Install(s, o, pos[s]) /\ owner' = TakeOver(s, decoder)
        /\ last' = Sought("new", "some", s, pos[s], pos[s], 0)
    BY <1>3, <1>5
  <2>2. \A x \in Sources \ {s} : owner[x] = "reader" <=> decoder.src = x
    BY DEF IndInv, Session, Owned
  <2>3. TypeOK
    BY DEF IndInv, Session
  <2>4. Session'
    BY ONLY <1>2, <1>3, <1>4, <1>5, <2>1, <2>2, <2>3, InstallBegins, s \in Sources
  <2>5. Returned' /\ NextFilePassesData'
    BY <2>1 DEF Sought, Returned, NextFilePassesData
  <2> QED BY <2>4, <2>5 DEF IndInv
<1>6. CASE o.res # "some"
  <2>1. /\ last' = Sought("new", "err", s, pos[s], pos[s], 0)
        /\ UNCHANGED <<decoder, owner>> /\ UNCHANGED file
    BY <1>3, <1>6
  <2>2. TypeOK'
    <3>1. pos' \in [Sources -> Nat] /\ \A x \in Sources : pos'[x] <= Eof[x]
      BY <1>3, <1>4 DEF IndInv, Session, TypeOK
    <3> QED BY <2>1, <3>1 DEF IndInv, Session, TypeOK, file
  <2>3. Owned'
    BY <2>1 DEF IndInv, Session, Owned
  <2>4. LimitReachesDataEnd' /\ LenNeverUnderflows' /\ DigestIsDelivered' /\ DigestIsPrefix'
    BY <1>1, <2>1 DEF IndInv, Session, LimitReachesDataEnd, LenNeverUnderflows,
                      DigestIsDelivered, DigestIsPrefix, file
  <2>5. Returned' /\ NextFilePassesData'
    BY <1>1, <2>1 DEF Sought, Returned, NextFilePassesData
  <2> QED BY <2>2, <2>3, <2>4, <2>5 DEF IndInv, Session
<1> QED BY <1>5, <1>6

(* begin_new keeps the invariant, whatever stream the reader had.          *)
LEMMA BeginNewKeeps ==
  ASSUME IndInv, NEW s \in Sources, BeginNew(s)
  PROVE  IndInv'
<1>1. /\ owner[s] = "caller"
      /\ BeginNewFrom(s, pos[s], decoder, "begin_new", pos[s], 0)
  BY DEF BeginNew
<1>2. pos[s] \in Nat /\ pos[s] <= Eof[s] /\ decoder \in Decoders \cup {NoDecoder}
  BY DEF IndInv, Session, TypeOK
<1>3. /\ decoder.src # s
      /\ \A x \in Sources \ {s} : owner[x] = "reader" <=> decoder.src = x
  BY <1>1 DEF IndInv, Session, Owned
<1>4. Session
  BY DEF IndInv
<1>5. /\ Session'
      /\ last'.op = "begin_new" /\ last'.src = s
      /\ last'.res = "err" => owner'[s] = "caller"
  BY <1>1, <1>2, <1>3, <1>4, BeginNewFromKeeps
<1>6. Returned' /\ NextFilePassesData'
  BY <1>5 DEF Returned, NextFilePassesData
<1> QED BY <1>5, <1>6 DEF IndInv

(* begin_with_header_and_decoder keeps the invariant.                      *)
LEMMA BeginWithKeeps ==
  ASSUME IndInv, NEW s \in Sources, BeginWithHeaderAndDecoder(s)
  PROVE  IndInv'
<1>1. pos[s] \in Nat /\ pos[s] <= Eof[s]
  BY DEF IndInv, Session, TypeOK
<1>2. PICK o \in LhaHeaderRead(s, pos[s]) :
        /\ o.res = "some"
        /\ pos' = [pos EXCEPT ![s] = o.pos]
        /\ Install(s, o, pos[s])
        /\ owner' = TakeOver(s, decoder)
        /\ last' = Sought("begin_with", o.res, s, pos[s], pos[s], 0)
  BY DEF BeginWithHeaderAndDecoder
<1>3. /\ o.pos \in Nat /\ o.pos <= Eof[s]
      /\ o.item.kind \in DecoderKinds /\ o.item.csize \in Nat /\ o.item.osize \in Nat
  BY <1>1, <1>2, HeaderReadOutcome
<1>4. \A x \in Sources \ {s} : owner[x] = "reader" <=> decoder.src = x
  BY DEF IndInv, Session, Owned
<1>5. TypeOK
  BY DEF IndInv, Session
<1>6. Session'
  BY ONLY <1>1, <1>2, <1>3, <1>4, <1>5, InstallBegins, s \in Sources
<1>7. Returned' /\ NextFilePassesData'
  BY <1>2 DEF Sought, Returned, NextFilePassesData
<1> QED BY <1>6, <1>7 DEF IndInv

(* Where discard_to_end ends up: at the end of the data, past it by what   *)
(* failed reads took, or at the end of the stream.                         *)
LEMMA DiscardReachesEnd ==
  ASSUME Session, decoder # NoDecoder
  PROVE  LET q == DiscardToEnd(decoder.src, pos[decoder.src], decoder.limit)
         IN /\ decoder \in Decoders /\ decoder.src \in Sources
            /\ q \in Nat /\ q <= Eof[decoder.src] /\ pos[decoder.src] <= q
            /\ q = Smaller(decoder.end + decoder.slip, Eof[decoder.src])
<1>1. /\ decoder \in Decoders /\ decoder.src \in Sources
      /\ decoder.limit \in Nat /\ decoder.end \in Nat /\ decoder.slip \in Nat
  BY DEF Session, TypeOK, Decoders
<1>2. /\ pos[decoder.src] \in Nat /\ Eof[decoder.src] \in Nat
      /\ pos[decoder.src] <= Eof[decoder.src]
  BY <1>1, EofAssumption DEF Session, TypeOK
<1>3. pos[decoder.src] + decoder.limit = decoder.end + decoder.slip
  BY DEF Session, LimitReachesDataEnd
<1> QED BY <1>1, <1>2, <1>3 DEF DiscardToEnd, Smaller

(* next_file keeps the invariant and skips exactly.                        *)
LEMMA NextFileKeeps ==
  ASSUME IndInv, NextFile
  PROVE  IndInv'
<1> DEFINE q == DiscardToEnd(decoder.src, pos[decoder.src], decoder.limit)
<1>1. /\ decoder # NoDecoder
      /\ BeginNewFrom(decoder.src, q, NoDecoder, "next_file", decoder.end, decoder.slip)
  BY DEF NextFile
<1>2. Session
  BY DEF IndInv
<1>3. /\ decoder.src \in Sources /\ q \in Nat /\ q <= Eof[decoder.src]
      /\ q = Smaller(decoder.end + decoder.slip, Eof[decoder.src])
  BY <1>1, <1>2, DiscardReachesEnd
<1>4. PICK s \in Sources, from \in Nat : s = decoder.src /\ from = q
  BY <1>3
<1> HIDE DEF q
<1>5. /\ NoDecoder.src # s /\ NoDecoder \in Decoders \cup {NoDecoder}
      /\ \A x \in Sources \ {s} : owner[x] = "reader" <=> NoDecoder.src = x
  BY <1>2, <1>4, NoSourceAssumption DEF Session, Owned, NoDecoder
<1>6. BeginNewFrom(s, from, NoDecoder, "next_file", decoder.end, decoder.slip)
  BY <1>1, <1>4
<1>7. /\ Session'
      /\ last'.op = "next_file" /\ last'.at = from /\ last'.src = s
      /\ last'.due = decoder.end /\ last'.slip = decoder.slip
      /\ last'.res = "err" => owner'[s] = "caller"
  BY <1>2, <1>3, <1>4, <1>5, <1>6, BeginNewFromKeeps
<1>8. Returned' /\ NextFilePassesData'
  BY <1>3, <1>4, <1>7 DEF Returned, NextFilePassesData
<1> QED BY <1>7, <1>8 DEF IndInv

(* next_file keeps the invariant when discarding fails.                    *)
LEMMA NextFileDiscardFailsKeeps ==
  ASSUME IndInv, NextFileDiscardFails
  PROVE  IndInv'
<1> DEFINE stop == DiscardToEnd(decoder.src, pos[decoder.src], decoder.limit - 1)
<1>1. /\ decoder # NoDecoder /\ decoder.limit > 0 /\ decoder' = NoDecoder
      /\ ReturnStream(decoder.src) /\ UNCHANGED file
  BY DEF NextFileDiscardFails
<1>2. PICK q \in pos[decoder.src]..stop :
        /\ pos' = [pos EXCEPT ![decoder.src] = q]
        /\ last' = Sought("discard", "err", decoder.src, q, decoder.end, decoder.slip)
  BY DEF NextFileDiscardFails
<1>3. Session
  BY DEF IndInv
<1>4. decoder.src \in Sources /\ decoder.limit \in Nat
  BY <1>1, <1>3 DEF Session, TypeOK, Decoders
<1>5. pos[decoder.src] \in Nat /\ Eof[decoder.src] \in Nat
  BY <1>3, <1>4, EofAssumption DEF Session, TypeOK
<1>6. q \in Nat /\ q <= Eof[decoder.src]
  BY <1>1, <1>4, <1>5 DEF DiscardToEnd, Smaller
<1> HIDE DEF stop
<1>7. pos' \in [Sources -> Nat] /\ \A x \in Sources : pos'[x] <= Eof[x]
  BY <1>2, <1>3, <1>4, <1>6 DEF Session, TypeOK
<1>8. Session' /\ owner'[decoder.src] = "caller"
  BY <1>1, <1>3, <1>4, <1>7, SessionStops
<1>9. Returned' /\ NextFilePassesData'
  BY <1>2, <1>8 DEF Sought, Returned, NextFilePassesData
<1> QED BY <1>8, <1>9 DEF IndInv

(* take_inner keeps the invariant, with and without a decoder.             *)
LEMMA TakeInnerKeeps ==
  ASSUME IndInv, TakeInner
  PROVE  IndInv'
<1>1. /\ decoder' = NoDecoder /\ header' = [header EXCEPT !.osize = 0] /\ ResetFile
      /\ UNCHANGED pos /\ last' = Sought("take_inner", "ok", decoder.src, 0, 0, 0)
      /\ \/ decoder # NoDecoder /\ ReturnStream(decoder.src)
         \/ decoder = NoDecoder /\ UNCHANGED owner
  BY DEF TakeInner
<1>2. Session
  BY DEF IndInv
<1>3. /\ header' \in [osize: Nat, start: Nat]
      /\ pos' \in [Sources -> Nat] /\ \A x \in Sources : pos'[x] <= Eof[x]
  BY <1>1, <1>2 DEF Session, TypeOK
<1>4. Returned' /\ NextFilePassesData'
  BY <1>1 DEF Sought, Returned, NextFilePassesData
<1>5. CASE decoder # NoDecoder
  <2>1. decoder.src \in Sources /\ ReturnStream(decoder.src)
    BY <1>1, <1>2, <1>5 DEF Session, TypeOK, Decoders
  <2>2. Session'
    BY <1>1, <1>2, <1>3, <2>1, SessionStops
  <2> QED BY <1>4, <2>2 DEF IndInv
<1>6. CASE decoder = NoDecoder
  <2>1. TypeOK'
    BY <1>1, <1>2, <1>3, <1>6 DEF Session, TypeOK, ResetFile
  <2>2. Owned' /\ LimitReachesDataEnd' /\ DigestIsPrefix'
    BY <1>1, <1>2, <1>6 DEF Session, Owned, LimitReachesDataEnd, DigestIsPrefix
  <2>3. LenNeverUnderflows' /\ DigestIsDelivered'
    BY <1>1, <1>3 DEF LenNeverUnderflows, DigestIsDelivered, ResetFile
  <2> QED BY <1>4, <2>1, <2>2, <2>3 DEF IndInv, Session
<1> QED BY <1>5, <1>6

(* into_inner keeps the invariant.                                         *)
LEMMA IntoInnerKeeps ==
  ASSUME IndInv, IntoInner
  PROVE  IndInv'
<1>1. /\ decoder # NoDecoder /\ ReturnStream(decoder.src)
      /\ decoder' = NoDecoder /\ header' = PhonyHeader /\ ResetFile
      /\ UNCHANGED pos /\ last' = Sought("into_inner", "ok", decoder.src, 0, 0, 0)
  BY DEF IntoInner
<1>2. Session
  BY DEF IndInv
<1>3. /\ decoder.src \in Sources /\ header' \in [osize: Nat, start: Nat]
      /\ pos' \in [Sources -> Nat] /\ \A x \in Sources : pos'[x] <= Eof[x]
  BY <1>1, <1>2 DEF Session, TypeOK, Decoders, PhonyHeader
<1>4. Session'
  BY <1>1, <1>2, <1>3, SessionStops
<1>5. Returned' /\ NextFilePassesData'
  BY <1>1 DEF Sought, Returned, NextFilePassesData
<1> QED BY <1>4, <1>5 DEF IndInv

-----------------------------------------------------------------------------
(* read. *)

(* Cutting a length to usize never makes it larger. *)
LEMMA CutToUsize ==
  \A x \in Nat : x % UsizeModulus \in Nat /\ x % UsizeModulus <= x
<1> SUFFICES ASSUME NEW x \in Nat
             PROVE  x % UsizeModulus \in Nat /\ x % UsizeModulus <= x
  OBVIOUS
<1>1. x % UsizeModulus \in 0..UsizeModulus-1
  BY UsizeAssumption
<1>2. CASE x < UsizeModulus
  BY <1>2, UsizeAssumption
<1>3. CASE ~(x < UsizeModulus)
  BY <1>1, <1>3, UsizeAssumption
<1> QED BY <1>2, <1>3

(* A read never asks for more than is left of the file.                    *)
LEMMA ReadLenFits ==
  ASSUME header.osize \in Nat, output_length \in Nat, LenNeverUnderflows, NEW n \in Nat
  PROVE  ReadLen(n) \in Nat /\ output_length + ReadLen(n) <= header.osize
<1>1. PICK x \in Nat : x = header.osize - output_length
  BY DEF LenNeverUnderflows
<1>2. x % UsizeModulus \in Nat /\ x % UsizeModulus <= x
  BY CutToUsize
<1>3. PICK y \in Nat : y = (header.osize - output_length) % UsizeModulus /\ y <= x
  BY <1>1, <1>2
<1>4. ReadLen(n) = Smaller(n, y)
  BY <1>3 DEF ReadLen
<1> QED BY <1>1, <1>3, <1>4 DEF Smaller

(* Concatenation of sequences of byte numbers.                             *)
LEMMA ConcatNat ==
  ASSUME NEW s1 \in Seq(Nat), NEW s2 \in Seq(Nat)
  PROVE  /\ s1 \o s2 \in Seq(Nat)
         /\ Len(s1 \o s2) = Len(s1) + Len(s2)
         /\ \A i \in 1 .. Len(s1) + Len(s2) :
              (s1 \o s2)[i] = IF i <= Len(s1) THEN s1[i] ELSE s2[i - Len(s1)]
BY ConcatProperties

(* The bytes that a read decodes, one by one.                              *)
LEMMA BytesType ==
  ASSUME NEW from \in Nat, NEW len \in Nat, header.osize \in Nat
  PROVE  /\ Bytes(from, len) \in Seq(Nat) /\ Len(Bytes(from, len)) = len
         /\ \A i \in 1..len : Bytes(from, len)[i] = Smaller(from + i - 1, header.osize)
<1>1. \A i \in 1..len : Smaller(from + i - 1, header.osize) \in Nat
  BY DEF Smaller
<1> QED BY <1>1 DEF Bytes

(* The first bytes of a file, one by one.                                  *)
LEMMA NumbersType ==
  ASSUME NEW n \in Nat
  PROVE  /\ Numbers(n) \in Seq(Nat) /\ Len(Numbers(n)) = n
         /\ \A i \in 1..n : Numbers(n)[i] = i - 1
<1>1. \A i \in 1..n : i - 1 \in Nat
  OBVIOUS
<1> QED BY <1>1 DEF Numbers

(* The next bytes of a file appended to its first ones are its first ones. *)
LEMMA NumbersGrow ==
  ASSUME NEW n \in Nat, NEW len \in Nat, header.osize \in Nat, n + len <= header.osize
  PROVE  Numbers(n) \o Bytes(n, len) = Numbers(n + len)
<1>1. PICK a \in Seq(Nat) : a = Numbers(n) /\ Len(a) = n /\ \A i \in 1..n : a[i] = i - 1
  BY NumbersType
<1>2. PICK b \in Seq(Nat) : /\ b = Bytes(n, len) /\ Len(b) = len
                            /\ \A i \in 1..len : b[i] = Smaller(n + i - 1, header.osize)
  BY BytesType
<1>3. PICK m \in Nat : m = n + len
  OBVIOUS
<1>4. PICK c \in Seq(Nat) : c = Numbers(n + len) /\ Len(c) = m /\ \A i \in 1..m : c[i] = i - 1
  BY <1>3, NumbersType
<1>5. /\ a \o b \in Seq(Nat) /\ Len(a \o b) = m
      /\ \A i \in 1..m : (a \o b)[i] = IF i <= n THEN a[i] ELSE b[i - n]
  <2>1. /\ a \o b \in Seq(Nat) /\ Len(a \o b) = Len(a) + Len(b)
        /\ \A i \in 1 .. Len(a) + Len(b) :
             (a \o b)[i] = IF i <= Len(a) THEN a[i] ELSE b[i - Len(a)]
    BY ConcatNat
  <2>2. Len(a) = n /\ Len(a) + Len(b) = m
    BY <1>1, <1>2, <1>3
  <2> QED BY ONLY <2>1, <2>2, Zenon
<1>6. ASSUME NEW i \in 1..m
      PROVE  (a \o b)[i] = c[i]
  <2>1. CASE i <= n
    BY <1>1, <1>3, <1>4, <1>5, <2>1
  <2>2. CASE ~(i <= n)
    <3>1. i - n \in 1..len
      BY <1>3, <2>2
    <3>2. b[i - n] = Smaller(n + (i - n) - 1, header.osize)
      BY <1>2, <3>1
    <3>3. Smaller(n + (i - n) - 1, header.osize) = i - 1
      BY <1>3, <2>2 DEF Smaller
    <3> QED BY <1>4, <1>5, <2>2, <3>2, <3>3
  <2> QED BY <2>1, <2>2
<1>7. a \o b = c
  BY <1>4, <1>5, <1>6, SeqEqual
<1> QED BY <1>1, <1>2, <1>4, <1>7

(* read keeps the invariant: limit, slip, counts and digest move together. *)
LEMMA ReadKeeps ==
  ASSUME IndInv, NEW n \in BufLens, Read(n)
  PROVE  IndInv'
<1>1. decoder # NoDecoder /\ owner' = owner /\ header' = header
  BY DEF Read
<1>2. PICK f \in FillBuffer(decoder, pos[decoder.src], ReadLen(n)) :
        /\ pos' = [pos EXCEPT ![decoder.src] = @ + f.used]
        /\ decoder' = [decoder EXCEPT !.limit = @ - f.counted,
                                      !.slip = @ + f.used - f.counted,
                                      !.produced = Smaller(@ + f.made, header.osize)]
        /\ last' = [Sought("read", IF f.ok THEN "ok" ELSE "err", decoder.src, 0, 0, 0)
                      EXCEPT !.want = n, !.len = ReadLen(n)]
        /\ Account(f, ReadLen(n))
  BY DEF Read
<1>3. PICK s \in Sources : s = decoder.src
  BY <1>1 DEF IndInv, Session, TypeOK, Decoders
<1>4. /\ decoder \in Decoders /\ decoder.limit \in Nat /\ decoder.slip \in Nat
      /\ decoder.produced \in Nat /\ decoder.end \in Nat
      /\ pos[s] \in Nat /\ pos[s] <= Eof[s] /\ Eof[s] \in Nat
      /\ header.osize \in Nat /\ output_length \in Nat /\ n \in Nat
  BY <1>1, <1>3, EofAssumption, BufLensAssumption DEF IndInv, Session, TypeOK, Decoders
<1>5. PICK len \in Nat : len = ReadLen(n) /\ output_length + len <= header.osize
  BY <1>4, ReadLenFits DEF IndInv, Session
<1>6. /\ f.used \in Nat /\ f.counted \in Nat /\ f.made \in Nat
      /\ pos[s] + f.used <= Eof[s]
      /\ f.counted <= f.used /\ f.counted <= decoder.limit
      /\ f.ok => f.made = len
  <2>1. SoundFill(decoder, pos[s], len, f)
    BY <1>2, <1>3, <1>4, <1>5, FillOutcome
  <2> QED BY <1>3, <2>1 DEF SoundFill
<1>7. /\ decoder' \in Decoders /\ decoder'.src = s /\ decoder'.end = decoder.end
      /\ decoder'.limit = decoder.limit - f.counted
      /\ decoder'.slip = decoder.slip + f.used - f.counted
      /\ decoder'.produced = Smaller(decoder.produced + f.made, header.osize)
  <2>1. PICK pr \in Nat : pr = Smaller(decoder.produced + f.made, header.osize)
    BY <1>4, <1>6 DEF Smaller
  <2>2. decoder.limit - f.counted \in Nat /\ decoder.slip + f.used - f.counted \in Nat
    BY <1>4, <1>6
  <2> QED BY <1>2, <1>3, <1>4, <2>1, <2>2 DEF Decoders
<1>8. /\ pos' \in [Sources -> Nat] /\ \A x \in Sources : pos'[x] <= Eof[x]
      /\ pos'[s] = pos[s] + f.used
  <2>1. PICK q \in Nat : q = pos[s] + f.used /\ q <= Eof[s]
    BY <1>4, <1>6
  <2>2. pos' = [pos EXCEPT ![s] = q]
    BY <1>2, <1>3, <2>1
  <2> QED BY <2>1, <2>2 DEF IndInv, Session, TypeOK
<1>9. LimitReachesDataEnd'
  <2>1. pos[s] + decoder.limit = decoder.end + decoder.slip
    BY <1>1, <1>3 DEF IndInv, Session, LimitReachesDataEnd
  <2> QED BY <1>4, <1>6, <1>7, <1>8, <2>1 DEF LimitReachesDataEnd
<1>10. Owned'
  BY <1>1, <1>3, <1>7 DEF IndInv, Session, Owned
<1>11. Returned' /\ NextFilePassesData'
  BY <1>2 DEF Sought, Returned, NextFilePassesData
<1>12. /\ crc \in Seq(Nat) /\ delivered = crc /\ clean \in BOOLEAN
       /\ owner \in [Sources -> {"caller", "reader", "dropped"}]
       /\ header \in [osize: Nat, start: Nat]
  BY DEF IndInv, Session, TypeOK, DigestIsDelivered
<1>13. CASE f.ok
  <2>1. /\ output_length' = output_length + len
        /\ crc' = crc \o Bytes(decoder.produced, len)
        /\ delivered' = delivered \o Bytes(decoder.produced, len)
        /\ clean' = clean
    BY <1>2, <1>5, <1>13 DEF Account
  <2>2. crc' \in Seq(Nat) /\ delivered' = crc'
    BY <1>4, <1>12, <2>1, BytesType, ConcatNat
  <2>3. TypeOK'
    BY <1>1, <1>4, <1>7, <1>8, <1>12, <2>1, <2>2 DEF TypeOK
  <2>4. LenNeverUnderflows' /\ DigestIsDelivered'
    BY <1>1, <1>5, <2>1, <2>2 DEF LenNeverUnderflows, DigestIsDelivered
  <2>5. DigestIsPrefix'
    <3>1. SUFFICES ASSUME clean
                   PROVE  decoder'.produced = output_length' /\ crc' = Numbers(output_length')
      BY <2>1 DEF DigestIsPrefix
    <3>2. decoder.produced = output_length /\ crc = Numbers(output_length)
      BY <1>1, <3>1 DEF IndInv, Session, DigestIsPrefix
    <3>3. decoder'.produced = output_length'
      <4>1. decoder'.produced = Smaller(output_length + len, header.osize)
        BY <1>6, <1>7, <1>13, <3>2
      <4>2. Smaller(output_length + len, header.osize) = output_length + len
        BY <1>4, <1>5 DEF Smaller
      <4> QED BY <2>1, <4>1, <4>2, Zenon
    <3>4. crc' = Numbers(output_length')
      BY <1>4, <1>5, <2>1, <3>2, NumbersGrow
    <3> QED BY <3>3, <3>4
  <2> QED BY <1>9, <1>10, <1>11, <2>3, <2>4, <2>5 DEF IndInv, Session
<1>14. CASE ~f.ok
  <2>1. clean' = FALSE /\ UNCHANGED <<output_length, crc, delivered>>
    BY <1>2, <1>14 DEF Account
  <2>2. TypeOK'
    BY <1>1, <1>4, <1>7, <1>8, <1>12, <2>1 DEF TypeOK
  <2>3. LenNeverUnderflows' /\ DigestIsDelivered' /\ DigestIsPrefix'
    BY <1>1, <2>1 DEF IndInv, Session, LenNeverUnderflows, DigestIsDelivered, DigestIsPrefix
  <2> QED BY <1>9, <1>10, <1>11, <2>2, <2>3 DEF IndInv, Session
<1> QED BY <1>13, <1>14

-----------------------------------------------------------------------------
(* The theorems. *)

(* No operation breaks the invariant. *)
LEMMA NextKeeps == IndInv /\ [Next]_vars => IndInv'
<1> SUFFICES ASSUME IndInv, [Next]_vars PROVE IndInv'
  OBVIOUS
<1>1. CASE UNCHANGED vars
  BY <1>1 DEF vars, IndInv, Session, TypeOK, Owned, LimitReachesDataEnd, LenNeverUnderflows,
              DigestIsDelivered, DigestIsPrefix, Returned, NextFilePassesData
<1>2. CASE \E s \in Sources : New(s) \/ BeginNew(s) \/ BeginWithHeaderAndDecoder(s)
  BY <1>2, NewKeeps, BeginNewKeeps, BeginWithKeeps
<1>3. CASE NextFile
  BY <1>3, NextFileKeeps
<1>4. CASE NextFileDiscardFails
  BY <1>4, NextFileDiscardFailsKeeps
<1>5. CASE TakeInner
  BY <1>5, TakeInnerKeeps
<1>6. CASE IntoInner
  BY <1>6, IntoInnerKeeps
<1>7. CASE \E n \in BufLens : Read(n)
  BY <1>7, ReadKeeps
<1> QED BY <1>1, <1>2, <1>3, <1>4, <1>5, <1>6, <1>7 DEF Next

(* The invariant holds in every state of every session.                    *)
THEOREM Invariance == Spec => []IndInv
BY InitSession, NextKeeps, PTL DEF Spec

(* Every variable of a session keeps its type, and no stream is read past  *)
(* its end.                                                                *)
THEOREM TypeCorrect == Spec => []TypeOK
<1>1. IndInv => TypeOK
  BY DEF IndInv, Session
<1> QED BY <1>1, Invariance, PTL

(* LhaDecodeReader has a stream exactly while its decoder reads from it,   *)
(* and gives it back when an operation that took it fails.                 *)
THEOREM StreamsAreAccountedFor == Spec => []StreamAccounting
<1>1. IndInv => StreamAccounting
  BY StreamAccountingParts DEF IndInv, Session
<1> QED BY <1>1, Invariance, PTL

(* The limit of Take is what is left of the current file's data, up to     *)
(* what failed reads took from the stream.                                 *)
THEOREM LimitIsExact == Spec => []LimitReachesDataEnd
<1>1. IndInv => LimitReachesDataEnd
  BY DEF IndInv, Session
<1> QED BY <1>1, Invariance, PTL

(* next_file looks for a header at the end of the current file's data,     *)
(* past it only by what failed reads took.                                 *)
THEOREM SkipIsExact == Spec => []NextFilePassesData
<1>1. IndInv => NextFilePassesData
  BY DEF IndInv
<1> QED BY <1>1, Invariance, PTL

(* read never counts more bytes than the file has. *)
THEOREM LengthIsBounded == Spec => []LenNeverUnderflows
<1>1. IndInv => LenNeverUnderflows
  BY DEF IndInv, Session
<1> QED BY <1>1, Invariance, PTL

(* A file that was read to its end and whose checksum matches has been     *)
(* received whole.                                                         *)
THEOREM VerificationIsSound == Spec => []VerifiedIsDelivered
<1>1. IndInv => VerifiedIsDelivered
  BY DEF IndInv, Session, DigestIsDelivered, VerifiedIsDelivered, CrcIsOk
<1> QED BY <1>1, Invariance, PTL

(* A file that was read to its end without a failed read verifies.         *)
THEOREM VerificationIsComplete == Spec => []CleanReadVerifies
<1>1. IndInv => CleanReadVerifies
  BY DEF IndInv, Session, DigestIsPrefix, CleanReadVerifies, CrcIsOk, Complete, Numbers
<1> QED BY <1>1, Invariance, PTL

-----------------------------------------------------------------------------
(* Files that fit usize. *)

(* No file is larger than usize can count. *)
FilesFitUsize ==
  \A s \in Sources : \A p \in 0..Eof[s]-1 : Content[s][p].osize < UsizeModulus

HeaderFits == header.osize < UsizeModulus

(* The header of a session is one that was parsed, or has no length.       *)
LEMMA HeaderStaysFit ==
  ASSUME FilesFitUsize, IndInv, HeaderFits, [Next]_vars
  PROVE  HeaderFits'
<1> USE DEF HeaderFits
<1>1. CASE header'.osize = header.osize
  BY <1>1
<1>2. CASE header'.osize = 0
  BY <1>2, UsizeAssumption
<1>3. ASSUME NEW s \in Sources, NEW p \in Nat, p <= Eof[s],
             NEW o \in LhaHeaderRead(s, p), o.res = "some", Install(s, o, p)
      PROVE  HeaderFits'
  <2>1. p \in 0..Eof[s]-1 /\ o.item = Content[s][p]
    BY <1>3, HeaderReadOutcome, EofAssumption
  <2>2. header'.osize = o.item.osize
    BY <1>3 DEF Install
  <2> QED BY <2>1, <2>2 DEF FilesFitUsize
<1>4. \A s \in Sources : pos[s] \in Nat /\ pos[s] <= Eof[s]
  BY DEF IndInv, Session, TypeOK
<1>5. ASSUME NEW s \in Sources, NEW p \in Nat, p <= Eof[s], NEW old, NEW op, NEW due, NEW slip,
             BeginNewFrom(s, p, old, op, due, slip)
      PROVE  HeaderFits'
  <2>1. \/ header' = header
        \/ \E o \in LhaHeaderRead(s, p) : o.res = "some" /\ Install(s, o, p)
    BY <1>5 DEF BeginNewFrom, file
  <2> QED BY <1>1, <1>3, <1>5, <2>1
<1>6. ASSUME NEW s \in Sources, New(s) \/ BeginNew(s) \/ BeginWithHeaderAndDecoder(s)
      PROVE  HeaderFits'
  <2>1. \/ header' = header
        \/ \E o \in LhaHeaderRead(s, pos[s]) : o.res = "some" /\ Install(s, o, pos[s])
        \/ BeginNewFrom(s, pos[s], decoder, "begin_new", pos[s], 0)
    BY <1>6 DEF New, BeginNew, BeginWithHeaderAndDecoder, file
  <2>2. PICK p \in Nat : p = pos[s] /\ p <= Eof[s]
    BY <1>4
  <2> QED BY <1>1, <1>3, <1>5, <2>1, <2>2
<1>7. CASE NextFile
  <2>1. PICK p \in Nat : p = DiscardToEnd(decoder.src, pos[decoder.src], decoder.limit)
                         /\ p <= Eof[decoder.src]
    BY <1>7, DiscardReachesEnd DEF IndInv, NextFile
  <2>2. /\ decoder.src \in Sources
        /\ BeginNewFrom(decoder.src, p, NoDecoder, "next_file", decoder.end, decoder.slip)
    BY <1>7, <2>1, DiscardReachesEnd DEF IndInv, NextFile
  <2> QED BY <1>5, <2>1, <2>2
<1>8. CASE NextFileDiscardFails
  BY <1>1, <1>8 DEF NextFileDiscardFails, file
<1>9. CASE TakeInner \/ IntoInner
  <2>1. header \in [osize: Nat, start: Nat]
    BY DEF IndInv, Session, TypeOK
  <2> QED BY <1>2, <1>9, <2>1 DEF TakeInner, IntoInner, PhonyHeader
<1>10. CASE \E n \in BufLens : Read(n)
  BY <1>1, <1>10 DEF Read
<1>11. CASE UNCHANGED vars
  BY <1>1, <1>11 DEF vars
<1> QED BY <1>6, <1>7, <1>8, <1>9, <1>10, <1>11 DEF Next

(* The step that ZeroMeansEndOfFile is about: when files fit usize, read   *)
(* asks for nothing only when the caller does or nothing is left.          *)
LEMMA ZeroAtEnd ==
  ASSUME IndInv, HeaderFits, NEW n \in BufLens, Read(n), ZeroMeansEndOfFile
  PROVE  ZeroMeansEndOfFile'
<1>1. /\ header' = header
      /\ \E f \in FillBuffer(decoder, pos[decoder.src], ReadLen(n)) :
           /\ last' = [Sought("read", IF f.ok THEN "ok" ELSE "err", decoder.src, 0, 0, 0)
                         EXCEPT !.want = n, !.len = ReadLen(n)]
           /\ Account(f, ReadLen(n))
  BY DEF Read
<1>2. PICK f : /\ last' = [Sought("read", IF f.ok THEN "ok" ELSE "err", decoder.src, 0, 0, 0)
                             EXCEPT !.want = n, !.len = ReadLen(n)]
               /\ Account(f, ReadLen(n))
  BY <1>1
<1>3. SUFFICES ASSUME last'.res = "ok", last'.want > 0, last'.len = 0
               PROVE  output_length' = header'.osize
  BY DEF ZeroMeansEndOfFile
<1>4. f.ok /\ n > 0 /\ ReadLen(n) = 0
  BY <1>2, <1>3 DEF Sought
<1>5. header.osize \in Nat /\ output_length \in Nat /\ output_length <= header.osize /\ n \in Nat
  BY BufLensAssumption DEF IndInv, Session, TypeOK, LenNeverUnderflows
<1>6. output_length' = output_length
  BY <1>2, <1>4, <1>5 DEF Account
<1>7. PICK x \in Nat : x = header.osize - output_length /\ x < UsizeModulus
  BY <1>5, UsizeAssumption DEF HeaderFits
<1>8. x % UsizeModulus = x
  BY <1>7, UsizeAssumption
<1>9. x = 0
  BY <1>4, <1>5, <1>7, <1>8 DEF ReadLen, Smaller
<1> QED BY <1>1, <1>5, <1>6, <1>7, <1>9

(* When no file is larger than usize can count, Ok(0) from read means the  *)
(* end of the file to a caller with room.                                  *)
THEOREM ZeroEndsFile ==
  ASSUME FilesFitUsize
  PROVE  Spec => []ZeroMeansEndOfFile
<1>1. Init => HeaderFits /\ ZeroMeansEndOfFile
  BY UsizeAssumption DEF Init, PhonyHeader, HeaderFits, ZeroMeansEndOfFile
<1>2. IndInv /\ HeaderFits /\ ZeroMeansEndOfFile /\ [Next]_vars
        => HeaderFits' /\ ZeroMeansEndOfFile'
  <2> SUFFICES ASSUME IndInv, HeaderFits, ZeroMeansEndOfFile, [Next]_vars
               PROVE  ZeroMeansEndOfFile'
    BY HeaderStaysFit
  <2>1. CASE \E n \in BufLens : Read(n)
    BY <2>1, ZeroAtEnd
  <2>2. CASE UNCHANGED vars
    BY <2>2 DEF vars, ZeroMeansEndOfFile
  <2>3. CASE last'.op # "read"
    BY <2>3 DEF ZeroMeansEndOfFile
  <2>4. \/ \E n \in BufLens : Read(n)
        \/ UNCHANGED vars
        \/ last'.op # "read"
    BY DEF Next, New, BeginNew, BeginWithHeaderAndDecoder, NextFile, BeginNewFrom,
           NextFileDiscardFails, TakeInner, IntoInner, Sought
  <2> QED BY <2>1, <2>2, <2>3, <2>4
<1> QED BY <1>1, <1>2, Invariance, PTL DEF Spec
=============================================================================
