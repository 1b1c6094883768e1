-------------------------- MODULE ExtractLoopProofs --------------------------
(***************************************************************************)
(* The extraction loop is offered every file of an archive, for every      *)
(* archive, choice of files and size of the copy buffer.                   *)
(***************************************************************************)
EXTENDS ExtractLoop, ArchiveReaderProofs, WellFoundedInduction

(* A set of natural numbers that is not empty has a smallest member.       *)
LEMMA Smallest ==
  ASSUME NEW S \in SUBSET Nat, S # {}
  PROVE  \E x \in S : \A y \in S : x <= y
<1> DEFINE R == OpToRel(<, Nat)
<1>1. IsWellFoundedOn(R, Nat)
  BY ONLY NatLessThanWellFounded, Zenon
<1>2. PICK x \in S : \A y \in S : ~ (<<y, x>> \in R)
  <2> HIDE DEF R
  <2> QED BY ONLY WFMin, <1>1, S \subseteq Nat, S # {}, Zenon
<1>3. \A y \in S : ~(y < x)
  BY <1>2 DEF OpToRel
<1> QED BY <1>3, SMT

(* Concatenation may be grouped either way.                                *)
LEMMA ConcatEitherWay ==
  ASSUME NEW a \in Seq(Nat), NEW b \in Seq(Nat), NEW c \in Seq(Nat)
  PROVE  (a \o b) \o c = a \o (b \o c)
BY SMT

-----------------------------------------------------------------------------
(* The table of contents. *)

(* What follows the file at byte p, given the tables from later bytes.     *)
Follows(s, f, p) ==
  IF p + ItemAt(s, p).hlen + ItemAt(s, p).csize > Eof[s] THEN <<>>
  ELSE f[p + ItemAt(s, p).hlen + ItemAt(s, p).csize]

NoFileAt(s, p) ==
  p = Eof[s] \/ ItemAt(s, p).kind \notin DecoderKinds \/ p + ItemAt(s, p).hlen > Eof[s]

TableAt(s, f, p) == IF NoFileAt(s, p) THEN <<>> ELSE <<p>> \o Follows(s, f, p)

Tables(s) == [0..Eof[s] -> Seq(Nat)]

(* The table from a byte depends on those from later bytes only. *)
LEMMA TableLooksAhead ==
  ASSUME NEW s \in Sources, NEW p \in 0..Eof[s], NEW f \in Tables(s)
  PROVE  /\ TableAt(s, f, p) \in Seq(Nat)
         /\ \A g : (\A q \in 0..Eof[s] : q > p => g[q] = f[q])
              => TableAt(s, g, p) = TableAt(s, f, p)
<1>1. Eof[s] \in Nat /\ p \in Nat
  BY EofAssumption
<1>2. CASE NoFileAt(s, p)
  BY <1>2 DEF TableAt
<1>3. CASE ~NoFileAt(s, p)
  <2>1. p < Eof[s] /\ Content[s] \in [0..Eof[s]-1 -> Item]
    BY <1>1, <1>3, ContentAssumption DEF NoFileAt
  <2>2. ItemAt(s, p) \in Item
    BY <1>1, <2>1 DEF ItemAt
  <2>3. PICK h \in Nat \ {0}, c \in Nat : h = ItemAt(s, p).hlen /\ c = ItemAt(s, p).csize
    BY <2>2 DEF Item
  <2>4. \A g : Follows(s, g, p) = IF p + h + c > Eof[s] THEN <<>> ELSE g[p + h + c]
    BY <2>3 DEF Follows
  <2>5. CASE p + h + c > Eof[s]
    <3>1. \A g : Follows(s, g, p) = <<>>
      BY <2>4, <2>5
    <3>2. \A g : TableAt(s, g, p) = <<p>> \o <<>>
      BY <1>3, <3>1 DEF TableAt
    <3>3. <<p>> \o <<>> \in Seq(Nat)
      BY <1>1
    <3> QED BY ONLY <3>2, <3>3, Zenon
  <2>6. CASE ~(p + h + c > Eof[s])
    <3>1. p + h + c \in 0..Eof[s] /\ p + h + c > p
      BY <1>1, <2>6
    <3>2. PICK n \in 0..Eof[s] : n = p + h + c /\ n > p
      BY <3>1
    <3>3. \A g : Follows(s, g, p) = g[n]
      BY <2>4, <2>6, <3>2
    <3>4. f[n] \in Seq(Nat) /\ <<p>> \in Seq(Nat)
      BY <1>1 DEF Tables
    <3>5. <<p>> \o f[n] \in Seq(Nat)
      BY <3>4, ConcatNat
    <3>6. \A g : TableAt(s, g, p) = <<p>> \o g[n]
      BY <1>3, <3>3 DEF TableAt
    <3> QED BY <3>2, <3>5, <3>6
  <2> QED BY <2>5, <2>6
<1> QED BY <1>2, <1>3

(* There is a table that is right from byte n on. *)
RightFrom(s, n) ==
  \E f \in Tables(s) : \A p \in 0..Eof[s] : p >= n => f[p] = TableAt(s, f, p)

(* Going back by one byte. *)
LEMMA RightBefore ==
  ASSUME NEW s \in Sources, NEW n \in 0..Eof[s], RightFrom(s, n + 1)
  PROVE  RightFrom(s, n)
<1>1. Eof[s] \in Nat /\ n \in Nat
  BY EofAssumption
<1>2. PICK f \in Tables(s) : \A p \in 0..Eof[s] : p >= n + 1 => f[p] = TableAt(s, f, p)
  BY DEF RightFrom
<1>3. PICK t \in Seq(Nat) : t = TableAt(s, f, n)
  BY TableLooksAhead
<1>4. PICK g \in Tables(s) : /\ g[n] = t
                             /\ \A q \in 0..Eof[s] : q # n => g[q] = f[q]
  <2>1. [f EXCEPT ![n] = t] \in Tables(s)
    BY DEF Tables
  <2> QED BY <2>1 DEF Tables
<1>5. ASSUME NEW p \in 0..Eof[s], p >= n
      PROVE  g[p] = TableAt(s, g, p)
  <2>1. TableAt(s, g, p) = TableAt(s, f, p)
    <3>1. \A q \in 0..Eof[s] : q > p => g[q] = f[q]
      BY <1>1, <1>4, <1>5
    <3> QED BY <3>1, TableLooksAhead
  <2>2. CASE p = n
    BY <1>3, <1>4, <2>1, <2>2
  <2>3. CASE p # n
    BY <1>1, <1>2, <1>4, <1>5, <2>1, <2>3
  <2> QED BY <2>2, <2>3
<1> QED BY <1>5 DEF RightFrom

(* So there is one that is right everywhere: there is no last byte up to   *)
(* which it is not.                                                        *)
LEMMA TableExists ==
  ASSUME NEW s \in Sources
  PROVE  \E f \in Tables(s) : \A p \in 0..Eof[s] : f[p] = TableAt(s, f, p)
<1>1. Eof[s] \in Nat
  BY EofAssumption
<1> DEFINE Good == {k \in 0..Eof[s]+1 : RightFrom(s, k)}
<1>2. Eof[s] + 1 \in Good
  <2>1. [p \in 0..Eof[s] |-> <<>>] \in Tables(s)
    BY DEF Tables
  <2>2. PICK f \in Tables(s) : TRUE
    BY <2>1
  <2>3. \A p \in 0..Eof[s] : p >= Eof[s] + 1 => f[p] = TableAt(s, f, p)
    BY <1>1
  <2> QED BY <1>1, <2>3 DEF RightFrom
<1>3. PICK n \in Good : \A k \in Good : n <= k
  <2>1. Good \subseteq Nat /\ Good # {}
    BY <1>1, <1>2
  <2> HIDE DEF Good
  <2> QED BY <2>1, Smallest
<1>4. n = 0
  <2> SUFFICES ASSUME n # 0 PROVE FALSE
    OBVIOUS
  <2>1. PICK m \in 0..Eof[s] : m + 1 = n
    <3>1. n - 1 \in 0..Eof[s] /\ (n - 1) + 1 = n
      BY <1>1, <1>3
    <3> QED BY <3>1
  <2>2. RightFrom(s, m + 1)
    BY <1>3, <2>1
  <2>3. RightFrom(s, m)
    BY <2>2, RightBefore
  <2>4. m \in Good
    BY <1>1, <2>3
  <2> QED BY <1>1, <1>3, <2>1, <2>4
<1>5. RightFrom(s, 0)
  BY <1>3, <1>4
<1> QED BY <1>1, <1>5 DEF RightFrom

(* FilesFrom is such a table. *)
LEMMA FilesFromIsTable ==
  ASSUME NEW s \in Sources
  PROVE  /\ FilesFrom(s) \in Tables(s)
         /\ \A p \in 0..Eof[s] : FilesFrom(s)[p] = TableAt(s, FilesFrom(s), p)
<1> DEFINE Table(f) == [p \in 0..Eof[s] |-> TableAt(s, f, p)]
<1>1. FilesFrom(s) = CHOOSE f : f = Table(f)
  BY DEF FilesFrom, TableAt, NoFileAt, Follows
<1>2. PICK f \in Tables(s) : \A p \in 0..Eof[s] : f[p] = TableAt(s, f, p)
  BY TableExists
<1>3. f = Table(f)
  BY <1>2 DEF Tables
<1>4. PICK h : h = FilesFrom(s) /\ h = Table(h)
  BY <1>1, <1>3
<1>5. \A p \in 0..Eof[s] : h[p] = TableAt(s, h, p)
  BY <1>4
<1>6. Eof[s] \in Nat
  BY EofAssumption
<1>7. \A p \in 0..Eof[s] : h[p] = f[p]
  <2> DEFINE Bad == {k \in 0..Eof[s] : h[Eof[s] - k] # f[Eof[s] - k]}
  <2>1. CASE Bad = {}
    <3>1. ASSUME NEW p \in 0..Eof[s] PROVE h[p] = f[p]
      <4>1. PICK k \in 0..Eof[s] : Eof[s] - k = p
        <5>1. Eof[s] - p \in 0..Eof[s] /\ Eof[s] - (Eof[s] - p) = p
          BY ONLY <1>6, <3>1
        <5> QED BY <5>1
      <4> QED BY <2>1, <4>1
    <3> QED BY <3>1
  <2>2. CASE Bad # {}
    <3>1. PICK k \in Bad : \A j \in Bad : k <= j
      <4>1. Bad \in SUBSET Nat
        BY <1>6
      <4> HIDE DEF Bad
      <4> QED BY <2>2, <4>1, Smallest
    <3>2. PICK p \in 0..Eof[s] : p = Eof[s] - k
      BY <1>6, <3>1
    <3>3. ASSUME NEW q \in 0..Eof[s], q > p PROVE h[q] = f[q]
      <4>1. PICK j \in 0..Eof[s] : Eof[s] - j = q /\ j < k
        <5>1. k \in 0..Eof[s]
          BY <3>1
        <5>2. /\ Eof[s] - q \in 0..Eof[s] /\ Eof[s] - (Eof[s] - q) = q /\ Eof[s] - q < k
          BY ONLY <1>6, <3>2, <3>3, <5>1
        <5> QED BY <5>2
      <4>2. j \notin Bad
        <5>1. k \in Nat /\ j \in Nat
          BY <1>6, <3>1
        <5> HIDE DEF Bad
        <5> QED BY <3>1, <4>1, <5>1
      <4> QED BY <4>1, <4>2
    <3>4. TableAt(s, h, p) = TableAt(s, f, p)
      BY ONLY <3>3, TableLooksAhead, s \in Sources, p \in 0..Eof[s], f \in Tables(s)
    <3>5. h[p] = f[p]
      BY <1>2, <1>5, <3>4
    <3> QED BY <3>1, <3>2, <3>5
  <2> QED BY <2>1, <2>2
<1>8. h = f
  <2>1. h = [p \in 0..Eof[s] |-> h[p]] /\ f = [p \in 0..Eof[s] |-> f[p]]
    BY <1>4 DEF Tables
  <2> QED BY <1>7, <2>1
<1> QED BY <1>2, <1>4, <1>8

-----------------------------------------------------------------------------
(* What the session's operations do, said in terms of the table. *)

(* A header is found where the table has a file, and the end of the        *)
(* archive where it has none.                                              *)
LEMMA HeaderReadFinds ==
  ASSUME ~IoErrors, NEW s \in Sources, NEW p \in 0..Eof[s], NEW o \in LhaHeaderRead(s, p)
  PROVE  /\ o.res = "some" => /\ ~NoFileAt(s, p) /\ o.item = ItemAt(s, p)
                              /\ o.pos = p + ItemAt(s, p).hlen
         /\ o.res = "none" => NoFileAt(s, p)
<1>1. Eof[s] \in Nat /\ p \in Nat
  BY EofAssumption
<1>2. PICK item : item = ItemAt(s, p) /\ item.hlen \in Nat
                  /\ item.kind \in DecoderKinds \cup {"marker", "garbage"}
  BY <1>1, ItemAtType
<1>3. PICK stop \in Nat : stop = Smaller(p + item.hlen, Eof[s])
                          /\ (p + item.hlen <= Eof[s] => stop = p + item.hlen)
  BY <1>1, <1>2 DEF Smaller
<1>4. \/ p >= Eof[s] /\ o = Parsed("none", p, NoItem)
      \/ item.kind = "marker" /\ o = Parsed("none", p + 1, NoItem)
      \/ \E q \in p..stop : o = Parsed("err", q, NoItem)
      \/ /\ p < Eof[s] /\ item.kind \notin {"marker", "garbage"} /\ p + item.hlen <= Eof[s]
         /\ o = Parsed("some", stop, item)
  BY <1>1, <1>2, <1>3 DEF LhaHeaderRead
<1>5. CASE p >= Eof[s] /\ o = Parsed("none", p, NoItem)
  BY <1>1, <1>5 DEF Parsed, NoFileAt
<1>6. CASE item.kind = "marker" /\ o = Parsed("none", p + 1, NoItem)
  BY <1>2, <1>6 DEF Parsed, NoFileAt, DecoderKinds
<1>7. CASE \E q \in p..stop : o = Parsed("err", q, NoItem)
  BY <1>7 DEF Parsed
<1>8. CASE /\ p < Eof[s] /\ item.kind \notin {"marker", "garbage"} /\ p + item.hlen <= Eof[s]
           /\ o = Parsed("some", stop, item)
  <2>1. ~NoFileAt(s, p)
    BY <1>1, <1>2, <1>8 DEF NoFileAt
  <2> QED BY <1>2, <1>3, <1>8, <2>1 DEF Parsed
<1> QED BY <1>4, <1>5, <1>6, <1>7, <1>8

(* The files after the one whose data ends at byte e. *)
Rest(s, e) == IF e > Eof[s] THEN <<>> ELSE FilesFrom(s)[e]

(* They are sequences of bytes' numbers. *)
LEMMA RestType ==
  ASSUME NEW s \in Sources, NEW e \in Nat
  PROVE  Rest(s, e) \in Seq(Nat) /\ Rest(s, e) = FilesFrom(s)[Smaller(e, Eof[s])]
         /\ Smaller(e, Eof[s]) \in 0..Eof[s]
<1>1. Eof[s] \in Nat /\ Eof[s] \in 0..Eof[s]
  BY EofAssumption
<1>2. CASE e > Eof[s]
  <2>1. Rest(s, e) = <<>> /\ Smaller(e, Eof[s]) = Eof[s]
    BY <1>1, <1>2 DEF Rest, Smaller
  <2>2. FilesFrom(s)[Eof[s]] = <<>>
    BY <1>1, FilesFromIsTable DEF TableAt, NoFileAt
  <2> QED BY <1>1, <2>1, <2>2
<1>3. CASE ~(e > Eof[s])
  <2>1. Smaller(e, Eof[s]) = e /\ e \in 0..Eof[s] /\ Rest(s, e) = FilesFrom(s)[e]
    BY <1>1, <1>3 DEF Smaller, Rest
  <2>2. FilesFrom(s)[e] \in Seq(Nat)
    BY <2>1, FilesFromIsTable DEF Tables
  <2> QED BY <2>1, <2>2
<1> QED BY <1>2, <1>3

(* A file found at byte p is the first of the table from there, and the    *)
(* rest of the table is that from the end of its data.                     *)
LEMMA FoundIsFirst ==
  ASSUME ~IoErrors, NEW s \in Sources, NEW p \in 0..Eof[s], NEW o \in LhaHeaderRead(s, p)
  PROVE  /\ o.res = "some" => /\ FilesFrom(s)[p] = <<p>> \o Rest(s, o.pos + o.item.csize)
                              /\ o.pos + o.item.csize \in Nat
         /\ o.res = "none" => FilesFrom(s)[p] = <<>>
<1>1. FilesFrom(s)[p] = TableAt(s, FilesFrom(s), p)
  BY FilesFromIsTable
<1>2. CASE o.res = "some"
  <2>1. ~NoFileAt(s, p) /\ o.item = ItemAt(s, p) /\ o.pos = p + ItemAt(s, p).hlen
    BY <1>2, HeaderReadFinds
  <2>2. PICK e : e = p + ItemAt(s, p).hlen + ItemAt(s, p).csize
    OBVIOUS
  <2>3. o.pos + o.item.csize = e /\ e \in Nat
    BY <2>1, <2>2, ItemAtType, EofAssumption
  <2>4. Follows(s, FilesFrom(s), p) = Rest(s, e)
    BY <2>2 DEF Follows, Rest
  <2> QED BY <1>1, <1>2, <2>1, <2>3, <2>4 DEF TableAt
<1>3. CASE o.res = "none"
  BY <1>1, <1>3, HeaderReadFinds DEF TableAt
<1> QED BY <1>2, <1>3

(* Without I/O errors fill_buffer takes off the limit what it took from    *)
(* the stream, unless the stream ends before the data.                     *)
LEMMA FillWithoutErrors ==
  ASSUME ~IoErrors, NEW d \in Decoders, NEW p \in Nat, p <= Eof[d.src], NEW len \in Nat,
         NEW f \in FillBuffer(d, p, len)
  PROVE  f.used = f.counted \/ p + d.limit > Eof[d.src]
<1>1. d.src \in Sources /\ d.limit \in Nat /\ Eof[d.src] \in Nat
  BY EofAssumption DEF Decoders
<1>2. CASE f \in FillPassthrough(d, p, len)
  <2>1. \/ f = Filled(FALSE, 0, 0, 0)
        \/ f = Filled(TRUE, len, len, len)
        \/ len <= d.limit /\ ~(p + len <= Eof[d.src])
    <3>1. CASE len > d.limit
      BY <1>2, <3>1 DEF FillPassthrough
    <3>2. CASE ~(len > d.limit) /\ p + len <= Eof[d.src]
      BY <1>2, <3>2 DEF FillPassthrough
    <3>3. CASE ~(len > d.limit) /\ ~(p + len <= Eof[d.src])
      <4>1. PICK limit \in Nat : limit = d.limit
        BY <1>1
      <4>2. len <= limit
        BY ONLY <3>3, <4>1, len \in Nat
      <4> QED BY <3>3, <4>1, <4>2, Zenon
    <3> QED BY <3>1, <3>2, <3>3
  <2> QED BY <1>1, <2>1 DEF Filled
<1>3. CASE f \in FillCompressed(d, p, len)
  <2>1. PICK limit, eof \in Nat : limit = d.limit /\ eof = Eof[d.src]
    BY ONLY <1>1
  <2>2. f.used \in 0..Smaller(limit, eof - p)
    BY ONLY <1>3, <2>1 DEF FillCompressed
  <2>3. f.counted = f.used \/ CutShort(d, p, f)
    BY ~IoErrors, <1>3 DEF FillCompressed
  <2>4. CASE CutShort(d, p, f)
    <3>1. p + f.used = eof /\ limit > f.used
      BY ONLY <2>1, <2>4 DEF CutShort
    <3>2. p + limit > eof
      BY ONLY <2>2, <3>1, p \in Nat, limit \in Nat, eof \in Nat DEF Smaller
    <3> QED BY ONLY <2>1, <3>2
  <2> QED BY <2>3, <2>4
<1>4. CASE f = Filled(FALSE, 0, 0, 0)
  BY <1>4 DEF Filled
<1> QED BY <1>2, <1>3, <1>4 DEF FillBuffer

-----------------------------------------------------------------------------
(* The loop. *)

Phases == {"open", "file", "copy", "skip", "done", "failed"}

(* The files offered so far and the rest of the table make up the table;   *)
(* while a file is being dealt with, the rest is the table from the end of *)
(* its data, where next_file will look: reads have kept the limit exact or *)
(* the data does not end inside the stream.                                *)
Offered(rest) ==
  /\ rest \in Seq(Nat) /\ Contents = visited \o rest
  /\ phase \in {"file", "copy", "skip"} => rest = Rest(archive, decoder.end)
  /\ phase = "done" => rest = <<>>

LoopInv ==
  /\ IndInv /\ archive \in Sources /\ visited \in Seq(Nat) /\ phase \in Phases
  /\ phase = "open" => pos[archive] = 0 /\ visited = <<>>
  /\ phase \in {"file", "copy", "skip"} =>
       /\ decoder # NoDecoder /\ decoder.src = archive
       /\ decoder.slip = 0 \/ decoder.end > Eof[archive]
  /\ \E rest : Offered(rest)

(* The invariant gives the property. *)
LEMMA LoopInvOffers == LoopInv => OffersEveryFile
<1> SUFFICES ASSUME LoopInv PROVE OffersEveryFile
  OBVIOUS
<1>1. PICK rest : Offered(rest)
  BY DEF LoopInv
<1>2. PICK v \in Seq(Nat) : v = visited
  BY DEF LoopInv
<1>3. rest \in Seq(Nat) /\ Contents = v \o rest
  BY <1>1, <1>2 DEF Offered
<1>4. /\ v \o rest \in Seq(Nat) /\ Len(v \o rest) = Len(v) + Len(rest)
      /\ \A i \in 1..Len(v) : (v \o rest)[i] = v[i]
  BY <1>3, ConcatNat, LenProperties
<1>5. PICK c \in Seq(Nat) : c = Contents /\ Len(c) >= Len(v) /\ \A i \in 1..Len(v) : c[i] = v[i]
  <2>1. PICK c \in Seq(Nat) : c = v \o rest
    BY <1>4
  <2>2. Len(c) = Len(v) + Len(rest) /\ \A i \in 1..Len(v) : c[i] = v[i]
    BY ONLY <1>4, <2>1, Zenon
  <2>3. Len(c) >= Len(v)
    <3>1. Len(v) \in Nat /\ Len(rest) \in Nat
      BY <1>3, LenProperties
    <3> QED BY ONLY <2>2, <3>1
  <2> QED BY <1>3, <2>1, <2>2, <2>3
<1>6. SubSeq(c, 1, Len(v)) = v
  <2>1. /\ SubSeq(c, 1, Len(v)) \in Seq(Nat) /\ Len(SubSeq(c, 1, Len(v))) = Len(v)
        /\ \A i \in 1..Len(v) : SubSeq(c, 1, Len(v))[i] = c[i]
    BY <1>5
  <2> QED BY <1>5, <2>1, SeqEqual
<1>7. phase = "done" => visited = Contents
  <2>1. ASSUME phase = "done" PROVE v = Contents
    <3>1. rest = <<>>
      BY <1>1, <2>1 DEF Offered
    <3> QED BY <1>3, <3>1, ConcatEmptySeq
  <2> QED BY <1>2, <2>1
<1> QED BY <1>2, <1>5, <1>6, <1>7 DEF OffersEveryFile

(* The loop starts with the whole table before it. *)
LEMMA InitLoop == LoopInit => LoopInv
<1> SUFFICES ASSUME LoopInit PROVE LoopInv
  OBVIOUS
<1>1. IndInv /\ archive \in Sources /\ visited = <<>> /\ phase = "open" /\ pos[archive] = 0
  BY InitSession DEF LoopInit, Init
<1>2. Contents \in Seq(Nat)
  <2>1. 0 \in 0..Eof[archive]
    BY <1>1, EofAssumption
  <2> QED BY <1>1, <2>1, FilesFromIsTable DEF Contents, Tables
<1>3. Contents = <<>> \o Contents
  BY <1>2, ConcatEmptySeq
<1>4. Offered(Contents)
  BY <1>1, <1>2, <1>3 DEF Offered
<1> QED BY <1>1, <1>4 DEF LoopInv, Phases

(* An answer of new or next_file, which looked for a header at byte p,     *)
(* where the rest of the table begins.                                     *)
LEMMA FollowKeeps ==
  ASSUME ~IoErrors, LoopInv, IndInv', Follow, UNCHANGED archive,
         NEW p \in 0..Eof[archive], NEW o \in LhaHeaderRead(archive, p), Offered(FilesFrom(archive)[p]),
         \/ last'.res = "some" /\ o.res = "some" /\ Install(archive, o, p)
         \/ last'.res = "none" /\ o.res = "none"
         \/ last'.res = "err"
  PROVE  LoopInv'
<1>0. PICK c : c = Contents
  OBVIOUS
<1>1. PICK s \in Sources, v \in Seq(Nat), rest \in Seq(Nat) :
           /\ s = archive /\ v = visited /\ rest = FilesFrom(s)[p] /\ c = Contents /\ c = v \o rest
  BY <1>0 DEF LoopInv, Offered
<1>2. Contents' = c
  BY <1>1 DEF Contents
<1>3. CASE last'.res = "some"
  <2>1. o.res = "some" /\ Install(archive, o, p)
    BY <1>3
  <2>2. /\ decoder' = NewFromHeader(s, o.item, o.pos) /\ header'.start = p
        /\ phase' = "file" /\ visited' = Append(v, p)
    BY <1>1, <1>3, <2>1 DEF Install, Follow
  <2>3. /\ decoder' # NoDecoder /\ decoder'.src = s /\ decoder'.slip = 0
        /\ decoder'.end = o.pos + o.item.csize
    <3>1. s # NoSource
      BY NoSourceAssumption
    <3> QED BY <2>2, <3>1 DEF NewFromHeader, NoDecoder
  <2>4. PICK e \in Nat : e = o.pos + o.item.csize /\ rest = <<p>> \o Rest(s, e)
    BY <1>1, <2>1, FoundIsFirst
  <2>5. PICK r \in Seq(Nat) : r = Rest(s, e)
    BY RestType
  <2>6. p \in Nat /\ Append(v, p) \in Seq(Nat)
    BY <1>1, EofAssumption
  <2>7. c = Append(v, p) \o r
    <3>1. PICK one \in Seq(Nat) : one = <<p>>
      <4>1. <<p>> \in Seq(Nat)
        BY <2>6
      <4> QED BY ONLY <4>1, Zenon
    <3>2. Append(v, p) = v \o one
      BY <2>6, <3>1, AppendIsConcat
    <3>3. v \in Seq(Nat) /\ one \in Seq(Nat) /\ r \in Seq(Nat)
      OBVIOUS
    <3>4. (v \o one) \o r = v \o (one \o r)
      BY ONLY <3>3, ConcatEitherWay, Zenon
    <3> QED BY <1>1, <2>4, <2>5, <3>1, <3>2, <3>4, Zenon
  <2>8. Rest(archive, decoder.end)' = r
    BY <1>1, <2>3, <2>4, <2>5 DEF Rest
  <2>9. Offered(r)'
    BY <1>2, <2>2, <2>7, <2>8 DEF Offered
  <2> QED BY <1>1, <2>2, <2>3, <2>6, <2>9 DEF LoopInv, Phases
<1>4. CASE last'.res = "none"
  <2>1. phase' = "done" /\ visited' = v /\ rest = <<>>
    BY <1>1, <1>4, FoundIsFirst DEF Follow
  <2>2. Offered(rest)'
    BY <1>1, <1>2, <2>1 DEF Offered
  <2> QED BY <1>1, <2>1, <2>2 DEF LoopInv, Phases
<1>5. CASE last'.res = "err"
  <2>1. phase' = "failed" /\ visited' = v
    BY <1>1, <1>5 DEF Follow
  <2>2. Offered(rest)'
    BY <1>1, <1>2, <2>1 DEF Offered
  <2> QED BY <1>1, <2>1, <2>2 DEF LoopInv, Phases
<1> QED BY <1>3, <1>4, <1>5

(* LhaDecodeReader::new at the start of the archive. *)
LEMMA OpenKeeps ==
  ASSUME ~IoErrors, LoopInv, Open
  PROVE  LoopInv'
<1>1. /\ phase = "open" /\ New(archive) /\ Follow /\ UNCHANGED archive
      /\ archive \in Sources /\ IndInv /\ pos[archive] = 0 /\ visited = <<>>
  BY DEF Open, LoopInv
<1>2. IndInv'
  BY <1>1, NewKeeps
<1>3. 0 \in 0..Eof[archive]
  BY <1>1, EofAssumption
<1>4. PICK o \in LhaHeaderRead(archive, 0) :
           \/ /\ o.res = "some" /\ Install(archive, o, 0)
              /\ last' = Sought("new", "some", archive, 0, 0, 0)
           \/ last' = Sought("new", "err", archive, 0, 0, 0)
  BY <1>1 DEF New
<1>5. \/ last'.res = "some" /\ o.res = "some" /\ Install(archive, o, 0)
      \/ last'.res = "err"
  BY <1>4 DEF Sought
<1>6. Offered(FilesFrom(archive)[0])
  <2>1. PICK rest \in Seq(Nat) : Contents = <<>> \o rest
    BY <1>1 DEF LoopInv, Offered
  <2>2. rest = Contents
    BY <2>1, ConcatEmptySeq
  <2> QED BY <1>1, <2>1, <2>2 DEF Offered, Contents
<1> QED BY <1>1, <1>2, <1>3, <1>4, <1>5, <1>6, FollowKeeps

(* next_file, which looks where the rest of the table begins. *)
LEMMA NextOneKeeps ==
  ASSUME ~IoErrors, LoopInv, NextOne
  PROVE  LoopInv'
<1>1. /\ phase \in {"file", "skip"} /\ NextFile /\ Follow /\ UNCHANGED archive
      /\ archive \in Sources /\ IndInv
      /\ decoder # NoDecoder /\ decoder.src = archive
      /\ decoder.slip = 0 \/ decoder.end > Eof[archive]
  BY DEF NextOne, LoopInv
<1>2. IndInv'
  BY <1>1, NextFileKeeps
<1>3. PICK e \in Nat, slip \in Nat : e = decoder.end /\ slip = decoder.slip
  BY <1>1 DEF IndInv, Session, TypeOK, Decoders
<1>4. PICK p : p = DiscardToEnd(archive, pos[archive], decoder.limit)
  OBVIOUS
<1>5. p = Smaller(e, Eof[archive])
  <2>1. p = Smaller(e + slip, Eof[archive])
    BY <1>1, <1>3, <1>4, DiscardReachesEnd DEF IndInv
  <2>2. Eof[archive] \in Nat
    BY <1>1, EofAssumption
  <2> QED BY <1>1, <1>3, <2>1, <2>2 DEF Smaller
<1>6. p \in 0..Eof[archive] /\ Rest(archive, e) = FilesFrom(archive)[p]
  BY <1>1, <1>5, RestType
<1>7. Offered(FilesFrom(archive)[p])
  <2>1. PICK rest : Offered(rest)
    BY DEF LoopInv
  <2>2. rest = FilesFrom(archive)[p]
    BY <1>1, <1>3, <1>6, <2>1 DEF Offered
  <2> QED BY <2>1, <2>2
<1>8. BeginNewFrom(archive, p, NoDecoder, "next_file", e, slip)
  BY <1>1, <1>3, <1>4 DEF NextFile
<1>9. PICK o \in LhaHeaderRead(archive, p) :
           /\ last' = Sought("next_file", o.res, archive, p, e, slip)
           /\ \/ o.res = "some" /\ Install(archive, o, p)
              \/ o.res = "none"
              \/ o.res = "err"
  BY <1>8 DEF BeginNewFrom
<1>10. \/ last'.res = "some" /\ o.res = "some" /\ Install(archive, o, p)
       \/ last'.res = "none" /\ o.res = "none"
       \/ last'.res = "err"
  BY <1>9 DEF Sought
<1> QED BY <1>1, <1>2, <1>6, <1>7, <1>9, <1>10, FollowKeeps

(* What the loop does with a file changes neither its place in the table   *)
(* nor where its data ends. *)
LEMMA SameFile ==
  ASSUME LoopInv, IndInv', UNCHANGED <<archive, visited>>,
         phase \in {"file", "copy", "skip"}, phase' \in {"file", "copy", "skip"},
         decoder' # NoDecoder, decoder'.src = decoder.src, decoder'.end = decoder.end,
         decoder'.slip = 0 \/ decoder'.end > Eof[archive]
  PROVE  LoopInv'
<1>1. PICK rest : Offered(rest)
  BY DEF LoopInv
<1>2. Contents' = Contents /\ Rest(archive, decoder.end)' = Rest(archive, decoder.end)
  BY DEF Contents, Rest
<1>3. Offered(rest)'
  BY <1>1, <1>2 DEF Offered
<1> QED BY <1>3 DEF LoopInv, Phases

(* A read of the current file. *)
LEMMA CopyKeeps ==
  ASSUME ~IoErrors, LoopInv, CopyChunk
  PROVE  LoopInv'
<1>1. PICK n \in BufLens : Read(n)
  BY DEF CopyChunk
<1>2. /\ phase = "copy" /\ phase' \in {"copy", "skip"} /\ UNCHANGED <<archive, visited>>
      /\ archive \in Sources /\ IndInv
      /\ decoder # NoDecoder /\ decoder.src = archive
      /\ decoder.slip = 0 \/ decoder.end > Eof[archive]
  BY DEF CopyChunk, LoopInv
<1>3. IndInv'
  BY <1>1, <1>2, ReadKeeps
<1>4. PICK f \in FillBuffer(decoder, pos[archive], ReadLen(n)) :
        decoder' = [decoder EXCEPT !.limit = @ - f.counted,
                                   !.slip = @ + f.used - f.counted,
                                   !.produced = Smaller(@ + f.made, header.osize)]
  BY <1>1, <1>2 DEF Read
<1>5. /\ decoder \in Decoders /\ pos[archive] \in Nat /\ pos[archive] <= Eof[archive]
      /\ n \in Nat /\ Eof[archive] \in Nat /\ header.osize \in Nat /\ output_length \in Nat
      /\ LenNeverUnderflows /\ LimitReachesDataEnd
  BY <1>1, <1>2, EofAssumption, BufLensAssumption DEF IndInv, Session, TypeOK
<1>6. ReadLen(n) \in Nat
  BY <1>5, ReadLenFits
<1>7. f.used \in Nat /\ f.counted \in Nat
  <2>1. SoundFill(decoder, pos[archive], ReadLen(n), f)
    BY <1>2, <1>4, <1>5, <1>6, FillOutcome
  <2> QED BY <2>1 DEF SoundFill
<1>8. f.used = f.counted \/ pos[archive] + decoder.limit > Eof[archive]
  BY <1>2, <1>4, <1>5, <1>6, FillWithoutErrors
<1>9. /\ decoder'.src = decoder.src /\ decoder'.end = decoder.end /\ decoder'.kind = decoder.kind
      /\ decoder'.slip = decoder.slip + f.used - f.counted
  BY <1>4, <1>5 DEF Decoders
<1>10. decoder' # NoDecoder
  BY <1>2, <1>9, NoSourceAssumption DEF NoDecoder
<1>11. decoder'.slip = 0 \/ decoder'.end > Eof[archive]
  <2>1. PICK l \in Nat, e \in Nat, sl \in Nat, p \in Nat, eof \in Nat, u \in Nat, c \in Nat :
          /\ l = decoder.limit /\ e = decoder.end /\ sl = decoder.slip
          /\ p = pos[archive] /\ eof = Eof[archive] /\ u = f.used /\ c = f.counted
    BY <1>5, <1>7 DEF Decoders
  <2>2. p + l = e + sl
    BY <1>2, <1>5, <2>1 DEF LimitReachesDataEnd
  <2>3. (sl = 0 \/ e > eof) /\ (u = c \/ p + l > eof)
    BY <1>2, <1>8, <2>1
  <2>4. sl + u - c = 0 \/ e > eof
    BY ONLY <2>2, <2>3, l \in Nat, e \in Nat, sl \in Nat, p \in Nat, eof \in Nat, u \in Nat, c \in Nat
  <2> QED BY <1>9, <2>1, <2>4
<1> QED BY <1>2, <1>3, <1>9, <1>10, <1>11, SameFile

(* Every step of the loop keeps the invariant. *)
LEMMA LoopStep ==
  ASSUME ~IoErrors, LoopInv, [LoopNext]_loopVars
  PROVE  LoopInv'
<1>1. CASE BeginCopy
  <2>1. /\ phase = "file" /\ phase' = "copy" /\ UNCHANGED vars /\ UNCHANGED <<archive, visited>>
    BY <1>1 DEF BeginCopy
  <2>2. UNCHANGED decoder
    BY <2>1 DEF vars
  <2>3. IndInv'
    BY <2>1, NextKeeps DEF LoopInv
  <2> QED BY <2>1, <2>2, <2>3, SameFile DEF LoopInv
<1>2. CASE UNCHANGED loopVars
  <2>1. UNCHANGED vars /\ UNCHANGED <<archive, phase, visited>>
    BY <1>2 DEF loopVars
  <2>2. IndInv'
    BY <2>1, NextKeeps DEF LoopInv
  <2>3. UNCHANGED <<decoder, pos>>
    BY <2>1 DEF vars
  <2>4. PICK rest : Offered(rest)
    BY DEF LoopInv
  <2>5. Offered(rest)'
    BY <2>1, <2>3, <2>4 DEF Offered, Contents, Rest
  <2> QED BY <2>1, <2>2, <2>3, <2>5 DEF LoopInv
<1> QED BY <1>1, <1>2, OpenKeeps, NextOneKeeps, CopyKeeps DEF LoopNext, Ended

(* On streams that do not fail, a loop that next_file (decode.rs) ended    *)
(* with Ok(false) was offered every file of the archive, once and in       *)
(* order, whichever of them were copied, skipped or failed to decode, and  *)
(* wherever the archive ends.                                              *)
THEOREM EveryFileIsOffered == ASSUME ~IoErrors PROVE LoopSpec => []OffersEveryFile
<1>1. LoopInv /\ [LoopNext]_loopVars => LoopInv'
  BY LoopStep
<1> QED BY <1>1, InitLoop, LoopInvOffers, PTL DEF LoopSpec
=============================================================================
