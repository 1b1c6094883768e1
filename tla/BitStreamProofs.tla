--------------------------- MODULE BitStreamProofs ---------------------------
(***************************************************************************)
(* Proofs about BitStream, for every width of a byte and of the word, for  *)
(* every stream and every sequence of requests: the shifts and marks of    *)
(* next_bits neither lose, repeat nor reorder a bit.                       *)
(***************************************************************************)
EXTENDS BitStream, SequenceTheorems, TLAPS

-----------------------------------------------------------------------------
(* Words. *)

(* The last one of v is at k: it holds k - 1 bits. *)
Marked(v, k) == /\ v \in Word /\ k \in 1..W
                /\ v[k] = 1 /\ \A j \in k+1..W : v[j] = 0

(* The bits of a word and of a byte. *)
LEMMA WType == W \in Nat /\ W >= 1 /\ ByteBits \in Nat /\ ByteBits >= 1
               /\ BufBytes \in Nat /\ BufBytes >= 1 /\ W = ByteBits * BufBytes
<1>1. \A a, b \in Nat : a >= 1 /\ b >= 1 => a * b \in Nat /\ a * b >= 1
  BY Z3
<1> QED BY <1>1, SizeAssumption DEF W

(* have_bits counts the bits before the mark. *)
LEMMA MarkedLastOne ==
  ASSUME NEW v, NEW k, Marked(v, k)
  PROVE  LastOne(v) = k /\ v # Zero
<1>1. k \in 1..W /\ v[k] = 1 /\ \A j \in k+1..W : v[j] = 0
  BY DEF Marked
<1>2. v # Zero
  <2>1. Zero[k] = 0
    BY <1>1 DEF Zero
  <2> QED BY <1>1, <2>1
<1>3. \A i \in 1..W : v[i] = 1 /\ (\A j \in i+1..W : v[j] = 0) => i = k
  <2> SUFFICES ASSUME NEW i \in 1..W, v[i] = 1, \A j \in i+1..W : v[j] = 0
               PROVE  i = k
    OBVIOUS
  <2>1. ~(k \in i+1..W) /\ ~(i \in k+1..W)
    BY <1>1
  <2> QED BY <1>1, <2>1, WType
<1> DEFINE P(i) == v[i] = 1 /\ \A j \in i+1..W : v[j] = 0
<1>4. P(k) /\ \A i \in 1..W : P(i) => i = k
  BY <1>1, <1>3
<1>5. LastOne(v) = CHOOSE i \in 1..W : P(i)
  BY <1>2 DEF LastOne
<1> HIDE DEF P
<1> QED BY <1>1, <1>2, <1>4, <1>5

(* Shifting the first n bits out of a word that has them. *)
LEMMA ShlMarked ==
  ASSUME NEW v, NEW k \in 1..W, Marked(v, k), NEW n \in Nat, n < k
  PROVE  /\ Marked(Shl(v, n), k - n)
         /\ \A i \in 1..(k - n - 1) : Shl(v, n)[i] = v[i + n]
<1>1. v \in [1..W -> {0, 1}] /\ v[k] = 1 /\ \A j \in k+1..W : v[j] = 0
  BY DEF Marked, Word, Bit
<1>2. \A i \in 1..W : Shl(v, n)[i] = IF i + n <= W THEN v[i + n] ELSE 0
  BY DEF Shl
<1>3. Shl(v, n) \in Word
  BY <1>1, WType DEF Shl, Word, Bit
<1>4. k - n \in 1..W /\ k - n + n = k /\ k <= W
  BY WType
<1>5. Shl(v, n)[k - n] = 1
  BY <1>1, <1>2, <1>4
<1>6. ASSUME NEW j \in (k - n)+1..W PROVE Shl(v, n)[j] = 0
  <2>1. j \in 1..W /\ j + n >= k + 1 /\ j + n \in Nat
    BY <1>4, WType
  <2> QED BY <1>1, <1>2, <2>1, WType
<1>7. ASSUME NEW i \in 1..(k - n - 1) PROVE Shl(v, n)[i] = v[i + n]
  <2>1. i \in 1..W /\ i + n <= W
    BY WType
  <2> QED BY <1>2, <2>1
<1> QED BY <1>3, <1>4, <1>5, <1>6, <1>7 DEF Marked

(* The word next_bits answers with, and what is at its place i. *)
Merged(v, new, n, h) == Or(ClearLastOne(Shr(v, W - n)), Shr(new, W - (n - h)))
MergedBit(v, new, n, h, i) ==
  IF i <= W - n THEN 0
  ELSE IF i - (W - n) <= h THEN v[i - (W - n)]
  ELSE new[i - (W - n) - h]

(* Merging: the h bits of v, its mark taken off, come before the first     *)
(* n - h bits of new, in the low n bits of a word.                         *)
LEMMA MergeBits ==
  ASSUME NEW v, NEW h \in Nat, Marked(v, h + 1), NEW n \in 1..W, h < n, NEW new \in Word
  PROVE  \A i \in 1..W : Merged(v, new, n, h)[i] = MergedBit(v, new, n, h, i)
<1> DEFINE s == Shr(v, W - n)
           m == W - n + h + 1
<1>1. v \in [1..W -> {0, 1}] /\ h + 1 \in 1..W /\ v[h + 1] = 1 /\ \A j \in h+2..W : v[j] = 0
  BY DEF Marked, Word, Bit
<1>2. \A i \in 1..W : s[i] = IF i > W - n THEN v[i - (W - n)] ELSE 0
  BY DEF Shr
<1>3. m \in 1..W /\ m > W - n /\ m - (W - n) = h + 1
  BY WType
<1>4. s \in Word
  BY <1>1, WType DEF Shr, Word, Bit
<1> HIDE DEF s
<1>5. s[m] = 1
  BY <1>1, <1>2, <1>3
<1>6. ASSUME NEW j \in m+1..W PROVE s[j] = 0
  <2>1. j \in 1..W /\ j > W - n /\ j - (W - n) \in h+2..W
    BY <1>3, WType
  <2> QED BY <1>1, <1>2, <2>1
<1>7. Marked(s, m)
  BY <1>3, <1>4, <1>5, <1>6 DEF Marked
<1>8. LastOne(s) = m
  BY <1>7, MarkedLastOne
<1> DEFINE c == ClearLastOne(s)
           r == Shr(new, W - (n - h))
<1>9. \A i \in 1..W : c[i] = IF i = m THEN 0 ELSE s[i]
  BY <1>8 DEF ClearLastOne
<1>10. \A i \in 1..W : r[i] = IF i > W - (n - h) THEN new[i - (W - (n - h))] ELSE 0
  BY DEF Shr
<1>11. \A i \in 1..W : Or(c, r)[i] = IF c[i] = 1 \/ r[i] = 1 THEN 1 ELSE 0
  BY DEF Or
<1>12. new \in [1..W -> {0, 1}]
  BY DEF Word, Bit
<1> HIDE DEF c, r, m
<1>13. ASSUME NEW i \in 1..W
       PROVE  Or(c, r)[i] = IF i <= W - n THEN 0
                            ELSE IF i - (W - n) <= h THEN v[i - (W - n)]
                            ELSE new[i - (W - n) - h]
  <2>1. i \in Nat /\ W \in Nat /\ n \in Nat /\ n <= W /\ i <= W /\ i >= 1 /\ h < n
        /\ m = W - n + h + 1
    BY WType DEF m
  <2>2. CASE i <= W - n
    <3>1. i # m /\ ~(i > W - n) /\ ~(i > W - (n - h))
      BY <2>1, <2>2
    <3>2. c[i] = 0 /\ r[i] = 0
      BY <1>2, <1>9, <1>10, <3>1
    <3> QED BY <1>11, <2>2, <3>2
  <2>3. CASE i > W - n /\ i - (W - n) <= h
    <3>1. i # m /\ ~(i > W - (n - h)) /\ i - (W - n) \in 1..W /\ ~(i <= W - n)
      BY <2>1, <2>3
    <3>2. c[i] = v[i - (W - n)] /\ r[i] = 0
      BY <1>2, <1>9, <1>10, <2>3, <3>1
    <3>3. v[i - (W - n)] \in {0, 1}
      BY <1>1, <3>1
    <3> QED BY <1>11, <2>3, <3>1, <3>2, <3>3
  <2>4. CASE i > W - n /\ ~(i - (W - n) <= h)
    <3>1. i > W - (n - h) /\ i - (W - (n - h)) = i - (W - n) - h /\ ~(i <= W - n)
          /\ i - (W - n) - h \in 1..W
      BY <2>1, <2>4
    <3>2. r[i] = new[i - (W - n) - h]
      BY <1>10, <3>1
    <3>3. c[i] = 0
      <4>1. CASE i = m
        BY <1>9, <4>1
      <4>2. CASE i # m
        <5>1. i \in m+1..W
          BY <2>1, <2>4, <4>2
        <5> QED BY <1>6, <1>9, <4>2, <5>1
      <4> QED BY <4>1, <4>2
    <3>4. new[i - (W - n) - h] \in {0, 1}
      BY <1>12, <3>1
    <3> QED BY <1>11, <2>4, <3>1, <3>2, <3>3, <3>4
  <2> QED BY <2>1, <2>2, <2>3, <2>4
<1> QED BY <1>13 DEF c, r, s, Merged, MergedBit

(* Refilling: of b bits read, the first k are gone and the others are      *)
(* before the mark.                                                        *)
LEMMA RefilledMarked ==
  ASSUME NEW new \in Word, NEW b \in 0..W, NEW k \in 1..W, k <= b,
         \A i \in b+1..W : new[i] = 0
  PROVE  /\ Marked(Refilled(new, b, k), b - k + 1)
         /\ \A i \in 1..(b - k) : Refilled(new, b, k)[i] = new[k + i]
<1> DEFINE u == IF k = W THEN Zero ELSE Shl(new, k)
           q == b - k + 1
<1>1. W \in Nat /\ b \in Nat /\ k \in Nat /\ k <= b /\ b <= W /\ 1 <= k
  BY WType
<1>2. \A i \in 1..W : u[i] = IF i + k <= W THEN new[i + k] ELSE 0
  <2>1. CASE k = W
    <3>1. \A i \in 1..W : ~(i + k <= W)
      BY <1>1, <2>1
    <3> QED BY <2>1, <3>1 DEF Zero
  <2>2. CASE k # W
    BY <2>2 DEF Shl
  <2> QED BY <2>1, <2>2
<1>3. new \in [1..W -> {0, 1}]
  BY DEF Word, Bit
<1>4. Refilled(new, b, k) = Or(u, Mark(q))
  BY DEF Refilled
<1> HIDE DEF u
<1> DEFINE f == Or(u, Mark(q))
<1>5. q \in 1..W /\ q \in Nat
  BY <1>1
<1>6. f \in Word /\ \A i \in 1..W : f[i] = IF u[i] = 1 \/ i = q THEN 1 ELSE 0
  BY DEF Or, Mark, Word, Bit
<1> HIDE DEF f
<1>7. f[q] = 1
  BY <1>5, <1>6
<1>8. ASSUME NEW j \in q+1..W PROVE f[j] = 0
  <2>1. j \in 1..W /\ j # q /\ j \in Nat
    BY <1>1
  <2>2. u[j] = 0
    <3>1. CASE j + k <= W
      <4>1. j + k \in b+1..W
        BY <1>1, <3>1
      <4> QED BY <1>2, <2>1, <3>1, <4>1
    <3>2. CASE ~(j + k <= W)
      BY <1>2, <2>1, <3>2
    <3> QED BY <3>1, <3>2
  <2> QED BY <1>6, <2>1, <2>2
<1>9. ASSUME NEW i \in 1..(b - k) PROVE f[i] = new[k + i]
  <2>1. i \in 1..W /\ i # q /\ i + k <= W /\ i + k = k + i /\ k + i \in 1..W
    BY <1>1
  <2>2. u[i] = new[k + i] /\ new[k + i] \in {0, 1}
    BY <1>2, <1>3, <2>1
  <2> QED BY <1>6, <2>1, <2>2
<1>10. Marked(f, q)
  BY <1>5, <1>6, <1>7, <1>8 DEF Marked
<1> QED BY <1>4, <1>9, <1>10 DEF f

-----------------------------------------------------------------------------
(* The inductive invariant. *)

(* The bits handed out and those buffered: of the bits in s, the first p   *)
(* are gone and the word v holds the others.                               *)
BuffersRest(v, s, p) ==
  /\ p <= Len(s)
  /\ Marked(v, Len(s) - p + 1)
  /\ \A i \in 1..(Len(s) - p) : v[i] = s[p + i]

(* The bits in s are the first ones of the stream, and up to q bytes of it *)
(* are read: all of s, unless a request met the end of the stream.         *)
FirstBits(s, q) ==
  /\ Len(s) <= Len(stream)
  /\ \A i \in 1..Len(s) : s[i] = stream[i]
  /\ Len(s) = ByteBits * q \/ ByteBits * q = Len(stream)

Replies == [res: {"ok", "big", "io", "eof"}, n: Nat, value: Seq(Bit), first: BOOLEAN]

StateType ==
  /\ stream \in Streams /\ taken \in Seq(Bit) /\ at \in Nat
  /\ pos \in Nat /\ ByteBits * pos <= Len(stream)
  /\ lost \in BOOLEAN /\ last \in Replies

(* As long as no request failed, all that was read of the stream was       *)
(* taken.                                                                  *)
NoneFailed == last.first /\ last.res \in {"ok", "big"}

BitInv ==
  /\ StateType
  /\ BuffersRest(bits_buf, taken, at)
  /\ ~lost => FirstBits(taken, pos)
  /\ NoneFailed => ~lost /\ Len(taken) = ByteBits * pos
  /\ AnswersAreNextBits
  /\ EofOnlyAtEnd

(* BitStream::new has read and handed out nothing. *)
LEMMA InitBits == Init => BitInv
<1> SUFFICES ASSUME Init PROVE BitInv
  OBVIOUS
<1>1. stream \in Streams /\ pos = 0 /\ bits_buf = Mark(1) /\ taken = <<>> /\ at = 0 /\ lost = FALSE
      /\ last = [res |-> "ok", n |-> 0, value |-> <<>>, first |-> TRUE]
  BY DEF Init
<1>2. taken \in Seq(Bit) /\ Len(taken) = 0 /\ stream \in Seq(Bit) /\ Len(stream) \in Nat
  BY <1>1, EmptySeq, StreamAssumption
<1>3. <<>> \in Seq(Bit) /\ Len(<<>>) = 0
  BY EmptySeq
<1>4. last \in Replies /\ last.res = "ok" /\ last.value = <<>>
  BY <1>1, <1>3 DEF Replies
<1>5. ByteBits * pos = 0
  BY <1>1, WType
<1>6. StateType
  <2>1. lost \in BOOLEAN
    BY <1>1, Zenon
  <2>2. ByteBits * pos <= Len(stream) /\ pos \in Nat /\ at \in Nat
    BY <1>1, <1>2, <1>5
  <2> QED BY <1>1, <1>2, <1>4, <2>1, <2>2 DEF StateType
<1>7. Marked(Mark(1), 1)
  <2>1. 1 \in 1..W
    BY WType
  <2>2. Mark(1) \in Word /\ \A i \in 1..W : Mark(1)[i] = IF i = 1 THEN 1 ELSE 0
    BY DEF Mark, Word, Bit
  <2>3. \A j \in 1+1..W : j \in 1..W /\ j # 1
    BY WType
  <2> QED BY <2>1, <2>2, <2>3 DEF Marked
<1>8. BuffersRest(bits_buf, taken, at)
  BY <1>1, <1>2, <1>7 DEF BuffersRest
<1>9. FirstBits(taken, pos)
  BY <1>2, <1>5 DEF FirstBits
<1>10. AnswersAreNextBits
  BY <1>2, <1>3, <1>4 DEF AnswersAreNextBits
<1>11. EofOnlyAtEnd
  BY <1>4 DEF EofOnlyAtEnd
<1> QED BY <1>1, <1>2, <1>5, <1>6, <1>8, <1>9, <1>10, <1>11 DEF BitInv

-----------------------------------------------------------------------------
(* next_bits. *)

(* What read_all can have read: whole bytes, at most a word and at most    *)
(* what the stream has left; when it has read less than a word, it has     *)
(* read all there was.                                                     *)
LEMMA ReadAllOutcome ==
  ASSUME StateType, NEW r \in ReadAll(pos)
  PROVE  /\ r.got \in Nat /\ ByteBits * r.got \in Nat /\ ByteBits * r.got <= W
         /\ ByteBits * (pos + r.got) = ByteBits * pos + ByteBits * r.got
         /\ ByteBits * (pos + r.got) <= Len(stream)
         /\ r.ok /\ ByteBits * r.got < W => ByteBits * (pos + r.got) = Len(stream)
<1>1. ByteBits \in Nat /\ ByteBits >= 1 /\ BufBytes \in Nat /\ BufBytes >= 1 /\ W = ByteBits * BufBytes
  BY WType
<1>2. Len(stream) \in Nat /\ Len(stream) % ByteBits = 0 /\ pos \in Nat /\ ByteBits * pos <= Len(stream)
  BY StreamAssumption DEF StateType
<1>3. PICK q \in Nat : q = Len(stream) \div ByteBits /\ Len(stream) = ByteBits * q
  <2>1. \A a \in Nat, b \in Nat \ {0} : a % b = 0 => a \div b \in Nat /\ a = b * (a \div b)
    BY Z3
  <2>2. Len(stream) \in Nat /\ ByteBits \in Nat \ {0} /\ Len(stream) % ByteBits = 0
    BY <1>1, <1>2
  <2>3. Len(stream) \div ByteBits \in Nat
        /\ Len(stream) = ByteBits * (Len(stream) \div ByteBits)
    BY ONLY <2>1, <2>2, Zenon
  <2> QED BY ONLY <2>3, Zenon
<1>4. \A a, b, c \in Nat : a >= 1 => (a * b <= a * c <=> b <= c)
  BY Z3
<1>5. pos <= q
  BY <1>1, <1>2, <1>3, <1>4
<1>6. BytesLeft(pos) = q - pos /\ q - pos \in Nat
  BY <1>2, <1>3, <1>5 DEF BytesLeft
<1>7. PICK g \in Nat : g = r.got /\ g <= BufBytes /\ g <= q - pos
                       /\ (r.ok => g = BufBytes \/ g = q - pos)
  <2> DEFINE got == Smaller(BufBytes, BytesLeft(pos))
  <2>1. got \in Nat /\ got <= BufBytes /\ got <= q - pos /\ (got = BufBytes \/ got = q - pos)
    BY <1>1, <1>6 DEF Smaller
  <2>2. r = [ok |-> TRUE, got |-> got]
        \/ \E j \in 0..Smaller(BufBytes - 1, got) : r = [ok |-> FALSE, got |-> j]
    BY DEF ReadAll
  <2>3. \A j \in 0..Smaller(BufBytes - 1, got) : j \in Nat /\ j <= got
    BY <1>1, <2>1 DEF Smaller
  <2> HIDE DEF got
  <2>4. CASE r = [ok |-> TRUE, got |-> got]
    BY <2>1, <2>4
  <2>5. CASE \E j \in 0..Smaller(BufBytes - 1, got) : r = [ok |-> FALSE, got |-> j]
    <3>1. PICK j \in 0..Smaller(BufBytes - 1, got) : r = [ok |-> FALSE, got |-> j]
      BY <2>5
    <3>2. j \in Nat /\ j <= got /\ j <= BufBytes /\ j <= q - pos
      BY <1>1, <1>6, <2>1, <2>3, <3>1
    <3>3. r.got = j /\ ~r.ok
      BY <3>1
    <3> QED BY <3>2, <3>3
  <2> QED BY <2>2, <2>4, <2>5
<1>8. \A a, b, c \in Nat : a * (b + c) = a * b + a * c /\ a * b \in Nat /\ a * c \in Nat
  BY Z3
<1>9. ByteBits * g \in Nat /\ ByteBits * g <= W
  BY <1>1, <1>4, <1>7, <1>8
<1>10. ByteBits * (pos + g) = ByteBits * pos + ByteBits * g
  BY <1>1, <1>2, <1>7, <1>8
<1>11. ByteBits * (pos + g) <= Len(stream)
  <2>1. pos + g <= q /\ pos + g \in Nat
    BY <1>2, <1>6, <1>7
  <2> QED BY <1>1, <1>3, <1>4, <2>1
<1>12. ASSUME r.ok, ByteBits * g < W PROVE ByteBits * (pos + g) = Len(stream)
  <2>1. g # BufBytes
    BY <1>1, <1>12
  <2>2. pos + g = q
    BY <1>2, <1>3, <1>6, <1>7, <1>12, <2>1
  <2> QED BY <1>3, <2>2
<1> QED BY <1>7, <1>9, <1>10, <1>11, <1>12

Buffered == Len(taken) - at

(* The outcomes of next_bits, one by one. *)
LEMMA NextBitsCases ==
  ASSUME BitInv, NEW n \in 1..W, NEW o \in NextBits(n)
  PROVE  \/ /\ n <= Buffered
            /\ o.res = "ok" /\ o.word = Shr(bits_buf, W - n) /\ o.buf = Shl(bits_buf, n)
            /\ o.pos = pos /\ o.new = <<>>
         \/ /\ ~(n <= Buffered)
            /\ \E r \in ReadAll(pos) :
                 /\ o.pos = pos + r.got
                 /\ \/ ~r.ok /\ o.res = "io" /\ o.buf = bits_buf /\ o.new = <<>>
                    \/ /\ r.ok /\ ByteBits * r.got < n - Buffered
                       /\ o.res = "eof" /\ o.buf = bits_buf /\ o.new = <<>>
                    \/ /\ r.ok /\ ~(ByteBits * r.got < n - Buffered) /\ o.res = "ok"
                       /\ o.word = Or(ClearLastOne(Shr(bits_buf, W - n)),
                                      Shr(FromBeBytes(pos, r.got), W - (n - Buffered)))
                       /\ o.buf = Refilled(FromBeBytes(pos, r.got), ByteBits * r.got, n - Buffered)
                       /\ o.new = SubSeq(stream, ByteBits * pos + 1, ByteBits * (pos + r.got))
<1>1. HaveBits(bits_buf) = Buffered
  <2>1. Len(taken) \in Nat /\ at \in Nat
    BY DEF BitInv, StateType
  <2>2. LastOne(bits_buf) = Buffered + 1
    BY MarkedLastOne DEF BitInv, BuffersRest, Buffered
  <2> QED BY <2>1, <2>2 DEF HaveBits, Buffered
<1> DEFINE h == Buffered
           s == Shr(bits_buf, W - n)
<1>2. CASE n <= h
  <2>1. o = Outcome("ok", s, Shl(bits_buf, n), pos, <<>>)
    BY <1>1, <1>2 DEF NextBits
  <2> QED BY <1>2, <2>1 DEF Outcome
<1>3. CASE ~(n <= h)
  <2>1. PICK r \in ReadAll(pos) :
          o = IF ~r.ok THEN Outcome("io", Zero, bits_buf, pos + r.got, <<>>)
              ELSE IF TooFew(ByteBits * r.got, n - h)
              THEN Outcome("eof", Zero, bits_buf, pos + r.got, <<>>)
              ELSE Outcome("ok", Or(ClearLastOne(s), Shr(FromBeBytes(pos, r.got), W - (n - h))),
                           Refilled(FromBeBytes(pos, r.got), ByteBits * r.got, n - h), pos + r.got,
                           SubSeq(stream, ByteBits * pos + 1, ByteBits * (pos + r.got)))
    BY <1>1, <1>3 DEF NextBits
  <2>2. CASE ~r.ok
    <3>1. o = Outcome("io", Zero, bits_buf, pos + r.got, <<>>)
      BY <2>1, <2>2
    <3> QED BY <1>3, <2>2, <3>1 DEF Outcome
  <2>3. CASE r.ok /\ ByteBits * r.got < n - h
    <3>1. o = Outcome("eof", Zero, bits_buf, pos + r.got, <<>>)
      BY <2>1, <2>3 DEF TooFew
    <3> QED BY <1>3, <2>3, <3>1 DEF Outcome
  <2>4. CASE r.ok /\ ~(ByteBits * r.got < n - h)
    <3>1. o = Outcome("ok", Or(ClearLastOne(s), Shr(FromBeBytes(pos, r.got), W - (n - h))),
                      Refilled(FromBeBytes(pos, r.got), ByteBits * r.got, n - h), pos + r.got,
                      SubSeq(stream, ByteBits * pos + 1, ByteBits * (pos + r.got)))
      BY <2>1, <2>4 DEF TooFew
    <3> QED BY <1>3, <2>4, <3>1 DEF Outcome
  <2> QED BY <2>2, <2>3, <2>4
<1> QED BY <1>2, <1>3

(* What a successful request does: of all the bits taken, old and new, it  *)
(* hands out the next n and buffers the rest.                              *)
Serves(o, n, all) ==
  /\ all = taken \o o.new /\ all \in Seq(Bit)
  /\ at + n <= Len(all)
  /\ BuffersRest(o.buf, all, at + n)
  /\ o.word \in Word
  /\ \A i \in 1..W : o.word[i] = IF i <= W - n THEN 0 ELSE all[at + (i - (W - n))]
  /\ ~lost => FirstBits(all, o.pos)
  /\ Len(taken) = ByteBits * pos => Len(all) = ByteBits * o.pos

(* A request that the buffered bits can serve. *)
LEMMA ServesBuffered ==
  ASSUME BitInv, NEW n \in 1..W, n <= Buffered, NEW o,
         o.word = Shr(bits_buf, W - n), o.buf = Shl(bits_buf, n), o.pos = pos, o.new = <<>>
  PROVE  Serves(o, n, taken)
<1>1. taken \in Seq(Bit) /\ Len(taken) \in Nat /\ at \in Nat /\ n \in Nat /\ W \in Nat /\ n <= W /\ n >= 1
  BY WType DEF BitInv, StateType
<1>2. at <= Len(taken) /\ Marked(bits_buf, Len(taken) - at + 1)
      /\ \A i \in 1..(Len(taken) - at) : bits_buf[i] = taken[at + i]
  BY DEF BitInv, BuffersRest
<1>3. n <= Len(taken) - at /\ at + n <= Len(taken)
  BY <1>1 DEF Buffered
<1>4. taken = taken \o o.new
  BY <1>1, ConcatEmptySeq
<1> DEFINE k == Len(taken) - at + 1
<1>5. k \in 1..W /\ n < k /\ k - n = Len(taken) - (at + n) + 1 /\ k - n - 1 = Len(taken) - (at + n)
  BY <1>1, <1>2, <1>3 DEF Marked
<1>6. Marked(o.buf, k - n) /\ \A i \in 1..(k - n - 1) : o.buf[i] = bits_buf[i + n]
  BY <1>1, <1>2, <1>5, ShlMarked
<1>7. ASSUME NEW i \in 1..(Len(taken) - (at + n)) PROVE o.buf[i] = taken[at + n + i]
  <2>1. i + n \in 1..(Len(taken) - at) /\ at + (i + n) = at + n + i /\ i \in 1..(k - n - 1)
    BY <1>1, <1>3, <1>5
  <2> QED BY <1>2, <1>6, <2>1
<1>8. BuffersRest(o.buf, taken, at + n)
  BY <1>3, <1>5, <1>6, <1>7 DEF BuffersRest
<1>9. ASSUME NEW i \in 1..W
      PROVE  o.word[i] = IF i <= W - n THEN 0 ELSE taken[at + (i - (W - n))]
  <2>1. o.word[i] = IF i > W - n THEN bits_buf[i - (W - n)] ELSE 0
    BY DEF Shr
  <2>2. CASE i <= W - n
    BY <1>1, <2>1, <2>2
  <2>3. CASE ~(i <= W - n)
    <3>1. i > W - n /\ i - (W - n) \in 1..(Len(taken) - at)
      BY <1>1, <1>3, <2>3
    <3> QED BY <1>2, <2>1, <2>3, <3>1
  <2> QED BY <2>2, <2>3
<1>10. ~lost => FirstBits(taken, o.pos)
  BY DEF BitInv
<1>11. o.word \in Word
  <2>1. bits_buf \in [1..W -> {0, 1}]
    BY <1>2 DEF Marked, Word, Bit
  <2> QED BY <1>1, <2>1 DEF Shr, Word, Bit
<1> QED BY <1>1, <1>3, <1>4, <1>8, <1>9, <1>10, <1>11 DEF Serves

(* A request that takes what it misses from the stream. *)
LEMMA ServesRefilled ==
  ASSUME BitInv, NEW n \in 1..W, ~(n <= Buffered), NEW o, NEW r \in ReadAll(pos),
         r.ok, ~(ByteBits * r.got < n - Buffered), o.pos = pos + r.got,
         o.word = Or(ClearLastOne(Shr(bits_buf, W - n)),
                     Shr(FromBeBytes(pos, r.got), W - (n - Buffered))),
         o.buf = Refilled(FromBeBytes(pos, r.got), ByteBits * r.got, n - Buffered),
         o.new = SubSeq(stream, ByteBits * pos + 1, ByteBits * (pos + r.got))
  PROVE  Serves(o, n, taken \o o.new)
<1>1. taken \in Seq(Bit) /\ Len(taken) \in Nat /\ at \in Nat /\ n \in Nat /\ W \in Nat /\ n <= W /\ n >= 1
      /\ stream \in Seq(Bit) /\ Len(stream) \in Nat /\ pos \in Nat
  BY WType, StreamAssumption DEF BitInv, StateType
<1>2. at <= Len(taken) /\ Marked(bits_buf, Len(taken) - at + 1)
      /\ \A i \in 1..(Len(taken) - at) : bits_buf[i] = taken[at + i]
  BY DEF BitInv, BuffersRest
<1>a. ~(n <= Buffered) /\ ~(ByteBits * r.got < n - Buffered)
  OBVIOUS
<1>3. PICK h \in Nat : h = Buffered /\ h = Len(taken) - at /\ h < n /\ at + h = Len(taken)
  <2>1. Buffered = Len(taken) - at /\ at <= Len(taken) /\ ~(n <= Buffered)
    BY <1>2 DEF Buffered
  <2>2. Buffered \in Nat /\ Buffered < n /\ at + Buffered = Len(taken)
    BY ONLY <1>1, <2>1
  <2> QED BY ONLY <2>1, <2>2
<1>4. PICK p \in Nat : p = ByteBits * pos
  BY <1>1, WType
<1>5. PICK b \in Nat : /\ b = ByteBits * r.got /\ b <= W
                       /\ ByteBits * (pos + r.got) = p + b /\ p + b <= Len(stream)
  BY <1>4, ReadAllOutcome DEF BitInv
<1>6. n - h \in 1..W /\ n - h <= b /\ b \in 0..W /\ n - h \in Nat
  <2>1. ~(b < n - h)
    BY ONLY <1>a, <1>3, <1>5
  <2> QED BY ONLY <1>1, <1>3, <1>5, <2>1
<1> DEFINE new == FromBeBytes(pos, r.got)
           more == o.new
           all == taken \o more
<1>7. \A i \in 1..W : new[i] = IF i <= b THEN stream[p + i] ELSE 0
  BY <1>4, <1>5 DEF FromBeBytes
<1>8. new \in Word
  <2>1. \A i \in 1..W : i <= b => p + i \in 1..Len(stream)
    BY ONLY <1>1, <1>4, <1>5
  <2>2. \A i \in 1..W : i <= b => stream[p + i] \in Bit
    BY <1>1, <2>1, ElementOfSeq
  <2>3. \A i \in 1..W : new[i] \in Bit
    BY <1>7, <2>2 DEF Bit
  <2>4. new = [i \in 1..W |-> new[i]]
    BY DEF FromBeBytes
  <2> HIDE DEF new
  <2> QED BY <2>3, <2>4 DEF Word
<1> HIDE DEF new
<1>9. more \in Seq(Bit) /\ Len(more) = b /\ \A i \in 1..b : more[i] = stream[p + i]
  <2>1. more = SubSeq(stream, p + 1, p + b)
    BY <1>4, <1>5
  <2>2. p + 1 \in Int /\ p + b \in Int /\ \A i \in (p + 1)..(p + b) : i \in 1..Len(stream)
    BY ONLY <1>1, <1>4, <1>5
  <2>3. \A i \in (p + 1)..(p + b) : stream[i] \in Bit
    BY ONLY <1>1, <2>2, ElementOfSeq
  <2> DEFINE part == SubSeq(stream, p + 1, p + b)
             lo == p + 1
             hi == p + b
  <2>4. /\ part \in Seq(Bit)
        /\ Len(part) = IF lo <= hi THEN hi - lo + 1 ELSE 0
        /\ \A i \in 1..(hi - lo + 1) : part[i] = stream[lo + i - 1]
    BY ONLY <2>2, <2>3, SubSeqProperties
  <2> HIDE DEF part
  <2>5. Len(part) = b
    BY ONLY <1>4, <1>5, <2>4
  <2>6. \A i \in 1..b : part[i] = stream[p + i]
    <3>1. ASSUME NEW i \in 1..b PROVE i \in 1..(hi - lo + 1) /\ lo + i - 1 = p + i
      BY ONLY <1>4, <1>5, <3>1
    <3> QED BY ONLY <2>4, <3>1
  <2> QED BY ONLY <2>1, <2>4, <2>5, <2>6 DEF part
<1> HIDE DEF more
<1>10. all \in Seq(Bit) /\ Len(all) = Len(taken) + b
       /\ \A i \in 1..(Len(taken) + b) : all[i] = IF i <= Len(taken) THEN taken[i] ELSE more[i - Len(taken)]
  BY ONLY <1>1, <1>5, <1>9, ConcatProperties
<1> HIDE DEF all
<1>11. \A i \in 1..h : all[at + i] = bits_buf[i]
  <2> SUFFICES ASSUME NEW i \in 1..h PROVE all[at + i] = bits_buf[i]
    OBVIOUS
  <2>1. i \in 1..(Len(taken) - at) /\ at + i \in 1..(Len(taken) + b) /\ at + i <= Len(taken)
    BY <1>1, <1>3, <1>5
  <2> QED BY <1>2, <1>10, <2>1
<1>12. \A i \in 1..b : all[Len(taken) + i] = new[i]
  <2> SUFFICES ASSUME NEW i \in 1..b PROVE all[Len(taken) + i] = new[i]
    OBVIOUS
  <2>1. Len(taken) + i \in 1..(Len(taken) + b) /\ ~(Len(taken) + i <= Len(taken))
        /\ (Len(taken) + i) - Len(taken) = i /\ i <= b /\ i \in 1..W
    BY <1>1, <1>5
  <2> QED BY <1>7, <1>9, <1>10, <2>1
<1>13. at + n <= Len(all) /\ Len(all) - (at + n) = b - (n - h)
  <2>1. Len(all) = Len(taken) + b /\ b \in Nat
    BY ONLY <1>5, <1>10
  <2> QED BY ONLY <1>1, <1>3, <1>6, <2>1
<1>14. Marked(o.buf, b - (n - h) + 1) /\ \A i \in 1..(b - (n - h)) : o.buf[i] = new[(n - h) + i]
  <2>1. \A i \in b+1..W : new[i] = 0
    <3>1. \A i \in b+1..W : i \in 1..W /\ ~(i <= b)
      BY <1>1, <1>5
    <3> QED BY <1>7, <3>1
  <2>2. o.buf = Refilled(new, b, n - h)
    BY <1>3, <1>5 DEF new
  <2>3. Marked(Refilled(new, b, n - h), b - (n - h) + 1)
        /\ \A i \in 1..(b - (n - h)) : Refilled(new, b, n - h)[i] = new[(n - h) + i]
    BY ONLY <1>6, <1>8, <2>1, RefilledMarked
  <2> QED BY <2>2, <2>3
<1>15. BuffersRest(o.buf, all, at + n)
  <2>1. ASSUME NEW i \in 1..(b - (n - h)) PROVE o.buf[i] = all[(at + n) + i]
    <3>1. (n - h) + i \in 1..b /\ Len(taken) + ((n - h) + i) = (at + n) + i
      BY ONLY <1>1, <1>3, <1>6, <2>1
    <3> QED BY <1>12, <1>14, <3>1
  <2> QED BY <1>13, <1>14, <2>1 DEF BuffersRest
<1>16. ASSUME NEW i \in 1..W
       PROVE  o.word[i] = IF i <= W - n THEN 0 ELSE all[at + (i - (W - n))]
  <2>1. o.word = Or(ClearLastOne(Shr(bits_buf, W - n)), Shr(new, W - (n - h)))
    BY <1>3 DEF new
  <2>2. Marked(bits_buf, h + 1)
    BY <1>2, <1>3
  <2>3. Or(ClearLastOne(Shr(bits_buf, W - n)), Shr(new, W - (n - h)))[i]
             = IF i <= W - n THEN 0
               ELSE IF i - (W - n) <= h THEN bits_buf[i - (W - n)]
               ELSE new[i - (W - n) - h]
    <3>1. n \in 1..W /\ h \in Nat /\ h < n /\ new \in Word /\ i \in 1..W
      BY <1>3, <1>8
    <3>2. Merged(bits_buf, new, n, h)[i] = MergedBit(bits_buf, new, n, h, i)
      BY ONLY <2>2, <3>1, MergeBits, Zenon
    <3> QED BY ONLY <3>2 DEF Merged, MergedBit
  <2>4. CASE i <= W - n
    BY <2>1, <2>3, <2>4
  <2>5. CASE ~(i <= W - n) /\ i - (W - n) <= h
    <3>1. i - (W - n) \in 1..h
      BY <1>1, <1>3, <2>5
    <3> QED BY <1>11, <2>1, <2>3, <2>5, <3>1
  <2>6. CASE ~(i <= W - n) /\ ~(i - (W - n) <= h)
    <3>1. i - (W - n) - h \in 1..b /\ Len(taken) + (i - (W - n) - h) = at + (i - (W - n))
      <4>1. PICK w \in Nat, l \in Nat, a \in Nat : w = W /\ l = Len(taken) /\ a = at
        BY ONLY <1>1
      <4>2. i \in 1..w /\ n \in 1..w /\ ~(i <= w - n) /\ ~(i - (w - n) <= h)
        BY ONLY <1>1, <1>16, <2>6, <4>1
      <4>3. h < n /\ n - h <= b /\ a + h = l
        BY ONLY <1>3, <1>6, <4>1
      <4>4. i - (w - n) - h \in 1..b /\ l + (i - (w - n) - h) = a + (i - (w - n))
        BY ONLY <4>2, <4>3, h \in Nat, b \in Nat, w \in Nat, l \in Nat, a \in Nat
      <4> QED BY ONLY <4>1, <4>4
    <3> QED BY <1>12, <2>1, <2>3, <2>6, <3>1
  <2> QED BY <2>4, <2>5, <2>6
<1>17. ASSUME ~lost PROVE FirstBits(all, o.pos)
  <2>1. Len(taken) <= Len(stream) /\ (\A i \in 1..Len(taken) : taken[i] = stream[i])
        /\ (Len(taken) = p \/ p = Len(stream))
    BY <1>4, <1>17 DEF BitInv, FirstBits
  <2>2. Len(taken) = p
    BY <1>1, <1>4, <1>5, <1>6, <2>1
  <2>3. Len(all) <= Len(stream) /\ Len(all) = ByteBits * o.pos
    BY <1>1, <1>5, <1>10, <2>2
  <2>4. ASSUME NEW i \in 1..Len(all) PROVE all[i] = stream[i]
    <3>1. CASE i <= Len(taken)
      <4>1. i \in 1..Len(taken) /\ i \in 1..(Len(taken) + b)
        BY <1>1, <1>5, <1>10, <3>1
      <4> QED BY <1>10, <2>1, <3>1, <4>1
    <3>2. CASE ~(i <= Len(taken))
      <4>1. i - Len(taken) \in 1..b /\ p + (i - Len(taken)) = i /\ i \in 1..(Len(taken) + b)
        BY ONLY <1>1, <1>4, <1>5, <1>10, <2>2, <2>4, <3>2
      <4> QED BY <1>9, <1>10, <3>2, <4>1
    <3> QED BY <3>1, <3>2
  <2> QED BY <2>3, <2>4 DEF FirstBits
<1>18. Len(taken) = ByteBits * pos => Len(all) = ByteBits * o.pos
  BY <1>4, <1>5, <1>10
<1>19. all = taken \o o.new
  BY DEF all, more
<1>20. o.word \in Word
  BY DEF Or, Word, Bit
<1> QED BY <1>10, <1>13, <1>15, <1>16, <1>17, <1>18, <1>19, <1>20 DEF Serves

(* Every outcome of next_bits: a success serves the request; a failure     *)
(* keeps what is buffered, and at the end of the stream it means that the  *)
(* request asked for more than there was.                                  *)
LEMMA NextBitsOutcome ==
  ASSUME BitInv, NEW n \in 1..W, NEW o \in NextBits(n)
  PROVE  /\ o.pos \in Nat /\ ByteBits * o.pos <= Len(stream)
         /\ \/ o.res = "ok" /\ \E all \in Seq(Bit) : Serves(o, n, all)
            \/ o.res = "io" /\ o.buf = bits_buf /\ o.new = <<>>
            \/ /\ o.res = "eof" /\ o.buf = bits_buf /\ o.new = <<>>
               /\ ByteBits * o.pos = Len(stream)
               /\ Len(taken) = ByteBits * pos => at + n > Len(stream)
<1>1. taken \in Seq(Bit) /\ Len(taken) \in Nat /\ at \in Nat /\ n \in Nat /\ W \in Nat /\ n <= W
      /\ pos \in Nat /\ ByteBits * pos <= Len(stream) /\ at <= Len(taken)
      /\ Len(stream) \in Nat
  BY WType, StreamAssumption DEF BitInv, StateType, BuffersRest
<1>2. CASE n <= Buffered /\ o.res = "ok" /\ o.word = Shr(bits_buf, W - n)
           /\ o.buf = Shl(bits_buf, n) /\ o.pos = pos /\ o.new = <<>>
  <2>1. Serves(o, n, taken)
    BY <1>2, ServesBuffered
  <2> QED BY <1>1, <1>2, <2>1
<1>3. CASE ~(n <= Buffered) /\ \E r \in ReadAll(pos) :
                 /\ o.pos = pos + r.got
                 /\ \/ ~r.ok /\ o.res = "io" /\ o.buf = bits_buf /\ o.new = <<>>
                    \/ /\ r.ok /\ ByteBits * r.got < n - Buffered
                       /\ o.res = "eof" /\ o.buf = bits_buf /\ o.new = <<>>
                    \/ /\ r.ok /\ ~(ByteBits * r.got < n - Buffered) /\ o.res = "ok"
                       /\ o.word = Or(ClearLastOne(Shr(bits_buf, W - n)),
                                      Shr(FromBeBytes(pos, r.got), W - (n - Buffered)))
                       /\ o.buf = Refilled(FromBeBytes(pos, r.got), ByteBits * r.got, n - Buffered)
                       /\ o.new = SubSeq(stream, ByteBits * pos + 1, ByteBits * (pos + r.got))
  <2>1. PICK r \in ReadAll(pos) :
                 /\ o.pos = pos + r.got
                 /\ \/ ~r.ok /\ o.res = "io" /\ o.buf = bits_buf /\ o.new = <<>>
                    \/ /\ r.ok /\ ByteBits * r.got < n - Buffered
                       /\ o.res = "eof" /\ o.buf = bits_buf /\ o.new = <<>>
                    \/ /\ r.ok /\ ~(ByteBits * r.got < n - Buffered) /\ o.res = "ok"
                       /\ o.word = Or(ClearLastOne(Shr(bits_buf, W - n)),
                                      Shr(FromBeBytes(pos, r.got), W - (n - Buffered)))
                       /\ o.buf = Refilled(FromBeBytes(pos, r.got), ByteBits * r.got, n - Buffered)
                       /\ o.new = SubSeq(stream, ByteBits * pos + 1, ByteBits * (pos + r.got))
    BY <1>3
  <2>2. /\ r.got \in Nat /\ ByteBits * r.got \in Nat /\ ByteBits * r.got <= W
        /\ ByteBits * (pos + r.got) = ByteBits * pos + ByteBits * r.got
        /\ ByteBits * (pos + r.got) <= Len(stream)
        /\ r.ok /\ ByteBits * r.got < W => ByteBits * (pos + r.got) = Len(stream)
    BY ReadAllOutcome DEF BitInv
  <2>3. o.pos \in Nat /\ ByteBits * o.pos <= Len(stream)
    BY <1>1, <2>1, <2>2
  <2>4. CASE ~r.ok /\ o.res = "io" /\ o.buf = bits_buf /\ o.new = <<>>
    BY <2>3, <2>4
  <2>5. CASE r.ok /\ ByteBits * r.got < n - Buffered
             /\ o.res = "eof" /\ o.buf = bits_buf /\ o.new = <<>>
    <3>1. PICK b \in Nat : b = ByteBits * r.got
      BY <2>2
    <3>2. b < n - (Len(taken) - at)
      BY <2>5, <3>1 DEF Buffered
    <3>3. b < W /\ at + n > Len(taken) + b
      BY ONLY <1>1, <3>1, <3>2
    <3>4. ByteBits * o.pos = Len(stream)
      BY <2>1, <2>2, <2>5, <3>1, <3>3
    <3>5. ASSUME Len(taken) = ByteBits * pos PROVE at + n > Len(stream)
      <4>1. Len(stream) = Len(taken) + b
        BY <2>1, <2>2, <3>1, <3>4, <3>5
      <4> QED BY ONLY <1>1, <3>1, <3>3, <4>1
    <3> QED BY <2>3, <2>5, <3>4, <3>5
  <2>6. CASE /\ r.ok /\ ~(ByteBits * r.got < n - Buffered) /\ o.res = "ok"
             /\ o.word = Or(ClearLastOne(Shr(bits_buf, W - n)),
                                      Shr(FromBeBytes(pos, r.got), W - (n - Buffered)))
             /\ o.buf = Refilled(FromBeBytes(pos, r.got), ByteBits * r.got, n - Buffered)
             /\ o.new = SubSeq(stream, ByteBits * pos + 1, ByteBits * (pos + r.got))
    <3>1. Serves(o, n, taken \o o.new)
      BY <1>3, <2>1, <2>6, ServesRefilled
    <3>2. taken \o o.new \in Seq(Bit)
      BY <3>1 DEF Serves
    <3> QED BY <2>3, <2>6, <3>1, <3>2
  <2> QED BY <2>1, <2>4, <2>5, <2>6
<1> QED BY <1>2, <1>3, NextBitsCases

-----------------------------------------------------------------------------
(* Requests. *)

(* The answer of one request is recorded with whether none failed before. *)
LEMMA AnswerFields ==
  ASSUME StateType, NEW res \in {"ok", "big", "io", "eof"}, NEW n \in Nat, NEW value \in Seq(Bit)
  PROVE  /\ Answer(res, n, value) \in Replies
         /\ Answer(res, n, value).res = res /\ Answer(res, n, value).n = n
         /\ Answer(res, n, value).value = value
         /\ Answer(res, n, value).first => NoneFailed
<1>1. (last.first /\ last.res \in {"ok", "big"}) \in BOOLEAN
  OBVIOUS
<1> QED BY <1>1 DEF Answer, Replies, NoneFailed

(* A request that changes nothing but the answer. *)
LEMMA OnlyAnswers ==
  ASSUME BitInv, UNCHANGED <<stream, pos, bits_buf, taken, at, lost>>,
         NEW res \in {"ok", "big"}, NEW n \in Nat, NEW value \in Seq(Bit),
         last' = Answer(res, n, value),
         res = "ok" => n = 0 /\ \A i \in 1..Len(value) : value[i] = 0
  PROVE  BitInv'
<1>1. last' \in Replies /\ last'.res = res /\ last'.n = n /\ last'.value = value
      /\ (last'.first => NoneFailed)
  BY AnswerFields DEF BitInv
<1>2. StateType'
  BY <1>1 DEF BitInv, StateType
<1>3. BuffersRest(bits_buf, taken, at)' /\ (~lost' => FirstBits(taken, pos)')
  BY DEF BitInv, BuffersRest, FirstBits
<1>4. NoneFailed' => ~lost' /\ Len(taken') = ByteBits * pos'
  BY <1>1 DEF BitInv, NoneFailed
<1>5. EofOnlyAtEnd'
  BY <1>1 DEF EofOnlyAtEnd
<1>6. AnswersAreNextBits'
  <2>1. ASSUME last'.res = "ok", NEW i \in 1..Len(last'.value)
        PROVE  last'.value[i] = IF i <= Len(last'.value) - last'.n THEN 0
                                ELSE taken'[at' - Len(last'.value) + i]
    <3>1. last'.n = 0 /\ last'.value[i] = 0 /\ Len(last'.value) \in Nat
      BY <1>1, <2>1
    <3> QED BY <3>1
  <2>2. ~lost' => \A i \in 1..Len(taken') : taken'[i] = stream'[i]
    BY DEF BitInv, AnswersAreNextBits
  <2> QED BY <2>1, <2>2 DEF AnswersAreNextBits
<1> QED BY <1>2, <1>3, <1>4, <1>5, <1>6 DEF BitInv

(* A request that is served hands out the next n bits, in the low bits of  *)
(* a value of t bits.                                                      *)
LEMMA ServedStep ==
  ASSUME BitInv, NEW n \in 1..W, NEW t \in 1..W, n <= t, NEW o, NEW all \in Seq(Bit),
         Serves(o, n, all), o.res = "ok", o.pos \in Nat, ByteBits * o.pos <= Len(stream),
         NEW value \in Seq(Bit), Len(value) = t, \A i \in 1..t : value[i] = o.word[(W - t) + i],
         Request(o, n, value)
  PROVE  BitInv'
<1>1. /\ taken' = all /\ at' = at + n /\ pos' = o.pos /\ bits_buf' = o.buf
      /\ lost' = (lost \/ o.res = "io") /\ stream' = stream
      /\ last' = Answer("ok", n, value)
  BY DEF Request, Serves
<1>2. n \in Nat /\ W \in Nat /\ t \in Nat /\ n <= t /\ t <= W /\ at \in Nat /\ Len(all) \in Nat
      /\ Len(value) = t
  BY WType DEF BitInv, StateType
<1>3. last' \in Replies /\ last'.res = "ok" /\ last'.n = n /\ last'.value = value
      /\ (last'.first => NoneFailed)
  BY <1>1, <1>2, AnswerFields DEF BitInv
<1>4. (lost' <=> lost) /\ lost' \in BOOLEAN
  <2>1. o.res # "io" /\ lost \in BOOLEAN
    BY DEF BitInv, StateType
  <2> QED BY <1>1, <2>1
<1>5. StateType'
  BY <1>1, <1>2, <1>3, <1>4 DEF BitInv, StateType
<1>6. BuffersRest(bits_buf, taken, at)'
  BY <1>1 DEF Serves, BuffersRest
<1>7. ~lost' => FirstBits(taken, pos)'
  BY <1>1, <1>4 DEF Serves, FirstBits
<1>8. NoneFailed' => ~lost' /\ Len(taken') = ByteBits * pos'
  BY <1>1, <1>3, <1>4 DEF NoneFailed, BitInv, Serves
<1>9. EofOnlyAtEnd'
  BY <1>3 DEF EofOnlyAtEnd
<1>10. AnswersAreNextBits'
  <2>1. ASSUME NEW i \in 1..t
        PROVE  value[i] = IF i <= t - n THEN 0 ELSE all[((at + n) - t) + i]
    <3>1. (W - t) + i \in 1..W
      BY ONLY <1>2, <2>1
    <3>2. value[i] = IF (W - t) + i <= W - n THEN 0 ELSE all[at + (((W - t) + i) - (W - n))]
      <4>1. PICK j \in 1..W : j = (W - t) + i
        BY <3>1
      <4>2. o.word[j] = IF j <= W - n THEN 0 ELSE all[at + (j - (W - n))]
        BY DEF Serves
      <4>3. value[i] = o.word[j]
        BY <4>1
      <4> QED BY <4>1, <4>2, <4>3
    <3>3. ((W - t) + i <= W - n) <=> (i <= t - n)
      BY ONLY <1>2, <2>1
    <3>4. at + (((W - t) + i) - (W - n)) = ((at + n) - t) + i
      BY ONLY <1>2, <2>1
    <3> QED BY <3>2, <3>3, <3>4
  <2>2. ~lost' => \A i \in 1..Len(taken') : taken'[i] = stream'[i]
    BY <1>7 DEF FirstBits
  <2>3. Len(last'.value) = t /\ last'.value = value /\ last'.n = n /\ at' = at + n /\ taken' = all
    BY <1>1, <1>2, <1>3
  <2>4. \A i \in 1..Len(last'.value) :
          last'.value[i] = IF i <= Len(last'.value) - last'.n THEN 0
                           ELSE taken'[at' - Len(last'.value) + i]
    BY <2>1, <2>3
  <2> QED BY <2>2, <2>4 DEF AnswersAreNextBits
<1> QED BY <1>5, <1>6, <1>7, <1>8, <1>9, <1>10 DEF BitInv

(* A request that fails keeps the bits that were buffered for it. *)
LEMMA RefusedStep ==
  ASSUME BitInv, NEW n \in 1..W, NEW o, NEW value,
         o.res \in {"io", "eof"}, o.buf = bits_buf, o.new = <<>>,
         o.pos \in Nat, ByteBits * o.pos <= Len(stream),
         o.res = "eof" => /\ ByteBits * o.pos = Len(stream)
                          /\ Len(taken) = ByteBits * pos => at + n > Len(stream),
         Request(o, n, value)
  PROVE  BitInv'
<1>1. /\ taken' = taken /\ at' = at /\ pos' = o.pos /\ bits_buf' = bits_buf
      /\ lost' = (lost \/ o.res = "io") /\ stream' = stream
      /\ last' = Answer(o.res, n, <<>>)
  <2>1. taken \in Seq(Bit) /\ o.res # "ok"
    BY DEF BitInv, StateType
  <2>2. taken \o o.new = taken
    BY <2>1, ConcatEmptySeq
  <2> QED BY <2>1, <2>2 DEF Request
<1>2. last' \in Replies /\ last'.res = o.res /\ last'.n = n /\ (last'.first => NoneFailed)
  <2>1. <<>> \in Seq(Bit) /\ o.res \in {"ok", "big", "io", "eof"} /\ n \in Nat /\ StateType
    BY EmptySeq, WType DEF BitInv
  <2>2. PICK e \in Seq(Bit) : e = <<>>
    BY <2>1
  <2>3. PICK r \in {"ok", "big", "io", "eof"} : r = o.res
    BY <2>1
  <2>4. Answer(r, n, e) \in Replies /\ Answer(r, n, e).res = r /\ Answer(r, n, e).n = n
        /\ (Answer(r, n, e).first => NoneFailed)
    BY <2>1, AnswerFields
  <2>5. last' = Answer(r, n, e)
    BY <1>1, <2>2, <2>3
  <2> QED BY ONLY <2>3, <2>4, <2>5
<1>3. lost' \in BOOLEAN /\ (~lost' => ~lost /\ o.res = "eof")
  <2>1. lost \in BOOLEAN /\ (o.res # "io" => o.res = "eof")
    BY DEF BitInv, StateType
  <2> QED BY <1>1, <2>1
<1>4. StateType'
  BY <1>1, <1>2, <1>3 DEF BitInv, StateType
<1>5. BuffersRest(bits_buf, taken, at)'
  BY <1>1 DEF BitInv, BuffersRest
<1>6. ~lost' => FirstBits(taken, pos)'
  BY <1>1, <1>3 DEF BitInv, FirstBits
<1>7. ~NoneFailed'
  BY <1>2 DEF NoneFailed
<1>8. EofOnlyAtEnd'
  <2>1. ASSUME last'.res = "eof", last'.first PROVE at' + last'.n > Len(stream')
    <3>1. Len(taken) = ByteBits * pos
      BY <1>2, <2>1 DEF BitInv
    <3> QED BY <1>1, <1>2, <2>1, <3>1
  <2> QED BY <2>1 DEF EofOnlyAtEnd
<1>9. AnswersAreNextBits'
  BY <1>1, <1>2, <1>3 DEF BitInv, AnswersAreNextBits
<1> QED BY <1>4, <1>5, <1>6, <1>7, <1>8, <1>9 DEF BitInv

(* A request for bits keeps the invariant, whatever comes of it. *)
LEMMA RequestStep ==
  ASSUME BitInv, NEW n \in 1..W, NEW t \in 1..W, n <= t, NEW o \in NextBits(n), NEW value,
         o.res = "ok" => /\ value \in Seq(Bit) /\ Len(value) = t
                         /\ \A i \in 1..t : value[i] = o.word[(W - t) + i],
         Request(o, n, value)
  PROVE  BitInv'
<1>1. /\ o.pos \in Nat /\ ByteBits * o.pos <= Len(stream)
      /\ \/ o.res = "ok" /\ \E all \in Seq(Bit) : Serves(o, n, all)
         \/ o.res = "io" /\ o.buf = bits_buf /\ o.new = <<>>
         \/ /\ o.res = "eof" /\ o.buf = bits_buf /\ o.new = <<>>
            /\ ByteBits * o.pos = Len(stream)
            /\ Len(taken) = ByteBits * pos => at + n > Len(stream)
  BY NextBitsOutcome
<1>2. CASE o.res = "ok"
  <2>1. PICK all \in Seq(Bit) : Serves(o, n, all)
    BY <1>1, <1>2
  <2> QED BY <1>1, <1>2, <2>1, ServedStep
<1>3. CASE o.res \in {"io", "eof"}
  BY <1>1, <1>3, RefusedStep
<1> QED BY <1>1, <1>2, <1>3

(* bits as T: the low bits of a word. *)
LEMMA FromBitsType ==
  ASSUME NEW word \in Word, NEW t \in 1..W
  PROVE  FromBits(word, t) \in Seq(Bit) /\ Len(FromBits(word, t)) = t
         /\ \A i \in 1..t : FromBits(word, t)[i] = word[(W - t) + i]
<1> DEFINE f == FromBits(word, t)
<1>1. \A i \in 1..t : (W - t) + i \in 1..W
  BY WType
<1>2. f = [i \in 1..t |-> word[(W - t) + i]]
  BY DEF FromBits
<1>3. f \in [1..t -> Bit] /\ t \in Nat
  BY <1>1, <1>2, WType DEF Word
<1> HIDE DEF f
<1>4. f \in Seq(Bit)
  BY <1>3, SeqDef
<1>5. DOMAIN f = 1..t /\ DOMAIN f = 1..Len(f) /\ Len(f) \in Nat
  BY <1>3, <1>4, LenProperties
<1>6. Len(f) = t
  BY <1>3, <1>5
<1> QED BY <1>2, <1>4, <1>6 DEF f

(* read_bit keeps the invariant: its answer is the one bit it asked for. *)
LEMMA ReadBitStep ==
  ASSUME BitInv, ReadBit
  PROVE  BitInv'
<1>1. PICK o \in NextBits(1) : Request(o, 1, <<IF o.word = Zero THEN 0 ELSE 1>>)
  BY DEF ReadBit
<1> DEFINE value == <<IF o.word = Zero THEN 0 ELSE 1>>
<1>2. 1 \in 1..W /\ W \in Nat /\ W >= 1 /\ W \in 1..W
  BY WType
<1>3. ASSUME o.res = "ok"
      PROVE  value \in Seq(Bit) /\ Len(value) = 1 /\ \A i \in 1..1 : value[i] = o.word[(W - 1) + i]
  <2>1. PICK all \in Seq(Bit) : Serves(o, 1, all)
    BY <1>2, <1>3, NextBitsOutcome
  <2>2. o.word \in [1..W -> {0, 1}] /\ \A i \in 1..W : i <= W - 1 => o.word[i] = 0
    BY <2>1 DEF Serves, Word, Bit
  <2>3. o.word[W] \in {0, 1}
    BY <1>2, <2>2
  <2>4. o.word = Zero <=> o.word[W] = 0
    <3>1. ASSUME o.word = Zero PROVE o.word[W] = 0
      BY <1>2, <3>1 DEF Zero
    <3>2. ASSUME o.word[W] = 0 PROVE o.word = Zero
      <4>1. \A i \in 1..W : i <= W - 1 \/ i = W
        BY <1>2
      <4>2. \A i \in 1..W : o.word[i] = 0
        BY <2>2, <3>2, <4>1
      <4> QED BY <2>2, <4>2 DEF Zero
    <3> QED BY <3>1, <3>2
  <2>5. value[1] = o.word[W] /\ Len(value) = 1 /\ value \in Seq(Bit)
    BY <2>3, <2>4 DEF Bit
  <2>6. (W - 1) + 1 = W
    BY <1>2
  <2> HIDE DEF value
  <2> QED BY <2>5, <2>6
<1> HIDE DEF value
<1>4. Request(o, 1, value)
  BY <1>1 DEF value
<1>5. /\ 1 <= 1
      /\ o.res = "ok" => /\ value \in Seq(Bit) /\ Len(value) = 1
                         /\ \A i \in 1..1 : value[i] = o.word[(W - 1) + i]
  BY <1>3
<1>6. BitInv /\ o \in NextBits(1)
  OBVIOUS
<1> QED BY ONLY <1>2, <1>4, <1>5, <1>6, RequestStep, Zenon

(* read_bits keeps the invariant. *)
LEMMA ReadBitsStep ==
  ASSUME BitInv, NEW n \in 0..MaxBits, NEW t \in TypeBits, ReadBits(n, t)
  PROVE  BitInv'
<1>1. t \in 1..W /\ n \in Nat /\ W \in Nat /\ t \in Nat /\ t <= W
  BY TypeAssumption, RequestAssumption, WType
<1>2. CASE n = 0 /\ last' = Answer("ok", 0, FromBits(Zero, t))
           /\ UNCHANGED <<stream, pos, bits_buf, taken, at, lost>>
  <2>1. Zero \in Word /\ \A i \in 1..W : Zero[i] = 0
    BY DEF Zero, Word, Bit
  <2> DEFINE v == FromBits(Zero, t)
  <2>2. v \in Seq(Bit) /\ Len(v) = t /\ \A i \in 1..t : v[i] = Zero[(W - t) + i]
    BY ONLY <1>1, <2>1, FromBitsType
  <2>3. \A i \in 1..t : (W - t) + i \in 1..W
    BY <1>1
  <2> HIDE DEF v
  <2>4. \A i \in 1..Len(v) : v[i] = 0
    BY <2>1, <2>2, <2>3
  <2>5. last' = Answer("ok", 0, v)
    BY <1>2 DEF v
  <2> QED BY <1>2, <2>2, <2>4, <2>5, OnlyAnswers
<1>3. CASE n > t /\ last' = Answer("big", n, <<>>)
           /\ UNCHANGED <<stream, pos, bits_buf, taken, at, lost>>
  <2>1. <<>> \in Seq(Bit)
    BY EmptySeq
  <2> QED BY <1>1, <1>3, <2>1, OnlyAnswers
<1>4. CASE n # 0 /\ n <= t /\ \E o \in NextBits(n) : Request(o, n, FromBits(o.word, t))
  <2>1. PICK o \in NextBits(n) : Request(o, n, FromBits(o.word, t))
    BY <1>4
  <2>2. n \in 1..W
    BY <1>1, <1>4
  <2> DEFINE v == FromBits(o.word, t)
  <2>3. ASSUME o.res = "ok"
        PROVE  v \in Seq(Bit) /\ Len(v) = t /\ \A i \in 1..t : v[i] = o.word[(W - t) + i]
    <3>1. PICK all \in Seq(Bit) : Serves(o, n, all)
      BY <2>2, <2>3, NextBitsOutcome
    <3>2. o.word \in Word
      BY <3>1 DEF Serves
    <3> QED BY <1>1, <3>2, FromBitsType
  <2> HIDE DEF v
  <2>4. Request(o, n, v)
    BY <2>1 DEF v
  <2> QED BY <1>1, <1>4, <2>2, <2>3, <2>4, RequestStep
<1> QED BY <1>2, <1>3, <1>4 DEF ReadBits

(* No step breaks the invariant. *)
LEMMA BitStep == BitInv /\ [Next]_vars => BitInv'
<1> SUFFICES ASSUME BitInv, [Next]_vars PROVE BitInv'
  OBVIOUS
<1>1. CASE UNCHANGED vars
  <2>1. UNCHANGED <<stream, pos, bits_buf, taken, at, lost, last>>
    BY <1>1 DEF vars
  <2>2. StateType' /\ BuffersRest(bits_buf, taken, at)' /\ (~lost' => FirstBits(taken, pos)')
    BY <2>1 DEF BitInv, StateType, BuffersRest, FirstBits
  <2>3. AnswersAreNextBits' /\ EofOnlyAtEnd'
    BY <2>1 DEF BitInv, AnswersAreNextBits, EofOnlyAtEnd
  <2> QED BY <2>1, <2>2, <2>3 DEF BitInv, NoneFailed
<1> QED BY <1>1, ReadBitStep, ReadBitsStep DEF Next

-----------------------------------------------------------------------------
(* The theorems. *)

(* The invariant holds always. *)
THEOREM BitsInvariant == Spec => []BitInv
BY InitBits, BitStep, PTL DEF Spec

(* The word of the bit reader holds the bits taken from the stream and not *)
(* handed out yet, in their order (bitstream.rs, next_bits).               *)
THEOREM BufferIsExact == Spec => []BufferIsWhatIsLeft
<1>1. BitInv => BufferIsWhatIsLeft
  <2> SUFFICES ASSUME BitInv PROVE BufferIsWhatIsLeft
    OBVIOUS
  <2>1. Len(taken) \in Nat /\ at \in Nat /\ LastOne(bits_buf) = Len(taken) - at + 1
    BY MarkedLastOne DEF BitInv, StateType, BuffersRest
  <2>2. HaveBits(bits_buf) = Len(taken) - at
    BY <2>1 DEF HaveBits
  <2> QED BY <2>2 DEF BitInv, BuffersRest, BufferIsWhatIsLeft
<1> QED BY <1>1, BitsInvariant, PTL

(* read_bit and read_bits answer with the next bits of the stream.         *)
THEOREM AnswersAreExact == Spec => []AnswersAreNextBits
<1>1. BitInv => AnswersAreNextBits
  BY DEF BitInv
<1> QED BY <1>1, BitsInvariant, PTL

(* The first request that fails with UnexpectedEof asked for more bits     *)
(* than the stream had left (bitstream.rs, next_bits).                     *)
THEOREM EofIsEnd == Spec => []EofOnlyAtEnd
<1>1. BitInv => EofOnlyAtEnd
  BY DEF BitInv
<1> QED BY <1>1, BitsInvariant, PTL
=============================================================================
