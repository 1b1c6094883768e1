------------------------------ MODULE BitStream ------------------------------
(***************************************************************************)
(* BitStream of src/bitstream.rs: bits from a stream of bytes, through a   *)
(* machine word.  A word is the function from its bit positions, the       *)
(* highest first, to bits; the buffered bits are its first ones and a 1    *)
(* marks their end ("x..x10..0").                                          *)
(*                                                                         *)
(* The stream is the sequence of its bytes' bits, the highest of each byte *)
(* first, which makes from_be_bytes their concatenation.                   *)
(*                                                                         *)
(* The auxiliary variables are taken (the bits of the reads of the stream  *)
(* that served a request), at (how many bits were handed out), lost        *)
(* (whether an I/O error lost bytes) and last (the answer to the last      *)
(* request).                                                               *)
(***************************************************************************)
EXTENDS Integers, Sequences

CONSTANTS
  ByteBits,   \* 8
  BufBytes,   \* BITBUF_BYTESIZE
  TypeBits,   \* the capacities of the types that receive bits
  Streams,    \* the contents a stream can have
  MaxBits,    \* bound on the bits requested at once
  IoErrors    \* whether reading the stream can fail with an I/O error

W == ByteBits * BufBytes    \* BITBUF_BITSIZE
Bit == {0, 1}

ASSUME SizeAssumption == ByteBits \in Nat \ {0} /\ BufBytes \in Nat \ {0}
ASSUME TypeAssumption == TypeBits \subseteq 1..W
ASSUME StreamAssumption ==
  \A x \in Streams : x \in Seq(Bit) /\ Len(x) % ByteBits = 0
ASSUME RequestAssumption == MaxBits \in Nat /\ IoErrors \in BOOLEAN

VARIABLES stream, pos, bits_buf, taken, at, lost, last
vars == <<stream, pos, bits_buf, taken, at, lost, last>>

-----------------------------------------------------------------------------
(* Words. *)
Word == [1..W -> Bit]
Zero == [i \in 1..W |-> 0]
Shl(v, n) == [i \in 1..W |-> IF i + n <= W THEN v[i + n] ELSE 0]
Shr(v, n) == [i \in 1..W |-> IF i > n THEN v[i - n] ELSE 0]
Or(u, v)  == [i \in 1..W |-> IF u[i] = 1 \/ v[i] = 1 THEN 1 ELSE 0]

(* 1 << (W - k) *)
Mark(k) == [i \in 1..W |-> IF i = k THEN 1 ELSE 0]

(* W - trailing_zeros *)
LastOne(v) == IF v = Zero THEN 0
              ELSE CHOOSE i \in 1..W : v[i] = 1 /\ \A j \in i+1..W : v[j] = 0

(* The mark is left in. *)
ClearLastOneNot(v) == v

(* v & (v - 1) *)
ClearLastOne(v) == [i \in 1..W |-> IF i = LastOne(v) THEN 0 ELSE v[i]]

HaveBits(v) == LastOne(v) - 1

-----------------------------------------------------------------------------
(* read_all into a word's bytes, from byte p of the stream: the outcomes.  *)
(* It stops early only at the end of the stream, and fails only while it   *)
(* has not got all.                                                        *)
Smaller(a, b) == IF a < b THEN a ELSE b
BytesLeft(p) == Len(stream) \div ByteBits - p

ReadAll(p) ==
  LET got == Smaller(BufBytes, BytesLeft(p))
  IN {[ok |-> TRUE, got |-> got]}
     \cup (IF IoErrors
           THEN {[ok |-> FALSE, got |-> j] : j \in 0..Smaller(BufBytes - 1, got)}
           ELSE {})

(* The bytes read into a zeroed buffer, as a word. *)
FromBeBytes(p, got) ==
  [i \in 1..W |-> IF i <= ByteBits * got THEN stream[ByteBits * p + i] ELSE 0]

Outcome(res, word, buf, p, new) ==
  [res |-> res, word |-> word, buf |-> buf, pos |-> p, new |-> new]

(* A shift by all the bits of a word, which leaves it as it was. *)
RefilledShiftsTooFar(new, bits_read, missing) ==
  Or(IF missing = W THEN new ELSE Shl(new, missing), Mark(bits_read - missing + 1))

(* What is buffered of new bits once those missing are taken from them. *)
Refilled(new, bits_read, missing) ==
  Or(IF missing = W THEN Zero ELSE Shl(new, missing), Mark(bits_read - missing + 1))

(* A request that leaves no bits over taken for one too many. *)
TooFewOrEqual(bits_read, missing) == bits_read <= missing

TooFew(bits_read, missing) == bits_read < missing

(* next_bits(n): the outcomes.  A failure keeps the buffered bits and      *)
(* drops what was read.                                                    *)
NextBits(n) ==
  LET have == HaveBits(bits_buf)
      res == Shr(bits_buf, W - n)
      missing == n - have
  IN IF n <= have
     THEN {Outcome("ok", res, Shl(bits_buf, n), pos, <<>>)}
     ELSE {IF ~r.ok THEN Outcome("io", Zero, bits_buf, pos + r.got, <<>>)
           ELSE IF TooFew(ByteBits * r.got, missing)
           THEN Outcome("eof", Zero, bits_buf, pos + r.got, <<>>)
           ELSE LET new == FromBeBytes(pos, r.got)
                IN Outcome("ok", Or(ClearLastOne(res), Shr(new, W - missing)),
                           Refilled(new, ByteBits * r.got, missing), pos + r.got,
                           SubSeq(stream, ByteBits * pos + 1, ByteBits * (pos + r.got)))
           : r \in ReadAll(pos)}

(* An answer of n bits in t; first: no request failed before it. *)
Answer(res, n, value) ==
  [res |-> res, n |-> n, value |-> value, first |-> last.first /\ last.res \in {"ok", "big"}]

(* BitStream::new *)
Init ==
  /\ stream \in Streams /\ pos = 0 /\ bits_buf = Mark(1)
  /\ taken = <<>> /\ at = 0 /\ lost = FALSE
  /\ last = [res |-> "ok", n |-> 0, value |-> <<>>, first |-> TRUE]

(* bits as T: the lowest t bits. *)
FromBits(word, t) == [i \in 1..t |-> word[W - t + i]]

(* What a request for n bits leaves behind; the value is only there if it  *)
(* succeeded.                                                              *)
Request(o, n, value) ==
  /\ pos' = o.pos /\ bits_buf' = o.buf /\ taken' = taken \o o.new
  /\ at' = IF o.res = "ok" THEN at + n ELSE at
  /\ lost' = (lost \/ o.res = "io")
  /\ last' = Answer(o.res, n, IF o.res = "ok" THEN value ELSE <<>>)
  /\ UNCHANGED stream

(* read_bit: whether the bits are not 0. *)
ReadBit ==
  \E o \in NextBits(1) : Request(o, 1, <<IF o.word = Zero THEN 0 ELSE 1>>)

(* read_bits::<T>(n) with t bits in T. *)
ReadBits(n, t) ==
  \/ /\ n = 0
     /\ last' = Answer("ok", 0, FromBits(Zero, t))
     /\ UNCHANGED <<stream, pos, bits_buf, taken, at, lost>>
  \/ /\ n # 0 /\ n <= t
     /\ \E o \in NextBits(n) : Request(o, n, FromBits(o.word, t))
  \/ /\ n > t
     /\ last' = Answer("big", n, <<>>)
     /\ UNCHANGED <<stream, pos, bits_buf, taken, at, lost>>

Next ==
  \/ ReadBit
  \/ \E n \in 0..MaxBits, t \in TypeBits : ReadBits(n, t)

Spec == Init /\ [][Next]_vars

-----------------------------------------------------------------------------
TypeOK ==
  /\ stream \in Streams /\ taken \in Seq(Bit) /\ at \in 0..Len(taken)
  /\ pos \in Nat /\ ByteBits * pos <= Len(stream)
  /\ bits_buf \in Word \ {Zero}
  /\ lost \in BOOLEAN /\ last.res \in {"ok", "big", "io", "eof"}

(* The bits before the mark are the bits taken from the stream and not yet *)
(* handed out, in their order, after failed requests too (bitstream.rs,    *)
(* next_bits, which merges and refills the word by shifts).                *)
BufferIsWhatIsLeft ==
  /\ HaveBits(bits_buf) = Len(taken) - at
  /\ \A i \in 1..HaveBits(bits_buf) : bits_buf[i] = taken[at + i]

(* An answer is the next bits of what was taken, in the low bits of a      *)
(* value that is otherwise zero; and what is taken are the first bits of   *)
(* the stream as long as no I/O error lost some: requests that fail at the *)
(* end of the stream put nothing out of order.                             *)
AnswersAreNextBits ==
  /\ last.res = "ok" =>
       LET t == Len(last.value)
       IN \A i \in 1..t : last.value[i] = IF i <= t - last.n THEN 0 ELSE taken[at - t + i]
  /\ ~lost => \A i \in 1..Len(taken) : taken[i] = stream[i]

(* The first request that fails at the end of the stream asked for more    *)
(* than there was.                                                         *)
EofOnlyAtEnd == last.res = "eof" /\ last.first => at + last.n > Len(stream)
=============================================================================
