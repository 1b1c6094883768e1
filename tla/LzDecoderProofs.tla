--------------------------- MODULE LzDecoderProofs ---------------------------
(***************************************************************************)
(* Proofs about LzDecoder, for every window size, every set of addresses,  *)
(* counts and buffer lengths and both ways of addressing: the invariants,  *)
(* and that the bytes which the ring buffer, the resumed copies and the    *)
(* caller's buffers produce are those of LzHistory.                        *)
(***************************************************************************)
EXTENDS LzDecoder, SequenceTheorems, TLAPS

-----------------------------------------------------------------------------
(* Arithmetic of the mask (index_mask of ringbuf.rs). *)

(* A masked index is an index of the buffer. *)
LEMMA MaskInIndex == \A x \in Int : Mask(x) \in Index
BY NAssumption DEF Mask, Index

(* Indices of the buffer are not changed by the mask, and those of the     *)
(* next round lose one round.                                              *)
LEMMA MaskOneRound ==
  \A x \in Nat : x < 2 * N => Mask(x) = IF x < N THEN x ELSE x - N
<1> SUFFICES ASSUME NEW x \in Nat, x < 2 * N
             PROVE  x % N = IF x < N THEN x ELSE x - N
  BY DEF Mask
<1>1. CASE x < N
  BY <1>1, NAssumption
<1>2. CASE x >= N
  <2> DEFINE y == x - N
  <2>1. y \in 0..N-1
    BY <1>2, NAssumption
  <2>2. (y + N) % N = y
    <3> HIDE DEF y
    <3> QED BY <2>1, NAssumption
  <2> QED BY <1>2, <2>2, NAssumption
<1> QED BY <1>1, <1>2, NAssumption

(* Walking i places on from the slot after c, one gets to the slot i       *)
(* places after c: back at c itself after a whole round, and not before.   *)
LEMMA MaskSteps ==
  ASSUME NEW c \in Index, NEW i \in 1..N
  PROVE  /\ Mask(c) = c
         /\ Mask(Mask(c + 1) + i - 1) = IF i = N THEN c ELSE Mask(c + i)
         /\ i # N => Mask(c + i) # c
<1>1. c \in Nat /\ c < N /\ i \in Nat /\ 1 <= i /\ i <= N /\ N \in Nat /\ N > 0
  BY NAssumption DEF Index
<1>2. Mask(c) = c
  BY <1>1, MaskOneRound
<1>3. Mask(c + 1) = IF c + 1 < N THEN c + 1 ELSE 0
  <2>1. c + 1 \in Nat /\ (N = 1 \/ c + 1 < 2 * N)
    BY <1>1
  <2>2. CASE N = 1
    BY <1>1, <2>2 DEF Mask
  <2>3. CASE N # 1
    BY <1>1, <2>1, <2>3, MaskOneRound
  <2> QED BY <2>2, <2>3
<1>4. ASSUME NEW d \in Nat, d = IF c + 1 < N THEN c + 1 ELSE 0
      PROVE  Mask(d + i - 1) = IF i = N THEN c ELSE Mask(c + i)
  <2>1. d + i - 1 \in Nat /\ d + i - 1 < 2 * N
    BY <1>1, <1>4
  <2>2. Mask(d + i - 1) = IF d + i - 1 < N THEN d + i - 1 ELSE d + i - 1 - N
    BY <1>1, <2>1, MaskOneRound
  <2>3. CASE i = N
    BY <1>1, <1>4, <2>2, <2>3
  <2>4. CASE i # N
    <3>1. c + i \in Nat /\ c + i < 2 * N
      BY <1>1, <2>4
    <3>2. Mask(c + i) = IF c + i < N THEN c + i ELSE c + i - N
      BY <1>1, <3>1, MaskOneRound
    <3> QED BY <1>1, <1>4, <2>2, <2>4, <3>2
  <2> QED BY <2>3, <2>4
<1>5. ASSUME i # N
      PROVE  Mask(c + i) # c
  <2>1. c + i \in Nat /\ c + i < 2 * N
    BY <1>1, <1>5
  <2>2. Mask(c + i) = IF c + i < N THEN c + i ELSE c + i - N
    BY <1>1, <2>1, MaskOneRound
  <2> QED BY <1>1, <1>5, <2>2
<1>6. Mask(c + 1) \in Nat
  BY <1>1, <1>3
<1> QED BY <1>2, <1>3, <1>4, <1>5, <1>6

-----------------------------------------------------------------------------
(* The ring buffer operations. *)

(* push keeps a ring buffer a ring buffer. *)
LEMMA PushType ==
  ASSUME NEW rb \in RingBuffer, NEW b \in Byte
  PROVE  Push(rb, b) \in RingBuffer
BY MaskInIndex, NAssumption DEF Push, RingBuffer, Index

(* The byte pushed is the newest one, and every other byte is one place    *)
(* older than it was.                                                      *)
LEMMA PushShifts ==
  ASSUME NEW rb \in RingBuffer, NEW b \in Byte, NEW i \in 1..N
  PROVE  ByteAt(Push(rb, b), Push(rb, b).cursor + i - 1)
           = IF i = N THEN b ELSE ByteAt(rb, rb.cursor + (i + 1) - 1)
<1>1. rb.cursor \in Index /\ rb.cursor \in Nat /\ rb.buffer \in [Index -> Byte]
  BY NAssumption DEF RingBuffer, Index
<1>2. /\ Push(rb, b).cursor = Mask(rb.cursor + 1)
      /\ Push(rb, b).buffer = [rb.buffer EXCEPT ![Mask(rb.cursor)] = b]
  BY DEF Push
<1>3. rb.cursor + (i + 1) - 1 = rb.cursor + i /\ rb.cursor + i \in Int
  BY <1>1
<1>4. Mask(rb.cursor + i) \in Index
  BY <1>3, MaskInIndex
<1>5. /\ Mask(rb.cursor) = rb.cursor
      /\ Mask(Mask(rb.cursor + 1) + i - 1) = IF i = N THEN rb.cursor ELSE Mask(rb.cursor + i)
      /\ i # N => Mask(rb.cursor + i) # rb.cursor
  BY <1>1, MaskSteps
<1> QED BY <1>1, <1>2, <1>3, <1>4, <1>5 DEF ByteAt

-----------------------------------------------------------------------------
(* A byte appended to what was delivered is appended to the part of it     *)
(* that belongs to the current call.                                       *)
LEMMA AppendConcat ==
  ASSUME NEW p \in Seq(Byte), NEW q \in Seq(Byte), NEW r \in Seq(Byte), NEW e \in Byte
  PROVE  Append(p \o q \o r, e) = p \o q \o Append(r, e)
<1>1. p \o q \in Seq(Byte) /\ (p \o q) \o r \in Seq(Byte) /\ <<e>> \in Seq(Byte)
  BY ConcatProperties
<1>2. ((p \o q) \o r) \o <<e>> = (p \o q) \o (r \o <<e>>)
  BY <1>1, ConcatAssociative
<1> QED BY <1>1, <1>2, AppendIsConcat

-----------------------------------------------------------------------------
(* The inductive invariant.  BufferIsFresh says that a call starts with an *)
(* empty record of what it wrote, which DeliveredIsDecoded needs when the  *)
(* call begins; ResumeFits says of the copy in progress what               *)
(* ResumeAddressFits says of the saved one.                                *)
BufferIsFresh == pc = "idle" => buf = <<>>

FitsOneCopy(progress) ==
  \E m \in Counts \cup {0} : progress.addr + progress.count <= N - 1 + m

ResumeFits == Addressing = "pos" /\ pc = "copy" => FitsOneCopy(iter.resume)

IndInv ==
  /\ TypeOK
  /\ WindowIsHistory
  /\ NoCommandOverPendingCopy
  /\ CopyStaysInBuffer
  /\ ResumeAddressFits
  /\ DeliveredIsDecoded
  /\ BufferIsFresh
  /\ ResumeFits

(* The constructors' ring buffer and the history it stands for. *)
LEMMA PrefillType == InitialRing \in RingBuffer /\ Prefill \in Seq(Byte) /\ Len(Prefill) = N
<1>1. InitialRing \in RingBuffer
  BY FillAssumption, StartAssumption, MaskInIndex, NAssumption
  DEF InitialRing, SetCursor, RingBuffer, Index
<1>2. \A i \in 1..N : ByteAt(InitialRing, InitialRing.cursor + i - 1) \in Byte
  <2> TAKE i \in 1..N
  <2>1. InitialRing.cursor \in Int /\ InitialRing.buffer \in [Index -> Byte]
    BY <1>1 DEF RingBuffer, Index
  <2>2. InitialRing.cursor + i - 1 \in Int
    BY <2>1
  <2> QED BY <2>1, <2>2, MaskInIndex DEF ByteAt
<1>3. Prefill \in [1..N -> Byte]
  BY <1>2 DEF Prefill, Unrolled
<1> QED BY <1>1, <1>3, NAssumption, LenProperties, SeqDef

(* Writing one byte keeps window and history together, and what was        *)
(* delivered with what was decoded.                                        *)
LEMMA EmitKeeps ==
  ASSUME TypeOK, WindowIsHistory, DeliveredIsDecoded, room > 0,
         NEW b \in Byte, Emit(b), UNCHANGED <<out, failed>>
  PROVE  /\ ringbuf' \in RingBuffer
         /\ room' \in Nat /\ room' = room - 1
         /\ buf' \in Seq(Byte) /\ hist' \in Seq(Byte)
         /\ WindowIsHistory'
         /\ DeliveredIsDecoded'
<1> USE DEF Emit
<1>1. ringbuf' \in RingBuffer
  BY PushType DEF TypeOK
<1>2. room' \in Nat /\ room' = room - 1
  BY DEF TypeOK
<1>3. buf' \in Seq(Byte) /\ hist' \in Seq(Byte) /\ Len(hist') = Len(hist) + 1
  BY DEF TypeOK
<1>4. WindowIsHistory'
  <2>1. Len(hist) \in Nat /\ Len(hist) >= N
    BY DEF TypeOK, WindowIsHistory
  <2>2. ASSUME NEW i \in 1..N
        PROVE  ByteAt(ringbuf', ringbuf'.cursor + i - 1) = hist'[Len(hist') - N + i]
    <3>1. ByteAt(ringbuf', ringbuf'.cursor + i - 1)
            = IF i = N THEN b ELSE ByteAt(ringbuf, ringbuf.cursor + (i + 1) - 1)
      BY PushShifts DEF TypeOK
    <3>2. CASE i = N
      <4>1. Len(hist') - N + i = Len(hist) + 1
        BY <1>3, <2>1, <3>2, NAssumption
      <4>2. hist'[Len(hist) + 1] = b
        BY DEF TypeOK
      <4> QED BY <3>1, <3>2, <4>1, <4>2
    <3>3. CASE i # N
      <4>1. i + 1 \in 1..N
        BY <3>3, NAssumption
      <4>2. ByteAt(ringbuf, ringbuf.cursor + (i + 1) - 1) = hist[Len(hist) - N + (i + 1)]
        BY <4>1 DEF WindowIsHistory
      <4>3. Len(hist') - N + i = Len(hist) - N + (i + 1)
        BY <1>3, <2>1, NAssumption
      <4>4. Len(hist) - N + (i + 1) \in 1..Len(hist)
        BY <2>1, <4>1, NAssumption
      <4>5. hist'[Len(hist) - N + (i + 1)] = hist[Len(hist) - N + (i + 1)]
        BY <4>4, AppendProperties DEF TypeOK
      <4> QED BY <3>1, <3>3, <4>2, <4>3, <4>5
    <3> QED BY <3>2, <3>3
  <2> QED BY <1>3, <2>1, <2>2, NAssumption DEF WindowIsHistory
<1>5. DeliveredIsDecoded'
  <2>1. SUFFICES ASSUME ~failed
                 PROVE  hist' = Prefill \o out \o buf'
    BY DEF DeliveredIsDecoded
  <2>2. hist = Prefill \o out \o buf
    BY <2>1 DEF DeliveredIsDecoded
  <2>3. out \in Seq(Byte) /\ buf \in Seq(Byte) /\ Prefill \in Seq(Byte)
    BY PrefillType DEF TypeOK
  <2>4. Append(Prefill \o out \o buf, b) = Prefill \o out \o Append(buf, b)
    BY ONLY <2>3, AppendConcat, b \in Byte
  <2> QED BY <2>2, <2>4
<1> QED BY <1>1, <1>2, <1>3, <1>4, <1>5

(* The index from which fill_buffer rebuilds `target` is that of the slot  *)
(* it has just taken: the buffer written so far and the slots left for the *)
(* copy are those before the command.                                      *)
LEMMA CopyKeepsBuffer ==
  ASSUME TypeOK, NEW addr, NEW count, Copy(addr, count)
  PROVE  /\ pc = "loop" /\ room > 0 /\ Len(hist) < N + MaxOut
         /\ CopyFromHistory(addr, count, room)
         /\ UNCHANGED <<ringbuf, copy_progress, room, buf, out, hist, failed>>
<1>1. room \in Nat /\ buf \in Seq(Byte)
  BY DEF TypeOK
<1>2. Len(buf) \in Nat /\ DOMAIN buf = 1..Len(buf) /\ buf = [i \in 1..Len(buf) |-> buf[i]]
  BY ONLY <1>1, LenProperties
<1>3. CopyIndex(room - 1) = Len(buf)
  BY ONLY <1>1, <1>2 DEF CopyIndex
<1>4. Len(buf) + room - CopyIndex(room - 1) = room
  BY ONLY <1>1, <1>2, <1>3
<1>5. /\ pc = "loop" /\ room > 0 /\ Len(hist) < N + MaxOut
      /\ CopyFromHistory(addr, count, room) /\ room' = room
      /\ UNCHANGED <<ringbuf, copy_progress, out, hist, failed>>
  BY ONLY <1>4, Copy(addr, count), Zenon DEF Copy
<1>6. PICK stale \in Byte :
        buf' = [i \in 1..Len(buf) |-> IF i \in DOMAIN buf THEN buf[i] ELSE stale]
  BY ONLY <1>3, Copy(addr, count), Zenon DEF Copy
<1>7. buf' = buf
  BY ONLY <1>2, <1>6
<1> QED BY ONLY <1>5, <1>7

(* The copy loop that copy_from_history sets up fits the slots it is given *)
(* and leaves a copy to resume only if it uses them all.                   *)
LEMMA CopyFromHistoryFits ==
  ASSUME TypeOK, NEW addr \in Nat, NEW count \in Nat, NEW slots \in Nat,
         CopyFromHistory(addr, count, slots)
  PROVE  /\ pc' = "copy"
         /\ iter' \in [index: Nat, left: Nat, resume: Progress]
         /\ iter'.left <= slots
         /\ iter'.resume.count > 0 => iter'.left = slots
         /\ Addressing = "pos" /\ FitsOneCopy([addr |-> addr, count |-> count])
              => FitsOneCopy(iter'.resume)
<1> USE DEF CopyFromHistory
<1>1. RealCount(slots, count) \in Nat /\ RealCount(slots, count) <= slots
        /\ RealCount(slots, count) <= count
        /\ (RealCount(slots, count) # count => RealCount(slots, count) = slots)
  BY DEF RealCount
<1>2. Resume(addr, slots, count) \in Progress
  BY <1>1, AddressingAssumption DEF Resume, Progress, NoCopy
<1>3. HistoryIndex(ringbuf, addr) \in Nat
  <2>1. ringbuf.cursor \in Index /\ Mask(addr) \in Index
    BY MaskInIndex DEF TypeOK, RingBuffer
  <2> QED BY <2>1, NAssumption DEF HistoryIndex, IterFromOffset, IterFromPos, Index
<1>4. Resume(addr, slots, count).count > 0 => RealCount(slots, count) = slots
  BY <1>1 DEF Resume, NoCopy
<1>5. ASSUME Addressing = "pos", FitsOneCopy([addr |-> addr, count |-> count])
      PROVE  FitsOneCopy(Resume(addr, slots, count))
  <2>1. PICK m \in Counts \cup {0} : addr + count <= N - 1 + m
    BY <1>5 DEF FitsOneCopy
  <2>2. m \in Nat
    BY CountsAssumption
  <2>3. CASE count = RealCount(slots, count)
    BY <2>3, NAssumption DEF Resume, NoCopy, FitsOneCopy
  <2>4. CASE count # RealCount(slots, count)
    <3>1. Resume(addr, slots, count)
            = [addr |-> addr + RealCount(slots, count), count |-> count - RealCount(slots, count)]
      BY <1>5, <2>4 DEF Resume
    <3>2. (addr + RealCount(slots, count)) + (count - RealCount(slots, count)) = addr + count
      BY <1>1
    <3> QED BY <2>1, <3>1, <3>2 DEF FitsOneCopy
  <2> QED BY <2>3, <2>4
<1> QED BY <1>1, <1>2, <1>3, <1>4, <1>5

-----------------------------------------------------------------------------
(* A new decoder satisfies the invariant.                                  *)
LEMMA InitEstablishes == Init => IndInv
<1> SUFFICES ASSUME Init PROVE IndInv
  OBVIOUS
<1> USE DEF Init
<1>1. TypeOK
  <2>1. NoCopy \in Progress
    BY DEF Progress, NoCopy
  <2>2. NoIter \in [index: Nat, left: Nat, resume: Progress]
    BY <2>1 DEF NoIter
  <2>3. buf \in Seq(Byte) /\ out \in Seq(Byte)
    BY EmptySeq
  <2> QED BY <2>1, <2>2, <2>3, PrefillType DEF TypeOK
<1>2. WindowIsHistory
  BY PrefillType, NAssumption DEF WindowIsHistory, Prefill, Unrolled
<1>3. DeliveredIsDecoded
  BY PrefillType, ConcatEmptySeq DEF DeliveredIsDecoded
<1>4. ResumeAddressFits
  BY NAssumption DEF ResumeAddressFits, NoCopy
<1> QED BY <1>1, <1>2, <1>3, <1>4
  DEF IndInv, NoCommandOverPendingCopy, CopyStaysInBuffer, BufferIsFresh, ResumeFits

(* No step of fill_buffer breaks the invariant.                            *)
LEMMA NextPreserves == IndInv /\ [Next]_vars => IndInv'
<1> SUFFICES ASSUME IndInv, [Next]_vars PROVE IndInv'
  OBVIOUS
<1> USE DEF IndInv
<1>1. ASSUME NEW n \in BufLens, FillBuffer(n)
      PROVE  IndInv'
  <2> USE <1>1 DEF FillBuffer
  <2>1. n \in Nat /\ pc = "idle" /\ buf = <<>>
    BY BufLensAssumption DEF BufferIsFresh
  <2>2. WindowIsHistory' /\ ResumeAddressFits' /\ DeliveredIsDecoded' /\ BufferIsFresh'
    BY <2>1 DEF WindowIsHistory, ResumeAddressFits, DeliveredIsDecoded, BufferIsFresh, CopyFromHistory
  <2>3. CASE copy_progress.count = 0
    BY <2>1, <2>2, <2>3
    DEF TypeOK, NoCommandOverPendingCopy, CopyStaysInBuffer, ResumeFits
  <2>4. CASE copy_progress.count # 0
    <3>1. copy_progress.addr \in Nat /\ copy_progress.count \in Nat
      BY DEF TypeOK, Progress
    <3>2. CopyFromHistory(copy_progress.addr, copy_progress.count, n)
      BY <2>4
    <3>3. /\ pc' = "copy"
          /\ iter' \in [index: Nat, left: Nat, resume: Progress]
          /\ iter'.left <= n
          /\ iter'.resume.count > 0 => iter'.left = n
          /\ Addressing = "pos" /\ FitsOneCopy([addr |-> copy_progress.addr, count |-> copy_progress.count])
              => FitsOneCopy(iter'.resume)
      BY <2>1, <3>1, <3>2, CopyFromHistoryFits
    <3>4. ResumeFits'
      BY <3>3 DEF ResumeFits, ResumeAddressFits, FitsOneCopy
    <3> QED BY <2>1, <2>2, <3>3, <3>4
      DEF TypeOK, NoCommandOverPendingCopy, CopyStaysInBuffer
  <2> QED BY <2>3, <2>4
<1>2. ASSUME NEW v \in Byte, Literal(v)
      PROVE  IndInv'
  <2> USE <1>2 DEF Literal
  <2>1. /\ ringbuf' \in RingBuffer
        /\ room' \in Nat /\ room' = room - 1
        /\ buf' \in Seq(Byte) /\ hist' \in Seq(Byte)
        /\ WindowIsHistory' /\ DeliveredIsDecoded'
    BY EmitKeeps
  <2>2. TypeOK'
    BY <2>1 DEF TypeOK
  <2> QED BY <2>1, <2>2
    DEF NoCommandOverPendingCopy, CopyStaysInBuffer, ResumeAddressFits, BufferIsFresh, ResumeFits, TypeOK
<1>3. ASSUME NEW addr \in Addrs, NEW count \in Counts, Copy(addr, count)
      PROVE  IndInv'
  <2>0. /\ pc = "loop" /\ room > 0 /\ CopyFromHistory(addr, count, room)
        /\ UNCHANGED <<ringbuf, copy_progress, room, buf, out, hist, failed>>
    BY <1>3, CopyKeepsBuffer
  <2> USE <2>0
  <2>1. addr \in Nat /\ count \in Nat /\ room \in Nat
    BY AddrsAssumption, CountsAssumption DEF TypeOK
  <2>2. /\ pc' = "copy"
        /\ iter' \in [index: Nat, left: Nat, resume: Progress]
        /\ iter'.left <= room
        /\ iter'.resume.count > 0 => iter'.left = room
        /\ Addressing = "pos" /\ FitsOneCopy([addr |-> addr, count |-> count])
             => FitsOneCopy(iter'.resume)
    BY <2>1, CopyFromHistoryFits
  <2>3. Addressing = "pos" => FitsOneCopy([addr |-> addr, count |-> count])
    BY <2>1, AddrsAssumption, NAssumption DEF FitsOneCopy, Index
  <2> QED BY <2>1, <2>2, <2>3
    DEF TypeOK, WindowIsHistory, NoCommandOverPendingCopy, CopyStaysInBuffer,
        ResumeAddressFits, DeliveredIsDecoded, BufferIsFresh, ResumeFits
<1>4. ASSUME HistoryNext
      PROVE  IndInv'
  <2> USE <1>4 DEF HistoryNext
  <2>1. iter.left \in Nat /\ iter.left <= room /\ room > 0 /\ iter.index \in Nat
    BY DEF TypeOK, CopyStaysInBuffer
  <2>2. ByteAt(ringbuf, iter.index) \in Byte
    BY <2>1, MaskInIndex DEF TypeOK, RingBuffer, ByteAt
  <2>3. /\ ringbuf' \in RingBuffer
        /\ room' \in Nat /\ room' = room - 1
        /\ buf' \in Seq(Byte) /\ hist' \in Seq(Byte)
        /\ WindowIsHistory' /\ DeliveredIsDecoded'
    BY <2>1, <2>2, EmitKeeps
  <2>4. /\ iter' \in [index: Nat, left: Nat, resume: Progress]
        /\ iter'.left = iter.left - 1 /\ iter'.resume = iter.resume
    <3>1. iter.left - 1 \in Nat /\ iter.index + 1 \in Nat
      BY <2>1
    <3>2. iter \in [index: Nat, left: Nat, resume: Progress]
      BY DEF TypeOK
    <3>3. iter' = [iter EXCEPT !.index = iter.index + 1, !.left = iter.left - 1]
      OBVIOUS
    <3> HIDE <1>4 DEF HistoryNext
    <3> QED BY <3>1, <3>2, <3>3
  <2>5. TypeOK'
    BY <2>3, <2>4 DEF TypeOK
  <2>6. CopyStaysInBuffer'
    BY <2>1, <2>3, <2>4 DEF CopyStaysInBuffer, TypeOK
  <2> QED BY <2>3, <2>4, <2>5, <2>6
    DEF NoCommandOverPendingCopy, ResumeAddressFits, BufferIsFresh, ResumeFits, FitsOneCopy
<1>5. ASSUME CopyEnd
      PROVE  IndInv'
  <2> USE <1>5 DEF CopyEnd
  <2>1. TypeOK'
    BY DEF TypeOK, NoIter, NoCopy, Progress
  <2>2. NoCommandOverPendingCopy'
    BY DEF NoCommandOverPendingCopy, CopyStaysInBuffer, TypeOK, Progress
  <2>3. ResumeAddressFits'
    BY DEF ResumeAddressFits, ResumeFits, FitsOneCopy
  <2> QED BY <2>1, <2>2, <2>3
    DEF WindowIsHistory, CopyStaysInBuffer, DeliveredIsDecoded, BufferIsFresh, ResumeFits
<1>6. ASSUME Return
      PROVE  IndInv'
  <2> USE <1>6 DEF Return
  <2>1. out \in Seq(Byte) /\ buf \in Seq(Byte) /\ Prefill \in Seq(Byte)
    BY PrefillType DEF TypeOK
  <2>2. TypeOK'
    BY <2>1 DEF TypeOK
  <2>3. DeliveredIsDecoded'
    <3>1. (Prefill \o out) \o buf = Prefill \o (out \o buf)
      BY <2>1, ConcatAssociative
    <3>2. Prefill \o (out \o buf) \in Seq(Byte)
      BY <2>1, ConcatProperties
    <3>3. (Prefill \o (out \o buf)) \o <<>> = Prefill \o (out \o buf)
      BY <3>2, ConcatEmptySeq
    <3> QED BY <3>1, <3>3 DEF DeliveredIsDecoded
  <2> QED BY <2>2, <2>3
    DEF WindowIsHistory, NoCommandOverPendingCopy, CopyStaysInBuffer,
        ResumeAddressFits, BufferIsFresh, ResumeFits
<1>7. ASSUME Fail
      PROVE  IndInv'
  BY <1>7
  DEF Fail, TypeOK, WindowIsHistory, NoCommandOverPendingCopy, CopyStaysInBuffer,
      ResumeAddressFits, DeliveredIsDecoded, BufferIsFresh, ResumeFits
<1>8. CASE UNCHANGED vars
  BY <1>8
  DEF vars, TypeOK, WindowIsHistory, NoCommandOverPendingCopy, CopyStaysInBuffer,
      ResumeAddressFits, DeliveredIsDecoded, BufferIsFresh, ResumeFits
<1> QED BY <1>1, <1>2, <1>3, <1>4, <1>5, <1>6, <1>7, <1>8 DEF Next

-----------------------------------------------------------------------------
(* The invariant of the specification, and the properties it contains. *)
THEOREM Invariance == Spec => []IndInv
<1>1. Init => IndInv
  BY InitEstablishes
<1>2. IndInv /\ [Next]_vars => IndInv'
  BY NextPreserves
<1> QED BY <1>1, <1>2, PTL DEF Spec

(* Every variable keeps its type: in particular push never leaves the      *)
(* cursor outside the buffer and room never goes below zero.               *)
THEOREM TypeCorrect == Spec => []TypeOK
<1>1. IndInv => TypeOK
  BY DEF IndInv
<1> QED BY <1>1, Invariance, PTL

(* The ring buffer always holds the last N bytes decoded, whatever the     *)
(* size of the window and however long the copies are.                     *)
THEOREM WindowCorrect == Spec => []WindowIsHistory
<1>1. IndInv => WindowIsHistory
  BY DEF IndInv
<1> QED BY <1>1, Invariance, PTL

(* copy_progress is never overwritten by a new command while a copy is     *)
(* unfinished.                                                             *)
THEOREM PendingCopyIsSafe == Spec => []NoCommandOverPendingCopy
<1>1. IndInv => NoCommandOverPendingCopy
  BY DEF IndInv
<1> QED BY <1>1, Invariance, PTL

(* copy_from_history never writes past the caller's buffer. *)
THEOREM CopyIsBounded == Spec => []CopyStaysInBuffer
<1>1. IndInv => CopyStaysInBuffer
  BY DEF IndInv
<1> QED BY <1>1, Invariance, PTL

(* The saved position of lzs and lz5 never exceeds the window by more than *)
(* one copy, so that it fits its u16.                                      *)
THEOREM ResumeAddressIsBounded == Spec => []ResumeAddressFits
<1>1. IndInv => ResumeAddressFits
  BY DEF IndInv
<1> QED BY <1>1, Invariance, PTL

(* As long as no call fails, callers get every decoded byte once and in    *)
(* order.                                                                  *)
THEOREM DeliveryIsExact == Spec => []DeliveredIsDecoded
<1>1. IndInv => DeliveredIsDecoded
  BY DEF IndInv
<1> QED BY <1>1, Invariance, PTL

-----------------------------------------------------------------------------
(* LzDecoder implements LzHistory.  Congruences of the mask. *)

(* The only multiple of N within one round of 0 is 0.                      *)
LEMMA MultipleNearZero == \A d \in Int : -N < N * d /\ N * d < N => d = 0
<1> SUFFICES ASSUME NEW d \in Int, -N < N * d, N * d < N
             PROVE  d = 0
  OBVIOUS
<1>1. CASE d >= 1
  <2>1. N * d >= N * 1
    BY <1>1, NAssumption
  <2> QED BY <2>1, NAssumption
<1>2. CASE d <= -1
  <2>1. N * d <= N * (-1)
    BY <1>2, NAssumption
  <2> QED BY <2>1, NAssumption
<1> QED BY <1>1, <1>2

(* An index is its mask and a number of whole rounds.                      *)
LEMMA Rounds == \A x \in Int : \E p \in Int : x = N * p + Mask(x)
<1> SUFFICES ASSUME NEW x \in Int
             PROVE  \E p \in Int : x = N * p + Mask(x)
  OBVIOUS
<1>1. x \div N \in Int /\ x = N * (x \div N) + Mask(x)
  BY NAssumption DEF Mask
<1> QED BY <1>1

(* Whole rounds do not change a masked index. *)
LEMMA MaskShift == \A x \in Int, k \in Int : Mask(x + N * k) = Mask(x)
<1> SUFFICES ASSUME NEW x \in Int, NEW k \in Int
             PROVE  Mask(x + N * k) = Mask(x)
  OBVIOUS
<1>1. N \in Int /\ N * k \in Int
  BY NAssumption
<1>2. PICK y \in Int : y = x + N * k
  BY <1>1
<1>3. PICK p \in Int : x = N * p + Mask(x)
  BY Rounds
<1>4. PICK q \in Int : y = N * q + Mask(y)
  BY Rounds
<1>5. Mask(x) \in 0..N-1 /\ Mask(y) \in 0..N-1
  BY NAssumption DEF Mask
<1>6. N * (q - p - k) = Mask(x) - Mask(y)
  <2>1. N * (q - p - k) = N * q - N * p - N * k
    BY <1>1
  <2>2. N * q \in Int /\ N * p \in Int
    BY <1>1
  <2> QED BY <1>1, <1>2, <1>3, <1>4, <1>5, <2>1, <2>2
<1>7. q - p - k = 0
  <2>1. q - p - k \in Int
    OBVIOUS
  <2> QED BY <1>1, <1>5, <1>6, <2>1, MultipleNearZero
<1>8. N * (q - p - k) = 0
  BY <1>1, <1>7
<1> QED BY <1>1, <1>2, <1>5, <1>6, <1>8

(* Masking a summand does not change a masked sum.                         *)
LEMMA MaskAdd == \A x \in Int, y \in Int : Mask(Mask(x) + y) = Mask(x + y)
<1> SUFFICES ASSUME NEW x \in Int, NEW y \in Int
             PROVE  Mask(Mask(x) + y) = Mask(x + y)
  OBVIOUS
<1>1. PICK p \in Int : x = N * p + Mask(x)
  BY Rounds
<1>2. Mask(x) \in Int /\ N * p \in Int /\ N * (-p) = -(N * p) /\ x + y \in Int /\ -p \in Int
  BY NAssumption DEF Mask
<1>3. Mask(x) + y = (x + y) + N * (-p)
  BY <1>1, <1>2
<1> QED BY <1>2, <1>3, MaskShift

(* Masking what is subtracted does not change a masked difference.         *)
LEMMA MaskSub == \A x \in Int, y \in Int : Mask(y - Mask(x)) = Mask(y - x)
<1> SUFFICES ASSUME NEW x \in Int, NEW y \in Int
             PROVE  Mask(y - Mask(x)) = Mask(y - x)
  OBVIOUS
<1>1. PICK p \in Int : x = N * p + Mask(x)
  BY Rounds
<1>2. Mask(x) \in Int /\ N * p \in Int /\ y - x \in Int
  BY NAssumption DEF Mask
<1>3. y - Mask(x) = (y - x) + N * p
  BY <1>1, <1>2
<1> QED BY <1>2, <1>3, MaskShift

-----------------------------------------------------------------------------
(* Distances. *)

(* The cursor is an index of the ring buffer.                              *)
LEMMA CursorType == TypeOK => ringbuf.cursor \in Index /\ ringbuf.cursor \in Int
BY DEF TypeOK, RingBuffer, Index

(* A push moves the cursor and the iterator by one slot each, so that the  *)
(* iterator stays at the same distance from the last byte.                 *)
LEMMA DistanceStep ==
  ASSUME TypeOK, NEW b, ringbuf' = Push(ringbuf, b), NEW idx \in Int
  PROVE  Mask(ringbuf'.cursor - 1 - (idx + 1)) = Distance(idx)
<1>1. ringbuf.cursor \in Int /\ ringbuf'.cursor = Mask(ringbuf.cursor + 1)
  BY CursorType DEF Push
<1>2. Mask(ringbuf.cursor + 1) \in Int
  BY <1>1, MaskInIndex DEF Index
<1>3. Mask(Mask(ringbuf.cursor + 1) + (-2 - idx)) = Mask((ringbuf.cursor + 1) + (-2 - idx))
  <2>1. ringbuf.cursor + 1 \in Int /\ -2 - idx \in Int
    BY <1>1
  <2> QED BY ONLY <2>1, MaskAdd, Zenon
<1>4. Mask(ringbuf.cursor + 1) - 1 - (idx + 1) = Mask(ringbuf.cursor + 1) + (-2 - idx)
  BY <1>2
<1>5. (ringbuf.cursor + 1) + (-2 - idx) = ringbuf.cursor - 1 - idx
  BY <1>1
<1> QED BY <1>1, <1>3, <1>4, <1>5 DEF Distance

(* The byte under the iterator is the one that its distance names in the   *)
(* history, also while a copy reads what it has just written.              *)
LEMMA CopySource ==
  ASSUME TypeOK, WindowIsHistory, NEW idx \in Int
  PROVE  ByteAt(ringbuf, idx) = hist[Len(hist) - Distance(idx)]
<1>1. ringbuf.cursor \in Int /\ ringbuf.cursor - 1 - idx \in Int
  BY CursorType
<1>2. PICK d \in 0..N-1 : d = Distance(idx)
  BY <1>1, MaskInIndex DEF Distance, Index
<1>3. N - d \in 1..N /\ Len(hist) \in Nat /\ N \in Nat
  BY <1>2, NAssumption DEF TypeOK
<1>4. ByteAt(ringbuf, ringbuf.cursor + (N - d) - 1) = hist[Len(hist) - N + (N - d)]
  BY <1>3 DEF WindowIsHistory
<1>5. Len(hist) - N + (N - d) = Len(hist) - d
  BY <1>3
<1>6. Mask(ringbuf.cursor + (N - d) - 1) = Mask(idx)
  <2>1. ringbuf.cursor + (N - d) - 1 = (ringbuf.cursor - 1 - d) + N * 1
    BY <1>1, <1>3
  <2>2. Mask((ringbuf.cursor - 1 - d) + N * 1) = Mask(ringbuf.cursor - 1 - d)
    BY <1>1, MaskShift
  <2>3. Mask((ringbuf.cursor - 1) - Mask(ringbuf.cursor - 1 - idx))
          = Mask((ringbuf.cursor - 1) - (ringbuf.cursor - 1 - idx))
    <3>1. ringbuf.cursor - 1 \in Int /\ ringbuf.cursor - 1 - idx \in Int
      BY <1>1
    <3> QED BY ONLY <3>1, MaskSub, Zenon
  <2>4. (ringbuf.cursor - 1) - (ringbuf.cursor - 1 - idx) = idx
    BY <1>1
  <2> QED BY <1>2, <2>1, <2>2, <2>3, <2>4 DEF Distance
<1> QED BY <1>2, <1>4, <1>5, <1>6 DEF ByteAt

(* The iterator that copy_from_history makes is at the distance that the   *)
(* command names.                                                          *)
AddressDistance(addr) ==
  IF Addressing = "offset" THEN Mask(addr) ELSE Distance(addr)

(* A copy's first index is at the distance that the command names.         *)
LEMMA HistoryIndexDistance ==
  ASSUME TypeOK, NEW addr \in Nat
  PROVE  /\ Distance(HistoryIndex(ringbuf, addr)) = AddressDistance(addr)
         /\ HistoryIndex(ringbuf, addr) \in Int
<1>1. ringbuf.cursor \in Int /\ Mask(addr) \in 0..N-1 /\ N \in Nat
  BY CursorType, MaskInIndex, NAssumption DEF Index
<1>2. CASE Addressing = "offset"
  <2>1. ringbuf.cursor - 1 - (ringbuf.cursor + N - (Mask(addr) + 1)) = Mask(addr) + N * (-1)
    BY <1>1
  <2>2. Mask(addr) \in Int /\ -1 \in Int
    BY <1>1
  <2>3. Mask(Mask(addr) + N * (-1)) = Mask(Mask(addr))
    BY ONLY <2>2, MaskShift, Zenon
  <2>4. Mask(Mask(addr)) = Mask(addr)
    BY <1>1, MaskOneRound
  <2> QED BY <1>1, <1>2, <2>1, <2>3, <2>4
    DEF HistoryIndex, IterFromOffset, Distance, AddressDistance
<1>3. CASE Addressing # "offset"
  <2>1. ringbuf.cursor - 1 \in Int /\ addr \in Int
    BY <1>1
  <2>2. Mask((ringbuf.cursor - 1) - Mask(addr)) = Mask((ringbuf.cursor - 1) - addr)
    BY ONLY <2>1, MaskSub, Zenon
  <2> QED BY <1>1, <1>3, <2>2
    DEF HistoryIndex, IterFromPos, Distance, AddressDistance
<1> QED BY <1>2, <1>3

-----------------------------------------------------------------------------
(* What the refinement needs besides IndInv: the address that an           *)
(* interrupted copy will be resumed from names the byte that the copy loop *)
(* will have reached by then.                                              *)
ResumePointsOn ==
  pc = "copy" /\ iter.resume.count > 0 =>
    IF Addressing = "offset"
    THEN Mask(iter.resume.addr) = Distance(iter.index)
    ELSE Mask(iter.resume.addr) = Mask(iter.index + iter.left)

(* copy_from_history sets the copy loop up that way, and splits the copy   *)
(* into the part it does and the part it leaves.                           *)
LEMMA CopyFromHistoryPoints ==
  ASSUME TypeOK, NEW addr \in Nat, NEW count \in Nat, NEW slots \in Nat,
         CopyFromHistory(addr, count, slots), UNCHANGED ringbuf
  PROVE  /\ ResumePointsOn'
         /\ Mask(ringbuf'.cursor - 1 - iter'.index) = AddressDistance(addr)
         /\ iter'.left + iter'.resume.count = count
<1> USE DEF CopyFromHistory
<1>1. RealCount(slots, count) \in Nat /\ RealCount(slots, count) <= count
  BY DEF RealCount
<1>2. /\ iter'.index = HistoryIndex(ringbuf, addr)
      /\ iter'.left = RealCount(slots, count)
      /\ iter'.resume = Resume(addr, slots, count)
  OBVIOUS
<1>3. Distance(HistoryIndex(ringbuf, addr)) = AddressDistance(addr)
  BY HistoryIndexDistance
<1>4. Mask(ringbuf'.cursor - 1 - iter'.index) = AddressDistance(addr)
  BY <1>2, <1>3 DEF Distance
<1>5. iter'.left + iter'.resume.count = count
  BY <1>1, <1>2 DEF Resume, NoCopy
<1>6. ResumePointsOn'
  <2>1. SUFFICES ASSUME iter'.resume.count > 0
                 PROVE  IF Addressing = "offset"
                        THEN Mask(iter'.resume.addr) = Mask(ringbuf'.cursor - 1 - iter'.index)
                        ELSE Mask(iter'.resume.addr) = Mask(iter'.index + iter'.left)
    BY DEF ResumePointsOn, Distance
  <2>2. iter'.resume.addr
          = IF Addressing = "offset" THEN addr ELSE addr + RealCount(slots, count)
    BY <1>1, <1>2, <2>1 DEF Resume, NoCopy
  <2>3. CASE Addressing = "offset"
    BY <1>4, <2>2, <2>3 DEF AddressDistance
  <2>4. CASE Addressing # "offset"
    <3>1. addr \in Int /\ RealCount(slots, count) \in Int
      BY <1>1
    <3>2. Mask(Mask(addr) + RealCount(slots, count)) = Mask(addr + RealCount(slots, count))
      BY ONLY <3>1, MaskAdd, Zenon
    <3> QED BY <1>2, <2>2, <2>4, <3>2 DEF HistoryIndex, IterFromPos
  <2> QED BY <2>3, <2>4
<1> QED BY <1>4, <1>5, <1>6

(* One turn of the copy loop. *)
LEMMA HistoryNextPoints ==
  ASSUME TypeOK, ResumePointsOn, HistoryNext
  PROVE  /\ ResumePointsOn'
         /\ Mask(ringbuf'.cursor - 1 - iter'.index) = Distance(iter.index)
         /\ iter'.left = iter.left - 1 /\ iter'.resume = iter.resume
<1> USE DEF HistoryNext
<1>1. /\ iter \in [index: Nat, left: Nat, resume: Progress]
      /\ iter.index \in Int /\ iter.left \in Int
  BY DEF TypeOK
<1>2. iter'.index = iter.index + 1 /\ iter'.left = iter.left - 1 /\ iter'.resume = iter.resume
  BY <1>1
<1>3. Mask(ringbuf'.cursor - 1 - iter'.index) = Distance(iter.index)
  BY <1>1, <1>2, DistanceStep DEF Emit
<1>4. iter'.index + iter'.left = iter.index + iter.left
  BY <1>1, <1>2
<1>5. ResumePointsOn'
  BY <1>2, <1>3, <1>4 DEF ResumePointsOn, Distance
<1> QED BY <1>2, <1>3, <1>5

(* No step of fill_buffer breaks ResumePointsOn.                           *)
LEMMA ResumeKept == IndInv /\ ResumePointsOn /\ [Next]_vars => ResumePointsOn'
<1> SUFFICES ASSUME IndInv, ResumePointsOn, [Next]_vars
             PROVE  ResumePointsOn'
  OBVIOUS
<1>0. TypeOK
  BY DEF IndInv
<1>1. ASSUME NEW n \in BufLens, FillBuffer(n)
      PROVE  ResumePointsOn'
  <2>1. CASE copy_progress.count = 0
    BY <1>1, <2>1 DEF FillBuffer, ResumePointsOn
  <2>2. CASE copy_progress.count # 0
    <3>1. copy_progress.addr \in Nat /\ copy_progress.count \in Nat /\ n \in Nat
      BY <1>0, BufLensAssumption DEF TypeOK, Progress
    <3>2. CopyFromHistory(copy_progress.addr, copy_progress.count, n) /\ UNCHANGED ringbuf
      BY <1>1, <2>2 DEF FillBuffer
    <3> QED BY <1>0, <3>1, <3>2, CopyFromHistoryPoints
  <2> QED BY <2>1, <2>2
<1>2. ASSUME NEW v \in Byte, Literal(v)
      PROVE  ResumePointsOn'
  BY <1>2 DEF Literal, ResumePointsOn
<1>3. ASSUME NEW addr \in Addrs, NEW count \in Counts, Copy(addr, count)
      PROVE  ResumePointsOn'
  <2>1. addr \in Nat /\ count \in Nat /\ room \in Nat
    BY <1>0, AddrsAssumption, CountsAssumption DEF TypeOK
  <2>2. CopyFromHistory(addr, count, room) /\ UNCHANGED ringbuf
    BY <1>0, <1>3, CopyKeepsBuffer
  <2> QED BY <1>0, <2>1, <2>2, CopyFromHistoryPoints
<1>4. ASSUME HistoryNext
      PROVE  ResumePointsOn'
  BY <1>0, <1>4, HistoryNextPoints
<1>5. CASE CopyEnd
  BY <1>5 DEF CopyEnd, ResumePointsOn
<1>6. CASE Return
  BY <1>6 DEF Return, ResumePointsOn
<1>7. CASE Fail
  BY <1>7 DEF Fail, ResumePointsOn
<1>8. CASE UNCHANGED vars
  BY <1>8 DEF vars, ResumePointsOn, Distance
<1> QED BY <1>1, <1>2, <1>3, <1>4, <1>5, <1>6, <1>7, <1>8 DEF Next

-----------------------------------------------------------------------------
(* Every step of the decoder is a step of LzHistory or leaves its          *)
(* variables as they are.                                                  *)
AbstractStep == [Abstract!Next]_(Abstract!vars)

(* A new decoder is an initial state of LzHistory.                         *)
LEMMA InitRefines == Init => Abstract!Init
BY DEF Init, Abstract!Init, Abstract!Idle, PendingCopy, NoCopy

(* The calls that resume a copy, save one or return only move the pending  *)
(* copy from one variable to another.                                      *)
LEMMA FillBufferRefines ==
  ASSUME TypeOK, NEW n \in BufLens, FillBuffer(n)
  PROVE  UNCHANGED Abstract!vars
<1> USE DEF FillBuffer
<1>1. CASE copy_progress.count = 0
  BY <1>1 DEF PendingCopy, Abstract!vars
<1>2. CASE copy_progress.count # 0
  <2>1. copy_progress.addr \in Nat /\ copy_progress.count \in Nat /\ n \in Nat
    BY BufLensAssumption DEF TypeOK, Progress
  <2>2. CopyFromHistory(copy_progress.addr, copy_progress.count, n) /\ UNCHANGED ringbuf
    BY <1>2
  <2>3. /\ Mask(ringbuf'.cursor - 1 - iter'.index) = AddressDistance(copy_progress.addr)
        /\ iter'.left + iter'.resume.count = copy_progress.count
    BY <2>1, <2>2, CopyFromHistoryPoints
  <2>4. pc = "idle" /\ pc' = "copy" /\ hist' = hist
    BY <2>2 DEF CopyFromHistory
  <2>5. PendingCopy = [dist |-> AddressDistance(copy_progress.addr), left |-> copy_progress.count]
    BY <1>2, <2>4 DEF PendingCopy, AddressDistance
  <2>6. PendingCopy' = [dist |-> AddressDistance(copy_progress.addr), left |-> copy_progress.count]
    BY <1>2, <2>3, <2>4 DEF PendingCopy, Distance
  <2> QED BY <2>4, <2>5, <2>6 DEF Abstract!vars
<1> QED BY <1>1, <1>2

(* Saving or finishing a copy is a stuttering step.                        *)
LEMMA CopyEndRefines ==
  ASSUME TypeOK, ResumePointsOn, CopyEnd
  PROVE  UNCHANGED Abstract!vars
<1> USE DEF CopyEnd
<1>1. /\ iter.resume.count \in Nat /\ iter.left = 0 /\ iter.resume.addr \in Int
      /\ iter.index \in Int /\ ringbuf.cursor - 1 \in Int
  BY CursorType DEF TypeOK, Progress
<1>2. CASE iter.resume.count = 0
  BY <1>1, <1>2 DEF PendingCopy, Abstract!vars
<1>3. CASE iter.resume.count # 0
  <2>1. AddressDistance(iter.resume.addr) = Distance(iter.index)
    <3>1. CASE Addressing = "offset"
      BY <1>1, <1>3, <3>1 DEF ResumePointsOn, AddressDistance
    <3>2. CASE Addressing # "offset"
      <4>1. Mask(iter.resume.addr) = Mask(iter.index)
        BY <1>1, <1>3, <3>2 DEF ResumePointsOn
      <4>2. Mask((ringbuf.cursor - 1) - Mask(iter.resume.addr))
              = Mask((ringbuf.cursor - 1) - iter.resume.addr)
        BY ONLY <1>1, MaskSub, Zenon
      <4>3. Mask((ringbuf.cursor - 1) - Mask(iter.index)) = Mask((ringbuf.cursor - 1) - iter.index)
        BY ONLY <1>1, MaskSub, Zenon
      <4> QED BY <3>2, <4>1, <4>2, <4>3 DEF AddressDistance, Distance
    <3> QED BY <3>1, <3>2
  <2>2. PendingCopy = [dist |-> Distance(iter.index), left |-> iter.resume.count]
    BY <1>1, <1>3 DEF PendingCopy
  <2>3. PendingCopy' = [dist |-> AddressDistance(iter.resume.addr), left |-> iter.resume.count]
    BY <1>1, <1>3 DEF PendingCopy, AddressDistance, Distance
  <2> QED BY <2>1, <2>2, <2>3 DEF Abstract!vars
<1> QED BY <1>2, <1>3

(* A literal is a step of LzHistory.                                       *)
LEMMA LiteralRefines ==
  ASSUME TypeOK, NoCommandOverPendingCopy, NEW v \in Byte, Literal(v)
  PROVE  Abstract!Literal(v)
BY DEF Literal, NoCommandOverPendingCopy, Emit, PendingCopy, Abstract!Literal, Abstract!Idle

(* Beginning a copy is a step of LzHistory.                                *)
LEMMA CopyRefines ==
  ASSUME TypeOK, NoCommandOverPendingCopy,
         NEW addr \in Addrs, NEW count \in Counts, Copy(addr, count)
  PROVE  AddressDistance(addr) \in 0..N-1 /\ Abstract!Copy(AddressDistance(addr), count)
<1>0. /\ pc = "loop" /\ room > 0 /\ Len(hist) < N + MaxOut
      /\ CopyFromHistory(addr, count, room)
      /\ UNCHANGED <<ringbuf, copy_progress, room, buf, out, hist, failed>>
  BY CopyKeepsBuffer
<1>1. addr \in Nat /\ count \in Nat /\ count # 0 /\ room \in Nat
  BY AddrsAssumption, CountsAssumption DEF TypeOK
<1>2. CopyFromHistory(addr, count, room) /\ UNCHANGED ringbuf /\ hist' = hist
  BY <1>0
<1>3. /\ Mask(ringbuf'.cursor - 1 - iter'.index) = AddressDistance(addr)
      /\ iter'.left + iter'.resume.count = count
  BY <1>1, <1>2, CopyFromHistoryPoints
<1>4. AddressDistance(addr) \in 0..N-1
  <2>1. addr \in Int /\ ringbuf.cursor - 1 - addr \in Int
    BY <1>1, CursorType
  <2>2. Mask(addr) \in Index /\ Mask(ringbuf.cursor - 1 - addr) \in Index
    BY ONLY <2>1, MaskInIndex, Zenon
  <2> QED BY <2>2 DEF AddressDistance, Distance, Index
<1>5. PendingCopy = Abstract!Idle
  BY <1>0 DEF PendingCopy, NoCommandOverPendingCopy, Abstract!Idle
<1>6. PendingCopy' = [dist |-> AddressDistance(addr), left |-> count]
  BY <1>1, <1>2, <1>3 DEF PendingCopy, Distance, CopyFromHistory
<1> QED BY <1>0, <1>2, <1>4, <1>5, <1>6 DEF Abstract!Copy

(* One copied byte is a step of LzHistory.                                 *)
LEMMA HistoryNextRefines ==
  ASSUME TypeOK, WindowIsHistory, ResumePointsOn, HistoryNext
  PROVE  Abstract!CopyByte
<1> USE DEF HistoryNext
<1>1. iter.index \in Int /\ iter.left \in Nat /\ iter.left > 0 /\ iter.resume.count \in Nat
  BY DEF TypeOK, Progress
<1>2. /\ Mask(ringbuf'.cursor - 1 - iter'.index) = Distance(iter.index)
      /\ iter'.left = iter.left - 1 /\ iter'.resume = iter.resume
  BY HistoryNextPoints
<1>3. PendingCopy = [dist |-> Distance(iter.index), left |-> iter.left + iter.resume.count]
  BY <1>1 DEF PendingCopy
<1>4. hist' = Append(hist, hist[Len(hist) - PendingCopy.dist])
  BY <1>1, <1>3, CopySource DEF Emit
<1>5. PendingCopy' = IF iter.left + iter.resume.count = 1
                     THEN Abstract!Idle
                     ELSE [PendingCopy EXCEPT !.left = @ - 1]
  <2>1. PendingCopy' = IF iter'.left + iter'.resume.count = 0
                       THEN [dist |-> 0, left |-> 0]
                       ELSE [dist |-> Mask(ringbuf'.cursor - 1 - iter'.index),
                             left |-> iter'.left + iter'.resume.count]
    BY DEF PendingCopy, Distance
  <2>2. iter'.left + iter'.resume.count = (iter.left + iter.resume.count) - 1
    BY <1>1, <1>2
  <2> QED BY <1>1, <1>2, <1>3, <2>1, <2>2 DEF Abstract!Idle
<1>6. PendingCopy.left > 0 /\ PendingCopy.left = iter.left + iter.resume.count
  BY <1>1, <1>3
<1> QED BY <1>4, <1>5, <1>6 DEF Abstract!CopyByte

(* Every step of fill_buffer is a step of LzHistory or a stuttering step.  *)
LEMMA StepRefines == IndInv /\ ResumePointsOn /\ [Next]_vars => AbstractStep
<1> SUFFICES ASSUME IndInv, ResumePointsOn, [Next]_vars
             PROVE  AbstractStep
  OBVIOUS
<1> USE DEF AbstractStep
<1>0. TypeOK /\ WindowIsHistory /\ NoCommandOverPendingCopy
  BY DEF IndInv
<1>1. ASSUME NEW n \in BufLens, FillBuffer(n)
      PROVE  AbstractStep
  BY <1>0, <1>1, FillBufferRefines
<1>2. ASSUME NEW v \in Byte, Literal(v)
      PROVE  AbstractStep
  BY <1>0, <1>2, LiteralRefines DEF Abstract!Next
<1>3. ASSUME NEW addr \in Addrs, NEW count \in Counts, Copy(addr, count)
      PROVE  AbstractStep
  BY <1>0, <1>3, CopyRefines DEF Abstract!Next
<1>4. CASE HistoryNext
  BY <1>0, <1>4, HistoryNextRefines DEF Abstract!Next
<1>5. CASE CopyEnd
  BY <1>0, <1>5, CopyEndRefines
<1>6. CASE Return
  BY <1>6 DEF Return, PendingCopy, Distance, Abstract!vars
<1>7. CASE Fail
  BY <1>7 DEF Fail, PendingCopy, Distance, Abstract!vars
<1>8. CASE UNCHANGED vars
  BY <1>8 DEF vars, PendingCopy, Distance, Abstract!vars
<1> QED BY <1>1, <1>2, <1>3, <1>4, <1>5, <1>6, <1>7, <1>8 DEF Next

(* The bytes decoded do not depend on the ring buffer, on how callers cut  *)
(* the output into buffers or on where copies are interrupted.             *)
THEOREM Refinement == Spec => RefinesHistory
<1>1. Init => Abstract!Init
  BY InitRefines
<1>2. Init => ResumePointsOn
  BY DEF Init, ResumePointsOn
<1>3. IndInv /\ ResumePointsOn /\ [Next]_vars => ResumePointsOn'
  BY ResumeKept
<1>4. IndInv /\ ResumePointsOn /\ [Next]_vars => AbstractStep
  BY StepRefines
<1> QED BY <1>1, <1>2, <1>3, <1>4, Invariance, PTL
  DEF Spec, RefinesHistory, Abstract!Spec, AbstractStep
=============================================================================
