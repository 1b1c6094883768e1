------------------------------- MODULE RingBuf -------------------------------
(***************************************************************************)
(* The ring buffer of src/ringbuf.rs: RingArrayBuf<N>, an array of N bytes *)
(* and a cursor, and the HistoryIter that walks the array while pushing    *)
(* every byte it yields.  A ring buffer is a record [buffer, cursor].      *)
(*                                                                         *)
(* The code masks indices with N - 1, and RingArrayBuf::default asserts    *)
(* that N is a power of two, so the mask is the remainder modulo N, also   *)
(* for the negative start positions that set_cursor receives.              *)
(***************************************************************************)
EXTENDS Integers, Sequences

CONSTANTS
  N,      \* the size of the buffer in bytes
  Byte    \* the values a byte can take

ASSUME NAssumption == N \in Nat \ {0}
ASSUME PowerOfTwo  == \E k \in 0..N : N = 2^k

Index == 0..N-1

RingBuffer == [buffer: [Index -> Byte], cursor: Index]

Mask(index) == index % N

(* Index::index: any usize is accepted and masked. *)
ByteAt(rb, index) == rb.buffer[Mask(index)]

(* RingBuffer::set_cursor *)
SetCursor(rb, pos) == [rb EXCEPT !.cursor = Mask(pos)]

(* A push whose cursor is not masked. *)
PushUnmasked(rb, byte) ==
  [buffer |-> [rb.buffer EXCEPT ![Mask(rb.cursor)] = byte],
   cursor |-> rb.cursor + 1]

(* A push that stays at the last slot instead of wrapping around. *)
PushStuckAtEnd(rb, byte) ==
  [buffer |-> [rb.buffer EXCEPT ![Mask(rb.cursor)] = byte],
   cursor |-> IF rb.cursor + 1 < N THEN rb.cursor + 1 ELSE rb.cursor]

(* RingBuffer::push: overwrites the oldest byte. *)
Push(rb, byte) ==
  [buffer |-> [rb.buffer EXCEPT ![Mask(rb.cursor)] = byte],
   cursor |-> Mask(rb.cursor + 1)]

(* iter_from_offset without the + 1: offset 0 would be the oldest byte. *)
IterFromOffsetOffByOne(rb, offset) == rb.cursor + N - Mask(offset)

(* RingBuffer::iter_from_offset: the index of the iterator it returns;     *)
(* offset 0 is the last byte pushed.                                       *)
IterFromOffset(rb, offset) == rb.cursor + N - (Mask(offset) + 1)

(* RingBuffer::iter_from_pos *)
IterFromPos(rb, pos) == Mask(pos)

(* The contents from the oldest byte to the newest one. *)
Unrolled(rb) == [i \in 1..N |-> ByteAt(rb, rb.cursor + i - 1)]
=============================================================================
