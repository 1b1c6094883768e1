------------------------------ MODULE LzDecoder ------------------------------
(***************************************************************************)
(* The sliding-window half that the four compressed decoders share:        *)
(* fill_buffer and copy_from_history of lhv1.rs, lhv2.rs (copies addressed *)
(* by an offset from the last byte) and of lzs.rs, lz5.rs (copies          *)
(* addressed by a position in the ring buffer).  Where the next command    *)
(* comes from (bits, Huffman trees) is abstracted to a nondeterministic    *)
(* choice; reading it may fail, and then fill_buffer returns early.        *)
(*                                                                         *)
(* fill_buffer runs as a sequence of steps, named by pc:                   *)
(*   idle  between calls;                                                  *)
(*   loop  at the head of `while let Some(dst) = target.next()`;           *)
(*   copy  inside the for loop of copy_from_history.                       *)
(* The auxiliary variables hist, out and failed record the bytes pushed,   *)
(* the bytes that successful calls delivered, and whether a call failed.   *)
(***************************************************************************)
EXTENDS RingBuf

CONSTANTS
  Addressing,   \* "offset" (lh1, lh4..lh7, lhx) or "pos" (lzs, lz5)
  Addrs,        \* the offsets or positions a copy command can carry
  Counts,       \* the lengths a copy command can have
  BufLens,      \* the lengths of the buffers callers provide
  Fill,         \* the contents of the ring buffer that new() prepares
  StartOffset,  \* where new() puts the cursor: 0, -17 or -18
  MaxOut        \* bound: no new command once this many bytes are decoded

ASSUME AddressingAssumption == Addressing \in {"offset", "pos"}
ASSUME AddrsAssumption ==
  /\ Addrs \subseteq Nat
  /\ Addressing = "pos" => Addrs \subseteq Index
ASSUME CountsAssumption  == Counts \subseteq Nat \ {0}
ASSUME BufLensAssumption == BufLens \subseteq Nat
ASSUME FillAssumption    == Fill \in [Index -> Byte]
ASSUME StartAssumption   == StartOffset \in Int /\ MaxOut \in Nat

VARIABLES
  ringbuf,        \* the ring buffer
  copy_progress,  \* [addr, count] of an interrupted copy, count = 0 if none
  pc,             \* where fill_buffer is
  room,           \* target.len(): the slots of the caller's buffer to fill
  iter,           \* the copy loop: [index, left, resume]
  buf,            \* the bytes written to the caller's buffer in this call
  out,            \* auxiliary: the bytes of all successful calls
  hist,           \* auxiliary: the prefill and every byte ever pushed
  failed          \* auxiliary: some call returned an error

vars == <<ringbuf, copy_progress, pc, room, iter, buf, out, hist, failed>>

NoCopy == [addr |-> 0, count |-> 0]
NoIter == [index |-> 0, left |-> 0, resume |-> NoCopy]

-----------------------------------------------------------------------------
(* Constructors: the filled ring buffer with its cursor at StartOffset. *)
InitialRing == SetCursor([buffer |-> Fill, cursor |-> 0], StartOffset)

Prefill == Unrolled(InitialRing)

Init ==
  /\ ringbuf = InitialRing
  /\ copy_progress = NoCopy
  /\ pc = "idle" /\ room = 0 /\ iter = NoIter
  /\ buf = <<>> /\ out = <<>> /\ hist = Prefill /\ failed = FALSE

(* Writes one byte to the next slot of the buffer and pushes it. *)
Emit(byte) ==
  /\ ringbuf' = Push(ringbuf, byte)
  /\ buf'  = Append(buf, byte)
  /\ hist' = Append(hist, byte)
  /\ room' = room - 1

(* The smaller of the slots left and the bytes to copy. *)
RealCount(slots, count) == IF slots < count THEN slots ELSE count

(* The resume address of lzs and lz5 when it is not advanced. *)
ResumeAtStart(addr, slots, count) ==
  IF count = RealCount(slots, count)
  THEN NoCopy
  ELSE [addr |-> addr, count |-> count - RealCount(slots, count)]

(* The resume address advanced by the whole copy. *)
ResumePastCopy(addr, slots, count) ==
  IF count = RealCount(slots, count)
  THEN NoCopy
  ELSE [addr |-> addr + count, count |-> count - RealCount(slots, count)]

(* The copy_progress that copy_from_history leaves when the buffer has     *)
(* fewer slots than the copy has bytes.  An offset counts from the cursor, *)
(* which the copied bytes advance; a position must advance with them.      *)
Resume(addr, slots, count) ==
  IF count = RealCount(slots, count)
  THEN NoCopy
  ELSE [addr  |-> IF Addressing = "offset"
                  THEN addr
                  ELSE addr + RealCount(slots, count),
        count |-> count - RealCount(slots, count)]

HistoryIndex(rb, addr) ==
  IF Addressing = "offset" THEN IterFromOffset(rb, addr) ELSE IterFromPos(rb, addr)

(* copy_from_history(target, addr, count), up to its for loop. *)
CopyFromHistory(addr, count, slots) ==
  /\ pc' = "copy"
  /\ iter' = [index  |-> HistoryIndex(ringbuf, addr),
              left   |-> RealCount(slots, count),
              resume |-> Resume(addr, slots, count)]

(* A call that drops the interrupted copy of the previous one. *)
FillBufferForgets(n) ==
  /\ pc = "idle"
  /\ room' = n /\ buf' = <<>>
  /\ pc' = "loop"
  /\ UNCHANGED <<ringbuf, copy_progress, iter, out, hist, failed>>

(* The caller calls fill_buffer with n slots: an interrupted copy is       *)
(* resumed before any command is read.                                     *)
FillBuffer(n) ==
  /\ pc = "idle"
  /\ room' = n /\ buf' = <<>>
  /\ IF copy_progress.count = 0
     THEN pc' = "loop" /\ UNCHANGED iter
     ELSE CopyFromHistory(copy_progress.addr, copy_progress.count, n)
  /\ UNCHANGED <<ringbuf, copy_progress, out, hist, failed>>

(* A command below 0x100: a literal byte. *)
Literal(v) ==
  /\ pc = "loop" /\ room > 0
  /\ Len(hist) < N + MaxOut
  /\ Emit(v)
  /\ UNCHANGED <<copy_progress, pc, iter, out, failed>>

(* An index that leaves out the slot target.next() has already taken. *)
CopyIndexSkips(left) == Len(buf) + room - left

(* The index of the slot that target.next() has just taken, from the       *)
(* buffer's length and the slots left behind it. *)
CopyIndex(left) == Len(buf) + room - left - 1

(* A copy command.  target.next() has taken a slot, and `target` is        *)
(* rebuilt from an index.  A slot before it that was not written keeps the *)
(* byte that the caller's buffer had there; one after it is written again. *)
Copy(addr, count) ==
  LET index == CopyIndex(room - 1)
      slots == Len(buf) + room - index
  IN /\ pc = "loop" /\ room > 0
     /\ Len(hist) < N + MaxOut
     /\ CopyFromHistory(addr, count, slots)
     /\ room' = slots
     /\ \E stale \in Byte :
          buf' = [i \in 1..index |-> IF i \in DOMAIN buf THEN buf[i] ELSE stale]
     /\ UNCHANGED <<ringbuf, copy_progress, out, hist, failed>>

(* HistoryIter::next inside the for loop. *)
HistoryNext ==
  /\ pc = "copy" /\ iter.left > 0
  /\ Emit(ByteAt(ringbuf, iter.index))
  /\ iter' = [iter EXCEPT !.index = @ + 1, !.left = @ - 1]
  /\ UNCHANGED <<copy_progress, pc, out, failed>>

(* The end of copy_from_history: what is left to copy is saved. *)
CopyEnd ==
  /\ pc = "copy" /\ iter.left = 0
  /\ copy_progress' = iter.resume
  /\ pc' = "loop"
  /\ iter' = NoIter
  /\ UNCHANGED <<ringbuf, room, buf, out, hist, failed>>

(* Every slot is filled: Ok(()). *)
Return ==
  /\ pc = "loop" /\ room = 0
  /\ pc' = "idle"
  /\ out' = out \o buf
  /\ buf' = <<>>
  /\ UNCHANGED <<ringbuf, copy_progress, room, iter, hist, failed>>

(* The next command cannot be read: `?` returns the error.  The bytes      *)
(* already written in this call are lost to the caller.                    *)
Fail ==
  /\ pc = "loop" /\ room > 0
  /\ pc' = "idle"
  /\ room' = 0 /\ buf' = <<>> /\ failed' = TRUE
  /\ UNCHANGED <<ringbuf, copy_progress, iter, out, hist>>

Next ==
  \/ \E n \in BufLens : FillBuffer(n)
  \/ \E v \in Byte : Literal(v)
  \/ \E addr \in Addrs, count \in Counts : Copy(addr, count)
  \/ HistoryNext
  \/ CopyEnd
  \/ Return
  \/ Fail

Spec == Init /\ [][Next]_vars

-----------------------------------------------------------------------------
Progress == [addr: Nat, count: Nat]

TypeOK ==
  /\ ringbuf \in RingBuffer
  /\ copy_progress \in Progress
  /\ pc \in {"idle", "loop", "copy"}
  /\ room \in Nat
  /\ iter \in [index: Nat, left: Nat, resume: Progress]
  /\ buf \in Seq(Byte) /\ out \in Seq(Byte) /\ hist \in Seq(Byte)
  /\ failed \in BOOLEAN

(* The window is the tail of the history: read from the cursor on, the     *)
(* ring buffer holds the last N bytes pushed (ringbuf.rs, push), whatever  *)
(* the wrap-arounds and however copies overlap what they write.            *)
WindowIsHistory ==
  /\ Len(hist) >= N
  /\ \A i \in 1..N : ByteAt(ringbuf, ringbuf.cursor + i - 1) = hist[Len(hist) - N + i]

(* A saved copy can only be resumed by the next call: inside the command   *)
(* loop with slots left there is none, so reading a command never          *)
(* overwrites it (copy_from_history, copy_progress).                       *)
NoCommandOverPendingCopy ==
  pc = "loop" /\ room > 0 => copy_progress.count = 0

(* The copy loop never writes past the caller's buffer, and stops short of *)
(* its end only when the whole copy is done.                               *)
CopyStaysInBuffer ==
  pc = "copy" => /\ iter.left <= room
                 /\ iter.resume.count > 0 => iter.left = room

(* The address saved by position-addressed copies stays within the buffer  *)
(* plus one copy: the `as u16` casts of lzs.rs and lz5.rs lose nothing.    *)
ResumeAddressFits ==
  Addressing = "pos" =>
    \E m \in Counts \cup {0} :
      copy_progress.addr + copy_progress.count <= N - 1 + m

(* While no call has failed, what callers got is exactly what was decoded: *)
(* no byte is lost, duplicated or reordered at the boundaries of their     *)
(* buffers.                                                                *)
DeliveredIsDecoded == ~failed => hist = Prefill \o out \o buf

-----------------------------------------------------------------------------
(* The refinement mapping.  Distance is how far behind the last byte the   *)
(* index points.                                                           *)
Distance(index) == Mask(ringbuf.cursor - 1 - index)

PendingCopy ==
  IF pc = "copy"
  THEN IF iter.left + iter.resume.count = 0
       THEN [dist |-> 0, left |-> 0]
       ELSE [dist |-> Distance(iter.index),
             left |-> iter.left + iter.resume.count]
  ELSE IF copy_progress.count = 0
       THEN [dist |-> 0, left |-> 0]
       ELSE [dist |-> IF Addressing = "offset"
                      THEN Mask(copy_progress.addr)
                      ELSE Distance(copy_progress.addr),
             left |-> copy_progress.count]

Abstract == INSTANCE LzHistory WITH pending <- PendingCopy

(* The bytes decoded do not depend on how callers cut the output into      *)
(* buffers: every behaviour is one of the unbuffered specification.        *)
RefinesHistory == Abstract!Spec
=============================================================================
