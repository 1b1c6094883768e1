----------------------------- MODULE Lz5Decoder -----------------------------
(***************************************************************************)
(* Lz5Decoder of src/decode/lz5.rs: LzDecoder with the flag bits that tell *)
(* its commands apart.  A byte of the data holds the flags of the next     *)
(* commands, lowest bit first: 1 for a literal, 0 for a copy.  Those not   *)
(* used yet are kept below an end mark, so that 1 means none is left.      *)
(* fill_buffer works on a copy of the field and stores it when it returns  *)
(* Ok.                                                                     *)
(*                                                                         *)
(* The auxiliary variables flags and kinds record, until a call fails, the *)
(* flag bits in the order of the data and the commands that were carried   *)
(* out.                                                                    *)
(***************************************************************************)
EXTENDS LzDecoder, SequencesExt

CONSTANT FlagBits   \* the flags in a byte: 8 in the code

ASSUME FlagBitsAssumption == FlagBits \in Nat \ {0}

VARIABLES
  bitmap,   \* self.bitmap
  local,    \* the variable bitmap of fill_buffer
  flags, kinds

flagVars == <<bitmap, local, flags, kinds>>
lz5Vars  == <<vars, flagVars>>

Empty == 1

(* The flags of a byte, in the order they are used. *)
BitsOf(byte) == [i \in 1..FlagBits |-> (byte \div 2^(i - 1)) % 2]

Lz5Init ==
  /\ Init
  /\ bitmap = Empty /\ local = Empty
  /\ flags = <<>> /\ kinds = <<>>

-----------------------------------------------------------------------------
Record(seq, items) == IF failed THEN seq ELSE seq \o items

(* A call resumes an interrupted copy and then takes the field. *)
Lz5FillBuffer(n) ==
  /\ FillBuffer(n)
  /\ local' = bitmap
  /\ UNCHANGED <<bitmap, flags, kinds>>

(* No flag is left: the next byte of the data has the next ones. *)
ReadFlags(byte) ==
  /\ pc = "loop" /\ room > 0
  /\ Len(hist) < N + MaxOut
  /\ local = Empty
  /\ local' = byte + 2^FlagBits
  /\ flags' = Record(flags, BitsOf(byte))
  /\ UNCHANGED vars /\ UNCHANGED <<bitmap, kinds>>

(* The command the next flag stands for.  Its flag is dropped when it has  *)
(* been carried out: nothing reads bitmap while a copy is running.         *)
Lz5Command ==
  /\ local /= Empty
  /\ IF local % 2 = 1
     THEN \E v \in Byte : Literal(v)
     ELSE \E addr \in Addrs, count \in Counts : Copy(addr, count)
  /\ local' = local \div 2
  /\ kinds' = Record(kinds, <<IF pc' = "copy" THEN 0 ELSE 1>>)
  /\ UNCHANGED <<bitmap, flags>>

(* A bitmap that is not stored. *)
BitmapForgotten == bitmap

(* What self.bitmap is when the call returns Ok. *)
BitmapStored == local

Lz5Return ==
  /\ Return
  /\ bitmap' = BitmapStored
  /\ UNCHANGED <<local, flags, kinds>>

(* The flag byte, the literal or the two bytes of a copy cannot be read.   *)
(* The flags read and used in this call are lost with the local variable.  *)
Lz5Fail ==
  /\ Fail
  /\ local' = bitmap
  /\ flags' = <<>> /\ kinds' = <<>>
  /\ UNCHANGED bitmap

Lz5Next ==
  \/ \E n \in BufLens : Lz5FillBuffer(n)
  \/ \E byte \in 0..(2^FlagBits - 1) : ReadFlags(byte)
  \/ Lz5Command
  \/ (HistoryNext \/ CopyEnd) /\ UNCHANGED flagVars
  \/ Lz5Return
  \/ Lz5Fail

Lz5Spec == Lz5Init /\ [][Lz5Next]_lz5Vars

-----------------------------------------------------------------------------
(* However callers cut the output into buffers, and wherever a copy is     *)
(* interrupted, the commands carried out are those the flags of the data   *)
(* ask for, in their order, and a byte of flags is read only when all      *)
(* earlier flags are used (lz5.rs, fill_buffer, bitmap).                   *)
CommandsFollowFlags ==
  /\ IsPrefix(kinds, flags)
  /\ Len(flags) <= Len(kinds) + FlagBits
=============================================================================
