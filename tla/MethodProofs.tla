---------------------------- MODULE MethodProofs ----------------------------
(***************************************************************************)
(* Proofs about the two components that say where LzDecoder's commands     *)
(* come from: Lhv2Decoder (blocks of Huffman codes) and Lz5Decoder (flag   *)
(* bits).  Both only restrict LzDecoder's commands, so that everything     *)
(* LzDecoderProofs proves of Spec holds of them too.                       *)
(***************************************************************************)
EXTENDS Lhv2Decoder, Lz5Decoder, LzDecoderProofs

-----------------------------------------------------------------------------
(* Lhv2Decoder. *)

(* A step of the block decoder is a step of fill_buffer or, when it reads  *)
(* a tree, changes nothing that fill_buffer works on.                      *)
LEMMA BlockStep == [BlockNext]_allVars => [Next]_vars
<1> SUFFICES ASSUME [BlockNext]_allVars PROVE [Next]_vars
  OBVIOUS
<1>1. CASE BeginNewBlock \/ ReadTempTree \/ ReadCommandTree \/ ReadOffsetTree
  BY <1>1 DEF BeginNewBlock, ReadTempTree, ReadCommandTree, ReadOffsetTree
<1>2. CASE NewBlockFails
  BY <1>2 DEF NewBlockFails, Next
<1>3. CASE Command
  BY <1>3 DEF Command, Next
<1>4. CASE Silent
  BY <1>4 DEF Silent, Next
<1>5. CASE Ended \/ UNCHANGED allVars
  BY <1>5 DEF Ended, allVars
<1> QED BY <1>1, <1>2, <1>3, <1>4, <1>5 DEF BlockNext

(* Where the trees must stand for begin_new_block to go on: while it is    *)
(* under way the tree it has read is the one of this block, and once it is *)
(* done both are, until the block's commands are used up.                  *)
TreesInPlace ==
  /\ step \in {"temp", "command", "offset", "done"}
  /\ remaining_commands \in Nat /\ block \in Nat
  /\ step = "command" => offset_tree = Ready("temp", block)
  /\ step = "offset"  => command_tree = Ready("command", block)
  /\ step = "done" /\ remaining_commands > 0 =>
       /\ command_tree = Ready("command", block)
       /\ offset_tree = Ready("offset", block)

(* As long as callers do not read on after an error, the trees are in      *)
(* place whenever fill_buffer runs or can run again.                       *)
BlockInv ==
  /\ pc \in {"idle", "loop", "copy"}
  /\ failed \in BOOLEAN
  /\ failed => pc = "idle"
  /\ ~failed => TreesInPlace

(* A decoder that is new has no commands left, and no tree to read from.   *)
LEMMA BlockInitInv == BlockInit => BlockInv
<1> SUFFICES ASSUME BlockInit PROVE BlockInv
  OBVIOUS
<1>1. pc = "idle" /\ failed = FALSE
  BY DEF BlockInit, Init
<1>2. TreesInPlace
  BY DEF BlockInit, TreesInPlace
<1> QED BY <1>1, <1>2, Zenon DEF BlockInv

(* Every step keeps the trees in place: the number of commands is stored   *)
(* before the trees are read, so only the failure of the call, after which *)
(* nobody calls again, leaves commands without their trees.                *)
LEMMA BlockInvStep ==
  ASSUME ~Retry, BlockInv, [BlockNext]_allVars
  PROVE  BlockInv'
<1> USE DEF BlockInv
<1>1. CASE BeginNewBlock
  <2>1. pc = "loop" /\ ~failed /\ TreesInPlace
    BY <1>1 DEF BeginNewBlock, Looping
  <2>2. remaining_commands' \in Nat /\ block' \in Nat
    BY <1>1, <2>1, BlockLensAssumption DEF BeginNewBlock, BlockLengths, TreesInPlace
  <2>3. step' = "temp" /\ UNCHANGED <<pc, failed>>
    BY <1>1 DEF BeginNewBlock, vars
  <2> QED BY <2>1, <2>2, <2>3 DEF TreesInPlace
<1>2. CASE ReadTempTree
  BY <1>2 DEF ReadTempTree, Looping, TreesInPlace, vars
<1>3. CASE ReadCommandTree
  BY <1>3 DEF ReadCommandTree, Looping, TreesInPlace, vars
<1>4. CASE ReadOffsetTree
  BY <1>4 DEF ReadOffsetTree, OffsetTreeRead, Looping, TreesInPlace, vars
<1>5. CASE NewBlockFails
  BY <1>5 DEF NewBlockFails, Fail
<1>6. CASE Command
  <2>1. pc = "loop" /\ ~failed /\ TreesInPlace
    BY <1>6 DEF Command, Literal, Copy, Fail
  <2>2. TreesInPlace'
    BY <1>6, <2>1 DEF Command, TreesInPlace
  <2>3. CASE Fail
    <3>1. pc' = "idle" /\ failed' = TRUE
      BY <2>3 DEF Fail
    <3> QED BY <2>2, <3>1, Zenon
  <2>4. CASE ~Fail
    <3>1. pc' \in {"loop", "copy"} /\ failed' = failed
      BY <1>6, <2>1, <2>4 DEF Command, Literal, Copy, CopyFromHistory
    <3> QED BY <2>1, <2>2, <3>1
  <2> QED BY <2>3, <2>4
<1>7. CASE Silent
  <2>1. UNCHANGED blockVars /\ failed' = failed
    BY <1>7 DEF Silent, FillBuffer, HistoryNext, CopyEnd, Return
  <2>2. TreesInPlace' = TreesInPlace
    BY <2>1 DEF TreesInPlace, blockVars
  <2>3. ~failed
    BY <1>7 DEF Silent, HistoryNext, CopyEnd, Return
  <2>4. pc' \in {"idle", "loop", "copy"}
    BY <1>7 DEF Silent, FillBuffer, HistoryNext, CopyEnd, Return, CopyFromHistory
  <2> QED BY <2>1, <2>2, <2>3, <2>4
<1>8. CASE Ended \/ UNCHANGED allVars
  BY <1>8 DEF Ended, allVars, vars, blockVars, TreesInPlace
<1> QED BY <1>1, <1>2, <1>3, <1>4, <1>5, <1>6, <1>7, <1>8 DEF BlockNext

(* begin_new_block and the loop of fill_buffer (lhv2.rs): a caller that    *)
(* stops at the first error never makes the decoder read a code from a     *)
(* tree of another block, of another kind or half built.                   *)
THEOREM TreesStaySane == ASSUME ~Retry PROVE BlockSpec => []TreesAreSane
<1>1. BlockInv => TreesAreSane
  BY DEF BlockInv, TreesInPlace, TreesAreSane, Looping
<1>2. BlockInv /\ [BlockNext]_allVars => BlockInv'
  BY BlockInvStep
<1> QED BY <1>1, <1>2, BlockInitInv, PTL DEF BlockSpec

(* The block decoder decodes what the unbuffered specification allows      *)
(* (lhv2.rs, fill_buffer), whether or not callers read on after an error.  *)
THEOREM BlockImplementsHistory == BlockSpec => RefinesHistory
<1>1. BlockSpec => Spec
  BY BlockStep, PTL DEF BlockSpec, BlockInit, Spec
<1> QED BY <1>1, Refinement

-----------------------------------------------------------------------------
(* Lz5Decoder.  The flags not used yet are the binary digits of a number,  *)
(* below an end mark: halving it takes them off one by one and ends at 1.  *)

(* The flags read and not yet used. *)
Unused == Len(flags) - Len(kinds)

(* The numbers met when the unused flags are taken off m, m first. *)
Halvings(m, w) ==
  /\ w \in [0..Unused -> Nat \ {0}]
  /\ w[0] = m /\ w[Unused] = 1
  /\ \A i \in 1..Unused : w[i - 1] = 2 * w[i] + flags[Len(kinds) + i]

HoldsUnused(m) == \E w \in [0..Unused -> Nat \ {0}] : Halvings(m, w)

(* The commands so far are those of the first flags. *)
KindsAreFlags ==
  /\ flags \in Seq({0, 1}) /\ kinds \in Seq({0, 1})
  /\ Len(kinds) <= Len(flags) /\ Len(flags) <= Len(kinds) + FlagBits
  /\ \A i \in 1..Len(kinds) : kinds[i] = flags[i]

(* The unused flags are in the local variable while a call is under way    *)
(* and in the field between calls; after an error nothing is recorded.     *)
Lz5Inv ==
  /\ failed \in BOOLEAN
  /\ KindsAreFlags
  /\ failed => flags = <<>> /\ kinds = <<>>
  /\ ~failed => HoldsUnused(IF pc = "idle" THEN bitmap ELSE local)

(* The invariant says in numbers what CommandsFollowFlags says of the      *)
(* sequences.                                                              *)
LEMMA KindsArePrefix == KindsAreFlags => CommandsFollowFlags
<1> SUFFICES ASSUME KindsAreFlags PROVE IsPrefix(kinds, flags)
  BY DEF KindsAreFlags, CommandsFollowFlags
<1>1. kinds \in Seq({0, 1}) /\ flags \in Seq({0, 1}) /\ Len(kinds) <= Len(flags)
      /\ \A i \in 1..Len(kinds) : kinds[i] = flags[i]
  BY DEF KindsAreFlags
<1>2. SubSeq(flags, 1, Len(kinds)) \in Seq({0, 1})
      /\ Len(SubSeq(flags, 1, Len(kinds))) = Len(kinds)
      /\ \A i \in 1..Len(kinds) : SubSeq(flags, 1, Len(kinds))[i] = flags[i]
  BY <1>1
<1>3. SubSeq(kinds, 1, Len(kinds)) = SubSeq(flags, 1, Len(kinds))
  BY <1>1, <1>2
<1> QED BY <1>1, <1>3 DEF IsPrefix

(* The eight digits of a byte with the mark 256 above them. *)
LEMMA MarkedByte ==
  ASSUME FlagBits = 8, NEW byte \in 0..(2^FlagBits - 1)
  PROVE  /\ BitsOf(byte) \in Seq({0, 1}) /\ Len(BitsOf(byte)) = 8
         /\ \E w \in [0..8 -> Nat \ {0}] :
              /\ w[0] = byte + 2^FlagBits /\ w[8] = 1
              /\ \A i \in 1..8 : w[i - 1] = 2 * w[i] + BitsOf(byte)[i]
<1>1. 2^0 = 1 /\ 2^1 = 2 /\ 2^2 = 4 /\ 2^3 = 8 /\ 2^4 = 16 /\ 2^5 = 32
      /\ 2^6 = 64 /\ 2^7 = 128 /\ 2^8 = 256
  OBVIOUS
<1>2. byte \in Nat /\ byte < 256 /\ 2^FlagBits = 256
  BY <1>1
<1> DEFINE w == [i \in 0..8 |-> (byte + 256) \div 2^i]
           b == BitsOf(byte)
<1>3. /\ w[0] = (byte + 256) \div 1
      /\ w[1] = (byte + 256) \div 2
      /\ w[2] = (byte + 256) \div 4
      /\ w[3] = (byte + 256) \div 8
      /\ w[4] = (byte + 256) \div 16
      /\ w[5] = (byte + 256) \div 32
      /\ w[6] = (byte + 256) \div 64
      /\ w[7] = (byte + 256) \div 128
      /\ w[8] = (byte + 256) \div 256
  BY <1>1
<1>4. /\ b[1] = (byte \div 1) % 2
      /\ b[2] = (byte \div 2) % 2
      /\ b[3] = (byte \div 4) % 2
      /\ b[4] = (byte \div 8) % 2
      /\ b[5] = (byte \div 16) % 2
      /\ b[6] = (byte \div 32) % 2
      /\ b[7] = (byte \div 64) % 2
      /\ b[8] = (byte \div 128) % 2
  BY <1>1 DEF BitsOf
<1> HIDE DEF w, b
<1>5. w[0] = 2 * w[1] + b[1] /\ b[1] \in {0, 1} /\ w[1] \in Nat \ {0}
  BY <1>2, <1>3, <1>4
<1>6. w[1] = 2 * w[2] + b[2] /\ b[2] \in {0, 1} /\ w[2] \in Nat \ {0}
  BY <1>2, <1>3, <1>4
<1>7. w[2] = 2 * w[3] + b[3] /\ b[3] \in {0, 1} /\ w[3] \in Nat \ {0}
  BY <1>2, <1>3, <1>4
<1>8. w[3] = 2 * w[4] + b[4] /\ b[4] \in {0, 1} /\ w[4] \in Nat \ {0}
  BY <1>2, <1>3, <1>4
<1>9. w[4] = 2 * w[5] + b[5] /\ b[5] \in {0, 1} /\ w[5] \in Nat \ {0}
  BY <1>2, <1>3, <1>4
<1>10. w[5] = 2 * w[6] + b[6] /\ b[6] \in {0, 1} /\ w[6] \in Nat \ {0}
  BY <1>2, <1>3, <1>4
<1>11. w[6] = 2 * w[7] + b[7] /\ b[7] \in {0, 1} /\ w[7] \in Nat \ {0}
  BY <1>2, <1>3, <1>4
<1>12. w[7] = 2 * w[8] + b[8] /\ b[8] \in {0, 1} /\ w[8] \in Nat \ {0}
  BY <1>2, <1>3, <1>4
<1>13. w[0] = byte + 2^FlagBits /\ w[0] \in Nat \ {0} /\ w[8] = 1
  BY <1>2, <1>3
<1>14. w \in [0..8 -> Nat \ {0}]
  <2>1. \A i \in 0..8 : w[i] \in Nat \ {0}
    BY <1>5, <1>6, <1>7, <1>8, <1>9, <1>10, <1>11, <1>12, <1>13
  <2>2. w = [i \in 0..8 |-> w[i]]
    BY DEF w
  <2> QED BY <2>1, <2>2
<1>15. b \in Seq({0, 1}) /\ Len(b) = 8
  <2>1. \A i \in 1..8 : b[i] \in {0, 1}
    BY <1>5, <1>6, <1>7, <1>8, <1>9, <1>10, <1>11, <1>12
  <2>2. b = [i \in 1..8 |-> b[i]]
    BY DEF b, BitsOf
  <2>3. b \in [1..8 -> {0, 1}]
    BY <2>1, <2>2
  <2>4. b \in Seq({0, 1})
    BY <2>3, SeqDef
  <2>5. DOMAIN b = 1..8 /\ DOMAIN b = 1..Len(b) /\ Len(b) \in Nat
    BY <2>3, <2>4, LenProperties
  <2> QED BY <2>4, <2>5
<1>16. \A i \in 1..8 : w[i - 1] = 2 * w[i] + b[i]
  BY <1>5, <1>6, <1>7, <1>8, <1>9, <1>10, <1>11, <1>12
<1> QED BY <1>13, <1>14, <1>15, <1>16 DEF b

(* The first elements of a concatenation, and the others. *)
LEMMA ConcatParts ==
  ASSUME NEW S, NEW s \in Seq(S), NEW t \in Seq(S)
  PROVE  /\ s \o t \in Seq(S) /\ Len(s \o t) = Len(s) + Len(t)
         /\ \A i \in 1..Len(s) : (s \o t)[i] = s[i]
         /\ \A i \in 1..Len(t) : (s \o t)[Len(s) + i] = t[i]
<1>1. Len(s) \in Nat /\ Len(t) \in Nat
  OBVIOUS
<1> QED BY <1>1, ConcatProperties

(* A new decoder holds no flags. *)
LEMMA Lz5InitInv == Lz5Init => Lz5Inv
<1> SUFFICES ASSUME Lz5Init PROVE Lz5Inv
  OBVIOUS
<1>1. pc = "idle" /\ failed = FALSE /\ bitmap = 1 /\ flags = <<>> /\ kinds = <<>>
  BY DEF Lz5Init, Init, Empty
<1>2. KindsAreFlags /\ Unused = 0
  BY <1>1, EmptySeq, FlagBitsAssumption DEF KindsAreFlags, Unused
<1>3. HoldsUnused(bitmap)
  <2> DEFINE w == [i \in 0..0 |-> 1]
  <2>1. w \in [0..0 -> Nat \ {0}] /\ w[0] = 1
    OBVIOUS
  <2> HIDE DEF w
  <2>2. Halvings(bitmap, w)
    BY <1>1, <1>2, <2>1 DEF Halvings
  <2> QED BY <1>2, <2>1, <2>2 DEF HoldsUnused
<1> QED BY <1>1, <1>2, <1>3, Zenon DEF Lz5Inv

(* Reading a byte of flags, when the last byte's are used up. *)
LEMMA ReadFlagsInv ==
  ASSUME FlagBits = 8, Lz5Inv, NEW byte \in 0..(2^FlagBits - 1), ReadFlags(byte)
  PROVE  Lz5Inv'
<1>1. pc = "loop" /\ local = 1 /\ local' = byte + 2^FlagBits /\ UNCHANGED <<pc, failed, kinds>>
      /\ flags' = Record(flags, BitsOf(byte))
  BY DEF ReadFlags, Empty, vars
<1>2. CASE failed
  <2>1. UNCHANGED <<flags, kinds, failed>>
    BY <1>1, <1>2 DEF Record
  <2> QED BY <1>2, <2>1 DEF Lz5Inv, KindsAreFlags
<1>3. CASE ~failed
  <2>1. KindsAreFlags /\ HoldsUnused(1) /\ failed \in BOOLEAN
    BY <1>1, <1>3 DEF Lz5Inv
  <2>2. flags \in Seq({0, 1}) /\ kinds \in Seq({0, 1}) /\ Unused \in Nat
        /\ Len(flags) \in Nat /\ Len(kinds) \in Nat
    BY <2>1 DEF KindsAreFlags, Unused
  <2>3. Unused = 0
    <3>1. PICK w \in [0..Unused -> Nat \ {0}] : Halvings(1, w)
      BY <2>1 DEF HoldsUnused
    <3>2. SUFFICES ASSUME Unused >= 1 PROVE FALSE
      BY <2>2
    <3>3. w[0] = 1 /\ w[0] = 2 * w[1] + flags[Len(kinds) + 1] /\ w[1] \in Nat \ {0}
      BY <2>2, <3>1, <3>2 DEF Halvings
    <3>4. flags[Len(kinds) + 1] \in {0, 1}
      BY <2>2, <3>2 DEF Unused
    <3> QED BY <3>3, <3>4
  <2>4. Len(flags) = Len(kinds)
    BY <2>2, <2>3 DEF Unused
  <2> DEFINE b == BitsOf(byte)
  <2>5. PICK w \in [0..8 -> Nat \ {0}] :
              /\ w[0] = byte + 2^FlagBits /\ w[8] = 1
              /\ \A i \in 1..8 : w[i - 1] = 2 * w[i] + b[i]
    BY MarkedByte
  <2>6. b \in Seq({0, 1}) /\ Len(b) = 8
    BY MarkedByte
  <2>7. flags' = flags \o b
    BY <1>1, <1>3 DEF Record
  <2> HIDE DEF b
  <2>8. /\ flags' \in Seq({0, 1}) /\ Len(flags') = Len(flags) + 8
        /\ \A i \in 1..Len(flags) : flags'[i] = flags[i]
        /\ \A i \in 1..8 : flags'[Len(flags) + i] = b[i]
    <3> DEFINE all == flags \o b
               S == {0, 1}
    <3>2. flags \in Seq(S) /\ b \in Seq(S)
      BY ONLY <2>2, <2>6
    <3> HIDE DEF S
    <3>1. /\ all \in Seq(S) /\ Len(all) = Len(flags) + Len(b)
          /\ \A i \in 1..Len(flags) : all[i] = flags[i]
          /\ \A i \in 1..Len(b) : all[Len(flags) + i] = b[i]
      BY ONLY <3>2, ConcatParts
    <3> HIDE DEF all
    <3> QED BY ONLY <2>6, <2>7, <3>1 DEF all, S
  <2>9. KindsAreFlags'
    BY <1>1, <2>1, <2>2, <2>4, <2>8 DEF KindsAreFlags
  <2>10. Unused' = 8
    BY <1>1, <2>2, <2>4, <2>8 DEF Unused
  <2>11. Halvings(local, w)'
    BY <1>1, <2>4, <2>5, <2>8, <2>10 DEF Halvings
  <2>12. HoldsUnused(local)'
    BY <2>10, <2>11 DEF HoldsUnused
  <2>13. pc' = "loop" /\ failed' = failed
    BY <1>1
  <2> QED BY <1>3, <2>1, <2>9, <2>12, <2>13 DEF Lz5Inv
<1> QED BY <1>2, <1>3

(* A command takes the lowest flag off. *)
LEMMA Lz5CommandInv ==
  ASSUME Lz5Inv, Lz5Command
  PROVE  Lz5Inv'
<1>1. pc = "loop" /\ local # 1 /\ local' = local \div 2 /\ UNCHANGED <<failed, flags>>
      /\ pc' = IF local % 2 = 1 THEN "loop" ELSE "copy"
  BY DEF Lz5Command, Empty, Literal, Copy, CopyFromHistory
<1>2. kinds' = Record(kinds, <<IF local % 2 = 1 THEN 1 ELSE 0>>)
  BY <1>1 DEF Lz5Command
<1>3. CASE failed
  <2>1. UNCHANGED <<flags, kinds, failed>>
    BY <1>1, <1>2, <1>3 DEF Record
  <2> QED BY <1>3, <2>1 DEF Lz5Inv, KindsAreFlags
<1>4. CASE ~failed
  <2>1. KindsAreFlags /\ HoldsUnused(local) /\ failed \in BOOLEAN
    BY <1>1, <1>4 DEF Lz5Inv
  <2>2. flags \in Seq({0, 1}) /\ kinds \in Seq({0, 1}) /\ Unused \in Nat
        /\ Len(flags) \in Nat /\ Len(kinds) \in Nat /\ Unused = Len(flags) - Len(kinds)
        /\ Len(flags) <= Len(kinds) + FlagBits
        /\ \A i \in 1..Len(kinds) : kinds[i] = flags[i]
    BY <2>1 DEF KindsAreFlags, Unused
  <2>3. PICK w \in [0..Unused -> Nat \ {0}] : Halvings(local, w)
    BY <2>1 DEF HoldsUnused
  <2>4. Unused >= 1
    BY <1>1, <2>2, <2>3 DEF Halvings
  <2> DEFINE bit == flags[Len(kinds) + 1]
  <2>5. bit \in {0, 1}
    BY <2>2, <2>4
  <2>6. local = 2 * w[1] + bit /\ w[1] \in Nat \ {0}
    BY <2>2, <2>3, <2>4 DEF Halvings
  <2>7. local % 2 = bit /\ local \div 2 = w[1]
    <3> HIDE DEF bit
    <3>1. PICK m \in Nat : m = w[1]
      BY <2>6
    <3>2. local = 2 * m + bit
      BY <2>6, <3>1
    <3>3. local % 2 = bit /\ local \div 2 = m
      BY <2>5, <3>2
    <3> QED BY <3>1, <3>3
  <2>8. kinds' = kinds \o <<bit>>
    BY <1>2, <1>4, <2>5, <2>7 DEF Record
  <2>9. /\ kinds' \in Seq({0, 1}) /\ Len(kinds') = Len(kinds) + 1
        /\ \A i \in 1..Len(kinds) : kinds'[i] = kinds[i]
        /\ kinds'[Len(kinds) + 1] = bit
    BY <2>2, <2>5, <2>8
  <2>10. KindsAreFlags'
    <3>1. flags' = flags /\ FlagBits \in Nat
      BY <1>1, FlagBitsAssumption
    <3>2. Len(kinds') <= Len(flags') /\ Len(flags') <= Len(kinds') + FlagBits
      BY <2>2, <2>4, <2>9, <3>1
    <3>3. ASSUME NEW i \in 1..Len(kinds') PROVE kinds'[i] = flags'[i]
      BY <2>2, <2>9, <3>1
    <3> QED BY <2>2, <2>9, <3>1, <3>2, <3>3 DEF KindsAreFlags
  <2>11. Unused' = Unused - 1
    BY <1>1, <2>2, <2>9 DEF Unused
  <2>12. PICK v \in [0..(Unused - 1) -> Nat \ {0}] :
           /\ v[0] = w[1] /\ v[Unused - 1] = w[Unused]
           /\ \A i \in 1..(Unused - 1) : v[i - 1] = w[i] /\ v[i] = w[i + 1]
    <3> DEFINE u == [i \in 0..(Unused - 1) |-> w[i + 1]]
    <3>1. /\ u \in [0..(Unused - 1) -> Nat \ {0}] /\ u[0] = w[1]
          /\ u[Unused - 1] = w[Unused]
          /\ \A i \in 1..(Unused - 1) : u[i - 1] = w[i] /\ u[i] = w[i + 1]
      BY <2>2, <2>4
    <3> HIDE DEF u
    <3> QED BY <3>1
  <2> HIDE DEF bit
  <2>13. Halvings(local, v)'
    <3>1. v[0] = local' /\ v[Unused'] = 1 /\ v \in [0..Unused' -> Nat \ {0}]
      BY <1>1, <2>3, <2>7, <2>11, <2>12 DEF Halvings
    <3>2. ASSUME NEW i \in 1..Unused'
          PROVE  v[i - 1] = 2 * v[i] + flags'[Len(kinds') + i]
      <4>1. i + 1 \in 1..Unused /\ i \in 1..(Unused - 1)
        BY <2>2, <2>11
      <4>2. w[i + 1 - 1] = 2 * w[i + 1] + flags[Len(kinds) + (i + 1)]
        BY <2>3, <4>1 DEF Halvings
      <4>3. i + 1 - 1 = i /\ Len(kinds) + (i + 1) = Len(kinds') + i
        BY <2>2, <2>9
      <4> QED BY <1>1, <2>12, <4>1, <4>2, <4>3
    <3> QED BY <3>1, <3>2 DEF Halvings
  <2>14. HoldsUnused(local)'
    BY <2>11, <2>12, <2>13 DEF HoldsUnused
  <2>15. pc' # "idle" /\ failed' = failed
    BY <1>1
  <2> QED BY <1>4, <2>1, <2>10, <2>14, <2>15 DEF Lz5Inv
<1> QED BY <1>3, <1>4

(* The unused flags survive what leaves the records alone and keeps the    *)
(* number they are in.                                                     *)
LEMMA Lz5Keeps ==
  ASSUME Lz5Inv, UNCHANGED <<flags, kinds, failed>>,
         (IF pc = "idle" THEN bitmap ELSE local) = (IF pc' = "idle" THEN bitmap' ELSE local')
  PROVE  Lz5Inv'
<1>1. Unused' = Unused
  BY DEF Unused
<1>2. \A m : HoldsUnused(m)' = HoldsUnused(m)
  BY <1>1 DEF HoldsUnused, Halvings
<1> QED BY <1>2 DEF Lz5Inv, KindsAreFlags

(* Every step of the decoder keeps the unused flags. *)
LEMMA Lz5InvStep ==
  ASSUME FlagBits = 8, Lz5Inv, [Lz5Next]_lz5Vars
  PROVE  Lz5Inv'
<1>1. ASSUME NEW n \in BufLens, Lz5FillBuffer(n) PROVE Lz5Inv'
  <2>1. pc = "idle" /\ pc' # "idle" /\ local' = bitmap /\ UNCHANGED <<flags, kinds, failed>>
    BY <1>1 DEF Lz5FillBuffer, FillBuffer, CopyFromHistory
  <2> QED BY <2>1, Lz5Keeps
<1>2. ASSUME NEW byte \in 0..(2^FlagBits - 1), ReadFlags(byte) PROVE Lz5Inv'
  BY <1>2, ReadFlagsInv
<1>3. CASE Lz5Command
  BY <1>3, Lz5CommandInv
<1>4. CASE (HistoryNext \/ CopyEnd) /\ UNCHANGED flagVars
  <2>1. pc # "idle" /\ pc' # "idle" /\ UNCHANGED <<bitmap, local, flags, kinds, failed>>
    BY <1>4 DEF HistoryNext, CopyEnd, flagVars
  <2> QED BY <2>1, Lz5Keeps
<1>5. CASE Lz5Return
  <2>1. pc # "idle" /\ pc' = "idle" /\ bitmap' = local /\ UNCHANGED <<flags, kinds, failed>>
    BY <1>5 DEF Lz5Return, Return, BitmapStored
  <2> QED BY <2>1, Lz5Keeps
<1>6. CASE Lz5Fail
  <2>1. failed' = TRUE /\ flags' = <<>> /\ kinds' = <<>>
    BY <1>6 DEF Lz5Fail, Fail
  <2>2. KindsAreFlags'
    BY <2>1, EmptySeq, FlagBitsAssumption DEF KindsAreFlags
  <2> QED BY <2>1, <2>2, Zenon DEF Lz5Inv
<1>7. CASE UNCHANGED lz5Vars
  <2>1. UNCHANGED <<pc, bitmap, local, flags, kinds, failed>>
    BY <1>7 DEF lz5Vars, vars, flagVars
  <2> QED BY <2>1, Lz5Keeps
<1> QED BY <1>1, <1>2, <1>3, <1>4, <1>5, <1>6, <1>7 DEF Lz5Next

(* With the eight flags of a byte, the commands carried out are those the  *)
(* flags of the data ask for, wherever callers cut the output (lz5.rs,     *)
(* fill_buffer, which keeps the unused flags below an end mark).           *)
THEOREM FlagsAreFollowed == ASSUME FlagBits = 8 PROVE Lz5Spec => []CommandsFollowFlags
<1>1. Lz5Inv => CommandsFollowFlags
  BY KindsArePrefix DEF Lz5Inv
<1>2. Lz5Inv /\ [Lz5Next]_lz5Vars => Lz5Inv'
  BY Lz5InvStep
<1> QED BY <1>1, <1>2, Lz5InitInv, PTL DEF Lz5Spec

(* A step of the lz5 decoder is a step of fill_buffer or, when it reads    *)
(* flags, changes nothing that fill_buffer works on.                       *)
LEMMA Lz5Step == [Lz5Next]_lz5Vars => [Next]_vars
<1> SUFFICES ASSUME [Lz5Next]_lz5Vars PROVE [Next]_vars
  OBVIOUS
<1>1. ASSUME NEW n \in BufLens, Lz5FillBuffer(n) PROVE Next
  BY <1>1 DEF Lz5FillBuffer, Next
<1>2. ASSUME NEW byte \in 0..(2^FlagBits - 1), ReadFlags(byte) PROVE UNCHANGED vars
  BY <1>2 DEF ReadFlags
<1>3. CASE Lz5Command
  BY <1>3 DEF Lz5Command, Next
<1>4. CASE (HistoryNext \/ CopyEnd) /\ UNCHANGED flagVars
  BY <1>4 DEF Next
<1>5. CASE Lz5Return \/ Lz5Fail
  BY <1>5 DEF Lz5Return, Lz5Fail, Next
<1>6. CASE UNCHANGED lz5Vars
  BY <1>6 DEF lz5Vars
<1> QED BY <1>1, <1>2, <1>3, <1>4, <1>5, <1>6 DEF Lz5Next

(* The lz5 decoder decodes what the unbuffered specification allows, and   *)
(* the positions it saves fit their 16 bits (lz5.rs, copy_from_history).   *)
THEOREM Lz5ImplementsHistory == Lz5Spec => RefinesHistory /\ []ResumeAddressFits
<1>1. Lz5Spec => Spec
  BY Lz5Step, PTL DEF Lz5Spec, Lz5Init, Spec
<1> QED BY <1>1, Refinement, ResumeAddressIsBounded
=============================================================================
