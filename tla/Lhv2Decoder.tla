---------------------------- MODULE Lhv2Decoder ----------------------------
(***************************************************************************)
(* LhaV2Decoder of src/decode/lhv2.rs (lh4 to lh7, lhx): LzDecoder with    *)
(* the blocks its commands come from.  A block begins with the number of   *)
(* its commands and three Huffman trees: a temporary one, read into the    *)
(* offset tree's place, which codes the command tree; the command tree;    *)
(* and the offset tree proper.  A tree is abstracted to what it is for,    *)
(* the block it was read in and its status: HuffTree models the building.  *)
(* Reading any of this can fail, and then fill_buffer returns in the       *)
(* middle of begin_new_block.                                              *)
(***************************************************************************)
EXTENDS LzDecoder

CONSTANTS
  BlockLens,   \* the numbers of commands a block can announce
  MaxBlocks,   \* bound: the blocks in the compressed data
  Retry        \* whether callers read on after an error

ASSUME BlockLensAssumption == BlockLens \subseteq Nat
ASSUME MaxBlocksAssumption == MaxBlocks \in Nat
ASSUME RetryAssumption     == Retry \in BOOLEAN

VARIABLES
  command_tree, offset_tree,   \* [status, role, block]
  remaining_commands,
  step,     \* where begin_new_block is: "temp", "command", "offset", "done"
  block     \* auxiliary: the number of the block

blockVars == <<command_tree, offset_tree, remaining_commands, step, block>>
allVars   == <<vars, blockVars>>

Ready(role, b) == [status |-> "ready", role |-> role, block |-> b]
EmptyTree == [status |-> "empty", role |-> "none", block |-> 0]

(* What build_tree leaves when it fails: a cleared tree, or a half built   *)
(* one whose branches may refer to nodes that do not exist.                *)
Spoilt(role, b) == {[status |-> st, role |-> role, block |-> b] : st \in {"empty", "partial"}}

-----------------------------------------------------------------------------
BlockInit ==
  /\ Init
  /\ command_tree = EmptyTree /\ offset_tree = EmptyTree
  /\ remaining_commands = 0 /\ step = "done" /\ block = 0

Looping == pc = "loop" /\ room > 0

(* A bit reader that yields zero bits at the end of the data. *)
BlockLengthsZeroPadded(b) == IF b < MaxBlocks THEN BlockLens ELSE {0}

(* The 16 bits with the number of commands; none after the last block. *)
BlockLengths(b) == IF b < MaxBlocks THEN BlockLens ELSE {}

(* begin_new_block: the number of commands is stored before the trees. *)
BeginNewBlock ==
  /\ Looping /\ step = "done" /\ remaining_commands = 0
  /\ \E n \in BlockLengths(block) : remaining_commands' = n
  /\ step' = "temp"
  /\ block' = IF block < MaxBlocks THEN block + 1 ELSE block
  /\ UNCHANGED vars /\ UNCHANGED <<command_tree, offset_tree>>

(* read_temp_tree: a single code or a table of lengths. *)
ReadTempTree ==
  /\ Looping /\ step = "temp"
  /\ offset_tree' = Ready("temp", block)
  /\ step' = "command"
  /\ UNCHANGED vars /\ UNCHANGED <<command_tree, remaining_commands, block>>

(* read_command_tree, whose lengths are coded with the temporary tree. *)
ReadCommandTree ==
  /\ Looping /\ step = "command"
  /\ command_tree' = Ready("command", block)
  /\ step' = "offset"
  /\ UNCHANGED vars /\ UNCHANGED <<offset_tree, remaining_commands, block>>

(* A single offset code that is not stored in the tree. *)
OffsetTreeKept(b) == offset_tree

(* read_offset_tree stores a single code or builds a tree. *)
OffsetTreeRead(b) == Ready("offset", b)

ReadOffsetTree ==
  /\ Looping /\ step = "offset"
  /\ offset_tree' = OffsetTreeRead(block)
  /\ step' = "done"
  /\ UNCHANGED vars /\ UNCHANGED <<command_tree, remaining_commands, block>>

(* begin_new_block fails: the bits run out, a table has an invalid size    *)
(* (the trees are as they were), or build_tree fails.                      *)
NewBlockFails ==
  /\ Fail
  /\ \/ /\ step = "done" /\ remaining_commands = 0
        /\ UNCHANGED <<command_tree, offset_tree>>
     \/ /\ step \in {"temp", "offset"}
        /\ offset_tree' \in Spoilt(step, block) \cup {offset_tree}
        /\ UNCHANGED command_tree
     \/ /\ step = "command"
        /\ command_tree' \in Spoilt("command", block) \cup {command_tree}
        /\ UNCHANGED offset_tree
  /\ step' = "done"
  /\ UNCHANGED <<remaining_commands, block>>

(* One command of the block; it is counted before it is read. *)
Command ==
  /\ step = "done" /\ remaining_commands > 0
  /\ remaining_commands' = remaining_commands - 1
  /\ \/ \E v \in Byte : Literal(v)
     \/ \E addr \in Addrs, count \in Counts : Copy(addr, count)
     \/ Fail
  /\ UNCHANGED <<command_tree, offset_tree, step, block>>

(* The steps of fill_buffer that read nothing. *)
Silent ==
  /\ \/ \E n \in BufLens : (Retry \/ ~failed) /\ FillBuffer(n)
     \/ HistoryNext
     \/ CopyEnd
     \/ Return
  /\ UNCHANGED blockVars

(* The caller has had its error and reads no more. *)
Ended == pc = "idle" /\ failed /\ ~Retry /\ UNCHANGED allVars

BlockNext ==
  \/ BeginNewBlock
  \/ ReadTempTree
  \/ ReadCommandTree
  \/ ReadOffsetTree
  \/ NewBlockFails
  \/ Command
  \/ Silent
  \/ Ended

(* fill_buffer is sequential code: a call that has begun goes on. *)
BlockSpec == BlockInit /\ [][BlockNext]_allVars /\ WF_allVars(BlockNext)

-----------------------------------------------------------------------------
(* Whenever a code is read from a tree, the tree was built completely, for *)
(* that purpose and in the current block: the comment in read_entry, "safe *)
(* because tree was initialized in a sane way, no outstanding child index  *)
(* has been used", for the trees of this decoder.                          *)
TreesAreSane ==
  Looping =>
    /\ step = "command" => offset_tree = Ready("temp", block)
    /\ step = "done" /\ remaining_commands > 0 =>
         /\ command_tree = Ready("command", block)
         /\ offset_tree = Ready("offset", block)

(* A call of fill_buffer ends, also when the data are nothing but blocks   *)
(* without commands.                                                       *)
CallEnds == pc = "loop" ~> pc = "idle"
=============================================================================
