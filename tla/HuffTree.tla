------------------------------ MODULE HuffTree ------------------------------
(***************************************************************************)
(* HuffTree of src/statictree.rs: the static Huffman tree that the lh4 to  *)
(* lh7 and lhx methods rebuild for every block.  The tree is an array in   *)
(* level order; a branch holds the index of its first child.               *)
(*                                                                         *)
(* build_tree runs one level per step (pc = "build"), read_entry one bit   *)
(* per step (pc = "read"); path and depth are auxiliary: the bits that     *)
(* read_entry has followed, as a number, and how many.                     *)
(***************************************************************************)
EXTENDS Integers, Sequences, FiniteSets

CONSTANTS
  MaxIndex,   \* TreeEntry::MAX_INDEX: 32767
  OverflowChecks,  \* the builds: whether they panic on an overflow
  Singles,    \* the values given to set_single
  Lengths     \* the tables of code lengths to build trees from

ASSUME MaxIndexAssumption == MaxIndex \in Nat
ASSUME BuildsAssumption   == OverflowChecks \subseteq BOOLEAN
ASSUME SinglesAssumption  == Singles \subseteq Nat
ASSUME LengthsAssumption  == Lengths \subseteq Seq(0..255)

VARIABLES
  tree,       \* the nodes; tree[i+1] is the node with index i
  lens,       \* value_lengths: lens[v+1] is the code length of value v
  max_allocated,
  level,      \* current_len
  pc,
  res,        \* how the last build ended: "none" (not yet), "ok", "single",
              \* "panic", or an error
  node, path, depth

vars == <<tree, lens, max_allocated, level, pc, res, node, path, depth>>
reading == <<node, path, depth>>

Leaf(value)   == [leaf |-> TRUE,  arg |-> value]
Branch(child) == [leaf |-> FALSE, arg |-> child]

(* The values with a code of this length, in the order of the table. *)
ValuesWith(len) == {v \in 0..Len(lens)-1 : lens[v+1] = len}
Before(S, v) == Cardinality({u \in S : u < v})
Values(len) ==
  [k \in 1..Cardinality(ValuesWith(len)) |->
     CHOOSE v \in ValuesWith(len) : Before(ValuesWith(len), v) = k - 1]

-----------------------------------------------------------------------------
Init ==
  /\ tree = <<>> /\ lens = <<>> /\ max_allocated = 0 /\ level = 0
  /\ pc = "idle" /\ res = "none"
  /\ node = 0 /\ path = 0 /\ depth = 0

(* set_single *)
SetSingle(value) ==
  /\ pc = "idle"
  /\ tree' = <<Leaf(value)>> /\ lens' = <<value>> /\ res' = "single"
  /\ UNCHANGED <<max_allocated, level, pc>> /\ UNCHANGED reading

(* The size check of the code; its comment refuses MaxIndex \div 2, too.   *)
TooManyLengths(n) == n > MaxIndex \div 2

(* build_tree: a table that is too long leaves the tree as it was. *)
BuildTree(ls) ==
  /\ pc = "idle"
  /\ lens' = ls
  /\ IF TooManyLengths(Len(ls))
     THEN /\ res' = "too many code lengths"
          /\ UNCHANGED <<tree, max_allocated, level, pc>>
     ELSE /\ tree' = <<>> /\ max_allocated' = 1 /\ level' = 1
          /\ pc' = "build" /\ res' = "none"
  /\ UNCHANGED reading

(* The branches of one level, each with two new children. *)
NewBranches(count) ==
  [k \in 1..count |-> Branch(max_allocated + 2 * (k - 1))]

(* Some length is greater than the current one. *)
MoreLeaves(len) == \E i \in 1..Len(lens) : lens[i] > len

(* tree.len() > max_allocated *)
Overfull(size, allocated) == size > allocated

(* The final check without the test for missing leaves. *)
IncompleteNever(size, allocated) == FALSE

(* tree.len() != max_allocated *)
Incomplete(size, allocated) == size # allocated

LastLevel == 255  \* u8::MAX

(* `for current_len in 1u8..` computes the length after the one it gives   *)
(* out.  With overflow checks it panics instead of giving out the last     *)
(* one, and the tree stays as it is; a caller that catches the panic can   *)
(* build another.  Without them it wraps around, but is not asked again,   *)
(* as no length is greater than the last.                                  *)
LengthOverflows ==
  /\ pc = "build" /\ level = LastLevel /\ TRUE \in OverflowChecks
  /\ pc' = "idle" /\ res' = "panic"
  /\ max_allocated' = 0 /\ level' = 0
  /\ UNCHANGED <<tree, lens>> /\ UNCHANGED reading

(* One turn of the loop over current_len: the nodes missing on the level   *)
(* above become branches, and the values with this length its leaves.      *)
BuildLevel ==
  LET count == max_allocated - Len(tree)
      allocated == max_allocated + 2 * count
      grown == tree \o NewBranches(count)
                 \o [k \in 1..Len(Values(level)) |-> Leaf(Values(level)[k])]
      more  == MoreLeaves(level)
      Ends(result) == /\ pc' = "idle" /\ res' = result
                      /\ max_allocated' = 0 /\ level' = 0
  IN /\ pc = "build" /\ (level < LastLevel \/ FALSE \in OverflowChecks)
     /\ IF count > 0 /\ max_allocated + 2 * (count - 1) > MaxIndex
        THEN /\ tree' = <<>>
             /\ Ends("tree index out of range")
        ELSE /\ tree' = grown
             /\ \/ /\ Overfull(Len(grown), allocated)
                   /\ Ends("too many leaves")
                \/ /\ ~Overfull(Len(grown), allocated) /\ more
                   /\ level' = level + 1 /\ max_allocated' = allocated
                   /\ UNCHANGED <<pc, res>>
                \/ /\ ~Overfull(Len(grown), allocated) /\ ~more
                   /\ Incomplete(Len(grown), allocated)
                   /\ Ends("missing some leaves")
                \/ /\ ~Overfull(Len(grown), allocated) /\ ~more
                   /\ ~Incomplete(Len(grown), allocated)
                   /\ Ends("ok")
     /\ UNCHANGED lens /\ UNCHANGED reading

-----------------------------------------------------------------------------
(* read_entry on a tree that was built or set. *)
ReadEntry ==
  /\ pc = "idle" /\ res \in {"ok", "single"}
  /\ pc' = "read" /\ node' = 0 /\ path' = 0 /\ depth' = 0
  /\ UNCHANGED <<tree, lens, max_allocated, level, res>>

(* A branch that takes bit 1 to the left. *)
ChildSwapped(index, bit) == index + 1 - bit

(* index + path.read_bits(1) *)
Child(index, bit) == index + bit

ReadBit(bit) ==
  /\ pc = "read" /\ ~tree[node+1].leaf
  /\ node' = Child(tree[node+1].arg, bit)
  /\ path' = 2 * path + bit /\ depth' = depth + 1
  /\ UNCHANGED <<tree, lens, max_allocated, level, pc, res>>

(* A leaf is met, or the bits run out. *)
ReadReturns ==
  /\ pc = "read"
  /\ pc' = "idle" /\ node' = 0 /\ path' = 0 /\ depth' = 0
  /\ UNCHANGED <<tree, lens, max_allocated, level, res>>

Next ==
  \/ \E value \in Singles : SetSingle(value)
  \/ \E ls \in Lengths : BuildTree(ls)
  \/ BuildLevel
  \/ LengthOverflows
  \/ ReadEntry
  \/ \E bit \in {0, 1} : ReadBit(bit)
  \/ ReadReturns

Spec == Init /\ [][Next]_vars

-----------------------------------------------------------------------------
(* Reference definitions.  A code is complete when its Kraft sum is 1; the *)
(* canonical code numbers the values by length, then by value.             *)
Pow2[n \in 0..255] == IF n = 0 THEN 1 ELSE 2 * Pow2[n - 1]

(* The sum of w[0] .. w[n-1]. *)
SumTo(w, n) ==
  LET upto[m \in 0..n] == IF m = 0 THEN 0 ELSE upto[m - 1] + w[m - 1]
  IN upto[n]

Coded(ls)   == {v \in 0..Len(ls)-1 : ls[v+1] > 0}
Longest(ls) == IF Coded(ls) = {} THEN 0
               ELSE CHOOSE m \in {ls[v+1] : v \in Coded(ls)} : \A v \in Coded(ls) : ls[v+1] <= m

(* Of the nodes a level has room for, those the codes up to it take. *)
Share(ls, len) ==
  [v \in 0..Len(ls)-1 |-> IF ls[v+1] \in 1..len THEN Pow2[len - ls[v+1]] ELSE 0]
RoomTaken(ls, len) == SumTo(Share(ls, len), Len(ls))
IsComplete(ls) ==
  /\ Longest(ls) < Cardinality(Coded(ls))  \* a tree with n leaves has depth at most n - 1
  /\ RoomTaken(ls, Longest(ls)) = Pow2[Longest(ls)]

(* The codes that precede a value's code, each counted at its length. *)
Precedes(ls, u, v) == ls[u+1] < ls[v+1] \/ (ls[u+1] = ls[v+1] /\ u < v)
Skipped(ls, v) ==
  [u \in 0..Len(ls)-1 |->
     IF u \in Coded(ls) /\ Precedes(ls, u, v) THEN Pow2[ls[v+1] - ls[u+1]] ELSE 0]
CanonicalCode(ls, v) == SumTo(Skipped(ls, v), Len(ls))

(* While a tree is built its nodes fit the index range of an entry, and no *)
(* level lies past the last that a u8 can count.                           *)
TypeOK ==
  /\ tree \in Seq([leaf: BOOLEAN, arg: Nat])
  /\ \A i \in 1..Len(tree) : ~tree[i].leaf => tree[i].arg <= MaxIndex
  /\ pc \in {"idle", "build", "read"}
  /\ level \in 0..255 /\ max_allocated \in 0..MaxIndex+2 /\ node \in Nat

(* build_tree, if it returns, has succeeded exactly on the tables of a     *)
(* complete prefix code, those whose Kraft sum is one, among those that    *)
(* pass the code's check of their size.  It does not return, in a build    *)
(* with overflow checks, only if some length is the last there is.         *)
BuildAcceptsCompleteCodes ==
  /\ pc = "idle" /\ res \notin {"none", "single", "panic"} =>
       (res = "ok" <=> ~TooManyLengths(Len(lens)) /\ IsComplete(lens))
  /\ res = "panic" => \E i \in DOMAIN lens : lens[i] = LastLevel

(* read_entry decodes the canonical code: the bits that lead to a leaf are *)
(* the canonical code of its value, as long as the table says.             *)
ReadsCanonicalCodes ==
  pc = "read" /\ res = "ok" /\ node < Len(tree) /\ tree[node+1].leaf =>
    LET v == tree[node+1].arg
    IN depth = lens[v+1] /\ path = CanonicalCode(lens, v)

(* Following any bits never leaves the array, which read_entry does not    *)
(* check in a release build.                                               *)
StaysInTree == pc = "read" => node < Len(tree)
=============================================================================
