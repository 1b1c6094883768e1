--------------------------- MODULE HuffTreeProofs ---------------------------
(***************************************************************************)
(* Proofs about HuffTree, for every table of code lengths and every        *)
(* largest index: reading never leaves the array, the bits that lead to a  *)
(* value are its canonical code, and build_tree accepts exactly the tables *)
(* of complete codes.                                                      *)
(***************************************************************************)
EXTENDS HuffTree, FiniteSetTheorems, SequenceTheorems, WellFoundedInduction, TLAPS

-----------------------------------------------------------------------------
(* The values of one length, in order. *)

(* A set of natural numbers that is not empty has a least element. *)
LEMMA Least ==
  ASSUME NEW S \in SUBSET Nat, S # {}
  PROVE  \E x \in S : \A y \in S : x <= y
<1> DEFINE R == OpToRel(<, Nat)
<1>1. IsWellFoundedOn(R, Nat)
  BY ONLY NatLessThanWellFounded, Zenon
<1>2. PICK x \in S : \A y \in S : ~ (<<y, x>> \in R)
  <2> HIDE DEF R
  <2> QED BY ONLY WFMin, <1>1, S \subseteq Nat, S # {}, Zenon
<1>3. \A y \in S : ~(y < x)
  BY <1>2 DEF OpToRel
<1> QED BY <1>3, SMT

(* Counting the members below m: none at 0, all at an upper bound, and one *)
(* more, or none, at each step.                                            *)
LEMMA BeforeSteps ==
  ASSUME NEW n \in Nat, NEW S \in SUBSET (0..n-1)
  PROVE  /\ IsFiniteSet(S) /\ Before(S, 0) = 0 /\ Before(S, n) = Cardinality(S)
         /\ \A m \in Nat : /\ Before(S, m) \in Nat
                           /\ Before(S, m + 1) = IF m \in S THEN Before(S, m) + 1 ELSE Before(S, m)
<1>0. \A u \in S : u \in Nat /\ u < n
  OBVIOUS
<1>1. IsFiniteSet(S)
  <2>1. IsFiniteSet(0..n-1)
    BY FS_Interval
  <2> QED BY <2>1, FS_Subset
<1>2. \A m : IsFiniteSet({u \in S : u < m}) /\ Before(S, m) \in Nat
  <2> SUFFICES ASSUME NEW m PROVE IsFiniteSet({u \in S : u < m}) /\ Before(S, m) \in Nat
    OBVIOUS
  <2>1. {u \in S : u < m} \in SUBSET S
    OBVIOUS
  <2>2. IsFiniteSet({u \in S : u < m})
    BY <1>1, <2>1, FS_Subset
  <2> QED BY <2>2, FS_CardinalityType DEF Before
<1>3. Before(S, 0) = 0
  <2>1. {u \in S : u < 0} = {}
    <3>1. \A u \in S : ~(u < 0)
      BY <1>0
    <3> QED BY <3>1, Zenon
  <2> QED BY <2>1, FS_EmptySet DEF Before
<1>4. Before(S, n) = Cardinality(S)
  <2>1. {u \in S : u < n} = S
    BY <1>0
  <2> QED BY <2>1 DEF Before
<1>5. ASSUME NEW m \in Nat
      PROVE  Before(S, m + 1) = IF m \in S THEN Before(S, m) + 1 ELSE Before(S, m)
  <2> DEFINE T == {u \in S : u < m}
             U == {u \in S : u < m + 1}
  <2>0. \A u \in S : u < m + 1 <=> (u < m \/ u = m)
    BY <1>0
  <2>1. IsFiniteSet(T) /\ m \notin T
    BY <1>2
  <2>2. CASE m \in S
    <3>1. U = T \cup {m}
      BY <2>0, <2>2, Zenon
    <3>2. Cardinality(T \cup {m}) = Cardinality(T) + 1
      <4> HIDE DEF T
      <4> QED BY ONLY <2>1, FS_AddElement
    <3> QED BY <2>2, <3>1, <3>2 DEF Before
  <2>3. CASE m \notin S
    <3>1. U = T
      BY <2>0, <2>3, Zenon
    <3> QED BY <2>3, <3>1 DEF Before
  <2> QED BY <2>2, <2>3
<1> QED BY <1>1, <1>2, <1>3, <1>4, <1>5

(* Of the members of S, some one has exactly k - 1 before it. *)
LEMMA KthExists ==
  ASSUME NEW n \in Nat, NEW S \in SUBSET (0..n-1), NEW k \in 1..Cardinality(S)
  PROVE  \E v \in S : Before(S, v) = k - 1
<1> DEFINE M == {m \in Nat : Before(S, m) >= k}
<1>1. /\ IsFiniteSet(S) /\ Before(S, 0) = 0 /\ Before(S, n) = Cardinality(S)
      /\ \A m \in Nat : /\ Before(S, m) \in Nat
                        /\ Before(S, m + 1) = IF m \in S THEN Before(S, m) + 1 ELSE Before(S, m)
  BY ONLY n \in Nat, S \in SUBSET (0..n-1), BeforeSteps
<1>2. Cardinality(S) \in Nat
  BY <1>1, FS_CardinalityType
<1>3. n \in M /\ M \in SUBSET Nat /\ M # {}
  BY <1>1, <1>2
<1>4. PICK m \in M : \A y \in M : m <= y
  <2> HIDE DEF M
  <2> QED BY <1>3, Least
<1>5. m \in Nat /\ m # 0 /\ Before(S, m) >= k
  BY <1>1, <1>2, <1>4
<1>6. PICK p \in Nat : m = p + 1
  BY <1>5
<1>7. p \notin M
  BY <1>4, <1>6
<1>8. Before(S, p) < k /\ Before(S, p) \in Nat
  BY <1>1, <1>2, <1>7
<1> QED BY <1>1, <1>2, <1>5, <1>6, <1>8

(* The values of a level are those with that length, in order. *)
LEMMA ValuesType ==
  ASSUME lens \in Seq(Nat), NEW len
  PROVE  /\ Len(Values(len)) \in Nat /\ Len(Values(len)) = Cardinality(ValuesWith(len))
         /\ Values(len) \in Seq(ValuesWith(len))
         /\ \A k \in 1..Len(Values(len)) :
              /\ Values(len)[k] \in ValuesWith(len)
              /\ Before(ValuesWith(len), Values(len)[k]) = k - 1
<1> DEFINE S == ValuesWith(len)
           n == Len(lens)
           c == Cardinality(S)
<1>1. n \in Nat /\ S \in SUBSET (0..n-1)
  BY DEF ValuesWith
<1>2. IsFiniteSet(S) /\ c \in Nat
  <2> HIDE DEF S, n
  <2>1. IsFiniteSet(S)
    BY <1>1, BeforeSteps
  <2> QED BY <2>1, FS_CardinalityType
<1>3. Values(len) = [k \in 1..c |-> CHOOSE v \in S : Before(S, v) = k - 1]
  BY DEF Values
<1> HIDE DEF S, n, c
<1>4. ASSUME NEW k \in 1..c
      PROVE  /\ (CHOOSE v \in S : Before(S, v) = k - 1) \in S
             /\ Before(S, CHOOSE v \in S : Before(S, v) = k - 1) = k - 1
  <2>1. \E v \in S : Before(S, v) = k - 1
    BY <1>1, KthExists DEF c
  <2> QED BY <2>1
<1>5. Values(len) \in [1..c -> S]
  BY <1>3, <1>4
<1>6. Values(len) \in Seq(S)
  BY <1>2, <1>5, SeqDef
<1>7. DOMAIN Values(len) = 1..c /\ DOMAIN Values(len) = 1..Len(Values(len)) /\ Len(Values(len)) \in Nat
  BY <1>5, <1>6, LenProperties
<1>8. Len(Values(len)) = c
  BY ONLY <1>2, <1>7
<1>9. ASSUME NEW k \in 1..c PROVE Values(len)[k] \in S /\ Before(S, Values(len)[k]) = k - 1
  <2>1. Values(len)[k] = CHOOSE v \in S : Before(S, v) = k - 1
    BY ONLY <1>3, k \in 1..c
  <2> QED BY ONLY <1>4, <2>1, k \in 1..c
<1> QED BY ONLY <1>6, <1>7, <1>8, <1>9 DEF S, c

-----------------------------------------------------------------------------
(* The inductive invariant. *)

Entry == [leaf: BOOLEAN, arg: Nat]

(* D gives the nodes below n their depths: the root has depth 0, both      *)
(* children of a branch are nodes one deeper, and a leaf is as deep as the *)
(* code of its value is long.                                              *)
Depths(D, n) ==
  /\ D \in [0..n-1 -> Nat] /\ D[0] = 0
  /\ \A i \in 1..Len(tree) :
       /\ tree[i].leaf  => tree[i].arg \in ValuesWith(D[i - 1])
       /\ ~tree[i].leaf => /\ tree[i].arg + 1 < n
                           /\ D[tree[i].arg] = D[i - 1] + 1
                           /\ D[tree[i].arg + 1] = D[i - 1] + 1

(* Between two levels every node that is promised but not there yet is to  *)
(* be on the level above the next one.                                     *)
Building ==
  pc = "build" =>
    /\ res = "none" /\ lens \in Seq(0..255)
    /\ level >= 1 /\ max_allocated >= 1 /\ Len(tree) <= max_allocated
    /\ \E D \in [0..max_allocated-1 -> Nat] :
         /\ Depths(D, max_allocated)
         /\ \A i \in Len(tree)..max_allocated-1 : D[i] = level - 1

(* A tree that was built keeps every promise, and read_entry stands on a   *)
(* node at the depth of the bits it has read.                              *)
Built ==
  pc # "build" /\ res = "ok" =>
    /\ Len(tree) >= 1
    /\ \E D \in [0..Len(tree)-1 -> Nat] :
         /\ Depths(D, Len(tree))
         /\ pc = "read" => node < Len(tree) /\ D[node] = depth

Single == res = "single" => Len(tree) = 1 /\ tree[1].leaf = TRUE

Reading == pc = "read" => res \in {"ok", "single"} /\ (res = "single" => node = 0)

TreeInv ==
  /\ TypeOK /\ lens \in Seq(Nat) /\ depth \in Nat
  /\ Building /\ Built /\ Single /\ Reading

(* A new tree is empty. *)
LEMMA InitTree == Init => TreeInv
<1> SUFFICES ASSUME Init PROVE TreeInv
  OBVIOUS
<1>1. tree = <<>> /\ lens = <<>> /\ max_allocated = 0 /\ level = 0 /\ pc = "idle"
      /\ res = "none" /\ node = 0 /\ depth = 0
  BY DEF Init
<1>2. TypeOK
  BY <1>1, EmptySeq, MaxIndexAssumption DEF TypeOK
<1>3. lens \in Seq(Nat)
  BY <1>1, EmptySeq
<1> QED BY <1>1, <1>2, <1>3 DEF TreeInv, Building, Built, Single, Reading

(* set_single leaves a tree of one leaf. *)
LEMMA SetSingleStep ==
  ASSUME TreeInv, NEW value \in Singles, SetSingle(value)
  PROVE  TreeInv'
<1>1. pc = "idle" /\ tree' = <<Leaf(value)>> /\ lens' = <<value>> /\ res' = "single"
      /\ UNCHANGED <<max_allocated, level, pc, node, path, depth>> /\ value \in Nat
  BY SinglesAssumption DEF SetSingle, reading
<1>2. Leaf(value) \in Entry /\ Leaf(value).leaf = TRUE
  BY <1>1 DEF Leaf, Entry
<1>3. tree' \in Seq(Entry) /\ Len(tree') = 1 /\ tree'[1].leaf = TRUE /\ lens' \in Seq(Nat)
  BY <1>1, <1>2
<1>4. TypeOK'
  <2>1. \A i \in 1..Len(tree') : ~tree'[i].leaf => tree'[i].arg <= MaxIndex
    BY <1>3
  <2> QED BY <1>1, <1>3, <2>1 DEF TreeInv, TypeOK, Entry
<1> QED BY <1>1, <1>3, <1>4 DEF TreeInv, Building, Built, Single, Reading

(* build_tree begins with a promised root and nothing else. *)
LEMMA BuildTreeStep ==
  ASSUME TreeInv, NEW ls \in Lengths, BuildTree(ls)
  PROVE  TreeInv'
<1>1. pc = "idle" /\ lens' = ls /\ UNCHANGED <<node, path, depth>> /\ ls \in Seq(0..255)
  BY LengthsAssumption DEF BuildTree, reading
<1>2. lens' \in Seq(Nat) /\ lens' \in Seq(0..255)
  <2>1. 0..255 \subseteq Nat
    OBVIOUS
  <2> QED BY <1>1, <2>1, SeqMonotonic
<1>3. CASE TooManyLengths(Len(ls))
  <2>1. res' = "too many code lengths" /\ UNCHANGED <<tree, max_allocated, level, pc>>
    BY <1>3 DEF BuildTree
  <2> QED BY <1>1, <1>2, <2>1 DEF TreeInv, TypeOK, Building, Built, Single, Reading
<1>4. CASE ~TooManyLengths(Len(ls))
  <2>1. tree' = <<>> /\ max_allocated' = 1 /\ level' = 1 /\ pc' = "build" /\ res' = "none"
    BY <1>4 DEF BuildTree
  <2>2. tree' \in Seq(Entry) /\ Len(tree') = 0
    BY <2>1, EmptySeq
  <2>3. TypeOK'
    BY <1>1, <2>1, <2>2, MaxIndexAssumption DEF TreeInv, TypeOK, Entry
  <2>4. PICK D \in [0..0 -> Nat] : D[0] = 0
    <3> DEFINE f == [i \in 0..0 |-> 0]
    <3>1. f \in [0..0 -> Nat] /\ f[0] = 0
      OBVIOUS
    <3> HIDE DEF f
    <3> QED BY <3>1
  <2>5. Depths(D, max_allocated)'
    BY <2>1, <2>2, <2>4 DEF Depths
  <2>6. Building'
    BY <1>2, <2>1, <2>2, <2>4, <2>5 DEF Building
  <2> QED BY <1>1, <1>2, <2>1, <2>3, <2>6 DEF TreeInv, Built, Single, Reading
<1> QED BY <1>3, <1>4

-----------------------------------------------------------------------------
(* One level of build_tree. *)

Missing == max_allocated - Len(tree)
Allocated == max_allocated + 2 * Missing
NewLeaves == [k \in 1..Len(Values(level)) |-> Leaf(Values(level)[k])]
Grown == tree \o NewBranches(Missing) \o NewLeaves

(* The array after a level: what was there, a branch for every promised    *)
(* node, and the leaves of the level.                                      *)
LEMMA GrownParts ==
  ASSUME TreeInv, pc = "build"
  PROVE  /\ max_allocated \in Nat /\ Len(tree) \in Nat /\ Missing \in Nat
         /\ Grown \in Seq(Entry)
         /\ Len(Grown) \in Nat /\ Len(Grown) >= max_allocated
         /\ \A i \in 1..Len(tree) : Grown[i] = tree[i]
         /\ \A i \in (Len(tree) + 1)..max_allocated :
              /\ Grown[i].leaf = FALSE
              /\ Grown[i].arg = max_allocated + 2 * (i - Len(tree) - 1)
         /\ \A i \in (max_allocated + 1)..Len(Grown) :
              /\ Grown[i].leaf = TRUE /\ Grown[i].arg \in ValuesWith(level)
              /\ Before(ValuesWith(level), Grown[i].arg) = i - max_allocated - 1
         /\ Len(Grown) = max_allocated + Cardinality(ValuesWith(level))
<1>1. tree \in Seq(Entry) /\ Len(tree) \in Nat /\ max_allocated \in Nat /\ Len(tree) <= max_allocated
      /\ lens \in Seq(Nat)
  BY DEF TreeInv, TypeOK, Building, Entry
<1> DEFINE A == NewBranches(Missing)
           B == NewLeaves
           m == max_allocated
           t == Len(tree)
<1>2. Missing \in Nat /\ Missing = m - t
  BY <1>1 DEF Missing
<1>3. A \in Seq(Entry) /\ Len(A) = Missing
      /\ \A k \in 1..Missing : A[k].leaf = FALSE /\ A[k].arg = m + 2 * (k - 1)
  <2>1. A = [k \in 1..Missing |-> Branch(m + 2 * (k - 1))]
    BY DEF NewBranches
  <2> HIDE DEF A
  <2>2. \A k \in 1..Missing : Branch(m + 2 * (k - 1)) \in Entry
    BY <1>1, <1>2 DEF Branch, Entry
  <2>3. A \in [1..Missing -> Entry]
    BY <2>1, <2>2
  <2>4. A \in Seq(Entry)
    BY <1>2, <2>3, SeqDef
  <2>5. DOMAIN A = 1..Missing /\ DOMAIN A = 1..Len(A) /\ Len(A) \in Nat
    BY <2>3, <2>4, LenProperties
  <2>6. Len(A) = Missing
    BY <1>2, <2>5
  <2> QED BY <2>1, <2>4, <2>6 DEF Branch
<1>4. /\ B \in Seq(Entry) /\ Len(B) \in Nat /\ Len(B) = Cardinality(ValuesWith(level))
      /\ \A k \in 1..Len(B) : /\ B[k].leaf = TRUE /\ B[k].arg \in ValuesWith(level)
                             /\ Before(ValuesWith(level), B[k].arg) = k - 1
  <2> DEFINE n == Len(Values(level))
  <2>1. /\ n \in Nat /\ n = Cardinality(ValuesWith(level))
        /\ \A k \in 1..n : /\ Values(level)[k] \in ValuesWith(level)
                          /\ Before(ValuesWith(level), Values(level)[k]) = k - 1
    BY <1>1, ValuesType
  <2>2. B = [k \in 1..n |-> Leaf(Values(level)[k])]
    BY DEF NewLeaves
  <2>3. ValuesWith(level) \subseteq Nat
    BY <1>1 DEF ValuesWith
  <2> HIDE DEF n, B
  <2>4. \A k \in 1..n : Leaf(Values(level)[k]) \in Entry
    BY <2>1, <2>3 DEF Leaf, Entry
  <2>5. B \in [1..n -> Entry]
    BY <2>2, <2>4
  <2>6. B \in Seq(Entry)
    BY <2>1, <2>5, SeqDef
  <2>7. DOMAIN B = 1..n /\ DOMAIN B = 1..Len(B) /\ Len(B) \in Nat
    BY <2>5, <2>6, LenProperties
  <2>8. Len(B) = n
    BY <2>1, <2>7
  <2> QED BY <2>1, <2>2, <2>6, <2>8 DEF Leaf
<1>5. Grown = tree \o A \o B
  BY DEF Grown
<1> HIDE DEF A, B
<1> DEFINE C == tree \o A
<1>6. C \in Seq(Entry) /\ Len(C) = t + Len(A)
      /\ \A i \in 1..(t + Len(A)) : C[i] = IF i <= t THEN tree[i] ELSE A[i - t]
  BY <1>1, <1>3, ConcatProperties
<1>7. Len(C) = m
  BY <1>1, <1>2, <1>3, <1>6
<1>8. Grown = C \o B
  BY <1>5
<1> HIDE DEF C
<1>9. Grown \in Seq(Entry) /\ Len(Grown) = m + Len(B)
      /\ \A i \in 1..(m + Len(B)) : Grown[i] = IF i <= m THEN C[i] ELSE B[i - m]
  BY <1>4, <1>6, <1>7, <1>8, ConcatProperties
<1>10. Len(Grown) \in Nat /\ Len(Grown) >= m
  BY <1>1, <1>4, <1>9
<1>11. ASSUME NEW i \in 1..t PROVE Grown[i] = tree[i]
  BY <1>1, <1>2, <1>3, <1>4, <1>6, <1>9
<1>12. ASSUME NEW i \in (t + 1)..m
       PROVE  Grown[i].leaf = FALSE /\ Grown[i].arg = m + 2 * (i - t - 1)
  <2>1. i - t \in 1..Missing /\ i \in 1..(m + Len(B)) /\ i <= m /\ i \in 1..(t + Len(A)) /\ ~(i <= t)
    BY <1>1, <1>2, <1>3, <1>4
  <2>2. Grown[i] = A[i - t]
    BY <1>6, <1>9, <2>1
  <2> QED BY <1>3, <2>1, <2>2
<1>13. ASSUME NEW i \in (m + 1)..Len(Grown)
       PROVE  /\ Grown[i].leaf = TRUE /\ Grown[i].arg \in ValuesWith(level)
              /\ Before(ValuesWith(level), Grown[i].arg) = i - m - 1
  <2>1. i \in 1..(m + Len(B)) /\ ~(i <= m) /\ i - m \in 1..Len(B)
    BY <1>1, <1>4, <1>9
  <2>2. Grown[i] = B[i - m]
    BY <1>9, <2>1
  <2> QED BY <1>4, <2>1, <2>2
<1>14. Len(Grown) = m + Cardinality(ValuesWith(level))
  BY ONLY <1>4, <1>9
<1> QED BY <1>1, <1>2, <1>9, <1>10, <1>11, <1>12, <1>13, <1>14

(* The outcomes of a level. *)
LEMMA BuildLevelCases ==
  ASSUME TreeInv, BuildLevel
  PROVE  /\ pc = "build" /\ UNCHANGED <<lens, node, path, depth>>
         /\ \/ /\ tree' = <<>> /\ pc' = "idle" /\ max_allocated' = 0 /\ level' = 0
               /\ res' = "tree index out of range"
            \/ /\ tree' = Grown /\ (Missing > 0 => max_allocated + 2 * (Missing - 1) <= MaxIndex)
               /\ pc' = "idle" /\ max_allocated' = 0 /\ level' = 0
               /\ res' \in {"too many leaves", "missing some leaves"}
            \/ /\ tree' = Grown /\ (Missing > 0 => max_allocated + 2 * (Missing - 1) <= MaxIndex)
               /\ Len(Grown) <= Allocated /\ MoreLeaves(level)
               /\ level' = level + 1 /\ max_allocated' = Allocated
               /\ UNCHANGED <<pc, res>>
            \/ /\ tree' = Grown /\ (Missing > 0 => max_allocated + 2 * (Missing - 1) <= MaxIndex)
               /\ Len(Grown) = Allocated
               /\ pc' = "idle" /\ max_allocated' = 0 /\ level' = 0 /\ res' = "ok"
<1>1. pc = "build" /\ UNCHANGED <<lens, node, path, depth>>
  BY DEF BuildLevel, reading
<1>2. max_allocated \in Nat /\ Missing \in Nat /\ Len(Grown) \in Nat /\ Allocated \in Nat
      /\ MaxIndex \in Nat
  BY <1>1, GrownParts, MaxIndexAssumption DEF Allocated
<1> DEFINE Last == max_allocated + 2 * (Missing - 1)
<1>3. /\ (Missing > 0 /\ Last > MaxIndex) =>
            /\ tree' = <<>> /\ pc' = "idle" /\ res' = "tree index out of range"
            /\ max_allocated' = 0 /\ level' = 0
      /\ ~(Missing > 0 /\ Last > MaxIndex) =>
            /\ tree' = Grown
            /\ \/ /\ Len(Grown) > Allocated
                  /\ pc' = "idle" /\ res' = "too many leaves" /\ max_allocated' = 0 /\ level' = 0
               \/ /\ ~(Len(Grown) > Allocated) /\ MoreLeaves(level)
                  /\ level' = level + 1 /\ max_allocated' = Allocated /\ UNCHANGED <<pc, res>>
               \/ /\ pc' = "idle" /\ res' = "missing some leaves" /\ max_allocated' = 0 /\ level' = 0
               \/ /\ ~(Len(Grown) # Allocated)
                  /\ pc' = "idle" /\ res' = "ok" /\ max_allocated' = 0 /\ level' = 0
  BY DEF BuildLevel, Missing, Allocated, Grown, NewLeaves, Overfull, Incomplete
<1>4. CASE Missing > 0 /\ Last > MaxIndex
  BY <1>1, <1>3, <1>4
<1>5. CASE ~(Missing > 0 /\ Last > MaxIndex)
  <2>1. Missing > 0 => Last <= MaxIndex
    BY <1>2, <1>5
  <2>2. ~(Len(Grown) > Allocated) => Len(Grown) <= Allocated
    BY <1>2
  <2> QED BY <1>1, <1>3, <1>5, <2>1, <2>2
<1> QED BY <1>4, <1>5

(* The grown array keeps the indices of branches in range. *)
LEMMA GrownType ==
  ASSUME TreeInv, pc = "build", Missing > 0 => max_allocated + 2 * (Missing - 1) <= MaxIndex
  PROVE  /\ Allocated \in Nat /\ Allocated <= MaxIndex + 2
         /\ \A i \in 1..Len(Grown) : ~Grown[i].leaf => Grown[i].arg <= MaxIndex
<1>1. max_allocated \in Nat /\ Len(tree) \in Nat /\ Missing \in Nat /\ Len(Grown) \in Nat
  BY GrownParts
<1>2. MaxIndex \in Nat /\ max_allocated <= MaxIndex + 2
      /\ \A i \in 1..Len(tree) : ~tree[i].leaf => tree[i].arg <= MaxIndex
  BY MaxIndexAssumption DEF TreeInv, TypeOK
<1>3. Allocated \in Nat /\ Allocated <= MaxIndex + 2
  BY <1>1, <1>2 DEF Allocated
<1>4. ASSUME NEW i \in 1..Len(Grown), ~Grown[i].leaf PROVE Grown[i].arg <= MaxIndex
  <2>1. CASE i \in 1..Len(tree)
    BY <1>2, <1>4, <2>1, GrownParts
  <2>2. CASE i \in (Len(tree) + 1)..max_allocated
    <3>1. Grown[i].arg = max_allocated + 2 * (i - Len(tree) - 1)
      BY <2>2, GrownParts
    <3>2. Missing > 0 /\ i - Len(tree) <= Missing /\ i \in Nat
      BY <1>1, <2>2 DEF Missing
    <3> QED BY <1>1, <1>2, <3>1, <3>2
  <2>3. CASE i \in (max_allocated + 1)..Len(Grown)
    BY <1>4, <2>3, GrownParts
  <2> QED BY <1>1, <2>1, <2>2, <2>3
<1> QED BY <1>3, <1>4

(* The new nodes are one level deeper than the branches that promise them. *)
LEMMA GrownDepths ==
  ASSUME TreeInv, pc = "build", tree' = Grown, UNCHANGED lens,
         NEW al \in Nat, al = Allocated, Len(Grown) <= al
  PROVE  \E D \in [0..al-1 -> Nat] :
           /\ Depths(D, al)'
           /\ \A i \in Len(Grown)..al-1 : D[i] = level
<1>1. max_allocated \in Nat /\ Len(tree) \in Nat /\ Missing \in Nat /\ Len(Grown) \in Nat
      /\ Len(Grown) >= max_allocated /\ max_allocated >= 1 /\ level \in Nat
      /\ Missing = max_allocated - Len(tree)
  <2>1. max_allocated >= 1 /\ level \in Nat
    BY DEF TreeInv, TypeOK, Building
  <2> QED BY <2>1, GrownParts DEF Missing
<1>2. PICK D \in [0..max_allocated-1 -> Nat] :
         /\ Depths(D, max_allocated)
         /\ \A i \in Len(tree)..max_allocated-1 : D[i] = level - 1
  BY DEF TreeInv, Building
<1>4. al = max_allocated + 2 * Missing /\ al >= max_allocated
  BY <1>1 DEF Allocated
<1>5. PICK E \in [0..al-1 -> Nat] :
         \A i \in 0..al-1 : E[i] = IF i < max_allocated THEN D[i] ELSE level
  <2> DEFINE f == [i \in 0..al-1 |-> IF i < max_allocated THEN D[i] ELSE level]
  <2>1. f \in [0..al-1 -> Nat] /\ \A i \in 0..al-1 : f[i] = IF i < max_allocated THEN D[i] ELSE level
    BY <1>1, <1>2
  <2> HIDE DEF f
  <2> QED BY <2>1
<1>6. E[0] = 0
  BY <1>1, <1>2, <1>4, <1>5 DEF Depths
<1>7. ASSUME NEW i \in 1..Len(Grown)
      PROVE  /\ Grown[i].leaf  => Grown[i].arg \in ValuesWith(E[i - 1])
             /\ ~Grown[i].leaf => /\ Grown[i].arg + 1 < al
                                  /\ E[Grown[i].arg] = E[i - 1] + 1
                                  /\ E[Grown[i].arg + 1] = E[i - 1] + 1
  <2>1. CASE i \in 1..Len(tree)
    <3>1. Grown[i] = tree[i] /\ tree[i].arg \in Nat
      <4>1. tree \in Seq(Entry)
        BY DEF TreeInv, TypeOK, Entry
      <4>2. tree[i] \in Entry
        BY <2>1, <4>1, ElementOfSeq
      <4>3. tree[i].arg \in Nat
        BY <4>2 DEF Entry
      <4> QED BY <2>1, <4>3, GrownParts
    <3>2. i - 1 \in 0..al-1 /\ i - 1 < max_allocated /\ i - 1 \in 0..max_allocated-1
      BY <1>1, <1>4, <2>1
    <3>3. E[i - 1] = D[i - 1]
      BY <1>5, <3>2
    <3>4. CASE tree[i].leaf
      BY <1>2, <2>1, <3>1, <3>3, <3>4 DEF Depths
    <3>5. CASE ~tree[i].leaf
      <4>1. tree[i].arg + 1 < max_allocated /\ D[tree[i].arg] = D[i - 1] + 1
            /\ D[tree[i].arg + 1] = D[i - 1] + 1
        BY <1>2, <2>1, <3>5 DEF Depths
      <4>2. tree[i].arg \in 0..al-1 /\ tree[i].arg < max_allocated
            /\ tree[i].arg + 1 \in 0..al-1 /\ tree[i].arg + 1 < al
        <5>1. PICK a \in Nat : a = tree[i].arg
          BY <3>1
        <5>3. a + 1 < max_allocated
          BY <4>1, <5>1
        <5>2. a \in 0..al-1 /\ a < max_allocated /\ a + 1 \in 0..al-1 /\ a + 1 < al
          BY <1>1, <1>4, <5>3
        <5> QED BY <5>1, <5>2
      <4> QED BY <1>5, <3>1, <3>3, <3>5, <4>1, <4>2
    <3> QED BY <3>4, <3>5
  <2>2. CASE i \in (Len(tree) + 1)..max_allocated
    <3>1. Grown[i].leaf = FALSE /\ Grown[i].arg = max_allocated + 2 * (i - Len(tree) - 1)
      BY <2>2, GrownParts
    <3>2. PICK a \in Nat : a = max_allocated + 2 * (i - Len(tree) - 1)
      BY <1>1, <2>2
    <3>3. a + 1 < al /\ a >= max_allocated /\ a \in 0..al-1 /\ a + 1 \in 0..al-1
      BY <1>1, <1>4, <2>2, <3>2
    <3>4. E[a] = level /\ E[a + 1] = level
      BY <1>1, <1>5, <3>3
    <3>5. i - 1 \in Len(tree)..max_allocated-1 /\ i - 1 \in 0..al-1 /\ i - 1 < max_allocated
      BY <1>1, <1>4, <2>2
    <3>6. E[i - 1] = level - 1
      BY <1>2, <1>5, <3>5
    <3>7. E[i - 1] + 1 = level
      BY <1>1, <3>6
    <3> QED BY <3>1, <3>2, <3>3, <3>4, <3>7
  <2>3. CASE i \in (max_allocated + 1)..Len(Grown)
    <3>1. Grown[i].leaf = TRUE /\ Grown[i].arg \in ValuesWith(level)
      BY <2>3, GrownParts
    <3>2. i - 1 \in 0..al-1 /\ ~(i - 1 < max_allocated)
      BY <1>1, <2>3
    <3>3. E[i - 1] = level
      BY <1>5, <3>2
    <3> QED BY <3>1, <3>3
  <2> QED BY <1>1, <2>1, <2>2, <2>3
<1>8. \A k : ValuesWith(k)' = ValuesWith(k)
  BY DEF ValuesWith
<1>9. Depths(E, al)'
  BY <1>5, <1>6, <1>7, <1>8 DEF Depths
<1>10. \A i \in Len(Grown)..al-1 : E[i] = level
  BY <1>1, <1>5
<1> QED BY <1>9, <1>10

(* A turn of the loop over the code lengths keeps the invariant. *)
LEMMA BuildLevelStep ==
  ASSUME TreeInv, BuildLevel
  PROVE  TreeInv'
<1>1. pc = "build" /\ UNCHANGED <<lens, node, path, depth>> /\ res = "none"
      /\ lens \in Seq(Nat) /\ lens \in Seq(0..255) /\ depth \in Nat /\ node \in Nat
  <2>1. pc = "build" /\ UNCHANGED <<lens, node, path, depth>>
    BY BuildLevelCases
  <2> QED BY <2>1 DEF TreeInv, TypeOK, Building
<1>2. CASE tree' = <<>> /\ pc' = "idle" /\ max_allocated' = 0 /\ level' = 0
           /\ res' = "tree index out of range"
  <2>1. tree' \in Seq(Entry) /\ Len(tree') = 0
    BY <1>2, EmptySeq
  <2>2. TypeOK'
    <3>1. level' \in 0..255 /\ max_allocated' \in 0..MaxIndex+2
      <4>1. 0 \in 0..255 /\ 0 \in 0..MaxIndex+2
        BY MaxIndexAssumption
      <4> QED BY <1>2, <4>1, Zenon
    <3>2. node' \in Nat /\ pc' \in {"idle", "build", "read"}
      BY <1>1, <1>2
    <3> QED BY <2>1, <3>1, <3>2 DEF TypeOK, Entry
  <2> QED BY <1>1, <1>2, <2>2 DEF TreeInv, Building, Built, Single, Reading
<1>3. CASE tree' = Grown /\ (Missing > 0 => max_allocated + 2 * (Missing - 1) <= MaxIndex)
  <2>1. Grown \in Seq(Entry) /\ Len(Grown) \in Nat /\ max_allocated \in Nat
        /\ Len(Grown) >= max_allocated /\ max_allocated >= 1 /\ Missing \in Nat
    <3>1. max_allocated >= 1
      BY <1>1 DEF TreeInv, Building
    <3> QED BY <1>1, <3>1, GrownParts
  <2>2. \A i \in 1..Len(tree') : ~tree'[i].leaf => tree'[i].arg <= MaxIndex
    BY <1>1, <1>3, GrownType
  <2>3. PICK al \in Nat : al = Allocated /\ al <= MaxIndex + 2
    BY <1>1, <1>3, GrownType
  <2>4. CASE pc' = "idle" /\ max_allocated' = 0 /\ level' = 0
             /\ res' \in {"too many leaves", "missing some leaves"}
    <3>1. TypeOK'
      <4>1. level' \in 0..255 /\ max_allocated' \in 0..MaxIndex+2
        <5>1. 0 \in 0..255 /\ 0 \in 0..MaxIndex+2
          BY MaxIndexAssumption
        <5> QED BY <2>4, <5>1, Zenon
      <4>2. node' \in Nat /\ pc' \in {"idle", "build", "read"}
        BY <1>1, <2>4
      <4> QED BY <1>3, <2>1, <2>2, <4>1, <4>2 DEF TypeOK, Entry
    <3> QED BY <1>1, <2>4, <3>1 DEF TreeInv, Building, Built, Single, Reading
  <2>5. CASE Len(Grown) <= Allocated /\ MoreLeaves(level) /\ level' = level + 1
             /\ max_allocated' = Allocated /\ UNCHANGED <<pc, res>>
    <3>1. level \in Nat /\ level + 1 <= 255 /\ level >= 1
      <4>1. level \in Nat /\ level >= 1
        BY <1>1 DEF TreeInv, TypeOK, Building
      <4>2. PICK i \in 1..Len(lens) : lens[i] > level
        BY <2>5 DEF MoreLeaves
      <4>3. PICK k \in 0..255 : k = lens[i]
        BY <1>1, <4>2, ElementOfSeq
      <4>4. k > level
        BY <4>2, <4>3
      <4> QED BY <4>1, <4>4
    <3>2. TypeOK'
      <4>1. level' \in 0..255 /\ max_allocated' \in 0..MaxIndex+2
        BY <2>3, <2>5, <3>1, MaxIndexAssumption
      <4> QED BY <1>1, <1>3, <2>1, <2>2, <2>5, <4>1 DEF TypeOK, Entry
    <3>3. PICK D \in [0..al-1 -> Nat] :
             Depths(D, al)' /\ \A i \in Len(Grown)..al-1 : D[i] = level
      BY <1>1, <1>3, <2>3, <2>5, GrownDepths
    <3>4. max_allocated' = al /\ Len(tree') <= al /\ al >= 1 /\ level' >= 1 /\ level = level' - 1
      BY <1>3, <2>1, <2>3, <2>5, <3>1
    <3>5. Depths(D, max_allocated)'
      BY <3>3, <3>4 DEF Depths
    <3>6. Building'
      BY <1>1, <1>3, <2>5, <3>3, <3>4, <3>5 DEF Building
    <3> QED BY <1>1, <2>5, <3>2, <3>6 DEF TreeInv, Built, Single, Reading
  <2>6. CASE Len(Grown) = Allocated /\ pc' = "idle" /\ max_allocated' = 0 /\ level' = 0 /\ res' = "ok"
    <3>1. TypeOK'
      BY <1>1, <1>3, <2>1, <2>2, <2>6, MaxIndexAssumption DEF TypeOK, Entry
    <3>2. PICK D \in [0..al-1 -> Nat] : Depths(D, al)'
      <4>1. Len(Grown) <= al
        BY <2>1, <2>3, <2>6
      <4> QED BY <1>1, <1>3, <2>3, <4>1, GrownDepths
    <3>3. Len(tree') = al /\ al >= 1
      BY <1>3, <2>1, <2>3, <2>6
    <3>4. Depths(D, Len(tree))'
      BY <3>2, <3>3 DEF Depths
    <3>5. Built'
      BY <2>6, <3>2, <3>3, <3>4 DEF Built
    <3> QED BY <1>1, <2>6, <3>1, <3>5 DEF TreeInv, Building, Single, Reading
  <2> QED BY <1>2, <1>3, <2>4, <2>5, <2>6, BuildLevelCases
<1> QED BY <1>2, <1>3, BuildLevelCases

-----------------------------------------------------------------------------
(* read_entry. *)

(* It begins at the root. *)
LEMMA ReadEntryStep ==
  ASSUME TreeInv, ReadEntry
  PROVE  TreeInv'
<1>1. pc = "idle" /\ res \in {"ok", "single"} /\ pc' = "read" /\ node' = 0 /\ depth' = 0
      /\ UNCHANGED <<tree, lens, max_allocated, level, res>>
  BY DEF ReadEntry
<1>2. TypeOK' /\ lens' \in Seq(Nat) /\ depth' \in Nat
  BY <1>1 DEF TreeInv, TypeOK
<1>3. Built'
  <2> SUFFICES ASSUME res = "ok" PROVE Built'
    BY <1>1 DEF Built
  <2>1. PICK D \in [0..Len(tree)-1 -> Nat] : Depths(D, Len(tree)) /\ Len(tree) >= 1
    BY <1>1 DEF TreeInv, Built
  <2>2. Depths(D, Len(tree))' /\ D[0] = 0
    BY <1>1, <2>1 DEF Depths, ValuesWith
  <2>3. Len(tree) \in Nat /\ node' < Len(tree')
    BY <1>1, <2>1 DEF TreeInv, TypeOK
  <2> QED BY <1>1, <2>1, <2>2, <2>3 DEF Built
<1> QED BY <1>1, <1>2, <1>3 DEF TreeInv, Building, Single, Reading

(* A bit leads to one of the two nodes the branch promises. *)
LEMMA ReadBitStep ==
  ASSUME TreeInv, NEW bit \in {0, 1}, ReadBit(bit)
  PROVE  TreeInv'
<1>1. pc = "read" /\ ~tree[node+1].leaf /\ node' = tree[node+1].arg + bit
      /\ depth' = depth + 1 /\ UNCHANGED <<tree, lens, max_allocated, level, pc, res>>
  BY DEF ReadBit, Child
<1>2. res = "ok"
  BY <1>1 DEF TreeInv, Reading, Single
<1>3. Len(tree) \in Nat /\ node \in Nat /\ tree \in Seq(Entry) /\ depth \in Nat
  BY DEF TreeInv, TypeOK, Entry
<1>4. PICK D \in [0..Len(tree)-1 -> Nat] :
        Depths(D, Len(tree)) /\ node < Len(tree) /\ D[node] = depth
  BY <1>1, <1>2 DEF TreeInv, Built
<1>5. node + 1 \in 1..Len(tree) /\ (node + 1) - 1 = node
  BY <1>3, <1>4
<1>6. tree[node+1] \in Entry
  BY <1>3, <1>5, ElementOfSeq
<1>7. PICK a \in Nat : a = tree[node+1].arg
  BY <1>6 DEF Entry
<1>8. a + 1 < Len(tree) /\ D[a] = D[node] + 1 /\ D[a + 1] = D[node] + 1
  BY <1>1, <1>4, <1>5, <1>7 DEF Depths
<1>9. node' \in Nat /\ node' < Len(tree) /\ D[node'] = depth'
  BY <1>1, <1>3, <1>4, <1>7, <1>8
<1>10. TypeOK' /\ lens' \in Seq(Nat) /\ depth' \in Nat
  BY <1>1, <1>3, <1>9 DEF TreeInv, TypeOK
<1>11. Depths(D, Len(tree))'
  BY <1>1, <1>4 DEF Depths, ValuesWith
<1>12. Built'
  BY <1>1, <1>3, <1>4, <1>9, <1>11 DEF Built
<1> QED BY <1>1, <1>2, <1>10, <1>12 DEF TreeInv, Building, Single, Reading

(* The end of read_entry leaves the tree alone. *)
LEMMA ReadReturnsStep ==
  ASSUME TreeInv, ReadReturns
  PROVE  TreeInv'
<1>1. pc = "read" /\ pc' = "idle" /\ node' = 0 /\ depth' = 0
      /\ UNCHANGED <<tree, lens, max_allocated, level, res>>
  BY DEF ReadReturns
<1>2. TypeOK' /\ lens' \in Seq(Nat) /\ depth' \in Nat
  BY <1>1 DEF TreeInv, TypeOK
<1>3. Built'
  <2> SUFFICES ASSUME res = "ok" PROVE Built'
    BY <1>1 DEF Built
  <2>1. PICK D \in [0..Len(tree)-1 -> Nat] : Depths(D, Len(tree)) /\ Len(tree) >= 1
    BY <1>1 DEF TreeInv, Built
  <2>2. Depths(D, Len(tree))'
    BY <1>1, <2>1 DEF Depths, ValuesWith
  <2> QED BY <1>1, <2>1, <2>2 DEF Built
<1> QED BY <1>1, <1>2, <1>3 DEF TreeInv, Building, Single, Reading

(* The panic on the last length leaves the tree as it is. *)
LEMMA LengthOverflowsStep ==
  ASSUME TreeInv, LengthOverflows
  PROVE  TreeInv'
<1>1. pc = "build" /\ pc' = "idle" /\ res' = "panic" /\ max_allocated' = 0 /\ level' = 0
      /\ UNCHANGED <<tree, lens, node, path, depth>>
  BY DEF LengthOverflows, reading
<1>2. TypeOK' /\ lens' \in Seq(Nat) /\ depth' \in Nat
  BY <1>1, MaxIndexAssumption DEF TreeInv, TypeOK
<1>3. Reading'
  BY <1>1 DEF TreeInv, Reading
<1> QED BY <1>1, <1>2, <1>3 DEF TreeInv, Building, Built, Single

(* No step breaks the invariant. *)
LEMMA TreeStep == TreeInv /\ [Next]_vars => TreeInv'
<1> SUFFICES ASSUME TreeInv, [Next]_vars PROVE TreeInv'
  OBVIOUS
<1>1. CASE UNCHANGED vars
  <2>1. UNCHANGED <<tree, lens, max_allocated, level, pc, res, node, depth>>
    BY <1>1 DEF vars
  <2>2. \A D, n : Depths(D, n)' = Depths(D, n)
    BY <2>1 DEF Depths, ValuesWith
  <2>3. TypeOK' /\ lens' \in Seq(Nat) /\ depth' \in Nat
    BY <2>1 DEF TreeInv, TypeOK
  <2>4. Building'
    BY <2>1, <2>2 DEF TreeInv, Building
  <2>5. Built'
    BY <2>1, <2>2 DEF TreeInv, Built
  <2> QED BY <2>1, <2>3, <2>4, <2>5 DEF TreeInv, Single, Reading
<1> QED BY <1>1, SetSingleStep, BuildTreeStep, LengthOverflowsStep, BuildLevelStep,
           ReadEntryStep, ReadBitStep, ReadReturnsStep DEF Next

-----------------------------------------------------------------------------
(* The theorems. *)

(* The invariant holds always. *)
THEOREM TreeInvariant == Spec => []TreeInv
BY InitTree, TreeStep, PTL DEF Spec

(* Whatever lengths a tree was built from, and whatever bits follow,       *)
(* read_entry indexes the array within its bounds: a build that succeeds   *)
(* leaves no branch without its children (statictree.rs, read_entry).      *)
THEOREM ReadingStaysInTree == Spec => []StaysInTree
<1>1. TreeInv => StaysInTree
  <2> SUFFICES ASSUME TreeInv, pc = "read" PROVE node < Len(tree)
    BY DEF StaysInTree
  <2>1. CASE res = "ok"
    BY <2>1 DEF TreeInv, Built
  <2>2. CASE res = "single"
    <3>1. node = 0 /\ Len(tree) = 1
      BY <2>2 DEF TreeInv, Single, Reading
    <3> QED BY <3>1
  <2> QED BY <2>1, <2>2 DEF TreeInv, Reading
<1> QED BY <1>1, TreeInvariant, PTL

(* While a tree is built its nodes fit the index range of an entry, and no *)
(* level runs past the 255th, where the u8 that counts them overflows      *)
(* (build_tree): a build with overflow checks panics there, another one    *)
(* ends.                                                                   *)
THEOREM TypeCorrect == Spec => []TypeOK
<1>1. TreeInv => TypeOK
  BY DEF TreeInv
<1> QED BY <1>1, TreeInvariant, PTL

(* A leaf is met after as many bits as the table gives its value, which is *)
(* one of the values of the table: half of ReadsCanonicalCodes.            *)
LengthsAreKept ==
  pc = "read" /\ res = "ok" /\ tree[node+1].leaf =>
    /\ tree[node+1].arg \in 0..Len(lens)-1
    /\ lens[tree[node+1].arg + 1] = depth

(* The invariant says as much. *)
LEMMA KeptLengths ==
  ASSUME TreeInv
  PROVE  LengthsAreKept
<1> SUFFICES ASSUME pc = "read", res = "ok", tree[node+1].leaf
             PROVE  /\ tree[node+1].arg \in 0..Len(lens)-1
                    /\ lens[tree[node+1].arg + 1] = depth
  BY DEF LengthsAreKept
<1>1. PICK D \in [0..Len(tree)-1 -> Nat] :
        Depths(D, Len(tree)) /\ node < Len(tree) /\ D[node] = depth
  BY DEF TreeInv, Built
<1>2. node + 1 \in 1..Len(tree) /\ (node + 1) - 1 = node
  BY <1>1 DEF TreeInv, TypeOK
<1>3. tree[node+1].arg \in ValuesWith(depth)
  BY <1>1, <1>2 DEF Depths
<1> QED BY <1>3 DEF ValuesWith

(* read_entry (statictree.rs) answers with a value of the table after as   *)
(* many bits as the table says.                                            *)
THEOREM LengthsAreRead == Spec => []LengthsAreKept
BY KeptLengths, TreeInvariant, PTL

-----------------------------------------------------------------------------
(* Sums of a sequence of numbers, and powers of two. *)

(* f adds up w from 0. *)
Adds(f, w, n) ==
  /\ f \in [0..n -> Nat] /\ f[0] = 0
  /\ \A m \in 0..n-1 : f[m + 1] = f[m] + w[m]

(* There is such a function. *)
LEMMA AddsExists ==
  ASSUME NEW n \in Nat, NEW w \in [0..n-1 -> Nat]
  PROVE  \E f : Adds(f, w, n)
<1> DEFINE S == {k \in Nat : k <= n /\ \E f : Adds(f, w, n - k)}
<1>1. n \in S
  <2> DEFINE f == [i \in 0..0 |-> 0]
  <2>1. f \in [0..0 -> Nat] /\ f[0] = 0
    OBVIOUS
  <2> HIDE DEF f
  <2>2. n - n = 0 /\ 0..(0-1) = {}
    BY ONLY n \in Nat
  <2>3. Adds(f, w, n - n)
    BY ONLY <2>1, <2>2 DEF Adds
  <2> QED BY ONLY n \in Nat, <2>3
<1>2. PICK k \in S : \A u \in S : k <= u
  <2>1. S \in SUBSET Nat /\ S # {}
    BY <1>1
  <2> HIDE DEF S
  <2> QED BY ONLY <2>1, Least
<1>3. k \in Nat /\ k <= n
  BY <1>2
<1>4. PICK f : Adds(f, w, n - k)
  BY <1>2
<1>5. CASE k # 0
  <2> DEFINE m == n - k
             g == [i \in 0..m+1 |-> IF i <= m THEN f[i] ELSE f[m] + w[m]]
  <2>1. m \in Nat /\ m < n /\ k - 1 \in Nat /\ k - 1 <= n /\ n - (k - 1) = m + 1 /\ ~(k <= k - 1)
        /\ m \in 0..n-1
    BY ONLY <1>3, <1>5, n \in Nat
  <2>2. f \in [0..m -> Nat] /\ f[0] = 0 /\ \A i \in 0..m-1 : f[i + 1] = f[i] + w[i]
    BY ONLY <1>4 DEF Adds
  <2> HIDE DEF m
  <2>3. f[m] \in Nat /\ w[m] \in Nat
    BY ONLY <2>1, <2>2, w \in [0..n-1 -> Nat]
  <2>4. g \in [0..m+1 -> Nat]
    BY ONLY <2>1, <2>2, <2>3
  <2>5. \A i \in 0..m+1 : g[i] = IF i <= m THEN f[i] ELSE f[m] + w[m]
    OBVIOUS
  <2> HIDE DEF g
  <2>6. g[0] = 0
    BY ONLY <2>1, <2>2, <2>5
  <2>7. ASSUME NEW i \in 0..(m+1)-1 PROVE g[i + 1] = g[i] + w[i]
    <3>1. CASE i = m
      <4>1. i \in 0..m+1 /\ i <= m /\ i + 1 \in 0..m+1 /\ ~(i + 1 <= m)
        BY ONLY <2>1, <3>1
      <4> QED BY ONLY <2>5, <3>1, <4>1
    <3>2. CASE i # m
      <4>1. i \in 0..m+1 /\ i <= m /\ i + 1 \in 0..m+1 /\ i + 1 <= m /\ i \in 0..m-1
        BY ONLY <2>1, <3>2, i \in 0..(m+1)-1
      <4> QED BY ONLY <2>2, <2>5, <4>1
    <3> QED BY ONLY <3>1, <3>2
  <2>8. Adds(g, w, m + 1)
    BY ONLY <2>4, <2>6, <2>7 DEF Adds
  <2>9. k - 1 \in S
    BY ONLY <2>1, <2>8
  <2> HIDE DEF S
  <2> QED BY ONLY <1>2, <2>1, <2>9
<1>6. CASE k = 0
  <2>1. n - k = n
    BY ONLY <1>6, n \in Nat
  <2> QED BY ONLY <1>4, <2>1
<1> QED BY ONLY <1>5, <1>6

(* SumTo takes its value from one. *)
LEMMA SumAdds ==
  ASSUME NEW n \in Nat, NEW w \in [0..n-1 -> Nat]
  PROVE  \E f : Adds(f, w, n) /\ SumTo(w, n) = f[n]
<1> DEFINE Q(f) == [m \in 0..n |-> IF m = 0 THEN 0 ELSE f[m - 1] + w[m - 1]]
           F == CHOOSE q : q = Q(q)
<1>1. PICK f : Adds(f, w, n)
  BY AddsExists
<1>2. f = Q(f)
  <2>1. f \in [0..n -> Nat] /\ f[0] = 0 /\ \A m \in 0..n-1 : f[m + 1] = f[m] + w[m]
    BY ONLY <1>1 DEF Adds
  <2>2. ASSUME NEW m \in 0..n PROVE f[m] = IF m = 0 THEN 0 ELSE f[m - 1] + w[m - 1]
    <3>1. CASE m = 0
      BY ONLY <2>1, <3>1
    <3>2. CASE m # 0
      <4>1. m - 1 \in 0..n-1 /\ (m - 1) + 1 = m
        BY ONLY <3>2, m \in 0..n, n \in Nat
      <4> QED BY ONLY <2>1, <3>2, <4>1
    <3> QED BY ONLY <3>1, <3>2
  <2> QED BY ONLY <2>1, <2>2
<1>3. F = Q(F)
  <2> HIDE DEF Q
  <2> QED BY ONLY <1>2
<1>4. SumTo(w, n) = F[n]
  BY DEF SumTo
<1>5. \A m \in 0..n : F[m] = IF m = 0 THEN 0 ELSE F[m - 1] + w[m - 1]
  <2> HIDE DEF F
  <2> QED BY ONLY <1>3
<1>6. F = [m \in 0..n |-> F[m]]
  <2>1. Q(F) = [m \in 0..n |-> Q(F)[m]]
    <3> HIDE DEF F
    <3> QED OBVIOUS
  <2> HIDE DEF Q
  <2> QED BY ONLY <1>3, <2>1
<1> HIDE DEF F, Q
<1>7. /\ F[0] = 0
      /\ \A m \in 0..n-1 : F[m + 1] = F[m] + w[m]
  <2>1. 0 \in 0..n
    BY ONLY n \in Nat
  <2>2. ASSUME NEW m \in 0..n-1 PROVE F[m + 1] = F[m] + w[m]
    <3>1. m + 1 \in 0..n /\ m + 1 # 0 /\ (m + 1) - 1 = m
      BY ONLY n \in Nat, m \in 0..n-1
    <3> QED BY ONLY <1>5, <3>1
  <2> QED BY ONLY <1>5, <2>1, <2>2
<1>8. \A m \in 0..n : F[m] = f[m]
  <2> DEFINE R == {m \in Nat : m <= n /\ F[m] # f[m]}
  <2>1. SUFFICES ASSUME NEW k \in 0..n, F[k] # f[k] PROVE FALSE
    BY Zenon
  <2>2. PICK m \in R : \A u \in R : m <= u
    <3>1. k \in R
      BY ONLY <2>1, k \in 0..n, n \in Nat DEF R
    <3>2. R \in SUBSET Nat /\ R # {}
      BY ONLY <3>1 DEF R
    <3> HIDE DEF R
    <3> QED BY ONLY <3>2, Least
  <2>3. m \in Nat /\ m <= n /\ F[m] # f[m]
    BY ONLY <2>2 DEF R
  <2>4. f[0] = 0 /\ \A i \in 0..n-1 : f[i + 1] = f[i] + w[i]
    BY ONLY <1>1 DEF Adds
  <2>5. m # 0
    BY ONLY <1>7, <2>3, <2>4
  <2>6. m - 1 \in Nat /\ m - 1 <= n /\ ~(m <= m - 1) /\ m - 1 \in 0..n-1 /\ (m - 1) + 1 = m
    BY ONLY <2>3, <2>5, n \in Nat
  <2>7. F[m - 1] = f[m - 1]
    BY ONLY <2>2, <2>6 DEF R
  <2> QED BY ONLY <1>7, <2>3, <2>4, <2>6, <2>7
<1>9. n \in 0..n
  BY ONLY n \in Nat
<1> QED BY ONLY <1>1, <1>4, <1>8, <1>9

(* f doubles from 1 up to n. *)
Doubles(f, n) ==
  /\ f \in [0..n -> Nat] /\ f[0] = 1
  /\ \A m \in 0..n-1 : f[m + 1] = 2 * f[m]

(* There is such a function. *)
LEMMA DoublesExists ==
  ASSUME NEW n \in Nat
  PROVE  \E f : Doubles(f, n)
<1> DEFINE S == {k \in Nat : k <= n /\ \E f : Doubles(f, n - k)}
<1>1. n \in S
  <2> DEFINE f == [i \in 0..0 |-> 1]
  <2>1. f \in [0..0 -> Nat] /\ f[0] = 1
    OBVIOUS
  <2> HIDE DEF f
  <2>2. n - n = 0 /\ 0..(0-1) = {}
    BY ONLY n \in Nat
  <2>3. Doubles(f, n - n)
    BY ONLY <2>1, <2>2 DEF Doubles
  <2> QED BY ONLY n \in Nat, <2>3
<1>2. PICK k \in S : \A u \in S : k <= u
  <2>1. S \in SUBSET Nat /\ S # {}
    BY <1>1
  <2> HIDE DEF S
  <2> QED BY ONLY <2>1, Least
<1>3. k \in Nat /\ k <= n
  BY <1>2
<1>4. PICK f : Doubles(f, n - k)
  BY <1>2
<1>5. CASE k # 0
  <2> DEFINE m == n - k
             g == [i \in 0..m+1 |-> IF i <= m THEN f[i] ELSE 2 * f[m]]
  <2>1. m \in Nat /\ k - 1 \in Nat /\ k - 1 <= n /\ n - (k - 1) = m + 1 /\ ~(k <= k - 1)
    BY ONLY <1>3, <1>5, n \in Nat
  <2>2. f \in [0..m -> Nat] /\ f[0] = 1 /\ \A i \in 0..m-1 : f[i + 1] = 2 * f[i]
    BY ONLY <1>4 DEF Doubles
  <2> HIDE DEF m
  <2>3. f[m] \in Nat /\ 2 * f[m] \in Nat
    <3>1. f[m] \in Nat
      BY ONLY <2>1, <2>2
    <3> QED BY ONLY <3>1
  <2>4. g \in [0..m+1 -> Nat]
    BY ONLY <2>1, <2>2, <2>3
  <2>5. \A i \in 0..m+1 : g[i] = IF i <= m THEN f[i] ELSE 2 * f[m]
    OBVIOUS
  <2> HIDE DEF g
  <2>6. g[0] = 1
    BY ONLY <2>1, <2>2, <2>5
  <2>7. ASSUME NEW i \in 0..(m+1)-1 PROVE g[i + 1] = 2 * g[i]
    <3>1. CASE i = m
      <4>1. i \in 0..m+1 /\ i <= m /\ i + 1 \in 0..m+1 /\ ~(i + 1 <= m)
        BY ONLY <2>1, <3>1
      <4> QED BY ONLY <2>5, <3>1, <4>1
    <3>2. CASE i # m
      <4>1. i \in 0..m+1 /\ i <= m /\ i + 1 \in 0..m+1 /\ i + 1 <= m /\ i \in 0..m-1
        BY ONLY <2>1, <3>2, i \in 0..(m+1)-1
      <4> QED BY ONLY <2>2, <2>5, <4>1
    <3> QED BY ONLY <3>1, <3>2
  <2>8. Doubles(g, m + 1)
    BY ONLY <2>4, <2>6, <2>7 DEF Doubles
  <2>9. k - 1 \in S
    BY ONLY <2>1, <2>8
  <2> HIDE DEF S
  <2> QED BY ONLY <1>2, <2>1, <2>9
<1>6. CASE k = 0
  <2>1. n - k = n
    BY ONLY <1>6, n \in Nat
  <2> QED BY ONLY <1>4, <2>1
<1> QED BY ONLY <1>5, <1>6

(* Pow2 is one that ends at 255. *)
LEMMA Powers ==
  /\ Pow2[0] = 1
  /\ \A n \in 0..254 : Pow2[n + 1] = 2 * Pow2[n]
  /\ \A n \in 0..255 : Pow2[n] \in Nat /\ Pow2[n] >= 1
<1> DEFINE Q(f) == [n \in 0..255 |-> IF n = 0 THEN 1 ELSE 2 * f[n - 1]]
           F == Pow2
<1>1. PICK f : Doubles(f, 255)
  BY DoublesExists
<1>2. f = Q(f)
  <2>1. f \in [0..255 -> Nat] /\ f[0] = 1 /\ \A m \in 0..254 : f[m + 1] = 2 * f[m]
    <3>1. 255 - 1 = 254
      OBVIOUS
    <3> QED BY ONLY <1>1, <3>1, Zenon DEF Doubles
  <2>2. ASSUME NEW m \in 0..255 PROVE f[m] = IF m = 0 THEN 1 ELSE 2 * f[m - 1]
    <3>1. CASE m = 0
      BY ONLY <2>1, <3>1
    <3>2. CASE m # 0
      <4>1. m - 1 \in 0..254 /\ (m - 1) + 1 = m
        BY ONLY <3>2, m \in 0..255
      <4> QED BY ONLY <2>1, <3>2, <4>1
    <3> QED BY ONLY <3>1, <3>2
  <2> QED BY ONLY <2>1, <2>2
<1>3. F = CHOOSE q : q = Q(q)
  BY DEF Pow2
<1>4. F = Q(F)
  <2> HIDE DEF Q, F
  <2> QED BY ONLY <1>2, <1>3
<1> HIDE DEF F
<1>5. \A n \in 0..255 : F[n] = IF n = 0 THEN 1 ELSE 2 * F[n - 1]
  BY ONLY <1>4
<1>6. F[0] = 1
  BY ONLY <1>5
<1>7. ASSUME NEW n \in 0..254 PROVE F[n + 1] = 2 * F[n]
  <2>1. n + 1 \in 0..255 /\ n + 1 # 0 /\ (n + 1) - 1 = n
    BY ONLY n \in 0..254
  <2> QED BY ONLY <1>5, <2>1
<1>8. ASSUME NEW n \in 0..255 PROVE F[n] \in Nat /\ F[n] >= 1
  <2> DEFINE R == {m \in Nat : m <= 255 /\ ~(F[m] \in Nat /\ F[m] >= 1)}
  <2>1. SUFFICES ASSUME ~(F[n] \in Nat /\ F[n] >= 1) PROVE FALSE
    BY Zenon
  <2>2. PICK m \in R : \A u \in R : m <= u
    <3>1. n \in R
      BY ONLY <2>1, n \in 0..255 DEF R
    <3>2. R \in SUBSET Nat /\ R # {}
      BY ONLY <3>1 DEF R
    <3> HIDE DEF R
    <3> QED BY ONLY <3>2, Least
  <2>3. m \in Nat /\ m <= 255 /\ ~(F[m] \in Nat /\ F[m] >= 1)
    BY ONLY <2>2 DEF R
  <2>4. m # 0
    BY ONLY <1>6, <2>3
  <2>5. m - 1 \in Nat /\ m - 1 <= 255 /\ ~(m <= m - 1) /\ m \in 0..255
    BY ONLY <2>3, <2>4
  <2>6. F[m - 1] \in Nat /\ F[m - 1] >= 1
    BY ONLY <2>2, <2>5 DEF R
  <2>7. F[m] = 2 * F[m - 1]
    BY ONLY <1>5, <2>4, <2>5
  <2> QED BY ONLY <2>3, <2>6, <2>7
<1> QED BY ONLY <1>6, <1>7, <1>8 DEF F

(* The weights x are twice the weights w, and one more at the members of a *)
(* set.                                                                    *)
Doubled(x, w, S, n) ==
  /\ w \in [0..n-1 -> Nat] /\ x \in [0..n-1 -> Nat] /\ S \in SUBSET (0..n-1)
  /\ \A u \in 0..n-1 : x[u] = 2 * w[u] + (IF u \in S THEN 1 ELSE 0)

(* So is their sum. *)
LEMMA SumDoubled ==
  ASSUME NEW n \in Nat, NEW w, NEW x, NEW S, Doubled(x, w, S, n)
  PROVE  /\ SumTo(w, n) \in Nat /\ Cardinality(S) \in Nat /\ IsFiniteSet(S)
         /\ SumTo(x, n) = 2 * SumTo(w, n) + Cardinality(S)
<1>0. /\ w \in [0..n-1 -> Nat] /\ x \in [0..n-1 -> Nat] /\ S \in SUBSET (0..n-1)
      /\ \A u \in 0..n-1 : x[u] = 2 * w[u] + (IF u \in S THEN 1 ELSE 0)
  BY DEF Doubled
<1>1. PICK f : Adds(f, w, n) /\ SumTo(w, n) = f[n]
  BY <1>0, SumAdds
<1>2. PICK g : Adds(g, x, n) /\ SumTo(x, n) = g[n]
  BY <1>0, SumAdds
<1>3. f \in [0..n -> Nat] /\ f[0] = 0 /\ \A m \in 0..n-1 : f[m + 1] = f[m] + w[m]
  BY ONLY <1>1 DEF Adds
<1>4. g \in [0..n -> Nat] /\ g[0] = 0 /\ \A m \in 0..n-1 : g[m + 1] = g[m] + x[m]
  BY ONLY <1>2 DEF Adds
<1>5. /\ IsFiniteSet(S) /\ Before(S, 0) = 0 /\ Before(S, n) = Cardinality(S)
      /\ \A m \in Nat : /\ Before(S, m) \in Nat
                        /\ Before(S, m + 1) = IF m \in S THEN Before(S, m) + 1 ELSE Before(S, m)
  BY ONLY n \in Nat, <1>0, BeforeSteps
<1> DEFINE R == {m \in Nat : m <= n /\ g[m] # 2 * f[m] + Before(S, m)}
<1>6. g[n] = 2 * f[n] + Before(S, n)
  <2>1. SUFFICES ASSUME g[n] # 2 * f[n] + Before(S, n) PROVE FALSE
    BY Zenon
  <2>2. PICK m \in R : \A u \in R : m <= u
    <3>1. n \in R
      BY ONLY <2>1, n \in Nat DEF R
    <3>2. R \in SUBSET Nat /\ R # {}
      BY ONLY <3>1 DEF R
    <3> HIDE DEF R
    <3> QED BY ONLY <3>2, Least
  <2>3. m \in Nat /\ m <= n /\ g[m] # 2 * f[m] + Before(S, m)
    BY ONLY <2>2 DEF R
  <2>4. m # 0
    BY ONLY <1>3, <1>4, <1>5, <2>3
  <2>5. PICK p \in Nat : m = p + 1
    BY ONLY <2>3, <2>4
  <2>6. p <= n /\ ~(m <= p) /\ p \in 0..n-1 /\ p \in 0..n
    BY ONLY <2>3, <2>5, n \in Nat
  <2>7. g[p] = 2 * f[p] + Before(S, p)
    BY ONLY <2>2, <2>6, p \in Nat DEF R
  <2>8. g[m] = g[p] + x[p] /\ f[m] = f[p] + w[p] /\ x[p] = 2 * w[p] + (IF p \in S THEN 1 ELSE 0)
        /\ f[p] \in Nat /\ w[p] \in Nat
    BY ONLY <1>0, <1>3, <1>4, <2>5, <2>6
  <2>9. /\ Before(S, m) = IF p \in S THEN Before(S, p) + 1 ELSE Before(S, p)
        /\ Before(S, p) \in Nat
    BY ONLY <1>5, <2>5
  <2>10. PICK a \in Nat, b \in Nat, c \in Nat : a = f[p] /\ b = w[p] /\ c = Before(S, p)
    BY ONLY <2>8, <2>9
  <2>11. CASE p \in S
    <3>1. x[p] = 2 * b + 1 /\ Before(S, m) = c + 1 /\ f[m] = a + b
      BY ONLY <2>8, <2>9, <2>10, <2>11
    <3>2. g[m] = (2 * a + c) + (2 * b + 1)
      BY ONLY <2>7, <2>8, <2>10, <3>1
    <3>3. g[m] = 2 * (a + b) + (c + 1)
      BY ONLY <3>2
    <3> QED BY ONLY <2>3, <3>1, <3>3
  <2>12. CASE p \notin S
    <3>1. x[p] = 2 * b /\ Before(S, m) = c /\ f[m] = a + b
      BY ONLY <2>8, <2>9, <2>10, <2>12
    <3>2. g[m] = (2 * a + c) + 2 * b
      BY ONLY <2>7, <2>8, <2>10, <3>1
    <3>3. g[m] = 2 * (a + b) + c
      BY ONLY <3>2
    <3> QED BY ONLY <2>3, <3>1, <3>3
  <2> QED BY ONLY <2>11, <2>12
<1>7. f[n] \in Nat /\ Cardinality(S) \in Nat
  <2>1. n \in 0..n
    BY ONLY n \in Nat
  <2>2. f[n] \in Nat
    BY ONLY <1>3, <2>1
  <2> QED BY ONLY <1>5, <2>2, n \in Nat
<1> QED BY ONLY <1>1, <1>2, <1>5, <1>6, <1>7

-----------------------------------------------------------------------------
(* The room of a level, and the canonical codes on it. *)

(* w gives the shares of the values of a table on a level. *)
Shares(w, l) ==
  /\ w \in [0..Len(lens)-1 -> Nat]
  /\ \A u \in 0..Len(lens)-1 :
       /\ w[u] = IF lens[u+1] \in 1..l THEN Pow2[l - lens[u+1]] ELSE 0
       /\ lens[u+1] \in 0..255

(* The shares are numbers. *)
LEMMA ShareType ==
  ASSUME lens \in Seq(0..255), NEW l \in 0..255
  PROVE  Shares(Share(lens, l), l)
<1>1. Len(lens) \in Nat
  OBVIOUS
<1>2. ASSUME NEW u \in 0..Len(lens)-1 PROVE lens[u+1] \in 0..255
  <2>1. u + 1 \in 1..Len(lens)
    BY <1>1
  <2> QED BY ONLY <2>1, lens \in Seq(0..255), ElementOfSeq
<1>3. Share(lens, l) = [u \in 0..Len(lens)-1 |-> IF lens[u+1] \in 1..l THEN Pow2[l - lens[u+1]] ELSE 0]
  BY DEF Share
<1>4. ASSUME NEW u \in 0..Len(lens)-1
      PROVE  (IF lens[u+1] \in 1..l THEN Pow2[l - lens[u+1]] ELSE 0) \in Nat
  <2>1. CASE lens[u+1] \in 1..l
    <3>1. l - lens[u+1] \in 0..255
      <4>1. PICK k \in 1..l : k = lens[u+1]
        BY ONLY <2>1
      <4>2. l - k \in 0..255
        BY ONLY k \in 1..l, l \in 0..255
      <4> QED BY ONLY <4>1, <4>2
    <3> QED BY ONLY <2>1, <3>1, Powers
  <2>2. CASE lens[u+1] \notin 1..l
    BY ONLY <2>2
  <2> QED BY ONLY <2>1, <2>2
<1>5. Share(lens, l) \in [0..Len(lens)-1 -> Nat]
  BY ONLY <1>3, <1>4
<1> QED BY ONLY <1>2, <1>3, <1>5 DEF Shares

(* The values of a length are among those of the table. *)
LEMMA ValuesWithType ==
  ASSUME lens \in Seq(0..255), NEW l
  PROVE  /\ ValuesWith(l) \in SUBSET (0..Len(lens)-1)
         /\ IsFiniteSet(ValuesWith(l)) /\ Cardinality(ValuesWith(l)) \in Nat
<1>1. ValuesWith(l) \in SUBSET (0..Len(lens)-1) /\ Len(lens) \in Nat
  BY DEF ValuesWith
<1>2. IsFiniteSet(ValuesWith(l))
  BY ONLY <1>1, BeforeSteps
<1> QED BY ONLY <1>1, <1>2, FS_CardinalityType

(* The next level has twice the room, less what its own codes take. *)
LEMMA RoomSteps ==
  ASSUME lens \in Seq(0..255)
  PROVE  /\ RoomTaken(lens, 0) = 0
         /\ \A l \in 0..255 : RoomTaken(lens, l) \in Nat
         /\ \A l \in 0..254 :
              RoomTaken(lens, l + 1) = 2 * RoomTaken(lens, l) + Cardinality(ValuesWith(l + 1))
<1> DEFINE n == Len(lens)
<1>1. n \in Nat /\ \A l : RoomTaken(lens, l) = SumTo(Share(lens, l), n)
  BY DEF RoomTaken
<1>2. \A l \in 0..255 : Shares(Share(lens, l), l)
  BY ShareType, Zenon
<1>6. \A w, l : Shares(w, l) =>
        /\ w \in [0..n-1 -> Nat]
        /\ \A u \in 0..n-1 : /\ w[u] = IF lens[u+1] \in 1..l THEN Pow2[l - lens[u+1]] ELSE 0
                             /\ lens[u+1] \in 0..255
  BY DEF Shares
<1> HIDE DEF n
<1>3. RoomTaken(lens, 0) = 0
  <2> DEFINE w == Share(lens, 0)
  <2>0. 0 \in 0..255 /\ Cardinality({}) = 0 /\ {} \in SUBSET (0..n-1)
    BY FS_EmptySet
  <2>1. /\ w \in [0..n-1 -> Nat]
        /\ \A u \in 0..n-1 : /\ w[u] = IF lens[u+1] \in 1..0 THEN Pow2[0 - lens[u+1]] ELSE 0
                             /\ lens[u+1] \in 0..255
    <3>1. Shares(w, 0)
      BY <1>2, <2>0
    <3> QED BY ONLY <1>6, <3>1
  <2>2. ASSUME NEW u \in 0..n-1 PROVE w[u] = 0
    <3>1. ~(lens[u+1] \in 1..0)
      BY ONLY <2>1, u \in 0..n-1
    <3> QED BY ONLY <2>1, <3>1, u \in 0..n-1
  <2> HIDE DEF w
  <2>3. \A u \in 0..n-1 : w[u] = 2 * w[u] + (IF u \in {} THEN 1 ELSE 0)
    BY ONLY <2>2
  <2>4. Doubled(w, w, {}, n)
    BY ONLY <2>0, <2>1, <2>3 DEF Doubled
  <2>6. SumTo(w, n) \in Nat /\ SumTo(w, n) = 2 * SumTo(w, n) + Cardinality({})
    BY ONLY <1>1, <2>4, SumDoubled
  <2>5. SumTo(w, n) = 0
    BY ONLY <2>0, <2>6
  <2> QED BY <1>1, <2>5 DEF w
<1>4. ASSUME NEW l \in 0..254
      PROVE  /\ RoomTaken(lens, l) \in Nat
             /\ RoomTaken(lens, l + 1) = 2 * RoomTaken(lens, l) + Cardinality(ValuesWith(l + 1))
  <2> DEFINE w == Share(lens, l)
             x == Share(lens, l + 1)
             S == ValuesWith(l + 1)
  <2>0. l \in 0..255 /\ l + 1 \in 0..255
    BY ONLY l \in 0..254
  <2>1. /\ w \in [0..n-1 -> Nat]
        /\ \A u \in 0..n-1 :
             /\ w[u] = IF lens[u+1] \in 1..l THEN Pow2[l - lens[u+1]] ELSE 0
             /\ lens[u+1] \in 0..255
    <3>1. Shares(w, l)
      BY ONLY <1>2, <2>0 DEF w
    <3> HIDE DEF w
    <3> QED BY ONLY <1>6, <3>1
  <2>5. /\ x \in [0..n-1 -> Nat]
        /\ \A u \in 0..n-1 :
             x[u] = IF lens[u+1] \in 1..(l + 1) THEN Pow2[(l + 1) - lens[u+1]] ELSE 0
    <3>1. Shares(x, l + 1)
      BY ONLY <1>2, <2>0 DEF x
    <3> HIDE DEF x
    <3> QED BY ONLY <1>6, <3>1
  <2>2. S \in SUBSET (0..n-1) /\ \A u \in 0..n-1 : u \in S <=> lens[u+1] = l + 1
    BY DEF ValuesWith, n
  <2> HIDE DEF w, x, S
  <2>3. ASSUME NEW u \in 0..n-1
        PROVE  x[u] = 2 * w[u] + (IF u \in S THEN 1 ELSE 0)
    <3>1. PICK k \in 0..255 : k = lens[u+1]
      BY ONLY <2>1, u \in 0..n-1
    <3>2. /\ w[u] = IF k \in 1..l THEN Pow2[l - k] ELSE 0
          /\ x[u] = IF k \in 1..(l + 1) THEN Pow2[(l + 1) - k] ELSE 0
          /\ u \in S <=> k = l + 1
      BY ONLY <2>1, <2>2, <2>5, <3>1, u \in 0..n-1
    <3>3. CASE k \in 1..l
      <4>1. l - k \in 0..254 /\ (l - k) + 1 = (l + 1) - k /\ k \in 1..(l + 1) /\ k # l + 1
        BY ONLY <3>3, l \in 0..254
      <4>2. PICK p \in 0..254 : p = l - k
        BY ONLY <4>1
      <4>4. Pow2[p + 1] = 2 * Pow2[p]
        BY ONLY p \in 0..254, Powers
      <4>3. w[u] = Pow2[p] /\ x[u] = Pow2[p + 1] /\ u \notin S
        BY ONLY <3>2, <3>3, <4>1, <4>2
      <4>5. Pow2[p] \in Nat
        <5>1. p \in 0..255
          BY ONLY p \in 0..254
        <5> QED BY ONLY <5>1, Powers
      <4> QED BY ONLY <4>3, <4>4, <4>5
    <3>4. CASE k = l + 1
      <4>1. ~(k \in 1..l) /\ k \in 1..(l + 1) /\ (l + 1) - k = 0
        BY ONLY <3>4, l \in 0..254
      <4> QED BY ONLY <3>2, <3>4, <4>1, Powers
    <3>5. CASE ~(k \in 1..l) /\ k # l + 1
      <4>1. ~(k \in 1..(l + 1))
        BY ONLY <3>5, l \in 0..254, k \in 0..255
      <4> QED BY ONLY <3>2, <3>5, <4>1
    <3> QED BY ONLY <3>3, <3>4, <3>5
  <2>4. SumTo(w, n) \in Nat /\ SumTo(x, n) = 2 * SumTo(w, n) + Cardinality(S)
    <3>1. Doubled(x, w, S, n)
      BY ONLY <2>1, <2>2, <2>3, <2>5 DEF Doubled
    <3> QED BY ONLY <1>1, <3>1, SumDoubled
  <2> QED BY <1>1, <2>4 DEF w, x, S
<1>5. ASSUME NEW l \in 0..255 PROVE RoomTaken(lens, l) \in Nat
  <2>1. CASE l \in 0..254
    BY ONLY <1>4, <2>1
  <2>2. CASE l = 255
    <3>1. 254 \in 0..254 /\ 254 + 1 = 255 /\ 254 + 1 \in 0..255
      OBVIOUS
    <3>2. RoomTaken(lens, 254 + 1) = 2 * RoomTaken(lens, 254) + Cardinality(ValuesWith(254 + 1))
          /\ RoomTaken(lens, 254) \in Nat
      BY ONLY <1>4, <3>1
    <3>3. Cardinality(ValuesWith(254 + 1)) \in Nat
      BY ValuesWithType
    <3>4. 2 * RoomTaken(lens, 254) + Cardinality(ValuesWith(254 + 1)) \in Nat
      BY ONLY <3>2, <3>3
    <3> QED BY ONLY <2>2, <3>1, <3>2, <3>4
  <2> QED BY ONLY <2>1, <2>2, l \in 0..255
<1> QED BY ONLY <1>3, <1>4, <1>5

(* The canonical code of a value comes after the room the shorter codes    *)
(* take and the values before it with codes of its length.                 *)
LEMMA CodeSplits ==
  ASSUME lens \in Seq(0..255), NEW d \in 1..255, NEW v \in ValuesWith(d)
  PROVE  CanonicalCode(lens, v) = 2 * RoomTaken(lens, d - 1) + Before(ValuesWith(d), v)
<1> DEFINE n == Len(lens)
           w == Share(lens, d - 1)
           x == Skipped(lens, v)
           S == {u \in ValuesWith(d) : u < v}
<1>1. d - 1 \in 0..255 /\ d \in 0..255
  BY ONLY d \in 1..255
<1>2. /\ n \in Nat /\ w \in [0..n-1 -> Nat]
      /\ \A u \in 0..n-1 : lens[u+1] \in 0..255
      /\ \A u \in 0..n-1 : w[u] = IF lens[u+1] \in 1..(d - 1) THEN Pow2[(d - 1) - lens[u+1]] ELSE 0
  <2>1. Shares(w, d - 1)
    BY ONLY <1>1, lens \in Seq(0..255), ShareType
  <2>2. n \in Nat
    OBVIOUS
  <2> HIDE DEF w
  <2> QED BY <2>1, <2>2 DEF Shares
<1>3. lens[v+1] = d /\ v \in 0..n-1
  BY DEF ValuesWith
<1>4. S \in SUBSET (0..n-1) /\ \A u \in 0..n-1 : u \in S <=> lens[u+1] = d /\ u < v
  BY DEF ValuesWith
<1>5. \A u \in 0..n-1 :
        x[u] = IF lens[u+1] > 0 /\ (lens[u+1] < d \/ (lens[u+1] = d /\ u < v))
               THEN Pow2[d - lens[u+1]] ELSE 0
  BY <1>3 DEF Skipped, Coded, Precedes
<1>6. x = [u \in 0..n-1 |-> x[u]]
  BY DEF Skipped
<1>7. CanonicalCode(lens, v) = SumTo(x, n)
      /\ Before(ValuesWith(d), v) = Cardinality(S) /\ RoomTaken(lens, d - 1) = SumTo(w, n)
  BY DEF CanonicalCode, Before, RoomTaken
<1> HIDE DEF n, w, x, S
<1>8. ASSUME NEW u \in 0..n-1
      PROVE  /\ w[u] \in Nat
             /\ x[u] = 2 * w[u] + (IF u \in S THEN 1 ELSE 0)
  <2>1. PICK k \in 0..255 : k = lens[u+1]
    BY ONLY <1>2, u \in 0..n-1
  <2>2. /\ w[u] = IF k \in 1..(d - 1) THEN Pow2[(d - 1) - k] ELSE 0
        /\ x[u] = IF k > 0 /\ (k < d \/ (k = d /\ u < v)) THEN Pow2[d - k] ELSE 0
        /\ u \in S <=> k = d /\ u < v
        /\ w[u] \in Nat
    BY ONLY <1>2, <1>4, <1>5, <2>1, u \in 0..n-1
  <2>3. CASE k \in 1..(d - 1)
    <3>1. (d - 1) - k \in 0..254 /\ ((d - 1) - k) + 1 = d - k /\ k > 0 /\ k < d /\ k # d
      BY ONLY <2>3, d \in 1..255
    <3>2. PICK p \in 0..254 : p = (d - 1) - k
      BY ONLY <3>1
    <3>3. Pow2[p + 1] = 2 * Pow2[p]
      BY ONLY p \in 0..254, Powers
    <3>4. w[u] = Pow2[p] /\ x[u] = Pow2[p + 1] /\ u \notin S
      BY ONLY <2>2, <2>3, <3>1, <3>2
    <3> QED BY ONLY <2>2, <3>3, <3>4
  <2>4. CASE k = d
    <3>1. ~(k \in 1..(d - 1)) /\ k > 0 /\ ~(k < d) /\ d - k = 0
      BY ONLY <2>4, d \in 1..255
    <3>3. Pow2[d - k] = 1
      BY ONLY <3>1, Powers
    <3>2. w[u] = 0 /\ x[u] = (IF u < v THEN 1 ELSE 0) /\ (u \in S <=> u < v)
      BY ONLY <2>2, <2>4, <3>1, <3>3
    <3> QED BY ONLY <2>2, <3>2
  <2>5. CASE ~(k \in 1..(d - 1)) /\ k # d
    <3>1. ~(k > 0 /\ (k < d \/ (k = d /\ u < v)))
      BY ONLY <2>5, d \in 1..255, k \in 0..255
    <3>2. w[u] = 0 /\ x[u] = 0 /\ u \notin S
      BY ONLY <2>2, <2>5, <3>1
    <3> QED BY ONLY <2>2, <3>2
  <2> QED BY ONLY <2>3, <2>4, <2>5
<1>9. x \in [0..n-1 -> Nat]
  <2>1. \A u \in 0..n-1 : x[u] \in Nat
    BY ONLY <1>8
  <2> QED BY ONLY <1>6, <2>1
<1>10. SumTo(x, n) = 2 * SumTo(w, n) + Cardinality(S)
  <2>1. Doubled(x, w, S, n)
    BY ONLY <1>2, <1>4, <1>8, <1>9 DEF Doubled
  <2> QED BY ONLY <1>2, <2>1, SumDoubled
<1> QED BY ONLY <1>7, <1>10

-----------------------------------------------------------------------------
(* The inductive invariant of the codes. *)

(* P gives the nodes below n the bits that lead to them, as a number: a    *)
(* leaf is at the canonical code of its value.                             *)
Codes(P, n) ==
  /\ P \in [0..n-1 -> Nat] /\ P[0] = 0
  /\ \A i \in 1..Len(tree) :
       /\ tree[i].leaf  => P[i - 1] = CanonicalCode(lens, tree[i].arg)
       /\ ~tree[i].leaf => /\ tree[i].arg + 1 < n
                           /\ P[tree[i].arg] = 2 * P[i - 1]
                           /\ P[tree[i].arg + 1] = 2 * P[i - 1] + 1

(* Between two levels the nodes that are promised come after the room the  *)
(* levels above have taken.                                                *)
CodesBuilding ==
  pc = "build" =>
    \E P \in [0..max_allocated-1 -> Nat] :
      /\ Codes(P, max_allocated)
      /\ \A i \in Len(tree)..max_allocated-1 :
           P[i] = RoomTaken(lens, level - 1) + (i - Len(tree))

(* read_entry stands on the node that the bits it has read lead to. *)
CodesBuilt ==
  pc # "build" /\ res = "ok" =>
    \E P \in [0..Len(tree)-1 -> Nat] :
      /\ Codes(P, Len(tree))
      /\ pc = "read" => node < Len(tree) /\ P[node] = path

CodesInv == TreeInv /\ CodesBuilding /\ CodesBuilt

(* A table without codes takes no room. *)
LEMMA NoRoom == lens \in Seq(0..255) => RoomTaken(lens, 0) = 0
BY RoomSteps

(* build_tree begins at the root, with no bits. *)
LEMMA BuildTreeCodes ==
  ASSUME CodesInv, NEW ls \in Lengths, BuildTree(ls)
  PROVE  CodesInv'
<1>1. pc = "idle" /\ lens' = ls /\ ls \in Seq(0..255) /\ TreeInv
  BY LengthsAssumption DEF BuildTree, CodesInv
<1>2. TreeInv'
  BY <1>1, BuildTreeStep
<1>3. CASE TooManyLengths(Len(ls))
  <2>1. res' = "too many code lengths" /\ pc' = "idle"
    BY <1>3 DEF BuildTree
  <2> QED BY ONLY <1>2, <2>1 DEF CodesInv, CodesBuilding, CodesBuilt
<1>4. CASE ~TooManyLengths(Len(ls))
  <2>1. tree' = <<>> /\ max_allocated' = 1 /\ level' = 1 /\ pc' = "build" /\ Len(tree') = 0
    BY <1>4, EmptySeq DEF BuildTree
  <2>2. PICK P \in [0..0 -> Nat] : P[0] = 0
    <3> DEFINE f == [i \in 0..0 |-> 0]
    <3>1. f \in [0..0 -> Nat] /\ f[0] = 0
      OBVIOUS
    <3> HIDE DEF f
    <3> QED BY <3>1
  <2>3. Codes(P, max_allocated)'
    BY <2>1, <2>2 DEF Codes
  <2>4. RoomTaken(lens', 0) = 0
    <3>1. (lens \in Seq(0..255) => RoomTaken(lens, 0) = 0)'
      BY NoRoom, PTL
    <3> QED BY <1>1, <3>1
  <2>5. \A i \in Len(tree')..max_allocated'-1 :
          P[i] = RoomTaken(lens', level' - 1) + (i - Len(tree'))
    <3>1. level' - 1 = 0
      BY ONLY <2>1
    <3> QED BY ONLY <2>1, <2>2, <2>4, <3>1
  <2>6. CodesBuilding'
    <3>1. P \in [0..max_allocated'-1 -> Nat]
      BY ONLY <2>1, P \in [0..0 -> Nat]
    <3> QED BY ONLY <2>3, <2>5, <3>1 DEF CodesBuilding
  <2> QED BY ONLY <1>2, <2>1, <2>6 DEF CodesInv, CodesBuilt
<1> QED BY ONLY <1>3, <1>4

(* The bits that lead to the nodes of a new level. *)
LEMMA GrownCodes ==
  ASSUME CodesInv, pc = "build", tree' = Grown, UNCHANGED lens,
         NEW al \in Nat, al = Allocated, Len(Grown) <= al
  PROVE  \E P \in [0..al-1 -> Nat] :
           /\ Codes(P, al)'
           /\ level < 255 =>
                \A i \in Len(Grown)..al-1 : P[i] = RoomTaken(lens, level) + (i - Len(Grown))
<1> DEFINE m == max_allocated
           t == Len(tree)
           T == RoomTaken(lens, level - 1)
           V == ValuesWith(level)
<1>1. /\ TreeInv /\ lens \in Seq(0..255) /\ level \in 1..255 /\ m >= 1 /\ t <= m
      /\ \E P \in [0..m-1 -> Nat] :
           /\ Codes(P, m)
           /\ \A i \in t..m-1 : P[i] = T + (i - t)
  <2>1. TreeInv /\ CodesBuilding
    BY DEF CodesInv
  <2>2. lens \in Seq(0..255) /\ level >= 1 /\ level \in 0..255 /\ m >= 1 /\ t <= m
    BY <2>1 DEF TreeInv, Building, TypeOK
  <2> QED BY <2>1, <2>2 DEF CodesBuilding
<1>2. PICK P \in [0..m-1 -> Nat] : Codes(P, m) /\ \A i \in t..m-1 : P[i] = T + (i - t)
  BY ONLY <1>1
<1>3. /\ m \in Nat /\ t \in Nat /\ Missing \in Nat /\ Missing = m - t
      /\ Len(Grown) \in Nat /\ Len(Grown) >= m /\ al = m + 2 * Missing
      /\ Len(Grown) = m + Cardinality(V)
  BY <1>1, GrownParts DEF Missing, Allocated
<1>4. /\ \A i \in 1..t : Grown[i] = tree[i] /\ tree[i].arg \in Nat
      /\ \A i \in (t + 1)..m : Grown[i].leaf = FALSE /\ Grown[i].arg = m + 2 * (i - t - 1)
      /\ \A i \in (m + 1)..Len(Grown) :
           /\ Grown[i].leaf = TRUE /\ Grown[i].arg \in V
           /\ Before(V, Grown[i].arg) = i - m - 1
  <2>1. tree \in Seq(Entry)
    BY <1>1 DEF TreeInv, TypeOK, Entry
  <2>2. \A i \in 1..t : tree[i].arg \in Nat
    <3>1. \A i \in 1..t : tree[i] \in Entry
      BY ONLY <2>1, ElementOfSeq
    <3> QED BY ONLY <3>1 DEF Entry
  <2> QED BY <1>1, <2>2, GrownParts
<1>5. P[0] = 0
      /\ \A i \in 1..t :
           /\ tree[i].leaf  => P[i - 1] = CanonicalCode(lens, tree[i].arg)
           /\ ~tree[i].leaf => /\ tree[i].arg + 1 < m
                               /\ P[tree[i].arg] = 2 * P[i - 1]
                               /\ P[tree[i].arg + 1] = 2 * P[i - 1] + 1
  BY ONLY <1>2 DEF Codes
<1>6. /\ T \in Nat
      /\ level < 255 => RoomTaken(lens, level) = 2 * T + Cardinality(V)
      /\ \A v \in V : CanonicalCode(lens, v) = 2 * T + Before(V, v)
  <2>1. level - 1 \in 0..254 /\ level - 1 \in 0..255 /\ (level - 1) + 1 = level
    BY ONLY <1>1
  <2>2. T \in Nat
    BY ONLY <1>1, <2>1, RoomSteps
  <2>3. RoomTaken(lens, (level - 1) + 1) = 2 * T + Cardinality(ValuesWith((level - 1) + 1))
    BY ONLY <1>1, <2>1, RoomSteps
  <2>4. ASSUME NEW v \in V PROVE CanonicalCode(lens, v) = 2 * T + Before(V, v)
    BY ONLY <1>1, CodeSplits, v \in V
  <2> QED BY ONLY <2>1, <2>2, <2>3, <2>4
<1>7. PICK E \in [0..al-1 -> Nat] : \A i \in 0..al-1 : E[i] = IF i < m THEN P[i] ELSE 2 * T + (i - m)
  <2> DEFINE f == [i \in 0..al-1 |-> IF i < m THEN P[i] ELSE 2 * T + (i - m)]
  <2> HIDE DEF m, t, T
  <2>1. ASSUME NEW i \in 0..al-1 PROVE (IF i < m THEN P[i] ELSE 2 * T + (i - m)) \in Nat
    <3>1. CASE i < m
      <4>1. i \in 0..m-1
        BY ONLY <1>3, <3>1, i \in 0..al-1, al \in Nat
      <4> QED BY ONLY <3>1, <4>1, P \in [0..m-1 -> Nat]
    <3>2. CASE ~(i < m)
      <4>1. 2 * T + (i - m) \in Nat
        BY ONLY <1>3, <1>6, <3>2, i \in 0..al-1, al \in Nat
      <4> QED BY ONLY <3>2, <4>1
    <3> QED BY ONLY <3>1, <3>2
  <2>2. f \in [0..al-1 -> Nat] /\ \A i \in 0..al-1 : f[i] = IF i < m THEN P[i] ELSE 2 * T + (i - m)
    BY ONLY <2>1
  <2> HIDE DEF f
  <2> QED BY ONLY <2>2
<1> HIDE DEF m, t, T, V
<1>9. al >= m /\ al \in Nat
  BY ONLY <1>3, al \in Nat
<1>10. E[0] = 0
  <2>1. 0 \in 0..al-1 /\ 0 < m
    BY ONLY <1>1, <1>3, <1>9
  <2> QED BY ONLY <1>5, <1>7, <2>1
<1>11. ASSUME NEW i \in 1..Len(Grown)
       PROVE  /\ Grown[i].leaf  => E[i - 1] = CanonicalCode(lens, Grown[i].arg)
              /\ ~Grown[i].leaf => /\ Grown[i].arg + 1 < al
                                   /\ E[Grown[i].arg] = 2 * E[i - 1]
                                   /\ E[Grown[i].arg + 1] = 2 * E[i - 1] + 1
  <2>1. CASE i \in 1..t
    <3>1. Grown[i] = tree[i]
      BY ONLY <1>4, <2>1
    <3>2. i - 1 \in 0..al-1 /\ i - 1 < m
      BY ONLY <1>1, <1>3, <1>9, <2>1
    <3>3. E[i - 1] = P[i - 1]
      BY ONLY <1>7, <3>2
    <3>4. CASE tree[i].leaf
      BY ONLY <1>5, <2>1, <3>1, <3>3, <3>4
    <3>5. CASE ~tree[i].leaf
      <4>1. PICK a \in Nat : a = tree[i].arg
        BY ONLY <1>4, <2>1
      <4>2. a + 1 < m /\ P[a] = 2 * P[i - 1] /\ P[a + 1] = 2 * P[i - 1] + 1
        BY ONLY <1>5, <2>1, <3>5, <4>1
      <4>3. a \in 0..al-1 /\ a < m /\ a + 1 \in 0..al-1 /\ a + 1 < al
        BY ONLY <1>3, <1>9, <4>2, a \in Nat
      <4>4. E[a] = P[a] /\ E[a + 1] = P[a + 1]
        BY ONLY <1>7, <4>2, <4>3
      <4> QED BY ONLY <3>1, <3>3, <3>5, <4>1, <4>2, <4>3, <4>4
    <3> QED BY ONLY <3>4, <3>5
  <2>2. CASE i \in (t + 1)..m
    <3>1. Grown[i].leaf = FALSE /\ Grown[i].arg = m + 2 * (i - t - 1)
      BY ONLY <1>4, <2>2
    <3>2. PICK a \in Nat : a = m + 2 * (i - t - 1)
      BY ONLY <1>3, <2>2
    <3>3. a + 1 < al /\ ~(a < m) /\ ~(a + 1 < m) /\ a \in 0..al-1 /\ a + 1 \in 0..al-1
          /\ a - m = 2 * (i - 1 - t) /\ (a + 1) - m = 2 * (i - 1 - t) + 1
      BY ONLY <1>3, <1>9, <2>2, <3>2
    <3>4. E[a] = 2 * T + 2 * (i - 1 - t) /\ E[a + 1] = 2 * T + (2 * (i - 1 - t) + 1)
      BY ONLY <1>7, <3>3
    <3>5. i - 1 \in t..m-1 /\ i - 1 \in 0..al-1 /\ i - 1 < m /\ i - 1 - t \in Int
      BY ONLY <1>3, <1>9, <2>2
    <3>6. E[i - 1] = T + (i - 1 - t)
      BY ONLY <1>2, <1>7, <3>5
    <3>7. E[a] = 2 * E[i - 1] /\ E[a + 1] = 2 * E[i - 1] + 1
      <4>1. PICK j \in Int, b \in Nat : j = i - 1 - t /\ b = T
        BY ONLY <1>6, <3>5
      <4>2. E[a] = 2 * b + 2 * j /\ E[a + 1] = 2 * b + (2 * j + 1) /\ E[i - 1] = b + j
        BY ONLY <3>4, <3>6, <4>1
      <4>3. 2 * b + 2 * j = 2 * (b + j) /\ 2 * b + (2 * j + 1) = 2 * (b + j) + 1
        BY ONLY j \in Int, b \in Nat
      <4> QED BY ONLY <4>2, <4>3
    <3> QED BY ONLY <3>1, <3>2, <3>3, <3>7
  <2>3. CASE i \in (m + 1)..Len(Grown)
    <3>1. Grown[i].leaf = TRUE /\ Grown[i].arg \in V /\ Before(V, Grown[i].arg) = i - m - 1
      BY ONLY <1>4, <2>3
    <3>2. i - 1 \in 0..al-1 /\ ~(i - 1 < m) /\ (i - 1) - m = i - m - 1
      BY ONLY <1>3, <1>9, <2>3, Len(Grown) <= al
    <3>3. E[i - 1] = 2 * T + ((i - 1) - m)
      BY ONLY <1>7, <3>2
    <3>4. CanonicalCode(lens, Grown[i].arg) = 2 * T + Before(V, Grown[i].arg)
      BY ONLY <1>6, <3>1
    <3> QED BY ONLY <3>1, <3>2, <3>3, <3>4
  <2> QED BY ONLY <1>3, <2>1, <2>2, <2>3, i \in 1..Len(Grown)
<1>12. ASSUME level < 255, NEW i \in Len(Grown)..al-1
       PROVE  E[i] = RoomTaken(lens, level) + (i - Len(Grown))
  <2>1. i \in 0..al-1 /\ ~(i < m)
    BY ONLY <1>3, i \in Len(Grown)..al-1
  <2>2. E[i] = 2 * T + (i - m)
    BY ONLY <1>7, <2>1
  <2>3. PICK c \in Nat : c = Cardinality(V)
    BY ONLY <1>1, ValuesWithType DEF V
  <2>4. RoomTaken(lens, level) = 2 * T + c
    BY ONLY <1>6, <1>12, <2>3
  <2>5. Len(Grown) = m + c /\ i \in Int
    BY ONLY <1>3, <2>3, i \in Len(Grown)..al-1
  <2>6. PICK b \in Nat, g \in Nat, j \in Int : b = T /\ g = m /\ j = i
    BY ONLY <1>3, <1>6, <2>5
  <2>7. E[i] = 2 * b + (j - g) /\ RoomTaken(lens, level) + (i - Len(Grown)) = (2 * b + c) + (j - (g + c))
    BY ONLY <2>2, <2>4, <2>5, <2>6
  <2>8. 2 * b + (j - g) = (2 * b + c) + (j - (g + c))
    BY ONLY b \in Nat, g \in Nat, j \in Int, c \in Nat
  <2> QED BY ONLY <2>7, <2>8
<1>13. Codes(E, al)'
  <2>1. lens' = lens /\ tree' = Grown
    OBVIOUS
  <2> QED BY ONLY <1>10, <1>11, <2>1, E \in [0..al-1 -> Nat] DEF Codes
<1>14. level < 255 => \A i \in Len(Grown)..al-1 : E[i] = RoomTaken(lens, level) + (i - Len(Grown))
  BY ONLY <1>12
<1> QED BY ONLY <1>13, <1>14, E \in [0..al-1 -> Nat]

(* A level keeps the invariant. *)
LEMMA BuildLevelCodes ==
  ASSUME CodesInv, BuildLevel
  PROVE  CodesInv'
<1>1. TreeInv /\ TreeInv'
  BY BuildLevelStep DEF CodesInv
<1>2. pc = "build" /\ UNCHANGED lens /\ Len(Grown) \in Nat
  <2>1. pc = "build" /\ UNCHANGED lens
    BY <1>1, BuildLevelCases
  <2> QED BY <1>1, <2>1, GrownParts
<1>3. PICK al \in Nat : al = Allocated
  BY <1>1, <1>2, GrownParts DEF Allocated
<1>4. CASE pc' = "idle" /\ res' \in {"tree index out of range", "too many leaves", "missing some leaves"}
  BY ONLY <1>1, <1>4 DEF CodesInv, CodesBuilding, CodesBuilt
<1>5. CASE /\ tree' = Grown /\ Len(Grown) <= al
           /\ level' = level + 1 /\ max_allocated' = al /\ UNCHANGED <<pc, res>>
  <2>1. PICK P \in [0..al-1 -> Nat] :
           /\ Codes(P, al)'
           /\ level < 255 => \A i \in Len(Grown)..al-1 : P[i] = RoomTaken(lens, level) + (i - Len(Grown))
    BY <1>2, <1>3, <1>5, GrownCodes
  <2>2. level \in 0..255 /\ level' \in 0..255 /\ level' = level + 1
    BY <1>1, <1>5 DEF TreeInv, TypeOK
  <2>3. level < 255 /\ level' - 1 = level
    BY ONLY <2>2
  <2>4. Codes(P, max_allocated)'
    BY ONLY <1>5, <2>1 DEF Codes
  <2>5. \A i \in Len(tree')..max_allocated'-1 : P[i] = RoomTaken(lens', level' - 1) + (i - Len(tree'))
    BY ONLY <1>2, <1>5, <2>1, <2>3
  <2>6. CodesBuilding'
    BY ONLY <1>5, <2>1, <2>4, <2>5 DEF CodesBuilding
  <2> QED BY ONLY <1>1, <1>2, <1>5, <2>6 DEF CodesInv, CodesBuilt
<1>6. CASE tree' = Grown /\ Len(Grown) = al /\ pc' = "idle" /\ res' = "ok"
  <2>1. PICK P \in [0..al-1 -> Nat] : Codes(P, al)'
    <3>1. Len(Grown) <= al
      BY ONLY <1>6, al \in Nat
    <3> QED BY <1>2, <1>3, <1>6, <3>1, GrownCodes
  <2>2. Codes(P, Len(tree))'
    BY ONLY <1>6, <2>1 DEF Codes
  <2>3. CodesBuilt'
    BY ONLY <1>6, <2>1, <2>2 DEF CodesBuilt
  <2> QED BY ONLY <1>1, <1>6, <2>3 DEF CodesInv, CodesBuilding
<1> QED BY <1>1, <1>3, <1>4, <1>5, <1>6, BuildLevelCases

(* So does every other step. *)
LEMMA CodesStep == CodesInv /\ [Next]_vars => CodesInv'
<1> SUFFICES ASSUME CodesInv, [Next]_vars PROVE CodesInv'
  OBVIOUS
<1>1. TreeInv /\ TreeInv' /\ CodesBuilding /\ CodesBuilt
  BY TreeStep DEF CodesInv
<1>2. CASE \E value \in Singles : SetSingle(value)
  <2>1. pc' = "idle" /\ res' = "single"
    BY <1>2 DEF SetSingle
  <2> QED BY ONLY <1>1, <2>1 DEF CodesInv, CodesBuilding, CodesBuilt
<1>3. CASE ReadEntry
  <2>1. pc = "idle" /\ pc' = "read" /\ node' = 0 /\ path' = 0 /\ UNCHANGED <<tree, lens, res>>
    BY <1>3 DEF ReadEntry
  <2>2. CASE res = "ok"
    <3>1. PICK P \in [0..Len(tree)-1 -> Nat] : Codes(P, Len(tree))
      BY ONLY <1>1, <2>1, <2>2 DEF CodesBuilt
    <3>2. Codes(P, Len(tree))' /\ P[0] = 0
      BY ONLY <2>1, <3>1 DEF Codes
    <3>3. node' < Len(tree')
      BY <1>1, <2>1, <2>2 DEF TreeInv, Built
    <3>4. CodesBuilt'
      BY ONLY <2>1, <3>1, <3>2, <3>3 DEF CodesBuilt
    <3> QED BY ONLY <1>1, <2>1, <3>4 DEF CodesInv, CodesBuilding
  <2> QED BY ONLY <1>1, <2>1, <2>2 DEF CodesInv, CodesBuilding, CodesBuilt
<1>4. ASSUME NEW bit \in {0, 1}, ReadBit(bit) PROVE CodesInv'
  <2>1. pc = "read" /\ ~tree[node+1].leaf /\ node' = tree[node+1].arg + bit
        /\ path' = 2 * path + bit /\ UNCHANGED <<tree, lens, pc, res>>
    BY <1>4 DEF ReadBit, Child
  <2>2. res = "ok"
    BY <1>1, <2>1 DEF TreeInv, Reading, Single
  <2>3. PICK P \in [0..Len(tree)-1 -> Nat] : Codes(P, Len(tree)) /\ node < Len(tree) /\ P[node] = path
    BY ONLY <1>1, <2>1, <2>2 DEF CodesBuilt
  <2>4. tree \in Seq(Entry) /\ node \in Nat /\ Len(tree) \in Nat
    BY <1>1 DEF TreeInv, TypeOK, Entry
  <2>5. node + 1 \in 1..Len(tree) /\ (node + 1) - 1 = node
    BY ONLY <2>3, <2>4
  <2>6. PICK a \in Nat : a = tree[node+1].arg
    <3>1. tree[node+1] \in Entry
      BY ONLY <2>4, <2>5, ElementOfSeq
    <3> QED BY ONLY <3>1 DEF Entry
  <2>7. a + 1 < Len(tree) /\ P[a] = 2 * P[node] /\ P[a + 1] = 2 * P[node] + 1
    <3>1. ~tree[node+1].leaf => /\ tree[node+1].arg + 1 < Len(tree)
                                /\ P[tree[node+1].arg] = 2 * P[(node+1) - 1]
                                /\ P[tree[node+1].arg + 1] = 2 * P[(node+1) - 1] + 1
      BY ONLY <2>3, <2>5 DEF Codes
    <3> QED BY ONLY <2>1, <2>5, <2>6, <3>1
  <2>8. node' < Len(tree) /\ P[node'] = path'
    <3>1. path \in Nat
      <4>1. node \in 0..Len(tree)-1
        BY ONLY <2>3, <2>4
      <4> QED BY ONLY <2>3, <4>1
    <3>2. CASE bit = 0
      <4>1. node' = a /\ path' = 2 * path
        BY ONLY <2>1, <2>6, <3>1, <3>2
      <4> QED BY ONLY <2>3, <2>4, <2>7, <4>1
    <3>3. CASE bit = 1
      <4>1. node' = a + 1 /\ path' = 2 * path + 1
        BY ONLY <2>1, <2>6, <3>1, <3>3
      <4> QED BY ONLY <2>3, <2>7, <4>1
    <3> QED BY <3>2, <3>3
  <2>9. Codes(P, Len(tree))'
    BY ONLY <2>1, <2>3 DEF Codes
  <2>10. CodesBuilt'
    BY ONLY <2>1, <2>3, <2>8, <2>9 DEF CodesBuilt
  <2> QED BY ONLY <1>1, <2>1, <2>10 DEF CodesInv, CodesBuilding
<1>5. CASE ReadReturns
  <2>1. pc = "read" /\ pc' = "idle" /\ UNCHANGED <<tree, lens, res>>
    BY <1>5 DEF ReadReturns
  <2>2. CASE res = "ok"
    <3>1. PICK P \in [0..Len(tree)-1 -> Nat] : Codes(P, Len(tree))
      BY ONLY <1>1, <2>1, <2>2 DEF CodesBuilt
    <3>2. Codes(P, Len(tree))'
      BY ONLY <2>1, <3>1 DEF Codes
    <3>3. CodesBuilt'
      BY ONLY <2>1, <3>1, <3>2 DEF CodesBuilt
    <3> QED BY ONLY <1>1, <2>1, <3>3 DEF CodesInv, CodesBuilding
  <2> QED BY ONLY <1>1, <2>1, <2>2 DEF CodesInv, CodesBuilding, CodesBuilt
<1>6. CASE UNCHANGED vars
  <2>1. UNCHANGED <<tree, lens, max_allocated, level, pc, res, node, path>>
    BY <1>6 DEF vars
  <2>2. \A P, n : Codes(P, n)' = Codes(P, n)
    BY ONLY <2>1 DEF Codes
  <2>3. CodesBuilding'
    BY ONLY <1>1, <2>1, <2>2 DEF CodesBuilding
  <2>4. CodesBuilt'
    BY ONLY <1>1, <2>1, <2>2 DEF CodesBuilt
  <2> QED BY ONLY <1>1, <2>3, <2>4 DEF CodesInv
<1>7. CASE LengthOverflows
  <2>1. pc' = "idle" /\ res' = "panic"
    BY <1>7 DEF LengthOverflows
  <2> QED BY ONLY <1>1, <2>1 DEF CodesInv, CodesBuilding, CodesBuilt
<1> QED BY <1>2, <1>3, <1>4, <1>5, <1>6, <1>7, BuildTreeCodes, BuildLevelCodes DEF Next

(* read_entry decodes the canonical code of the table: the bits that lead  *)
(* to a leaf are the code of its value (statictree.rs, build_tree and      *)
(* read_entry).                                                            *)
THEOREM CodesAreCanonical == Spec => []ReadsCanonicalCodes
<1>1. Init => CodesInv
  BY InitTree DEF Init, CodesInv, CodesBuilding, CodesBuilt
<1>2. CodesInv => ReadsCanonicalCodes
  <2> SUFFICES ASSUME CodesInv, pc = "read", res = "ok", tree[node+1].leaf
               PROVE  LET v == tree[node+1].arg
                      IN  depth = lens[v+1] /\ path = CanonicalCode(lens, v)
    BY DEF ReadsCanonicalCodes
  <2>1. TreeInv /\ CodesBuilt
    BY DEF CodesInv
  <2>2. PICK P \in [0..Len(tree)-1 -> Nat] : Codes(P, Len(tree)) /\ node < Len(tree) /\ P[node] = path
    BY <2>1 DEF CodesBuilt
  <2>3. node \in Nat /\ Len(tree) \in Nat
    BY <2>1 DEF TreeInv, TypeOK
  <2>4. node + 1 \in 1..Len(tree) /\ (node + 1) - 1 = node
    BY ONLY <2>2, <2>3
  <2>5. tree[node+1].leaf => P[(node+1) - 1] = CanonicalCode(lens, tree[node+1].arg)
    BY ONLY <2>2, <2>4 DEF Codes
  <2>6. LengthsAreKept
    BY <2>1, KeptLengths
  <2> QED BY <2>2, <2>4, <2>5, <2>6 DEF LengthsAreKept
<1> QED BY <1>1, <1>2, CodesStep, PTL DEF Spec

-----------------------------------------------------------------------------
(* The tables that build_tree accepts. *)

(* The values with codes of at most this length. *)
LeavesUpTo(l) == {v \in 0..Len(lens)-1 : lens[v+1] \in 1..l}
LeafCount(l) == Cardinality(LeavesUpTo(l))

(* The leaves of a level come to those above it. *)
LEMMA LeafCounts ==
  ASSUME lens \in Seq(0..255)
  PROVE  /\ LeafCount(0) = 0 /\ Len(lens) \in Nat
         /\ \A l \in 0..255 : LeafCount(l) \in Nat /\ LeafCount(l) <= Len(lens)
         /\ \A l \in 0..254 : LeafCount(l + 1) = LeafCount(l) + Cardinality(ValuesWith(l + 1))
<1> DEFINE n == Len(lens)
           S == 0..n-1
<1>1. n \in Nat /\ IsFiniteSet(S) /\ Cardinality(S) = n
  <2>1. n \in Nat /\ 0 \in Int /\ n - 1 \in Int
    OBVIOUS
  <2>2. IsFiniteSet(S) /\ Cardinality(S) = IF 0 > n - 1 THEN 0 ELSE (n - 1) - 0 + 1
    BY ONLY <2>1, FS_Interval
  <2> QED BY ONLY <2>1, <2>2
<1>2. LeafCount(0) = 0
  <2>1. LeavesUpTo(0) = {}
    BY DEF LeavesUpTo
  <2> QED BY <2>1, FS_EmptySet DEF LeafCount
<1>3. \A l : LeavesUpTo(l) \in SUBSET S
  BY DEF LeavesUpTo
<1>4. \A l : IsFiniteSet(LeavesUpTo(l)) /\ LeafCount(l) \in Nat /\ LeafCount(l) <= n
  <2> SUFFICES ASSUME NEW l PROVE IsFiniteSet(LeavesUpTo(l)) /\ LeafCount(l) \in Nat /\ LeafCount(l) <= n
    OBVIOUS
  <2>1. LeavesUpTo(l) \in SUBSET S
    BY <1>3
  <2> HIDE DEF S, n
  <2>2. IsFiniteSet(LeavesUpTo(l)) /\ Cardinality(LeavesUpTo(l)) <= Cardinality(S)
    BY ONLY <1>1, <2>1, FS_Subset
  <2>3. Cardinality(LeavesUpTo(l)) \in Nat
    BY ONLY <2>2, FS_CardinalityType
  <2> QED BY ONLY <1>1, <2>2, <2>3 DEF LeafCount
<1>5. ASSUME NEW l \in 0..254
      PROVE  LeafCount(l + 1) = LeafCount(l) + Cardinality(ValuesWith(l + 1))
  <2> DEFINE A == LeavesUpTo(l)
             B == ValuesWith(l + 1)
  <2>1. \A v \in S : lens[v+1] \in 0..255
    <3>1. \A v \in S : v + 1 \in 1..Len(lens)
      BY <1>1
    <3> QED BY ONLY <3>1, lens \in Seq(0..255), ElementOfSeq
  <2>2. LeavesUpTo(l + 1) = A \cup B
    <3>1. \A k \in 0..255 : k \in 1..(l + 1) <=> (k \in 1..l \/ k = l + 1)
      BY ONLY l \in 0..254
    <3> QED BY ONLY <2>1, <3>1, Zenon DEF LeavesUpTo, ValuesWith
  <2>3. A \cap B = {}
    <3>1. l + 1 \notin 1..l
      BY ONLY l \in 0..254
    <3> QED BY ONLY <3>1, Zenon DEF LeavesUpTo, ValuesWith
  <2>4. IsFiniteSet(A) /\ IsFiniteSet(B) /\ Cardinality(A) \in Nat /\ Cardinality(B) \in Nat
    BY <1>4, ValuesWithType DEF LeafCount
  <2> HIDE DEF A, B
  <2>5. Cardinality(A \cup B) = Cardinality(A) + Cardinality(B) - Cardinality(A \cap B)
    BY ONLY <2>4, FS_Union
  <2>6. Cardinality(A \cap B) = 0
    BY ONLY <2>3, FS_EmptySet
  <2>7. Cardinality(A \cup B) = Cardinality(A) + Cardinality(B)
    BY ONLY <2>4, <2>5, <2>6
  <2> QED BY <2>2, <2>7 DEF LeafCount, A, B
<1> QED BY <1>1, <1>2, <1>4, <1>5

(* The longest code is the length of some value, unless there is no code,  *)
(* and no other value has a longer one.                                    *)
LEMMA LongestIs ==
  ASSUME lens \in Seq(0..255)
  PROVE  /\ Longest(lens) \in 0..255
         /\ \A l \in 0..255 : MoreLeaves(l) <=> Longest(lens) > l
         /\ Cardinality(Coded(lens)) = LeafCount(Longest(lens))
<1> DEFINE n == Len(lens)
           S == Coded(lens)
           L == Longest(lens)
<1>1. n \in Nat /\ \A v \in 0..n-1 : v + 1 \in 1..n /\ lens[v+1] \in 0..255
  <2>1. \A v \in 0..n-1 : v + 1 \in 1..n
    OBVIOUS
  <2>2. \A v \in 0..n-1 : lens[v+1] \in 0..255
    BY ONLY <2>1, lens \in Seq(0..255), ElementOfSeq
  <2> QED BY <2>1, <2>2
<1>2. \A v : v \in S <=> v \in 0..n-1 /\ lens[v+1] > 0
  BY DEF Coded
<1> HIDE DEF S
<1>3. /\ L \in 0..255
      /\ \A v \in 0..n-1 : lens[v+1] <= L
      /\ L > 0 => \E v \in 0..n-1 : lens[v+1] = L
  <2>1. CASE S = {}
    <3>1. L = 0
      BY <2>1 DEF Longest, S
    <3>2. ASSUME NEW v \in 0..n-1 PROVE lens[v+1] <= L
      <4>1. PICK k \in 0..255 : k = lens[v+1]
        BY ONLY <1>1, v \in 0..n-1
      <4>2. ~(k > 0)
        BY ONLY <1>2, <2>1, <4>1, v \in 0..n-1
      <4>3. k <= 0
        BY ONLY <4>2, k \in 0..255
      <4> QED BY ONLY <3>1, <4>1, <4>3
    <3> QED BY ONLY <3>1, <3>2
  <2>2. CASE S # {}
    <3> DEFINE R == {k \in Nat : \E v \in S : k = 255 - lens[v+1]}
    <3>1. PICK v0 \in S : TRUE
      BY <2>2
    <3>2. 255 - lens[v0+1] \in R
      <4>1. v0 \in 0..n-1
        BY ONLY <1>2, v0 \in S
      <4>2. PICK j \in 0..255 : j = lens[v0+1]
        BY ONLY <1>1, <4>1
      <4>3. 255 - j \in Nat /\ 255 - j = 255 - lens[v0+1]
        BY ONLY <4>2
      <4> QED BY ONLY <4>3, v0 \in S DEF R
    <3>3. PICK k \in R : \A j \in R : k <= j
      <4>1. R \in SUBSET Nat /\ R # {}
        BY <3>2
      <4> HIDE DEF R
      <4> QED BY ONLY <4>1, Least
    <3>4. PICK w \in S : k = 255 - lens[w+1]
      BY <3>3
    <3>5. w \in 0..n-1 /\ lens[w+1] \in 0..255
      BY ONLY <1>1, <1>2, w \in S
    <3>6. \A v \in S : lens[v+1] <= lens[w+1]
      <4> SUFFICES ASSUME NEW v \in S PROVE lens[v+1] <= lens[w+1]
        OBVIOUS
      <4>1. v \in 0..n-1
        BY ONLY <1>2, v \in S
      <4>2. PICK a \in 0..255, b \in 0..255 : a = lens[v+1] /\ b = lens[w+1]
        BY ONLY <1>1, <3>5, <4>1
      <4>3. 255 - a \in Nat /\ 255 - a = 255 - lens[v+1]
        BY ONLY <4>2
      <4>4. 255 - a \in R
        BY ONLY <4>3, v \in S DEF R
      <4>5. k <= 255 - a /\ k = 255 - b
        BY ONLY <3>3, <3>4, <4>2, <4>4
      <4>6. a <= b
        BY ONLY <4>5, a \in 0..255, b \in 0..255
      <4> QED BY ONLY <4>2, <4>6
    <3> DEFINE M == {lens[v+1] : v \in S}
    <3>7. L = CHOOSE m \in M : \A v \in S : lens[v+1] <= m
      BY <2>2 DEF Longest, S
    <3>8. lens[w+1] \in M
      BY w \in S
    <3> HIDE DEF L
    <3>9. L \in M /\ \A v \in S : lens[v+1] <= L
      BY ONLY <3>6, <3>7, <3>8
    <3>10. PICK u \in S : L = lens[u+1]
      BY <3>9
    <3>11. L \in 0..255 /\ u \in 0..n-1
      BY ONLY <1>1, <1>2, <3>10
    <3>12. ASSUME NEW v \in 0..n-1 PROVE lens[v+1] <= L
      <4>1. PICK k0 \in 0..255 : k0 = lens[v+1]
        BY ONLY <1>1, v \in 0..n-1
      <4>2. CASE v \in S
        BY ONLY <3>9, <4>2
      <4>3. CASE v \notin S
        <5>1. ~(k0 > 0)
          BY ONLY <1>2, <4>1, <4>3, v \in 0..n-1
        <5>2. k0 <= L
          BY ONLY <3>11, <5>1, k0 \in 0..255
        <5> QED BY ONLY <4>1, <5>2
      <4> QED BY ONLY <4>2, <4>3
    <3> QED BY ONLY <3>10, <3>11, <3>12
  <2> QED BY <2>1, <2>2
<1> HIDE DEF L, n
<1>4. ASSUME NEW l \in 0..255 PROVE MoreLeaves(l) <=> L > l
  <2>1. ASSUME MoreLeaves(l) PROVE L > l
    <3>1. PICK i \in 1..n : lens[i] > l
      BY <2>1 DEF MoreLeaves, n
    <3>2. i - 1 \in 0..n-1 /\ (i - 1) + 1 = i
      BY ONLY <1>1, i \in 1..n
    <3>3. PICK k \in 0..255 : k = lens[i]
      BY ONLY <1>1, <3>2
    <3>4. k <= L /\ k > l
      BY ONLY <1>3, <3>1, <3>2, <3>3
    <3> QED BY ONLY <1>3, <3>4, k \in 0..255, l \in 0..255
  <2>2. ASSUME L > l PROVE MoreLeaves(l)
    <3>1. PICK v \in 0..n-1 : lens[v+1] = L
      BY ONLY <1>3, <2>2, l \in 0..255
    <3>2. v + 1 \in 1..n /\ lens[v+1] > l
      BY ONLY <1>1, <2>2, <3>1
    <3> QED BY <3>2 DEF MoreLeaves, n
  <2> QED BY <2>1, <2>2
<1>5. S = LeavesUpTo(L)
  <2>1. LeavesUpTo(L) = {v \in 0..n-1 : lens[v+1] \in 1..L}
    BY DEF LeavesUpTo, n
  <2>2. ASSUME NEW v \in 0..n-1 PROVE lens[v+1] > 0 <=> lens[v+1] \in 1..L
    <3>1. PICK k \in 0..255 : k = lens[v+1]
      BY ONLY <1>1, v \in 0..n-1
    <3>2. k <= L
      BY ONLY <1>3, <3>1, v \in 0..n-1
    <3>3. k > 0 <=> k \in 1..L
      BY ONLY <1>3, <3>2, k \in 0..255
    <3> QED BY ONLY <3>1, <3>3
  <2> QED BY ONLY <1>2, <2>1, <2>2
<1> QED BY <1>3, <1>4, <1>5 DEF L, LeafCount, S

(* A complete code never takes more room than there is, and what is left   *)
(* of a level has two leaves to come for every free node.                  *)
LEMMA CompleteBelow ==
  ASSUME lens \in Seq(0..255), IsComplete(lens), NEW j \in 0..Longest(lens)
  PROVE  /\ RoomTaken(lens, j) <= Pow2[j]
         /\ LeafCount(j) + 2 * (Pow2[j] - RoomTaken(lens, j)) <= LeafCount(Longest(lens))
<1> DEFINE L == Longest(lens)
           T(l) == RoomTaken(lens, l)
           C(l) == LeafCount(l)
           V(l) == Cardinality(ValuesWith(l))
           Good(l) == T(l) <= Pow2[l] /\ C(l) + 2 * (Pow2[l] - T(l)) <= C(L)
           S == {k \in Nat : k <= L /\ ~Good(L - k)}
<1>1. L \in 0..255 /\ T(L) = Pow2[L]
  BY LongestIs DEF IsComplete
<1>2. \A l \in 0..255 : T(l) \in Nat /\ C(l) \in Nat /\ Pow2[l] \in Nat
  BY RoomSteps, LeafCounts, Powers
<1>3. \A l \in 0..254 : /\ T(l + 1) = 2 * T(l) + V(l + 1) /\ C(l + 1) = C(l) + V(l + 1)
                        /\ Pow2[l + 1] = 2 * Pow2[l] /\ V(l + 1) \in Nat
  <2> SUFFICES ASSUME NEW l \in 0..254
               PROVE  /\ T(l + 1) = 2 * T(l) + V(l + 1) /\ C(l + 1) = C(l) + V(l + 1)
                      /\ Pow2[l + 1] = 2 * Pow2[l] /\ V(l + 1) \in Nat
    OBVIOUS
  <2>1. V(l + 1) \in Nat
    BY ValuesWithType
  <2> QED BY <2>1, RoomSteps, LeafCounts, Powers
<1> HIDE DEF L, T, C, V
<1>4. S = {}
  <2> SUFFICES ASSUME S # {} PROVE FALSE
    OBVIOUS
  <2>1. PICK k \in S : \A i \in S : k <= i
    <3>1. S \in SUBSET Nat
      OBVIOUS
    <3> HIDE DEF S
    <3> QED BY ONLY <3>1, S # {}, Least
  <2>2. k \in Nat /\ k <= L /\ ~Good(L - k)
    BY <2>1
  <2>3. k # 0
    <3>1. ASSUME k = 0 PROVE FALSE
      <4>1. L - k = L /\ L \in 0..255
        BY ONLY <1>1, <3>1
      <4>2. PICK p \in Nat, c \in Nat : p = Pow2[L] /\ c = C(L)
        BY ONLY <1>1, <1>2
      <4>3. p <= p /\ c + 2 * (p - p) <= c
        OBVIOUS
      <4>4. Good(L)
        BY ONLY <1>1, <4>2, <4>3
      <4> QED BY ONLY <2>2, <4>1, <4>4
    <3> QED BY ONLY <3>1
  <2>4. PICK l \in 0..254 : l = L - k
    BY ONLY <1>1, <2>2, <2>3
  <2>5. l + 1 = L - (k - 1) /\ k - 1 \in Nat /\ k - 1 <= L /\ ~(k <= k - 1) /\ l + 1 \in 0..255 /\ l \in 0..255
    BY ONLY <1>1, <2>2, <2>3, <2>4
  <2>6. Good(l + 1)
    <3>1. k - 1 \notin S
      BY ONLY <2>1, <2>5
    <3> QED BY ONLY <2>5, <3>1
  <2>7. PICK t \in Nat, c \in Nat, v \in Nat, p \in Nat, e \in Nat :
           t = T(l) /\ c = C(l) /\ v = V(l + 1) /\ p = Pow2[l] /\ e = C(L)
    BY ONLY <1>1, <1>2, <1>3, <2>5, l \in 0..254
  <2>8. T(l + 1) = 2 * t + v /\ C(l + 1) = c + v /\ Pow2[l + 1] = 2 * p
    BY ONLY <1>3, <2>7, l \in 0..254
  <2>9. 2 * t + v <= 2 * p /\ (c + v) + 2 * (2 * p - (2 * t + v)) <= e
    BY ONLY <2>6, <2>7, <2>8
  <2>10. t <= p /\ c + 2 * (p - t) <= e
    BY ONLY <2>9, t \in Nat, c \in Nat, v \in Nat, p \in Nat, e \in Nat
  <2>11. Good(l)
    BY ONLY <2>7, <2>10
  <2> QED BY ONLY <2>2, <2>4, <2>11
<1>5. L - (L - j) = j /\ L - j \in Nat /\ L - j <= L
  <2>1. j \in 0..L
    BY DEF L
  <2> QED BY ONLY <1>1, <2>1
<1>6. Good(j)
  BY ONLY <1>4, <1>5
<1> QED BY <1>6 DEF L, T, C

-----------------------------------------------------------------------------
(* While a tree is built every promised node is room the codes have left,  *)
(* and each branch brings one node more.                                   *)
Counting ==
  pc = "build" =>
    /\ ~TooManyLengths(Len(lens)) /\ level \in 1..255
    /\ max_allocated - Len(tree) = Pow2[level - 1] - RoomTaken(lens, level - 1)
    /\ max_allocated = 2 * (Len(tree) - LeafCount(level - 1)) + 1
    /\ max_allocated > Len(tree) => Len(tree) - LeafCount(level - 1) >= level - 1
    /\ level >= 2 => MoreLeaves(level - 1)

(* How the last build ended. *)
Outcome ==
  /\ pc # "build" /\ res \notin {"none", "single", "panic"} =>
       (res = "ok" <=> ~TooManyLengths(Len(lens)) /\ IsComplete(lens))
  /\ res = "panic" => \E i \in DOMAIN lens : lens[i] = LastLevel

CountInv == TreeInv /\ Counting /\ Outcome

(* The results of a level, with the checks that give them. *)
LEMMA BuildLevelResults ==
  ASSUME TreeInv, BuildLevel
  PROVE  /\ pc = "build" /\ UNCHANGED lens
         /\ \/ /\ Missing > 0 /\ max_allocated + 2 * (Missing - 1) > MaxIndex
               /\ pc' = "idle" /\ res' = "tree index out of range"
            \/ Len(Grown) > Allocated /\ pc' = "idle" /\ res' = "too many leaves"
            \/ /\ ~(Len(Grown) > Allocated) /\ MoreLeaves(level)
               /\ tree' = Grown /\ level' = level + 1 /\ max_allocated' = Allocated
               /\ UNCHANGED <<pc, res>>
            \/ /\ ~(Len(Grown) > Allocated) /\ ~MoreLeaves(level) /\ Len(Grown) # Allocated
               /\ pc' = "idle" /\ res' = "missing some leaves"
            \/ /\ ~MoreLeaves(level) /\ Len(Grown) = Allocated
               /\ pc' = "idle" /\ res' = "ok"
<1>1. pc = "build" /\ UNCHANGED lens
  BY DEF BuildLevel
<1>2. \/ /\ Missing > 0 /\ max_allocated + 2 * (Missing - 1) > MaxIndex
         /\ pc' = "idle" /\ res' = "tree index out of range"
      \/ /\ tree' = Grown
         /\ \/ Len(Grown) > Allocated /\ pc' = "idle" /\ res' = "too many leaves"
            \/ /\ ~(Len(Grown) > Allocated) /\ MoreLeaves(level)
               /\ level' = level + 1 /\ max_allocated' = Allocated /\ UNCHANGED <<pc, res>>
            \/ /\ ~(Len(Grown) > Allocated) /\ ~MoreLeaves(level) /\ Len(Grown) # Allocated
               /\ pc' = "idle" /\ res' = "missing some leaves"
            \/ /\ ~MoreLeaves(level) /\ ~(Len(Grown) # Allocated)
               /\ pc' = "idle" /\ res' = "ok"
  BY Zenon DEF BuildLevel, Missing, Allocated, Grown, NewLeaves, Overfull, Incomplete
<1> QED BY ONLY <1>1, <1>2, Zenon

(* The numbers of a level: m nodes are promised and t are there, with c    *)
(* leaves; n leaves come; T is the room taken and p the room there is.     *)
LevelHas(m, t, c, n, T, p) ==
  /\ m = max_allocated /\ t = Len(tree) /\ c = LeafCount(level - 1)
  /\ n = Cardinality(ValuesWith(level))
  /\ T = RoomTaken(lens, level - 1) /\ p = Pow2[level - 1]
  /\ t <= m /\ m - t = p - T /\ m = 2 * (t - c) + 1
  /\ m > t => t - c >= level - 1
  /\ Missing = m - t /\ Allocated = m + 2 * (m - t) /\ Len(Grown) = m + n
  /\ RoomTaken(lens, level) = 2 * T + n /\ Pow2[level] = 2 * p
  /\ LeafCount(level) = c + n

(* There are such numbers. *)
LEMMA LevelNumbers ==
  ASSUME CountInv, pc = "build"
  PROVE  /\ lens \in Seq(0..255) /\ level \in 1..255 /\ level - 1 \in 0..254
         /\ \E m, t, c, n, T, p \in Nat : LevelHas(m, t, c, n, T, p)
<1>1. TreeInv /\ Counting
  BY DEF CountInv
<1>2. lens \in Seq(0..255) /\ level \in 1..255 /\ Len(tree) <= max_allocated
      /\ max_allocated \in Nat /\ Len(tree) \in Nat
      /\ Len(Grown) = max_allocated + Cardinality(ValuesWith(level))
  <2>1. lens \in Seq(0..255) /\ level \in 1..255 /\ Len(tree) <= max_allocated
    BY <1>1 DEF TreeInv, Building, Counting
  <2> QED BY <1>1, <2>1, GrownParts
<1>3. level - 1 \in 0..254 /\ level - 1 \in 0..255 /\ (level - 1) + 1 = level
  BY ONLY <1>2
<1>4. /\ LeafCount(level - 1) \in Nat
      /\ LeafCount((level - 1) + 1) = LeafCount(level - 1) + Cardinality(ValuesWith((level - 1) + 1))
  BY ONLY <1>2, <1>3, LeafCounts
<1>5. /\ RoomTaken(lens, level - 1) \in Nat
      /\ RoomTaken(lens, (level - 1) + 1) =
           2 * RoomTaken(lens, level - 1) + Cardinality(ValuesWith((level - 1) + 1))
  BY ONLY <1>2, <1>3, RoomSteps
<1>6. Pow2[level - 1] \in Nat /\ Pow2[(level - 1) + 1] = 2 * Pow2[level - 1]
  BY ONLY <1>3, Powers
<1>7. Cardinality(ValuesWith(level)) \in Nat
  BY <1>2, ValuesWithType
<1>8. PICK m \in Nat, t \in Nat, c \in Nat, n \in Nat, T \in Nat, p \in Nat :
        /\ m = max_allocated /\ t = Len(tree) /\ c = LeafCount(level - 1)
        /\ n = Cardinality(ValuesWith(level))
        /\ T = RoomTaken(lens, level - 1) /\ p = Pow2[level - 1]
  BY ONLY <1>2, <1>4, <1>5, <1>6, <1>7
<1>9. m - t = p - T /\ m = 2 * (t - c) + 1 /\ (m > t => t - c >= level - 1)
  BY <1>1, <1>8 DEF Counting
<1>10. Missing = m - t /\ Allocated = m + 2 * (m - t)
  BY <1>8 DEF Missing, Allocated
<1>11. t <= m /\ Len(Grown) = m + n /\ RoomTaken(lens, level) = 2 * T + n /\ Pow2[level] = 2 * p
       /\ LeafCount(level) = c + n
  BY ONLY <1>2, <1>3, <1>4, <1>5, <1>6, <1>8
<1>12. LevelHas(m, t, c, n, T, p)
  BY ONLY <1>8, <1>9, <1>10, <1>11 DEF LevelHas
<1> QED BY <1>2, <1>3, <1>12

(* A level keeps the count, and its results are right. *)
LEMMA BuildLevelCounts ==
  ASSUME CountInv, BuildLevel
  PROVE  CountInv'
<1>1. TreeInv /\ TreeInv' /\ Counting
  BY BuildLevelStep DEF CountInv
<1>2. pc = "build" /\ UNCHANGED lens
  BY <1>1, BuildLevelResults
<1>3. lens \in Seq(0..255) /\ level \in 1..255 /\ level - 1 \in 0..254
  BY <1>2, LevelNumbers
<1>20. PICK m \in Nat, t \in Nat, c \in Nat, n \in Nat, T \in Nat, p \in Nat : LevelHas(m, t, c, n, T, p)
  BY <1>2, LevelNumbers
<1>4. /\ m = max_allocated /\ t = Len(tree) /\ c = LeafCount(level - 1)
      /\ n = Cardinality(ValuesWith(level))
      /\ T = RoomTaken(lens, level - 1) /\ p = Pow2[level - 1]
      /\ t <= m /\ m - t = p - T /\ m = 2 * (t - c) + 1
      /\ m > t => t - c >= level - 1
      /\ Missing = m - t /\ Allocated = m + 2 * (m - t) /\ Len(Grown) = m + n
      /\ RoomTaken(lens, level) = 2 * T + n /\ Pow2[level] = 2 * p
      /\ LeafCount(level) = c + n
  BY ONLY <1>20 DEF LevelHas
<1>17. /\ m \in Nat /\ t \in Nat /\ c \in Nat /\ n \in Nat /\ T \in Nat /\ p \in Nat
       /\ t <= m /\ m - t = p - T /\ m = 2 * (t - c) + 1
  BY ONLY <1>4, m \in Nat, t \in Nat, c \in Nat, n \in Nat, T \in Nat, p \in Nat
<1>18. level \in 1..255 /\ level \in 0..255 /\ level - 1 \in 0..255
  BY ONLY <1>3
<1>5. ~TooManyLengths(Len(lens)) /\ (level >= 2 => MoreLeaves(level - 1))
  BY <1>1, <1>2 DEF Counting
<1> DEFINE L == Longest(lens)
<1>6. L \in 0..255 /\ \A l \in 0..255 : MoreLeaves(l) <=> L > l
  BY <1>3, LongestIs
<1>7. LeafCount(L) \in Nat /\ LeafCount(L) <= Len(lens) /\ Len(lens) \in Nat
      /\ 2 * Len(lens) <= MaxIndex /\ MaxIndex \in Nat
  <2>1. LeafCount(L) \in Nat /\ LeafCount(L) <= Len(lens) /\ Len(lens) \in Nat
    BY ONLY <1>3, <1>6, LeafCounts
  <2>2. MaxIndex \in Nat /\ ~(Len(lens) > MaxIndex \div 2)
    BY <1>5, MaxIndexAssumption DEF TooManyLengths
  <2>3. 2 * Len(lens) <= MaxIndex
    <3>1. PICK q \in Nat, x \in Nat : q = Len(lens) /\ x = MaxIndex
      BY ONLY <2>1, <2>2
    <3>2. ~(q > x \div 2)
      BY ONLY <2>2, <3>1
    <3>3. 2 * q <= x
      BY ONLY <3>2, q \in Nat, x \in Nat
    <3> QED BY ONLY <3>1, <3>3
  <2> QED BY ONLY <2>1, <2>2, <2>3
<1>19. L \in 0..255
  BY ONLY <1>6
<1>8. IsComplete(lens) <=> L < LeafCount(L) /\ RoomTaken(lens, L) = Pow2[L]
  BY <1>3, LongestIs DEF IsComplete
<1> HIDE DEF L
(* A code with no value is not complete, so a complete one has this level. *)
<1>9. IsComplete(lens) => level <= L
  <2> SUFFICES ASSUME IsComplete(lens) PROVE level <= L
    OBVIOUS
  <2>1. CASE level >= 2
    <3>1. L > level - 1
      <4>1. level - 1 \in 0..255
        BY ONLY <1>3
      <4> QED BY ONLY <1>5, <1>6, <2>1, <4>1
    <3> QED BY ONLY <1>3, <1>6, <3>1
  <2>2. CASE ~(level >= 2)
    <3>1. level = 1
      BY ONLY <1>3, <2>2
    <3>2. L # 0
      <4>1. ASSUME L = 0 PROVE FALSE
        <5>1. LeafCount(0) = 0
          BY <1>3, LeafCounts
        <5> QED BY ONLY <1>8, <4>1, <5>1, IsComplete(lens)
      <4> QED BY ONLY <4>1
    <3> QED BY ONLY <1>6, <3>1, <3>2
  <2> QED BY ONLY <2>1, <2>2
<1>10. IsComplete(lens) => 2 * T + n <= 2 * p /\ c + 2 * (p - T) <= LeafCount(L)
  <2> SUFFICES ASSUME IsComplete(lens) PROVE 2 * T + n <= 2 * p /\ c + 2 * (p - T) <= LeafCount(L)
    OBVIOUS
  <2>1. level \in 0..L /\ level - 1 \in 0..L
    <3>1. L \in 0..255 /\ level \in 1..255 /\ level <= L
      BY ONLY <1>3, <1>6, <1>9, IsComplete(lens)
    <3> QED BY ONLY <3>1
  <2>2. RoomTaken(lens, level) <= Pow2[level]
    BY <1>3, <2>1, CompleteBelow DEF L
  <2>3. LeafCount(level - 1) + 2 * (Pow2[level - 1] - RoomTaken(lens, level - 1)) <= LeafCount(L)
    BY <1>3, <2>1, CompleteBelow DEF L
  <2> QED BY ONLY <1>4, <2>2, <2>3
(* The array is large enough for a complete code. *)
<1>11. CASE Missing > 0 /\ max_allocated + 2 * (Missing - 1) > MaxIndex
            /\ pc' = "idle" /\ res' = "tree index out of range"
  <2>1. m + 2 * ((m - t) - 1) > MaxIndex
    BY ONLY <1>4, <1>11
  <2>2. ASSUME IsComplete(lens) PROVE FALSE
    <3>1. PICK e \in Nat, x \in Nat, q \in Nat : e = LeafCount(L) /\ x = MaxIndex /\ q = Len(lens)
      BY ONLY <1>7
    <3>2. c + 2 * (p - T) <= e /\ e <= q /\ 2 * q <= x /\ m + 2 * ((m - t) - 1) > x
          /\ m - t = p - T /\ m = 2 * (t - c) + 1
      BY ONLY <1>4, <1>7, <1>10, <2>1, <2>2, <3>1
    <3> QED BY ONLY <3>2, c \in Nat, p \in Nat, T \in Nat, e \in Nat, x \in Nat, q \in Nat,
                    m \in Nat, t \in Nat
  <2>3. Outcome'
    BY <1>2, <1>11, <2>2 DEF Outcome
  <2> QED BY ONLY <1>1, <1>11, <2>3 DEF CountInv, Counting
<1>12. CASE Len(Grown) > Allocated /\ pc' = "idle" /\ res' = "too many leaves"
  <2>1. m + n > m + 2 * (m - t)
    BY ONLY <1>4, <1>12
  <2>2. ASSUME IsComplete(lens) PROVE FALSE
    <3>1. 2 * T + n <= 2 * p /\ m - t = p - T
      BY ONLY <1>4, <1>10, <2>2
    <3> QED BY ONLY <2>1, <3>1, n \in Nat, p \in Nat, T \in Nat, m \in Nat, t \in Nat
  <2>3. Outcome'
    BY <1>2, <1>12, <2>2 DEF Outcome
  <2> QED BY ONLY <1>1, <1>12, <2>3 DEF CountInv, Counting
<1>13. CASE /\ ~(Len(Grown) > Allocated) /\ MoreLeaves(level)
            /\ tree' = Grown /\ level' = level + 1 /\ max_allocated' = Allocated
            /\ UNCHANGED <<pc, res>>
  <2>1. Len(tree') = m + n /\ max_allocated' = m + 2 * (m - t) /\ ~(m + n > m + 2 * (m - t))
    BY ONLY <1>4, <1>13
  <2>2. level' - 1 = level /\ level' \in 1..255
    <3>1. level' \in 0..255
      BY <1>1 DEF TreeInv, TypeOK
    <3> QED BY ONLY <1>3, <1>13, <3>1
  <2>3. LeafCount(level - 1)' = c + n
    <3>1. LeafCount(level - 1)' = LeafCount(level)
      BY ONLY <1>2, <2>2 DEF LeafCount, LeavesUpTo
    <3> QED BY ONLY <1>4, <3>1
  <2>4. /\ RoomTaken(lens, level - 1)' = 2 * T + n /\ Pow2[level - 1]' = 2 * p
    <3>1. RoomTaken(lens', level' - 1) = RoomTaken(lens, level) /\ Pow2[level' - 1] = Pow2[level]
      BY ONLY <1>2, <2>2
    <3>2. RoomTaken(lens, level - 1)' = RoomTaken(lens', level' - 1) /\ Pow2[level - 1]' = Pow2[level' - 1]
      BY DEF RoomTaken, SumTo, Share, Pow2
    <3> QED BY ONLY <1>4, <3>1, <3>2
  <2>5. MoreLeaves(level - 1)' /\ ~TooManyLengths(Len(lens))'
    <3>1. MoreLeaves(level - 1)'
      BY ONLY <1>2, <1>13, <2>2 DEF MoreLeaves
    <3>2. ~TooManyLengths(Len(lens))'
      BY ONLY <1>2, <1>5 DEF TooManyLengths
    <3> QED BY ONLY <3>1, <3>2
  <2>6. (m + 2 * (m - t)) - (m + n) = 2 * p - (2 * T + n)
    BY ONLY <1>17, m \in Nat, t \in Nat, n \in Nat, T \in Nat, p \in Nat
  <2>7. m + 2 * (m - t) = 2 * ((m + n) - (c + n)) + 1
    BY ONLY <1>17, m \in Nat, t \in Nat, n \in Nat, c \in Nat
  <2>8. ASSUME m + 2 * (m - t) > m + n PROVE (m + n) - (c + n) >= level
    <3>1. PICK l \in 1..255 : l = level
      BY ONLY <1>3
    <3>2. m > t
      BY ONLY <1>17, <2>8, m \in Nat, t \in Nat, n \in Nat
    <3>3. t - c >= l - 1
      BY ONLY <1>4, <3>1, <3>2
    <3>4. (m + n) - (c + n) >= l
      BY ONLY <3>2, <3>3, m \in Nat, t \in Nat, n \in Nat, c \in Nat, l \in 1..255
    <3> QED BY ONLY <3>1, <3>4
  <2>9. Counting'
    <3>1. /\ max_allocated' - Len(tree') = 2 * p - (2 * T + n)
          /\ max_allocated' = 2 * (Len(tree') - (c + n)) + 1
          /\ max_allocated' > Len(tree') => Len(tree') - (c + n) >= level' - 1
      BY ONLY <2>1, <2>2, <2>6, <2>7, <2>8
    <3> QED BY ONLY <2>2, <2>3, <2>4, <2>5, <3>1 DEF Counting
  <2>10. pc' = "build"
    BY ONLY <1>2, <1>13
  <2>11. res' = "none"
    BY ONLY <1>1, <2>10 DEF TreeInv, Building
  <2> QED BY ONLY <1>1, <2>9, <2>10, <2>11 DEF CountInv, Outcome
(* The last level is the longest. *)
<1>14. ~MoreLeaves(level) => L <= level /\ (level >= 2 => L = level)
  <2> SUFFICES ASSUME ~MoreLeaves(level) PROVE L <= level /\ (level >= 2 => L = level)
    OBVIOUS
  <2>1. level \in 0..255 /\ level - 1 \in 0..255 /\ level \in 1..255 /\ L \in 0..255
    BY ONLY <1>18, <1>19
  <2>2. ~(L > level)
    BY ONLY <1>6, <2>1, ~MoreLeaves(level)
  <2>3. level >= 2 => L > level - 1
    BY ONLY <1>5, <1>6, <2>1
  <2> QED BY ONLY <2>1, <2>2, <2>3
<1>15. CASE /\ ~(Len(Grown) > Allocated) /\ ~MoreLeaves(level) /\ Len(Grown) # Allocated
            /\ pc' = "idle" /\ res' = "missing some leaves"
  <2>1. ASSUME IsComplete(lens) PROVE FALSE
    <3>1. L = level
      <4>1. level <= L /\ L <= level
        BY ONLY <1>9, <1>14, <1>15, <2>1
      <4> QED BY ONLY <1>18, <1>19, <4>1
    <3>2. 2 * T + n = 2 * p
      BY ONLY <1>4, <1>8, <2>1, <3>1
    <3>3. m + n # m + 2 * (m - t)
      BY ONLY <1>4, <1>15
    <3> QED BY ONLY <1>17, <3>2, <3>3, m \in Nat, t \in Nat, n \in Nat, T \in Nat, p \in Nat
  <2>2. Outcome'
    BY <1>2, <1>15, <2>1 DEF Outcome
  <2> QED BY ONLY <1>1, <1>15, <2>2 DEF CountInv, Counting
<1>16. CASE /\ ~MoreLeaves(level) /\ Len(Grown) = Allocated
            /\ pc' = "idle" /\ res' = "ok"
  <2>1. n = 2 * (m - t) /\ 2 * T + n = 2 * p
    <3>1. m + n = m + 2 * (m - t)
      BY ONLY <1>4, <1>16
    <3> QED BY ONLY <1>17, <3>1, m \in Nat, t \in Nat, n \in Nat, T \in Nat, p \in Nat
  <2>2. L = level
    <3>1. CASE level >= 2
      BY ONLY <1>14, <1>16, <3>1
    <3>2. CASE ~(level >= 2)
      <4>1. level = 1 /\ level - 1 = 0
        BY ONLY <1>3, <3>2
      <4>2. T = 0 /\ p = 1
        BY <1>3, <1>4, <4>1, RoomSteps, Powers
      <4>3. n = 2
        BY ONLY <2>1, <4>2, n \in Nat
      <4>4. L # 0
        <5>1. MoreLeaves(0)
          <6>1. PICK v \in ValuesWith(level) : TRUE
            <7>1. ValuesWith(level) # {}
              <8>1. Cardinality(ValuesWith(level)) # 0
                BY ONLY <1>4, <4>3
              <8> QED BY ONLY <8>1, FS_EmptySet
            <7> QED BY <7>1
          <6>2. v + 1 \in 1..Len(lens) /\ lens[v+1] = 1
            BY <4>1, <6>1 DEF ValuesWith
          <6> QED BY <6>2 DEF MoreLeaves
        <5>2. L > 0
          BY ONLY <1>6, <5>1
        <5> QED BY ONLY <1>6, <5>2
      <4>5. L <= level
        BY ONLY <1>14, <1>16
      <4> QED BY ONLY <1>19, <4>1, <4>4, <4>5
    <3> QED BY ONLY <3>1, <3>2
  <2>3. m > t
    <3>1. CASE level >= 2
      <4>1. ASSUME n = 0 PROVE FALSE
        <5>1. \A l \in 0..255 : l = level - 1 => MoreLeaves(l)
          BY ONLY <1>5, <3>1
        <5>2. ValuesWith(level) = {}
          <6>1. IsFiniteSet(ValuesWith(level)) /\ Cardinality(ValuesWith(level)) = 0
            BY <1>3, <1>4, <4>1, ValuesWithType
          <6> QED BY ONLY <6>1, FS_EmptySet
        <5>3. PICK i \in 1..Len(lens) : lens[i] > level - 1
          BY <1>5, <3>1 DEF MoreLeaves
        <5>4. PICK k \in 0..255 : k = lens[i]
          BY ONLY <1>3, i \in 1..Len(lens), ElementOfSeq
        <5>5. ~(k > level)
          BY <1>16, <5>4 DEF MoreLeaves
        <5>6. k = level
          BY ONLY <1>3, <5>3, <5>4, <5>5
        <5>7. i - 1 \in 0..Len(lens)-1 /\ (i - 1) + 1 = i
          BY ONLY <1>7, i \in 1..Len(lens)
        <5>8. i - 1 \in ValuesWith(level)
          BY ONLY <5>4, <5>6, <5>7 DEF ValuesWith
        <5> QED BY ONLY <5>2, <5>8
      <4> QED BY ONLY <1>17, <2>1, <4>1, m \in Nat, t \in Nat, n \in Nat
    <3>2. CASE ~(level >= 2)
      <4>1. level - 1 = 0
        BY ONLY <1>3, <3>2
      <4>2. T = 0 /\ p = 1
        BY <1>3, <1>4, <4>1, RoomSteps, Powers
      <4> QED BY ONLY <1>4, <4>2, m \in Nat, t \in Nat
    <3> QED BY ONLY <3>1, <3>2
  <2>4. IsComplete(lens)
    <3>1. LeafCount(L) = c + n /\ RoomTaken(lens, L) = Pow2[L]
      BY ONLY <1>4, <2>1, <2>2
    <3>2. PICK l \in 1..255 : l = level
      BY ONLY <1>3
    <3>3. l < c + n
      <4>1. t - c >= l - 1
        BY ONLY <1>4, <2>3, <3>2
      <4> QED BY ONLY <1>17, <2>1, <2>3, <4>1, l \in 1..255, m \in Nat, t \in Nat, c \in Nat, n \in Nat
    <3>4. L < LeafCount(L)
      BY ONLY <2>2, <3>1, <3>2, <3>3
    <3> QED BY ONLY <1>8, <3>1, <3>4
  <2>5. Outcome'
    BY <1>2, <1>5, <1>16, <2>4 DEF Outcome
  <2> QED BY ONLY <1>1, <1>16, <2>5 DEF CountInv, Counting
<1> QED BY <1>1, <1>11, <1>12, <1>13, <1>15, <1>16, BuildLevelResults

(* So does every other step. *)
LEMMA CountStep == CountInv /\ [Next]_vars => CountInv'
<1> SUFFICES ASSUME CountInv, [Next]_vars PROVE CountInv'
  OBVIOUS
<1>1. TreeInv /\ TreeInv' /\ Counting /\ Outcome
  BY TreeStep DEF CountInv
<1>2. CASE \E value \in Singles : SetSingle(value)
  <2>1. pc' = "idle" /\ res' = "single"
    BY <1>2 DEF SetSingle
  <2> QED BY ONLY <1>1, <2>1 DEF CountInv, Counting, Outcome
<1>3. ASSUME NEW ls \in Lengths, BuildTree(ls) PROVE CountInv'
  <2>1. lens' = ls /\ ls \in Seq(0..255) /\ pc = "idle"
    BY <1>3, LengthsAssumption DEF BuildTree
  <2>2. CASE TooManyLengths(Len(ls))
    <3>1. res' = "too many code lengths" /\ pc' = "idle"
      BY <1>3, <2>2 DEF BuildTree
    <3>2. TooManyLengths(Len(lens))'
      BY ONLY <2>1, <2>2 DEF TooManyLengths
    <3> QED BY ONLY <1>1, <3>1, <3>2 DEF CountInv, Counting, Outcome
  <2>3. CASE ~TooManyLengths(Len(ls))
    <3>1. tree' = <<>> /\ max_allocated' = 1 /\ level' = 1 /\ pc' = "build" /\ Len(tree') = 0
          /\ level' - 1 = 0 /\ res' = "none"
      BY <1>3, <2>3, EmptySeq DEF BuildTree
    <3>2. ~TooManyLengths(Len(lens))'
      BY ONLY <2>1, <2>3 DEF TooManyLengths
    <3>3. RoomTaken(lens, level - 1)' = 0
      <4>1. (lens \in Seq(0..255) => RoomTaken(lens, 0) = 0)'
        BY NoRoom, PTL
      <4>2. RoomTaken(lens', 0) = 0
        BY ONLY <2>1, <4>1
      <4>3. RoomTaken(lens', level' - 1) = 0
        BY ONLY <3>1, <4>2
      <4>4. RoomTaken(lens, level - 1)' = RoomTaken(lens', level' - 1)
        BY DEF RoomTaken, SumTo, Share
      <4> QED BY ONLY <4>3, <4>4
    <3>4. LeafCount(level - 1)' = 0
      <4>1. LeavesUpTo(level - 1)' = {}
        BY ONLY <3>1 DEF LeavesUpTo
      <4> QED BY ONLY <4>1, FS_EmptySet DEF LeafCount
    <3>5. Pow2[level - 1]' = 1
      <4>1. Pow2[level' - 1] = 1
        BY ONLY <3>1, Powers
      <4>2. Pow2[level - 1]' = Pow2[level' - 1]
        BY DEF Pow2
      <4> QED BY ONLY <4>1, <4>2
    <3>6. Counting'
      BY ONLY <3>1, <3>2, <3>3, <3>4, <3>5 DEF Counting
    <3> QED BY ONLY <1>1, <3>1, <3>6 DEF CountInv, Outcome
  <2> QED BY ONLY <2>2, <2>3
<1>4. CASE ReadEntry \/ ReadReturns \/ \E bit \in {0, 1} : ReadBit(bit)
  <2>1. pc # "build" /\ pc' # "build" /\ UNCHANGED <<lens, res>>
    BY <1>4 DEF ReadEntry, ReadReturns, ReadBit
  <2>2. Outcome'
    BY ONLY <1>1, <2>1 DEF Outcome, TooManyLengths, IsComplete, Longest, Coded, RoomTaken, SumTo, Share
  <2> QED BY ONLY <1>1, <2>1, <2>2 DEF CountInv, Counting
<1>5. CASE UNCHANGED vars
  <2>1. UNCHANGED <<tree, lens, max_allocated, level, pc, res>>
    BY <1>5 DEF vars
  <2>2. Outcome'
    BY ONLY <1>1, <2>1 DEF Outcome, TooManyLengths, IsComplete, Longest, Coded, RoomTaken, SumTo, Share
  <2>3. Counting'
    BY ONLY <1>1, <2>1 DEF Counting, TooManyLengths, RoomTaken, SumTo, Share, LeafCount, LeavesUpTo, MoreLeaves
  <2> QED BY ONLY <1>1, <2>2, <2>3 DEF CountInv
<1>6. CASE LengthOverflows
  <2>1. pc = "build" /\ pc' = "idle" /\ res' = "panic" /\ UNCHANGED lens /\ level = 255
    BY <1>6 DEF LengthOverflows, LastLevel
  <2>2. lens \in Seq(0..255)
    BY ONLY <1>1, <2>1 DEF TreeInv, Building
  <2>3. MoreLeaves(254)
    BY ONLY <1>1, <2>1 DEF Counting
  <2>4. PICK i \in 1..Len(lens) : lens[i] > 254
    BY ONLY <2>3 DEF MoreLeaves
  <2>5. DOMAIN lens = 1..Len(lens) /\ lens[i] \in 0..255
    BY ONLY <2>2, i \in 1..Len(lens), ElementOfSeq
  <2>6. lens[i] = 255
    <3>1. PICK k \in 0..255 : k = lens[i]
      BY ONLY <2>5
    <3>2. k > 254
      BY ONLY <2>4, <3>1
    <3>3. k = 255
      BY ONLY <3>2, k \in 0..255
    <3> QED BY ONLY <3>1, <3>3
  <2>7. Outcome'
    BY ONLY <2>1, <2>5, <2>6 DEF Outcome, LastLevel
  <2> QED BY ONLY <1>1, <2>1, <2>7 DEF CountInv, Counting
<1> QED BY <1>2, <1>3, <1>4, <1>5, <1>6, BuildLevelCounts DEF Next

(* build_tree, if it returns, accepts the tables of complete prefix codes  *)
(* of a size that passes its check and no others (statictree.rs): none of  *)
(* its checks, of the index range, for too many and for missing leaves, is *)
(* ever too strict or too late.  In a build with overflow checks it only   *)
(* panics on a table with a length of 255.                                 *)
THEOREM CompleteCodesAreAccepted == Spec => []BuildAcceptsCompleteCodes
<1>1. Init => CountInv
  BY InitTree DEF Init, CountInv, Counting, Outcome
<1>2. CountInv => BuildAcceptsCompleteCodes
  BY DEF CountInv, Outcome, BuildAcceptsCompleteCodes
<1> QED BY <1>1, <1>2, CountStep, PTL DEF Spec
=============================================================================
