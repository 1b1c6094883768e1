------------------------------- MODULE DynTree -------------------------------
(***************************************************************************)
(* DynHuffTree of src/decode/lhv1/dyntree.rs: the adaptive Huffman tree of *)
(* the lh1 method.  The nodes sit in an array ordered by falling           *)
(* frequency, the root first; siblings are neighbours, so a branch only    *)
(* stores the index of its second child; nodes of equal frequency form a   *)
(* group, whose leader is its first node.  Reading a value walks down from *)
(* the root, then up from the leaf: each node on the way changes places    *)
(* with the leader of its group and is counted once more.                  *)
(*                                                                         *)
(* read_entry runs as a sequence of steps, named by pc: idle; descend (at  *)
(* node cur, one bit per step); walk (up, at node cur); rebuild (one turn  *)
(* of the loop of rebuild_tree per step); regroup (the end of it).         *)
(***************************************************************************)
EXTENDS Integers, Sequences, FiniteSets

CONSTANTS
  NumLeaves,     \* NUM_LEAVES: 314
  ReorderLimit   \* REORDER_LIMIT: 32768

ASSUME NumLeavesAssumption    == NumLeaves \in Nat /\ NumLeaves >= 2
ASSUME ReorderLimitAssumption == ReorderLimit \in Nat /\ ReorderLimit > NumLeaves

NumNodes == 2 * NumLeaves - 1
Nodes    == 0..NumNodes-1
Values   == 0..NumLeaves-1

VARIABLES
  nodes,     \* nodes[i] = [entry, freq, parent, group]
  leaves,    \* leaves[value]: the node with that leaf
  ngroups,   \* the number of groups in use
  groups,    \* groups[ngroups..] are the free group numbers
  leaders,   \* leaders[group]: its first node
  pc, cur,
  rebuild    \* rebuild_tree: [taken, left, len, target]

vars == <<nodes, leaves, ngroups, groups, leaders, pc, cur, rebuild>>
tree == <<nodes, leaves, ngroups, groups, leaders>>

Leaf(value)   == [leaf |-> TRUE,  arg |-> value]
Branch(child) == [leaf |-> FALSE, arg |-> child]

Children(i) == {nodes[i].entry.arg - 1, nodes[i].entry.arg}
NoRebuild   == [taken |-> <<>>, left |-> 0, len |-> 0, target |-> 0]

-----------------------------------------------------------------------------
(* DynHuffTree::new: a tree filled level by level, each leaf counted once, *)
(* the values from the last node backwards, the groups numbered from the   *)
(* leaves upwards.                                                         *)
InitialFreq[i \in Nodes] ==
  IF i >= NumLeaves - 1 THEN 1 ELSE InitialFreq[2*i + 1] + InitialFreq[2*i + 2]

InitialGroup(i) ==
  Cardinality({j \in i..NumNodes-2 : InitialFreq[j] # InitialFreq[j+1]})

InitialLeader(g) ==
  IF \E i \in Nodes : InitialGroup(i) = g
  THEN CHOOSE i \in Nodes : /\ InitialGroup(i) = g
                            /\ \A j \in 0..i-1 : InitialGroup(j) # g
  ELSE 0

Init ==
  /\ nodes = [i \in Nodes |->
       [entry  |-> IF i >= NumLeaves - 1 THEN Leaf(NumNodes - 1 - i) ELSE Branch(2*i + 2),
        freq   |-> InitialFreq[i],
        parent |-> IF i = 0 THEN 0 ELSE (i - 1) \div 2,
        group  |-> InitialGroup(i)]]
  /\ leaves = [v \in Values |-> NumNodes - 1 - v]
  /\ ngroups = InitialGroup(0) + 1
  /\ groups = [j \in Nodes |-> j]
  /\ leaders = [g \in Nodes |-> InitialLeader(g)]
  /\ pc = "idle" /\ cur = 0 /\ rebuild = NoRebuild

-----------------------------------------------------------------------------
(* A root that is counted after the walk, like every other node. *)
CountRootNot == UNCHANGED <<nodes, leaves, ngroups, groups, leaders>>

(* self.nodes[0].freq += 1, before the walk. *)
CountRoot ==
  /\ nodes' = [nodes EXCEPT ![0].freq = @ + 1]
  /\ UNCHANGED <<leaves, ngroups, groups, leaders>>

(* read_entry: from the root, down one bit at a time. *)
ReadEntry ==
  /\ pc = "idle"
  /\ pc' = "descend" /\ cur' = 0
  /\ UNCHANGED tree /\ UNCHANGED rebuild

(* index as usize - path.read_bits(1) *)
Child(i, bit) == nodes[i].entry.arg - bit

ReadBit(bit) ==
  /\ pc = "descend" /\ ~nodes[cur].entry.leaf
  /\ cur' = Child(cur, bit)
  /\ UNCHANGED tree /\ UNCHANGED <<pc, rebuild>>

(* The bits run out: the error is returned and the tree is as it was. *)
ReadFails ==
  /\ pc = "descend" /\ ~nodes[cur].entry.leaf
  /\ pc' = "idle" /\ cur' = 0
  /\ UNCHANGED tree /\ UNCHANGED rebuild

(* A limit that is checked too late. *)
AtLimitLate(freq) == freq > ReorderLimit

(* self.nodes[0].freq >= REORDER_LIMIT *)
AtLimit(freq) == freq >= ReorderLimit

(* increment_for_value, below the limit. *)
IncrementForValue ==
  /\ pc = "descend" /\ nodes[cur].entry.leaf
  /\ ~AtLimit(nodes[0].freq)
  /\ CountRoot
  /\ pc' = "walk"
  /\ cur' = leaves[nodes[cur].entry.arg]
  /\ UNCHANGED rebuild

-----------------------------------------------------------------------------
(* The leaves in the order of their nodes, with halved frequencies. *)
LeafNodes == {i \in Nodes : nodes[i].entry.leaf}
Before(S, x) == Cardinality({y \in S : y < x})
Taken(n) == [value |-> n.entry.arg, freq |-> (n.freq + 1) \div 2]

TakenLeaves ==
  [k \in 1..Cardinality(LeafNodes) |->
     Taken(nodes[CHOOSE i \in LeafNodes : Before(LeafNodes, i) = k - 1])]

(* increment_for_value at the limit: rebuild_tree begins.  cur keeps the   *)
(* value to be counted when the tree has been rebuilt.                     *)
BeginRebuild ==
  /\ pc = "descend" /\ nodes[cur].entry.leaf
  /\ AtLimit(nodes[0].freq)
  /\ pc' = "rebuild"
  /\ cur' = nodes[cur].entry.arg
  /\ rebuild' = [taken |-> TakenLeaves, left |-> NumLeaves,
                 len |-> NumNodes, target |-> NumNodes]
  /\ UNCHANGED tree

(* A rebuild that takes two more leaves whenever orphans are missing. *)
NeededTwo(orphans) == IF orphans < 2 THEN 2 ELSE 0

(* How many leaves must be placed before there are two orphans. *)
Needed(orphans) == IF orphans < 2 THEN 2 - orphans ELSE 0

(* One turn of the loop.  The nodes from target on are placed, those from  *)
(* len on have parents.  At least two orphans are needed; then leaves are  *)
(* placed while they are no more frequent than the branch of the last two  *)
(* orphans, and then the branch.                                           *)
RebuildStep ==
  LET len    == rebuild.len
      target == rebuild.target
      left   == rebuild.left
      need   == Needed(len - target)
      LeafFor(i) == rebuild.taken[left - (target - 1 - i)]
      Freq(i)    == IF i >= target THEN nodes[i].freq ELSE LeafFor(i).freq
      branch_freq == Freq(len - 1) + Freq(len - 2)
      more == CHOOSE c \in 0..left - need :
                /\ \A j \in 1..c : branch_freq >= rebuild.taken[left-need+1-j].freq
                /\ c < left - need => branch_freq < rebuild.taken[left-need-c].freq
      index  == target - (need + more) - 1
      Placed(i) ==
        IF i = index THEN [nodes[i] EXCEPT !.entry = Branch(len - 1), !.freq = branch_freq]
        ELSE IF i \in index+1..target-1
        THEN [nodes[i] EXCEPT !.entry = Leaf(LeafFor(i).value), !.freq = LeafFor(i).freq]
        ELSE nodes[i]
  IN /\ pc = "rebuild" /\ len > 2
     /\ nodes' = [i \in Nodes |-> IF i \in {len - 1, len - 2}
                                  THEN [Placed(i) EXCEPT !.parent = index]
                                  ELSE Placed(i)]
     /\ leaves' = [v \in Values |->
          IF \E i \in index+1..target-1 : LeafFor(i).value = v
          THEN CHOOSE i \in index+1..target-1 : LeafFor(i).value = v
          ELSE leaves[v]]
     /\ rebuild' = [rebuild EXCEPT !.left = @ - (need + more), !.len = @ - 2, !.target = index]
     /\ UNCHANGED <<ngroups, groups, leaders, pc, cur>>

(* The end of rebuild_tree: the groups are numbered afresh from the root,  *)
(* and then the root and the waiting value are counted.                    *)
NewGroup(i) == Cardinality({j \in 1..i : nodes[j].freq # nodes[j-1].freq})

Regroup ==
  /\ pc = "rebuild" /\ rebuild.len <= 2
  /\ nodes' = [i \in Nodes |->
       [nodes[i] EXCEPT !.group = NewGroup(i), !.freq = IF i = 0 THEN @ + 1 ELSE @]]
  /\ ngroups' = NewGroup(NumNodes - 1) + 1
  /\ groups' = [j \in Nodes |-> j]
  /\ leaders' = [g \in Nodes |->
       IF g > NewGroup(NumNodes - 1) THEN leaders[g]
       ELSE CHOOSE i \in Nodes : NewGroup(i) = g /\ \A j \in 0..i-1 : NewGroup(j) # g]
  /\ pc' = "walk" /\ cur' = leaves[cur] /\ rebuild' = NoRebuild
  /\ UNCHANGED leaves

-----------------------------------------------------------------------------
(* A promotion that does not tell the children about their new parent. *)
PromotedForgetsChildren(i, l) ==
  [x \in Nodes |->
     [nodes[x] EXCEPT !.entry = IF x = i THEN nodes[l].entry
                                ELSE IF x = l THEN nodes[i].entry ELSE @]]

(* promote_to_leader: nodes i and l change entries, and the children of    *)
(* both learn their new parents (set_as_parent).                           *)
Promoted(i, l) ==
  IF i = l THEN nodes
  ELSE [x \in Nodes |->
          [nodes[x] EXCEPT
             !.entry  = IF x = i THEN nodes[l].entry ELSE IF x = l THEN nodes[i].entry ELSE @,
             !.parent = IF ~nodes[i].entry.leaf /\ x \in Children(i) THEN l
                        ELSE IF ~nodes[l].entry.leaf /\ x \in Children(l) THEN i
                        ELSE @]]

(* set_leaf_node_index for the leaves among the two. *)
PromotedLeaves(i, l) ==
  IF i = l THEN leaves
  ELSE [v \in Values |-> IF nodes[i].entry = Leaf(v) THEN l
                         ELSE IF nodes[l].entry = Leaf(v) THEN i
                         ELSE leaves[v]]

(* The node moves to the group before it: its old group either loses its   *)
(* leader to the next node or is freed, and its new one is that of the     *)
(* previous node if the frequencies now agree, or else a group of its own. *)
(* ns are the nodes after the promotion, l the node that is counted.       *)
FollowsInGroup(ns, l) == l < NumNodes - 1 /\ ns[l].group = ns[l+1].group
JoinsPrevious(ns, l)  == ns[l].freq + 1 = ns[l-1].freq

GroupOf(ns, l) ==
  IF JoinsPrevious(ns, l) THEN ns[l-1].group
  ELSE IF FollowsInGroup(ns, l) THEN groups[ngroups]
  ELSE ns[l].group

(* An emptied group whose number is lost instead of freed. *)
FreesGroupNever(ns, l) == FALSE

(* Groups::free: the node was alone and joins the previous one. *)
FreesGroup(ns, l) == ~FollowsInGroup(ns, l) /\ JoinsPrevious(ns, l)

(* Groups::allocate *)
AllocatesGroup(ns, l) == FollowsInGroup(ns, l) /\ ~JoinsPrevious(ns, l)

(* A group that keeps the departed node as its leader. *)
LeadersAfterKeeps(ns, l) ==
  [g \in Nodes |-> IF AllocatesGroup(ns, l) /\ g = groups[ngroups] THEN l ELSE leaders[g]]

LeadersAfter(ns, l) ==
  [g \in Nodes |->
     IF AllocatesGroup(ns, l) /\ g = groups[ngroups] THEN l
     ELSE IF FollowsInGroup(ns, l) /\ g = ns[l].group THEN leaders[g] + 1
     ELSE leaders[g]]

(* A walk that leaves every node in its place. *)
LeaderOfSelf(i) == i

(* get_leader_index of the node's group. *)
LeaderOf(i) == leaders[nodes[i].group]

(* One turn of the loop of increment_for_value: promote_to_leader and      *)
(* increment_frequency.                                                    *)
WalkStep ==
  LET l  == LeaderOf(cur)
      ns == Promoted(cur, l)
  IN /\ pc = "walk" /\ cur # 0
     /\ nodes' = [ns EXCEPT ![l].freq = @ + 1, ![l].group = GroupOf(ns, l)]
     /\ leaves' = PromotedLeaves(cur, l)
     /\ leaders' = LeadersAfter(ns, l)
     /\ ngroups' = IF AllocatesGroup(ns, l) THEN ngroups + 1
                   ELSE IF FreesGroup(ns, l) THEN ngroups - 1
                   ELSE ngroups
     /\ groups' = IF FreesGroup(ns, l) THEN [groups EXCEPT ![ngroups - 1] = ns[l].group]
                  ELSE groups
     /\ cur' = ns[l].parent
     /\ UNCHANGED <<pc, rebuild>>

(* The root is reached: read_entry returns the value. *)
Return ==
  /\ pc = "walk" /\ cur = 0
  /\ pc' = "idle"
  /\ UNCHANGED tree /\ UNCHANGED <<cur, rebuild>>

Next ==
  \/ ReadEntry
  \/ \E bit \in {0, 1} : ReadBit(bit)
  \/ ReadFails
  \/ IncrementForValue
  \/ BeginRebuild
  \/ RebuildStep
  \/ Regroup
  \/ WalkStep
  \/ Return

Spec == Init /\ [][Next]_vars

-----------------------------------------------------------------------------
Entry == [leaf: {TRUE}, arg: Values] \cup [leaf: {FALSE}, arg: Nodes]

(* No frequency passes the limit, so that 16 bits hold them all. *)
TypeOK ==
  /\ nodes \in [Nodes -> [entry: Entry, freq: 0..ReorderLimit, parent: Nodes, group: Nodes]]
  /\ leaves \in [Values -> Nodes]
  /\ ngroups \in 0..NumNodes
  /\ groups \in [Nodes -> Nodes] /\ leaders \in [Nodes -> Nodes]
  /\ pc \in {"idle", "descend", "walk", "rebuild"}
  /\ cur \in Nodes

Consistent == pc # "rebuild"

(* The order of the array, also in the middle of a walk: frequencies fall, *)
(* equal frequencies are one group, and each group's leader is its first   *)
(* node (tests::validate_tree asks for it between the calls only).         *)
FreqsFallInGroups ==
  Consistent =>
    /\ \A i \in 1..NumNodes-1 :
         /\ nodes[i].freq <= nodes[i-1].freq
         /\ nodes[i].freq = nodes[i-1].freq <=> nodes[i].group = nodes[i-1].group
    /\ \A i \in Nodes : \A j \in 0..i :
         nodes[i].group = nodes[j].group => nodes[i].freq = nodes[j].freq
    /\ \A i \in Nodes : (i = 0 \/ nodes[i-1].group # nodes[i].group)
         => leaders[nodes[i].group] = i

(* The group numbers in use and the free ones partition the numbers, so    *)
(* that allocate never finds its list empty (dyntree.rs, Groups::allocate, *)
(* where the release build takes the opposite case for unreachable).       *)
GroupNumbersPartition ==
  Consistent =>
    LET used == {nodes[i].group : i \in Nodes}
        free == {groups[j] : j \in ngroups..NumNodes-1}
    IN /\ used \cap free = {}
       /\ Cardinality(used) = ngroups
       /\ Cardinality(free) = NumNodes - ngroups

(* The tree: leaves and branches refer to each other consistently, every   *)
(* node but the root has exactly one parent, which comes before it, so     *)
(* that the ways down and up both end, and the root is a branch.           *)
LinksAgree ==
  Consistent =>
    /\ ~nodes[0].entry.leaf
    /\ \A v \in Values : nodes[leaves[v]].entry = Leaf(v)
    /\ \A i \in 1..NumNodes-1 :
         /\ ~nodes[nodes[i].parent].entry.leaf
         /\ i \in Children(nodes[i].parent)
         /\ nodes[i].parent < i
    /\ \A i \in Nodes : ~nodes[i].entry.leaf => nodes[i].entry.arg % 2 = 0

(* A branch counts as often as its children together.  During a walk the   *)
(* node that is about to be counted lags by one and the root, which is     *)
(* counted first, is ahead by one.                                         *)
Ahead(i) ==
  IF pc # "walk" \/ cur = 0 THEN 0
  ELSE IF i = 0 THEN 1
  ELSE IF i = cur THEN -1 ELSE 0

FreqsAddUp ==
  Consistent =>
    \A i \in Nodes : ~nodes[i].entry.leaf =>
      nodes[i].freq =
        nodes[nodes[i].entry.arg - 1].freq + nodes[nodes[i].entry.arg].freq + Ahead(i)

(* rebuild_tree has the leaves and the slots it unwraps: when orphans are  *)
(* missing enough leaves are left, a slot remains for the branch, and at   *)
(* the end every leaf is placed and the root is the first node.            *)
RebuildNeverRunsOut ==
  pc = "rebuild" =>
    IF rebuild.len > 2
    THEN /\ Needed(rebuild.len - rebuild.target) <= rebuild.left
         /\ rebuild.left < rebuild.target
    ELSE rebuild.left = 0 /\ rebuild.target = 0

-----------------------------------------------------------------------------
(* The reference for the codes: Huffman's construction, over how many      *)
(* trees of each frequency there are.                                      *)

(* The sum of the first n numbers of w. *)
SumTo(w, n) ==
  LET sum[m \in 0..n] == IF m = 0 THEN 0 ELSE sum[m-1] + w[m-1]
  IN sum[n]

(* The number of bits that lead to each node. *)
Depths ==
  LET depth[i \in Nodes] == IF i = 0 THEN 0 ELSE depth[nodes[i].parent] + 1
  IN depth

(* The bits it takes to write each value as often as it was counted. *)
OutputLength ==
  LET depth == Depths
  IN SumTo([i \in Nodes |-> IF nodes[i].entry.leaf THEN nodes[i].freq * depth[i] ELSE 0],
           NumNodes)

Freqs == 0..ReorderLimit

(* One tree for each leaf. *)
LeafForest == [q \in Freqs |-> Cardinality({v \in Values : nodes[leaves[v]].freq = q})]

Rarest(forest) ==
  CHOOSE q \in Freqs : forest[q] > 0 /\ \A g \in Freqs : g < q => forest[g] = 0

(* The two rarest trees become one: their leaves get a bit more. *)
JoinRarest(step) ==
  LET first  == Rarest(step.forest)
      rest   == [step.forest EXCEPT ![first] = @ - 1]
      second == Rarest(rest)
      alone  == [rest EXCEPT ![second] = @ - 1]
      joined == first + second
  IN [forest |-> [alone EXCEPT ![joined] = @ + 1], cost |-> step.cost + joined]

(* What Huffman's code needs for a forest of n leaves. *)
HuffmanLength(forest, n) ==
  LET joins[k \in 0..n-1] ==
        IF k = 0 THEN [forest |-> forest, cost |-> 0] ELSE JoinRarest(joins[k-1])
  IN joins[n-1].cost

(* Between two entries the codes are a Huffman code for the frequencies    *)
(* counted so far: no code has a shorter output, after any number of       *)
(* promotions and rebuilds.                                                *)
CodesAreOptimal ==
  pc = "idle" => OutputLength = HuffmanLength(LeafForest, NumLeaves)
=============================================================================
