---------------------------- MODULE DynTreeProofs ----------------------------
(***************************************************************************)
(* Proofs about DynTree, for every number of leaves and every limit.       *)
(*                                                                         *)
(* The array of nodes is taken apart into functions: f gives the           *)
(* frequencies, L is the set of leaves, ar gives the second child of a     *)
(* branch or the value of a leaf, pa the parents and g the groups.         *)
(***************************************************************************)
EXTENDS DynTree, FiniteSetTheorems, WellFoundedInduction, TLAPS

(* The numbers of nodes. *)
LEMMA Sizes ==
  /\ NumLeaves \in Nat /\ NumLeaves >= 2 /\ NumNodes \in Nat /\ NumNodes >= 3
  /\ NumNodes = 2 * NumLeaves - 1
  /\ Nodes = 0..NumNodes-1 /\ Values = 0..NumLeaves-1
  /\ ReorderLimit \in Nat /\ ReorderLimit > NumLeaves
BY NumLeavesAssumption, ReorderLimitAssumption DEF NumNodes, Nodes, Values

-----------------------------------------------------------------------------
(* The parts of the array. *)

FreqOf   == [x \in Nodes |-> nodes[x].freq]
ArgOf    == [x \in Nodes |-> nodes[x].entry.arg]
UpOf     == [x \in Nodes |-> nodes[x].parent]
GroupsOf == [x \in Nodes |-> nodes[x].group]

NodeRecords == [entry: Entry, freq: Nat, parent: Nodes, group: Nodes]

Moved(r, e, p)   == [r EXCEPT !.entry = e, !.parent = p]
Counted(r, n, G) == [r EXCEPT !.freq = n, !.group = G]

(* Fields of a changed record. *)
LEMMA MovedRecord ==
  ASSUME NEW r \in NodeRecords, NEW e \in Entry, NEW p \in Nodes
  PROVE  /\ Moved(r, e, p) \in NodeRecords
         /\ Moved(r, e, p).entry = e /\ Moved(r, e, p).parent = p
         /\ Moved(r, e, p).freq = r.freq /\ Moved(r, e, p).group = r.group
BY DEF NodeRecords, Moved

(* Fields of a changed record. *)
LEMMA CountedRecord ==
  ASSUME NEW r \in NodeRecords, NEW n \in Nat, NEW G \in Nodes
  PROVE  /\ Counted(r, n, G) \in NodeRecords
         /\ Counted(r, n, G).entry = r.entry /\ Counted(r, n, G).parent = r.parent
         /\ Counted(r, n, G).freq = n /\ Counted(r, n, G).group = G
BY DEF NodeRecords, Counted

(* promote_to_leader moves entries and parents only. *)
LEMMA PromotedFields ==
  ASSUME nodes \in [Nodes -> NodeRecords], NEW i \in Nodes, NEW l \in Nodes
  PROVE  /\ Promoted(i, l) \in [Nodes -> NodeRecords]
         /\ \A x \in Nodes :
              LET q == Promoted(i, l)[x]
              IN /\ q.freq = nodes[x].freq /\ q.group = nodes[x].group
                 /\ q.entry = IF x = i THEN nodes[l].entry
                              ELSE IF x = l THEN nodes[i].entry ELSE nodes[x].entry
                 /\ i # l => q.parent = IF ~nodes[i].entry.leaf /\ x \in Children(i) THEN l
                                        ELSE IF ~nodes[l].entry.leaf /\ x \in Children(l) THEN i
                                        ELSE nodes[x].parent
                 /\ i = l => q.parent = nodes[x].parent
<1>1. CASE i = l
  BY <1>1 DEF Promoted
<1>2. CASE i # l
  <2> DEFINE E(x) == IF x = i THEN nodes[l].entry
                     ELSE IF x = l THEN nodes[i].entry ELSE nodes[x].entry
             U(x) == IF ~nodes[i].entry.leaf /\ x \in Children(i) THEN l
                     ELSE IF ~nodes[l].entry.leaf /\ x \in Children(l) THEN i
                     ELSE nodes[x].parent
             Q(x) == Moved(nodes[x], E(x), U(x))
  <2>1. Promoted(i, l) = [x \in Nodes |-> Q(x)]
    BY <1>2 DEF Promoted, Moved
  <2>2. \A x \in Nodes : nodes[x] \in NodeRecords /\ nodes[x].entry \in Entry /\ nodes[x].parent \in Nodes
    BY DEF NodeRecords
  <2>3. \A x \in Nodes : E(x) \in Entry /\ U(x) \in Nodes
    BY <2>2
  <2>4. ASSUME NEW x \in Nodes
        PROVE  Q(x) \in NodeRecords /\ Q(x).entry = E(x) /\ Q(x).freq = nodes[x].freq
               /\ Q(x).parent = U(x) /\ Q(x).group = nodes[x].group
    <3>1. PICK r \in NodeRecords, e \in Entry, p \in Nodes : r = nodes[x] /\ e = E(x) /\ p = U(x)
      BY <2>2, <2>3
    <3> HIDE DEF E, U
    <3>2. Q(x) = Moved(r, e, p)
      BY <3>1
    <3>3. r \in NodeRecords /\ e \in Entry /\ p \in Nodes
      OBVIOUS
    <3>4. /\ Moved(r, e, p) \in NodeRecords
          /\ Moved(r, e, p).entry = e /\ Moved(r, e, p).parent = p
          /\ Moved(r, e, p).freq = r.freq /\ Moved(r, e, p).group = r.group
      BY ONLY <3>3, MovedRecord
    <3> HIDE DEF Q
    <3> QED BY ONLY <3>1, <3>2, <3>4, Zenon
  <2>5. \A x \in Nodes : Promoted(i, l)[x] = Q(x)
    BY <2>1
  <2> HIDE DEF Q
  <2>6. Promoted(i, l) \in [Nodes -> NodeRecords]
    BY <2>1, <2>4
  <2> QED BY <1>2, <2>4, <2>5, <2>6, Zenon
<1> QED BY <1>1, <1>2

CountedAt(ns, l, G) == [ns EXCEPT ![l].freq = @ + 1, ![l].group = G]

(* increment_frequency changes the frequency and the group of one node. *)
LEMMA CountedFields ==
  ASSUME NEW ns \in [Nodes -> NodeRecords], NEW l \in Nodes, NEW G \in Nodes, NEW ns1,
         ns1 = CountedAt(ns, l, G)
  PROVE  /\ ns1 \in [Nodes -> NodeRecords]
         /\ \A x \in Nodes :
              /\ ns1[x].entry = ns[x].entry /\ ns1[x].parent = ns[x].parent
              /\ ns1[x].freq = IF x = l THEN ns[x].freq + 1 ELSE ns[x].freq
              /\ ns1[x].group = IF x = l THEN G ELSE ns[x].group
<1>0. PICK r \in NodeRecords : r = ns[l] /\ r.freq + 1 \in Nat
  BY DEF NodeRecords
<1>1. /\ ns1[l] \in NodeRecords /\ ns1[l].entry = ns[l].entry /\ ns1[l].parent = ns[l].parent
      /\ ns1[l].freq = ns[l].freq + 1 /\ ns1[l].group = G
  <2>1. ns1[l] = Counted(r, r.freq + 1, G)
    BY <1>0 DEF Counted, CountedAt
  <2>2. r \in NodeRecords /\ G \in Nodes
    OBVIOUS
  <2>3. PICK n \in Nat : n = r.freq + 1
    BY <1>0
  <2>4. /\ Counted(r, n, G) \in NodeRecords
        /\ Counted(r, n, G).entry = r.entry /\ Counted(r, n, G).parent = r.parent
        /\ Counted(r, n, G).freq = n /\ Counted(r, n, G).group = G
    BY ONLY <2>2, n \in Nat, CountedRecord
  <2> QED BY ONLY <1>0, <2>1, <2>3, <2>4, Zenon
<1>2. \A x \in Nodes : x # l => ns1[x] = ns[x]
  BY DEF CountedAt
<1>3. ns1 \in [Nodes -> NodeRecords]
  <2>1. ns1 = [x \in Nodes |-> ns1[x]]
    BY DEF CountedAt
  <2>2. \A x \in Nodes : ns1[x] \in NodeRecords
    BY <1>1, <1>2
  <2> QED BY ONLY <2>1, <2>2
<1> QED BY ONLY <1>1, <1>2, <1>3

-----------------------------------------------------------------------------
(* Links. *)

(* The arithmetic of node numbers. *)
LEMMA NodeNumbers ==
  /\ NumNodes \in Nat /\ NumNodes >= 3 /\ 0 \in Nodes /\ 1 \in Nodes /\ 2 \in Nodes
  /\ \A x \in Nodes : x \in Nat /\ x < NumNodes
  /\ \A x \in Nat : x < NumNodes => x \in Nodes
  /\ \A x \in Nodes : x # 0 => x - 1 \in Nodes /\ x > 0
  /\ \A x \in Nodes : x < NumNodes - 1 => x + 1 \in Nodes
BY Sizes

EvenNodes == {x \in Nodes : x % 2 = 0}

(* Leaves and their values, and branches and their children, refer to each *)
(* other, and parents come first.                                          *)
LinkTypes(L, ar, pa, lv) ==
  /\ L \subseteq Nodes /\ ar \in [Nodes -> Nat] /\ pa \in [Nodes -> Nodes]
  /\ lv \in [Values -> Nodes]

LeavesLinked(L, ar, lv) ==
  /\ \A v \in Values : lv[v] \in L /\ ar[lv[v]] = v
  /\ \A x \in L : ar[x] \in Values /\ lv[ar[x]] = x

BranchesLinked(L, ar, pa) ==
  /\ 0 \notin L
  /\ \A x \in Nodes : x \notin L =>
       /\ ar[x] \in EvenNodes /\ ar[x] - 1 \in Nodes /\ x < ar[x] - 1
       /\ pa[ar[x]] = x /\ pa[ar[x] - 1] = x
  /\ \A x \in Nodes : x # 0 =>
       /\ pa[x] \in Nodes /\ pa[x] \notin L /\ pa[x] < x
       /\ x = ar[pa[x]] \/ x = ar[pa[x]] - 1

Linked(L, ar, pa, lv) ==
  LinkTypes(L, ar, pa, lv) /\ LeavesLinked(L, ar, lv) /\ BranchesLinked(L, ar, pa)

(* Nodes i and l change entries. *)
SwappedEntries(L, ar, i, l, L1, ar1) ==
  \A x \in Nodes :
    /\ x \in L1 <=> IF x = i THEN l \in L ELSE IF x = l THEN i \in L ELSE x \in L
    /\ ar1[x] = IF x = i THEN ar[l] ELSE IF x = l THEN ar[i] ELSE ar[x]

SwappedParents(L, ar, pa, i, l, pa1) ==
  \A x \in Nodes :
    pa1[x] = IF i \notin L /\ (x = ar[i] - 1 \/ x = ar[i]) THEN l
             ELSE IF l \notin L /\ (x = ar[l] - 1 \/ x = ar[l]) THEN i
             ELSE pa[x]

SwappedLeaves(L, ar, lv, i, l, lv1) ==
  \A v \in Values : lv1[v] = IF i \in L /\ ar[i] = v THEN l
                             ELSE IF l \in L /\ ar[l] = v THEN i ELSE lv[v]

(* The leaves after a promotion. *)
LEMMA SwapLeaves ==
  ASSUME NEW L, NEW ar, NEW pa, NEW lv, LinkTypes(L, ar, pa, lv), LeavesLinked(L, ar, lv),
         NEW i \in Nodes, NEW l \in Nodes, i # l,
         NEW L1, NEW ar1, NEW pa1, NEW lv1, LinkTypes(L1, ar1, pa1, lv1),
         SwappedEntries(L, ar, i, l, L1, ar1), SwappedLeaves(L, ar, lv, i, l, lv1)
  PROVE  LeavesLinked(L1, ar1, lv1)
<1>1. /\ \A x \in Nodes : x \in L1 <=> IF x = i THEN l \in L ELSE IF x = l THEN i \in L ELSE x \in L
      /\ \A x \in Nodes : ar1[x] = IF x = i THEN ar[l] ELSE IF x = l THEN ar[i] ELSE ar[x]
  BY DEF SwappedEntries
<1>2. \A v \in Values : lv1[v] = IF i \in L /\ ar[i] = v THEN l
                                 ELSE IF l \in L /\ ar[l] = v THEN i ELSE lv[v]
  BY DEF SwappedLeaves
<1>3. /\ \A v \in Values : lv[v] \in L /\ ar[lv[v]] = v
      /\ \A x \in L : ar[x] \in Values /\ lv[ar[x]] = x
  BY DEF LeavesLinked
<1>4. L \subseteq Nodes /\ L1 \subseteq Nodes /\ i \in Nodes /\ l \in Nodes /\ i # l
  BY DEF LinkTypes
<1>5. ASSUME NEW v \in Values PROVE lv1[v] \in L1 /\ ar1[lv1[v]] = v
  BY ONLY v \in Values, <1>1, <1>2, <1>3, <1>4
<1>6. ASSUME NEW x \in L1 PROVE ar1[x] \in Values /\ lv1[ar1[x]] = x
  BY ONLY x \in L1, <1>1, <1>2, <1>3, <1>4
<1> QED BY <1>5, <1>6 DEF LeavesLinked

(* The branches after a promotion: the children of the leader come after   *)
(* the promoted node.                                                      *)
LEMMA SwapBranches ==
  ASSUME NEW L, NEW ar, NEW pa, NEW lv, LinkTypes(L, ar, pa, lv), BranchesLinked(L, ar, pa),
         NEW i \in Nodes, NEW l \in Nodes, l # 0, l < i, l \notin L => i < ar[l] - 1,
         NEW L1, NEW ar1, NEW pa1, NEW lv1, LinkTypes(L1, ar1, pa1, lv1),
         SwappedEntries(L, ar, i, l, L1, ar1), SwappedParents(L, ar, pa, i, l, pa1)
  PROVE  BranchesLinked(L1, ar1, pa1)
<1>1. /\ \A x \in Nodes : x \in L1 <=> IF x = i THEN l \in L ELSE IF x = l THEN i \in L ELSE x \in L
      /\ \A x \in Nodes : ar1[x] = IF x = i THEN ar[l] ELSE IF x = l THEN ar[i] ELSE ar[x]
  BY DEF SwappedEntries
<1>2. \A x \in Nodes :
        pa1[x] = IF i \notin L /\ (x = ar[i] - 1 \/ x = ar[i]) THEN l
                 ELSE IF l \notin L /\ (x = ar[l] - 1 \/ x = ar[l]) THEN i
                 ELSE pa[x]
  BY DEF SwappedParents
<1>3. \A x \in Nodes : x \notin L =>
        /\ ar[x] \in EvenNodes /\ ar[x] - 1 \in Nodes /\ x < ar[x] - 1
        /\ pa[ar[x]] = x /\ pa[ar[x] - 1] = x
  BY DEF BranchesLinked
<1>4. \A x \in Nodes : x # 0 =>
        /\ pa[x] \in Nodes /\ pa[x] \notin L /\ pa[x] < x
        /\ x = ar[pa[x]] \/ x = ar[pa[x]] - 1
  BY DEF BranchesLinked
<1>5. /\ L \subseteq Nodes /\ L1 \subseteq Nodes /\ i \in Nodes /\ l \in Nodes /\ l # 0 /\ l < i
      /\ l \notin L => i < ar[l] - 1
      /\ 0 \notin L
  BY DEF LinkTypes, BranchesLinked
<1>6. 0 \in Nodes /\ \A x \in Nodes : x \in Nat
  BY NodeNumbers
<1>7. \A x \in Nodes : ar[x] \in Nat
  BY DEF LinkTypes
<1>8. EvenNodes \subseteq Nodes
  BY DEF EvenNodes
<1>9. 0 \notin L1
  BY ONLY <1>1, <1>5, <1>6
<1>10. ASSUME NEW x \in Nodes, x \notin L1
       PROVE  /\ ar1[x] \in EvenNodes /\ ar1[x] - 1 \in Nodes /\ x < ar1[x] - 1
              /\ pa1[ar1[x]] = x /\ pa1[ar1[x] - 1] = x
  <2>0. x \in Nodes /\ x \notin L1
    BY <1>10
  <2>1. CASE x = i
    <3>1. l \notin L /\ ar1[x] = ar[l]
      BY ONLY <1>1, <2>0, <2>1
    <3>2. /\ ar[l] \in EvenNodes /\ ar[l] - 1 \in Nodes /\ ar[l] \in Nodes /\ i < ar[l] - 1
          /\ pa[ar[l]] = l /\ pa[ar[l] - 1] = l
      BY ONLY <1>3, <1>5, <1>8, <3>1
    <3>3. i \notin L => pa[ar[i]] = i /\ pa[ar[i] - 1] = i
      BY ONLY <1>3, <1>5
    <3>4. i # l
      BY ONLY <1>5, <1>6
    <3>5. pa1[ar[l]] = i /\ pa1[ar[l] - 1] = i
      BY ONLY <1>2, <3>1, <3>2, <3>3, <3>4
    <3> QED BY ONLY <2>1, <3>1, <3>2, <3>5
  <2>2. CASE x = l
    <3>1. i \notin L /\ ar1[x] = ar[i]
      BY ONLY <1>1, <1>5, <1>6, <2>0, <2>2
    <3>2. ar[i] \in EvenNodes /\ ar[i] - 1 \in Nodes /\ ar[i] \in Nodes /\ i < ar[i] - 1
      BY ONLY <1>3, <1>5, <1>8, <3>1
    <3>3. l < ar[i] - 1
      BY ONLY <1>5, <1>6, <3>2
    <3>5. pa1[ar[i]] = l /\ pa1[ar[i] - 1] = l
      BY ONLY <1>2, <3>1, <3>2
    <3> QED BY ONLY <2>2, <3>1, <3>2, <3>3, <3>5
  <2>3. CASE x # i /\ x # l
    <3>1. x \notin L /\ ar1[x] = ar[x]
      BY ONLY <1>1, <2>0, <2>3
    <3>2. /\ ar[x] \in EvenNodes /\ ar[x] - 1 \in Nodes /\ ar[x] \in Nodes /\ x < ar[x] - 1
          /\ pa[ar[x]] = x /\ pa[ar[x] - 1] = x
      BY ONLY <1>3, <1>8, <2>0, <3>1
    <3>3. /\ i \notin L => pa[ar[i]] = i /\ pa[ar[i] - 1] = i
          /\ l \notin L => pa[ar[l]] = l /\ pa[ar[l] - 1] = l
      BY ONLY <1>3, <1>5
    <3>5. pa1[ar[x]] = x /\ pa1[ar[x] - 1] = x
      BY ONLY <1>2, <2>3, <3>1, <3>2, <3>3
    <3> QED BY ONLY <3>1, <3>2, <3>5
  <2> QED BY ONLY <2>1, <2>2, <2>3
<1>11. ASSUME NEW x \in Nodes, x # 0
       PROVE  /\ pa1[x] \in Nodes /\ pa1[x] \notin L1 /\ pa1[x] < x
              /\ x = ar1[pa1[x]] \/ x = ar1[pa1[x]] - 1
  <2>0. /\ x \in Nodes /\ pa[x] \in Nodes /\ pa[x] \notin L /\ pa[x] < x
        /\ x = ar[pa[x]] \/ x = ar[pa[x]] - 1
    BY <1>4, <1>11
  <2>00. i # l /\ i \in Nat /\ l \in Nat /\ x \in Nat /\ pa[x] \in Nat
    BY ONLY <1>5, <1>6, <2>0
  <2>1. CASE i \notin L /\ (x = ar[i] - 1 \/ x = ar[i])
    <3>1. pa1[x] = l /\ l \notin L1 /\ ar1[l] = ar[i]
      BY ONLY <1>1, <1>2, <1>5, <2>0, <2>00, <2>1
    <3>2. l < x
      <4>1. i < ar[i] - 1 /\ ar[i] \in Nat
        BY ONLY <1>3, <1>5, <1>7, <2>1
      <4> QED BY ONLY <2>00, <2>1, <1>5, <4>1
    <3> QED BY ONLY <1>5, <2>1, <3>1, <3>2
  <2>2. CASE ~(i \notin L /\ (x = ar[i] - 1 \/ x = ar[i])) /\ l \notin L /\ (x = ar[l] - 1 \/ x = ar[l])
    <3>1. pa1[x] = i /\ i \notin L1 /\ ar1[i] = ar[l]
      BY ONLY <1>1, <1>2, <1>5, <2>0, <2>00, <2>2
    <3>2. i < x
      <4>1. i < ar[l] - 1 /\ ar[l] \in Nat
        BY ONLY <1>5, <1>7, <2>2
      <4> QED BY ONLY <2>00, <2>2, <1>5, <4>1
    <3> QED BY ONLY <1>5, <2>2, <3>1, <3>2
  <2>3. CASE ~(i \notin L /\ (x = ar[i] - 1 \/ x = ar[i])) /\ ~(l \notin L /\ (x = ar[l] - 1 \/ x = ar[l]))
    <3>1. pa1[x] = pa[x] /\ pa[x] # i /\ pa[x] # l
      BY ONLY <1>2, <2>0, <2>3
    <3>2. pa[x] \notin L1 /\ ar1[pa[x]] = ar[pa[x]]
      BY ONLY <1>1, <2>0, <3>1
    <3> QED BY ONLY <2>0, <3>1, <3>2
  <2> QED BY ONLY <2>1, <2>2, <2>3
<1> QED BY <1>9, <1>10, <1>11 DEF BranchesLinked

-----------------------------------------------------------------------------
(* Order and groups. *)

(* Frequencies fall. *)
Falling(f) ==
  /\ f \in [Nodes -> Nat] /\ \A x \in Nodes : f[x] >= 1
  /\ \A x, y \in Nodes : x < y => f[y] <= f[x]

(* Equal frequencies are one group, and ld has the first node of a group.  *)
Grouped(f, g, ld) ==
  /\ g \in [Nodes -> Nodes] /\ ld \in [Nodes -> Nodes]
  /\ \A x, y \in Nodes : g[x] = g[y] <=> f[x] = f[y]
  /\ \A x \in Nodes : g[ld[g[x]]] = g[x] /\ ld[g[x]] <= x

(* The leader of a group is its first node. *)
LEMMA LeaderIsFirst ==
  ASSUME NEW f, NEW g, NEW ld, Falling(f), Grouped(f, g, ld), NEW i \in Nodes
  PROVE  /\ ld[g[i]] \in Nodes /\ ld[g[i]] <= i /\ g[ld[g[i]]] = g[i] /\ f[ld[g[i]]] = f[i]
         /\ \A x \in Nodes : x < ld[g[i]] => f[x] > f[i]
<1> DEFINE l == ld[g[i]]
<1>1. /\ \A x \in Nodes : f[x] \in Nat
      /\ \A x, y \in Nodes : x < y => f[y] <= f[x]
  BY DEF Falling
<1>2. \A x \in Nodes : g[x] \in Nodes /\ ld[x] \in Nodes
  BY DEF Grouped
<1>3. /\ \A x, y \in Nodes : g[x] = g[y] <=> f[x] = f[y]
      /\ \A x \in Nodes : g[ld[g[x]]] = g[x] /\ ld[g[x]] <= x
  BY DEF Grouped
<1>4. i \in Nodes
  OBVIOUS
<1>5. l \in Nodes /\ l <= i /\ g[l] = g[i] /\ f[l] = f[i]
  BY ONLY <1>2, <1>3, <1>4
<1>6. \A x \in Nodes : x \in Nat
  BY NodeNumbers
<1>7. ASSUME NEW x \in Nodes, x < l PROVE f[x] > f[i]
  <2>0. x \in Nodes /\ x < l
    BY <1>7
  <2>1. f[x] \in Nat /\ f[l] \in Nat /\ f[l] <= f[x]
    BY ONLY <1>1, <1>5, <2>0
  <2>2. f[x] # f[i]
    BY ONLY <1>3, <1>4, <1>5, <1>6, <2>0
  <2> QED BY ONLY <1>5, <2>1, <2>2
<1> QED BY ONLY <1>5, <1>7

(* The leader l of its group is counted once more: it joins the group of   *)
(* the node before it, or is given the number new, or keeps a group that   *)
(* only it was in.                                                         *)
Follows(g, l)    == l < NumNodes - 1 /\ g[l] = g[l+1]
Joins(f, l)      == f[l] + 1 = f[l-1]

CountedFreqs(f, l, f1) ==
  f1 \in [Nodes -> Nat] /\ \A x \in Nodes : f1[x] = IF x = l THEN f[x] + 1 ELSE f[x]

CountedGroups(f, g, l, new, g1) ==
  /\ g1 \in [Nodes -> Nodes]
  /\ \A x \in Nodes : g1[x] = IF x = l THEN IF Joins(f, l) THEN g[l-1]
                                            ELSE IF Follows(g, l) THEN new ELSE g[l]
                              ELSE g[x]

CountedLeaders(f, g, ld, l, new, ld1) ==
  /\ ld1 \in [Nodes -> Nodes]
  /\ \A h \in Nodes : ld1[h] = IF Follows(g, l) /\ ~Joins(f, l) /\ h = new THEN l
                               ELSE IF Follows(g, l) /\ h = g[l] THEN ld[h] + 1
                               ELSE ld[h]

(* Its frequency is still below those before it. *)
LEMMA CountFalls ==
  ASSUME NEW f, NEW f1, NEW l \in Nodes, Falling(f), \A x \in Nodes : x < l => f[x] > f[l],
         CountedFreqs(f, l, f1)
  PROVE  Falling(f1)
<1>1. /\ \A x \in Nodes : f[x] \in Nat /\ f[x] >= 1
      /\ \A x, y \in Nodes : x < y => f[y] <= f[x]
  BY DEF Falling
<1>2. f1 \in [Nodes -> Nat] /\ \A x \in Nodes : f1[x] = IF x = l THEN f[x] + 1 ELSE f[x]
  BY DEF CountedFreqs
<1>3. l \in Nodes /\ \A x \in Nodes : x < l => f[x] > f[l]
  OBVIOUS
<1>4. ASSUME NEW x \in Nodes, NEW y \in Nodes, x < y PROVE f1[y] <= f1[x]
  <2>0. x \in Nodes /\ y \in Nodes /\ x < y /\ x \in Nat /\ y \in Nat /\ f[x] \in Nat /\ f[y] \in Nat /\ f[y] <= f[x]
    BY <1>1, <1>4, NodeNumbers
  <2> QED BY ONLY <2>0, <1>2, <1>3
<1>5. \A x \in Nodes : f1[x] >= 1
  BY ONLY <1>1, <1>2
<1> QED BY ONLY <1>2, <1>4, <1>5 DEF Falling

Peers(f, g, l) ==
  /\ \A x \in Nodes : x # l => (f[x] = f[l] + 1 <=> Joins(f, l) /\ f[x] = f[l-1])
  /\ \A x \in Nodes : x # l /\ g[x] = g[l] => Follows(g, l) /\ l + 1 \in Nodes /\ l + 1 <= x

(* Who has the new frequency, and who stays in the old group. *)
LEMMA CountPeers ==
  ASSUME NEW f, NEW g, NEW ld, NEW l \in Nodes, l # 0, Falling(f), Grouped(f, g, ld),
         \A x \in Nodes : x < l => f[x] > f[l]
  PROVE  Peers(f, g, l)
<1>1. /\ \A x \in Nodes : f[x] \in Nat
      /\ \A x, y \in Nodes : x < y => f[y] <= f[x]
  BY DEF Falling
<1>2. \A x, y \in Nodes : g[x] = g[y] <=> f[x] = f[y]
  BY DEF Grouped
<1>3. l \in Nodes /\ l - 1 \in Nodes /\ l \in Nat /\ \A x \in Nodes : x < l => f[x] > f[l]
  BY NodeNumbers
<1>4. /\ \A x \in Nodes : x \in Nat /\ x < NumNodes
      /\ \A x \in Nodes : x < NumNodes - 1 => x + 1 \in Nodes
      /\ NumNodes \in Nat
  BY NodeNumbers
<1>5. ASSUME NEW x \in Nodes, x # l, f[x] = f[l] + 1 PROVE Joins(f, l)
  <2>0. x \in Nodes /\ x # l /\ f[x] = f[l] + 1 /\ x \in Nat /\ f[l] \in Nat /\ f[l-1] \in Nat
    BY ONLY x \in Nodes, <1>5, <1>1, <1>3, <1>4
  <2>1. x < l
    BY ONLY <1>1, <1>3, <2>0
  <2>2. x = l - 1 \/ x < l - 1
    BY ONLY <1>3, <2>0, <2>1
  <2>3. f[x] >= f[l-1] /\ f[l-1] > f[l]
    <3>1. f[l-1] > f[l]
      BY ONLY <1>3
    <3>2. f[l-1] <= f[x]
      BY ONLY <1>1, <1>3, <2>0, <2>2
    <3> QED BY ONLY <2>0, <3>1, <3>2
  <2> QED BY ONLY <2>0, <2>3 DEF Joins
<1>6. ASSUME NEW x \in Nodes, x # l, g[x] = g[l] PROVE Follows(g, l) /\ l + 1 \in Nodes /\ l + 1 <= x
  <2>0. x \in Nodes /\ x # l /\ f[x] = f[l] /\ x \in Nat /\ f[l] \in Nat
    BY ONLY x \in Nodes, <1>6, <1>1, <1>2, <1>3, <1>4
  <2>1. l < x
    BY ONLY <1>3, <2>0
  <2>2. l < NumNodes - 1 /\ l + 1 \in Nodes /\ l + 1 <= x
    BY ONLY <1>3, <1>4, <2>0, <2>1
  <2>3. f[l+1] <= f[l] /\ f[l+1] \in Nat
    BY ONLY <1>1, <1>3, <2>2
  <2>4. f[x] <= f[l+1]
    <3>1. CASE l + 1 = x
      BY ONLY <2>0, <2>3, <3>1
    <3>2. CASE l + 1 < x
      BY ONLY <1>1, <2>0, <2>2, <3>2
    <3> QED BY ONLY <1>3, <2>0, <2>2, <3>1, <3>2
  <2>5. f[l+1] = f[l]
    BY ONLY <2>0, <2>3, <2>4
  <2> QED BY ONLY <1>2, <1>3, <2>2, <2>5 DEF Follows
<1>7. ASSUME NEW x \in Nodes, Joins(f, l), f[x] = f[l-1] PROVE f[x] = f[l] + 1
  BY <1>7 DEF Joins
<1>8. \A x \in Nodes : Joins(f, l) /\ f[x] = f[l] + 1 => f[x] = f[l-1]
  BY DEF Joins
<1> QED BY ONLY <1>5, <1>6, <1>7, <1>8 DEF Peers

(* The groups are still the classes of equal frequency. *)
LEMMA CountGroups ==
  ASSUME NEW f, NEW g, NEW ld, NEW l \in Nodes, l # 0, Falling(f), Grouped(f, g, ld),
         \A x \in Nodes : x < l => f[x] > f[l], ld[g[l]] = l,
         NEW new, Follows(g, l) /\ ~Joins(f, l) => new \in Nodes /\ \A x \in Nodes : g[x] # new,
         NEW f1, NEW g1, NEW ld1,
         CountedFreqs(f, l, f1), CountedGroups(f, g, l, new, g1), CountedLeaders(f, g, ld, l, new, ld1)
  PROVE  Grouped(f1, g1, ld1)
<1>1. \A x \in Nodes : f1[x] = IF x = l THEN f[x] + 1 ELSE f[x]
  BY DEF CountedFreqs
<1>2. \A x \in Nodes : g1[x] = IF x = l THEN IF Joins(f, l) THEN g[l-1]
                                             ELSE IF Follows(g, l) THEN new ELSE g[l]
                               ELSE g[x]
  BY DEF CountedGroups
<1>3. \A h \in Nodes : ld1[h] = IF Follows(g, l) /\ ~Joins(f, l) /\ h = new THEN l
                                ELSE IF Follows(g, l) /\ h = g[l] THEN ld[h] + 1
                                ELSE ld[h]
  BY DEF CountedLeaders
<1>4. g1 \in [Nodes -> Nodes] /\ ld1 \in [Nodes -> Nodes]
  BY DEF CountedGroups, CountedLeaders
<1>5. /\ \A x \in Nodes : x # l => (f[x] = f[l] + 1 <=> Joins(f, l) /\ f[x] = f[l-1])
      /\ \A x \in Nodes : x # l /\ g[x] = g[l] => Follows(g, l) /\ l + 1 \in Nodes /\ l + 1 <= x
  <2>1. Peers(f, g, l)
    BY ONLY l \in Nodes, l # 0, Falling(f), Grouped(f, g, ld), \A x \in Nodes : x < l => f[x] > f[l],
            CountPeers
  <2> QED BY ONLY <2>1 DEF Peers
<1>6. /\ \A x, y \in Nodes : g[x] = g[y] <=> f[x] = f[y]
      /\ \A x \in Nodes : g[x] \in Nodes /\ ld[g[x]] \in Nodes /\ g[ld[g[x]]] = g[x] /\ ld[g[x]] <= x
  BY DEF Grouped
<1>7. /\ l \in Nodes /\ l - 1 \in Nodes /\ l - 1 # l /\ l + 1 # l /\ l \in Nat /\ ld[g[l]] = l
      /\ \A x \in Nodes : x \in Nat
      /\ l < NumNodes - 1 => l + 1 \in Nodes
  BY NodeNumbers
<1>8. \A x \in Nodes : f[x] \in Nat
  BY DEF Falling
<1>9. Follows(g, l) /\ ~Joins(f, l) => \A x \in Nodes : g[x] # new
  OBVIOUS
<1>10. ASSUME NEW z \in Nodes, z # l PROVE g1[l] = g1[z] <=> f1[l] = f1[z]
  <2>0. z \in Nodes /\ z # l /\ g1[z] = g[z] /\ f1[z] = f[z] /\ f1[l] = f[l] + 1
    BY ONLY z \in Nodes, <1>10, <1>1, <1>2, <1>7
  <2>1. CASE Joins(f, l)
    <3>1. g1[l] = g[l-1]
      BY ONLY <1>2, <1>7, <2>1
    <3>2. g[l-1] = g[z] <=> f[l-1] = f[z]
      BY ONLY <1>6, <1>7, <2>0
    <3>3. f[z] = f[l] + 1 <=> f[z] = f[l-1]
      BY ONLY <1>5, <2>0, <2>1
    <3> QED BY ONLY <2>0, <3>1, <3>2, <3>3
  <2>2. CASE ~Joins(f, l)
    <3>1. f[z] # f[l] + 1
      BY ONLY <1>5, <2>0, <2>2
    <3>2. g1[l] # g[z]
      <4>1. CASE Follows(g, l)
        BY ONLY <1>2, <1>7, <1>9, <2>0, <2>2, <4>1
      <4>2. CASE ~Follows(g, l)
        BY ONLY <1>2, <1>5, <1>7, <2>0, <2>2, <4>2
      <4> QED BY ONLY <4>1, <4>2
    <3> QED BY ONLY <2>0, <3>1, <3>2
  <2> QED BY ONLY <2>1, <2>2
<1>11. ASSUME NEW x \in Nodes, NEW y \in Nodes PROVE g1[x] = g1[y] <=> f1[x] = f1[y]
  <2>1. CASE x # l /\ y # l
    <3>1. g1[x] = g[x] /\ g1[y] = g[y] /\ f1[x] = f[x] /\ f1[y] = f[y]
      BY ONLY x \in Nodes, y \in Nodes, <1>1, <1>2, <2>1
    <3>2. g[x] = g[y] <=> f[x] = f[y]
      BY ONLY x \in Nodes, y \in Nodes, <1>6
    <3> QED BY ONLY <3>1, <3>2
  <2>2. CASE x = l
    BY ONLY y \in Nodes, <1>10, <2>2
  <2>3. CASE y = l
    BY ONLY x \in Nodes, <1>10, <2>3
  <2> QED BY ONLY <2>1, <2>2, <2>3
<1>12. ASSUME NEW x \in Nodes PROVE g1[ld1[g1[x]]] = g1[x] /\ ld1[g1[x]] <= x
  <2>0. /\ x \in Nodes /\ x \in Nat /\ g[x] \in Nodes /\ ld[g[x]] \in Nodes
        /\ g[ld[g[x]]] = g[x] /\ ld[g[x]] <= x
    BY ONLY x \in Nodes, <1>6, <1>7
  <2>1. CASE x = l
    <3>1. CASE Joins(f, l)
      <4>1. g1[x] = g[l-1]
        BY ONLY <1>2, <1>7, <2>1, <3>1
      <4>2. f[l-1] # f[l]
        BY ONLY <1>7, <1>8, <3>1 DEF Joins
      <4>3. g[l-1] # g[l] /\ g[l-1] \in Nodes
        BY ONLY <1>6, <1>7, <4>2
      <4>4. ld1[g[l-1]] = ld[g[l-1]]
        BY ONLY <1>3, <3>1, <4>3
      <4>5. /\ ld[g[l-1]] \in Nodes /\ ld[g[l-1]] \in Nat
            /\ g[ld[g[l-1]]] = g[l-1] /\ ld[g[l-1]] <= l - 1
        BY ONLY <1>6, <1>7
      <4>6. ld[g[l-1]] # l
        BY ONLY <1>7, <4>5
      <4>7. g1[ld[g[l-1]]] = g[ld[g[l-1]]]
        BY ONLY <1>2, <4>5, <4>6
      <4> QED BY ONLY <1>7, <2>1, <4>1, <4>4, <4>5, <4>7
    <3>2. CASE ~Joins(f, l) /\ Follows(g, l)
      <4>1. g1[x] = new
        BY ONLY <1>2, <1>7, <2>1, <3>2
      <4>2. new \in Nodes
        BY <3>2
      <4>3. ld1[new] = l
        BY ONLY <1>3, <3>2, <4>2
      <4> QED BY ONLY <1>7, <2>1, <4>1, <4>3
    <3>3. CASE ~Joins(f, l) /\ ~Follows(g, l)
      <4>1. g1[x] = g[l] /\ ld1[g[l]] = ld[g[l]]
        BY ONLY <1>2, <1>3, <1>6, <1>7, <2>1, <3>3
      <4> QED BY ONLY <1>7, <2>1, <4>1
    <3> QED BY ONLY <3>1, <3>2, <3>3
  <2>2. CASE x # l /\ g[x] = g[l]
    <3>1. Follows(g, l) /\ l + 1 \in Nodes /\ l + 1 <= x
      BY ONLY <1>5, <2>0, <2>2
    <3>2. g[l] = g[l+1] /\ g1[x] = g[l] /\ g1[l+1] = g[l+1] /\ g[l] \in Nodes
      BY ONLY <1>2, <1>6, <1>7, <2>0, <2>2, <3>1 DEF Follows
    <3>3. ld1[g[l]] = l + 1
      <4>1. ~(Follows(g, l) /\ ~Joins(f, l) /\ g[l] = new)
        BY ONLY <1>7, <1>9
      <4> QED BY ONLY <1>3, <1>7, <3>1, <3>2, <4>1
    <3> QED BY ONLY <3>1, <3>2, <3>3
  <2>3. CASE x # l /\ g[x] # g[l]
    <3>1. g1[x] = g[x]
      BY ONLY <1>2, <2>0, <2>3
    <3>2. ld1[g[x]] = ld[g[x]]
      <4>1. ~(Follows(g, l) /\ ~Joins(f, l) /\ g[x] = new)
        BY ONLY <2>0, <1>9
      <4> QED BY ONLY <1>3, <2>0, <2>3, <4>1
    <3>3. ld[g[x]] # l
      BY ONLY <2>0, <2>3
    <3>4. g1[ld[g[x]]] = g[x]
      BY ONLY <1>2, <2>0, <3>3
    <3> QED BY ONLY <2>0, <3>1, <3>2, <3>4
  <2> QED BY ONLY <2>1, <2>2, <2>3
<1> QED BY ONLY <1>4, <1>11, <1>12 DEF Grouped

(* The numbers in use are counted by n, and those free are not in use. *)
Used(g) == {g[x] : x \in Nodes}

Allotted(g, gs, n) ==
  /\ n \in Nat /\ gs \in [Nodes -> Nodes] /\ Cardinality(Used(g)) = n
  /\ \A j \in Nodes : j >= n => gs[j] \notin Used(g)
  /\ \A j, k \in Nodes : j >= n /\ k >= n /\ gs[j] = gs[k] => j = k

(* There are never more groups than nodes, and fewer when two share one. *)
LEMMA UsedSize ==
  ASSUME NEW g \in [Nodes -> Nodes]
  PROVE  /\ IsFiniteSet(Used(g)) /\ Cardinality(Used(g)) \in Nat /\ Cardinality(Used(g)) <= NumNodes
         /\ \A l \in Nodes : Follows(g, l) => Cardinality(Used(g)) < NumNodes
<1>1. IsFiniteSet(Nodes) /\ Cardinality(Nodes) = NumNodes
  BY FS_Interval, Sizes
<1>2. Used(g) \subseteq Nodes
  BY DEF Used
<1>3. IsFiniteSet(Used(g)) /\ Cardinality(Used(g)) \in Nat /\ Cardinality(Used(g)) <= NumNodes
  BY <1>1, <1>2, FS_Subset, FS_CardinalityType
<1>4. ASSUME NEW l \in Nodes, Follows(g, l) PROVE Cardinality(Used(g)) < NumNodes
  <2> DEFINE T == Nodes \ {l}
             k == [x \in T |-> g[x]]
  <2>1. IsFiniteSet(T) /\ Cardinality(T) = NumNodes - 1
    BY <1>1, FS_RemoveElement
  <2>2. l + 1 \in Nodes /\ l + 1 # l /\ g[l] = g[l+1]
    BY <1>4, NodeNumbers DEF Follows
  <2>3. \A u \in Used(g) : \E x \in T : k[x] = u
    BY <2>2 DEF Used
  <2>4. k \in Surjection(T, Used(g))
    <3>1. k \in [T -> Used(g)]
      BY DEF Used
    <3> HIDE DEF k, T
    <3> QED BY <2>3, <3>1 DEF Surjection
  <2>5. Cardinality(Used(g)) <= NumNodes - 1
    <3> HIDE DEF k, T
    <3> QED BY <2>1, <2>4, FS_Surjection
  <2> QED BY ONLY <2>5, <1>3, NodeNumbers
<1> QED BY <1>3, <1>4

GroupCount(f, g, l, n) ==
  IF Follows(g, l) /\ ~Joins(f, l) THEN n + 1
  ELSE IF ~Follows(g, l) /\ Joins(f, l) THEN n - 1 ELSE n

FreeNumbers(f, g, l, gs, n) ==
  IF ~Follows(g, l) /\ Joins(f, l) THEN [gs EXCEPT ![n - 1] = g[l]] ELSE gs

(* Groups::allocate and Groups::free keep the account. *)
LEMMA CountAllots ==
  ASSUME NEW f, NEW g, NEW ld, NEW l \in Nodes, l # 0, Falling(f), Grouped(f, g, ld),
         \A x \in Nodes : x < l => f[x] > f[l],
         NEW gs, NEW n, Allotted(g, gs, n), NEW g1, CountedGroups(f, g, l, gs[n], g1),
         NEW n1, n1 = GroupCount(f, g, l, n), NEW gs1, gs1 = FreeNumbers(f, g, l, gs, n)
  PROVE  Allotted(g1, gs1, n1)
<1>1. /\ n \in Nat /\ gs \in [Nodes -> Nodes] /\ Cardinality(Used(g)) = n
      /\ \A j \in Nodes : j >= n => gs[j] \notin Used(g)
      /\ \A j, k \in Nodes : j >= n /\ k >= n /\ gs[j] = gs[k] => j = k
  BY DEF Allotted
<1>2. g \in [Nodes -> Nodes] /\ g1 \in [Nodes -> Nodes]
  BY DEF Grouped, CountedGroups
<1>3. \A x \in Nodes : g1[x] = IF x = l THEN IF Joins(f, l) THEN g[l-1]
                                             ELSE IF Follows(g, l) THEN gs[n] ELSE g[l]
                               ELSE g[x]
  BY DEF CountedGroups
<1>4. \A x \in Nodes : x # l /\ g[x] = g[l] => Follows(g, l)
  BY CountPeers DEF Peers
<1>5. IsFiniteSet(Used(g)) /\ n <= NumNodes /\ (Follows(g, l) => n < NumNodes)
  BY ONLY <1>1, <1>2, l \in Nodes, UsedSize
<1>6. /\ l \in Nodes /\ l - 1 \in Nodes /\ l - 1 # l /\ NumNodes \in Nat
      /\ \A x \in Nodes : x \in Nat
      /\ \A x \in Nat : x < NumNodes => x \in Nodes
  BY NodeNumbers
<1>7. \A u : u \in Used(g) <=> \E x \in Nodes : u = g[x]
  BY DEF Used
<1>8. \A u : u \in Used(g1) <=> \E x \in Nodes : u = g1[x]
  BY DEF Used
<1>9. g[l] \in Used(g)
  BY ONLY <1>6, <1>7
<1>10. Follows(g, l) => l + 1 \in Nodes /\ l + 1 # l /\ g[l+1] = g[l]
  BY NodeNumbers DEF Follows
<1>11. CASE Follows(g, l) /\ ~Joins(f, l)
  <2>1. n \in Nodes /\ gs[n] \notin Used(g) /\ n1 = n + 1 /\ gs1 = gs
    BY ONLY <1>1, <1>5, <1>6, <1>11, n1 = GroupCount(f, g, l, n),
            gs1 = FreeNumbers(f, g, l, gs, n) DEF GroupCount, FreeNumbers
  <2>2. g1[l] = gs[n]
    BY ONLY <1>3, <1>6, <1>11
  <2>3. Used(g1) = Used(g) \cup {gs[n]}
    <3>1. \A u : u \in Used(g1) => u \in Used(g) \/ u = gs[n]
      BY ONLY <1>3, <1>7, <1>8, <2>2
    <3>2. ASSUME NEW u \in Used(g) PROVE u \in Used(g1)
      <4>1. PICK x \in Nodes : u = g[x]
        BY ONLY u \in Used(g), <1>7
      <4>2. CASE x # l
        BY ONLY x \in Nodes, <1>3, <1>8, <4>1, <4>2
      <4>3. CASE x = l
        BY ONLY <1>3, <1>8, <1>10, <1>11, <4>1, <4>3
      <4> QED BY ONLY <4>2, <4>3
    <3>3. gs[n] \in Used(g1)
      BY ONLY <1>6, <1>8, <2>2
    <3> QED BY ONLY <3>1, <3>2, <3>3
  <2>4. Cardinality(Used(g1)) = n + 1
    BY ONLY <1>1, <1>5, <2>1, <2>3, FS_AddElement
  <2>5. \A j \in Nodes : j >= n + 1 => gs[j] \notin Used(g1)
    <3>1. ASSUME NEW j \in Nodes, j >= n + 1 PROVE gs[j] \notin Used(g1)
      <4>1. j \in Nodes /\ j >= n /\ j # n
        BY ONLY j \in Nodes, <1>1, <1>6, <3>1
      <4>2. gs[j] \notin Used(g) /\ gs[j] # gs[n]
        BY ONLY <1>1, <2>1, <4>1
      <4> QED BY ONLY <2>3, <4>2
    <3> QED BY <3>1
  <2>6. \A j, k \in Nodes : j >= n + 1 /\ k >= n + 1 /\ gs[j] = gs[k] => j = k
    BY ONLY <1>1, <1>6
  <2> QED BY ONLY <1>1, <2>1, <2>4, <2>5, <2>6 DEF Allotted
<1>12. CASE ~Follows(g, l) /\ Joins(f, l)
  <2>1. n1 = n - 1 /\ gs1 = [gs EXCEPT ![n - 1] = g[l]]
    BY ONLY <1>12, n1 = GroupCount(f, g, l, n),
            gs1 = FreeNumbers(f, g, l, gs, n) DEF GroupCount, FreeNumbers
  <2>2. g1[l] = g[l-1] /\ g[l-1] # g[l]
    <3>1. g1[l] = g[l-1]
      BY ONLY <1>3, <1>6, <1>12
    <3>2. g[l-1] # g[l]
      BY ONLY <1>4, <1>6, <1>12
    <3> QED BY ONLY <3>1, <3>2
  <2>3. Used(g1) = Used(g) \ {g[l]}
    <3>1. ASSUME NEW u \in Used(g1) PROVE u \in Used(g) /\ u # g[l]
      <4>1. PICK x \in Nodes : u = g1[x]
        BY ONLY u \in Used(g1), <1>8
      <4>2. CASE x = l
        BY ONLY <1>6, <1>7, <2>2, <4>1, <4>2
      <4>3. CASE x # l
        BY ONLY x \in Nodes, <1>3, <1>4, <1>7, <1>12, <4>1, <4>3
      <4> QED BY ONLY <4>2, <4>3
    <3>2. ASSUME NEW u \in Used(g), u # g[l] PROVE u \in Used(g1)
      <4>1. PICK x \in Nodes : u = g[x]
        BY ONLY u \in Used(g), <1>7
      <4>2. x # l /\ g1[x] = u
        BY ONLY x \in Nodes, <1>3, <3>2, <4>1
      <4> QED BY ONLY x \in Nodes, <1>8, <4>2
    <3> QED BY ONLY <3>1, <3>2
  <2>4. Cardinality(Used(g1)) = n - 1
    <3>1. IsFiniteSet(Used(g)) /\ g[l] \in Used(g) /\ Cardinality(Used(g)) = n
      BY ONLY <1>1, <1>5, <1>9
    <3>2. Cardinality(Used(g) \ {g[l]}) = Cardinality(Used(g)) - 1
      BY ONLY <3>1, FS_RemoveElement
    <3> QED BY ONLY <2>3, <3>1, <3>2
  <2>5. n - 1 \in Nat /\ n - 1 \in Nodes
    <3>1. n # 0
      BY ONLY <1>1, <1>5, <1>9, FS_EmptySet
    <3> QED BY ONLY <1>1, <1>5, <1>6, <3>1
  <2>6. gs1 \in [Nodes -> Nodes] /\ gs1[n-1] = g[l] /\ \A j \in Nodes : j # n - 1 => gs1[j] = gs[j]
    BY ONLY <1>1, <1>2, <1>6, <2>1, <2>5
  <2>7. \A j \in Nodes : j >= n - 1 => j = n - 1 \/ j >= n
    BY ONLY <1>1, <1>6
  <2>8. \A j \in Nodes : j >= n => j # n - 1 /\ gs1[j] = gs[j] /\ gs[j] \notin Used(g)
    BY ONLY <1>1, <1>6, <2>6
  <2>9. \A j \in Nodes : j >= n - 1 => gs1[j] \notin Used(g1)
    BY ONLY <2>3, <2>6, <2>7, <2>8
  <2>10. \A j, k \in Nodes : j >= n - 1 /\ k >= n - 1 /\ gs1[j] = gs1[k] => j = k
    BY ONLY <1>1, <1>9, <2>6, <2>7, <2>8
  <2> QED BY ONLY <2>1, <2>4, <2>5, <2>6, <2>9, <2>10 DEF Allotted
<1>13. CASE ~(Follows(g, l) /\ ~Joins(f, l)) /\ ~(~Follows(g, l) /\ Joins(f, l))
  <2>1. n1 = n /\ gs1 = gs
    BY ONLY <1>13, n1 = GroupCount(f, g, l, n),
            gs1 = FreeNumbers(f, g, l, gs, n) DEF GroupCount, FreeNumbers
  <2>2. Used(g1) = Used(g)
    <3>1. CASE Follows(g, l) /\ Joins(f, l)
      <4>1. g1[l] = g[l-1] /\ g1[l+1] = g[l]
        BY ONLY <1>3, <1>6, <1>10, <3>1
      <4>2. ASSUME NEW u \in Used(g1) PROVE u \in Used(g)
        BY ONLY u \in Used(g1), <1>3, <1>6, <1>7, <1>8, <4>1
      <4>3. ASSUME NEW u \in Used(g) PROVE u \in Used(g1)
        <5>1. PICK x \in Nodes : u = g[x]
          BY ONLY u \in Used(g), <1>7
        <5> QED BY ONLY x \in Nodes, <1>3, <1>8, <1>10, <3>1, <4>1, <5>1
      <4> QED BY ONLY <4>2, <4>3
    <3>2. CASE ~Follows(g, l) /\ ~Joins(f, l)
      <4>1. \A x \in Nodes : g1[x] = g[x]
        BY ONLY <1>3, <3>2
      <4> QED BY ONLY <1>7, <1>8, <4>1
    <3> QED BY ONLY <1>13, <3>1, <3>2
  <2> QED BY ONLY <1>1, <2>1, <2>2 DEF Allotted
<1> QED BY ONLY <1>11, <1>12, <1>13

-----------------------------------------------------------------------------
(* Sums. *)

(* What node x counts beyond its children while the walk is at node c. *)
Lead(c, x) == IF c = 0 THEN 0 ELSE IF x = 0 THEN 1 ELSE IF x = c THEN -1 ELSE 0

Summed(f, L, ar, c) ==
  \A x \in Nodes : x \notin L => f[x] = f[ar[x] - 1] + f[ar[x]] + Lead(c, x)

(* The root is far from the node that is counted. *)
LEMMA RootLeads ==
  ASSUME NEW f, NEW L, NEW ar, NEW pa, NEW c \in Nodes,
         Falling(f), BranchesLinked(L, ar, pa), Summed(f, L, ar, c), ar \in [Nodes -> Nat]
  PROVE  /\ ar[0] = 2 /\ f[0] = f[1] + f[2] + Lead(c, 0)
         /\ \A x \in Nodes : x # 0 => f[0] > f[x] + Lead(c, 0)
<1>1. /\ \A x \in Nodes : f[x] \in Nat /\ f[x] >= 1
      /\ \A x, y \in Nodes : x < y => f[y] <= f[x]
  BY DEF Falling
<1>2. /\ 0 \in Nodes /\ 1 \in Nodes /\ 2 \in Nodes
      /\ \A x \in Nodes : x \in Nat
  BY NodeNumbers
<1>3. 0 \notin L /\ ar[0] \in Nat /\ 0 < ar[0] - 1
  BY ONLY <1>2, BranchesLinked(L, ar, pa), ar \in [Nodes -> Nat] DEF BranchesLinked
<1>4. pa[1] \in Nodes /\ pa[1] < 1 /\ (1 = ar[pa[1]] \/ 1 = ar[pa[1]] - 1)
  <2>1. \A x \in Nodes : x # 0 => pa[x] \in Nodes /\ pa[x] < x /\ (x = ar[pa[x]] \/ x = ar[pa[x]] - 1)
    BY ONLY BranchesLinked(L, ar, pa) DEF BranchesLinked
  <2>2. PICK x \in Nodes : x = 1
    BY ONLY <1>2
  <2>3. x # 0
    BY ONLY <2>2
  <2>4. pa[x] \in Nodes /\ pa[x] < x /\ (x = ar[pa[x]] \/ x = ar[pa[x]] - 1)
    BY ONLY x \in Nodes, <2>1, <2>3
  <2> QED BY ONLY <2>2, <2>4
<1>5. pa[1] = 0
  BY ONLY <1>2, <1>4
<1>6. ar[0] = 2
  BY ONLY <1>3, <1>4, <1>5
<1>7. f[0] = f[ar[0] - 1] + f[ar[0]] + Lead(c, 0)
  BY ONLY <1>2, <1>3, Summed(f, L, ar, c) DEF Summed
<1>8. f[0] = f[1] + f[2] + Lead(c, 0)
  BY ONLY <1>6, <1>7
<1>9. Lead(c, 0) \in Int
  BY DEF Lead
<1>10. ASSUME NEW x \in Nodes, x # 0 PROVE f[0] > f[x] + Lead(c, 0)
  <2>1. x = 1 \/ 1 < x
    BY ONLY x \in Nodes, <1>2, <1>10
  <2>2. f[x] <= f[1] /\ f[x] \in Nat /\ f[1] \in Nat /\ f[2] \in Nat /\ f[2] >= 1
    BY ONLY x \in Nodes, <1>1, <1>2, <2>1
  <2> QED BY ONLY <1>8, <1>9, <2>2
<1> QED BY ONLY <1>6, <1>8, <1>10

(* The children of a leader come after every node of its group. *)
LEMMA ChildrenAfter ==
  ASSUME NEW f, NEW L, NEW ar, NEW pa, NEW i \in Nodes, NEW l \in Nodes,
         Falling(f), BranchesLinked(L, ar, pa), Summed(f, L, ar, i), i # 0, l # 0, l # i,
         f[l] = f[i], l \notin L
  PROVE  i < ar[l] - 1
<1>1. /\ \A x \in Nodes : f[x] \in Nat /\ f[x] >= 1
      /\ \A x, y \in Nodes : x < y => f[y] <= f[x]
  BY DEF Falling
<1>2. /\ ar[l] \in EvenNodes /\ ar[l] - 1 \in Nodes
  BY DEF BranchesLinked
<1>3. ar[l] \in Nodes
  BY ONLY <1>2 DEF EvenNodes
<1>4. f[l] = f[ar[l] - 1] + f[ar[l]] + Lead(i, l)
  BY DEF Summed
<1>5. Lead(i, l) = 0
  BY DEF Lead
<1>6. f[ar[l] - 1] \in Nat /\ f[ar[l]] \in Nat /\ f[ar[l]] >= 1 /\ f[l] \in Nat /\ f[l] = f[i]
  BY ONLY <1>1, <1>2, <1>3, l \in Nodes, f[l] = f[i]
<1>7. f[ar[l] - 1] < f[i]
  BY ONLY <1>4, <1>5, <1>6
<1>8. ar[l] - 1 \in Nat /\ i \in Nat
  BY ONLY <1>2, i \in Nodes, NodeNumbers
<1>9. ar[l] - 1 # i
  BY ONLY <1>6, <1>7
<1>10. ~(ar[l] - 1 < i)
  BY ONLY <1>1, <1>2, <1>6, <1>7, i \in Nodes
<1> QED BY ONLY <1>8, <1>9, <1>10

(* The walk passes the surplus on to the parent of the counted node. *)
LEMMA WalkSums ==
  ASSUME NEW f, NEW L, NEW ar, NEW pa, NEW i \in Nodes, NEW l \in Nodes,
         ar \in [Nodes -> Nat],
         Falling(f), BranchesLinked(L, ar, pa), Summed(f, L, ar, i), i # 0, l # 0, l <= i,
         f[l] = f[i], l \notin L /\ l # i => i < ar[l] - 1,
         NEW L1, NEW ar1, SwappedEntries(L, ar, i, l, L1, ar1),
         NEW f1, CountedFreqs(f, l, f1)
  PROVE  Summed(f1, L1, ar1, pa[l])
<1>1. \A x \in Nodes : f[x] \in Nat
  BY DEF Falling
<1>2. \A x \in Nodes : x \notin L => f[x] = f[ar[x] - 1] + f[ar[x]] + Lead(i, x)
  BY DEF Summed
<1>3. \A x \in Nodes : f1[x] = IF x = l THEN f[x] + 1 ELSE f[x]
  BY DEF CountedFreqs
<1>4. /\ \A x \in Nodes : x \in L1 <=> IF x = i THEN l \in L ELSE IF x = l THEN i \in L ELSE x \in L
      /\ \A x \in Nodes : ar1[x] = IF x = i THEN ar[l] ELSE IF x = l THEN ar[i] ELSE ar[x]
  BY DEF SwappedEntries
<1>5. \A x \in Nodes : x \notin L =>
        /\ ar[x] \in Nodes /\ ar[x] - 1 \in Nodes /\ x < ar[x] - 1
        /\ pa[ar[x]] = x /\ pa[ar[x] - 1] = x
  BY DEF BranchesLinked, EvenNodes
<1>6. /\ pa[l] \in Nodes /\ pa[l] \notin L /\ pa[l] < l
      /\ l = ar[pa[l]] \/ l = ar[pa[l]] - 1
  BY DEF BranchesLinked
<1>7. /\ i \in Nodes /\ l \in Nodes /\ i # 0 /\ l # 0 /\ l <= i /\ f[l] = f[i] /\ l \in Nat /\ i \in Nat
      /\ pa[l] \in Nat /\ pa[l] # i /\ pa[l] # l
  BY ONLY <1>6, i \in Nodes, l \in Nodes, i # 0, l # 0, l <= i, f[l] = f[i], NodeNumbers
<1>8. \A x \in Nodes : x \notin L /\ x # pa[l] =>
        f1[ar[x] - 1] = f[ar[x] - 1] /\ f1[ar[x]] = f[ar[x]]
  <2>1. ASSUME NEW x \in Nodes, x \notin L, x # pa[l]
        PROVE  f1[ar[x] - 1] = f[ar[x] - 1] /\ f1[ar[x]] = f[ar[x]]
    <3>1. ar[x] \in Nodes /\ ar[x] - 1 \in Nodes /\ ar[x] # l /\ ar[x] - 1 # l
      BY ONLY x \in Nodes, <2>1, <1>5
    <3> QED BY ONLY <1>3, <3>1
  <2> QED BY <2>1
<1>9. ASSUME NEW x \in Nodes, x \notin L1
      PROVE  f1[x] = f1[ar1[x] - 1] + f1[ar1[x]] + Lead(pa[l], x)
  <2>0. x \in Nodes /\ x \notin L1 /\ \A y \in Nodes : y \in Nat
    BY <1>9, NodeNumbers
  <2>1. CASE x = l
    <3>1. i \notin L /\ ar1[x] = ar[i]
      BY ONLY <1>4, <1>7, <2>0, <2>1
    <3>2. f[i] = f[ar[i] - 1] + f[ar[i]] - 1
      <4>1. Lead(i, i) = -1
        BY ONLY <1>7 DEF Lead
      <4>2. f[i] = f[ar[i] - 1] + f[ar[i]] + Lead(i, i)
        BY ONLY <1>2, <1>7, <3>1
      <4>3. f[ar[i] - 1] \in Nat /\ f[ar[i]] \in Nat
        BY ONLY <1>1, <1>5, <1>7, <3>1
      <4> QED BY ONLY <4>1, <4>2, <4>3
    <3>3. f1[ar[i] - 1] = f[ar[i] - 1] /\ f1[ar[i]] = f[ar[i]]
      BY ONLY <1>7, <1>8, <3>1
    <3>4. f1[l] = f[i] + 1 /\ f[ar[i] - 1] \in Nat /\ f[ar[i]] \in Nat
      BY ONLY <1>1, <1>3, <1>5, <1>7, <3>1
    <3>5. Lead(pa[l], l) = 0
      BY ONLY <1>7 DEF Lead
    <3> QED BY ONLY <2>1, <3>1, <3>2, <3>3, <3>4, <3>5
  <2>2. CASE x = i /\ i # l
    <3>1. l \notin L /\ ar1[x] = ar[l]
      BY ONLY <1>4, <1>7, <2>0, <2>2
    <3>2. f[l] = f[ar[l] - 1] + f[ar[l]] + 0
      <4>1. Lead(i, l) = 0
        BY ONLY <1>7, <2>2 DEF Lead
      <4> QED BY ONLY <1>2, <1>7, <3>1, <4>1
    <3>3. f1[ar[l] - 1] = f[ar[l] - 1] /\ f1[ar[l]] = f[ar[l]]
      BY ONLY <1>7, <1>8, <3>1
    <3>4. f1[i] = f[i]
      BY ONLY <1>3, <1>7, <2>2
    <3>5. Lead(pa[l], i) = 0
      BY ONLY <1>7 DEF Lead
    <3> QED BY ONLY <1>7, <2>2, <3>1, <3>2, <3>3, <3>4, <3>5
  <2>3. CASE x # i /\ x # l /\ x # pa[l]
    <3>1. x \notin L /\ ar1[x] = ar[x]
      BY ONLY <1>4, <2>0, <2>3
    <3>2. f1[ar[x] - 1] = f[ar[x] - 1] /\ f1[ar[x]] = f[ar[x]] /\ f1[x] = f[x]
      BY ONLY <1>3, <1>8, <2>0, <2>3, <3>1
    <3>3. f[x] = f[ar[x] - 1] + f[ar[x]] + Lead(i, x)
      BY ONLY <1>2, <2>0, <3>1
    <3>4. Lead(pa[l], x) = Lead(i, x)
      <4>1. CASE x # 0
        BY ONLY <1>7, <2>3, <4>1 DEF Lead
      <4>2. CASE x = 0
        BY ONLY <1>7, <2>3, <4>2 DEF Lead
      <4> QED BY ONLY <4>1, <4>2
    <3> QED BY ONLY <3>1, <3>2, <3>3, <3>4
  <2>4. CASE x = pa[l]
    <3>1. x \notin L /\ ar1[x] = ar[x] /\ f1[x] = f[x]
      BY ONLY <1>3, <1>4, <1>6, <1>7, <2>0, <2>4
    <3>2. f[x] = f[ar[x] - 1] + f[ar[x]] + Lead(i, x)
      BY ONLY <1>2, <2>0, <3>1
    <3>3. /\ ar[x] \in Nodes /\ ar[x] - 1 \in Nodes /\ ar[x] - 1 # ar[x]
          /\ f[ar[x]] \in Nat /\ f[ar[x] - 1] \in Nat
      <4>1. ar[x] \in Nodes /\ ar[x] - 1 \in Nodes
        BY ONLY <1>5, <2>0, <3>1
      <4> QED BY ONLY <1>1, <2>0, <4>1
    <3>4. f1[ar[x] - 1] + f1[ar[x]] = f[ar[x] - 1] + f[ar[x]] + 1
      <4>1. CASE l = ar[x]
        <5>1. f1[ar[x]] = f[ar[x]] + 1 /\ f1[ar[x] - 1] = f[ar[x] - 1]
          BY ONLY <1>3, <3>3, <4>1
        <5> QED BY ONLY <3>3, <5>1
      <4>2. CASE l = ar[x] - 1
        <5>1. f1[ar[x]] = f[ar[x]] /\ f1[ar[x] - 1] = f[ar[x] - 1] + 1
          BY ONLY <1>3, <3>3, <4>2
        <5> QED BY ONLY <3>3, <5>1
      <4> QED BY ONLY <1>6, <2>4, <4>1, <4>2
    <3>5. Lead(i, x) = Lead(x, x) + 1 /\ Lead(x, x) \in Int
      BY ONLY <1>7, <2>4, <2>0 DEF Lead
    <3> QED BY ONLY <2>4, <3>1, <3>2, <3>3, <3>4, <3>5
  <2> QED BY ONLY <2>1, <2>2, <2>3, <2>4
<1> QED BY <1>9 DEF Summed

(* What the leaves were counted: one token for each time. *)
Tokens(f, lv) == {t \in Values \X Nat : t[2] < f[lv[t[1]]]}

(* The leaves count no more than the root. *)
Weighed(f, L, lv, c) ==
  /\ IsFiniteSet(Tokens(f, lv))
  /\ Cardinality(Tokens(f, lv)) + (IF c # 0 /\ c \in L THEN 1 ELSE 0) <= f[0]

(* A promotion moves the tokens with their leaves, and counting a leaf     *)
(* makes one more.                                                         *)
LEMMA WalkWeighs ==
  ASSUME NEW f, NEW L, NEW ar, NEW pa, NEW lv, NEW i \in Nodes, NEW l \in Nodes,
         LinkTypes(L, ar, pa, lv), LeavesLinked(L, ar, lv),
         Falling(f), i # 0, l # 0, f[l] = f[i], Weighed(f, L, lv, i),
         NEW L1, NEW ar1, SwappedEntries(L, ar, i, l, L1, ar1),
         NEW lv1, SwappedLeaves(L, ar, lv, i, l, lv1),
         NEW f1, CountedFreqs(f, l, f1), NEW c, c \notin L1
  PROVE  Weighed(f1, L1, lv1, c)
<1>1. \A x \in Nodes : f[x] \in Nat
  BY DEF Falling
<1>2. \A v \in Values : lv1[v] = IF i \in L /\ ar[i] = v THEN l
                                 ELSE IF l \in L /\ ar[l] = v THEN i ELSE lv[v]
  BY DEF SwappedLeaves
<1>3. \A x \in Nodes : f1[x] = IF x = l THEN f[x] + 1 ELSE f[x]
  BY DEF CountedFreqs
<1>4. /\ \A v \in Values : lv[v] \in L /\ lv[v] \in Nodes /\ ar[lv[v]] = v
      /\ \A x \in L : ar[x] \in Values /\ lv[ar[x]] = x
  BY DEF LeavesLinked, LinkTypes
<1>5. i \in Nodes /\ l \in Nodes /\ f[l] = f[i]
  OBVIOUS
<1>6. ASSUME NEW v \in Values
      PROVE  f1[lv1[v]] = IF i \in L /\ v = ar[i] THEN f[lv[v]] + 1 ELSE f[lv[v]]
  BY ONLY v \in Values, <1>2, <1>3, <1>4, <1>5
<1>7. IsFiniteSet(Tokens(f, lv)) /\ Cardinality(Tokens(f, lv)) \in Nat
  BY FS_CardinalityType DEF Weighed
<1>8. f1[0] = f[0] /\ f[0] \in Nat
  BY ONLY <1>1, <1>3, l # 0, NodeNumbers
<1>9. Cardinality(Tokens(f, lv)) + (IF i \in L THEN 1 ELSE 0) <= f[0]
  BY DEF Weighed
<1>10. IsFiniteSet(Tokens(f1, lv1)) /\ Cardinality(Tokens(f1, lv1)) <= f[0]
  <2>1. CASE i \in L
    <3> DEFINE t0 == <<ar[i], f[i]>>
    <3>1. t0 \in Values \X Nat
      BY <1>1, <1>4, <1>5, <2>1
    <3>2. t0 \notin Tokens(f, lv)
      BY <1>1, <1>4, <1>5, <2>1 DEF Tokens
    <3>3. \A t \in Values \X Nat : t[1] \in Values /\ t[2] \in Nat /\ t = <<t[1], t[2]>>
      OBVIOUS
    <3>4. Tokens(f1, lv1) \subseteq Tokens(f, lv) \cup {t0}
      <4>1. ASSUME NEW t \in Values \X Nat, t[2] < f1[lv1[t[1]]] PROVE t \in Tokens(f, lv) \/ t = t0
        <5>1. PICK v \in Values, h \in Nat : t = <<v, h>> /\ h < f1[lv1[v]]
          BY <3>3, <4>1
        <5>2. f[lv[v]] \in Nat /\ (v = ar[i] => f[lv[v]] = f[i])
          BY ONLY v \in Values, <1>1, <1>4, <1>5, <2>1
        <5>3. CASE h < f[lv[v]]
          BY <5>1, <5>3 DEF Tokens
        <5>4. CASE ~(h < f[lv[v]])
          <6>1. v = ar[i] /\ h = f[i]
            BY ONLY v \in Values, h \in Nat, <1>6, <5>1, <5>2, <5>4
          <6> QED BY <5>1, <6>1
        <5> QED BY <5>3, <5>4
      <4> HIDE DEF t0
      <4> QED BY <4>1 DEF Tokens
    <3> HIDE DEF t0
    <3>5. IsFiniteSet(Tokens(f, lv) \cup {t0}) /\ Cardinality(Tokens(f, lv) \cup {t0}) = Cardinality(Tokens(f, lv)) + 1
      BY ONLY <1>7, <3>2, FS_AddElement
    <3>6. IsFiniteSet(Tokens(f1, lv1)) /\ Cardinality(Tokens(f1, lv1)) <= Cardinality(Tokens(f, lv)) + 1
      BY ONLY <3>4, <3>5, FS_Subset
    <3>7. Cardinality(Tokens(f1, lv1)) \in Nat
      BY ONLY <3>6, FS_CardinalityType
    <3> QED BY ONLY <1>7, <1>8, <1>9, <2>1, <3>6, <3>7
  <2>2. CASE i \notin L
    <3>1. \A v \in Values : f1[lv1[v]] = f[lv[v]]
      BY ONLY <1>6, <2>2
    <3>2. Tokens(f1, lv1) = Tokens(f, lv)
      BY ONLY <3>1 DEF Tokens
    <3> QED BY ONLY <1>7, <1>8, <1>9, <2>2, <3>2
  <2> QED BY ONLY <2>1, <2>2
<1>11. Cardinality(Tokens(f1, lv1)) \in Nat
  BY ONLY <1>10, FS_CardinalityType
<1> QED BY ONLY <1>8, <1>10, <1>11, c \notin L1 DEF Weighed

-----------------------------------------------------------------------------
(* The whole tree, while a walk is at node c, or not in a walk if c is 0. *)

Whole(f, L, ar, pa, lv, g, ld, gs, n, c) ==
  /\ Linked(L, ar, pa, lv) /\ Falling(f) /\ Grouped(f, g, ld) /\ Allotted(g, gs, n)
  /\ Summed(f, L, ar, c) /\ Weighed(f, L, lv, c)
  /\ f[0] <= ReorderLimit /\ c \in Nodes

(* The root is counted first: a walk to leaf c begins. *)
LEMMA RootCounted ==
  ASSUME NEW f, NEW L, NEW ar, NEW pa, NEW lv, NEW g, NEW ld, NEW gs, NEW n,
         Whole(f, L, ar, pa, lv, g, ld, gs, n, 0), f[0] < ReorderLimit,
         NEW c \in L, NEW f1, CountedFreqs(f, 0, f1)
  PROVE  Whole(f1, L, ar, pa, lv, g, ld, gs, n, c)
<1>1. /\ Linked(L, ar, pa, lv) /\ Falling(f) /\ Grouped(f, g, ld) /\ Allotted(g, gs, n)
      /\ Summed(f, L, ar, 0) /\ Weighed(f, L, lv, 0) /\ f[0] < ReorderLimit
  BY DEF Whole
<1>2. /\ LinkTypes(L, ar, pa, lv) /\ LeavesLinked(L, ar, lv) /\ BranchesLinked(L, ar, pa)
      /\ ar \in [Nodes -> Nat]
  BY ONLY <1>1 DEF Linked, LinkTypes
<1>3. \A x \in Nodes : f1[x] = IF x = 0 THEN f[x] + 1 ELSE f[x]
  BY DEF CountedFreqs
<1>4. /\ 0 \in Nodes /\ \A x \in Nodes : x \in Nat
  BY NodeNumbers
<1>5. \A x \in Nodes : f[x] \in Nat
  BY ONLY <1>1 DEF Falling
<1>6. Falling(f1)
  <2>1. \A x \in Nodes : x < 0 => f[x] > f[0]
    BY ONLY <1>4
  <2> QED BY ONLY <1>1, <1>4, <2>1, CountFalls, CountedFreqs(f, 0, f1)
<1>7. \A x \in Nodes : x # 0 => f[0] > f[x]
  <2>1. Lead(0, 0) = 0
    BY DEF Lead
  <2>2. \A x \in Nodes : x # 0 => f[0] > f[x] + Lead(0, 0)
    BY ONLY <1>1, <1>2, <1>4, RootLeads
  <2> QED BY ONLY <1>5, <2>1, <2>2
<1>8. Grouped(f1, g, ld)
  <2>1. /\ g \in [Nodes -> Nodes] /\ ld \in [Nodes -> Nodes]
        /\ \A x, y \in Nodes : g[x] = g[y] <=> f[x] = f[y]
        /\ \A x \in Nodes : g[ld[g[x]]] = g[x] /\ ld[g[x]] <= x
    BY ONLY <1>1 DEF Grouped
  <2>2. ASSUME NEW x \in Nodes, NEW y \in Nodes PROVE f1[x] = f1[y] <=> f[x] = f[y]
    BY ONLY x \in Nodes, y \in Nodes, <1>3, <1>4, <1>5, <1>7
  <2> QED BY ONLY <2>1, <2>2 DEF Grouped
<1>9. c \in Nodes /\ c # 0 /\ c \in L
  BY ONLY c \in L, <1>2 DEF LinkTypes, BranchesLinked
<1>10. Summed(f1, L, ar, c)
  <2>1. ASSUME NEW x \in Nodes, x \notin L PROVE f1[x] = f1[ar[x] - 1] + f1[ar[x]] + Lead(c, x)
    <3>1. ar[x] \in EvenNodes /\ ar[x] - 1 \in Nodes /\ x < ar[x] - 1
      BY ONLY x \in Nodes, <2>1, <1>2 DEF BranchesLinked
    <3>2. ar[x] \in Nodes
      BY ONLY <3>1 DEF EvenNodes
    <3>3. /\ ar[x] \in Nodes /\ ar[x] - 1 \in Nodes /\ ar[x] # 0 /\ ar[x] - 1 # 0
          /\ f[ar[x]] \in Nat /\ f[ar[x] - 1] \in Nat
      BY ONLY x \in Nodes, <1>4, <1>5, <3>1, <3>2
    <3>4. f[x] = f[ar[x] - 1] + f[ar[x]] + Lead(0, x)
      BY ONLY x \in Nodes, <2>1, <1>1 DEF Summed
    <3>5. f1[ar[x]] = f[ar[x]] /\ f1[ar[x] - 1] = f[ar[x] - 1]
      BY ONLY <1>3, <3>3
    <3>6. Lead(0, x) = 0 /\ Lead(c, x) = IF x = 0 THEN 1 ELSE 0
      BY ONLY <1>9, <2>1 DEF Lead
    <3>7. f1[x] = IF x = 0 THEN f[x] + 1 ELSE f[x]
      BY ONLY x \in Nodes, <1>3
    <3>8. f[x] \in Nat
      BY ONLY x \in Nodes, <1>5
    <3> QED BY ONLY <3>3, <3>4, <3>5, <3>6, <3>7, <3>8
  <2> QED BY <2>1 DEF Summed
<1>11. f1[0] = f[0] + 1 /\ f[0] \in Nat
  BY ONLY <1>3, <1>4, <1>5
<1>12. Weighed(f1, L, lv, c)
  <2>1. \A v \in Values : lv[v] \in Nodes /\ lv[v] # 0
    BY ONLY <1>2 DEF LinkTypes, LeavesLinked, BranchesLinked
  <2>2. \A v \in Values : f1[lv[v]] = f[lv[v]]
    BY ONLY <1>3, <2>1
  <2>3. Tokens(f1, lv) = Tokens(f, lv)
    BY ONLY <2>2 DEF Tokens
  <2>4. IsFiniteSet(Tokens(f, lv)) /\ Cardinality(Tokens(f, lv)) + 0 <= f[0]
    BY ONLY <1>1 DEF Weighed
  <2>5. Cardinality(Tokens(f, lv)) \in Nat
    BY ONLY <2>4, FS_CardinalityType
  <2>6. Cardinality(Tokens(f, lv)) + 1 <= f[0] + 1
    BY ONLY <1>11, <2>4, <2>5
  <2> QED BY ONLY <1>9, <1>11, <2>3, <2>4, <2>6 DEF Weighed
<1>13. f1[0] <= ReorderLimit
  BY ONLY <1>1, <1>11, ReorderLimitAssumption
<1> QED BY ONLY <1>1, <1>6, <1>8, <1>9, <1>10, <1>12, <1>13 DEF Whole

(* One turn of the walk: node c is promoted to its leader l, which is      *)
(* counted.                                                                *)
Walked(f, L, ar, pa, lv, g, ld, gs, n, c, l, f1, L1, ar1, pa1, lv1, g1, ld1, gs1, n1) ==
  /\ c # 0 /\ l = ld[g[c]]
  /\ LinkTypes(L1, ar1, pa1, lv1) /\ SwappedEntries(L, ar, c, l, L1, ar1)
  /\ c # l => SwappedParents(L, ar, pa, c, l, pa1) /\ SwappedLeaves(L, ar, lv, c, l, lv1)
  /\ c = l => pa1 = pa /\ lv1 = lv
  /\ CountedFreqs(f, l, f1) /\ CountedGroups(f, g, l, gs[n], g1)
  /\ CountedLeaders(f, g, ld, l, gs[n], ld1)
  /\ n1 = GroupCount(f, g, l, n) /\ gs1 = FreeNumbers(f, g, l, gs, n)

(* It keeps the tree whole. *)
LEMMA WalkCounted ==
  ASSUME NEW f, NEW L, NEW ar, NEW pa, NEW lv, NEW g, NEW ld, NEW gs, NEW n, NEW c, NEW l,
         NEW f1, NEW L1, NEW ar1, NEW pa1, NEW lv1, NEW g1, NEW ld1, NEW gs1, NEW n1,
         Whole(f, L, ar, pa, lv, g, ld, gs, n, c),
         Walked(f, L, ar, pa, lv, g, ld, gs, n, c, l, f1, L1, ar1, pa1, lv1, g1, ld1, gs1, n1)
  PROVE  /\ l \in Nodes /\ l # 0
         /\ Whole(f1, L1, ar1, pa1, lv1, g1, ld1, gs1, n1, pa1[l])
<1>0. /\ c # 0 /\ l = ld[g[c]]
      /\ LinkTypes(L1, ar1, pa1, lv1) /\ SwappedEntries(L, ar, c, l, L1, ar1)
      /\ c # l => SwappedParents(L, ar, pa, c, l, pa1) /\ SwappedLeaves(L, ar, lv, c, l, lv1)
      /\ c = l => pa1 = pa /\ lv1 = lv
      /\ CountedFreqs(f, l, f1) /\ CountedGroups(f, g, l, gs[n], g1)
      /\ CountedLeaders(f, g, ld, l, gs[n], ld1)
      /\ n1 = GroupCount(f, g, l, n) /\ gs1 = FreeNumbers(f, g, l, gs, n)
  BY DEF Walked
<1>1. /\ Linked(L, ar, pa, lv) /\ Falling(f) /\ Grouped(f, g, ld) /\ Allotted(g, gs, n)
      /\ Summed(f, L, ar, c) /\ Weighed(f, L, lv, c) /\ f[0] <= ReorderLimit /\ c \in Nodes /\ c # 0
  BY <1>0 DEF Whole
<1>2. /\ LinkTypes(L, ar, pa, lv) /\ LeavesLinked(L, ar, lv) /\ BranchesLinked(L, ar, pa)
      /\ ar \in [Nodes -> Nat]
  BY ONLY <1>1 DEF Linked, LinkTypes
<1>3. /\ l \in Nodes /\ l <= c /\ g[l] = g[c] /\ f[l] = f[c]
      /\ \A x \in Nodes : x < l => f[x] > f[c]
  BY ONLY <1>1, <1>0, LeaderIsFirst
<1>4. \A x \in Nodes : x < l => f[x] > f[l]
  BY ONLY <1>3
<1>5. ld[g[l]] = l
  BY ONLY <1>3, <1>0
<1>6. /\ 0 \in Nodes /\ \A x \in Nodes : x \in Nat
  BY NodeNumbers
<1>7. \A x \in Nodes : f[x] \in Nat
  BY ONLY <1>1 DEF Falling
<1>8. l # 0
  <2>1. f[0] > f[c] + Lead(c, 0)
    BY ONLY <1>1, <1>2, RootLeads
  <2>2. Lead(c, 0) = 1
    BY ONLY <1>1 DEF Lead
  <2> QED BY ONLY <1>1, <1>3, <1>6, <1>7, <2>1, <2>2
<1>9. l \notin L /\ l # c => c < ar[l] - 1
  BY ONLY <1>1, <1>2, <1>3, <1>8, ChildrenAfter
<1>10. pa[l] \in Nodes /\ pa[l] \notin L /\ pa[l] < l /\ (l = ar[pa[l]] \/ l = ar[pa[l]] - 1)
  BY ONLY <1>2, <1>3, <1>8 DEF BranchesLinked
<1>11. Falling(f1)
  BY ONLY <1>1, <1>3, <1>4, CountFalls, <1>0
<1>12. Follows(g, l) /\ ~Joins(f, l) => gs[n] \in Nodes /\ \A x \in Nodes : g[x] # gs[n]
  <2>1. SUFFICES ASSUME Follows(g, l) PROVE gs[n] \in Nodes /\ \A x \in Nodes : g[x] # gs[n]
    OBVIOUS
  <2>2. g \in [Nodes -> Nodes]
    BY ONLY <1>1 DEF Grouped
  <2>3. /\ n \in Nat /\ gs \in [Nodes -> Nodes] /\ Cardinality(Used(g)) = n
        /\ \A j \in Nodes : j >= n => gs[j] \notin Used(g)
    BY ONLY <1>1 DEF Allotted
  <2>4. n < NumNodes
    BY ONLY <1>3, <2>1, <2>2, <2>3, UsedSize
  <2>5. n \in Nodes /\ n >= n
    BY ONLY <2>3, <2>4, NodeNumbers
  <2> QED BY ONLY <2>3, <2>5 DEF Used
<1>13. Grouped(f1, g1, ld1)
  BY ONLY <1>1, <1>3, <1>4, <1>5, <1>8, <1>12, CountGroups, <1>0,
     <1>0, <1>0
<1>14. Allotted(g1, gs1, n1)
  BY ONLY <1>1, <1>3, <1>4, <1>8, CountAllots, <1>0,
     <1>0, <1>0
<1>15. Summed(f1, L1, ar1, pa[l])
  BY ONLY <1>1, <1>2, <1>3, <1>8, <1>9, WalkSums, <1>0, <1>0
<1>16. pa1[l] = pa[l]
  <2>1. CASE c = l
    BY <1>0, <2>1
  <2>2. CASE c # l
    <3>1. \A x \in Nodes :
            pa1[x] = IF c \notin L /\ (x = ar[c] - 1 \/ x = ar[c]) THEN l
                     ELSE IF l \notin L /\ (x = ar[l] - 1 \/ x = ar[l]) THEN c
                     ELSE pa[x]
      BY <1>0, <2>2 DEF SwappedParents
    <3>2. \A x \in Nodes : x \notin L => x < ar[x] - 1 /\ ar[x] \in Nat
      BY ONLY <1>2 DEF BranchesLinked
    <3>3. c \notin L => l # ar[c] - 1 /\ l # ar[c]
      BY ONLY <1>1, <1>3, <1>6, <3>2
    <3>4. l \notin L => l # ar[l] - 1 /\ l # ar[l]
      BY ONLY <1>3, <1>6, <3>2
    <3> QED BY ONLY <1>3, <3>1, <3>3, <3>4
  <2> QED BY ONLY <2>1, <2>2
<1>17. \A x \in Nodes : x \in L1 <=> IF x = c THEN l \in L ELSE IF x = l THEN c \in L ELSE x \in L
  BY <1>0 DEF SwappedEntries
<1>18. pa[l] \notin L1
  BY ONLY <1>1, <1>3, <1>6, <1>10, <1>17
<1>19. SwappedLeaves(L, ar, lv, c, l, lv1)
  <2>1. CASE c = l
    <3>1. lv1 = lv
      BY <1>0, <2>1
    <3>2. \A x \in L : lv[ar[x]] = x
      BY ONLY <1>2 DEF LeavesLinked
    <3> QED BY ONLY <2>1, <3>1, <3>2 DEF SwappedLeaves
  <2>2. CASE c # l
    BY <1>0, <2>2
  <2> QED BY ONLY <2>1, <2>2
<1>20. Weighed(f1, L1, lv1, pa[l])
  BY ONLY <1>1, <1>2, <1>3, <1>8, <1>18, <1>19, WalkWeighs, <1>0, <1>0
<1>21. Linked(L1, ar1, pa1, lv1)
  <2>1. CASE c = l
    <3>1. pa1 = pa /\ lv1 = lv /\ LinkTypes(L1, ar1, pa1, lv1)
      BY <1>0, <2>1
    <3>2. \A x \in Nodes : (x \in L1 <=> x \in L) /\ ar1[x] = ar[x]
      BY <1>0, <2>1 DEF SwappedEntries
    <3>3. L1 = L /\ ar1 = ar
      BY ONLY <1>2, <3>1, <3>2 DEF LinkTypes
    <3> QED BY ONLY <1>1, <3>1, <3>3
  <2>2. CASE c # l
    <3>1. l < c /\ (l \notin L => c < ar[l] - 1)
      BY ONLY <1>1, <1>3, <1>6, <1>9, <2>2
    <3>2. SwappedParents(L, ar, pa, c, l, pa1)
      BY <1>0, <2>2
    <3>3. BranchesLinked(L1, ar1, pa1)
      BY ONLY <1>1, <1>2, <1>3, <1>8, <3>1, <3>2, SwapBranches, <1>0,
         <1>0
    <3>4. LeavesLinked(L1, ar1, lv1)
      BY ONLY <1>1, <1>2, <1>3, <1>19, <2>2, SwapLeaves, <1>0,
         <1>0
    <3> QED BY <1>0, <3>3, <3>4 DEF Linked
  <2> QED BY ONLY <2>1, <2>2
<1>22. f1[0] = f[0]
  BY <1>0, <1>6, <1>8 DEF CountedFreqs
<1> QED BY ONLY <1>1, <1>3, <1>8, <1>10, <1>11, <1>13, <1>14, <1>15, <1>16, <1>20, <1>21, <1>22 DEF Whole

-----------------------------------------------------------------------------
(* The state as a whole tree. *)

TreeOK(c) ==
  /\ nodes \in [Nodes -> NodeRecords]
  /\ Whole(FreqOf, LeafNodes, ArgOf, UpOf, leaves, GroupsOf, leaders, groups, ngroups, c)

(* Entries are known by their two fields. *)
LEMMA Entries ==
  /\ \A e \in Entry : e.leaf \in BOOLEAN /\ e.arg \in Nat
  /\ \A e \in Entry : e.leaf => e.arg \in Values
  /\ \A e \in Entry, v \in Values : e = Leaf(v) <=> e.leaf /\ e.arg = v
  /\ \A v \in Values : Leaf(v) \in Entry /\ Leaf(v).leaf /\ Leaf(v).arg = v
  /\ \A x \in Nodes : Branch(x) \in Entry /\ ~Branch(x).leaf /\ Branch(x).arg = x
<1>1. Values \subseteq Nat /\ Nodes \subseteq Nat
  BY Sizes
<1>2. \A e \in Entry : e.leaf \in BOOLEAN /\ e.arg \in Nat
  BY ONLY <1>1 DEF Entry
<1>3. \A e \in Entry : e.leaf => e.arg \in Values
  BY DEF Entry
<1>4. ASSUME NEW e \in Entry, NEW v \in Values PROVE e = Leaf(v) <=> e.leaf /\ e.arg = v
  <2>1. CASE e \in [leaf: {TRUE}, arg: Values]
    <3>1. e.leaf = TRUE
      BY <2>1
    <3>2. e = Leaf(v) <=> e.arg = v
      <4>1. e = [leaf |-> TRUE, arg |-> e.arg]
        BY ONLY <2>1
      <4>2. e.arg = v => e = Leaf(v)
        BY ONLY <4>1 DEF Leaf
      <4>3. Leaf(v).arg = v
        BY DEF Leaf
      <4> QED BY ONLY <4>2, <4>3, Zenon
    <3> QED BY ONLY <3>1, <3>2, Zenon
  <2>2. CASE e \in [leaf: {FALSE}, arg: Nodes]
    <3>1. e.leaf = FALSE
      BY <2>2
    <3>2. Leaf(v).leaf = TRUE
      BY DEF Leaf
    <3> QED BY ONLY <3>1, <3>2, Zenon
  <2> QED BY ONLY e \in Entry, <2>1, <2>2 DEF Entry
<1>5. \A v \in Values : Leaf(v) \in Entry /\ Leaf(v).leaf /\ Leaf(v).arg = v
  BY DEF Entry, Leaf
<1>6. \A x \in Nodes : Branch(x) \in Entry /\ ~Branch(x).leaf /\ Branch(x).arg = x
  BY DEF Entry, Branch
<1> QED BY <1>2, <1>3, <1>4, <1>5, <1>6

(* The parts of a node. *)
LEMMA Parts ==
  ASSUME nodes \in [Nodes -> NodeRecords]
  PROVE  /\ \A x \in Nodes : FreqOf[x] = nodes[x].freq /\ ArgOf[x] = nodes[x].entry.arg
                             /\ UpOf[x] = nodes[x].parent /\ GroupsOf[x] = nodes[x].group
                             /\ (x \in LeafNodes <=> nodes[x].entry.leaf)
         /\ \A x \in Nodes : nodes[x].entry \in Entry /\ nodes[x].freq \in Nat
                             /\ nodes[x].parent \in Nodes /\ nodes[x].group \in Nodes
         /\ FreqOf \in [Nodes -> Nat] /\ ArgOf \in [Nodes -> Nat] /\ UpOf \in [Nodes -> Nodes]
         /\ GroupsOf \in [Nodes -> Nodes] /\ LeafNodes \subseteq Nodes
<1>1. \A x \in Nodes : nodes[x].entry \in Entry /\ nodes[x].freq \in Nat
                       /\ nodes[x].parent \in Nodes /\ nodes[x].group \in Nodes
  BY DEF NodeRecords
<1>2. \A x \in Nodes : nodes[x].entry.arg \in Nat
  BY ONLY <1>1, Entries
<1> QED BY ONLY <1>1, <1>2 DEF FreqOf, ArgOf, UpOf, GroupsOf, LeafNodes

(* The same in the next state. *)
LEMMA PartsNext ==
  ASSUME nodes' \in [Nodes -> NodeRecords]
  PROVE  /\ \A x \in Nodes : FreqOf'[x] = nodes'[x].freq /\ ArgOf'[x] = nodes'[x].entry.arg
                             /\ UpOf'[x] = nodes'[x].parent /\ GroupsOf'[x] = nodes'[x].group
                             /\ (x \in LeafNodes' <=> nodes'[x].entry.leaf)
         /\ \A x \in Nodes : nodes'[x].entry \in Entry /\ nodes'[x].freq \in Nat
                             /\ nodes'[x].parent \in Nodes /\ nodes'[x].group \in Nodes
         /\ FreqOf' \in [Nodes -> Nat] /\ ArgOf' \in [Nodes -> Nat] /\ UpOf' \in [Nodes -> Nodes]
         /\ GroupsOf' \in [Nodes -> Nodes] /\ LeafNodes' \subseteq Nodes
<1>1. \A x \in Nodes : nodes'[x].entry \in Entry /\ nodes'[x].freq \in Nat
                       /\ nodes'[x].parent \in Nodes /\ nodes'[x].group \in Nodes
  BY DEF NodeRecords
<1>2. \A x \in Nodes : nodes'[x].entry.arg \in Nat
  BY ONLY <1>1, Entries
<1> QED BY ONLY <1>1, <1>2 DEF FreqOf, ArgOf, UpOf, GroupsOf, LeafNodes

(* Where a walk may not go, and the number that Groups::allocate returns. *)
LEMMA LeaderNotRoot ==
  ASSUME NEW f, NEW L, NEW ar, NEW pa, NEW lv, NEW g, NEW ld, NEW gs, NEW n, NEW c, NEW l,
         Whole(f, L, ar, pa, lv, g, ld, gs, n, c), c # 0, l = ld[g[c]]
  PROVE  /\ l \in Nodes /\ l # 0 /\ l - 1 \in Nodes /\ g[l] = g[c] /\ c \in Nodes
         /\ Follows(g, l) => l + 1 \in Nodes /\ gs[n] \in Nodes
         /\ g \in [Nodes -> Nodes] /\ ld \in [Nodes -> Nodes] /\ gs \in [Nodes -> Nodes]
<1>1. /\ Linked(L, ar, pa, lv) /\ Falling(f) /\ Grouped(f, g, ld) /\ Allotted(g, gs, n)
      /\ Summed(f, L, ar, c) /\ c \in Nodes /\ c # 0
  BY DEF Whole
<1>2. BranchesLinked(L, ar, pa) /\ ar \in [Nodes -> Nat]
  BY ONLY <1>1 DEF Linked, LinkTypes
<1>3. l \in Nodes /\ l <= c /\ g[l] = g[c] /\ f[l] = f[c]
  BY ONLY <1>1, l = ld[g[c]], LeaderIsFirst
<1>6. 0 \in Nodes
  BY NodeNumbers
<1>7. \A x \in Nodes : f[x] \in Nat
  BY ONLY <1>1 DEF Falling
<1>8. l # 0
  <2>1. f[0] > f[c] + Lead(c, 0)
    BY ONLY <1>1, <1>2, RootLeads
  <2>2. Lead(c, 0) = 1
    BY ONLY <1>1 DEF Lead
  <2> QED BY ONLY <1>1, <1>3, <1>6, <1>7, <2>1, <2>2
<1>9. g \in [Nodes -> Nodes] /\ ld \in [Nodes -> Nodes]
  BY ONLY <1>1 DEF Grouped
<1>10. n \in Nat /\ gs \in [Nodes -> Nodes] /\ Cardinality(Used(g)) = n
  BY ONLY <1>1 DEF Allotted
<1>11. ASSUME Follows(g, l) PROVE l + 1 \in Nodes /\ gs[n] \in Nodes
  <2>1. n < NumNodes
    BY ONLY <1>3, <1>9, <1>10, <1>11, UsedSize
  <2>2. n \in Nodes
    BY ONLY <1>10, <2>1, NodeNumbers
  <2>3. l + 1 \in Nodes
    BY ONLY <1>3, <1>11, NodeNumbers DEF Follows
  <2> QED BY ONLY <1>10, <2>2, <2>3
<1>12. l - 1 \in Nodes
  BY ONLY <1>3, <1>8, NodeNumbers
<1> QED BY ONLY <1>1, <1>3, <1>8, <1>9, <1>10, <1>11, <1>12

(* One turn of the loop of increment_for_value keeps the tree. *)
LEMMA WalkStepKeeps ==
  ASSUME TreeOK(cur), WalkStep
  PROVE  TreeOK(cur)'
<1> DEFINE l  == LeaderOf(cur)
           ns == Promoted(cur, l)
           f  == FreqOf
           L  == LeafNodes
           ar == ArgOf
           g  == GroupsOf
<1>1. /\ cur # 0
      /\ nodes' = [ns EXCEPT ![l].freq = @ + 1, ![l].group = GroupOf(ns, l)]
      /\ leaves' = PromotedLeaves(cur, l)
      /\ leaders' = LeadersAfter(ns, l)
      /\ ngroups' = IF AllocatesGroup(ns, l) THEN ngroups + 1
                    ELSE IF FreesGroup(ns, l) THEN ngroups - 1
                    ELSE ngroups
      /\ groups' = IF FreesGroup(ns, l) THEN [groups EXCEPT ![ngroups - 1] = ns[l].group]
                   ELSE groups
      /\ cur' = ns[l].parent
  BY DEF WalkStep
<1>2. nodes \in [Nodes -> NodeRecords] /\ Whole(f, L, ar, UpOf, leaves, g, leaders, groups, ngroups, cur)
  BY DEF TreeOK
<1>3. /\ \A x \in Nodes : f[x] = nodes[x].freq /\ ar[x] = nodes[x].entry.arg
                          /\ UpOf[x] = nodes[x].parent /\ g[x] = nodes[x].group
                          /\ (x \in L <=> nodes[x].entry.leaf)
      /\ \A x \in Nodes : nodes[x].entry \in Entry /\ nodes[x].freq \in Nat
                          /\ nodes[x].parent \in Nodes /\ nodes[x].group \in Nodes
  BY <1>2, Parts
<1>4. cur \in Nodes
  BY ONLY <1>2 DEF Whole
<1>5. l = leaders[g[cur]]
  BY ONLY <1>3, <1>4 DEF LeaderOf
<1> HIDE DEF f, L, ar, g
<1>6. /\ l \in Nodes /\ l # 0 /\ l - 1 \in Nodes /\ g[l] = g[cur]
      /\ Follows(g, l) => l + 1 \in Nodes /\ groups[ngroups] \in Nodes
      /\ g \in [Nodes -> Nodes] /\ leaders \in [Nodes -> Nodes] /\ groups \in [Nodes -> Nodes]
  <2> HIDE DEF l
  <2> QED BY ONLY <1>1, <1>2, <1>5, LeaderNotRoot
<1>7. /\ ns \in [Nodes -> NodeRecords]
      /\ \A x \in Nodes :
           /\ ns[x].freq = nodes[x].freq /\ ns[x].group = nodes[x].group
           /\ ns[x].entry = IF x = cur THEN nodes[l].entry
                            ELSE IF x = l THEN nodes[cur].entry ELSE nodes[x].entry
           /\ cur # l => ns[x].parent =
                IF ~nodes[cur].entry.leaf /\ x \in Children(cur) THEN l
                ELSE IF ~nodes[l].entry.leaf /\ x \in Children(l) THEN cur
                ELSE nodes[x].parent
           /\ cur = l => ns[x].parent = nodes[x].parent
  <2> HIDE DEF l
  <2> QED BY <1>2, <1>4, <1>6, PromotedFields
<1> HIDE DEF l, ns
<1>8. FollowsInGroup(ns, l) <=> Follows(g, l)
  <2>1. ns[l].group = g[l]
    BY ONLY <1>3, <1>6, <1>7
  <2>2. l < NumNodes - 1 => l + 1 \in Nodes
    BY ONLY <1>6, NodeNumbers
  <2>3. l + 1 \in Nodes => ns[l+1].group = g[l+1]
    BY ONLY <1>3, <1>7
  <2> QED BY ONLY <2>1, <2>2, <2>3 DEF FollowsInGroup, Follows
<1>9. JoinsPrevious(ns, l) <=> Joins(f, l)
  BY ONLY <1>3, <1>6, <1>7 DEF JoinsPrevious, Joins
<1>10. GroupOf(ns, l) = IF Joins(f, l) THEN g[l-1] ELSE IF Follows(g, l) THEN groups[ngroups] ELSE g[l]
  BY ONLY <1>3, <1>6, <1>7, <1>8, <1>9 DEF GroupOf
<1>11. GroupOf(ns, l) \in Nodes
  BY ONLY <1>6, <1>10
<1>12. /\ nodes' \in [Nodes -> NodeRecords]
       /\ \A x \in Nodes :
            /\ nodes'[x].entry = ns[x].entry /\ nodes'[x].parent = ns[x].parent
            /\ nodes'[x].freq = IF x = l THEN ns[x].freq + 1 ELSE ns[x].freq
            /\ nodes'[x].group = IF x = l THEN GroupOf(ns, l) ELSE ns[x].group
  <2>1. PICK G \in Nodes : G = GroupOf(ns, l)
    BY ONLY <1>11
  <2>2. nodes' = CountedAt(ns, l, G)
    BY ONLY <1>1, <2>1 DEF CountedAt
  <2>3. ns \in [Nodes -> NodeRecords] /\ l \in Nodes /\ G \in Nodes
    BY ONLY <1>6, <1>7, G \in Nodes
  <2> QED BY ONLY <2>1, <2>2, <2>3, CountedFields
<1>13. /\ \A x \in Nodes : FreqOf'[x] = nodes'[x].freq /\ ArgOf'[x] = nodes'[x].entry.arg
                           /\ UpOf'[x] = nodes'[x].parent /\ GroupsOf'[x] = nodes'[x].group
                           /\ (x \in LeafNodes' <=> nodes'[x].entry.leaf)
       /\ FreqOf' \in [Nodes -> Nat] /\ ArgOf' \in [Nodes -> Nat] /\ UpOf' \in [Nodes -> Nodes]
       /\ GroupsOf' \in [Nodes -> Nodes] /\ LeafNodes' \subseteq Nodes
  BY ONLY <1>12, PartsNext
<1>14. SwappedEntries(L, ar, cur, l, LeafNodes', ArgOf')
  <2>1. ASSUME NEW x \in Nodes
        PROVE  /\ x \in LeafNodes' <=> IF x = cur THEN l \in L ELSE IF x = l THEN cur \in L ELSE x \in L
               /\ ArgOf'[x] = IF x = cur THEN ar[l] ELSE IF x = l THEN ar[cur] ELSE ar[x]
    <3>1. nodes'[x].entry = IF x = cur THEN nodes[l].entry
                            ELSE IF x = l THEN nodes[cur].entry ELSE nodes[x].entry
      BY ONLY x \in Nodes, <1>7, <1>12
    <3>2. (x \in LeafNodes' <=> nodes'[x].entry.leaf) /\ ArgOf'[x] = nodes'[x].entry.arg
      BY ONLY x \in Nodes, <1>13
    <3>3. /\ (l \in L <=> nodes[l].entry.leaf) /\ ar[l] = nodes[l].entry.arg
          /\ (cur \in L <=> nodes[cur].entry.leaf) /\ ar[cur] = nodes[cur].entry.arg
          /\ (x \in L <=> nodes[x].entry.leaf) /\ ar[x] = nodes[x].entry.arg
      BY ONLY x \in Nodes, <1>3, <1>4, <1>6
    <3>4. CASE x = cur
      BY ONLY <3>1, <3>2, <3>3, <3>4, Zenon
    <3>5. CASE x # cur /\ x = l
      BY ONLY <3>1, <3>2, <3>3, <3>5, Zenon
    <3>6. CASE x # cur /\ x # l
      BY ONLY <3>1, <3>2, <3>3, <3>6, Zenon
    <3> QED BY ONLY <3>4, <3>5, <3>6
  <2> QED BY <2>1 DEF SwappedEntries
<1>15. cur # l => SwappedParents(L, ar, UpOf, cur, l, UpOf')
  <2>1. ASSUME cur # l, NEW x \in Nodes
        PROVE  UpOf'[x] = IF cur \notin L /\ (x = ar[cur] - 1 \/ x = ar[cur]) THEN l
                          ELSE IF l \notin L /\ (x = ar[l] - 1 \/ x = ar[l]) THEN cur
                          ELSE UpOf[x]
    <3>1. UpOf'[x] = IF ~nodes[cur].entry.leaf /\ x \in Children(cur) THEN l
                ELSE IF ~nodes[l].entry.leaf /\ x \in Children(l) THEN cur
                ELSE nodes[x].parent
      BY ONLY x \in Nodes, <1>7, <1>12, <1>13, <2>1
    <3>2. x \in Children(cur) <=> x = ar[cur] - 1 \/ x = ar[cur]
      BY ONLY <1>3, <1>4 DEF Children
    <3>3. x \in Children(l) <=> x = ar[l] - 1 \/ x = ar[l]
      BY ONLY <1>3, <1>6 DEF Children
    <3> QED BY ONLY x \in Nodes, <1>3, <1>4, <1>6, <3>1, <3>2, <3>3
  <2> QED BY <2>1 DEF SwappedParents
<1>16. cur = l => UpOf' = UpOf
  <2>1. ASSUME cur = l PROVE \A x \in Nodes : UpOf'[x] = UpOf[x]
    BY ONLY <1>3, <1>7, <1>12, <1>13, <2>1
  <2>2. UpOf \in [Nodes -> Nodes]
    BY <1>2, Parts
  <2> QED BY ONLY <1>13, <2>1, <2>2
<1>17. leaves \in [Values -> Nodes]
  BY ONLY <1>2 DEF Whole, Linked, LinkTypes
<1>18. cur # l => SwappedLeaves(L, ar, leaves, cur, l, leaves')
  <2>1. ASSUME cur # l, NEW v \in Values
        PROVE  leaves'[v] = IF cur \in L /\ ar[cur] = v THEN l
                            ELSE IF l \in L /\ ar[l] = v THEN cur ELSE leaves[v]
    <3>1. leaves'[v] = IF nodes[cur].entry = Leaf(v) THEN l
                       ELSE IF nodes[l].entry = Leaf(v) THEN cur
                       ELSE leaves[v]
      BY ONLY v \in Values, <1>1, <2>1 DEF PromotedLeaves
    <3>2. nodes[cur].entry = Leaf(v) <=> cur \in L /\ ar[cur] = v
      <4>1. nodes[cur].entry \in Entry /\ (cur \in L <=> nodes[cur].entry.leaf) /\ ar[cur] = nodes[cur].entry.arg
        BY ONLY <1>3, <1>4
      <4>2. \A e \in Entry, u \in Values : e = Leaf(u) <=> e.leaf /\ e.arg = u
        BY Entries
      <4>3. nodes[cur].entry = Leaf(v) <=> nodes[cur].entry.leaf /\ nodes[cur].entry.arg = v
        BY ONLY v \in Values, <4>1, <4>2, Zenon
      <4> QED BY ONLY <4>1, <4>3, Zenon
    <3>3. nodes[l].entry = Leaf(v) <=> l \in L /\ ar[l] = v
      <4>1. nodes[l].entry \in Entry /\ (l \in L <=> nodes[l].entry.leaf) /\ ar[l] = nodes[l].entry.arg
        BY ONLY <1>3, <1>6
      <4>2. \A e \in Entry, u \in Values : e = Leaf(u) <=> e.leaf /\ e.arg = u
        BY Entries
      <4>3. nodes[l].entry = Leaf(v) <=> nodes[l].entry.leaf /\ nodes[l].entry.arg = v
        BY ONLY v \in Values, <4>1, <4>2, Zenon
      <4> QED BY ONLY <4>1, <4>3, Zenon
    <3> QED BY ONLY <3>1, <3>2, <3>3
  <2> QED BY <2>1 DEF SwappedLeaves
<1>19. cur = l => leaves' = leaves
  BY ONLY <1>1 DEF PromotedLeaves
<1>20. leaves' \in [Values -> Nodes]
  BY ONLY <1>1, <1>4, <1>6, <1>17 DEF PromotedLeaves
<1>21. LinkTypes(LeafNodes', ArgOf', UpOf', leaves')
  BY ONLY <1>13, <1>20 DEF LinkTypes
<1>22. CountedFreqs(f, l, FreqOf')
  <2>1. ASSUME NEW x \in Nodes PROVE FreqOf'[x] = IF x = l THEN f[x] + 1 ELSE f[x]
    <3>1. FreqOf'[x] = nodes'[x].freq
      BY ONLY <1>13, x \in Nodes
    <3>2. nodes'[x].freq = IF x = l THEN ns[x].freq + 1 ELSE ns[x].freq
      BY ONLY <1>12, x \in Nodes
    <3>3. ns[x].freq = f[x]
      BY ONLY <1>3, <1>7, x \in Nodes
    <3> QED BY ONLY <3>1, <3>2, <3>3
  <2> QED BY ONLY <1>13, <2>1 DEF CountedFreqs
<1>23. CountedGroups(f, g, l, groups[ngroups], GroupsOf')
  <2>1. GroupsOf'[l] = GroupOf(ns, l)
    BY ONLY <1>6, <1>12, <1>13
  <2>2. ASSUME NEW x \in Nodes, x # l PROVE GroupsOf'[x] = g[x]
    <3>1. GroupsOf'[x] = nodes'[x].group
      BY ONLY <1>13, x \in Nodes
    <3>2. nodes'[x].group = ns[x].group
      BY ONLY <1>12, <2>2, x \in Nodes
    <3>3. ns[x].group = g[x]
      BY ONLY <1>3, <1>7, x \in Nodes
    <3> QED BY ONLY <3>1, <3>2, <3>3
  <2> QED BY ONLY <1>6, <1>10, <1>13, <2>1, <2>2 DEF CountedGroups
<1>24. AllocatesGroup(ns, l) <=> Follows(g, l) /\ ~Joins(f, l)
  BY ONLY <1>8, <1>9 DEF AllocatesGroup
<1>25. FreesGroup(ns, l) <=> ~Follows(g, l) /\ Joins(f, l)
  BY ONLY <1>8, <1>9 DEF FreesGroup
<1>26. CountedLeaders(f, g, leaders, l, groups[ngroups], leaders')
  <2>1. ns[l].group = g[l]
    BY ONLY <1>3, <1>6, <1>7
  <2>2. \A h \in Nodes : leaders'[h] = IF Follows(g, l) /\ ~Joins(f, l) /\ h = groups[ngroups] THEN l
                               ELSE IF Follows(g, l) /\ h = g[l] THEN leaders[h] + 1
                               ELSE leaders[h]
    BY ONLY <1>1, <1>8, <1>24, <2>1 DEF LeadersAfter
  <2>3. leaders[g[l]] = l
    BY ONLY <1>5, <1>6
  <2>4. \A h \in Nodes : leaders'[h] \in Nodes
    BY ONLY <1>6, <2>2, <2>3
  <2>5. leaders' = [h \in Nodes |-> leaders'[h]]
    BY ONLY <1>1 DEF LeadersAfter
  <2>6. leaders' \in [Nodes -> Nodes]
    BY ONLY <2>4, <2>5
  <2> QED BY ONLY <2>2, <2>6 DEF CountedLeaders
<1>27. ngroups' = GroupCount(f, g, l, ngroups)
  BY ONLY <1>1, <1>24, <1>25 DEF GroupCount
<1>28. groups' = FreeNumbers(f, g, l, groups, ngroups)
  BY ONLY <1>1, <1>3, <1>6, <1>7, <1>25 DEF FreeNumbers
<1>29. Whole(FreqOf', LeafNodes', ArgOf', UpOf', leaves', GroupsOf', leaders', groups', ngroups', UpOf'[l])
  <2>1. Walked(f, L, ar, UpOf, leaves, g, leaders, groups, ngroups, cur, l,
               FreqOf', LeafNodes', ArgOf', UpOf', leaves', GroupsOf', leaders', groups', ngroups')
    BY ONLY <1>1, <1>5, <1>14, <1>15, <1>16, <1>18, <1>19, <1>21, <1>22, <1>23, <1>26, <1>27, <1>28
       DEF Walked
  <2> QED BY ONLY <1>2, <2>1, WalkCounted
<1>30. cur' = UpOf'[l]
  BY ONLY <1>1, <1>6, <1>12, <1>13
<1> QED BY ONLY <1>12, <1>29, <1>30 DEF TreeOK

(* The root is counted, when a walk to leaf x begins. *)
LEMMA CountRootKeeps ==
  ASSUME TreeOK(0), FreqOf[0] < ReorderLimit, CountRoot, NEW x \in LeafNodes, cur' = x
  PROVE  TreeOK(cur)'
<1>1. nodes \in [Nodes -> NodeRecords]
      /\ Whole(FreqOf, LeafNodes, ArgOf, UpOf, leaves, GroupsOf, leaders, groups, ngroups, 0)
  BY DEF TreeOK
<1>2. /\ nodes' = [nodes EXCEPT ![0].freq = @ + 1]
      /\ leaves' = leaves /\ ngroups' = ngroups /\ groups' = groups /\ leaders' = leaders
  BY DEF CountRoot
<1>3. /\ nodes' \in [Nodes -> NodeRecords]
      /\ \A y \in Nodes : /\ nodes'[y].entry = nodes[y].entry /\ nodes'[y].parent = nodes[y].parent
                          /\ nodes'[y].freq = IF y = 0 THEN nodes[y].freq + 1 ELSE nodes[y].freq
                          /\ nodes'[y].group = nodes[y].group
  <2>0. 0 \in Nodes
    BY NodeNumbers
  <2>1. PICK G \in Nodes : G = nodes[0].group
    BY ONLY <1>1, <2>0 DEF NodeRecords
  <2>2. nodes' = CountedAt(nodes, 0, G)
    BY ONLY <1>1, <1>2, <2>0, <2>1 DEF NodeRecords, CountedAt
  <2>3. /\ nodes' \in [Nodes -> NodeRecords]
        /\ \A y \in Nodes :
             /\ nodes'[y].entry = nodes[y].entry /\ nodes'[y].parent = nodes[y].parent
             /\ nodes'[y].freq = IF y = 0 THEN nodes[y].freq + 1 ELSE nodes[y].freq
             /\ nodes'[y].group = IF y = 0 THEN G ELSE nodes[y].group
    BY ONLY <1>1, <2>0, <2>2, G \in Nodes, CountedFields
  <2> QED BY ONLY <2>1, <2>3
<1>4. /\ \A y \in Nodes : FreqOf[y] = nodes[y].freq /\ ArgOf[y] = nodes[y].entry.arg
                          /\ UpOf[y] = nodes[y].parent /\ GroupsOf[y] = nodes[y].group
                          /\ (y \in LeafNodes <=> nodes[y].entry.leaf)
      /\ FreqOf \in [Nodes -> Nat] /\ ArgOf \in [Nodes -> Nat] /\ UpOf \in [Nodes -> Nodes]
      /\ GroupsOf \in [Nodes -> Nodes] /\ LeafNodes \subseteq Nodes
  BY <1>1, Parts
<1>5. /\ \A y \in Nodes : FreqOf'[y] = nodes'[y].freq /\ ArgOf'[y] = nodes'[y].entry.arg
                          /\ UpOf'[y] = nodes'[y].parent /\ GroupsOf'[y] = nodes'[y].group
                          /\ (y \in LeafNodes' <=> nodes'[y].entry.leaf)
      /\ FreqOf' \in [Nodes -> Nat] /\ ArgOf' \in [Nodes -> Nat] /\ UpOf' \in [Nodes -> Nodes]
      /\ GroupsOf' \in [Nodes -> Nodes] /\ LeafNodes' \subseteq Nodes
  BY ONLY <1>3, PartsNext
<1>6. LeafNodes' = LeafNodes
  BY ONLY <1>3, <1>4, <1>5
<1>7. ArgOf' = ArgOf /\ UpOf' = UpOf /\ GroupsOf' = GroupsOf
  <2>1. \A y \in Nodes : ArgOf'[y] = ArgOf[y] /\ UpOf'[y] = UpOf[y] /\ GroupsOf'[y] = GroupsOf[y]
    <3>1. ASSUME NEW y \in Nodes
          PROVE  ArgOf'[y] = ArgOf[y] /\ UpOf'[y] = UpOf[y] /\ GroupsOf'[y] = GroupsOf[y]
      <4>1. nodes'[y].entry = nodes[y].entry
        BY ONLY y \in Nodes, <1>3
      <4>2. UpOf'[y] = UpOf[y] /\ GroupsOf'[y] = GroupsOf[y]
        BY ONLY y \in Nodes, <1>3, <1>4, <1>5
      <4> QED BY ONLY y \in Nodes, <1>4, <1>5, <4>1, <4>2
    <3> QED BY <3>1
  <2>2. ArgOf' = ArgOf
    BY ONLY <1>4, <1>5, <2>1
  <2>3. UpOf' = UpOf
    BY ONLY <1>4, <1>5, <2>1
  <2>4. GroupsOf' = GroupsOf
    BY ONLY <1>4, <1>5, <2>1
  <2> QED BY ONLY <2>2, <2>3, <2>4
<1>8. CountedFreqs(FreqOf, 0, FreqOf')
  BY ONLY <1>3, <1>4, <1>5 DEF CountedFreqs
<1>9. Whole(FreqOf', LeafNodes, ArgOf, UpOf, leaves, GroupsOf, leaders, groups, ngroups, x)
  BY ONLY <1>1, <1>8, RootCounted, x \in LeafNodes, FreqOf[0] < ReorderLimit
<1> QED BY ONLY <1>2, <1>3, <1>6, <1>7, <1>9, cur' = x DEF TreeOK

-----------------------------------------------------------------------------
(* Ranks. *)

(* A set of natural numbers that is not empty has a least element. *)
LEMMA Least ==
  ASSUME NEW S \in SUBSET Nat, S # {}
  PROVE  \E x \in S : \A y \in S : x <= y
<1> DEFINE R == OpToRel(<, Nat)
<1>1. IsWellFoundedOn(R, Nat)
  BY ONLY NatLessThanWellFounded, Zenon
<1>2. PICK x \in S : \A y \in S : ~ (<<y, x>> \in R)
  <2> HIDE DEF R
  <2> QED BY ONLY WFMin, <1>1, S \subseteq Nat, S # {}, Zenon
<1>3. \A y \in S : ~(y < x)
  BY <1>2 DEF OpToRel
<1> QED BY <1>3, SMT

(* Counting the members below m: none at 0, all at an upper bound, and one *)
(* more, or none, at each step.                                            *)
LEMMA BeforeSteps ==
  ASSUME NEW n \in Nat, NEW S \in SUBSET (0..n-1)
  PROVE  /\ IsFiniteSet(S) /\ Before(S, 0) = 0 /\ Before(S, n) = Cardinality(S)
         /\ \A m \in Nat : /\ Before(S, m) \in Nat
                           /\ Before(S, m + 1) = IF m \in S THEN Before(S, m) + 1 ELSE Before(S, m)
<1>0. \A u \in S : u \in Nat /\ u < n
  OBVIOUS
<1>1. IsFiniteSet(S)
  <2>1. IsFiniteSet(0..n-1)
    BY FS_Interval
  <2> QED BY <2>1, FS_Subset
<1>2. \A m : IsFiniteSet({u \in S : u < m}) /\ Before(S, m) \in Nat
  <2> SUFFICES ASSUME NEW m PROVE IsFiniteSet({u \in S : u < m}) /\ Before(S, m) \in Nat
    OBVIOUS
  <2>1. {u \in S : u < m} \in SUBSET S
    OBVIOUS
  <2>2. IsFiniteSet({u \in S : u < m})
    BY <1>1, <2>1, FS_Subset
  <2> QED BY <2>2, FS_CardinalityType DEF Before
<1>3. Before(S, 0) = 0
  <2>1. {u \in S : u < 0} = {}
    <3>1. \A u \in S : ~(u < 0)
      BY <1>0
    <3> QED BY <3>1, Zenon
  <2> QED BY <2>1, FS_EmptySet DEF Before
<1>4. Before(S, n) = Cardinality(S)
  <2>1. {u \in S : u < n} = S
    BY <1>0
  <2> QED BY <2>1 DEF Before
<1>5. ASSUME NEW m \in Nat
      PROVE  Before(S, m + 1) = IF m \in S THEN Before(S, m) + 1 ELSE Before(S, m)
  <2> DEFINE T == {u \in S : u < m}
             U == {u \in S : u < m + 1}
  <2>0. \A u \in S : u < m + 1 <=> (u < m \/ u = m)
    BY <1>0
  <2>1. IsFiniteSet(T) /\ m \notin T
    BY <1>2
  <2>2. CASE m \in S
    <3>1. U = T \cup {m}
      BY <2>0, <2>2, Zenon
    <3>2. Cardinality(T \cup {m}) = Cardinality(T) + 1
      <4> HIDE DEF T
      <4> QED BY ONLY <2>1, FS_AddElement
    <3> QED BY <2>2, <3>1, <3>2 DEF Before
  <2>3. CASE m \notin S
    <3>1. U = T
      BY <2>0, <2>3, Zenon
    <3> QED BY <2>3, <3>1 DEF Before
  <2> QED BY <2>2, <2>3
<1> QED BY <1>1, <1>2, <1>3, <1>4, <1>5

(* Of the members of S, some one has exactly k - 1 before it. *)
LEMMA KthExists ==
  ASSUME NEW n \in Nat, NEW S \in SUBSET (0..n-1), NEW k \in 1..Cardinality(S)
  PROVE  \E v \in S : Before(S, v) = k - 1
<1> DEFINE M == {m \in Nat : Before(S, m) >= k}
<1>1. /\ IsFiniteSet(S) /\ Before(S, 0) = 0 /\ Before(S, n) = Cardinality(S)
      /\ \A m \in Nat : /\ Before(S, m) \in Nat
                        /\ Before(S, m + 1) = IF m \in S THEN Before(S, m) + 1 ELSE Before(S, m)
  BY ONLY n \in Nat, S \in SUBSET (0..n-1), BeforeSteps
<1>2. Cardinality(S) \in Nat
  BY <1>1, FS_CardinalityType
<1>3. n \in M /\ M \in SUBSET Nat /\ M # {}
  BY <1>1, <1>2
<1>4. PICK m \in M : \A y \in M : m <= y
  <2> HIDE DEF M
  <2> QED BY <1>3, Least
<1>5. m \in Nat /\ m # 0 /\ Before(S, m) >= k
  BY <1>1, <1>2, <1>4
<1>6. PICK p \in Nat : m = p + 1
  BY <1>5
<1>7. p \notin M
  BY <1>4, <1>6
<1>8. Before(S, p) < k /\ Before(S, p) \in Nat
  BY <1>1, <1>2, <1>7
<1> QED BY <1>1, <1>2, <1>5, <1>6, <1>8

(* More members come before a later member. *)
LEMMA BeforeGrows ==
  ASSUME NEW n \in Nat, NEW S \in SUBSET (0..n-1), NEW x \in S, NEW y \in S, x < y
  PROVE  Before(S, x) \in Nat /\ Before(S, y) \in Nat /\ Before(S, x) < Before(S, y)
<1> DEFINE X == {u \in S : u < x}
           Y == {u \in S : u < y}
<1>1. IsFiniteSet(S)
  BY ONLY n \in Nat, S \in SUBSET (0..n-1), BeforeSteps
<1>0. (\A u \in S : u \in Nat) /\ x \in S /\ y \in S /\ x < y
  OBVIOUS
<1>2. X \subseteq S /\ Y \subseteq S /\ x \notin X /\ X \cup {x} \subseteq Y
  <2>1. \A u \in S : u < x => u < y
    BY ONLY <1>0
  <2>2. ~(x < x)
    BY ONLY <1>0
  <2> QED BY ONLY <1>0, <2>1, <2>2
<1>3. Before(S, x) = Cardinality(X) /\ Before(S, y) = Cardinality(Y)
  BY DEF Before
<1> HIDE DEF X, Y
<1>4. IsFiniteSet(X) /\ IsFiniteSet(Y)
  BY ONLY <1>1, <1>2, FS_Subset
<1>5. IsFiniteSet(X \cup {x}) /\ Cardinality(X \cup {x}) = Cardinality(X) + 1
  BY ONLY <1>2, <1>4, FS_AddElement
<1>6. Cardinality(X \cup {x}) <= Cardinality(Y)
  BY ONLY <1>2, <1>4, FS_Subset
<1>7. Cardinality(X) \in Nat /\ Cardinality(Y) \in Nat
  BY ONLY <1>4, FS_CardinalityType
<1> QED BY ONLY <1>3, <1>5, <1>6, <1>7

(* The members of a set of nodes in order. *)
Nth(S) == [k \in 1..Cardinality(S) |-> CHOOSE i \in S : Before(S, i) = k - 1]

(* They are all named, and once. *)
LEMMA NthOrder ==
  ASSUME NEW S \in SUBSET Nodes
  PROVE  /\ Cardinality(S) \in Nat /\ Nth(S) \in [1..Cardinality(S) -> S]
         /\ \A j, k \in 1..Cardinality(S) : j < k => Nth(S)[j] < Nth(S)[k]
         /\ \A x \in S : \E k \in 1..Cardinality(S) : Nth(S)[k] = x
<1> DEFINE c == Cardinality(S)
<1>1. NumNodes \in Nat /\ S \in SUBSET (0..NumNodes-1) /\ \A x \in S : x \in Nat
  BY Sizes
<1>2. IsFiniteSet(S) /\ c \in Nat
  <2>1. IsFiniteSet(S)
    BY ONLY <1>1, BeforeSteps
  <2> QED BY ONLY <2>1, FS_CardinalityType
<1>3. ASSUME NEW k \in 1..c PROVE Nth(S)[k] \in S /\ Before(S, Nth(S)[k]) = k - 1
  <2>1. \E v \in S : Before(S, v) = k - 1
    BY ONLY <1>1, k \in 1..c, KthExists
  <2>2. Nth(S)[k] = CHOOSE i \in S : Before(S, i) = k - 1
    BY DEF Nth
  <2> QED BY ONLY <2>1, <2>2
<1>4. Nth(S) \in [1..c -> S]
  BY <1>3 DEF Nth
<1>5. \A x, y \in S : x < y => Before(S, x) \in Nat /\ Before(S, y) \in Nat /\ Before(S, x) < Before(S, y)
  BY ONLY <1>1, BeforeGrows
<1> HIDE DEF c
<1>6. ASSUME NEW j \in 1..c, NEW k \in 1..c, j < k PROVE Nth(S)[j] < Nth(S)[k]
  <2>1. j \in Nat /\ k \in Nat /\ j < k
    BY ONLY <1>2, j \in 1..c, k \in 1..c, j < k
  <2>2. /\ Nth(S)[j] \in S /\ Before(S, Nth(S)[j]) = j - 1
        /\ Nth(S)[k] \in S /\ Before(S, Nth(S)[k]) = k - 1
    BY ONLY <1>3, j \in 1..c, k \in 1..c
  <2>3. Nth(S)[j] # Nth(S)[k]
    BY ONLY <2>1, <2>2
  <2>4. ~(Nth(S)[k] < Nth(S)[j])
    BY ONLY <1>5, <2>1, <2>2
  <2>5. Nth(S)[j] \in Nat /\ Nth(S)[k] \in Nat
    BY ONLY <1>1, <2>2
  <2> QED BY ONLY <2>3, <2>4, <2>5
<1>7. ASSUME NEW x \in S PROVE \E k \in 1..c : Nth(S)[k] = x
  <2>1. Before(S, x) \in Nat /\ Before(S, x) < c
    <3> DEFINE X == {u \in S : u < x}
    <3>1. X \in SUBSET S /\ x \notin X /\ x \in S
      BY ONLY <1>1, x \in S
    <3>2. Before(S, x) = Cardinality(X)
      BY DEF Before
    <3> HIDE DEF X
    <3>3. IsFiniteSet(X) /\ Cardinality(X) <= Cardinality(S) /\ (Cardinality(S) = Cardinality(X) => S = X)
      BY ONLY <1>2, <3>1, FS_Subset
    <3>4. Cardinality(X) \in Nat
      BY ONLY <3>3, FS_CardinalityType
    <3> QED BY ONLY <1>2, <3>1, <3>2, <3>3, <3>4 DEF c
  <2>2. PICK k \in 1..c : k = Before(S, x) + 1
    BY ONLY <1>2, <2>1
  <2>3. Nth(S)[k] \in S /\ Before(S, Nth(S)[k]) = Before(S, x)
    BY ONLY <1>3, <2>1, <2>2, k \in 1..c
  <2>4. ~(Nth(S)[k] < x) /\ ~(x < Nth(S)[k])
    BY ONLY <1>5, <2>1, <2>3, x \in S
  <2>5. Nth(S)[k] \in Nat /\ x \in Nat
    BY ONLY <1>1, <2>3, x \in S
  <2> QED BY ONLY <2>4, <2>5, k \in 1..c
<1> QED BY <1>2, <1>4, <1>6, <1>7 DEF c

-----------------------------------------------------------------------------
(* rebuild_tree.  The leaves that are taken out have frequencies tf and    *)
(* values tv; 2 * m + 1 nodes have no parent yet (len) and left of the     *)
(* leaves are not placed, so that the nodes from left + m on (target) are. *)

Ranks == 1..NumLeaves

(* The leaves are taken in order, each with its own value. *)
TakenInOrder(tf, tv) ==
  /\ tf \in [Ranks -> Nat] /\ tv \in [Ranks -> Values]
  /\ \A k \in Ranks : tf[k] >= 1
  /\ \A j, k \in Ranks : j < k => tf[k] <= tf[j]
  /\ \A j, k \in Ranks : tv[j] = tv[k] => j = k
  /\ \A v \in Values : \E k \in Ranks : tv[k] = v

Half(n) == (n + 1) \div 2

(* As many leaves as values. *)
LEMMA LeafCount ==
  ASSUME NEW L, NEW ar, NEW pa, NEW lv, LinkTypes(L, ar, pa, lv), LeavesLinked(L, ar, lv)
  PROVE  IsFiniteSet(L) /\ Cardinality(L) = NumLeaves
<1>1. lv \in [Values -> L]
  BY DEF LinkTypes, LeavesLinked
<1>2. \A x \in L : ar[x] \in Values /\ lv[ar[x]] = x
  BY DEF LeavesLinked
<1>3. \A v, w \in Values : lv[v] = lv[w] => v = w
  BY DEF LeavesLinked
<1>4. lv \in Bijection(Values, L)
  <2>1. lv \in Injection(Values, L)
    BY ONLY <1>1, <1>3 DEF Injection, IsInjective
  <2>2. \A x \in L : \E v \in Values : lv[v] = x
    BY ONLY <1>2
  <2>3. lv \in Surjection(Values, L)
    BY ONLY <1>1, <2>2 DEF Surjection
  <2> QED BY ONLY <2>1, <2>3 DEF Bijection
<1>5. ExistsBijection(Values, L)
  BY ONLY <1>4 DEF ExistsBijection
<1>6. IsFiniteSet(Values) /\ Cardinality(Values) = NumLeaves
  BY Sizes, FS_Interval
<1> QED BY ONLY <1>5, <1>6, FS_Bijection

(* What is taken out of a whole tree. *)
LEMMA TakingOrder ==
  ASSUME NEW f, NEW L, NEW ar, NEW pa, NEW lv,
         LinkTypes(L, ar, pa, lv), LeavesLinked(L, ar, lv), Falling(f), NEW at, at = Nth(L),
         NEW tf, tf = [k \in Ranks |-> Half(f[at[k]])], NEW tv, tv = [k \in Ranks |-> ar[at[k]]]
  PROVE  TakenInOrder(tf, tv) /\ at \in [Ranks -> L]
<1>1. L \subseteq Nodes
  BY DEF LinkTypes
<1>2. Cardinality(L) = NumLeaves
  BY LeafCount
<1>3. /\ at \in [Ranks -> L]
      /\ \A j, k \in Ranks : j < k => at[j] < at[k]
      /\ \A x \in L : \E k \in Ranks : at[k] = x
  BY ONLY <1>1, <1>2, at = Nth(L), NthOrder DEF Ranks
<1>4. /\ \A x \in Nodes : f[x] \in Nat /\ f[x] >= 1
      /\ \A x, y \in Nodes : x < y => f[y] <= f[x]
  BY DEF Falling
<1>5. /\ \A v \in Values : lv[v] \in L /\ ar[lv[v]] = v
      /\ \A x \in L : ar[x] \in Values /\ lv[ar[x]] = x
  BY DEF LeavesLinked
<1>6. \A a \in Nat : Half(a) \in Nat /\ (a >= 1 => Half(a) >= 1)
  BY ONLY DEF Half
<1>7. \A a, b \in Nat : a <= b => Half(a) <= Half(b)
  BY ONLY DEF Half
<1>8. \A k \in Ranks : tf[k] = Half(f[at[k]]) /\ tv[k] = ar[at[k]] /\ at[k] \in L /\ at[k] \in Nodes
  BY ONLY <1>1, <1>3, tf = [k \in Ranks |-> Half(f[at[k]])], tv = [k \in Ranks |-> ar[at[k]]]
<1>9. tf \in [Ranks -> Nat]
  BY ONLY <1>4, <1>6, <1>8, tf = [k \in Ranks |-> Half(f[at[k]])]
<1>10. tv \in [Ranks -> Values]
  BY ONLY <1>5, <1>8, tv = [k \in Ranks |-> ar[at[k]]]
<1>11. \A k \in Ranks : tf[k] >= 1
  BY ONLY <1>4, <1>6, <1>8
<1>12. \A j, k \in Ranks : j < k => tf[k] <= tf[j]
  <2>1. ASSUME NEW j \in Ranks, NEW k \in Ranks, j < k PROVE tf[k] <= tf[j]
    <3>1. at[j] < at[k] /\ at[j] \in Nodes /\ at[k] \in Nodes
      BY ONLY j \in Ranks, k \in Ranks, <2>1, <1>3, <1>8
    <3>2. f[at[k]] <= f[at[j]] /\ f[at[k]] \in Nat /\ f[at[j]] \in Nat
      BY ONLY <1>4, <3>1
    <3>3. Half(f[at[k]]) <= Half(f[at[j]])
      BY ONLY <1>7, <3>2
    <3> QED BY ONLY j \in Ranks, k \in Ranks, <1>8, <3>3
  <2> QED BY <2>1
<1>13. \A j, k \in Ranks : tv[j] = tv[k] => j = k
  <2>1. ASSUME NEW j \in Ranks, NEW k \in Ranks, tv[j] = tv[k] PROVE j = k
    <3>1. at[j] = at[k]
      BY ONLY j \in Ranks, k \in Ranks, <1>5, <1>8, <2>1
    <3>2. at[k] \in Nat /\ j \in Int /\ k \in Int
      BY ONLY j \in Ranks, k \in Ranks, <1>8, NodeNumbers, Sizes DEF Ranks
    <3>3. ~(j < k) /\ ~(k < j)
      BY ONLY j \in Ranks, k \in Ranks, <1>3, <3>1, <3>2
    <3> QED BY ONLY <3>2, <3>3
  <2> QED BY <2>1
<1>14. \A v \in Values : \E k \in Ranks : tv[k] = v
  BY ONLY <1>3, <1>5, <1>8
<1> QED BY ONLY <1>3, <1>9, <1>10, <1>11, <1>12, <1>13, <1>14 DEF TakenInOrder

(* What the first j of the taken leaves count: one token for each time. *)
TakenTokens(tf, tv, j) ==
  {t \in Values \X Nat : \E k \in 1..j : tv[k] = t[1] /\ t[2] < tf[k]}

(* Each leaf adds its frequency. *)
LEMMA TakenCounts ==
  ASSUME NEW tf, NEW tv, TakenInOrder(tf, tv)
  PROVE  /\ \A j \in 0..NumLeaves : IsFiniteSet(TakenTokens(tf, tv, j))
                                    /\ Cardinality(TakenTokens(tf, tv, j)) \in Nat
         /\ Cardinality(TakenTokens(tf, tv, 0)) = 0
         /\ \A k \in Ranks : Cardinality(TakenTokens(tf, tv, k))
                               = Cardinality(TakenTokens(tf, tv, k - 1)) + tf[k]
<1>1. /\ \A k \in Ranks : tf[k] \in Nat /\ tv[k] \in Values
      /\ \A j, k \in Ranks : j < k => tf[k] <= tf[j]
      /\ \A j, k \in Ranks : tv[j] = tv[k] => j = k
  BY DEF TakenInOrder
<1>2. /\ NumLeaves \in Nat /\ 1 \in Ranks
      /\ \A k \in Ranks : k \in Nat /\ k >= 1 /\ k <= NumLeaves
      /\ \A j \in 0..NumLeaves : \A k \in 1..j : k \in Ranks
  BY Sizes DEF Ranks
<1>3. \A t \in Values \X Nat : t[1] \in Values /\ t[2] \in Nat /\ t = <<t[1], t[2]>>
  OBVIOUS
<1>4. ASSUME NEW j \in 0..NumLeaves
      PROVE  IsFiniteSet(TakenTokens(tf, tv, j)) /\ Cardinality(TakenTokens(tf, tv, j)) \in Nat
  <2> DEFINE B == Values \X (0..tf[1])
  <2>1. IsFiniteSet(B)
    <3>1. IsFiniteSet(Values) /\ IsFiniteSet(0..tf[1])
      <4>1. tf[1] \in Int
        BY ONLY <1>1, <1>2
      <4>2. IsFiniteSet(0..tf[1])
        <5>1. 0 \in Int
          OBVIOUS
        <5> QED BY ONLY <4>1, <5>1, FS_Interval
      <4>3. IsFiniteSet(0..NumLeaves-1)
        <5>1. 0 \in Int /\ NumLeaves - 1 \in Int
          BY ONLY <1>2
        <5> QED BY ONLY <5>1, FS_Interval
      <4> QED BY ONLY <4>2, <4>3, Sizes
    <3> QED BY ONLY <3>1, FS_Product
  <2>2. ASSUME NEW t \in TakenTokens(tf, tv, j) PROVE t \in B
    <3>1. PICK k \in 1..j : t \in Values \X Nat /\ t[2] < tf[k]
      BY DEF TakenTokens
    <3>2. k \in Ranks /\ k \in Nat /\ (k = 1 \/ 1 < k)
      BY ONLY j \in 0..NumLeaves, k \in 1..j, <1>2
    <3>3. tf[k] <= tf[1] /\ tf[k] \in Nat /\ tf[1] \in Nat
      BY ONLY <1>1, <1>2, <3>2
    <3>4. t[1] \in Values /\ t[2] \in Nat /\ t = <<t[1], t[2]>> /\ t[2] < tf[k]
      BY ONLY <1>3, <3>1
    <3>5. t[2] \in 0..tf[1]
      BY ONLY <3>3, <3>4
    <3> QED BY ONLY <3>4, <3>5
  <2> HIDE DEF B
  <2>3. TakenTokens(tf, tv, j) \in SUBSET B
    BY <2>2
  <2>4. IsFiniteSet(TakenTokens(tf, tv, j))
    BY ONLY <2>1, <2>3, FS_Subset
  <2> QED BY ONLY <2>4, FS_CardinalityType
<1>5. Cardinality(TakenTokens(tf, tv, 0)) = 0
  <2>1. TakenTokens(tf, tv, 0) = {}
    BY DEF TakenTokens
  <2> QED BY ONLY <2>1, FS_EmptySet
<1>6. ASSUME NEW k \in Ranks
      PROVE  Cardinality(TakenTokens(tf, tv, k)) = Cardinality(TakenTokens(tf, tv, k - 1)) + tf[k]
  <2> DEFINE N == {tv[k]} \X (0..tf[k]-1)
             S == TakenTokens(tf, tv, k - 1)
  <2>0. k \in Nat /\ k >= 1 /\ k <= NumLeaves /\ tf[k] \in Nat /\ tv[k] \in Values
    BY ONLY k \in Ranks, <1>1, <1>2
  <2>1. IsFiniteSet(N) /\ Cardinality(N) = tf[k]
    <3>1. IsFiniteSet(0..tf[k]-1) /\ Cardinality(0..tf[k]-1) = tf[k]
      <4>1. PICK b \in Int : b = tf[k] - 1
        BY ONLY <2>0
      <4>2. 0 \in Int /\ b \in Int
        OBVIOUS
      <4>3. IsFiniteSet(0..b) /\ Cardinality(0..b) = IF 0 > b THEN 0 ELSE b-0+1
        BY ONLY <4>2, FS_Interval
      <4>4. (IF 0 > b THEN 0 ELSE b-0+1) = tf[k]
        BY ONLY <2>0, <4>1, <4>2
      <4> QED BY ONLY <4>1, <4>3, <4>4
    <3>2. IsFiniteSet({tv[k]}) /\ Cardinality({tv[k]}) = 1
      BY ONLY FS_Singleton
    <3>3. IsFiniteSet(N) /\ Cardinality(N) = Cardinality({tv[k]}) * Cardinality(0..tf[k]-1)
      BY ONLY <3>1, <3>2, FS_Product
    <3> HIDE DEF N
    <3>4. Cardinality(N) = 1 * tf[k]
      BY ONLY <3>1, <3>2, <3>3
    <3> QED BY ONLY <2>0, <3>3, <3>4
  <2>2. IsFiniteSet(S) /\ Cardinality(S) \in Nat
    BY ONLY <1>2, <1>4, <2>0
  <2>3. \A i \in 1..k : i \in 1..k-1 \/ i = k
    BY ONLY <2>0
  <2>4. TakenTokens(tf, tv, k) = S \cup N
    <3>1. ASSUME NEW t \in Values \X Nat, NEW i \in 1..k, tv[i] = t[1], t[2] < tf[i]
          PROVE  t \in S \cup N
      <4>1. t[1] \in Values /\ t[2] \in Nat /\ t = <<t[1], t[2]>>
        BY ONLY t \in Values \X Nat, <1>3
      <4>2. CASE i \in 1..k-1
        BY <3>1, <4>2 DEF TakenTokens
      <4>3. CASE i = k
        <5>1. t[2] \in 0..tf[k]-1 /\ t[1] = tv[k]
          BY ONLY <2>0, <3>1, <4>1, <4>3
        <5> QED BY ONLY <4>1, <5>1
      <4> QED BY ONLY i \in 1..k, <2>3, <4>2, <4>3
    <3>2. ASSUME NEW t \in N PROVE t \in TakenTokens(tf, tv, k)
      <4>1. t[1] = tv[k] /\ t[2] \in 0..tf[k]-1 /\ t = <<t[1], t[2]>>
        BY ONLY t \in N
      <4>2. t \in Values \X Nat /\ t[2] < tf[k] /\ k \in 1..k
        BY ONLY <2>0, <4>1
      <4> QED BY ONLY <4>1, <4>2 DEF TakenTokens
    <3>3. S \subseteq TakenTokens(tf, tv, k)
      <4>1. \A i \in 1..k-1 : i \in 1..k
        BY ONLY <2>0
      <4> QED BY ONLY <4>1 DEF TakenTokens
    <3>4. TakenTokens(tf, tv, k) \subseteq S \cup N
      <4> HIDE DEF S, N
      <4> QED BY <3>1 DEF TakenTokens
    <3> HIDE DEF S, N
    <3> QED BY ONLY <3>2, <3>3, <3>4
  <2>5. S \cap N = {}
    <3>1. ASSUME NEW t \in S, t \in N PROVE FALSE
      <4>1. PICK i \in 1..k-1 : tv[i] = t[1]
        BY ONLY t \in S DEF TakenTokens
      <4>2. t[1] = tv[k]
        BY ONLY <3>1
      <4>3. i \in Ranks /\ i # k
        BY ONLY i \in 1..k-1, <1>2, <2>0 DEF Ranks
      <4> QED BY ONLY k \in Ranks, <1>1, <4>1, <4>2, <4>3
    <3> QED BY <3>1
  <2> HIDE DEF S, N
  <2>6. Cardinality(S \cup N) = Cardinality(S) + Cardinality(N) - Cardinality(S \cap N)
    BY ONLY <2>1, <2>2, FS_Union
  <2>7. Cardinality(S \cap N) = 0
    BY ONLY <2>5, FS_EmptySet
  <2>8. Cardinality(S \cup N) = Cardinality(S) + tf[k]
    BY ONLY <2>0, <2>1, <2>2, <2>6, <2>7
  <2> QED BY ONLY <2>4, <2>8 DEF S
<1> QED BY ONLY <1>4, <1>5, <1>6

(* Halving leaves room: twice the halves are no more than the whole, but   *)
(* for one for each leaf.                                                  *)
LEMMA HalvesFit ==
  ASSUME NEW f, NEW lv \in [Values -> Nodes], \A x \in Nodes : f[x] \in Nat /\ f[x] >= 1,
         IsFiniteSet(Tokens(f, lv)), NEW A,
         A = {t \in Values \X Nat : t[2] < Half(f[lv[t[1]]])}
  PROVE  /\ IsFiniteSet(A) /\ Cardinality(A) \in Nat
         /\ 2 * Cardinality(A) <= Cardinality(Tokens(f, lv)) + NumLeaves
<1> DEFINE K == Tokens(f, lv)
           Ev == {t \in K : t[2] % 2 = 0}
           Od == K \ Ev
           Z == Values \X {0}
           B == A \ Z
           ea == [t \in A |-> <<t[1], 2 * t[2]>>]
           eb == [t \in B |-> <<t[1], 2 * t[2] - 1>>]
<1>1. \A v \in Values : f[lv[v]] \in Nat /\ f[lv[v]] >= 1
  OBVIOUS
<1>2. \A t \in Values \X Nat : t[1] \in Values /\ t[2] \in Nat /\ t = <<t[1], t[2]>>
  OBVIOUS
<1>3. \A a \in Nat : \A h \in Nat : h < Half(a) => 2 * h < a /\ 2 * h \in Nat /\ (2 * h) % 2 = 0
  BY ONLY DEF Half
<1>4. \A a \in Nat : \A h \in Nat : h < Half(a) /\ h # 0 => 2 * h - 1 < a /\ 2 * h - 1 \in Nat /\ (2 * h - 1) % 2 # 0
  BY ONLY DEF Half
<1>5. \A t \in A : t \in Values \X Nat /\ t[2] < Half(f[lv[t[1]]])
  OBVIOUS
<1>6. \A v \in Values : \A h \in Nat : h < f[lv[v]] => <<v, h>> \in K
  BY DEF Tokens
<1>7. Z \subseteq A
  <2>1. ASSUME NEW v \in Values PROVE 0 < Half(f[lv[v]])
    <3>1. \A a \in Nat : a >= 1 => 0 < Half(a)
      BY ONLY DEF Half
    <3> QED BY ONLY v \in Values, <1>1, <3>1
  <2> QED BY <2>1
<1>8. IsFiniteSet(K) /\ Cardinality(K) \in Nat
  BY FS_CardinalityType
<1> HIDE DEF K
<1>9. ASSUME NEW t \in A PROVE ea[t] \in Ev
  <2>1. t[1] \in Values /\ t[2] \in Nat /\ t[2] < Half(f[lv[t[1]]]) /\ f[lv[t[1]]] \in Nat
    BY ONLY t \in A, <1>1, <1>2, <1>5
  <2>2. 2 * t[2] < f[lv[t[1]]] /\ 2 * t[2] \in Nat /\ (2 * t[2]) % 2 = 0
    BY ONLY <1>3, <2>1
  <2>3. <<t[1], 2 * t[2]>> \in K
    BY ONLY <1>6, <2>1, <2>2
  <2> QED BY ONLY t \in A, <2>2, <2>3
<1>10. ASSUME NEW t \in B PROVE eb[t] \in Od
  <2>0. t \in A /\ t \in Values \X Nat /\ t[2] # 0
    <3>1. t \in A /\ t \notin Z /\ t \in Values \X Nat
      BY ONLY t \in B, <1>5
    <3> QED BY ONLY <1>2, <3>1
  <2>1. t[1] \in Values /\ t[2] \in Nat /\ t[2] < Half(f[lv[t[1]]]) /\ f[lv[t[1]]] \in Nat
    BY ONLY <1>1, <1>2, <1>5, <2>0
  <2>2. 2 * t[2] - 1 < f[lv[t[1]]] /\ 2 * t[2] - 1 \in Nat /\ (2 * t[2] - 1) % 2 # 0
    BY ONLY <1>4, <2>0, <2>1
  <2>3. <<t[1], 2 * t[2] - 1>> \in K
    BY ONLY <1>6, <2>1, <2>2
  <2>4. <<t[1], 2 * t[2] - 1>> \notin Ev
    BY ONLY <2>2
  <2> QED BY ONLY t \in B, <2>3, <2>4
<1>11. ea \in Injection(A, Ev)
  <2>1. ea \in [A -> Ev]
    <3> HIDE DEF Ev, B
    <3> QED BY ONLY <1>9
  <2>2. ASSUME NEW s \in A, NEW t \in A, ea[s] = ea[t] PROVE s = t
    <3>1. s[1] = t[1] /\ 2 * s[2] = 2 * t[2]
      BY ONLY s \in A, t \in A, <2>2
    <3>2. s[2] \in Nat /\ t[2] \in Nat /\ s = <<s[1], s[2]>> /\ t = <<t[1], t[2]>>
      BY ONLY s \in A, t \in A, <1>2, <1>5
    <3>3. s[2] = t[2]
      BY ONLY <3>1, <3>2
    <3> QED BY ONLY <3>1, <3>2, <3>3
  <2>3. DOMAIN ea = A
    OBVIOUS
  <2> HIDE DEF ea, Ev
  <2> QED BY ONLY <2>1, <2>2, <2>3 DEF Injection, IsInjective
<1>12. eb \in Injection(B, Od)
  <2>1. eb \in [B -> Od]
    <3> HIDE DEF Od, Ev, B
    <3> QED BY ONLY <1>10
  <2>2. ASSUME NEW s \in B, NEW t \in B, eb[s] = eb[t] PROVE s = t
    <3>1. s[1] = t[1] /\ 2 * s[2] - 1 = 2 * t[2] - 1
      BY ONLY s \in B, t \in B, <2>2
    <3>2. s[2] \in Nat /\ t[2] \in Nat /\ s = <<s[1], s[2]>> /\ t = <<t[1], t[2]>>
      BY ONLY s \in B, t \in B, <1>2, <1>5
    <3>3. s[2] = t[2]
      BY ONLY <3>1, <3>2
    <3> QED BY ONLY <3>1, <3>2, <3>3
  <2>3. DOMAIN eb = B
    OBVIOUS
  <2> HIDE DEF eb, Od, B
  <2> QED BY ONLY <2>1, <2>2, <2>3 DEF Injection, IsInjective
<1>13. Ev \subseteq K /\ Ev \cap K = Ev /\ K \cap Ev = Ev /\ Z \cap A = Z /\ A \cap Z = Z
  BY ONLY <1>7
<1> HIDE DEF Ev, Od, Z, B, ea, eb
<1>14. IsFiniteSet(Ev) /\ Cardinality(Ev) \in Nat
  <2>1. IsFiniteSet(Ev)
    BY ONLY <1>8, <1>13, FS_Subset
  <2> QED BY ONLY <2>1, FS_CardinalityType
<1>15. IsFiniteSet(Od) /\ Cardinality(Od) = Cardinality(K) - Cardinality(Ev)
  <2>1. IsFiniteSet(K \ Ev) /\ Cardinality(K \ Ev) = Cardinality(K) - Cardinality(K \cap Ev)
    <3>1. IsFiniteSet(K)
      BY ONLY <1>8
    <3>2. /\ IsFiniteSet(K \ Ev)
          /\ Cardinality(K \ Ev) = Cardinality(K) - Cardinality(K \cap Ev)
      BY ONLY <3>1, FS_Difference, Zenon
    <3> QED BY ONLY <3>2
  <2>2. K \cap Ev = Ev
    BY ONLY <1>13
  <2>3. Od = K \ Ev
    BY DEF Od
  <2> QED BY ONLY <2>1, <2>2, <2>3, Zenon
<1>16. IsFiniteSet(A) /\ Cardinality(A) <= Cardinality(Ev)
  BY ONLY <1>11, <1>14, FS_Injection
<1>17. IsFiniteSet(B) /\ Cardinality(B) <= Cardinality(Od)
  BY ONLY <1>12, <1>15, FS_Injection
<1>18. Cardinality(A) \in Nat /\ Cardinality(B) \in Nat
  BY ONLY <1>16, <1>17, FS_CardinalityType
<1>19. Cardinality(Z) = NumLeaves
  <2>1. IsFiniteSet(Values) /\ Cardinality(Values) = NumLeaves
    BY Sizes, FS_Interval
  <2>2. IsFiniteSet({0}) /\ Cardinality({0}) = 1
    BY ONLY FS_Singleton
  <2>3. Cardinality(Z) = Cardinality(Values) * Cardinality({0})
    BY ONLY <2>1, <2>2, FS_Product DEF Z
  <2>4. Cardinality(Z) = NumLeaves * 1
    BY ONLY <2>1, <2>2, <2>3
  <2> QED BY ONLY <2>4, Sizes
<1>20. Cardinality(B) = Cardinality(A) - Cardinality(Z)
  <2>1. IsFiniteSet(A)
    BY ONLY <1>16
  <2>2. Cardinality(A \ Z) = Cardinality(A) - Cardinality(A \cap Z)
    BY ONLY <2>1, FS_Difference, Zenon
  <2>3. A \cap Z = Z
    BY ONLY <1>13
  <2>4. B = A \ Z
    BY DEF B
  <2> QED BY ONLY <2>2, <2>3, <2>4, Zenon
<1>21. 2 * Cardinality(A) <= Cardinality(K) + NumLeaves
  BY ONLY <1>8, <1>14, <1>15, <1>16, <1>17, <1>18, <1>19, <1>20, Sizes
<1> QED BY ONLY <1>16, <1>18, <1>21 DEF K

(* How much the first j of the taken leaves count. *)
Counts(tf, tv) == [j \in 0..NumLeaves |-> Cardinality(TakenTokens(tf, tv, j))]

(* What is known of the array in the middle of rebuild_tree. *)
BuiltSizes(m, w) ==
  /\ m \in Nat /\ w \in Nat /\ m <= NumLeaves - 1
  /\ w <= m \/ (m = NumLeaves - 1 /\ w = NumLeaves)

BuiltOrder(m, w, tf, f) ==
  /\ f \in [Nodes -> Nat]
  /\ \A x \in Nodes : x >= w + m => f[x] >= 1
  /\ \A x, y \in Nodes : x >= w + m /\ x < y => f[y] <= f[x]
  /\ \A x \in Nodes : x >= w + m => \A k \in Ranks : k <= w => f[x] <= tf[k]

BuiltTop(m, w, f, L) ==
  w + m \in Nodes =>
    w + m \notin L /\ 2*m + 2 \in Nodes /\ 2*m + 1 \in Nodes /\ f[w + m] = f[2*m + 1] + f[2*m + 2]

BuiltLinks(m, w, L, ar, pa) ==
  /\ \A x \in Nodes : x >= w + m /\ x \notin L =>
       /\ ar[x] \in EvenNodes /\ ar[x] - 1 \in Nodes /\ ar[x] - 1 >= 2*m + 1 /\ x < ar[x] - 1
       /\ pa[ar[x]] = x /\ pa[ar[x] - 1] = x
  /\ \A y \in Nodes : y >= 2*m + 1 =>
       /\ pa[y] \in Nodes /\ pa[y] >= w + m /\ pa[y] \notin L /\ pa[y] < y
       /\ y = ar[pa[y]] \/ y = ar[pa[y]] - 1

BuiltLeaves(m, w, tf, tv, f, L, ar, lv) ==
  /\ \A k \in Ranks : k > w =>
       lv[tv[k]] \in L /\ lv[tv[k]] >= w + m /\ ar[lv[tv[k]]] = tv[k] /\ f[lv[tv[k]]] = tf[k]
  /\ \A x \in L : x >= w + m => \E k \in Ranks : k > w /\ ar[x] = tv[k] /\ lv[tv[k]] = x

BuiltSums(m, w, f, L, ar) ==
  \A x \in Nodes : x >= w + m /\ x \notin L => f[x] = f[ar[x] - 1] + f[ar[x]]

(* G sums the frequencies up to each node: the nodes without parents and   *)
(* the leaves that are not placed make up the whole.                       *)
BuiltWeight(m, w, tf, tv, f, G) ==
  /\ G \in [0..NumNodes -> Int]
  /\ \A x \in Nodes : x >= w + m => G[x + 1] = G[x] + f[x]
  /\ \A x \in 0..NumNodes : x >= w + m => G[x] >= G[w + m]
  /\ G[2*m + 1] - G[w + m] + Counts(tf, tv)[w] = Counts(tf, tv)[NumLeaves]
  /\ Counts(tf, tv)[NumLeaves] < ReorderLimit

Built(m, w, tf, tv, f, L, ar, pa, lv) ==
  /\ BuiltSizes(m, w) /\ TakenInOrder(tf, tv) /\ LinkTypes(L, ar, pa, lv)
  /\ BuiltOrder(m, w, tf, f) /\ BuiltTop(m, w, f, L) /\ BuiltLinks(m, w, L, ar, pa)
  /\ BuiltLeaves(m, w, tf, tv, f, L, ar, lv) /\ BuiltSums(m, w, f, L, ar)
  /\ \E G : BuiltWeight(m, w, tf, tv, f, G)
  /\ \A x \in Nodes : f[x] <= ReorderLimit

(* One turn of the loop places the leaves from w1 + 1 to w, and a branch   *)
(* for the last two nodes without parents at w1 + m - 1.                   *)
PlacedEntries(m, w, w1, tf, tv, f, L, ar, f1, L1, ar1) ==
  \A x \in Nodes :
    /\ x < w1 + m - 1 \/ x >= w + m => f1[x] = f[x] /\ (x \in L1 <=> x \in L) /\ ar1[x] = ar[x]
    /\ x > w1 + m - 1 /\ x < w + m => f1[x] = tf[x - m + 1] /\ x \in L1 /\ ar1[x] = tv[x - m + 1]
    /\ x = w1 + m - 1 => f1[x] = f1[2*m - 1] + f1[2*m] /\ x \notin L1 /\ ar1[x] = 2*m

PlacedParents(m, w1, pa, pa1) ==
  \A x \in Nodes : pa1[x] = IF x = 2*m \/ x = 2*m - 1 THEN w1 + m - 1 ELSE pa[x]

PlacedLeaves(m, w, w1, tv, lv, lv1) ==
  \A k \in Ranks : lv1[tv[k]] = IF w1 < k /\ k <= w THEN k + m - 1 ELSE lv[tv[k]]

(* The leaves that are placed are no more frequent than the branch, and    *)
(* the next one is.                                                        *)
StepSizes(m, w, w1, tf, f1) ==
  /\ m >= 1 /\ w1 \in Nat /\ w1 <= w /\ w1 <= m - 1
  /\ \A k \in Ranks : w1 < k /\ k <= w => tf[k] <= f1[2*m - 1] + f1[2*m]
  /\ w1 >= 1 => f1[2*m - 1] + f1[2*m] < tf[w1]

(* Where things are. *)
LEMMA StepNumbers ==
  ASSUME NEW m, NEW w, BuiltSizes(m, w), NEW w1, m >= 1, w1 \in Nat, w1 <= w, w1 <= m - 1
  PROVE  /\ m \in Nat /\ w \in Nat /\ w1 \in Nat /\ m - 1 \in Nat /\ m >= 1 /\ w1 <= w
         /\ w1 + m - 1 \in Nodes /\ w1 + m - 1 \in Nat /\ w1 + (m - 1) = w1 + m - 1
         /\ 2*m \in Nodes /\ 2*m - 1 \in Nodes /\ 2*m \in EvenNodes
         /\ 2*(m-1) + 1 = 2*m - 1 /\ 2*(m-1) + 2 = 2*m
         /\ w1 + m - 1 < 2*m - 1 /\ w + m <= 2*m + 1 /\ w1 + m - 1 < w + m
         /\ w + m \in Nat /\ w <= NumLeaves /\ w1 \in 0..NumLeaves /\ w \in 0..NumLeaves
         /\ BuiltSizes(m - 1, w1)
<1>1. m \in Nat /\ w \in Nat /\ m <= NumLeaves - 1 /\ (w <= m \/ (m = NumLeaves - 1 /\ w = NumLeaves))
  BY DEF BuiltSizes
<1>2. NumNodes = 2 * NumLeaves - 1 /\ NumLeaves \in Nat
  BY Sizes
<1>3. \A x \in Nat : x < NumNodes => x \in Nodes
  BY NodeNumbers
<1>4. 2*m \in Nat /\ 2*m < NumNodes /\ 2*m - 1 \in Nat /\ w1 + m - 1 \in Nat /\ w1 + m - 1 < NumNodes
  BY ONLY <1>1, <1>2, m >= 1, w1 \in Nat, w1 <= w, w1 <= m - 1
<1>5. 2*m \in Nodes /\ 2*m - 1 \in Nodes /\ w1 + m - 1 \in Nodes
  <2>1. 2*m - 1 < NumNodes
    BY ONLY <1>1, <1>2, <1>4
  <2> QED BY ONLY <1>3, <1>4, <2>1
<1>6. (2*m) % 2 = 0
  BY ONLY <1>1
<1>7. /\ m - 1 \in Nat /\ w1 + (m - 1) = w1 + m - 1
      /\ 2*(m-1) + 1 = 2*m - 1 /\ 2*(m-1) + 2 = 2*m
      /\ w1 + m - 1 < 2*m - 1 /\ w + m <= 2*m + 1 /\ w1 + m - 1 < w + m
      /\ w + m \in Nat /\ w <= NumLeaves /\ w1 \in 0..NumLeaves /\ w \in 0..NumLeaves
  BY ONLY <1>1, <1>2, m >= 1, w1 \in Nat, w1 <= w, w1 <= m - 1
<1>8. BuiltSizes(m - 1, w1)
  BY ONLY <1>1, <1>2, <1>7, w1 \in Nat, w1 <= m - 1 DEF BuiltSizes
<1> QED BY ONLY <1>1, <1>4, <1>5, <1>6, <1>7, <1>8, m >= 1, w1 \in Nat, w1 <= w DEF EvenNodes

(* A node from the new branch on is the branch, a leaf placed now, or one  *)
(* placed before.                                                          *)
LEMMA Zones ==
  ASSUME NEW m, NEW w, BuiltSizes(m, w), NEW w1, m >= 1, w1 \in Nat, w1 <= w, w1 <= m - 1
  PROVE  /\ \A x \in Nodes : x > w1 + m - 1 /\ x < w + m =>
              /\ x - m + 1 \in Ranks /\ w1 < x - m + 1 /\ x - m + 1 <= w /\ x - m + 1 \in Nat
              /\ (x - m + 1) + m - 1 = x
         /\ \A k \in Ranks : w1 < k /\ k <= w =>
              /\ k + m - 1 \in Nodes /\ k + m - 1 > w1 + m - 1 /\ k + m - 1 < w + m
              /\ (k + m - 1) - m + 1 = k
         /\ \A x \in Nodes : x >= w1 + m - 1 =>
              x = w1 + m - 1 \/ (x > w1 + m - 1 /\ x < w + m) \/ (x > w1 + m - 1 /\ x >= w + m)
<1>1. /\ m \in Nat /\ w \in Nat /\ w1 \in Nat /\ m >= 1 /\ w1 <= w /\ w + m <= 2*m + 1
      /\ w <= NumLeaves /\ 2*m \in Nodes
  BY ONLY BuiltSizes(m, w), m >= 1, w1 \in Nat, w1 <= w, w1 <= m - 1, StepNumbers
<1>2. /\ \A x \in Nodes : x \in Nat /\ x < NumNodes
      /\ \A x \in Nat : x < NumNodes => x \in Nodes
      /\ NumNodes \in Nat /\ NumLeaves \in Nat
  BY NodeNumbers, Sizes
<1>3. \A k \in Int : k \in Ranks <=> 1 <= k /\ k <= NumLeaves
  BY ONLY <1>2 DEF Ranks
<1>4. \A k \in Ranks : k \in Int
  BY DEF Ranks
<1>5. ASSUME NEW x \in Nodes, x > w1 + m - 1, x < w + m
      PROVE  /\ x - m + 1 \in Ranks /\ w1 < x - m + 1 /\ x - m + 1 <= w /\ x - m + 1 \in Nat
             /\ (x - m + 1) + m - 1 = x
  <2>1. x \in Nat /\ x > w1 + m - 1 /\ x < w + m
    BY ONLY x \in Nodes, <1>2, <1>5
  <2>2. PICK k \in Int : k = x - m + 1
    BY ONLY <1>1, <2>1
  <2>3. w1 < k /\ k <= w /\ k \in Nat /\ 1 <= k /\ k <= NumLeaves /\ k + m - 1 = x
    BY ONLY <1>1, <1>2, <2>1, <2>2, k \in Int
  <2>4. k \in Ranks
    BY ONLY <1>3, <2>3
  <2> QED BY ONLY <2>2, <2>3, <2>4
<1>6. ASSUME NEW k \in Ranks, w1 < k, k <= w
      PROVE  /\ k + m - 1 \in Nodes /\ k + m - 1 > w1 + m - 1 /\ k + m - 1 < w + m
             /\ (k + m - 1) - m + 1 = k
  <2>1. k \in Int /\ w1 < k /\ k <= w
    BY ONLY k \in Ranks, <1>4, <1>6
  <2>2. 2*m \in Nat /\ 2*m < NumNodes
    BY ONLY <1>1, <1>2
  <2>3. PICK x \in Int : x = k + m - 1
    BY ONLY <1>1, <2>1
  <2>4. x \in Nat /\ x < NumNodes /\ x > w1 + m - 1 /\ x < w + m /\ x - m + 1 = k
    BY ONLY <1>1, <1>2, <2>1, <2>2, <2>3, x \in Int
  <2>5. x \in Nodes
    BY ONLY <1>2, <2>4
  <2> QED BY ONLY <2>3, <2>4, <2>5
<1>7. \A x \in Nodes : x >= w1 + m - 1 =>
        x = w1 + m - 1 \/ (x > w1 + m - 1 /\ x < w + m) \/ (x > w1 + m - 1 /\ x >= w + m)
  BY ONLY <1>1, <1>2
<1> QED BY ONLY <1>5, <1>6, <1>7

(* The frequencies fall from the new branch on, and are no larger than     *)
(* those of the leaves that are left.                                      *)
LEMMA RebuildOrders ==
  ASSUME NEW m, NEW w, NEW tf, NEW tv, NEW f, NEW L, NEW ar, BuiltSizes(m, w), TakenInOrder(tf, tv),
         BuiltOrder(m, w, tf, f), BuiltTop(m, w, f, L),
         NEW w1, NEW f1 \in [Nodes -> Nat], NEW L1, NEW ar1, StepSizes(m, w, w1, tf, f1),
         PlacedEntries(m, w, w1, tf, tv, f, L, ar, f1, L1, ar1)
  PROVE  BuiltOrder(m - 1, w1, tf, f1) /\ BuiltTop(m - 1, w1, f1, L1)
<1> DEFINE p == w1 + m - 1
           t == w + m
           b == f1[2*m - 1] + f1[2*m]
<1>1. /\ m >= 1 /\ w1 \in Nat /\ w1 <= w /\ w1 <= m - 1
      /\ \A k \in Ranks : w1 < k /\ k <= w => tf[k] <= b
      /\ w1 >= 1 => b < tf[w1]
  BY DEF StepSizes
<1>2. /\ m \in Nat /\ w \in Nat /\ w1 \in Nat /\ m - 1 \in Nat /\ p \in Nodes /\ p \in Nat
      /\ w1 + (m - 1) = p /\ 2*m \in Nodes /\ 2*m - 1 \in Nodes
      /\ 2*(m-1) + 1 = 2*m - 1 /\ 2*(m-1) + 2 = 2*m
      /\ p < 2*m - 1 /\ t <= 2*m + 1 /\ p < t /\ t \in Nat
  BY ONLY BuiltSizes(m, w), <1>1, StepNumbers
<1>3. /\ \A x \in Nodes : x > p /\ x < t =>
           x - m + 1 \in Ranks /\ w1 < x - m + 1 /\ x - m + 1 <= w /\ x - m + 1 \in Nat
      /\ \A x \in Nodes : x >= p => x = p \/ (x > p /\ x < t) \/ (x > p /\ x >= t)
  BY ONLY BuiltSizes(m, w), <1>1, Zones
<1>4. /\ \A k \in Ranks : tf[k] >= 1 /\ tf[k] \in Nat
      /\ \A j, k \in Ranks : j < k => tf[k] <= tf[j]
  BY DEF TakenInOrder
<1>5. /\ \A x \in Nodes : f[x] \in Nat
      /\ \A x \in Nodes : x >= t => f[x] >= 1
      /\ \A x, y \in Nodes : x >= t /\ x < y => f[y] <= f[x]
      /\ \A x \in Nodes : x >= t => \A k \in Ranks : k <= w => f[x] <= tf[k]
  BY DEF BuiltOrder
<1>6. t \in Nodes => 2*m + 2 \in Nodes /\ 2*m + 1 \in Nodes /\ f[t] = f[2*m + 1] + f[2*m + 2]
  BY DEF BuiltTop
<1>7. /\ \A x \in Nodes : x >= t => f1[x] = f[x]
      /\ \A x \in Nodes : x > p /\ x < t => f1[x] = tf[x - m + 1]
      /\ f1[p] = b /\ p \notin L1
  BY <1>2 DEF PlacedEntries
<1>8. \A x \in Nodes : x \in Nat
  BY NodeNumbers
<1>9. f1[2*m] \in Nat /\ f1[2*m - 1] \in Nat /\ b \in Nat
  BY ONLY <1>2, f1 \in [Nodes -> Nat]
<1>10. \A k \in Ranks : k \in Nat
  BY Sizes DEF Ranks
<1> HIDE DEF p, t, b
<1>11. ASSUME NEW x \in Nodes, NEW y \in Nodes, x > p, x < y PROVE f1[y] <= f1[x]
  <2>0. x \in Nodes /\ y \in Nodes /\ x > p /\ x < y /\ x \in Nat /\ y \in Nat /\ p \in Nat /\ t \in Nat /\ m \in Nat
    BY ONLY x \in Nodes, y \in Nodes, <1>2, <1>8, <1>11
  <2>1. CASE x >= t
    <3>1. y >= t
      BY ONLY <2>0, <2>1
    <3> QED BY ONLY <1>5, <1>7, <2>0, <2>1, <3>1
  <2>2. CASE x < t /\ y >= t
    <3>1. x - m + 1 \in Ranks /\ x - m + 1 <= w /\ f1[x] = tf[x - m + 1]
      BY ONLY <1>3, <1>7, <2>0, <2>2
    <3>2. f[y] <= tf[x - m + 1]
      BY ONLY <1>5, <2>0, <2>2, <3>1
    <3> QED BY ONLY <1>7, <2>0, <2>2, <3>1, <3>2
  <2>3. CASE x < t /\ y < t
    <3>0. y > p
      BY ONLY <2>0
    <3>1. x - m + 1 \in Ranks /\ f1[x] = tf[x - m + 1] /\ y - m + 1 \in Ranks /\ f1[y] = tf[y - m + 1]
      BY ONLY <1>3, <1>7, <2>0, <2>3, <3>0
    <3>2. x - m + 1 < y - m + 1
      BY ONLY <2>0
    <3> QED BY ONLY <1>4, <3>1, <3>2
  <2> QED BY ONLY <2>0, <2>1, <2>2, <2>3
<1>12. ASSUME NEW x \in Nodes, x > p PROVE f1[x] <= b /\ f1[x] >= 1 /\ f1[x] \in Nat
  <2>0. x \in Nodes /\ x > p /\ x \in Nat /\ f1[x] \in Nat
    BY ONLY x \in Nodes, <1>8, <1>12, f1 \in [Nodes -> Nat]
  <2>1. CASE x < t
    <3>1. x - m + 1 \in Ranks /\ x - m + 1 <= w /\ w1 < x - m + 1 /\ f1[x] = tf[x - m + 1]
      BY ONLY <1>3, <1>7, <2>0, <2>1
    <3> QED BY ONLY <1>1, <1>4, <2>0, <3>1 DEF b
  <2>2. CASE x >= t
    <3>1. t \in Nodes
      <4>1. t < NumNodes
        BY ONLY <1>2, <2>0, <2>2, NodeNumbers
      <4> QED BY ONLY <1>2, <4>1, NodeNumbers
    <3>2. f[x] <= f[t] /\ f[t] \in Nat /\ f[x] \in Nat
      <4>1. x = t \/ t < x
        BY ONLY <1>2, <2>0, <2>2
      <4>2. t >= t
        BY ONLY <1>2
      <4> QED BY ONLY <1>5, <2>0, <3>1, <4>1, <4>2
    <3>3. 2*m + 2 \in Nodes /\ 2*m + 1 \in Nodes /\ f[t] = f[2*m + 1] + f[2*m + 2]
      BY ONLY <1>6, <3>1
    <3>4. f1[2*m + 1] = f[2*m + 1] /\ f1[2*m + 2] = f[2*m + 2]
      <4>1. 2*m + 1 >= t /\ 2*m + 2 >= t
        BY ONLY <1>2
      <4> QED BY ONLY <1>7, <3>3, <4>1
    <3>5. f1[2*m + 1] <= f1[2*m - 1] /\ f1[2*m + 2] <= f1[2*m]
      <4>1. 2*m - 1 > p /\ 2*m > p /\ 2*m - 1 < 2*m + 1 /\ 2*m < 2*m + 2
        BY ONLY <1>2
      <4> QED BY ONLY <1>2, <1>11, <3>3, <4>1
    <3>6. f1[x] = f[x] /\ f[x] >= 1
      BY ONLY <1>5, <1>7, <2>0, <2>2
    <3>7. f[2*m + 1] \in Nat /\ f[2*m + 2] \in Nat
      BY ONLY <1>5, <3>3
    <3> QED BY ONLY <1>9, <3>2, <3>3, <3>4, <3>5, <3>6, <3>7 DEF b
  <2> QED BY ONLY <1>2, <2>0, <2>1, <2>2
<1>13. b >= 1
  <2>1. 2*m > p
    BY ONLY <1>2
  <2>2. f1[2*m] >= 1
    BY ONLY <1>2, <1>12, <2>1
  <2> QED BY ONLY <1>9, <2>2 DEF b
<1>14. \A x \in Nodes : x >= p => x = p \/ x > p
  BY ONLY <1>2, <1>8
<1>15. \A x \in Nodes : x >= p => f1[x] <= b /\ f1[x] >= 1
  <2>1. b <= b
    BY ONLY <1>9 DEF b
  <2> QED BY ONLY <1>7, <1>12, <1>13, <1>14, <2>1
<1>16. \A x, y \in Nodes : x >= p /\ x < y => f1[y] <= f1[x]
  <2>1. ASSUME NEW x \in Nodes, NEW y \in Nodes, x >= p, x < y PROVE f1[y] <= f1[x]
    <3>1. CASE x > p
      BY ONLY x \in Nodes, y \in Nodes, <1>11, <2>1, <3>1
    <3>2. CASE x = p
      <4>1. y > p
        BY ONLY <2>1, <3>2
      <4> QED BY ONLY y \in Nodes, <1>7, <1>12, <3>2, <4>1
    <3> QED BY ONLY x \in Nodes, <1>14, <2>1, <3>1, <3>2
  <2> QED BY <2>1
<1>17. \A x \in Nodes : x >= p => \A k \in Ranks : k <= w1 => f1[x] <= tf[k]
  <2>1. ASSUME NEW x \in Nodes, x >= p, NEW k \in Ranks, k <= w1 PROVE f1[x] <= tf[k]
    <3>1. k \in Nat /\ k >= 1 /\ k <= NumLeaves /\ w1 >= 1 /\ w1 \in Ranks
      <4>1. k \in Nat /\ k >= 1 /\ w \in Nat /\ w1 \in Nat /\ w1 <= w /\ w <= NumLeaves /\ NumLeaves \in Nat
        <5>1. w <= NumLeaves
          BY ONLY BuiltSizes(m, w), <1>1, StepNumbers
        <5>2. NumLeaves \in Nat
          BY ONLY Sizes
        <5>3. k \in Nat /\ k >= 1
          BY ONLY k \in Ranks, <5>2 DEF Ranks
        <5> QED BY ONLY <1>1, <1>2, <5>1, <5>2, <5>3
      <4> QED BY ONLY k \in Ranks, <2>1, <4>1 DEF Ranks
    <3>2. tf[w1] <= tf[k] /\ tf[k] \in Nat /\ tf[w1] \in Nat
      <4>1. k = w1 \/ k < w1
        BY ONLY <1>2, <2>1, <3>1
      <4> QED BY ONLY k \in Ranks, <1>4, <3>1, <4>1
    <3>3. f1[x] <= b /\ f1[x] \in Nat /\ b \in Nat /\ b < tf[w1]
      BY ONLY x \in Nodes, <1>1, <1>9, <1>15, <2>1, <3>1, f1 \in [Nodes -> Nat] DEF b
    <3> QED BY ONLY <3>2, <3>3
  <2> QED BY <2>1
<1>18. BuiltOrder(m - 1, w1, tf, f1)
  BY ONLY <1>2, <1>15, <1>16, <1>17, f1 \in [Nodes -> Nat] DEF BuiltOrder
<1>19. BuiltTop(m - 1, w1, f1, L1)
  BY ONLY <1>2, <1>7 DEF BuiltTop, b
<1> QED BY ONLY <1>18, <1>19

(* The links of the new branch, and the old ones. *)
LEMMA RebuildLinks ==
  ASSUME NEW m, NEW w, NEW tf, NEW tv, NEW f, NEW L, NEW ar, NEW pa, BuiltSizes(m, w),
         L \subseteq Nodes, BuiltLinks(m, w, L, ar, pa),
         NEW w1, NEW f1, NEW L1, NEW ar1, NEW pa1, StepSizes(m, w, w1, tf, f1),
         PlacedEntries(m, w, w1, tf, tv, f, L, ar, f1, L1, ar1), PlacedParents(m, w1, pa, pa1)
  PROVE  BuiltLinks(m - 1, w1, L1, ar1, pa1)
<1> DEFINE p == w1 + m - 1
           t == w + m
<1>1. m >= 1 /\ w1 \in Nat /\ w1 <= w /\ w1 <= m - 1
  BY DEF StepSizes
<1>2. /\ m \in Nat /\ w \in Nat /\ w1 \in Nat /\ m - 1 \in Nat /\ p \in Nodes /\ p \in Nat
      /\ w1 + (m - 1) = p /\ 2*m \in Nodes /\ 2*m - 1 \in Nodes /\ 2*m \in EvenNodes
      /\ 2*(m-1) + 1 = 2*m - 1 /\ 2*(m-1) + 2 = 2*m
      /\ p < 2*m - 1 /\ t <= 2*m + 1 /\ p < t /\ t \in Nat
  BY ONLY BuiltSizes(m, w), <1>1, StepNumbers
<1>3. \A x \in Nodes : x >= p => x = p \/ (x > p /\ x < t) \/ (x > p /\ x >= t)
  BY ONLY BuiltSizes(m, w), <1>1, Zones
<1>4. /\ \A x \in Nodes : x >= t => (x \in L1 <=> x \in L) /\ ar1[x] = ar[x]
      /\ \A x \in Nodes : x > p /\ x < t => x \in L1
      /\ p \notin L1 /\ ar1[p] = 2*m
  BY <1>2 DEF PlacedEntries
<1>5. \A x \in Nodes : pa1[x] = IF x = 2*m \/ x = 2*m - 1 THEN p ELSE pa[x]
  BY DEF PlacedParents
<1>6. /\ \A x \in Nodes : x >= t /\ x \notin L =>
           /\ ar[x] \in EvenNodes /\ ar[x] - 1 \in Nodes /\ ar[x] - 1 >= 2*m + 1 /\ x < ar[x] - 1
           /\ pa[ar[x]] = x /\ pa[ar[x] - 1] = x
      /\ \A y \in Nodes : y >= 2*m + 1 =>
           /\ pa[y] \in Nodes /\ pa[y] >= t /\ pa[y] \notin L /\ pa[y] < y
           /\ y = ar[pa[y]] \/ y = ar[pa[y]] - 1
  BY DEF BuiltLinks
<1>7. \A x \in Nodes : x \in Nat
  BY NodeNumbers
<1>8. EvenNodes \subseteq Nodes
  BY DEF EvenNodes
<1> HIDE DEF p, t
<1>9. ASSUME NEW x \in Nodes, x >= p, x \notin L1
      PROVE  /\ ar1[x] \in EvenNodes /\ ar1[x] - 1 \in Nodes /\ ar1[x] - 1 >= 2*m - 1 /\ x < ar1[x] - 1
             /\ pa1[ar1[x]] = x /\ pa1[ar1[x] - 1] = x
  <2>1. CASE x = p
    <3>1. pa1[2*m] = p /\ pa1[2*m - 1] = p
      BY ONLY <1>2, <1>5
    <3>2. 2*m - 1 >= 2*m - 1
      BY ONLY <1>2
    <3> QED BY ONLY <1>2, <1>4, <2>1, <3>1, <3>2
  <2>2. CASE x > p /\ x >= t
    <3>1. x \notin L /\ ar1[x] = ar[x]
      BY ONLY x \in Nodes, <1>4, <1>9, <2>2
    <3>2. /\ ar[x] \in EvenNodes /\ ar[x] - 1 \in Nodes /\ ar[x] - 1 >= 2*m + 1 /\ x < ar[x] - 1
          /\ pa[ar[x]] = x /\ pa[ar[x] - 1] = x /\ ar[x] \in Nodes /\ ar[x] \in Nat
      BY ONLY x \in Nodes, <1>6, <1>7, <1>8, <2>2, <3>1
    <3>3. ar[x] # 2*m /\ ar[x] # 2*m - 1 /\ ar[x] - 1 # 2*m /\ ar[x] - 1 # 2*m - 1 /\ ar[x] - 1 >= 2*m - 1
      BY ONLY <1>2, <3>2
    <3>4. pa1[ar[x]] = x /\ pa1[ar[x] - 1] = x
      BY ONLY <1>5, <3>2, <3>3
    <3> QED BY ONLY <3>1, <3>2, <3>3, <3>4
  <2>3. CASE x > p /\ x < t
    BY ONLY x \in Nodes, <1>4, <1>9, <2>3
  <2> QED BY ONLY x \in Nodes, <1>3, <1>9, <2>1, <2>2, <2>3
<1>10. ASSUME NEW y \in Nodes, y >= 2*m - 1
       PROVE  /\ pa1[y] \in Nodes /\ pa1[y] >= p /\ pa1[y] \notin L1 /\ pa1[y] < y
              /\ y = ar1[pa1[y]] \/ y = ar1[pa1[y]] - 1
  <2>0. y \in Nat
    BY ONLY y \in Nodes, <1>7
  <2>1. CASE y = 2*m \/ y = 2*m - 1
    <3>1. pa1[y] = p
      BY ONLY y \in Nodes, <1>5, <2>1
    <3>2. p < y /\ p >= p
      BY ONLY <1>2, <2>1
    <3> QED BY ONLY <1>2, <1>4, <2>1, <3>1, <3>2
  <2>2. CASE y # 2*m /\ y # 2*m - 1
    <3>1. y >= 2*m + 1
      BY ONLY <1>2, <1>10, <2>0, <2>2
    <3>2. /\ pa[y] \in Nodes /\ pa[y] >= t /\ pa[y] \notin L /\ pa[y] < y
          /\ y = ar[pa[y]] \/ y = ar[pa[y]] - 1
      BY ONLY y \in Nodes, <1>6, <3>1
    <3>3. pa1[y] = pa[y]
      BY ONLY y \in Nodes, <1>5, <2>2
    <3>4. pa[y] \notin L1 /\ ar1[pa[y]] = ar[pa[y]]
      BY ONLY <1>4, <3>2
    <3>5. pa[y] >= p
      <4>1. \A z \in Nat : z >= t => z >= p
        BY ONLY <1>2
      <4>2. pa[y] \in Nat
        BY ONLY <1>7, <3>2
      <4> QED BY ONLY <3>2, <4>1, <4>2
    <3> QED BY ONLY <3>2, <3>3, <3>4, <3>5
  <2> QED BY ONLY <2>1, <2>2
<1> QED BY ONLY <1>2, <1>9, <1>10 DEF BuiltLinks

(* The leaves that are placed know their nodes. *)
LEMMA RebuildLeaves ==
  ASSUME NEW m, NEW w, NEW tf, NEW tv, NEW f, NEW L, NEW ar, NEW lv, BuiltSizes(m, w),
         L \subseteq Nodes, BuiltLeaves(m, w, tf, tv, f, L, ar, lv),
         NEW w1, NEW f1, NEW L1, NEW ar1, NEW lv1, L1 \subseteq Nodes, StepSizes(m, w, w1, tf, f1),
         PlacedEntries(m, w, w1, tf, tv, f, L, ar, f1, L1, ar1), PlacedLeaves(m, w, w1, tv, lv, lv1)
  PROVE  BuiltLeaves(m - 1, w1, tf, tv, f1, L1, ar1, lv1)
<1> DEFINE p == w1 + m - 1
           t == w + m
<1>1. m >= 1 /\ w1 \in Nat /\ w1 <= w /\ w1 <= m - 1
  BY DEF StepSizes
<1>2. /\ m \in Nat /\ w \in Nat /\ w1 \in Nat /\ m - 1 \in Nat /\ p \in Nodes /\ p \in Nat
      /\ w1 + (m - 1) = p /\ p < t /\ t \in Nat
  BY ONLY BuiltSizes(m, w), <1>1, StepNumbers
<1>3. /\ \A x \in Nodes : x > p /\ x < t =>
           /\ x - m + 1 \in Ranks /\ w1 < x - m + 1 /\ x - m + 1 <= w /\ x - m + 1 \in Nat
           /\ (x - m + 1) + m - 1 = x
      /\ \A k \in Ranks : w1 < k /\ k <= w =>
           /\ k + m - 1 \in Nodes /\ k + m - 1 > p /\ k + m - 1 < t
           /\ (k + m - 1) - m + 1 = k
      /\ \A x \in Nodes : x >= p => x = p \/ (x > p /\ x < t) \/ (x > p /\ x >= t)
  BY ONLY BuiltSizes(m, w), <1>1, Zones
<1>4. /\ \A x \in Nodes : x >= t => f1[x] = f[x] /\ (x \in L1 <=> x \in L) /\ ar1[x] = ar[x]
      /\ \A x \in Nodes : x > p /\ x < t => f1[x] = tf[x - m + 1] /\ x \in L1 /\ ar1[x] = tv[x - m + 1]
      /\ p \notin L1
  BY <1>2 DEF PlacedEntries
<1>5. \A k \in Ranks : lv1[tv[k]] = IF w1 < k /\ k <= w THEN k + m - 1 ELSE lv[tv[k]]
  BY DEF PlacedLeaves
<1>6. /\ \A k \in Ranks : k > w =>
           lv[tv[k]] \in L /\ lv[tv[k]] >= t /\ ar[lv[tv[k]]] = tv[k] /\ f[lv[tv[k]]] = tf[k]
      /\ \A x \in L : x >= t => \E k \in Ranks : k > w /\ ar[x] = tv[k] /\ lv[tv[k]] = x
  BY DEF BuiltLeaves
<1>7. /\ \A x \in Nodes : x \in Nat
      /\ \A k \in Ranks : k \in Nat
  BY NodeNumbers, Sizes DEF Ranks
<1>8. L \subseteq Nodes /\ L1 \subseteq Nodes
  OBVIOUS
<1> HIDE DEF p, t
<1>9. ASSUME NEW k \in Ranks, k > w1
      PROVE  lv1[tv[k]] \in L1 /\ lv1[tv[k]] >= p /\ ar1[lv1[tv[k]]] = tv[k] /\ f1[lv1[tv[k]]] = tf[k]
  <2>0. k \in Nat /\ k \in Ranks /\ w1 < k
    BY ONLY k \in Ranks, <1>2, <1>7, <1>9
  <2>1. CASE k <= w
    <3>1. lv1[tv[k]] = k + m - 1
      BY ONLY <1>5, <2>0, <2>1
    <3>2. k + m - 1 \in Nodes /\ k + m - 1 > p /\ k + m - 1 < t /\ (k + m - 1) - m + 1 = k
      BY ONLY <1>3, <2>0, <2>1
    <3>3. PICK x \in Nodes : x = k + m - 1
      BY ONLY <3>2
    <3>4. x \in L1 /\ x >= p /\ ar1[x] = tv[k] /\ f1[x] = tf[k]
      BY ONLY <1>2, <1>4, <1>7, <3>2, <3>3
    <3> QED BY ONLY <3>1, <3>3, <3>4
  <2>2. CASE k > w
    <3>1. lv1[tv[k]] = lv[tv[k]]
      BY ONLY <1>2, <1>5, <2>0, <2>2
    <3>2. /\ lv[tv[k]] \in L /\ lv[tv[k]] \in Nodes /\ lv[tv[k]] >= t /\ ar[lv[tv[k]]] = tv[k]
          /\ f[lv[tv[k]]] = tf[k]
      BY ONLY <1>6, <1>8, <2>0, <2>2
    <3>3. lv[tv[k]] >= p
      <4>1. \A z \in Nat : z >= t => z >= p
        BY ONLY <1>2
      <4>2. lv[tv[k]] \in Nat
        BY ONLY <1>7, <3>2
      <4> QED BY ONLY <3>2, <4>1, <4>2
    <3> QED BY ONLY <1>4, <3>1, <3>2, <3>3
  <2> QED BY ONLY <1>2, <2>0, <2>1, <2>2
<1>10. ASSUME NEW x \in L1, x >= p
       PROVE  \E k \in Ranks : k > w1 /\ ar1[x] = tv[k] /\ lv1[tv[k]] = x
  <2>0. x \in Nodes /\ x \in Nat /\ x \in L1 /\ x # p
    BY ONLY x \in L1, <1>4, <1>7, <1>8
  <2>1. CASE x > p /\ x < t
    <3>1. /\ x - m + 1 \in Ranks /\ w1 < x - m + 1 /\ x - m + 1 <= w
          /\ (x - m + 1) + m - 1 = x
      BY ONLY <1>3, <2>0, <2>1
    <3>2. PICK k \in Ranks : k = x - m + 1
      BY ONLY <3>1
    <3>3. w1 < k /\ k <= w /\ k + m - 1 = x /\ k \in Nat
      BY ONLY <1>7, <3>1, <3>2
    <3>4. k > w1
      BY ONLY <1>2, <3>3
    <3>5. ar1[x] = tv[k]
      BY ONLY <1>4, <2>0, <2>1, <3>2
    <3>6. lv1[tv[k]] = x
      BY ONLY k \in Ranks, <1>5, <3>3
    <3> QED BY ONLY k \in Ranks, <3>4, <3>5, <3>6
  <2>2. CASE x > p /\ x >= t
    <3>1. x \in L /\ ar1[x] = ar[x]
      BY ONLY <1>4, <2>0, <2>2
    <3>2. PICK k \in Ranks : k > w /\ ar[x] = tv[k] /\ lv[tv[k]] = x
      BY ONLY <1>6, <2>2, <3>1
    <3>3. k > w1 /\ ~(k <= w)
      BY ONLY k \in Ranks, <1>1, <1>2, <1>7, <3>2
    <3>4. lv1[tv[k]] = lv[tv[k]]
      BY ONLY k \in Ranks, <1>5, <3>3
    <3> QED BY ONLY k \in Ranks, <3>1, <3>2, <3>3, <3>4
  <2> QED BY ONLY <1>3, <1>10, <2>0, <2>1, <2>2
<1> QED BY ONLY <1>2, <1>9, <1>10 DEF BuiltLeaves

(* The new branch counts its children. *)
LEMMA RebuildSums ==
  ASSUME NEW m, NEW w, NEW tf, NEW tv, NEW f, NEW L, NEW ar, NEW pa, BuiltSizes(m, w),
         BuiltLinks(m, w, L, ar, pa), BuiltSums(m, w, f, L, ar),
         NEW w1, NEW f1, NEW L1, NEW ar1, StepSizes(m, w, w1, tf, f1), f1 \in [Nodes -> Nat],
         PlacedEntries(m, w, w1, tf, tv, f, L, ar, f1, L1, ar1)
  PROVE  BuiltSums(m - 1, w1, f1, L1, ar1)
<1> DEFINE p == w1 + m - 1
           t == w + m
<1>1. m >= 1 /\ w1 \in Nat /\ w1 <= w /\ w1 <= m - 1
  BY DEF StepSizes
<1>2. /\ m \in Nat /\ w \in Nat /\ p \in Nodes /\ w1 + (m - 1) = p /\ t <= 2*m + 1 /\ t \in Nat
      /\ 2*m \in Nodes /\ 2*m - 1 \in Nodes
  BY ONLY BuiltSizes(m, w), <1>1, StepNumbers
<1>3. \A x \in Nodes : x >= p => x = p \/ (x > p /\ x < t) \/ (x > p /\ x >= t)
  BY ONLY BuiltSizes(m, w), <1>1, Zones
<1>4. /\ \A x \in Nodes : x >= t => f1[x] = f[x] /\ (x \in L1 <=> x \in L) /\ ar1[x] = ar[x]
      /\ \A x \in Nodes : x > p /\ x < t => x \in L1
      /\ ar1[p] = 2*m /\ f1[p] = f1[2*m - 1] + f1[2*m]
  BY <1>2 DEF PlacedEntries
<1>5. \A x \in Nodes : x >= t /\ x \notin L =>
        ar[x] \in EvenNodes /\ ar[x] - 1 \in Nodes /\ ar[x] - 1 >= 2*m + 1
  BY DEF BuiltLinks
<1>6. \A x \in Nodes : x >= t /\ x \notin L => f[x] = f[ar[x] - 1] + f[ar[x]]
  BY DEF BuiltSums
<1>7. /\ \A x \in Nodes : x \in Nat
      /\ EvenNodes \subseteq Nodes
  BY NodeNumbers DEF EvenNodes
<1> HIDE DEF p, t
<1>8. ASSUME NEW x \in Nodes, x >= p, x \notin L1 PROVE f1[x] = f1[ar1[x] - 1] + f1[ar1[x]]
  <2>1. CASE x = p
    BY ONLY <1>4, <2>1
  <2>2. CASE x > p /\ x >= t
    <3>1. x \notin L /\ ar1[x] = ar[x] /\ f1[x] = f[x]
      BY ONLY x \in Nodes, <1>4, <1>8, <2>2
    <3>2. ar[x] \in Nodes /\ ar[x] - 1 \in Nodes /\ ar[x] - 1 >= 2*m + 1 /\ ar[x] \in Nat
      BY ONLY x \in Nodes, <1>5, <1>7, <2>2, <3>1
    <3>3. ar[x] >= t /\ ar[x] - 1 >= t
      BY ONLY <1>2, <3>2
    <3>4. f1[ar[x]] = f[ar[x]] /\ f1[ar[x] - 1] = f[ar[x] - 1]
      BY ONLY <1>4, <3>2, <3>3
    <3> QED BY ONLY x \in Nodes, <1>6, <2>2, <3>1, <3>4
  <2>3. CASE x > p /\ x < t
    BY ONLY x \in Nodes, <1>4, <1>8, <2>3
  <2> QED BY ONLY x \in Nodes, <1>3, <1>8, <2>1, <2>2, <2>3
<1> QED BY ONLY <1>2, <1>8 DEF BuiltSums

(* The counts grow from leaf to leaf. *)
LEMMA CountsSteps ==
  ASSUME NEW tf, NEW tv, TakenInOrder(tf, tv)
  PROVE  /\ \A j \in 0..NumLeaves : Counts(tf, tv)[j] \in Nat
         /\ Counts(tf, tv)[0] = 0
         /\ \A k \in Ranks : Counts(tf, tv)[k] = Counts(tf, tv)[k - 1] + tf[k]
         /\ \A j, k \in 0..NumLeaves : j <= k => Counts(tf, tv)[j] <= Counts(tf, tv)[k]
<1>1. /\ \A j \in 0..NumLeaves : IsFiniteSet(TakenTokens(tf, tv, j))
                                 /\ Cardinality(TakenTokens(tf, tv, j)) \in Nat
      /\ Cardinality(TakenTokens(tf, tv, 0)) = 0
      /\ \A k \in Ranks : Cardinality(TakenTokens(tf, tv, k))
                            = Cardinality(TakenTokens(tf, tv, k - 1)) + tf[k]
  BY TakenCounts
<1>2. \A j \in 0..NumLeaves : Counts(tf, tv)[j] = Cardinality(TakenTokens(tf, tv, j))
  BY DEF Counts
<1>3. NumLeaves \in Nat /\ \A k \in Ranks : k \in 0..NumLeaves /\ k - 1 \in 0..NumLeaves
  BY Sizes DEF Ranks
<1>4. ASSUME NEW j \in 0..NumLeaves, NEW k \in 0..NumLeaves, j <= k
      PROVE  Counts(tf, tv)[j] <= Counts(tf, tv)[k]
  <2>1. \A i \in 1..j : i \in 1..k
    BY ONLY <1>3, <1>4, j \in 0..NumLeaves, k \in 0..NumLeaves
  <2>2. TakenTokens(tf, tv, j) \in SUBSET TakenTokens(tf, tv, k)
    BY ONLY <2>1 DEF TakenTokens
  <2>3. IsFiniteSet(TakenTokens(tf, tv, k))
    BY ONLY <1>1, k \in 0..NumLeaves
  <2>4. Cardinality(TakenTokens(tf, tv, j)) <= Cardinality(TakenTokens(tf, tv, k))
    BY ONLY <2>2, <2>3, FS_Subset
  <2> QED BY ONLY <1>2, <2>4, j \in 0..NumLeaves, k \in 0..NumLeaves
<1>5. Counts(tf, tv)[0] = 0
  BY ONLY <1>1, <1>2, <1>3
<1>6. \A j \in 0..NumLeaves : Counts(tf, tv)[j] \in Nat
  BY ONLY <1>1, <1>2
<1>7. \A k \in Ranks : Counts(tf, tv)[k] = Counts(tf, tv)[k - 1] + tf[k]
  BY ONLY <1>1, <1>2, <1>3
<1> QED BY ONLY <1>4, <1>5, <1>6, <1>7

(* The whole stays the same, and the branch is a part of it. *)
LEMMA RebuildWeighs ==
  ASSUME NEW m, NEW w, NEW tf, NEW tv, NEW f, NEW L, NEW ar, NEW G, BuiltSizes(m, w),
         TakenInOrder(tf, tv), BuiltWeight(m, w, tf, tv, f, G), f \in [Nodes -> Nat],
         NEW w1, NEW f1 \in [Nodes -> Nat], NEW L1, NEW ar1, StepSizes(m, w, w1, tf, f1),
         PlacedEntries(m, w, w1, tf, tv, f, L, ar, f1, L1, ar1)
  PROVE  /\ \E G1 : BuiltWeight(m - 1, w1, tf, tv, f1, G1)
         /\ f1[2*m - 1] + f1[2*m] < ReorderLimit
<1> DEFINE p == w1 + m - 1
           t == w + m
           b == f1[2*m - 1] + f1[2*m]
           R == Counts(tf, tv)
           base == G[t] - R[w]
           G1 == [x \in 0..NumNodes |-> IF x >= t THEN G[x]
                                        ELSE IF x > p THEN base + R[x - m]
                                        ELSE IF x = p THEN (base + R[w1]) - b ELSE 0]
<1>1. m >= 1 /\ w1 \in Nat /\ w1 <= w /\ w1 <= m - 1
  BY DEF StepSizes
<1>2. /\ m \in Nat /\ w \in Nat /\ w1 \in Nat /\ m - 1 \in Nat /\ p \in Nodes /\ p \in Nat
      /\ w1 + (m - 1) = p /\ 2*m \in Nodes /\ 2*m - 1 \in Nodes
      /\ 2*(m-1) + 1 = 2*m - 1
      /\ p < 2*m - 1 /\ t <= 2*m + 1 /\ p < t /\ t \in Nat /\ w \in 0..NumLeaves /\ w1 \in 0..NumLeaves
  BY ONLY BuiltSizes(m, w), <1>1, StepNumbers
<1>3. /\ \A x \in Nodes : x > p /\ x < t =>
           x - m + 1 \in Ranks /\ w1 < x - m + 1 /\ x - m + 1 <= w /\ x - m + 1 \in Nat
      /\ \A x \in Nodes : x >= p => x = p \/ (x > p /\ x < t) \/ (x > p /\ x >= t)
  BY ONLY BuiltSizes(m, w), <1>1, Zones
<1>4. /\ \A j \in 0..NumLeaves : R[j] \in Nat
      /\ \A k \in Ranks : R[k] = R[k - 1] + tf[k]
      /\ \A j, k \in 0..NumLeaves : j <= k => R[j] <= R[k]
  BY CountsSteps
<1>5. /\ G \in [0..NumNodes -> Int]
      /\ \A x \in Nodes : x >= t => G[x + 1] = G[x] + f[x]
      /\ \A x \in 0..NumNodes : x >= t => G[x] >= G[t]
      /\ (G[2*m + 1] - G[t]) + R[w] = R[NumLeaves]
      /\ R[NumLeaves] < ReorderLimit
  BY DEF BuiltWeight
<1>6. /\ \A x \in Nodes : x >= t => f1[x] = f[x]
      /\ \A x \in Nodes : x > p /\ x < t => f1[x] = tf[x - m + 1]
      /\ f1[p] = b
  BY <1>2 DEF PlacedEntries
<1>7. /\ \A x \in Nodes : x \in Nat /\ x < NumNodes /\ x \in 0..NumNodes /\ x + 1 \in 0..NumNodes
      /\ NumNodes \in Nat /\ NumLeaves \in Nat /\ NumLeaves \in 0..NumLeaves /\ ReorderLimit \in Nat
      /\ \A x \in 0..NumNodes : x \in Nat
  BY Sizes
<1>8. f1[2*m - 1] \in Nat /\ f1[2*m] \in Nat /\ b \in Nat
  BY ONLY <1>2, f1 \in [Nodes -> Nat]
<1>9. t \in 0..NumNodes /\ 2*m + 1 \in 0..NumNodes /\ 2*m - 1 \in 0..NumNodes /\ p \in 0..NumNodes
  BY ONLY <1>2, <1>7
<1>10. base \in Int /\ base + R[w] = G[t] /\ R[w] \in Nat /\ R[w1] \in Nat /\ G[t] \in Int /\ R[NumLeaves] \in Nat
       /\ G[2*m + 1] \in Int
  <2> HIDE DEF R, t, p, b, G1, base
  <2>1. G[t] \in Int /\ G[2*m + 1] \in Int
    BY ONLY <1>5, <1>9
  <2>2. R[w] \in Nat /\ R[w1] \in Nat /\ R[NumLeaves] \in Nat
    BY ONLY <1>2, <1>4, <1>7
  <2>3. PICK g \in Int : g = G[t]
    BY ONLY <2>1
  <2>4. PICK r \in Nat : r = R[w]
    BY ONLY <2>2
  <2>5. base = g - r
    BY ONLY <2>3, <2>4 DEF base
  <2>6. base \in Int /\ base + r = g
    BY ONLY <2>5, g \in Int, r \in Nat
  <2> QED BY ONLY <2>1, <2>2, <2>3, <2>4, <2>6
<1>11. \A x \in 0..NumNodes : G1[x] = IF x >= t THEN G[x]
                                      ELSE IF x > p THEN base + R[x - m]
                                      ELSE IF x = p THEN (base + R[w1]) - b ELSE 0
  OBVIOUS
<1>12. G1 = [x \in 0..NumNodes |-> G1[x]]
  OBVIOUS
<1>13. R[w1] <= R[w] /\ \A x \in 0..NumNodes : x > p /\ x <= t =>
         x - m \in 0..NumLeaves /\ R[x - m] \in Nat /\ R[x - m] >= R[w1]
  <2> HIDE DEF base, R, G1
  <2>1. ASSUME NEW x \in 0..NumNodes, x > p, x <= t
        PROVE  x - m \in 0..NumLeaves /\ R[x - m] \in Nat /\ R[x - m] >= R[w1]
    <3>1. PICK j \in Int : j = x - m
      BY ONLY <1>2, <1>7, x \in 0..NumNodes
    <3>2. j \in 0..NumLeaves /\ w1 <= j
      BY ONLY <1>2, <1>7, <2>1, <3>1, x \in 0..NumNodes, j \in Int
    <3>3. R[j] \in Nat /\ R[j] >= R[w1]
      BY ONLY <1>2, <1>4, <1>10, <3>2
    <3> QED BY ONLY <3>1, <3>2, <3>3
  <2>2. R[w1] <= R[w]
    BY ONLY <1>1, <1>2, <1>4
  <2> QED BY ONLY <2>1, <2>2
<1> HIDE DEF p, t, b, R, base, G1
<1>14. \A x \in 0..NumNodes : x > p /\ x <= t => G1[x] = base + R[x - m]
  <2>1. t - m = w
    BY ONLY <1>2 DEF t
  <2>2. G1[t] = base + R[t - m]
    <3>1. t >= t
      BY ONLY <1>2
    <3> QED BY ONLY <1>9, <1>10, <1>11, <2>1, <3>1
  <2>3. ASSUME NEW x \in 0..NumNodes, x > p, x < t PROVE G1[x] = base + R[x - m]
    BY ONLY x \in 0..NumNodes, <1>2, <1>7, <1>11, <2>3
  <2>4. \A x \in 0..NumNodes : x <= t => x = t \/ x < t
    BY ONLY <1>2, <1>7
  <2> QED BY ONLY <2>2, <2>3, <2>4
<1>15. /\ p + 1 \in 0..NumNodes /\ p + 1 > p /\ p + 1 <= t /\ (p + 1) - m = w1
  BY ONLY <1>2, <1>7, <1>9 DEF p
<1>16. G1[p + 1] = base + R[w1] /\ G1[p] = (base + R[w1]) - b
  <2>1. G1[p + 1] = base + R[(p + 1) - m]
    BY ONLY <1>14, <1>15
  <2>2. ~(p >= t) /\ ~(p > p)
    BY ONLY <1>2
  <2>3. G1[p] = (base + R[w1]) - b
    BY ONLY <1>9, <1>11, <2>2
  <2> QED BY ONLY <1>15, <2>1, <2>3
<1>17. \A x \in 0..NumNodes : G1[x] \in Int
  <2>1. ASSUME NEW x \in 0..NumNodes PROVE G1[x] \in Int
    <3>1. CASE x >= t
      BY ONLY x \in 0..NumNodes, <1>5, <1>11, <3>1
    <3>2. CASE ~(x >= t) /\ x > p
      <4>1. x <= t
        BY ONLY <1>2, <1>7, <3>2, x \in 0..NumNodes
      <4>2. G1[x] = base + R[x - m] /\ R[x - m] \in Nat
        BY ONLY x \in 0..NumNodes, <1>13, <1>14, <3>2, <4>1
      <4> QED BY ONLY <1>10, <4>2
    <3>3. CASE ~(x >= t) /\ ~(x > p) /\ x = p
      BY ONLY <1>8, <1>10, <1>16, <3>3
    <3>4. CASE ~(x >= t) /\ ~(x > p) /\ x # p
      BY ONLY x \in 0..NumNodes, <1>11, <3>4
    <3> QED BY ONLY <3>1, <3>2, <3>3, <3>4
  <2> QED BY <2>1
<1>18. G1 \in [0..NumNodes -> Int]
  BY ONLY <1>12, <1>17
<1>19. ASSUME NEW x \in Nodes, x >= p PROVE G1[x + 1] = G1[x] + f1[x]
  <2>0. x \in Nodes /\ x \in Nat /\ x \in 0..NumNodes /\ x + 1 \in 0..NumNodes
    BY ONLY x \in Nodes, <1>7
  <2>1. CASE x > p /\ x >= t
    <3>1. x + 1 >= t
      BY ONLY <1>2, <2>0, <2>1
    <3>2. G1[x + 1] = G[x + 1] /\ G1[x] = G[x]
      BY ONLY <1>11, <2>0, <2>1, <3>1
    <3> QED BY ONLY <1>5, <1>6, <2>0, <2>1, <3>2
  <2>2. CASE x > p /\ x < t
    <3>1. x + 1 > p /\ x + 1 <= t /\ x <= t /\ x \in Nat
      BY ONLY <1>2, <2>0, <2>2
    <3>2. PICK k \in Ranks : k = x - m + 1
      BY ONLY <1>3, <2>0, <2>2
    <3>3. x - m = k - 1 /\ (x + 1) - m = k
      BY ONLY <1>2, <2>0, <3>2
    <3>4. G1[x + 1] = base + R[(x + 1) - m] /\ G1[x] = base + R[x - m] /\ R[x - m] \in Nat
      BY ONLY <1>13, <1>14, <2>0, <2>2, <3>1
    <3>5. R[k] = R[k - 1] + tf[k]
      BY ONLY <1>4, k \in Ranks
    <3>6. f1[x] = tf[k] /\ f1[x] \in Nat
      BY ONLY <1>6, <2>0, <2>2, <3>2, f1 \in [Nodes -> Nat]
    <3> QED BY ONLY <1>10, <3>3, <3>4, <3>5, <3>6
  <2>3. CASE x = p
    BY ONLY <1>6, <1>8, <1>10, <1>16, <2>3
  <2> QED BY ONLY <1>3, <1>19, <2>0, <2>1, <2>2, <2>3
<1>20. ASSUME NEW x \in 0..NumNodes, x > p PROVE G1[x] >= base + R[w1]
  <2>0. x \in Nat
    BY ONLY <1>7, x \in 0..NumNodes
  <2>1. CASE x <= t
    <3>1. G1[x] = base + R[x - m] /\ R[x - m] \in Nat /\ R[x - m] >= R[w1]
      BY ONLY x \in 0..NumNodes, <1>13, <1>14, <1>20, <2>1
    <3> QED BY ONLY <1>10, <3>1
  <2>2. CASE x >= t
    <3>1. G1[x] = G[x] /\ G[x] >= G[t] /\ G[x] \in Int
      BY ONLY x \in 0..NumNodes, <1>5, <1>11, <2>2
    <3> QED BY ONLY <1>10, <1>13, <3>1
  <2> QED BY ONLY <1>2, <2>0, <2>1, <2>2
<1>21. \A x \in 0..NumNodes : x >= p => G1[x] >= G1[p]
  <2>1. ASSUME NEW x \in 0..NumNodes, x >= p PROVE G1[x] >= G1[p]
    <3>1. x = p \/ x > p
      BY ONLY <1>2, <1>7, <2>1, x \in 0..NumNodes
    <3>2. G1[x] \in Int /\ G1[p] \in Int
      BY ONLY <1>9, <1>17, x \in 0..NumNodes
    <3>3. CASE x = p
      BY ONLY <3>2, <3>3
    <3>4. CASE x > p
      BY ONLY x \in 0..NumNodes, <1>8, <1>10, <1>16, <1>20, <3>2, <3>4
    <3> QED BY ONLY <3>1, <3>3, <3>4
  <2> QED BY <2>1
<1>22. G1[2*m - 1] + b = G[2*m + 1]
  <2>1. 2*m >= p /\ 2*m - 1 >= p /\ (2*m - 1) + 1 = 2*m /\ 2*m + 1 >= t
    BY ONLY <1>2
  <2>2. G1[2*m + 1] = G1[2*m] + f1[2*m]
    BY ONLY <1>2, <1>19, <2>1
  <2>3. G1[2*m] = G1[2*m - 1] + f1[2*m - 1]
    <3>1. PICK y \in Nodes : y = 2*m - 1
      BY ONLY <1>2
    <3>2. G1[y + 1] = G1[y] + f1[y]
      BY ONLY y \in Nodes, <1>19, <2>1, <3>1
    <3>3. y + 1 = 2*m
      BY ONLY <2>1, <3>1
    <3> QED BY ONLY <3>1, <3>2, <3>3
  <2>4. G1[2*m + 1] = G[2*m + 1]
    BY ONLY <1>9, <1>11, <2>1
  <2>5. G1[2*m - 1] \in Int
    BY ONLY <1>9, <1>17
  <2> QED BY ONLY <1>8, <2>2, <2>3, <2>4, <2>5 DEF b
<1>23. G1[2*m - 1] \in Int /\ G1[2*m - 1] >= base + R[w1] /\ G1[p] \in Int
  BY ONLY <1>2, <1>9, <1>17, <1>20
<1>24. PICK g1 \in Int, gp \in Int, g2 \in Int, gt \in Int, rw \in Nat, r1 \in Nat, rn \in Nat, bb \in Nat :
         /\ g1 = G1[2*m - 1] /\ gp = G1[p] /\ g2 = G[2*m + 1] /\ gt = G[t] /\ rw = R[w] /\ r1 = R[w1]
         /\ rn = R[NumLeaves] /\ bb = b
  BY ONLY <1>8, <1>10, <1>23
<1>25. PICK e \in Int : e = base
  BY ONLY <1>10
<1>26. /\ e + rw = gt /\ gp = (e + r1) - bb /\ g1 + bb = g2 /\ (g2 - gt) + rw = rn /\ g1 >= e + r1
       /\ rn < ReorderLimit /\ ReorderLimit \in Nat
  BY ONLY <1>5, <1>7, <1>10, <1>16, <1>22, <1>23, <1>24, <1>25
<1>27. (g1 - gp) + r1 = rn /\ bb < ReorderLimit
  BY ONLY <1>26, g1 \in Int, gp \in Int, g2 \in Int, gt \in Int, rw \in Nat, r1 \in Nat, rn \in Nat,
          bb \in Nat, e \in Int
<1>28. (G1[2*m - 1] - G1[p]) + R[w1] = R[NumLeaves] /\ b < ReorderLimit
  BY ONLY <1>24, <1>27
<1>29. BuiltWeight(m - 1, w1, tf, tv, f1, G1)
  BY ONLY <1>2, <1>5, <1>18, <1>19, <1>21, <1>28 DEF BuiltWeight, R
<1> QED BY ONLY <1>28, <1>29 DEF b

(* One turn of the loop keeps all of it. *)
LEMMA RebuildKeeps ==
  ASSUME NEW m, NEW w, NEW tf, NEW tv, NEW f, NEW L, NEW ar, NEW pa, NEW lv,
         Built(m, w, tf, tv, f, L, ar, pa, lv),
         NEW w1, NEW f1 \in [Nodes -> Nat], NEW L1, NEW ar1, NEW pa1, NEW lv1, LinkTypes(L1, ar1, pa1, lv1),
         StepSizes(m, w, w1, tf, f1), PlacedEntries(m, w, w1, tf, tv, f, L, ar, f1, L1, ar1),
         PlacedParents(m, w1, pa, pa1), PlacedLeaves(m, w, w1, tv, lv, lv1)
  PROVE  Built(m - 1, w1, tf, tv, f1, L1, ar1, pa1, lv1)
<1> DEFINE p == w1 + m - 1
           t == w + m
           b == f1[2*m - 1] + f1[2*m]
<1>1. /\ BuiltSizes(m, w) /\ TakenInOrder(tf, tv) /\ LinkTypes(L, ar, pa, lv)
      /\ BuiltOrder(m, w, tf, f) /\ BuiltTop(m, w, f, L) /\ BuiltLinks(m, w, L, ar, pa)
      /\ BuiltLeaves(m, w, tf, tv, f, L, ar, lv) /\ BuiltSums(m, w, f, L, ar)
      /\ \E G : BuiltWeight(m, w, tf, tv, f, G)
      /\ \A x \in Nodes : f[x] <= ReorderLimit
  BY DEF Built
<1>2. PICK G : BuiltWeight(m, w, tf, tv, f, G)
  BY <1>1
<1>3. L \subseteq Nodes /\ L1 \subseteq Nodes /\ f \in [Nodes -> Nat]
  BY <1>1 DEF LinkTypes, BuiltOrder
<1>4. /\ m >= 1 /\ w1 \in Nat /\ w1 <= w /\ w1 <= m - 1
      /\ \A k \in Ranks : w1 < k /\ k <= w => tf[k] <= b
  BY DEF StepSizes
<1>5. BuiltOrder(m - 1, w1, tf, f1) /\ BuiltTop(m - 1, w1, f1, L1)
  BY <1>1, RebuildOrders
<1>6. BuiltLinks(m - 1, w1, L1, ar1, pa1)
  BY <1>1, <1>3, RebuildLinks
<1>7. BuiltLeaves(m - 1, w1, tf, tv, f1, L1, ar1, lv1)
  BY <1>1, <1>3, RebuildLeaves
<1>8. BuiltSums(m - 1, w1, f1, L1, ar1)
  BY <1>1, RebuildSums
<1>9. /\ \E G1 : BuiltWeight(m - 1, w1, tf, tv, f1, G1)
      /\ b < ReorderLimit
  BY <1>1, <1>2, <1>3, RebuildWeighs
<1>10. BuiltSizes(m - 1, w1) /\ p \in Nodes /\ p \in Nat /\ t \in Nat /\ p < t
       /\ 2*m \in Nodes /\ 2*m - 1 \in Nodes
  BY ONLY <1>1, <1>4, StepNumbers
<1>11. /\ \A x \in Nodes : x > p /\ x < t => x - m + 1 \in Ranks /\ w1 < x - m + 1 /\ x - m + 1 <= w
       /\ \A x \in Nodes : x >= p => x = p \/ (x > p /\ x < t) \/ (x > p /\ x >= t)
  BY ONLY <1>1, <1>4, Zones
<1>12. \A x \in Nodes :
         /\ x < p \/ x >= t => f1[x] = f[x]
         /\ x > p /\ x < t => f1[x] = tf[x - m + 1]
         /\ x = p => f1[x] = b
  BY DEF PlacedEntries
<1>13. \A k \in Ranks : tf[k] \in Nat
  BY <1>1 DEF TakenInOrder
<1>14. b \in Nat /\ ReorderLimit \in Nat /\ \A x \in Nodes : x \in Nat
  BY <1>10, NodeNumbers, ReorderLimitAssumption
<1> HIDE DEF p, t, b
<1>15. ASSUME NEW x \in Nodes PROVE f1[x] <= ReorderLimit
  <2>1. CASE x < p \/ x >= t
    BY ONLY <1>1, <1>12, <2>1, x \in Nodes
  <2>2. CASE x > p /\ x < t
    <3>1. PICK k \in Ranks : k = x - m + 1
      BY ONLY <1>11, <2>2, x \in Nodes
    <3>2. f1[x] = tf[k] /\ tf[k] <= b /\ tf[k] \in Nat
      BY ONLY <1>4, <1>11, <1>12, <1>13, <2>2, <3>1, x \in Nodes, k \in Ranks
    <3> QED BY ONLY <1>9, <1>14, <3>2
  <2>3. CASE x = p
    BY ONLY <1>9, <1>12, <1>14, <2>3, x \in Nodes
  <2>4. x < p \/ x >= p
    BY ONLY <1>10, <1>14, x \in Nodes
  <2> QED BY ONLY <1>11, <2>1, <2>2, <2>3, <2>4, x \in Nodes
<1> QED BY ONLY <1>1, <1>5, <1>6, <1>7, <1>8, <1>9, <1>10, <1>15, LinkTypes(L1, ar1, pa1, lv1) DEF Built

(* When the loop ends every leaf is placed, and the array is a tree.       *)
LEMMA BuiltEnds ==
  ASSUME NEW tf, NEW tv, NEW f, NEW L, NEW ar, NEW pa, NEW lv, Built(0, 0, tf, tv, f, L, ar, pa, lv)
  PROVE  /\ Linked(L, ar, pa, lv) /\ Falling(f) /\ Summed(f, L, ar, 0) /\ Weighed(f, L, lv, 0)
         /\ f[0] < ReorderLimit
<1>1. /\ TakenInOrder(tf, tv) /\ LinkTypes(L, ar, pa, lv)
      /\ BuiltOrder(0, 0, tf, f) /\ BuiltTop(0, 0, f, L) /\ BuiltLinks(0, 0, L, ar, pa)
      /\ BuiltLeaves(0, 0, tf, tv, f, L, ar, lv) /\ BuiltSums(0, 0, f, L, ar)
      /\ \E G : BuiltWeight(0, 0, tf, tv, f, G)
  BY DEF Built
<1>2. PICK G : BuiltWeight(0, 0, tf, tv, f, G)
  BY <1>1
<1>3. 0 \in Nodes /\ 1 \in Nodes /\ NumLeaves \in Nat /\ NumNodes \in Nat /\ NumNodes >= 3
  BY NodeNumbers, Sizes
<1>4. /\ \A x \in Nodes : x \in Nat /\ x >= 0 + 0
      /\ \A x \in Nodes : x # 0 => x >= 2*0 + 1
      /\ \A x \in 0..NumNodes : x \in Nat
      /\ 0 + 0 = 0 /\ 2*0 + 1 = 1 /\ 0 + 1 = 1
  BY ONLY NodeNumbers
<1>5. Falling(f)
  BY ONLY <1>1, <1>4 DEF BuiltOrder, Falling
<1>6. 0 \notin L
  BY ONLY <1>1, <1>3 DEF BuiltTop
<1>7. BranchesLinked(L, ar, pa)
  <2>1. \A x \in Nodes : x \notin L =>
          /\ ar[x] \in EvenNodes /\ ar[x] - 1 \in Nodes /\ x < ar[x] - 1
          /\ pa[ar[x]] = x /\ pa[ar[x] - 1] = x
    BY ONLY <1>1, <1>4 DEF BuiltLinks
  <2>2. \A x \in Nodes : x # 0 =>
          /\ pa[x] \in Nodes /\ pa[x] \notin L /\ pa[x] < x
          /\ x = ar[pa[x]] \/ x = ar[pa[x]] - 1
    BY ONLY <1>1, <1>4 DEF BuiltLinks
  <2> QED BY ONLY <1>6, <2>1, <2>2 DEF BranchesLinked
<1>8. /\ tv \in [Ranks -> Values] /\ tf \in [Ranks -> Nat]
      /\ \A v \in Values : \E k \in Ranks : tv[k] = v
  BY <1>1 DEF TakenInOrder
<1>9. \A k \in Ranks : k > 0
  BY <1>3 DEF Ranks
<1>10. \A k \in Ranks : lv[tv[k]] \in L /\ ar[lv[tv[k]]] = tv[k] /\ f[lv[tv[k]]] = tf[k]
  BY ONLY <1>1, <1>9 DEF BuiltLeaves
<1>11. LeavesLinked(L, ar, lv)
  <2>1. \A v \in Values : lv[v] \in L /\ ar[lv[v]] = v
    BY ONLY <1>8, <1>10
  <2>2. \A x \in L : x \in Nodes
    BY ONLY <1>1 DEF LinkTypes
  <2>3. \A x \in L : \E k \in Ranks : ar[x] = tv[k] /\ lv[tv[k]] = x
    BY ONLY <1>1, <1>4, <2>2 DEF BuiltLeaves
  <2>4. \A x \in L : ar[x] \in Values /\ lv[ar[x]] = x
    BY ONLY <1>8, <2>3
  <2> QED BY ONLY <2>1, <2>4 DEF LeavesLinked
<1>12. Linked(L, ar, pa, lv)
  BY ONLY <1>1, <1>7, <1>11 DEF Linked
<1>13. f \in [Nodes -> Nat]
  BY <1>5 DEF Falling
<1>14. Summed(f, L, ar, 0)
  <2>1. \A x \in Nodes : x \notin L => f[x] = f[ar[x] - 1] + f[ar[x]]
    BY ONLY <1>1, <1>4 DEF BuiltSums
  <2>2. \A x \in Nodes : Lead(0, x) = 0
    BY DEF Lead
  <2>3. \A x \in Nodes : x \notin L => ar[x] \in Nodes /\ ar[x] - 1 \in Nodes
    BY ONLY <1>7 DEF BranchesLinked, EvenNodes
  <2>4. ASSUME NEW x \in Nodes, x \notin L PROVE f[x] = f[ar[x] - 1] + f[ar[x]] + Lead(0, x)
    <3>1. f[ar[x] - 1] \in Nat /\ f[ar[x]] \in Nat
      BY ONLY <1>13, <2>3, <2>4, x \in Nodes
    <3> QED BY ONLY <2>1, <2>2, <2>4, <3>1, x \in Nodes
  <2> QED BY ONLY <2>4 DEF Summed
<1>15. NumLeaves \in 0..NumLeaves /\ 0 \in 0..NumLeaves /\ 1..NumLeaves = Ranks
  BY <1>3 DEF Ranks
<1>16. f[0] = Counts(tf, tv)[NumLeaves] /\ f[0] < ReorderLimit
  <2> DEFINE R == Counts(tf, tv)
  <2>1. /\ G \in [0..NumNodes -> Int]
        /\ \A x \in Nodes : x >= 0 + 0 => G[x + 1] = G[x] + f[x]
        /\ G[2*0 + 1] - G[0 + 0] + R[0] = R[NumLeaves]
        /\ R[NumLeaves] < ReorderLimit
    BY <1>2 DEF BuiltWeight
  <2>2. R[0] = 0 /\ R[NumLeaves] \in Nat
    BY <1>1, <1>15, CountsSteps
  <2> HIDE DEF R
  <2>3. G[1] - G[0] + R[0] = R[NumLeaves]
    BY ONLY <1>4, <2>1
  <2>4. G[0 + 1] = G[0] + f[0]
    BY ONLY <1>3, <1>4, <2>1
  <2>5. G[0] \in Int /\ f[0] \in Nat
    BY ONLY <1>3, <1>13, <2>1
  <2>6. G[1] = G[0] + f[0]
    BY ONLY <1>4, <2>4
  <2>7. f[0] = R[NumLeaves]
    BY ONLY <2>2, <2>3, <2>5, <2>6
  <2> QED BY ONLY <2>1, <2>7 DEF R
<1>17. Tokens(f, lv) = TakenTokens(tf, tv, NumLeaves)
  <2>1. ASSUME NEW t \in Values \X Nat
        PROVE  t[2] < f[lv[t[1]]] <=> \E k \in Ranks : tv[k] = t[1] /\ t[2] < tf[k]
    <3>1. t[1] \in Values
      OBVIOUS
    <3>2. PICK k \in Ranks : tv[k] = t[1]
      BY ONLY <1>8, <3>1
    <3>3. f[lv[t[1]]] = tf[k]
      BY ONLY <1>10, <3>2
    <3>4. \A j \in Ranks : tv[j] = t[1] => f[lv[t[1]]] = tf[j]
      BY ONLY <1>10
    <3> QED BY ONLY <3>2, <3>3, <3>4
  <2>2. Tokens(f, lv) = {t \in Values \X Nat : \E k \in Ranks : tv[k] = t[1] /\ t[2] < tf[k]}
    BY ONLY <2>1 DEF Tokens
  <2> QED BY ONLY <1>15, <2>2 DEF TakenTokens
<1>18. Weighed(f, L, lv, 0)
  <2>1. IsFiniteSet(Tokens(f, lv)) /\ Cardinality(Tokens(f, lv)) \in Nat
    BY ONLY <1>1, <1>15, <1>17, TakenCounts
  <2>2. Cardinality(Tokens(f, lv)) = f[0]
    BY ONLY <1>15, <1>16, <1>17 DEF Counts
  <2> QED BY ONLY <2>1, <2>2 DEF Weighed
<1> QED BY ONLY <1>5, <1>12, <1>14, <1>16, <1>18

(* The rebuild begins with nothing placed, and every leaf taken. *)
LEMMA RebuildBegins ==
  ASSUME NEW f, NEW L, NEW ar, NEW pa, NEW lv, NEW g, NEW ld, NEW gs, NEW n,
         Whole(f, L, ar, pa, lv, g, ld, gs, n, 0), NEW at, at = Nth(L),
         NEW tf, tf = [k \in Ranks |-> Half(f[at[k]])], NEW tv, tv = [k \in Ranks |-> ar[at[k]]]
  PROVE  Built(NumLeaves - 1, NumLeaves, tf, tv, f, L, ar, pa, lv)
<1> DEFINE m == NumLeaves - 1
           w == NumLeaves
<1>1. Linked(L, ar, pa, lv) /\ Falling(f) /\ Weighed(f, L, lv, 0) /\ f[0] <= ReorderLimit
  BY DEF Whole
<1>2. LinkTypes(L, ar, pa, lv) /\ LeavesLinked(L, ar, lv) /\ L \subseteq Nodes /\ lv \in [Values -> Nodes]
  BY ONLY <1>1 DEF Linked, LinkTypes
<1>3. TakenInOrder(tf, tv) /\ at \in [Ranks -> L]
  BY ONLY <1>1, <1>2, at = Nth(L), tf = [k \in Ranks |-> Half(f[at[k]])],
          tv = [k \in Ranks |-> ar[at[k]]], TakingOrder
<1>4. /\ w + m = NumNodes /\ 2*m + 1 = NumNodes /\ m \in Nat /\ w \in Nat /\ m <= NumLeaves - 1
      /\ NumNodes \in 0..NumNodes /\ NumLeaves \in 0..NumLeaves
      /\ NumLeaves \in Nat /\ ReorderLimit \in Nat /\ ReorderLimit > NumLeaves
  BY ONLY Sizes
<1>5. /\ \A x \in Nodes : ~(x >= NumNodes)
      /\ NumNodes \notin Nodes /\ 0 \in Nodes
      /\ \A k \in Ranks : ~(k > w)
      /\ \A x \in Nodes : x = 0 \/ 0 < x
  BY Sizes DEF Ranks
<1>6. /\ f \in [Nodes -> Nat] /\ \A x \in Nodes : f[x] \in Nat /\ f[x] >= 1
      /\ \A x, y \in Nodes : x < y => f[y] <= f[x]
  BY ONLY <1>1 DEF Falling
<1>7. \A x \in Nodes : f[x] <= ReorderLimit
  <2>1. \A x \in Nodes : f[x] <= f[0]
    BY ONLY <1>5, <1>6
  <2> QED BY ONLY <1>1, <1>4, <1>5, <1>6, <2>1
<1>8. Counts(tf, tv)[NumLeaves] < ReorderLimit /\ Counts(tf, tv)[NumLeaves] \in Nat
  <2> DEFINE A == {t \in Values \X Nat : t[2] < Half(f[lv[t[1]]])}
  <2>1. \A k \in Ranks : tf[k] = Half(f[at[k]]) /\ tv[k] = ar[at[k]] /\ at[k] \in L
    BY ONLY <1>3, tf = [k \in Ranks |-> Half(f[at[k]])], tv = [k \in Ranks |-> ar[at[k]]]
  <2>2. \A x \in L : lv[ar[x]] = x
    BY ONLY <1>2 DEF LeavesLinked
  <2>3. \A k \in Ranks : tf[k] = Half(f[lv[tv[k]]])
    BY ONLY <2>1, <2>2
  <2>4. \A v \in Values : \E k \in Ranks : tv[k] = v
    BY ONLY <1>3 DEF TakenInOrder
  <2>5. ASSUME NEW t \in Values \X Nat
        PROVE  t[2] < Half(f[lv[t[1]]]) <=> \E k \in Ranks : tv[k] = t[1] /\ t[2] < tf[k]
    <3>1. t[1] \in Values
      OBVIOUS
    <3>2. PICK k \in Ranks : tv[k] = t[1]
      BY ONLY <2>4, <3>1
    <3>3. tf[k] = Half(f[lv[t[1]]])
      BY ONLY <2>3, <3>2
    <3>4. \A j \in Ranks : tv[j] = t[1] => tf[j] = Half(f[lv[t[1]]])
      BY ONLY <2>3
    <3> QED BY ONLY <3>2, <3>3, <3>4
  <2>6. TakenTokens(tf, tv, NumLeaves) = A
    BY ONLY <2>5 DEF TakenTokens, Ranks
  <2>7. IsFiniteSet(Tokens(f, lv)) /\ Cardinality(Tokens(f, lv)) + 0 <= f[0]
    BY ONLY <1>1 DEF Weighed
  <2>8. Cardinality(Tokens(f, lv)) \in Nat
    BY ONLY <2>7, FS_CardinalityType
  <2>9. Cardinality(A) \in Nat /\ 2 * Cardinality(A) <= Cardinality(Tokens(f, lv)) + NumLeaves
    BY ONLY <1>2, <1>6, <2>7, HalvesFit
  <2> HIDE DEF A
  <2>10. Cardinality(A) < ReorderLimit
    BY ONLY <1>1, <1>4, <1>5, <1>6, <2>7, <2>8, <2>9
  <2>11. Counts(tf, tv)[NumLeaves] = Cardinality(A)
    BY ONLY <1>4, <2>6 DEF Counts
  <2> QED BY ONLY <2>9, <2>10, <2>11
<1> HIDE DEF m, w
<1>9. BuiltSizes(m, w)
  BY ONLY <1>4 DEF BuiltSizes, m, w
<1>10. BuiltOrder(m, w, tf, f)
  BY ONLY <1>4, <1>5, <1>6 DEF BuiltOrder
<1>11. BuiltTop(m, w, f, L)
  BY ONLY <1>4, <1>5 DEF BuiltTop
<1>12. BuiltLinks(m, w, L, ar, pa)
  BY ONLY <1>4, <1>5 DEF BuiltLinks
<1>13. BuiltLeaves(m, w, tf, tv, f, L, ar, lv)
  BY ONLY <1>2, <1>4, <1>5 DEF BuiltLeaves
<1>14. BuiltSums(m, w, f, L, ar)
  BY ONLY <1>4, <1>5 DEF BuiltSums
<1>15. \E G : BuiltWeight(m, w, tf, tv, f, G)
  <2> DEFINE G == [x \in 0..NumNodes |-> 0]
  <2>1. G \in [0..NumNodes -> Int] /\ \A x \in 0..NumNodes : G[x] = 0
    OBVIOUS
  <2> HIDE DEF G
  <2>2. G[w + m] = 0 /\ G[2*m + 1] = 0
    BY ONLY <1>4, <2>1
  <2>3. \A x \in 0..NumNodes : x >= w + m => G[x] >= G[w + m]
    BY ONLY <2>1, <2>2
  <2>4. G[2*m + 1] - G[w + m] + Counts(tf, tv)[w] = Counts(tf, tv)[NumLeaves]
    BY ONLY <1>8, <2>2 DEF w
  <2>5. BuiltWeight(m, w, tf, tv, f, G)
    BY ONLY <1>4, <1>5, <1>8, <2>1, <2>3, <2>4 DEF BuiltWeight
  <2> QED BY ONLY <2>5
<1>16. Built(m, w, tf, tv, f, L, ar, pa, lv)
  BY ONLY <1>2, <1>3, <1>7, <1>9, <1>10, <1>11, <1>12, <1>13, <1>14, <1>15 DEF Built
<1> QED BY ONLY <1>16 DEF m, w

-----------------------------------------------------------------------------
(* Numbering the groups. *)

(* h counts the drops of f up to each node. *)
Drops(f, h) ==
  /\ h \in [Nodes -> Nat] /\ h[0] = 0
  /\ \A x \in Nodes : x # 0 => h[x] = h[x - 1] + (IF f[x] # f[x - 1] THEN 1 ELSE 0)

(* Then h tells the frequencies apart, and takes every number once it has  *)
(* taken a larger one.                                                     *)
LEMMA Stairs ==
  ASSUME NEW f, Falling(f), NEW h, Drops(f, h)
  PROVE  /\ \A x, y \in Nodes : h[x] = h[y] <=> f[x] = f[y]
         /\ \A x, y \in Nodes : x < y => h[x] <= h[y]
         /\ \A x \in Nodes : \A v \in 0..h[x] : \E y \in Nodes : h[y] = v
<1>1. /\ h \in [Nodes -> Nat] /\ h[0] = 0
      /\ \A x \in Nodes : x # 0 => h[x] = h[x - 1] + (IF f[x] # f[x - 1] THEN 1 ELSE 0)
  BY DEF Drops
<1>2. /\ \A x \in Nodes : f[x] \in Nat
      /\ \A x, y \in Nodes : x < y => f[y] <= f[x]
  BY DEF Falling
<1>3. /\ \A x \in Nodes : x \in Nat
      /\ \A x \in Nodes : x # 0 => x - 1 \in Nodes /\ x > 0
      /\ 0 \in Nodes /\ Nodes \subseteq Nat
  BY NodeNumbers
<1>4. \A x \in Nodes : h[x] \in Nat
  BY ONLY <1>1
<1>5. \A x \in Nodes : x # 0 =>
        /\ h[x] = h[x - 1] \/ h[x] = h[x - 1] + 1
        /\ f[x] # f[x - 1] => h[x] = h[x - 1] + 1
        /\ f[x] = f[x - 1] => h[x] = h[x - 1]
        /\ h[x - 1] \in Nat /\ h[x] \in Nat
  BY ONLY <1>1, <1>3, <1>4
<1>6. ASSUME NEW x \in Nodes, NEW y \in Nodes, x < y PROVE h[x] <= h[y]
  <2> DEFINE S == {z \in Nodes : x < z /\ ~(h[x] <= h[z])}
  <2>1. SUFFICES ASSUME y \in S PROVE FALSE
    BY <1>6
  <2>2. S \in SUBSET Nat /\ S # {}
    BY <1>3, <2>1
  <2>3. PICK z \in S : \A u \in S : z <= u
    <3> HIDE DEF S
    <3> QED BY ONLY <2>2, Least
  <2>4. z \in Nodes /\ x < z /\ ~(h[x] <= h[z]) /\ z \in Nat /\ x \in Nat
    BY <1>3, <2>3
  <2>5. z # 0 /\ z - 1 \in Nodes /\ z - 1 \in Nat /\ z - 1 < z
    BY ONLY <1>3, <2>4
  <2>6. z - 1 \notin S
    <3> HIDE DEF S
    <3> QED BY ONLY <2>3, <2>4, <2>5
  <2>7. x < z - 1 => h[x] <= h[z - 1]
    BY ONLY <2>5, <2>6 DEF S
  <2>8. ~(x < z - 1) => x = z - 1
    BY ONLY <2>4
  <2>9. h[x] <= h[z - 1]
    BY ONLY <1>4, <2>7, <2>8, x \in Nodes
  <2>10. h[z - 1] <= h[z]
    BY ONLY <1>5, <2>4, <2>5
  <2> QED BY ONLY <1>4, <2>4, <2>5, <2>9, <2>10, x \in Nodes
<1>7. ASSUME NEW x \in Nodes, NEW y \in Nodes, x < y PROVE h[x] = h[y] <=> f[x] = f[y]
  <2> DEFINE S == {z \in Nodes : x < z /\ ~(h[x] = h[z] <=> f[x] = f[z])}
  <2>1. SUFFICES ASSUME y \in S PROVE FALSE
    BY <1>7
  <2>2. S \in SUBSET Nat /\ S # {}
    BY <1>3, <2>1
  <2>3. PICK z \in S : \A u \in S : z <= u
    <3> HIDE DEF S
    <3> QED BY ONLY <2>2, Least
  <2>4. z \in Nodes /\ x < z /\ z \in Nat /\ x \in Nat
    BY <1>3, <2>3
  <2>not. ~(h[x] = h[z] <=> f[x] = f[z])
    BY ONLY z \in S DEF S
  <2>5. z # 0 /\ z - 1 \in Nodes /\ z - 1 \in Nat /\ z - 1 < z
    BY ONLY <1>3, <2>4
  <2>6. z - 1 \notin S
    <3> HIDE DEF S
    <3> QED BY ONLY <2>3, <2>4, <2>5
  <2>7. x < z - 1 => (h[x] = h[z - 1] <=> f[x] = f[z - 1])
    BY ONLY <2>5, <2>6 DEF S
  <2>8. ~(x < z - 1) => x = z - 1
    BY ONLY <2>4
  <2>9. h[x] = h[z - 1] <=> f[x] = f[z - 1]
    BY ONLY <2>7, <2>8
  <2>10. h[x] <= h[z - 1] /\ f[z - 1] <= f[x] /\ f[z] <= f[z - 1]
    <3>1. x < z - 1 => h[x] <= h[z - 1] /\ f[z - 1] <= f[x]
      BY ONLY <1>2, <1>6, <2>5, x \in Nodes
    <3>2. f[z] <= f[z - 1]
      BY ONLY <1>2, <2>4, <2>5
    <3> QED BY ONLY <1>2, <1>4, <2>8, <3>1, <3>2, x \in Nodes
  <2>11. h[x] \in Nat /\ h[z] \in Nat /\ h[z - 1] \in Nat /\ f[x] \in Nat /\ f[z] \in Nat /\ f[z - 1] \in Nat
    BY ONLY <1>2, <1>4, <2>4, <2>5, x \in Nodes
  <2>12. /\ h[z] = h[z - 1] \/ h[z] = h[z - 1] + 1
         /\ f[z] # f[z - 1] => h[z] = h[z - 1] + 1
         /\ f[z] = f[z - 1] => h[z] = h[z - 1]
    BY ONLY <1>5, <2>4, <2>5
  <2> QED BY ONLY <2>9, <2>10, <2>11, <2>12, <2>not
<1>8. ASSUME NEW x \in Nodes, NEW v \in 0..h[x] PROVE \E y \in Nodes : h[y] = v
  <2> DEFINE S == {z \in Nodes : h[z] >= v}
  <2>1. v \in Nat /\ v <= h[x]
    BY ONLY <1>4, x \in Nodes, v \in 0..h[x]
  <2>2. S \in SUBSET Nat /\ S # {}
    BY <1>3, <1>4, <2>1
  <2>3. PICK z \in S : \A u \in S : z <= u
    <3> HIDE DEF S
    <3> QED BY ONLY <2>2, Least
  <2>4. z \in Nodes /\ h[z] >= v /\ z \in Nat /\ h[z] \in Nat
    BY <1>3, <1>4, <2>3
  <2>5. CASE z = 0
    BY ONLY <1>1, <1>3, <2>1, <2>4, <2>5
  <2>6. CASE z # 0
    <3>1. z - 1 \in Nodes /\ z - 1 \in Nat /\ z - 1 < z
      BY ONLY <1>3, <2>4, <2>6
    <3>2. z - 1 \notin S
      <4> HIDE DEF S
      <4> QED BY ONLY <2>3, <2>4, <3>1
    <3>3. h[z - 1] < v
      BY <1>4, <2>1, <3>1, <3>2
    <3> QED BY ONLY <1>5, <2>1, <2>4, <2>6, <3>1, <3>3
  <2> QED BY ONLY <2>5, <2>6
<1>9. \A x, y \in Nodes : h[x] = h[y] <=> f[x] = f[y]
  <2>1. \A x, y \in Nodes : x = y \/ x < y \/ y < x
    BY ONLY <1>3
  <2> QED BY ONLY <1>7, <2>1
<1> QED BY ONLY <1>6, <1>8, <1>9

(* A numbering of the frequencies from 0 to H, the first node of each      *)
(* number, and all numbers in their places: the groups of a fresh tree.    *)
LEMMA Numbered ==
  ASSUME NEW f, NEW g \in [Nodes -> Nodes], NEW ld \in [Nodes -> Nodes], NEW gs, gs = [j \in Nodes |-> j],
         NEW H \in Nodes,
         \A x, y \in Nodes : g[x] = g[y] <=> f[x] = f[y],
         \A x \in Nodes : g[x] <= H,
         \A v \in 0..H : \E x \in Nodes : g[x] = v,
         \A x \in Nodes : g[ld[g[x]]] = g[x] /\ ld[g[x]] <= x
  PROVE  Grouped(f, g, ld) /\ Allotted(g, gs, H + 1)
<1>1. Grouped(f, g, ld)
  BY DEF Grouped
<1>2. H \in Nat /\ \A x \in Nodes : g[x] \in Nat /\ x \in Nat
  BY NodeNumbers
<1>3. Used(g) = 0..H
  <2>1. \A v \in Used(g) : v \in 0..H
    BY <1>2 DEF Used
  <2>2. \A v \in 0..H : v \in Used(g)
    BY DEF Used
  <2> QED BY ONLY <2>1, <2>2
<1>4. Cardinality(Used(g)) = H + 1
  <2>1. Cardinality(0..H) = H + 1
    BY ONLY <1>2, FS_Interval
  <2> QED BY ONLY <1>3, <2>1
<1>5. gs \in [Nodes -> Nodes] /\ \A j \in Nodes : gs[j] = j
  OBVIOUS
<1>6. \A j \in Nodes : j >= H + 1 => gs[j] \notin Used(g)
  BY ONLY <1>2, <1>3, <1>5
<1>7. Allotted(g, gs, H + 1)
  BY ONLY <1>2, <1>4, <1>5, <1>6 DEF Allotted
<1> QED BY ONLY <1>1, <1>7

(* The numbers that rebuild_tree gives count the drops. *)
LEMMA NewGroupDrops ==
  ASSUME nodes \in [Nodes -> NodeRecords], NEW h, h = [x \in Nodes |-> NewGroup(x)]
  PROVE  Drops(FreqOf, h) /\ h \in [Nodes -> Nodes]
<1> DEFINE D == {j \in 1..NumNodes-1 : FreqOf[j] # FreqOf[j-1]}
<1>1. \A x \in Nodes : FreqOf[x] = nodes[x].freq
  BY Parts
<1>2. /\ NumNodes \in Nat /\ NumNodes >= 3 /\ 0 \in Nodes
      /\ \A x \in Nodes : x \in Nat /\ x < NumNodes /\ x + 1 \in Nat
      /\ \A x \in Nodes : x # 0 => x - 1 \in Nodes /\ x - 1 \in Nat /\ (x - 1) + 1 = x
      /\ \A j \in 1..NumNodes-1 : j \in Nodes /\ j - 1 \in Nodes
  BY Sizes
<1>3. \A x \in Nodes : \A j \in 1..x : j \in Nodes /\ j - 1 \in Nodes /\ j \in 1..NumNodes-1 /\ j < x + 1
  BY Sizes
<1>4. \A x \in Nodes : \A j \in 1..NumNodes-1 : j < x + 1 => j \in 1..x
  BY ONLY <1>2
<1>5. D \in SUBSET (0..NumNodes-1)
  OBVIOUS
<1>6. /\ Before(D, 0) = 0
      /\ \A x \in Nat : /\ Before(D, x) \in Nat
                        /\ Before(D, x + 1) = IF x \in D THEN Before(D, x) + 1 ELSE Before(D, x)
  <2> HIDE DEF D
  <2> QED BY ONLY <1>2, <1>5, BeforeSteps
<1>7. \A x \in Nodes : x \in D <=> x # 0 /\ FreqOf[x] # FreqOf[x - 1]
  <2>1. \A x \in Nodes : x \in 1..NumNodes-1 <=> x # 0
    BY Sizes
  <2> QED BY <2>1
<1>8. ASSUME NEW x \in Nodes PROVE NewGroup(x) = Before(D, x + 1)
  <2>1. {j \in 1..x : nodes[j].freq # nodes[j-1].freq} = {y \in D : y < x + 1}
    <3>1. ASSUME NEW j, j \in 1..x, nodes[j].freq # nodes[j-1].freq PROVE j \in D /\ j < x + 1
      BY <1>1, <1>3, <3>1
    <3>2. ASSUME NEW j, j \in D, j < x + 1 PROVE j \in 1..x /\ nodes[j].freq # nodes[j-1].freq
      BY <1>1, <1>2, <1>4, <3>2
    <3> HIDE DEF D
    <3> QED BY <3>1, <3>2
  <2> QED BY ONLY <2>1 DEF NewGroup, Before
<1> HIDE DEF D
<1>9. \A x \in Nodes : h[x] = Before(D, x + 1) /\ h[x] \in Nat
  BY ONLY <1>2, <1>6, <1>8, h = [x \in Nodes |-> NewGroup(x)]
<1>10. h \in [Nodes -> Nat]
  <2>1. h = [x \in Nodes |-> h[x]]
    BY ONLY h = [x \in Nodes |-> NewGroup(x)]
  <2> QED BY ONLY <1>9, <2>1
<1>11. h[0] = 0
  <2>1. 0 + 1 = 1 /\ 0 \in Nat /\ 0 \notin D
    BY ONLY <1>2, <1>7
  <2> QED BY ONLY <1>2, <1>6, <1>9, <2>1
<1>12. ASSUME NEW x \in Nodes, x # 0 PROVE h[x] = h[x - 1] + (IF FreqOf[x] # FreqOf[x - 1] THEN 1 ELSE 0)
  <2>1. x - 1 \in Nodes /\ (x - 1) + 1 = x /\ x \in Nat
    BY ONLY <1>2, <1>12, x \in Nodes
  <2>2. h[x] = Before(D, x + 1) /\ h[x - 1] = Before(D, x) /\ h[x - 1] \in Nat
    BY ONLY <1>9, <2>1, x \in Nodes
  <2>3. Before(D, x + 1) = IF x \in D THEN Before(D, x) + 1 ELSE Before(D, x)
    BY ONLY <1>6, <2>1
  <2>4. x \in D <=> FreqOf[x] # FreqOf[x - 1]
    BY ONLY <1>7, <1>12, x \in Nodes
  <2> QED BY ONLY <2>2, <2>3, <2>4
<1>13. Drops(FreqOf, h)
  BY ONLY <1>10, <1>11, <1>12 DEF Drops
<1>14. ASSUME NEW x \in Nodes PROVE h[x] \in Nodes
  <2>1. IsFiniteSet(1..x) /\ Cardinality(1..x) = x
    <3>1. x \in Nat /\ x \in Int /\ 1 \in Int
      BY ONLY <1>2, x \in Nodes
    <3>2. IsFiniteSet(1..x) /\ Cardinality(1..x) = IF 1 > x THEN 0 ELSE x - 1 + 1
      BY ONLY <3>1, FS_Interval
    <3> QED BY ONLY <3>1, <3>2
  <2>2. {j \in 1..x : nodes[j].freq # nodes[j-1].freq} \subseteq 1..x
    OBVIOUS
  <2>3. NewGroup(x) <= x
    BY ONLY <2>1, <2>2, FS_Subset DEF NewGroup
  <2>4. h[x] = NewGroup(x)
    BY ONLY x \in Nodes, h = [y \in Nodes |-> NewGroup(y)]
  <2>5. \A y \in Nat : y < NumNodes => y \in Nodes
    BY NodeNumbers
  <2> QED BY ONLY <1>2, <1>9, <2>3, <2>4, <2>5, x \in Nodes
<1>15. h \in [Nodes -> Nodes]
  <2>1. h = [x \in Nodes |-> h[x]]
    BY ONLY h = [x \in Nodes |-> NewGroup(x)]
  <2> QED BY ONLY <1>14, <2>1
<1> QED BY ONLY <1>13, <1>15

(* The first node of a group that is in use. *)
LEMMA FirstOf ==
  ASSUME NEW h \in [Nodes -> Nodes], NEW x \in Nodes
  PROVE  \E i \in Nodes : h[i] = h[x] /\ i <= x /\ \A j \in 0..i-1 : h[j] # h[x]
<1> DEFINE S == {i \in Nodes : h[i] = h[x]}
<1>1. S \in SUBSET Nat /\ S # {}
  BY NodeNumbers
<1>2. PICK i \in S : \A u \in S : i <= u
  <2> HIDE DEF S
  <2> QED BY ONLY <1>1, Least
<1>3. i \in Nodes /\ h[i] = h[x] /\ i <= x
  BY <1>2
<1>4. \A j \in 0..i-1 : j \in Nodes /\ ~(i <= j)
  BY <1>3, Sizes
<1>5. \A j \in 0..i-1 : h[j] # h[x]
  BY <1>2, <1>4
<1> QED BY ONLY <1>3, <1>5

Regrouped(r, n, G) == [r EXCEPT !.group = G, !.freq = n]

(* Fields of a changed record. *)
LEMMA RegroupedRecord ==
  ASSUME NEW r \in NodeRecords, NEW n \in Nat, NEW G \in Nodes
  PROVE  /\ Regrouped(r, n, G) \in NodeRecords
         /\ Regrouped(r, n, G).entry = r.entry /\ Regrouped(r, n, G).parent = r.parent
         /\ Regrouped(r, n, G).freq = n /\ Regrouped(r, n, G).group = G
BY DEF NodeRecords, Regrouped

(* Arrays that agree everywhere are equal. *)
LEMMA SameArray ==
  ASSUME NEW S, NEW T, NEW a \in [S -> T], NEW b \in [S -> T], \A x \in S : a[x] = b[x]
  PROVE  a = b
OBVIOUS

(* The end of rebuild_tree makes the tree whole again, and the walk to the *)
(* leaf of the waiting value begins.                                       *)
LEMMA RegroupKeeps ==
  ASSUME nodes \in [Nodes -> NodeRecords], leaders \in [Nodes -> Nodes], cur \in Values,
         NEW tf, NEW tv, Built(0, 0, tf, tv, FreqOf, LeafNodes, ArgOf, UpOf, leaves), Regroup
  PROVE  TreeOK(cur)' /\ cur' \in Nodes
<1> DEFINE h == [x \in Nodes |-> NewGroup(x)]
           H == h[NumNodes - 1]
           f == FreqOf
           f1 == FreqOf'
<1>0. nodes' = [i \in Nodes |->
        Regrouped(nodes[i], IF i = 0 THEN nodes[i].freq + 1 ELSE nodes[i].freq, NewGroup(i))]
  BY ONLY Regroup, Zenon DEF Regroup, Regrouped
<1>1. /\ ngroups' = NewGroup(NumNodes - 1) + 1
      /\ groups' = [j \in Nodes |-> j]
      /\ leaders' = [g \in Nodes |->
            IF g > NewGroup(NumNodes - 1) THEN leaders[g]
            ELSE CHOOSE i \in Nodes : NewGroup(i) = g /\ \A j \in 0..i-1 : NewGroup(j) # g]
      /\ cur' = leaves[cur] /\ leaves' = leaves
  BY ONLY Regroup, Zenon DEF Regroup
<1>2. /\ Linked(LeafNodes, ArgOf, UpOf, leaves) /\ Falling(f) /\ Summed(f, LeafNodes, ArgOf, 0)
      /\ Weighed(f, LeafNodes, leaves, 0) /\ f[0] < ReorderLimit
  BY BuiltEnds
<1>3. Drops(f, h) /\ h \in [Nodes -> Nodes]
  BY NewGroupDrops
<1>4. /\ \A x, y \in Nodes : h[x] = h[y] <=> f[x] = f[y]
      /\ \A x, y \in Nodes : x < y => h[x] <= h[y]
      /\ \A x \in Nodes : \A v \in 0..h[x] : \E y \in Nodes : h[y] = v
  <2> HIDE DEF h
  <2> QED BY ONLY <1>2, <1>3, Stairs
<1>5. /\ NumNodes - 1 \in Nodes /\ \A x \in Nodes : x = NumNodes - 1 \/ x < NumNodes - 1
      /\ 0 \in Nodes /\ \A x \in Nodes : x \in Nat
      /\ \A i \in Nodes : \A j \in 0..i-1 : j \in Nodes
  BY Sizes
<1>6. \A x \in Nodes : h[x] = NewGroup(x)
  OBVIOUS
<1>7. H \in Nodes /\ H \in Nat /\ NewGroup(NumNodes - 1) = H
  BY ONLY <1>3, <1>5, <1>6
<1> HIDE DEF f, f1
<1>8. \A x \in Nodes : h[x] <= H /\ h[x] \in Nat
  <2> HIDE DEF h
  <2> QED BY ONLY <1>3, <1>4, <1>5, <1>7
<1>9. ASSUME NEW g \in Nodes
      PROVE  /\ leaders'[g] \in Nodes
             /\ g <= H => h[leaders'[g]] = g /\ \A j \in 0..leaders'[g]-1 : h[j] # g
  <2>1. CASE g > H
    <3>1. leaders'[g] = leaders[g]
      BY ONLY <1>1, <1>7, <2>1, g \in Nodes
    <3> QED BY ONLY <1>5, <1>7, <2>1, <3>1, g \in Nodes, leaders \in [Nodes -> Nodes]
  <2>2. CASE ~(g > H)
    <3>1. leaders'[g] = CHOOSE i \in Nodes : NewGroup(i) = g /\ \A j \in 0..i-1 : NewGroup(j) # g
      BY ONLY <1>1, <1>7, <2>2, g \in Nodes
    <3>2. g \in 0..H
      BY ONLY <1>5, <1>7, <2>2, g \in Nodes
    <3>3. PICK x \in Nodes : h[x] = g
      <4> HIDE DEF h
      <4> QED BY ONLY <1>4, <1>5, <3>2
    <3>4. PICK i \in Nodes : h[i] = h[x] /\ \A j \in 0..i-1 : h[j] # h[x]
      <4> HIDE DEF h
      <4> QED BY ONLY <1>3, x \in Nodes, FirstOf
    <3>5. NewGroup(i) = g /\ \A j \in 0..i-1 : NewGroup(j) # g
      BY ONLY <1>5, <1>6, <3>3, <3>4, i \in Nodes
    <3>6. /\ leaders'[g] \in Nodes /\ NewGroup(leaders'[g]) = g
          /\ \A j \in 0..leaders'[g]-1 : NewGroup(j) # g
      BY ONLY <3>1, <3>5, i \in Nodes
    <3> QED BY ONLY <1>5, <1>6, <3>6
  <2> QED BY ONLY <2>1, <2>2
<1>10. leaders' \in [Nodes -> Nodes]
  <2>1. leaders' = [g \in Nodes |-> leaders'[g]]
    BY ONLY <1>1
  <2> QED BY ONLY <1>9, <2>1
<1>11. \A x \in Nodes : h[leaders'[h[x]]] = h[x] /\ leaders'[h[x]] <= x
  <2>1. ASSUME NEW x \in Nodes PROVE h[leaders'[h[x]]] = h[x] /\ leaders'[h[x]] <= x
    <3> HIDE DEF h
    <3>1. h[x] \in Nodes /\ h[x] <= H
      BY ONLY <1>3, <1>8, x \in Nodes
    <3>2. PICK i \in Nodes : i = leaders'[h[x]]
      BY ONLY <1>10, <3>1
    <3>3. h[i] = h[x] /\ \A j \in 0..i-1 : h[j] # h[x]
      BY ONLY <1>9, <3>1, <3>2
    <3>4. i \in Nat /\ x \in Nat
      BY ONLY <1>5, i \in Nodes, x \in Nodes
    <3>5. ~(x < i)
      BY ONLY <3>3, <3>4
    <3> QED BY ONLY <3>2, <3>3, <3>4, <3>5
  <2> QED BY ONLY <2>1
<1>12. Grouped(f, h, leaders') /\ Allotted(h, groups', ngroups')
  <2>1. groups' = [j \in Nodes |-> j] /\ ngroups' = H + 1
    BY ONLY <1>1, <1>7
  <2>2. \A v \in 0..H : \E x \in Nodes : h[x] = v
    BY ONLY <1>4, <1>5
  <2> HIDE DEF h, H
  <2>3. Grouped(f, h, leaders') /\ Allotted(h, groups', H + 1)
    <3>1. /\ h \in [Nodes -> Nodes] /\ leaders' \in [Nodes -> Nodes] /\ H \in Nodes
          /\ \A x, y \in Nodes : h[x] = h[y] <=> f[x] = f[y]
          /\ \A x \in Nodes : h[x] <= H
      BY ONLY <1>3, <1>4, <1>7, <1>8, <1>10
    <3>2. \A x \in Nodes : h[leaders'[h[x]]] = h[x] /\ leaders'[h[x]] <= x
      BY ONLY <1>11
    <3> QED BY ONLY <2>1, <2>2, <3>1, <3>2, Numbered
  <2> QED BY ONLY <2>1, <2>3
<1>13. Whole(f, LeafNodes, ArgOf, UpOf, leaves, h, leaders', groups', ngroups', 0)
  <2>1. f[0] <= ReorderLimit
    <3>1. f[0] \in Nat /\ ReorderLimit \in Nat
      BY ONLY <1>2, <1>5, ReorderLimitAssumption DEF Falling
    <3> QED BY ONLY <1>2, <3>1
  <2> QED BY ONLY <1>2, <1>5, <1>12, <2>1 DEF Whole
<1>14. leaves[cur] \in LeafNodes /\ leaves[cur] \in Nodes
  BY ONLY <1>2, cur \in Values DEF Linked, LeavesLinked, LinkTypes
<1>15. /\ \A x \in Nodes : f[x] = nodes[x].freq /\ ArgOf[x] = nodes[x].entry.arg
                           /\ UpOf[x] = nodes[x].parent /\ (x \in LeafNodes <=> nodes[x].entry.leaf)
       /\ f \in [Nodes -> Nat] /\ ArgOf \in [Nodes -> Nat] /\ UpOf \in [Nodes -> Nodes]
       /\ LeafNodes \subseteq Nodes
  BY Parts DEF f
<1>16. /\ nodes' \in [Nodes -> NodeRecords]
       /\ \A x \in Nodes :
            /\ nodes'[x].entry = nodes[x].entry /\ nodes'[x].parent = nodes[x].parent
            /\ nodes'[x].freq = IF x = 0 THEN f[x] + 1 ELSE f[x]
            /\ nodes'[x].group = h[x]
  <2>1. ASSUME NEW x \in Nodes
        PROVE  /\ nodes'[x] \in NodeRecords
               /\ nodes'[x].entry = nodes[x].entry /\ nodes'[x].parent = nodes[x].parent
               /\ nodes'[x].freq = IF x = 0 THEN f[x] + 1 ELSE f[x]
               /\ nodes'[x].group = h[x]
    <3>1. nodes[x] \in NodeRecords /\ NewGroup(x) \in Nodes /\ f[x] \in Nat
      BY ONLY <1>3, <1>6, <1>15, x \in Nodes, nodes \in [Nodes -> NodeRecords]
    <3>2. PICK n \in Nat : n = IF x = 0 THEN f[x] + 1 ELSE f[x]
      BY ONLY <3>1
    <3>3. PICK r \in NodeRecords, G \in Nodes : r = nodes[x] /\ G = NewGroup(x)
      BY ONLY <3>1
    <3>4. nodes'[x] = Regrouped(r, n, G)
      BY ONLY <1>0, <1>15, <3>2, <3>3, x \in Nodes
    <3>5. /\ Regrouped(r, n, G) \in NodeRecords
          /\ Regrouped(r, n, G).entry = r.entry /\ Regrouped(r, n, G).parent = r.parent
          /\ Regrouped(r, n, G).freq = n /\ Regrouped(r, n, G).group = G
      BY ONLY r \in NodeRecords, n \in Nat, G \in Nodes, RegroupedRecord
    <3>6. G = h[x]
      BY ONLY <1>6, <3>3, x \in Nodes
    <3> HIDE DEF h
    <3> QED BY ONLY <3>2, <3>3, <3>4, <3>5, <3>6, Zenon
  <2>2. nodes' = [x \in Nodes |-> nodes'[x]]
    BY ONLY <1>0
  <2> QED BY ONLY <2>1, <2>2
<1>17. /\ \A x \in Nodes : f1[x] = nodes'[x].freq /\ ArgOf'[x] = nodes'[x].entry.arg
                           /\ UpOf'[x] = nodes'[x].parent /\ GroupsOf'[x] = nodes'[x].group
                           /\ (x \in LeafNodes' <=> nodes'[x].entry.leaf)
       /\ f1 \in [Nodes -> Nat] /\ ArgOf' \in [Nodes -> Nat] /\ UpOf' \in [Nodes -> Nodes]
       /\ GroupsOf' \in [Nodes -> Nodes] /\ LeafNodes' \subseteq Nodes
  BY ONLY <1>16, PartsNext DEF f1
<1> HIDE DEF h, H
<1>18. CountedFreqs(f, 0, f1)
  BY ONLY <1>15, <1>16, <1>17 DEF CountedFreqs
<1>19. Whole(f1, LeafNodes, ArgOf, UpOf, leaves, h, leaders', groups', ngroups', leaves[cur])
  BY ONLY <1>2, <1>13, <1>14, <1>18, RootCounted
<1>20. LeafNodes' = LeafNodes
  <2>1. \A x \in Nodes : x \in LeafNodes' <=> x \in LeafNodes
    <3>1. ASSUME NEW x \in Nodes PROVE x \in LeafNodes' <=> x \in LeafNodes
      <4>1. nodes'[x].entry = nodes[x].entry
        BY ONLY x \in Nodes, <1>16
      <4> QED BY ONLY <1>15, <1>17, <4>1, x \in Nodes
    <3> QED BY ONLY <3>1
  <2> QED BY ONLY <1>15, <1>17, <2>1
<1>21. ArgOf' = ArgOf
  <2>1. ASSUME NEW x \in Nodes PROVE ArgOf'[x] = ArgOf[x]
    <3>1. nodes'[x].entry = nodes[x].entry
      BY ONLY x \in Nodes, <1>16
    <3> QED BY ONLY <1>15, <1>17, <3>1, x \in Nodes
  <2> QED BY ONLY <1>15, <1>17, <2>1, SameArray
<1>22. UpOf' = UpOf
  <2>1. \A x \in Nodes : UpOf'[x] = UpOf[x]
    BY ONLY <1>15, <1>16, <1>17
  <2> QED BY ONLY <1>15, <1>17, <2>1, SameArray
<1>23. GroupsOf' = h
  <2>1. \A x \in Nodes : GroupsOf'[x] = h[x]
    BY ONLY <1>16, <1>17
  <2> QED BY ONLY <1>3, <1>17, <2>1, SameArray
<1>24. TreeOK(cur)'
  BY ONLY <1>1, <1>16, <1>19, <1>20, <1>21, <1>22, <1>23 DEF TreeOK, f1
<1> QED BY ONLY <1>1, <1>14, <1>24

-----------------------------------------------------------------------------
(* One turn of the loop of rebuild_tree. *)

(* The leaves that are needed are there, and leave a slot for the branch.  *)
LEMMA StepNeeds ==
  ASSUME NEW m, NEW w, BuiltSizes(m, w), m >= 1, NEW need, need = Needed(m + 1 - w)
  PROVE  /\ need \in Nat /\ need <= w /\ w - need \in Nat /\ w - need <= m - 1
         /\ \A k \in Nat : k > w - need /\ k <= w => k = m \/ k = m + 1
<1>1. /\ m \in Nat /\ w \in Nat /\ m >= 1
      /\ w <= m \/ (m = NumLeaves - 1 /\ w = NumLeaves)
      /\ NumLeaves \in Nat
  BY Sizes DEF BuiltSizes
<1>2. w <= m + 1
  BY ONLY <1>1
<1>3. need = IF m + 1 - w < 2 THEN 2 - (m + 1 - w) ELSE 0
  BY DEF Needed
<1>4. CASE w = m + 1
  <2>1. need = 2
    BY ONLY <1>1, <1>3, <1>4
  <2> QED BY ONLY <1>1, <1>4, <2>1
<1>5. CASE w = m
  <2>1. need = 1
    BY ONLY <1>1, <1>3, <1>5
  <2> QED BY ONLY <1>1, <1>5, <2>1
<1>6. CASE w < m
  <2>1. need = 0
    BY ONLY <1>1, <1>3, <1>6
  <2> QED BY ONLY <1>1, <1>6, <2>1
<1> QED BY ONLY <1>1, <1>2, <1>4, <1>5, <1>6

(* c more leaves are no more frequent than b, and then one is, or no more  *)
(* are left.                                                               *)
Enough(q, b, tf, c) ==
  /\ \A j \in 1..c : b >= tf[q + 1 - j]
  /\ c < q => b < tf[q - c]

(* There is such a number. *)
LEMMA MoreExists ==
  ASSUME NEW q \in Nat, NEW b \in Nat, NEW tf, \A k \in 1..q : tf[k] \in Nat
  PROVE  \E c \in 0..q : Enough(q, b, tf, c)
<1> DEFINE S == {c \in 0..q : c < q => b < tf[q - c]}
<1>1. S \in SUBSET Nat /\ q \in S
  OBVIOUS
<1>2. PICK c \in S : \A u \in S : c <= u
  <2> HIDE DEF S
  <2>1. S # {}
    BY ONLY <1>1
  <2> QED BY ONLY <1>1, <2>1, Least
<1>3. c \in 0..q /\ (c < q => b < tf[q - c])
  OBVIOUS
<1>4. ASSUME NEW j \in 1..c PROVE b >= tf[q + 1 - j]
  <2>1. j - 1 \in 0..q /\ j - 1 < q /\ ~(c <= j - 1) /\ q - (j - 1) = q + 1 - j /\ q + 1 - j \in 1..q
    BY ONLY <1>3, q \in Nat, j \in 1..c
  <2>2. j - 1 \notin S
    <3> HIDE DEF S
    <3> QED BY ONLY <1>2, <2>1
  <2>3. ~(b < tf[q - (j - 1)])
    BY ONLY <2>1, <2>2 DEF S
  <2>4. tf[q + 1 - j] \in Nat
    BY ONLY <2>1, \A k \in 1..q : tf[k] \in Nat
  <2>5. ~(b < tf[q + 1 - j])
    BY ONLY <2>1, <2>3
  <2> QED BY ONLY <2>4, <2>5, b \in Nat
<1> QED BY ONLY <1>3, <1>4 DEF Enough

(* What the chosen number of leaves means. *)
LEMMA StepChosen ==
  ASSUME NEW m, NEW w, BuiltSizes(m, w), m >= 1, NEW need, need = Needed(m + 1 - w),
         NEW tf \in [Ranks -> Nat], NEW b1 \in Nat, NEW b2 \in Nat, NEW b, b = b1 + b2,
         w + m > 2*m - 1 => b1 = tf[m], w + m > 2*m => b2 = tf[m + 1],
         NEW c \in 0..w-need, Enough(w - need, b, tf, c), NEW w1, w1 = w - (need + c)
  PROVE  /\ w1 \in Nat /\ w1 <= w /\ w1 <= m - 1
         /\ \A k \in Ranks : w1 < k /\ k <= w => tf[k] <= b
         /\ w1 >= 1 => b < tf[w1]
<1>1. /\ need \in Nat /\ need <= w /\ w - need \in Nat /\ w - need <= m - 1
      /\ \A k \in Nat : k > w - need /\ k <= w => k = m \/ k = m + 1
  BY ONLY BuiltSizes(m, w), m >= 1, need = Needed(m + 1 - w), StepNeeds
<1>2. m \in Nat /\ w \in Nat /\ NumLeaves \in Nat
  BY Sizes DEF BuiltSizes
<1>3. PICK q \in Nat : q = w - need
  BY ONLY <1>1
<1>4. /\ \A j \in 1..c : b >= tf[q + 1 - j]
      /\ c < q => b < tf[q - c]
  BY ONLY <1>3, Enough(w - need, b, tf, c) DEF Enough
<1>5. c \in Nat /\ c <= q /\ w1 = q - c /\ w1 \in Nat /\ w1 <= w /\ w1 <= m - 1 /\ q <= w
  BY ONLY <1>1, <1>2, <1>3, c \in 0..w-need, w1 = w - (need + c)
<1>6. ASSUME NEW k \in Ranks, w1 < k, k <= w PROVE tf[k] <= b
  <2>1. k \in Nat /\ tf[k] \in Nat
    BY <1>2 DEF Ranks
  <2>2. CASE k <= q
    <3>1. PICK j \in Int : j = q + 1 - k
      BY ONLY <2>1, q \in Nat
    <3>2. j \in 1..c /\ q + 1 - j = k
      BY ONLY <1>5, <1>6, <2>1, <2>2, <3>1, q \in Nat, j \in Int
    <3>3. b >= tf[k]
      BY ONLY <1>4, <3>2
    <3> QED BY ONLY <2>1, <3>3, b = b1 + b2, b1 \in Nat, b2 \in Nat
  <2>3. CASE k > q
    <3>1. k = m \/ k = m + 1
      BY ONLY <1>1, <1>3, <1>6, <2>1, <2>3
    <3>2. CASE k = m
      <4>1. w + m > 2*m - 1
        BY ONLY <1>2, <1>6, <3>2
      <4> QED BY ONLY <2>1, <3>2, <4>1, b = b1 + b2, b1 \in Nat, b2 \in Nat, w + m > 2*m - 1 => b1 = tf[m]
    <3>3. CASE k = m + 1
      <4>1. w + m > 2*m
        BY ONLY <1>2, <1>6, <3>3
      <4> QED BY ONLY <2>1, <3>3, <4>1, b = b1 + b2, b1 \in Nat, b2 \in Nat, w + m > 2*m => b2 = tf[m + 1]
    <3> QED BY ONLY <3>1, <3>2, <3>3
  <2> QED BY ONLY <2>1, <2>2, <2>3, q \in Nat
<1>7. w1 >= 1 => b < tf[w1]
  BY ONLY <1>4, <1>5, q \in Nat
<1> QED BY ONLY <1>5, <1>6, <1>7

PlacedRecord(r, e, n) == [r EXCEPT !.entry = e, !.freq = n]
ChildRecord(r, p)     == [r EXCEPT !.parent = p]

(* Fields of changed records. *)
LEMMA PlacedFields ==
  ASSUME NEW r \in NodeRecords, NEW e \in Entry, NEW n \in Nat, NEW p \in Nodes
  PROVE  /\ PlacedRecord(r, e, n) \in NodeRecords
         /\ PlacedRecord(r, e, n).entry = e /\ PlacedRecord(r, e, n).freq = n
         /\ PlacedRecord(r, e, n).parent = r.parent /\ PlacedRecord(r, e, n).group = r.group
         /\ ChildRecord(r, p) \in NodeRecords
         /\ ChildRecord(r, p).entry = r.entry /\ ChildRecord(r, p).freq = r.freq
         /\ ChildRecord(r, p).parent = p /\ ChildRecord(r, p).group = r.group
BY DEF NodeRecords, PlacedRecord, ChildRecord

(* The place that rebuild_tree has reached: m branches and w leaves are    *)
(* still to be placed.                                                     *)
Progress(T, m, w) == [taken |-> T, left |-> w, len |-> 2*m + 1, target |-> w + m]
Listed(T, tf, tv) == \A k \in Ranks : T[k].freq = tf[k] /\ T[k].value = tv[k]

(* One turn of the loop of rebuild_tree keeps what is known of the array.  *)
LEMMA RebuildStepKeeps ==
  ASSUME nodes \in [Nodes -> NodeRecords], NEW T, NEW m, NEW w, NEW tf, NEW tv,
         rebuild = Progress(T, m, w), Listed(T, tf, tv),
         Built(m, w, tf, tv, FreqOf, LeafNodes, ArgOf, UpOf, leaves), RebuildStep
  PROVE  /\ nodes' \in [Nodes -> NodeRecords] /\ m >= 1
         /\ \E w1 : rebuild' = Progress(T, m - 1, w1)
                    /\ Built(m - 1, w1, tf, tv, FreqOf', LeafNodes', ArgOf', UpOf', leaves')
<1> DEFINE len    == rebuild.len
           target == rebuild.target
           left   == rebuild.left
           need   == Needed(len - target)
           LeafFor(i) == rebuild.taken[left - (target - 1 - i)]
           Freq(i)    == IF i >= target THEN nodes[i].freq ELSE LeafFor(i).freq
           branch_freq == Freq(len - 1) + Freq(len - 2)
           Fits(c) == /\ \A j \in 1..c : branch_freq >= rebuild.taken[left-need+1-j].freq
                      /\ c < left - need => branch_freq < rebuild.taken[left-need-c].freq
           more == CHOOSE c \in 0..left - need : Fits(c)
           index  == target - (need + more) - 1
           Placed(i) ==
             IF i = index THEN PlacedRecord(nodes[i], Branch(len - 1), branch_freq)
             ELSE IF i \in index+1..target-1
             THEN PlacedRecord(nodes[i], Leaf(LeafFor(i).value), LeafFor(i).freq)
             ELSE nodes[i]
           f == FreqOf
           L == LeafNodes
           ar == ArgOf
           pa == UpOf
<1>1. /\ len > 2
      /\ nodes' = [i \in Nodes |-> IF i \in {len - 1, len - 2}
                                   THEN ChildRecord(Placed(i), index) ELSE Placed(i)]
      /\ leaves' = [v \in Values |->
           IF \E i \in index+1..target-1 : LeafFor(i).value = v
           THEN CHOOSE i \in index+1..target-1 : LeafFor(i).value = v
           ELSE leaves[v]]
      /\ rebuild' = [rebuild EXCEPT !.left = @ - (need + more), !.len = @ - 2, !.target = index]
  BY ONLY RebuildStep, Zenon DEF RebuildStep, PlacedRecord, ChildRecord
<1>2. rebuild.taken = T /\ left = w /\ len = 2*m + 1 /\ target = w + m
  BY ONLY rebuild = Progress(T, m, w) DEF Progress
<1>3. /\ BuiltSizes(m, w) /\ TakenInOrder(tf, tv) /\ LinkTypes(L, ar, pa, leaves)
      /\ BuiltOrder(m, w, tf, f)
  BY DEF Built
<1>4. /\ m \in Nat /\ w \in Nat /\ m >= 1 /\ w <= NumLeaves /\ m <= NumLeaves - 1
      /\ NumLeaves \in Nat /\ w <= m + 1
  <2>0. len > 2
    BY ONLY <1>1, Zenon
  <2>1. m \in Nat /\ 2*m + 1 > 2
    BY ONLY <1>2, <1>3, <2>0 DEF BuiltSizes
  <2>2. m >= 1
    BY ONLY <2>1
  <2> QED BY <1>3, <2>1, <2>2, Sizes DEF BuiltSizes
<1>5. /\ tf \in [Ranks -> Nat] /\ tv \in [Ranks -> Values]
      /\ \A j, k \in Ranks : tv[j] = tv[k] => j = k
  BY <1>3 DEF TakenInOrder
<1>6. \A k \in Ranks : T[k].freq = tf[k] /\ T[k].value = tv[k] /\ tf[k] \in Nat /\ tv[k] \in Values
  BY <1>5 DEF Listed
<1>7. \A k \in Int : k \in Ranks <=> 1 <= k /\ k <= NumLeaves
  BY <1>4 DEF Ranks
<1>8. /\ \A x \in Nodes : f[x] = nodes[x].freq /\ ar[x] = nodes[x].entry.arg
                          /\ pa[x] = nodes[x].parent /\ (x \in L <=> nodes[x].entry.leaf)
      /\ \A x \in Nodes : nodes[x].entry \in Entry /\ nodes[x].freq \in Nat /\ nodes[x].parent \in Nodes
      /\ L \subseteq Nodes /\ f \in [Nodes -> Nat]
      /\ \A x \in Nodes : x \in Nat
  BY Parts, NodeNumbers
<1> HIDE DEF f, L, ar, pa
<1>9. need = Needed(m + 1 - w)
  <2>1. len - target = m + 1 - w
    BY ONLY <1>2, <1>4
  <2> QED BY ONLY <2>1
<1>10. \A i \in Nat : LeafFor(i) = T[i - m + 1]
  <2>1. \A i \in Nat : left - (target - 1 - i) = i - m + 1
    BY ONLY <1>2, <1>4
  <2> QED BY ONLY <1>2, <2>1
<1> HIDE DEF need, LeafFor
<1>11. need \in Nat /\ need <= w /\ w - need \in Nat /\ w - need <= m - 1
  BY ONLY <1>3, <1>4, <1>9, StepNeeds
<1>12. 2*m \in Nodes /\ 2*m - 1 \in Nodes /\ 2*m \in Nat /\ 2*m - 1 \in Nat /\ len - 1 = 2*m /\ len - 2 = 2*m - 1
  <2>1. 0 \in Nat /\ 0 <= w /\ 0 <= m - 1
    BY ONLY <1>4
  <2>2. 2*m \in Nodes /\ 2*m - 1 \in Nodes
    BY ONLY <1>3, <1>4, <2>1, StepNumbers
  <2> QED BY ONLY <1>2, <1>4, <2>2
<1>13. /\ Freq(2*m) \in Nat /\ Freq(2*m - 1) \in Nat
       /\ w + m > 2*m - 1 => Freq(2*m - 1) = tf[m] /\ Freq(2*m - 1) = LeafFor(2*m - 1).freq
       /\ w + m > 2*m => Freq(2*m) = tf[m + 1] /\ Freq(2*m) = LeafFor(2*m).freq
       /\ 2*m - 1 >= w + m => Freq(2*m - 1) = f[2*m - 1]
       /\ 2*m >= w + m => Freq(2*m) = f[2*m]
  <2>1. ASSUME w + m > 2*m - 1
        PROVE  /\ Freq(2*m - 1) \in Nat
               /\ Freq(2*m - 1) = tf[m] /\ Freq(2*m - 1) = LeafFor(2*m - 1).freq
    <3>1. Freq(2*m - 1) = LeafFor(2*m - 1).freq /\ ~(2*m - 1 >= w + m)
      BY ONLY <1>2, <1>4, <2>1
    <3>2. LeafFor(2*m - 1) = T[m] /\ m \in Ranks
      <4>1. (2*m - 1) - m + 1 = m /\ m \in Int
        BY ONLY <1>4
      <4> QED BY ONLY <1>4, <1>7, <1>10, <1>12, <4>1
    <3> HIDE DEF Freq
    <3> QED BY ONLY <1>6, <2>1, <3>1, <3>2
  <2>2. ASSUME ~(w + m > 2*m - 1)
        PROVE  Freq(2*m - 1) \in Nat /\ Freq(2*m - 1) = f[2*m - 1]
    <3>1. Freq(2*m - 1) = nodes[2*m - 1].freq
      BY ONLY <1>2, <1>4, <2>2
    <3> HIDE DEF Freq
    <3> QED BY ONLY <1>8, <1>12, <2>2, <3>1
  <2>3. ASSUME w + m > 2*m
        PROVE  /\ Freq(2*m) \in Nat
               /\ Freq(2*m) = tf[m + 1] /\ Freq(2*m) = LeafFor(2*m).freq
    <3>1. Freq(2*m) = LeafFor(2*m).freq /\ ~(2*m >= w + m)
      BY ONLY <1>2, <1>4, <2>3
    <3>2. LeafFor(2*m) = T[m + 1] /\ m + 1 \in Ranks
      <4>1. 2*m - m + 1 = m + 1 /\ m + 1 \in Int /\ m + 1 <= NumLeaves /\ 1 <= m + 1
        BY ONLY <1>4
      <4> QED BY ONLY <1>7, <1>10, <1>12, <4>1
    <3> HIDE DEF Freq
    <3> QED BY ONLY <1>6, <2>3, <3>1, <3>2
  <2>4. ASSUME ~(w + m > 2*m)
        PROVE  Freq(2*m) \in Nat /\ Freq(2*m) = f[2*m]
    <3>1. Freq(2*m) = nodes[2*m].freq
      BY ONLY <1>2, <1>4, <2>4
    <3> HIDE DEF Freq
    <3> QED BY ONLY <1>8, <1>12, <2>4, <3>1
  <2> HIDE DEF Freq
  <2>5. /\ Freq(2*m - 1) \in Nat
        /\ w + m > 2*m - 1 => Freq(2*m - 1) = tf[m] /\ Freq(2*m - 1) = LeafFor(2*m - 1).freq
        /\ 2*m - 1 >= w + m => Freq(2*m - 1) = f[2*m - 1]
    BY ONLY <1>4, <2>1, <2>2
  <2>6. /\ Freq(2*m) \in Nat
        /\ w + m > 2*m => Freq(2*m) = tf[m + 1] /\ Freq(2*m) = LeafFor(2*m).freq
        /\ 2*m >= w + m => Freq(2*m) = f[2*m]
    BY ONLY <1>4, <2>3, <2>4
  <2> QED BY ONLY <2>5, <2>6
<1> HIDE DEF Freq
<1>14. PICK b \in Nat : b = branch_freq /\ b = Freq(2*m - 1) + Freq(2*m)
  <2>1. branch_freq = Freq(2*m) + Freq(2*m - 1)
    BY ONLY <1>12
  <2> HIDE DEF branch_freq
  <2> QED BY ONLY <1>13, <2>1
<1> HIDE DEF branch_freq
<1>15. more \in 0..w-need /\ Enough(w - need, b, tf, more)
  <2>1. PICK q \in Nat : q = w - need
    BY ONLY <1>11
  <2>2. q <= NumLeaves
    BY ONLY <1>4, <1>11, <2>1
  <2>3. ASSUME NEW c \in 0..q PROVE Fits(c) <=> Enough(q, b, tf, c)
    <3>1. \A j \in 1..c : left - need + 1 - j = q + 1 - j
      BY ONLY <1>2, <1>4, <1>11, <2>1
    <3>2. left - need - c = q - c /\ left - need = q
      BY ONLY <1>2, <1>4, <1>11, <2>1
    <3>3. Fits(c) <=> /\ \A j \in 1..c : b >= T[q + 1 - j].freq
                      /\ c < q => b < T[q - c].freq
      BY ONLY <1>2, <1>14, <3>1, <3>2
    <3>4. \A j \in 1..c : q + 1 - j \in Ranks
      <4>1. \A j \in 1..c : q + 1 - j \in Int /\ 1 <= q + 1 - j /\ q + 1 - j <= NumLeaves
        BY ONLY <1>4, <2>2, q \in Nat, c \in 0..q
      <4> QED BY ONLY <1>7, <4>1
    <3>5. c < q => q - c \in Ranks
      <4>1. c < q => q - c \in Int /\ 1 <= q - c /\ q - c <= NumLeaves
        BY ONLY <1>4, <2>2, q \in Nat, c \in 0..q
      <4> QED BY ONLY <1>7, <4>1
    <3>6. \A j \in 1..c : T[q + 1 - j].freq = tf[q + 1 - j]
      BY ONLY <1>6, <3>4
    <3>7. c < q => T[q - c].freq = tf[q - c]
      BY ONLY <1>6, <3>5
    <3> HIDE DEF Fits
    <3> QED BY ONLY <3>3, <3>6, <3>7 DEF Enough
  <2>4. left - need = q
    BY ONLY <1>2, <2>1
  <2> HIDE DEF Fits
  <2>5. \A k \in 1..q : tf[k] \in Nat
    <3>1. \A k \in 1..q : k \in Ranks
      BY ONLY <1>4, <1>7, <2>2, q \in Nat
    <3> QED BY ONLY <1>6, <3>1
  <2>6. \E c \in 0..q : Enough(q, b, tf, c)
    BY ONLY <2>5, q \in Nat, b \in Nat, MoreExists
  <2>7. \E c \in 0..q : Fits(c)
    BY ONLY <2>3, <2>6
  <2>8. more = CHOOSE c \in 0..q : Fits(c)
    BY ONLY <2>4
  <2> HIDE DEF more
  <2>9. more \in 0..q /\ Fits(more)
    BY ONLY <2>7, <2>8
  <2>10. Enough(q, b, tf, more)
    BY ONLY <2>3, <2>9
  <2> QED BY ONLY <2>1, <2>9, <2>10
<1> HIDE DEF more, Fits
<1>16. PICK w1 \in Int : w1 = w - (need + more)
  BY ONLY <1>4, <1>11, <1>15
<1>17. /\ w1 \in Nat /\ w1 <= w /\ w1 <= m - 1
       /\ \A k \in Ranks : w1 < k /\ k <= w => tf[k] <= b
       /\ w1 >= 1 => b < tf[w1]
  BY ONLY <1>3, <1>4, <1>5, <1>9, <1>13, <1>14, <1>15, <1>16, StepChosen
<1>18. /\ index = w1 + m - 1 /\ index \in Nodes /\ index \in Nat /\ index < 2*m - 1 /\ index < w + m
       /\ w + m \in Nat /\ w1 + (m - 1) = index
  <2>1. index = w1 + m - 1
    BY ONLY <1>2, <1>4, <1>11, <1>15, <1>16, w1 \in Int
  <2> HIDE DEF index
  <2>2. w1 + m - 1 \in Nodes /\ w1 + m - 1 \in Nat /\ w1 + m - 1 < 2*m - 1 /\ w1 + m - 1 < w + m
        /\ w + m \in Nat /\ w1 + (m - 1) = w1 + m - 1
    BY ONLY <1>3, <1>4, <1>17, StepNumbers
  <2> QED BY ONLY <2>1, <2>2
<1> HIDE DEF index
<1>19. /\ \A x \in Nodes : x > index /\ x < w + m =>
            /\ x - m + 1 \in Ranks /\ w1 < x - m + 1 /\ x - m + 1 <= w
            /\ (x - m + 1) + m - 1 = x
       /\ \A k \in Ranks : w1 < k /\ k <= w =>
            /\ k + m - 1 \in Nodes /\ k + m - 1 > index /\ k + m - 1 < w + m
            /\ (k + m - 1) - m + 1 = k
  <2>1. /\ \A x \in Nodes : x > w1 + m - 1 /\ x < w + m =>
             /\ x - m + 1 \in Ranks /\ w1 < x - m + 1 /\ x - m + 1 <= w /\ x - m + 1 \in Nat
             /\ (x - m + 1) + m - 1 = x
        /\ \A k \in Ranks : w1 < k /\ k <= w =>
             /\ k + m - 1 \in Nodes /\ k + m - 1 > w1 + m - 1 /\ k + m - 1 < w + m
             /\ (k + m - 1) - m + 1 = k
    <3>1. m >= 1 /\ w1 \in Nat /\ w1 <= w /\ w1 <= m - 1 /\ BuiltSizes(m, w)
      BY ONLY <1>3, <1>4, <1>17
    <3> QED BY ONLY <3>1, Zones
  <2>2. index = w1 + m - 1
    BY ONLY <1>18
  <2> QED BY ONLY <2>1, <2>2
<1>20. \A x \in Nodes : x \in index+1..target-1 <=> x > index /\ x < w + m
  BY ONLY <1>2, <1>8, <1>18
<1>21. ASSUME NEW x \in Nodes
       PROVE  /\ Placed(x) \in NodeRecords /\ Placed(x).parent = nodes[x].parent
              /\ x < index \/ x >= w + m => Placed(x).entry = nodes[x].entry /\ Placed(x).freq = nodes[x].freq
              /\ x > index /\ x < w + m => Placed(x).entry = Leaf(tv[x - m + 1]) /\ Placed(x).freq = tf[x - m + 1]
              /\ x = index => Placed(x).entry = Branch(2*m) /\ Placed(x).freq = b
  <2>1. nodes[x] \in NodeRecords /\ x \in Nat
    BY ONLY <1>8, x \in Nodes, nodes \in [Nodes -> NodeRecords]
  <2>2. CASE x = index
    <3>1. Branch(2*m) \in Entry
      BY ONLY <1>12, Entries
    <3>2. Placed(x) = PlacedRecord(nodes[x], Branch(2*m), b)
      BY ONLY <1>12, <1>14, <2>2
    <3> HIDE DEF Placed
    <3>3. PICK r \in NodeRecords, e \in Entry : r = nodes[x] /\ e = Branch(2*m)
      BY ONLY <2>1, <3>1
    <3>4. /\ PlacedRecord(r, e, b) \in NodeRecords
          /\ PlacedRecord(r, e, b).entry = e /\ PlacedRecord(r, e, b).freq = b
          /\ PlacedRecord(r, e, b).parent = r.parent
      BY ONLY r \in NodeRecords, e \in Entry, b \in Nat, <1>18, PlacedFields
    <3>5. /\ Placed(x) \in NodeRecords /\ Placed(x).parent = nodes[x].parent
          /\ Placed(x).entry = Branch(2*m) /\ Placed(x).freq = b
      BY ONLY <3>2, <3>3, <3>4
    <3> QED BY ONLY <1>18, <2>1, <2>2, <3>5
  <2>3. CASE x > index /\ x < w + m
    <3>1. PICK k \in Ranks : k = x - m + 1
      BY ONLY <1>19, <2>3, x \in Nodes
    <3>2. LeafFor(x) = T[k]
      BY ONLY <1>10, <2>1, <3>1
    <3>3. LeafFor(x).freq = tf[k] /\ LeafFor(x).value = tv[k] /\ tf[k] \in Nat /\ tv[k] \in Values
      BY ONLY <1>6, <3>2, k \in Ranks
    <3>4. x # index /\ x \in index+1..target-1
      BY ONLY <1>18, <1>20, <2>1, <2>3, x \in Nodes
    <3>5. Placed(x) = PlacedRecord(nodes[x], Leaf(tv[k]), tf[k])
      BY ONLY <3>3, <3>4
    <3> HIDE DEF Placed
    <3>6. Leaf(tv[k]) \in Entry
      BY ONLY <3>3, Entries
    <3>7. PICK r \in NodeRecords, e \in Entry, n \in Nat : r = nodes[x] /\ e = Leaf(tv[k]) /\ n = tf[k]
      BY ONLY <2>1, <3>3, <3>6
    <3>8. /\ PlacedRecord(r, e, n) \in NodeRecords
          /\ PlacedRecord(r, e, n).entry = e /\ PlacedRecord(r, e, n).freq = n
          /\ PlacedRecord(r, e, n).parent = r.parent
      BY ONLY r \in NodeRecords, e \in Entry, n \in Nat, <1>18, PlacedFields
    <3>9. /\ Placed(x) \in NodeRecords /\ Placed(x).parent = nodes[x].parent
          /\ Placed(x).entry = Leaf(tv[k]) /\ Placed(x).freq = tf[k]
      BY ONLY <3>5, <3>7, <3>8
    <3>10. ~(x < index) /\ ~(x >= w + m) /\ x # index
      BY ONLY <1>18, <2>1, <2>3
    <3> QED BY ONLY <2>3, <3>1, <3>9, <3>10
  <2>4. CASE x < index \/ x >= w + m
    <3>1. x # index /\ x \notin index+1..target-1
      BY ONLY <1>18, <1>20, <2>1, <2>4, x \in Nodes
    <3>2. Placed(x) = nodes[x]
      BY ONLY <3>1
    <3> HIDE DEF Placed
    <3> QED BY ONLY <1>18, <2>1, <2>4, <3>1, <3>2
  <2> QED BY ONLY <1>18, <2>1, <2>2, <2>3, <2>4
<1> HIDE DEF Placed
<1>22. /\ nodes' \in [Nodes -> NodeRecords]
       /\ \A x \in Nodes :
            /\ nodes'[x].entry = Placed(x).entry /\ nodes'[x].freq = Placed(x).freq
            /\ nodes'[x].parent = IF x = 2*m \/ x = 2*m - 1 THEN index ELSE nodes[x].parent
  <2>0. nodes' = [i \in Nodes |-> IF i \in {len - 1, len - 2}
                                  THEN ChildRecord(Placed(i), index) ELSE Placed(i)]
    BY ONLY <1>1, Zenon
  <2>1. ASSUME NEW x \in Nodes
        PROVE  /\ nodes'[x] \in NodeRecords
               /\ nodes'[x].entry = Placed(x).entry /\ nodes'[x].freq = Placed(x).freq
               /\ nodes'[x].parent = IF x = 2*m \/ x = 2*m - 1 THEN index ELSE nodes[x].parent
    <3>1. nodes'[x] = IF x \in {len - 1, len - 2} THEN ChildRecord(Placed(x), index) ELSE Placed(x)
      BY ONLY <2>0, x \in Nodes
    <3>2. PICK r \in NodeRecords : r = Placed(x) /\ r.parent = nodes[x].parent
      BY ONLY <1>21, x \in Nodes
    <3>3. PICK p \in Nodes : p = index
      BY ONLY <1>18
    <3>4. x \in {len - 1, len - 2} <=> x = 2*m \/ x = 2*m - 1
      BY ONLY <1>12
    <3>5. /\ ChildRecord(r, p) \in NodeRecords
          /\ ChildRecord(r, p).entry = r.entry /\ ChildRecord(r, p).freq = r.freq
          /\ ChildRecord(r, p).parent = p
      <4>1. PICK e : e \in Entry /\ e = Branch(2*m)
        BY ONLY <1>12, Entries
      <4> QED BY ONLY <4>1, r \in NodeRecords, p \in Nodes, b \in Nat, PlacedFields
    <3>6. CASE x = 2*m \/ x = 2*m - 1
      <4>1. nodes'[x] = ChildRecord(r, p)
        BY ONLY <3>1, <3>2, <3>3, <3>4, <3>6
      <4> QED BY ONLY <3>2, <3>3, <3>5, <3>6, <4>1
    <3>7. CASE ~(x = 2*m \/ x = 2*m - 1)
      <4>1. nodes'[x] = r
        BY ONLY <3>1, <3>2, <3>4, <3>7
      <4> QED BY ONLY <3>2, <3>7, <4>1, r \in NodeRecords
    <3> QED BY ONLY <3>6, <3>7
  <2>2. nodes' = [x \in Nodes |-> nodes'[x]]
    BY ONLY <2>0
  <2> QED BY ONLY <2>1, <2>2
<1>23. /\ \A x \in Nodes : FreqOf'[x] = nodes'[x].freq /\ ArgOf'[x] = nodes'[x].entry.arg
                           /\ UpOf'[x] = nodes'[x].parent /\ (x \in LeafNodes' <=> nodes'[x].entry.leaf)
       /\ FreqOf' \in [Nodes -> Nat] /\ ArgOf' \in [Nodes -> Nat] /\ UpOf' \in [Nodes -> Nodes]
       /\ LeafNodes' \subseteq Nodes
  BY ONLY <1>22, PartsNext
<1>24. ASSUME NEW x \in Nodes
       PROVE  /\ x < index \/ x >= w + m =>
                   FreqOf'[x] = f[x] /\ (x \in LeafNodes' <=> x \in L) /\ ArgOf'[x] = ar[x]
              /\ x > index /\ x < w + m =>
                   FreqOf'[x] = tf[x - m + 1] /\ x \in LeafNodes' /\ ArgOf'[x] = tv[x - m + 1]
              /\ x = index => FreqOf'[x] = b /\ x \notin LeafNodes' /\ ArgOf'[x] = 2*m
  <2>1. /\ nodes'[x].entry = Placed(x).entry /\ nodes'[x].freq = Placed(x).freq
        /\ FreqOf'[x] = nodes'[x].freq /\ ArgOf'[x] = nodes'[x].entry.arg
        /\ (x \in LeafNodes' <=> nodes'[x].entry.leaf)
    BY ONLY <1>22, <1>23, x \in Nodes
  <2>2. ASSUME x < index \/ x >= w + m
        PROVE  FreqOf'[x] = f[x] /\ (x \in LeafNodes' <=> x \in L) /\ ArgOf'[x] = ar[x]
    <3>1. Placed(x).entry = nodes[x].entry /\ Placed(x).freq = nodes[x].freq
      BY ONLY <1>21, <2>2, x \in Nodes
    <3>2. f[x] = nodes[x].freq /\ ar[x] = nodes[x].entry.arg /\ (x \in L <=> nodes[x].entry.leaf)
      BY ONLY <1>8, x \in Nodes
    <3> QED BY ONLY <2>1, <3>1, <3>2, Zenon
  <2>3. ASSUME x > index, x < w + m
        PROVE  FreqOf'[x] = tf[x - m + 1] /\ x \in LeafNodes' /\ ArgOf'[x] = tv[x - m + 1]
    <3>1. PICK k \in Ranks : k = x - m + 1
      BY ONLY <1>19, <2>3, x \in Nodes
    <3>2. Placed(x).entry = Leaf(tv[k]) /\ Placed(x).freq = tf[k]
      BY ONLY <1>21, <2>3, <3>1, x \in Nodes
    <3>3. Leaf(tv[k]).leaf /\ Leaf(tv[k]).arg = tv[k]
      BY ONLY <1>6, k \in Ranks, Entries
    <3>4. nodes'[x].entry = Leaf(tv[k])
      BY ONLY <2>1, <3>2, Zenon
    <3>5. nodes'[x].entry.leaf /\ nodes'[x].entry.arg = tv[k]
      BY ONLY <3>3, <3>4, Zenon
    <3> QED BY ONLY <2>1, <3>1, <3>2, <3>5, Zenon
  <2>4. ASSUME x = index PROVE FreqOf'[x] = b /\ x \notin LeafNodes' /\ ArgOf'[x] = 2*m
    <3>1. Placed(x).entry = Branch(2*m) /\ Placed(x).freq = b
      BY ONLY <1>21, <2>4, x \in Nodes
    <3>2. ~Branch(2*m).leaf /\ Branch(2*m).arg = 2*m
      BY ONLY <1>12, Entries
    <3>3. nodes'[x].entry = Branch(2*m)
      BY ONLY <2>1, <3>1, Zenon
    <3>4. ~nodes'[x].entry.leaf /\ nodes'[x].entry.arg = 2*m
      BY ONLY <3>2, <3>3, Zenon
    <3> QED BY ONLY <2>1, <3>1, <3>4, Zenon
  <2> QED BY ONLY <2>2, <2>3, <2>4
<1>25. FreqOf'[2*m - 1] + FreqOf'[2*m] = b
  <2>1. FreqOf'[2*m - 1] = Freq(2*m - 1)
    <3>1. PICK y \in Nodes : y = 2*m - 1 /\ y > index /\ y - m + 1 = m
      BY ONLY <1>4, <1>12, <1>18
    <3>2. CASE w + m > y
      BY ONLY <1>13, <1>24, <3>1, <3>2, y \in Nodes
    <3>3. CASE y >= w + m
      BY ONLY <1>13, <1>24, <3>1, <3>3, y \in Nodes
    <3>4. y \in Nat
      BY ONLY <1>8, y \in Nodes
    <3> QED BY ONLY <1>4, <3>2, <3>3, <3>4
  <2>2. FreqOf'[2*m] = Freq(2*m)
    <3>1. PICK y \in Nodes : y = 2*m /\ y > index /\ y - m + 1 = m + 1
      BY ONLY <1>4, <1>12, <1>18
    <3>2. CASE w + m > y
      BY ONLY <1>13, <1>24, <3>1, <3>2, y \in Nodes
    <3>3. CASE y >= w + m
      BY ONLY <1>13, <1>24, <3>1, <3>3, y \in Nodes
    <3>4. y \in Nat
      BY ONLY <1>8, y \in Nodes
    <3> QED BY ONLY <1>4, <3>2, <3>3, <3>4
  <2> QED BY ONLY <1>14, <2>1, <2>2
<1>26. StepSizes(m, w, w1, tf, FreqOf')
  BY ONLY <1>4, <1>17, <1>25 DEF StepSizes
<1>27. PlacedEntries(m, w, w1, tf, tv, f, L, ar, FreqOf', LeafNodes', ArgOf')
  BY ONLY <1>18, <1>24, <1>25 DEF PlacedEntries
<1>28. PlacedParents(m, w1, pa, UpOf')
  BY ONLY <1>8, <1>18, <1>22, <1>23 DEF PlacedParents
<1>29. leaves \in [Values -> Nodes]
  BY <1>3 DEF LinkTypes
<1>30. ASSUME NEW i \in index+1..target-1
       PROVE  /\ i \in Nodes /\ i - m + 1 \in Ranks /\ LeafFor(i).value = tv[i - m + 1]
              /\ w1 < i - m + 1 /\ i - m + 1 <= w
  <2>1. i \in Nat /\ i > index /\ i < w + m
    BY ONLY <1>2, <1>18, i \in index+1..target-1
  <2>2. 2*m < NumNodes /\ NumNodes \in Nat
    BY ONLY <1>12, NodeNumbers
  <2>3. i < NumNodes
    BY ONLY <1>4, <2>1, <2>2
  <2>4. i \in Nodes
    BY ONLY <2>1, <2>3, NodeNumbers
  <2>5. PICK k \in Ranks : k = i - m + 1 /\ w1 < k /\ k <= w
    BY ONLY <1>19, <2>1, <2>4
  <2>6. LeafFor(i).value = tv[k]
    BY ONLY <1>6, <1>10, <2>1, <2>5
  <2> QED BY ONLY <2>4, <2>5, <2>6
<1>31. \A v \in Values :
         leaves'[v] = IF \E i \in index+1..target-1 : LeafFor(i).value = v
                      THEN CHOOSE i \in index+1..target-1 : LeafFor(i).value = v
                      ELSE leaves[v]
  BY ONLY <1>1, Zenon
<1>32. leaves' \in [Values -> Nodes]
  <2>1. ASSUME NEW v \in Values PROVE leaves'[v] \in Nodes
    <3>1. CASE \E i \in index+1..target-1 : LeafFor(i).value = v
      <4>1. leaves'[v] = CHOOSE i \in index+1..target-1 : LeafFor(i).value = v
        BY ONLY <1>31, <3>1, v \in Values
      <4>2. leaves'[v] \in index+1..target-1
        BY ONLY <3>1, <4>1
      <4> QED BY ONLY <1>30, <4>2
    <3>2. CASE ~ \E i \in index+1..target-1 : LeafFor(i).value = v
      <4>1. leaves'[v] = leaves[v]
        BY ONLY <1>31, <3>2, v \in Values
      <4> QED BY ONLY <1>29, <4>1, v \in Values
    <3> QED BY ONLY <3>1, <3>2
  <2>2. leaves' = [v \in Values |-> leaves'[v]]
    <3>1. leaves' = [v \in Values |->
            IF \E i \in index+1..target-1 : LeafFor(i).value = v
            THEN CHOOSE i \in index+1..target-1 : LeafFor(i).value = v
            ELSE leaves[v]]
      BY ONLY <1>1, Zenon
    <3> QED BY ONLY <3>1
  <2> QED BY ONLY <2>1, <2>2
<1>33. PlacedLeaves(m, w, w1, tv, leaves, leaves')
  <2>1. ASSUME NEW k \in Ranks
        PROVE  leaves'[tv[k]] = IF w1 < k /\ k <= w THEN k + m - 1 ELSE leaves[tv[k]]
    <3>1. tv[k] \in Values /\ k \in Int
      BY ONLY <1>6, k \in Ranks DEF Ranks
    <3>2. ASSUME w1 < k, k <= w PROVE leaves'[tv[k]] = k + m - 1
      <4>1. PICK x \in Nodes : x = k + m - 1 /\ x > index /\ x < w + m /\ x - m + 1 = k
        BY ONLY <1>19, <3>2, k \in Ranks
      <4>2. x \in index+1..target-1
        BY ONLY <1>20, <4>1, x \in Nodes
      <4>3. LeafFor(x).value = tv[k]
        BY ONLY <1>30, <4>1, <4>2
      <4>4. leaves'[tv[k]] = CHOOSE i \in index+1..target-1 : LeafFor(i).value = tv[k]
        BY ONLY <1>31, <3>1, <4>2, <4>3
      <4>5. PICK i \in index+1..target-1 : i = leaves'[tv[k]] /\ LeafFor(i).value = tv[k]
        BY ONLY <4>2, <4>3, <4>4
      <4>6. i - m + 1 = k /\ i \in Nat
        BY ONLY <1>5, <1>8, <1>30, <4>5, k \in Ranks, i \in index+1..target-1
      <4> QED BY ONLY <1>4, <4>5, <4>6
    <3>3. ASSUME ~(w1 < k /\ k <= w) PROVE leaves'[tv[k]] = leaves[tv[k]]
      <4>1. ASSUME NEW i \in index+1..target-1, LeafFor(i).value = tv[k] PROVE FALSE
        <5>1. i - m + 1 = k
          BY ONLY <1>5, <1>30, <4>1, k \in Ranks, i \in index+1..target-1
        <5>2. w1 < i - m + 1 /\ i - m + 1 <= w
          BY ONLY <1>30, i \in index+1..target-1
        <5> QED BY ONLY <3>3, <5>1, <5>2
      <4>2. ~ \E i \in index+1..target-1 : LeafFor(i).value = tv[k]
        BY ONLY <4>1
      <4> QED BY ONLY <1>31, <3>1, <4>2
    <3> QED BY ONLY <3>2, <3>3
  <2> QED BY ONLY <2>1 DEF PlacedLeaves
<1>34. LinkTypes(LeafNodes', ArgOf', UpOf', leaves')
  BY ONLY <1>23, <1>32 DEF LinkTypes
<1>35. Built(m, w, tf, tv, f, L, ar, pa, leaves)
  BY DEF f, L, ar, pa
<1>36. Built(m - 1, w1, tf, tv, FreqOf', LeafNodes', ArgOf', UpOf', leaves')
  BY ONLY <1>23, <1>26, <1>27, <1>28, <1>33, <1>34, <1>35, RebuildKeeps
<1>37. rebuild' = Progress(T, m - 1, w1)
  <2>1. rebuild' = [rebuild EXCEPT !.left = @ - (need + more), !.len = @ - 2, !.target = index]
    BY ONLY <1>1, Zenon
  <2>2. rebuild' = [taken |-> T, left |-> w - (need + more), len |-> (2*m + 1) - 2, target |-> index]
    BY ONLY <2>1, rebuild = Progress(T, m, w) DEF Progress
  <2>3. (2*m + 1) - 2 = 2*(m - 1) + 1 /\ index = w1 + (m - 1)
    BY ONLY <1>4, <1>18
  <2> QED BY ONLY <1>16, <2>2, <2>3 DEF Progress
<1> QED BY ONLY <1>4, <1>22, <1>36, <1>37

-----------------------------------------------------------------------------
(* The state in the middle of rebuild_tree. *)

RebuildOK ==
  /\ nodes \in [Nodes -> NodeRecords] /\ leaders \in [Nodes -> Nodes]
  /\ groups \in [Nodes -> Nodes] /\ ngroups \in 0..NumNodes /\ cur \in Values
  /\ \E T, m, w, tf, tv :
       /\ rebuild = Progress(T, m, w) /\ Listed(T, tf, tv)
       /\ Built(m, w, tf, tv, FreqOf, LeafNodes, ArgOf, UpOf, leaves)

(* What the tree says of the types of its parts. *)
LEMMA TreeTypes ==
  ASSUME NEW c, TreeOK(c)
  PROVE  /\ nodes \in [Nodes -> NodeRecords] /\ \A x \in Nodes : FreqOf[x] <= ReorderLimit
         /\ leaves \in [Values -> Nodes] /\ ngroups \in 0..NumNodes
         /\ groups \in [Nodes -> Nodes] /\ leaders \in [Nodes -> Nodes] /\ c \in Nodes
<1> DEFINE f == FreqOf
<1>1. nodes \in [Nodes -> NodeRecords]
      /\ Whole(f, LeafNodes, ArgOf, UpOf, leaves, GroupsOf, leaders, groups, ngroups, c)
  BY DEF TreeOK
<1>2. /\ Linked(LeafNodes, ArgOf, UpOf, leaves) /\ Falling(f) /\ Grouped(f, GroupsOf, leaders)
      /\ Allotted(GroupsOf, groups, ngroups) /\ f[0] <= ReorderLimit /\ c \in Nodes
  BY ONLY <1>1 DEF Whole
<1>3. leaves \in [Values -> Nodes]
  BY ONLY <1>2 DEF Linked, LinkTypes
<1>4. GroupsOf \in [Nodes -> Nodes] /\ leaders \in [Nodes -> Nodes]
  BY ONLY <1>2 DEF Grouped
<1>5. groups \in [Nodes -> Nodes] /\ ngroups = Cardinality(Used(GroupsOf))
  BY ONLY <1>2 DEF Allotted
<1>6. ngroups \in 0..NumNodes
  <2>1. Cardinality(Used(GroupsOf)) \in Nat /\ Cardinality(Used(GroupsOf)) <= NumNodes
    BY ONLY <1>4, UsedSize
  <2> QED BY ONLY <1>5, <2>1, NodeNumbers
<1> HIDE DEF f
<1>7. \A x \in Nodes : f[x] <= ReorderLimit
  <2>1. /\ \A x \in Nodes : f[x] \in Nat /\ (x = 0 \/ 0 < x)
        /\ 0 \in Nodes /\ ReorderLimit \in Nat
    BY ONLY <1>2, NodeNumbers, Sizes DEF Falling
  <2>2. \A x \in Nodes : 0 < x => f[x] <= f[0]
    BY ONLY <1>2, <2>1 DEF Falling
  <2> QED BY ONLY <1>2, <2>1, <2>2
<1> QED BY ONLY <1>1, <1>2, <1>3, <1>4, <1>5, <1>6, <1>7 DEF f

(* rebuild_tree takes the leaves and begins. *)
LEMMA BeginKeeps ==
  ASSUME TreeOK(0), cur \in Nodes, BeginRebuild
  PROVE  RebuildOK'
<1> DEFINE L  == LeafNodes
           at == Nth(L)
           tf == [k \in Ranks |-> Half(FreqOf[at[k]])]
           tv == [k \in Ranks |-> ArgOf[at[k]]]
<1>1. /\ nodes[cur].entry.leaf
      /\ cur' = nodes[cur].entry.arg
      /\ rebuild' = [taken |-> TakenLeaves, left |-> NumLeaves, len |-> NumNodes, target |-> NumNodes]
      /\ nodes' = nodes /\ leaves' = leaves /\ ngroups' = ngroups /\ groups' = groups /\ leaders' = leaders
  BY DEF BeginRebuild, tree
<1>2. /\ nodes \in [Nodes -> NodeRecords]
      /\ leaves \in [Values -> Nodes] /\ ngroups \in 0..NumNodes
      /\ groups \in [Nodes -> Nodes] /\ leaders \in [Nodes -> Nodes]
  BY ONLY TreeOK(0), TreeTypes
<1>3. Whole(FreqOf, L, ArgOf, UpOf, leaves, GroupsOf, leaders, groups, ngroups, 0)
  BY DEF TreeOK
<1>4. /\ \A x \in Nodes : FreqOf[x] = nodes[x].freq /\ ArgOf[x] = nodes[x].entry.arg
      /\ \A x \in Nodes : nodes[x].entry \in Entry
      /\ L \subseteq Nodes
  BY ONLY <1>2, Parts
<1>5. cur' \in Values
  BY ONLY <1>1, <1>4, cur \in Nodes, Entries
<1>6. Linked(L, ArgOf, UpOf, leaves) /\ Falling(FreqOf)
  BY ONLY <1>3 DEF Whole
<1>7. LinkTypes(L, ArgOf, UpOf, leaves) /\ LeavesLinked(L, ArgOf, leaves)
  BY ONLY <1>6 DEF Linked
<1>8. Cardinality(L) = NumLeaves
  BY ONLY <1>7, LeafCount
<1>9. at \in [Ranks -> L]
  <2> HIDE DEF L
  <2>1. at \in [1..Cardinality(L) -> L]
    BY ONLY <1>4, NthOrder
  <2> QED BY ONLY <1>8, <2>1 DEF Ranks
<1>10. Built(NumLeaves - 1, NumLeaves, tf, tv, FreqOf, L, ArgOf, UpOf, leaves)
  <2> HIDE DEF L
  <2> QED BY ONLY <1>3, RebuildBegins
<1>11. \A k \in Ranks : TakenLeaves[k] = Taken(nodes[at[k]])
  <2>1. 1..Cardinality(LeafNodes) = Ranks
    BY ONLY <1>8 DEF Ranks
  <2>2. \A k \in Ranks : at[k] = CHOOSE i \in LeafNodes : Before(LeafNodes, i) = k - 1
    BY ONLY <2>1 DEF Nth
  <2>3. ASSUME NEW k \in Ranks PROVE TakenLeaves[k] = Taken(nodes[at[k]])
    <3>1. PICK i : i = CHOOSE y \in LeafNodes : Before(LeafNodes, y) = k - 1
      OBVIOUS
    <3>2. at[k] = i
      BY ONLY <2>2, <3>1, k \in Ranks
    <3>3. TakenLeaves[k] = Taken(nodes[i])
      BY ONLY <2>1, <3>1, k \in Ranks DEF TakenLeaves
    <3> QED BY ONLY <3>2, <3>3
  <2> QED BY ONLY <2>3
<1>12. Listed(TakenLeaves, tf, tv)
  <2> HIDE DEF at
  <2>1. ASSUME NEW k \in Ranks PROVE TakenLeaves[k].freq = tf[k] /\ TakenLeaves[k].value = tv[k]
    <3>1. at[k] \in Nodes
      BY ONLY <1>4, <1>9, k \in Ranks
    <3>2. TakenLeaves[k] = [value |-> nodes[at[k]].entry.arg, freq |-> (nodes[at[k]].freq + 1) \div 2]
      BY ONLY <1>11, k \in Ranks DEF Taken
    <3>3. tf[k] = (nodes[at[k]].freq + 1) \div 2 /\ tv[k] = nodes[at[k]].entry.arg
      BY ONLY <1>4, <3>1, k \in Ranks DEF Half
    <3> HIDE DEF tf, tv
    <3> QED BY ONLY <3>2, <3>3
  <2> QED BY ONLY <2>1 DEF Listed
<1> HIDE DEF tf, tv, at, L
<1>13. rebuild' = Progress(TakenLeaves, NumLeaves - 1, NumLeaves)
  <2>1. 2*(NumLeaves - 1) + 1 = NumNodes /\ NumLeaves + (NumLeaves - 1) = NumNodes
    BY ONLY Sizes
  <2> QED BY ONLY <1>1, <2>1 DEF Progress
<1>14. FreqOf' = FreqOf /\ LeafNodes' = LeafNodes /\ ArgOf' = ArgOf /\ UpOf' = UpOf
  BY ONLY <1>1 DEF FreqOf, LeafNodes, ArgOf, UpOf
<1>15. Built(NumLeaves - 1, NumLeaves, tf, tv, FreqOf', LeafNodes', ArgOf', UpOf', leaves')
  BY ONLY <1>1, <1>10, <1>14 DEF L
<1>16. \E T, m, w, ttf, ttv :
         /\ rebuild' = Progress(T, m, w) /\ Listed(T, ttf, ttv)
         /\ Built(m, w, ttf, ttv, FreqOf', LeafNodes', ArgOf', UpOf', leaves')
  BY ONLY <1>12, <1>13, <1>15
<1> QED BY ONLY <1>1, <1>2, <1>5, <1>16 DEF RebuildOK

(* Each turn of the loop keeps it. *)
LEMMA RebuildTurns ==
  ASSUME RebuildOK, RebuildStep
  PROVE  RebuildOK'
<1>1. /\ nodes \in [Nodes -> NodeRecords] /\ leaders \in [Nodes -> Nodes]
      /\ groups \in [Nodes -> Nodes] /\ ngroups \in 0..NumNodes /\ cur \in Values
  BY DEF RebuildOK
<1>2. PICK T, m, w, tf, tv :
        /\ rebuild = Progress(T, m, w) /\ Listed(T, tf, tv)
        /\ Built(m, w, tf, tv, FreqOf, LeafNodes, ArgOf, UpOf, leaves)
  BY DEF RebuildOK
<1>3. ngroups' = ngroups /\ groups' = groups /\ leaders' = leaders /\ cur' = cur
  BY ONLY RebuildStep, Zenon DEF RebuildStep
<1>4. /\ nodes' \in [Nodes -> NodeRecords]
      /\ \E w1 : rebuild' = Progress(T, m - 1, w1)
                 /\ Built(m - 1, w1, tf, tv, FreqOf', LeafNodes', ArgOf', UpOf', leaves')
  BY ONLY <1>1, <1>2, RebuildStep, RebuildStepKeeps
<1>5. \E TT, mm, ww, ttf, ttv :
         /\ rebuild' = Progress(TT, mm, ww) /\ Listed(TT, ttf, ttv)
         /\ Built(mm, ww, ttf, ttv, FreqOf', LeafNodes', ArgOf', UpOf', leaves')
  BY ONLY <1>2, <1>4
<1> QED BY ONLY <1>1, <1>3, <1>4, <1>5 DEF RebuildOK

(* The loop ends when all is placed, and the tree is whole again. *)
LEMMA RebuildFinishes ==
  ASSUME RebuildOK, Regroup
  PROVE  TreeOK(cur)' /\ cur' \in Nodes
<1>1. /\ nodes \in [Nodes -> NodeRecords] /\ leaders \in [Nodes -> Nodes] /\ cur \in Values
  BY DEF RebuildOK
<1>2. PICK T, m, w, tf, tv :
        /\ rebuild = Progress(T, m, w) /\ Listed(T, tf, tv)
        /\ Built(m, w, tf, tv, FreqOf, LeafNodes, ArgOf, UpOf, leaves)
  BY DEF RebuildOK
<1>3. rebuild.len <= 2
  BY ONLY Regroup, Zenon DEF Regroup
<1>4. BuiltSizes(m, w) /\ rebuild.len = 2*m + 1
  BY ONLY <1>2 DEF Built, Progress
<1>5. m = 0 /\ w = 0
  <2>1. m \in Nat /\ w \in Nat /\ (w <= m \/ (m = NumLeaves - 1 /\ w = NumLeaves)) /\ 2*m + 1 <= 2
    BY ONLY <1>3, <1>4 DEF BuiltSizes
  <2>2. NumLeaves \in Nat /\ NumLeaves >= 2
    BY Sizes
  <2> QED BY ONLY <2>1, <2>2
<1>6. Built(0, 0, tf, tv, FreqOf, LeafNodes, ArgOf, UpOf, leaves)
  BY ONLY <1>2, <1>5
<1> QED BY ONLY <1>1, <1>6, Regroup, RegroupKeeps

-----------------------------------------------------------------------------
(* The tree of DynHuffTree::new. *)

(* f has the frequencies of a full tree from node k on. *)
FreshFrom(f, k) ==
  /\ f \in [Nodes -> Nat] /\ \A x \in Nodes : f[x] >= 1
  /\ \A x \in Nodes : x >= k => f[x] = IF x >= NumLeaves - 1 THEN 1 ELSE f[2*x + 1] + f[2*x + 2]

(* There are such frequencies: they are found from the last node backwards.*)
LEMMA FreshExists ==
  \E f : FreshFrom(f, 0)
<1> DEFINE S == {k \in Nat : \E f : FreshFrom(f, k)}
<1>1. NumLeaves - 1 \in Nat /\ NumLeaves \in Nat /\ \A x \in Nodes : x \in Nat
  BY Sizes
<1>2. NumLeaves - 1 \in S
  <2> DEFINE f == [x \in Nodes |-> 1]
  <2>1. FreshFrom(f, NumLeaves - 1)
    BY <1>1 DEF FreshFrom
  <2> QED BY <1>1, <2>1
<1>3. PICK k \in S : \A u \in S : k <= u
  <2>1. S \in SUBSET Nat /\ S # {}
    BY <1>2
  <2> HIDE DEF S
  <2> QED BY ONLY <2>1, Least
<1>4. k \in Nat /\ k <= NumLeaves - 1
  BY <1>2, <1>3
<1>5. PICK f : FreshFrom(f, k)
  BY <1>3
<1>6. /\ f \in [Nodes -> Nat] /\ \A x \in Nodes : f[x] >= 1
      /\ \A x \in Nodes : x >= k => f[x] = IF x >= NumLeaves - 1 THEN 1 ELSE f[2*x + 1] + f[2*x + 2]
  BY <1>5 DEF FreshFrom
<1>7. CASE k # 0
  <2> DEFINE j == k - 1
             f1 == [f EXCEPT ![j] = f[2*j + 1] + f[2*j + 2]]
  <2>1. /\ j \in Nat /\ j < NumLeaves - 1 /\ ~(k <= j) /\ j + 1 = k
        /\ j \in Nodes /\ 2*j + 1 \in Nodes /\ 2*j + 2 \in Nodes
    BY ONLY <1>1, <1>4, <1>7, Sizes
  <2>2. f[2*j + 1] \in Nat /\ f[2*j + 2] \in Nat /\ f[2*j + 1] >= 1 /\ f[2*j + 2] >= 1
    BY ONLY <1>6, <2>1
  <2> HIDE DEF j
  <2>3. f1 \in [Nodes -> Nat] /\ \A x \in Nodes : f1[x] = IF x = j THEN f[2*j + 1] + f[2*j + 2] ELSE f[x]
    BY ONLY <1>6, <2>1, <2>2
  <2> HIDE DEF f1
  <2>4. \A x \in Nodes : f1[x] >= 1
    BY ONLY <1>6, <2>2, <2>3
  <2>5. ASSUME NEW x \in Nodes, x >= j
        PROVE  f1[x] = IF x >= NumLeaves - 1 THEN 1 ELSE f1[2*x + 1] + f1[2*x + 2]
    <3>0. x \in Nat
      BY ONLY <1>1, x \in Nodes
    <3>1. ASSUME x < NumLeaves - 1 PROVE f1[2*x + 1] = f[2*x + 1] /\ f1[2*x + 2] = f[2*x + 2]
      <4>1. 2*x + 1 \in Nodes /\ 2*x + 2 \in Nodes
        BY ONLY <1>1, <3>0, <3>1, Sizes
      <4>2. 2*x + 1 # j /\ 2*x + 2 # j
        BY ONLY <2>1, <2>5, <3>0
      <4> QED BY ONLY <2>3, <4>1, <4>2
    <3>2. CASE x = j
      <4>1. f1[x] = f[2*x + 1] + f[2*x + 2] /\ ~(x >= NumLeaves - 1) /\ x < NumLeaves - 1
        BY ONLY <1>1, <2>1, <2>3, <3>2
      <4> QED BY ONLY <3>1, <4>1
    <3>3. CASE x # j
      <4>1. x >= k /\ f1[x] = f[x]
        BY ONLY <2>1, <2>3, <2>5, <3>0, <3>3, x \in Nodes
      <4>2. CASE x >= NumLeaves - 1
        BY ONLY <1>6, <4>1, <4>2, x \in Nodes
      <4>3. CASE ~(x >= NumLeaves - 1)
        <5>1. x < NumLeaves - 1
          BY ONLY <1>1, <3>0, <4>3
        <5>2. f[x] = f[2*x + 1] + f[2*x + 2]
          BY ONLY <1>6, <4>1, <4>3, x \in Nodes
        <5> QED BY ONLY <3>1, <4>1, <4>3, <5>1, <5>2
      <4> QED BY ONLY <4>2, <4>3
    <3> QED BY ONLY <3>2, <3>3
  <2>6. FreshFrom(f1, j)
    BY ONLY <2>3, <2>4, <2>5 DEF FreshFrom
  <2>7. j \in S
    BY ONLY <2>1, <2>6
  <2> QED BY ONLY <1>3, <2>1, <2>7
<1>8. CASE k = 0
  BY ONLY <1>5, <1>8
<1> QED BY ONLY <1>7, <1>8

(* The frequencies of the module are such ones. *)
LEMMA InitialFreqs ==
  FreshFrom(InitialFreq, 0)
<1> DEFINE Q(f) == [i \in Nodes |-> IF i >= NumLeaves - 1 THEN 1 ELSE f[2*i + 1] + f[2*i + 2]]
<1>1. PICK f : FreshFrom(f, 0)
  BY FreshExists
<1>2. f = Q(f)
  <2>1. f \in [Nodes -> Nat] /\ \A x \in Nodes : x >= 0
    BY <1>1, NodeNumbers DEF FreshFrom
  <2>2. \A x \in Nodes : f[x] = IF x >= NumLeaves - 1 THEN 1 ELSE f[2*x + 1] + f[2*x + 2]
    BY ONLY <1>1, <2>1 DEF FreshFrom
  <2> QED BY ONLY <2>1, <2>2
<1>3. InitialFreq = CHOOSE q : q = Q(q)
  BY DEF InitialFreq
<1>4. InitialFreq = Q(InitialFreq)
  <2> HIDE DEF Q
  <2> QED BY ONLY <1>2, <1>3
<1>5. \A x \in Nodes : InitialFreq[x] =
        IF x >= NumLeaves - 1 THEN 1 ELSE InitialFreq[2*x + 1] + InitialFreq[2*x + 2]
  BY ONLY <1>4
<1> HIDE DEF Q
<1> DEFINE F == InitialFreq
           S == {k \in Nat : \A x \in Nodes : x >= k => F[x] \in Nat /\ F[x] >= 1}
<1>6. /\ NumNodes \in Nat /\ NumLeaves \in Nat /\ \A x \in Nodes : x \in Nat /\ x < NumNodes
      /\ \A x \in Nodes : x < NumLeaves - 1 => 2*x + 1 \in Nodes /\ 2*x + 2 \in Nodes
  BY Sizes
<1> HIDE DEF F
<1>7. NumNodes \in S
  BY ONLY <1>6 DEF S
<1>8. PICK k \in S : \A u \in S : k <= u
  <2>1. S \in SUBSET Nat /\ S # {}
    BY <1>7
  <2> HIDE DEF S
  <2> QED BY ONLY <2>1, Least
<1>9. k \in Nat /\ \A x \in Nodes : x >= k => F[x] \in Nat /\ F[x] >= 1
  BY <1>8
<1>10. k = 0
  <2>1. SUFFICES ASSUME k # 0 PROVE FALSE
    OBVIOUS
  <2>2. k - 1 \in Nat /\ ~(k <= k - 1)
    BY ONLY <1>9, <2>1
  <2>3. ASSUME NEW x \in Nodes, x >= k - 1 PROVE F[x] \in Nat /\ F[x] >= 1
    <3>1. CASE x >= k
      BY ONLY <1>9, <3>1, x \in Nodes
    <3>2. CASE x >= NumLeaves - 1
      <4>1. F[x] = 1
        BY ONLY <1>5, <3>2, x \in Nodes DEF F
      <4> QED BY ONLY <4>1
    <3>3. CASE ~(x >= k) /\ ~(x >= NumLeaves - 1)
      <4>1. /\ x < NumLeaves - 1 /\ 2*x + 1 \in Nodes /\ 2*x + 2 \in Nodes
            /\ 2*x + 1 >= k /\ 2*x + 2 >= k
        BY ONLY <1>6, <1>9, <2>3, <3>3, x \in Nodes
      <4>2. F[x] = F[2*x + 1] + F[2*x + 2]
        BY ONLY <1>5, <3>3, x \in Nodes DEF F
      <4>3. F[2*x + 1] \in Nat /\ F[2*x + 1] >= 1 /\ F[2*x + 2] \in Nat /\ F[2*x + 2] >= 1
        BY ONLY <1>9, <4>1
      <4> QED BY ONLY <4>2, <4>3
    <3> QED BY ONLY <3>1, <3>2, <3>3
  <2>4. k - 1 \in S
    BY ONLY <2>2, <2>3 DEF S
  <2> HIDE DEF S
  <2> QED BY ONLY <1>8, <2>2, <2>4
<1>11. \A x \in Nodes : F[x] \in Nat /\ F[x] >= 1
  BY ONLY <1>6, <1>9, <1>10
<1>12. F \in [Nodes -> Nat]
  <2>1. F = [x \in Nodes |-> F[x]]
    BY ONLY <1>4 DEF F, Q
  <2> QED BY ONLY <1>11, <2>1
<1> QED BY ONLY <1>5, <1>11, <1>12 DEF FreshFrom, F

(* They fall. *)
LEMMA FreshFalls ==
  ASSUME NEW f, FreshFrom(f, 0)
  PROVE  Falling(f)
<1> DEFINE S == {k \in Nat : \A x \in Nodes : x >= k /\ x + 1 \in Nodes => f[x + 1] <= f[x]}
<1>1. /\ NumNodes \in Nat /\ NumLeaves \in Nat /\ NumLeaves >= 2
      /\ \A x \in Nodes : x \in Nat /\ x < NumNodes
      /\ \A x \in Nodes : x < NumLeaves - 1 => 2*x + 1 \in Nodes /\ 2*x + 2 \in Nodes
  BY Sizes
<1>2. /\ f \in [Nodes -> Nat] /\ \A x \in Nodes : f[x] \in Nat /\ f[x] >= 1
      /\ \A x \in Nodes : x >= NumLeaves - 1 => f[x] = 1
      /\ \A x \in Nodes : x < NumLeaves - 1 => f[x] = f[2*x + 1] + f[2*x + 2]
  BY <1>1 DEF FreshFrom
<1>3. NumNodes \in S
  BY ONLY <1>1 DEF S
<1>4. PICK k \in S : \A u \in S : k <= u
  <2>1. S \in SUBSET Nat /\ S # {}
    BY <1>3
  <2> HIDE DEF S
  <2> QED BY ONLY <2>1, Least
<1>5. k \in Nat /\ \A x \in Nodes : x >= k /\ x + 1 \in Nodes => f[x + 1] <= f[x]
  BY <1>4
<1>6. k = 0
  <2>1. SUFFICES ASSUME k # 0 PROVE FALSE
    OBVIOUS
  <2>2. k - 1 \in Nat /\ ~(k <= k - 1)
    BY ONLY <1>5, <2>1
  <2>3. ASSUME NEW x \in Nodes, x >= k - 1, x + 1 \in Nodes PROVE f[x + 1] <= f[x]
    <3>0. x \in Nat /\ f[x] \in Nat /\ f[x] >= 1 /\ f[x + 1] \in Nat /\ f[x + 1] >= 1
      BY ONLY <1>1, <1>2, <2>3, x \in Nodes
    <3>1. CASE x >= k
      BY ONLY <1>5, <2>3, <3>1, x \in Nodes
    <3>2. CASE x + 1 >= NumLeaves - 1
      <4>1. f[x + 1] = 1
        BY ONLY <1>2, <2>3, <3>2
      <4> QED BY ONLY <3>0, <4>1
    <3>3. CASE ~(x >= k) /\ ~(x + 1 >= NumLeaves - 1)
      <4>1. /\ x < NumLeaves - 1 /\ x + 1 < NumLeaves - 1
            /\ 2*(x + 1) + 1 = (2*x + 2) + 1 /\ 2*(x + 1) + 2 = ((2*x + 2) + 1) + 1
            /\ 2*x + 2 = (2*x + 1) + 1
            /\ 2*x + 1 >= k /\ 2*x + 2 >= k /\ (2*x + 2) + 1 >= k
        BY ONLY <1>1, <1>5, <2>3, <3>0, <3>3
      <4>2. PICK a \in Nodes, b \in Nodes, c \in Nodes, d \in Nodes :
              a = 2*x + 1 /\ b = a + 1 /\ c = b + 1 /\ d = c + 1 /\ b = 2*x + 2
              /\ c = 2*(x + 1) + 1 /\ d = 2*(x + 1) + 2
        BY ONLY <1>1, <2>3, <4>1, x \in Nodes
      <4>3. f[b] <= f[a] /\ f[c] <= f[b] /\ f[d] <= f[c]
        <5>1. a >= k /\ b >= k /\ c >= k
          BY ONLY <4>1, <4>2
        <5>2. a + 1 \in Nodes /\ b + 1 \in Nodes /\ c + 1 \in Nodes
          BY ONLY <4>2, b \in Nodes, c \in Nodes, d \in Nodes
        <5>3. f[a + 1] <= f[a] /\ f[b + 1] <= f[b] /\ f[c + 1] <= f[c]
          BY ONLY <1>5, <5>1, <5>2, a \in Nodes, b \in Nodes, c \in Nodes
        <5> QED BY ONLY <4>2, <5>3
      <4>4. f[x] = f[a] + f[b]
        BY ONLY <1>2, <4>1, <4>2, x \in Nodes
      <4>5. f[x + 1] = f[c] + f[d]
        BY ONLY <1>2, <2>3, <4>1, <4>2
      <4>6. f[a] \in Nat /\ f[b] \in Nat /\ f[c] \in Nat /\ f[d] \in Nat
        BY ONLY <1>2, a \in Nodes, b \in Nodes, c \in Nodes, d \in Nodes
      <4> QED BY ONLY <4>3, <4>4, <4>5, <4>6
    <3> QED BY ONLY <3>1, <3>2, <3>3
  <2>4. k - 1 \in S
    BY ONLY <2>2, <2>3 DEF S
  <2> HIDE DEF S
  <2> QED BY ONLY <1>4, <2>2, <2>4
<1>7. \A x \in Nodes : x + 1 \in Nodes => f[x + 1] <= f[x]
  BY ONLY <1>1, <1>5, <1>6
<1>8. ASSUME NEW x \in Nodes, NEW y \in Nodes, x < y PROVE f[y] <= f[x]
  <2> DEFINE V == {z \in Nodes : x < z /\ ~(f[z] <= f[x])}
  <2>1. SUFFICES ASSUME y \in V PROVE FALSE
    BY <1>8
  <2>2. V \in SUBSET Nat /\ V # {}
    BY <1>1, <2>1
  <2>3. PICK z \in V : \A u \in V : z <= u
    <3> HIDE DEF V
    <3> QED BY ONLY <2>2, Least
  <2>4. z \in Nodes /\ x < z /\ ~(f[z] <= f[x]) /\ z \in Nat /\ x \in Nat
    BY <1>1, <2>3
  <2>5. z - 1 \in Nodes /\ z - 1 \in Nat /\ z - 1 < z /\ (z - 1) + 1 = z /\ (x = z - 1 \/ x < z - 1)
    BY ONLY <2>4, NodeNumbers
  <2>6. z - 1 \notin V
    <3> HIDE DEF V
    <3> QED BY ONLY <2>3, <2>4, <2>5
  <2>7. f[z] <= f[z - 1]
    <3>1. PICK u \in Nodes : u = z - 1
      BY ONLY <2>5
    <3>2. f[u + 1] <= f[u]
      BY ONLY <1>7, <2>4, <2>5, <3>1, u \in Nodes
    <3> QED BY ONLY <2>5, <3>1, <3>2
  <2>8. f[z - 1] <= f[x]
    <3>1. x < z - 1 => f[z - 1] <= f[x]
      BY ONLY <2>5, <2>6 DEF V
    <3> QED BY ONLY <1>2, <2>5, <3>1, x \in Nodes
  <2> QED BY ONLY <1>2, <2>4, <2>5, <2>7, <2>8, x \in Nodes
<1> QED BY ONLY <1>2, <1>8 DEF Falling

(* Sums of the frequencies up to each node. *)
LEMMA SumsExist ==
  ASSUME NEW f \in [Nodes -> Nat]
  PROVE  \E G \in [0..NumNodes -> Nat] : \A x \in Nodes : G[x + 1] = G[x] + f[x]
<1> DEFINE P(G, k) == /\ G \in [0..NumNodes -> Nat]
                      /\ \A x \in Nodes : x < k => G[x + 1] = G[x] + f[x]
           B == {k \in 0..NumNodes : ~ \E G : P(G, k)}
<1>1. /\ NumNodes \in Nat /\ \A x \in Nodes : x \in Nat /\ x < NumNodes
      /\ \A x \in Nodes : f[x] \in Nat
  BY NodeNumbers
<1>2. B = {}
  <2>1. SUFFICES ASSUME B # {} PROVE FALSE
    OBVIOUS
  <2>2. B \in SUBSET Nat
    BY <1>1
  <2>3. PICK k \in B : \A u \in B : k <= u
    <3> HIDE DEF B
    <3> QED BY ONLY <2>1, <2>2, Least
  <2>4. k \in 0..NumNodes /\ ~ \E G : P(G, k)
    BY <2>3
  <2>5. k # 0
    <3>1. P([x \in 0..NumNodes |-> 0], 0)
      BY <1>1
    <3> HIDE DEF P
    <3> QED BY ONLY <2>4, <3>1
  <2>6. k - 1 \in 0..NumNodes /\ ~(k <= k - 1) /\ k - 1 \in Nat /\ k \in Nat
    BY ONLY <1>1, <2>4, <2>5
  <2>7. PICK G : P(G, k - 1)
    <3>1. k - 1 \notin B
      <4> HIDE DEF B
      <4> QED BY ONLY <2>3, <2>6
    <3> HIDE DEF P
    <3> QED BY ONLY <2>6, <3>1 DEF B
  <2>8. k - 1 \in Nodes
    BY ONLY <1>1, <2>4, <2>6, NodeNumbers
  <2>9. PICK v \in Nat : v = G[k - 1] + f[k - 1]
    BY <1>1, <2>6, <2>7, <2>8
  <2> DEFINE G1 == [G EXCEPT ![k] = v]
  <2>10. G1 \in [0..NumNodes -> Nat] /\ \A x \in 0..NumNodes : G1[x] = IF x = k THEN v ELSE G[x]
    BY <2>4, <2>7
  <2> HIDE DEF G1
  <2>11. ASSUME NEW x \in Nodes, x < k PROVE G1[x + 1] = G1[x] + f[x]
    <3>1. x \in Nat /\ x \in 0..NumNodes /\ x + 1 \in 0..NumNodes /\ x # k
      BY ONLY <1>1, <2>6, <2>11, x \in Nodes
    <3>2. CASE x = k - 1
      <4>1. x + 1 = k
        BY ONLY <2>6, <3>2
      <4> QED BY ONLY <2>9, <2>10, <3>1, <3>2, <4>1
    <3>3. CASE x # k - 1
      <4>1. x + 1 # k /\ x < k - 1
        BY ONLY <2>6, <2>11, <3>1, <3>3
      <4>2. G[x + 1] = G[x] + f[x]
        BY <2>7, <4>1
      <4> QED BY ONLY <2>10, <3>1, <4>1, <4>2
    <3> QED BY ONLY <3>2, <3>3
  <2>12. P(G1, k)
    BY ONLY <2>10, <2>11 DEF P
  <2> HIDE DEF P
  <2> QED BY ONLY <2>4, <2>12
<1>3. \E G : P(G, NumNodes)
  <2>1. NumNodes \in 0..NumNodes
    BY ONLY <1>1
  <2> HIDE DEF P
  <2> QED BY ONLY <1>2, <2>1 DEF B
<1> QED BY <1>1, <1>3

(* The root counts every leaf: from each cut through the tree to the next  *)
(* the sum stays the same.                                                 *)
LEMMA FreshRoot ==
  ASSUME NEW f, FreshFrom(f, 0)
  PROVE  f[0] = NumLeaves
<1>1. /\ NumNodes \in Nat /\ NumLeaves \in Nat /\ NumLeaves >= 2 /\ NumNodes = 2 * NumLeaves - 1
      /\ \A x \in Nodes : x \in Nat /\ x < NumNodes
      /\ \A x \in Nat : x < NumNodes => x \in Nodes
      /\ \A x \in Nodes : x < NumLeaves - 1 => 2*x + 1 \in Nodes /\ 2*x + 2 \in Nodes
      /\ 0 \in Nodes
  BY Sizes
<1>2. /\ f \in [Nodes -> Nat] /\ \A x \in Nodes : f[x] \in Nat
      /\ \A x \in Nodes : x >= NumLeaves - 1 => f[x] = 1
      /\ \A x \in Nodes : x < NumLeaves - 1 => f[x] = f[2*x + 1] + f[2*x + 2]
  BY <1>1 DEF FreshFrom
<1>3. PICK G \in [0..NumNodes -> Nat] : \A x \in Nodes : G[x + 1] = G[x] + f[x]
  BY <1>2, SumsExist
<1>4. \A x \in Nat : x <= NumNodes => G[x] \in Nat
  BY ONLY <1>1, G \in [0..NumNodes -> Nat]
<1> DEFINE B == {n \in 0..NumLeaves-1 : ~(G[2*n + 1] = G[n] + f[0])}
           C == {x \in NumLeaves-1..NumNodes : ~(G[x] = G[NumLeaves - 1] + (x - (NumLeaves - 1)))}
<1>5. B = {}
  <2>1. SUFFICES ASSUME B # {} PROVE FALSE
    OBVIOUS
  <2>2. B \in SUBSET Nat
    BY <1>1
  <2>3. PICK n \in B : \A u \in B : n <= u
    <3> HIDE DEF B
    <3> QED BY ONLY <2>1, <2>2, Least
  <2>4. n \in Nat /\ n <= NumLeaves - 1
    BY ONLY <1>1, <2>3 DEF B
  <2>not. ~(G[2*n + 1] = G[n] + f[0])
    BY ONLY <2>3 DEF B
  <2>5. n # 0
    <3>1. 0 + 1 = 1 /\ 2*0 + 1 = 1
      OBVIOUS
    <3> QED BY ONLY <1>1, <1>3, <2>not, <3>1
  <2>6. PICK p \in Nat : n = p + 1
    BY ONLY <2>4, <2>5
  <2>7. p < NumLeaves - 1 /\ p \in 0..NumLeaves-1 /\ ~(n <= p) /\ p \in Nodes
    BY ONLY <1>1, <2>4, <2>6
  <2>8. G[2*p + 1] = G[p] + f[0]
    <3>1. p \notin B
      <4> HIDE DEF B
      <4> QED BY ONLY <2>3, <2>7
    <3> QED BY ONLY <2>7, <3>1 DEF B
  <2>9. PICK a \in Nodes, b \in Nodes : a = 2*p + 1 /\ b = 2*p + 2 /\ b = a + 1 /\ b + 1 = 2*n + 1
    BY ONLY <1>1, <2>6, <2>7
  <2>10. G[a + 1] = G[a] + f[a] /\ G[b + 1] = G[b] + f[b] /\ G[p + 1] = G[p] + f[p]
    BY ONLY <1>3, <2>7, a \in Nodes, b \in Nodes
  <2>11. f[p] = f[a] + f[b]
    BY ONLY <1>2, <2>7, <2>9
  <2>12. f[a] \in Nat /\ f[b] \in Nat /\ f[p] \in Nat /\ f[0] \in Nat /\ G[a] \in Nat /\ G[b] \in Nat /\ G[p] \in Nat
    <3>1. a \in Nat /\ a <= NumNodes /\ b \in Nat /\ b <= NumNodes /\ p <= NumNodes
      BY ONLY <1>1, <2>7, a \in Nodes, b \in Nodes
    <3> QED BY ONLY <1>1, <1>2, <1>4, <2>7, <3>1, a \in Nodes, b \in Nodes, p \in Nat
  <2>13. G[2*n + 1] = G[b + 1] /\ G[n] = G[p + 1] /\ G[b] = G[a + 1] /\ G[a] = G[p] + f[0]
    BY ONLY <2>6, <2>8, <2>9
  <2>14. G[2*n + 1] = (G[a] + f[a]) + f[b] /\ G[n] = G[p] + (f[a] + f[b])
    BY ONLY <2>10, <2>11, <2>13
  <2>15. PICK ga \in Nat, gp \in Nat, fa \in Nat, fb \in Nat, r \in Nat :
           ga = G[a] /\ gp = G[p] /\ fa = f[a] /\ fb = f[b] /\ r = f[0]
    BY ONLY <2>12
  <2>16. G[2*n + 1] = (ga + fa) + fb /\ G[n] = gp + (fa + fb) /\ ga = gp + r
    BY ONLY <2>13, <2>14, <2>15
  <2>17. (ga + fa) + fb = (gp + (fa + fb)) + r
    BY ONLY <2>16, ga \in Nat, gp \in Nat, fa \in Nat, fb \in Nat, r \in Nat
  <2> QED BY ONLY <2>15, <2>16, <2>17, <2>not
<1>6. C = {}
  <2>1. SUFFICES ASSUME C # {} PROVE FALSE
    OBVIOUS
  <2>2. C \in SUBSET Nat
    BY <1>1
  <2>3. PICK x \in C : \A u \in C : x <= u
    <3> HIDE DEF C
    <3> QED BY ONLY <2>1, <2>2, Least
  <2>4. x \in Nat /\ NumLeaves - 1 <= x /\ x <= NumNodes
    BY ONLY <1>1, <2>3 DEF C
  <2>not. ~(G[x] = G[NumLeaves - 1] + (x - (NumLeaves - 1)))
    BY ONLY <2>3 DEF C
  <2>5. x # NumLeaves - 1
    <3>1. SUFFICES ASSUME x = NumLeaves - 1 PROVE FALSE
      OBVIOUS
    <3>2. G[x] \in Nat
      BY ONLY <1>4, <2>4
    <3> QED BY ONLY <1>1, <2>4, <2>not, <3>1, <3>2
  <2>6. PICK p \in Nat : x = p + 1
    BY ONLY <1>1, <2>4, <2>5
  <2>7. p \in Nodes /\ p >= NumLeaves - 1 /\ p \in NumLeaves-1..NumNodes /\ ~(x <= p)
    BY ONLY <1>1, <2>4, <2>5, <2>6
  <2>8. G[p] = G[NumLeaves - 1] + (p - (NumLeaves - 1))
    <3>1. p \notin C
      <4> HIDE DEF C
      <4> QED BY ONLY <2>3, <2>7
    <3> QED BY ONLY <2>7, <3>1 DEF C
  <2>9. G[x] = G[p] + 1
    BY ONLY <1>2, <1>3, <2>6, <2>7
  <2>10. G[NumLeaves - 1] \in Nat
    BY ONLY <1>1, <1>4
  <2> QED BY ONLY <1>1, <2>6, <2>8, <2>9, <2>10, <2>not
<1>7. PICK n \in Nat : n = NumLeaves - 1 /\ 2*n + 1 = NumNodes /\ n <= NumNodes
  BY ONLY <1>1
<1>8. G[2*n + 1] = G[n] + f[0]
  <2>1. n \in 0..NumLeaves-1
    BY ONLY <1>1, <1>7
  <2>2. n \notin B
    BY ONLY <1>5
  <2> QED BY ONLY <2>1, <2>2 DEF B
<1>9. G[NumNodes] = G[n] + (NumNodes - n)
  <2>1. NumNodes \in NumLeaves-1..NumNodes
    BY ONLY <1>1
  <2>2. NumNodes \notin C
    BY ONLY <1>6
  <2>3. G[NumNodes] = G[NumLeaves - 1] + (NumNodes - (NumLeaves - 1))
    BY ONLY <2>1, <2>2 DEF C
  <2> QED BY ONLY <1>7, <2>3
<1>10. G[n] \in Nat /\ f[0] \in Nat
  BY ONLY <1>1, <1>2, <1>4, <1>7
<1> QED BY ONLY <1>1, <1>7, <1>8, <1>9, <1>10

(* The numbers that new gives count the drops from the other end.          *)
LEMMA InitialGroupDrops ==
  ASSUME NEW H, H = InitialGroup(0)
  PROVE  /\ H \in Nodes
         /\ \E h : /\ Drops(InitialFreq, h) /\ h[NumNodes - 1] = H
                   /\ \A x \in Nodes : h[x] <= H /\ InitialGroup(x) = H - h[x]
<1> DEFINE F == InitialFreq
           D == {j \in 0..NumNodes-2 : F[j] # F[j+1]}
           h == [x \in Nodes |-> Before(D, x)]
<1>1. /\ NumNodes \in Nat /\ NumNodes >= 3 /\ 0 \in Nodes /\ NumNodes - 1 \in Nodes /\ NumNodes - 1 \in Nat
      /\ \A x \in Nodes : x \in Nat /\ x < NumNodes
      /\ \A x \in Nodes : x # 0 => x - 1 \in Nodes /\ x - 1 \in Nat /\ (x - 1) + 1 = x /\ x - 1 \in 0..NumNodes-2
      /\ 0..NumNodes-2 \subseteq Nodes
  BY Sizes
<1> HIDE DEF F
<1>2. D \in SUBSET (0..(NumNodes-1)-1)
  BY <1>1
<1>3. /\ IsFiniteSet(D) /\ Before(D, 0) = 0 /\ Before(D, NumNodes - 1) = Cardinality(D)
      /\ \A x \in Nat : /\ Before(D, x) \in Nat
                        /\ Before(D, x + 1) = IF x \in D THEN Before(D, x) + 1 ELSE Before(D, x)
  <2> HIDE DEF D
  <2> QED BY ONLY <1>1, <1>2, BeforeSteps
<1>4. \A x \in Nodes : h[x] = Before(D, x) /\ h[x] \in Nat
  <2> HIDE DEF D
  <2> QED BY <1>1, <1>3
<1>5. ASSUME NEW x \in Nodes
      PROVE  /\ InitialGroup(x) \in Nat /\ InitialGroup(x) + Before(D, x) = Cardinality(D)
             /\ Before(D, x) \in Nat
  <2> DEFINE U == {j \in x..NumNodes-2 : F[j] # F[j+1]}
             W == {j \in D : j < x}
  <2>1. U \cup W = D /\ U \cap W = {}
    <3>0. x \in Nat
      BY <1>1
    <3>1. \A j \in U : j \in D /\ j \notin W
      BY <3>0
    <3>2. \A j \in D : j \in U \/ j \in W
      BY <3>0
    <3> QED BY <3>1, <3>2
  <2>2. InitialGroup(x) = Cardinality(U) /\ Before(D, x) = Cardinality(W)
    BY DEF InitialGroup, Before, F
  <2> HIDE DEF U, W, D
  <2>3. IsFiniteSet(U) /\ IsFiniteSet(W)
    <3>1. U \subseteq D /\ W \subseteq D
      BY ONLY <2>1
    <3> QED BY ONLY <1>3, <3>1, FS_Subset
  <2>4. Cardinality(U \cup W) = Cardinality(U) + Cardinality(W) - Cardinality(U \cap W)
    BY ONLY <2>3, FS_Union
  <2>5. Cardinality(U) \in Nat /\ Cardinality(W) \in Nat /\ Cardinality(U \cap W) = 0
    BY ONLY <2>1, <2>3, FS_CardinalityType, FS_EmptySet
  <2>6. PICK a \in Nat, b \in Nat : a = Cardinality(U) /\ b = Cardinality(W)
    BY ONLY <2>5
  <2>7. Cardinality(D) = a + b
    <3>1. Cardinality(D) = a + b - 0
      BY ONLY <2>1, <2>4, <2>5, <2>6
    <3> QED BY ONLY <3>1, a \in Nat, b \in Nat
  <2> QED BY ONLY <2>2, <2>6, <2>7
<1>6. H = Cardinality(D) /\ H \in Nat /\ H < NumNodes
  <2>1. InitialGroup(0) \in Nat /\ InitialGroup(0) + Before(D, 0) = Cardinality(D)
    BY ONLY <1>1, <1>5
  <2>2. H = Cardinality(D) /\ H \in Nat
    BY ONLY <1>3, <2>1, H = InitialGroup(0)
  <2>3. D \subseteq 0..NumNodes-2
    OBVIOUS
  <2>4. IsFiniteSet(0..NumNodes-2) /\ Cardinality(0..NumNodes-2) = NumNodes - 1
    <3>1. 0 \in Int /\ NumNodes - 2 \in Int /\ ~(0 > NumNodes - 2)
      BY ONLY <1>1
    <3>2. /\ IsFiniteSet(0..NumNodes-2)
          /\ Cardinality(0..NumNodes-2) = IF 0 > NumNodes - 2 THEN 0 ELSE (NumNodes - 2) - 0 + 1
      BY ONLY <3>1, FS_Interval
    <3> QED BY ONLY <1>1, <3>1, <3>2
  <2> HIDE DEF D
  <2>5. Cardinality(D) <= Cardinality(0..NumNodes-2)
    BY ONLY <2>3, <2>4, FS_Subset
  <2> QED BY ONLY <1>1, <2>2, <2>4, <2>5
<1>7. H \in Nodes
  BY ONLY <1>6, NodeNumbers
<1>8. \A x \in Nodes : h[x] <= H /\ InitialGroup(x) = H - h[x]
  <2> HIDE DEF h, D
  <2> QED BY ONLY <1>4, <1>5, <1>6
<1>9. h[NumNodes - 1] = H
  BY ONLY <1>1, <1>3, <1>4, <1>6
<1>10. \A j \in 0..NumNodes-2 : j \in D <=> F[j] # F[j+1]
  OBVIOUS
<1>11. Drops(F, h)
  <2>1. h \in [Nodes -> Nat]
    <3>1. h = [x \in Nodes |-> h[x]]
      OBVIOUS
    <3> HIDE DEF h
    <3> QED BY ONLY <1>4, <3>1
  <2> HIDE DEF h, D
  <2>2. h[0] = 0
    BY ONLY <1>1, <1>3, <1>4
  <2>3. ASSUME NEW x \in Nodes, x # 0 PROVE h[x] = h[x - 1] + (IF F[x] # F[x - 1] THEN 1 ELSE 0)
    <3>1. PICK y \in Nodes : y = x - 1 /\ y + 1 = x /\ y \in Nat /\ y \in 0..NumNodes-2
      BY ONLY <1>1, <2>3, x \in Nodes
    <3>2. h[x] = Before(D, y + 1) /\ h[y] = Before(D, y) /\ h[y] \in Nat
      BY ONLY <1>4, <3>1, x \in Nodes
    <3>3. Before(D, y + 1) = IF y \in D THEN Before(D, y) + 1 ELSE Before(D, y)
      BY ONLY <1>3, <3>1
    <3>4. y \in D <=> F[x] # F[y]
      BY ONLY <1>10, <3>1
    <3>5. h[x] = h[y] + (IF F[x] # F[y] THEN 1 ELSE 0)
      BY ONLY <3>2, <3>3, <3>4
    <3> QED BY ONLY <3>1, <3>5
  <2> QED BY ONLY <2>1, <2>2, <2>3 DEF Drops
<1> HIDE DEF h
<1> QED BY ONLY <1>7, <1>8, <1>9, <1>11 DEF F

(* The groups of the fresh tree. *)
LEMMA InitialGroups ==
  ASSUME NEW g, g = [x \in Nodes |-> InitialGroup(x)], NEW ld, ld = [y \in Nodes |-> InitialLeader(y)],
         NEW gs, gs = [j \in Nodes |-> j]
  PROVE  Grouped(InitialFreq, g, ld) /\ Allotted(g, gs, InitialGroup(0) + 1) /\ g \in [Nodes -> Nodes]
<1> DEFINE H == InitialGroup(0)
           F == InitialFreq
<1>1. H \in Nodes /\ \E h : /\ Drops(F, h) /\ h[NumNodes - 1] = H
                            /\ \A x \in Nodes : h[x] <= H /\ InitialGroup(x) = H - h[x]
  BY ONLY InitialGroupDrops
<1>2. PICK h : /\ Drops(F, h) /\ h[NumNodes - 1] = H
               /\ \A x \in Nodes : h[x] <= H /\ InitialGroup(x) = H - h[x]
  BY ONLY <1>1
<1>3. Falling(F)
  BY InitialFreqs, FreshFalls
<1> HIDE DEF F, H
<1>4. /\ \A x, y \in Nodes : h[x] = h[y] <=> F[x] = F[y]
      /\ \A x \in Nodes : \A v \in 0..h[x] : \E y \in Nodes : h[y] = v
  BY ONLY <1>2, <1>3, Stairs
<1>5. /\ H \in Nat /\ \A x \in Nodes : h[x] \in Nat /\ x \in Nat
      /\ NumNodes - 1 \in Nodes /\ \A y \in Nat : y < NumNodes => y \in Nodes
      /\ NumNodes \in Nat /\ H < NumNodes
  <2>1. \A x \in Nodes : h[x] \in Nat
    BY ONLY <1>2 DEF Drops
  <2>2. /\ \A x \in Nodes : x \in Nat /\ x < NumNodes
        /\ NumNodes - 1 \in Nodes /\ \A y \in Nat : y < NumNodes => y \in Nodes
        /\ NumNodes \in Nat
    BY ONLY Sizes
  <2> QED BY ONLY <1>1, <2>1, <2>2
<1>6. \A x \in Nodes : g[x] = H - h[x] /\ g[x] \in Nodes /\ g[x] \in Nat /\ g[x] <= H /\ g[x] = InitialGroup(x)
  <2>1. \A x \in Nodes : g[x] = InitialGroup(x)
    BY ONLY g = [x \in Nodes |-> InitialGroup(x)]
  <2>2. ASSUME NEW x \in Nodes PROVE H - h[x] \in Nat /\ H - h[x] <= H /\ H - h[x] < NumNodes
    BY ONLY <1>2, <1>5, x \in Nodes
  <2> QED BY ONLY <1>2, <1>5, <2>1, <2>2
<1>7. g \in [Nodes -> Nodes]
  <2>1. g = [x \in Nodes |-> g[x]]
    BY ONLY g = [x \in Nodes |-> InitialGroup(x)]
  <2> QED BY ONLY <1>6, <2>1
<1>8. \A x, y \in Nodes : g[x] = g[y] <=> F[x] = F[y]
  <2>1. \A x, y \in Nodes : g[x] = g[y] <=> h[x] = h[y]
    BY ONLY <1>5, <1>6
  <2> QED BY ONLY <1>4, <2>1
<1>9. \A v \in 0..H : \E x \in Nodes : g[x] = v
  <2>1. ASSUME NEW v \in 0..H PROVE \E x \in Nodes : g[x] = v
    <3>1. H - v \in 0..h[NumNodes - 1] /\ v \in Nat
      BY ONLY <1>2, <1>5, v \in 0..H
    <3>2. PICK x \in Nodes : h[x] = H - v
      BY ONLY <1>4, <1>5, <3>1
    <3>3. g[x] = v
      BY ONLY <1>5, <1>6, <3>1, <3>2, x \in Nodes
    <3> QED BY ONLY <3>3
  <2> QED BY ONLY <2>1
<1>10. ASSUME NEW y \in Nodes
       PROVE  /\ ld[y] \in Nodes
              /\ (\E x \in Nodes : g[x] = y) => g[ld[y]] = y /\ \A j \in 0..ld[y]-1 : g[j] # y
  <2>0. /\ ld[y] = InitialLeader(y) /\ 0 \in Nodes
        /\ \A i \in Nodes : \A j \in 0..i-1 : j \in Nodes
    BY ONLY y \in Nodes, ld = [z \in Nodes |-> InitialLeader(z)], Sizes
  <2>1. CASE \E x \in Nodes : g[x] = y
    <3>1. PICK x \in Nodes : g[x] = y
      BY ONLY <2>1
    <3>2. PICK i \in Nodes : g[i] = g[x] /\ \A j \in 0..i-1 : g[j] # g[x]
      BY ONLY <1>7, x \in Nodes, FirstOf
    <3>3. InitialGroup(i) = y /\ \A j \in 0..i-1 : InitialGroup(j) # y
      BY ONLY <1>6, <2>0, <3>1, <3>2, i \in Nodes
    <3>4. \E z \in Nodes : InitialGroup(z) = y
      BY ONLY <3>3, i \in Nodes
    <3>5. InitialLeader(y) = CHOOSE z \in Nodes : /\ InitialGroup(z) = y
                                                  /\ \A j \in 0..z-1 : InitialGroup(j) # y
      BY ONLY <3>4 DEF InitialLeader
    <3>6. /\ ld[y] \in Nodes /\ InitialGroup(ld[y]) = y
          /\ \A j \in 0..ld[y]-1 : InitialGroup(j) # y
      BY ONLY <2>0, <3>3, <3>5, i \in Nodes
    <3> QED BY ONLY <1>6, <2>0, <3>6
  <2>2. CASE ~ \E x \in Nodes : g[x] = y
    <3>1. ~ \E x \in Nodes : InitialGroup(x) = y
      BY ONLY <1>6, <2>2
    <3>2. InitialLeader(y) = 0
      BY ONLY <3>1 DEF InitialLeader
    <3> QED BY ONLY <2>0, <2>2, <3>2
  <2> QED BY ONLY <2>1, <2>2
<1>11. ld \in [Nodes -> Nodes]
  <2>1. ld = [y \in Nodes |-> ld[y]]
    BY ONLY ld = [y \in Nodes |-> InitialLeader(y)]
  <2> QED BY ONLY <1>10, <2>1
<1>12. ASSUME NEW x \in Nodes PROVE g[ld[g[x]]] = g[x] /\ ld[g[x]] <= x
  <2>1. PICK i \in Nodes : i = ld[g[x]]
    BY ONLY <1>6, <1>11, x \in Nodes
  <2>2. g[i] = g[x] /\ \A j \in 0..i-1 : g[j] # g[x]
    BY ONLY <1>6, <1>10, <2>1, x \in Nodes
  <2>3. ~(x < i)
    BY ONLY <1>5, <2>2, x \in Nodes, i \in Nodes
  <2> QED BY ONLY <1>5, <2>1, <2>2, <2>3, x \in Nodes, i \in Nodes
<1>13. \A x \in Nodes : g[x] <= H
  BY ONLY <1>6
<1>14. \A x \in Nodes : g[ld[g[x]]] = g[x] /\ ld[g[x]] <= x
  BY ONLY <1>12
<1>15. Grouped(F, g, ld) /\ Allotted(g, gs, H + 1)
  BY ONLY <1>1, <1>7, <1>8, <1>9, <1>11, <1>13, <1>14, gs = [j \in Nodes |-> j], Numbered
<1> QED BY ONLY <1>7, <1>15 DEF F, H

(* The links of the fresh tree. *)
LEMMA FreshLinks ==
  ASSUME NEW L, L = {x \in Nodes : x >= NumLeaves - 1},
         NEW ar, ar = [x \in Nodes |-> IF x >= NumLeaves - 1 THEN NumNodes - 1 - x ELSE 2*x + 2],
         NEW pa, pa = [x \in Nodes |-> IF x = 0 THEN 0 ELSE (x - 1) \div 2],
         NEW lv, lv = [v \in Values |-> NumNodes - 1 - v]
  PROVE  Linked(L, ar, pa, lv)
<1>1. /\ NumNodes \in Nat /\ NumLeaves \in Nat /\ NumLeaves >= 2 /\ NumNodes = 2 * NumLeaves - 1
      /\ \A x \in Nodes : x \in Nat /\ x < NumNodes
      /\ \A x \in Nat : x < NumNodes => x \in Nodes
      /\ \A v \in Values : v \in Nat /\ v < NumLeaves
      /\ \A v \in Nat : v < NumLeaves => v \in Values
      /\ 0 \in Nodes
  BY Sizes
<1>2. \A x \in Nodes : x \in L <=> x >= NumLeaves - 1
  BY ONLY L = {x \in Nodes : x >= NumLeaves - 1}
<1>3. /\ \A x \in Nodes : x >= NumLeaves - 1 => ar[x] = NumNodes - 1 - x
      /\ \A x \in Nodes : ~(x >= NumLeaves - 1) => ar[x] = 2*x + 2
  BY ONLY ar = [x \in Nodes |-> IF x >= NumLeaves - 1 THEN NumNodes - 1 - x ELSE 2*x + 2]
<1>4. /\ pa[0] = 0
      /\ \A x \in Nodes : x # 0 => pa[x] = (x - 1) \div 2
  BY ONLY <1>1, pa = [x \in Nodes |-> IF x = 0 THEN 0 ELSE (x - 1) \div 2]
<1>5. \A v \in Values : lv[v] = NumNodes - 1 - v
  BY ONLY lv = [v \in Values |-> NumNodes - 1 - v]
<1>6. ASSUME NEW x \in Nodes, x # 0
      PROVE  /\ pa[x] \in Nat /\ pa[x] < NumLeaves - 1 /\ pa[x] \in Nodes /\ pa[x] < x
             /\ x = 2*pa[x] + 1 \/ x = 2*pa[x] + 2
  <2>1. x \in Nat /\ x < NumNodes /\ x >= 1
    BY ONLY <1>1, <1>6, x \in Nodes
  <2>2. PICK p \in Int : p = (x - 1) \div 2
    BY ONLY <2>1
  <2>3. p \in Nat /\ (x = 2*p + 1 \/ x = 2*p + 2)
    BY ONLY <2>1, <2>2
  <2>4. p < NumLeaves - 1 /\ p < x /\ p < NumNodes
    BY ONLY <1>1, <2>1, <2>3
  <2> QED BY ONLY <1>1, <1>4, <1>6, <2>2, <2>3, <2>4, x \in Nodes
<1>7. ASSUME NEW x \in Nodes, x >= NumLeaves - 1 PROVE ar[x] \in Values /\ lv[ar[x]] = x
  <2>1. ar[x] = NumNodes - 1 - x /\ x \in Nat /\ x < NumNodes
    BY ONLY <1>1, <1>3, <1>7, x \in Nodes
  <2>2. PICK v \in Int : v = NumNodes - 1 - x
    BY ONLY <1>1, <2>1
  <2>3. v \in Nat /\ v < NumLeaves /\ NumNodes - 1 - v = x
    BY ONLY <1>1, <1>7, <2>1, <2>2
  <2>4. v \in Values
    BY ONLY <1>1, <2>3
  <2> QED BY ONLY <1>5, <2>1, <2>2, <2>3, <2>4
<1>8. ASSUME NEW v \in Values PROVE lv[v] \in L /\ ar[lv[v]] = v /\ lv[v] \in Nodes
  <2>1. PICK x \in Int : x = NumNodes - 1 - v
    BY ONLY <1>1, v \in Values
  <2>2. x \in Nat /\ x < NumNodes /\ x >= NumLeaves - 1 /\ NumNodes - 1 - x = v
    BY ONLY <1>1, <2>1, v \in Values
  <2>3. x \in Nodes
    BY ONLY <1>1, <2>2
  <2> QED BY ONLY <1>2, <1>3, <1>5, <2>1, <2>2, <2>3, v \in Values
<1>9. ASSUME NEW x \in Nodes, x \notin L
      PROVE  /\ ar[x] \in EvenNodes /\ ar[x] - 1 \in Nodes /\ x < ar[x] - 1 /\ ar[x] \in Nat
             /\ pa[ar[x]] = x /\ pa[ar[x] - 1] = x
  <2>1. x \in Nat /\ ~(x >= NumLeaves - 1) /\ x < NumLeaves - 1
    BY ONLY <1>1, <1>2, <1>9, x \in Nodes
  <2>2. ar[x] = 2*x + 2
    BY ONLY <1>3, <2>1, x \in Nodes
  <2>3. PICK a \in Nat, b \in Nat : a = 2*x + 2 /\ b = a - 1 /\ b = 2*x + 1
    BY ONLY <2>1
  <2>4. a \in Nodes /\ b \in Nodes /\ a # 0 /\ b # 0 /\ x < b
    BY ONLY <1>1, <2>1, <2>3
  <2>5. a % 2 = 0
    BY ONLY <2>1, <2>3
  <2>6. pa[a] = x /\ pa[b] = x
    <3>1. /\ pa[a] \in Nat /\ (a = 2*pa[a] + 1 \/ a = 2*pa[a] + 2)
          /\ pa[b] \in Nat /\ (b = 2*pa[b] + 1 \/ b = 2*pa[b] + 2)
      BY ONLY <1>6, <2>4
    <3>2. PICK p \in Nat, q \in Nat : p = pa[a] /\ q = pa[b]
      BY ONLY <3>1
    <3>3. (a = 2*p + 1 \/ a = 2*p + 2) /\ (b = 2*q + 1 \/ b = 2*q + 2)
      BY ONLY <3>1, <3>2
    <3>4. x \in Nat /\ p \in Nat /\ q \in Nat /\ a = 2*x + 2 /\ b = 2*x + 1
      BY ONLY <2>1, <2>3, <3>2
    <3>5. p = x
      BY ONLY <3>3, <3>4
    <3>6. q = x
      BY ONLY <3>3, <3>4
    <3> QED BY ONLY <3>2, <3>5, <3>6
  <2> QED BY ONLY <2>2, <2>3, <2>4, <2>5, <2>6 DEF EvenNodes
<1>10. LinkTypes(L, ar, pa, lv)
  <2>1. \A x \in Nodes : ar[x] \in Nat
    BY ONLY <1>1, <1>2, <1>7, <1>9
  <2>2. ar \in [Nodes -> Nat]
    <3>1. ar = [x \in Nodes |-> ar[x]]
      BY ONLY ar = [x \in Nodes |-> IF x >= NumLeaves - 1 THEN NumNodes - 1 - x ELSE 2*x + 2]
    <3> QED BY ONLY <2>1, <3>1
  <2>3. pa \in [Nodes -> Nodes]
    <3>1. pa = [x \in Nodes |-> pa[x]]
      BY ONLY pa = [x \in Nodes |-> IF x = 0 THEN 0 ELSE (x - 1) \div 2]
    <3>2. \A x \in Nodes : pa[x] \in Nodes
      BY ONLY <1>1, <1>4, <1>6
    <3> QED BY ONLY <3>1, <3>2
  <2>4. lv \in [Values -> Nodes]
    <3>1. lv = [v \in Values |-> lv[v]]
      BY ONLY lv = [v \in Values |-> NumNodes - 1 - v]
    <3> QED BY ONLY <1>8, <3>1
  <2>5. L \subseteq Nodes
    BY ONLY L = {x \in Nodes : x >= NumLeaves - 1}
  <2> QED BY ONLY <2>2, <2>3, <2>4, <2>5 DEF LinkTypes
<1>11. LeavesLinked(L, ar, lv)
  <2>1. \A x \in L : x \in Nodes /\ x >= NumLeaves - 1
    BY ONLY L = {x \in Nodes : x >= NumLeaves - 1}
  <2> QED BY ONLY <1>7, <1>8, <2>1 DEF LeavesLinked
<1>12. BranchesLinked(L, ar, pa)
  <2>1. 0 \notin L
    BY ONLY <1>1, <1>2
  <2>2. ASSUME NEW x \in Nodes, x # 0
        PROVE  /\ pa[x] \in Nodes /\ pa[x] \notin L /\ pa[x] < x
               /\ x = ar[pa[x]] \/ x = ar[pa[x]] - 1
    <3>1. PICK p \in Nodes : p = pa[x] /\ p < NumLeaves - 1 /\ p < x /\ (x = 2*p + 1 \/ x = 2*p + 2)
      BY ONLY <1>6, <2>2, x \in Nodes
    <3>2. ~(p >= NumLeaves - 1) /\ p \in Nat
      BY ONLY <1>1, <3>1, p \in Nodes
    <3>3. p \notin L /\ ar[p] = 2*p + 2
      BY ONLY <1>2, <1>3, <3>2, p \in Nodes
    <3>4. x = ar[p] \/ x = ar[p] - 1
      BY ONLY <3>1, <3>2, <3>3
    <3> QED BY ONLY <3>1, <3>3, <3>4, p \in Nodes
  <2> QED BY ONLY <1>9, <2>1, <2>2 DEF BranchesLinked
<1> QED BY ONLY <1>10, <1>11, <1>12 DEF Linked

(* The fresh tree is whole. *)
LEMMA InitTree ==
  ASSUME Init
  PROVE  TreeOK(0)
<1> DEFINE L == {x \in Nodes : x >= NumLeaves - 1}
           ar == [x \in Nodes |-> IF x >= NumLeaves - 1 THEN NumNodes - 1 - x ELSE 2*x + 2]
           pa == [x \in Nodes |-> IF x = 0 THEN 0 ELSE (x - 1) \div 2]
           lv == [v \in Values |-> NumNodes - 1 - v]
           g  == [x \in Nodes |-> InitialGroup(x)]
           E(i) == IF i >= NumLeaves - 1 THEN Leaf(NumNodes - 1 - i) ELSE Branch(2*i + 2)
           F  == InitialFreq
<1>1. /\ nodes = [i \in Nodes |-> [entry |-> E(i), freq |-> F[i],
                                   parent |-> IF i = 0 THEN 0 ELSE (i - 1) \div 2,
                                   group |-> InitialGroup(i)]]
      /\ leaves = lv
      /\ ngroups = InitialGroup(0) + 1
      /\ groups = [j \in Nodes |-> j]
      /\ leaders = [y \in Nodes |-> InitialLeader(y)]
  BY DEF Init
<1>2. Linked(L, ar, pa, lv)
  BY ONLY FreshLinks
<1>3. Grouped(F, g, leaders) /\ Allotted(g, groups, ngroups) /\ g \in [Nodes -> Nodes]
  BY ONLY <1>1, InitialGroups
<1>4. FreshFrom(F, 0) /\ Falling(F) /\ F[0] = NumLeaves
  BY InitialFreqs, FreshFalls, FreshRoot
<1>5. /\ LinkTypes(L, ar, pa, lv) /\ LeavesLinked(L, ar, lv) /\ BranchesLinked(L, ar, pa)
      /\ ar \in [Nodes -> Nat] /\ pa \in [Nodes -> Nodes] /\ lv \in [Values -> Nodes] /\ L \subseteq Nodes
  <2> HIDE DEF L, ar, pa, lv
  <2> QED BY ONLY <1>2 DEF Linked, LinkTypes
<1>6. /\ NumNodes \in Nat /\ NumLeaves \in Nat /\ NumLeaves >= 2 /\ NumNodes = 2 * NumLeaves - 1
      /\ \A x \in Nodes : x \in Nat /\ x < NumNodes /\ x >= 0
      /\ \A v \in Values : v \in Nat /\ v < NumLeaves
      /\ 0 \in Nodes /\ ReorderLimit \in Nat /\ ReorderLimit > NumLeaves
  BY Sizes
<1>7. /\ F \in [Nodes -> Nat]
      /\ \A x \in Nodes : x >= NumLeaves - 1 => F[x] = 1
      /\ \A x \in Nodes : ~(x >= NumLeaves - 1) => F[x] = F[2*x + 1] + F[2*x + 2]
  BY ONLY <1>4, <1>6 DEF FreshFrom
<1>8. ASSUME NEW x \in Nodes
      PROVE  /\ E(x) \in Entry /\ (E(x).leaf <=> x \in L) /\ E(x).arg = ar[x]
             /\ (E(x).leaf \in BOOLEAN)
  <2>1. CASE x >= NumLeaves - 1
    <3>1. x \in L /\ ar[x] = NumNodes - 1 - x
      BY <2>1
    <3>2. ar[x] \in Values
      <4> HIDE DEF L, ar, lv, pa
      <4> QED BY ONLY <1>5, <3>1 DEF LeavesLinked
    <3>3. PICK v \in Values : v = NumNodes - 1 - x
      BY ONLY <3>1, <3>2
    <3>4. E(x) = Leaf(v)
      BY ONLY <2>1, <3>3
    <3>5. Leaf(v) \in Entry /\ Leaf(v).leaf /\ Leaf(v).arg = v
      BY ONLY v \in Values, Entries
    <3>6. E(x) \in Entry /\ E(x).leaf /\ E(x).arg = v
      BY ONLY <3>4, <3>5, Zenon
    <3>7. E(x).leaf \in BOOLEAN
      BY ONLY <3>6, Entries
    <3> HIDE DEF E, L, ar
    <3> QED BY ONLY <3>1, <3>3, <3>6, <3>7
  <2>2. CASE ~(x >= NumLeaves - 1)
    <3>1. x \notin L /\ ar[x] = 2*x + 2
      BY <2>2
    <3>2. ar[x] \in Nodes
      <4> HIDE DEF L, ar, lv, pa
      <4> QED BY ONLY <1>5, <3>1, x \in Nodes DEF BranchesLinked, EvenNodes
    <3>3. PICK y \in Nodes : y = 2*x + 2
      BY ONLY <3>1, <3>2
    <3>4. E(x) = Branch(y)
      BY ONLY <2>2, <3>3
    <3>5. Branch(y) \in Entry /\ ~Branch(y).leaf /\ Branch(y).arg = y
      BY ONLY y \in Nodes, Entries
    <3>6. E(x) \in Entry /\ ~E(x).leaf /\ E(x).arg = y
      BY ONLY <3>4, <3>5, Zenon
    <3>7. E(x).leaf \in BOOLEAN
      BY ONLY <3>6, Entries
    <3> HIDE DEF E, L, ar
    <3> QED BY ONLY <3>1, <3>3, <3>6, <3>7
  <2> QED BY ONLY <2>1, <2>2
<1> HIDE DEF E
<1>9. ASSUME NEW x \in Nodes
      PROVE  /\ nodes[x].entry = E(x) /\ nodes[x].freq = F[x] /\ nodes[x].parent = pa[x]
             /\ nodes[x].group = g[x] /\ nodes[x] \in NodeRecords
  <2>1. pa[x] = IF x = 0 THEN 0 ELSE (x - 1) \div 2
    OBVIOUS
  <2>2. g[x] = InitialGroup(x)
    OBVIOUS
  <2>3. E(x) \in Entry /\ F[x] \in Nat /\ pa[x] \in Nodes /\ g[x] \in Nodes
    <3> HIDE DEF pa, g, F
    <3> QED BY ONLY <1>3, <1>5, <1>7, <1>8, x \in Nodes
  <2>4. nodes[x] = [entry |-> E(x), freq |-> F[x], parent |-> pa[x], group |-> g[x]]
    <3>1. nodes[x] = [entry |-> E(x), freq |-> F[x], parent |-> IF x = 0 THEN 0 ELSE (x - 1) \div 2,
                      group |-> InitialGroup(x)]
      BY ONLY <1>1, x \in Nodes
    <3> HIDE DEF pa, g, F
    <3> QED BY ONLY <2>1, <2>2, <3>1
  <2> HIDE DEF pa, g, F
  <2> QED BY ONLY <2>3, <2>4 DEF NodeRecords
<1>10. nodes \in [Nodes -> NodeRecords]
  <2>1. nodes = [x \in Nodes |-> nodes[x]]
    BY ONLY <1>1
  <2> QED BY ONLY <1>9, <2>1
<1> HIDE DEF L, ar, pa, lv, g, F
<1>11. /\ \A x \in Nodes : FreqOf[x] = nodes[x].freq /\ ArgOf[x] = nodes[x].entry.arg
                           /\ UpOf[x] = nodes[x].parent /\ GroupsOf[x] = nodes[x].group
                           /\ (x \in LeafNodes <=> nodes[x].entry.leaf)
       /\ FreqOf \in [Nodes -> Nat] /\ ArgOf \in [Nodes -> Nat] /\ UpOf \in [Nodes -> Nodes]
       /\ GroupsOf \in [Nodes -> Nodes] /\ LeafNodes \subseteq Nodes
  BY ONLY <1>10, Parts
<1>12. FreqOf = F
  <2>1. \A x \in Nodes : FreqOf[x] = F[x]
    BY ONLY <1>9, <1>11
  <2> QED BY ONLY <1>7, <1>11, <2>1, SameArray
<1>13. ArgOf = ar
  <2>1. ASSUME NEW x \in Nodes PROVE ArgOf[x] = ar[x]
    <3>1. nodes[x].entry = E(x)
      BY ONLY <1>9, x \in Nodes
    <3>2. E(x).arg = ar[x]
      BY ONLY <1>8, x \in Nodes
    <3> QED BY ONLY <1>11, <3>1, <3>2, x \in Nodes
  <2> QED BY ONLY <1>5, <1>11, <2>1, SameArray
<1>14. UpOf = pa
  <2>1. \A x \in Nodes : UpOf[x] = pa[x]
    BY ONLY <1>9, <1>11
  <2> QED BY ONLY <1>5, <1>11, <2>1, SameArray
<1>15. GroupsOf = g
  <2>1. \A x \in Nodes : GroupsOf[x] = g[x]
    BY ONLY <1>9, <1>11
  <2> QED BY ONLY <1>3, <1>11, <2>1, SameArray
<1>16. LeafNodes = L
  <2>1. ASSUME NEW x \in Nodes PROVE x \in LeafNodes <=> x \in L
    <3>1. nodes[x].entry = E(x)
      BY ONLY <1>9, x \in Nodes
    <3>2. E(x).leaf <=> x \in L
      BY ONLY <1>8, x \in Nodes
    <3>3. x \in LeafNodes <=> nodes[x].entry.leaf
      BY ONLY <1>11, x \in Nodes
    <3> QED BY ONLY <3>1, <3>2, <3>3, Zenon
  <2> QED BY ONLY <1>5, <1>11, <2>1
<1>17. Summed(F, L, ar, 0)
  <2>1. ASSUME NEW x \in Nodes, x \notin L PROVE F[x] = F[ar[x] - 1] + F[ar[x]] + Lead(0, x)
    <3>1. ~(x >= NumLeaves - 1) /\ x \in Nat
      BY ONLY <1>6, <2>1, x \in Nodes DEF L
    <3>2. ar[x] = 2*x + 2
      BY ONLY <3>1, x \in Nodes DEF ar
    <3>3. F[x] = F[2*x + 1] + F[2*x + 2]
      BY ONLY <1>7, <3>1, x \in Nodes
    <3>4. 2*x + 1 \in Nodes /\ 2*x + 2 \in Nodes /\ ar[x] - 1 = 2*x + 1
      BY ONLY <3>1, <3>2, Sizes, x \in Nodes
    <3>5. F[2*x + 1] \in Nat /\ F[2*x + 2] \in Nat
      BY ONLY <1>7, <3>4
    <3>6. Lead(0, x) = 0
      BY DEF Lead
    <3> QED BY ONLY <3>2, <3>3, <3>4, <3>5, <3>6
  <2> QED BY ONLY <2>1 DEF Summed
<1>18. Weighed(F, L, lv, 0)
  <2>1. \A v \in Values : F[lv[v]] = 1
    <3>1. \A v \in Values : lv[v] \in L
      BY ONLY <1>5 DEF LeavesLinked
    <3>2. \A x \in L : x \in Nodes /\ x >= NumLeaves - 1
      BY ONLY DEF L
    <3> QED BY ONLY <1>7, <3>1, <3>2
  <2>2. Tokens(F, lv) = {t \in Values \X Nat : t[2] < 1}
    <3>1. ASSUME NEW t \in Values \X Nat PROVE t[2] < F[lv[t[1]]] <=> t[2] < 1
      <4>1. t[1] \in Values
        OBVIOUS
      <4> QED BY ONLY <2>1, <4>1
    <3> QED BY ONLY <3>1 DEF Tokens
  <2> DEFINE p == [v \in Values |-> <<v, 0>>]
  <2>3. p \in Bijection(Values, Tokens(F, lv))
    <3>1. \A v \in Values : p[v] = <<v, 0>> /\ p[v] \in Tokens(F, lv)
      BY ONLY <2>2
    <3>2. \A t \in Tokens(F, lv) : t[1] \in Values /\ t = <<t[1], 0>>
      BY ONLY <2>2
    <3>3. p = [v \in Values |-> p[v]]
      OBVIOUS
    <3> HIDE DEF p
    <3>4. p \in [Values -> Tokens(F, lv)]
      BY ONLY <3>1, <3>3
    <3>5. \A v, u \in Values : p[v] = p[u] => v = u
      BY ONLY <3>1
    <3>6. \A t \in Tokens(F, lv) : \E v \in Values : p[v] = t
      BY ONLY <3>1, <3>2
    <3>7. p \in Injection(Values, Tokens(F, lv))
      BY ONLY <3>4, <3>5 DEF Injection, IsInjective
    <3>8. p \in Surjection(Values, Tokens(F, lv))
      BY ONLY <3>4, <3>6 DEF Surjection
    <3> QED BY ONLY <3>7, <3>8 DEF Bijection
  <2> HIDE DEF p
  <2>4. ExistsBijection(Values, Tokens(F, lv))
    BY ONLY <2>3 DEF ExistsBijection
  <2>5. IsFiniteSet(Values) /\ Cardinality(Values) = NumLeaves
    BY Sizes, FS_Interval
  <2>6. IsFiniteSet(Tokens(F, lv)) /\ Cardinality(Tokens(F, lv)) = NumLeaves
    BY ONLY <2>4, <2>5, FS_Bijection
  <2> QED BY ONLY <1>4, <1>6, <2>6 DEF Weighed
<1>19. F[0] <= ReorderLimit
  BY ONLY <1>4, <1>6
<1>20. Whole(F, L, ar, pa, lv, g, leaders, groups, ngroups, 0)
  BY ONLY <1>2, <1>3, <1>4, <1>6, <1>17, <1>18, <1>19 DEF Whole
<1> QED BY ONLY <1>1, <1>10, <1>12, <1>13, <1>14, <1>15, <1>16, <1>20 DEF TreeOK

-----------------------------------------------------------------------------
(* The inductive invariant: between the calls, and while a value is looked *)
(* up, the tree is whole; during a walk it is whole but for the node that  *)
(* is about to be counted; in the middle of rebuild_tree the nodes from    *)
(* target on are built.                                                    *)
Sound ==
  /\ pc \in {"idle", "descend", "walk", "rebuild"} /\ cur \in Nodes
  /\ pc \in {"idle", "descend"} => TreeOK(0)
  /\ pc = "walk" => TreeOK(cur)
  /\ pc = "rebuild" => RebuildOK

(* A tree that is not touched stays whole. *)
LEMMA Untouched ==
  ASSUME UNCHANGED tree
  PROVE  TreeOK(0) => TreeOK(0)'
<1>1. UNCHANGED <<nodes, leaves, ngroups, groups, leaders>>
  BY DEF tree
<1>2. FreqOf' = FreqOf /\ ArgOf' = ArgOf /\ UpOf' = UpOf /\ GroupsOf' = GroupsOf /\ LeafNodes' = LeafNodes
  BY ONLY <1>1 DEF FreqOf, ArgOf, UpOf, GroupsOf, LeafNodes
<1> QED BY ONLY <1>1, <1>2 DEF TreeOK

(* The nodes below a branch are nodes, and leaves lead to their nodes. *)
LEMMA WaysDown ==
  ASSUME TreeOK(0), cur \in Nodes
  PROVE  /\ ~nodes[cur].entry.leaf => nodes[cur].entry.arg \in Nodes /\ nodes[cur].entry.arg - 1 \in Nodes
         /\ nodes[cur].entry.leaf => /\ nodes[cur].entry.arg \in Values /\ leaves[nodes[cur].entry.arg] = cur
                                     /\ cur \in LeafNodes
<1>1. nodes \in [Nodes -> NodeRecords] /\ Linked(LeafNodes, ArgOf, UpOf, leaves)
  BY ONLY TreeOK(0) DEF TreeOK, Whole
<1>2. ArgOf[cur] = nodes[cur].entry.arg /\ (cur \in LeafNodes <=> nodes[cur].entry.leaf)
  BY ONLY <1>1, Parts, cur \in Nodes
<1>3. LeavesLinked(LeafNodes, ArgOf, leaves) /\ BranchesLinked(LeafNodes, ArgOf, UpOf)
  BY ONLY <1>1 DEF Linked
<1>4. cur \in LeafNodes => ArgOf[cur] \in Values /\ leaves[ArgOf[cur]] = cur
  BY ONLY <1>3 DEF LeavesLinked
<1>5. cur \notin LeafNodes => ArgOf[cur] \in Nodes /\ ArgOf[cur] - 1 \in Nodes
  BY ONLY <1>3, cur \in Nodes DEF BranchesLinked, EvenNodes
<1> QED BY ONLY <1>2, <1>4, <1>5

(* The new tree is sound. *)
LEMMA SoundInit == Init => Sound
<1> SUFFICES ASSUME Init PROVE Sound
  OBVIOUS
<1>1. pc = "idle" /\ cur = 0
  BY ONLY Init DEF Init
<1> QED BY ONLY <1>1, InitTree, Init, NodeNumbers DEF Sound

(* Every step keeps it sound. *)
LEMMA SoundNext == Sound /\ [Next]_vars => Sound'
<1> SUFFICES ASSUME Sound, [Next]_vars PROVE Sound'
  OBVIOUS
<1>1. /\ pc \in {"idle", "descend", "walk", "rebuild"} /\ cur \in Nodes
      /\ pc \in {"idle", "descend"} => TreeOK(0)
      /\ pc = "walk" => TreeOK(cur)
      /\ pc = "rebuild" => RebuildOK
  BY ONLY Sound DEF Sound
<1>2. 0 \in Nodes
  BY ONLY NodeNumbers
<1>3. CASE ReadEntry
  <2>1. pc = "idle" /\ pc' = "descend" /\ cur' = 0 /\ UNCHANGED tree
    BY ONLY <1>3 DEF ReadEntry
  <2>2. TreeOK(0)'
    BY ONLY <1>1, <2>1, Untouched
  <2> QED BY ONLY <1>2, <2>1, <2>2 DEF Sound
<1>4. ASSUME NEW bit \in {0, 1}, ReadBit(bit) PROVE Sound'
  <2>1. /\ pc = "descend" /\ pc' = "descend" /\ ~nodes[cur].entry.leaf /\ UNCHANGED tree
        /\ cur' = nodes[cur].entry.arg - bit
    BY ONLY <1>4 DEF ReadBit, Child
  <2>2. TreeOK(0)'
    BY ONLY <1>1, <2>1, Untouched
  <2>3. nodes[cur].entry.arg \in Nodes /\ nodes[cur].entry.arg - 1 \in Nodes
    BY ONLY <1>1, <2>1, WaysDown
  <2>4. nodes[cur].entry.arg - 0 \in Nodes
    BY ONLY <2>3, NodeNumbers
  <2>5. cur' \in Nodes
    BY ONLY <2>1, <2>3, <2>4, bit \in {0, 1}
  <2> QED BY ONLY <2>1, <2>2, <2>5 DEF Sound
<1>5. CASE ReadFails
  <2>1. pc = "descend" /\ pc' = "idle" /\ cur' = 0 /\ UNCHANGED tree
    BY ONLY <1>5 DEF ReadFails
  <2>2. TreeOK(0)'
    BY ONLY <1>1, <2>1, Untouched
  <2> QED BY ONLY <1>2, <2>1, <2>2 DEF Sound
<1>6. CASE IncrementForValue
  <2>1. /\ pc = "descend" /\ pc' = "walk" /\ nodes[cur].entry.leaf /\ ~(nodes[0].freq >= ReorderLimit)
        /\ CountRoot /\ cur' = leaves[nodes[cur].entry.arg]
    BY ONLY <1>6 DEF IncrementForValue, AtLimit
  <2>2. TreeOK(0)
    BY ONLY <1>1, <2>1
  <2>3. cur' = cur /\ cur \in LeafNodes
    BY ONLY <1>1, <2>1, <2>2, WaysDown
  <2>4. FreqOf[0] = nodes[0].freq /\ FreqOf[0] \in Nat
    BY ONLY <1>2, <2>2, Parts DEF TreeOK
  <2>5. FreqOf[0] < ReorderLimit
    BY ONLY <2>1, <2>4, Sizes
  <2>6. TreeOK(cur)'
    BY ONLY <2>1, <2>2, <2>3, <2>5, CountRootKeeps
  <2> QED BY ONLY <1>1, <2>1, <2>3, <2>6 DEF Sound
<1>7. CASE BeginRebuild
  <2>1. pc = "descend" /\ pc' = "rebuild" /\ nodes[cur].entry.leaf /\ cur' = nodes[cur].entry.arg
    BY ONLY <1>7 DEF BeginRebuild
  <2>2. TreeOK(0)
    BY ONLY <1>1, <2>1
  <2>3. RebuildOK'
    BY ONLY <1>1, <1>7, <2>2, BeginKeeps
  <2>4. cur' \in Nodes
    BY ONLY <2>3, Sizes DEF RebuildOK
  <2> QED BY ONLY <2>1, <2>3, <2>4 DEF Sound
<1>8. CASE RebuildStep
  <2>1. pc = "rebuild" /\ pc' = pc /\ cur' = cur
    BY ONLY <1>8, Zenon DEF RebuildStep
  <2>2. RebuildOK'
    BY ONLY <1>1, <1>8, <2>1, RebuildTurns
  <2> QED BY ONLY <1>1, <2>1, <2>2 DEF Sound
<1>9. CASE Regroup
  <2>1. pc = "rebuild" /\ pc' = "walk"
    BY ONLY <1>9, Zenon DEF Regroup
  <2>2. TreeOK(cur)' /\ cur' \in Nodes
    BY ONLY <1>1, <1>9, <2>1, RebuildFinishes
  <2> QED BY ONLY <2>1, <2>2 DEF Sound
<1>10. CASE WalkStep
  <2>1. pc = "walk" /\ pc' = pc
    BY ONLY <1>10 DEF WalkStep
  <2>2. TreeOK(cur)'
    BY ONLY <1>1, <1>10, <2>1, WalkStepKeeps
  <2>3. cur' \in Nodes
    BY ONLY <2>2 DEF TreeOK, Whole
  <2> QED BY ONLY <2>1, <2>2, <2>3 DEF Sound
<1>11. CASE Return
  <2>1. pc = "walk" /\ cur = 0 /\ pc' = "idle" /\ UNCHANGED tree /\ cur' = cur
    BY ONLY <1>11 DEF Return
  <2>2. TreeOK(0)
    BY ONLY <1>1, <2>1
  <2>3. TreeOK(0)'
    BY ONLY <2>1, <2>2, Untouched
  <2> QED BY ONLY <1>2, <2>1, <2>3 DEF Sound
<1>12. CASE UNCHANGED vars
  <2>1. UNCHANGED <<nodes, leaves, ngroups, groups, leaders, pc, cur, rebuild>>
    BY ONLY <1>12 DEF vars
  <2>2. FreqOf' = FreqOf /\ ArgOf' = ArgOf /\ UpOf' = UpOf /\ GroupsOf' = GroupsOf /\ LeafNodes' = LeafNodes
    BY ONLY <2>1 DEF FreqOf, ArgOf, UpOf, GroupsOf, LeafNodes
  <2>3. TreeOK(0) => TreeOK(0)'
    BY ONLY <2>1, <2>2 DEF TreeOK
  <2>4. TreeOK(cur) => TreeOK(cur)'
    BY ONLY <2>1, <2>2 DEF TreeOK
  <2>5. RebuildOK => RebuildOK'
    BY ONLY <2>1, <2>2 DEF RebuildOK
  <2> QED BY ONLY <1>1, <2>1, <2>3, <2>4, <2>5 DEF Sound
<1> QED
  BY ONLY [Next]_vars, <1>3, <1>4, <1>5, <1>6, <1>7, <1>8, <1>9, <1>10, <1>11, <1>12 DEF Next

(* The invariant of every run of the lh1 tree (read_entry and all it       *)
(* calls): Sound holds in every reachable state.                           *)
THEOREM StaysSound == Spec => []Sound
  BY SoundInit, SoundNext, PTL DEF Spec

-----------------------------------------------------------------------------
(* Outside of rebuild_tree the tree is whole, but for the node to be       *)
(* counted.                                                                *)
LEMMA WholeTree ==
  ASSUME Sound, Consistent
  PROVE  \E c \in Nodes : TreeOK(c) /\ \A x \in Nodes : Ahead(x) = Lead(c, x)
<1>1. /\ pc \in {"idle", "descend", "walk"} /\ cur \in Nodes /\ 0 \in Nodes
      /\ pc # "walk" => TreeOK(0)
      /\ pc = "walk" => TreeOK(cur)
  BY ONLY Sound, Consistent, NodeNumbers DEF Sound, Consistent
<1>2. CASE pc = "walk"
  <2>1. \A x \in Nodes : Ahead(x) = Lead(cur, x)
    BY ONLY <1>2 DEF Ahead, Lead
  <2> QED BY ONLY <1>1, <1>2, <2>1
<1>3. CASE pc # "walk"
  <2>1. \A x \in Nodes : Ahead(x) = Lead(0, x)
    BY ONLY <1>3 DEF Ahead, Lead
  <2> QED BY ONLY <1>1, <1>3, <2>1
<1> QED BY ONLY <1>2, <1>3

(* A sound tree is well typed, and no frequency passes the limit.          *)
LEMMA SoundTypes == Sound => TypeOK
<1> SUFFICES ASSUME Sound PROVE TypeOK
  OBVIOUS
<1>1. /\ pc \in {"idle", "descend", "walk", "rebuild"} /\ cur \in Nodes
      /\ pc = "rebuild" => RebuildOK
  BY ONLY Sound DEF Sound
<1>2. /\ nodes \in [Nodes -> NodeRecords] /\ \A x \in Nodes : FreqOf[x] <= ReorderLimit
      /\ leaves \in [Values -> Nodes] /\ ngroups \in 0..NumNodes
      /\ groups \in [Nodes -> Nodes] /\ leaders \in [Nodes -> Nodes]
  <2>1. CASE pc = "rebuild"
    <3>1. /\ nodes \in [Nodes -> NodeRecords] /\ leaders \in [Nodes -> Nodes]
          /\ groups \in [Nodes -> Nodes] /\ ngroups \in 0..NumNodes
          /\ \E T, m, w, tf, tv :
               /\ rebuild = Progress(T, m, w) /\ Listed(T, tf, tv)
               /\ Built(m, w, tf, tv, FreqOf, LeafNodes, ArgOf, UpOf, leaves)
      BY ONLY <1>1, <2>1 DEF RebuildOK
    <3>2. PICK T, m, w, tf, tv : Built(m, w, tf, tv, FreqOf, LeafNodes, ArgOf, UpOf, leaves)
      BY ONLY <3>1
    <3>3. LinkTypes(LeafNodes, ArgOf, UpOf, leaves) /\ \A x \in Nodes : FreqOf[x] <= ReorderLimit
      BY ONLY <3>2 DEF Built
    <3>4. leaves \in [Values -> Nodes]
      BY ONLY <3>3 DEF LinkTypes
    <3> QED BY ONLY <3>1, <3>3, <3>4
  <2>2. CASE pc # "rebuild"
    <3>1. PICK c \in Nodes : TreeOK(c)
      BY ONLY Sound, <2>2, WholeTree DEF Consistent
    <3> QED BY ONLY <3>1, TreeTypes
  <2> QED BY ONLY <2>1, <2>2
<1>3. nodes \in [Nodes -> [entry: Entry, freq: 0..ReorderLimit, parent: Nodes, group: Nodes]]
  <2>1. ASSUME NEW x \in Nodes
        PROVE  nodes[x] \in [entry: Entry, freq: 0..ReorderLimit, parent: Nodes, group: Nodes]
    <3>1. nodes[x] \in NodeRecords /\ FreqOf[x] = nodes[x].freq /\ nodes[x].freq \in Nat
      BY ONLY <1>2, Parts, x \in Nodes
    <3>2. nodes[x].freq \in 0..ReorderLimit
      <4>1. nodes[x].freq <= ReorderLimit
        BY ONLY <1>2, <3>1, x \in Nodes
      <4> QED BY ONLY <3>1, <4>1, Sizes
    <3> QED BY ONLY <3>1, <3>2 DEF NodeRecords
  <2> QED BY ONLY <1>2, <2>1
<1> QED BY ONLY <1>1, <1>2, <1>3 DEF TypeOK

(* In a sound tree frequencies fall and equal ones are one group.          *)
LEMMA SoundFalls == Sound => FreqsFallInGroups
<1> SUFFICES ASSUME Sound, Consistent PROVE FreqsFallInGroups
  BY DEF FreqsFallInGroups
<1>1. PICK c \in Nodes : TreeOK(c)
  BY ONLY Sound, Consistent, WholeTree
<1>2. /\ nodes \in [Nodes -> NodeRecords]
      /\ Falling(FreqOf) /\ Grouped(FreqOf, GroupsOf, leaders)
  BY ONLY <1>1 DEF TreeOK, Whole
<1>3. \A x \in Nodes : FreqOf[x] = nodes[x].freq /\ GroupsOf[x] = nodes[x].group /\ nodes[x].freq \in Nat
  BY ONLY <1>2, Parts
<1>4. \A x, y \in Nodes : x < y => nodes[y].freq <= nodes[x].freq
  BY ONLY <1>2, <1>3 DEF Falling
<1>5. \A x, y \in Nodes : nodes[x].group = nodes[y].group <=> nodes[x].freq = nodes[y].freq
  BY ONLY <1>2, <1>3 DEF Grouped
<1>6. ASSUME NEW i \in 1..NumNodes-1
      PROVE  /\ nodes[i].freq <= nodes[i-1].freq
             /\ nodes[i].freq = nodes[i-1].freq <=> nodes[i].group = nodes[i-1].group
  <2>1. i \in Nodes /\ i - 1 \in Nodes /\ i - 1 < i
    BY ONLY i \in 1..NumNodes-1, Sizes
  <2> QED BY ONLY <1>4, <1>5, <2>1
<1>7. ASSUME NEW i \in Nodes, NEW j \in 0..i, nodes[i].group = nodes[j].group
      PROVE  nodes[i].freq = nodes[j].freq
  <2>1. j \in Nodes
    BY ONLY i \in Nodes, j \in 0..i, Sizes
  <2> QED BY ONLY <1>5, <1>7, <2>1, i \in Nodes
<1>8. ASSUME NEW i \in Nodes, i = 0 \/ nodes[i-1].group # nodes[i].group
      PROVE  leaders[nodes[i].group] = i
  <2>1. PICK l \in Nodes : /\ l = leaders[nodes[i].group] /\ l <= i
                           /\ nodes[l].group = nodes[i].group
    BY ONLY <1>2, <1>3, LeaderIsFirst, i \in Nodes
  <2>2. CASE l < i
    <3>1. i \in Nat /\ l \in Nat /\ i # 0 /\ i - 1 \in Nodes
      BY ONLY <2>2, i \in Nodes, l \in Nodes, NodeNumbers, Sizes
    <3>2. nodes[i-1].freq = nodes[i].freq
      <4>1. nodes[l].freq = nodes[i].freq
        BY ONLY <1>5, <2>1, i \in Nodes, l \in Nodes
      <4>2. nodes[i].freq <= nodes[i-1].freq
        BY ONLY <1>4, <3>1, i \in Nodes
      <4>3. nodes[i-1].freq <= nodes[l].freq
        <5>1. l = i - 1 \/ l < i - 1
          BY ONLY <2>2, <3>1
        <5>2. nodes[l].freq \in Nat
          BY ONLY <1>3, l \in Nodes
        <5> QED BY ONLY <1>4, <3>1, <5>1, <5>2, l \in Nodes
      <4>4. nodes[i].freq \in Nat /\ nodes[i-1].freq \in Nat
        BY ONLY <1>3, <3>1, i \in Nodes
      <4> QED BY ONLY <4>1, <4>2, <4>3, <4>4
    <3>3. nodes[i-1].group = nodes[i].group
      BY ONLY <1>5, <3>1, <3>2, i \in Nodes
    <3> QED BY ONLY <1>8, <3>1, <3>3
  <2>3. i \in Nat /\ l \in Nat
    BY ONLY i \in Nodes, l \in Nodes, NodeNumbers
  <2> QED BY ONLY <2>1, <2>2, <2>3
<1> QED BY ONLY <1>6, <1>7, <1>8 DEF FreqsFallInGroups

(* In a sound tree used and free group numbers make up all of them.        *)
LEMMA SoundPartition == Sound => GroupNumbersPartition
<1> DEFINE used == {nodes[i].group : i \in Nodes}
           free == {groups[j] : j \in ngroups..NumNodes-1}
<1> SUFFICES ASSUME Sound, Consistent
             PROVE  /\ used \cap free = {}
                    /\ Cardinality(used) = ngroups
                    /\ Cardinality(free) = NumNodes - ngroups
  BY DEF GroupNumbersPartition
<1>1. PICK c \in Nodes : TreeOK(c)
  BY ONLY Sound, Consistent, WholeTree
<1>2. nodes \in [Nodes -> NodeRecords] /\ Allotted(GroupsOf, groups, ngroups)
  BY ONLY <1>1 DEF TreeOK, Whole
<1>3. used = Used(GroupsOf)
  <2>1. \A x \in Nodes : GroupsOf[x] = nodes[x].group
    BY ONLY <1>2, Parts
  <2> QED BY ONLY <2>1 DEF Used
<1>4. /\ ngroups \in Nat /\ groups \in [Nodes -> Nodes] /\ Cardinality(used) = ngroups
      /\ \A j \in Nodes : j >= ngroups => groups[j] \notin used
      /\ \A j, k \in Nodes : j >= ngroups /\ k >= ngroups /\ groups[j] = groups[k] => j = k
  BY ONLY <1>2, <1>3 DEF Allotted
<1>5. ngroups \in 0..NumNodes
  BY ONLY <1>1, TreeTypes
<1>6. \A j : j \in ngroups..NumNodes-1 <=> j \in Nodes /\ j >= ngroups
  BY ONLY <1>5, Sizes
<1> HIDE DEF used
<1>7. used \cap free = {}
  BY ONLY <1>4, <1>6
<1>8. Cardinality(free) = NumNodes - ngroups
  <2> DEFINE S == ngroups..NumNodes-1
             h == [j \in S |-> groups[j]]
  <2>1. h \in [S -> free] /\ \A j \in S : h[j] = groups[j]
    OBVIOUS
  <2>2. \A t \in free : \E j \in S : h[j] = t
    OBVIOUS
  <2>3. \A j \in S : j \in Nodes /\ j >= ngroups
    BY ONLY <1>6
  <2> HIDE DEF S, h, free
  <2>4. \A j, k \in S : h[j] = h[k] => j = k
    BY ONLY <1>4, <2>1, <2>3
  <2>5. h \in Injection(S, free)
    BY ONLY <2>1, <2>4 DEF Injection, IsInjective
  <2>6. h \in Surjection(S, free)
    BY ONLY <2>1, <2>2 DEF Surjection
  <2>7. ExistsBijection(S, free)
    BY ONLY <2>5, <2>6 DEF ExistsBijection, Bijection
  <2>8. IsFiniteSet(S) /\ Cardinality(S) = NumNodes - ngroups
    <3>1. /\ NumNodes - 1 \in Int /\ ngroups \in Int
          /\ ngroups > NumNodes - 1 => NumNodes - ngroups = 0
          /\ (NumNodes - 1) - ngroups + 1 = NumNodes - ngroups
      BY ONLY <1>5, Sizes
    <3>2. /\ IsFiniteSet(S)
          /\ Cardinality(S) = IF ngroups > NumNodes - 1 THEN 0 ELSE (NumNodes - 1) - ngroups + 1
      BY ONLY <3>1, FS_Interval DEF S
    <3> QED BY ONLY <3>1, <3>2
  <2> QED BY ONLY <2>7, <2>8, FS_Bijection
<1> QED BY ONLY <1>4, <1>7, <1>8

(* In a sound tree leaves, branches and parents agree.                     *)
LEMMA SoundLinks == Sound => LinksAgree
<1> SUFFICES ASSUME Sound, Consistent PROVE LinksAgree
  BY DEF LinksAgree
<1>1. PICK c \in Nodes : TreeOK(c)
  BY ONLY Sound, Consistent, WholeTree
<1>2. nodes \in [Nodes -> NodeRecords] /\ Linked(LeafNodes, ArgOf, UpOf, leaves)
  BY ONLY <1>1 DEF TreeOK, Whole
<1>3. \A x \in Nodes : /\ ArgOf[x] = nodes[x].entry.arg /\ UpOf[x] = nodes[x].parent
                       /\ (x \in LeafNodes <=> nodes[x].entry.leaf) /\ nodes[x].entry \in Entry
  BY ONLY <1>2, Parts
<1>4. /\ LinkTypes(LeafNodes, ArgOf, UpOf, leaves) /\ LeavesLinked(LeafNodes, ArgOf, leaves)
      /\ BranchesLinked(LeafNodes, ArgOf, UpOf)
  BY ONLY <1>2 DEF Linked
<1>5. ~nodes[0].entry.leaf
  BY ONLY <1>3, <1>4, NodeNumbers DEF BranchesLinked
<1>6. ASSUME NEW v \in Values PROVE nodes[leaves[v]].entry = Leaf(v)
  <2>1. PICK x \in Nodes : x = leaves[v] /\ x \in LeafNodes /\ ArgOf[x] = v
    BY ONLY <1>4, v \in Values DEF LeavesLinked, LinkTypes
  <2>2. nodes[x].entry \in Entry /\ nodes[x].entry.leaf /\ nodes[x].entry.arg = v
    BY ONLY <1>3, <2>1, x \in Nodes
  <2> QED BY ONLY <2>1, <2>2, Entries, v \in Values
<1>7. ASSUME NEW i \in 1..NumNodes-1
      PROVE  /\ ~nodes[nodes[i].parent].entry.leaf
             /\ i \in Children(nodes[i].parent)
             /\ nodes[i].parent < i
  <2>1. i \in Nodes /\ i # 0
    BY ONLY i \in 1..NumNodes-1, Sizes
  <2>2. PICK p \in Nodes : p = nodes[i].parent
    BY ONLY <1>3, <1>4, <2>1 DEF BranchesLinked
  <2>3. p \notin LeafNodes /\ p < i /\ (i = ArgOf[p] \/ i = ArgOf[p] - 1)
    BY ONLY <1>3, <1>4, <2>1, <2>2 DEF BranchesLinked
  <2>4. ~nodes[p].entry.leaf /\ i \in Children(p)
    BY ONLY <1>3, <2>3, p \in Nodes DEF Children
  <2> QED BY ONLY <2>2, <2>3, <2>4
<1>8. ASSUME NEW i \in Nodes, ~nodes[i].entry.leaf PROVE nodes[i].entry.arg % 2 = 0
  BY ONLY <1>3, <1>4, <1>8, i \in Nodes DEF BranchesLinked, EvenNodes
<1> QED BY ONLY <1>5, <1>6, <1>7, <1>8 DEF LinksAgree

(* In a sound tree branches count as often as their children.              *)
LEMMA SoundSums == Sound => FreqsAddUp
<1> SUFFICES ASSUME Sound, Consistent,
                    NEW i \in Nodes, ~nodes[i].entry.leaf
             PROVE  nodes[i].freq =
                      nodes[nodes[i].entry.arg - 1].freq + nodes[nodes[i].entry.arg].freq + Ahead(i)
  BY DEF FreqsAddUp
<1>1. PICK c \in Nodes : TreeOK(c) /\ Ahead(i) = Lead(c, i)
  BY ONLY Sound, Consistent, WholeTree, i \in Nodes
<1>2. /\ nodes \in [Nodes -> NodeRecords] /\ Linked(LeafNodes, ArgOf, UpOf, leaves)
      /\ Summed(FreqOf, LeafNodes, ArgOf, c)
  BY ONLY <1>1 DEF TreeOK, Whole
<1>3. \A x \in Nodes : /\ FreqOf[x] = nodes[x].freq /\ ArgOf[x] = nodes[x].entry.arg
                       /\ (x \in LeafNodes <=> nodes[x].entry.leaf)
  BY ONLY <1>2, Parts
<1>4. i \notin LeafNodes
  BY ONLY <1>3, i \in Nodes, ~nodes[i].entry.leaf
<1>5. ArgOf[i] \in Nodes /\ ArgOf[i] - 1 \in Nodes
  BY ONLY <1>2, <1>4, i \in Nodes DEF Linked, BranchesLinked, EvenNodes
<1>6. FreqOf[i] = FreqOf[ArgOf[i] - 1] + FreqOf[ArgOf[i]] + Lead(c, i)
  BY ONLY <1>2, <1>4, i \in Nodes DEF Summed
<1> QED BY ONLY <1>1, <1>3, <1>5, <1>6, i \in Nodes

(* A sound rebuild has the leaves and the slots it needs.                  *)
LEMMA SoundRebuild == Sound => RebuildNeverRunsOut
<1> SUFFICES ASSUME Sound, pc = "rebuild"
             PROVE  IF rebuild.len > 2
                    THEN /\ Needed(rebuild.len - rebuild.target) <= rebuild.left
                         /\ rebuild.left < rebuild.target
                    ELSE rebuild.left = 0 /\ rebuild.target = 0
  BY DEF RebuildNeverRunsOut
<1>1. \E T, m, w, tf, tv : rebuild = Progress(T, m, w)
                           /\ Built(m, w, tf, tv, FreqOf, LeafNodes, ArgOf, UpOf, leaves)
  BY ONLY Sound, pc = "rebuild" DEF Sound, RebuildOK
<1>2. PICK T, m, w, tf, tv : rebuild = Progress(T, m, w)
                             /\ Built(m, w, tf, tv, FreqOf, LeafNodes, ArgOf, UpOf, leaves)
  BY ONLY <1>1
<1>3. rebuild.len = 2*m + 1 /\ rebuild.left = w /\ rebuild.target = w + m
  BY ONLY <1>2 DEF Progress
<1>4. BuiltSizes(m, w)
  BY ONLY <1>2 DEF Built
<1>5. /\ m \in Nat /\ w \in Nat /\ m <= NumLeaves - 1
      /\ w <= m \/ (m = NumLeaves - 1 /\ w = NumLeaves)
  BY ONLY <1>4 DEF BuiltSizes
<1>6. CASE m >= 1
  <2>1. rebuild.len > 2 /\ rebuild.len - rebuild.target = m + 1 - w /\ rebuild.left < rebuild.target
    BY ONLY <1>3, <1>5, <1>6
  <2>2. Needed(m + 1 - w) <= w
    BY ONLY <1>4, <1>6, StepNeeds
  <2> QED BY ONLY <1>3, <2>1, <2>2
<1>7. CASE ~(m >= 1)
  <2>1. m = 0 /\ w = 0
    BY ONLY <1>5, <1>7, Sizes
  <2> QED BY ONLY <1>3, <2>1
<1> QED BY ONLY <1>6, <1>7

(* The tree keeps its types: no frequency passes REORDER_LIMIT, so that    *)
(* the u16 counters of Node never overflow, whatever values are read.      *)
THEOREM TypeCorrect == Spec => []TypeOK
  BY StaysSound, SoundTypes, PTL

(* promote_to_leader and increment_frequency keep the array in falling     *)
(* order, and get_leader_index always finds the first node of the group.   *)
THEOREM FreqsFall == Spec => []FreqsFallInGroups
  BY StaysSound, SoundFalls, PTL

(* Groups::allocate never finds its list of free numbers empty, and        *)
(* Groups::free never gives back a number that is free already.            *)
THEOREM GroupsAreAllotted == Spec => []GroupNumbersPartition
  BY StaysSound, SoundPartition, PTL

(* set_as_parent and set_leaf_node_index keep the links of the tree: the   *)
(* ways down and up both end, at the same leaf.                            *)
THEOREM LinksHold == Spec => []LinksAgree
  BY StaysSound, SoundLinks, PTL

(* After every value read, and after every rebuild, a branch counts as     *)
(* often as its children; during a walk one node lags behind.              *)
THEOREM FreqsAreSums == Spec => []FreqsAddUp
  BY StaysSound, SoundSums, PTL

(* The slots and leaves that rebuild_tree unwraps are there.               *)
THEOREM RebuildEnds == Spec => []RebuildNeverRunsOut
  BY StaysSound, SoundRebuild, PTL

-----------------------------------------------------------------------------
(* Sums. *)

(* f adds up w from 0. *)
Adds(f, w, n) ==
  /\ f \in [0..n -> Nat] /\ f[0] = 0
  /\ \A m \in 0..n-1 : f[m + 1] = f[m] + w[m]

(* There is such a function. *)
LEMMA AddsExists ==
  ASSUME NEW n \in Nat, NEW w \in [0..n-1 -> Nat]
  PROVE  \E f : Adds(f, w, n)
<1> DEFINE S == {k \in Nat : k <= n /\ \E f : Adds(f, w, n - k)}
<1>1. n \in S
  <2> DEFINE f == [i \in 0..0 |-> 0]
  <2>1. f \in [0..0 -> Nat] /\ f[0] = 0
    OBVIOUS
  <2> HIDE DEF f
  <2>2. n - n = 0 /\ 0..(0-1) = {}
    BY ONLY n \in Nat
  <2>3. Adds(f, w, n - n)
    BY ONLY <2>1, <2>2 DEF Adds
  <2> QED BY ONLY n \in Nat, <2>3
<1>2. PICK k \in S : \A u \in S : k <= u
  <2>1. S \in SUBSET Nat /\ S # {}
    BY <1>1
  <2> HIDE DEF S
  <2> QED BY ONLY <2>1, Least
<1>3. k \in Nat /\ k <= n
  BY <1>2
<1>4. PICK f : Adds(f, w, n - k)
  BY <1>2
<1>5. CASE k # 0
  <2> DEFINE m == n - k
             g == [i \in 0..m+1 |-> IF i <= m THEN f[i] ELSE f[m] + w[m]]
  <2>1. m \in Nat /\ m < n /\ k - 1 \in Nat /\ k - 1 <= n /\ n - (k - 1) = m + 1 /\ ~(k <= k - 1)
        /\ m \in 0..n-1
    BY ONLY <1>3, <1>5, n \in Nat
  <2>2. f \in [0..m -> Nat] /\ f[0] = 0 /\ \A i \in 0..m-1 : f[i + 1] = f[i] + w[i]
    BY ONLY <1>4 DEF Adds
  <2> HIDE DEF m
  <2>3. f[m] \in Nat /\ w[m] \in Nat
    BY ONLY <2>1, <2>2, w \in [0..n-1 -> Nat]
  <2>4. g \in [0..m+1 -> Nat]
    BY ONLY <2>1, <2>2, <2>3
  <2>5. \A i \in 0..m+1 : g[i] = IF i <= m THEN f[i] ELSE f[m] + w[m]
    OBVIOUS
  <2> HIDE DEF g
  <2>6. g[0] = 0
    BY ONLY <2>1, <2>2, <2>5
  <2>7. ASSUME NEW i \in 0..(m+1)-1 PROVE g[i + 1] = g[i] + w[i]
    <3>1. CASE i = m
      <4>1. i \in 0..m+1 /\ i <= m /\ i + 1 \in 0..m+1 /\ ~(i + 1 <= m)
        BY ONLY <2>1, <3>1
      <4> QED BY ONLY <2>5, <3>1, <4>1
    <3>2. CASE i # m
      <4>1. i \in 0..m+1 /\ i <= m /\ i + 1 \in 0..m+1 /\ i + 1 <= m /\ i \in 0..m-1
        BY ONLY <2>1, <3>2, i \in 0..(m+1)-1
      <4> QED BY ONLY <2>2, <2>5, <4>1
    <3> QED BY ONLY <3>1, <3>2
  <2>8. Adds(g, w, m + 1)
    BY ONLY <2>4, <2>6, <2>7 DEF Adds
  <2>9. k - 1 \in S
    BY ONLY <2>1, <2>8
  <2> HIDE DEF S
  <2> QED BY ONLY <1>2, <2>1, <2>9
<1>6. CASE k = 0
  <2>1. n - k = n
    BY ONLY <1>6, n \in Nat
  <2> QED BY ONLY <1>4, <2>1
<1> QED BY ONLY <1>5, <1>6

(* SumTo takes its value from one. *)
LEMMA SumAdds ==
  ASSUME NEW n \in Nat, NEW w \in [0..n-1 -> Nat]
  PROVE  \E f : Adds(f, w, n) /\ SumTo(w, n) = f[n]
<1> DEFINE Q(f) == [m \in 0..n |-> IF m = 0 THEN 0 ELSE f[m - 1] + w[m - 1]]
           F == CHOOSE q : q = Q(q)
<1>1. PICK f : Adds(f, w, n)
  BY AddsExists
<1>2. f = Q(f)
  <2>1. f \in [0..n -> Nat] /\ f[0] = 0 /\ \A m \in 0..n-1 : f[m + 1] = f[m] + w[m]
    BY ONLY <1>1 DEF Adds
  <2>2. ASSUME NEW m \in 0..n PROVE f[m] = IF m = 0 THEN 0 ELSE f[m - 1] + w[m - 1]
    <3>1. CASE m = 0
      BY ONLY <2>1, <3>1
    <3>2. CASE m # 0
      <4>1. m - 1 \in 0..n-1 /\ (m - 1) + 1 = m
        BY ONLY <3>2, m \in 0..n, n \in Nat
      <4> QED BY ONLY <2>1, <3>2, <4>1
    <3> QED BY ONLY <3>1, <3>2
  <2> QED BY ONLY <2>1, <2>2
<1>3. F = Q(F)
  <2> HIDE DEF Q
  <2> QED BY ONLY <1>2
<1>4. SumTo(w, n) = F[n]
  BY DEF SumTo
<1>5. \A m \in 0..n : F[m] = IF m = 0 THEN 0 ELSE F[m - 1] + w[m - 1]
  <2> HIDE DEF F
  <2> QED BY ONLY <1>3
<1>6. F = [m \in 0..n |-> F[m]]
  <2>1. Q(F) = [m \in 0..n |-> Q(F)[m]]
    <3> HIDE DEF F
    <3> QED OBVIOUS
  <2> HIDE DEF Q
  <2> QED BY ONLY <1>3, <2>1
<1> HIDE DEF F, Q
<1>7. /\ F[0] = 0
      /\ \A m \in 0..n-1 : F[m + 1] = F[m] + w[m]
  <2>1. 0 \in 0..n
    BY ONLY n \in Nat
  <2>2. ASSUME NEW m \in 0..n-1 PROVE F[m + 1] = F[m] + w[m]
    <3>1. m + 1 \in 0..n /\ m + 1 # 0 /\ (m + 1) - 1 = m
      BY ONLY n \in Nat, m \in 0..n-1
    <3> QED BY ONLY <1>5, <3>1
  <2> QED BY ONLY <1>5, <2>1, <2>2
<1>8. \A m \in 0..n : F[m] = f[m]
  <2> DEFINE R == {m \in Nat : m <= n /\ F[m] # f[m]}
  <2>1. SUFFICES ASSUME NEW k \in 0..n, F[k] # f[k] PROVE FALSE
    BY Zenon
  <2>2. PICK m \in R : \A u \in R : m <= u
    <3>1. k \in R
      BY ONLY <2>1, k \in 0..n, n \in Nat DEF R
    <3>2. R \in SUBSET Nat /\ R # {}
      BY ONLY <3>1 DEF R
    <3> HIDE DEF R
    <3> QED BY ONLY <3>2, Least
  <2>3. m \in Nat /\ m <= n /\ F[m] # f[m]
    BY ONLY <2>2 DEF R
  <2>4. f[0] = 0 /\ \A i \in 0..n-1 : f[i + 1] = f[i] + w[i]
    BY ONLY <1>1 DEF Adds
  <2>5. m # 0
    BY ONLY <1>7, <2>3, <2>4
  <2>6. m - 1 \in Nat /\ m - 1 <= n /\ ~(m <= m - 1) /\ m - 1 \in 0..n-1 /\ (m - 1) + 1 = m
    BY ONLY <2>3, <2>5, n \in Nat
  <2>7. F[m - 1] = f[m - 1]
    BY ONLY <2>2, <2>6 DEF R
  <2> QED BY ONLY <1>7, <2>3, <2>4, <2>6, <2>7
<1>9. n \in 0..n
  BY ONLY n \in Nat
<1> QED BY ONLY <1>1, <1>4, <1>8, <1>9

(* Sums are numbers, and grow with any one of their parts. *)
LEMMA SumUpdates ==
  ASSUME NEW n \in Nat, NEW w \in [0..n-1 -> Nat], NEW v \in [0..n-1 -> Nat],
         NEW x \in 0..n-1, \A i \in 0..n-1 : i # x => v[i] = w[i]
  PROVE  /\ SumTo(w, n) \in Nat /\ SumTo(v, n) \in Nat
         /\ SumTo(v, n) + w[x] = SumTo(w, n) + v[x]
<1>1. PICK f : Adds(f, w, n) /\ SumTo(w, n) = f[n]
  BY SumAdds
<1>2. PICK g : Adds(g, v, n) /\ SumTo(v, n) = g[n]
  BY SumAdds
<1>3. f \in [0..n -> Nat] /\ f[0] = 0 /\ \A m \in 0..n-1 : f[m + 1] = f[m] + w[m]
  BY ONLY <1>1 DEF Adds
<1>4. g \in [0..n -> Nat] /\ g[0] = 0 /\ \A m \in 0..n-1 : g[m + 1] = g[m] + v[m]
  BY ONLY <1>2 DEF Adds
<1> DEFINE Agree(m) == IF m <= x THEN g[m] = f[m] ELSE g[m] + w[x] = f[m] + v[x]
<1>5. \A m \in 0..n : Agree(m)
  <2> DEFINE R == {m \in Nat : m <= n /\ ~Agree(m)}
  <2>1. SUFFICES ASSUME NEW k \in 0..n, ~Agree(k) PROVE FALSE
    BY Zenon
  <2>2. PICK m \in R : \A u \in R : m <= u
    <3>1. k \in R
      BY ONLY <2>1, k \in 0..n, n \in Nat DEF R
    <3>2. R \in SUBSET Nat /\ R # {}
      BY ONLY <3>1 DEF R
    <3> HIDE DEF R
    <3> QED BY ONLY <3>2, Least
  <2>3. m \in Nat /\ m <= n /\ ~Agree(m)
    BY ONLY <2>2 DEF R
  <2>4. m # 0
    <3>1. Agree(0)
      BY ONLY <1>3, <1>4, x \in 0..n-1, n \in Nat
    <3> QED BY ONLY <2>3, <3>1
  <2>5. PICK u \in 0..n-1 : u = m - 1 /\ u + 1 = m /\ ~(m <= u)
    <3>1. m - 1 \in 0..n-1 /\ (m - 1) + 1 = m /\ ~(m <= m - 1)
      BY ONLY <2>3, <2>4, n \in Nat
    <3> QED BY ONLY <3>1
  <2>6. Agree(u)
    <3>1. u \in Nat /\ u <= n
      BY ONLY u \in 0..n-1, n \in Nat
    <3> QED BY ONLY <2>2, <2>5, <3>1 DEF R
  <2>7. /\ f[u] \in Nat /\ g[u] \in Nat /\ w[u] \in Nat /\ v[u] \in Nat /\ w[x] \in Nat /\ v[x] \in Nat
        /\ f[m] = f[u] + w[u] /\ g[m] = g[u] + v[u] /\ (u # x => v[u] = w[u])
        /\ u \in Nat /\ x \in Nat /\ m \in Nat
    <3>1. u \in 0..n /\ u \in Nat /\ x \in Nat /\ m \in Nat
      BY ONLY u \in 0..n-1, x \in 0..n-1, n \in Nat, <2>3
    <3>2. f[u] \in Nat /\ g[u] \in Nat
      BY ONLY <1>3, <1>4, <3>1
    <3>3. w[u] \in Nat /\ v[u] \in Nat /\ w[x] \in Nat /\ v[x] \in Nat
      BY ONLY u \in 0..n-1, x \in 0..n-1, w \in [0..n-1 -> Nat], v \in [0..n-1 -> Nat]
    <3>4. f[m] = f[u] + w[u] /\ g[m] = g[u] + v[u]
      BY ONLY <1>3, <1>4, <2>5, u \in 0..n-1
    <3>5. u # x => v[u] = w[u]
      BY ONLY u \in 0..n-1, \A i \in 0..n-1 : i # x => v[i] = w[i]
    <3> QED BY ONLY <3>1, <3>2, <3>3, <3>4, <3>5
  <2>8. Agree(m)
    <3>1. CASE m <= x
      <4>1. u <= x /\ u # x
        BY ONLY <2>5, <2>7, <3>1
      <4>2. g[u] = f[u] /\ v[u] = w[u]
        BY ONLY <2>6, <2>7, <4>1
      <4>3. g[m] = f[m]
        BY ONLY <2>7, <4>2
      <4> QED BY ONLY <3>1, <4>3
    <3>2. CASE u = x
      <4>1. u <= x /\ ~(m <= x)
        BY ONLY <2>5, <2>7, <3>2
      <4>2. g[u] = f[u]
        BY ONLY <2>6, <4>1
      <4>3. f[m] = f[u] + w[x] /\ g[m] = f[u] + v[x]
        BY ONLY <2>7, <3>2, <4>2
      <4>4. g[m] + w[x] = f[m] + v[x]
        BY ONLY <2>7, <4>3
      <4> QED BY ONLY <4>1, <4>4
    <3>3. CASE ~(m <= x) /\ u # x
      <4>1. ~(u <= x)
        BY ONLY <2>5, <2>7, <3>3
      <4>2. g[u] + w[x] = f[u] + v[x] /\ v[u] = w[u]
        BY ONLY <2>6, <2>7, <3>3, <4>1
      <4>3. PICK a \in Nat, b \in Nat, c \in Nat, d \in Nat, e \in Nat :
              a = f[u] /\ b = g[u] /\ c = w[u] /\ d = w[x] /\ e = v[x]
        BY ONLY <2>7
      <4>4. f[m] = a + c /\ g[m] = b + c /\ b + d = a + e
        BY ONLY <2>7, <4>2, <4>3
      <4>5. (b + c) + d = (a + c) + e
        BY ONLY <4>4, a \in Nat, b \in Nat, c \in Nat, d \in Nat, e \in Nat
      <4>6. g[m] + w[x] = f[m] + v[x]
        BY ONLY <4>3, <4>4, <4>5
      <4> QED BY ONLY <3>3, <4>6
    <3> QED BY ONLY <3>1, <3>2, <3>3
  <2> QED BY ONLY <2>3, <2>8
<1>6. Agree(n) /\ ~(n <= x) /\ f[n] \in Nat /\ g[n] \in Nat
  BY ONLY <1>3, <1>4, <1>5, x \in 0..n-1, n \in Nat
<1> QED BY ONLY <1>1, <1>2, <1>6

(* Nothing adds up to nothing. *)
LEMMA SumOfNone ==
  ASSUME NEW n \in Nat, NEW w \in [0..n-1 -> Nat], \A i \in 0..n-1 : w[i] = 0
  PROVE  SumTo(w, n) = 0
<1>1. PICK f : Adds(f, w, n) /\ SumTo(w, n) = f[n]
  BY SumAdds
<1>2. f \in [0..n -> Nat] /\ f[0] = 0 /\ \A m \in 0..n-1 : f[m + 1] = f[m] + w[m]
  BY ONLY <1>1 DEF Adds
<1>3. ASSUME f[n] # 0 PROVE FALSE
  <2> DEFINE R == {m \in Nat : m <= n /\ f[m] # 0}
  <2>1. PICK m \in R : \A u \in R : m <= u
    <3>1. n \in R
      BY ONLY <1>3, n \in Nat DEF R
    <3>2. R \in SUBSET Nat /\ R # {}
      BY ONLY <3>1 DEF R
    <3> HIDE DEF R
    <3> QED BY ONLY <3>2, Least
  <2>2. m \in Nat /\ m <= n /\ f[m] # 0
    BY ONLY <2>1 DEF R
  <2>3. m - 1 \in Nat /\ m - 1 <= n /\ ~(m <= m - 1) /\ m - 1 \in 0..n-1 /\ (m - 1) + 1 = m
    BY ONLY <1>2, <2>2, n \in Nat
  <2>4. f[m - 1] = 0
    BY ONLY <2>1, <2>3 DEF R
  <2>5. w[m - 1] = 0
    BY ONLY <2>3, \A i \in 0..n-1 : w[i] = 0
  <2> QED BY ONLY <1>2, <2>2, <2>3, <2>4, <2>5
<1> QED BY ONLY <1>1, <1>3

-----------------------------------------------------------------------------
(* Sets of nodes, as forests of their subtrees. *)

(* What the nodes of S need when each is d[i] bits away from the root. *)
BitsOf(f, d, S) == [i \in Nodes |-> IF i \in S THEN f[i] * d[i] ELSE 0]
PathOf(f, d, S) == SumTo(BitsOf(f, d, S), NumNodes)

(* A node that is taken away. *)
LEMMA PathTakes ==
  ASSUME NEW f \in [Nodes -> Nat], NEW d \in [Nodes -> Nat], NEW S, NEW T,
         NEW x \in Nodes, x \in S, T = S \ {x}
  PROVE  /\ PathOf(f, d, S) \in Nat /\ PathOf(f, d, T) \in Nat
         /\ PathOf(f, d, S) = PathOf(f, d, T) + f[x] * d[x]
<1>1. ASSUME NEW U PROVE BitsOf(f, d, U) \in [0..NumNodes-1 -> Nat]
  <2>1. ASSUME NEW i \in Nodes PROVE (IF i \in U THEN f[i] * d[i] ELSE 0) \in Nat
    <3>1. f[i] \in Nat /\ d[i] \in Nat
      OBVIOUS
    <3>2. f[i] * d[i] \in Nat
      BY ONLY <3>1
    <3> QED BY ONLY <3>2
  <2>2. Nodes = 0..NumNodes-1
    BY ONLY Sizes
  <2> QED BY ONLY <2>1, <2>2 DEF BitsOf
<1>2. /\ BitsOf(f, d, S)[x] = f[x] * d[x] /\ BitsOf(f, d, T)[x] = 0
      /\ \A i \in Nodes : i # x => BitsOf(f, d, S)[i] = BitsOf(f, d, T)[i]
  BY DEF BitsOf
<1>3. PICK w, v : w = BitsOf(f, d, T) /\ v = BitsOf(f, d, S)
  OBVIOUS
<1>4. /\ w \in [0..NumNodes-1 -> Nat] /\ v \in [0..NumNodes-1 -> Nat] /\ NumNodes \in Nat
      /\ x \in 0..NumNodes-1 /\ \A i \in 0..NumNodes-1 : i # x => v[i] = w[i]
  BY ONLY <1>1, <1>2, <1>3, Sizes, x \in Nodes
<1>5. /\ SumTo(w, NumNodes) \in Nat /\ SumTo(v, NumNodes) \in Nat
      /\ SumTo(v, NumNodes) + w[x] = SumTo(w, NumNodes) + v[x]
  BY ONLY <1>4, SumUpdates
<1>6. w[x] = 0 /\ v[x] = f[x] * d[x] /\ f[x] * d[x] \in Nat
  <2>1. f[x] \in Nat /\ d[x] \in Nat
    OBVIOUS
  <2>2. f[x] * d[x] \in Nat
    BY ONLY <2>1
  <2> QED BY ONLY <1>2, <1>3, <2>2
<1>7. PICK a \in Nat, b \in Nat, c \in Nat :
        a = SumTo(w, NumNodes) /\ b = SumTo(v, NumNodes) /\ c = f[x] * d[x]
  BY ONLY <1>5, <1>6
<1>8. b = a + c
  BY ONLY <1>5, <1>6, <1>7
<1> QED BY ONLY <1>3, <1>5, <1>7, <1>8 DEF PathOf

(* Two siblings give way to their parent, which is one bit nearer. *)
LEMMA PathJoins ==
  ASSUME NEW f \in [Nodes -> Nat], NEW d \in [Nodes -> Nat], NEW S, NEW T,
         NEW b \in Nodes, NEW c \in Nodes, NEW p \in Nodes,
         b \in S, c \in S, b # c, p \notin S, T = (S \ {b, c}) \cup {p},
         f[p] = f[b] + f[c], d[b] = d[p] + 1, d[c] = d[p] + 1
  PROVE  /\ PathOf(f, d, S) \in Nat /\ PathOf(f, d, T) \in Nat
         /\ PathOf(f, d, S) = PathOf(f, d, T) + f[p]
<1>1. PICK S1, S2 : S1 = S \ {c} /\ S2 = S1 \ {b}
  OBVIOUS
<1>2. b \in S1 /\ p \in T /\ S2 = T \ {p}
  BY <1>1
<1>3. /\ PathOf(f, d, S) \in Nat /\ PathOf(f, d, S1) \in Nat
      /\ PathOf(f, d, S) = PathOf(f, d, S1) + f[c] * d[c]
  BY <1>1, PathTakes
<1>4. /\ PathOf(f, d, S2) \in Nat
      /\ PathOf(f, d, S1) = PathOf(f, d, S2) + f[b] * d[b]
  <2>1. S2 = S1 \ {b}
    BY ONLY <1>1
  <2> QED BY ONLY <2>1, <1>2, PathTakes, f \in [Nodes -> Nat], d \in [Nodes -> Nat], b \in Nodes
<1>5. PathOf(f, d, T) \in Nat /\ PathOf(f, d, T) = PathOf(f, d, S2) + f[p] * d[p]
  <2>1. S2 = T \ {p}
    BY ONLY <1>2
  <2>2. p \in T
    BY ONLY <1>2
  <2>3. PICK U, V : U = T /\ V = S2
    OBVIOUS
  <2>4. V = U \ {p} /\ p \in U
    BY ONLY <2>1, <2>2, <2>3
  <2>5. /\ PathOf(f, d, U) \in Nat
        /\ PathOf(f, d, U) = PathOf(f, d, V) + f[p] * d[p]
    BY ONLY <2>4, PathTakes, f \in [Nodes -> Nat], d \in [Nodes -> Nat], p \in Nodes
  <2> QED BY ONLY <2>3, <2>5
<1>6. PICK r \in Nat, s \in Nat, t \in Nat, u \in Nat, m \in Nat, n \in Nat, k \in Nat :
        /\ r = PathOf(f, d, S) /\ s = PathOf(f, d, S1) /\ t = PathOf(f, d, S2)
        /\ u = PathOf(f, d, T) /\ m = f[b] /\ n = f[c] /\ k = d[p]
  BY ONLY <1>3, <1>4, <1>5, f \in [Nodes -> Nat], d \in [Nodes -> Nat],
          b \in Nodes, c \in Nodes, p \in Nodes
<1>7. r = s + n * (k + 1) /\ s = t + m * (k + 1) /\ u = t + (m + n) * k
  BY ONLY <1>3, <1>4, <1>5, <1>6, f[p] = f[b] + f[c], d[b] = d[p] + 1, d[c] = d[p] + 1
<1>8. PICK i \in Nat, j \in Nat : i = m * k /\ j = n * k
  BY ONLY m \in Nat, n \in Nat, k \in Nat
<1>9. n * (k + 1) = j + n /\ m * (k + 1) = i + m /\ (m + n) * k = i + j
  BY ONLY <1>8, m \in Nat, n \in Nat, k \in Nat
<1>10. r = u + (m + n)
  BY ONLY <1>7, <1>9, r \in Nat, s \in Nat, t \in Nat, u \in Nat, m \in Nat, n \in Nat,
          i \in Nat, j \in Nat
<1> QED BY ONLY <1>3, <1>5, <1>6, <1>10, f[p] = f[b] + f[c]

(* How many subtrees there are of each frequency. *)
Rooted(f, S, q) == {i \in S : f[i] = q}
ForestOf(f, S)  == [q \in Freqs |-> Cardinality(Rooted(f, S, q))]

(* All these sets are finite. *)
LEMMA RootedFinite ==
  ASSUME NEW f, NEW S \in SUBSET Nodes, NEW q
  PROVE  IsFiniteSet(Rooted(f, S, q)) /\ Cardinality(Rooted(f, S, q)) \in Nat
<1>1. IsFiniteSet(Nodes)
  BY ONLY Sizes, FS_Interval
<1>2. Rooted(f, S, q) \in SUBSET Nodes
  BY DEF Rooted
<1>3. IsFiniteSet(Rooted(f, S, q))
  BY ONLY <1>1, <1>2, FS_Subset
<1> QED BY ONLY <1>3, FS_CardinalityType

(* A tree that is taken away. *)
LEMMA ForestLoses ==
  ASSUME NEW f \in [Nodes -> Freqs], NEW S \in SUBSET Nodes, NEW x \in S, NEW T, T = S \ {x}
  PROVE  ForestOf(f, T) = [ForestOf(f, S) EXCEPT ![f[x]] = @ - 1]
<1>1. f[x] \in Freqs
  OBVIOUS
<1>2. ASSUME NEW q \in Freqs
      PROVE  Cardinality(Rooted(f, T, q))
               = IF q = f[x] THEN Cardinality(Rooted(f, S, q)) - 1 ELSE Cardinality(Rooted(f, S, q))
  <2>1. Rooted(f, T, q) = Rooted(f, S, q) \ {x}
    BY DEF Rooted
  <2>2. x \in Rooted(f, S, q) <=> q = f[x]
    BY DEF Rooted
  <2>3. IsFiniteSet(Rooted(f, S, q))
    BY RootedFinite
  <2>4. Cardinality(Rooted(f, S, q) \ {x})
          = IF x \in Rooted(f, S, q) THEN Cardinality(Rooted(f, S, q)) - 1
            ELSE Cardinality(Rooted(f, S, q))
    BY ONLY <2>3, FS_RemoveElement
  <2> QED BY ONLY <2>1, <2>2, <2>4
<1> QED BY ONLY <1>1, <1>2 DEF ForestOf

(* A tree that is added. *)
LEMMA ForestGains ==
  ASSUME NEW f \in [Nodes -> Freqs], NEW S \in SUBSET Nodes, NEW x \in Nodes, x \notin S,
         NEW T, T = S \cup {x}
  PROVE  ForestOf(f, T) = [ForestOf(f, S) EXCEPT ![f[x]] = @ + 1]
<1>1. f[x] \in Freqs
  OBVIOUS
<1>2. ASSUME NEW q \in Freqs
      PROVE  Cardinality(Rooted(f, T, q))
               = IF q = f[x] THEN Cardinality(Rooted(f, S, q)) + 1 ELSE Cardinality(Rooted(f, S, q))
  <2>1. CASE q = f[x]
    <3>1. Rooted(f, T, q) = Rooted(f, S, q) \cup {x} /\ x \notin Rooted(f, S, q)
      BY <2>1 DEF Rooted
    <3>2. IsFiniteSet(Rooted(f, S, q))
      BY RootedFinite
    <3>3. Cardinality(Rooted(f, S, q) \cup {x})
            = IF x \in Rooted(f, S, q) THEN Cardinality(Rooted(f, S, q))
              ELSE Cardinality(Rooted(f, S, q)) + 1
      BY ONLY <3>2, FS_AddElement
    <3> QED BY ONLY <2>1, <3>1, <3>3
  <2>2. CASE q # f[x]
    <3>1. Rooted(f, T, q) = Rooted(f, S, q)
      BY <2>2 DEF Rooted
    <3> QED BY ONLY <2>2, <3>1
  <2> QED BY ONLY <2>1, <2>2
<1> QED BY ONLY <1>1, <1>2 DEF ForestOf

(* The rarest tree is one whose root no other undercuts. *)
LEMMA RarestIs ==
  ASSUME NEW f \in [Nodes -> Freqs], NEW S \in SUBSET Nodes, NEW x \in S,
         \A y \in S : f[x] <= f[y]
  PROVE  Rarest(ForestOf(f, S)) = f[x]
<1>0. /\ \A q \in Freqs : q \in Nat
      /\ \A y \in S : f[y] \in Freqs /\ f[y] \in Nat
      /\ x \in S /\ f[x] \in Freqs /\ f[x] \in Nat
  <2>1. \A q \in Freqs : q \in Nat
    BY ONLY Sizes DEF Freqs
  <2>2. \A y \in S : f[y] \in Freqs
    OBVIOUS
  <2> QED BY ONLY <2>1, <2>2, x \in S
<1>1. \A q \in Freqs : ForestOf(f, S)[q] = Cardinality(Rooted(f, S, q))
  BY DEF ForestOf
<1>2. ASSUME NEW q \in Freqs
      PROVE  /\ ForestOf(f, S)[q] \in Nat
             /\ ForestOf(f, S)[q] = 0 => \A y \in S : f[y] # q
             /\ (\A y \in S : f[y] # q) => ForestOf(f, S)[q] = 0
  <2>1. ForestOf(f, S)[q] = Cardinality(Rooted(f, S, q))
    BY ONLY <1>1, q \in Freqs
  <2>2. IsFiniteSet(Rooted(f, S, q)) /\ Cardinality(Rooted(f, S, q)) \in Nat
    BY RootedFinite
  <2>3. Cardinality(Rooted(f, S, q)) = 0 <=> Rooted(f, S, q) = {}
    BY ONLY <2>2, FS_EmptySet
  <2>4. Rooted(f, S, q) = {} <=> \A y \in S : f[y] # q
    BY DEF Rooted
  <2> QED BY ONLY <2>1, <2>2, <2>3, <2>4
<1> DEFINE Is(q) == ForestOf(f, S)[q] > 0 /\ \A g \in Freqs : g < q => ForestOf(f, S)[g] = 0
<1>3. Is(f[x])
  <2>1. ForestOf(f, S)[f[x]] > 0
    <3>1. ForestOf(f, S)[f[x]] # 0
      BY ONLY <1>0, <1>2
    <3> QED BY ONLY <1>0, <1>2, <3>1
  <2>2. ASSUME NEW g \in Freqs, g < f[x] PROVE ForestOf(f, S)[g] = 0
    <3>1. ASSUME NEW y \in S PROVE f[y] # g
      <4>1. f[x] <= f[y] /\ f[x] \in Nat /\ f[y] \in Nat /\ g \in Nat
        BY ONLY <1>0, g \in Freqs, y \in S, \A z \in S : f[x] <= f[z]
      <4> QED BY ONLY <2>2, <4>1
    <3> QED BY ONLY <1>2, <3>1, g \in Freqs
  <2> QED BY ONLY <2>1, <2>2
<1>4. ASSUME NEW q \in Freqs, Is(q) PROVE q = f[x]
  <2>1. PICK y \in S : f[y] = q
    <3>1. ForestOf(f, S)[q] > 0
      BY ONLY <1>4
    <3> QED BY ONLY <1>2, <3>1, q \in Freqs
  <2>2. ~(f[x] < q)
    <3>1. ForestOf(f, S)[f[x]] > 0
      BY ONLY <1>3
    <3> QED BY ONLY <1>0, <1>2, <1>4, <3>1
  <2>3. f[x] <= q /\ q \in Nat /\ f[x] \in Nat
    BY ONLY <1>0, <2>1, q \in Freqs, \A z \in S : f[x] <= f[z]
  <2> QED BY ONLY <2>2, <2>3
<1>5. Rarest(ForestOf(f, S)) = CHOOSE q \in Freqs : Is(q)
  BY DEF Rarest
<1> HIDE DEF Is
<1> QED BY ONLY <1>0, <1>3, <1>4, <1>5

(* Huffman's step on a forest of subtrees, when b and c are the rarest and *)
(* p is their parent.                                                      *)
LEMMA JoinsSiblings ==
  ASSUME NEW f \in [Nodes -> Freqs], NEW S \in SUBSET Nodes, NEW T,
         NEW b \in S, NEW c \in S, NEW p \in Nodes,
         b # c, p \notin S, T = (S \ {b, c}) \cup {p}, f[p] = f[b] + f[c],
         \A y \in S : f[c] <= f[y],
         \A y \in S : y # c => f[b] <= f[y],
         NEW k
  PROVE  JoinRarest([forest |-> ForestOf(f, S), cost |-> k])
           = [forest |-> ForestOf(f, T), cost |-> k + f[p]]
<1>1. PICK S1, S2 : S1 = S \ {c} /\ S2 = S1 \ {b}
  OBVIOUS
<1>2. /\ S1 \in SUBSET Nodes /\ S2 \in SUBSET Nodes /\ b \in S1 /\ p \notin S2 /\ T = S2 \cup {p}
      /\ \A y \in S1 : f[b] <= f[y]
  BY <1>1
<1>3. Rarest(ForestOf(f, S)) = f[c]
  BY RarestIs
<1>4. ForestOf(f, S1) = [ForestOf(f, S) EXCEPT ![f[c]] = @ - 1]
  BY <1>1, ForestLoses
<1>5. Rarest(ForestOf(f, S1)) = f[b]
  BY <1>2, RarestIs
<1>6. ForestOf(f, S2) = [ForestOf(f, S1) EXCEPT ![f[b]] = @ - 1]
  BY <1>1, <1>2, ForestLoses
<1>7. ForestOf(f, T) = [ForestOf(f, S2) EXCEPT ![f[p]] = @ + 1]
  BY <1>2, ForestGains
<1>8. f[p] = f[c] + f[b]
  BY f[p] = f[b] + f[c], Sizes DEF Freqs
<1>9. PICK F, F1, F2, F3 : F = ForestOf(f, S) /\ F1 = ForestOf(f, S1) /\ F2 = ForestOf(f, S2)
                           /\ F3 = ForestOf(f, T)
  OBVIOUS
<1>10. [forest |-> F, cost |-> k].forest = F /\ [forest |-> F, cost |-> k].cost = k
  OBVIOUS
<1>11. JoinRarest([forest |-> F, cost |-> k])
         = [forest |-> F3, cost |-> k + (f[c] + f[b])]
  <2>1. Rarest(F) = f[c] /\ F1 = [F EXCEPT ![f[c]] = @ - 1]
    BY ONLY <1>3, <1>4, <1>9
  <2>2. Rarest(F1) = f[b] /\ F2 = [F1 EXCEPT ![f[b]] = @ - 1]
    BY ONLY <1>5, <1>6, <1>9
  <2>3. F3 = [F2 EXCEPT ![f[c] + f[b]] = @ + 1]
    BY ONLY <1>7, <1>8, <1>9
  <2> QED BY ONLY <1>10, <2>1, <2>2, <2>3, Zenon DEF JoinRarest
<1> QED BY ONLY <1>8, <1>9, <1>11

-----------------------------------------------------------------------------
(* The subtrees that are left when the siblings from the end of the array  *)
(* down to m have been joined: Huffman's forests.                          *)

Cut(L, ar, m) == {i \in Nodes : i <= m /\ (i \in L \/ ar[i] > m)}

(* The first forest is of the leaves, the last is the root. *)
LEMMA CutEnds ==
  ASSUME NEW L, NEW ar, NEW pa, NEW lv, LinkTypes(L, ar, pa, lv), BranchesLinked(L, ar, pa)
  PROVE  Cut(L, ar, 2 * (NumLeaves - 1)) = L /\ Cut(L, ar, 0) = {0}
<1>1. /\ 0 \notin L /\ L \subseteq Nodes
      /\ \A x \in Nodes : x \notin L => ar[x] \in Nodes /\ ar[x] \in Nat /\ x < ar[x] - 1
  BY DEF BranchesLinked, LinkTypes, EvenNodes
<1>2. /\ 2 * (NumLeaves - 1) = NumNodes - 1 /\ 0 \in Nodes
      /\ \A x \in Nodes : x \in Nat /\ x <= NumNodes - 1 /\ ~(x > NumNodes - 1)
  BY ONLY Sizes
<1>3. Cut(L, ar, NumNodes - 1) = L
  BY ONLY <1>1, <1>2 DEF Cut
<1>4. ASSUME NEW x \in Nodes, x <= 0 PROVE x = 0
  BY ONLY <1>2, <1>4, x \in Nodes
<1>5. ar[0] > 0
  BY ONLY <1>1, <1>2
<1>6. Cut(L, ar, 0) = {0}
  BY ONLY <1>1, <1>2, <1>4, <1>5 DEF Cut
<1> QED BY ONLY <1>2, <1>3, <1>6

(* The next two siblings are the rarest of the forest, since the array is  *)
(* in falling order, and their parent takes their place.                   *)
LEMMA CutStep ==
  ASSUME NEW L, NEW ar, NEW pa, NEW lv, LinkTypes(L, ar, pa, lv), BranchesLinked(L, ar, pa),
         NEW f, Falling(f), Summed(f, L, ar, 0),
         NEW m \in EvenNodes, m # 0
  PROVE  /\ pa[m] \in Nodes /\ m - 1 \in Nodes /\ m - 1 # 0 /\ pa[m - 1] = pa[m]
         /\ m \in Cut(L, ar, m) /\ m - 1 \in Cut(L, ar, m) /\ pa[m] \notin Cut(L, ar, m)
         /\ Cut(L, ar, m - 2) = (Cut(L, ar, m) \ {m - 1, m}) \cup {pa[m]}
         /\ f[pa[m]] = f[m - 1] + f[m]
         /\ \A y \in Cut(L, ar, m) : f[m] <= f[y]
         /\ \A y \in Cut(L, ar, m) : y # m => f[m - 1] <= f[y]
<1>1. \A x \in Nodes : x \notin L =>
        /\ ar[x] \in Nodes /\ ar[x] \in Nat /\ ar[x] % 2 = 0 /\ ar[x] - 1 \in Nodes /\ x < ar[x] - 1
        /\ pa[ar[x]] = x /\ pa[ar[x] - 1] = x
  BY DEF BranchesLinked, LinkTypes, EvenNodes
<1>2. \A x \in Nodes : x # 0 =>
        /\ pa[x] \in Nodes /\ pa[x] \notin L /\ pa[x] < x
        /\ x = ar[pa[x]] \/ x = ar[pa[x]] - 1
  BY DEF BranchesLinked
<1>3. \A x \in Nodes : x \in Nat /\ (x # 0 => x - 1 \in Nodes)
  BY ONLY NodeNumbers
<1>4. m \in Nodes /\ m \in Nat /\ m % 2 = 0 /\ m >= 2 /\ m - 1 \in Nodes /\ m - 1 # 0
  <2>1. m \in Nodes /\ m % 2 = 0
    BY DEF EvenNodes
  <2>2. m \in Nat /\ m - 1 \in Nodes
    BY ONLY <1>3, <2>1, m # 0
  <2> QED BY ONLY <2>1, <2>2, m # 0
<1>5. PICK p \in Nodes : p = pa[m]
  BY ONLY <1>2, <1>4, m # 0
<1>6. p \notin L /\ p < m /\ ar[p] = m /\ pa[m - 1] = p /\ p < m - 1 /\ p \in Nat
  <2>1. p \notin L /\ p < m /\ (m = ar[p] \/ m = ar[p] - 1)
    BY ONLY <1>2, <1>4, <1>5, m # 0
  <2>2. ar[p] \in Nat /\ ar[p] % 2 = 0 /\ pa[ar[p] - 1] = p /\ p < ar[p] - 1 /\ p \in Nat
    BY ONLY <1>1, <1>3, <2>1, p \in Nodes
  <2>3. ar[p] = m
    BY ONLY <1>4, <2>1, <2>2
  <2> QED BY ONLY <2>1, <2>2, <2>3
<1>7. m \in Cut(L, ar, m)
  <2>1. m \notin L => ar[m] > m
    BY ONLY <1>1, <1>4
  <2> QED BY ONLY <1>4, <2>1 DEF Cut
<1>8. m - 1 \in Cut(L, ar, m)
  <2>1. m - 1 \notin L => ar[m - 1] > m
    BY ONLY <1>1, <1>4
  <2> QED BY ONLY <1>4, <2>1 DEF Cut
<1>9. p \notin Cut(L, ar, m)
  BY ONLY <1>4, <1>6 DEF Cut
<1>10. ASSUME NEW i \in Nodes
       PROVE  i \in Cut(L, ar, m - 2) <=> i = p \/ (i \in Cut(L, ar, m) /\ i # m - 1 /\ i # m)
  <2>1. /\ i \in Cut(L, ar, m - 2) <=> i <= m - 2 /\ (i \in L \/ ar[i] > m - 2)
        /\ i \in Cut(L, ar, m) <=> i <= m /\ (i \in L \/ ar[i] > m)
    BY ONLY i \in Nodes DEF Cut
  <2>2. i \in Nat /\ (i <= m - 2 <=> i <= m /\ i # m - 1 /\ i # m)
    BY ONLY <1>3, <1>4, i \in Nodes
  <2>3. CASE i = p
    <3>1. i <= m - 2 /\ ar[i] > m - 2
      BY ONLY <1>4, <1>6, <2>3
    <3> QED BY ONLY <2>1, <2>3, <3>1
  <2>4. CASE i # p
    <3>1. i \notin L => (ar[i] > m - 2 <=> ar[i] > m)
      <4>1. SUFFICES ASSUME i \notin L PROVE ar[i] > m - 2 <=> ar[i] > m
        OBVIOUS
      <4>2. ar[i] \in Nat /\ ar[i] % 2 = 0 /\ ar[i] # m
        BY ONLY <1>1, <1>5, <2>4, <4>1, i \in Nodes
      <4> QED BY ONLY <1>4, <4>2
    <3> QED BY ONLY <2>1, <2>2, <2>4, <3>1
  <2> QED BY ONLY <2>3, <2>4
<1>11. Cut(L, ar, m - 2) = (Cut(L, ar, m) \ {m - 1, m}) \cup {p}
  <2>1. Cut(L, ar, m) \subseteq Nodes /\ Cut(L, ar, m - 2) \subseteq Nodes
    BY DEF Cut
  <2> QED BY ONLY <1>10, <2>1, p \in Nodes
<1>12. f[p] = f[m - 1] + f[m]
  <2>1. f[p] = f[ar[p] - 1] + f[ar[p]] + Lead(0, p)
    BY ONLY <1>6, Summed(f, L, ar, 0), p \in Nodes DEF Summed
  <2>2. f[m - 1] \in Nat /\ f[m] \in Nat
    BY ONLY <1>4, Falling(f) DEF Falling
  <2>3. Lead(0, p) = 0
    BY DEF Lead
  <2> QED BY ONLY <1>6, <2>1, <2>2, <2>3
<1>13. ASSUME NEW y \in Cut(L, ar, m)
       PROVE  f[m] <= f[y] /\ (y # m => f[m - 1] <= f[y])
  <2>1. y \in Nodes /\ y <= m
    BY DEF Cut
  <2>2. y \in Nat /\ f[y] \in Nat /\ f[m] \in Nat /\ f[m - 1] \in Nat
    BY ONLY <1>3, <1>4, <2>1, Falling(f) DEF Falling
  <2>3. \A a, b \in Nodes : a < b => f[b] <= f[a]
    BY DEF Falling
  <2>4. f[m] <= f[y]
    BY ONLY <1>4, <2>1, <2>2, <2>3
  <2>5. CASE y # m
    <3>1. y = m - 1 \/ y < m - 1
      BY ONLY <1>4, <2>1, <2>2, <2>5
    <3>2. f[m - 1] <= f[y]
      BY ONLY <1>4, <2>1, <2>2, <2>3, <3>1
    <3> QED BY ONLY <2>4, <3>2
  <2> QED BY ONLY <2>4, <2>5
<1> QED BY ONLY <1>4, <1>5, <1>6, <1>7, <1>8, <1>9, <1>11, <1>12, <1>13

-----------------------------------------------------------------------------
(* Depths. *)

(* d counts the steps from the root. *)
CountsDown(pa, d) ==
  /\ d \in [Nodes -> Nat] /\ d[0] = 0
  /\ \A x \in Nodes : x # 0 => d[x] = d[pa[x]] + 1

(* There is such a function, since parents come first. *)
LEMMA DepthsExist ==
  ASSUME NEW pa, \A x \in Nodes : x # 0 => pa[x] \in Nodes /\ pa[x] < x
  PROVE  \E d : CountsDown(pa, d)
<1> DEFINE UpTo(d, j) == /\ d \in [Nodes -> Nat] /\ d[0] = 0
                         /\ \A x \in Nodes : x # 0 /\ x <= j => d[x] = d[pa[x]] + 1
           S == {k \in Nat : k <= NumNodes - 1 /\ \E d : UpTo(d, (NumNodes - 1) - k)}
<1>1. \A x \in Nodes : x \in Nat /\ x <= NumNodes - 1
  BY ONLY Sizes
<1>2. NumNodes - 1 \in S
  <2> DEFINE d == [x \in Nodes |-> 0]
  <2>1. d \in [Nodes -> Nat] /\ d[0] = 0
    BY NodeNumbers
  <2> HIDE DEF d
  <2>2. \A x \in Nodes : ~(x # 0 /\ x <= 0)
    BY ONLY <1>1
  <2>3. UpTo(d, 0)
    BY ONLY <2>1, <2>2
  <2> HIDE DEF UpTo
  <2>4. (NumNodes - 1) - (NumNodes - 1) = 0 /\ NumNodes - 1 \in Nat /\ NumNodes - 1 <= NumNodes - 1
    BY ONLY Sizes
  <2>5. UpTo(d, (NumNodes - 1) - (NumNodes - 1))
    BY ONLY <2>3, <2>4
  <2> QED BY ONLY <2>4, <2>5
<1>3. PICK k \in S : \A u \in S : k <= u
  <2>1. S \in SUBSET Nat /\ S # {}
    BY <1>2
  <2> HIDE DEF S
  <2> QED BY ONLY <2>1, Least
<1>4. k \in Nat /\ k <= NumNodes - 1
  BY <1>3
<1>5. PICK d : UpTo(d, (NumNodes - 1) - k)
  BY <1>3
<1>6. CASE k = 0
  <2>1. (NumNodes - 1) - k = NumNodes - 1
    BY ONLY <1>6, Sizes
  <2>2. UpTo(d, NumNodes - 1)
    BY ONLY <1>5, <2>1
  <2> QED BY ONLY <1>1, <2>2 DEF CountsDown
<1>7. CASE k # 0
  <2>1. PICK j \in Nat, y \in Nodes :
          /\ j = (NumNodes - 1) - k /\ y = j + 1 /\ (NumNodes - 1) - (k - 1) = y /\ y # 0
          /\ k - 1 \in Nat /\ k - 1 <= NumNodes - 1 /\ ~(k <= k - 1)
    <3>1. /\ (NumNodes - 1) - k \in Nat /\ ((NumNodes - 1) - k) + 1 \in Nodes
          /\ (NumNodes - 1) - (k - 1) = ((NumNodes - 1) - k) + 1 /\ ((NumNodes - 1) - k) + 1 # 0
          /\ k - 1 \in Nat /\ k - 1 <= NumNodes - 1 /\ ~(k <= k - 1)
      BY ONLY <1>4, <1>7, Sizes
    <3> QED BY ONLY <3>1
  <2>2. /\ d \in [Nodes -> Nat] /\ d[0] = 0
        /\ \A x \in Nodes : x # 0 /\ x <= j => d[x] = d[pa[x]] + 1
    BY ONLY <1>5, <2>1
  <2>3. pa[y] \in Nodes /\ d[pa[y]] \in Nat /\ pa[y] # y
    <3>1. y # 0
      BY ONLY <2>1
    <3>2. pa[y] \in Nodes /\ pa[y] < y
      BY ONLY <3>1, y \in Nodes, \A x \in Nodes : x # 0 => pa[x] \in Nodes /\ pa[x] < x
    <3>3. pa[y] \in Nat /\ y \in Nat
      BY ONLY <1>1, <3>2, y \in Nodes
    <3>4. d[pa[y]] \in Nat
      BY ONLY <2>2, <3>2
    <3> QED BY ONLY <3>2, <3>3, <3>4
  <2>4. PICK e : e = [d EXCEPT ![y] = d[pa[y]] + 1]
    OBVIOUS
  <2>5. e \in [Nodes -> Nat] /\ e[y] = d[pa[y]] + 1 /\ \A x \in Nodes : x # y => e[x] = d[x]
    BY ONLY <2>2, <2>3, <2>4, y \in Nodes
  <2>6. e[0] = 0
    BY ONLY <2>1, <2>2, <2>5, NodeNumbers
  <2>7. ASSUME NEW x \in Nodes, x # 0, x <= y PROVE e[x] = e[pa[x]] + 1
    <3>1. pa[x] \in Nodes /\ pa[x] < x /\ pa[x] # y
      BY ONLY <1>1, <2>7, x \in Nodes, y \in Nodes,
              \A z \in Nodes : z # 0 => pa[z] \in Nodes /\ pa[z] < z
    <3>2. e[pa[x]] = d[pa[x]]
      BY ONLY <2>5, <3>1
    <3>3. CASE x = y
      BY ONLY <2>5, <3>2, <3>3
    <3>4. CASE x # y
      <4>1. x <= j
        BY ONLY <1>1, <2>1, <2>7, <3>4, x \in Nodes
      <4>2. d[x] = d[pa[x]] + 1
        BY ONLY <2>2, <2>7, <4>1, x \in Nodes
      <4> QED BY ONLY <2>5, <3>2, <3>4, <4>2, x \in Nodes
    <3> QED BY ONLY <3>3, <3>4
  <2>8. UpTo(e, y)
    BY ONLY <2>5, <2>6, <2>7
  <2> HIDE DEF UpTo
  <2>9. k - 1 \in S
    BY ONLY <2>1, <2>8
  <2> HIDE DEF S
  <2> QED BY ONLY <1>3, <2>1, <2>9
<1> QED BY ONLY <1>6, <1>7

(* Depths is that function. *)
LEMMA DepthsCount ==
  ASSUME nodes \in [Nodes -> NodeRecords],
         \A x \in Nodes : x # 0 => UpOf[x] \in Nodes /\ UpOf[x] < x
  PROVE  CountsDown(UpOf, Depths)
<1> DEFINE Q(d) == [i \in Nodes |-> IF i = 0 THEN 0 ELSE d[nodes[i].parent] + 1]
           D == CHOOSE d : d = Q(d)
<1>1. PICK e : CountsDown(UpOf, e)
  BY ONLY DepthsExist, \A x \in Nodes : x # 0 => UpOf[x] \in Nodes /\ UpOf[x] < x
<1>2. e \in [Nodes -> Nat] /\ e[0] = 0 /\ \A x \in Nodes : x # 0 => e[x] = e[UpOf[x]] + 1
  BY ONLY <1>1 DEF CountsDown
<1>3. \A x \in Nodes : UpOf[x] = nodes[x].parent
  BY ONLY Parts, nodes \in [Nodes -> NodeRecords]
<1>4. e = Q(e)
  <2>1. ASSUME NEW x \in Nodes PROVE e[x] = IF x = 0 THEN 0 ELSE e[nodes[x].parent] + 1
    BY ONLY <1>2, <1>3, x \in Nodes
  <2> QED BY ONLY <1>2, <2>1
<1>5. D = Q(D)
  <2> HIDE DEF Q
  <2> QED BY ONLY <1>4
<1>6. Depths = D
  BY DEF Depths
<1>7. \A x \in Nodes : D[x] = IF x = 0 THEN 0 ELSE D[nodes[x].parent] + 1
  <2> HIDE DEF D
  <2> QED BY ONLY <1>5
<1>8. D = [x \in Nodes |-> D[x]]
  <2>1. Q(D) = [x \in Nodes |-> Q(D)[x]]
    <3> HIDE DEF D
    <3> QED OBVIOUS
  <2> HIDE DEF Q
  <2> QED BY ONLY <1>5, <2>1
<1> HIDE DEF D, Q
<1>9. D[0] = 0 /\ \A x \in Nodes : x # 0 => D[x] = D[UpOf[x]] + 1
  BY ONLY <1>3, <1>7, NodeNumbers
<1>10. ASSUME NEW z \in Nodes, D[z] # e[z] PROVE FALSE
  <2> DEFINE R == {x \in Nodes : D[x] # e[x]}
  <2>1. PICK x \in R : \A u \in R : x <= u
    <3>1. z \in R
      BY ONLY <1>10, z \in Nodes DEF R
    <3>2. R \in SUBSET Nat /\ R # {}
      BY ONLY <3>1, NodeNumbers DEF R
    <3> HIDE DEF R
    <3> QED BY ONLY <3>2, Least
  <2>2. x \in Nodes /\ D[x] # e[x]
    BY ONLY <2>1 DEF R
  <2>3. x # 0
    BY ONLY <1>2, <1>9, <2>2
  <2>4. UpOf[x] \in Nodes /\ UpOf[x] < x /\ UpOf[x] \in Nat /\ x \in Nat
    BY ONLY <2>2, <2>3, NodeNumbers, \A y \in Nodes : y # 0 => UpOf[y] \in Nodes /\ UpOf[y] < y
  <2>5. D[UpOf[x]] = e[UpOf[x]]
    <3>1. UpOf[x] \notin R
      BY ONLY <2>1, <2>4
    <3> QED BY ONLY <2>4, <3>1 DEF R
  <2> QED BY ONLY <1>2, <1>9, <2>2, <2>3, <2>5
<1>11. D \in [Nodes -> Nat]
  BY ONLY <1>2, <1>8, <1>10
<1> QED BY ONLY <1>6, <1>9, <1>11 DEF CountsDown

-----------------------------------------------------------------------------
(* The codes. *)

(* HuffmanLength is what comes out of a run of Huffman's steps. *)
LEMMA HuffmanRuns ==
  ASSUME NEW n \in Nat, n >= 1, NEW F, NEW g,
         g = [k \in 0..n-1 |-> g[k]],
         g[0] = [forest |-> F, cost |-> 0],
         \A k \in 1..n-1 : g[k] = JoinRarest(g[k - 1])
  PROVE  HuffmanLength(F, n) = g[n - 1].cost
<1> DEFINE Q(h) == [k \in 0..n-1 |-> IF k = 0 THEN [forest |-> F, cost |-> 0]
                                     ELSE JoinRarest(h[k - 1])]
           H == CHOOSE h : h = Q(h)
<1>1. g = Q(g)
  <2>1. ASSUME NEW k \in 0..n-1
        PROVE  g[k] = IF k = 0 THEN [forest |-> F, cost |-> 0] ELSE JoinRarest(g[k - 1])
    <3>1. CASE k = 0
      BY ONLY <3>1, g[0] = [forest |-> F, cost |-> 0]
    <3>2. CASE k # 0
      <4>1. k \in 1..n-1
        BY ONLY <3>2, k \in 0..n-1, n \in Nat
      <4> QED BY ONLY <3>2, <4>1, \A j \in 1..n-1 : g[j] = JoinRarest(g[j - 1])
    <3> QED BY ONLY <3>1, <3>2
  <2> QED BY ONLY <2>1, g = [k \in 0..n-1 |-> g[k]]
<1>2. H = Q(H)
  <2> HIDE DEF Q
  <2> QED BY ONLY <1>1
<1>3. HuffmanLength(F, n) = H[n - 1].cost
  BY DEF HuffmanLength
<1>4. \A k \in 0..n-1 : H[k] = IF k = 0 THEN [forest |-> F, cost |-> 0] ELSE JoinRarest(H[k - 1])
  <2> HIDE DEF H
  <2> QED BY ONLY <1>2
<1> HIDE DEF H, Q
<1>5. ASSUME NEW j \in 0..n-1, H[j] # g[j] PROVE FALSE
  <2> DEFINE R == {k \in 0..n-1 : H[k] # g[k]}
  <2>1. PICK k \in R : \A u \in R : k <= u
    <3>1. j \in R
      BY ONLY <1>5, j \in 0..n-1 DEF R
    <3>2. R \in SUBSET Nat /\ R # {}
      BY ONLY <3>1 DEF R
    <3> HIDE DEF R
    <3> QED BY ONLY <3>2, Least
  <2>2. k \in 0..n-1 /\ H[k] # g[k]
    BY ONLY <2>1 DEF R
  <2>3. k # 0
    BY ONLY <1>4, <2>2, g[0] = [forest |-> F, cost |-> 0]
  <2>4. k - 1 \in 0..n-1 /\ ~(k <= k - 1) /\ k \in 1..n-1
    BY ONLY <2>2, <2>3, n \in Nat
  <2>5. H[k - 1] = g[k - 1]
    BY ONLY <2>1, <2>4 DEF R
  <2>6. H[k] = JoinRarest(H[k - 1])
    BY ONLY <1>4, <2>2, <2>3
  <2>7. g[k] = JoinRarest(g[k - 1])
    BY ONLY <2>4, \A i \in 1..n-1 : g[i] = JoinRarest(g[i - 1])
  <2> QED BY ONLY <2>2, <2>5, <2>6, <2>7
<1>6. n - 1 \in 0..n-1
  BY ONLY n \in Nat, n >= 1
<1> QED BY ONLY <1>3, <1>5, <1>6

(* In an ordered tree Huffman's construction, from the leaves to the root, *)
(* joins the siblings from the end of the array to its beginning, and what *)
(* it has cost so far is what the leaves are below the joined trees.       *)
LEMMA HuffmanJoins ==
  ASSUME NEW L, NEW ar, NEW pa, NEW lv, LinkTypes(L, ar, pa, lv), BranchesLinked(L, ar, pa),
         NEW f \in [Nodes -> Freqs], Falling(f), Summed(f, L, ar, 0),
         NEW d, CountsDown(pa, d)
  PROVE  HuffmanLength(ForestOf(f, L), NumLeaves) = PathOf(f, d, L)
<1>0. f \in [Nodes -> Nat] /\ d \in [Nodes -> Nat] /\ d[0] = 0
      /\ \A x \in Nodes : x # 0 => d[x] = d[pa[x]] + 1
  BY DEF Falling, CountsDown
<1> DEFINE S(k) == Cut(L, ar, 2 * ((NumLeaves - 1) - k))
           P(k) == PathOf(f, d, S(k))
           G(k) == [forest |-> ForestOf(f, S(k)), cost |-> PathOf(f, d, L) - P(k)]
           g    == [k \in 0..NumLeaves-1 |-> G(k)]
<1>1. S(0) = L /\ S(NumLeaves - 1) = {0}
  <2>1. 2 * ((NumLeaves - 1) - 0) = 2 * (NumLeaves - 1) /\ 2 * ((NumLeaves - 1) - (NumLeaves - 1)) = 0
    BY ONLY Sizes
  <2>2. Cut(L, ar, 2 * (NumLeaves - 1)) = L /\ Cut(L, ar, 0) = {0}
    BY ONLY CutEnds, LinkTypes(L, ar, pa, lv), BranchesLinked(L, ar, pa)
  <2> QED BY ONLY <2>1, <2>2
<1>2. ASSUME NEW k \in 1..NumLeaves-1, NEW j \in 0..NumLeaves-1, j = k - 1
      PROVE  /\ P(j) \in Nat /\ P(k) \in Nat
             /\ \E p \in Nodes :
                  /\ f[p] \in Nat /\ P(j) = P(k) + f[p]
                  /\ \A c : JoinRarest([forest |-> ForestOf(f, S(j)), cost |-> c])
                              = [forest |-> ForestOf(f, S(k)), cost |-> c + f[p]]
  <2>1. PICK m \in EvenNodes : m = 2 * ((NumLeaves - 1) - j) /\ m # 0
                               /\ m - 2 = 2 * ((NumLeaves - 1) - k)
    <3>1. /\ 2 * ((NumLeaves - 1) - j) \in Nodes /\ 2 * ((NumLeaves - 1) - j) # 0
          /\ (2 * ((NumLeaves - 1) - j)) % 2 = 0
          /\ 2 * ((NumLeaves - 1) - j) - 2 = 2 * ((NumLeaves - 1) - k)
      BY ONLY <1>2, Sizes, k \in 1..NumLeaves-1
    <3> QED BY ONLY <3>1 DEF EvenNodes
  <2>2. S(j) = Cut(L, ar, m) /\ S(k) = Cut(L, ar, m - 2)
    BY ONLY <2>1
  <2>3. /\ pa[m] \in Nodes /\ m - 1 \in Nodes /\ m - 1 # 0 /\ pa[m - 1] = pa[m]
        /\ m \in Cut(L, ar, m) /\ m - 1 \in Cut(L, ar, m) /\ pa[m] \notin Cut(L, ar, m)
        /\ Cut(L, ar, m - 2) = (Cut(L, ar, m) \ {m - 1, m}) \cup {pa[m]}
        /\ f[pa[m]] = f[m - 1] + f[m]
        /\ \A y \in Cut(L, ar, m) : f[m] <= f[y]
        /\ \A y \in Cut(L, ar, m) : y # m => f[m - 1] <= f[y]
    BY ONLY <2>1, CutStep, LinkTypes(L, ar, pa, lv), BranchesLinked(L, ar, pa),
            Falling(f), Summed(f, L, ar, 0), m \in EvenNodes
  <2>4. PICK b \in Nodes, c \in Nodes, p \in Nodes : b = m - 1 /\ c = m /\ p = pa[m]
    <3>1. m \in Nodes
      BY ONLY m \in EvenNodes DEF EvenNodes
    <3> QED BY ONLY <2>3, <3>1
  <2>5. PICK A, B : A = S(j) /\ B = S(k)
    OBVIOUS
  <2>6. /\ b \in A /\ c \in A /\ p \notin A /\ B = (A \ {b, c}) \cup {p}
        /\ f[p] = f[b] + f[c]
        /\ \A y \in A : f[c] <= f[y]
        /\ \A y \in A : y # c => f[b] <= f[y]
    BY ONLY <2>2, <2>3, <2>4, <2>5
  <2>7. b # c /\ b # 0 /\ c # 0 /\ pa[b] = p /\ pa[c] = p
    <3>1. m - 1 # m
      BY ONLY NodeNumbers, m \in EvenNodes DEF EvenNodes
    <3> QED BY ONLY <2>1, <2>3, <2>4, <3>1
  <2>8. d[b] = d[p] + 1 /\ d[c] = d[p] + 1
    BY ONLY <1>0, <2>7, b \in Nodes, c \in Nodes
  <2>9. /\ PathOf(f, d, A) \in Nat /\ PathOf(f, d, B) \in Nat
        /\ PathOf(f, d, A) = PathOf(f, d, B) + f[p]
    <3>1. f \in [Nodes -> Nat] /\ d \in [Nodes -> Nat]
      BY ONLY <1>0
    <3> QED BY ONLY <3>1, <2>6, <2>7, <2>8, PathJoins, b \in Nodes, c \in Nodes, p \in Nodes
  <2>10. A \in SUBSET Nodes
    BY ONLY <2>2, <2>5 DEF Cut
  <2>11. ASSUME NEW z
         PROVE  JoinRarest([forest |-> ForestOf(f, A), cost |-> z])
                  = [forest |-> ForestOf(f, B), cost |-> z + f[p]]
    <3>1. b \in A /\ c \in A
      BY ONLY <2>6
    <3> QED BY ONLY <3>1, <2>6, <2>7, <2>10, JoinsSiblings, f \in [Nodes -> Freqs], p \in Nodes
  <2>12. f[p] \in Nat
    BY ONLY <1>0, p \in Nodes
  <2> HIDE DEF S
  <2> QED BY ONLY <2>5, <2>9, <2>11, <2>12
<1>3. ASSUME NEW k \in 0..NumLeaves-1 PROVE P(k) \in Nat
  <2>1. CASE k = 0
    <3>1. 1 \in 1..NumLeaves-1 /\ 0 \in 0..NumLeaves-1 /\ 0 = 1 - 1
      BY ONLY Sizes
    <3> HIDE DEF P
    <3> QED BY ONLY <1>2, <2>1, <3>1
  <2>2. CASE k # 0
    <3>1. k \in 1..NumLeaves-1 /\ k - 1 \in 0..NumLeaves-1
      BY ONLY <2>2, Sizes, k \in 0..NumLeaves-1
    <3> HIDE DEF P
    <3> QED BY ONLY <1>2, <3>1
  <2> QED BY ONLY <2>1, <2>2
<1>4. P(0) = PathOf(f, d, L)
  BY ONLY <1>1
<1>5. P(NumLeaves - 1) = 0
  <2>1. ASSUME NEW i \in Nodes PROVE BitsOf(f, d, {0})[i] = 0
    <3>1. f[0] * d[0] = 0
      <4>1. f[0] \in Nat /\ d[0] = 0
        BY ONLY <1>0, NodeNumbers
      <4> QED BY ONLY <4>1
    <3>2. BitsOf(f, d, {0})[i] = IF i \in {0} THEN f[i] * d[i] ELSE 0
      BY ONLY i \in Nodes DEF BitsOf
    <3> QED BY ONLY <3>1, <3>2
  <2>2. BitsOf(f, d, {0}) \in [0..NumNodes-1 -> Nat]
    <3>1. BitsOf(f, d, {0}) = [i \in Nodes |-> BitsOf(f, d, {0})[i]]
      BY DEF BitsOf
    <3> QED BY ONLY <2>1, <3>1, Sizes
  <2>3. PICK w : w = BitsOf(f, d, {0})
    OBVIOUS
  <2>4. w \in [0..NumNodes-1 -> Nat] /\ \A i \in 0..NumNodes-1 : w[i] = 0
    BY ONLY <2>1, <2>2, <2>3, Sizes
  <2>5. SumTo(w, NumNodes) = 0
    BY ONLY <2>4, SumOfNone, Sizes
  <2> QED BY ONLY <1>1, <2>3, <2>5 DEF PathOf
<1> HIDE DEF P, S
<1>6. /\ g = [k \in 0..NumLeaves-1 |-> g[k]]
      /\ \A k \in 0..NumLeaves-1 : g[k] = G(k)
  OBVIOUS
<1>7. g[0] = [forest |-> ForestOf(f, L), cost |-> 0]
  <2>1. P(0) \in Nat /\ 0 \in 0..NumLeaves-1
    BY ONLY <1>3, Sizes
  <2>2. PathOf(f, d, L) - P(0) = 0
    BY ONLY <1>4, <2>1
  <2> HIDE DEF g
  <2> QED BY ONLY <1>1, <1>6, <2>1, <2>2
<1>8. ASSUME NEW k \in 1..NumLeaves-1 PROVE g[k] = JoinRarest(g[k - 1])
  <2>1. PICK j \in 0..NumLeaves-1 : j = k - 1 /\ k \in 0..NumLeaves-1
    <3>1. k - 1 \in 0..NumLeaves-1 /\ k \in 0..NumLeaves-1
      BY ONLY Sizes, k \in 1..NumLeaves-1
    <3> QED BY ONLY <3>1
  <2>2. PICK p \in Nodes :
          /\ f[p] \in Nat /\ P(j) = P(k) + f[p]
          /\ \A c : JoinRarest([forest |-> ForestOf(f, S(j)), cost |-> c])
                      = [forest |-> ForestOf(f, S(k)), cost |-> c + f[p]]
    BY ONLY <1>2, <2>1, k \in 1..NumLeaves-1, j \in 0..NumLeaves-1
  <2>3. JoinRarest(G(j)) = [forest |-> ForestOf(f, S(k)), cost |-> (PathOf(f, d, L) - P(j)) + f[p]]
    BY ONLY <2>2
  <2>4. (PathOf(f, d, L) - P(j)) + f[p] = PathOf(f, d, L) - P(k)
    <3>1. PICK a \in Nat, b \in Nat, c \in Nat, e \in Nat :
            a = PathOf(f, d, L) /\ b = P(j) /\ c = P(k) /\ e = f[p]
      <4>1. P(0) \in Nat
        BY ONLY <1>3, Sizes
      <4> QED BY ONLY <1>3, <1>4, <2>1, <2>2, <4>1
    <3>2. b = c + e
      BY ONLY <2>2, <3>1
    <3>3. (a - b) + e = a - c
      BY ONLY <3>2, a \in Nat, b \in Nat, c \in Nat, e \in Nat
    <3> QED BY ONLY <3>1, <3>3
  <2>5. JoinRarest(G(j)) = G(k)
    BY ONLY <2>3, <2>4
  <2> HIDE DEF g, G
  <2> QED BY ONLY <1>6, <2>1, <2>5, j \in 0..NumLeaves-1
<1>9. HuffmanLength(ForestOf(f, L), NumLeaves) = g[NumLeaves - 1].cost
  <2>1. NumLeaves \in Nat /\ NumLeaves >= 1
    BY ONLY Sizes
  <2> HIDE DEF g, G
  <2> QED BY ONLY <1>6, <1>7, <1>8, <2>1, HuffmanRuns
<1>10. g[NumLeaves - 1].cost = PathOf(f, d, L) - P(NumLeaves - 1)
  <2>1. NumLeaves - 1 \in 0..NumLeaves-1
    BY ONLY Sizes
  <2>2. g[NumLeaves - 1] = G(NumLeaves - 1)
    <3> HIDE DEF g, G
    <3> QED BY ONLY <1>6, <2>1
  <2> HIDE DEF g
  <2> QED BY ONLY <2>2
<1>11. PathOf(f, d, L) \in Nat
  BY ONLY <1>3, <1>4, Sizes
<1> HIDE DEF g
<1> QED BY ONLY <1>5, <1>9, <1>10, <1>11

(* One tree for each value is one for each leaf. *)
LEMMA LeavesAreForest ==
  ASSUME nodes \in [Nodes -> NodeRecords], Linked(LeafNodes, ArgOf, UpOf, leaves)
  PROVE  LeafForest = ForestOf(FreqOf, LeafNodes)
<1>1. /\ LinkTypes(LeafNodes, ArgOf, UpOf, leaves) /\ LeavesLinked(LeafNodes, ArgOf, leaves)
  BY DEF Linked
<1>2. /\ \A v \in Values : leaves[v] \in LeafNodes /\ leaves[v] \in Nodes /\ ArgOf[leaves[v]] = v
      /\ \A x \in LeafNodes : x \in Nodes /\ ArgOf[x] \in Values /\ leaves[ArgOf[x]] = x
  BY ONLY <1>1 DEF LinkTypes, LeavesLinked
<1>3. \A x \in Nodes : FreqOf[x] = nodes[x].freq
  BY ONLY Parts, nodes \in [Nodes -> NodeRecords]
<1>4. ASSUME NEW q \in Freqs
      PROVE  Cardinality({v \in Values : nodes[leaves[v]].freq = q})
               = Cardinality(Rooted(FreqOf, LeafNodes, q))
  <2> DEFINE V == {v \in Values : nodes[leaves[v]].freq = q}
             X == Rooted(FreqOf, LeafNodes, q)
             h == [v \in V |-> leaves[v]]
  <2>1. ASSUME NEW v \in V PROVE h[v] = leaves[v] /\ h[v] \in X
    <3>1. v \in Values /\ nodes[leaves[v]].freq = q
      OBVIOUS
    <3>2. leaves[v] \in LeafNodes /\ FreqOf[leaves[v]] = q
      BY ONLY <1>2, <1>3, <3>1
    <3> QED BY ONLY <3>2, v \in V DEF Rooted
  <2>2. ASSUME NEW x \in X PROVE \E v \in V : h[v] = x
    <3>1. x \in LeafNodes /\ FreqOf[x] = q
      BY DEF Rooted
    <3>2. ArgOf[x] \in Values /\ leaves[ArgOf[x]] = x /\ nodes[x].freq = q
      BY ONLY <1>2, <1>3, <3>1
    <3>3. ArgOf[x] \in V
      BY ONLY <3>2
    <3> QED BY ONLY <3>2, <3>3
  <2>3. \A v, u \in V : h[v] = h[u] => v = u
    BY ONLY <1>2
  <2>4. IsFiniteSet(Values)
    BY ONLY Sizes, FS_Interval
  <2>5. V \in SUBSET Values
    OBVIOUS
  <2>6. h = [v \in V |-> h[v]]
    OBVIOUS
  <2> HIDE DEF V, X, h
  <2>7. h \in Injection(V, X)
    BY ONLY <2>1, <2>3, <2>6 DEF Injection, IsInjective
  <2>8. h \in Surjection(V, X)
    BY ONLY <2>1, <2>2, <2>6 DEF Surjection
  <2>9. ExistsBijection(V, X)
    BY ONLY <2>7, <2>8 DEF ExistsBijection, Bijection
  <2>10. IsFiniteSet(V)
    BY ONLY <2>4, <2>5, FS_Subset
  <2>11. Cardinality(X) = Cardinality(V)
    BY ONLY <2>9, <2>10, FS_Bijection
  <2> QED BY ONLY <2>11 DEF V, X
<1> QED BY ONLY <1>4 DEF LeafForest, ForestOf

(* A sound tree between two entries is a Huffman tree.                     *)
LEMMA SoundOptimal == Sound => CodesAreOptimal
<1> SUFFICES ASSUME Sound, pc = "idle"
             PROVE  OutputLength = HuffmanLength(LeafForest, NumLeaves)
  BY DEF CodesAreOptimal
<1>1. TreeOK(0)
  BY ONLY Sound, pc = "idle" DEF Sound
<1>2. /\ nodes \in [Nodes -> NodeRecords] /\ Linked(LeafNodes, ArgOf, UpOf, leaves)
      /\ Falling(FreqOf) /\ Summed(FreqOf, LeafNodes, ArgOf, 0) /\ FreqOf[0] <= ReorderLimit
  BY ONLY <1>1 DEF TreeOK, Whole
<1>3. LinkTypes(LeafNodes, ArgOf, UpOf, leaves) /\ BranchesLinked(LeafNodes, ArgOf, UpOf)
  BY ONLY <1>2 DEF Linked
<1>4. CountsDown(UpOf, Depths)
  <2>1. \A x \in Nodes : x # 0 => UpOf[x] \in Nodes /\ UpOf[x] < x
    BY ONLY <1>3 DEF BranchesLinked
  <2> QED BY ONLY <1>2, <2>1, DepthsCount
<1>5. FreqOf \in [Nodes -> Freqs]
  <2>1. FreqOf \in [Nodes -> Nat]
    BY ONLY <1>2 DEF Falling
  <2>2. ASSUME NEW x \in Nodes PROVE FreqOf[x] <= ReorderLimit
    <3>1. x = 0 \/ 0 < x
      BY ONLY NodeNumbers, x \in Nodes
    <3>2. FreqOf[x] <= FreqOf[0]
      BY ONLY <1>2, <2>1, <3>1, NodeNumbers, x \in Nodes DEF Falling
    <3>3. FreqOf[x] \in Nat /\ FreqOf[0] \in Nat
      BY ONLY <2>1, NodeNumbers, x \in Nodes
    <3> QED BY ONLY <1>2, <3>2, <3>3, Sizes
  <2>3. \A x \in Nodes : FreqOf[x] \in Freqs
    BY ONLY <2>1, <2>2, Sizes DEF Freqs
  <2> QED BY ONLY <2>1, <2>3
<1>6. HuffmanLength(ForestOf(FreqOf, LeafNodes), NumLeaves) = PathOf(FreqOf, Depths, LeafNodes)
  BY ONLY <1>2, <1>3, <1>4, <1>5, HuffmanJoins
<1>7. LeafForest = ForestOf(FreqOf, LeafNodes)
  BY ONLY <1>2, LeavesAreForest
<1>8. OutputLength = PathOf(FreqOf, Depths, LeafNodes)
  <2>1. ASSUME NEW i \in Nodes
        PROVE  (IF nodes[i].entry.leaf THEN nodes[i].freq * Depths[i] ELSE 0)
                 = (IF i \in LeafNodes THEN FreqOf[i] * Depths[i] ELSE 0)
    <3>1. FreqOf[i] = nodes[i].freq /\ (i \in LeafNodes <=> nodes[i].entry.leaf)
      BY ONLY <1>2, Parts, i \in Nodes
    <3> QED BY ONLY <3>1
  <2> QED BY ONLY <2>1 DEF OutputLength, PathOf, BitsOf
<1> QED BY ONLY <1>6, <1>7, <1>8

(* promote_to_leader keeps the tree optimal without ever building it anew: *)
(* between two calls of read_entry the codes in use take as many bits for  *)
(* the values counted so far as Huffman's code for those counts.           *)
THEOREM CodesStayOptimal == Spec => []CodesAreOptimal
  BY StaysSound, SoundOptimal, PTL

=============================================================================
