------------------------------- MODULE RBTree -------------------------------
(***************************************************************************)
(* The interval map of tools/rbtree.c, at the level of its contents: a     *)
(* tree is the set of its nodes, each an interval [start, end) with data.  *)
(* Where the nodes hang, and their colour, do not change what an operation *)
(* finds: the searches look for the last node that starts before an        *)
(* address (prev), the one that starts at it (node) and the first that     *)
(* starts after it (last, next), and follow succ_node from there.          *)
(*                                                                         *)
(* Intervals are disjoint (WellFormed), so each of those searches is       *)
(* written as the set of the nodes that pass the tests the code makes on   *)
(* its result: a set of at most one node.                                  *)
(***************************************************************************)
EXTENDS Naturals

CONSTANTS Top,      \* (uintptr_t)-1
          Data,     \* the uint32_t values stored
          NoData    \* stands for no interval, in the map the tree implements

ASSUME TopAssumption == Top \in Nat \ {0} /\ NoData \notin Data

VARIABLE nodes

Addr == 0 .. (Top - 1)

Node == [start : 0 .. Top, end : 0 .. Top, data : Data]

\* A new node, as add_range_next_to fills it.
RbNode(s, e, d) == [start |-> s, end |-> e, data |-> d]

Ranges == {r \in (0 .. Top) \X (0 .. Top) : r[1] < r[2]}

-----------------------------------------------------------------------------
\* The element of a set that has one.
The(P) == CHOOSE p \in P : TRUE

\* The node that contains a (find_addr).
find_addr(N, a) == {n \in N : n.start <= a /\ a < n.end}

\* prev, when it reaches s: it contains s or ends there.
PrevAt(N, s) == {n \in N : n.start < s /\ s <= n.end}

\* node
NodeAt(N, s) == {n \in N : n.start = s}

\* Mutant: a node that ends where the range ends is not removed.
Covered_short(N, s, e) == {n \in N : s < n.start /\ n.end < e}

\* The nodes the "Remove the entire node" loop removes.
Covered(N, s, e) == {n \in N : s < n.start /\ n.end <= e}

\* last after that loop, when it starts at e or before.
LastAt(N, s, e) == {n \in N : s < n.start /\ n.start <= e /\ e < n.end}

\* Cuts of the nodes in P.
EndAt(P, e)   == {RbNode(p.start, e, p.data) : p \in P}
StartAt(P, s) == {RbNode(s, p.end, p.data) : p \in P}

\* Mutant: the last node is removed, not cut.
CutBefore_lost(P, e) == {}

CutBefore(P, e) == {IF p.start < e THEN RbNode(e, p.end, p.data) ELSE p : p \in P}

-----------------------------------------------------------------------------
(***************************************************************************)
(* rb_set.  Each operator is one exit path of the function.                *)
(***************************************************************************)
\* Merge with prev, which holds the same data and ends before e.
MergePrev(N, p, s, e, d) ==
  LET node == NodeAt(N, s)
      last == LastAt(N, s, e)
      rest == N \ ({p} \union node \union Covered(N, s, e) \union last)
  IN  IF \E n \in node : e < n.end
      THEN (N \ ({p} \union node)) \union StartAt(node, e) \union EndAt({p}, e)
      ELSE IF \E n \in node : n.end = e
      THEN (N \ ({p} \union node)) \union EndAt({p}, e)
      ELSE IF \E n \in last : n.data = d
      THEN rest \union {RbNode(p.start, n.end, p.data) : n \in last}
      ELSE rest \union CutBefore(last, e) \union EndAt({p}, e)

\* Mutant: the part of prev after the range is lost.
SplitPrev_two(N, p, s, e, d) == (N \ {p}) \union {RbNode(p.start, s, p.data), RbNode(s, e, d)}

\* Split in three: prev contains the range and holds other data.
SplitPrev(N, p, s, e, d) ==
  (N \ {p}) \union {RbNode(p.start, s, p.data), RbNode(s, e, d), RbNode(e, p.end, p.data)}

\* Mutant: the tree is left as it is when the node at s holds d, however short that node is.
Overwrite_early(N, s, e, d) ==
  IF \E n \in NodeAt(N, s) : n.data = d THEN N
  ELSE (N \ (NodeAt(N, s) \union Covered(N, s, e) \union LastAt(N, s, e)))
         \union CutBefore(LastAt(N, s, e), e) \union {RbNode(s, e, d)}

\* What follows "Cut prev and continue", on the nodes N after the cut.
Overwrite(N, s, e, d) ==
  LET node == NodeAt(N, s)
      last == LastAt(N, s, e)
      rest == N \ (node \union Covered(N, s, e) \union last)
  IN  IF \E n \in node : e <= n.end /\ n.data = d
      THEN N
      ELSE IF \E n \in node : e < n.end
      THEN (N \ node) \union StartAt(node, e) \union {RbNode(s, e, d)}
      ELSE IF \E n \in last : n.data = d
      THEN rest \union StartAt(last, s)
      ELSE rest \union CutBefore(last, e) \union {RbNode(s, e, d)}

rb_set(N, s, e, d) ==
  LET prev == PrevAt(N, s)
  IN  IF \E p \in prev : p.data = d /\ e <= p.end
      THEN N
      ELSE IF \E p \in prev : p.data = d
      THEN MergePrev(N, The(prev), s, e, d)
      ELSE IF \E p \in prev : e < p.end
      THEN SplitPrev(N, The(prev), s, e, d)
      ELSE Overwrite((N \ prev) \union EndAt(prev, s), s, e, d)

(***************************************************************************)
(* rb_unset.  The last case is reached, by the "else fallthrough", also    *)
(* when prev ends inside the range: prev is then left as it is.            *)
(***************************************************************************)
rb_unset(N, s, e) ==
  LET node == NodeAt(N, s)
      prev == {n \in N : n.start < s /\ s < n.end}
      last == LastAt(N, s, e)
  IN  IF \E n \in node : e < n.end
      THEN (N \ node) \union StartAt(node, e)
      ELSE IF \E n \in node : n.end = e
      THEN N \ node
      ELSE IF node = {} /\ \E p \in prev : e < p.end
      THEN (N \ prev) \union EndAt(prev, s) \union StartAt(prev, e)
      ELSE IF node = {} /\ \E p \in prev : p.end = e
      THEN (N \ prev) \union EndAt(prev, s)
      ELSE (N \ (node \union Covered(N, s, e) \union last)) \union CutBefore(last, e)

-----------------------------------------------------------------------------
\* rb_get(N, a) returns v.
rb_get(N, a) == IF find_addr(N, a) = {} THEN 0
                ELSE The(find_addr(N, a)).data

\* Mutant: next is forgotten when no node contains a.
rb_get_end_top(N, a) == IF find_addr(N, a) # {} THEN The(find_addr(N, a)).end ELSE Top

\* The *end that rb_get_end stores for a.
rb_get_end(N, a) ==
  IF find_addr(N, a) # {}
  THEN The(find_addr(N, a)).end
  ELSE LET next == {n.start : n \in {m \in N : a < m.start}}
       IN  IF next = {} THEN Top
           ELSE CHOOSE x \in next : \A y \in next : x <= y

-----------------------------------------------------------------------------
Init == nodes = {}

Set(s, e, d) == nodes' = rb_set(nodes, s, e, d)

Unset(s, e) == nodes' = rb_unset(nodes, s, e)

Next == \E r \in Ranges : \/ \E d \in Data : Set(r[1], r[2], d)
                          \/ Unset(r[1], r[2])

Spec == Init /\ [][Next]_nodes

-----------------------------------------------------------------------------
\* Tree N holds v at address a.
Holds(N, a, v) == \E n \in find_addr(N, a) : n.data = v

TypeOK == nodes \subseteq Node

(***************************************************************************)
(* The ordering that print_rbnode checks with minstart and maxend: no      *)
(* interval is empty and no two intersect, so that a search that goes left *)
(* or right of a node misses nothing.                                      *)
(***************************************************************************)
Ordered(N) == \A m \in N : /\ m.start < m.end
                           /\ \A n \in N \ {m} : m.end <= n.start \/ n.end <= m.start

WellFormed == TypeOK /\ Ordered(nodes)

(***************************************************************************)
(* rb_set changes exactly the range it is given: every address of it holds *)
(* d afterwards, every other address what it held, whatever was merged,    *)
(* split, cut or removed on the way.                                       *)
(***************************************************************************)
SetExact ==
  [][\A r \in Ranges, d \in Data :
       Set(r[1], r[2], d) =>
         \A a \in Addr, v \in Data :
            Holds(nodes', a, v) <=> IF r[1] <= a /\ a < r[2] THEN v = d ELSE Holds(nodes, a, v)]_nodes

(***************************************************************************)
(* rb_unset never disturbs an address outside its range, and what it       *)
(* leaves inside is what was there.                                        *)
(***************************************************************************)
UnsetLocal ==
  [][\A r \in Ranges :
       Unset(r[1], r[2]) =>
         \A a \in Addr, v \in Data :
            /\ Holds(nodes', a, v) => Holds(nodes, a, v)
            /\ ~ (r[1] <= a /\ a < r[2]) => (Holds(nodes, a, v) => Holds(nodes', a, v))]_nodes

(***************************************************************************)
(* The loops of protectDB, unprotectDB, isprotectedDB and updateProtection *)
(* step from a to rb_get_end's end and treat all between as one: every     *)
(* address of [a, end) gives the same rb_get, and the loop advances.       *)
(***************************************************************************)
GetEndUniform ==
  \A a \in Addr : /\ a < rb_get_end(nodes, a)
                  /\ \A b \in a .. (rb_get_end(nodes, a) - 1) : rb_get(nodes, b) = rb_get(nodes, a)

(***************************************************************************)
(* What rb_unset's name and its callers ask: nothing in the range is set   *)
(* afterwards (freeProtection before a no-access mapping, wrappedlibc.c    *)
(* my_mprotect).  It does not hold.                                        *)
(***************************************************************************)
UnsetExact ==
  \A r \in Ranges : \A a \in r[1] .. (r[2] - 1) : find_addr(rb_unset(nodes, r[1], r[2]), a) = {}

\* The map the tree stands for.
MapOf(N) == [a \in Addr |-> IF find_addr(N, a) = {} THEN NoData ELSE The(find_addr(N, a)).data]

IM == INSTANCE IntervalMap WITH map <- MapOf(nodes)

(***************************************************************************)
(* The tree implements the map of IntervalMap whose Unset may leave set a  *)
(* tail of the interval that began before the range.                       *)
(***************************************************************************)
RefinesTail == IM!SpecTail
=============================================================================
