---------------------------- MODULE RBTreeProofs ----------------------------
(***************************************************************************)
(* rb_set and rb_unset keep the intervals of a tree apart, for every       *)
(* number of addresses and every data: WellFormed is inductive as it is.   *)
(* The same case analysis, one lemma for each exit path of the two         *)
(* functions, shows what a set and an unset do to every address.           *)
(***************************************************************************)
EXTENDS RBTree, TLAPS, WellFoundedInduction

\* Node n contains address a.
In(a, n) == n.start <= a /\ a < n.end

\* Tree M is what setting [s, e) to d in tree N must give.
SetGood(N, M, s, e, d) ==
  /\ M \subseteq Node
  /\ Ordered(M)
  /\ \A a \in Addr, v \in Data :
       Holds(M, a, v) <=> IF s <= a /\ a < e THEN v = d ELSE Holds(N, a, v)

(***************************************************************************)
(* Two nodes of a tree that contain a common address are the same node:    *)
(* the searches of rbtree.c have one result.                               *)
(***************************************************************************)
LEMMA OneNode ==
  ASSUME NEW N \in SUBSET Node, Ordered(N), NEW m \in N, NEW n \in N,
         NEW a \in Nat, In(a, m), In(a, n)
  PROVE  m = n
BY SMT DEF Ordered, Node, In

\* A new node and its fields.
LEMMA NewNode ==
  ASSUME NEW s \in 0 .. Top, NEW e \in 0 .. Top, NEW d \in Data
  PROVE  /\ RbNode(s, e, d) \in Node
         /\ RbNode(s, e, d).start = s /\ RbNode(s, e, d).end = e /\ RbNode(s, e, d).data = d
BY DEF RbNode, Node

\* The fields of a node.
LEMMA NodeFields ==
  ASSUME NEW n \in Node
  PROVE  n.start \in 0 .. Top /\ n.end \in 0 .. Top /\ n.data \in Data
BY DEF Node

\* Holds, unfolded.
LEMMA HoldsIn ==
  ASSUME NEW N, NEW a, NEW v
  PROVE  Holds(N, a, v) <=> \E n \in N : In(a, n) /\ n.data = v
BY DEF Holds, find_addr, In

(***************************************************************************)
(* How a tree is shown to be the right one: its nodes lie in the range     *)
(* with data d, or out of it inside a node of N with the same data, and    *)
(* together they contain the range and what N contained out of it.         *)
(***************************************************************************)
LEMMA ShowSetGood ==
  ASSUME NEW N \in SUBSET Node, NEW M \in SUBSET Node, Ordered(M),
         NEW s \in 0 .. Top, NEW e \in 0 .. Top, NEW d \in Data,
         \A n \in M : \A a \in Addr : In(a, n) =>
            IF s <= a /\ a < e THEN n.data = d ELSE \E m \in N : In(a, m) /\ m.data = n.data,
         \A a \in Addr : s <= a /\ a < e => \E n \in M : In(a, n),
         \A m \in N : \A a \in Addr : In(a, m) /\ ~ (s <= a /\ a < e) => \E n \in M : In(a, n) /\ n.data = m.data
  PROVE  SetGood(N, M, s, e, d)
<1>1. \A a \in Addr, v \in Data :
        Holds(M, a, v) <=> IF s <= a /\ a < e THEN v = d ELSE Holds(N, a, v)
  BY HoldsIn
<1> QED BY <1>1 DEF SetGood

\* rb_set, "split in three".
LEMMA SplitPrevGood ==
  ASSUME NEW N \in SUBSET Node, Ordered(N), NEW s \in 0 .. Top, NEW e \in 0 .. Top, s < e,
         NEW d \in Data, NEW p \in N, p.start < s, e < p.end
  PROVE  SetGood(N, SplitPrev(N, p, s, e, d), s, e, d)
<1> DEFINE M == SplitPrev(N, p, s, e, d)
           n1 == RbNode(p.start, s, p.data)
           n2 == RbNode(s, e, d)
           n3 == RbNode(e, p.end, p.data)
<1>1. /\ n1 \in Node /\ n1.start = p.start /\ n1.end = s /\ n1.data = p.data
      /\ n2 \in Node /\ n2.start = s /\ n2.end = e /\ n2.data = d
      /\ n3 \in Node /\ n3.start = e /\ n3.end = p.end /\ n3.data = p.data
  BY NewNode, NodeFields
<1>2. M = (N \ {p}) \union {n1, n2, n3}
  BY DEF SplitPrev
<1> HIDE DEF n1, n2, n3, M
<1>3. M \in SUBSET Node
  BY <1>1, <1>2
<1>4. Ordered(M)
  BY <1>1, <1>2, <1>3, NodeFields DEF Ordered
<1> USE TopAssumption
<1>5. \A n \in M : \A a \in Addr : In(a, n) =>
        IF s <= a /\ a < e THEN n.data = d ELSE \E m \in N : In(a, m) /\ m.data = n.data
  BY <1>1, <1>2, NodeFields DEF In, Addr, Ordered
<1>6. \A a \in Addr : s <= a /\ a < e => \E n \in M : In(a, n)
  BY <1>1, <1>2 DEF In
<1>7. \A m \in N : \A a \in Addr : In(a, m) /\ ~ (s <= a /\ a < e) => \E n \in M : In(a, n) /\ n.data = m.data
  BY <1>1, <1>2, NodeFields DEF In, Addr
<1> QED BY <1>3, <1>4, <1>5, <1>6, <1>7, ShowSetGood DEF M

\* NodeAt and LastAt have at most one element.
LEMMA OneAt ==
  ASSUME NEW N \in SUBSET Node, Ordered(N), NEW s \in 0 .. Top, NEW e \in 0 .. Top
  PROVE  /\ \A q \in NodeAt(N, s) : NodeAt(N, s) = {q}
         /\ \A l \in LastAt(N, s, e) : LastAt(N, s, e) = {l}
         /\ \A p \in PrevAt(N, s) : PrevAt(N, s) = {p}
<1> USE TopAssumption
<1>1. \A m \in N, n \in N : m.start = n.start => m = n
  BY NodeFields DEF Ordered
<1>2. \A l \in LastAt(N, s, e), m \in LastAt(N, s, e) : l = m
  BY NodeFields DEF Ordered, LastAt
<1>3. \A p \in PrevAt(N, s), m \in PrevAt(N, s) : p = m
  BY NodeFields DEF Ordered, PrevAt
<1> QED BY <1>1, <1>2, <1>3 DEF NodeAt

\* What is left after the node, the covered nodes and last are taken out.
LEMMA Rest ==
  ASSUME NEW N \in SUBSET Node, NEW s \in 0 .. Top, NEW e \in 0 .. Top, s < e, Ordered(N),
         \A n \in N : n.start < s => n.end <= s
  PROVE  LET rest == N \ (NodeAt(N, s) \union Covered(N, s, e) \union LastAt(N, s, e))
         IN  /\ rest \in SUBSET N
             /\ \A n \in rest : n.end <= s \/ e < n.start
             /\ \A n \in N : n \notin rest => s <= n.start /\ n.start <= e
             /\ \A n \in N : n \notin rest => n.end <= e \/ n \in NodeAt(N, s) \/ n \in LastAt(N, s, e)
BY NodeFields, TopAssumption DEF NodeAt, Covered, LastAt, Ordered

(***************************************************************************)
(* CutBefore of last: a node from e on with the same data.                 *)
(***************************************************************************)
LEMMA CutLast ==
  ASSUME NEW N \in SUBSET Node, NEW s \in 0 .. Top, NEW e \in 0 .. Top, NEW l \in LastAt(N, s, e),
         LastAt(N, s, e) = {l}
  PROVE  \E c \in Node : /\ CutBefore(LastAt(N, s, e), e) = {c}
                         /\ c.start = e /\ c.end = l.end /\ c.data = l.data
<1> USE TopAssumption
<1> DEFINE c == IF l.start < e THEN RbNode(e, l.end, l.data) ELSE l
<1>1. l \in N /\ l.start <= e
  BY DEF LastAt
<1>2. c \in Node /\ c.start = e /\ c.end = l.end /\ c.data = l.data
  BY <1>1, NewNode, NodeFields
<1>3. CutBefore(LastAt(N, s, e), e) = {c}
  BY DEF CutBefore
<1> QED BY <1>2, <1>3

\* rb_set after "Cut prev and continue": no node reaches over s.
LEMMA OverwriteGood ==
  ASSUME NEW N \in SUBSET Node, Ordered(N), NEW s \in 0 .. Top, NEW e \in 0 .. Top, s < e,
         NEW d \in Data, \A n \in N : n.start < s => n.end <= s
  PROVE  SetGood(N, Overwrite(N, s, e, d), s, e, d)
<1> DEFINE node == NodeAt(N, s)
           last == LastAt(N, s, e)
           rest == N \ (node \union Covered(N, s, e) \union last)
           n2   == RbNode(s, e, d)
           M    == Overwrite(N, s, e, d)
<1> USE TopAssumption
<1>1. n2 \in Node /\ n2.start = s /\ n2.end = e /\ n2.data = d
  BY NewNode
<1>2. /\ rest \in SUBSET N
      /\ \A n \in rest : n.end <= s \/ e < n.start
      /\ \A n \in N : n \notin rest => s <= n.start /\ n.start <= e
      /\ \A n \in N : n \notin rest => n.end <= e \/ n \in node \/ n \in last
  BY Rest
<1>3. /\ \A q \in node : node = {q} /\ q \in N /\ q.start = s
      /\ \A l \in last : last = {l} /\ l \in N /\ s < l.start /\ l.start <= e /\ e < l.end
  BY OneAt DEF NodeAt, LastAt
<1>4. CASE \E n \in node : e <= n.end /\ n.data = d
  <2>1. M = N
    BY <1>4 DEF Overwrite
  <2>2. PICK q \in node : e <= q.end /\ q.data = d
    BY <1>4
  <2>3. q \in N /\ q.start = s
    BY <1>3
  <2> HIDE DEF M, node
  <2>4. \A n \in N : \A a \in Addr : In(a, n) =>
          IF s <= a /\ a < e THEN n.data = d ELSE \E m \in N : In(a, m) /\ m.data = n.data
    BY <2>2, <2>3, NodeFields DEF In, Addr, Ordered
  <2>5. \A a \in Addr : s <= a /\ a < e => \E n \in N : In(a, n)
    BY <2>2, <2>3, NodeFields DEF In, Addr
  <2> QED BY <2>1, <2>4, <2>5, ShowSetGood DEF M
<1>5. CASE /\ ~ \E n \in node : e <= n.end /\ n.data = d
           /\ \E n \in node : e < n.end
  <2>2. PICK q \in node : e < q.end
    BY <1>5
  <2>3. q \in N /\ q.start = s /\ node = {q}
    BY <1>3
  <2> DEFINE n3 == RbNode(e, q.end, q.data)
  <2>4. n3 \in Node /\ n3.start = e /\ n3.end = q.end /\ n3.data = q.data
    BY <2>3, NewNode, NodeFields
  <2>5. StartAt(node, e) = {n3}
    BY <2>3 DEF StartAt
  <2>1. M = (N \ {q}) \union {n3, n2}
    BY <1>5, <2>3, <2>5 DEF Overwrite
  <2> HIDE DEF M, node, n2, n3
  <2>6. M \in SUBSET Node
    BY <1>1, <2>1, <2>4
  <2>7. Ordered(M)
    BY <1>1, <2>1, <2>2, <2>3, <2>4, NodeFields DEF Ordered
  <2>8. \A n \in M : \A a \in Addr : In(a, n) =>
          IF s <= a /\ a < e THEN n.data = d ELSE \E m \in N : In(a, m) /\ m.data = n.data
    BY <1>1, <2>1, <2>2, <2>3, <2>4, NodeFields DEF In, Addr, Ordered
  <2>9. \A a \in Addr : s <= a /\ a < e => \E n \in M : In(a, n)
    BY <1>1, <2>1 DEF In
  <2>10. \A m \in N : \A a \in Addr : In(a, m) /\ ~ (s <= a /\ a < e) => \E n \in M : In(a, n) /\ n.data = m.data
    BY <1>1, <2>1, <2>2, <2>3, <2>4, NodeFields DEF In, Addr
  <2> QED BY <2>6, <2>7, <2>8, <2>9, <2>10, ShowSetGood DEF M
<1>6. CASE /\ ~ \E n \in node : e < n.end
           /\ ~ \E n \in node : e <= n.end /\ n.data = d
           /\ \E n \in last : n.data = d
  <2>2. PICK l \in last : l.data = d
    BY <1>6
  <2>3. l \in N /\ last = {l} /\ s < l.start /\ l.start <= e /\ e < l.end
    BY <1>3
  <2> DEFINE n3 == RbNode(s, l.end, l.data)
  <2>4. n3 \in Node /\ n3.start = s /\ n3.end = l.end /\ n3.data = d
    BY <2>2, <2>3, NewNode, NodeFields
  <2>5. StartAt(last, s) = {n3}
    BY <2>3 DEF StartAt
  <2>1. M = rest \union {n3}
    BY <1>6, <2>5 DEF Overwrite
  <2>11. \A n \in N : n \notin rest => n.end <= e \/ n = l
    BY <1>2, <1>6, <2>3, NodeFields
  <2> HIDE DEF M, node, rest, n2, n3, last
  <2>12. \A n \in rest : l.end <= n.start \/ n.end <= s
    BY <1>2, <2>3, NodeFields DEF Ordered
  <2>6. M \in SUBSET Node
    BY <1>2, <2>1, <2>4
  <2>7. Ordered(M)
    BY <1>2, <2>1, <2>2, <2>3, <2>4, <2>12, NodeFields DEF Ordered
  <2>8. \A n \in M : \A a \in Addr : In(a, n) =>
          IF s <= a /\ a < e THEN n.data = d ELSE \E m \in N : In(a, m) /\ m.data = n.data
    BY <1>2, <2>1, <2>2, <2>3, <2>4, NodeFields DEF In, Addr, Ordered
  <2>9. \A a \in Addr : s <= a /\ a < e => \E n \in M : In(a, n)
    BY <2>1, <2>3, <2>4, NodeFields DEF In, Addr
  <2>10. \A m \in N : \A a \in Addr : In(a, m) /\ ~ (s <= a /\ a < e) => \E n \in M : In(a, n) /\ n.data = m.data
    BY <1>2, <2>1, <2>2, <2>3, <2>4, <2>11, NodeFields DEF In, Addr
  <2> QED BY <2>6, <2>7, <2>8, <2>9, <2>10, ShowSetGood DEF M
<1>7. CASE /\ ~ \E n \in node : e < n.end
           /\ ~ \E n \in node : e <= n.end /\ n.data = d
           /\ ~ \E n \in last : n.data = d
  <2>1. M = rest \union CutBefore(last, e) \union {n2}
    BY <1>7 DEF Overwrite
  <2>11. \A n \in N : n \notin rest => n.end <= e \/ n \in last
    BY <1>2, <1>7, NodeFields
  <2>2. CutBefore({}, e) = {}
    BY DEF CutBefore
  <2>12. \A c \in CutBefore(last, e) : c \in Node /\ c.start = e
    BY <1>3, <2>2, CutLast
  <2>13. \A c \in CutBefore(last, e) : \E l \in last : c.end = l.end /\ c.data = l.data
    BY <1>3, <2>2, CutLast
  <2>14. \A l \in last : \E c \in CutBefore(last, e) : c.end = l.end /\ c.data = l.data
    BY <1>3, CutLast
  <2>15. \A b \in CutBefore(last, e), c \in CutBefore(last, e) : b = c
    BY <1>3, <2>2, CutLast
  <2> DEFINE C == CutBefore(last, e)
  <2> HIDE DEF M, node, rest, n2, last, C
  <2>5. \A c \in C : \A n \in rest : c.end <= n.start \/ n.end <= s
    BY <1>2, <1>3, <2>13, NodeFields DEF Ordered, C
  <2>6. M \in SUBSET Node
    BY <1>1, <1>2, <2>1, <2>12 DEF C
  <2>16. \A c \in C : c.start < c.end
    BY <1>3, <2>12, <2>13, NodeFields DEF C
  <2>7. Ordered(M)
    BY <1>1, <1>2, <2>1, <2>5, <2>12, <2>15, <2>16, NodeFields DEF Ordered, C
  <2>8. \A n \in M : \A a \in Addr : In(a, n) =>
          IF s <= a /\ a < e THEN n.data = d ELSE \E m \in N : In(a, m) /\ m.data = n.data
    BY <1>1, <1>2, <1>3, <2>1, <2>12, <2>13, NodeFields DEF In, Addr, Ordered, C
  <2>9. \A a \in Addr : s <= a /\ a < e => \E n \in M : In(a, n)
    BY <1>1, <2>1 DEF In
  <2>10. \A m \in N : \A a \in Addr : In(a, m) /\ ~ (s <= a /\ a < e) => \E n \in M : In(a, n) /\ n.data = m.data
    BY <1>1, <1>2, <1>3, <2>1, <2>11, <2>12, <2>14, NodeFields DEF In, Addr, C
  <2> QED BY <2>6, <2>7, <2>8, <2>9, <2>10, ShowSetGood DEF M
<1> QED BY <1>4, <1>5, <1>6, <1>7

\* rb_set, merge with a previous node that ends inside the range.
LEMMA MergePrevGood ==
  ASSUME NEW N \in SUBSET Node, Ordered(N), NEW s \in 0 .. Top, NEW e \in 0 .. Top, s < e,
         NEW d \in Data, NEW p \in N, p.start < s, s <= p.end, p.end < e, p.data = d
  PROVE  SetGood(N, MergePrev(N, p, s, e, d), s, e, d)
<1> DEFINE node == NodeAt(N, s)
           last == LastAt(N, s, e)
           rest == N \ ({p} \union node \union Covered(N, s, e) \union last)
           pe   == RbNode(p.start, e, p.data)
           M    == MergePrev(N, p, s, e, d)
<1> USE TopAssumption
<1>1. pe \in Node /\ pe.start = p.start /\ pe.end = e /\ pe.data = d
  BY NewNode, NodeFields
<1>2. EndAt({p}, e) = {pe}
  BY DEF EndAt
<1>3. /\ \A q \in node : node = {q} /\ q \in N /\ q.start = s
      /\ \A l \in last : last = {l} /\ l \in N /\ s < l.start /\ l.start <= e /\ e < l.end
  BY OneAt DEF NodeAt, LastAt
<1>4. /\ rest \in SUBSET N
      /\ \A n \in rest : n.end <= p.start \/ e < n.start
      /\ \A n \in N : n \notin rest => n = p \/ (s <= n.start /\ n.start <= e)
      /\ \A n \in N : n \notin rest => n = p \/ n.end <= e \/ n \in node \/ n \in last
  BY NodeFields DEF NodeAt, Covered, LastAt, Ordered
<1>5. CASE \E n \in node : e < n.end
  <2>2. PICK q \in node : e < q.end
    BY <1>5
  <2>3. q \in N /\ q.start = s /\ node = {q} /\ q # p
    BY <1>3
  <2> DEFINE n3 == RbNode(e, q.end, q.data)
  <2>4. n3 \in Node /\ n3.start = e /\ n3.end = q.end /\ n3.data = q.data
    BY <2>3, NewNode, NodeFields
  <2>5. StartAt(node, e) = {n3}
    BY <2>3 DEF StartAt
  <2>1. M = (N \ {p, q}) \union {n3, pe}
    BY <1>2, <1>5, <2>3, <2>5 DEF MergePrev
  <2> HIDE DEF M, node, pe, n3
  <2>6. M \in SUBSET Node
    BY <1>1, <2>1, <2>4
  <2>7. Ordered(M)
    BY <1>1, <2>1, <2>2, <2>3, <2>4, NodeFields DEF Ordered
  <2>8. \A n \in M : \A a \in Addr : In(a, n) =>
          IF s <= a /\ a < e THEN n.data = d ELSE \E m \in N : In(a, m) /\ m.data = n.data
    BY <1>1, <2>1, <2>2, <2>3, <2>4, NodeFields DEF In, Addr, Ordered
  <2>9. \A a \in Addr : s <= a /\ a < e => \E n \in M : In(a, n)
    BY <1>1, <2>1, NodeFields DEF In, Addr
  <2>10. \A m \in N : \A a \in Addr : In(a, m) /\ ~ (s <= a /\ a < e) => \E n \in M : In(a, n) /\ n.data = m.data
    BY <1>1, <2>1, <2>2, <2>3, <2>4, NodeFields DEF In, Addr
  <2> QED BY <2>6, <2>7, <2>8, <2>9, <2>10, ShowSetGood DEF M
<1>6. CASE ~ (\E n \in node : e < n.end) /\ \E n \in node : n.end = e
  <2>2. PICK q \in node : q.end = e
    BY <1>6
  <2>3. q \in N /\ q.start = s /\ node = {q} /\ q # p
    BY <1>3
  <2>1. M = (N \ {p, q}) \union {pe}
    BY <1>2, <1>6, <2>3 DEF MergePrev
  <2> HIDE DEF M, node, pe
  <2>6. M \in SUBSET Node
    BY <1>1, <2>1
  <2>7. Ordered(M)
    BY <1>1, <2>1, <2>2, <2>3, NodeFields DEF Ordered
  <2>8. \A n \in M : \A a \in Addr : In(a, n) =>
          IF s <= a /\ a < e THEN n.data = d ELSE \E m \in N : In(a, m) /\ m.data = n.data
    BY <1>1, <2>1, <2>2, <2>3, NodeFields DEF In, Addr, Ordered
  <2>9. \A a \in Addr : s <= a /\ a < e => \E n \in M : In(a, n)
    BY <1>1, <2>1, NodeFields DEF In, Addr
  <2>10. \A m \in N : \A a \in Addr : In(a, m) /\ ~ (s <= a /\ a < e) => \E n \in M : In(a, n) /\ n.data = m.data
    BY <1>1, <2>1, <2>2, <2>3, NodeFields DEF In, Addr
  <2> QED BY <2>6, <2>7, <2>8, <2>9, <2>10, ShowSetGood DEF M
<1>7. CASE /\ ~ (\E n \in node : e < n.end) /\ ~ \E n \in node : n.end = e
           /\ \E n \in last : n.data = d
  <2>2. PICK l \in last : l.data = d
    BY <1>7
  <2>3. l \in N /\ last = {l} /\ s < l.start /\ l.start <= e /\ e < l.end
    BY <1>3
  <2> DEFINE n3 == RbNode(p.start, l.end, p.data)
  <2>4. n3 \in Node /\ n3.start = p.start /\ n3.end = l.end /\ n3.data = d
    BY <2>3, NewNode, NodeFields
  <2>1. M = rest \union {n3}
    BY <1>7, <2>3 DEF MergePrev
  <2>11. \A n \in N : n \notin rest => n.end <= e \/ n = l
    BY <1>4, <1>7, <2>3, NodeFields
  <2> HIDE DEF M, node, rest, pe, n3, last
  <2>12. \A n \in rest : l.end <= n.start \/ n.end <= p.start
    BY <1>4, <2>3, NodeFields DEF Ordered
  <2>6. M \in SUBSET Node
    BY <1>4, <2>1, <2>4
  <2>7. Ordered(M)
    BY <1>4, <2>1, <2>2, <2>3, <2>4, <2>12, NodeFields DEF Ordered
  <2>8. \A n \in M : \A a \in Addr : In(a, n) =>
          IF s <= a /\ a < e THEN n.data = d ELSE \E m \in N : In(a, m) /\ m.data = n.data
    BY <1>4, <2>1, <2>2, <2>3, <2>4, NodeFields DEF In, Addr, Ordered
  <2>9. \A a \in Addr : s <= a /\ a < e => \E n \in M : In(a, n)
    BY <2>1, <2>3, <2>4, NodeFields DEF In, Addr
  <2>10. \A m \in N : \A a \in Addr : In(a, m) /\ ~ (s <= a /\ a < e) => \E n \in M : In(a, n) /\ n.data = m.data
    BY <1>4, <2>1, <2>2, <2>3, <2>4, <2>11, NodeFields DEF In, Addr
  <2> QED BY <2>6, <2>7, <2>8, <2>9, <2>10, ShowSetGood DEF M
<1>8. CASE /\ ~ (\E n \in node : e < n.end) /\ ~ \E n \in node : n.end = e
           /\ ~ \E n \in last : n.data = d
  <2> DEFINE C == CutBefore(last, e)
  <2>1. M = rest \union C \union {pe}
    BY <1>2, <1>8 DEF MergePrev
  <2>2. CutBefore({}, e) = {}
    BY DEF CutBefore
  <2>3. \A n \in N : n \notin rest => n.end <= e \/ n \in last
    BY <1>4, <1>8, NodeFields
  <2>4. /\ \A c \in C : c \in Node /\ c.start = e
        /\ \A c \in C : \E l \in last : c.end = l.end /\ c.data = l.data
        /\ \A b \in C, c \in C : b = c
    BY <1>3, <2>2, CutLast
  <2>5. \A l \in last : \E c \in C : c.end = l.end /\ c.data = l.data
    BY <1>3, CutLast
  <2> HIDE DEF M, node, rest, pe, last, C
  <2>11. \A c \in C : \A n \in rest : c.end <= n.start \/ n.end <= p.start
    BY <1>3, <1>4, <2>4, NodeFields DEF Ordered
  <2>6. M \in SUBSET Node
    BY <1>1, <1>4, <2>1, <2>4
  <2>12. \A c \in C : c.start < c.end
    BY <1>3, <2>4, NodeFields
  <2>7. Ordered(M)
    BY <1>1, <1>4, <2>1, <2>4, <2>11, <2>12, NodeFields DEF Ordered
  <2>8. \A n \in M : \A a \in Addr : In(a, n) =>
          IF s <= a /\ a < e THEN n.data = d ELSE \E m \in N : In(a, m) /\ m.data = n.data
    BY <1>1, <1>3, <1>4, <2>1, <2>4, NodeFields DEF In, Addr, Ordered
  <2>9. \A a \in Addr : s <= a /\ a < e => \E n \in M : In(a, n)
    BY <1>1, <2>1, NodeFields DEF In, Addr
  <2>10. \A m \in N : \A a \in Addr : In(a, m) /\ ~ (s <= a /\ a < e) => \E n \in M : In(a, n) /\ n.data = m.data
    BY <1>1, <1>3, <1>4, <2>1, <2>3, <2>4, <2>5, NodeFields DEF In, Addr
  <2> QED BY <2>6, <2>7, <2>8, <2>9, <2>10, ShowSetGood DEF M
<1> QED BY <1>5, <1>6, <1>7, <1>8

\* "Cut prev and continue": nothing but what prev held from s on is lost.
LEMMA CutPrev ==
  ASSUME NEW N \in SUBSET Node, Ordered(N), NEW s \in 0 .. Top, NEW e \in 0 .. Top, s < e,
         \A p \in PrevAt(N, s) : p.end <= e
  PROVE  LET M == (N \ PrevAt(N, s)) \union EndAt(PrevAt(N, s), s)
         IN  /\ M \in SUBSET Node
             /\ Ordered(M)
             /\ \A n \in M : n.start < s => n.end <= s
             /\ \A a \in Addr, v \in Data : ~ (s <= a /\ a < e) => (Holds(M, a, v) <=> Holds(N, a, v))
<1> DEFINE M == (N \ PrevAt(N, s)) \union EndAt(PrevAt(N, s), s)
<1> USE TopAssumption
<1>1. CASE PrevAt(N, s) = {}
  <2>1. M = N
    BY <1>1 DEF EndAt
  <2>2. \A n \in N : n.start < s => n.end <= s
    BY <1>1, NodeFields DEF PrevAt
  <2> QED BY <2>1, <2>2
<1>2. CASE PrevAt(N, s) # {}
  <2>1. PICK p \in PrevAt(N, s) : TRUE
    BY <1>2
  <2>2. p \in N /\ p.start < s /\ s <= p.end /\ p.end <= e /\ PrevAt(N, s) = {p}
    BY <2>1, OneAt DEF PrevAt
  <2> DEFINE ps == RbNode(p.start, s, p.data)
  <2>3. ps \in Node /\ ps.start = p.start /\ ps.end = s /\ ps.data = p.data
    BY <2>2, NewNode, NodeFields
  <2>4. M = (N \ {p}) \union {ps}
    BY <2>2 DEF EndAt
  <2> HIDE DEF M, ps
  <2>5. M \in SUBSET Node
    BY <2>3, <2>4
  <2>6. Ordered(M)
    BY <2>2, <2>3, <2>4, NodeFields DEF Ordered
  <2>7. \A n \in M : n.start < s => n.end <= s
    BY <2>2, <2>3, <2>4, NodeFields DEF Ordered
  <2>8. ASSUME NEW a \in Addr, NEW v \in Data, ~ (s <= a /\ a < e)
        PROVE  (\E n \in M : In(a, n) /\ n.data = v) <=> \E n \in N : In(a, n) /\ n.data = v
    BY <2>2, <2>3, <2>4, <2>8, NodeFields DEF In, Addr
  <2>9. \A a \in Addr, v \in Data : ~ (s <= a /\ a < e) => (Holds(M, a, v) <=> Holds(N, a, v))
    BY <2>8, HoldsIn
  <2> QED BY <2>5, <2>6, <2>7, <2>9 DEF M
<1> QED BY <1>1, <1>2

\* rb_set on a well-formed tree.
LEMMA SetIsGood ==
  ASSUME NEW N \in SUBSET Node, Ordered(N), NEW s \in 0 .. Top, NEW e \in 0 .. Top, s < e,
         NEW d \in Data
  PROVE  SetGood(N, rb_set(N, s, e, d), s, e, d)
<1> DEFINE prev == PrevAt(N, s)
           M    == rb_set(N, s, e, d)
<1> USE TopAssumption
<1>1. \A p \in prev : p \in N /\ p.start < s /\ s <= p.end /\ prev = {p}
  BY OneAt DEF PrevAt
<1>2. CASE \E p \in prev : p.data = d /\ e <= p.end
  <2>1. PICK p \in prev : p.data = d /\ e <= p.end
    BY <1>2
  <2>2. M = N
    BY <1>2 DEF rb_set
  <2> HIDE DEF M, prev
  <2>3. \A n \in N : \A a \in Addr : In(a, n) =>
          IF s <= a /\ a < e THEN n.data = d ELSE \E m \in N : In(a, m) /\ m.data = n.data
    BY <1>1, <2>1, NodeFields DEF In, Addr, Ordered
  <2>4. \A a \in Addr : s <= a /\ a < e => \E n \in N : In(a, n)
    BY <1>1, <2>1, NodeFields DEF In, Addr
  <2> QED BY <2>2, <2>3, <2>4, ShowSetGood DEF M
<1>3. CASE ~ (\E p \in prev : p.data = d /\ e <= p.end) /\ \E p \in prev : p.data = d
  <2>1. PICK p \in prev : p.data = d
    BY <1>3
  <2>2. p \in N /\ p.start < s /\ s <= p.end /\ prev = {p} /\ p.end < e
    BY <1>1, <1>3, <2>1, NodeFields
  <2>3. The(prev) = p
    BY <2>2 DEF The
  <2>4. M = MergePrev(N, p, s, e, d)
    BY <1>3, <2>3 DEF rb_set
  <2> QED BY <2>1, <2>2, <2>4, MergePrevGood
<1>4. CASE ~ (\E p \in prev : p.data = d) /\ \E p \in prev : e < p.end
  <2>1. PICK p \in prev : e < p.end
    BY <1>4
  <2>2. p \in N /\ p.start < s /\ prev = {p}
    BY <1>1
  <2>3. The(prev) = p
    BY <2>2 DEF The
  <2>4. M = SplitPrev(N, p, s, e, d)
    BY <1>4, <2>3 DEF rb_set
  <2> QED BY <2>1, <2>2, <2>4, SplitPrevGood
<1>5. CASE ~ (\E p \in prev : p.data = d) /\ ~ \E p \in prev : e < p.end
  <2> DEFINE K == (N \ prev) \union EndAt(prev, s)
  <2>1. M = Overwrite(K, s, e, d)
    BY <1>5 DEF rb_set
  <2>2. \A p \in prev : p.end <= e
    BY <1>1, <1>5, NodeFields
  <2>3. /\ K \in SUBSET Node
        /\ Ordered(K)
        /\ \A n \in K : n.start < s => n.end <= s
        /\ \A a \in Addr, v \in Data : ~ (s <= a /\ a < e) => (Holds(K, a, v) <=> Holds(N, a, v))
    BY <2>2, CutPrev
  <2> HIDE DEF K, M
  <2>4. SetGood(K, M, s, e, d)
    BY <2>1, <2>3, OverwriteGood
  <2> QED BY <2>3, <2>4 DEF SetGood, M
<1> QED BY <1>2, <1>3, <1>4, <1>5

(***************************************************************************)
(* What unsetting [s, e) gives: from some k < e on the range is empty, and *)
(* the part before k is still in the node that also contains s - 1.        *)
(***************************************************************************)
UnsetGood(N, M, s, k, e) ==
  /\ M \subseteq Node
  /\ Ordered(M)
  /\ \A a \in Addr, v \in Data : Holds(M, a, v) <=> Holds(N, a, v) /\ ~ (k <= a /\ a < e)
  /\ \A a \in s .. (k - 1) : s > 0 /\ \E p \in N : In(a, p) /\ In(s - 1, p)

\* What is to be shown of the nodes rb_unset leaves, in terms of single nodes.
LEMMA ShowUnsetGood ==
  ASSUME NEW N \in SUBSET Node, NEW M \in SUBSET Node, Ordered(M),
         NEW s \in 0 .. Top, NEW e \in 0 .. Top, NEW k \in s .. (e - 1),
         \A n \in M : \A a \in Addr : In(a, n) =>
            ~ (k <= a /\ a < e) /\ \E m \in N : In(a, m) /\ m.data = n.data,
         \A m \in N : \A a \in Addr : In(a, m) /\ ~ (k <= a /\ a < e) => \E n \in M : In(a, n) /\ n.data = m.data,
         \A a \in s .. (k - 1) : s > 0 /\ \E p \in N : In(a, p) /\ In(s - 1, p)
  PROVE  UnsetGood(N, M, s, k, e)
<1>1. \A a \in Addr, v \in Data : Holds(M, a, v) <=> Holds(N, a, v) /\ ~ (k <= a /\ a < e)
  BY HoldsIn
<1> QED BY <1>1 DEF UnsetGood

\* rb_unset on a well-formed tree.
LEMMA UnsetIsGood ==
  ASSUME NEW N \in SUBSET Node, Ordered(N), NEW s \in 0 .. Top, NEW e \in 0 .. Top, s < e
  PROVE  \E k \in s .. (e - 1) : UnsetGood(N, rb_unset(N, s, e), s, k, e)
<1> DEFINE node == NodeAt(N, s)
           prev == {n \in N : n.start < s /\ s < n.end}
           last == LastAt(N, s, e)
           rest == N \ (node \union Covered(N, s, e) \union last)
           M    == rb_unset(N, s, e)
<1> USE TopAssumption
<1>1. /\ \A q \in node : node = {q} /\ q \in N /\ q.start = s
      /\ \A l \in last : last = {l} /\ l \in N /\ s < l.start /\ l.start <= e /\ e < l.end
  BY OneAt DEF NodeAt, LastAt
<1>2. prev \subseteq PrevAt(N, s)
  BY NodeFields DEF PrevAt
<1>3. \A p \in prev : p \in N /\ p.start < s /\ s < p.end /\ prev = {p}
  BY <1>2, OneAt
<1>4. s \in s .. (e - 1) /\ \A a \in s .. (s - 1) : FALSE
  OBVIOUS
<1>5. CASE \E n \in node : e < n.end
  <2>1. PICK q \in node : e < q.end
    BY <1>5
  <2>2. q \in N /\ q.start = s /\ node = {q}
    BY <1>1
  <2> DEFINE n3 == RbNode(e, q.end, q.data)
  <2>3. n3 \in Node /\ n3.start = e /\ n3.end = q.end /\ n3.data = q.data
    BY <2>2, NewNode, NodeFields
  <2>4. StartAt(node, e) = {n3}
    BY <2>2 DEF StartAt
  <2>5. M = (N \ {q}) \union {n3}
    BY <1>5, <2>2, <2>4 DEF rb_unset
  <2> HIDE DEF M, node, n3, prev, last, rest
  <2>6. M \in SUBSET Node /\ Ordered(M)
    BY <2>1, <2>2, <2>3, <2>5, NodeFields DEF Ordered
  <2>7. \A n \in M : \A a \in Addr : In(a, n) =>
          ~ (s <= a /\ a < e) /\ \E m \in N : In(a, m) /\ m.data = n.data
    BY <2>1, <2>2, <2>3, <2>5, NodeFields DEF In, Addr, Ordered
  <2>8. \A m \in N : \A a \in Addr : In(a, m) /\ ~ (s <= a /\ a < e) => \E n \in M : In(a, n) /\ n.data = m.data
    BY <2>1, <2>2, <2>3, <2>5, NodeFields DEF In, Addr
  <2> QED BY <1>4, <2>6, <2>7, <2>8, ShowUnsetGood DEF M
<1>6. CASE ~ (\E n \in node : e < n.end) /\ \E n \in node : n.end = e
  <2>1. PICK q \in node : q.end = e
    BY <1>6
  <2>2. q \in N /\ q.start = s /\ node = {q}
    BY <1>1
  <2>5. M = N \ {q}
    BY <1>6, <2>2 DEF rb_unset
  <2> HIDE DEF M, node, prev, last, rest
  <2>6. M \in SUBSET Node /\ Ordered(M)
    BY <2>5 DEF Ordered
  <2>7. \A n \in M : \A a \in Addr : In(a, n) =>
          ~ (s <= a /\ a < e) /\ \E m \in N : In(a, m) /\ m.data = n.data
    BY <2>1, <2>2, <2>5, NodeFields DEF In, Addr, Ordered
  <2>8. \A m \in N : \A a \in Addr : In(a, m) /\ ~ (s <= a /\ a < e) => \E n \in M : In(a, n) /\ n.data = m.data
    BY <2>1, <2>2, <2>5, NodeFields DEF In, Addr
  <2> QED BY <1>4, <2>6, <2>7, <2>8, ShowUnsetGood DEF M
<1>7. CASE node = {} /\ \E p \in prev : e < p.end
  <2>1. PICK p \in prev : e < p.end
    BY <1>7
  <2>2. p \in N /\ p.start < s /\ s < p.end /\ prev = {p}
    BY <1>3
  <2> DEFINE n1 == RbNode(p.start, s, p.data)
             n3 == RbNode(e, p.end, p.data)
  <2>3. /\ n1 \in Node /\ n1.start = p.start /\ n1.end = s /\ n1.data = p.data
        /\ n3 \in Node /\ n3.start = e /\ n3.end = p.end /\ n3.data = p.data
    <3>1. p.start \in 0 .. Top /\ p.end \in 0 .. Top /\ p.data \in Data
      BY <2>2, NodeFields
    <3>2. s \in 0 .. Top /\ e \in 0 .. Top
      OBVIOUS
    <3> QED BY <3>1, <3>2, NewNode
  <2>4. EndAt(prev, s) = {n1} /\ StartAt(prev, e) = {n3}
    <3>1. EndAt(prev, s) = {n1}
      BY <2>2 DEF EndAt
    <3>2. StartAt(prev, e) = {n3}
      BY <2>2 DEF StartAt
    <3> QED BY <3>1, <3>2
  <2>5. M = (N \ {p}) \union {n1, n3}
    BY <1>7, <2>2, <2>4 DEF rb_unset
  <2> HIDE DEF M, node, n1, n3, prev, last, rest
  <2>6. M \in SUBSET Node /\ Ordered(M)
    BY <2>1, <2>2, <2>3, <2>5, NodeFields DEF Ordered
  <2>7. \A n \in M : \A a \in Addr : In(a, n) =>
          ~ (s <= a /\ a < e) /\ \E m \in N : In(a, m) /\ m.data = n.data
    BY <2>1, <2>2, <2>3, <2>5, NodeFields DEF In, Addr, Ordered
  <2>8. \A m \in N : \A a \in Addr : In(a, m) /\ ~ (s <= a /\ a < e) => \E n \in M : In(a, n) /\ n.data = m.data
    BY <2>1, <2>2, <2>3, <2>5, NodeFields DEF In, Addr
  <2> QED BY <1>4, <2>6, <2>7, <2>8, ShowUnsetGood DEF M
<1>8. CASE node = {} /\ ~ (\E p \in prev : e < p.end) /\ \E p \in prev : p.end = e
  <2>1. PICK p \in prev : p.end = e
    BY <1>8
  <2>2. p \in N /\ p.start < s /\ s < p.end /\ prev = {p}
    BY <1>3
  <2> DEFINE n1 == RbNode(p.start, s, p.data)
  <2>3. n1 \in Node /\ n1.start = p.start /\ n1.end = s /\ n1.data = p.data
    BY <2>2, NewNode, NodeFields
  <2>4. EndAt(prev, s) = {n1}
    BY <2>2 DEF EndAt
  <2>5. M = (N \ {p}) \union {n1}
    BY <1>8, <2>2, <2>4 DEF rb_unset
  <2> HIDE DEF M, node, n1, prev, last, rest
  <2>6. M \in SUBSET Node /\ Ordered(M)
    BY <2>1, <2>2, <2>3, <2>5, NodeFields DEF Ordered
  <2>7. \A n \in M : \A a \in Addr : In(a, n) =>
          ~ (s <= a /\ a < e) /\ \E m \in N : In(a, m) /\ m.data = n.data
    BY <2>1, <2>2, <2>3, <2>5, NodeFields DEF In, Addr, Ordered
  <2>8. \A m \in N : \A a \in Addr : In(a, m) /\ ~ (s <= a /\ a < e) => \E n \in M : In(a, n) /\ n.data = m.data
    BY <2>1, <2>2, <2>3, <2>5, NodeFields DEF In, Addr
  <2> QED BY <1>4, <2>6, <2>7, <2>8, ShowUnsetGood DEF M
<1>9. CASE /\ ~ (\E n \in node : e < n.end) /\ ~ (\E n \in node : n.end = e)
           /\ ~ (node = {} /\ \E p \in prev : e < p.end)
           /\ ~ (node = {} /\ \E p \in prev : p.end = e)
  <2> DEFINE C == CutBefore(last, e)
  <2>1. M = rest \union C
    BY <1>9 DEF rb_unset
  <2>2. CutBefore({}, e) = {}
    BY DEF CutBefore
  <2>3. /\ \A c \in C : c \in Node /\ c.start = e
        /\ \A c \in C : \E l \in last : c.end = l.end /\ c.data = l.data
        /\ \A b \in C, c \in C : b = c
    BY <1>1, <2>2, CutLast
  <2>4. \A l \in last : \E c \in C : c.end = l.end /\ c.data = l.data
    BY <1>1, CutLast
  <2>5. /\ rest \in SUBSET N
        /\ \A n \in rest : n.start < s \/ e < n.start
        /\ \A n \in N : n \notin rest => s <= n.start /\ n.start <= e
        /\ \A n \in N : n \notin rest => n.end <= e \/ n \in last
    BY <1>9, NodeFields DEF NodeAt, Covered, LastAt, Ordered
  <2>6. \A p \in prev : node = {} /\ p.end < e
    BY <1>1, <1>3, <1>9, NodeFields DEF Ordered
  <2>7. \A n \in N : n.start < s /\ s < n.end => n \in prev
    OBVIOUS
  <2>8. PICK k \in s .. (e - 1) : /\ \A n \in rest : n.end <= k \/ e < n.start
                                  /\ k = s \/ \E p \in prev : k = p.end
    <3>1. CASE prev = {}
      BY <1>4, <2>5, <2>7, <3>1, NodeFields
    <3>2. CASE prev # {}
      <4>1. PICK p \in prev : TRUE
        BY <3>2
      <4>2. p \in N /\ p.end \in s .. (e - 1) /\ prev = {p}
        BY <1>3, <2>6, NodeFields
      <4>3. \A n \in rest : n.end <= p.end \/ e < n.start
        BY <1>3, <2>5, <2>7, <4>2, NodeFields
      <4> QED BY <4>2, <4>3
    <3> QED BY <3>1, <3>2
  <2> HIDE DEF M, node, rest, last, C, prev
  <2>9. \A c \in C : \A n \in rest : c.end <= n.start \/ n.end <= e
    BY <1>1, <2>3, <2>5, <2>8, NodeFields DEF Ordered
  <2>10. \A c \in C : c.start < c.end
    BY <1>1, <2>3, NodeFields
  <2>11. M \in SUBSET Node
    BY <2>1, <2>3, <2>5
  <2>12. Ordered(M)
    BY <2>1, <2>3, <2>5, <2>9, <2>10, NodeFields DEF Ordered
  <2>13. \A n \in M : \A a \in Addr : In(a, n) =>
           ~ (k <= a /\ a < e) /\ \E m \in N : In(a, m) /\ m.data = n.data
    BY <1>1, <2>1, <2>3, <2>5, <2>8, NodeFields DEF In, Addr
  <2>14. \A m \in N : \A a \in Addr : In(a, m) /\ ~ (k <= a /\ a < e) => \E n \in M : In(a, n) /\ n.data = m.data
    <3> SUFFICES ASSUME NEW m \in N, NEW a \in Addr, In(a, m), ~ (k <= a /\ a < e)
                 PROVE  \E n \in M : In(a, n) /\ n.data = m.data
      OBVIOUS
    <3>1. CASE m \in rest
      BY <2>1, <3>1
    <3>2. CASE m \notin rest /\ m \in last
      <4>1. e <= a
        BY <1>1, <1>3, <2>8, <3>2, NodeFields DEF In, Addr, Ordered
      <4>2. PICK c \in C : c.start = e /\ c.end = m.end /\ c.data = m.data
        BY <2>3, <2>4, <3>2
      <4> QED BY <2>1, <4>1, <4>2 DEF In
    <3>3. CASE m \notin rest /\ m \notin last
      <4>1. s <= m.start /\ m.end <= e
        BY <2>5, <3>3
      <4>2. a < k
        BY <4>1, <2>8, NodeFields DEF In, Addr
      <4>3. PICK p \in prev : k = p.end
        BY <2>8, <4>1, <4>2, NodeFields DEF In, Addr
      <4> QED BY <1>3, <4>1, <4>2, <4>3, NodeFields DEF In, Addr, Ordered
    <3> QED BY <3>1, <3>2, <3>3
  <2>15. \A a \in s .. (k - 1) : s > 0 /\ \E p \in N : In(a, p) /\ In(s - 1, p)
    BY <1>3, <2>8, NodeFields DEF In
  <2> QED BY <2>8, <2>11, <2>12, <2>13, <2>14, <2>15, ShowUnsetGood DEF M
<1> QED BY <1>5, <1>6, <1>7, <1>8, <1>9

-----------------------------------------------------------------------------
\* A step of the tree is a set or an unset of a range, or leaves it alone.
LEMMA StepCases ==
  ASSUME WellFormed, Next
  PROVE  \E s \in 0 .. Top, e \in 0 .. Top :
           /\ s < e
           /\ \/ \E d \in Data : Set(s, e, d) /\ SetGood(nodes, nodes', s, e, d)
              \/ Unset(s, e) /\ \E k \in s .. (e - 1) : UnsetGood(nodes, nodes', s, k, e)
<1> USE TopAssumption
<1>0. nodes \in SUBSET Node /\ Ordered(nodes)
  BY DEF WellFormed, TypeOK
<1>1. PICK r \in Ranges : (\E d \in Data : Set(r[1], r[2], d)) \/ Unset(r[1], r[2])
  BY DEF Next
<1>2. r[1] \in 0 .. Top /\ r[2] \in 0 .. Top /\ r[1] < r[2]
  BY DEF Ranges
<1>3. ASSUME NEW d \in Data, Set(r[1], r[2], d) PROVE SetGood(nodes, nodes', r[1], r[2], d)
  BY <1>0, <1>2, <1>3, SetIsGood DEF Set
<1>4. ASSUME Unset(r[1], r[2]) PROVE \E k \in r[1] .. (r[2] - 1) : UnsetGood(nodes, nodes', r[1], k, r[2])
  BY <1>0, <1>2, <1>4, UnsetIsGood DEF Unset
<1> QED BY <1>1, <1>2, <1>3, <1>4

(***************************************************************************)
(* Whatever rb_set and rb_unset are called with, no interval of a tree is  *)
(* empty and no two intersect: merging, splitting and cutting keep the     *)
(* order the searches rely on.                                             *)
(***************************************************************************)
THEOREM WellFormedAlways == Spec => []WellFormed
<1>1. Init => WellFormed
  BY DEF Init, WellFormed, TypeOK, Ordered
<1>2. WellFormed /\ [Next]_nodes => WellFormed'
  <2> SUFFICES ASSUME WellFormed, [Next]_nodes PROVE WellFormed'
    OBVIOUS
  <2>1. CASE Next
    BY <2>1, StepCases DEF WellFormed, TypeOK, SetGood, UnsetGood
  <2>2. CASE UNCHANGED nodes
    BY <2>2 DEF WellFormed, TypeOK
  <2> QED BY <2>1, <2>2
<1> QED BY <1>1, <1>2, PTL DEF Spec

(***************************************************************************)
(* rb_set changes exactly the range it is given.                           *)
(***************************************************************************)
THEOREM SetExactAlways == Spec => SetExact
<1> DEFINE A == \A r \in Ranges, d \in Data :
                  Set(r[1], r[2], d) =>
                    \A a \in Addr, v \in Data :
                      Holds(nodes', a, v) <=> IF r[1] <= a /\ a < r[2] THEN v = d ELSE Holds(nodes, a, v)
<1>1. WellFormed => A
  <2> SUFFICES ASSUME WellFormed, NEW r \in Ranges, NEW d \in Data, Set(r[1], r[2], d)
               PROVE  \A a \in Addr, v \in Data :
                        Holds(nodes', a, v) <=> IF r[1] <= a /\ a < r[2] THEN v = d ELSE Holds(nodes, a, v)
    OBVIOUS
  <2>1. r[1] \in 0 .. Top /\ r[2] \in 0 .. Top /\ r[1] < r[2]
    BY DEF Ranges
  <2>2. SetGood(nodes, nodes', r[1], r[2], d)
    BY <2>1, SetIsGood DEF Set, WellFormed, TypeOK
  <2> QED BY <2>2 DEF SetGood
<1>2. WellFormed /\ [Next]_nodes => [A]_nodes
  BY <1>1
<1> QED BY <1>2, WellFormedAlways, PTL DEF Spec, SetExact

(***************************************************************************)
(* rb_unset takes addresses out of its range and touches no other.         *)
(***************************************************************************)
THEOREM UnsetLocalAlways == Spec => UnsetLocal
<1> DEFINE A == \A r \in Ranges :
                  Unset(r[1], r[2]) =>
                    \A a \in Addr, v \in Data :
                      /\ Holds(nodes', a, v) => Holds(nodes, a, v)
                      /\ ~ (r[1] <= a /\ a < r[2]) => (Holds(nodes, a, v) => Holds(nodes', a, v))
<1>1. WellFormed => A
  <2> SUFFICES ASSUME WellFormed, NEW r \in Ranges, Unset(r[1], r[2]), NEW a \in Addr, NEW v \in Data
               PROVE  /\ Holds(nodes', a, v) => Holds(nodes, a, v)
                      /\ ~ (r[1] <= a /\ a < r[2]) => (Holds(nodes, a, v) => Holds(nodes', a, v))
    OBVIOUS
  <2> USE TopAssumption
  <2>1. r[1] \in 0 .. Top /\ r[2] \in 0 .. Top /\ r[1] < r[2] /\ a \in Nat
    BY DEF Ranges, Addr
  <2>2. PICK k \in r[1] .. (r[2] - 1) : UnsetGood(nodes, nodes', r[1], k, r[2])
    BY <2>1, UnsetIsGood DEF Unset, WellFormed, TypeOK
  <2>3. Holds(nodes', a, v) <=> Holds(nodes, a, v) /\ ~ (k <= a /\ a < r[2])
    BY <2>2 DEF UnsetGood
  <2> QED BY <2>1, <2>2, <2>3
<1>2. WellFormed /\ [Next]_nodes => [A]_nodes
  BY <1>1
<1> QED BY <1>2, WellFormedAlways, PTL DEF Spec, UnsetLocal

-----------------------------------------------------------------------------
(***************************************************************************)
(* A set of natural numbers that is not empty has a least element.         *)
(***************************************************************************)
LEMMA LeastNat ==
  ASSUME NEW S \in SUBSET Nat, S # {}
  PROVE  \E x \in S : \A y \in S : x <= y
<1> DEFINE R == OpToRel(<, Nat)
<1>1. PICK x \in S : \A y \in S : ~ (<<y, x>> \in R)
  BY NatLessThanWellFounded, WFMin, Zenon
<1>2. \A y \in S : y < x => <<y, x>> \in R
  BY DEF OpToRel
<1> HIDE DEF R
<1>3. \A y \in S : ~ (y < x) /\ y \in Nat /\ x \in Nat
  BY <1>1, <1>2
<1>4. \A y \in S : x <= y
  BY <1>3
<1> QED BY <1>4

\* What rb_get_end stores: the end of the node that contains a, or the start of the next one.
LEMMA GetEndCases ==
  ASSUME NEW N \in SUBSET Node, Ordered(N), NEW a \in Addr
  PROVE  \/ \E n \in N : In(a, n) /\ rb_get_end(N, a) = n.end
         \/ /\ \A n \in N : ~ In(a, n)
            /\ rb_get_end(N, a) \in 0 .. Top /\ a < rb_get_end(N, a)
            /\ \A n \in N : a < n.start => rb_get_end(N, a) <= n.start
<1> USE TopAssumption
<1>0. a \in Nat /\ a < Top
  BY DEF Addr
<1>1. CASE find_addr(N, a) # {}
  <2>1. The(find_addr(N, a)) \in find_addr(N, a)
    BY <1>1 DEF The
  <2> QED BY <1>1, <2>1 DEF find_addr, In, rb_get_end
<1>2. CASE find_addr(N, a) = {}
  <2> DEFINE next == {n.start : n \in {m \in N : a < m.start}}
             x == CHOOSE y \in next : \A z \in next : y <= z
  <2>1. \A n \in N : ~ In(a, n)
    BY <1>2 DEF find_addr, In
  <2>2. next \in SUBSET (0 .. Top) /\ \A y \in next : a < y
    BY NodeFields
  <2>3. CASE next = {}
    <3>1. rb_get_end(N, a) = Top
      BY <1>2, <2>3 DEF rb_get_end
    <3>2. \A n \in N : ~ (a < n.start)
      BY <2>3
    <3> HIDE DEF next, x
    <3>3. rb_get_end(N, a) \in 0 .. Top /\ a < rb_get_end(N, a)
      BY <1>0, <3>1
    <3> QED BY <2>1, <3>2, <3>3
  <2>4. CASE next # {}
    <3>1. rb_get_end(N, a) = x
      BY <1>2, <2>4 DEF rb_get_end
    <3>2. next \in SUBSET Nat
      BY <2>2
    <3>3. x \in next /\ \A z \in next : x <= z
      <4> HIDE DEF next
      <4> QED BY <2>4, <3>2, LeastNat
    <3>4. \A n \in N : a < n.start => n.start \in next
      OBVIOUS
    <3> HIDE DEF next, x
    <3> QED BY <2>1, <2>2, <3>1, <3>3, <3>4
  <2> QED BY <2>3, <2>4
<1> QED BY <1>1, <1>2

(***************************************************************************)
(* The loops that step through the tree by rb_get_end (protectDB,          *)
(* unprotectDB, updateProtection) advance, and skip no change of rb_get.   *)
(***************************************************************************)
THEOREM GetEndUniformAlways == Spec => []GetEndUniform
<1>1. WellFormed => GetEndUniform
  <2> SUFFICES ASSUME WellFormed, NEW a \in Addr
               PROVE  /\ a < rb_get_end(nodes, a)
                      /\ \A b \in a .. (rb_get_end(nodes, a) - 1) : rb_get(nodes, b) = rb_get(nodes, a)
    BY DEF GetEndUniform
  <2> USE TopAssumption
  <2>1. nodes \in SUBSET Node /\ Ordered(nodes) /\ a \in Nat /\ a < Top
    BY DEF WellFormed, TypeOK, Addr
  <2>2. CASE \E n \in nodes : In(a, n) /\ rb_get_end(nodes, a) = n.end
    <3>1. PICK n \in nodes : In(a, n) /\ rb_get_end(nodes, a) = n.end
      BY <2>2
    <3>2. n.start \in 0 .. Top /\ n.end \in 0 .. Top /\ n.start <= a /\ a < n.end
      BY <2>1, <3>1, NodeFields DEF In
    <3>3. ASSUME NEW b \in a .. (n.end - 1) PROVE find_addr(nodes, b) = {n}
      <4>1. b \in Nat /\ In(b, n)
        BY <2>1, <3>2 DEF In
      <4> QED BY <2>1, <3>1, <4>1, OneNode DEF find_addr, In
    <3>4. \A b \in a .. (n.end - 1) : rb_get(nodes, b) = n.data
      BY <3>3 DEF rb_get, The
    <3> QED BY <2>1, <3>1, <3>2, <3>4
  <2>3. CASE /\ \A n \in nodes : ~ In(a, n)
             /\ rb_get_end(nodes, a) \in 0 .. Top /\ a < rb_get_end(nodes, a)
             /\ \A n \in nodes : a < n.start => rb_get_end(nodes, a) <= n.start
    <3>1. ASSUME NEW b \in a .. (rb_get_end(nodes, a) - 1) PROVE find_addr(nodes, b) = {}
      <4>1. \A n \in nodes : n.start \in Nat /\ n.end \in Nat
        BY <2>1, NodeFields
      <4> QED BY <2>1, <2>3, <4>1 DEF find_addr, In
    <3> QED BY <2>1, <2>3, <3>1 DEF rb_get
  <2> QED BY <2>1, <2>2, <2>3, GetEndCases
<1> QED BY <1>1, WellFormedAlways, PTL

-----------------------------------------------------------------------------
\* The map of a well-formed tree, in terms of Holds.
LEMMA MapHolds ==
  ASSUME NEW N \in SUBSET Node, Ordered(N), NEW a \in Addr
  PROVE  /\ MapOf(N)[a] \in Data \union {NoData}
         /\ \A v \in Data : MapOf(N)[a] = v <=> Holds(N, a, v)
<1> USE TopAssumption
<1>1. a \in Nat /\ MapOf(N)[a] = IF find_addr(N, a) = {} THEN NoData ELSE The(find_addr(N, a)).data
  BY DEF MapOf, Addr
<1>2. CASE find_addr(N, a) = {}
  BY <1>1, <1>2 DEF Holds
<1>3. CASE find_addr(N, a) # {}
  <2>1. PICK n \in find_addr(N, a) : TRUE
    BY <1>3
  <2>2. find_addr(N, a) = {n} /\ n \in N
    BY <1>1, <2>1, OneNode DEF find_addr, In
  <2>3. The(find_addr(N, a)) = n
    BY <2>2 DEF The
  <2> QED BY <1>1, <1>3, <2>2, <2>3, NodeFields DEF Holds
<1> QED BY <1>2, <1>3

\* Two maps agree where their trees hold the same.
LEMMA MapSame ==
  ASSUME NEW N \in SUBSET Node, Ordered(N), NEW M \in SUBSET Node, Ordered(M), NEW a \in Addr,
         \A v \in Data : Holds(M, a, v) <=> Holds(N, a, v)
  PROVE  MapOf(M)[a] = MapOf(N)[a]
BY MapHolds, TopAssumption

(***************************************************************************)
(* The tree implements the interval map whose Unset may leave a first part *)
(* of its range set: a Set is a Set of the map, an Unset is an UnsetFrom.  *)
(***************************************************************************)
THEOREM TreeRefinesTail == Spec => RefinesTail
<1> USE TopAssumption
<1>1. Init => IM!Init
  BY DEF Init, IM!Init, IM!Addr, Addr, MapOf, find_addr
<1>2. WellFormed /\ WellFormed' /\ [Next]_nodes => [IM!NextTail]_(MapOf(nodes))
  <2> SUFFICES ASSUME WellFormed, WellFormed', Next PROVE IM!NextTail
    OBVIOUS
  <2>0. /\ nodes \in SUBSET Node /\ Ordered(nodes)
        /\ nodes' \in SUBSET Node /\ Ordered(nodes')
    BY DEF WellFormed, TypeOK
  <2>1. PICK s \in 0 .. Top, e \in 0 .. Top :
           /\ s < e
           /\ \/ \E d \in Data : Set(s, e, d) /\ SetGood(nodes, nodes', s, e, d)
              \/ Unset(s, e) /\ \E k \in s .. (e - 1) : UnsetGood(nodes, nodes', s, k, e)
    BY StepCases
  <2>2. <<s, e>> \in IM!Ranges /\ <<s, e>>[1] = s /\ <<s, e>>[2] = e
    BY <2>1 DEF IM!Ranges
  <2>3. \A a \in Addr : a \in Nat
    BY DEF Addr
  <2>4. ASSUME NEW d \in Data, SetGood(nodes, nodes', s, e, d) PROVE IM!Set(s, e, d)
    <3>1. ASSUME NEW a \in Addr PROVE MapOf(nodes')[a] = IF s <= a /\ a < e THEN d ELSE MapOf(nodes)[a]
      <4>1. CASE s <= a /\ a < e
        BY <2>0, <2>4, <4>1, MapHolds DEF SetGood
      <4>2. CASE ~ (s <= a /\ a < e)
        BY <2>0, <2>4, <4>2, MapSame DEF SetGood
      <4> QED BY <4>1, <4>2
    <3>2. MapOf(nodes') = [a \in Addr |-> IF s <= a /\ a < e THEN d ELSE MapOf(nodes)[a]]
      BY <3>1 DEF MapOf
    <3> QED BY <3>2 DEF IM!Set, IM!Addr, Addr
  <2>5. ASSUME NEW k \in s .. (e - 1), UnsetGood(nodes, nodes', s, k, e) PROVE IM!UnsetFrom(s, k, e)
    <3>1. ASSUME NEW a \in Addr PROVE MapOf(nodes')[a] = IF k <= a /\ a < e THEN NoData ELSE MapOf(nodes)[a]
      <4>1. CASE k <= a /\ a < e
        BY <2>0, <2>5, <4>1, MapHolds DEF UnsetGood
      <4>2. CASE ~ (k <= a /\ a < e)
        BY <2>0, <2>5, <4>2, MapSame DEF UnsetGood
      <4> QED BY <4>1, <4>2
    <3>2. MapOf(nodes') = [a \in Addr |-> IF k <= a /\ a < e THEN NoData ELSE MapOf(nodes)[a]]
      BY <3>1 DEF MapOf
    <3>3. ASSUME NEW a \in s .. (k - 1)
          PROVE  s > 0 /\ MapOf(nodes)[a] = MapOf(nodes)[s - 1] /\ MapOf(nodes)[a] # NoData
      <4>1. s > 0 /\ a \in Addr /\ s - 1 \in Addr
        BY <2>5 DEF UnsetGood, Addr
      <4>2. PICK p \in nodes : In(a, p) /\ In(s - 1, p)
        BY <2>5 DEF UnsetGood
      <4>3. Holds(nodes, a, p.data) /\ Holds(nodes, s - 1, p.data) /\ p.data \in Data
        BY <2>0, <4>2, HoldsIn, NodeFields
      <4> QED BY <2>0, <4>1, <4>3, MapHolds
    <3> QED BY <3>2, <3>3 DEF IM!UnsetFrom, IM!Addr, Addr
  <2> QED BY <2>1, <2>2, <2>4, <2>5 DEF IM!NextTail
<1> QED BY <1>1, <1>2, WellFormedAlways, PTL DEF Spec, RefinesTail, IM!SpecTail
=============================================================================
