------------------------- MODULE CustomMallocProofs -------------------------
(***************************************************************************)
(* The boundary marks of custommem.c, for any arena size, any requests and *)
(* any number of threads: the chain of every arena stays whole, what is    *)
(* used in it is what was allocated and not freed, and customRealloc       *)
(* copies into room that is large enough.                                  *)
(***************************************************************************)
EXTENDS CustomMalloc, NaturalsInduction, WellFoundedInduction, SequenceTheorems, TLAPS

-----------------------------------------------------------------------------
(***************************************************************************)
(* The chain of an arena, of which M are the marks and L is the last one.  *)
(* To what TagsAgree says it adds that a mark leads back to the one before *)
(* it, which freeBlock relies on.                                          *)
(***************************************************************************)
Tag == [size : Nat, fill : BOOLEAN]
Mark == [prev : Tag, next : Tag]

After(M, s) == s + M[s].next.size + 1
Before(M, m) == m - M[m].prev.size - 1

Linked(M, L, s) ==
  /\ After(M, s) \in DOMAIN M
  /\ \A m \in DOMAIN M : m <= s \/ m >= After(M, s)
  /\ M[After(M, s)].prev = M[s].next
  /\ M[s].next.size >= Threshold
  /\ ~ M[s].next.fill => M[After(M, s)].next = End \/ M[After(M, s)].next.fill

Chained(M, L) ==
  /\ L \in Nat \ {0} /\ DOMAIN M \subseteq 0 .. L /\ M \in [DOMAIN M -> Mark]
  /\ 0 \in DOMAIN M /\ L \in DOMAIN M
  /\ M[0].prev = End /\ M[L].next = End
  /\ \A s \in DOMAIN M \ {L} : Linked(M, L, s)
  /\ \A m \in DOMAIN M \ {0} : Before(M, m) \in DOMAIN M \ {L} /\ After(M, Before(M, m)) = m

\* The used subblocks.
Filled(M) == {s \in DOMAIN M : M[s].next.fill}

LEMMA EndFacts == End \in Tag /\ End.size = 0 /\ End.fill = FALSE
BY DEF End, Tag

\* A mark and its tags.
LEMMA MarkFacts ==
  ASSUME NEW M, NEW L, Chained(M, L), NEW s \in DOMAIN M
  PROVE  /\ s \in Nat /\ s <= L /\ L \in Nat
         /\ M[s] \in Mark /\ M[s].next \in Tag /\ M[s].prev \in Tag
         /\ M[s].next.size \in Nat /\ M[s].prev.size \in Nat
         /\ M[s].next.fill \in BOOLEAN /\ M[s].prev.fill \in BOOLEAN
         /\ After(M, s) \in Nat /\ After(M, s) > s
BY DEF Chained, Mark, Tag, After

\* The last mark is the only one that looks like it, and it is not used.
LEMMA LastFacts ==
  ASSUME NEW M, NEW L, Chained(M, L), NEW s \in DOMAIN M
  PROVE  /\ M[s].next = End <=> s = L
         /\ M[s].next.fill => s # L
         /\ M[s].prev = End <=> s = 0
<1>1. M[L].next = End /\ M[0].prev = End
  BY DEF Chained
<1>2. ASSUME s # L PROVE M[s].next # End
  <2>1. M[s].next.size >= Threshold
    BY <1>2 DEF Chained, Linked
  <2> QED BY <2>1, EndFacts, MallocAssumption, MarkFacts
<1>3. ASSUME s # 0 PROVE M[s].prev # End
  <2>1. PICK p : p = Before(M, s)
    OBVIOUS
  <2>2. p \in DOMAIN M \ {L} /\ After(M, p) = s
    BY <1>3, <2>1 DEF Chained
  <2>3. M[s].prev = M[p].next /\ M[p].next.size >= Threshold
    BY <2>2 DEF Chained, Linked
  <2> QED BY <2>2, <2>3, EndFacts, MallocAssumption, MarkFacts
<1> QED BY <1>1, <1>2, <1>3, EndFacts

\* The mark before a mark, and what the two say of the subblock between them.
LEMMA BeforeFacts ==
  ASSUME NEW M, NEW L, Chained(M, L), NEW s \in DOMAIN M \ {0}
  PROVE  /\ Before(M, s) \in DOMAIN M \ {L} /\ Before(M, s) < s /\ After(M, Before(M, s)) = s
         /\ M[Before(M, s)].next = M[s].prev
<1>1. PICK p : p = Before(M, s)
  OBVIOUS
<1>2. p \in DOMAIN M \ {L} /\ After(M, p) = s
  BY <1>1 DEF Chained
<1>3. M[s].prev = M[p].next
  BY <1>2 DEF Chained, Linked
<1>4. p < s
  BY <1>2, MarkFacts
<1> QED BY <1>1, <1>2, <1>3, <1>4

(***************************************************************************)
(* The marks between from and to go, and a single subblock, of which t is  *)
(* the tag, is there instead.  It is free only between used ones.          *)
(***************************************************************************)
IsJoin(M, from, to, t, N) ==
  /\ t \in Tag /\ t.size >= Threshold /\ to = from + t.size + 1
  /\ ~ t.fill => /\ from = 0 \/ M[from].prev.fill
                 /\ M[to].next = End \/ M[to].next.fill
  /\ DOMAIN N = {x \in DOMAIN M : x <= from \/ x >= to} /\ N \in [DOMAIN N -> Mark]
  /\ N[from].next = t /\ N[from].prev = M[from].prev
  /\ N[to].prev = t /\ N[to].next = M[to].next
  /\ \A x \in DOMAIN N \ {from, to} : N[x] = M[x]

\* The chain is whole then, too.
LEMMA Join ==
  ASSUME NEW M, NEW L, Chained(M, L), NEW from \in DOMAIN M, NEW to \in DOMAIN M, NEW t, NEW N,
         IsJoin(M, from, to, t, N)
  PROVE  Chained(N, L)
<1> USE DEF IsJoin
<1>1. /\ from \in Nat /\ to \in Nat /\ t.size \in Nat /\ from < to /\ L \in Nat /\ to <= L
      /\ Threshold \in Nat
  BY MarkFacts, MallocAssumption DEF Tag
<1>2. \A x \in DOMAIN N : x \in DOMAIN M /\ x \in Nat /\ x <= L
  BY MarkFacts
<1>3. /\ L \in Nat \ {0} /\ DOMAIN N \subseteq 0 .. L /\ 0 \in DOMAIN N /\ L \in DOMAIN N
      /\ from \in DOMAIN N /\ to \in DOMAIN N
  BY <1>1, <1>2 DEF Chained
<1>4. N[0].prev = End /\ N[L].next = End
  BY <1>1, <1>3 DEF Chained
<1>5. After(N, from) = to
  BY <1>1 DEF After
<1>6. \A x \in DOMAIN N \ {from} : N[x].next = M[x].next /\ After(N, x) = After(M, x)
  BY DEF After
<1>7. \A x \in DOMAIN N \ {to} : N[x].prev = M[x].prev /\ Before(N, x) = Before(M, x)
  BY DEF Before
<1>8. ASSUME NEW s \in DOMAIN N \ {L}, s # from
      PROVE  Linked(N, L, s) /\ (After(N, s) # to)
  <2>1. s \in DOMAIN M \ {L} /\ After(N, s) = After(M, s) /\ N[s].next = M[s].next /\ s \in Nat
    BY <1>2, <1>6, <1>8
  <2>2. Linked(M, L, s) /\ After(M, s) \in Nat /\ After(M, s) > s
    BY <2>1, MarkFacts DEF Chained
  <2>3. After(M, s) \in DOMAIN M /\ (s < from => After(M, s) <= from)
    BY <1>1, <2>1, <2>2 DEF Linked
  <2>4. After(M, s) \in DOMAIN N /\ After(M, s) # to
    BY <1>1, <1>8, <2>1, <2>2, <2>3
  <2>5. N[After(M, s)].prev = M[s].next
    BY <1>7, <2>2, <2>4 DEF Linked
  <2>6. ~ M[s].next.fill => N[After(M, s)].next = End \/ N[After(M, s)].next.fill
    <3>1. CASE After(M, s) = from
      <4>1. M[from].prev = M[s].next /\ from # 0
        BY <2>1, <2>2, <3>1 DEF Linked
      <4> QED BY <3>1, <4>1
    <3>2. CASE After(M, s) # from
      BY <1>6, <2>2, <2>4, <3>2 DEF Linked
    <3> QED BY <3>1, <3>2
  <2> QED BY <1>2, <2>1, <2>2, <2>4, <2>5, <2>6 DEF Linked
<1>9. from # L /\ Linked(N, L, from)
  BY <1>1, <1>3, <1>5 DEF Linked
<1>10. ASSUME NEW m \in DOMAIN N \ {0} PROVE Before(N, m) \in DOMAIN N \ {L} /\ After(N, Before(N, m)) = m
  <2>1. CASE m = to
    <3>1. Before(N, to) = from
      BY <1>1 DEF Before
    <3> QED BY <1>3, <1>5, <1>9, <2>1, <3>1
  <2>2. CASE m # to
    <3>1. PICK p : p = Before(M, m)
      OBVIOUS
    <3>2. /\ m \in DOMAIN M /\ m \in Nat /\ Before(N, m) = p
          /\ p \in DOMAIN M \ {L} /\ After(M, p) = m /\ p \in Nat /\ p < m
      BY <1>2, <1>7, <1>10, <2>2, <3>1, BeforeFacts, MarkFacts
    <3>3. Linked(M, L, p)
      BY <3>2 DEF Chained
    <3>4. p # from
      <4> SUFFICES ASSUME p = from PROVE FALSE
        OBVIOUS
      <4>1. to >= m
        BY <1>1, <3>2, <3>3 DEF Linked
      <4> QED BY <1>1, <1>10, <2>2, <3>2, <4>1
    <3>5. p \in DOMAIN N
      <4> SUFFICES ASSUME from < p, p < to PROVE FALSE
        BY <1>1, <3>2
      <4>1. m <= to
        BY <1>1, <3>2, <3>3 DEF Linked
      <4> QED BY <1>1, <1>10, <2>2, <3>2, <4>1
    <3> QED BY <1>6, <3>2, <3>4, <3>5
  <2> QED BY <2>1, <2>2
<1> QED BY <1>3, <1>4, <1>8, <1>9, <1>10 DEF Chained

(***************************************************************************)
(* A new mark m cuts the free subblock from s to n in two, the first used. *)
(***************************************************************************)
IsSplit(M, s, used, rest, m, n, N) ==
  /\ used \in Tag /\ rest \in Tag /\ used.fill /\ ~ rest.fill /\ ~ M[s].next.fill
  /\ used.size >= Threshold /\ rest.size >= Threshold /\ used.size + rest.size + 1 = M[s].next.size
  /\ m = s + used.size + 1 /\ n = After(M, s)
  /\ DOMAIN N = DOMAIN M \union {m} /\ N \in [DOMAIN N -> Mark]
  /\ N[s].next = used /\ N[s].prev = M[s].prev
  /\ N[m].prev = used /\ N[m].next = rest
  /\ N[n].prev = rest /\ N[n].next = M[n].next
  /\ \A x \in DOMAIN N \ {s, m, n} : N[x] = M[x]

\* The chain is whole then, too.
LEMMA Split ==
  ASSUME NEW M, NEW L, Chained(M, L), NEW s \in DOMAIN M \ {L}, NEW used, NEW rest, NEW m, NEW n, NEW N,
         IsSplit(M, s, used, rest, m, n, N)
  PROVE  Chained(N, L) /\ m \notin DOMAIN M
<1> USE DEF IsSplit
<1>1. /\ s \in Nat /\ used.size \in Nat /\ rest.size \in Nat /\ L \in Nat /\ Threshold \in Nat /\ m \in Nat
      /\ M[s].next.size \in Nat
  BY MarkFacts, MallocAssumption DEF Tag
<1>2. Linked(M, L, s) /\ n \in DOMAIN M /\ n \in Nat /\ n <= L /\ n = m + rest.size + 1
  BY <1>1, MarkFacts DEF Chained, Linked, After
<1>3. s < m /\ m < n /\ m \notin DOMAIN M
  BY <1>1, <1>2 DEF Linked
<1>4. \A x \in DOMAIN M : x \in Nat /\ x <= L /\ x \in DOMAIN N /\ (x <= s \/ x >= n)
  BY <1>2, MarkFacts DEF Linked
<1>5. /\ L \in Nat \ {0} /\ DOMAIN N \subseteq 0 .. L /\ 0 \in DOMAIN N /\ L \in DOMAIN N
  BY <1>1, <1>2, <1>3, <1>4 DEF Chained
<1>6. N[0].prev = End /\ N[L].next = End
  BY <1>1, <1>2, <1>3 DEF Chained
<1>7. After(N, s) = m /\ After(N, m) = n
  BY <1>1, <1>2 DEF After
<1>8. \A x \in DOMAIN M \ {s} : N[x].next = M[x].next /\ After(N, x) = After(M, x)
  BY <1>3 DEF After
<1>9. \A x \in DOMAIN M \ {n} : N[x].prev = M[x].prev /\ Before(N, x) = Before(M, x)
  BY <1>3 DEF Before
<1>10. Linked(N, L, s) /\ Linked(N, L, m)
  <2>1. \A x \in DOMAIN N : (x <= s \/ x >= m) /\ (x <= m \/ x >= n)
    BY <1>1, <1>2, <1>3, <1>4
  <2>2. N[n].next = End \/ N[n].next.fill
    BY <1>2 DEF Linked
  <2> QED BY <1>2, <1>4, <1>7, <2>1, <2>2 DEF Linked
<1>11. ASSUME NEW x \in DOMAIN M \ {L, s} PROVE Linked(N, L, x)
  <2>1. Linked(M, L, x) /\ After(N, x) = After(M, x) /\ N[x].next = M[x].next /\ After(M, x) > x /\ After(M, x) \in Nat
    BY <1>8, <1>11, MarkFacts DEF Chained
  <2>2. After(M, x) \in DOMAIN M /\ After(M, x) # n
    <3>1. x > s => After(M, x) > n
      BY <1>1, <1>2, <1>4, <1>11, <2>1
    <3>2. x < s => After(M, x) <= s
      BY <1>1, <1>4, <1>11, <2>1 DEF Linked
    <3> QED BY <1>1, <1>2, <1>3, <1>4, <1>11, <2>1, <3>1, <3>2 DEF Linked
  <2>3. \A y \in DOMAIN N : y <= x \/ y >= After(M, x)
    <3>1. x > s => m <= x
      BY <1>1, <1>2, <1>3, <1>4, <1>11
    <3>2. x < s => m >= After(M, x)
      BY <1>1, <1>3, <1>4, <1>11, <2>1 DEF Linked
    <3> QED BY <1>1, <1>4, <1>11, <2>1, <3>1, <3>2 DEF Linked
  <2>4. N[After(M, x)].prev = M[x].next
    BY <1>9, <2>1, <2>2 DEF Linked
  <2>5. ~ M[x].next.fill => N[After(M, x)].next = End \/ N[After(M, x)].next.fill
    BY <1>8, <2>1, <2>2 DEF Linked
  <2> QED BY <1>4, <2>1, <2>2, <2>3, <2>4, <2>5 DEF Linked
<1>12. ASSUME NEW x \in DOMAIN N \ {0} PROVE Before(N, x) \in DOMAIN N \ {L} /\ After(N, Before(N, x)) = x
  <2>1. CASE x = m
    <3>1. Before(N, m) = s
      BY <1>1 DEF Before
    <3> QED BY <1>4, <1>7, <2>1, <3>1
  <2>2. CASE x = n
    <3>1. Before(N, n) = m
      BY <1>1, <1>2 DEF Before
    <3> QED BY <1>1, <1>2, <1>3, <1>7, <2>2, <3>1
  <2>3. CASE x # m /\ x # n
    <3>1. PICK p : p = Before(M, x)
      OBVIOUS
    <3>2. x \in DOMAIN M /\ Before(N, x) = p /\ p \in DOMAIN M \ {L} /\ After(M, p) = x
      BY <1>9, <1>12, <2>3, <3>1, BeforeFacts
    <3>3. p # s
      BY <2>3, <3>2
    <3> QED BY <1>4, <1>8, <3>2, <3>3
  <2> QED BY <2>1, <2>2, <2>3
<1> QED BY <1>3, <1>5, <1>6, <1>10, <1>11, <1>12 DEF Chained
-----------------------------------------------------------------------------
(***************************************************************************)
(* Arenas, and what the operations on one do to it.                        *)
(***************************************************************************)
Fields == {"size", "first", "maxfree", "mark"}

ArenaOK(a) == /\ DOMAIN a = Fields /\ a.size \in Nat
              /\ Chained(a.mark, LastBlock(a))
              /\ a.first \in Marks(a)

\* Arena b has the chain of a, and s is used now.
Gains(a, b, s, size) ==
  /\ s \notin Filled(a.mark) /\ Filled(b.mark) = Filled(a.mark) \union {s}
  /\ b.mark[s].next.size >= size
  /\ \A x \in Filled(a.mark) : b.mark[x].next = a.mark[x].next

\* Arena b has the chain of a, and s is no longer used.
Loses(a, b, s) ==
  /\ Filled(b.mark) = Filled(a.mark) \ {s}
  /\ \A x \in Filled(b.mark) : b.mark[x].next = a.mark[x].next

\* A set of natural numbers that is not empty has a least element, and Min finds it.
LEMMA MinFacts ==
  ASSUME NEW S \in SUBSET Nat, S # {}
  PROVE  Min(S) \in S /\ \A y \in S : Min(S) <= y
<1> DEFINE R == OpToRel(<, Nat)
<1>1. PICK x \in S : \A y \in S : ~ (<<y, x>> \in R)
  BY NatLessThanWellFounded, WFMin, Zenon
<1>2. \A y \in S : y < x => <<y, x>> \in R
  BY DEF OpToRel
<1> HIDE DEF R
<1>3. \A y \in S : ~ (y < x) /\ y \in Nat /\ x \in Nat
  BY <1>1, <1>2
<1>4. \A y \in S : x <= y
  BY <1>3
<1> QED BY <1>4 DEF Min

-----------------------------------------------------------------------------
(***************************************************************************)
(* The free subblocks and the largest of them.                             *)
(***************************************************************************)
Free(M) == {s \in DOMAIN M : ~ M[s].next.fill /\ M[s].next # End}

\* The largest of max and the free subblocks before m is k.
IsUpTo(M, m, max, k) ==
  /\ k \in Nat /\ k >= max
  /\ \A s \in Free(M) : s < m => M[s].next.size <= k
  /\ k = max \/ \E s \in Free(M) : s < m /\ M[s].next.size = k

IsMax(M, k) ==
  /\ k \in Nat
  /\ \A s \in Free(M) : M[s].next.size <= k
  /\ k = 0 \/ \E s \in Free(M) : M[s].next.size = k

\* Max finds the greatest element of a set of natural numbers that has a bound.
LEMMA MaxFacts ==
  ASSUME NEW S \in SUBSET Nat, S # {}, NEW B \in Nat, \A x \in S : x <= B
  PROVE  Max(S) \in S /\ \A y \in S : y <= Max(S)
<1>1. PICK T : T = {B - x : x \in S}
  OBVIOUS
<1>2. T \in SUBSET Nat /\ T # {}
  <2>1. \A x \in S : x \in Nat /\ B - x \in Nat
    OBVIOUS
  <2>2. \A y \in T : y \in Nat
    BY <1>1, <2>1
  <2>3. PICK x \in S : TRUE
    OBVIOUS
  <2>4. B - x \in T
    BY <1>1, <2>3
  <2> QED BY <2>2, <2>4
<1>3. PICK t : t = Min(T)
  OBVIOUS
<1>4. t \in T /\ \A y \in T : t <= y
  BY <1>2, <1>3, MinFacts
<1>5. PICK x \in S : t = B - x
  BY <1>1, <1>4
<1>6. ASSUME NEW y \in S PROVE x >= y
  <2>1. B - y \in T /\ x \in Nat /\ y \in Nat
    BY <1>1
  <2>2. B - x <= B - y
    BY <1>4, <1>5, <2>1
  <2> QED BY <2>1, <2>2
<1>7. \E z \in S : \A y \in S : z >= y
  BY <1>6
<1>8. Max(S) \in S /\ \A y \in S : Max(S) >= y
  BY <1>7 DEF Max
<1> QED BY <1>8

LEMMA FreeFromFacts ==
  ASSUME NEW a, Chained(a.mark, LastBlock(a)), NEW start
  PROVE  /\ FreeFrom(a, start) = {s \in Free(a.mark) : s >= start}
         /\ \A s \in Free(a.mark) : /\ s \in DOMAIN a.mark /\ s \in Nat /\ s # LastBlock(a)
                                    /\ a.mark[s].next.size \in Nat /\ a.mark[s].next.size <= LastBlock(a)
<1>1. ASSUME NEW s \in Free(a.mark)
      PROVE  /\ s \in DOMAIN a.mark /\ s \in Nat /\ s # LastBlock(a)
             /\ a.mark[s].next.size \in Nat /\ a.mark[s].next.size <= LastBlock(a)
  <2>1. PICK M, L : M = a.mark /\ L = LastBlock(a)
    OBVIOUS
  <2>2. Chained(M, L) /\ s \in DOMAIN M /\ M[s].next # End
    BY <2>1 DEF Free
  <2>3. s # L /\ s \in Nat /\ M[s].next.size \in Nat
    BY <2>2, LastFacts, MarkFacts
  <2>4. After(M, s) \in DOMAIN M /\ L \in Nat
    BY <2>2, <2>3 DEF Chained, Linked
  <2>5. After(M, s) <= L
    BY <2>2, <2>4, MarkFacts
  <2> QED BY <2>1, <2>2, <2>3, <2>4, <2>5 DEF After
<1>2. FreeFrom(a, start) = {s \in Free(a.mark) : s >= start}
  BY DEF FreeFrom, Free, Marks
<1> QED BY <1>1, <1>2

\* There is only one.
LEMMA IsMaxUnique ==
  ASSUME NEW a, Chained(a.mark, LastBlock(a)), NEW j, IsMax(a.mark, j), NEW k, IsMax(a.mark, k)
  PROVE  j = k
<1>1. j \in Nat /\ k \in Nat /\ \A s \in Free(a.mark) : a.mark[s].next.size \in Nat
  BY FreeFromFacts DEF IsMax
<1>2. j <= k
  BY <1>1 DEF IsMax
<1>3. k <= j
  BY <1>1 DEF IsMax
<1> QED BY <1>1, <1>2, <1>3

\* getMaxFreeBlock with a start, when nothing is free before it.
LEMMA MaxFreeFacts ==
  ASSUME NEW a, Chained(a.mark, LastBlock(a)), NEW start, \A s \in Free(a.mark) : s >= start
  PROVE  IsMax(a.mark, getMaxFreeBlock(a, start))
<1>1. PICK S : S = {0} \union {a.mark[s].next.size : s \in FreeFrom(a, start)}
  OBVIOUS
<1>2. FreeFrom(a, start) = Free(a.mark)
  BY FreeFromFacts
<1>3. LastBlock(a) \in Nat
  BY DEF Chained
<1>4. S \in SUBSET Nat /\ S # {} /\ \A x \in S : x <= LastBlock(a)
  BY <1>1, <1>2, <1>3, FreeFromFacts
<1>5. Max(S) \in S /\ \A y \in S : y <= Max(S)
  BY <1>3, <1>4, MaxFacts
<1>6. getMaxFreeBlock(a, start) = Max(S)
  BY <1>1 DEF getMaxFreeBlock
<1>7. Max(S) \in Nat /\ \A s \in Free(a.mark) : a.mark[s].next.size <= Max(S)
  BY <1>1, <1>2, <1>4, <1>5
<1>8. Max(S) = 0 \/ \E s \in Free(a.mark) : a.mark[s].next.size = Max(S)
  BY <1>1, <1>2, <1>5
<1> QED BY <1>6, <1>7, <1>8 DEF IsMax

(***************************************************************************)
(* getMaxFreeBlock without a start.  The walk is a recursive function:     *)
(* that there is one is shown by naming it, and what it finds by looking   *)
(* at the first mark where it would find something else.                   *)
(***************************************************************************)
BackStep(a, w) ==
  [m \in Marks(a) |-> [max \in Nat |->
     LET p == a.mark[m].prev
     IN  IF p = End THEN max
         ELSE IF ~ p.fill /\ p.size > max
         THEN IF p.size > m THEN p.size ELSE w[PrevBlock(a, m)][p.size]
         ELSE w[PrevBlock(a, m)][max]]]

LEMMA BackIs == \A a : getMaxFreeBlockBack(a) = (CHOOSE w : w = BackStep(a, w))[LastBlock(a)][0]
BY DEF getMaxFreeBlockBack, BackStep

\* A step of the walk.
LEMMA BackOne ==
  ASSUME NEW a, Chained(a.mark, LastBlock(a)), NEW w, NEW m \in Marks(a), NEW max \in Nat,
         \A b \in Marks(a) : b < m => \A x \in Nat : IsUpTo(a.mark, b, x, w[b][x])
  PROVE  IsUpTo(a.mark, m, max, BackStep(a, w)[m][max])
<1>1. PICK M, L, p, r : M = a.mark /\ L = LastBlock(a) /\ p = M[m].prev /\ r = BackStep(a, w)[m][max]
  OBVIOUS
<1>2. Chained(M, L) /\ m \in DOMAIN M /\ m \in Nat /\ p \in Tag /\ p.size \in Nat
  BY <1>1, MarkFacts DEF Marks
<1>3. r = IF p = End THEN max
          ELSE IF ~ p.fill /\ p.size > max
          THEN IF p.size > m THEN p.size ELSE w[PrevBlock(a, m)][p.size]
          ELSE w[PrevBlock(a, m)][max]
  BY <1>1 DEF BackStep, Marks
<1>4. \A s \in Free(M) : s \in DOMAIN M /\ s \in Nat /\ M[s].next.size \in Nat
  BY <1>1, FreeFromFacts
<1>5. CASE p = End
  <2>1. m = 0
    BY <1>1, <1>2, <1>5, LastFacts
  <2>2. r = max /\ \A s \in Free(M) : ~ (s < m)
    BY <1>3, <1>4, <1>5, <2>1
  <2>3. IsUpTo(M, m, max, r)
    BY <2>2 DEF IsUpTo
  <2> QED BY <1>1, <2>3
<1>6. CASE p # End
  <2>1. m # 0
    BY <1>1, <1>2, <1>6, LastFacts
  <2>2. PICK b : b = Before(M, m)
    OBVIOUS
  <2>3. b \in DOMAIN M \ {L} /\ b < m /\ After(M, b) = m /\ M[b].next = p /\ PrevBlock(a, m) = b
    BY <1>1, <1>2, <2>1, <2>2, BeforeFacts DEF PrevBlock, Before
  <2>4. b \in Nat /\ Linked(M, L, b) /\ m = b + p.size + 1
    BY <1>2, <2>3, MarkFacts DEF Chained, After
  <2>5. ~ (p.size > m)
    BY <1>2, <2>4
  <2>6. \A x \in Nat : IsUpTo(M, b, x, w[b][x])
    BY <1>1, <2>3 DEF Marks
  <2>7. \A s \in Free(M) : s < m <=> (s < b \/ s = b)
    <3> SUFFICES ASSUME NEW s \in Free(M) PROVE s < m <=> (s < b \/ s = b)
      OBVIOUS
    <3>1. s \in Nat /\ (s <= b \/ s >= m)
      BY <1>4, <2>3, <2>4 DEF Linked
    <3> QED BY <1>2, <2>3, <2>4, <3>1
  <2>8. b \in Free(M) <=> ~ p.fill
    BY <1>2, <1>6, <2>3 DEF Free
  <2>9. CASE ~ p.fill /\ p.size > max
    <3>1. r = w[b][p.size]
      BY <1>3, <1>6, <2>3, <2>5, <2>9
    <3>2. IsUpTo(M, b, p.size, r)
      BY <1>2, <2>6, <3>1
    <3>3. r \in Nat /\ r >= max /\ r >= p.size
      BY <1>2, <2>9, <3>2 DEF IsUpTo
    <3>4. \A s \in Free(M) : s < m => M[s].next.size <= r
      BY <2>3, <2>7, <3>2, <3>3, <1>2 DEF IsUpTo
    <3>5. r = max \/ \E s \in Free(M) : s < m /\ M[s].next.size = r
      BY <2>3, <2>7, <2>8, <2>9, <3>2 DEF IsUpTo
    <3>6. IsUpTo(M, m, max, r)
      BY <3>3, <3>4, <3>5 DEF IsUpTo
    <3> QED BY <1>1, <3>6
  <2>10. CASE ~ (~ p.fill /\ p.size > max)
    <3>1. r = w[b][max]
      BY <1>3, <1>6, <2>3, <2>10
    <3>2. IsUpTo(M, b, max, r)
      BY <2>6, <3>1
    <3>3. r \in Nat /\ r >= max
      BY <3>2 DEF IsUpTo
    <3>4. b \in Free(M) => p.size <= r
      BY <1>2, <2>8, <2>10, <3>3
    <3>5. \A s \in Free(M) : s < m => M[s].next.size <= r
      BY <2>3, <2>7, <3>2, <3>4 DEF IsUpTo
    <3>6. r = max \/ \E s \in Free(M) : s < m /\ M[s].next.size = r
      BY <2>7, <3>2 DEF IsUpTo
    <3>7. IsUpTo(M, m, max, r)
      BY <3>3, <3>5, <3>6 DEF IsUpTo
    <3> QED BY <1>1, <3>7
  <2> QED BY <2>9, <2>10
<1> QED BY <1>5, <1>6

LEMMA BackFacts ==
  ASSUME NEW a, Chained(a.mark, LastBlock(a))
  PROVE  IsMax(a.mark, getMaxFreeBlockBack(a))
<1>1. PICK M, L : M = a.mark /\ L = LastBlock(a)
  OBVIOUS
<1>2. Chained(M, L) /\ L \in DOMAIN M /\ L \in Nat
  BY <1>1 DEF Chained
<1>3. \A s \in Free(M) : s \in DOMAIN M /\ s \in Nat /\ M[s].next.size \in Nat /\ M[s].next.size <= L /\ s <= L /\ s # L
  BY <1>1, <1>2, FreeFromFacts, MarkFacts
<1>4. ASSUME NEW m \in DOMAIN M, NEW max \in Nat
      PROVE  \E k : IsUpTo(M, m, max, k)
  <2>1. PICK S : S = {max} \union {M[s].next.size : s \in {x \in Free(M) : x < m}}
    OBVIOUS
  <2>2. S \in SUBSET Nat /\ S # {} /\ L + max \in Nat /\ \A x \in S : x <= L + max
    BY <1>2, <1>3, <2>1
  <2>3. Max(S) \in S /\ \A y \in S : y <= Max(S)
    BY <2>2, MaxFacts
  <2>4. Max(S) \in Nat /\ Max(S) >= max /\ \A s \in Free(M) : s < m => M[s].next.size <= Max(S)
    BY <2>1, <2>2, <2>3
  <2>5. Max(S) = max \/ \E s \in Free(M) : s < m /\ M[s].next.size = Max(S)
    BY <2>1, <2>3
  <2> QED BY <2>4, <2>5 DEF IsUpTo
<1>5. ASSUME NEW m \in DOMAIN M, NEW max \in Nat, NEW j, IsUpTo(M, m, max, j), NEW k, IsUpTo(M, m, max, k)
      PROVE  j = k
  <2>1. j \in Nat /\ k \in Nat /\ j >= max /\ k >= max
    BY <1>5 DEF IsUpTo
  <2>2. j <= k
    BY <1>3, <1>5, <2>1 DEF IsUpTo
  <2>3. k <= j
    BY <1>3, <1>5, <2>1 DEF IsUpTo
  <2> QED BY <2>1, <2>2, <2>3
<1>6. PICK g : g = [m \in DOMAIN M |-> [max \in Nat |-> CHOOSE k : IsUpTo(M, m, max, k)]]
  OBVIOUS
<1>7. \A m \in DOMAIN M : \A max \in Nat : IsUpTo(M, m, max, g[m][max])
  <2> SUFFICES ASSUME NEW m \in DOMAIN M, NEW max \in Nat PROVE IsUpTo(M, m, max, g[m][max])
    OBVIOUS
  <2>1. g[m][max] = CHOOSE k : IsUpTo(M, m, max, k)
    BY <1>6
  <2>2. IsUpTo(M, m, max, CHOOSE k : IsUpTo(M, m, max, k))
    BY <1>4, Zenon
  <2> QED BY <2>1, <2>2
<1>8. g = BackStep(a, g)
  <2>1. PICK b : b = BackStep(a, g)
    OBVIOUS
  <2>2. \A m \in DOMAIN M : \A max \in Nat : IsUpTo(M, m, max, b[m][max])
    BY <1>1, <1>7, <2>1, BackOne DEF Marks
  <2>3. \A m \in DOMAIN M : \A max \in Nat : b[m][max] = g[m][max]
    BY <1>5, <1>7, <2>2
  <2>4. b = [m \in DOMAIN M |-> [max \in Nat |-> b[m][max]]]
    BY <1>1, <2>1 DEF BackStep, Marks
  <2>5. g = [m \in DOMAIN M |-> [max \in Nat |-> g[m][max]]]
    BY <1>6
  <2>6. b = g
    BY <2>3, <2>4, <2>5
  <2> QED BY <2>1, <2>6
<1>9. PICK w : w = CHOOSE v : v = BackStep(a, v)
  OBVIOUS
<1>10. w = BackStep(a, w)
  BY <1>8, <1>9, Zenon
<1>11. \A m \in DOMAIN M : \A max \in Nat : IsUpTo(M, m, max, w[m][max])
  <2> SUFFICES ASSUME NEW D, D = {m \in DOMAIN M : ~ \A max \in Nat : IsUpTo(M, m, max, w[m][max])}, D # {}
               PROVE  FALSE
    BY Zenon
  <2>1. D \in SUBSET Nat
    BY <1>2, MarkFacts
  <2>2. PICK m : m \in D /\ \A y \in D : m <= y
    BY <2>1, MinFacts
  <2>3. m \in DOMAIN M /\ m \in Nat
    BY <2>1, <2>2
  <2>4. \A b \in DOMAIN M : b < m => \A x \in Nat : IsUpTo(M, b, x, w[b][x])
    <3> SUFFICES ASSUME NEW b \in DOMAIN M, b < m, b \in D PROVE FALSE
      OBVIOUS
    <3> QED BY <2>1, <2>2, <2>3
  <2>5. \A max \in Nat : IsUpTo(M, m, max, BackStep(a, w)[m][max])
    BY <1>1, <2>3, <2>4, BackOne DEF Marks
  <2> QED BY <1>10, <2>2, <2>5
<1>12. IsUpTo(M, L, 0, w[L][0])
  BY <1>2, <1>11
<1>13. \A s \in Free(M) : s < L
  BY <1>2, <1>3
<1>14. IsMax(M, w[L][0])
  BY <1>12, <1>13 DEF IsUpTo, IsMax
<1> QED BY <1>1, <1>9, <1>14, BackIs

(***************************************************************************)
(* What an arena remembers: nothing is free before first, and maxfree is   *)
(* the size of the largest free subblock.                                  *)
(***************************************************************************)
HintsOK(a) == (\A s \in Free(a.mark) : s >= a.first) /\ IsMax(a.mark, a.maxfree)

Sound(a) == ArenaOK(a) /\ HintsOK(a)

\* The free subblocks of b are those of a but s, and perhaps the rest of s.
Shrinks(a, b, s) ==
  /\ s \in Free(a.mark)
  /\ \A x \in Free(b.mark) : \/ x \in Free(a.mark) \ {s} /\ b.mark[x].next = a.mark[x].next
                             \/ x > s /\ b.mark[x].next.size < a.mark[s].next.size
  /\ \A x \in Free(a.mark) \ {s} : x \in Free(b.mark) /\ b.mark[x].next = a.mark[x].next

\* The free subblocks of b are those of a, and from, with which some were merged.
Merges(a, b, from) ==
  /\ from \in Free(b.mark)
  /\ \A x \in Free(b.mark) \ {from} : x \in Free(a.mark) /\ b.mark[x].next = a.mark[x].next
  /\ \A x \in Free(a.mark) : \/ x \in Free(b.mark) \ {from} /\ b.mark[x].next = a.mark[x].next
                             \/ a.mark[x].next.size <= b.mark[from].next.size

\* What getNextFreeBlock returns is a mark, and no free subblock from s on is before it.
LEMMA NextFreeFacts ==
  ASSUME NEW b, Chained(b.mark, LastBlock(b)), NEW s \in Marks(b)
  PROVE  /\ getNextFreeBlock(b, s) \in Marks(b)
         /\ \A m \in Free(b.mark) : m >= s => m >= getNextFreeBlock(b, s)
<1> DEFINE S == {m \in Marks(b) : m >= s /\ ~ b.mark[m].next.fill}
<1>1. LastBlock(b) \in DOMAIN b.mark /\ b.mark[LastBlock(b)].next = End
  BY DEF Chained
<1>2. LastBlock(b) \in S
  BY <1>1, MarkFacts, EndFacts DEF Marks
<1>3. S \in SUBSET Nat
  BY MarkFacts DEF Marks
<1>4. Min(S) \in S /\ \A y \in S : Min(S) <= y
  BY <1>2, <1>3, MinFacts
<1>5. \A m \in Free(b.mark) : m >= s => m \in S
  BY DEF Free, Marks
<1>6. \A y \in S : Min(S) <= y <=> y >= Min(S)
  BY <1>3, <1>4
<1> QED BY <1>4, <1>5, <1>6 DEF getNextFreeBlock

\* allocBlock when the subblock is not worth cutting.
LEMMA AllocWhole ==
  ASSUME NEW a, ArenaOK(a), NEW s \in Marks(a), ~ a.mark[s].next.fill, s # LastBlock(a),
         NEW size \in Nat, a.mark[s].next.size >= size,
         NEW b, b = [a EXCEPT !.mark[s].next.fill = TRUE, !.mark[NextBlock(a, s)].prev.fill = TRUE]
  PROVE  /\ DOMAIN b = Fields /\ b.size = a.size /\ b.first = a.first /\ b.maxfree = a.maxfree
         /\ Chained(b.mark, LastBlock(b)) /\ Marks(a) \subseteq Marks(b)
         /\ Gains(a, b, s, size) /\ Shrinks(a, b, s)
<1>1. PICK M, L, n, N : /\ M = a.mark /\ L = LastBlock(a) /\ n = NextBlock(a, s) /\ N = b.mark
  OBVIOUS
<1>2. Chained(M, L) /\ s \in DOMAIN M \ {L} /\ n = After(M, s) /\ M \in [DOMAIN M -> Mark]
  BY <1>1 DEF ArenaOK, Marks, NextBlock, After, Chained
<1>3. Linked(M, L, s) /\ n \in DOMAIN M /\ n > s /\ s \in Nat /\ n \in Nat /\ M[s] \in Mark /\ M[n] \in Mark
      /\ M[s].next \in Tag /\ M[n].prev = M[s].next
  BY <1>2, MarkFacts DEF Chained, Linked
<1>4. PICK t : t = [M[s].next EXCEPT !.fill = TRUE]
  OBVIOUS
<1>5. t \in Tag /\ t.size = M[s].next.size /\ t.fill
  BY <1>3, <1>4 DEF Tag
<1>6. DOMAIN b = Fields /\ b.size = a.size /\ b.first = a.first /\ b.maxfree = a.maxfree
  BY DEF ArenaOK, Fields
<1>7. /\ DOMAIN N = DOMAIN M
      /\ N[s] = [M[s] EXCEPT !.next = t] /\ N[n] = [M[n] EXCEPT !.prev = t]
      /\ \A x \in DOMAIN M \ {s, n} : N[x] = M[x]
  <2>1. b.mark = [a.mark EXCEPT ![s].next.fill = TRUE, ![n].prev.fill = TRUE]
    BY <1>1 DEF ArenaOK, Fields
  <2>2. N = [M EXCEPT ![s].next.fill = TRUE, ![n].prev.fill = TRUE]
    BY <1>1, <2>1
  <2>3. t = [M[n].prev EXCEPT !.fill = TRUE] /\ s # n
    BY <1>3, <1>4
  <2>4. /\ DOMAIN N = DOMAIN M
        /\ N[s] = [M[s] EXCEPT !.next = [@ EXCEPT !.fill = TRUE]]
        /\ N[n] = [M[n] EXCEPT !.prev = [@ EXCEPT !.fill = TRUE]]
        /\ \A x \in DOMAIN M \ {s, n} : N[x] = M[x]
    BY <1>2, <1>3, <2>2, <2>3
  <2>6. N[s] = [M[s] EXCEPT !.next = t] /\ N[n] = [M[n] EXCEPT !.prev = t]
    BY <1>4, <2>3, <2>4
  <2> QED BY <2>4, <2>6
<1>8. /\ DOMAIN N = DOMAIN M /\ N \in [DOMAIN N -> Mark]
      /\ N[s].next = t /\ N[s].prev = M[s].prev /\ N[n].prev = t /\ N[n].next = M[n].next
      /\ \A x \in DOMAIN N \ {s, n} : N[x] = M[x]
  <2>1. /\ N[s].next = t /\ N[s].prev = M[s].prev /\ N[n].prev = t /\ N[n].next = M[n].next
        /\ N[s] \in Mark /\ N[n] \in Mark
    BY <1>3, <1>5, <1>7 DEF Mark
  <2>2. \A x \in DOMAIN M : N[x] \in Mark
    BY <1>2, <1>7, <2>1
  <2>3. N = [x \in DOMAIN N |-> N[x]]
    BY <1>1 DEF ArenaOK, Fields
  <2> QED BY <1>7, <2>1, <2>2, <2>3
<1>9. DOMAIN N = {x \in DOMAIN M : x <= s \/ x >= n}
  BY <1>2, <1>3, <1>8 DEF Linked
<1>10. t.size >= Threshold /\ n = s + t.size + 1
  BY <1>2, <1>3, <1>5 DEF Linked, After
<1>11. Chained(N, L)
  <2>1. IsJoin(M, s, n, t, N)
    BY <1>2, <1>3, <1>5, <1>8, <1>9, <1>10 DEF IsJoin
  <2> QED BY <1>2, <1>3, <2>1, Join
<1>12. LastBlock(b) = L
  BY <1>1, <1>6 DEF LastBlock
<1>13. Gains(a, b, s, size)
  <2>1. \A x \in DOMAIN M \ {s} : N[x].next = M[x].next
    BY <1>8
  <2>2. s \notin Filled(M)
    BY <1>1 DEF Filled
  <2>3. Filled(N) = Filled(M) \union {s}
    BY <1>2, <1>5, <1>8, <2>1 DEF Filled
  <2>4. \A x \in Filled(M) : N[x].next = M[x].next
    BY <2>1, <2>2 DEF Filled
  <2>5. N[s].next.size >= size
    BY <1>1, <1>5, <1>8
  <2> QED BY <1>1, <2>2, <2>3, <2>4, <2>5 DEF Gains
<1>14. Shrinks(a, b, s)
  <2>1. s \in Free(M)
    BY <1>1, <1>2, LastFacts DEF Free
  <2>2. \A x \in DOMAIN M \ {s} : N[x].next = M[x].next
    BY <1>8
  <2>3. \A x : x \in Free(N) <=> x \in Free(M) \ {s}
    BY <1>5, <1>8, <2>2 DEF Free
  <2>4. \A x \in Free(M) \ {s} : x \in DOMAIN M
    BY DEF Free
  <2> QED BY <1>1, <2>1, <2>2, <2>3, <2>4 DEF Shrinks
<1> QED BY <1>1, <1>6, <1>8, <1>11, <1>12, <1>13, <1>14 DEF Marks

\* allocBlock when it is.
LEMMA AllocCut ==
  ASSUME NEW a, ArenaOK(a), NEW s \in Marks(a), ~ a.mark[s].next.fill, s # LastBlock(a),
         NEW size \in Nat, size >= Threshold, a.mark[s].next.size > size + 2 + Threshold
  PROVE  LET b == allocBlock(a, s, size)
         IN  /\ DOMAIN b = Fields /\ b.size = a.size /\ b.first = a.first /\ b.maxfree = a.maxfree
             /\ Chained(b.mark, LastBlock(b)) /\ Marks(a) \subseteq Marks(b)
             /\ Gains(a, b, s, size) /\ Shrinks(a, b, s)
<1>1. PICK M, L, n, m, used, rest :
        /\ M = a.mark /\ L = LastBlock(a) /\ n = NextBlock(a, s) /\ m = s + size + 1
        /\ used = [size |-> size, fill |-> TRUE]
        /\ rest = [size |-> a.mark[s].next.size - (size + 1), fill |-> FALSE]
  OBVIOUS
<1>2. PICK N : N = [x \in DOMAIN M \union {m} |->
                      CASE x = s -> [M[s] EXCEPT !.next = used]
                        [] x = m -> [prev |-> used, next |-> rest]
                        [] x = n -> [M[n] EXCEPT !.prev = rest]
                        [] OTHER -> M[x]]
  OBVIOUS
<1>3. PICK b : b = allocBlock(a, s, size)
  OBVIOUS
<1>4. b = [a EXCEPT !.mark = N]
  BY <1>1, <1>2, <1>3 DEF allocBlock, Marks
<1>5. DOMAIN b = Fields /\ b.size = a.size /\ b.first = a.first /\ b.maxfree = a.maxfree /\ b.mark = N
  BY <1>4 DEF ArenaOK, Fields
<1>6. Chained(M, L) /\ s \in DOMAIN M \ {L} /\ n = After(M, s) /\ M \in [DOMAIN M -> Mark]
  BY <1>1 DEF ArenaOK, Marks, NextBlock, After, Chained
<1>7. Linked(M, L, s) /\ n \in DOMAIN M /\ n > s /\ s \in Nat /\ n \in Nat /\ M[s] \in Mark /\ M[n] \in Mark
      /\ M[s].next.size \in Nat
  BY <1>6, MarkFacts DEF Chained, Linked
<1>8. /\ used \in Tag /\ rest \in Tag /\ used.fill /\ ~ rest.fill /\ used.size = size
      /\ rest.size = M[s].next.size - (size + 1)
      /\ rest.size >= Threshold /\ used.size + rest.size + 1 = M[s].next.size
  BY <1>1, <1>7, MallocAssumption DEF Tag
<1>9. s < m /\ m < n
  BY <1>1, <1>6, <1>7, MallocAssumption DEF After
<1>10. /\ DOMAIN N = DOMAIN M \union {m}
       /\ N[s] = [M[s] EXCEPT !.next = used] /\ N[m] = [prev |-> used, next |-> rest]
       /\ N[n] = [M[n] EXCEPT !.prev = rest]
       /\ \A x \in DOMAIN N \ {s, m, n} : N[x] = M[x]
  BY <1>2, <1>6, <1>7, <1>9
<1>11. /\ N[s].next = used /\ N[s].prev = M[s].prev /\ N[m].prev = used /\ N[m].next = rest
       /\ N[n].prev = rest /\ N[n].next = M[n].next
       /\ N[s] \in Mark /\ N[m] \in Mark /\ N[n] \in Mark
  BY <1>7, <1>8, <1>10 DEF Mark
<1>12. N \in [DOMAIN N -> Mark]
  <2>1. \A x \in DOMAIN N : N[x] \in Mark
    BY <1>6, <1>10, <1>11
  <2> QED BY <1>2, <2>1
<1>13. Chained(N, L) /\ m \notin DOMAIN M
  <2>1. ~ M[s].next.fill /\ used.size >= Threshold /\ m = s + used.size + 1
    BY <1>1, <1>8
  <2>2. DOMAIN N = DOMAIN M \union {m} /\ \A x \in DOMAIN N \ {s, m, n} : N[x] = M[x]
    BY <1>10
  <2>3. IsSplit(M, s, used, rest, m, n, N)
    BY <1>6, <1>8, <1>11, <1>12, <2>1, <2>2 DEF IsSplit
  <2> QED BY <1>6, <2>3, Split
<1>14. LastBlock(b) = L
  BY <1>1, <1>5 DEF LastBlock
<1>15. Gains(a, b, s, size)
  <2>0. /\ \A x \in DOMAIN M \ {s} : N[x].next = M[x].next /\ x # m
        /\ N[s].next.fill /\ ~ N[m].next.fill /\ ~ M[s].next.fill
        /\ DOMAIN N = DOMAIN M \union {m} /\ s \in DOMAIN M
    BY <1>1, <1>6, <1>8, <1>10, <1>11, <1>13
  <2>1. Filled(N) = Filled(M) \union {s} /\ s \notin Filled(M)
    BY <2>0 DEF Filled
  <2>2. \A x \in Filled(M) : N[x].next = M[x].next
    BY <1>1, <1>10, <1>11, <1>13 DEF Filled
  <2>3. N[s].next.size >= size
    BY <1>8, <1>11
  <2> QED BY <1>1, <1>5, <2>1, <2>2, <2>3 DEF Gains
<1>16. Shrinks(a, b, s)
  <2>1. s \in Free(M)
    BY <1>1, <1>6, LastFacts DEF Free
  <2>2. \A x \in DOMAIN M \ {s} : N[x].next = M[x].next /\ x # m
    BY <1>10, <1>11, <1>13
  <2>3. N[s].next.fill /\ DOMAIN N = DOMAIN M \union {m}
    BY <1>8, <1>10, <1>11
  <2>4. \A x \in Free(M) \ {s} : x \in Free(N) /\ N[x].next = M[x].next
    BY <2>2, <2>3 DEF Free
  <2>5. \A x \in Free(N) : x \in Free(M) \ {s} \/ x = m
    BY <2>2, <2>3 DEF Free
  <2>6. m > s /\ N[m].next.size < M[s].next.size
    BY <1>1, <1>7, <1>8, <1>9, <1>11
  <2> QED BY <1>1, <1>5, <2>1, <2>4, <2>5, <2>6 DEF Shrinks
<1> QED BY <1>1, <1>3, <1>5, <1>10, <1>13, <1>14, <1>15, <1>16 DEF Marks

LEMMA AllocFacts ==
  ASSUME NEW a, ArenaOK(a), NEW s \in Marks(a), ~ a.mark[s].next.fill, s # LastBlock(a),
         NEW size \in Nat, size >= Threshold, a.mark[s].next.size >= size
  PROVE  LET b == allocBlock(a, s, size)
         IN  /\ DOMAIN b = Fields /\ b.size = a.size /\ b.first = a.first /\ b.maxfree = a.maxfree
             /\ Chained(b.mark, LastBlock(b)) /\ Marks(a) \subseteq Marks(b)
             /\ Gains(a, b, s, size) /\ Shrinks(a, b, s)
<1>1. CASE a.mark[s].next.size > size + 2 + Threshold
  BY <1>1, AllocCut
<1>2. CASE ~ (a.mark[s].next.size > size + 2 + Threshold)
  <2>1. allocBlock(a, s, size) = [a EXCEPT !.mark[s].next.fill = TRUE, !.mark[NextBlock(a, s)].prev.fill = TRUE]
    BY <1>2 DEF allocBlock
  <2> QED BY <2>1, AllocWhole
<1> QED BY <1>1, <1>2

\* Of an arena that is only searched, the hints change.
Hinted(a, f, m) == [[a EXCEPT !.first = f] EXCEPT !.maxfree = m]

LEMMA HintFacts ==
  ASSUME NEW a, ArenaOK(a), NEW f \in Marks(a), NEW m
  PROVE  /\ ArenaOK(Hinted(a, f, m)) /\ Hinted(a, f, m).mark = a.mark
         /\ Hinted(a, f, m).first = f /\ Hinted(a, f, m).maxfree = m
<1>1. PICK b : b = Hinted(a, f, m)
  OBVIOUS
<1>2. DOMAIN b = Fields /\ b.size = a.size /\ b.first = f /\ b.mark = a.mark /\ b.maxfree = m
  BY <1>1 DEF ArenaOK, Fields, Hinted
<1>3. LastBlock(b) = LastBlock(a) /\ Marks(b) = Marks(a)
  BY <1>2 DEF LastBlock, Marks
<1> QED BY <1>1, <1>2, <1>3 DEF ArenaOK

\* What customMalloc and AllocDynarecMap do to an arena that has room.
LEMMA TakenFacts ==
  ASSUME NEW a, Sound(a), NEW size \in Nat, size >= Threshold, NEW s \in Candidates(a, size)
  PROVE  Sound(Taken(a, s, size)) /\ Gains(a, Taken(a, s, size), s, size)
<1>0. ArenaOK(a) /\ HintsOK(a)
  BY DEF Sound
<1>1. s \in Marks(a) /\ ~ a.mark[s].next.fill /\ a.mark[s].next # End /\ a.mark[s].next.size >= size
  BY DEF Candidates, FreeFrom
<1>2. s # LastBlock(a)
  BY <1>0, <1>1 DEF ArenaOK, Chained
<1>3. PICK b : b = allocBlock(a, s, size)
  OBVIOUS
<1>4. /\ DOMAIN b = Fields /\ b.size = a.size /\ b.first = a.first /\ b.maxfree = a.maxfree
      /\ Chained(b.mark, LastBlock(b)) /\ Marks(a) \subseteq Marks(b)
      /\ Gains(a, b, s, size) /\ Shrinks(a, b, s)
  BY <1>0, <1>1, <1>2, <1>3, AllocFacts
<1>5. ArenaOK(b)
  BY <1>0, <1>4 DEF ArenaOK
<1>6. PICK f : f = IF s = b.first THEN getNextFreeBlock(b, s) ELSE b.first
  OBVIOUS
<1>7. f \in Marks(b)
  BY <1>1, <1>4, <1>5, <1>6, NextFreeFacts DEF ArenaOK
<1>8. PICK c : c = [b EXCEPT !.first = f]
  OBVIOUS
<1>9. PICK m : m = IF a.mark[s].next.size = c.maxfree THEN getMaxFreeBlock(c, c.first) ELSE c.maxfree
  OBVIOUS
<1>10. Taken(a, s, size) = [c EXCEPT !.maxfree = m]
  BY <1>3, <1>6, <1>8, <1>9 DEF Taken
<1>11. PICK d : d = Taken(a, s, size)
  OBVIOUS
<1>12. ArenaOK(d) /\ d.mark = b.mark /\ d.first = f /\ d.maxfree = m
  <2>1. d = Hinted(b, f, m)
    BY <1>8, <1>10, <1>11 DEF Hinted
  <2> QED BY <1>5, <1>7, <2>1, HintFacts
<1>13. c.mark = b.mark /\ LastBlock(c) = LastBlock(b) /\ c.first = f /\ c.maxfree = a.maxfree
  BY <1>4, <1>8 DEF Fields, LastBlock
<1>14. /\ \A x \in Free(a.mark) : x \in Nat /\ a.mark[x].next.size \in Nat
       /\ \A x \in Free(b.mark) : x \in Nat /\ b.mark[x].next.size \in Nat
       /\ a.first \in Nat /\ f \in Nat /\ s \in Nat
  BY <1>0, <1>1, <1>5, <1>7, FreeFromFacts, MarkFacts DEF ArenaOK, Marks
<1>15. \A x \in Free(b.mark) : x >= f
  <2> SUFFICES ASSUME NEW x \in Free(b.mark) PROVE x >= f
    OBVIOUS
  <2>1. s >= a.first
    BY <1>0, <1>4 DEF HintsOK, Shrinks
  <2>2. x >= a.first
    <3>1. CASE x \in Free(a.mark) \ {s}
      BY <1>0, <3>1 DEF HintsOK
    <3>2. CASE x > s
      BY <1>14, <2>1, <3>2
    <3> QED BY <1>4, <3>1, <3>2 DEF Shrinks
  <2>3. CASE s = b.first
    <3>1. x >= getNextFreeBlock(b, s)
      BY <1>1, <1>4, <2>2, <2>3, NextFreeFacts
    <3> QED BY <1>6, <2>3, <3>1
  <2>4. CASE s # b.first
    BY <1>4, <1>6, <2>2, <2>4
  <2> QED BY <2>3, <2>4
<1>16. IsMax(b.mark, m)
  <2>1. CASE a.mark[s].next.size = c.maxfree
    <3>1. m = getMaxFreeBlock(c, f)
      BY <1>9, <1>13, <2>1
    <3> QED BY <1>4, <1>13, <1>15, <3>1, MaxFreeFacts
  <2>2. CASE a.mark[s].next.size # c.maxfree
    <3>1. m = a.maxfree /\ IsMax(a.mark, m) /\ m # a.mark[s].next.size
      BY <1>0, <1>9, <1>13, <2>2 DEF HintsOK
    <3>2. m \in Nat /\ s \in Free(a.mark) /\ a.mark[s].next.size \in Nat /\ a.mark[s].next.size <= m
      BY <1>4, <1>14, <3>1 DEF IsMax, Shrinks
    <3>3. \A x \in Free(b.mark) : b.mark[x].next.size <= m
      <4> SUFFICES ASSUME NEW x \in Free(b.mark) PROVE b.mark[x].next.size <= m
        OBVIOUS
      <4>1. CASE x \in Free(a.mark) \ {s} /\ b.mark[x].next = a.mark[x].next
        BY <3>1, <4>1 DEF IsMax
      <4>2. CASE x > s /\ b.mark[x].next.size < a.mark[s].next.size
        <5>1. b.mark[x].next.size \in Nat
          BY <1>14
        <5> QED BY <3>2, <4>2, <5>1
      <4> QED BY <1>4, <4>1, <4>2 DEF Shrinks
    <3>4. PICK x \in Free(a.mark) : a.mark[x].next.size = m
      <4>1. a.mark[s].next.size > 0
        BY <1>1, <3>2, MallocAssumption
      <4> QED BY <3>1, <3>2, <4>1 DEF IsMax
    <3>5. x \in Free(b.mark) /\ b.mark[x].next.size = m
      BY <1>4, <3>1, <3>4 DEF Shrinks
    <3> QED BY <3>2, <3>3, <3>5 DEF IsMax
  <2> QED BY <2>1, <2>2
<1>17. Sound(d)
  BY <1>12, <1>15, <1>16 DEF Sound, HintsOK
<1>18. Gains(a, d, s, size)
  BY <1>4, <1>12 DEF Gains
<1> QED BY <1>11, <1>17, <1>18

\* An arena that was just mapped.
LEMMA NewArenaFacts ==
  ASSUME NEW size \in Nat, size >= Threshold
  PROVE  LET a == NewArena(size)
         IN  /\ ArenaOK(a) /\ 0 \in Marks(a) /\ ~ a.mark[0].next.fill /\ 0 # LastBlock(a)
             /\ a.mark[0].next.size >= size /\ Filled(a.mark) = {}
<1>1. PICK sz : sz = IF size + 2 > ArenaSize THEN size + 2 ELSE ArenaSize
  OBVIOUS
<1>2. sz \in Nat /\ sz - 2 >= size /\ sz - 2 >= Threshold /\ sz >= 3 /\ Threshold \in Nat \ {0}
  BY <1>1, MallocAssumption
<1>3. PICK all, M : /\ all = [size |-> sz - 2, fill |-> FALSE]
                    /\ M = [x \in {0, sz - 1} |-> IF x = 0 THEN [prev |-> End, next |-> all]
                                                  ELSE [prev |-> all, next |-> End]]
  OBVIOUS
<1>4. PICK a : a = NewArena(size)
  OBVIOUS
<1>5. a = [size |-> sz, first |-> 0, maxfree |-> sz - 2, mark |-> M]
  BY <1>1, <1>3, <1>4 DEF NewArena
<1>6. DOMAIN a = Fields /\ a.size = sz /\ a.first = 0 /\ a.mark = M /\ LastBlock(a) = sz - 1
  BY <1>5 DEF Fields, LastBlock
<1>7. all \in Tag /\ all.size = sz - 2 /\ ~ all.fill
  BY <1>2, <1>3 DEF Tag
<1>8. PICK L : L = sz - 1
  OBVIOUS
<1>9. L \in Nat \ {0} /\ L = sz - 1 /\ all.size = L - 1 /\ DOMAIN M = {0, L}
  BY <1>2, <1>3, <1>7, <1>8
<1>10. M[0] = [prev |-> End, next |-> all] /\ M[L] = [prev |-> all, next |-> End]
  BY <1>3, <1>9
<1>11. M[0] \in Mark /\ M[L] \in Mark /\ M[0].prev = End /\ M[0].next = all /\ M[L].prev = all /\ M[L].next = End
  BY <1>7, <1>10, EndFacts DEF Mark
<1>12. M \in [DOMAIN M -> Mark]
  BY <1>3, <1>9, <1>11
<1>13. After(M, 0) = L /\ Before(M, L) = 0
  BY <1>9, <1>11 DEF After, Before
<1>14. Linked(M, L, 0)
  BY <1>2, <1>7, <1>9, <1>11, <1>13 DEF Linked
<1>15. Chained(M, L)
  <2>1. DOMAIN M \subseteq 0 .. L /\ 0 \in DOMAIN M /\ L \in DOMAIN M
    BY <1>9
  <2> QED BY <1>9, <1>11, <1>12, <1>13, <1>14, <2>1 DEF Chained
<1>16. Filled(M) = {}
  BY <1>7, <1>9, <1>11, EndFacts DEF Filled
<1>17. ArenaOK(a)
  BY <1>2, <1>6, <1>8, <1>9, <1>15 DEF ArenaOK, Marks
<1> QED BY <1>2, <1>4, <1>6, <1>7, <1>8, <1>9, <1>11, <1>16, <1>17 DEF Marks

\* What an allocation makes of it.
LEMMA TakenNewFacts ==
  ASSUME NEW h, NEW size \in Nat, size >= Threshold
  PROVE  LET b == TakenNew(h, size)
         IN  Sound(b) /\ Filled(b.mark) = {0} /\ b.mark[0].next.size >= size
<1>1. PICK a : a = NewArena(size)
  OBVIOUS
<1>2. /\ ArenaOK(a) /\ 0 \in Marks(a) /\ ~ a.mark[0].next.fill /\ 0 # LastBlock(a)
      /\ a.mark[0].next.size >= size /\ Filled(a.mark) = {}
  BY <1>1, NewArenaFacts
<1>3. PICK b : b = allocBlock(a, 0, size)
  OBVIOUS
<1>4. /\ DOMAIN b = Fields /\ b.size = a.size /\ b.first = a.first /\ b.maxfree = a.maxfree
      /\ Chained(b.mark, LastBlock(b)) /\ Marks(a) \subseteq Marks(b)
      /\ Gains(a, b, 0, size)
  BY <1>2, <1>3, AllocFacts
<1>5. ArenaOK(b) /\ 0 \in Marks(b) /\ Filled(b.mark) = {0} /\ b.mark[0].next.size >= size
  BY <1>2, <1>4 DEF ArenaOK, Gains
<1>6. PICK f : f = getNextFreeBlock(b, 0)
  OBVIOUS
<1>7. f \in Marks(b) /\ \A x \in Free(b.mark) : x >= 0 /\ x >= f
  BY <1>5, <1>6, NextFreeFacts, FreeFromFacts DEF ArenaOK
<1>8. PICK m : m = getMaxFreeBlockBack(b)
  OBVIOUS
<1>9. PICK g : g = getMaxFreeBlock(b, f)
  OBVIOUS
<1>10. PICK k : k = IF m = 0 THEN 0 ELSE f
  OBVIOUS
<1>11. TakenNew(h, size) = IF h = "chunks" THEN [b EXCEPT !.maxfree = m, !.first = k]
                                            ELSE [b EXCEPT !.first = f, !.maxfree = g]
  BY <1>1, <1>3, <1>6, <1>8, <1>9, <1>10 DEF TakenNew
<1>12. PICK c : c = TakenNew(h, size)
  OBVIOUS
<1>13. DOMAIN c = Fields /\ c.size = b.size /\ c.mark = b.mark /\ c.first \in {k, f} /\ c.maxfree \in {m, g}
  BY <1>4, <1>11, <1>12 DEF Fields
<1>14. LastBlock(c) = LastBlock(b) /\ Marks(c) = Marks(b) /\ c.first \in Marks(b)
  BY <1>5, <1>7, <1>10, <1>13 DEF LastBlock, Marks
<1>15. ArenaOK(c)
  BY <1>5, <1>13, <1>14 DEF ArenaOK
<1>16. IsMax(b.mark, m) /\ IsMax(b.mark, g)
  BY <1>4, <1>7, <1>8, <1>9, BackFacts, MaxFreeFacts
<1>17. HintsOK(c)
  BY <1>7, <1>10, <1>13, <1>16 DEF HintsOK
<1> QED BY <1>5, <1>12, <1>13, <1>15, <1>17 DEF Sound

(***************************************************************************)
(* freeBlock: from and to are the ends of what is free afterwards.  Its    *)
(* neighbours are used, since no two free subblocks met before.            *)
(***************************************************************************)
LEMMA FreeFacts ==
  ASSUME NEW a, ArenaOK(a), NEW s \in Filled(a.mark)
  PROVE  LET b == freeBlock(a, s)
             from == IF MergesPrev(a, s) THEN PrevBlock(a, s) ELSE s
         IN  /\ ArenaOK(b) /\ Loses(a, b, s) /\ Merges(a, b, from) /\ b.maxfree = a.maxfree
             /\ b.first = IF a.first > from THEN from ELSE a.first
<1>1. PICK M, L, n : M = a.mark /\ L = LastBlock(a) /\ n = After(M, s)
  OBVIOUS
<1>2. Chained(M, L) /\ s \in DOMAIN M \ {L} /\ s \in Nat /\ n = NextBlock(a, s) /\ M[s].next.fill
  BY <1>1, LastFacts, MarkFacts DEF ArenaOK, Filled, NextBlock, After
<1>3. /\ Linked(M, L, s) /\ n \in DOMAIN M /\ n \in Nat /\ n > s /\ M[n].prev = M[s].next
      /\ M[s].next.size \in Nat /\ M[s].next.size >= Threshold /\ n = s + M[s].next.size + 1
  BY <1>1, <1>2, MarkFacts DEF Chained, Linked, After
<1>4. PICK from : from = IF MergesPrev(a, s) THEN PrevBlock(a, s) ELSE s
  OBVIOUS
<1>5. PICK to : to = IF MergesNext(a, n) THEN NextBlock(a, n) ELSE n
  OBVIOUS
<1>6. /\ from \in DOMAIN M /\ from \in Nat /\ from <= s /\ from # L
      /\ M[from].next.size \in Nat
      /\ from # s => s = from + M[from].next.size + 1 /\ ~ M[from].next.fill
      /\ \A x \in DOMAIN M : x <= from \/ x >= s
      /\ from = 0 \/ M[from].prev.fill
  <2>1. CASE MergesPrev(a, s)
    <3>1. s # 0 /\ ~ M[s].prev.fill /\ from = Before(M, s)
      BY <1>1, <1>4, <2>1 DEF MergesPrev, PrevBlock, Before
    <3>2. from \in DOMAIN M \ {L} /\ from < s /\ After(M, from) = s /\ M[from].next = M[s].prev
      BY <1>2, <3>1, BeforeFacts
    <3>3. Linked(M, L, from) /\ from \in Nat /\ M[from].next.size \in Nat
      BY <1>2, <3>2, MarkFacts DEF Chained
    <3>4. from = 0 \/ M[from].prev.fill
      <4> SUFFICES ASSUME from # 0 PROVE M[from].prev.fill
        OBVIOUS
      <4>1. PICK p : p = Before(M, from)
        OBVIOUS
      <4>2. p \in DOMAIN M \ {L} /\ After(M, p) = from /\ M[p].next = M[from].prev
        BY <1>2, <3>2, <4>1, BeforeFacts
      <4>3. M[from].next # End /\ ~ M[from].next.fill
        BY <1>2, <3>1, <3>2, LastFacts
      <4>4. Linked(M, L, p)
        BY <1>2, <4>2 DEF Chained
      <4> QED BY <4>2, <4>3, <4>4 DEF Linked
    <3>5. s = from + M[from].next.size + 1
      BY <3>2 DEF After
    <3>6. \A x \in DOMAIN M : x <= from \/ x >= s
      BY <3>2, <3>3 DEF Linked
    <3>7. ~ M[from].next.fill /\ from <= s /\ from # L
      BY <1>2, <3>1, <3>2, <3>3
    <3> QED BY <3>2, <3>3, <3>4, <3>5, <3>6, <3>7
  <2>2. CASE ~ MergesPrev(a, s)
    <3>1. from = s /\ (s = 0 \/ M[s].prev = End \/ M[s].prev.fill)
      BY <1>1, <1>4, <2>2 DEF MergesPrev
    <3>2. M[s].prev = End => s = 0
      BY <1>2, LastFacts
    <3>3. \A x \in DOMAIN M : x \in Nat
      BY <1>2, MarkFacts
    <3> QED BY <1>2, <1>3, <3>1, <3>2, <3>3
  <2> QED BY <2>1, <2>2
<1>7. /\ to \in DOMAIN M /\ to \in Nat /\ n <= to
      /\ M[n].next.size \in Nat
      /\ to # n => to = n + M[n].next.size + 1 /\ ~ M[n].next.fill
      /\ \A x \in DOMAIN M : x <= n \/ x >= to
      /\ M[to].next = End \/ M[to].next.fill
  <2>1. CASE MergesNext(a, n)
    <3>1. M[n].next # End /\ ~ M[n].next.fill /\ to = After(M, n)
      BY <1>1, <1>5, <2>1 DEF MergesNext, NextBlock, After
    <3>2. n # L
      BY <1>2, <3>1 DEF Chained
    <3>3. Linked(M, L, n) /\ M[n].next.size \in Nat /\ to \in Nat /\ to > n
      BY <1>2, <1>3, <3>1, <3>2, MarkFacts DEF Chained
    <3>4. to = n + M[n].next.size + 1
      BY <3>1 DEF After
    <3> QED BY <1>3, <3>1, <3>3, <3>4 DEF Linked
  <2>2. CASE ~ MergesNext(a, n)
    <3>1. to = n /\ (M[n].next = End \/ M[n].next.fill)
      BY <1>1, <1>5, <2>2 DEF MergesNext
    <3>2. \A x \in DOMAIN M : x \in Nat /\ M[x].next.size \in Nat
      BY <1>2, MarkFacts
    <3> QED BY <1>3, <3>1, <3>2
  <2> QED BY <2>1, <2>2
<1>8. PICK size : size = (IF from = s THEN 0 ELSE M[from].next.size + 1) + M[s].next.size
                         + (IF to = n THEN 0 ELSE M[n].next.size + 1)
  OBVIOUS
<1>9. size \in Nat /\ size >= Threshold /\ to = from + size + 1
  <2>1. PICK u, v : /\ u = IF from = s THEN 0 ELSE M[from].next.size + 1
                    /\ v = IF to = n THEN 0 ELSE M[n].next.size + 1
    OBVIOUS
  <2>2. u \in Nat /\ v \in Nat /\ s = from + u /\ to = n + v
    BY <1>3, <1>6, <1>7, <1>2, <2>1
  <2>3. size = u + M[s].next.size + v
    BY <1>8, <2>1
  <2>4. PICK z : z = M[s].next.size
    OBVIOUS
  <2>5. z \in Nat /\ z >= Threshold /\ n = s + z + 1 /\ size = u + z + v /\ Threshold \in Nat
    BY <1>3, <2>3, <2>4, MallocAssumption
  <2>6. size \in Nat /\ size >= Threshold
    BY <2>2, <2>5
  <2>7. from \in Nat /\ s \in Nat /\ n \in Nat
    BY <1>2, <1>3, <1>6
  <2>8. to = from + size + 1
    BY <2>2, <2>5, <2>7
  <2> QED BY <2>6, <2>8
<1>10. PICK free : free = [fill |-> FALSE, size |-> size]
  OBVIOUS
<1>11. free \in Tag /\ free.size = size /\ ~ free.fill
  BY <1>9, <1>10 DEF Tag
<1>12. PICK N : N = [x \in DOMAIN M \ ({s, n} \ {from, to}) |->
                       CASE x = from -> [M[from] EXCEPT !.next = free]
                         [] x = to   -> [M[to] EXCEPT !.prev = free]
                         [] OTHER    -> M[x]]
  OBVIOUS
<1>13. PICK f : f = IF a.first > from THEN from ELSE a.first
  OBVIOUS
<1>14. PICK b : b = freeBlock(a, s)
  OBVIOUS
<1>15. b = [a EXCEPT !.mark = N, !.first = f]
  <2>1. freeBlock(a, s) = [a EXCEPT !.mark = N, !.first = IF @ > from THEN from ELSE @]
    BY <1>1, <1>2, <1>4, <1>5, <1>8, <1>10, <1>12, SMTT(20) DEF freeBlock, Marks
  <2> QED BY <1>13, <1>14, <2>1 DEF ArenaOK, Fields
<1>16. DOMAIN b = Fields /\ b.size = a.size /\ b.first = f /\ b.mark = N /\ b.maxfree = a.maxfree
  BY <1>15 DEF ArenaOK, Fields
<1>17. DOMAIN N = {x \in DOMAIN M : x <= from \/ x >= to}
  <2>1. DOMAIN N = DOMAIN M \ ({s, n} \ {from, to})
    BY <1>12
  <2>2. \A x \in DOMAIN M : x \in Nat /\ (x <= s \/ x >= n)
    BY <1>1, <1>2, <1>3, MarkFacts DEF Linked
  <2>3. \A x \in DOMAIN M : (x <= from \/ x >= to) <=> x \notin ({s, n} \ {from, to})
    <3> SUFFICES ASSUME NEW x \in DOMAIN M
                 PROVE  (x <= from \/ x >= to) <=> x \notin ({s, n} \ {from, to})
      OBVIOUS
    <3>1. x \in Nat /\ (x <= from \/ x >= s) /\ (x <= s \/ x >= n) /\ (x <= n \/ x >= to)
      BY <1>6, <1>7, <2>2
    <3> QED BY <1>2, <1>3, <1>6, <1>7, <3>1
  <2> QED BY <2>1, <2>3
<1>18. from \in DOMAIN N /\ to \in DOMAIN N /\ from < to
  BY <1>3, <1>2, <1>6, <1>7, <1>17
<1>19. /\ N[from] = [M[from] EXCEPT !.next = free] /\ N[to] = [M[to] EXCEPT !.prev = free]
       /\ \A x \in DOMAIN N \ {from, to} : N[x] = M[x]
  BY <1>6, <1>7, <1>12, <1>18
<1>20. /\ N[from].next = free /\ N[from].prev = M[from].prev /\ N[to].prev = free /\ N[to].next = M[to].next
       /\ N[from] \in Mark /\ N[to] \in Mark
  <2>1. M[from] \in Mark /\ M[to] \in Mark
    BY <1>2, <1>6, <1>7, MarkFacts
  <2> QED BY <1>11, <1>19, <2>1 DEF Mark
<1>21. N \in [DOMAIN N -> Mark]
  <2>1. \A x \in DOMAIN N : N[x] \in Mark
    BY <1>2, <1>17, <1>19, <1>20, MarkFacts
  <2> QED BY <1>12, <2>1
<1>22. Chained(N, L)
  <2>1. IsJoin(M, from, to, free, N)
    BY <1>6, <1>7, <1>9, <1>11, <1>17, <1>19, <1>20, <1>21 DEF IsJoin
  <2> QED BY <1>2, <1>6, <1>7, <2>1, Join
<1>23. f \in DOMAIN N
  <2>1. a.first \in DOMAIN M /\ \A x \in DOMAIN M : x \in Nat
    BY <1>1, <1>2, MarkFacts DEF ArenaOK, Marks
  <2> QED BY <1>6, <1>13, <1>17, <1>18, <2>1
<1>24. ArenaOK(b)
  <2>1. LastBlock(b) = L
    BY <1>1, <1>16 DEF LastBlock
  <2> QED BY <1>16, <1>22, <1>23, <2>1 DEF ArenaOK, Marks
<1>25. Loses(a, b, s)
  <2>1. \A x \in DOMAIN M \ DOMAIN N : x = s \/ ~ M[x].next.fill
    <3> SUFFICES ASSUME NEW x \in DOMAIN M, x \notin DOMAIN N, x # s PROVE ~ M[x].next.fill
      OBVIOUS
    <3>1. x = n /\ n # to
      BY <1>12
    <3> QED BY <1>7, <3>1
  <2>2. s \in DOMAIN N => s = from
    BY <1>6, <1>3, <1>2, <1>7, <1>17
  <2>3. from # s => ~ M[from].next.fill
    BY <1>6
  <2>4. \A x \in DOMAIN N \ {from} : x \in DOMAIN M /\ N[x].next = M[x].next
    BY <1>17, <1>19, <1>20
  <2>5. Filled(N) = Filled(M) \ {s}
    BY <1>11, <1>18, <1>20, <2>1, <2>2, <2>3, <2>4 DEF Filled
  <2>6. \A x \in Filled(N) : N[x].next = M[x].next
    BY <1>11, <1>20, <2>4 DEF Filled
  <2> QED BY <1>1, <1>16, <2>5, <2>6 DEF Loses
<1>26. Merges(a, b, from)
  <2>1. from \in Free(N) /\ N[from].next.size = size
    <3>1. free # End
      BY <1>9, <1>11, EndFacts, MallocAssumption
    <3> QED BY <1>11, <1>18, <1>20, <3>1 DEF Free
  <2>2. \A x \in DOMAIN N \ {from} : x \in DOMAIN M /\ N[x].next = M[x].next
    BY <1>17, <1>19, <1>20
  <2>3. \A x \in Free(N) \ {from} : x \in Free(M) /\ N[x].next = M[x].next
    BY <2>2 DEF Free
  <2>4. ASSUME NEW x \in Free(M)
        PROVE  \/ x \in Free(N) \ {from} /\ N[x].next = M[x].next
               \/ M[x].next.size <= N[from].next.size
    <3>1. CASE x = from
      <4>1. from # s
        BY <1>2, <3>1 DEF Free
      <4>2. s = from + M[from].next.size + 1
        BY <1>6, <4>1
      <4>3. M[from].next.size <= size
        <5>1. PICK z : z = M[from].next.size
          OBVIOUS
        <5>2. z \in Nat /\ s = from + z + 1 /\ from \in Nat /\ size \in Nat /\ to = from + size + 1
              /\ s \in Nat /\ n \in Nat /\ to \in Nat /\ s < n /\ n <= to
          BY <1>2, <1>3, <1>6, <1>7, <1>9, <4>2, <5>1
        <5>3. z <= size
          BY <5>2
        <5> QED BY <5>1, <5>3
      <4> QED BY <2>1, <3>1, <4>3
    <3>2. CASE x \notin DOMAIN N
      <4>1. x = n /\ n # to
        BY <1>2, <1>12, <3>2 DEF Free
      <4>2. to = n + M[n].next.size + 1
        BY <1>7, <4>1
      <4>3. M[n].next.size <= size
        BY <1>2, <1>3, <1>6, <1>7, <1>9, <4>2
      <4> QED BY <2>1, <4>1, <4>3
    <3>3. CASE x # from /\ x \in DOMAIN N
      BY <2>2, <3>3 DEF Free
    <3> QED BY <3>1, <3>2, <3>3
  <2> QED BY <1>1, <1>16, <2>1, <2>3, <2>4 DEF Merges
<1> QED BY <1>4, <1>13, <1>14, <1>16, <1>24, <1>25, <1>26

\* customFree and FreeDynarecMap in an arena.
LEMMA ReleasedFacts ==
  ASSUME NEW a, Sound(a), NEW s \in Filled(a.mark)
  PROVE  Sound(Released(a, s)) /\ Loses(a, Released(a, s), s)
<1>1. ArenaOK(a) /\ HintsOK(a)
  BY DEF Sound
<1>2. PICK b, from : b = freeBlock(a, s) /\ from = IF MergesPrev(a, s) THEN PrevBlock(a, s) ELSE s
  OBVIOUS
<1>3. /\ ArenaOK(b) /\ Loses(a, b, s) /\ Merges(a, b, from) /\ b.maxfree = a.maxfree
      /\ b.first = IF a.first > from THEN from ELSE a.first
  BY <1>1, <1>2, FreeFacts
<1>4. PICK new : new = b.mark[from].next.size
  OBVIOUS
<1>5. PICK m : m = IF b.maxfree < new THEN new ELSE b.maxfree
  OBVIOUS
<1>6. Released(a, s) = [b EXCEPT !.maxfree = m]
  BY <1>2, <1>4, <1>5 DEF Released
<1>7. PICK c : c = Released(a, s)
  OBVIOUS
<1>8. DOMAIN c = Fields /\ c.size = b.size /\ c.first = b.first /\ c.mark = b.mark /\ c.maxfree = m
  BY <1>3, <1>6, <1>7 DEF ArenaOK, Fields
<1>9. ArenaOK(c)
  BY <1>3, <1>8 DEF ArenaOK, LastBlock, Marks
<1>10. /\ \A x \in Free(a.mark) : x \in Nat /\ a.mark[x].next.size \in Nat
       /\ \A x \in Free(b.mark) : x \in Nat /\ b.mark[x].next.size \in Nat
       /\ a.first \in Nat /\ a.maxfree \in Nat /\ from \in Free(b.mark) /\ from \in Nat /\ new \in Nat
  BY <1>1, <1>3, <1>4, FreeFromFacts, MarkFacts DEF ArenaOK, Marks, Merges, HintsOK, IsMax
<1>11. \A x \in Free(b.mark) : x >= b.first
  <2> SUFFICES ASSUME NEW x \in Free(b.mark) PROVE x >= b.first
    OBVIOUS
  <2>1. x = from \/ x >= a.first
    BY <1>1, <1>3 DEF Merges, HintsOK
  <2>2. x \in Nat /\ from \in Nat /\ a.first \in Nat
    BY <1>10
  <2>3. CASE a.first > from
    BY <1>3, <2>1, <2>2, <2>3
  <2>4. CASE ~ (a.first > from)
    BY <1>3, <2>1, <2>2, <2>4
  <2> QED BY <2>3, <2>4
<1>12. IsMax(b.mark, m)
  <2>1. m \in Nat /\ m >= new /\ m >= a.maxfree /\ (m = new \/ m = a.maxfree)
    BY <1>3, <1>5, <1>10
  <2>2. \A x \in Free(b.mark) : b.mark[x].next.size <= m
    <3> SUFFICES ASSUME NEW x \in Free(b.mark) PROVE b.mark[x].next.size <= m
      OBVIOUS
    <3>1. CASE x = from
      BY <1>4, <1>10, <2>1, <3>1
    <3>2. CASE x # from
      <4>1. x \in Free(a.mark) /\ b.mark[x].next = a.mark[x].next
        BY <1>3, <3>2 DEF Merges
      <4>2. a.mark[x].next.size <= a.maxfree
        BY <1>1, <4>1 DEF HintsOK, IsMax
      <4>3. b.mark[x].next.size = a.mark[x].next.size /\ a.mark[x].next.size \in Nat
        BY <1>10, <4>1
      <4>4. a.maxfree \in Nat
        BY <1>10
      <4> QED BY <2>1, <4>2, <4>3, <4>4
    <3> QED BY <3>1, <3>2
  <2>3. CASE m = new
    BY <1>4, <1>10, <2>1, <2>2, <2>3 DEF IsMax
  <2>4. CASE m # new
    <3>1. m = a.maxfree /\ m > new /\ m # 0
      BY <1>10, <2>1, <2>4
    <3>2. PICK x \in Free(a.mark) : a.mark[x].next.size = m
      BY <1>1, <3>1 DEF HintsOK, IsMax
    <3>3. ~ (a.mark[x].next.size <= b.mark[from].next.size)
      BY <1>4, <1>10, <3>1, <3>2
    <3>4. x \in Free(b.mark) /\ b.mark[x].next = a.mark[x].next
      BY <1>3, <3>3 DEF Merges
    <3> QED BY <2>1, <2>2, <3>2, <3>4 DEF IsMax
  <2> QED BY <2>3, <2>4
<1>13. Sound(c)
  BY <1>8, <1>9, <1>11, <1>12 DEF Sound, HintsOK
<1> QED BY <1>3, <1>7, <1>8, <1>13 DEF Loses

\* expandBlock that said yes.
LEMMA ExpandedFacts ==
  ASSUME NEW a, Sound(a), NEW s \in Marks(a), NEW size
  PROVE  Sound(Expanded(a, s, size)) /\ Expanded(a, s, size).mark = a.mark
<1>1. ArenaOK(a) /\ HintsOK(a)
  BY DEF Sound
<1>2. PICK f : f = IF s < a.first /\ s + 1 + size + 1 >= a.first THEN getNextFreeBlock(a, s) ELSE a.first
  OBVIOUS
<1>3. a.first \in Nat /\ s \in Nat /\ \A x \in Free(a.mark) : x \in Nat
  BY <1>1, FreeFromFacts, MarkFacts DEF ArenaOK, Marks
<1>4. f \in Marks(a) /\ \A x \in Free(a.mark) : x >= f
  <2>1. CASE f = a.first
    BY <1>1, <2>1 DEF ArenaOK, HintsOK
  <2>2. CASE f # a.first
    <3>1. s < a.first /\ f = getNextFreeBlock(a, s)
      BY <1>2, <2>2
    <3>2. \A x \in Free(a.mark) : x >= s
      BY <1>1, <1>3, <3>1 DEF HintsOK
    <3> QED BY <1>1, <3>1, <3>2, NextFreeFacts DEF ArenaOK
  <2> QED BY <2>1, <2>2
<1>5. PICK b : b = [a EXCEPT !.first = f]
  OBVIOUS
<1>6. b.mark = a.mark /\ b.first = f /\ LastBlock(b) = LastBlock(a)
  BY <1>1, <1>5 DEF ArenaOK, Fields, LastBlock
<1>7. PICK m : m = getMaxFreeBlock(b, b.first)
  OBVIOUS
<1>8. IsMax(a.mark, m)
  BY <1>1, <1>4, <1>6, <1>7, MaxFreeFacts DEF ArenaOK
<1>9. PICK c : c = Expanded(a, s, size)
  OBVIOUS
<1>10. c = Hinted(a, f, m)
  BY <1>2, <1>5, <1>7, <1>9 DEF Expanded, Hinted
<1>11. ArenaOK(c) /\ c.mark = a.mark /\ c.first = f /\ c.maxfree = m
  BY <1>1, <1>4, <1>10, HintFacts
<1> QED BY <1>4, <1>8, <1>9, <1>11 DEF Sound, HintsOK

-----------------------------------------------------------------------------
(***************************************************************************)
(* The heap: the arenas of both kinds, the subblocks of them in use and    *)
(* how large they are.                                                     *)
(***************************************************************************)
Heaps == {"blocks", "chunks"}

IsSeq(q) == \E S : q \in Seq(S)

HeapOK(H) == /\ H = [h \in Heaps |-> H[h]]
             /\ \A h \in Heaps : IsSeq(H[h]) /\ \A i \in DOMAIN H[h] : Sound(H[h][i])

Used(H) == {at \in Heaps \X Nat \X Nat : at[2] \in DOMAIN H[at[1]] /\ at[3] \in Filled(H[at[1]][at[2]].mark)}

Size(H, at) == H[at[1]][at[2]].mark[at[3]].next.size

\* Arena i of kind h is b now.
Put(H, h, i, b) == [H EXCEPT ![h] = [H[h] EXCEPT ![i] = b]]

LEMMA SeqFacts ==
  ASSUME NEW q, IsSeq(q)
  PROVE  Len(q) \in Nat /\ DOMAIN q = 1 .. Len(q)
BY DEF IsSeq

LEMMA SeqPut ==
  ASSUME NEW q, IsSeq(q), NEW i \in DOMAIN q, NEW b
  PROVE  LET r == [q EXCEPT ![i] = b]
         IN  IsSeq(r) /\ DOMAIN r = DOMAIN q /\ r[i] = b /\ \A j \in DOMAIN q \ {i} : r[j] = q[j]
<1>1. PICK S : q \in Seq(S)
  BY DEF IsSeq
<1>2. q \in Seq(S \union {b})
  BY <1>1, SeqMonotonic
<1>3. [q EXCEPT ![i] = b] \in Seq(S \union {b})
  BY <1>2, ExceptSeq
<1> QED BY <1>3 DEF IsSeq

LEMMA SeqGrow ==
  ASSUME NEW q, IsSeq(q), NEW b
  PROVE  LET r == Append(q, b)
         IN  /\ IsSeq(r) /\ DOMAIN r = DOMAIN q \union {Len(q) + 1} /\ r[Len(q) + 1] = b
             /\ \A j \in DOMAIN q : r[j] = q[j]
<1>1. PICK S : q \in Seq(S)
  BY DEF IsSeq
<1>2. q \in Seq(S \union {b}) /\ Len(q) \in Nat /\ DOMAIN q = 1 .. Len(q)
  BY <1>1, SeqMonotonic
<1>3. PICK r : r = Append(q, b)
  OBVIOUS
<1>4. /\ r \in Seq(S \union {b}) /\ Len(r) = Len(q) + 1 /\ r[Len(q) + 1] = b
      /\ \A j \in 1 .. Len(q) : r[j] = q[j]
  BY <1>2, <1>3, AppendProperties
<1>5. DOMAIN r = 1 .. Len(q) + 1 /\ 1 .. Len(q) + 1 = (1 .. Len(q)) \union {Len(q) + 1}
  BY <1>2, <1>4
<1> QED BY <1>2, <1>3, <1>4, <1>5 DEF IsSeq

\* Where something in use is.
LEMMA UsedFacts ==
  ASSUME NEW H, HeapOK(H)
  PROVE  /\ \A u \in Used(H) : /\ u = <<u[1], u[2], u[3]>> /\ u[1] \in Heaps /\ u[2] \in DOMAIN H[u[1]]
                               /\ u[3] \in Filled(H[u[1]][u[2]].mark) /\ u # <<>>
         /\ \A h \in Heaps : \A i, s : <<h, i, s>> \in Used(H)
              <=> i \in DOMAIN H[h] /\ s \in Filled(H[h][i].mark)
<1>1. ASSUME NEW u \in Used(H)
      PROVE  /\ u = <<u[1], u[2], u[3]>> /\ u[1] \in Heaps /\ u[2] \in DOMAIN H[u[1]]
             /\ u[3] \in Filled(H[u[1]][u[2]].mark) /\ u # <<>>
  BY DEF Used
<1>2. ASSUME NEW h \in Heaps, NEW i, NEW s
      PROVE  <<h, i, s>> \in Used(H) <=> i \in DOMAIN H[h] /\ s \in Filled(H[h][i].mark)
  <2>1. i \in DOMAIN H[h] => i \in Nat
    BY SeqFacts DEF HeapOK
  <2>2. ASSUME i \in DOMAIN H[h], s \in Filled(H[h][i].mark) PROVE s \in Nat
    BY <2>2, MarkFacts DEF HeapOK, Sound, ArenaOK, Filled
  <2>3. i \in DOMAIN H[h] /\ s \in Filled(H[h][i].mark) => <<h, i, s>> \in Used(H)
    BY <2>1, <2>2 DEF Used
  <2>4. <<h, i, s>> \in Used(H) => i \in DOMAIN H[h] /\ s \in Filled(H[h][i].mark)
    BY DEF Used
  <2> QED BY <2>3, <2>4
<1> QED BY <1>1, <1>2

\* An arena in its place.
LEMMA PutFacts ==
  ASSUME NEW H, HeapOK(H), NEW h \in Heaps, NEW i \in DOMAIN H[h], NEW b, Sound(b)
  PROVE  LET K == Put(H, h, i, b)
         IN  /\ HeapOK(K) /\ K[h][i] = b /\ \A g \in Heaps : DOMAIN K[g] = DOMAIN H[g]
             /\ \A g \in Heaps : \A j : j \in DOMAIN H[g] /\ <<g, j>> # <<h, i>> => K[g][j] = H[g][j]
<1>1. PICK r : r = [H[h] EXCEPT ![i] = b]
  OBVIOUS
<1>2. IsSeq(H[h])
  BY DEF HeapOK
<1>3. IsSeq(r) /\ DOMAIN r = DOMAIN H[h] /\ r[i] = b /\ \A j \in DOMAIN H[h] \ {i} : r[j] = H[h][j]
  BY <1>1, <1>2, SeqPut
<1>4. PICK K : K = Put(H, h, i, b)
  OBVIOUS
<1>5. K = [H EXCEPT ![h] = r]
  BY <1>1, <1>4 DEF Put
<1>6. DOMAIN H = Heaps
  BY DEF HeapOK
<1>7. K = [g \in Heaps |-> K[g]] /\ K[h] = r /\ \A g \in Heaps \ {h} : K[g] = H[g]
  BY <1>5, <1>6
<1>8. \A j \in DOMAIN r : Sound(r[j])
  BY <1>3 DEF HeapOK
<1>9. HeapOK(K)
  BY <1>3, <1>7, <1>8 DEF HeapOK
<1>10. \A g \in Heaps : DOMAIN K[g] = DOMAIN H[g]
  BY <1>3, <1>7
<1>11. ASSUME NEW g \in Heaps, NEW j, j \in DOMAIN H[g], <<g, j>> # <<h, i>> PROVE K[g][j] = H[g][j]
  <2>1. CASE g = h
    BY <1>3, <1>7, <1>11, <2>1
  <2>2. CASE g # h
    BY <1>7, <2>2
  <2> QED BY <2>1, <2>2
<1> QED BY <1>3, <1>4, <1>7, <1>9, <1>10, <1>11

(***************************************************************************)
(* What a step does to the memory in use: it gets some, or gives it back;  *)
(* all else that is in use stays where it is, and as large as it is.       *)
(***************************************************************************)
Gets(H, K, at, size) ==
  /\ HeapOK(K) /\ at \notin Used(H) /\ Used(K) = Used(H) \union {at}
  /\ Size(K, at) >= size /\ \A u \in Used(H) : Size(K, u) = Size(H, u)

Gives(H, K, at) ==
  /\ HeapOK(K) /\ Used(K) = Used(H) \ {at}
  /\ \A u \in Used(K) : Size(K, u) = Size(H, u)

\* An arena that gained a used subblock, in its place.
LEMMA PutGets ==
  ASSUME NEW H, HeapOK(H), NEW h \in Heaps, NEW i \in DOMAIN H[h], NEW b, Sound(b),
         NEW s, NEW size, Gains(H[h][i], b, s, size)
  PROVE  Gets(H, Put(H, h, i, b), <<h, i, s>>, size)
<1>1. PICK K, at : K = Put(H, h, i, b) /\ at = <<h, i, s>>
  OBVIOUS
<1>2. /\ HeapOK(K) /\ K[h][i] = b /\ \A g \in Heaps : DOMAIN K[g] = DOMAIN H[g]
      /\ \A g \in Heaps : \A j : j \in DOMAIN H[g] /\ <<g, j>> # <<h, i>> => K[g][j] = H[g][j]
  BY <1>1, PutFacts
<1>3. at \notin Used(H) /\ at \in Used(K) /\ Size(K, at) >= size
  <2>1. s \notin Filled(H[h][i].mark) /\ s \in Filled(b.mark) /\ b.mark[s].next.size >= size
    BY DEF Gains
  <2>2. Size(K, at) = b.mark[s].next.size
    BY <1>1, <1>2 DEF Size
  <2>3. <<h, i, s>> \notin Used(H)
    BY <2>1, UsedFacts
  <2>4. <<h, i, s>> \in Used(K)
    BY <1>2, <2>1, UsedFacts
  <2> QED BY <1>1, <2>1, <2>2, <2>3, <2>4
<1>4. ASSUME NEW u \in Used(H) PROVE u \in Used(K) /\ Size(K, u) = Size(H, u)
  <2>1. /\ u = <<u[1], u[2], u[3]>> /\ u[1] \in Heaps /\ u[2] \in DOMAIN H[u[1]]
        /\ u[3] \in Filled(H[u[1]][u[2]].mark)
    BY UsedFacts
  <2>2. /\ u[3] \in Filled(K[u[1]][u[2]].mark)
        /\ K[u[1]][u[2]].mark[u[3]].next = H[u[1]][u[2]].mark[u[3]].next
    <3>1. CASE u[1] = h /\ u[2] = i
      BY <1>2, <2>1, <3>1 DEF Gains
    <3>2. CASE ~ (u[1] = h /\ u[2] = i)
      <4>1. K[u[1]][u[2]] = H[u[1]][u[2]]
        BY <1>2, <2>1, <3>2
      <4> QED BY <2>1, <4>1
    <3> QED BY <3>1, <3>2
  <2>3. <<u[1], u[2], u[3]>> \in Used(K)
    BY <1>2, <2>1, <2>2, UsedFacts
  <2> QED BY <2>1, <2>2, <2>3 DEF Size
<1>5. ASSUME NEW u \in Used(K), u # at PROVE u \in Used(H)
  <2>1. /\ u = <<u[1], u[2], u[3]>> /\ u[1] \in Heaps /\ u[2] \in DOMAIN H[u[1]]
        /\ u[3] \in Filled(K[u[1]][u[2]].mark)
    BY <1>2, UsedFacts
  <2>2. u[3] \in Filled(H[u[1]][u[2]].mark)
    <3>1. CASE u[1] = h /\ u[2] = i
      <4>1. u[3] # s
        BY <1>1, <1>5, <2>1, <3>1
      <4> QED BY <1>2, <2>1, <3>1, <4>1 DEF Gains
    <3>2. CASE ~ (u[1] = h /\ u[2] = i)
      <4>1. K[u[1]][u[2]] = H[u[1]][u[2]]
        BY <1>2, <2>1, <3>2
      <4> QED BY <2>1, <4>1
    <3> QED BY <3>1, <3>2
  <2>3. <<u[1], u[2], u[3]>> \in Used(H)
    BY <2>1, <2>2, UsedFacts
  <2> QED BY <2>1, <2>3
<1> QED BY <1>1, <1>2, <1>3, <1>4, <1>5 DEF Gets

\* An arena that lost one.
LEMMA PutGives ==
  ASSUME NEW H, HeapOK(H), NEW h \in Heaps, NEW i \in DOMAIN H[h], NEW b, Sound(b),
         NEW s, Loses(H[h][i], b, s)
  PROVE  Gives(H, Put(H, h, i, b), <<h, i, s>>)
<1>1. PICK K, at : K = Put(H, h, i, b) /\ at = <<h, i, s>>
  OBVIOUS
<1>2. /\ HeapOK(K) /\ K[h][i] = b /\ \A g \in Heaps : DOMAIN K[g] = DOMAIN H[g]
      /\ \A g \in Heaps : \A j : j \in DOMAIN H[g] /\ <<g, j>> # <<h, i>> => K[g][j] = H[g][j]
  BY <1>1, PutFacts
<1>3. ASSUME NEW u \in Used(H), u # at PROVE u \in Used(K)
  <2>1. /\ u = <<u[1], u[2], u[3]>> /\ u[1] \in Heaps /\ u[2] \in DOMAIN H[u[1]]
        /\ u[3] \in Filled(H[u[1]][u[2]].mark)
    BY UsedFacts
  <2>2. u[3] \in Filled(K[u[1]][u[2]].mark)
    <3>1. CASE u[1] = h /\ u[2] = i
      <4>1. u[3] # s
        BY <1>1, <1>3, <2>1, <3>1
      <4> QED BY <1>2, <2>1, <3>1, <4>1 DEF Loses
    <3>2. CASE ~ (u[1] = h /\ u[2] = i)
      <4>1. K[u[1]][u[2]] = H[u[1]][u[2]]
        BY <1>2, <2>1, <3>2
      <4> QED BY <2>1, <4>1
    <3> QED BY <3>1, <3>2
  <2>3. <<u[1], u[2], u[3]>> \in Used(K)
    BY <1>2, <2>1, <2>2, UsedFacts
  <2> QED BY <2>1, <2>3
<1>4. ASSUME NEW u \in Used(K) PROVE u \in Used(H) /\ u # at /\ Size(K, u) = Size(H, u)
  <2>1. /\ u = <<u[1], u[2], u[3]>> /\ u[1] \in Heaps /\ u[2] \in DOMAIN H[u[1]]
        /\ u[3] \in Filled(K[u[1]][u[2]].mark)
    BY <1>2, UsedFacts
  <2>2. /\ u[3] \in Filled(H[u[1]][u[2]].mark) /\ u # at
        /\ K[u[1]][u[2]].mark[u[3]].next = H[u[1]][u[2]].mark[u[3]].next
    <3>1. CASE u[1] = h /\ u[2] = i
      <4>1. u[3] \in Filled(b.mark)
        BY <1>2, <2>1, <3>1
      <4>2. u[3] \in Filled(H[h][i].mark) /\ u[3] # s /\ b.mark[u[3]].next = H[h][i].mark[u[3]].next
        BY <4>1 DEF Loses
      <4> QED BY <1>1, <1>2, <2>1, <3>1, <4>2
    <3>2. CASE ~ (u[1] = h /\ u[2] = i)
      <4>1. K[u[1]][u[2]] = H[u[1]][u[2]] /\ u # at
        BY <1>1, <1>2, <2>1, <3>2
      <4> QED BY <2>1, <4>1
    <3> QED BY <3>1, <3>2
  <2>3. <<u[1], u[2], u[3]>> \in Used(H)
    BY <2>1, <2>2, UsedFacts
  <2> QED BY <2>1, <2>2, <2>3 DEF Size
<1> QED BY <1>1, <1>2, <1>3, <1>4 DEF Gives

\* A new arena with one subblock in use.
LEMMA GrowGets ==
  ASSUME NEW H, HeapOK(H), NEW h \in Heaps, NEW b, Sound(b), NEW size,
         Filled(b.mark) = {0}, b.mark[0].next.size >= size
  PROVE  Gets(H, [H EXCEPT ![h] = Append(H[h], b)], <<h, Len(H[h]) + 1, 0>>, size)
<1>1. PICK K, k, at, q : K = [H EXCEPT ![h] = q] /\ k = Len(H[h]) + 1 /\ at = <<h, k, 0>> /\ q = Append(H[h], b)
  OBVIOUS
<1>2. IsSeq(H[h]) /\ DOMAIN H = Heaps
  BY DEF HeapOK
<1>3. Len(H[h]) \in Nat /\ DOMAIN H[h] = 1 .. Len(H[h])
  BY <1>2, SeqFacts
<1>4. k \notin DOMAIN H[h]
  BY <1>1, <1>3
<1>5. IsSeq(q) /\ DOMAIN q = DOMAIN H[h] \union {k} /\ q[k] = b /\ \A j \in DOMAIN H[h] : q[j] = H[h][j]
  BY <1>1, <1>2, SeqGrow
<1>6. K = [g \in Heaps |-> K[g]] /\ K[h] = q /\ \A g \in Heaps \ {h} : K[g] = H[g]
  BY <1>1, <1>2
<1>7. \A j \in DOMAIN q : Sound(q[j])
  BY <1>5 DEF HeapOK
<1>8. HeapOK(K)
  BY <1>5, <1>6, <1>7 DEF HeapOK
<1>9. at \notin Used(H) /\ at \in Used(K) /\ Size(K, at) >= size
  <2>1. <<h, k, 0>> \notin Used(H)
    BY <1>4, UsedFacts
  <2>2. k \in DOMAIN K[h] /\ 0 \in Filled(K[h][k].mark)
    BY <1>5, <1>6
  <2>3. <<h, k, 0>> \in Used(K)
    BY <1>8, <2>2, UsedFacts
  <2>4. Size(K, at) = b.mark[0].next.size
    BY <1>1, <1>5, <1>6 DEF Size
  <2> QED BY <1>1, <2>1, <2>3, <2>4
<1>10. ASSUME NEW u \in Used(H) PROVE u \in Used(K) /\ Size(K, u) = Size(H, u)
  <2>1. /\ u = <<u[1], u[2], u[3]>> /\ u[1] \in Heaps /\ u[2] \in DOMAIN H[u[1]]
        /\ u[3] \in Filled(H[u[1]][u[2]].mark)
    BY UsedFacts
  <2>2. u[2] \in DOMAIN K[u[1]] /\ K[u[1]][u[2]] = H[u[1]][u[2]]
    <3>1. CASE u[1] = h
      BY <1>5, <1>6, <2>1, <3>1
    <3>2. CASE u[1] # h
      BY <1>6, <2>1, <3>2
    <3> QED BY <3>1, <3>2
  <2>3. <<u[1], u[2], u[3]>> \in Used(K)
    BY <1>8, <2>1, <2>2, UsedFacts
  <2> QED BY <2>1, <2>2, <2>3 DEF Size
<1>11. ASSUME NEW u \in Used(K), u # at PROVE u \in Used(H)
  <2>1. /\ u = <<u[1], u[2], u[3]>> /\ u[1] \in Heaps /\ u[2] \in DOMAIN K[u[1]]
        /\ u[3] \in Filled(K[u[1]][u[2]].mark)
    BY <1>8, UsedFacts
  <2>2. ~ (u[1] = h /\ u[2] = k)
    BY <1>1, <1>5, <1>6, <1>11, <2>1
  <2>3. u[2] \in DOMAIN H[u[1]] /\ K[u[1]][u[2]] = H[u[1]][u[2]]
    <3>1. CASE u[1] = h
      BY <1>5, <1>6, <2>1, <2>2, <3>1
    <3>2. CASE u[1] # h
      BY <1>6, <2>1, <3>2
    <3> QED BY <3>1, <3>2
  <2>4. <<u[1], u[2], u[3]>> \in Used(H)
    BY <2>1, <2>3, UsedFacts
  <2> QED BY <2>1, <2>4
<1> QED BY <1>1, <1>8, <1>9, <1>10, <1>11 DEF Gets

-----------------------------------------------------------------------------
\* customMalloc and AllocDynarecMap, in an arena with room or in a new one.
LEMMA AllocatedFacts ==
  ASSUME HeapOK(heap), NEW h \in Heaps, NEW size \in Nat, size >= Threshold
  PROVE  /\ Gets(heap, [heap EXCEPT ![h] = Allocated(h, size).arenas], Allocated(h, size).at, size)
         /\ Allocated(h, size).at[1] = h
<1>1. CASE Found(h, size) # {}
  <2>1. PICK i : i = Min(Found(h, size))
    OBVIOUS
  <2>2. Found(h, size) \in SUBSET Nat
    BY SeqFacts DEF HeapOK, Found
  <2>3. i \in Found(h, size)
    BY <1>1, <2>1, <2>2, MinFacts
  <2>4. PICK a : a = heap[h][i]
    OBVIOUS
  <2>5. i \in DOMAIN heap[h] /\ Sound(a) /\ Candidates(a, size) # {}
    BY <2>3, <2>4 DEF Found, HeapOK
  <2>6. PICK s : s = Min(Candidates(a, size))
    OBVIOUS
  <2>7. Candidates(a, size) \in SUBSET Nat
    BY <2>5, MarkFacts DEF Candidates, FreeFrom, Marks, Sound, ArenaOK
  <2>8. s \in Candidates(a, size)
    BY <2>5, <2>6, <2>7, MinFacts
  <2>9. PICK b : b = Taken(a, s, size)
    OBVIOUS
  <2>10. Sound(b) /\ Gains(heap[h][i], b, s, size)
    BY <2>4, <2>5, <2>8, <2>9, TakenFacts
  <2>11. Gets(heap, Put(heap, h, i, b), <<h, i, s>>, size)
    BY <2>5, <2>10, PutGets
  <2>12. /\ Allocated(h, size).arenas = [heap[h] EXCEPT ![i] = b]
         /\ Allocated(h, size).at = <<h, i, s>>
    BY <1>1, <2>1, <2>4, <2>6, <2>9 DEF Allocated
  <2> QED BY <2>11, <2>12 DEF Put
<1>2. CASE Found(h, size) = {}
  <2>1. PICK b : b = TakenNew(h, size)
    OBVIOUS
  <2>2. Sound(b) /\ Filled(b.mark) = {0} /\ b.mark[0].next.size >= size
    BY <2>1, TakenNewFacts
  <2>3. Gets(heap, [heap EXCEPT ![h] = Append(heap[h], b)], <<h, Len(heap[h]) + 1, 0>>, size)
    BY <2>2, GrowGets
  <2>4. /\ Allocated(h, size).arenas = Append(heap[h], b)
        /\ Allocated(h, size).at = <<h, Len(heap[h]) + 1, 0>>
    BY <1>2, <2>1 DEF Allocated
  <2> QED BY <2>3, <2>4
<1> QED BY <1>1, <1>2

\* customFree and FreeDynarecMap.
LEMMA ReleasedHeapFacts ==
  ASSUME HeapOK(heap), NEW at \in Used(heap)
  PROVE  Gives(heap, ReleasedHeap(at), at)
<1>1. PICK h, i, s : h = at[1] /\ i = at[2] /\ s = at[3]
  OBVIOUS
<1>2. at = <<h, i, s>> /\ h \in Heaps /\ i \in DOMAIN heap[h] /\ s \in Filled(heap[h][i].mark)
  BY <1>1, UsedFacts
<1>3. PICK a, b : a = heap[h][i] /\ b = Released(a, s)
  OBVIOUS
<1>4. Sound(a) /\ s \in Filled(a.mark)
  BY <1>2, <1>3 DEF HeapOK
<1>5. Sound(b) /\ Loses(heap[h][i], b, s)
  BY <1>3, <1>4, ReleasedFacts
<1>6. Gives(heap, Put(heap, h, i, b), <<h, i, s>>)
  BY <1>2, <1>5, PutGives
<1>7. ReleasedHeap(at) = Put(heap, h, i, b)
  BY <1>1, <1>3 DEF ReleasedHeap, Put
<1> QED BY <1>2, <1>6, <1>7

\* expandBlock that said yes changes nothing in use.
LEMMA ExpandedHeapFacts ==
  ASSUME HeapOK(heap), NEW at \in Used(heap), at[1] = "blocks", NEW size
  PROVE  LET K == [heap EXCEPT !["blocks"][at[2]] = Expanded(@, at[3], size)]
         IN  HeapOK(K) /\ Used(K) = Used(heap) /\ \A u \in Used(heap) : Size(K, u) = Size(heap, u)
<1>1. PICK i, s : i = at[2] /\ s = at[3]
  OBVIOUS
<1>2. i \in DOMAIN heap["blocks"] /\ s \in Filled(heap["blocks"][i].mark) /\ "blocks" \in Heaps
  BY <1>1, UsedFacts DEF Heaps
<1>3. PICK a, b : a = heap["blocks"][i] /\ b = Expanded(a, s, size)
  OBVIOUS
<1>4. Sound(a) /\ s \in Marks(a)
  BY <1>2, <1>3 DEF HeapOK, Marks, Filled
<1>5. Sound(b) /\ b.mark = a.mark
  BY <1>3, <1>4, ExpandedFacts
<1>6. PICK K : K = [heap EXCEPT !["blocks"][at[2]] = Expanded(@, at[3], size)]
  OBVIOUS
<1>7. K = Put(heap, "blocks", i, b)
  BY <1>1, <1>3, <1>6 DEF Put
<1>8. /\ HeapOK(K) /\ K["blocks"][i] = b /\ \A g \in Heaps : DOMAIN K[g] = DOMAIN heap[g]
      /\ \A g \in Heaps : \A j : j \in DOMAIN heap[g] /\ <<g, j>> # <<"blocks", i>> => K[g][j] = heap[g][j]
  BY <1>2, <1>5, <1>7, PutFacts
<1>9. \A g \in Heaps : \A j \in DOMAIN heap[g] : K[g][j].mark = heap[g][j].mark
  <2> SUFFICES ASSUME NEW g \in Heaps, NEW j \in DOMAIN heap[g] PROVE K[g][j].mark = heap[g][j].mark
    OBVIOUS
  <2>1. CASE g = "blocks" /\ j = i
    BY <1>3, <1>5, <1>8, <2>1
  <2>2. CASE ~ (g = "blocks" /\ j = i)
    BY <1>8, <2>2
  <2> QED BY <2>1, <2>2
<1>10. \A u \in Heaps \X Nat \X Nat : u \in Used(K) <=> u \in Used(heap)
  BY <1>8, <1>9 DEF Used
<1>11. Used(K) = Used(heap)
  BY <1>10 DEF Used
<1>12. ASSUME NEW u \in Used(heap) PROVE Size(K, u) = Size(heap, u)
  <2>1. u[1] \in Heaps /\ u[2] \in DOMAIN heap[u[1]]
    BY UsedFacts
  <2> QED BY <1>9, <2>1 DEF Size
<1> QED BY <1>6, <1>8, <1>11, <1>12

-----------------------------------------------------------------------------
(***************************************************************************)
(* The invariant.  What a thread in customRealloc holds is in use, nobody  *)
(* else in customRealloc holds it, and until the copy it is smaller than   *)
(* what the thread asks for.                                               *)
(***************************************************************************)
LiveInv(H, LV) ==
  /\ {x.at : x \in LV} = Used(H)
  /\ \A x, y \in LV : x.at = y.at => x = y
  /\ \A x \in LV : DOMAIN x = {"at", "size"} /\ x.size \in Nat /\ Size(H, x.at) >= x.size

ReOK(H, r) ==
  /\ DOMAIN r = {"pc", "at", "to", "size"} /\ r.pc \in {"idle", "malloc", "copy"}
  /\ r.pc = "idle" => r.at = <<>>
  /\ r.pc # "copy" => r.to = <<>>
  /\ r.pc # "idle" => r.at \in Used(H) /\ r.at[1] = "blocks"
  /\ r.pc = "malloc" => r.size \in Nat /\ Size(H, r.at) < roundSize(r.size)
  /\ r.pc = "copy" => /\ r.to \in Used(H) /\ r.to[1] = "blocks" /\ r.to # r.at
                      /\ Size(H, r.at) <= Size(H, r.to)

Apart(R) == \A t, u \in Threads : t # u =>
              \A p : p \in {R[t].at, R[t].to} /\ p \in {R[u].at, R[u].to} => p = <<>>

ReInv(H, R) == /\ DOMAIN R = Threads /\ R = [t \in Threads |-> R[t]]
               /\ \A t \in Threads : ReOK(H, R[t])
               /\ Apart(R)

MallocInv == HeapOK(heap) /\ LiveInv(heap, live) /\ ReInv(heap, re)

LEMMA RoundFacts ==
  ASSUME NEW n \in Nat
  PROVE  roundSize(n) \in Nat /\ roundSize(n) >= Threshold /\ roundSize(n) >= n
BY MallocAssumption DEF roundSize

LEMMA SizeFacts ==
  ASSUME NEW H, HeapOK(H), NEW u \in Used(H)
  PROVE  Size(H, u) \in Nat
<1>1. u[1] \in Heaps /\ u[2] \in DOMAIN H[u[1]] /\ u[3] \in Filled(H[u[1]][u[2]].mark)
  BY UsedFacts
<1>2. PICK a : a = H[u[1]][u[2]]
  OBVIOUS
<1>3. Sound(a) /\ u[3] \in DOMAIN a.mark
  BY <1>1, <1>2 DEF HeapOK, Filled
<1> QED BY <1>2, <1>3, MarkFacts DEF Size, Sound, ArenaOK

\* A thread in customRealloc does not notice a step that leaves what it holds alone.
LEMMA ReKeep ==
  ASSUME NEW H, NEW K, NEW r, ReOK(H, r),
         \A p \in {r.at, r.to} : p \in Used(H) => p \in Used(K) /\ Size(K, p) = Size(H, p)
  PROVE  ReOK(K, r)
BY DEF ReOK

\* Memory that is got is new to everybody.
LEMMA GetsKeeps ==
  ASSUME NEW H, NEW K, HeapOK(H), NEW at, NEW n \in Nat, NEW size, size >= n, size \in Nat,
         Gets(H, K, at, size), NEW LV, LiveInv(H, LV), NEW R, ReInv(H, R)
  PROVE  /\ HeapOK(K) /\ LiveInv(K, LV \union {[at |-> at, size |-> n]}) /\ ReInv(K, R)
<1>1. PICK x, W : x = [at |-> at, size |-> n] /\ W = LV \union {x}
  OBVIOUS
<1>2. x.at = at /\ x.size = n /\ DOMAIN x = {"at", "size"}
  BY <1>1
<1>3. HeapOK(K) /\ at \notin Used(H) /\ Used(K) = Used(H) \union {at} /\ Size(K, at) >= size
      /\ \A u \in Used(H) : Size(K, u) = Size(H, u)
  BY DEF Gets
<1>4. Size(K, at) \in Nat
  BY <1>3, SizeFacts
<1>5. \A y \in LV : y.at \in Used(H) /\ y.at # at
  BY <1>3 DEF LiveInv
<1>6. {y.at : y \in W} = Used(K)
  BY <1>1, <1>2, <1>3 DEF LiveInv
<1>7. \A y, z \in W : y.at = z.at => y = z
  BY <1>1, <1>2, <1>5 DEF LiveInv
<1>8. \A y \in W : DOMAIN y = {"at", "size"} /\ y.size \in Nat /\ Size(K, y.at) >= y.size
  <2> SUFFICES ASSUME NEW y \in W
               PROVE  DOMAIN y = {"at", "size"} /\ y.size \in Nat /\ Size(K, y.at) >= y.size
    OBVIOUS
  <2>1. CASE y = x
    BY <1>2, <1>3, <1>4, <2>1
  <2>2. CASE y \in LV
    BY <1>3, <1>5, <2>2 DEF LiveInv
  <2> QED BY <1>1, <2>1, <2>2
<1>9. \A t \in Threads : ReOK(K, R[t])
  BY <1>3, ReKeep DEF ReInv
<1> QED BY <1>1, <1>3, <1>6, <1>7, <1>8, <1>9 DEF LiveInv, ReInv

\* Memory that is given back.
LEMMA GivesKeeps ==
  ASSUME NEW H, NEW K, NEW at, Gives(H, K, at), NEW LV, LiveInv(H, LV)
  PROVE  HeapOK(K) /\ LiveInv(K, {y \in LV : y.at # at})
<1>1. PICK W : W = {y \in LV : y.at # at}
  OBVIOUS
<1>2. HeapOK(K) /\ Used(K) = Used(H) \ {at} /\ \A u \in Used(K) : Size(K, u) = Size(H, u)
  BY DEF Gives
<1>3. \A y \in W : y \in LV /\ y.at \in Used(K)
  BY <1>1, <1>2 DEF LiveInv
<1>4. {y.at : y \in W} = Used(K)
  <2>1. ASSUME NEW u \in Used(K) PROVE \E y \in W : y.at = u
    <3>1. u \in Used(H) /\ u # at
      BY <1>2
    <3>2. PICK y \in LV : y.at = u
      BY <3>1 DEF LiveInv
    <3> QED BY <1>1, <3>1, <3>2
  <2> QED BY <1>3, <2>1
<1>5. \A y, z \in W : y.at = z.at => y = z
  BY <1>3 DEF LiveInv
<1>6. \A y \in W : DOMAIN y = {"at", "size"} /\ y.size \in Nat /\ Size(K, y.at) >= y.size
  BY <1>2, <1>3 DEF LiveInv
<1> QED BY <1>1, <1>2, <1>4, <1>5, <1>6 DEF LiveInv

\* What the caller frees is held by nobody in customRealloc.
LEMMA FreeKeeps ==
  ASSUME HeapOK(heap), LiveInv(heap, live), ReInv(heap, re), NEW x \in live,
         \A t \in Threads : x.at \notin {re[t].at, re[t].to}
  PROVE  /\ HeapOK(ReleasedHeap(x.at)) /\ LiveInv(ReleasedHeap(x.at), live \ {x})
         /\ ReInv(ReleasedHeap(x.at), re)
<1>1. x.at \in Used(heap)
  BY DEF LiveInv
<1>2. PICK K : K = ReleasedHeap(x.at)
  OBVIOUS
<1>3. Gives(heap, K, x.at)
  BY <1>1, <1>2, ReleasedHeapFacts
<1>4. live \ {x} = {y \in live : y.at # x.at}
  BY DEF LiveInv
<1>5. HeapOK(K) /\ LiveInv(K, live \ {x})
  BY <1>3, <1>4, GivesKeeps
<1>6. ASSUME NEW t \in Threads PROVE ReOK(K, re[t])
  <2>1. \A p \in {re[t].at, re[t].to} : p \in Used(heap) => p \in Used(K) /\ Size(K, p) = Size(heap, p)
    BY <1>3 DEF Gives
  <2> QED BY <2>1, ReKeep DEF ReInv
<1> QED BY <1>2, <1>5, <1>6 DEF ReInv

-----------------------------------------------------------------------------
\* Nothing is allocated at the start.
LEMMA InitInv == Init => MallocInv
<1> SUFFICES ASSUME Init PROVE MallocInv
  OBVIOUS
<1>1. heap = [h \in Heaps |-> <<>>] /\ live = {} /\ re = [t \in Threads |-> NoRealloc]
  BY DEF Init, Heaps
<1>2. \A h \in Heaps : heap[h] = <<>>
  BY <1>1
<1>3. IsSeq(<<>>)
  BY EmptySeq DEF IsSeq
<1>4. HeapOK(heap)
  BY <1>1, <1>2, <1>3 DEF HeapOK
<1>5. Used(heap) = {}
  BY <1>2, <1>4, UsedFacts
<1>6. LiveInv(heap, live)
  BY <1>1, <1>5 DEF LiveInv
<1>7. ReOK(heap, NoRealloc)
  BY DEF ReOK, NoRealloc
<1>8. ReInv(heap, re)
  BY <1>1, <1>7 DEF ReInv, Apart, NoRealloc
<1> QED BY <1>4, <1>6, <1>8 DEF MallocInv

\* customMalloc and AllocDynarecMap.
LEMMA MallocKeeps ==
  ASSUME MallocInv, NEW h \in Heaps, NEW n \in Requests,
         heap' = [heap EXCEPT ![h] = Allocated(h, roundSize(n)).arenas],
         live' = live \union {[at |-> Allocated(h, roundSize(n)).at, size |-> n]}, UNCHANGED re
  PROVE  MallocInv'
<1>1. n \in Nat /\ roundSize(n) \in Nat /\ roundSize(n) >= Threshold /\ roundSize(n) >= n
  BY RoundFacts, MallocAssumption
<1>2. Gets(heap, heap', Allocated(h, roundSize(n)).at, roundSize(n))
  BY <1>1, AllocatedFacts DEF MallocInv
<1>3. HeapOK(heap') /\ LiveInv(heap', live') /\ ReInv(heap', re)
  <2>1. PICK at, size : at = Allocated(h, roundSize(n)).at /\ size = roundSize(n)
    OBVIOUS
  <2>2. HeapOK(heap) /\ LiveInv(heap, live) /\ ReInv(heap, re) /\ Gets(heap, heap', at, size)
    BY <1>2, <2>1 DEF MallocInv
  <2>3. n \in Nat /\ size \in Nat /\ size >= n /\ live' = live \union {[at |-> at, size |-> n]}
    BY <1>1, <2>1
  <2> QED BY <2>2, <2>3, GetsKeeps
<1> QED BY <1>3 DEF MallocInv

\* customRealloc, when expandBlock says yes.
LEMMA ExpandKeeps ==
  ASSUME MallocInv, NEW x \in live, NEW n \in Requests, x.at[1] = "blocks", Expands(x.at, roundSize(n)),
         heap' = [heap EXCEPT !["blocks"][x.at[2]] = Expanded(@, x.at[3], roundSize(n))],
         live' = (live \ {x}) \union {[x EXCEPT !.size = n]}, UNCHANGED re
  PROVE  MallocInv'
<1>1. n \in Nat /\ roundSize(n) \in Nat /\ roundSize(n) >= n
  BY RoundFacts, MallocAssumption
<1>2. /\ HeapOK(heap) /\ LiveInv(heap, live) /\ ReInv(heap, re)
      /\ x.at \in Used(heap) /\ DOMAIN x = {"at", "size"}
  BY DEF MallocInv, LiveInv
<1>3. HeapOK(heap') /\ Used(heap') = Used(heap) /\ \A u \in Used(heap) : Size(heap', u) = Size(heap, u)
  BY <1>2, ExpandedHeapFacts
<1>4. PICK y : y = [x EXCEPT !.size = n]
  OBVIOUS
<1>5. y.at = x.at /\ y.size = n /\ DOMAIN y = {"at", "size"}
  BY <1>2, <1>4
<1>6. Size(heap, x.at) >= n
  <2>1. Size(heap, x.at) >= roundSize(n)
    BY DEF Expands, sizeBlock, Size
  <2> QED BY <1>1, <1>2, <2>1, SizeFacts
<1>7. live' = (live \ {x}) \union {y} /\ \A z \in live \ {x} : z.at # x.at
  BY <1>2, <1>4 DEF LiveInv
<1>8. {z.at : z \in live'} = Used(heap')
  <2>1. {z.at : z \in live'} = {z.at : z \in live}
    BY <1>5, <1>7
  <2> QED BY <1>2, <1>3, <2>1 DEF LiveInv
<1>9. \A z, w \in live' : z.at = w.at => z = w
  BY <1>2, <1>5, <1>7 DEF LiveInv
<1>10. \A z \in live' : DOMAIN z = {"at", "size"} /\ z.size \in Nat /\ Size(heap', z.at) >= z.size
  <2> SUFFICES ASSUME NEW z \in live'
               PROVE  DOMAIN z = {"at", "size"} /\ z.size \in Nat /\ Size(heap', z.at) >= z.size
    OBVIOUS
  <2>1. CASE z = y
    BY <1>1, <1>2, <1>3, <1>5, <1>6, <2>1
  <2>2. CASE z \in live
    <3>1. z.at \in Used(heap) /\ DOMAIN z = {"at", "size"} /\ z.size \in Nat /\ Size(heap, z.at) >= z.size
      BY <1>2, <2>2 DEF LiveInv
    <3> QED BY <1>3, <3>1
  <2> QED BY <1>7, <2>1, <2>2
<1>11. \A t \in Threads : ReOK(heap', re[t])
  <2> SUFFICES ASSUME NEW t \in Threads PROVE ReOK(heap', re[t])
    OBVIOUS
  <2>1. \A p \in {re[t].at, re[t].to} : p \in Used(heap) => p \in Used(heap') /\ Size(heap', p) = Size(heap, p)
    BY <1>3
  <2>2. ReOK(heap, re[t])
    BY <1>2 DEF ReInv
  <2> QED BY <2>1, <2>2, ReKeep
<1>12. LiveInv(heap', live')
  BY <1>8, <1>9, <1>10 DEF LiveInv
<1>13. ReInv(heap', re)
  BY <1>2, <1>11 DEF ReInv
<1> QED BY <1>3, <1>12, <1>13 DEF MallocInv

\* customRealloc, when it says no.
LEMMA ReallocKeeps ==
  ASSUME MallocInv, NEW t \in Threads, NEW x \in live, NEW n \in Requests, x.at[1] = "blocks", Mine(x),
         ~ Expands(x.at, roundSize(n)), UNCHANGED <<heap, live>>,
         re' = [re EXCEPT ![t] = [pc |-> "malloc", at |-> x.at, to |-> <<>>, size |-> n]]
  PROVE  MallocInv'
<1>1. n \in Nat /\ roundSize(n) \in Nat
  BY RoundFacts, MallocAssumption
<1>2. HeapOK(heap) /\ LiveInv(heap, live) /\ ReInv(heap, re) /\ x.at \in Used(heap)
  BY DEF MallocInv, LiveInv
<1>3. PICK r : r = [pc |-> "malloc", at |-> x.at, to |-> <<>>, size |-> n]
  OBVIOUS
<1>4. Size(heap, x.at) < roundSize(n)
  <2>1. ~ (Size(heap, x.at) >= roundSize(n))
    BY DEF Expands, sizeBlock, Size
  <2> QED BY <1>1, <1>2, <2>1, SizeFacts
<1>5. ReOK(heap, r) /\ r.at = x.at /\ r.to = <<>>
  BY <1>1, <1>2, <1>3, <1>4 DEF ReOK
<1>6. re' = [re EXCEPT ![t] = r] /\ DOMAIN re = Threads
  BY <1>2, <1>3 DEF ReInv
<1>7. DOMAIN re' = Threads /\ re' = [u \in Threads |-> re'[u]] /\ re'[t] = r /\ \A u \in Threads \ {t} : re'[u] = re[u]
  BY <1>6
<1>8. \A u \in Threads : ReOK(heap, re'[u])
  BY <1>2, <1>5, <1>7 DEF ReInv
<1>9. Apart(re')
  <2>1. \A u \in Threads : x.at \notin {re[u].at, re[u].to}
    BY DEF Mine
  <2> SUFFICES ASSUME NEW u \in Threads, NEW v \in Threads, u # v,
                      NEW p \in {re'[u].at, re'[u].to}, p \in {re'[v].at, re'[v].to}
               PROVE  p = <<>>
    BY DEF Apart
  <2>2. CASE u = t
    BY <1>5, <1>7, <2>1, <2>2
  <2>3. CASE v = t
    BY <1>5, <1>7, <2>1, <2>3
  <2>4. CASE u # t /\ v # t
    BY <1>2, <1>7, <2>4 DEF ReInv, Apart
  <2> QED BY <2>2, <2>3, <2>4
<1>10. ReInv(heap, re')
  BY <1>7, <1>8, <1>9 DEF ReInv
<1> QED BY <1>2, <1>10 DEF MallocInv

\* The malloc of customRealloc: what it gets is larger than what it had.
LEMMA ReallocMallocKeeps ==
  ASSUME MallocInv, NEW t \in Threads, ReallocMalloc(t)
  PROVE  MallocInv'
<1>1. HeapOK(heap) /\ LiveInv(heap, live) /\ ReInv(heap, re) /\ re[t].pc = "malloc"
  BY DEF MallocInv, ReallocMalloc
<1>2. PICK n, size, at : n = re[t].size /\ size = roundSize(n) /\ at = Allocated("blocks", size).at
  OBVIOUS
<1>3. ReOK(heap, re[t]) /\ DOMAIN re = Threads
  BY <1>1 DEF ReInv
<1>4. /\ n \in Nat /\ re[t].at \in Used(heap) /\ re[t].at[1] = "blocks" /\ Size(heap, re[t].at) < size
      /\ DOMAIN re[t] = {"pc", "at", "to", "size"}
  BY <1>1, <1>2, <1>3 DEF ReOK
<1>5. size \in Nat /\ size >= Threshold /\ size >= n /\ "blocks" \in Heaps
  BY <1>2, <1>4, RoundFacts DEF Heaps
<1>6. /\ heap' = [heap EXCEPT !["blocks"] = Allocated("blocks", size).arenas]
      /\ live' = live \union {[at |-> at, size |-> n]}
      /\ re' = [re EXCEPT ![t].pc = "copy", ![t].to = at]
  BY <1>2 DEF ReallocMalloc
<1>7. Gets(heap, heap', at, size) /\ at[1] = "blocks"
  BY <1>1, <1>2, <1>5, <1>6, AllocatedFacts
<1>8. HeapOK(heap') /\ LiveInv(heap', live') /\ ReInv(heap', re)
  BY <1>1, <1>4, <1>5, <1>6, <1>7, GetsKeeps
<1>9. PICK r : r = [re[t] EXCEPT !.pc = "copy", !.to = at]
  OBVIOUS
<1>10. r.pc = "copy" /\ r.to = at /\ r.at = re[t].at /\ DOMAIN r = {"pc", "at", "to", "size"}
  BY <1>4, <1>9
<1>11. DOMAIN re' = Threads /\ re' = [u \in Threads |-> re'[u]] /\ re'[t] = r /\ \A u \in Threads \ {t} : re'[u] = re[u]
  BY <1>3, <1>6, <1>9
<1>12. ReOK(heap', r)
  <2>1. /\ at \in Used(heap') /\ at \notin Used(heap) /\ re[t].at \in Used(heap')
        /\ Size(heap', re[t].at) = Size(heap, re[t].at) /\ Size(heap', at) >= size
    BY <1>4, <1>7 DEF Gets
  <2>2. Size(heap', at) \in Nat /\ Size(heap, re[t].at) \in Nat
    BY <1>1, <1>4, <1>8, <2>1, SizeFacts
  <2>3. Size(heap', r.at) <= Size(heap', r.to) /\ r.to # r.at
    BY <1>4, <1>5, <1>10, <2>1, <2>2
  <2> QED BY <1>4, <1>7, <1>10, <2>1, <2>3 DEF ReOK
<1>13. \A u \in Threads : ReOK(heap', re'[u])
  BY <1>8, <1>11, <1>12 DEF ReInv
<1>14. Apart(re')
  <2>1. \A u \in Threads : at \notin {re[u].at, re[u].to}
    <3> SUFFICES ASSUME NEW u \in Threads, NEW p \in {re[u].at, re[u].to} PROVE p # at
      OBVIOUS
    <3>1. ReOK(heap, re[u])
      BY <1>1 DEF ReInv
    <3>2. p \in Used(heap) \/ p = <<>>
      BY <3>1 DEF ReOK
    <3>3. at # <<>> /\ at \notin Used(heap)
      BY <1>7, <1>8, UsedFacts DEF Gets
    <3> QED BY <3>2, <3>3
  <2> SUFFICES ASSUME NEW u \in Threads, NEW v \in Threads, u # v,
                      NEW p \in {re'[u].at, re'[u].to}, p \in {re'[v].at, re'[v].to}
               PROVE  p = <<>>
    BY DEF Apart
  <2>2. CASE u = t
    <3>1. p \in {re[t].at, at} /\ p \in {re[v].at, re[v].to}
      BY <1>10, <1>11, <2>2
    <3> QED BY <1>1, <2>1, <2>2, <3>1 DEF ReInv, Apart
  <2>3. CASE v = t
    <3>1. p \in {re[t].at, at} /\ p \in {re[u].at, re[u].to}
      BY <1>10, <1>11, <2>3
    <3> QED BY <1>1, <2>1, <2>3, <3>1 DEF ReInv, Apart
  <2>4. CASE u # t /\ v # t
    BY <1>1, <1>11, <2>4 DEF ReInv, Apart
  <2> QED BY <2>2, <2>3, <2>4
<1>15. ReInv(heap', re')
  BY <1>11, <1>13, <1>14 DEF ReInv
<1> QED BY <1>8, <1>15 DEF MallocInv

\* The free of customRealloc.
LEMMA ReallocFreeKeeps ==
  ASSUME MallocInv, NEW t \in Threads, ReallocFree(t)
  PROVE  MallocInv'
<1>1. /\ HeapOK(heap) /\ LiveInv(heap, live) /\ ReInv(heap, re) /\ re[t].pc = "copy"
      /\ heap' = ReleasedHeap(re[t].at) /\ live' = {x \in live : x.at # re[t].at}
      /\ re' = [re EXCEPT ![t] = NoRealloc]
  BY DEF MallocInv, ReallocFree
<1>2. re[t].at \in Used(heap) /\ re[t].at # <<>> /\ DOMAIN re = Threads
  BY <1>1, UsedFacts DEF ReInv, ReOK
<1>3. Gives(heap, heap', re[t].at)
  BY <1>1, <1>2, ReleasedHeapFacts
<1>4. HeapOK(heap') /\ LiveInv(heap', live')
  BY <1>1, <1>3, GivesKeeps
<1>5. DOMAIN re' = Threads /\ re' = [u \in Threads |-> re'[u]] /\ re'[t] = NoRealloc /\ \A u \in Threads \ {t} : re'[u] = re[u]
  BY <1>1, <1>2
<1>6. NoRealloc.at = <<>> /\ NoRealloc.to = <<>> /\ ReOK(heap', NoRealloc)
  BY DEF NoRealloc, ReOK
<1>7. ASSUME NEW u \in Threads \ {t} PROVE ReOK(heap', re[u])
  <2>1. re[t].at \notin {re[u].at, re[u].to}
    BY <1>1, <1>2, <1>7 DEF ReInv, Apart
  <2>2. \A p \in {re[u].at, re[u].to} : p \in Used(heap) => p \in Used(heap') /\ Size(heap', p) = Size(heap, p)
    BY <1>3, <2>1 DEF Gives
  <2> QED BY <1>1, <2>2, ReKeep DEF ReInv
<1>8. \A u \in Threads : ReOK(heap', re'[u])
  BY <1>5, <1>6, <1>7
<1>9. Apart(re')
  <2> SUFFICES ASSUME NEW u \in Threads, NEW v \in Threads, u # v,
                      NEW p \in {re'[u].at, re'[u].to}, p \in {re'[v].at, re'[v].to}
               PROVE  p = <<>>
    BY DEF Apart
  <2>1. CASE u = t
    BY <1>5, <1>6, <2>1
  <2>2. CASE v = t
    BY <1>5, <1>6, <2>2
  <2>3. CASE u # t /\ v # t
    BY <1>1, <1>5, <2>3 DEF ReInv, Apart
  <2> QED BY <2>1, <2>2, <2>3
<1>10. ReInv(heap', re')
  BY <1>5, <1>8, <1>9 DEF ReInv
<1> QED BY <1>4, <1>10 DEF MallocInv

\* No step breaks it.
LEMMA NextInv == MallocInv /\ [Next]_vars => MallocInv'
<1> SUFFICES ASSUME MallocInv, [Next]_vars PROVE MallocInv'
  OBVIOUS
<1>1. HeapOK(heap) /\ LiveInv(heap, live) /\ ReInv(heap, re) /\ "blocks" \in Heaps /\ "chunks" \in Heaps
  BY DEF MallocInv, Heaps
<1>2. ASSUME NEW t \in Threads, NEW n \in Requests, customMalloc(t, n) PROVE MallocInv'
  BY <1>1, <1>2, MallocKeeps DEF customMalloc
<1>3. ASSUME NEW t \in Threads, NEW x \in live, customFree(t, x) PROVE MallocInv'
  <2>1. \A u \in Threads : x.at \notin {re[u].at, re[u].to}
    BY <1>3 DEF customFree, Mine
  <2>2. heap' = ReleasedHeap(x.at) /\ live' = live \ {x} /\ re' = re
    BY <1>3 DEF customFree
  <2>3. HeapOK(heap') /\ LiveInv(heap', live') /\ ReInv(heap', re)
    BY <1>1, <2>1, <2>2, FreeKeeps
  <2> QED BY <2>2, <2>3 DEF MallocInv
<1>4. ASSUME NEW t \in Threads, NEW x \in live, NEW n \in Requests, customRealloc(t, x, n) PROVE MallocInv'
  <2>1. CASE Expands(x.at, roundSize(n))
    BY <1>4, <2>1, ExpandKeeps DEF customRealloc
  <2>2. CASE ~ Expands(x.at, roundSize(n))
    BY <1>4, <2>2, ReallocKeeps DEF customRealloc
  <2> QED BY <2>1, <2>2
<1>5. ASSUME NEW n \in Requests, AllocDynarecMap(n) PROVE MallocInv'
  BY <1>1, <1>5, MallocKeeps DEF AllocDynarecMap
<1>6. ASSUME NEW x \in live, FreeDynarecMap(x) PROVE MallocInv'
  <2>1. ASSUME NEW u \in Threads PROVE x.at \notin {re[u].at, re[u].to}
    <3>1. x.at[1] = "chunks" /\ x.at \in Used(heap)
      BY <1>1, <1>6 DEF FreeDynarecMap, LiveInv
    <3>2. ReOK(heap, re[u]) /\ x.at # <<>>
      BY <1>1, <3>1, UsedFacts DEF ReInv
    <3>3. \A p \in {re[u].at, re[u].to} : p = <<>> \/ p[1] = "blocks"
      BY <3>2 DEF ReOK
    <3> QED BY <3>1, <3>2, <3>3
  <2>2. heap' = ReleasedHeap(x.at) /\ live' = live \ {x} /\ re' = re
    BY <1>6 DEF FreeDynarecMap
  <2>3. HeapOK(heap') /\ LiveInv(heap', live') /\ ReInv(heap', re)
    BY <1>1, <2>1, <2>2, FreeKeeps
  <2> QED BY <2>2, <2>3 DEF MallocInv
<1>7. CASE UNCHANGED vars
  BY <1>7 DEF MallocInv, vars
<1> QED BY <1>2, <1>3, <1>4, <1>5, <1>6, <1>7, ReallocMallocKeeps, ReallocFreeKeeps DEF Next

-----------------------------------------------------------------------------
LEMMA InvTags == MallocInv => TagsAgree
<1> SUFFICES ASSUME MallocInv, NEW ai \in Arenas
             PROVE  LET a == Arena(ai) IN
                    /\ 0 \in Marks(a) /\ LastBlock(a) \in Marks(a) /\ a.first \in Marks(a)
                    /\ a.mark[0].prev = End /\ a.mark[LastBlock(a)].next = End
                    /\ \A s \in Subblocks(a) :
                         /\ NextBlock(a, s) \in Marks(a)
                         /\ \A m \in Marks(a) : m <= s \/ m >= NextBlock(a, s)
                         /\ a.mark[NextBlock(a, s)].prev = a.mark[s].next
                         /\ a.mark[s].next.size >= Threshold
                         /\ ~ a.mark[s].next.fill => \/ a.mark[NextBlock(a, s)].next = End
                                                     \/ a.mark[NextBlock(a, s)].next.fill
  BY DEF TagsAgree
<1>1. PICK a : a = Arena(ai)
  OBVIOUS
<1>2. ai[1] \in Heaps /\ ai[2] \in DOMAIN heap[ai[1]]
  BY DEF Arenas, Heaps
<1>3. Sound(a)
  BY <1>1, <1>2 DEF Arena, MallocInv, HeapOK
<1>4. PICK M, L : M = a.mark /\ L = LastBlock(a)
  OBVIOUS
<1>5. Chained(M, L) /\ a.first \in DOMAIN M
  BY <1>3, <1>4 DEF Sound, ArenaOK, Marks
<1>6. 0 \in DOMAIN M /\ L \in DOMAIN M /\ M[0].prev = End /\ M[L].next = End
  BY <1>5 DEF Chained
<1>7. \A s \in DOMAIN M \ {L} : Linked(M, L, s) /\ NextBlock(a, s) = After(M, s)
  BY <1>4, <1>5 DEF Chained, NextBlock, After
<1>8. \A s \in Subblocks(a) :
        /\ NextBlock(a, s) \in Marks(a)
        /\ \A m \in Marks(a) : m <= s \/ m >= NextBlock(a, s)
        /\ a.mark[NextBlock(a, s)].prev = a.mark[s].next
        /\ a.mark[s].next.size >= Threshold
        /\ ~ a.mark[s].next.fill => \/ a.mark[NextBlock(a, s)].next = End
                                    \/ a.mark[NextBlock(a, s)].next.fill
  BY <1>4, <1>7 DEF Linked, Subblocks, Marks
<1> QED BY <1>1, <1>4, <1>5, <1>6, <1>8 DEF Marks

LEMMA InvLive == MallocInv => LiveOwned
<1> SUFFICES ASSUME MallocInv PROVE LiveOwned
  OBVIOUS
<1>1. HeapOK(heap) /\ LiveInv(heap, live)
  BY DEF MallocInv
<1>2. PICK U : U = UNION {{<<ai[1], ai[2], s>> : s \in {m \in Marks(Arena(ai)) : Arena(ai).mark[m].next.fill}}
                          : ai \in Arenas}
  OBVIOUS
<1>3. ASSUME NEW u \in U PROVE u \in Used(heap)
  <2>1. PICK ai \in Arenas : \E s \in Filled(Arena(ai).mark) : u = <<ai[1], ai[2], s>>
    BY <1>2 DEF Marks, Filled
  <2>2. PICK s \in Filled(Arena(ai).mark) : u = <<ai[1], ai[2], s>>
    BY <2>1
  <2>3. ai[1] \in Heaps /\ ai[2] \in DOMAIN heap[ai[1]]
    BY DEF Arenas, Heaps
  <2> QED BY <1>1, <2>2, <2>3, UsedFacts DEF Arena
<1>4. ASSUME NEW u \in Used(heap) PROVE u \in U
  <2>1. /\ u = <<u[1], u[2], u[3]>> /\ u[1] \in Heaps /\ u[2] \in DOMAIN heap[u[1]]
        /\ u[3] \in Filled(heap[u[1]][u[2]].mark)
    BY <1>1, UsedFacts
  <2>2. PICK ai : ai = <<u[1], u[2]>>
    OBVIOUS
  <2>3. ai \in Arenas /\ ai[1] = u[1] /\ ai[2] = u[2]
    BY <2>1, <2>2 DEF Arenas, Heaps
  <2>4. u[3] \in {m \in Marks(Arena(ai)) : Arena(ai).mark[m].next.fill} /\ u = <<ai[1], ai[2], u[3]>>
    BY <2>1, <2>3 DEF Arena, Marks, Filled
  <2> QED BY <1>2, <2>3, <2>4
<1>5. {x.at : x \in live} = U
  BY <1>1, <1>3, <1>4 DEF LiveInv
<1>6. \A x \in live : sizeBlock(x.at) >= x.size
  BY <1>1 DEF LiveInv, sizeBlock, Size
<1> QED BY <1>1, <1>2, <1>5, <1>6 DEF LiveOwned, LiveInv

LEMMA InvCopy == MallocInv => CopyFits
<1> SUFFICES ASSUME MallocInv, NEW t \in Threads, re[t].pc = "copy"
             PROVE  /\ {re[t].at, re[t].to} \subseteq {x.at : x \in live}
                    /\ sizeBlock(re[t].at) <= sizeBlock(re[t].to)
  BY DEF CopyFits
<1>1. ReOK(heap, re[t]) /\ {x.at : x \in live} = Used(heap)
  BY DEF MallocInv, ReInv, LiveInv
<1>2. re[t].at \in Used(heap) /\ re[t].to \in Used(heap) /\ Size(heap, re[t].at) <= Size(heap, re[t].to)
  BY <1>1 DEF ReOK
<1> QED BY <1>1, <1>2 DEF sizeBlock, Size

LEMMA InvFind == MallocInv => FindExact
<1> SUFFICES ASSUME MallocInv, NEW x \in live, x.at[1] = "chunks",
                    NEW addr \in x.at[3] + 1 .. x.at[3] + sizeBlock(x.at)
             PROVE  FindDynablockFromNativeAddress(x.at[2], addr) = {x.at[3]}
  BY DEF FindExact
<1>1. HeapOK(heap) /\ x.at \in Used(heap)
  BY DEF MallocInv, LiveInv
<1>2. PICK i, s, a, M, L : /\ i = x.at[2] /\ s = x.at[3] /\ a = heap["chunks"][i]
                           /\ M = a.mark /\ L = LastBlock(a)
  OBVIOUS
<1>3. i \in DOMAIN heap["chunks"] /\ s \in Filled(M) /\ "chunks" \in Heaps
  BY <1>1, <1>2, UsedFacts DEF Heaps
<1>4. Chained(M, L)
  BY <1>1, <1>2, <1>3 DEF HeapOK, Sound, ArenaOK
<1>5. s \in DOMAIN M \ {L} /\ s \in Nat /\ M[s].next.size \in Nat
  BY <1>3, <1>4, LastFacts, MarkFacts DEF Filled
<1>6. addr \in s + 1 .. s + M[s].next.size
  BY <1>2 DEF sizeBlock
<1>7. addr \in Nat /\ s < addr /\ After(M, s) > addr
  BY <1>5, <1>6 DEF After
<1>8. ASSUME NEW m \in DOMAIN M \ {L}, m < addr, After(M, m) > addr PROVE m = s
  <2>1. m \in Nat /\ After(M, m) \in Nat /\ Linked(M, L, m) /\ Linked(M, L, s) /\ After(M, s) \in Nat
    BY <1>4, <1>5, MarkFacts DEF Chained
  <2>2. (s <= m \/ s >= After(M, m)) /\ (m <= s \/ m >= After(M, s))
    BY <1>5, <2>1 DEF Linked
  <2> QED BY <1>5, <1>7, <1>8, <2>1, <2>2
<1>9. FindDynablockFromNativeAddress(i, addr) = {m \in DOMAIN M \ {L} : m < addr /\ After(M, m) > addr}
  BY <1>2 DEF FindDynablockFromNativeAddress, Marks, NextBlock, After
<1> QED BY <1>2, <1>5, <1>7, <1>8, <1>9

(***************************************************************************)
(* The invariant holds of every behaviour of the allocator, whatever       *)
(* THRESHOLD, the size of an arena and the sizes asked for, and however    *)
(* many threads are between the steps of customRealloc.                    *)
(***************************************************************************)
THEOREM MallocInvAlways == Spec => []MallocInv
<1>1. Init => MallocInv
  BY InitInv
<1>2. MallocInv /\ [Next]_vars => MallocInv'
  BY NextInv
<1> QED BY <1>1, <1>2, PTL DEF Spec

(***************************************************************************)
(* allocBlock and freeBlock keep the chain of boundary marks: both marks   *)
(* of a subblock agree, and no two free subblocks are left as neighbours.  *)
(***************************************************************************)
THEOREM TagsAgreeAlways == Spec => []TagsAgree
BY MallocInvAlways, InvTags, PTL

(***************************************************************************)
(* The used subblocks are what was allocated and not freed, once each and  *)
(* as large as was asked for, also across the steps of customRealloc.      *)
(***************************************************************************)
THEOREM LiveOwnedAlways == Spec => []LiveOwned
BY MallocInvAlways, InvLive, PTL

(***************************************************************************)
(* customRealloc copies sizeBlock(sub) bytes, which may be more than the   *)
(* caller asked for: both subblocks are in use and the new one holds it.   *)
(***************************************************************************)
THEOREM CopyFitsAlways == Spec => []CopyFits
BY MallocInvAlways, InvCopy, PTL

(***************************************************************************)
(* FindDynablockFromNativeAddress finds the mark of the subblock that      *)
(* holds the address, for every address in native code that is live.       *)
(***************************************************************************)
THEOREM FindExactAlways == Spec => []FindExact
BY MallocInvAlways, InvFind, PTL

-----------------------------------------------------------------------------
LEMMA InvHints == MallocInv => HintsExact
<1> SUFFICES ASSUME MallocInv, NEW ai \in Arenas
             PROVE  LET a == Arena(ai) IN
                    /\ FreeFrom(a, 0) = FreeFrom(a, a.first)
                    /\ a.maxfree = getMaxFreeBlock(a, 0)
                    /\ a.maxfree = getMaxFreeBlockBack(a)
  BY DEF HintsExact
<1>1. PICK a : a = Arena(ai)
  OBVIOUS
<1>2. ai[1] \in Heaps /\ ai[2] \in DOMAIN heap[ai[1]]
  BY DEF Arenas, Heaps
<1>3. ArenaOK(a) /\ HintsOK(a)
  BY <1>1, <1>2 DEF Arena, MallocInv, HeapOK, Sound
<1>4. Chained(a.mark, LastBlock(a))
  BY <1>3 DEF ArenaOK
<1>5. \A s \in Free(a.mark) : s >= 0 /\ s >= a.first
  BY <1>3, <1>4, FreeFromFacts DEF HintsOK
<1>6. FreeFrom(a, 0) = FreeFrom(a, a.first)
  BY <1>4, <1>5, FreeFromFacts
<1>7. IsMax(a.mark, a.maxfree) /\ IsMax(a.mark, getMaxFreeBlock(a, 0)) /\ IsMax(a.mark, getMaxFreeBlockBack(a))
  BY <1>3, <1>4, <1>5, MaxFreeFacts, BackFacts DEF HintsOK
<1>8. a.maxfree = getMaxFreeBlock(a, 0)
  BY <1>4, <1>7, IsMaxUnique
<1>9. a.maxfree = getMaxFreeBlockBack(a)
  BY <1>4, <1>7, IsMaxUnique
<1> QED BY <1>1, <1>6, <1>8, <1>9

(***************************************************************************)
(* An arena that was skipped has no room: the hints that the search loop   *)
(* looks at hide no free subblock.                                         *)
(***************************************************************************)
LEMMA SkippedFacts ==
  ASSUME HeapOK(heap), NEW h \in Heaps, NEW size \in Nat \ {0}, Found(h, size) = {}, NEW i \in DOMAIN heap[h]
  PROVE  getMaxFreeBlock(heap[h][i], 0) < size
<1>1. PICK a, k : a = heap[h][i] /\ k = getMaxFreeBlock(a, 0)
  OBVIOUS
<1>2. HintsOK(a) /\ Chained(a.mark, LastBlock(a))
  BY <1>1 DEF HeapOK, Sound, ArenaOK
<1>3. \A s \in Free(a.mark) : s >= 0 /\ s >= a.first /\ a.mark[s].next.size \in Nat
  BY <1>2, FreeFromFacts DEF HintsOK
<1>4. IsMax(a.mark, a.maxfree) /\ IsMax(a.mark, k)
  BY <1>1, <1>2, <1>3, MaxFreeFacts DEF HintsOK
<1>5. a.maxfree = k /\ k \in Nat
  BY <1>2, <1>4, IsMaxUnique DEF IsMax
<1>6. ASSUME k >= size PROVE FALSE
  <2>1. PICK s \in Free(a.mark) : a.mark[s].next.size = k
    BY <1>4, <1>5, <1>6 DEF IsMax
  <2>2. s \in Candidates(a, size)
    BY <1>2, <1>3, <1>6, <2>1, FreeFromFacts DEF Candidates
  <2>3. i \in Found(h, size)
    BY <1>1, <1>5, <1>6, <2>2 DEF Found
  <2> QED BY <2>3
<1> QED BY <1>1, <1>5, <1>6

\* An arena in its place adds none.
LEMMA PutLen ==
  ASSUME NEW H, HeapOK(H), NEW h \in Heaps, NEW i \in DOMAIN H[h], NEW b, Sound(b), NEW g \in Heaps
  PROVE  Len(Put(H, h, i, b)[g]) = Len(H[g])
<1>1. PICK K : K = Put(H, h, i, b)
  OBVIOUS
<1>2. HeapOK(K) /\ DOMAIN K[g] = DOMAIN H[g]
  BY <1>1, PutFacts
<1>3. /\ Len(K[g]) \in Nat /\ DOMAIN K[g] = 1 .. Len(K[g])
      /\ Len(H[g]) \in Nat /\ DOMAIN H[g] = 1 .. Len(H[g])
  BY <1>2, SeqFacts DEF HeapOK
<1>4. PICK m, n : m = Len(K[g]) /\ n = Len(H[g])
  OBVIOUS
<1>5. m \in Nat /\ n \in Nat /\ 1 .. m = 1 .. n
  BY <1>2, <1>3, <1>4
<1>6. m = n
  BY <1>5
<1> QED BY <1>1, <1>4, <1>6

\* An allocation adds one only to its own kind, when the search found nothing.
LEMMA AllocatedLen ==
  ASSUME HeapOK(heap), NEW h \in Heaps, NEW size \in Nat, size >= Threshold, NEW g \in Heaps,
         Len([heap EXCEPT ![h] = Allocated(h, size).arenas][g]) > Len(heap[g])
  PROVE  g = h /\ Found(h, size) = {}
<1>1. PICK K : K = [heap EXCEPT ![h] = Allocated(h, size).arenas]
  OBVIOUS
<1>2. IsSeq(heap[g]) /\ DOMAIN heap = Heaps
  BY DEF HeapOK
<1>3. Len(heap[g]) \in Nat
  BY <1>2, SeqFacts
<1>4. g = h
  <2>1. ASSUME g # h PROVE K[g] = heap[g]
    BY <1>1, <1>2, <2>1
  <2> QED BY <1>1, <1>3, <2>1
<1>5. ASSUME Found(h, size) # {} PROVE FALSE
  <2>1. PICK i : i = Min(Found(h, size))
    OBVIOUS
  <2>2. Found(h, size) \in SUBSET Nat
    BY SeqFacts DEF HeapOK, Found
  <2>3. i \in Found(h, size)
    BY <1>5, <2>1, <2>2, MinFacts
  <2>4. PICK r : r = Taken(heap[h][i], Min(Candidates(heap[h][i], size)), size)
    OBVIOUS
  <2>5. Allocated(h, size).arenas = [heap[h] EXCEPT ![i] = r]
    BY <1>5, <2>1, <2>4 DEF Allocated
  <2>6. i \in DOMAIN heap[h] /\ IsSeq(heap[h])
    BY <1>2, <1>4, <2>3 DEF Found
  <2>7. IsSeq([heap[h] EXCEPT ![i] = r]) /\ DOMAIN [heap[h] EXCEPT ![i] = r] = DOMAIN heap[h]
    BY <2>6, SeqPut
  <2>8. Len([heap[h] EXCEPT ![i] = r]) = Len(heap[h])
    <3>1. PICK q : q = [heap[h] EXCEPT ![i] = r]
      OBVIOUS
    <3>2. /\ Len(q) \in Nat /\ DOMAIN q = 1 .. Len(q) /\ DOMAIN q = DOMAIN heap[h]
          /\ Len(heap[h]) \in Nat /\ DOMAIN heap[h] = 1 .. Len(heap[h])
      BY <2>6, <2>7, <3>1, SeqFacts
    <3> QED BY <3>1, <3>2
  <2>9. K[g] = [heap[h] EXCEPT ![i] = r]
    BY <1>1, <1>2, <1>4, <2>5
  <2> QED BY <1>1, <1>3, <1>4, <2>8, <2>9
<1> QED BY <1>4, <1>5

\* What NoNeedlessArena says of a step.
Needed ==
  \A h \in {"blocks", "chunks"} : Len(heap'[h]) > Len(heap[h]) =>
    \A x \in live' \ live, i \in DOMAIN heap[h] : getMaxFreeBlock(heap[h][i], 0) < roundSize(x.size)

LEMMA AllocatedNeeded ==
  ASSUME HeapOK(heap), NEW h \in Heaps, NEW n \in Nat,
         heap' = [heap EXCEPT ![h] = Allocated(h, roundSize(n)).arenas],
         live' = live \union {[at |-> Allocated(h, roundSize(n)).at, size |-> n]}
  PROVE  Needed
<1>1. roundSize(n) \in Nat \ {0} /\ roundSize(n) >= Threshold
  BY RoundFacts, MallocAssumption
<1> SUFFICES ASSUME NEW g \in Heaps, Len(heap'[g]) > Len(heap[g]), NEW x \in live' \ live, NEW i \in DOMAIN heap[g]
             PROVE  getMaxFreeBlock(heap[g][i], 0) < roundSize(x.size)
  BY DEF Needed, Heaps
<1>2. g = h /\ Found(h, roundSize(n)) = {}
  BY <1>1, AllocatedLen
<1>3. x.size = n
  OBVIOUS
<1> QED BY <1>1, <1>2, <1>3, SkippedFacts

\* A step that adds no arena.
LEMMA SameNeeded ==
  ASSUME HeapOK(heap), \A g \in Heaps : Len(heap'[g]) = Len(heap[g])
  PROVE  Needed
<1>1. \A g \in Heaps : Len(heap[g]) \in Nat
  BY SeqFacts DEF HeapOK
<1> QED BY <1>1 DEF Needed, Heaps

LEMMA ReleasedLen ==
  ASSUME HeapOK(heap), NEW at \in Used(heap), NEW g \in Heaps
  PROVE  Len(ReleasedHeap(at)[g]) = Len(heap[g])
<1>1. at[1] \in Heaps /\ at[2] \in DOMAIN heap[at[1]] /\ at[3] \in Filled(heap[at[1]][at[2]].mark)
  BY UsedFacts
<1>2. PICK b : b = Released(heap[at[1]][at[2]], at[3])
  OBVIOUS
<1>3. Sound(b)
  BY <1>1, <1>2, ReleasedFacts DEF HeapOK
<1>4. ReleasedHeap(at) = Put(heap, at[1], at[2], b)
  BY <1>2 DEF ReleasedHeap, Put
<1> QED BY <1>1, <1>3, <1>4, PutLen

LEMMA ExpandedLen ==
  ASSUME HeapOK(heap), NEW at \in Used(heap), at[1] = "blocks", NEW size, NEW g \in Heaps
  PROVE  Len([heap EXCEPT !["blocks"][at[2]] = Expanded(@, at[3], size)][g]) = Len(heap[g])
<1>1. at[2] \in DOMAIN heap["blocks"] /\ at[3] \in Filled(heap["blocks"][at[2]].mark) /\ "blocks" \in Heaps
  BY UsedFacts DEF Heaps
<1>2. PICK b : b = Expanded(heap["blocks"][at[2]], at[3], size)
  OBVIOUS
<1>3. Sound(b)
  BY <1>1, <1>2, ExpandedFacts DEF HeapOK, Filled, Marks
<1>4. [heap EXCEPT !["blocks"][at[2]] = Expanded(@, at[3], size)] = Put(heap, "blocks", at[2], b)
  BY <1>2 DEF Put
<1> QED BY <1>1, <1>3, <1>4, PutLen

LEMMA NextNeeded == MallocInv /\ [Next]_vars => Needed
<1> SUFFICES ASSUME MallocInv, [Next]_vars PROVE Needed
  OBVIOUS
<1>1. /\ HeapOK(heap) /\ LiveInv(heap, live) /\ ReInv(heap, re) /\ "blocks" \in Heaps /\ "chunks" \in Heaps
      /\ \A x \in live : x.at \in Used(heap)
      /\ \A n \in Requests : n \in Nat
  BY MallocAssumption DEF MallocInv, LiveInv, Heaps
<1>2. ASSUME NEW t \in Threads, NEW n \in Requests, customMalloc(t, n) PROVE Needed
  BY <1>1, <1>2, AllocatedNeeded DEF customMalloc
<1>3. ASSUME NEW t \in Threads, NEW x \in live, customFree(t, x) PROVE Needed
  BY <1>1, <1>3, ReleasedLen, SameNeeded DEF customFree
<1>4. ASSUME NEW t \in Threads, NEW x \in live, NEW n \in Requests, customRealloc(t, x, n) PROVE Needed
  <2>1. CASE Expands(x.at, roundSize(n))
    <3>1. x.at \in Used(heap) /\ x.at[1] = "blocks"
          /\ heap' = [heap EXCEPT !["blocks"][x.at[2]] = Expanded(@, x.at[3], roundSize(n))]
      BY <1>1, <1>4, <2>1 DEF customRealloc
    <3>2. \A g \in Heaps : Len(heap'[g]) = Len(heap[g])
      BY <1>1, <3>1, ExpandedLen
    <3> QED BY <1>1, <3>2, SameNeeded
  <2>2. CASE ~ Expands(x.at, roundSize(n))
    BY <1>1, <1>4, <2>2, SameNeeded DEF customRealloc
  <2> QED BY <2>1, <2>2
<1>5. ASSUME NEW t \in Threads, ReallocMalloc(t) PROVE Needed
  <2>1. re[t].size \in Nat
    BY <1>1, <1>5 DEF ReallocMalloc, ReInv, ReOK
  <2> QED BY <1>1, <1>5, <2>1, AllocatedNeeded DEF ReallocMalloc
<1>6. ASSUME NEW t \in Threads, ReallocFree(t) PROVE Needed
  <2>1. re[t].at \in Used(heap)
    BY <1>1, <1>6 DEF ReallocFree, ReInv, ReOK
  <2> QED BY <1>1, <1>6, <2>1, ReleasedLen, SameNeeded DEF ReallocFree
<1>7. ASSUME NEW n \in Requests, AllocDynarecMap(n) PROVE Needed
  BY <1>1, <1>7, AllocatedNeeded DEF AllocDynarecMap
<1>8. ASSUME NEW x \in live, FreeDynarecMap(x) PROVE Needed
  BY <1>1, <1>8, ReleasedLen, SameNeeded DEF FreeDynarecMap
<1>9. CASE UNCHANGED vars
  BY <1>1, <1>9, SameNeeded DEF vars
<1> QED BY <1>2, <1>3, <1>4, <1>5, <1>6, <1>7, <1>8, <1>9 DEF Next

(***************************************************************************)
(* first and maxfree are exact after every operation, and both ways of     *)
(* getMaxFreeBlock find the same: the early return of the walk back is     *)
(* never wrong.                                                            *)
(***************************************************************************)
THEOREM HintsExactAlways == Spec => []HintsExact
BY MallocInvAlways, InvHints, PTL

(***************************************************************************)
(* customMalloc, customRealloc and AllocDynarecMap map a new arena only    *)
(* when no arena they have has room: the hints hide nothing from them.     *)
(***************************************************************************)
THEOREM NoNeedlessArenaAlways == Spec => NoNeedlessArena
<1>1. MallocInv /\ [Next]_vars => Needed
  BY NextNeeded
<1>2. Spec => [][Needed]_vars
  BY <1>1, MallocInvAlways, PTL DEF Spec
<1> QED BY <1>2 DEF NoNeedlessArena, Needed
=============================================================================
