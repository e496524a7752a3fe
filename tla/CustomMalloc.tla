---------------------------- MODULE CustomMalloc ----------------------------
(***************************************************************************)
(* The allocator of custommem.c: customMalloc, customRealloc, customFree   *)
(* for box86's own data, and AllocDynarecMap, FreeDynarecMap for native    *)
(* code, which cut arenas into subblocks with boundary marks.              *)
(*                                                                         *)
(* Sizes and offsets count marks (sizeof(blockmark_t), 8 bytes, what       *)
(* roundSize aligns to).  A mark is there where the chain has one: what    *)
(* was a mark and is now the inside of a subblock is data.                 *)
(***************************************************************************)
EXTENDS Integers, Sequences, FiniteSets, FiniteSetsExt

CONSTANTS
  Threads,    \* the threads that allocate
  Requests,   \* the sizes asked for
  Threshold,  \* THRESHOLD
  ArenaSize,  \* MMAPSIZE and DYNMMAPSZ
  MaxArenas   \* bound: how many arenas

ASSUME MallocAssumption == /\ Requests \subseteq Nat \ {0}
                           /\ Threshold \in Nat \ {0} /\ MaxArenas \in Nat
                           /\ ArenaSize \in Nat /\ ArenaSize >= Threshold + 2

VARIABLES
  heap,  \* the arenas of "blocks" (p_blocks) and of "chunks" (mmaplist)
  live,  \* what was allocated and not freed
  re     \* the threads in customRealloc

vars == <<heap, live, re>>

-----------------------------------------------------------------------------
(***************************************************************************)
(* Marks and walks along them.  The last mark of an arena has next.x32 = 0 *)
(* and the first one has prev.x32 = 0.                                     *)
(***************************************************************************)
End == [size |-> 0, fill |-> FALSE]

\* NEXT_BLOCK, PREV_BLOCK and LAST_BLOCK.
NextBlock(a, s) == s + a.mark[s].next.size + 1
PrevBlock(a, s) == s - a.mark[s].prev.size - 1
LastBlock(a) == a.size - 1

Marks(a) == DOMAIN a.mark

\* The free subblocks a walk from start comes by.
FreeFrom(a, start) == {s \in Marks(a) : /\ s >= start
                                        /\ ~ a.mark[s].next.fill /\ a.mark[s].next # End}

\* getFirstBlock: the subblocks it may return, the first of them is.
Candidates(a, size) == {s \in FreeFrom(a, a.first) : a.mark[s].next.size >= size}

\* getNextFreeBlock; the last mark is not filled.
getNextFreeBlock(a, s) == Min({m \in Marks(a) : m >= s /\ ~ a.mark[m].next.fill})

\* getMaxFreeBlock with a start.
getMaxFreeBlock(a, start) == Max({0} \union {a.mark[s].next.size : s \in FreeFrom(a, start)})

(***************************************************************************)
(* getMaxFreeBlock without one walks back from the last mark, and stops    *)
(* when no larger subblock fits in what is left.                           *)
(***************************************************************************)
getMaxFreeBlockBack(a) ==
  LET walk[m \in Marks(a)] == [max \in Nat |->
        LET p == a.mark[m].prev
        IN  IF p = End THEN max
            ELSE IF ~ p.fill /\ p.size > max
            THEN IF p.size > m THEN p.size ELSE walk[PrevBlock(a, m)][p.size]
            ELSE walk[PrevBlock(a, m)][max]]
  IN  walk[LastBlock(a)][0]

roundSize(n) == IF n < Threshold THEN Threshold ELSE n

-----------------------------------------------------------------------------
\* Mutant: the mark after the rest keeps the size it had.
allocBlock_tag(a, s, size) ==
  LET old  == a.mark[s].next.size
      n    == NextBlock(a, s)
      m    == s + size + 1
      used == [size |-> size, fill |-> TRUE]
      rest == [size |-> old - (size + 1), fill |-> FALSE]
  IN  IF old > size + 2 + Threshold
      THEN [a EXCEPT !.mark = [x \in Marks(a) \union {m} |->
              CASE x = s -> [a.mark[s] EXCEPT !.next = used]
                [] x = m -> [prev |-> used, next |-> rest]
                [] OTHER -> a.mark[x]]]
      ELSE [a EXCEPT !.mark[s].next.fill = TRUE, !.mark[n].prev.fill = TRUE]

(***************************************************************************)
(* allocBlock: subblock s becomes used, and what is left of it a subblock  *)
(* of its own if a new mark is worth it.                                   *)
(***************************************************************************)
allocBlock(a, s, size) ==
  LET old  == a.mark[s].next.size
      n    == NextBlock(a, s)
      m    == s + size + 1
      used == [size |-> size, fill |-> TRUE]
      rest == [size |-> old - (size + 1), fill |-> FALSE]
  IN  IF old > size + 2 + Threshold
      THEN [a EXCEPT !.mark = [x \in Marks(a) \union {m} |->
              CASE x = s -> [a.mark[s] EXCEPT !.next = used]
                [] x = m -> [prev |-> used, next |-> rest]
                [] x = n -> [a.mark[n] EXCEPT !.prev = rest]
                [] OTHER -> a.mark[x]]]
      ELSE [a EXCEPT !.mark[s].next.fill = TRUE, !.mark[n].prev.fill = TRUE]

\* Mutant: the mark before is taken for a free one.
MergesPrev_filled(a, s) == s # 0

\* freeBlock: is s merged with the subblock before, and with the one after?
MergesPrev(a, s) == s # 0 /\ a.mark[s].prev # End /\ ~ a.mark[s].prev.fill

MergesNext(a, n) == a.mark[n].next # End /\ ~ a.mark[n].next.fill

\* The chain once subblock s is free; its neighbours are merged.
freeBlock(a, s) ==
  LET n    == NextBlock(a, s)
      from == IF MergesPrev(a, s) THEN PrevBlock(a, s) ELSE s
      to   == IF MergesNext(a, n) THEN NextBlock(a, n) ELSE n
      free == [fill |-> FALSE,
               size |-> (IF from = s THEN 0 ELSE a.mark[from].next.size + 1) + a.mark[s].next.size
                        + (IF to = n THEN 0 ELSE a.mark[n].next.size + 1)]
  IN  [a EXCEPT !.mark = [x \in Marks(a) \ ({s, n} \ {from, to}) |->
                            CASE x = from -> [a.mark[from] EXCEPT !.next = free]
                              [] x = to   -> [a.mark[to] EXCEPT !.prev = free]
                              [] OTHER    -> a.mark[x]],
                !.first = IF @ > from THEN from ELSE @]

-----------------------------------------------------------------------------
(***************************************************************************)
(* An arena that holds nothing, and what an allocation makes of one.  In   *)
(* a new arena AllocDynarecMap leaves first alone when nothing is free.    *)
(***************************************************************************)
NewArena(size) ==
  LET sz    == IF size + 2 > ArenaSize THEN size + 2 ELSE ArenaSize
      all   == [size |-> sz - 2, fill |-> FALSE]
  IN  [size |-> sz, first |-> 0, maxfree |-> sz - 2,
       mark |-> [x \in {0, sz - 1} |-> IF x = 0 THEN [prev |-> End, next |-> all]
                                       ELSE [prev |-> all, next |-> End]]]

\* Mutant: maxfree is kept when the largest free subblock is cut.
Taken_maxfree(a, s, size) ==
  LET b == allocBlock(a, s, size)
  IN  [b EXCEPT !.first = IF s = @ THEN getNextFreeBlock(b, s) ELSE @]

\* The search hints are brought up to date.
Taken(a, s, size) ==
  LET b == allocBlock(a, s, size)
      c == [b EXCEPT !.first = IF s = @ THEN getNextFreeBlock(b, s) ELSE @]
  IN  [c EXCEPT !.maxfree = IF a.mark[s].next.size = @ THEN getMaxFreeBlock(c, c.first) ELSE @]

TakenNew(h, size) ==
  LET b     == allocBlock(NewArena(size), 0, size)
      first == getNextFreeBlock(b, 0)
      max   == getMaxFreeBlockBack(b)
  IN  IF h = "chunks"
      THEN [b EXCEPT !.maxfree = max, !.first = IF max = 0 THEN 0 ELSE first]
      ELSE [b EXCEPT !.first = first, !.maxfree = getMaxFreeBlock(b, first)]

\* The arena and the subblock the search loop finds.
Found(h, size) == {i \in DOMAIN heap[h] : heap[h][i].maxfree >= size /\ Candidates(heap[h][i], size) # {}}

(***************************************************************************)
(* customMalloc and AllocDynarecMap of a rounded size: the heap afterwards *)
(* and where the data is, the arena and the offset of the mark before it.  *)
(***************************************************************************)
Allocated(h, size) ==
  IF Found(h, size) # {}
  THEN LET i == Min(Found(h, size))
           s == Min(Candidates(heap[h][i], size))
       IN  [arenas |-> [heap[h] EXCEPT ![i] = Taken(@, s, size)], at |-> <<h, i, s>>]
  ELSE [arenas |-> Append(heap[h], TakenNew(h, size)), at |-> <<h, Len(heap[h]) + 1, 0>>]

\* Mutant: maxfree is not brought up to date.
Released_maxfree(a, s) == freeBlock(a, s)

\* customFree and FreeDynarecMap in the arena of the address.
Released(a, s) ==
  LET b == freeBlock(a, s)
      newfree == b.mark[IF MergesPrev(a, s) THEN PrevBlock(a, s) ELSE s].next.size
  IN  [b EXCEPT !.maxfree = IF @ < newfree THEN newfree ELSE @]

\* The bound: an arena is kept for each thread that is about to allocate in customRealloc.
Spare == Len(heap["blocks"]) + Len(heap["chunks"]) + Cardinality({t \in Threads : re[t].pc = "malloc"}) < MaxArenas
Room(h, size) == Found(h, size) # {} \/ Spare

-----------------------------------------------------------------------------
NoRealloc == [pc |-> "idle", at |-> <<>>, to |-> <<>>, size |-> 0]

Init == /\ heap = [h \in {"blocks", "chunks"} |-> <<>>]
        /\ live = {}
        /\ re = [t \in Threads |-> NoRealloc]

\* Memory the caller may pass: nobody else has it in customRealloc.
Mine(x) == \A t \in Threads : x.at \notin {re[t].at, re[t].to}

customMalloc(t, n) ==
  LET new == Allocated("blocks", roundSize(n))
  IN  /\ re[t].pc = "idle"
      /\ Room("blocks", roundSize(n))
      /\ heap' = [heap EXCEPT !["blocks"] = new.arenas]
      /\ live' = live \union {[at |-> new.at, size |-> n]}
      /\ UNCHANGED re

ReleasedHeap(at) == [heap EXCEPT ![at[1]][at[2]] = Released(@, at[3])]

customFree(t, x) ==
  /\ re[t].pc = "idle"
  /\ x.at[1] = "blocks" /\ Mine(x)
  /\ heap' = ReleasedHeap(x.at)
  /\ live' = live \ {x}
  /\ UNCHANGED re

AllocDynarecMap(n) ==
  LET new == Allocated("chunks", roundSize(n))
  IN  /\ Room("chunks", roundSize(n))
      /\ heap' = [heap EXCEPT !["chunks"] = new.arenas]
      /\ live' = live \union {[at |-> new.at, size |-> n]}
      /\ UNCHANGED re

FreeDynarecMap(x) ==
  /\ x.at[1] = "chunks"
  /\ heap' = ReleasedHeap(x.at)
  /\ live' = live \ {x}
  /\ UNCHANGED re

(***************************************************************************)
(* customRealloc: expandBlock, and when it fails customMalloc, memcpy and  *)
(* customFree, each on its own: mutex_blocks is given back before them.    *)
(***************************************************************************)
sizeBlock(at) == heap[at[1]][at[2]].mark[at[3]].next.size

\* Mutant: a smaller size is not "big enough".
Expands_exact(at, size) == sizeBlock(at) = size

\* expandBlock: the subblock is used, so past its size the answer is no.
Expands(at, size) == sizeBlock(at) >= size

\* The search hints after expandBlock said yes.
Expanded(a, s, size) ==
  LET b == [a EXCEPT !.first = IF s < @ /\ s + 1 + size + 1 >= @ THEN getNextFreeBlock(a, s) ELSE @]
  IN  [b EXCEPT !.maxfree = getMaxFreeBlock(b, b.first)]

customRealloc(t, x, n) ==
  /\ re[t].pc = "idle"
  /\ x.at[1] = "blocks" /\ Mine(x)
  /\ IF Expands(x.at, roundSize(n))
     THEN /\ heap' = [heap EXCEPT !["blocks"][x.at[2]] = Expanded(@, x.at[3], roundSize(n))]
          /\ live' = (live \ {x}) \union {[x EXCEPT !.size = n]}
          /\ UNCHANGED re
     ELSE /\ Spare
          /\ re' = [re EXCEPT ![t] = [pc |-> "malloc", at |-> x.at, to |-> <<>>, size |-> n]]
          /\ UNCHANGED <<heap, live>>

ReallocMalloc(t) ==
  LET new == Allocated("blocks", roundSize(re[t].size))
  IN  /\ re[t].pc = "malloc"
      /\ heap' = [heap EXCEPT !["blocks"] = new.arenas]
      /\ live' = live \union {[at |-> new.at, size |-> re[t].size]}
      /\ re' = [re EXCEPT ![t].pc = "copy", ![t].to = new.at]

\* memcpy of sizeBlock(sub) bytes, then customFree.
ReallocFree(t) ==
  /\ re[t].pc = "copy"
  /\ heap' = ReleasedHeap(re[t].at)
  /\ live' = {x \in live : x.at # re[t].at}
  /\ re' = [re EXCEPT ![t] = NoRealloc]

\* Mutant: the mark itself is not counted.
FindDynablock_short(i, addr) ==
  LET a == heap["chunks"][i]
  IN  {s \in Marks(a) \ {LastBlock(a)} : s < addr /\ s + a.mark[s].next.size > addr}

\* FindDynablockFromNativeAddress: the mark of the subblock the address is in.
FindDynablockFromNativeAddress(i, addr) ==
  LET a == heap["chunks"][i]
  IN  {s \in Marks(a) \ {LastBlock(a)} : s < addr /\ NextBlock(a, s) > addr}

-----------------------------------------------------------------------------
Next == \/ \E t \in Threads :
             \/ \E n \in Requests : customMalloc(t, n)
             \/ \E x \in live : customFree(t, x)
             \/ \E x \in live, n \in Requests : customRealloc(t, x, n)
             \/ ReallocMalloc(t) \/ ReallocFree(t)
        \/ \E n \in Requests : AllocDynarecMap(n)
        \/ \E x \in live : FreeDynarecMap(x)

Spec == Init /\ [][Next]_vars

-----------------------------------------------------------------------------
Arenas == {<<h, i>> : h \in {"blocks"}, i \in DOMAIN heap["blocks"]}
            \union {<<h, i>> : h \in {"chunks"}, i \in DOMAIN heap["chunks"]}
Arena(ai) == heap[ai[1]][ai[2]]
Subblocks(a) == Marks(a) \ {LastBlock(a)}

(***************************************************************************)
(* The chain of every arena: each mark leads to the next one and says of   *)
(* the subblock between them what the next one says; no mark but the last  *)
(* looks like the last; no two free subblocks are neighbours.              *)
(***************************************************************************)
TagsAgree ==
  \A ai \in Arenas : LET a == Arena(ai) IN
    /\ 0 \in Marks(a) /\ LastBlock(a) \in Marks(a) /\ a.first \in Marks(a)
    /\ a.mark[0].prev = End /\ a.mark[LastBlock(a)].next = End
    /\ \A s \in Subblocks(a) :
         /\ NextBlock(a, s) \in Marks(a)
         /\ \A m \in Marks(a) : m <= s \/ m >= NextBlock(a, s)
         /\ a.mark[NextBlock(a, s)].prev = a.mark[s].next
         /\ a.mark[s].next.size >= Threshold
         /\ ~ a.mark[s].next.fill => a.mark[NextBlock(a, s)].next = End \/ a.mark[NextBlock(a, s)].next.fill

(***************************************************************************)
(* What an arena remembers is exact: nothing is free before first, and     *)
(* maxfree is the largest free subblock, whichever way it is looked for    *)
(* (printBlockCoherent).                                                   *)
(***************************************************************************)
HintsExact ==
  \A ai \in Arenas : LET a == Arena(ai) IN
    /\ FreeFrom(a, 0) = FreeFrom(a, a.first)
    /\ a.maxfree = getMaxFreeBlock(a, 0)
    /\ a.maxfree = getMaxFreeBlockBack(a)

(***************************************************************************)
(* The used subblocks are what was allocated and not freed, once each, and *)
(* as large as was asked for: live memory is neither shared, nor cut, nor  *)
(* merged away, and freed memory is not lost.                              *)
(***************************************************************************)
LiveOwned ==
  /\ {x.at : x \in live} = UNION {{<<ai[1], ai[2], s>> : s \in {m \in Marks(Arena(ai)) : Arena(ai).mark[m].next.fill}}
                                  : ai \in Arenas}
  /\ \A x, y \in live : x.at = y.at => x = y
  /\ \A x \in live : sizeBlock(x.at) >= x.size

(***************************************************************************)
(* customRealloc copies the whole old subblock: it is still there, and the *)
(* new one has room for it.                                                *)
(***************************************************************************)
CopyFits == \A t \in Threads : re[t].pc = "copy" =>
  /\ {re[t].at, re[t].to} \subseteq {x.at : x \in live}
  /\ sizeBlock(re[t].at) <= sizeBlock(re[t].to)

\* An address inside live native code leads to the dynablock that owns it.
FindExact == \A x \in live : x.at[1] = "chunks" =>
  \A addr \in x.at[3] + 1 .. x.at[3] + sizeBlock(x.at) :
    FindDynablockFromNativeAddress(x.at[2], addr) = {x.at[3]}

(***************************************************************************)
(* A new arena is mapped only when no arena has a free subblock that is    *)
(* large enough for the request.                                           *)
(***************************************************************************)
NoNeedlessArena ==
  [][\A h \in {"blocks", "chunks"} : Len(heap'[h]) > Len(heap[h]) =>
       \A x \in live' \ live, i \in DOMAIN heap[h] :
         getMaxFreeBlock(heap[h][i], 0) < roundSize(x.size)]_vars
=============================================================================
