------------------------- MODULE DynaThreadsProofs -------------------------
(***************************************************************************)
(* mutex_dyndump and the jump table entry, for any number of threads: the  *)
(* proof that EntryInv of DynaThreads is an invariant.                     *)
(***************************************************************************)
EXTENDS DynaThreads, TLAPS

\* What a thread is, the last conjunct of TypeOK.
PCs == {"idle", "lock"} \union Filling \union Testing \union Writing
ThreadType == [pc : PCs,
               run : Ids \union {None}, db : Ids \union {None}, old : Ids \union {None},
               val : Contents, locked : BOOLEAN, again : BOOLEAN, dirty : BOOLEAN]

\* The constants the proofs use.
LEMMA Choices == /\ AnyContent \in Contents /\ None \notin Threads /\ None \notin Ids
                 /\ MaxBlocks \in Nat /\ NoKey \in Nat /\ Ids \subseteq 1 .. NoKey
                 /\ None \in 0 .. NoKey /\ NoKey \in 0 .. NoKey
BY ThreadsAssumption DEF AnyContent, None, Ids, NoKey

\* A block without a use, new or freed, is a block that is neither done nor gone.
LEMMA UnusedType == /\ Unused \in Block /\ ~ Unused.gone /\ ~ Unused.done
                    /\ Freed \in Block /\ ~ Freed.gone /\ ~ Freed.done
                    /\ [Unused EXCEPT !.st = "live"] \in Block
BY Choices DEF Unused, Freed, Block

\* A thread that is not in DBGetBlock holds nothing.
LEMMA IdleType ==
  \A r \in Ids \union {None} : Idle(r) \in ThreadType /\ Idle(r).pc = "idle" /\ ~ Idle(r).locked
BY Choices DEF Idle, ThreadType, PCs

\* TypeOK, the threads and the blocks apart.
LEMMA Parts ==
  TypeOK <=> /\ th \in [Threads -> ThreadType]
             /\ blk \in [Ids -> Block]
             /\ content \in Contents /\ tag \in BOOLEAN /\ host \in {"ro", "rw"}
             /\ jmptbl \in [id : Ids \union {None}, direct : BOOLEAN]
             /\ mutex \in Threads \union {None}
             /\ glitch \in [first : 0 .. NoKey, second : 0 .. NoKey]
BY DEF TypeOK, ThreadType, PCs

\* Assigning a field of a thread leaves it a thread.
LEMMA Assigned ==
  ASSUME NEW f \in [Threads -> ThreadType], NEW t \in Threads
  PROVE  /\ f[t] \in ThreadType
         /\ \A x \in PCs : [f EXCEPT ![t].pc = x] \in [Threads -> ThreadType]
         /\ \A x \in Ids \union {None} : /\ [f EXCEPT ![t].run = x] \in [Threads -> ThreadType]
                                         /\ [f EXCEPT ![t].db = x] \in [Threads -> ThreadType]
                                         /\ [f EXCEPT ![t].old = x] \in [Threads -> ThreadType]
         /\ \A x \in Contents : [f EXCEPT ![t].val = x] \in [Threads -> ThreadType]
         /\ \A x \in BOOLEAN : /\ [f EXCEPT ![t].locked = x] \in [Threads -> ThreadType]
                               /\ [f EXCEPT ![t].again = x] \in [Threads -> ThreadType]
                               /\ [f EXCEPT ![t].dirty = x] \in [Threads -> ThreadType]
BY DEF ThreadType

\* Assigning several fields of a thread, as the actions do, leaves it a thread: a result,
LEMMA AssignedDb ==
  ASSUME NEW f \in [Threads -> ThreadType], NEW t \in Threads, NEW p \in PCs, NEW d \in Ids \union {None}
  PROVE  [f EXCEPT ![t].pc = p, ![t].db = d] \in [Threads -> ThreadType]
<1>1. [f[t] EXCEPT !.pc = p, !.db = d] \in ThreadType
  BY DEF ThreadType
<1>2. [f EXCEPT ![t].pc = p, ![t].db = d] = [f EXCEPT ![t] = [f[t] EXCEPT !.pc = p, !.db = d]]
  OBVIOUS
<1> QED BY <1>1, <1>2

\* a hash,
LEMMA AssignedVal ==
  ASSUME NEW f \in [Threads -> ThreadType], NEW t \in Threads, NEW p \in PCs, NEW v \in Contents
  PROVE  [f EXCEPT ![t].pc = p, ![t].val = v] \in [Threads -> ThreadType]
<1>1. [f[t] EXCEPT !.pc = p, !.val = v] \in ThreadType
  BY DEF ThreadType
<1>2. [f EXCEPT ![t].pc = p, ![t].val = v] = [f EXCEPT ![t] = [f[t] EXCEPT !.pc = p, !.val = v]]
  OBVIOUS
<1> QED BY <1>1, <1>2

\* the need for a test,
LEMMA AssignedDirty ==
  ASSUME NEW f \in [Threads -> ThreadType], NEW t \in Threads, NEW p \in PCs, NEW x \in BOOLEAN
  PROVE  [f EXCEPT ![t].pc = p, ![t].dirty = x] \in [Threads -> ThreadType]
<1>1. [f[t] EXCEPT !.pc = p, !.dirty = x] \in ThreadType
  BY DEF ThreadType
<1>2. [f EXCEPT ![t].pc = p, ![t].dirty = x] = [f EXCEPT ![t] = [f[t] EXCEPT !.pc = p, !.dirty = x]]
  OBVIOUS
<1> QED BY <1>1, <1>2

\* the need for a test and no hash,
LEMMA AssignedDirtyVal ==
  ASSUME NEW f \in [Threads -> ThreadType], NEW t \in Threads, NEW p \in PCs, NEW x \in BOOLEAN, NEW v \in Contents
  PROVE  [f EXCEPT ![t].pc = p, ![t].dirty = x, ![t].val = v] \in [Threads -> ThreadType]
<1>1. [f[t] EXCEPT !.pc = p, !.dirty = x, !.val = v] \in ThreadType
  BY DEF ThreadType
<1>2. [f EXCEPT ![t].pc = p, ![t].dirty = x, ![t].val = v] = [f EXCEPT ![t] = [f[t] EXCEPT !.pc = p, !.dirty = x, !.val = v]]
  OBVIOUS
<1> QED BY <1>1, <1>2

\* the mutex.
LEMMA AssignedLocked ==
  ASSUME NEW f \in [Threads -> ThreadType], NEW t \in Threads, NEW p \in PCs, NEW x \in BOOLEAN, NEW y \in BOOLEAN
  PROVE  [f EXCEPT ![t].pc = p, ![t].locked = x, ![t].again = y] \in [Threads -> ThreadType]
<1>1. [f[t] EXCEPT !.pc = p, !.locked = x, !.again = y] \in ThreadType
  BY DEF ThreadType
<1>2. [f EXCEPT ![t].pc = p, ![t].locked = x, ![t].again = y] = [f EXCEPT ![t] = [f[t] EXCEPT !.pc = p, !.locked = x, !.again = y]]
  OBVIOUS
<1> QED BY <1>1, <1>2

\* Assigning a field of a block leaves it a block.
LEMMA BlockAssigned ==
  ASSUME NEW b \in [Ids -> Block], NEW i
  PROVE  /\ \A x \in Contents : /\ [b EXCEPT ![i].code = x] \in [Ids -> Block]
                                /\ [b EXCEPT ![i].hash = x] \in [Ids -> Block]
         /\ \A x \in BOOLEAN : /\ [b EXCEPT ![i].done = x] \in [Ids -> Block]
                               /\ [b EXCEPT ![i].gone = x] \in [Ids -> Block]
         /\ \A x \in Ids \union {None} : [b EXCEPT ![i].previous = x] \in [Ids -> Block]
         /\ \A x \in Block : [b EXCEPT ![i] = x] \in [Ids -> Block]
<1>1. \A q \in Block : [b EXCEPT ![i] = q] \in [Ids -> Block]
  OBVIOUS
<1>2. /\ \A x \in Contents : /\ [b EXCEPT ![i].code = x] \in [Ids -> Block]
                             /\ [b EXCEPT ![i].hash = x] \in [Ids -> Block]
  BY DEF Block
<1>3. \A x \in BOOLEAN : /\ [b EXCEPT ![i].done = x] \in [Ids -> Block]
                        /\ [b EXCEPT ![i].gone = x] \in [Ids -> Block]
  BY DEF Block
<1>4. \A x \in Ids \union {None} : [b EXCEPT ![i].previous = x] \in [Ids -> Block]
  BY DEF Block
<1> QED BY <1>1, <1>2, <1>3, <1>4

\* The initial states satisfy the invariant.
LEMMA InitInv == Init => EntryInv
<1> SUFFICES ASSUME Init PROVE EntryInv
  OBVIOUS
<1>1. th \in [Threads -> ThreadType] /\ \A t \in Threads : th[t].pc = "idle" /\ ~ th[t].locked
  BY IdleType DEF Init
<1>2. blk \in [Ids -> Block] /\ glitch \in [first : 0 .. NoKey, second : 0 .. NoKey]
  BY UnusedType, Choices DEF Init
<1>3. content \in Contents /\ tag \in BOOLEAN /\ host \in {"ro", "rw"} /\ mutex \in Threads \union {None}
  BY DEF Init
<1>4. jmptbl \in [id : Ids \union {None}, direct : BOOLEAN] /\ jmptbl.id = None
  BY DEF Init, ArmNext
<1>5. TypeOK
  BY <1>1, <1>2, <1>3, <1>4 DEF TypeOK, ThreadType, PCs
<1>6. \A i \in Ids : blk[i] = Unused
  BY DEF Init
<1> QED BY <1>1, <1>4, <1>5, <1>6, UnusedType, Choices
        DEF Init, EntryInv, OneFills, EntryLive, FillOwns, HeldFrom, Filling, Private

\* DBGetBlock starts without the mutex.
LEMMA DBGetBlockInv == ASSUME EntryInv, NEW t \in Threads, DBGetBlock(t) PROVE EntryInv'
<1>1. TypeOK'
  BY Choices, UnusedType DEF EntryInv, TypeOK, DBGetBlock, Idle, At, Goto, Filling, Testing, Writing
<1>2. OneFills'
  BY Choices DEF EntryInv, TypeOK, OneFills, HeldFrom, DBGetBlock, Idle, At, Goto, Filling, Testing, Writing, Holding
<1>3. EntryLive'
  BY Choices, UnusedType DEF EntryInv, TypeOK, OneFills, EntryLive, FillOwns, DBGetBlock, Idle, At, Goto, Filling, Testing, Writing, Private
<1>4. FillOwns'
  BY Choices, UnusedType DEF EntryInv, TypeOK, OneFills, EntryLive, FillOwns, DBGetBlock, Idle, At, Goto, Filling, Testing, Writing, Private
<1>5. HeldFrom'
  BY DEF EntryInv, TypeOK, HeldFrom, DBGetBlock, Idle, At, Goto, Filling, Testing, Writing, Holding
<1> QED BY <1>1, <1>2, <1>3, <1>4, <1>5 DEF EntryInv

\* Taking the mutex.
LEMMA LockInv == ASSUME EntryInv, NEW t \in Threads, Lock(t) PROVE EntryInv'
<1>1. TypeOK'
  BY Choices, UnusedType DEF EntryInv, TypeOK, Lock, At, Goto, Filling, Testing, Writing
<1>2. OneFills'
  BY Choices DEF EntryInv, TypeOK, OneFills, HeldFrom, Lock, At, Goto, Filling, Testing, Writing, Holding
<1>3. EntryLive'
  BY Choices, UnusedType DEF EntryInv, TypeOK, OneFills, EntryLive, FillOwns, Lock, At, Goto, Filling, Testing, Writing, Private
<1>4. FillOwns'
  BY Choices, UnusedType DEF EntryInv, TypeOK, OneFills, EntryLive, FillOwns, Lock, At, Goto, Filling, Testing, Writing, Private
<1>5. HeldFrom'
  BY DEF EntryInv, TypeOK, HeldFrom, Lock, At, Goto, Filling, Testing, Writing, Holding
<1> QED BY <1>1, <1>2, <1>3, <1>4, <1>5 DEF EntryInv

\* Giving up because another thread fills: nothing is taken.
LEMMA LockBusyInv == ASSUME EntryInv, NEW t \in Threads, LockBusy(t) PROVE EntryInv'
<1>1. TypeOK'
  <2>1. th' \in [Threads -> ThreadType]
    <3>1. th \in [Threads -> ThreadType]
      BY Parts DEF EntryInv
    <3>2. (IF th[t].again THEN "link" ELSE "need") \in PCs
      BY DEF PCs, Testing
    <3>3. None \in Ids \union {None}
      OBVIOUS
    <3> QED BY <3>1, <3>2, <3>3, AssignedDb, Choices DEF LockBusy, Returns
  <2>2. blk' \in [Ids -> Block]
    BY Parts, BlockAssigned, UnusedType, Choices DEF EntryInv, LockBusy, Returns
  <2>3. /\ content' \in Contents /\ tag' \in BOOLEAN /\ host' \in {"ro", "rw"}
        /\ jmptbl' \in [id : Ids \union {None}, direct : BOOLEAN]
        /\ mutex' \in Threads \union {None}
        /\ glitch' \in [first : 0 .. NoKey, second : 0 .. NoKey]
    BY Parts, Choices DEF EntryInv, ThreadType, LockBusy, Returns
  <2> QED BY <2>1, <2>2, <2>3 DEF TypeOK, ThreadType, PCs
<1>2. OneFills'
  BY Choices DEF EntryInv, TypeOK, OneFills, HeldFrom, LockBusy, Returns, At, Goto, Filling, Testing, Writing, Holding
<1>3. EntryLive'
  BY Choices, UnusedType DEF EntryInv, TypeOK, OneFills, EntryLive, FillOwns, LockBusy, Returns, At, Goto, Filling, Testing, Writing, Private
<1>4. FillOwns'
  BY Choices, UnusedType DEF EntryInv, TypeOK, OneFills, EntryLive, FillOwns, LockBusy, Returns, At, Goto, Filling, Testing, Writing, Private
<1>5. HeldFrom'
  BY DEF EntryInv, TypeOK, HeldFrom, LockBusy, Returns, At, Goto, Filling, Testing, Writing, Holding
<1> QED BY <1>1, <1>2, <1>3, <1>4, <1>5 DEF EntryInv

\* The block is there by now: the mutex taken by Lock, and only it, is released.
LEMMA LookAgainInv == ASSUME EntryInv, NEW t \in Threads, LookAgain(t) PROVE EntryInv'
<1>1. TypeOK'
  BY Choices, UnusedType DEF EntryInv, TypeOK, LookAgain, Returns, At, Goto, Filling, Testing, Writing
<1>2. OneFills'
  BY Choices DEF EntryInv, TypeOK, OneFills, HeldFrom, LookAgain, Returns, At, Goto, Filling, Testing, Writing, Holding
<1>3. EntryLive'
  BY Choices, UnusedType DEF EntryInv, TypeOK, OneFills, EntryLive, FillOwns, LookAgain, Returns, At, Goto, Filling, Testing, Writing, Private
<1>4. FillOwns'
  BY Choices, UnusedType DEF EntryInv, TypeOK, OneFills, EntryLive, FillOwns, LookAgain, Returns, At, Goto, Filling, Testing, Writing, Private
<1>5. HeldFrom'
  BY DEF EntryInv, TypeOK, HeldFrom, LookAgain, Returns, At, Goto, Filling, Testing, Writing, Holding
<1> QED BY <1>1, <1>2, <1>3, <1>4, <1>5 DEF EntryInv

\* The new block has not been seen, so it is neither gone nor in the jump table.
LEMMA FillStartInv == ASSUME EntryInv, NEW t \in Threads, FillStart(t) PROVE EntryInv'
<1>1. TypeOK'
  <2>1. th' \in [Threads -> ThreadType]
    BY Parts, Assigned, IdleType, Choices DEF EntryInv, FillStart, protectDB, At, Goto, Filling, Testing, Writing, PCs
  <2>2. blk' \in [Ids -> Block]
    BY Parts, BlockAssigned, UnusedType, Choices DEF EntryInv, FillStart, protectDB
  <2>3. /\ content' \in Contents /\ tag' \in BOOLEAN /\ host' \in {"ro", "rw"}
        /\ jmptbl' \in [id : Ids \union {None}, direct : BOOLEAN]
        /\ mutex' \in Threads \union {None}
        /\ glitch' \in [first : 0 .. NoKey, second : 0 .. NoKey]
    BY Parts, Choices DEF EntryInv, ThreadType, FillStart, protectDB
  <2> QED BY <2>1, <2>2, <2>3 DEF TypeOK, ThreadType, PCs
<1>2. OneFills'
  BY Choices DEF EntryInv, TypeOK, OneFills, HeldFrom, FillStart, protectDB, At, Goto, Filling, Testing, Writing, Holding
<1>3. EntryLive'
  BY Choices, UnusedType DEF EntryInv, TypeOK, OneFills, EntryLive, FillOwns, FillStart, protectDB, At, Goto, Filling, Testing, Writing, Private
<1>4. FillOwns'
  BY Choices, UnusedType DEF EntryInv, TypeOK, OneFills, EntryLive, FillOwns, FillStart, protectDB, At, Goto, Filling, Testing, Writing, Private
<1>5. HeldFrom'
  BY DEF EntryInv, TypeOK, HeldFrom, FillStart, protectDB, At, Goto, Filling, Testing, Writing, Holding
<1> QED BY <1>1, <1>2, <1>3, <1>4, <1>5 DEF EntryInv

\* Without memory the mutex goes back unless DBGetBlock still needs it.
LEMMA NoMemoryInv == ASSUME EntryInv, NEW t \in Threads, NoMemory(t) PROVE EntryInv'
<1>1. TypeOK'
  <2>1. th' \in [Threads -> ThreadType]
    <3>1. th \in [Threads -> ThreadType]
      BY Parts DEF EntryInv
    <3>2. (IF th[t].again THEN "link" ELSE "need") \in PCs
      BY DEF PCs, Testing
    <3>3. None \in Ids \union {None}
      OBVIOUS
    <3> QED BY <3>1, <3>2, <3>3, AssignedDb, Choices DEF NoMemory, Returns
  <2>2. blk' \in [Ids -> Block]
    BY Parts, BlockAssigned, UnusedType, Choices DEF EntryInv, NoMemory, protectDB, Release, Returns
  <2>3. /\ content' \in Contents /\ tag' \in BOOLEAN /\ host' \in {"ro", "rw"}
        /\ jmptbl' \in [id : Ids \union {None}, direct : BOOLEAN]
        /\ mutex' \in Threads \union {None}
        /\ glitch' \in [first : 0 .. NoKey, second : 0 .. NoKey]
    BY Parts, Choices DEF EntryInv, ThreadType, NoMemory, protectDB, Release, Returns
  <2> QED BY <2>1, <2>2, <2>3 DEF TypeOK, ThreadType, PCs
<1>2. OneFills'
  BY Choices DEF EntryInv, TypeOK, OneFills, HeldFrom, NoMemory, protectDB, Release, Returns, At, Goto, Filling, Testing, Writing, Holding
<1>3. EntryLive'
  BY Choices, UnusedType DEF EntryInv, TypeOK, OneFills, EntryLive, FillOwns, NoMemory, protectDB, Release, Returns, At, Goto, Filling, Testing, Writing, Private
<1>4. FillOwns'
  BY Choices, UnusedType DEF EntryInv, TypeOK, OneFills, EntryLive, FillOwns, NoMemory, protectDB, Release, Returns, At, Goto, Filling, Testing, Writing, Private
<1>5. HeldFrom'
  BY DEF EntryInv, TypeOK, HeldFrom, NoMemory, protectDB, Release, Returns, At, Goto, Filling, Testing, Writing, Holding
<1> QED BY <1>1, <1>2, <1>3, <1>4, <1>5 DEF EntryInv

\* The block given up is not in the jump table.
LEMMA Pass0Inv == ASSUME EntryInv, NEW t \in Threads, Pass0(t) PROVE EntryInv'
<1>1. TypeOK'
  BY Choices, UnusedType DEF EntryInv, TypeOK, Pass0, Cancel, Release, Returns, At, Goto, Filling, Testing, Writing
<1>2. OneFills'
  BY Choices DEF EntryInv, TypeOK, OneFills, HeldFrom, Pass0, Cancel, Release, Returns, At, Goto, Filling, Testing, Writing, Holding
<1>3. EntryLive'
  BY Choices, UnusedType DEF EntryInv, TypeOK, OneFills, EntryLive, FillOwns, Pass0, Cancel, Release, Returns, At, Goto, Filling, Testing, Writing, Private
<1>4. FillOwns'
  BY Choices, UnusedType DEF EntryInv, TypeOK, OneFills, EntryLive, FillOwns, Pass0, Cancel, Release, Returns, At, Goto, Filling, Testing, Writing, Private
<1>5. HeldFrom'
  BY DEF EntryInv, TypeOK, HeldFrom, Pass0, Cancel, Release, Returns, At, Goto, Filling, Testing, Writing, Holding
<1> QED BY <1>1, <1>2, <1>3, <1>4, <1>5 DEF EntryInv

\* protectDB does not concern the block either.
LEMMA ProtectPagesInv == ASSUME EntryInv, NEW t \in Threads, ProtectPages(t) PROVE EntryInv'
<1>1. TypeOK'
  BY Choices, UnusedType DEF EntryInv, TypeOK, ProtectPages, protectDB, At, Goto, Filling, Testing, Writing
<1>2. OneFills'
  BY Choices DEF EntryInv, TypeOK, OneFills, HeldFrom, ProtectPages, protectDB, At, Goto, Filling, Testing, Writing, Holding
<1>3. EntryLive'
  BY Choices, UnusedType DEF EntryInv, TypeOK, OneFills, EntryLive, FillOwns, ProtectPages, protectDB, At, Goto, Filling, Testing, Writing, Private
<1>4. FillOwns'
  BY Choices, UnusedType DEF EntryInv, TypeOK, OneFills, EntryLive, FillOwns, ProtectPages, protectDB, At, Goto, Filling, Testing, Writing, Private
<1>5. HeldFrom'
  BY DEF EntryInv, TypeOK, HeldFrom, ProtectPages, protectDB, At, Goto, Filling, Testing, Writing, Holding
<1> QED BY <1>1, <1>2, <1>3, <1>4, <1>5 DEF EntryInv

\* A step of the filler on its own thread.
LEMMA HashBeforeInv == ASSUME EntryInv, NEW t \in Threads, HashBefore(t) PROVE EntryInv'
<1>1. TypeOK'
  <2>1. th' \in [Threads -> ThreadType]
    BY Parts, Assigned, IdleType, Choices DEF EntryInv, HashBefore, At, Goto, Filling, Testing, Writing, PCs
  <2>2. blk' \in [Ids -> Block]
    BY Parts, BlockAssigned, UnusedType, Choices DEF EntryInv, HashBefore
  <2>3. /\ content' \in Contents /\ tag' \in BOOLEAN /\ host' \in {"ro", "rw"}
        /\ jmptbl' \in [id : Ids \union {None}, direct : BOOLEAN]
        /\ mutex' \in Threads \union {None}
        /\ glitch' \in [first : 0 .. NoKey, second : 0 .. NoKey]
    BY Parts, Choices DEF EntryInv, ThreadType, HashBefore
  <2> QED BY <2>1, <2>2, <2>3 DEF TypeOK, ThreadType, PCs
<1>2. OneFills'
  BY Choices DEF EntryInv, TypeOK, OneFills, HeldFrom, HashBefore, At, Goto, Filling, Testing, Writing, Holding
<1>3. EntryLive'
  BY Choices, UnusedType DEF EntryInv, TypeOK, OneFills, EntryLive, FillOwns, HashBefore, At, Goto, Filling, Testing, Writing, Private
<1>4. FillOwns'
  BY Choices, UnusedType DEF EntryInv, TypeOK, OneFills, EntryLive, FillOwns, HashBefore, At, Goto, Filling, Testing, Writing, Private
<1>5. HeldFrom'
  BY DEF EntryInv, TypeOK, HeldFrom, HashBefore, At, Goto, Filling, Testing, Writing, Holding
<1> QED BY <1>1, <1>2, <1>3, <1>4, <1>5 DEF EntryInv

\* The filler writes to a block nobody else has.
LEMMA EmitInv == ASSUME EntryInv, NEW t \in Threads, Emit(t) PROVE EntryInv'
<1>1. TypeOK'
  <2>1. th' \in [Threads -> ThreadType]
    BY Parts, Assigned, IdleType, Choices DEF EntryInv, Emit, At, Goto, Filling, Testing, Writing, PCs
  <2>2. blk' \in [Ids -> Block]
    BY Parts, BlockAssigned, UnusedType, Choices DEF EntryInv, Emit
  <2>3. /\ content' \in Contents /\ tag' \in BOOLEAN /\ host' \in {"ro", "rw"}
        /\ jmptbl' \in [id : Ids \union {None}, direct : BOOLEAN]
        /\ mutex' \in Threads \union {None}
        /\ glitch' \in [first : 0 .. NoKey, second : 0 .. NoKey]
    BY Parts, Choices DEF EntryInv, ThreadType, Emit
  <2> QED BY <2>1, <2>2, <2>3 DEF TypeOK, ThreadType, PCs
<1>2. OneFills'
  BY Choices DEF EntryInv, TypeOK, OneFills, HeldFrom, Emit, Block, At, Goto, Filling, Testing, Writing, Holding
<1>3. EntryLive'
  BY Choices, UnusedType DEF EntryInv, TypeOK, OneFills, EntryLive, FillOwns, Emit, Block, At, Goto, Filling, Testing, Writing, Private
<1>4. FillOwns'
  BY Choices, UnusedType DEF EntryInv, TypeOK, OneFills, EntryLive, FillOwns, Emit, Block, At, Goto, Filling, Testing, Writing, Private
<1>5. HeldFrom'
  BY DEF EntryInv, TypeOK, HeldFrom, Emit, Block, At, Goto, Filling, Testing, Writing, Holding
<1> QED BY <1>1, <1>2, <1>3, <1>4, <1>5 DEF EntryInv

\* The block is kept or given up; it is not in the jump table.
LEMMA HashAfterInv == ASSUME EntryInv, NEW t \in Threads, HashAfter(t) PROVE EntryInv'
<1>1. TypeOK'
  <2>1. th' \in [Threads -> ThreadType]
    <3>1. th \in [Threads -> ThreadType]
      BY Parts DEF EntryInv
    <3>2. "check" \in PCs /\ (IF th[t].again THEN "link" ELSE "need") \in PCs
      BY DEF PCs, Testing, Filling
    <3>3. CASE content = th[t].val
      BY <3>1, <3>2, <3>3, Assigned DEF HashAfter, Goto
    <3>4. CASE content # th[t].val
      <4>1. th' = [th EXCEPT ![t].pc = IF th[t].again THEN "link" ELSE "need", ![t].db = None]
        BY <3>4 DEF HashAfter, Cancel, Returns
      <4> QED BY <3>1, <3>2, <4>1, AssignedDb
    <3> QED BY <3>3, <3>4
  <2>2. blk' \in [Ids -> Block]
    <3>1. blk \in [Ids -> Block] /\ content \in Contents
      BY Parts DEF EntryInv
    <3>2. \/ blk' = [blk EXCEPT ![th[t].db].hash = content]
          \/ blk' = [blk EXCEPT ![th[t].db] = Unused]
      BY DEF HashAfter, Cancel
    <3>3. [blk EXCEPT ![th[t].db].hash = content] \in [Ids -> Block]
      BY <3>1, BlockAssigned
    <3>4. [blk EXCEPT ![th[t].db] = Unused] \in [Ids -> Block]
      BY <3>1, UnusedType
    <3> QED BY <3>2, <3>3, <3>4
  <2>3. /\ content' \in Contents /\ tag' \in BOOLEAN /\ host' \in {"ro", "rw"}
        /\ jmptbl' \in [id : Ids \union {None}, direct : BOOLEAN]
        /\ mutex' \in Threads \union {None}
        /\ glitch' \in [first : 0 .. NoKey, second : 0 .. NoKey]
    BY Parts DEF EntryInv, HashAfter, Cancel, Release
  <2> QED BY <2>1, <2>2, <2>3 DEF TypeOK, ThreadType, PCs
<1>2. OneFills'
  BY Choices DEF EntryInv, TypeOK, OneFills, HeldFrom, HashAfter, Cancel, Release, Returns, Block, At, Goto, Filling, Testing, Writing, Holding
<1>3. EntryLive'
  BY Choices, UnusedType DEF EntryInv, TypeOK, OneFills, EntryLive, FillOwns, HashAfter, Cancel, Release, Returns, Block, At, Goto, Filling, Testing, Writing, Private
<1>4. FillOwns'
  BY Choices, UnusedType DEF EntryInv, TypeOK, OneFills, EntryLive, FillOwns, HashAfter, Cancel, Release, Returns, Block, At, Goto, Filling, Testing, Writing, Private
<1>5. HeldFrom'
  <2>1. \A u \in Threads \ {t} : th'[u] = th[u]
    BY DEF EntryInv, TypeOK, HashAfter, Cancel, Returns, Goto
  <2>2. th'[t].locked = th[t].locked /\ th'[t].again = th[t].again
    BY DEF EntryInv, TypeOK, HashAfter, Cancel, Returns, Goto
  <2>3. th'[t].pc \in {"check", "need", "link"} /\ (th[t].again => th'[t].pc # "need")
    BY DEF EntryInv, TypeOK, HashAfter, Cancel, Returns, Goto
  <2>4. th[t].locked => th[t].again
    BY DEF EntryInv, HeldFrom, HashAfter, At, Holding
  <2> QED BY <2>1, <2>2, <2>3, <2>4 DEF EntryInv, HeldFrom, Holding, Filling
<1> QED BY <1>1, <1>2, <1>3, <1>4, <1>5 DEF EntryInv

\* A step of the filler on its own thread.
LEMMA CheckProtectedInv == ASSUME EntryInv, NEW t \in Threads, CheckProtected(t) PROVE EntryInv'
<1>1. TypeOK'
  <2>1. th' \in [Threads -> ThreadType]
    <3>1. th \in [Threads -> ThreadType]
      BY Parts DEF EntryInv
    <3>2. "publish" \in PCs
      BY DEF PCs, Filling
    <3> QED BY <3>1, <3>2, AssignedDirtyVal, Choices DEF CheckProtected
  <2>2. blk' \in [Ids -> Block]
    BY Parts, BlockAssigned, UnusedType, Choices DEF EntryInv, CheckProtected
  <2>3. /\ content' \in Contents /\ tag' \in BOOLEAN /\ host' \in {"ro", "rw"}
        /\ jmptbl' \in [id : Ids \union {None}, direct : BOOLEAN]
        /\ mutex' \in Threads \union {None}
        /\ glitch' \in [first : 0 .. NoKey, second : 0 .. NoKey]
    BY Parts, Choices DEF EntryInv, ThreadType, CheckProtected
  <2> QED BY <2>1, <2>2, <2>3 DEF TypeOK, ThreadType, PCs
<1>2. OneFills'
  BY Choices DEF EntryInv, TypeOK, OneFills, HeldFrom, CheckProtected, At, Goto, Filling, Testing, Writing, Holding
<1>3. EntryLive'
  BY Choices, UnusedType DEF EntryInv, TypeOK, OneFills, EntryLive, FillOwns, CheckProtected, At, Goto, Filling, Testing, Writing, Private
<1>4. FillOwns'
  BY Choices, UnusedType DEF EntryInv, TypeOK, OneFills, EntryLive, FillOwns, CheckProtected, At, Goto, Filling, Testing, Writing, Private
<1>5. HeldFrom'
  BY DEF EntryInv, TypeOK, HeldFrom, CheckProtected, At, Goto, Filling, Testing, Writing, Holding
<1> QED BY <1>1, <1>2, <1>3, <1>4, <1>5 DEF EntryInv

\* The block that enters the jump table is live and not gone.
LEMMA PublishInv == ASSUME EntryInv, NEW t \in Threads, Publish(t) PROVE EntryInv'
<1>1. TypeOK'
  <2>1. th' \in [Threads -> ThreadType]
    <3>1. th \in [Threads -> ThreadType]
      BY Parts DEF EntryInv
    <3>2. "done" \in PCs
      BY DEF PCs, Filling
    <3> QED BY <3>1, <3>2, AssignedDirty, Choices DEF Publish
  <2>2. blk' \in [Ids -> Block]
    BY Parts, BlockAssigned, UnusedType, Choices DEF EntryInv, Publish
  <2>3. /\ content' \in Contents /\ tag' \in BOOLEAN /\ host' \in {"ro", "rw"}
        /\ jmptbl' \in [id : Ids \union {None}, direct : BOOLEAN]
        /\ mutex' \in Threads \union {None}
        /\ glitch' \in [first : 0 .. NoKey, second : 0 .. NoKey]
    BY Parts, Choices DEF EntryInv, ThreadType, Publish
  <2> QED BY <2>1, <2>2, <2>3 DEF TypeOK, ThreadType, PCs
<1>2. OneFills'
  BY Choices DEF EntryInv, TypeOK, OneFills, HeldFrom, Publish, At, Goto, Filling, Testing, Writing, Holding
<1>3. EntryLive'
  BY Choices, UnusedType DEF EntryInv, TypeOK, OneFills, EntryLive, FillOwns, Publish, At, Goto, Filling, Testing, Writing, Private
<1>4. FillOwns'
  BY Choices, UnusedType DEF EntryInv, TypeOK, OneFills, EntryLive, FillOwns, Publish, At, Goto, Filling, Testing, Writing, Private
<1>5. HeldFrom'
  BY DEF EntryInv, TypeOK, HeldFrom, Publish, At, Goto, Filling, Testing, Writing, Holding
<1> QED BY <1>1, <1>2, <1>3, <1>4, <1>5 DEF EntryInv

\* The block that becomes done is not gone: to invalidate it takes the mutex.
LEMMA FillDoneInv == ASSUME EntryInv, NEW t \in Threads, FillDone(t) PROVE EntryInv'
<1>1. TypeOK'
  <2>1. th' \in [Threads -> ThreadType]
    <3>1. th \in [Threads -> ThreadType]
      BY Parts DEF EntryInv
    <3>2. (IF th[t].again THEN "link" ELSE "need") \in PCs
      BY DEF PCs, Testing
    <3>3. th[t].db \in Ids \union {None}
      BY <3>1 DEF ThreadType
    <3> QED BY <3>1, <3>2, <3>3, AssignedDb, Choices DEF FillDone, Returns
  <2>2. blk' \in [Ids -> Block]
    BY Parts, BlockAssigned, UnusedType, Choices DEF EntryInv, FillDone, Release, Returns
  <2>3. /\ content' \in Contents /\ tag' \in BOOLEAN /\ host' \in {"ro", "rw"}
        /\ jmptbl' \in [id : Ids \union {None}, direct : BOOLEAN]
        /\ mutex' \in Threads \union {None}
        /\ glitch' \in [first : 0 .. NoKey, second : 0 .. NoKey]
    BY Parts, Choices DEF EntryInv, ThreadType, FillDone, Release, Returns
  <2> QED BY <2>1, <2>2, <2>3 DEF TypeOK, ThreadType, PCs
<1>2. OneFills'
  BY Choices DEF EntryInv, TypeOK, OneFills, HeldFrom, FillDone, Release, Returns, Block, At, Goto, Filling, Testing, Writing, Holding
<1>3. EntryLive'
  BY Choices, UnusedType DEF EntryInv, TypeOK, OneFills, EntryLive, FillOwns, FillDone, Release, Returns, Block, At, Goto, Filling, Testing, Writing, Private
<1>4. FillOwns'
  BY Choices, UnusedType DEF EntryInv, TypeOK, OneFills, EntryLive, FillOwns, FillDone, Release, Returns, Block, At, Goto, Filling, Testing, Writing, Private
<1>5. HeldFrom'
  BY DEF EntryInv, TypeOK, HeldFrom, FillDone, Release, Returns, Block, At, Goto, Filling, Testing, Writing, Holding
<1> QED BY <1>1, <1>2, <1>3, <1>4, <1>5 DEF EntryInv

\* Choosing to test takes nothing.
LEMMA NeedTestInv == ASSUME EntryInv, NEW t \in Threads, NeedTest(t) PROVE EntryInv'
<1>1. TypeOK'
  BY Choices, UnusedType DEF EntryInv, TypeOK, NeedTest, At, Goto, Filling, Testing, Writing
<1>2. OneFills'
  BY Choices DEF EntryInv, TypeOK, OneFills, HeldFrom, NeedTest, At, Goto, Filling, Testing, Writing, Holding
<1>3. EntryLive'
  BY Choices, UnusedType DEF EntryInv, TypeOK, OneFills, EntryLive, FillOwns, NeedTest, At, Goto, Filling, Testing, Writing, Private
<1>4. FillOwns'
  BY Choices, UnusedType DEF EntryInv, TypeOK, OneFills, EntryLive, FillOwns, NeedTest, At, Goto, Filling, Testing, Writing, Private
<1>5. HeldFrom'
  BY DEF EntryInv, TypeOK, HeldFrom, NeedTest, At, Goto, Filling, Testing, Writing, Holding
<1> QED BY <1>1, <1>2, <1>3, <1>4, <1>5 DEF EntryInv

\* Hashing takes nothing.
LEMMA HashTestInv == ASSUME EntryInv, NEW t \in Threads, HashTest(t) PROVE EntryInv'
<1>1. TypeOK'
  <2>1. th' \in [Threads -> ThreadType]
    BY Parts, Assigned, IdleType, Choices DEF EntryInv, HashTest, At, Goto, Filling, Testing, Writing, PCs
  <2>2. blk' \in [Ids -> Block]
    BY Parts, BlockAssigned, UnusedType, Choices DEF EntryInv, HashTest
  <2>3. /\ content' \in Contents /\ tag' \in BOOLEAN /\ host' \in {"ro", "rw"}
        /\ jmptbl' \in [id : Ids \union {None}, direct : BOOLEAN]
        /\ mutex' \in Threads \union {None}
        /\ glitch' \in [first : 0 .. NoKey, second : 0 .. NoKey]
    BY Parts, Choices DEF EntryInv, ThreadType, HashTest
  <2> QED BY <2>1, <2>2, <2>3 DEF TypeOK, ThreadType, PCs
<1>2. OneFills'
  BY Choices DEF EntryInv, TypeOK, OneFills, HeldFrom, HashTest, At, Goto, Filling, Testing, Writing, Holding
<1>3. EntryLive'
  BY Choices, UnusedType DEF EntryInv, TypeOK, OneFills, EntryLive, FillOwns, HashTest, At, Goto, Filling, Testing, Writing, Private
<1>4. FillOwns'
  BY Choices, UnusedType DEF EntryInv, TypeOK, OneFills, EntryLive, FillOwns, HashTest, At, Goto, Filling, Testing, Writing, Private
<1>5. HeldFrom'
  BY DEF EntryInv, TypeOK, HeldFrom, HashTest, At, Goto, Filling, Testing, Writing, Holding
<1> QED BY <1>1, <1>2, <1>3, <1>4, <1>5 DEF EntryInv

\* The mutex is DBGetBlock's only if it was free.
LEMMA TryLockInv == ASSUME EntryInv, NEW t \in Threads, TryLock(t) PROVE EntryInv'
<1>1. TypeOK'
  <2>1. th' \in [Threads -> ThreadType]
    BY Parts, Assigned, IdleType, Choices DEF EntryInv, TryLock, At, Goto, Filling, Testing, Writing, PCs
  <2>2. blk' \in [Ids -> Block]
    BY Parts, BlockAssigned, UnusedType, Choices DEF EntryInv, TryLock
  <2>3. /\ content' \in Contents /\ tag' \in BOOLEAN /\ host' \in {"ro", "rw"}
        /\ jmptbl' \in [id : Ids \union {None}, direct : BOOLEAN]
        /\ mutex' \in Threads \union {None}
        /\ glitch' \in [first : 0 .. NoKey, second : 0 .. NoKey]
    BY Parts, Choices DEF EntryInv, ThreadType, TryLock
  <2> QED BY <2>1, <2>2, <2>3 DEF TypeOK, ThreadType, PCs
<1>2. OneFills'
  BY Choices DEF EntryInv, TypeOK, OneFills, HeldFrom, TryLock, At, Goto, Filling, Testing, Writing, Holding
<1>3. EntryLive'
  BY Choices, UnusedType DEF EntryInv, TypeOK, OneFills, EntryLive, FillOwns, TryLock, At, Goto, Filling, Testing, Writing, Private
<1>4. FillOwns'
  BY Choices, UnusedType DEF EntryInv, TypeOK, OneFills, EntryLive, FillOwns, TryLock, At, Goto, Filling, Testing, Writing, Private
<1>5. HeldFrom'
  BY DEF EntryInv, TypeOK, HeldFrom, TryLock, At, Goto, Filling, Testing, Writing, Holding
<1> QED BY <1>1, <1>2, <1>3, <1>4, <1>5 DEF EntryInv

\* A block that differs is no longer done; done is never set.
LEMMA CompareInv == ASSUME EntryInv, NEW t \in Threads, Compare(t) PROVE EntryInv'
<1>1. TypeOK'
  <2>1. th' \in [Threads -> ThreadType]
    <3>1. th \in [Threads -> ThreadType]
      BY Parts DEF EntryInv
    <3>2. "protect" \in PCs /\ "invalid" \in PCs
      BY DEF PCs, Testing
    <3> QED BY <3>1, <3>2, AssignedVal, Choices DEF Compare
  <2>2. blk' \in [Ids -> Block]
    BY Parts, BlockAssigned, UnusedType, Choices DEF EntryInv, Compare
  <2>3. /\ content' \in Contents /\ tag' \in BOOLEAN /\ host' \in {"ro", "rw"}
        /\ jmptbl' \in [id : Ids \union {None}, direct : BOOLEAN]
        /\ mutex' \in Threads \union {None}
        /\ glitch' \in [first : 0 .. NoKey, second : 0 .. NoKey]
    BY Parts, Choices DEF EntryInv, ThreadType, Compare
  <2> QED BY <2>1, <2>2, <2>3 DEF TypeOK, ThreadType, PCs
<1>2. OneFills'
  <2>1. \A u \in Threads : /\ th'[u].locked = th[u].locked
                           /\ th'[u].pc \in Filling <=> th[u].pc \in Filling
    BY DEF EntryInv, TypeOK, Compare, At, Filling
  <2>2. mutex' = mutex
    BY DEF Compare
  <2> QED BY <2>1, <2>2 DEF EntryInv, OneFills
<1>3. EntryLive'
  BY Choices, UnusedType DEF EntryInv, TypeOK, OneFills, EntryLive, FillOwns, Compare, Block, At, Goto, Filling, Testing, Writing, Private
<1>4. FillOwns'
  <2>1. /\ jmptbl' = jmptbl
        /\ \A i \in Ids : blk'[i].st = blk[i].st /\ blk'[i].gone = blk[i].gone
    BY DEF EntryInv, TypeOK, Compare, Block
  <2>2. \A u \in Threads : /\ th'[u].pc \in Private \union {"done"} => th'[u].pc = th[u].pc
                           /\ th'[u].db = th[u].db
    BY DEF EntryInv, TypeOK, Compare, Private
  <2> QED BY <2>1, <2>2 DEF EntryInv, FillOwns
<1>5. HeldFrom'
  <2>1. \A u \in Threads \ {t} : th'[u] = th[u]
    BY DEF EntryInv, TypeOK, Compare
  <2>2. th'[t].pc \in Holding
    BY DEF EntryInv, TypeOK, Compare, Holding
  <2> QED BY <2>1, <2>2 DEF EntryInv, HeldFrom
<1> QED BY <1>1, <1>2, <1>3, <1>4, <1>5 DEF EntryInv

\* protectDB does not concern the blocks.
LEMMA ProtectInv == ASSUME EntryInv, NEW t \in Threads, Protect(t) PROVE EntryInv'
<1>1. TypeOK'
  BY Choices, UnusedType DEF EntryInv, TypeOK, Protect, protectDB, At, Goto, Filling, Testing, Writing
<1>2. OneFills'
  BY Choices DEF EntryInv, TypeOK, OneFills, HeldFrom, Protect, protectDB, At, Goto, Filling, Testing, Writing, Holding
<1>3. EntryLive'
  BY Choices, UnusedType DEF EntryInv, TypeOK, OneFills, EntryLive, FillOwns, Protect, protectDB, At, Goto, Filling, Testing, Writing, Private
<1>4. FillOwns'
  BY Choices, UnusedType DEF EntryInv, TypeOK, OneFills, EntryLive, FillOwns, Protect, protectDB, At, Goto, Filling, Testing, Writing, Private
<1>5. HeldFrom'
  BY DEF EntryInv, TypeOK, HeldFrom, Protect, protectDB, At, Goto, Filling, Testing, Writing, Holding
<1> QED BY <1>1, <1>2, <1>3, <1>4, <1>5 DEF EntryInv

\* isprotectedDB does not concern the blocks.
LEMMA IsProtectedInv == ASSUME EntryInv, NEW t \in Threads, IsProtected(t) PROVE EntryInv'
<1>1. TypeOK'
  BY Choices, UnusedType DEF EntryInv, TypeOK, IsProtected, At, Goto, Filling, Testing, Writing
<1>2. OneFills'
  BY Choices DEF EntryInv, TypeOK, OneFills, HeldFrom, IsProtected, At, Goto, Filling, Testing, Writing, Holding
<1>3. EntryLive'
  BY Choices, UnusedType DEF EntryInv, TypeOK, OneFills, EntryLive, FillOwns, IsProtected, At, Goto, Filling, Testing, Writing, Private
<1>4. FillOwns'
  BY Choices, UnusedType DEF EntryInv, TypeOK, OneFills, EntryLive, FillOwns, IsProtected, At, Goto, Filling, Testing, Writing, Private
<1>5. HeldFrom'
  BY DEF EntryInv, TypeOK, HeldFrom, IsProtected, At, Goto, Filling, Testing, Writing, Holding
<1> QED BY <1>1, <1>2, <1>3, <1>4, <1>5 DEF EntryInv

\* The entry is made direct only if it is still the block's.
LEMMA FillBackInv == ASSUME EntryInv, NEW t \in Threads, FillBack(t) PROVE EntryInv'
<1>1. TypeOK'
  <2>1. th' \in [Threads -> ThreadType]
    BY Parts, Assigned, IdleType, Choices DEF EntryInv, FillBack, At, Goto, Filling, Testing, Writing, PCs
  <2>2. blk' \in [Ids -> Block]
    BY Parts, BlockAssigned, UnusedType, Choices DEF EntryInv, FillBack
  <2>3. /\ content' \in Contents /\ tag' \in BOOLEAN /\ host' \in {"ro", "rw"}
        /\ jmptbl' \in [id : Ids \union {None}, direct : BOOLEAN]
        /\ mutex' \in Threads \union {None}
        /\ glitch' \in [first : 0 .. NoKey, second : 0 .. NoKey]
    BY Parts, Choices DEF EntryInv, ThreadType, FillBack
  <2> QED BY <2>1, <2>2, <2>3 DEF TypeOK, ThreadType, PCs
<1>2. OneFills'
  BY Choices DEF EntryInv, TypeOK, OneFills, HeldFrom, FillBack, At, Goto, Filling, Testing, Writing, Holding
<1>3. EntryLive'
  BY Choices, UnusedType DEF EntryInv, TypeOK, OneFills, EntryLive, FillOwns, FillBack, At, Goto, Filling, Testing, Writing, Private
<1>4. FillOwns'
  BY Choices, UnusedType DEF EntryInv, TypeOK, OneFills, EntryLive, FillOwns, FillBack, At, Goto, Filling, Testing, Writing, Private
<1>5. HeldFrom'
  BY DEF EntryInv, TypeOK, HeldFrom, FillBack, At, Goto, Filling, Testing, Writing, Holding
<1> QED BY <1>1, <1>2, <1>3, <1>4, <1>5 DEF EntryInv

\* With the mutex nobody else fills: the entry can be cleared and the block be gone.
LEMMA InvalidInv == ASSUME EntryInv, NEW t \in Threads, Invalid(t) PROVE EntryInv'
<1>1. TypeOK'
  <2>1. th' \in [Threads -> ThreadType]
    <3>1. th \in [Threads -> ThreadType] /\ th[t] \in ThreadType
      BY Parts DEF EntryInv
    <3>2. th'[t] \in ThreadType
      BY <3>1, Parts, IdleType, Choices DEF EntryInv, ThreadType, PCs, Invalid, Removed, ArmNext, At, Goto, Filling, Testing, Writing
    <3>3. th' = [u \in Threads |-> IF u = t THEN th'[t] ELSE th[u]]
      BY <3>1 DEF Invalid, Removed, ArmNext, At, Goto
    <3> QED BY <3>1, <3>2, <3>3
  <2>2. blk' \in [Ids -> Block]
    BY Parts, BlockAssigned, UnusedType, Choices DEF EntryInv, Invalid, Removed, ArmNext
  <2>3. /\ content' \in Contents /\ tag' \in BOOLEAN /\ host' \in {"ro", "rw"}
        /\ jmptbl' \in [id : Ids \union {None}, direct : BOOLEAN]
        /\ mutex' \in Threads \union {None}
        /\ glitch' \in [first : 0 .. NoKey, second : 0 .. NoKey]
    <3>1. ArmNext \in [id : Ids \union {None}, direct : BOOLEAN]
      BY DEF ArmNext
    <3>2. jmptbl' \in {jmptbl, ArmNext}
      BY DEF Invalid, Removed
    <3>3. UNCHANGED <<content, tag, host, mutex, glitch>>
      BY DEF Invalid
    <3> QED BY <3>1, <3>2, <3>3, Parts DEF EntryInv
  <2> QED BY <2>1, <2>2, <2>3 DEF TypeOK, ThreadType, PCs
<1>2. OneFills'
  BY Choices DEF EntryInv, TypeOK, OneFills, HeldFrom, Invalid, Removed, ArmNext, Block, At, Goto, Filling, Testing, Writing, Holding
<1>3. EntryLive'
  BY Choices, UnusedType DEF EntryInv, TypeOK, OneFills, EntryLive, FillOwns, Invalid, Removed, ArmNext, Block, At, Goto, Filling, Testing, Writing, Private
<1>4. FillOwns'
  BY Choices, UnusedType DEF EntryInv, TypeOK, OneFills, EntryLive, FillOwns, Invalid, Removed, ArmNext, Block, At, Goto, Filling, Testing, Writing, Private
<1>5. HeldFrom'
  BY DEF EntryInv, TypeOK, HeldFrom, Invalid, Removed, ArmNext, Block, At, Goto, Filling, Testing, Writing, Holding
<1> QED BY <1>1, <1>2, <1>3, <1>4, <1>5 DEF EntryInv

\* The mutex was free: nobody fills.
LEMMA InvalidLockedInv == ASSUME EntryInv, NEW t \in Threads, InvalidLocked(t) PROVE EntryInv'
<1>1. TypeOK'
  <2>1. th' \in [Threads -> ThreadType]
    <3>1. th \in [Threads -> ThreadType] /\ th[t] \in ThreadType
      BY Parts DEF EntryInv
    <3>2. th'[t] \in ThreadType
      BY <3>1, Parts, IdleType, Choices DEF EntryInv, ThreadType, PCs, InvalidLocked, Removed, ArmNext, At, Goto, Filling, Testing, Writing
    <3>3. th' = [u \in Threads |-> IF u = t THEN th'[t] ELSE th[u]]
      BY <3>1 DEF InvalidLocked, Removed, ArmNext, At, Goto
    <3> QED BY <3>1, <3>2, <3>3
  <2>2. blk' \in [Ids -> Block]
    BY Parts, BlockAssigned, UnusedType, Choices DEF EntryInv, InvalidLocked, Removed, ArmNext
  <2>3. /\ content' \in Contents /\ tag' \in BOOLEAN /\ host' \in {"ro", "rw"}
        /\ jmptbl' \in [id : Ids \union {None}, direct : BOOLEAN]
        /\ mutex' \in Threads \union {None}
        /\ glitch' \in [first : 0 .. NoKey, second : 0 .. NoKey]
    BY Parts, Choices DEF EntryInv, ThreadType, InvalidLocked, Removed, ArmNext
  <2> QED BY <2>1, <2>2, <2>3 DEF TypeOK, ThreadType, PCs
<1>2. OneFills'
  BY Choices DEF EntryInv, TypeOK, OneFills, HeldFrom, InvalidLocked, Removed, ArmNext, Block, At, Goto, Filling, Testing, Writing, Holding
<1>3. EntryLive'
  BY Choices, UnusedType DEF EntryInv, TypeOK, OneFills, EntryLive, FillOwns, InvalidLocked, Removed, ArmNext, Block, At, Goto, Filling, Testing, Writing, Private
<1>4. FillOwns'
  BY Choices, UnusedType DEF EntryInv, TypeOK, OneFills, EntryLive, FillOwns, InvalidLocked, Removed, ArmNext, Block, At, Goto, Filling, Testing, Writing, Private
<1>5. HeldFrom'
  BY DEF EntryInv, TypeOK, HeldFrom, InvalidLocked, Removed, ArmNext, Block, At, Goto, Filling, Testing, Writing, Holding
<1> QED BY <1>1, <1>2, <1>3, <1>4, <1>5 DEF EntryInv

\* The second look keeps the mutex if DBGetBlock has it.
LEMMA RenewInv == ASSUME EntryInv, NEW t \in Threads, Renew(t) PROVE EntryInv'
<1>1. TypeOK'
  BY Choices, UnusedType DEF EntryInv, TypeOK, Renew, At, Goto, Filling, Testing, Writing
<1>2. OneFills'
  BY Choices DEF EntryInv, TypeOK, OneFills, HeldFrom, Renew, At, Goto, Filling, Testing, Writing, Holding
<1>3. EntryLive'
  BY Choices, UnusedType DEF EntryInv, TypeOK, OneFills, EntryLive, FillOwns, Renew, At, Goto, Filling, Testing, Writing, Private
<1>4. FillOwns'
  BY Choices, UnusedType DEF EntryInv, TypeOK, OneFills, EntryLive, FillOwns, Renew, At, Goto, Filling, Testing, Writing, Private
<1>5. HeldFrom'
  BY DEF EntryInv, TypeOK, HeldFrom, Renew, At, Goto, Filling, Testing, Writing, Holding
<1> QED BY <1>1, <1>2, <1>3, <1>4, <1>5 DEF EntryInv

\* The mutex is given back by the thread that has it.
LEMMA UnlockInv == ASSUME EntryInv, NEW t \in Threads, Unlock(t) PROVE EntryInv'
<1>1. TypeOK'
  <2>1. th' \in [Threads -> ThreadType]
    <3>1. th \in [Threads -> ThreadType]
      BY Parts DEF EntryInv
    <3>2. "leave" \in PCs
      BY DEF PCs, Testing
    <3> QED BY <3>1, <3>2, AssignedLocked, Choices DEF Unlock
  <2>2. blk' \in [Ids -> Block]
    BY Parts, BlockAssigned, UnusedType, Choices DEF EntryInv, Unlock
  <2>3. /\ content' \in Contents /\ tag' \in BOOLEAN /\ host' \in {"ro", "rw"}
        /\ jmptbl' \in [id : Ids \union {None}, direct : BOOLEAN]
        /\ mutex' \in Threads \union {None}
        /\ glitch' \in [first : 0 .. NoKey, second : 0 .. NoKey]
    BY Parts, Choices DEF EntryInv, ThreadType, Unlock
  <2> QED BY <2>1, <2>2, <2>3 DEF TypeOK, ThreadType, PCs
<1>2. OneFills'
  BY Choices DEF EntryInv, TypeOK, OneFills, HeldFrom, Unlock, At, Goto, Filling, Testing, Writing, Holding
<1>3. EntryLive'
  BY Choices, UnusedType DEF EntryInv, TypeOK, OneFills, EntryLive, FillOwns, Unlock, At, Goto, Filling, Testing, Writing, Private
<1>4. FillOwns'
  BY Choices, UnusedType DEF EntryInv, TypeOK, OneFills, EntryLive, FillOwns, Unlock, At, Goto, Filling, Testing, Writing, Private
<1>5. HeldFrom'
  BY DEF EntryInv, TypeOK, HeldFrom, Unlock, At, Goto, Filling, Testing, Writing, Holding
<1> QED BY <1>1, <1>2, <1>3, <1>4, <1>5 DEF EntryInv

\* The thread that leaves has given the mutex back.
LEMMA LeaveInv == ASSUME EntryInv, NEW t \in Threads, Leave(t) PROVE EntryInv'
<1>1. TypeOK'
  BY Choices, UnusedType DEF EntryInv, TypeOK, Leave, Idle, At, Goto, Filling, Testing, Writing
<1>2. OneFills'
  BY Choices DEF EntryInv, TypeOK, OneFills, HeldFrom, Leave, Idle, At, Goto, Filling, Testing, Writing, Holding
<1>3. EntryLive'
  BY Choices, UnusedType DEF EntryInv, TypeOK, OneFills, EntryLive, FillOwns, Leave, Idle, At, Goto, Filling, Testing, Writing, Private
<1>4. FillOwns'
  BY Choices, UnusedType DEF EntryInv, TypeOK, OneFills, EntryLive, FillOwns, Leave, Idle, At, Goto, Filling, Testing, Writing, Private
<1>5. HeldFrom'
  BY DEF EntryInv, TypeOK, HeldFrom, Leave, Idle, At, Goto, Filling, Testing, Writing, Holding
<1> QED BY <1>1, <1>2, <1>3, <1>4, <1>5 DEF EntryInv

\* A step of one thread outside DBGetBlock.
LEMMA LeaveBlockInv == ASSUME EntryInv, NEW t \in Threads, LeaveBlock(t) PROVE EntryInv'
<1>1. TypeOK'
  BY Choices, UnusedType DEF EntryInv, TypeOK, LeaveBlock, At, Goto, Filling, Testing, Writing
<1>2. OneFills'
  BY Choices DEF EntryInv, TypeOK, OneFills, HeldFrom, LeaveBlock, At, Goto, Filling, Testing, Writing, Holding
<1>3. EntryLive'
  BY Choices, UnusedType DEF EntryInv, TypeOK, OneFills, EntryLive, FillOwns, LeaveBlock, At, Goto, Filling, Testing, Writing, Private
<1>4. FillOwns'
  BY Choices, UnusedType DEF EntryInv, TypeOK, OneFills, EntryLive, FillOwns, LeaveBlock, At, Goto, Filling, Testing, Writing, Private
<1>5. HeldFrom'
  BY DEF EntryInv, TypeOK, HeldFrom, LeaveBlock, At, Goto, Filling, Testing, Writing, Holding
<1> QED BY <1>1, <1>2, <1>3, <1>4, <1>5 DEF EntryInv

\* A step of one thread outside DBGetBlock.
LEMMA JumpDirectInv == ASSUME EntryInv, NEW t \in Threads, JumpDirect(t) PROVE EntryInv'
<1>1. TypeOK'
  BY Choices, UnusedType DEF EntryInv, TypeOK, JumpDirect, At, Goto, Filling, Testing, Writing
<1>2. OneFills'
  BY Choices DEF EntryInv, TypeOK, OneFills, HeldFrom, JumpDirect, At, Goto, Filling, Testing, Writing, Holding
<1>3. EntryLive'
  BY Choices, UnusedType DEF EntryInv, TypeOK, OneFills, EntryLive, FillOwns, JumpDirect, At, Goto, Filling, Testing, Writing, Private
<1>4. FillOwns'
  BY Choices, UnusedType DEF EntryInv, TypeOK, OneFills, EntryLive, FillOwns, JumpDirect, At, Goto, Filling, Testing, Writing, Private
<1>5. HeldFrom'
  BY DEF EntryInv, TypeOK, HeldFrom, JumpDirect, At, Goto, Filling, Testing, Writing, Holding
<1> QED BY <1>1, <1>2, <1>3, <1>4, <1>5 DEF EntryInv

\* A step of one thread outside DBGetBlock.
LEMMA StartWriteInv == ASSUME EntryInv, NEW t \in Threads, NEW v \in Contents, StartWrite(t, v) PROVE EntryInv'
<1>1. TypeOK'
  <2>1. th' \in [Threads -> ThreadType]
    <3>1. th \in [Threads -> ThreadType]
      BY Parts DEF EntryInv
    <3>2. "write" \in PCs
      BY DEF PCs, Writing
    <3> QED BY <3>1, <3>2, AssignedVal, Choices DEF StartWrite
  <2>2. blk' \in [Ids -> Block]
    BY Parts, BlockAssigned, UnusedType, Choices DEF EntryInv, StartWrite
  <2>3. /\ content' \in Contents /\ tag' \in BOOLEAN /\ host' \in {"ro", "rw"}
        /\ jmptbl' \in [id : Ids \union {None}, direct : BOOLEAN]
        /\ mutex' \in Threads \union {None}
        /\ glitch' \in [first : 0 .. NoKey, second : 0 .. NoKey]
    BY Parts, Choices DEF EntryInv, ThreadType, StartWrite
  <2> QED BY <2>1, <2>2, <2>3 DEF TypeOK, ThreadType, PCs
<1>2. OneFills'
  BY Choices DEF EntryInv, TypeOK, OneFills, HeldFrom, StartWrite, At, Goto, Filling, Testing, Writing, Holding
<1>3. EntryLive'
  BY Choices, UnusedType DEF EntryInv, TypeOK, OneFills, EntryLive, FillOwns, StartWrite, At, Goto, Filling, Testing, Writing, Private
<1>4. FillOwns'
  BY Choices, UnusedType DEF EntryInv, TypeOK, OneFills, EntryLive, FillOwns, StartWrite, At, Goto, Filling, Testing, Writing, Private
<1>5. HeldFrom'
  BY DEF EntryInv, TypeOK, HeldFrom, StartWrite, At, Goto, Filling, Testing, Writing, Holding
<1> QED BY <1>1, <1>2, <1>3, <1>4, <1>5 DEF EntryInv

\* A write changes the code and no block.
LEMMA WriteInv == ASSUME EntryInv, NEW t \in Threads, Write(t) PROVE EntryInv'
<1>1. TypeOK'
  <2>1. th' \in [Threads -> ThreadType]
    <3>1. th \in [Threads -> ThreadType] /\ th[t] \in ThreadType
      BY Parts DEF EntryInv
    <3>2. th'[t] \in ThreadType
      <4>1. th[t].run \in Ids \union {None}
        BY <3>1 DEF ThreadType
      <4>2. Idle(th[t].run) \in ThreadType
        BY <4>1, IdleType
      <4>3. CASE host = "rw"
        BY <3>1, <4>2, <4>3 DEF Write
      <4>4. CASE host # "rw"
        BY <3>1, <4>4 DEF Write, Goto, ThreadType, PCs, Writing
      <4> QED BY <4>3, <4>4
    <3>3. th' = [u \in Threads |-> IF u = t THEN th'[t] ELSE th[u]]
      BY <3>1 DEF Write, Idle, At, Goto
    <3> QED BY <3>1, <3>2, <3>3
  <2>2. blk' \in [Ids -> Block]
    BY Parts, BlockAssigned, UnusedType, Choices DEF EntryInv, Write, Idle
  <2>3. /\ content' \in Contents /\ tag' \in BOOLEAN /\ host' \in {"ro", "rw"}
        /\ jmptbl' \in [id : Ids \union {None}, direct : BOOLEAN]
        /\ mutex' \in Threads \union {None}
        /\ glitch' \in [first : 0 .. NoKey, second : 0 .. NoKey]
    BY Parts, Choices DEF EntryInv, ThreadType, Write, Idle
  <2> QED BY <2>1, <2>2, <2>3 DEF TypeOK, ThreadType, PCs
<1>2. OneFills'
  BY Choices DEF EntryInv, TypeOK, OneFills, HeldFrom, Write, Idle, At, Goto, Filling, Testing, Writing, Holding
<1>3. EntryLive'
  BY Choices, UnusedType DEF EntryInv, TypeOK, OneFills, EntryLive, FillOwns, Write, Idle, At, Goto, Filling, Testing, Writing, Private
<1>4. FillOwns'
  BY Choices, UnusedType DEF EntryInv, TypeOK, OneFills, EntryLive, FillOwns, Write, Idle, At, Goto, Filling, Testing, Writing, Private
<1>5. HeldFrom'
  BY DEF EntryInv, TypeOK, HeldFrom, Write, Idle, At, Goto, Filling, Testing, Writing, Holding
<1> QED BY <1>1, <1>2, <1>3, <1>4, <1>5 DEF EntryInv

\* A step of one thread in the handler.
LEMMA GetProtectionInv == ASSUME EntryInv, NEW t \in Threads, GetProtection(t) PROVE EntryInv'
<1>1. TypeOK'
  BY Choices, UnusedType DEF EntryInv, TypeOK, GetProtection, At, Goto, Filling, Testing, Writing
<1>2. OneFills'
  BY Choices DEF EntryInv, TypeOK, OneFills, HeldFrom, GetProtection, At, Goto, Filling, Testing, Writing, Holding
<1>3. EntryLive'
  BY Choices, UnusedType DEF EntryInv, TypeOK, OneFills, EntryLive, FillOwns, GetProtection, At, Goto, Filling, Testing, Writing, Private
<1>4. FillOwns'
  BY Choices, UnusedType DEF EntryInv, TypeOK, OneFills, EntryLive, FillOwns, GetProtection, At, Goto, Filling, Testing, Writing, Private
<1>5. HeldFrom'
  BY DEF EntryInv, TypeOK, HeldFrom, GetProtection, At, Goto, Filling, Testing, Writing, Holding
<1> QED BY <1>1, <1>2, <1>3, <1>4, <1>5 DEF EntryInv

\* Marking changes the entry's kind, not its block.
LEMMA UnprotectInv == ASSUME EntryInv, NEW t \in Threads, Unprotect(t) PROVE EntryInv'
<1>1. TypeOK'
  <2>1. th' \in [Threads -> ThreadType]
    BY Parts, Assigned, IdleType, Choices DEF EntryInv, Unprotect, Marked, At, Goto, Filling, Testing, Writing, PCs
  <2>2. blk' \in [Ids -> Block]
    BY Parts, BlockAssigned, UnusedType, Choices DEF EntryInv, Unprotect, Marked
  <2>3. /\ content' \in Contents /\ tag' \in BOOLEAN /\ host' \in {"ro", "rw"}
        /\ jmptbl' \in [id : Ids \union {None}, direct : BOOLEAN]
        /\ mutex' \in Threads \union {None}
        /\ glitch' \in [first : 0 .. NoKey, second : 0 .. NoKey]
    BY Parts, Choices DEF EntryInv, ThreadType, Unprotect, Marked
  <2> QED BY <2>1, <2>2, <2>3 DEF TypeOK, ThreadType, PCs
<1>2. OneFills'
  BY Choices DEF EntryInv, TypeOK, OneFills, HeldFrom, Unprotect, Marked, At, Goto, Filling, Testing, Writing, Holding
<1>3. EntryLive'
  BY Choices, UnusedType DEF EntryInv, TypeOK, OneFills, EntryLive, FillOwns, Unprotect, Marked, At, Goto, Filling, Testing, Writing, Private
<1>4. FillOwns'
  BY Choices, UnusedType DEF EntryInv, TypeOK, OneFills, EntryLive, FillOwns, Unprotect, Marked, At, Goto, Filling, Testing, Writing, Private
<1>5. HeldFrom'
  BY DEF EntryInv, TypeOK, HeldFrom, Unprotect, Marked, At, Goto, Filling, Testing, Writing, Holding
<1> QED BY <1>1, <1>2, <1>3, <1>4, <1>5 DEF EntryInv

\* Marking changes the entry's kind, not its block.
LEMMA GlitchInv == ASSUME EntryInv, NEW t \in Threads, Glitch(t) PROVE EntryInv'
<1>1. TypeOK'
  <2>1. th' \in [Threads -> ThreadType]
    BY Parts, Assigned, IdleType, Choices DEF EntryInv, Glitch, Marked, At, Goto, Filling, Testing, Writing, PCs
  <2>2. blk' \in [Ids -> Block]
    BY Parts, BlockAssigned, UnusedType, Choices DEF EntryInv, Glitch, Marked
  <2>3. /\ content' \in Contents /\ tag' \in BOOLEAN /\ host' \in {"ro", "rw"}
        /\ jmptbl' \in [id : Ids \union {None}, direct : BOOLEAN]
        /\ mutex' \in Threads \union {None}
        /\ glitch' \in [first : 0 .. NoKey, second : 0 .. NoKey]
    <3>1. th[t].run \in 0 .. NoKey
      <4>1. th[t].run \in Ids \union {None}
        BY Parts DEF EntryInv, ThreadType
      <4> QED BY <4>1, ThreadsAssumption DEF Ids, None, NoKey
    <3>2. glitch' \in [first : 0 .. NoKey, second : 0 .. NoKey]
      BY <3>1, Parts, Choices DEF EntryInv, Glitch
    <3>3. jmptbl' \in [id : Ids \union {None}, direct : BOOLEAN]
      BY Parts DEF EntryInv, Glitch, Marked
    <3> QED BY <3>2, <3>3, Parts DEF EntryInv, Glitch
  <2> QED BY <2>1, <2>2, <2>3 DEF TypeOK, ThreadType, PCs
<1>2. OneFills'
  BY Choices DEF EntryInv, TypeOK, OneFills, HeldFrom, Glitch, Marked, At, Goto, Filling, Testing, Writing, Holding
<1>3. EntryLive'
  BY Choices, UnusedType DEF EntryInv, TypeOK, OneFills, EntryLive, FillOwns, Glitch, Marked, At, Goto, Filling, Testing, Writing, Private
<1>4. FillOwns'
  BY Choices, UnusedType DEF EntryInv, TypeOK, OneFills, EntryLive, FillOwns, Glitch, Marked, At, Goto, Filling, Testing, Writing, Private
<1>5. HeldFrom'
  <2>1. PICK pc \in {"write", "refresh", "segv"} : th' = [th EXCEPT ![t].pc = pc]
    BY DEF Glitch, Goto
  <2>2. ~ th[t].locked
    BY DEF EntryInv, HeldFrom, Glitch, At, Filling, Holding
  <2> QED BY <2>1, <2>2 DEF EntryInv, TypeOK, ThreadType, HeldFrom
<1> QED BY <1>1, <1>2, <1>3, <1>4, <1>5 DEF EntryInv

\* A step of one thread in the handler.
LEMMA RefreshInv == ASSUME EntryInv, NEW t \in Threads, Refresh(t) PROVE EntryInv'
<1>1. TypeOK'
  BY Choices, UnusedType DEF EntryInv, TypeOK, Refresh, At, Goto, Filling, Testing, Writing
<1>2. OneFills'
  BY Choices DEF EntryInv, TypeOK, OneFills, HeldFrom, Refresh, At, Goto, Filling, Testing, Writing, Holding
<1>3. EntryLive'
  BY Choices, UnusedType DEF EntryInv, TypeOK, OneFills, EntryLive, FillOwns, Refresh, At, Goto, Filling, Testing, Writing, Private
<1>4. FillOwns'
  BY Choices, UnusedType DEF EntryInv, TypeOK, OneFills, EntryLive, FillOwns, Refresh, At, Goto, Filling, Testing, Writing, Private
<1>5. HeldFrom'
  BY DEF EntryInv, TypeOK, HeldFrom, Refresh, At, Goto, Filling, Testing, Writing, Holding
<1> QED BY <1>1, <1>2, <1>3, <1>4, <1>5 DEF EntryInv

\* A step of one thread in the handler.
LEMMA SignalDoneInv == ASSUME EntryInv, NEW t \in Threads, SignalDone(t) PROVE EntryInv'
<1>1. TypeOK'
  BY Choices, UnusedType DEF EntryInv, TypeOK, SignalDone, Idle, At, Goto, Filling, Testing, Writing
<1>2. OneFills'
  BY Choices DEF EntryInv, TypeOK, OneFills, HeldFrom, SignalDone, Idle, At, Goto, Filling, Testing, Writing, Holding
<1>3. EntryLive'
  BY Choices, UnusedType DEF EntryInv, TypeOK, OneFills, EntryLive, FillOwns, SignalDone, Idle, At, Goto, Filling, Testing, Writing, Private
<1>4. FillOwns'
  BY Choices, UnusedType DEF EntryInv, TypeOK, OneFills, EntryLive, FillOwns, SignalDone, Idle, At, Goto, Filling, Testing, Writing, Private
<1>5. HeldFrom'
  BY DEF EntryInv, TypeOK, HeldFrom, SignalDone, Idle, At, Goto, Filling, Testing, Writing, Holding
<1> QED BY <1>1, <1>2, <1>3, <1>4, <1>5 DEF EntryInv

\* FreeInvalidDynablock frees only blocks that are gone, and changes no other.
LEMMA FreeInvalidKeeps ==
  ASSUME NEW b \in [Ids -> Block], NEW x
  PROVE  /\ FreeInvalid(b, x) \in [Ids -> Block]
         /\ \A i \in Ids : ~ b[i].gone => FreeInvalid(b, x)[i] = b[i]
         /\ \A i \in Ids : FreeInvalid(b, x)[i] \in {b[i], Freed}
BY UnusedType DEF FreeInvalid

\* Linking the old block: the entry and the block being filled are not gone.
LEMMA LinkInv == ASSUME EntryInv, NEW t \in Threads, Link(t) PROVE EntryInv'
<1> DEFINE free == IF th[t].db = None THEN th[t].old ELSE blk[th[t].db].previous
           b == FreeInvalid(blk, free)
<1>0. /\ TypeOK /\ th \in [Threads -> ThreadType] /\ blk \in [Ids -> Block]
      /\ th[t] \in ThreadType /\ th[t].pc = "link"
  BY Parts DEF EntryInv, Link, At
<1>1. /\ b \in [Ids -> Block]
      /\ \A i \in Ids : ~ blk[i].gone => b[i] = blk[i]
      /\ \A i \in Ids : b[i] \in {blk[i], Freed}
  BY <1>0, FreeInvalidKeeps
<1> HIDE DEF b
<1>2. blk' = b \/ blk' = [b EXCEPT ![th[t].db].previous = th[t].old]
  BY DEF Link, b
<1>3. /\ blk' \in [Ids -> Block]
      /\ \A i \in Ids : blk'[i].st = b[i].st /\ blk'[i].gone = b[i].gone /\ blk'[i].done = b[i].done
  <2>1. th[t].old \in Ids \union {None}
    BY <1>0 DEF ThreadType
  <2>2. CASE blk' = b
    BY <1>1, <2>2
  <2>3. CASE blk' = [b EXCEPT ![th[t].db].previous = th[t].old]
    <3>1. blk' \in [Ids -> Block]
      BY <1>1, <2>1, <2>3, BlockAssigned
    <3>2. ASSUME NEW i \in Ids
          PROVE  blk'[i].st = b[i].st /\ blk'[i].gone = b[i].gone /\ blk'[i].done = b[i].done
      BY <1>1, <2>3 DEF Block
    <3> QED BY <3>1, <3>2
  <2> QED BY <1>2, <2>2, <2>3
<1>4. /\ th' = [th EXCEPT ![t].pc = "unlock", ![t].old = None]
      /\ UNCHANGED <<content, tag, host, jmptbl, mutex, glitch>>
  BY DEF Link
<1>5. th' \in [Threads -> ThreadType]
  BY <1>0, <1>4, Assigned DEF PCs, Testing
<1>6. TypeOK'
  BY <1>0, <1>3, <1>4, <1>5, Parts DEF TypeOK, ThreadType, PCs
<1>7. \A u \in Threads : /\ th'[u].locked = th[u].locked /\ th'[u].db = th[u].db
                         /\ th'[u].again = th[u].again
                         /\ th'[u].pc = IF u = t THEN "unlock" ELSE th[u].pc
  BY <1>0, <1>4 DEF ThreadType
<1>8. OneFills'
  BY <1>0, <1>4, <1>7 DEF EntryInv, OneFills, Filling
<1>9. EntryLive'
  <2>1. \A i \in Ids : blk'[i].gone => ~ blk'[i].done
    BY <1>1, <1>3, UnusedType DEF EntryInv, EntryLive
  <2>2. jmptbl' = jmptbl /\ jmptbl.id \in Ids \union {None}
    BY <1>0, <1>4 DEF TypeOK
  <2>3. jmptbl.id # None => b[jmptbl.id] = blk[jmptbl.id]
    BY <1>1, <2>2 DEF EntryInv, EntryLive
  <2> QED BY <1>3, <2>1, <2>2, <2>3 DEF EntryInv, EntryLive
<1>10. FillOwns'
  BY <1>0, <1>1, <1>3, <1>4, <1>7 DEF EntryInv, FillOwns, Private
<1>11. HeldFrom'
  BY <1>0, <1>7 DEF EntryInv, HeldFrom, Holding, Filling
<1> QED BY <1>6, <1>8, <1>9, <1>10, <1>11 DEF EntryInv

\* Unmapping the page: no thread fills or holds, and the entry is reset.
LEMMA UnmapInv == ASSUME EntryInv, NEW v \in Contents, Unmap(v) PROVE EntryInv'
<1> DEFINE b == FreeInvalid(blk, blk[jmptbl.id].previous)
<1>0. TypeOK /\ blk \in [Ids -> Block] /\ \A t \in Threads : th[t].pc = "idle"
  BY Parts DEF EntryInv, Unmap, At
<1>1. b \in [Ids -> Block] /\ \A i \in Ids : b[i] \in {blk[i], Freed}
  BY <1>0, FreeInvalidKeeps
<1> HIDE DEF b
<1>2. blk' = [b EXCEPT ![jmptbl.id] = Freed]
  BY DEF Unmap, b
<1>3. blk' \in [Ids -> Block] /\ \A i \in Ids : blk'[i] \in {blk[i], Freed}
  BY <1>1, <1>2, UnusedType
<1>4. jmptbl' \in [id : Ids \union {None}, direct : BOOLEAN] /\ jmptbl'.id = None
  BY DEF Unmap, ArmNext
<1>5. content' \in Contents /\ tag' = FALSE /\ host' = "rw" /\ UNCHANGED <<mutex, glitch, th>>
  BY DEF Unmap
<1>6. TypeOK'
  BY <1>0, <1>3, <1>4, <1>5, Parts DEF TypeOK, ThreadType, PCs
<1>7. EntryLive'
  BY <1>3, <1>4, UnusedType DEF EntryInv, EntryLive
<1>8. OneFills' /\ HeldFrom'
  BY <1>5 DEF EntryInv, OneFills, HeldFrom
<1>9. FillOwns'
  BY <1>0, <1>5 DEF FillOwns, Private
<1> QED BY <1>6, <1>7, <1>8, <1>9 DEF EntryInv

\* Every step keeps the invariant.
LEMMA NextInv == EntryInv /\ [Next]_vars => EntryInv'
<1> SUFFICES ASSUME EntryInv, [Next]_vars PROVE EntryInv'
  OBVIOUS
<1>1. CASE UNCHANGED vars
  BY <1>1 DEF EntryInv, TypeOK, OneFills, EntryLive, FillOwns, HeldFrom, vars
<1>2. ASSUME NEW t \in Threads, DBGetBlock(t) \/ JumpDirect(t) \/ LeaveBlock(t) PROVE EntryInv'
  BY <1>2, DBGetBlockInv, JumpDirectInv, LeaveBlockInv
<1>3. ASSUME NEW t \in Threads, Locking(t) PROVE EntryInv'
  BY <1>3, LockInv, InvalidLockedInv, LinkInv DEF Locking
<1>4. ASSUME NEW t \in Threads, Fill(t) PROVE EntryInv'
  BY <1>4, FillStartInv, NoMemoryInv, Pass0Inv, ProtectPagesInv, HashBeforeInv, EmitInv, HashAfterInv, CheckProtectedInv,
     PublishInv, FillDoneInv DEF Fill
<1>5. ASSUME NEW t \in Threads, GetBlock(t) PROVE EntryInv'
  BY <1>3, <1>4, <1>5, LockBusyInv, LookAgainInv, NeedTestInv, HashTestInv, TryLockInv, CompareInv, ProtectInv,
     IsProtectedInv, FillBackInv, InvalidInv, RenewInv, UnlockInv, LeaveInv DEF GetBlock
<1>6. ASSUME NEW t \in Threads, Handler(t) PROVE EntryInv'
  BY <1>6, WriteInv, GetProtectionInv, UnprotectInv, GlitchInv, RefreshInv, SignalDoneInv DEF Handler
<1> QED BY <1>1, <1>2, <1>5, <1>6, StartWriteInv, UnmapInv DEF Next

(***************************************************************************)
(* mutex_dyndump, the jump table entry and the block FillBlock builds stay *)
(* consistent (EntryInv), whatever the threads do and in any order.        *)
(***************************************************************************)
THEOREM EntryInvAlways == Spec => []EntryInv
<1>1. Init => EntryInv
  BY InitInv
<1>2. EntryInv /\ [Next]_vars => EntryInv'
  BY NextInv
<1> QED BY <1>1, <1>2, PTL DEF Spec

(***************************************************************************)
(* At most one thread is in FillBlock, and it holds mutex_dyndump: the     *)
(* mutex is neither left held nor released by a thread that has not got it.*)
(***************************************************************************)
THEOREM OneFillsAlways == Spec => []OneFills
<1>1. EntryInv => OneFills
  BY DEF EntryInv
<1> QED BY <1>1, EntryInvAlways, PTL

(***************************************************************************)
(* The jump table never leads to a block that was invalidated or freed,    *)
(* and a block that is gone is not brought back.                           *)
(***************************************************************************)
THEOREM EntryLiveAlways == Spec => []EntryLive
<1>1. EntryInv => EntryLive
  BY DEF EntryInv
<1> QED BY <1>1, EntryInvAlways, PTL
-----------------------------------------------------------------------------
(***************************************************************************)
(* The guest that follows the rules for cross-modifying code.  While a     *)
(* thread is in DBGetBlock no thread writes, so what it reads of the code  *)
(* and of the page's tag stays: a thread, of which x is the state, with    *)
(* the code c, the tag tg, the jump table entry J and the blocks B.        *)
(***************************************************************************)
Comparing == {"hash", "try", "compare", "protect", "isprotected", "fillback"}

ThreadPolite(x, c, tg, J, B) ==
  /\ x.pc \notin {"glitch", "refresh", "segv"}
  /\ x.pc \in {"fault", "unprotect", "fillback"} => tg
  /\ x.pc = "hash2" => B[x.db].code = c
  /\ x.pc \in {"check", "publish"} => B[x.db].code = c /\ B[x.db].hash = c
  /\ x.pc = "publish" /\ ~ x.dirty => tg
  /\ x.pc \in Comparing => x.db # None
  /\ x.pc \in {"try", "compare"} => x.val = c
  /\ x.pc \in {"protect", "isprotected", "fillback"} /\ J.id = x.db => B[x.db].hash = c

\* The tag and the host's protection h agree; an entry that is direct is protected and right.
EntryPolite(c, tg, h, J, B) ==
  /\ tg <=> h = "ro"
  /\ J.id # None => B[J.id].code = B[J.id].hash
  /\ J.direct => J.id # None /\ tg /\ B[J.id].code = c

OneWrites == \A t \in Threads : th[t].pc \in Writing => \A u \in Threads \ {t} : th[u].pc = "idle"

PoliteInv == /\ OneWrites
             /\ EntryPolite(content, tag, host, jmptbl, blk)
             /\ \A t \in Threads : ThreadPolite(th[t], content, tag, jmptbl, blk)

\* Where a thread relies on nothing.
Plain == {"idle", "lock", "look", "create", "pass0", "pages", "hash1", "emit", "done", "need", "invalid", "invalidlock",
          "renew", "link", "unlock", "leave", "write"}

LEMMA PlainPolite ==
  ASSUME NEW x, x.pc \in Plain, NEW c, NEW tg, NEW J, NEW B
  PROVE  ThreadPolite(x, c, tg, J, B)
BY DEF Plain, Comparing, ThreadPolite

\* A step of t, seen from the other threads: the blocks they fill and the entry's keep code and hash.
LEMMA OthersPolite ==
  ASSUME EntryInv, PoliteInv, NEW t \in Threads, \A u \in Threads \ {t} : th'[u] = th[u],
         content' = content, tag => tag', jmptbl'.id \in {jmptbl.id, None},
         \A u \in Threads \ {t} : th[u].pc \in Private =>
            blk'[th[u].db].code = blk[th[u].db].code /\ blk'[th[u].db].hash = blk[th[u].db].hash,
         jmptbl'.id # None =>
            blk'[jmptbl'.id].code = blk[jmptbl'.id].code /\ blk'[jmptbl'.id].hash = blk[jmptbl'.id].hash
  PROVE  \A u \in Threads \ {t} : ThreadPolite(th'[u], content', tag', jmptbl', blk')
<1> SUFFICES ASSUME NEW u \in Threads \ {t} PROVE ThreadPolite(th[u], content, tag', jmptbl', blk')
  OBVIOUS
<1>1. ThreadPolite(th[u], content, tag, jmptbl, blk)
  BY DEF PoliteInv
<1>2. th[u].pc \in {"hash2", "check", "publish"} => th[u].pc \in Private
  BY DEF Private
<1>3. th[u].pc \in {"protect", "isprotected", "fillback"} => th[u].pc \in Comparing
  BY DEF Comparing
<1> QED BY <1>1, <1>2, <1>3 DEF ThreadPolite

\* A step of t does not make two writers.
LEMMA WritersPolite ==
  ASSUME OneWrites, NEW t \in Threads, \A u \in Threads \ {t} : th'[u] = th[u],
         \/ th'[t].pc = "idle"
         \/ th[t].pc \in Writing
         \/ th[t].pc # "idle" /\ th'[t].pc \notin Writing
         \/ th'[t].pc \notin Writing /\ \A u \in Threads : th[u].pc \notin Writing
         \/ \A u \in Threads \ {t} : th[u].pc = "idle"
  PROVE  OneWrites'
<1>1. "idle" \notin Writing
  BY DEF Writing
<1> QED BY <1>1 DEF OneWrites

\* A step of t that leaves the page, the entry and the blocks alone.
LEMMA LocalPolite ==
  ASSUME EntryInv, PoliteInv, NEW t \in Threads, \A u \in Threads \ {t} : th'[u] = th[u],
         UNCHANGED <<content, tag, host, jmptbl, blk>>, OneWrites',
         ThreadPolite(th'[t], content, tag, jmptbl, blk)
  PROVE  PoliteInv'
<1>1. \A u \in Threads \ {t} : ThreadPolite(th'[u], content', tag', jmptbl', blk')
  BY OthersPolite
<1>2. \A u \in Threads : ThreadPolite(th'[u], content', tag', jmptbl', blk')
  BY <1>1
<1>3. EntryPolite(content', tag', host', jmptbl', blk')
  BY DEF PoliteInv
<1> QED BY <1>2, <1>3 DEF PoliteInv

\* The same, to a place where the thread relies on nothing.
LEMMA PlainStep ==
  ASSUME EntryInv, PoliteInv, NEW t \in Threads, \A u \in Threads \ {t} : th'[u] = th[u],
         UNCHANGED <<content, tag, host, jmptbl, blk>>, th[t].pc # "idle", th'[t].pc \in Plain \ {"write"}
  PROVE  PoliteInv'
<1>1. ThreadPolite(th'[t], content, tag, jmptbl, blk)
  BY PlainPolite
<1>2. OneWrites'
  BY WritersPolite DEF PoliteInv, Plain, Writing
<1> QED BY <1>1, <1>2, LocalPolite

\* DBGetBlock up to the mutex, and after it.
LEMMA WalkPolite ==
  ASSUME EntryInv, PoliteInv, NEW t \in Threads,
         Lock(t) \/ LockBusy(t) \/ LookAgain(t) \/ HashBefore(t) \/ Renew(t) \/ Unlock(t) \/ Leave(t) \/ SignalDone(t)
  PROVE  PoliteInv'
<1>1. th \in [Threads -> ThreadType] /\ th[t] \in ThreadType
  BY Parts DEF EntryInv
<1>2. UNCHANGED <<content, tag, host, jmptbl, blk>>
  BY DEF Lock, LockBusy, LookAgain, HashBefore, Renew, Unlock, Leave, SignalDone
<1>3. th[t].pc # "idle"
  BY DEF Lock, LockBusy, LookAgain, HashBefore, Renew, Unlock, Leave, SignalDone, At
<1>4. \A u \in Threads \ {t} : th'[u] = th[u]
  BY <1>1 DEF Lock, LockBusy, LookAgain, HashBefore, Renew, Unlock, Leave, SignalDone, Goto, Returns
<1>5. th'[t].pc \in Plain \ {"write"}
  <2>1. CASE Lock(t) \/ LockBusy(t) \/ LookAgain(t)
    BY <1>1, <2>1 DEF Lock, LockBusy, LookAgain, Goto, Returns, Plain, ThreadType
  <2>2. CASE HashBefore(t) \/ Renew(t) \/ Unlock(t)
    BY <1>1, <2>2 DEF HashBefore, Renew, Unlock, Plain, ThreadType
  <2>3. CASE Leave(t) \/ SignalDone(t)
    BY <1>1, <2>3, IdleType DEF Leave, SignalDone, Plain, Idle
  <2> QED BY <2>1, <2>2, <2>3
<1> QED BY <1>2, <1>3, <1>4, <1>5, PlainStep

\* Entering and leaving code.
LEMMA RunPolite ==
  ASSUME EntryInv, PoliteInv, Polite, NEW t \in Threads, DBGetBlock(t) \/ LeaveBlock(t) \/ JumpDirect(t)
  PROVE  PoliteInv'
<1>1. th \in [Threads -> ThreadType] /\ th[t] \in ThreadType
  BY Parts DEF EntryInv
<1>2. UNCHANGED <<content, tag, host, jmptbl, blk>>
  BY DEF DBGetBlock, LeaveBlock, JumpDirect
<1>3. \A u \in Threads \ {t} : th'[u] = th[u]
  BY <1>1 DEF DBGetBlock, LeaveBlock, JumpDirect
<1>4. \/ th'[t].pc = "idle"
      \/ th'[t].pc \in {"lock", "need"} /\ \A u \in Threads : th[u].pc \notin Writing
  <2>1. CASE DBGetBlock(t)
    <3>1. th'[t].pc \in {"lock", "need"}
      BY <1>1, <2>1 DEF DBGetBlock, Idle
    <3> QED BY <2>1, <3>1 DEF DBGetBlock, MayExecute
  <2>2. CASE LeaveBlock(t) \/ JumpDirect(t)
    BY <1>1, <2>2 DEF LeaveBlock, JumpDirect, At, ThreadType
  <2> QED BY <2>1, <2>2
<1>5. ThreadPolite(th'[t], content, tag, jmptbl, blk)
  BY <1>4, PlainPolite DEF Plain
<1>6. OneWrites'
  BY <1>3, <1>4, WritersPolite DEF PoliteInv, Writing
<1> QED BY <1>2, <1>3, <1>5, <1>6, LocalPolite

\* The steps that look at the page or the code and keep what they saw.
LEMMA SeenPolite ==
  ASSUME EntryInv, PoliteInv, NEW t \in Threads,
         CheckProtected(t) \/ NeedTest(t) \/ HashTest(t) \/ TryLock(t) \/ IsProtected(t)
  PROVE  PoliteInv'
<1>1. th \in [Threads -> ThreadType] /\ th[t] \in ThreadType
  BY Parts DEF EntryInv
<1>2. UNCHANGED <<content, tag, host, jmptbl, blk>> /\ th[t].pc # "idle"
  BY DEF CheckProtected, NeedTest, HashTest, TryLock, IsProtected, At
<1>3. \A u \in Threads \ {t} : th'[u] = th[u]
  BY <1>1 DEF CheckProtected, NeedTest, HashTest, TryLock, IsProtected, Goto
<1>4. ThreadPolite(th[t], content, tag, jmptbl, blk)
  BY DEF PoliteInv
<1>5. th'[t].db = th[t].db
  BY <1>1 DEF CheckProtected, NeedTest, HashTest, TryLock, IsProtected, Goto, ThreadType
<1>6. ThreadPolite(th'[t], content, tag, jmptbl, blk) /\ th'[t].pc \notin Writing
  <2>1. CASE CheckProtected(t)
    <3>1. th[t].pc = "check" /\ th'[t].pc = "publish" /\ th'[t].dirty = ~ tag
      BY <1>1, <2>1 DEF CheckProtected, At, ThreadType
    <3> QED BY <1>4, <1>5, <3>1 DEF ThreadPolite, Comparing, Writing
  <2>2. CASE NeedTest(t)
    <3>1. th'[t].pc = "leave" \/ (th'[t].pc = "hash" /\ th[t].db # None)
      BY <1>1, <2>2 DEF NeedTest, Goto, ThreadType
    <3> QED BY <1>5, <3>1, PlainPolite DEF ThreadPolite, Comparing, Writing, Plain
  <2>3. CASE HashTest(t)
    <3>1. th[t].pc = "hash" /\ th'[t].pc = "try" /\ th'[t].val = content
      BY <1>1, <2>3 DEF HashTest, At, ThreadType
    <3> QED BY <1>4, <1>5, <3>1 DEF ThreadPolite, Comparing, Writing
  <2>4. CASE TryLock(t)
    <3>1. th[t].pc = "try" /\ th'[t].pc = "compare" /\ th'[t].val = th[t].val
      BY <1>1, <2>4 DEF TryLock, At, ThreadType
    <3> QED BY <1>4, <1>5, <3>1 DEF ThreadPolite, Comparing, Writing
  <2>5. CASE IsProtected(t)
    <3>1. th[t].pc = "isprotected" /\ (th'[t].pc = "unlock" \/ (th'[t].pc = "fillback" /\ tag))
      BY <1>1, <2>5 DEF IsProtected, At, Goto, ThreadType
    <3> QED BY <1>4, <1>5, <3>1, PlainPolite DEF ThreadPolite, Comparing, Writing, Plain
  <2> QED BY <2>1, <2>2, <2>3, <2>4, <2>5
<1>7. OneWrites'
  BY <1>2, <1>3, <1>6, WritersPolite DEF PoliteInv
<1> QED BY <1>2, <1>3, <1>6, <1>7, LocalPolite
\* A step of t that may protect the page, clear the entry, and change blocks that are not the entry's.
LEMMA BlockPolite ==
  ASSUME EntryInv, PoliteInv, NEW t \in Threads, \A u \in Threads \ {t} : th'[u] = th[u],
         th[t].pc # "idle", th'[t].pc \notin Writing, content' = content,
         (tag' = tag /\ host' = host) \/ protectDB,
         jmptbl' \in {jmptbl, ArmNext},
         \A u \in Threads \ {t} : th[u].pc \in Private =>
            blk'[th[u].db].code = blk[th[u].db].code /\ blk'[th[u].db].hash = blk[th[u].db].hash,
         jmptbl.id # None =>
            blk'[jmptbl.id].code = blk[jmptbl.id].code /\ blk'[jmptbl.id].hash = blk[jmptbl.id].hash,
         ThreadPolite(th'[t], content', tag', jmptbl', blk')
  PROVE  PoliteInv'
<1>1. (tag => tag') /\ (tag' <=> host' = "ro")
  BY DEF protectDB, PoliteInv, EntryPolite, EntryInv, TypeOK
<1>2. jmptbl'.id \in {jmptbl.id, None} /\ (jmptbl' = jmptbl \/ (jmptbl'.id = None /\ ~ jmptbl'.direct))
  BY DEF ArmNext
<1>3. \A u \in Threads \ {t} : ThreadPolite(th'[u], content', tag', jmptbl', blk')
  BY <1>1, <1>2, OthersPolite
<1>4. \A u \in Threads : ThreadPolite(th'[u], content', tag', jmptbl', blk')
  BY <1>3
<1>5. EntryPolite(content', tag', host', jmptbl', blk')
  BY <1>1, <1>2 DEF PoliteInv, EntryPolite
<1>6. OneWrites'
  BY WritersPolite DEF PoliteInv
<1> QED BY <1>4, <1>5, <1>6 DEF PoliteInv

\* While t has mutex_dyndump no other thread fills a block.
LEMMA FillsAlone ==
  ASSUME EntryInv, NEW t \in Threads, th[t].pc \in Filling, NEW u \in Threads \ {t}
  PROVE  th[u].pc \notin Private
BY Choices DEF EntryInv, OneFills, Filling, Private

\* FillBlock up to the jump table.
LEMMA FillPolite ==
  ASSUME EntryInv, PoliteInv, NEW t \in Threads,
         FillStart(t) \/ NoMemory(t) \/ Pass0(t) \/ ProtectPages(t) \/ Emit(t) \/ HashAfter(t) \/ FillDone(t)
  PROVE  PoliteInv'
<1>1. /\ th \in [Threads -> ThreadType] /\ th[t] \in ThreadType /\ blk \in [Ids -> Block]
      /\ jmptbl.id \in Ids \union {None} /\ content \in Contents
  BY Parts DEF EntryInv
<1>2. th[t].pc \in {"create", "pass0", "pages", "emit", "hash2", "done"}
  BY DEF FillStart, NoMemory, Pass0, ProtectPages, Emit, HashAfter, FillDone, At
<1>3. \A u \in Threads \ {t} : th[u].pc \notin Private
  BY <1>2, FillsAlone DEF Filling
<1>4. \A u \in Threads \ {t} : th'[u] = th[u]
  BY <1>1 DEF FillStart, NoMemory, Pass0, ProtectPages, Emit, HashAfter, FillDone, Cancel, Goto, Returns
<1>5. /\ content' = content /\ jmptbl' = jmptbl
      /\ (tag' = tag /\ host' = host) \/ protectDB
  BY DEF FillStart, NoMemory, Pass0, ProtectPages, Emit, HashAfter, FillDone
<1>6. jmptbl.id # None => /\ jmptbl.id \in Ids /\ blk[jmptbl.id].st = "live"
                          /\ th[t].pc \in Private => jmptbl.id # th[t].db
  BY <1>1 DEF EntryInv, EntryLive, FillOwns
<1>7. th[t].pc \in {"emit", "hash2"} => th[t].db \in Ids
  BY DEF EntryInv, FillOwns, Private
<1>8. "emit" \in Private /\ "hash2" \in Private /\ "pass0" \in Private
  BY DEF Private
<1>9. ThreadPolite(th[t], content, tag, jmptbl, blk)
  BY DEF PoliteInv
<1>10. ASSUME Cancel(t), th[t].pc \in Private
       PROVE  /\ th'[t].pc \in {"link", "need"}
              /\ jmptbl.id # None => blk'[jmptbl.id] = blk[jmptbl.id]
  BY <1>1, <1>6, <1>10 DEF Cancel, Returns, ThreadType
<1>11. CASE FillStart(t)
  <2>1. PICK i \in Ids : blk[i].st = "unused" /\ blk' = [blk EXCEPT ![i] = [Unused EXCEPT !.st = "live"]]
    BY <1>11 DEF FillStart
  <2>2. jmptbl.id # None => blk'[jmptbl.id] = blk[jmptbl.id]
    BY <1>1, <1>6, <2>1
  <2>3. th'[t].pc = "pass0"
    <3>1. PICK d \in Ids : th' = [th EXCEPT ![t].pc = "pass0", ![t].db = d]
      BY <1>11 DEF FillStart
    <3> QED BY <1>1, <3>1 DEF ThreadType
  <2>4. ThreadPolite(th'[t], content', tag', jmptbl', blk')
    BY <2>3, PlainPolite DEF Plain
  <2> QED BY <1>2, <1>3, <1>4, <1>5, <2>2, <2>3, <2>4, BlockPolite DEF Writing
<1>12. CASE NoMemory(t)
  <2>1. th'[t].pc \in {"link", "need"} /\ blk' = blk
    BY <1>1, <1>12 DEF NoMemory, Returns, ThreadType
  <2>2. ThreadPolite(th'[t], content', tag', jmptbl', blk')
    BY <2>1, PlainPolite DEF Plain
  <2> QED BY <1>2, <1>3, <1>4, <1>5, <2>1, <2>2, BlockPolite DEF Writing
<1>13. CASE Pass0(t)
  <2>1. th[t].pc = "pass0"
    BY <1>13 DEF Pass0, At
  <2>2. th'[t].pc \in {"pages", "link", "need"} /\ (jmptbl.id # None => blk'[jmptbl.id] = blk[jmptbl.id])
    BY <1>1, <1>8, <1>10, <1>13, <2>1 DEF Pass0, Goto, ThreadType
  <2>3. ThreadPolite(th'[t], content', tag', jmptbl', blk')
    BY <2>2, PlainPolite DEF Plain
  <2> QED BY <1>2, <1>3, <1>4, <1>5, <2>2, <2>3, BlockPolite DEF Writing
<1>14. CASE Emit(t)
  <2>1. th[t].pc = "emit" /\ th[t].db \in Ids /\ th'[t].pc = "hash2" /\ th'[t].db = th[t].db
    BY <1>1, <1>7, <1>14 DEF Emit, At, Goto, ThreadType
  <2>2. blk' = [blk EXCEPT ![th[t].db].code = content]
    BY <1>14 DEF Emit
  <2>3. jmptbl.id # None => blk'[jmptbl.id] = blk[jmptbl.id]
    BY <1>1, <1>6, <1>8, <2>1, <2>2
  <2>4. blk'[th[t].db].code = content
    BY <1>1, <2>1, <2>2 DEF Block
  <2>5. ThreadPolite(th'[t], content', tag', jmptbl', blk')
    BY <1>5, <2>1, <2>4 DEF ThreadPolite, Comparing
  <2> QED BY <1>2, <1>3, <1>4, <1>5, <2>1, <2>3, <2>5, BlockPolite DEF Writing
<1>15. CASE HashAfter(t)
  <2>1. th[t].pc = "hash2" /\ th[t].db \in Ids
    BY <1>7, <1>15 DEF HashAfter, At, EntryInv, FillOwns, Private
  <2>2. CASE content = th[t].val
    <3>1. th'[t].pc = "check" /\ th'[t].db = th[t].db /\ blk' = [blk EXCEPT ![th[t].db].hash = content]
      BY <1>1, <1>15, <2>2 DEF HashAfter, Goto, ThreadType
    <3>2. jmptbl.id # None => blk'[jmptbl.id] = blk[jmptbl.id]
      BY <1>1, <1>6, <1>8, <2>1, <3>1
    <3>3. blk'[th[t].db].hash = content /\ blk'[th[t].db].code = content
      BY <1>1, <1>9, <2>1, <3>1 DEF Block, ThreadPolite
    <3>4. ThreadPolite(th'[t], content', tag', jmptbl', blk')
      BY <1>5, <3>1, <3>3 DEF ThreadPolite, Comparing
    <3> QED BY <1>2, <1>3, <1>4, <1>5, <3>1, <3>2, <3>4, BlockPolite DEF Writing
  <2>3. CASE content # th[t].val
    <3>1. Cancel(t)
      BY <1>15, <2>3 DEF HashAfter
    <3>2. th'[t].pc \in {"link", "need"} /\ (jmptbl.id # None => blk'[jmptbl.id] = blk[jmptbl.id])
      BY <1>8, <1>10, <2>1, <3>1
    <3>3. ThreadPolite(th'[t], content', tag', jmptbl', blk')
      BY <3>2, PlainPolite DEF Plain
    <3> QED BY <1>2, <1>3, <1>4, <1>5, <3>2, <3>3, BlockPolite DEF Writing
  <2> QED BY <2>2, <2>3
<1>16. CASE FillDone(t)
  <2>1. th'[t].pc \in {"link", "need"} /\ blk' = [blk EXCEPT ![th[t].db].done = TRUE]
    BY <1>1, <1>16 DEF FillDone, Returns, ThreadType
  <2>2. \A i \in Ids : blk'[i].code = blk[i].code /\ blk'[i].hash = blk[i].hash
    BY <1>1, <2>1 DEF Block
  <2>3. ThreadPolite(th'[t], content', tag', jmptbl', blk')
    BY <2>1, PlainPolite DEF Plain
  <2> QED BY <1>1, <1>2, <1>3, <1>4, <1>5, <2>1, <2>2, <2>3, BlockPolite DEF Writing
<1>17. CASE ProtectPages(t)
  <2>1. th'[t].pc = "hash1" /\ blk' = blk
    BY <1>1, <1>17 DEF ProtectPages, Goto, ThreadType
  <2>2. ThreadPolite(th'[t], content', tag', jmptbl', blk')
    BY <2>1, PlainPolite DEF Plain
  <2> QED BY <1>2, <1>3, <1>4, <1>5, <2>1, <2>2, BlockPolite DEF Writing
<1> QED BY <1>11, <1>12, <1>13, <1>14, <1>15, <1>16, <1>17

\* What a thread that fills a block relies on, of the block of another thread: it is not gone.
LEMMA PrivateHeld ==
  ASSUME EntryInv
  PROVE  /\ \A u \in Threads : th[u].pc \in Private => th[u].db \in Ids /\ ~ blk[th[u].db].gone
         /\ jmptbl.id # None => jmptbl.id \in Ids /\ ~ blk[jmptbl.id].gone
BY DEF EntryInv, TypeOK, EntryLive, FillOwns

\* Comparing a hash, invalidating a block and replacing it.
LEMMA RenewPolite ==
  ASSUME EntryInv, PoliteInv, NEW t \in Threads,
         Compare(t) \/ Protect(t) \/ Invalid(t) \/ InvalidLocked(t) \/ Link(t)
  PROVE  PoliteInv'
<1>1. /\ th \in [Threads -> ThreadType] /\ th[t] \in ThreadType /\ blk \in [Ids -> Block]
  BY Parts DEF EntryInv
<1>2. th[t].pc # "idle"
  BY DEF Compare, Protect, Invalid, InvalidLocked, Link, At
<1>3. \A u \in Threads \ {t} : th'[u] = th[u]
  BY <1>1 DEF Compare, Protect, Invalid, InvalidLocked, Link, Removed, Goto
<1>4. /\ content' = content /\ jmptbl' \in {jmptbl, ArmNext}
      /\ (tag' = tag /\ host' = host) \/ protectDB
  BY DEF Compare, Protect, Invalid, InvalidLocked, Link, Removed
<1>5. ThreadPolite(th[t], content, tag, jmptbl, blk)
  BY DEF PoliteInv
<1>6. \A i \in Ids : ~ blk[i].gone => blk'[i].code = blk[i].code /\ blk'[i].hash = blk[i].hash
  <2>1. CASE Compare(t)
    BY <1>1, <2>1 DEF Compare, Block
  <2>2. CASE Protect(t)
    BY <2>2 DEF Protect
  <2>3. CASE Invalid(t) \/ InvalidLocked(t)
    <3>1. \/ blk' = blk
          \/ blk' = [blk EXCEPT ![th[t].db].done = FALSE, ![th[t].db].gone = TRUE]
      BY <2>3 DEF Invalid, InvalidLocked, Removed
    <3> QED BY <1>1, <3>1 DEF Block
  <2>4. CASE Link(t)
    <3>1. PICK f : /\ f = [i \in Ids |-> blk[i]] \/ \E x : blk[x].gone /\ f = [blk EXCEPT ![x] = Freed]
                   /\ \/ blk' = f
                      \/ blk' = [f EXCEPT ![th[t].db].previous = th[t].old]
      BY <1>1, <2>4 DEF Link, FreeInvalid
    <3>2. f \in [Ids -> Block] /\ \A i \in Ids : ~ blk[i].gone => f[i] = blk[i]
      BY <1>1, <3>1, UnusedType
    <3> QED BY <3>1, <3>2 DEF Block
  <2> QED BY <2>1, <2>2, <2>3, <2>4
<1>7. /\ \A u \in Threads \ {t} : th[u].pc \in Private =>
           blk'[th[u].db].code = blk[th[u].db].code /\ blk'[th[u].db].hash = blk[th[u].db].hash
      /\ jmptbl.id # None =>
           blk'[jmptbl.id].code = blk[jmptbl.id].code /\ blk'[jmptbl.id].hash = blk[jmptbl.id].hash
  BY <1>6, PrivateHeld
<1>8. ThreadPolite(th'[t], content', tag', jmptbl', blk') /\ th'[t].pc \notin Writing
  <2>1. CASE Compare(t)
    <3>1. CASE th[t].val = blk[th[t].db].hash
      <4>1. /\ th[t].pc = "compare" /\ th'[t].pc = "protect" /\ th'[t].db = th[t].db
            /\ blk' = blk /\ jmptbl' = jmptbl /\ tag' = tag
        BY <1>1, <2>1, <3>1 DEF Compare, At, ThreadType
      <4>2. th[t].db # None /\ blk[th[t].db].hash = content
        BY <1>5, <3>1, <4>1 DEF ThreadPolite, Comparing
      <4> QED BY <1>4, <4>1, <4>2 DEF ThreadPolite, Comparing, Writing
    <3>2. CASE th[t].val # blk[th[t].db].hash
      <4>1. th'[t].pc = "invalid"
        BY <1>1, <2>1, <3>2 DEF Compare, ThreadType
      <4> QED BY <4>1, PlainPolite DEF Plain, Writing
    <3> QED BY <3>1, <3>2
  <2>2. CASE Protect(t)
    <3>1. /\ th[t].pc = "protect" /\ th'[t].pc = "isprotected" /\ th'[t].db = th[t].db
          /\ blk' = blk /\ jmptbl' = jmptbl
      BY <1>1, <2>2 DEF Protect, At, Goto, ThreadType
    <3> QED BY <1>4, <1>5, <3>1 DEF ThreadPolite, Comparing, Writing
  <2>3. CASE Invalid(t) \/ InvalidLocked(t)
    <3>1. th'[t].pc \in {"renew", "invalidlock"}
      BY <1>1, <2>3 DEF Invalid, InvalidLocked, Removed, Goto, ThreadType
    <3> QED BY <3>1, PlainPolite DEF Plain, Writing
  <2>4. CASE Link(t)
    <3>1. th'[t].pc = "unlock"
      BY <1>1, <2>4 DEF Link, ThreadType
    <3> QED BY <3>1, PlainPolite DEF Plain, Writing
  <2> QED BY <2>1, <2>2, <2>3, <2>4
<1> QED BY <1>2, <1>3, <1>4, <1>7, <1>8, BlockPolite

\* addJumpTableIfDefault: the new entry is right, and direct only while the page is protected.
LEMMA PublishPolite ==
  ASSUME EntryInv, PoliteInv, NEW t \in Threads, Publish(t)
  PROVE  PoliteInv'
<1>1. th \in [Threads -> ThreadType] /\ th[t] \in ThreadType
  BY Parts DEF EntryInv
<1>2. /\ UNCHANGED <<content, tag, host, blk>> /\ th[t].pc = "publish" /\ th'[t].pc = "done"
      /\ jmptbl'.id = th[t].db /\ jmptbl'.direct = ~ th[t].dirty
  BY <1>1 DEF Publish, At, ThreadType
<1>3. \A u \in Threads \ {t} : th'[u] = th[u] /\ th[u].pc \notin Private
  BY <1>1, <1>2, FillsAlone DEF Publish, Filling
<1>4. /\ blk[th[t].db].code = content /\ blk[th[t].db].hash = content /\ (~ th[t].dirty => tag)
      /\ th[t].db \in Ids /\ th[t].db # None
  BY <1>2, Choices DEF PoliteInv, ThreadPolite, EntryInv, FillOwns, Private
<1>5. \A u \in Threads \ {t} : ThreadPolite(th[u], content, tag, jmptbl', blk)
  <2> SUFFICES ASSUME NEW u \in Threads \ {t} PROVE ThreadPolite(th[u], content, tag, jmptbl', blk)
    OBVIOUS
  <2>1. ThreadPolite(th[u], content, tag, jmptbl, blk)
    BY DEF PoliteInv
  <2> QED BY <1>2, <1>4, <2>1 DEF ThreadPolite
<1>6. ThreadPolite(th'[t], content, tag, jmptbl', blk)
  BY <1>2, PlainPolite DEF Plain
<1>7. EntryPolite(content, tag, host, jmptbl', blk)
  BY <1>2, <1>4 DEF EntryPolite, PoliteInv
<1>8. OneWrites'
  BY <1>2, <1>3, WritersPolite DEF PoliteInv, Writing
<1> QED BY <1>2, <1>3, <1>5, <1>6, <1>7, <1>8 DEF PoliteInv

\* setJumpTableIfRef: the block whose hash was right is still the entry's.
LEMMA FillBackPolite ==
  ASSUME EntryInv, PoliteInv, NEW t \in Threads, FillBack(t)
  PROVE  PoliteInv'
<1>1. th \in [Threads -> ThreadType] /\ th[t] \in ThreadType /\ jmptbl \in [id : Ids \union {None}, direct : BOOLEAN]
  BY Parts DEF EntryInv
<1>2. UNCHANGED <<content, tag, host, blk>> /\ th[t].pc = "fillback" /\ th'[t].pc = "unlock" /\ jmptbl'.id = jmptbl.id
  BY <1>1 DEF FillBack, At, Goto, ThreadType
<1>3. \A u \in Threads \ {t} : th'[u] = th[u]
  BY <1>1 DEF FillBack, Goto
<1>4. jmptbl' = jmptbl \/ (jmptbl.id = th[t].db /\ jmptbl'.direct)
  BY <1>1 DEF FillBack
<1>5. tag /\ th[t].db # None /\ (jmptbl.id = th[t].db => blk[th[t].db].hash = content)
  BY <1>2 DEF PoliteInv, ThreadPolite, Comparing
<1>6. EntryPolite(content, tag, host, jmptbl', blk)
  BY <1>2, <1>4, <1>5 DEF PoliteInv, EntryPolite
<1>7. \A u \in Threads \ {t} : ThreadPolite(th'[u], content', tag', jmptbl', blk')
  BY <1>2, <1>3, OthersPolite
<1>8. ThreadPolite(th'[t], content', tag', jmptbl', blk')
  BY <1>2, PlainPolite DEF Plain
<1>9. OneWrites'
  BY <1>2, <1>3, WritersPolite DEF PoliteInv, Writing
<1> QED BY <1>2, <1>6, <1>7, <1>8, <1>9 DEF PoliteInv

\* The writer: the page is protected when its write faults, and stays so until unprotectDB.
LEMMA WritePolite ==
  ASSUME EntryInv, PoliteInv, NEW t \in Threads, Handler(t)
  PROVE  PoliteInv'
<1>1. /\ th \in [Threads -> ThreadType] /\ th[t] \in ThreadType /\ host \in {"ro", "rw"} /\ th[t].run \in Ids \union {None}
      /\ jmptbl \in [id : Ids \union {None}, direct : BOOLEAN]
  BY Parts DEF EntryInv, ThreadType
<1>2. ThreadPolite(th[t], content, tag, jmptbl, blk) /\ EntryPolite(content, tag, host, jmptbl, blk) /\ OneWrites
  BY DEF PoliteInv
<1>3. th[t].pc \in {"write", "fault", "unprotect"}
  BY <1>2 DEF Handler, Write, GetProtection, Unprotect, Glitch, Refresh, SignalDone, At, ThreadPolite
<1>4. \A u \in Threads \ {t} : th[u].pc = "idle"
  BY <1>2, <1>3 DEF OneWrites, Writing
<1>5. \A u \in Threads \ {t} : th'[u] = th[u]
  BY <1>1, <1>3 DEF Handler, Write, GetProtection, Unprotect, Glitch, Refresh, SignalDone, At, Goto
<1>6. OneWrites'
  BY <1>2, <1>4, <1>5, WritersPolite
<1>7. \A u \in Threads \ {t} : ThreadPolite(th'[u], content', tag', jmptbl', blk')
  BY <1>4, <1>5, PlainPolite DEF Plain
<1>8. ThreadPolite(th'[t], content', tag', jmptbl', blk') /\ EntryPolite(content', tag', host', jmptbl', blk')
  <2>1. CASE th[t].pc = "write"
    <3>1. Write(t)
      BY <2>1 DEF Handler, Write, GetProtection, Unprotect, Glitch, Refresh, SignalDone, At
    <3>2. CASE host = "rw"
      <4>1. th'[t].pc = "idle" /\ UNCHANGED <<tag, host, jmptbl, blk>>
        BY <1>1, <3>1, <3>2, IdleType DEF Write
      <4> QED BY <1>2, <3>2, <4>1, PlainPolite DEF Plain, EntryPolite
    <3>3. CASE host = "ro"
      <4>1. th'[t].pc = "fault" /\ UNCHANGED <<content, tag, host, jmptbl, blk>> /\ tag
        BY <1>1, <1>2, <3>1, <3>3 DEF Write, Goto, ThreadType, EntryPolite
      <4> QED BY <1>2, <4>1 DEF ThreadPolite, Comparing
    <3> QED BY <1>1, <3>2, <3>3
  <2>2. CASE th[t].pc = "fault"
    <3>1. GetProtection(t) /\ tag
      BY <1>2, <2>2 DEF Handler, Write, GetProtection, Unprotect, Glitch, Refresh, SignalDone, At, ThreadPolite
    <3>2. th'[t].pc = "unprotect" /\ UNCHANGED <<content, tag, host, jmptbl, blk>>
      BY <1>1, <3>1 DEF GetProtection, Goto, ThreadType
    <3> QED BY <1>2, <3>1, <3>2 DEF ThreadPolite, Comparing
  <2>3. CASE th[t].pc = "unprotect"
    <3>1. Unprotect(t) /\ tag
      BY <1>2, <2>3 DEF Handler, Write, GetProtection, Unprotect, Glitch, Refresh, SignalDone, At, ThreadPolite
    <3>2. /\ th'[t].pc = "write" /\ UNCHANGED <<content, blk>> /\ tag' = FALSE /\ host' = "rw"
          /\ jmptbl'.id = jmptbl.id /\ jmptbl'.direct = FALSE
      BY <1>1, <3>1 DEF Unprotect, Marked, ThreadType
    <3> QED BY <1>2, <3>2, PlainPolite DEF Plain, EntryPolite
  <2> QED BY <1>3, <2>1, <2>2, <2>3
<1>9. \A u \in Threads : ThreadPolite(th'[u], content', tag', jmptbl', blk')
  BY <1>7, <1>8
<1> QED BY <1>6, <1>8, <1>9 DEF PoliteInv

LEMMA StartWritePolite ==
  ASSUME EntryInv, PoliteInv, Polite, NEW t \in Threads, NEW v, StartWrite(t, v)
  PROVE  PoliteInv'
<1>1. th \in [Threads -> ThreadType] /\ th[t] \in ThreadType
  BY Parts DEF EntryInv
<1>2. /\ UNCHANGED <<content, tag, host, jmptbl, blk>> /\ th'[t].pc = "write"
      /\ \A u \in Threads \ {t} : th'[u] = th[u] /\ th[u].pc = "idle"
  BY <1>1 DEF StartWrite, MayModify, At, ThreadType
<1>3. OneWrites'
  BY <1>2, WritersPolite DEF PoliteInv
<1>4. ThreadPolite(th'[t], content, tag, jmptbl, blk)
  BY <1>2, PlainPolite DEF Plain
<1> QED BY <1>2, <1>3, <1>4, LocalPolite

LEMMA UnmapPolite ==
  ASSUME PoliteInv, NEW v, Unmap(v)
  PROVE  PoliteInv'
<1>1. /\ \A t \in Threads : th'[t].pc = "idle"
      /\ tag' = FALSE /\ host' = "rw" /\ jmptbl' = ArmNext
  BY DEF Unmap, At
<1>2. \A t \in Threads : ThreadPolite(th'[t], content', tag', jmptbl', blk')
  BY <1>1, PlainPolite DEF Plain
<1>3. EntryPolite(content', tag', host', jmptbl', blk')
  BY <1>1 DEF EntryPolite, ArmNext
<1>4. OneWrites'
  BY <1>1 DEF OneWrites, Writing
<1> QED BY <1>2, <1>3, <1>4 DEF PoliteInv

LEMMA NextPolite ==
  ASSUME EntryInv, PoliteInv, Polite, [Next]_vars
  PROVE  PoliteInv'
<1>1. CASE UNCHANGED vars
  BY <1>1 DEF vars, PoliteInv, OneWrites
<1>2. ASSUME NEW t \in Threads, GetBlock(t) PROVE PoliteInv'
  BY <1>2, WalkPolite, SeenPolite, FillPolite, RenewPolite, PublishPolite, FillBackPolite
     DEF GetBlock, Locking, Fill
<1> QED BY <1>1, <1>2, RunPolite, WritePolite, StartWritePolite, UnmapPolite DEF Next

LEMMA InitPolite ==
  ASSUME Init
  PROVE  PoliteInv
<1>1. \A t \in Threads : th[t].pc = "idle"
  BY IdleType DEF Init
<1>2. \A t \in Threads : ThreadPolite(th[t], content, tag, jmptbl, blk)
  BY <1>1, PlainPolite DEF Plain
<1>3. EntryPolite(content, tag, host, jmptbl, blk)
  BY DEF Init, EntryPolite, ArmNext
<1>4. OneWrites
  BY <1>1 DEF OneWrites, Writing
<1> QED BY <1>2, <1>3, <1>4 DEF PoliteInv

(***************************************************************************)
(* PoliteInv holds in every state, for any number of threads of a guest    *)
(* that writes code only while no other thread executes it.                *)
(***************************************************************************)
THEOREM PoliteInvAlways ==
  ASSUME Polite
  PROVE  Spec => []PoliteInv
<1>1. Init => PoliteInv
  BY InitPolite
<1>2. EntryInv /\ PoliteInv /\ [Next]_vars => PoliteInv'
  BY NextPolite
<1> QED BY <1>1, <1>2, EntryInvAlways, PTL DEF Spec

(***************************************************************************)
(* A block that the jump table leads to directly is a translation of the   *)
(* code that is there, however translations, tests and writes of the       *)
(* threads were interleaved.                                               *)
(***************************************************************************)
THEOREM QuietCoherentAlways ==
  ASSUME Polite
  PROVE  Spec => []QuietCoherent
<1>1. PoliteInv => QuietCoherent
  BY DEF PoliteInv, EntryPolite, QuietCoherent
<1> QED BY <1>1, PoliteInvAlways, PTL

(***************************************************************************)
(* The fault of a write to protected code is always taken for the          *)
(* dynarec's: the guest, which may write to the page, gets no SIGSEGV.     *)
(***************************************************************************)
THEOREM NoSpuriousSegvAlways ==
  ASSUME Polite
  PROVE  Spec => []NoSpuriousSegv
<1>1. PoliteInv => NoSpuriousSegv
  BY DEF PoliteInv, ThreadPolite, NoSpuriousSegv, At
<1> QED BY <1>1, PoliteInvAlways, PTL
=============================================================================
