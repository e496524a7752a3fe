---------------------------- MODULE DynaThreads ----------------------------
(***************************************************************************)
(* The life of the translations of one guest address, on one page, when    *)
(* several emulated threads run, write and translate it at once: DBGetBlock*)
(* and internalDBGetBlock, InvalidDynablock and the previous field of      *)
(* dynablock.c, FillBlock of dynarec_arm.c, and the fault handler of       *)
(* libtools/signals.c.  A step is what a thread does between two accesses  *)
(* to shared state: the code, the page, the jump table entry, the fields   *)
(* of a block.  protectDB, unprotectDB and isprotectedDB are one step      *)
(* each, the code between mutex_prot's lock and unlock.                    *)
(*                                                                         *)
(* The guest asked for a page it can read, write and execute.  DynaCache   *)
(* has several pages and addresses, for one thread; hot pages, blocks that *)
(* are always tested and empty blocks are there.                           *)
(***************************************************************************)
EXTENDS Naturals, FiniteSets

CONSTANTS
  Threads,   \* the emulated threads
  Contents,  \* what the code of the block may be
  MaxBlocks, \* how many blocks can be allocated
  Wait,      \* box86_dynarec_wait
  Polite     \* does the guest write code only while no other thread executes it?

ASSUME ThreadsAssumption == /\ MaxBlocks \in Nat \ {0}
                            /\ Contents # {} /\ Wait \in BOOLEAN /\ Polite \in BOOLEAN
                            /\ 0 \notin Threads

VARIABLES
  content,  \* the guest's code
  tag,      \* memprot: is the page PROT_DYNAREC?
  host,     \* what the host allows on the page, "ro" or "rw"
  jmptbl,   \* the jump table entry of the address
  blk,      \* the dynablock_t's
  mutex,    \* mutex_dyndump: who holds it
  glitch,   \* glitch_pc and glitch2_pc of the handler: the block the fault was in
  th        \* the threads

vars == <<content, tag, host, jmptbl, blk, mutex, glitch, th>>

Ids  == 1 .. MaxBlocks
None == 0
NoKey == MaxBlocks + 1

-----------------------------------------------------------------------------
(***************************************************************************)
(* A block: what pass 3 translated (code), its hash, its flags and the     *)
(* block it replaced.  The hash is the contents hashed.                    *)
(***************************************************************************)
AnyContent == CHOOSE c \in Contents : TRUE
Unused == [st |-> "unused", code |-> AnyContent, hash |-> AnyContent, done |-> FALSE, gone |-> FALSE,
           previous |-> None]
Freed  == [Unused EXCEPT !.st = "freed"]

\* arm_next (id None), db->block (direct) or db->jmpnext.
ArmNext == [id |-> None, direct |-> FALSE]

(***************************************************************************)
(* A thread: where it is, the block it runs (None in the interpreter), and *)
(* its locals.  locked: DBGetBlock's trylock succeeded (need_lock is 0).   *)
(* again: it is in the second internalDBGetBlock of DBGetBlock.            *)
(***************************************************************************)
Idle(run) == [pc |-> "idle", run |-> run, db |-> None, old |-> None, val |-> AnyContent,
              locked |-> FALSE, again |-> FALSE, dirty |-> FALSE]

Init == /\ content \in Contents
        /\ tag = FALSE
        /\ host = "rw"
        /\ jmptbl = ArmNext
        /\ blk = [i \in Ids |-> Unused]
        /\ mutex = None
        /\ glitch = [first |-> NoKey, second |-> NoKey]
        /\ th = [t \in Threads |-> Idle(None)]

At(t, pc) == th[t].pc = pc
Writing == {"write", "fault", "unprotect", "glitch", "refresh", "segv"}

\* A guest that follows the rules for cross-modifying code.
MayExecute == Polite => \A u \in Threads : th[u].pc \notin Writing
MayModify(t) == Polite => \A u \in Threads \ {t} : At(u, "idle") /\ th[u].run = None

Goto(t, pc) == th' = [th EXCEPT ![t].pc = pc]

\* protectDB leaves the host alone when the page is tagged already.
protectDB == tag' = TRUE /\ host' = IF tag THEN host ELSE "ro"

\* Mutant: the entry stays db->block.
Marked_kept == jmptbl

\* MarkDynablock of the block in the jump table.
Marked == [jmptbl EXCEPT !.direct = FALSE]

\* Mutant: need_lock is not looked at.
Release_always(t) == mutex' = None

\* mutex_unlock of the lock internalDBGetBlock took, which it did unless DBGetBlock has it.
Release(t) == mutex' = IF th[t].locked THEN mutex ELSE None

-----------------------------------------------------------------------------
(***************************************************************************)
(* internalDBGetBlock returns db.                                          *)
(***************************************************************************)
Returns(t, db) ==
  th' = [th EXCEPT ![t].pc = IF th[t].again THEN "link" ELSE "need", ![t].db = db]

\* DBGetBlock: its first internalDBGetBlock looks at the jump table.
DBGetBlock(t) ==
  /\ At(t, "idle")
  /\ MayExecute
  /\ th' = [th EXCEPT ![t] = [Idle(None) EXCEPT !.pc = IF jmptbl = ArmNext THEN "lock" ELSE "need",
                                                !.db = jmptbl.id]]
  /\ UNCHANGED <<content, tag, host, jmptbl, blk, mutex, glitch>>

Lock(t) ==
  /\ At(t, "lock")
  /\ mutex = None
  /\ mutex' = t
  /\ Goto(t, "look")
  /\ UNCHANGED <<content, tag, host, jmptbl, blk, glitch>>

\* Without box86_dynarec_wait: FillBlock not available for now.
LockBusy(t) ==
  /\ At(t, "lock")
  /\ ~ Wait
  /\ mutex # None
  /\ Returns(t, None)
  /\ UNCHANGED <<content, tag, host, jmptbl, blk, mutex, glitch>>

\* "just in case": the block may be there by now.
LookAgain(t) ==
  /\ At(t, "look")
  /\ IF jmptbl = ArmNext THEN Goto(t, "create") /\ UNCHANGED mutex
     ELSE Returns(t, jmptbl.id) /\ mutex' = None
  /\ UNCHANGED <<content, tag, host, jmptbl, blk, glitch>>

-----------------------------------------------------------------------------
(***************************************************************************)
(* FillBlock, from the allocation of the block on.  Without memory for a   *)
(* block it is given up.                                                   *)
(***************************************************************************)
FillStart(t) ==
  /\ At(t, "create")
  /\ \E i \in Ids :
       /\ blk[i].st = "unused"
       /\ \A j \in Ids : j < i => blk[j].st # "unused"
       /\ blk' = [blk EXCEPT ![i] = [Unused EXCEPT !.st = "live"]]
       /\ th' = [th EXCEPT ![t].pc = "pass0", ![t].db = i]
  /\ protectDB
  /\ UNCHANGED <<content, jmptbl, mutex, glitch>>

NoMemory(t) ==
  /\ At(t, "create")
  /\ \A i \in Ids : blk[i].st # "unused"
  /\ protectDB
  /\ Release(t)
  /\ Returns(t, None)
  /\ UNCHANGED <<content, jmptbl, blk, glitch>>

\* Mutant: the early return forgets mutex_unlock.
Cancel_locked(t) ==
  /\ blk' = [blk EXCEPT ![th[t].db] = Unused]
  /\ Returns(t, None)
  /\ UNCHANGED mutex

\* CancelBlock: nobody else has seen the block.
Cancel(t) ==
  /\ blk' = [blk EXCEPT ![th[t].db] = Unused]
  /\ Release(t)
  /\ Returns(t, None)

\* "write on current page on pass0, aborting dynablock creation".
Pass0(t) ==
  /\ At(t, "pass0")
  /\ IF tag THEN Goto(t, "pages") /\ UNCHANGED <<blk, mutex>> ELSE Cancel(t)
  /\ UNCHANGED <<content, tag, host, jmptbl, glitch>>

\* The second protectDB.  Its test lets through every block but those exactly a
\* page long; the block is in one page, which may have been unprotected again.
ProtectPages(t) ==
  /\ At(t, "pages")
  /\ protectDB
  /\ Goto(t, "hash1")
  /\ UNCHANGED <<content, jmptbl, blk, mutex, glitch>>

HashBefore(t) ==
  /\ At(t, "hash1")
  /\ th' = [th EXCEPT ![t].pc = "emit", ![t].val = content]
  /\ UNCHANGED <<content, tag, host, jmptbl, blk, mutex, glitch>>

\* Pass 3 reads the code and emits its translation.
Emit(t) ==
  /\ At(t, "emit")
  /\ blk' = [blk EXCEPT ![th[t].db].code = content]
  /\ Goto(t, "hash2")
  /\ UNCHANGED <<content, tag, host, jmptbl, mutex, glitch>>

\* "Check if something changed".
HashAfter(t) ==
  /\ At(t, "hash2")
  /\ IF content = th[t].val
     THEN /\ blk' = [blk EXCEPT ![th[t].db].hash = content]
          /\ Goto(t, "check")
          /\ UNCHANGED mutex
     ELSE Cancel(t)
  /\ UNCHANGED <<content, tag, host, jmptbl, glitch>>

\* "block unprotected while being processed, marking as need_test".
CheckProtected(t) ==
  /\ At(t, "check")
  /\ th' = [th EXCEPT ![t].pc = "publish", ![t].dirty = ~ tag, ![t].val = AnyContent]
  /\ UNCHANGED <<content, tag, host, jmptbl, blk, mutex, glitch>>

\* addJumpTableIfDefault: nobody else can have added a block, the mutex is held.
Publish(t) ==
  /\ At(t, "publish")
  /\ jmptbl = ArmNext
  /\ jmptbl' = [id |-> th[t].db, direct |-> ~ th[t].dirty]
  /\ th' = [th EXCEPT ![t].pc = "done", ![t].dirty = FALSE]
  /\ UNCHANGED <<content, tag, host, blk, mutex, glitch>>

FillDone(t) ==
  /\ At(t, "done")
  /\ blk' = [blk EXCEPT ![th[t].db].done = TRUE]
  /\ Release(t)
  /\ Returns(t, th[t].db)
  /\ UNCHANGED <<content, tag, host, jmptbl, glitch>>

-----------------------------------------------------------------------------
(***************************************************************************)
(* The rest of DBGetBlock: a block that is done, and whose entry is        *)
(* jmpnext, has its hash compared before mutex_dyndump is tried.           *)
(***************************************************************************)
NeedTest(t) ==
  /\ At(t, "need")
  /\ Goto(t, IF th[t].db # None /\ blk[th[t].db].done /\ jmptbl # ArmNext /\ ~ jmptbl.direct
             THEN "hash" ELSE "leave")
  /\ UNCHANGED <<content, tag, host, jmptbl, blk, mutex, glitch>>

HashTest(t) ==
  /\ At(t, "hash")
  /\ th' = [th EXCEPT ![t].pc = "try", ![t].val = content]
  /\ UNCHANGED <<content, tag, host, jmptbl, blk, mutex, glitch>>

TryLock(t) ==
  /\ At(t, "try")
  /\ th' = [th EXCEPT ![t].pc = "compare", ![t].locked = (mutex = None)]
  /\ mutex' = IF mutex = None THEN t ELSE mutex
  /\ UNCHANGED <<content, tag, host, jmptbl, blk, glitch>>

Compare(t) ==
  /\ At(t, "compare")
  /\ LET same == th[t].val = blk[th[t].db].hash
     IN  /\ blk' = IF same THEN blk ELSE [blk EXCEPT ![th[t].db].done = FALSE]
         /\ th' = [th EXCEPT ![t].pc = IF same THEN "protect" ELSE "invalid", ![t].val = AnyContent]
  /\ UNCHANGED <<content, tag, host, jmptbl, mutex, glitch>>

(***************************************************************************)
(* Validating the block: the page is protected, then, if it still is, the  *)
(* entry becomes db->block (setJumpTableIfRef).                            *)
(***************************************************************************)
Protect(t) ==
  /\ At(t, "protect")
  /\ protectDB
  /\ Goto(t, "isprotected")
  /\ UNCHANGED <<content, jmptbl, blk, mutex, glitch>>

IsProtected(t) ==
  /\ At(t, "isprotected")
  /\ Goto(t, IF tag THEN "fillback" ELSE "unlock")
  /\ UNCHANGED <<content, tag, host, jmptbl, blk, mutex, glitch>>

\* Mutant: the entry is set whatever it is by now.
FillBack_noref(t) ==
  /\ At(t, "fillback")
  /\ jmptbl' = [id |-> th[t].db, direct |-> TRUE]
  /\ Goto(t, "unlock")
  /\ UNCHANGED <<content, tag, host, blk, mutex, glitch>>

FillBack(t) ==
  /\ At(t, "fillback")
  /\ jmptbl' = IF jmptbl.id = th[t].db THEN [jmptbl EXCEPT !.direct = TRUE] ELSE jmptbl
  /\ Goto(t, "unlock")
  /\ UNCHANGED <<content, tag, host, blk, mutex, glitch>>

(***************************************************************************)
(* InvalidDynablock.  gone is looked at before the mutex is taken, and     *)
(* setJumpTableDefault clears the entry whatever it is.                    *)
(***************************************************************************)
Removed(t) ==
  /\ jmptbl' = ArmNext
  /\ blk' = [blk EXCEPT ![th[t].db].done = FALSE, ![th[t].db].gone = TRUE]
  /\ th' = [th EXCEPT ![t].pc = "renew", ![t].old = th[t].db]

Invalid(t) ==
  /\ At(t, "invalid")
  /\ IF blk[th[t].db].gone
     THEN Goto(t, "renew") /\ UNCHANGED <<jmptbl, blk>>
     ELSE IF th[t].locked
     THEN Removed(t)
     ELSE Goto(t, "invalidlock") /\ UNCHANGED <<jmptbl, blk>>
  /\ UNCHANGED <<content, tag, host, mutex, glitch>>

InvalidLocked(t) ==
  /\ At(t, "invalidlock")
  /\ mutex = None
  /\ Removed(t)
  /\ UNCHANGED <<content, tag, host, mutex, glitch>>

\* Mutant: it always takes the mutex.
Renew_relock(t) ==
  /\ At(t, "renew")
  /\ th' = [th EXCEPT ![t].again = TRUE,
                      ![t].db = jmptbl.id,
                      ![t].pc = IF jmptbl # ArmNext THEN "link" ELSE "lock"]
  /\ UNCHANGED <<content, tag, host, jmptbl, blk, mutex, glitch>>

\* The second internalDBGetBlock, with the mutex if DBGetBlock has it.
Renew(t) ==
  /\ At(t, "renew")
  /\ th' = [th EXCEPT ![t].again = TRUE,
                      ![t].db = jmptbl.id,
                      ![t].pc = IF jmptbl # ArmNext THEN "link"
                                ELSE IF th[t].locked THEN "create" ELSE "lock"]
  /\ UNCHANGED <<content, tag, host, jmptbl, blk, mutex, glitch>>

\* FreeInvalidDynablock(x), and the blocks b are left otherwise.
FreeInvalid(b, x) == IF x # None /\ b[x].gone THEN [b EXCEPT ![x] = Freed] ELSE b

\* The old block is kept in previous, and the previous one is freed.
Link(t) ==
  LET db   == th[t].db
      free == IF db = None THEN th[t].old ELSE blk[db].previous
  IN  /\ At(t, "link")
      /\ FreeInvalid(blk, free) # blk /\ ~ th[t].locked => mutex = None
      /\ blk' = IF db = None THEN FreeInvalid(blk, free)
                ELSE [FreeInvalid(blk, free) EXCEPT ![db].previous = th[t].old]
      /\ th' = [th EXCEPT ![t].pc = "unlock", ![t].old = None]
      /\ UNCHANGED <<content, tag, host, jmptbl, mutex, glitch>>

Unlock(t) ==
  /\ At(t, "unlock")
  /\ mutex' = IF th[t].locked THEN None ELSE mutex
  /\ th' = [th EXCEPT ![t].pc = "leave", ![t].locked = FALSE, ![t].again = FALSE]
  /\ UNCHANGED <<content, tag, host, jmptbl, blk, glitch>>

\* DynaRun: the block is run if it is done.
Leave(t) ==
  /\ At(t, "leave")
  /\ th' = [th EXCEPT ![t] = Idle(IF th[t].db # None /\ blk[th[t].db].done THEN th[t].db ELSE None)]
  /\ UNCHANGED <<content, tag, host, jmptbl, blk, mutex, glitch>>

\* The thread goes on in other code.
LeaveBlock(t) ==
  /\ At(t, "idle")
  /\ th[t].run # None
  /\ th' = [th EXCEPT ![t].run = None]
  /\ UNCHANGED <<content, tag, host, jmptbl, blk, mutex, glitch>>

\* Native code jumps through the jump table.
JumpDirect(t) ==
  /\ At(t, "idle")
  /\ MayExecute
  /\ jmptbl.direct
  /\ th' = [th EXCEPT ![t].run = jmptbl.id]
  /\ UNCHANGED <<content, tag, host, jmptbl, blk, mutex, glitch>>

-----------------------------------------------------------------------------
(***************************************************************************)
(* A guest write to the code, and the handler when the page is read-only.  *)
(* What it does depends on the protection it finds, not the one that made  *)
(* the write fault.                                                        *)
(***************************************************************************)
StartWrite(t, v) ==
  /\ At(t, "idle")
  /\ MayModify(t)
  /\ th' = [th EXCEPT ![t].pc = "write", ![t].val = v]
  /\ UNCHANGED <<content, tag, host, jmptbl, blk, mutex, glitch>>

Write(t) ==
  /\ At(t, "write")
  /\ IF host = "rw"
     THEN content' = th[t].val /\ th' = [th EXCEPT ![t] = Idle(th[t].run)]
     ELSE Goto(t, "fault") /\ UNCHANGED content
  /\ UNCHANGED <<tag, host, jmptbl, blk, mutex, glitch>>

GetProtection(t) ==
  /\ At(t, "fault")
  /\ Goto(t, IF tag THEN "unprotect" ELSE "glitch")
  /\ UNCHANGED <<content, tag, host, jmptbl, blk, mutex, glitch>>

\* Mutant: the write flag is not added back.
Unprotect_closed(t) ==
  /\ At(t, "unprotect")
  /\ IF tag THEN tag' = FALSE /\ jmptbl' = Marked
     ELSE UNCHANGED <<tag, jmptbl>>
  /\ th' = [th EXCEPT ![t].pc = "write", ![t].run = None]
  /\ UNCHANGED <<content, host, blk, mutex, glitch>>

\* unprotectDB; a block that writes to itself is left, the interpreter does the write.
Unprotect(t) ==
  /\ At(t, "unprotect")
  /\ IF tag THEN tag' = FALSE /\ host' = "rw" /\ jmptbl' = Marked
     ELSE UNCHANGED <<tag, host, jmptbl>>
  /\ th' = [th EXCEPT ![t].pc = "write", ![t].run = None]
  /\ UNCHANGED <<content, blk, mutex, glitch>>

\* "probably a glitch due to intensive multitask": retried, retried after refreshProtection, signalled.
Glitch(t) ==
  LET key == th[t].run
  IN  /\ At(t, "glitch")
      /\ jmptbl' = Marked
      /\ IF glitch.first # key
         THEN glitch' = [glitch EXCEPT !.first = key] /\ Goto(t, "write")
         ELSE IF glitch.second # key
         THEN glitch' = [first |-> NoKey, second |-> key] /\ Goto(t, "refresh")
         ELSE glitch' = [first |-> NoKey, second |-> NoKey] /\ Goto(t, "segv")
      /\ UNCHANGED <<content, tag, host, blk, mutex>>

\* refreshProtection gives the page the flags memprot has without PROT_CUSTOM.
Refresh(t) ==
  /\ At(t, "refresh")
  /\ host' = "rw"
  /\ Goto(t, "write")
  /\ UNCHANGED <<content, tag, jmptbl, blk, mutex, glitch>>

\* The guest's handler for SIGSEGV has run.
SignalDone(t) ==
  /\ At(t, "segv")
  /\ th' = [th EXCEPT ![t] = Idle(None)]
  /\ UNCHANGED <<content, tag, host, jmptbl, blk, mutex, glitch>>

(***************************************************************************)
(* The guest unmaps the page, while no thread runs code of it, and maps    *)
(* new code there: FreeDynablock, which frees the previous block too.      *)
(***************************************************************************)
Unmap(v) ==
  /\ \A t \in Threads : At(t, "idle") /\ th[t].run = None
  /\ jmptbl # ArmNext
  /\ blk' = [FreeInvalid(blk, blk[jmptbl.id].previous) EXCEPT ![jmptbl.id] = Freed]
  /\ jmptbl' = ArmNext
  /\ content' = v
  /\ tag' = FALSE
  /\ host' = "rw"
  /\ UNCHANGED <<mutex, glitch, th>>

-----------------------------------------------------------------------------
Locking(t) == Lock(t) \/ InvalidLocked(t) \/ Link(t)

Fill(t) == FillStart(t) \/ NoMemory(t) \/ Pass0(t) \/ ProtectPages(t) \/ HashBefore(t) \/ Emit(t)
           \/ HashAfter(t) \/ CheckProtected(t) \/ Publish(t) \/ FillDone(t)

GetBlock(t) == \/ Locking(t) \/ LockBusy(t) \/ LookAgain(t) \/ Fill(t)
               \/ NeedTest(t) \/ HashTest(t) \/ TryLock(t) \/ Compare(t)
               \/ Protect(t) \/ IsProtected(t) \/ FillBack(t)
               \/ Invalid(t) \/ Renew(t) \/ Unlock(t) \/ Leave(t)

Handler(t) == Write(t) \/ GetProtection(t) \/ Unprotect(t) \/ Glitch(t) \/ Refresh(t) \/ SignalDone(t)

Next == \/ \E t \in Threads : \/ DBGetBlock(t) \/ JumpDirect(t) \/ LeaveBlock(t) \/ GetBlock(t) \/ Handler(t)
                              \/ \E v \in Contents : StartWrite(t, v)
        \/ \E v \in Contents : Unmap(v)

(***************************************************************************)
(* A thread that has something to do goes on, and gets a mutex that is     *)
(* free again and again.                                                   *)
(***************************************************************************)
Fairness == \A t \in Threads : WF_vars(GetBlock(t) \/ Handler(t)) /\ SF_vars(Locking(t))

Spec == Init /\ [][Next]_vars /\ Fairness

-----------------------------------------------------------------------------
Filling == {"look", "create", "pass0", "pages", "hash1", "emit", "hash2", "check", "publish", "done"}
Testing == {"need", "hash", "try", "compare", "protect", "isprotected", "fillback", "invalid", "invalidlock",
            "renew", "link", "unlock", "leave"}

Block == [st : {"unused", "live", "freed"}, code : Contents, hash : Contents, done : BOOLEAN,
          gone : BOOLEAN, previous : Ids \union {None}]

TypeOK ==
  /\ content \in Contents /\ tag \in BOOLEAN /\ host \in {"ro", "rw"}
  /\ jmptbl \in [id : Ids \union {None}, direct : BOOLEAN]
  /\ blk \in [Ids -> Block]
  /\ mutex \in Threads \union {None}
  /\ glitch \in [first : 0 .. NoKey, second : 0 .. NoKey]
  /\ th \in [Threads -> [pc : {"idle", "lock"} \union Filling \union Testing \union Writing,
                         run : Ids \union {None}, db : Ids \union {None}, old : Ids \union {None},
                         val : Contents, locked : BOOLEAN, again : BOOLEAN, dirty : BOOLEAN]]

\* Who refers to block i: the jump table, a thread, or a block that replaced it.
Held(i) == jmptbl.id = i \/ \E t \in Threads : i \in {th[t].run, th[t].db, th[t].old}
Refers(i) == Held(i) \/ \E j \in Ids : blk[j].st = "live" /\ blk[j].previous = i

(***************************************************************************)
(* A block is freed once, and only when nothing leads to it: no thread     *)
(* runs it or is about to read its fields, no entry, no previous field.    *)
(***************************************************************************)
NoDangling == \A i \in Ids : blk[i].st = "freed" => ~ Refers(i)

(***************************************************************************)
(* The jump table leads to blocks that are not gone, and no block that is  *)
(* gone counts as done: a translation that was invalidated by one thread   *)
(* is not brought back by another that was about to validate or finish it. *)
(***************************************************************************)
EntryLive == /\ jmptbl.id # None => blk[jmptbl.id].st = "live" /\ ~ blk[jmptbl.id].gone
             /\ \A i \in Ids : blk[i].gone => ~ blk[i].done

(***************************************************************************)
(* previous ("a previous block that might need to be freed"): a block that *)
(* was allocated is freed, or something leads to it that will free it.     *)
(***************************************************************************)
Reachable(i) == \A S \in SUBSET Ids :
  (\A j \in Ids : Held(j) \/ (\E k \in S : blk[k].previous = j) => j \in S) => i \in S

NoLostBlock == \A i \in Ids : blk[i].st = "live" => Reachable(i)

(***************************************************************************)
(* When no thread is translating, testing or writing, a block reached      *)
(* directly is a translation of the code that is there.                    *)
(***************************************************************************)
QuietCoherent ==
  (\A t \in Threads : At(t, "idle")) /\ jmptbl.direct => blk[jmptbl.id].code = content

\* The handler of the guest is never called: it may write to the page.
NoSpuriousSegv == \A t \in Threads : ~ At(t, "segv")

(***************************************************************************)
(* The holder of mutex_dyndump is in FillBlock or took it in DBGetBlock,   *)
(* and a thread translates only while it holds it (current_helper and the  *)
(* static arrays of FillBlock are not shared).                             *)
(***************************************************************************)
OneFills == \A t \in Threads : /\ th[t].pc \in Filling \/ th[t].locked => mutex = t
                               /\ mutex = t => th[t].pc \in Filling \/ th[t].locked

-----------------------------------------------------------------------------
(***************************************************************************)
(* The inductive invariant behind OneFills and EntryLive.  FillOwns: the   *)
(* block a thread is filling is allocated, nobody invalidates it, and it   *)
(* is not in the jump table before it is published.                        *)
(***************************************************************************)
Private == {"pass0", "pages", "hash1", "emit", "hash2", "check", "publish"}

FillOwns == \A t \in Threads :
  th[t].pc \in Private \union {"done"} =>
    /\ th[t].db \in Ids
    /\ blk[th[t].db].st = "live" /\ ~ blk[th[t].db].gone
    /\ th[t].pc \in Private => jmptbl.id # th[t].db

(***************************************************************************)
(* DBGetBlock holds the mutex from its trylock to its unlock, through the  *)
(* second internalDBGetBlock and not the first.                            *)
(***************************************************************************)
Holding == {"compare", "protect", "isprotected", "fillback", "invalid", "renew", "link", "unlock"}

HeldFrom == \A t \in Threads :
  th[t].locked => th[t].pc \in Holding \/ (th[t].pc \in Filling \ {"look"} /\ th[t].again)

\* The invariant of the mutex, the jump table and the block being filled.
EntryInv == TypeOK /\ OneFills /\ EntryLive /\ FillOwns /\ HeldFrom

\* A thread that asks for a block gets an answer: no one waits for ever.
DispatchEnds == \A t \in Threads : th[t].pc \in Filling \union Testing \union {"lock"} ~> At(t, "idle")
=============================================================================
