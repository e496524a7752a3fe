----------------------------- MODULE DynaCache -----------------------------
(***************************************************************************)
(* How box86 keeps translated code in step with the guest's code, for one  *)
(* emulated thread: the jump table and its blocks (dynablock.c, FillBlock  *)
(* of dynarec_arm.c), the tracked and the host's page protection           *)
(* (custommem.c), the fault handler of libtools/signals.c and the memory   *)
(* calls of wrappedlibc.c.  Every operation is one step: with one thread   *)
(* nothing comes between its parts.                                        *)
(*                                                                         *)
(* Guest memory is a few addresses on small pages.  An address holds a     *)
(* value of Contents, a block covers the addresses a .. a + size - 1, and  *)
(* a hash is the contents hashed (collisions of X31_hash_code are left     *)
(* out).                                                                   *)
(***************************************************************************)
EXTENDS Naturals, FiniteSets

CONSTANTS
  NPages,       \* number of guest pages
  PageSize,     \* box86_pagesize, a power of two
  Contents,     \* what a guest address may hold
  Entries,      \* addresses the guest jumps to
  Targets,      \* addresses the guest writes to
  MaxBlock,     \* longest block
  NoDynarec,    \* addresses in box86_nodynarec_start .. end
  Loops,        \* may a block be one that jumps to itself (helper.always_test)?
  Heap,         \* pages of host memory, writable and not tracked
  HotMark,      \* HOTPAGE_MARK
  Perms,        \* the protections the guest asks for
  Guest         \* what the guest does, see GuestHabits

Addr  == 0 .. (NPages * PageSize - 1)
Pages == 0 .. (NPages - 1)

AllPerms == {"0", "R", "RW", "RX", "RWX"}

(***************************************************************************)
(* Things a guest may or may not do.  "shared": map shared files it opened *)
(* for writing.  "over": map over memory in use (MAP_FIXED).  "write_ro":  *)
(* write to pages it has no write permission on.  "cross_free": unmap or   *)
(* close a range that begins inside a tracked interval and ends after it.  *)
(* "move": mremap pages.  "exec_none": jump to a page it has no access to. *)
(***************************************************************************)
GuestHabits == {"shared", "over", "write_ro", "cross_free", "move", "exec_none"}

ASSUME CacheAssumption ==
  /\ NPages \in Nat \ {0} /\ PageSize \in Nat \ {0}
  /\ Contents # {} /\ Entries \subseteq Addr /\ NoDynarec \subseteq Entries /\ Targets \subseteq Addr
  /\ MaxBlock \in Nat \ {0} /\ HotMark \in Nat
  /\ Heap \subseteq Pages /\ Perms \subseteq AllPerms
  /\ Loops \subseteq BOOLEAN /\ Loops # {}
  /\ Guest \subseteq GuestHabits

VARIABLES
  content,  \* guest memory
  prot,     \* memprot: the tracked protection of each page
  host,     \* what the host's page tables allow
  asked,    \* what the guest last asked for the page, and if it is shared
  jmptbl,   \* the jump table: the block each entry leads to
  cur,      \* entry of the block that runs, NoEntry in the interpreter
  pend,     \* the write being executed
  hot,      \* hotpage and hotpage_cnt
  repeated, \* repeated_page of the fault handler
  glitch,   \* glitch_pc, glitch_addr, glitch_prot
  glitch2   \* glitch2_pc, glitch2_addr, glitch2_prot

vars == <<content, prot, host, asked, jmptbl, cur, pend, hot, repeated, glitch, glitch2>>

-----------------------------------------------------------------------------
Page(a) == a \div PageSize
PageStart(p) == p * PageSize
Span(a, size) == {Page(b) : b \in a .. (a + size - 1)}

NoEntry == NPages * PageSize
NoPage  == NPages

CanWrite(perm) == perm \in {"RW", "RWX"}
CanExec(perm)  == perm \in {"RX", "RWX"}

(***************************************************************************)
(* A tracked protection: the guest's flags and one of PROT_DYNAREC ("D"),  *)
(* PROT_DYNAREC_R ("R"), PROT_NEVERCLEAN ("N") or none of them ("-").      *)
(***************************************************************************)
Tags == {"-", "D", "R", "N"}
Tracked(perm, tag) == [perm |-> perm, tag |-> tag]
Untracked == Tracked("0", "-")

Asked(perm, shared) == [perm |-> perm, shared |-> shared]

\* What the host allows after mprotect with these flags.
HostOf(perm) == IF perm = "0" THEN "noaccess" ELSE IF CanWrite(perm) THEN "rw" ELSE "ro"

(***************************************************************************)
(* A jump table entry: arm_next (kind "next"), an empty block (a block     *)
(* that only leaves to the interpreter, whose done stays 0) or a           *)
(* translation.  direct: the entry is db->block, not db->jmpnext.          *)
(***************************************************************************)
ArmNext    == [kind |-> "next", size |-> 0, snap |-> <<>>, direct |-> FALSE, always_test |-> FALSE]
EmptyBlock == [ArmNext EXCEPT !.kind = "empty"]

HashCode(mem, a, size) == [b \in a .. (a + size - 1) |-> mem[b]]

IsBlock(a) == jmptbl[a].kind = "block"
BlockSpan(a) == Span(a, jmptbl[a].size)
Fresh(a) == jmptbl[a].snap = HashCode(content, a, jmptbl[a].size)

-----------------------------------------------------------------------------
(***************************************************************************)
(* protectDB and unprotectDB of one page: the tracked value they leave and *)
(* what their mprotect leaves of the host's.                               *)
(***************************************************************************)
Assumed(q) == IF q = Untracked THEN Tracked("RWX", "-") ELSE q

\* Mutant: PROT_NEVERPROT is not looked at.
ProtectTag_always(q) ==
  LET r == Assumed(q)
  IN  Tracked(r.perm, IF CanWrite(r.perm) THEN "D" ELSE "R")

ProtectTag(q) ==
  LET r == Assumed(q)
  IN  IF q.tag = "N" THEN r
      ELSE Tracked(r.perm, IF CanWrite(r.perm) THEN "D" ELSE "R")

ProtectHost(q, h) ==
  IF q.tag = "-" /\ CanWrite(Assumed(q).perm) /\ h # "unmapped" THEN "ro" ELSE h

protectDB_prot(S) == [p \in Pages |-> IF p \in S THEN ProtectTag(prot[p]) ELSE prot[p]]
protectDB_host(S) == [p \in Pages |-> IF p \in S THEN ProtectHost(prot[p], host[p]) ELSE host[p]]

isprotectedDB(pr, S) == \A p \in S : pr[p].tag # "-"

UnprotectTag(q) == IF q.tag \in {"D", "R"} THEN Tracked(q.perm, "-") ELSE q

\* Mutant: the write flag is added also to a page that never had it.
UnprotectHost_readonly(q, h) == IF q.tag \in {"D", "R"} THEN "rw" ELSE h

UnprotectHost(q, h) == IF q.tag = "D" THEN HostOf(q.perm) ELSE h

-----------------------------------------------------------------------------
(***************************************************************************)
(* cleanDBFromAddressRange on the pages lo .. hi.  Found is what the scan  *)
(* of getDBSize passes to FreeRangeDynablock or MarkRangeDynablock: the    *)
(* blocks that start before the range's end, and the one that starts right *)
(* at the end when the last address of the range has none.  Hit is their   *)
(* test, whose range is two bytes longer than the range cleaned.           *)
(***************************************************************************)
RangeEnd(hi) == PageStart(hi + 1)

Found(a, hi) == \/ a < RangeEnd(hi)
                \/ a = RangeEnd(hi) /\ (RangeEnd(hi) - 1 \in Entries => jmptbl[RangeEnd(hi) - 1].kind = "next")

\* Mutant: max_db_size is not used to start the scan before the range.
Hit_no_back(a, lo, hi) == /\ jmptbl[a].kind # "next"
                          /\ Found(a, hi)
                          /\ PageStart(lo) <= a

Hit(a, lo, hi) == /\ jmptbl[a].kind # "next"
                  /\ Found(a, hi)
                  /\ a <= RangeEnd(hi) + 1
                  /\ PageStart(lo) + 1 <= a + jmptbl[a].size

FreeRange(lo, hi) == [a \in Entries |-> IF Hit(a, lo, hi) THEN ArmNext ELSE jmptbl[a]]

MarkRange(lo, hi) == [a \in Entries |-> IF Hit(a, lo, hi) THEN [jmptbl[a] EXCEPT !.direct = FALSE]
                                        ELSE jmptbl[a]]

-----------------------------------------------------------------------------
NoWrite  == [addr |-> NoEntry, val |-> NoEntry]
NoGlitch == <<NoEntry, NoEntry, "0">>

Init ==
  /\ \E v \in Contents : content = [a \in Addr |-> v]
  /\ prot = [p \in Pages |-> Untracked]
  /\ host = [p \in Pages |-> IF p \in Heap THEN "rw" ELSE "unmapped"]
  /\ asked = [p \in Pages |-> Asked(IF p \in Heap THEN "RW" ELSE "0", FALSE)]
  /\ jmptbl = [a \in Entries |-> ArmNext]
  /\ cur = NoEntry
  /\ pend = NoWrite
  /\ hot = [page |-> 0, cnt |-> 0]
  /\ repeated = NoPage
  /\ glitch = NoGlitch
  /\ glitch2 = NoGlitch

-----------------------------------------------------------------------------
(***************************************************************************)
(* FillBlock.  The first page is protected, then pass 0 finds the block's  *)
(* end; the test of the page bits decides if the block's pages are         *)
(* protected too ("addr & ~box86_pagesize" clears one bit of the address). *)
(***************************************************************************)
ClearPageBit(a) == IF Page(a) % 2 = 1 THEN a - PageSize ELSE a

\* Mutant: only the page the block starts on.
ProtectedByFill_first(a, size) == {Page(a)}

ProtectedByFill(a, size) ==
  {Page(a)} \union IF ClearPageBit(a) # ClearPageBit(a + size) THEN Span(a, size) ELSE {}

Readable(p) == host[p] \in {"ro", "rw"}

\* Pass 0 reads the code after the first page was protected.
CanTranslate(a, size) ==
  /\ a + size - 1 \in Addr
  /\ \A p \in Span(a, size) : protectDB_host({Page(a)})[p] \in {"ro", "rw"}

(***************************************************************************)
(* A translation of the addresses a .. a + size - 1, put in the jump table *)
(* as jmpnext when it is dirty.  DBGetBlock tests a dirty block it has     *)
(* just created (test) like any other: its hash is right, its pages are    *)
(* protected, and the entry becomes direct unless it is always tested.     *)
(***************************************************************************)
FillBlock(a, size, loop, test) ==
  LET filled == protectDB_prot(ProtectedByFill(a, size))
      never  == filled[Page(a)].tag = "N"
      dirty  == loop \/ never \/ ~ isprotectedDB(filled, Span(a, size))
      S      == ProtectedByFill(a, size) \union IF dirty /\ test THEN Span(a, size) ELSE {}
  IN  /\ a \notin NoDynarec
      /\ CanTranslate(a, size)
      /\ prot' = protectDB_prot(S)
      /\ host' = protectDB_host(S)
      /\ jmptbl' = [jmptbl EXCEPT ![a] =
           [kind |-> "block", size |-> size, snap |-> HashCode(content, a, size),
            direct |-> ~ loop /\ ~ never /\ (~ dirty \/ (test /\ isprotectedDB(prot', Span(a, size)))),
            always_test |-> loop \/ never]]
      /\ cur' = a

(***************************************************************************)
(* The translation is given up and the block freed: in pass 0 (size 0), by *)
(* its own choice or because reading the code faults, or in a later pass.  *)
(***************************************************************************)
FillAborts(a, size) ==
  /\ a \notin NoDynarec
  /\ size > 0 => CanTranslate(a, size)
  /\ LET S == IF size = 0 THEN {Page(a)} ELSE ProtectedByFill(a, size)
     IN  prot' = protectDB_prot(S) /\ host' = protectDB_host(S)
  /\ jmptbl' = [jmptbl EXCEPT ![a] = ArmNext]
  /\ cur' = NoEntry

\* CreateEmptyBlock, for an address without dynarec or a null-sized block.
FillEmpty(a) ==
  /\ LET S == IF a \in NoDynarec THEN {} ELSE {Page(a)}
     IN  prot' = protectDB_prot(S) /\ host' = protectDB_host(S)
  /\ jmptbl' = [jmptbl EXCEPT ![a] = EmptyBlock]
  /\ cur' = NoEntry

Fill(a, test) == \/ \E size \in 1 .. MaxBlock, loop \in Loops : FillBlock(a, size, loop, test)
                 \/ \E size \in 0 .. MaxBlock : FillAborts(a, size)
                 \/ FillEmpty(a)

(***************************************************************************)
(* DBGetBlock, then the block or the interpreter.  isInHotPage counts down *)
(* on every call.                                                          *)
(***************************************************************************)
InHotPage(a) == hot.cnt > 0 /\ Page(a) = hot.page

Dispatch(a) ==
  /\ pend = NoWrite
  /\ Readable(Page(a)) \/ "exec_none" \in Guest
  /\ hot' = [hot EXCEPT !.cnt = IF @ > 0 THEN @ - 1 ELSE 0]
  /\ UNCHANGED <<content, asked, pend, repeated, glitch, glitch2>>

DispatchHot(a) == /\ Dispatch(a)
                  /\ InHotPage(a)
                  /\ cur' = NoEntry
                  /\ UNCHANGED <<prot, host, jmptbl>>

DispatchCreate(a) == /\ Dispatch(a)
                     /\ ~ InHotPage(a)
                     /\ jmptbl[a].kind = "next"
                     /\ Fill(a, TRUE)

DispatchRun(a) == /\ Dispatch(a)
                  /\ ~ InHotPage(a)
                  /\ jmptbl[a].direct \/ jmptbl[a].kind = "empty"
                  /\ cur' = IF IsBlock(a) THEN a ELSE NoEntry
                  /\ UNCHANGED <<prot, host, jmptbl>>

\* The entry is jmpnext: the block's hash is compared with the code's.
NeedTest(a) == IsBlock(a) /\ ~ jmptbl[a].direct

DispatchValidate(a) ==
  /\ Dispatch(a)
  /\ ~ InHotPage(a)
  /\ NeedTest(a)
  /\ \A p \in BlockSpan(a) : Readable(p)
  /\ Fresh(a)
  /\ prot' = protectDB_prot(BlockSpan(a))
  /\ host' = protectDB_host(BlockSpan(a))
  /\ jmptbl' = [jmptbl EXCEPT ![a].direct =
       isprotectedDB(prot', BlockSpan(a)) /\ ~ jmptbl[a].always_test]
  /\ cur' = a

\* InvalidDynablock, then internalDBGetBlock again.
DispatchInvalidate(a) ==
  /\ Dispatch(a)
  /\ ~ InHotPage(a)
  /\ NeedTest(a)
  /\ \A p \in BlockSpan(a) : Readable(p)
  /\ ~ Fresh(a)
  /\ Fill(a, FALSE)

\* Native code jumps through the jump table: a direct entry needs no DBGetBlock.
JumpTo(a) == /\ pend = NoWrite
             /\ cur # NoEntry
             /\ jmptbl[a].direct
             /\ Readable(Page(a))
             /\ cur' = a
             /\ UNCHANGED <<content, prot, host, asked, jmptbl, pend, hot, repeated, glitch, glitch2>>

-----------------------------------------------------------------------------
(***************************************************************************)
(* A guest write, by the block that runs or by the interpreter.  It is     *)
(* tried until it is done or the guest gets its SIGSEGV.                   *)
(***************************************************************************)
StartWrite(a, v) ==
  /\ pend = NoWrite
  /\ "write_ro" \in Guest \/ CanWrite(asked[Page(a)].perm)
  /\ pend' = [addr |-> a, val |-> v]
  /\ UNCHANGED <<content, prot, host, asked, jmptbl, cur, hot, repeated, glitch, glitch2>>

WPage == Page(pend.addr)

DoWrite ==
  /\ pend # NoWrite
  /\ host[WPage] = "rw"
  /\ content' = [content EXCEPT ![pend.addr] = pend.val]
  /\ pend' = NoWrite
  /\ UNCHANGED <<prot, host, asked, jmptbl, cur, hot, repeated, glitch, glitch2>>

\* SEGV_ACCERR: the page is mapped and not writable.
AccessError == pend # NoWrite /\ host[WPage] \in {"ro", "noaccess"}

(***************************************************************************)
(* my_box86signalhandler, prot & PROT_CUSTOM: the page is unprotected and  *)
(* its blocks marked.  The running block is left when it is the one        *)
(* written to or was marked (db_need_test); the interpreter then repeats   *)
(* the write.                                                              *)
(***************************************************************************)
FaultProtected ==
  /\ AccessError
  /\ prot[WPage].tag # "-"
  /\ IF repeated = WPage
     THEN hot' = [page |-> WPage, cnt |-> HotMark] /\ UNCHANGED repeated
     ELSE repeated' = WPage /\ UNCHANGED hot
  /\ prot' = [prot EXCEPT ![WPage] = UnprotectTag(@)]
  /\ host' = [host EXCEPT ![WPage] = UnprotectHost(prot[WPage], @)]
  /\ jmptbl' = IF prot[WPage].tag = "D" THEN MarkRange(WPage, WPage) ELSE jmptbl
  /\ LET leaves == /\ cur # NoEntry
                   /\ \/ pend.addr \in cur .. (cur + jmptbl[cur].size - 1)
                      \/ jmptbl'[cur].kind = "block" /\ ~ jmptbl'[cur].direct
     IN  /\ cur' = IF leaves THEN NoEntry ELSE cur
         /\ pend' = IF leaves \/ CanWrite(prot[WPage].perm) THEN pend ELSE NoWrite
  /\ UNCHANGED <<content, asked, glitch, glitch2>>

(***************************************************************************)
(* The handler's retries on a page that is tracked but not protected by    *)
(* the dynarec: once, and for a read-write page once more after            *)
(* refreshProtection.                                                      *)
(***************************************************************************)
FaultKey == <<cur, pend.addr, prot[WPage].perm>>

GlitchFault == AccessError /\ prot[WPage].tag = "-" /\ prot[WPage].perm # "0"

\* Mutant: the retried fault is not recorded.
FaultGlitch_unrecorded ==
  /\ GlitchFault
  /\ glitch # FaultKey
  /\ jmptbl' = MarkRange(WPage, WPage)
  /\ UNCHANGED <<content, prot, host, asked, cur, pend, hot, repeated, glitch, glitch2>>

FaultGlitch ==
  /\ GlitchFault
  /\ glitch # FaultKey
  /\ jmptbl' = MarkRange(WPage, WPage)
  /\ glitch' = FaultKey
  /\ UNCHANGED <<content, prot, host, asked, cur, pend, hot, repeated, glitch2>>

FaultRefresh ==
  /\ GlitchFault
  /\ glitch = FaultKey
  /\ CanWrite(prot[WPage].perm)
  /\ glitch2 # FaultKey
  /\ jmptbl' = MarkRange(WPage, WPage)
  /\ glitch' = NoGlitch
  /\ glitch2' = FaultKey
  /\ host' = [host EXCEPT ![WPage] = HostOf(prot[WPage].perm)]
  /\ UNCHANGED <<content, prot, asked, cur, pend, hot, repeated>>

\* The fault is the guest's: its own handler is called.
GuestSegv ==
  /\ \/ GlitchFault /\ glitch = FaultKey /\ (CanWrite(prot[WPage].perm) => glitch2 = FaultKey)
     \/ AccessError /\ prot[WPage] = Untracked
     \/ pend # NoWrite /\ host[WPage] = "unmapped"
  /\ IF GlitchFault
     THEN /\ jmptbl' = MarkRange(WPage, WPage)
          /\ glitch' = NoGlitch
          /\ glitch2' = IF CanWrite(prot[WPage].perm) THEN NoGlitch ELSE glitch2
     ELSE UNCHANGED <<jmptbl, glitch, glitch2>>
  /\ pend' = NoWrite
  /\ UNCHANGED <<content, prot, host, asked, cur, hot, repeated>>

-----------------------------------------------------------------------------
(***************************************************************************)
(* The memory calls, on the pages lo .. hi.  The guest does not take away  *)
(* the pages of the block that makes the call.                             *)
(***************************************************************************)
Ranges == {r \in Pages \X Pages : r[1] <= r[2]}

OnRange(f, r, v) == [p \in Pages |-> IF p \in r[1] .. r[2] THEN v ELSE f[p]]

AskedPerm(r, perm) ==
  [p \in Pages |-> IF p \in r[1] .. r[2] THEN Asked(perm, asked[p].shared) ELSE asked[p]]

NotRunning(r) == cur # NoEntry => BlockSpan(cur) \intersect (r[1] .. r[2]) = {}

MemoryCall == /\ pend = NoWrite
              /\ UNCHANGED <<cur, pend, hot, repeated, glitch, glitch2>>

(***************************************************************************)
(* freeProtection.  rb_unset may leave set a first part r[1] .. k - 1 of   *)
(* the range, tracked as the page before it (IntervalMap!UnsetFrom).       *)
(***************************************************************************)
LeftSet(r) == {k \in r[1] .. r[2] :
                 \A p \in r[1] .. (k - 1) : p > 0 /\ prot[p] = prot[r[1] - 1] /\ prot[p] # Untracked}

FreesTail(r, k) == k \in LeftSet(r) /\ ("cross_free" \in Guest \/ LeftSet(r) = {r[1]})

freeProtection(r, k) == [p \in Pages |-> IF k <= p /\ p <= r[2] THEN Untracked ELSE prot[p]]

\* mmap, mmap64 (MAP_FIXED for "over"): new memory with new contents.
Maps(r, v) ==
  /\ MemoryCall
  /\ NotRunning(r)
  /\ \A p \in r[1] .. r[2] : p \notin Heap /\ ("over" \in Guest \/ host[p] = "unmapped")
  /\ content' = [a \in Addr |-> IF Page(a) \in r[1] .. r[2] THEN v ELSE content[a]]

my_mmap(r, perm, shared, v) ==
  /\ Maps(r, v)
  /\ shared => "shared" \in Guest
  /\ perm # "0" \/ shared
  /\ host' = OnRange(host, r, HostOf(perm))
  /\ jmptbl' = IF CanExec(perm) THEN jmptbl
               ELSE IF perm = "0" THEN FreeRange(r[1], r[2])
               ELSE MarkRange(r[1], r[2])
  /\ prot' = OnRange(prot, r, Tracked(perm, IF shared THEN "N" ELSE "-"))
  /\ asked' = OnRange(asked, r, Asked(perm, shared))

\* my_mmap with no access: setProtection_mmap has nothing to set, and calls rb_unset.
my_mmap_none(r, k, v) ==
  /\ Maps(r, v)
  /\ "0" \in Perms
  /\ FreesTail(r, k)
  /\ host' = OnRange(host, r, "noaccess")
  /\ jmptbl' = FreeRange(r[1], r[2])
  /\ prot' = freeProtection(r, k)
  /\ asked' = OnRange(asked, r, Asked("0", FALSE))

my_munmap(r, k) ==
  /\ MemoryCall
  /\ NotRunning(r)
  /\ \A p \in r[1] .. r[2] : p \notin Heap /\ host[p] # "unmapped"
  /\ FreesTail(r, k)
  /\ jmptbl' = FreeRange(r[1], r[2])
  /\ host' = OnRange(host, r, "unmapped")
  /\ prot' = freeProtection(r, k)
  /\ asked' = OnRange(asked, r, Asked("0", FALSE))
  /\ UNCHANGED content

\* Mutants of UpdateTag: the tag is not recomputed; the new flags are lost; NEVERCLEAN is lost.
UpdateTag_keep(q, perm) == Tracked(perm, q.tag)
UpdateTag_oldperm(q, perm) == Tracked(q.perm, q.tag)
UpdateTag_clean(q, perm) ==
  Tracked(perm, IF q.tag \in {"D", "R"} THEN (IF CanWrite(perm) THEN "D" ELSE "R") ELSE "-")

\* Mutant of UpdateHost: the dynarec's protection is not put back.
UpdateHost_open(q, perm) == HostOf(perm)

\* updateProtection of one page, after the guest's own mprotect.
UpdateTag(q, perm) ==
  Tracked(perm, IF q.tag \in {"D", "R"} THEN (IF CanWrite(perm) THEN "D" ELSE "R") ELSE q.tag)

UpdateHost(q, perm) ==
  IF q.tag \in {"D", "R"} /\ CanWrite(perm) THEN "ro" ELSE HostOf(perm)

my_mprotect(r, perm) ==
  /\ MemoryCall
  /\ ~ CanExec(perm) => NotRunning(r)
  /\ perm # "0"
  /\ \A p \in r[1] .. r[2] : p \notin Heap /\ host[p] # "unmapped"
  /\ jmptbl' = IF CanExec(perm) THEN jmptbl ELSE FreeRange(r[1], r[2])
  /\ host' = [p \in Pages |-> IF p \in r[1] .. r[2] THEN UpdateHost(prot[p], perm) ELSE host[p]]
  /\ prot' = [p \in Pages |-> IF p \in r[1] .. r[2] THEN UpdateTag(prot[p], perm) ELSE prot[p]]
  /\ asked' = AskedPerm(r, perm)
  /\ UNCHANGED content

\* my_mprotect with no access: freeProtection, then rb_unset again on the same range.
my_mprotect_none(r, k) ==
  /\ MemoryCall
  /\ "0" \in Perms
  /\ NotRunning(r)
  /\ \A p \in r[1] .. r[2] : p \notin Heap /\ host[p] # "unmapped"
  /\ FreesTail(r, k)
  /\ jmptbl' = FreeRange(r[1], r[2])
  /\ host' = OnRange(host, r, "noaccess")
  /\ prot' = freeProtection(r, k)
  /\ asked' = AskedPerm(r, "0")
  /\ UNCHANGED content

(***************************************************************************)
(* my_mremap that moves page p to q: the host's protection moves with the  *)
(* page, the tracked one is copied without its tag.                        *)
(***************************************************************************)
MovePage(p, q) == /\ p # q
                  /\ p \notin Heap /\ host[p] # "unmapped"
                  /\ q \notin Heap /\ ("over" \in Guest \/ host[q] = "unmapped")

my_mremap(p, q, k) ==
  /\ MemoryCall
  /\ "move" \in Guest
  /\ MovePage(p, q)
  /\ NotRunning(<<p, p>>) /\ NotRunning(<<q, q>>)
  /\ FreesTail(<<p, p>>, k)
  /\ content' = [a \in Addr |-> IF Page(a) = q THEN content[PageStart(p) + (a % PageSize)] ELSE content[a]]
  /\ host' = [host EXCEPT ![p] = "unmapped", ![q] = host[p]]
  /\ jmptbl' = FreeRange(p, p)
  /\ prot' = [freeProtection(<<p, p>>, k) EXCEPT ![q] = Tracked(prot[p].perm, "-")]
  /\ asked' = [asked EXCEPT ![p] = Asked("0", FALSE), ![q] = asked[p]]

\* Another mapping of a shared file, here or in another process, is written.
SharedWrite(a, v) ==
  /\ asked[Page(a)].shared
  /\ host[Page(a)] # "unmapped"
  /\ content' = [content EXCEPT ![a] = v]
  /\ UNCHANGED <<prot, host, asked, jmptbl, cur, pend, hot, repeated, glitch, glitch2>>

-----------------------------------------------------------------------------
Next ==
  \/ \E a \in Entries : \/ DispatchHot(a) \/ DispatchCreate(a) \/ DispatchRun(a)
                        \/ DispatchValidate(a) \/ DispatchInvalidate(a) \/ JumpTo(a)
  \/ \E a \in Targets, v \in Contents : StartWrite(a, v) \/ SharedWrite(a, v)
  \/ DoWrite \/ FaultProtected \/ FaultGlitch \/ FaultRefresh \/ GuestSegv
  \/ \E r \in Ranges :
       \/ \E perm \in Perms, shared \in BOOLEAN, v \in Contents : my_mmap(r, perm, shared, v)
       \/ \E k \in 0 .. NPages : \/ my_munmap(r, k) \/ my_mprotect_none(r, k)
                                \/ \E v \in Contents : my_mmap_none(r, k, v)
       \/ \E perm \in Perms : my_mprotect(r, perm)
  \/ \E p \in Pages, q \in Pages, k \in 0 .. NPages : my_mremap(p, q, k)

\* The write instruction is retried until it is done or given to the guest.
RetryWrite == DoWrite \/ FaultProtected \/ FaultGlitch \/ FaultRefresh \/ GuestSegv

Spec == Init /\ [][Next]_vars /\ WF_vars(RetryWrite)

-----------------------------------------------------------------------------
\* What a block's hash may be of: a stretch of memory from an entry on.
SnapsOf(a, size) == [a .. (a + size - 1) -> Contents]
Snaps == {<<>>} \union UNION {SnapsOf(a, size) : a \in Entries, size \in 1 .. MaxBlock}

Blocks == [kind : {"next", "empty", "block"}, size : 0 .. MaxBlock, snap : Snaps,
           direct : BOOLEAN, always_test : BOOLEAN]

TypeOK ==
  /\ content \in [Addr -> Contents]
  /\ prot \in [Pages -> [perm : AllPerms, tag : Tags]]
  /\ host \in [Pages -> {"unmapped", "noaccess", "ro", "rw"}]
  /\ asked \in [Pages -> [perm : AllPerms, shared : BOOLEAN]]
  /\ jmptbl \in [Entries -> Blocks]
  /\ \A a \in Entries : /\ jmptbl[a].direct => IsBlock(a)
                        /\ IsBlock(a) => jmptbl[a].size > 0 /\ a + jmptbl[a].size - 1 \in Addr
  /\ cur \in Entries \union {NoEntry}
  /\ pend = NoWrite \/ pend \in [addr : Addr, val : Contents]
  /\ hot \in [page : Pages, cnt : 0 .. HotMark]
  /\ repeated \in Pages \union {NoPage}

(***************************************************************************)
(* What protectDB is for ("Remove the Write flag from an adress range, so  *)
(* DB can be executed"): the pages of a block that the jump table leads to *)
(* directly cannot be written without a fault.                             *)
(***************************************************************************)
Guarded == \A a \in Entries : jmptbl[a].direct => \A p \in BlockSpan(a) : host[p] # "rw"

(***************************************************************************)
(* A block the jump table leads to directly, which runs without its hash   *)
(* being compared, is a translation of what the guest's memory holds.      *)
(***************************************************************************)
Coherent == \A a \in Entries : jmptbl[a].direct => Fresh(a)

(***************************************************************************)
(* A block with an address in a region marked NEVERCLEAN, that others may  *)
(* change without a fault, is tested every time it is reached.             *)
(***************************************************************************)
SharedTested ==
  \A a \in Entries : jmptbl[a].direct => \A p \in BlockSpan(a) : ~ asked[p].shared

(***************************************************************************)
(* The block that runs is a translation of what memory holds, also after   *)
(* its own writes: the handler leaves a block that writes to itself.       *)
(***************************************************************************)
RunningFresh == cur # NoEntry /\ IsBlock(cur) => Fresh(cur)

(***************************************************************************)
(* Protecting code and unprotecting it again never opens a page further    *)
(* than the guest asked: a page it wants closed or read-only stays so.     *)
(***************************************************************************)
HostWithinAsked ==
  \A p \in Pages : /\ host[p] = "rw" => CanWrite(asked[p].perm)
                   /\ host[p] = "ro" => asked[p].perm # "0"

(***************************************************************************)
(* The guest gets no SIGSEGV for a write to a page it may write to: the    *)
(* handler finds out that the fault is the dynarec's, and retries.         *)
(***************************************************************************)
NoSpuriousSegv ==
  [][pend # NoWrite /\ pend' = NoWrite /\ CanWrite(asked[WPage].perm) => DoWrite]_vars

\* A write is done, or given to the guest as a signal: faults are not repeated for ever.
WriteEnds == pend # NoWrite ~> pend = NoWrite

-----------------------------------------------------------------------------
(***************************************************************************)
(* The inductive invariant behind Guarded and Coherent, for a guest that   *)
(* is Tame: it maps no shared files, maps nothing over memory in use and   *)
(* does not write to pages it made read-only.  (Without each of the three  *)
(* one of the two properties fails.)                                       *)
(***************************************************************************)
Tame == Guest \intersect {"shared", "over", "write_ro"} = {}

\* PROT_DYNAREC_R is for pages the guest cannot write to.
ReadOnlyTag == \A p \in Pages : prot[p].tag = "R" => ~ CanWrite(prot[p].perm)

NeverShared == \A p \in Pages : prot[p].tag # "N" /\ ~ asked[p].shared

\* The guest writes where it may, and no such page is tracked as read-only.
PendWritable == pend # NoWrite => CanWrite(asked[WPage].perm)
AskedTracked == \A p \in Pages : CanWrite(asked[p].perm) => CanWrite(Assumed(prot[p]).perm)

\* The host lets a page be written only while it is not tracked as protected.
WritableUntagged ==
  \A p \in Pages : host[p] = "rw" => prot[p].tag = "-" /\ CanWrite(Assumed(prot[p]).perm)

\* The pages of a block reached directly are mapped and tracked as protected.
DirectProtected ==
  \A a \in Entries : jmptbl[a].direct =>
    \A p \in BlockSpan(a) : prot[p].tag \in {"D", "R"} /\ host[p] # "unmapped"

(***************************************************************************)
(* For a tame guest: protection as tracked by memprot, as set in the host  *)
(* and as the jump table relies on agree, and direct entries are fresh.    *)
(***************************************************************************)
CacheInv == /\ TypeOK
            /\ ReadOnlyTag /\ NeverShared /\ PendWritable /\ AskedTracked
            /\ WritableUntagged /\ DirectProtected /\ Coherent

=============================================================================
