-------------------------- MODULE DynaCacheProofs --------------------------
(***************************************************************************)
(* For a tame guest the jump table never leads directly to a block whose   *)
(* code has changed, whatever the number and the size of the pages, the    *)
(* entries and the length of the blocks.  CacheInv is inductive: one lemma *)
(* for each action.                                                        *)
(***************************************************************************)
EXTENDS DynaCache, TLAPS

\* Pages and addresses.
LEMMA PageBounds ==
  ASSUME NEW a \in Nat
  PROVE  Page(a) \in Nat /\ PageStart(Page(a)) <= a /\ a < PageStart(Page(a) + 1)
BY CacheAssumption DEF Page, PageStart

\* Pages start in the order of their numbers.
LEMMA PageStartMono ==
  ASSUME NEW p \in Nat, NEW q \in Nat, p <= q
  PROVE  PageStart(p) \in Nat /\ PageStart(q) \in Nat /\ PageStart(p) <= PageStart(q)
BY CacheAssumption DEF PageStart

\* The page of an address is one of the pages.
LEMMA PageType ==
  ASSUME NEW a \in Addr
  PROVE  a \in Nat /\ Page(a) \in Pages
<1>1. a \in Nat /\ a < PageStart(NPages) /\ NPages \in Nat
  BY CacheAssumption DEF Addr, PageStart
<1>2. Page(a) \in Nat /\ PageStart(Page(a)) <= a
  BY <1>1, PageBounds
<1>3. ~ (NPages <= Page(a))
  BY <1>1, <1>2, PageStartMono
<1> QED BY <1>1, <1>2, <1>3 DEF Pages

\* The pages of a stretch of memory.
LEMMA SpanType ==
  ASSUME NEW a \in Addr, NEW size \in Nat, size > 0, a + size - 1 \in Addr
  PROVE  /\ a .. (a + size - 1) \subseteq Addr
         /\ Span(a, size) \subseteq Pages
         /\ \A b \in Addr : b \in a .. (a + size - 1) => Page(b) \in Span(a, size)
<1>1. a .. (a + size - 1) \subseteq Addr
  BY CacheAssumption DEF Addr
<1> QED BY <1>1, PageType DEF Span

(***************************************************************************)
(* cleanDBFromAddressRange misses no block that lies on a page of its      *)
(* range: the test of Hit is wide enough.                                  *)
(***************************************************************************)
LEMMA HitComplete ==
  ASSUME TypeOK, NEW a \in Entries, IsBlock(a), NEW lo \in Pages, NEW hi \in Pages,
         NEW p \in lo .. hi, p \in BlockSpan(a)
  PROVE  Hit(a, lo, hi)
<1>1. a \in Addr /\ a \in Nat /\ jmptbl[a].size \in Nat /\ lo \in Nat /\ hi \in Nat /\ p \in Nat
  BY CacheAssumption DEF TypeOK, Blocks, Pages, Addr
<1>2. PICK b \in a .. (a + jmptbl[a].size - 1) : Page(b) = p
  BY DEF BlockSpan, Span
<1>3. b \in Nat /\ a <= b /\ b < a + jmptbl[a].size
  BY <1>1
<1>4. PageStart(p) <= b /\ b < PageStart(p + 1)
  BY <1>2, <1>3, PageBounds
<1>5. /\ PageStart(lo) \in Nat /\ PageStart(lo) <= PageStart(p)
      /\ RangeEnd(hi) \in Nat /\ PageStart(p + 1) <= RangeEnd(hi) /\ PageStart(p + 1) \in Nat /\ PageStart(p) \in Nat
  BY <1>1, PageStartMono DEF RangeEnd
<1>6. a < RangeEnd(hi) /\ PageStart(lo) + 1 <= a + jmptbl[a].size
  BY <1>1, <1>3, <1>4, <1>5
<1> QED BY <1>1, <1>5, <1>6 DEF Hit, Found, IsBlock

\* cleanDBFromAddressRange makes no entry direct, and leaves none direct that it hits.
LEMMA CleanType ==
  ASSUME TypeOK, NEW lo \in Pages, NEW hi \in Pages, NEW J, J \in {FreeRange(lo, hi), MarkRange(lo, hi)}
  PROVE  /\ J \in [Entries -> Blocks]
         /\ \A a \in Entries : J[a].direct => J[a] = jmptbl[a] /\ ~ Hit(a, lo, hi)
         /\ \A a \in Entries : J[a].kind = "block" => /\ jmptbl[a].kind = "block" /\ J[a].size = jmptbl[a].size
<1>1. ArmNext \in Blocks /\ ArmNext.direct = FALSE /\ ArmNext.kind = "next"
  BY CacheAssumption DEF ArmNext, Blocks, Snaps
<1>2. \A a \in Entries : jmptbl[a] \in Blocks
  BY DEF TypeOK
<1>3. \A x \in Blocks : /\ [x EXCEPT !.direct = FALSE] \in Blocks
                        /\ [x EXCEPT !.direct = FALSE].direct = FALSE
                        /\ [x EXCEPT !.direct = FALSE].kind = x.kind
                        /\ [x EXCEPT !.direct = FALSE].size = x.size
  BY DEF Blocks
<1>4. CASE J = FreeRange(lo, hi)
  BY <1>1, <1>2, <1>4 DEF FreeRange
<1>5. CASE J = MarkRange(lo, hi)
  BY <1>2, <1>3, <1>5 DEF MarkRange
<1> QED BY <1>4, <1>5

(***************************************************************************)
(* protectDB of some pages: they end up tagged and not writable, no page   *)
(* loses its tag, and nothing is mapped or unmapped.                       *)
(***************************************************************************)
LEMMA ProtectKeeps ==
  ASSUME TypeOK, ReadOnlyTag, NeverShared, AskedTracked, WritableUntagged, NEW S \in SUBSET Pages,
         prot' = protectDB_prot(S), host' = protectDB_host(S), asked' = asked
  PROVE  /\ prot' \in [Pages -> [perm : AllPerms, tag : Tags]]
         /\ host' \in [Pages -> {"unmapped", "noaccess", "ro", "rw"}]
         /\ ReadOnlyTag' /\ NeverShared' /\ AskedTracked' /\ WritableUntagged'
         /\ \A p \in S : prot'[p].tag \in {"D", "R"}
         /\ \A p \in Pages : prot[p].tag \in {"D", "R"} => prot'[p].tag \in {"D", "R"}
         /\ \A p \in Pages : host'[p] = "unmapped" <=> host[p] = "unmapped"
<1>1. \A p \in Pages : /\ prot[p] \in [perm : AllPerms, tag : Tags]
                       /\ host[p] \in {"unmapped", "noaccess", "ro", "rw"}
  BY DEF TypeOK
<1>2. \A p \in Pages : /\ prot'[p] = IF p \in S THEN ProtectTag(prot[p]) ELSE prot[p]
                       /\ host'[p] = IF p \in S THEN ProtectHost(prot[p], host[p]) ELSE host[p]
  BY DEF protectDB_prot, protectDB_host
<1>3. \A q \in [perm : AllPerms, tag : Tags] : q.tag # "N" =>
        /\ ProtectTag(q) \in [perm : AllPerms, tag : Tags]
        /\ ProtectTag(q).tag \in {"D", "R"}
        /\ ProtectTag(q).tag = "R" => ~ CanWrite(ProtectTag(q).perm)
        /\ Assumed(ProtectTag(q)).perm = Assumed(q).perm
  BY DEF ProtectTag, Tracked, Assumed, Untracked, AllPerms, Tags, CanWrite
<1>4. \A q \in [perm : AllPerms, tag : Tags], h \in {"unmapped", "noaccess", "ro", "rw"} :
        /\ ProtectHost(q, h) \in {"unmapped", "noaccess", "ro", "rw"}
        /\ ProtectHost(q, h) = "unmapped" <=> h = "unmapped"
        /\ ProtectHost(q, h) = "rw" => h = "rw" /\ ~ (q.tag = "-" /\ CanWrite(Assumed(q).perm))
  BY DEF ProtectHost
<1>5. /\ prot' \in [Pages -> [perm : AllPerms, tag : Tags]]
      /\ host' \in [Pages -> {"unmapped", "noaccess", "ro", "rw"}]
  BY <1>1, <1>2, <1>3, <1>4 DEF protectDB_prot, protectDB_host, NeverShared
<1>6. ReadOnlyTag'
  BY <1>1, <1>2, <1>3 DEF ReadOnlyTag, NeverShared
<1>7. NeverShared'
  BY <1>1, <1>2, <1>3 DEF NeverShared
<1>8. WritableUntagged'
  BY <1>1, <1>2, <1>4 DEF WritableUntagged
<1>9. AskedTracked'
  BY <1>1, <1>2, <1>3 DEF AskedTracked, NeverShared
<1> QED BY <1>1, <1>2, <1>3, <1>4, <1>5, <1>6, <1>7, <1>8, <1>9 DEF NeverShared

(***************************************************************************)
(* A step that only adds protection and changes no memory keeps what       *)
(* holds of the direct entries it does not touch.                          *)
(***************************************************************************)
LEMMA DirectKept ==
  ASSUME TypeOK, DirectProtected, Coherent, content' = content,
         NEW a \in Entries, jmptbl'[a] = jmptbl[a], jmptbl[a].direct,
         \A p \in Pages : prot[p].tag \in {"D", "R"} => prot'[p].tag \in {"D", "R"},
         \A p \in Pages : host'[p] = "unmapped" <=> host[p] = "unmapped"
  PROVE  /\ \A p \in BlockSpan(a)' : prot'[p].tag \in {"D", "R"} /\ host'[p] # "unmapped"
         /\ Fresh(a)'
<1>1. a \in Addr /\ jmptbl[a].size \in Nat /\ jmptbl[a].size > 0 /\ a + jmptbl[a].size - 1 \in Addr
  BY CacheAssumption DEF TypeOK, Blocks
<1>2. BlockSpan(a) \subseteq Pages
  BY <1>1, SpanType DEF BlockSpan
<1>3. BlockSpan(a)' = BlockSpan(a)
  BY DEF BlockSpan
<1>4. Fresh(a)' <=> Fresh(a)
  BY DEF Fresh
<1> QED BY <1>2, <1>3, <1>4 DEF DirectProtected, Coherent

\* isInHotPage's countdown.
LEMMA HotType ==
  ASSUME TypeOK, NEW a, Dispatch(a)
  PROVE  hot' \in [page : Pages, cnt : 0 .. HotMark]
<1> DEFINE c == IF hot.cnt > 0 THEN hot.cnt - 1 ELSE 0
<1>1. hot \in [page : Pages, cnt : 0 .. HotMark]
  BY DEF TypeOK
<1>2. c \in 0 .. HotMark
  BY <1>1, CacheAssumption
<1>3. hot' = [hot EXCEPT !.cnt = c]
  BY DEF Dispatch
<1> HIDE DEF c
<1> QED BY <1>1, <1>2, <1>3

-----------------------------------------------------------------------------
\* The entries FillBlock and its error paths leave.
LEMMA EntryTypes ==
  ArmNext \in Blocks /\ EmptyBlock \in Blocks /\ ~ ArmNext.direct /\ ~ EmptyBlock.direct
  /\ ArmNext.kind = "next" /\ EmptyBlock.kind = "empty"
<1>1. ArmNext \in Blocks /\ ~ ArmNext.direct /\ ArmNext.kind = "next"
  BY CacheAssumption DEF ArmNext, Blocks, Snaps
<1>2. \A x \in Blocks : ~ x.direct => /\ [x EXCEPT !.kind = "empty"] \in Blocks
                                      /\ ~ [x EXCEPT !.kind = "empty"].direct
                                      /\ [x EXCEPT !.kind = "empty"].kind = "empty"
  BY DEF Blocks
<1> QED BY <1>1, <1>2 DEF EmptyBlock

\* FillBlock protects pages of the guest.
LEMMA FilledPages ==
  ASSUME NEW a \in Addr, NEW size \in Nat, size > 0, a + size - 1 \in Addr
  PROVE  ProtectedByFill(a, size) \in SUBSET Pages
BY SpanType, PageType DEF ProtectedByFill

\* A translation given up leaves its pages protected and no entry.
LEMMA FillAbortsInv ==
  ASSUME CacheInv, NEW a \in Entries, Dispatch(a),
         (\E size \in 0 .. MaxBlock : FillAborts(a, size)) \/ FillEmpty(a)
  PROVE  CacheInv'
<1>1. a \in Addr /\ Page(a) \in Pages
  BY CacheAssumption, PageType
<1>2. \E S \in SUBSET Pages : prot' = protectDB_prot(S) /\ host' = protectDB_host(S)
  <2>1. ASSUME NEW size \in 0 .. MaxBlock, FillAborts(a, size)
        PROVE  \E S \in SUBSET Pages : prot' = protectDB_prot(S) /\ host' = protectDB_host(S)
    <3>1. CASE size = 0
      BY <1>1, <2>1, <3>1 DEF FillAborts
    <3>2. CASE size > 0
      BY <1>1, <2>1, <3>2, FilledPages, CacheAssumption DEF FillAborts, CanTranslate
    <3> QED BY <3>1, <3>2, CacheAssumption
  <2>2. CASE FillEmpty(a)
    BY <1>1, <2>2 DEF FillEmpty
  <2> QED BY <2>1, <2>2
<1>3. PICK S \in SUBSET Pages : prot' = protectDB_prot(S) /\ host' = protectDB_host(S)
  BY <1>2
<1>4. /\ cur' = NoEntry
      /\ \E x \in {ArmNext, EmptyBlock} : jmptbl' = [jmptbl EXCEPT ![a] = x]
  BY DEF FillAborts, FillEmpty
<1>5. /\ jmptbl' \in [Entries -> Blocks]
      /\ ~ jmptbl'[a].direct /\ jmptbl'[a].kind # "block"
      /\ \A x \in Entries \ {a} : jmptbl'[x] = jmptbl[x]
  BY <1>4, EntryTypes DEF CacheInv, TypeOK
<1>6. content' = content /\ asked' = asked /\ pend' = pend /\ repeated' = repeated /\ pend = NoWrite
  BY DEF Dispatch
<1>7. /\ prot' \in [Pages -> [perm : AllPerms, tag : Tags]]
      /\ host' \in [Pages -> {"unmapped", "noaccess", "ro", "rw"}]
      /\ ReadOnlyTag' /\ NeverShared' /\ AskedTracked' /\ WritableUntagged'
      /\ \A p \in Pages : prot[p].tag \in {"D", "R"} => prot'[p].tag \in {"D", "R"}
      /\ \A p \in Pages : host'[p] = "unmapped" <=> host[p] = "unmapped"
  BY <1>3, <1>6, ProtectKeeps DEF CacheInv
<1>8. TypeOK'
  BY <1>4, <1>5, <1>6, <1>7, HotType DEF CacheInv, TypeOK, IsBlock
<1>9. DirectProtected' /\ Coherent'
  BY <1>5, <1>6, <1>7, DirectKept DEF CacheInv, DirectProtected, Coherent
<1> QED BY <1>6, <1>7, <1>8, <1>9 DEF CacheInv, PendWritable

(***************************************************************************)
(* A block is put in the jump table: if its entry is direct, its pages are *)
(* protected and it was translated from what they hold.                    *)
(***************************************************************************)
LEMMA FillBlockInv ==
  ASSUME CacheInv, NEW a \in Entries, Dispatch(a), NEW test \in BOOLEAN,
         NEW size \in 1 .. MaxBlock, NEW loop \in Loops, FillBlock(a, size, loop, test)
  PROVE  CacheInv'
<1> DEFINE filled == protectDB_prot(ProtectedByFill(a, size))
           never  == filled[Page(a)].tag = "N"
           dirty  == loop \/ never \/ ~ isprotectedDB(filled, Span(a, size))
           S      == ProtectedByFill(a, size) \union IF dirty /\ test THEN Span(a, size) ELSE {}
           direct == ~ loop /\ ~ never /\ (~ dirty \/ (test /\ isprotectedDB(prot', Span(a, size))))
           block  == [kind |-> "block", size |-> size, snap |-> HashCode(content, a, size),
                      direct |-> direct, always_test |-> loop \/ never]
<1>1. /\ a \in Addr /\ Page(a) \in Pages /\ size \in Nat /\ size > 0 /\ a + size - 1 \in Addr
      /\ loop \in BOOLEAN
  BY CacheAssumption, PageType DEF FillBlock, CanTranslate
<1>2. Span(a, size) \subseteq Pages /\ ProtectedByFill(a, size) \in SUBSET Pages /\ a .. (a + size - 1) \subseteq Addr
  BY <1>1, SpanType, FilledPages
<1>3. /\ prot' = protectDB_prot(S) /\ host' = protectDB_host(S)
      /\ jmptbl' = [jmptbl EXCEPT ![a] = block] /\ cur' = a
      /\ \A p \in Span(a, size) : protectDB_host({Page(a)})[p] \in {"ro", "rw"}
  BY DEF FillBlock, CanTranslate
<1>4. S \in SUBSET Pages
  BY <1>2
<1>5. content' = content /\ asked' = asked /\ pend' = pend /\ repeated' = repeated /\ pend = NoWrite
  BY DEF Dispatch
<1>6. direct => isprotectedDB(prot', Span(a, size))
  <2>1. CASE dirty
    BY <2>1
  <2>2. CASE ~ dirty
    <3>1. S = ProtectedByFill(a, size) /\ isprotectedDB(filled, Span(a, size))
      BY <2>2
    <3> QED BY <1>3, <3>1
  <2> QED BY <2>1, <2>2
<1>7. HashCode(content, a, size) \in Snaps
  <2>1. HashCode(content, a, size) \in SnapsOf(a, size)
    BY <1>2 DEF HashCode, SnapsOf, CacheInv, TypeOK
  <2> QED BY <2>1 DEF Snaps
<1>8. block \in Blocks /\ block.kind = "block" /\ block.size = size /\ block.snap = HashCode(content, a, size)
      /\ (block.direct <=> direct)
  <2>1. direct \in BOOLEAN /\ (loop \/ never) \in BOOLEAN
    BY <1>1
  <2> HIDE DEF direct, never
  <2> QED BY <1>7, <2>1 DEF Blocks
<1>9. /\ prot' \in [Pages -> [perm : AllPerms, tag : Tags]]
      /\ host' \in [Pages -> {"unmapped", "noaccess", "ro", "rw"}]
      /\ ReadOnlyTag' /\ NeverShared' /\ AskedTracked' /\ WritableUntagged'
      /\ \A p \in Pages : prot[p].tag \in {"D", "R"} => prot'[p].tag \in {"D", "R"}
      /\ \A p \in Pages : host'[p] = "unmapped" <=> host[p] = "unmapped"
  BY <1>3, <1>4, <1>5, ProtectKeeps DEF CacheInv
<1> HIDE DEF filled, never, dirty, S, direct, block
<1>10. /\ jmptbl' \in [Entries -> Blocks] /\ jmptbl'[a] = block
       /\ \A x \in Entries \ {a} : jmptbl'[x] = jmptbl[x]
  BY <1>3, <1>8 DEF CacheInv, TypeOK
<1>11. TypeOK'
  BY <1>1, <1>3, <1>5, <1>8, <1>9, <1>10, HotType DEF CacheInv, TypeOK, IsBlock
<1>12. \A p \in Span(a, size) : host[p] # "unmapped"
  BY <1>2, <1>3 DEF protectDB_host, ProtectHost
<1>13. direct => \A p \in Span(a, size) : prot'[p].tag \in {"D", "R"} /\ host'[p] # "unmapped"
  BY <1>2, <1>6, <1>9, <1>12 DEF isprotectedDB, NeverShared, Tags
<1>14. BlockSpan(a)' = Span(a, size) /\ Fresh(a)'
  BY <1>5, <1>8, <1>10 DEF BlockSpan, Fresh
<1>15. DirectProtected' /\ Coherent'
  BY <1>5, <1>8, <1>9, <1>10, <1>13, <1>14, DirectKept DEF CacheInv, DirectProtected, Coherent
<1> QED BY <1>5, <1>9, <1>11, <1>15 DEF CacheInv, PendWritable

\* FillBlock, whatever becomes of it.
LEMMA FillInv ==
  ASSUME CacheInv, NEW a \in Entries, Dispatch(a), NEW test \in BOOLEAN, Fill(a, test)
  PROVE  CacheInv'
BY FillBlockInv, FillAbortsInv DEF Fill

-----------------------------------------------------------------------------
\* A dispatch that runs what the jump table has, or the interpreter.
LEMMA DispatchRunInv ==
  ASSUME CacheInv, NEW a \in Entries, DispatchHot(a) \/ DispatchRun(a) \/ JumpTo(a)
  PROVE  CacheInv'
<1>1. hot' \in [page : Pages, cnt : 0 .. HotMark]
  BY HotType DEF DispatchHot, DispatchRun, JumpTo, CacheInv, TypeOK
<1>2. /\ UNCHANGED <<content, prot, host, asked, jmptbl, pend, repeated>>
      /\ cur' \in Entries \union {NoEntry}
  BY DEF DispatchHot, DispatchRun, JumpTo, Dispatch
<1>3. TypeOK'
  BY <1>1, <1>2 DEF CacheInv, TypeOK, IsBlock
<1> QED BY <1>2, <1>3 DEF CacheInv, ReadOnlyTag, NeverShared, PendWritable, AskedTracked, WPage, WritableUntagged,
                          DirectProtected, BlockSpan, Coherent, Fresh

(***************************************************************************)
(* DBGetBlock validates a block: the hash is right and the pages are       *)
(* protected before the entry is made direct.                              *)
(***************************************************************************)
LEMMA DispatchValidateInv ==
  ASSUME CacheInv, NEW a \in Entries, DispatchValidate(a)
  PROVE  CacheInv'
<1> DEFINE S == BlockSpan(a)
           direct == isprotectedDB(prot', S) /\ ~ jmptbl[a].always_test
<1>1. a \in Addr /\ jmptbl[a] \in Blocks /\ jmptbl[a].size \in Nat /\ jmptbl[a].size > 0
      /\ a + jmptbl[a].size - 1 \in Addr /\ jmptbl[a].kind = "block"
  BY CacheAssumption DEF DispatchValidate, NeedTest, CacheInv, TypeOK, Blocks, IsBlock
<1>2. S \in SUBSET Pages
  BY <1>1, SpanType DEF BlockSpan
<1>3. /\ prot' = protectDB_prot(S) /\ host' = protectDB_host(S) /\ cur' = a
      /\ jmptbl' = [jmptbl EXCEPT ![a].direct = direct]
      /\ \A p \in S : Readable(p)
      /\ Fresh(a) /\ Dispatch(a)
  BY DEF DispatchValidate
<1>4. content' = content /\ asked' = asked /\ pend' = pend /\ repeated' = repeated /\ pend = NoWrite
  BY <1>3 DEF Dispatch
<1>5. /\ prot' \in [Pages -> [perm : AllPerms, tag : Tags]]
      /\ host' \in [Pages -> {"unmapped", "noaccess", "ro", "rw"}]
      /\ ReadOnlyTag' /\ NeverShared' /\ AskedTracked' /\ WritableUntagged'
      /\ \A p \in S : prot'[p].tag \in {"D", "R"}
      /\ \A p \in Pages : prot[p].tag \in {"D", "R"} => prot'[p].tag \in {"D", "R"}
      /\ \A p \in Pages : host'[p] = "unmapped" <=> host[p] = "unmapped"
  BY <1>2, <1>3, <1>4, ProtectKeeps DEF CacheInv
<1>6. direct \in BOOLEAN
  OBVIOUS
<1> HIDE DEF S, direct
<1>7. /\ jmptbl' \in [Entries -> Blocks]
      /\ \A x \in Entries \ {a} : jmptbl'[x] = jmptbl[x]
      /\ jmptbl'[a].kind = "block" /\ jmptbl'[a].size = jmptbl[a].size /\ jmptbl'[a].snap = jmptbl[a].snap
  BY <1>1, <1>3, <1>6 DEF CacheInv, TypeOK, Blocks
<1>8. TypeOK'
  BY <1>1, <1>3, <1>4, <1>5, <1>7, HotType DEF CacheInv, TypeOK, IsBlock
<1>9. BlockSpan(a)' = S /\ Fresh(a)'
  BY <1>3, <1>4, <1>7 DEF BlockSpan, Fresh, S
<1>10. \A p \in S : host'[p] # "unmapped"
  BY <1>2, <1>3, <1>5 DEF Readable
<1>11. DirectProtected' /\ Coherent'
  BY <1>4, <1>5, <1>7, <1>9, <1>10, DirectKept DEF CacheInv, DirectProtected, Coherent
<1> QED BY <1>4, <1>5, <1>8, <1>11 DEF CacheInv, PendWritable

-----------------------------------------------------------------------------
(***************************************************************************)
(* A step that changes memory, or loosens protection, on the pages C only  *)
(* keeps what holds of the direct entries, if none that it leaves direct   *)
(* has an address on C.                                                    *)
(***************************************************************************)
LEMMA DirectApart ==
  ASSUME TypeOK, DirectProtected, Coherent, NEW C \in SUBSET Pages,
         \A a \in Entries : jmptbl'[a].direct => jmptbl'[a] = jmptbl[a] /\ BlockSpan(a) \intersect C = {},
         \A p \in Pages \ C : prot[p].tag \in {"D", "R"} => prot'[p].tag \in {"D", "R"},
         \A p \in Pages \ C : host[p] # "unmapped" => host'[p] # "unmapped",
         \A b \in Addr : Page(b) \notin C => content'[b] = content[b]
  PROVE  DirectProtected' /\ Coherent'
<1> SUFFICES ASSUME NEW a \in Entries, jmptbl'[a].direct
             PROVE  /\ \A p \in BlockSpan(a)' : prot'[p].tag \in {"D", "R"} /\ host'[p] # "unmapped"
                    /\ Fresh(a)'
  BY DEF DirectProtected, Coherent
<1>1. jmptbl'[a] = jmptbl[a] /\ BlockSpan(a) \intersect C = {} /\ jmptbl[a].direct
  OBVIOUS
<1>2. a \in Addr /\ jmptbl[a].size \in Nat /\ jmptbl[a].size > 0 /\ a + jmptbl[a].size - 1 \in Addr
  BY <1>1, CacheAssumption DEF TypeOK, Blocks
<1>3. BlockSpan(a)' = BlockSpan(a) /\ BlockSpan(a) \subseteq Pages
  BY <1>1, <1>2, SpanType DEF BlockSpan
<1>4. \A b \in a .. (a + jmptbl[a].size - 1) : content'[b] = content[b]
  BY <1>1, <1>2, SpanType DEF BlockSpan
<1>5. HashCode(content', a, jmptbl[a].size) = HashCode(content, a, jmptbl[a].size)
  BY <1>4 DEF HashCode
<1>6. Fresh(a)'
  BY <1>1, <1>5 DEF Coherent, Fresh
<1> QED BY <1>1, <1>3, <1>6 DEF DirectProtected

\* The entries after cleanDBFromAddressRange on lo .. hi.
LEMMA CleanApart ==
  ASSUME TypeOK, NEW lo \in Pages, NEW hi \in Pages, jmptbl' \in {FreeRange(lo, hi), MarkRange(lo, hi)}
  PROVE  /\ jmptbl' \in [Entries -> Blocks]
         /\ \A a \in Entries : jmptbl'[a].direct => jmptbl'[a] = jmptbl[a] /\ BlockSpan(a) \intersect (lo .. hi) = {}
         /\ \A a \in Entries : /\ jmptbl'[a].direct => IsBlock(a)'
                               /\ IsBlock(a)' => jmptbl'[a].size > 0 /\ a + jmptbl'[a].size - 1 \in Addr
<1>1. /\ jmptbl' \in [Entries -> Blocks]
      /\ \A a \in Entries : jmptbl'[a].direct => jmptbl'[a] = jmptbl[a] /\ ~ Hit(a, lo, hi)
      /\ \A a \in Entries : jmptbl'[a].kind = "block" => jmptbl[a].kind = "block" /\ jmptbl'[a].size = jmptbl[a].size
  BY CleanType
<1>2. \A a \in Entries : jmptbl'[a].direct => IsBlock(a)
  BY <1>1 DEF TypeOK
<1>3. \A a \in Entries : jmptbl'[a].direct => BlockSpan(a) \intersect (lo .. hi) = {}
  BY <1>1, <1>2, HitComplete
<1> QED BY <1>1, <1>2, <1>3 DEF TypeOK, IsBlock

-----------------------------------------------------------------------------
\* A write is to a page of the guest.
LEMMA WriteTypes ==
  ASSUME TypeOK, pend # NoWrite
  PROVE  pend.addr \in Addr /\ pend.val \in Contents /\ WPage \in Pages
BY PageType DEF TypeOK, WPage

\* A tame guest writes where it may.
LEMMA StartWriteInv ==
  ASSUME CacheInv, Tame, NEW a \in Targets, NEW v \in Contents, StartWrite(a, v)
  PROVE  CacheInv'
<1>1. /\ UNCHANGED <<content, prot, host, asked, jmptbl, cur, hot, repeated>>
      /\ pend' = [addr |-> a, val |-> v]
      /\ CanWrite(asked[Page(a)].perm)
  BY DEF StartWrite, Tame
<1>2. pend' \in [addr : Addr, val : Contents] /\ pend'.addr = a
  BY <1>1, CacheAssumption
<1>3. TypeOK'
  BY <1>1, <1>2 DEF CacheInv, TypeOK, IsBlock
<1>4. PendWritable'
  BY <1>1, <1>2 DEF PendWritable, WPage
<1> QED BY <1>1, <1>3, <1>4 DEF CacheInv, ReadOnlyTag, NeverShared, AskedTracked, WritableUntagged,
                                DirectProtected, BlockSpan, Coherent, Fresh

\* A write that the host lets through is on no page of a direct block.
LEMMA DoWriteInv ==
  ASSUME CacheInv, DoWrite
  PROVE  CacheInv'
<1>1. /\ UNCHANGED <<prot, host, asked, jmptbl, cur, hot, repeated>>
      /\ pend # NoWrite /\ pend' = NoWrite /\ host[WPage] = "rw"
      /\ content' = [content EXCEPT ![pend.addr] = pend.val]
  BY DEF DoWrite
<1>2. pend.addr \in Addr /\ pend.val \in Contents /\ WPage \in Pages
  BY <1>1, WriteTypes DEF CacheInv
<1>3. prot[WPage].tag = "-"
  BY <1>1, <1>2 DEF CacheInv, WritableUntagged
<1>4. {WPage} \in SUBSET Pages /\ \A a \in Entries : jmptbl[a].direct => BlockSpan(a) \intersect {WPage} = {}
  BY <1>2, <1>3 DEF CacheInv, DirectProtected
<1>5. content' \in [Addr -> Contents] /\ \A b \in Addr : Page(b) # WPage => content'[b] = content[b]
  BY <1>1, <1>2 DEF CacheInv, TypeOK, WPage
<1>6. DirectProtected' /\ Coherent'
  BY <1>1, <1>2, <1>4, <1>5, DirectApart DEF CacheInv
<1>7. TypeOK'
  BY <1>1, <1>5 DEF CacheInv, TypeOK, IsBlock
<1> QED BY <1>1, <1>6, <1>7 DEF CacheInv, ReadOnlyTag, NeverShared, AskedTracked, WritableUntagged, PendWritable

(***************************************************************************)
(* The fault on a protected page.  The page is tracked as writable, so its *)
(* tag is PROT_DYNAREC and unprotectDB marks its blocks.                   *)
(***************************************************************************)
LEMMA FaultProtectedInv ==
  ASSUME CacheInv, FaultProtected
  PROVE  CacheInv'
<1>1. /\ pend # NoWrite /\ prot[WPage].tag # "-"
      /\ prot' = [prot EXCEPT ![WPage] = UnprotectTag(prot[WPage])]
      /\ host' = [host EXCEPT ![WPage] = UnprotectHost(prot[WPage], host[WPage])]
      /\ jmptbl' = IF prot[WPage].tag = "D" THEN MarkRange(WPage, WPage) ELSE jmptbl
      /\ content' = content /\ asked' = asked
      /\ cur' \in {cur, NoEntry} /\ pend' \in {pend, NoWrite}
      /\ hot' \in {hot, [page |-> WPage, cnt |-> HotMark]} /\ repeated' \in {repeated, WPage}
  BY DEF FaultProtected, AccessError
<1>2. WPage \in Pages /\ prot[WPage] \in [perm : AllPerms, tag : Tags] /\ WPage \in WPage .. WPage
  BY <1>1, WriteTypes DEF CacheInv, TypeOK, Pages
<1>3. Assumed(prot[WPage]) = prot[WPage] /\ CanWrite(prot[WPage].perm)
  BY <1>1, <1>2 DEF CacheInv, PendWritable, AskedTracked, Assumed, Untracked, Tracked
<1>4. prot[WPage].tag = "D"
  BY <1>1, <1>2, <1>3 DEF CacheInv, ReadOnlyTag, NeverShared, Tags
<1>5. jmptbl' = MarkRange(WPage, WPage)
  BY <1>1, <1>4
<1>6. /\ prot'[WPage] = Tracked(prot[WPage].perm, "-")
      /\ host'[WPage] = "rw"
      /\ \A p \in Pages \ {WPage} : prot'[p] = prot[p] /\ host'[p] = host[p]
      /\ prot' \in [Pages -> [perm : AllPerms, tag : Tags]]
      /\ host' \in [Pages -> {"unmapped", "noaccess", "ro", "rw"}]
  BY <1>1, <1>2, <1>3, <1>4
     DEF CacheInv, TypeOK, UnprotectTag, UnprotectHost, HostOf, Tracked, Tags, CanWrite, AllPerms
<1>7. /\ jmptbl' \in [Entries -> Blocks]
      /\ \A a \in Entries : jmptbl'[a].direct => jmptbl'[a] = jmptbl[a] /\ BlockSpan(a) \intersect {WPage} = {}
      /\ \A a \in Entries : /\ jmptbl'[a].direct => IsBlock(a)'
                            /\ IsBlock(a)' => jmptbl'[a].size > 0 /\ a + jmptbl'[a].size - 1 \in Addr
  BY <1>2, <1>5, CleanApart DEF CacheInv
<1>8. DirectProtected' /\ Coherent'
  BY <1>1, <1>2, <1>6, <1>7, DirectApart DEF CacheInv
<1>9. hot' \in [page : Pages, cnt : 0 .. HotMark]
  BY <1>1, <1>2, CacheAssumption DEF CacheInv, TypeOK
<1>10. TypeOK'
  BY <1>1, <1>2, <1>6, <1>7, <1>9 DEF CacheInv, TypeOK
<1>11. CanWrite(Assumed(prot'[WPage]).perm) /\ prot'[WPage].tag = "-"
  BY <1>3, <1>6 DEF Assumed, Tracked, CanWrite, Untracked
<1>12. ReadOnlyTag' /\ NeverShared' /\ AskedTracked' /\ WritableUntagged'
  BY <1>1, <1>2, <1>6, <1>11 DEF CacheInv, ReadOnlyTag, NeverShared, AskedTracked, WritableUntagged
<1>13. PendWritable'
  BY <1>1 DEF CacheInv, PendWritable, WPage
<1> QED BY <1>8, <1>10, <1>12, <1>13 DEF CacheInv

\* The handler's retries, and the signal for the guest.
LEMMA FaultOtherInv ==
  ASSUME CacheInv, FaultGlitch \/ FaultRefresh \/ GuestSegv
  PROVE  CacheInv'
<1>1. /\ UNCHANGED <<content, prot, asked, cur, hot, repeated>>
      /\ pend # NoWrite /\ pend' \in {pend, NoWrite}
      /\ jmptbl' \in {jmptbl, MarkRange(WPage, WPage)}
      /\ \/ host' = host
         \/ /\ host' = [host EXCEPT ![WPage] = HostOf(prot[WPage].perm)]
            /\ CanWrite(prot[WPage].perm) /\ prot[WPage].tag = "-"
            /\ host[WPage] # "unmapped"
  BY DEF FaultGlitch, FaultRefresh, GuestSegv, GlitchFault, AccessError
<1>2. WPage \in Pages /\ prot[WPage] \in [perm : AllPerms, tag : Tags]
  BY <1>1, WriteTypes DEF CacheInv, TypeOK
<1>3. /\ host' \in [Pages -> {"unmapped", "noaccess", "ro", "rw"}]
      /\ \A p \in Pages : host[p] # "unmapped" => host'[p] # "unmapped"
      /\ \A p \in Pages : host'[p] = "rw" => host[p] = "rw" \/ (prot[p].tag = "-" /\ CanWrite(prot[p].perm))
  <2>1. CanWrite(prot[WPage].perm) => HostOf(prot[WPage].perm) = "rw"
    BY DEF HostOf, CanWrite
  <2>2. CASE host' = host
    BY <2>2 DEF CacheInv, TypeOK
  <2>3. CASE host' # host
    BY <1>1, <1>2, <2>1, <2>3 DEF CacheInv, TypeOK
  <2> QED BY <2>2, <2>3
<1>4. /\ jmptbl' \in [Entries -> Blocks]
      /\ \A a \in Entries : jmptbl'[a].direct => jmptbl'[a] = jmptbl[a]
      /\ \A a \in Entries : /\ jmptbl'[a].direct => IsBlock(a)'
                            /\ IsBlock(a)' => jmptbl'[a].size > 0 /\ a + jmptbl'[a].size - 1 \in Addr
  <2>1. CASE jmptbl' = jmptbl
    BY <2>1 DEF CacheInv, TypeOK, IsBlock
  <2>2. CASE jmptbl' = MarkRange(WPage, WPage)
    BY <1>2, <2>2, CleanApart DEF CacheInv
  <2> QED BY <1>1, <2>1, <2>2
<1>5. DirectProtected' /\ Coherent'
  <2>1. {} \in SUBSET Pages /\ \A a \in Entries : BlockSpan(a) \intersect {} = {}
    OBVIOUS
  <2> QED BY <1>1, <1>3, <1>4, <2>1, DirectApart DEF CacheInv
<1>6. TypeOK'
  BY <1>1, <1>3, <1>4 DEF CacheInv, TypeOK
<1>7. \A q \in [perm : AllPerms, tag : Tags] : CanWrite(q.perm) => CanWrite(Assumed(q).perm)
  BY DEF Assumed, Tracked, CanWrite, Untracked
<1>8. WritableUntagged'
  BY <1>1, <1>3, <1>7 DEF CacheInv, TypeOK, WritableUntagged
<1>9. ReadOnlyTag' /\ NeverShared' /\ PendWritable' /\ AskedTracked'
  BY <1>1 DEF CacheInv, ReadOnlyTag, NeverShared, PendWritable, AskedTracked, WPage
<1> QED BY <1>5, <1>6, <1>8, <1>9 DEF CacheInv

-----------------------------------------------------------------------------
\* What every memory call leaves alone, and the pages of a range.
LEMMA MemoryCallFacts ==
  ASSUME CacheInv, MemoryCall, NEW r \in Ranges
  PROVE  /\ pend = NoWrite /\ UNCHANGED <<cur, pend, hot, repeated>>
         /\ r[1] \in Pages /\ r[2] \in Pages /\ r[1] .. r[2] \in SUBSET Pages
         /\ PendWritable'
<1>1. r[1] \in Pages /\ r[2] \in Pages
  BY DEF Ranges
<1>2. r[1] .. r[2] \in SUBSET Pages
  BY <1>1, CacheAssumption DEF Pages
<1>3. pend = NoWrite /\ UNCHANGED <<cur, pend, hot, repeated>>
  BY DEF MemoryCall
<1> QED BY <1>1, <1>2, <1>3 DEF PendWritable

\* Tracked protections, and what the host makes of them.
LEMMA TrackedFacts ==
  /\ \A perm \in AllPerms, tag \in Tags :
       /\ Tracked(perm, tag) \in [perm : AllPerms, tag : Tags]
       /\ Tracked(perm, tag).perm = perm /\ Tracked(perm, tag).tag = tag
  /\ \A perm \in AllPerms : /\ HostOf(perm) \in {"noaccess", "ro", "rw"}
                            /\ HostOf(perm) = "rw" => CanWrite(perm)
  /\ \A q \in [perm : AllPerms, tag : Tags] : CanWrite(q.perm) => CanWrite(Assumed(q).perm)
  /\ Untracked \in [perm : AllPerms, tag : Tags] /\ Untracked.tag = "-" /\ Untracked.perm = "0"
BY DEF Tracked, HostOf, CanWrite, Assumed, Untracked, AllPerms, Tags

\* New memory is mapped where no direct block is.
LEMMA MmapInv ==
  ASSUME CacheInv, Tame, NEW r \in Ranges, NEW perm \in Perms, NEW shared \in BOOLEAN, NEW v \in Contents,
         my_mmap(r, perm, shared, v)
  PROVE  CacheInv'
<1> DEFINE C == r[1] .. r[2]
<1>1. /\ MemoryCall /\ shared = FALSE
      /\ \A p \in C : host[p] = "unmapped"
      /\ content' = [a \in Addr |-> IF Page(a) \in C THEN v ELSE content[a]]
      /\ host' = [p \in Pages |-> IF p \in C THEN HostOf(perm) ELSE host[p]]
      /\ jmptbl' \in {jmptbl, FreeRange(r[1], r[2]), MarkRange(r[1], r[2])}
      /\ prot' = [p \in Pages |-> IF p \in C THEN Tracked(perm, "-") ELSE prot[p]]
      /\ asked' = [p \in Pages |-> IF p \in C THEN Asked(perm, FALSE) ELSE asked[p]]
  BY DEF my_mmap, Maps, Tame, OnRange
<1>2. /\ pend = NoWrite /\ UNCHANGED <<cur, pend, hot, repeated>>
      /\ r[1] \in Pages /\ r[2] \in Pages /\ C \in SUBSET Pages /\ PendWritable'
      /\ perm \in AllPerms /\ "-" \in Tags
  BY <1>1, MemoryCallFacts, CacheAssumption DEF Tags
<1>3. Asked(perm, FALSE) \in [perm : AllPerms, shared : BOOLEAN] /\ Asked(perm, FALSE).shared = FALSE
      /\ Asked(perm, FALSE).perm = perm
  BY <1>2 DEF Asked
<1> HIDE DEF C
<1>4. \A a \in Entries : jmptbl[a].direct => BlockSpan(a) \intersect C = {}
  BY <1>1 DEF CacheInv, DirectProtected
<1>5. /\ jmptbl' \in [Entries -> Blocks]
      /\ \A a \in Entries : jmptbl'[a].direct => jmptbl'[a] = jmptbl[a] /\ BlockSpan(a) \intersect C = {}
      /\ \A a \in Entries : /\ jmptbl'[a].direct => IsBlock(a)'
                            /\ IsBlock(a)' => jmptbl'[a].size > 0 /\ a + jmptbl'[a].size - 1 \in Addr
  <2>1. CASE jmptbl' = jmptbl
    BY <1>4, <2>1 DEF CacheInv, TypeOK, IsBlock
  <2>2. CASE jmptbl' \in {FreeRange(r[1], r[2]), MarkRange(r[1], r[2])}
    BY <1>2, <2>2, CleanApart DEF CacheInv, C
  <2> QED BY <1>1, <2>1, <2>2
<1>6. DirectProtected' /\ Coherent'
  BY <1>1, <1>2, <1>5, DirectApart DEF CacheInv
<1>7. TypeOK'
  BY <1>1, <1>2, <1>3, <1>5, TrackedFacts DEF CacheInv, TypeOK
<1>8. ReadOnlyTag' /\ NeverShared' /\ AskedTracked' /\ WritableUntagged'
  <2>1. \A p \in Pages : p \in C =>
          /\ prot'[p].tag = "-" /\ ~ asked'[p].shared
          /\ CanWrite(asked'[p].perm) => CanWrite(Assumed(prot'[p]).perm)
          /\ host'[p] = "rw" => CanWrite(Assumed(prot'[p]).perm)
    <3>1. \A p \in Pages : p \in C =>
            prot'[p] = Tracked(perm, "-") /\ asked'[p] = Asked(perm, FALSE) /\ host'[p] = HostOf(perm)
      BY <1>1
    <3>2. /\ Tracked(perm, "-").tag = "-" /\ ~ Asked(perm, FALSE).shared
          /\ CanWrite(Asked(perm, FALSE).perm) => CanWrite(Assumed(Tracked(perm, "-")).perm)
          /\ HostOf(perm) = "rw" => CanWrite(Assumed(Tracked(perm, "-")).perm)
      <4>1. Tracked(perm, "-") \in [perm : AllPerms, tag : Tags] /\ Tracked(perm, "-").perm = perm
            /\ Tracked(perm, "-").tag = "-"
        BY <1>2, TrackedFacts
      <4>2. HostOf(perm) = "rw" => CanWrite(perm)
        BY <1>2, TrackedFacts
      <4>3. CanWrite(perm) => CanWrite(Assumed(Tracked(perm, "-")).perm)
        BY <4>1, TrackedFacts
      <4> QED BY <1>3, <4>1, <4>2, <4>3
    <3> QED BY <3>1, <3>2
  <2>2. \A p \in Pages : p \notin C => prot'[p] = prot[p] /\ host'[p] = host[p] /\ asked'[p] = asked[p]
    BY <1>1
  <2>3. ReadOnlyTag' /\ NeverShared' /\ AskedTracked'
    BY <2>1, <2>2 DEF CacheInv, ReadOnlyTag, NeverShared, AskedTracked
  <2>4. WritableUntagged'
    BY <2>1, <2>2 DEF CacheInv, WritableUntagged
  <2> QED BY <2>3, <2>4
<1> QED BY <1>2, <1>6, <1>7, <1>8 DEF CacheInv

\* freeProtection changes nothing out of its range.
LEMMA FreeFacts ==
  ASSUME TypeOK, NEW r, r[1] \in Pages, r[2] \in Pages, NEW k, FreesTail(r, k)
  PROVE  /\ freeProtection(r, k) \in [Pages -> [perm : AllPerms, tag : Tags]]
         /\ \A p \in Pages : freeProtection(r, k)[p] = prot[p] \/ freeProtection(r, k)[p] = Untracked
         /\ \A p \in Pages \ (r[1] .. r[2]) : freeProtection(r, k)[p] = prot[p]
<1>1. k \in r[1] .. r[2] /\ k \in Nat
  BY DEF FreesTail, LeftSet, Pages
<1> QED BY <1>1, TrackedFacts DEF freeProtection, TypeOK, Pages

\* munmap, and mmap and mprotect with no access: the blocks of the range are freed.
LEMMA CloseInv ==
  ASSUME CacheInv, NEW r \in Ranges, NEW k, NEW v \in Contents,
         my_munmap(r, k) \/ my_mprotect_none(r, k) \/ my_mmap_none(r, k, v)
  PROVE  CacheInv'
<1> DEFINE C == r[1] .. r[2]
<1>1. /\ MemoryCall /\ FreesTail(r, k)
      /\ content' \in {content, [a \in Addr |-> IF Page(a) \in C THEN v ELSE content[a]]}
      /\ jmptbl' = FreeRange(r[1], r[2])
      /\ \E h \in {"unmapped", "noaccess"} : host' = [p \in Pages |-> IF p \in C THEN h ELSE host[p]]
      /\ prot' = freeProtection(r, k)
  BY DEF my_munmap, my_mprotect_none, my_mmap_none, Maps, OnRange
<1>2. /\ pend = NoWrite /\ UNCHANGED <<cur, pend, hot, repeated>>
      /\ r[1] \in Pages /\ r[2] \in Pages /\ C \in SUBSET Pages /\ PendWritable'
  BY <1>1, MemoryCallFacts
<1>3. /\ asked' \in [Pages -> [perm : AllPerms, shared : BOOLEAN]]
      /\ \A p \in Pages : ~ asked'[p].shared
      /\ \A p \in Pages : asked'[p] = asked[p] \/ asked'[p].perm = "0"
  <2>1. \A sh \in BOOLEAN : /\ Asked("0", sh) \in [perm : AllPerms, shared : BOOLEAN]
                           /\ Asked("0", sh).shared = sh /\ Asked("0", sh).perm = "0"
    BY DEF Asked, AllPerms
  <2>2. CASE my_munmap(r, k) \/ my_mmap_none(r, k, v)
    <3>1. asked' = [p \in Pages |-> IF p \in C THEN Asked("0", FALSE) ELSE asked[p]]
      BY <2>2 DEF my_munmap, my_mmap_none, OnRange
    <3> QED BY <2>1, <3>1 DEF CacheInv, TypeOK, NeverShared
  <2>3. CASE my_mprotect_none(r, k)
    <3>1. asked' = [p \in Pages |-> IF p \in C THEN Asked("0", asked[p].shared) ELSE asked[p]]
      BY <2>3 DEF my_mprotect_none, AskedPerm
    <3> QED BY <2>1, <3>1 DEF CacheInv, TypeOK, NeverShared
  <2> QED BY <2>2, <2>3
<1>4. /\ prot' \in [Pages -> [perm : AllPerms, tag : Tags]]
      /\ \A p \in Pages : prot'[p] = prot[p] \/ prot'[p] = Untracked
      /\ \A p \in Pages \ C : prot'[p] = prot[p]
  BY <1>1, <1>2, FreeFacts DEF CacheInv
<1>5. /\ jmptbl' \in [Entries -> Blocks]
      /\ \A a \in Entries : jmptbl'[a].direct => jmptbl'[a] = jmptbl[a] /\ BlockSpan(a) \intersect C = {}
      /\ \A a \in Entries : /\ jmptbl'[a].direct => IsBlock(a)'
                            /\ IsBlock(a)' => jmptbl'[a].size > 0 /\ a + jmptbl'[a].size - 1 \in Addr
  BY <1>1, <1>2, CleanApart DEF CacheInv
<1>6. content' \in [Addr -> Contents] /\ \A b \in Addr : Page(b) \notin C => content'[b] = content[b]
  BY <1>1 DEF CacheInv, TypeOK
<1> HIDE DEF C
<1>7. /\ host' \in [Pages -> {"unmapped", "noaccess", "ro", "rw"}]
      /\ \A p \in Pages \ C : host'[p] = host[p]
      /\ \A p \in Pages : host'[p] = "rw" => p \notin C
  BY <1>1 DEF CacheInv, TypeOK
<1>8. DirectProtected' /\ Coherent'
  BY <1>2, <1>4, <1>5, <1>7, <1>6, DirectApart DEF CacheInv
<1>9. TypeOK'
  BY <1>2, <1>3, <1>4, <1>5, <1>7, <1>6 DEF CacheInv, TypeOK
<1>10. ReadOnlyTag' /\ NeverShared' /\ AskedTracked' /\ WritableUntagged'
  <2>1. ReadOnlyTag' /\ NeverShared'
    BY <1>3, <1>4, TrackedFacts DEF CacheInv, ReadOnlyTag, NeverShared
  <2>3. AskedTracked'
    BY <1>3, <1>4 DEF CacheInv, AskedTracked, CanWrite, Assumed, Tracked
  <2>2. WritableUntagged'
    BY <1>4, <1>7 DEF CacheInv, WritableUntagged
  <2> QED BY <2>1, <2>2, <2>3
<1> QED BY <1>2, <1>8, <1>9, <1>10 DEF CacheInv

\* mprotect: pages with blocks keep their tag and stay closed for writing.
LEMMA MprotectInv ==
  ASSUME CacheInv, NEW r \in Ranges, NEW perm \in Perms, my_mprotect(r, perm)
  PROVE  CacheInv'
<1> DEFINE C == r[1] .. r[2]
<1>1. /\ MemoryCall /\ content' = content
      /\ jmptbl' \in {jmptbl, FreeRange(r[1], r[2])}
      /\ host' = [p \in Pages |-> IF p \in C THEN UpdateHost(prot[p], perm) ELSE host[p]]
      /\ prot' = [p \in Pages |-> IF p \in C THEN UpdateTag(prot[p], perm) ELSE prot[p]]
      /\ asked' = [p \in Pages |-> IF p \in C THEN Asked(perm, asked[p].shared) ELSE asked[p]]
  BY DEF my_mprotect, AskedPerm
<1>2. /\ pend = NoWrite /\ UNCHANGED <<cur, pend, hot, repeated>>
      /\ r[1] \in Pages /\ r[2] \in Pages /\ C \in SUBSET Pages /\ PendWritable'
      /\ perm \in AllPerms
  BY <1>1, MemoryCallFacts, CacheAssumption
<1>3. \A q \in [perm : AllPerms, tag : Tags] : q.tag # "N" =>
        /\ UpdateTag(q, perm) \in [perm : AllPerms, tag : Tags]
        /\ UpdateTag(q, perm).tag # "N" /\ UpdateTag(q, perm).perm = perm
        /\ q.tag \in {"D", "R"} => UpdateTag(q, perm).tag \in {"D", "R"}
        /\ UpdateTag(q, perm).tag = "R" => ~ CanWrite(UpdateTag(q, perm).perm)
        /\ UpdateHost(q, perm) \in {"noaccess", "ro", "rw"}
        /\ UpdateHost(q, perm) = "rw" => UpdateTag(q, perm).tag = "-" /\ CanWrite(UpdateTag(q, perm).perm)
  BY <1>2 DEF UpdateTag, UpdateHost, Tracked, HostOf, CanWrite, AllPerms, Tags
<1> HIDE DEF C
<1>4. /\ asked' \in [Pages -> [perm : AllPerms, shared : BOOLEAN]]
      /\ \A p \in Pages : ~ asked'[p].shared
      /\ \A p \in Pages : p \in C => asked'[p].perm = perm
  <2>1. \A sh \in BOOLEAN : /\ Asked(perm, sh) \in [perm : AllPerms, shared : BOOLEAN]
                           /\ Asked(perm, sh).shared = sh /\ Asked(perm, sh).perm = perm
    BY <1>2 DEF Asked
  <2> QED BY <1>1, <2>1 DEF CacheInv, TypeOK, NeverShared
<1>5. /\ jmptbl' \in [Entries -> Blocks]
      /\ \A a \in Entries : jmptbl'[a].direct => jmptbl'[a] = jmptbl[a]
      /\ \A a \in Entries : /\ jmptbl'[a].direct => IsBlock(a)'
                            /\ IsBlock(a)' => jmptbl'[a].size > 0 /\ a + jmptbl'[a].size - 1 \in Addr
  <2>1. CASE jmptbl' = jmptbl
    BY <2>1 DEF CacheInv, TypeOK, IsBlock
  <2>2. CASE jmptbl' = FreeRange(r[1], r[2])
    BY <1>2, <2>2, CleanApart DEF CacheInv
  <2> QED BY <1>1, <2>1, <2>2
<1>6. /\ prot' \in [Pages -> [perm : AllPerms, tag : Tags]]
      /\ host' \in [Pages -> {"unmapped", "noaccess", "ro", "rw"}]
      /\ \A p \in Pages : prot[p].tag \in {"D", "R"} => prot'[p].tag \in {"D", "R"}
      /\ \A p \in Pages : host[p] # "unmapped" => host'[p] # "unmapped"
  BY <1>1, <1>3 DEF CacheInv, TypeOK, NeverShared
<1>7. DirectProtected' /\ Coherent'
  <2>1. {} \in SUBSET Pages /\ \A a \in Entries : BlockSpan(a) \intersect {} = {}
    OBVIOUS
  <2> QED BY <1>1, <1>5, <1>6, <2>1, DirectApart DEF CacheInv
<1>8. TypeOK'
  BY <1>1, <1>2, <1>4, <1>5, <1>6 DEF CacheInv, TypeOK
<1>9. ReadOnlyTag' /\ NeverShared'
  BY <1>1, <1>3, <1>4 DEF CacheInv, TypeOK, ReadOnlyTag, NeverShared
<1>10. WritableUntagged'
  BY <1>1, <1>3, <1>6, TrackedFacts DEF CacheInv, TypeOK, NeverShared, WritableUntagged
<1>11. AskedTracked'
  <2>1. \A p \in Pages : p \notin C => asked'[p] = asked[p] /\ prot'[p] = prot[p]
    BY <1>1
  <2>2. \A p \in Pages : p \in C => prot'[p].perm = perm
    BY <1>1, <1>3 DEF CacheInv, TypeOK, NeverShared
  <2> QED BY <1>4, <1>6, <2>1, <2>2, TrackedFacts DEF CacheInv, AskedTracked
<1> QED BY <1>2, <1>7, <1>8, <1>9, <1>10, <1>11 DEF CacheInv

\* mremap: a page moves to where no direct block is.
LEMMA MremapInv ==
  ASSUME CacheInv, Tame, NEW p \in Pages, NEW q \in Pages, NEW k, my_mremap(p, q, k)
  PROVE  CacheInv'
<1> DEFINE r == <<p, p>>
<1>1. /\ MemoryCall /\ FreesTail(r, k) /\ p # q /\ host[q] = "unmapped"
      /\ content' = [a \in Addr |-> IF Page(a) = q THEN content[PageStart(p) + (a % PageSize)] ELSE content[a]]
      /\ host' = [host EXCEPT ![p] = "unmapped", ![q] = host[p]]
      /\ jmptbl' = FreeRange(p, p)
      /\ prot' = [freeProtection(r, k) EXCEPT ![q] = Tracked(prot[p].perm, "-")]
      /\ asked' = [asked EXCEPT ![p] = Asked("0", FALSE), ![q] = asked[p]]
  BY DEF my_mremap, MovePage, Tame
<1>2. pend = NoWrite /\ UNCHANGED <<cur, pend, hot, repeated>> /\ PendWritable'
  BY <1>1 DEF MemoryCall, PendWritable
<1>3. r[1] = p /\ r[2] = p /\ p .. p = {p}
  BY DEF Pages
<1>4. /\ freeProtection(r, k) \in [Pages -> [perm : AllPerms, tag : Tags]]
      /\ \A x \in Pages : freeProtection(r, k)[x] = prot[x] \/ freeProtection(r, k)[x] = Untracked
      /\ \A x \in Pages \ {p} : freeProtection(r, k)[x] = prot[x]
  <2> HIDE DEF r
  <2>1. r[1] \in Pages /\ r[2] \in Pages /\ r[1] .. r[2] = {p}
    BY <1>3
  <2> QED BY <1>1, <2>1, FreeFacts DEF CacheInv
<1>5. Tracked(prot[p].perm, "-") \in [perm : AllPerms, tag : Tags]
      /\ Tracked(prot[p].perm, "-").tag = "-" /\ Tracked(prot[p].perm, "-").perm = prot[p].perm
  BY TrackedFacts DEF CacheInv, TypeOK, Tags
<1>6. /\ prot' \in [Pages -> [perm : AllPerms, tag : Tags]]
      /\ prot'[q] = Tracked(prot[p].perm, "-")
      /\ \A x \in Pages \ {q} : prot'[x] = prot[x] \/ prot'[x] = Untracked
      /\ \A x \in Pages \ {p, q} : prot'[x] = prot[x]
  BY <1>1, <1>4, <1>5
<1>7. /\ host' \in [Pages -> {"unmapped", "noaccess", "ro", "rw"}]
      /\ host'[p] = "unmapped" /\ host'[q] = host[p]
      /\ \A x \in Pages \ {p, q} : host'[x] = host[x]
  BY <1>1 DEF CacheInv, TypeOK
<1>8. /\ asked' \in [Pages -> [perm : AllPerms, shared : BOOLEAN]]
      /\ \A x \in Pages : ~ asked'[x].shared
      /\ \A x \in Pages \ {p, q} : asked'[x] = asked[x]
      /\ asked'[p].perm = "0" /\ asked'[q] = asked[p]
  <2>1. Asked("0", FALSE) \in [perm : AllPerms, shared : BOOLEAN] /\ ~ Asked("0", FALSE).shared
        /\ Asked("0", FALSE).perm = "0"
    BY DEF Asked, AllPerms
  <2> QED BY <1>1, <2>1 DEF CacheInv, TypeOK, NeverShared
<1>9. /\ content' \in [Addr -> Contents]
      /\ \A b \in Addr : Page(b) \notin {p, q} => content'[b] = content[b]
  <2>1. ASSUME NEW a \in Addr PROVE PageStart(p) + (a % PageSize) \in Addr
    <3>1. a % PageSize \in 0 .. (PageSize - 1)
      BY CacheAssumption DEF Addr
    <3>2. p \in Nat /\ p + 1 \in Nat /\ NPages \in Nat /\ p + 1 <= NPages
      BY CacheAssumption DEF Pages
    <3>3. PageStart(p) \in Nat /\ PageStart(p + 1) <= PageStart(NPages) /\ PageStart(p + 1) \in Nat
      BY <3>2, PageStartMono
    <3>4. PageStart(p + 1) = PageStart(p) + PageSize
      BY <3>2, CacheAssumption DEF PageStart
    <3> QED BY <3>1, <3>3, <3>4, CacheAssumption DEF Addr, PageStart
  <2> QED BY <1>1, <2>1 DEF CacheInv, TypeOK
<1>10. /\ jmptbl' \in [Entries -> Blocks]
       /\ \A a \in Entries : jmptbl'[a].direct => jmptbl'[a] = jmptbl[a] /\ BlockSpan(a) \intersect {p} = {}
       /\ \A a \in Entries : /\ jmptbl'[a].direct => IsBlock(a)'
                             /\ IsBlock(a)' => jmptbl'[a].size > 0 /\ a + jmptbl'[a].size - 1 \in Addr
  BY <1>1, <1>3, CleanApart DEF CacheInv
<1>11. /\ {p, q} \in SUBSET Pages
       /\ \A a \in Entries : jmptbl'[a].direct => jmptbl'[a] = jmptbl[a] /\ BlockSpan(a) \intersect {p, q} = {}
  BY <1>1, <1>10 DEF CacheInv, DirectProtected
<1>12. DirectProtected' /\ Coherent'
  BY <1>6, <1>7, <1>9, <1>11, DirectApart DEF CacheInv
<1>13. TypeOK'
  BY <1>2, <1>6, <1>7, <1>8, <1>9, <1>10 DEF CacheInv, TypeOK
<1>14. ReadOnlyTag' /\ NeverShared'
  <2>1. \A x \in Pages : prot'[x].tag = "-" \/ prot'[x] = prot[x]
    BY <1>5, <1>6, TrackedFacts
  <2> QED BY <1>8, <2>1 DEF CacheInv, ReadOnlyTag, NeverShared
<1>15. WritableUntagged'
  <2>1. host'[q] = "rw" => prot[p].tag = "-" /\ CanWrite(Assumed(prot[p]).perm)
    BY <1>7 DEF CacheInv, WritableUntagged
  <2>2. prot[p].tag = "-" => Tracked(prot[p].perm, "-") = prot[p]
    BY DEF Tracked, CacheInv, TypeOK
  <2>3. host'[q] = "rw" => prot'[q].tag = "-" /\ CanWrite(Assumed(prot'[q]).perm)
    BY <1>5, <1>6, <2>1, <2>2
  <2> QED BY <1>6, <1>7, <2>3 DEF CacheInv, WritableUntagged
<1>16. AskedTracked'
  <2>1. CanWrite(Assumed(prot[p]).perm) => CanWrite(Assumed(Tracked(prot[p].perm, "-")).perm)
    <3>1. CASE prot[p] = Untracked
      <4>1. prot[p].perm = "0" /\ Untracked = Tracked("0", "-")
        BY <3>1 DEF Untracked, Tracked
      <4> QED BY <3>1, <4>1
    <3>2. CASE prot[p] # Untracked
      <4>1. Assumed(prot[p]) = prot[p]
        BY <3>2 DEF Assumed
      <4>2. CanWrite(prot[p].perm) => Tracked(prot[p].perm, "-") # Untracked
        BY DEF CanWrite, Tracked, Untracked
      <4>3. CanWrite(prot[p].perm) => Assumed(Tracked(prot[p].perm, "-")) = Tracked(prot[p].perm, "-")
        BY <4>2 DEF Assumed
      <4> QED BY <1>5, <4>1, <4>3
    <3> QED BY <3>1, <3>2
  <2>2. CanWrite(asked'[q].perm) => CanWrite(Assumed(prot'[q]).perm)
    BY <1>6, <1>8, <2>1 DEF CacheInv, AskedTracked
  <2>3. ~ CanWrite(asked'[p].perm)
    BY <1>8 DEF CanWrite
  <2> QED BY <1>6, <1>8, <2>2, <2>3 DEF CacheInv, AskedTracked
<1> QED BY <1>2, <1>12, <1>13, <1>14, <1>15, <1>16 DEF CacheInv

-----------------------------------------------------------------------------
\* The initial states satisfy the invariant.
LEMMA InitInv ==
  ASSUME Init
  PROVE  CacheInv
<1>1. ArmNext \in Blocks /\ ~ ArmNext.direct /\ ArmNext.kind = "next"
  BY EntryTypes
<1>2. /\ content \in [Addr -> Contents]
      /\ prot = [p \in Pages |-> Untracked]
      /\ host = [p \in Pages |-> IF p \in Heap THEN "rw" ELSE "unmapped"]
      /\ asked = [p \in Pages |-> Asked(IF p \in Heap THEN "RW" ELSE "0", FALSE)]
      /\ jmptbl = [a \in Entries |-> ArmNext]
      /\ cur = NoEntry /\ pend = NoWrite /\ repeated = NoPage
      /\ hot = [page |-> 0, cnt |-> 0]
  BY DEF Init
<1>3. \A p \in Pages : asked[p] \in [perm : AllPerms, shared : BOOLEAN] /\ ~ asked[p].shared
  BY <1>2 DEF Asked, AllPerms
<1>4. hot \in [page : Pages, cnt : 0 .. HotMark]
  BY <1>2, CacheAssumption DEF Pages
<1>5. asked \in [Pages -> [perm : AllPerms, shared : BOOLEAN]]
  BY <1>2, <1>3
<1>6. TypeOK
  BY <1>1, <1>2, <1>4, <1>5, TrackedFacts DEF TypeOK, IsBlock
<1>7. ReadOnlyTag /\ NeverShared /\ PendWritable
  <2>1. \A p \in Pages : prot[p].tag = "-"
    BY <1>2, TrackedFacts
  <2> QED BY <1>2, <1>3, <2>1 DEF ReadOnlyTag, NeverShared, PendWritable
<1>8. WritableUntagged
  BY <1>2, TrackedFacts DEF WritableUntagged, Assumed, Tracked, CanWrite
<1>9. DirectProtected /\ Coherent
  BY <1>1, <1>2 DEF DirectProtected, Coherent
<1>10. AskedTracked
  <2>1. CanWrite(Assumed(Untracked).perm)
    BY DEF Assumed, Tracked, CanWrite
  <2> QED BY <1>2, <2>1 DEF AskedTracked
<1> QED BY <1>6, <1>7, <1>8, <1>9, <1>10 DEF CacheInv

\* Every step of a tame guest keeps the invariant.
LEMMA NextInv ==
  ASSUME CacheInv, Tame, [Next]_vars
  PROVE  CacheInv'
<1>1. ASSUME NEW a \in Entries, DispatchCreate(a) \/ DispatchInvalidate(a) PROVE CacheInv'
  BY <1>1, FillInv DEF DispatchCreate, DispatchInvalidate
<1>2. ASSUME NEW a \in Targets, NEW v \in Contents, SharedWrite(a, v) PROVE CacheInv'
  BY <1>2, PageType, CacheAssumption DEF SharedWrite, CacheInv, NeverShared
<1>3. CASE UNCHANGED vars
  BY <1>3 DEF vars, CacheInv, TypeOK, IsBlock, ReadOnlyTag, NeverShared, PendWritable, WPage, WritableUntagged,
              DirectProtected, AskedTracked, Assumed, BlockSpan, Coherent, Fresh
<1>4. ASSUME NEW r \in Ranges, NEW k \in 0 .. NPages, my_munmap(r, k) \/ my_mprotect_none(r, k)
      PROVE  CacheInv'
  BY <1>4, CloseInv, CacheAssumption
<1>5. CASE Next
  BY <1>1, <1>2, <1>4, <1>5, DispatchRunInv, DispatchValidateInv, StartWriteInv, DoWriteInv, FaultProtectedInv,
     FaultOtherInv, MmapInv, CloseInv, MprotectInv, MremapInv DEF Next
<1> QED BY <1>3, <1>5

(***************************************************************************)
(* CacheInv holds in every state, for a tame guest.                        *)
(***************************************************************************)
THEOREM CacheInvAlways ==
  ASSUME Tame
  PROVE  Spec => []CacheInv
<1>1. Init => CacheInv
  BY InitInv
<1>2. CacheInv /\ [Next]_vars => CacheInv'
  BY NextInv
<1> QED BY <1>1, <1>2, PTL DEF Spec

(***************************************************************************)
(* The pages of a block that the jump table leads to directly cannot be    *)
(* written without a fault, so that my_box86signalhandler sees every write *)
(* that would make the block stale.                                        *)
(***************************************************************************)
THEOREM GuardedAlways ==
  ASSUME Tame
  PROVE  Spec => []Guarded
<1>1. CacheInv => Guarded
  <2> SUFFICES ASSUME CacheInv, NEW a \in Entries, jmptbl[a].direct, NEW p \in BlockSpan(a), host[p] = "rw"
               PROVE  FALSE
    BY DEF Guarded
  <2>1. a \in Addr /\ jmptbl[a].size \in Nat /\ jmptbl[a].size > 0 /\ a + jmptbl[a].size - 1 \in Addr
    BY CacheAssumption DEF CacheInv, TypeOK, Blocks
  <2>2. p \in Pages
    BY <2>1, SpanType DEF BlockSpan
  <2> QED BY <2>2 DEF CacheInv, DirectProtected, WritableUntagged
<1> QED BY <1>1, CacheInvAlways, PTL

(***************************************************************************)
(* A block that runs without its hash being compared is a translation of   *)
(* what the guest's memory holds.                                          *)
(***************************************************************************)
THEOREM CoherentAlways ==
  ASSUME Tame
  PROVE  Spec => []Coherent
<1>1. CacheInv => Coherent
  BY DEF CacheInv
<1> QED BY <1>1, CacheInvAlways, PTL

-----------------------------------------------------------------------------
(***************************************************************************)
(* What a translation does to the protections: protectDB of some pages.    *)
(***************************************************************************)
LEMMA FillProtects ==
  ASSUME NEW a \in Entries, NEW test, Fill(a, test)
  PROVE  \E S \in SUBSET Pages : prot' = protectDB_prot(S) /\ host' = protectDB_host(S)
<1>1. a \in Addr /\ Page(a) \in Pages
  BY CacheAssumption, PageType
<1>2. ASSUME NEW size \in 1 .. MaxBlock, NEW loop \in Loops, FillBlock(a, size, loop, test)
      PROVE  \E S \in SUBSET Pages : prot' = protectDB_prot(S) /\ host' = protectDB_host(S)
  <2>1. size \in Nat /\ size > 0 /\ a + size - 1 \in Addr
    BY <1>2, CacheAssumption DEF FillBlock, CanTranslate
  <2>2. ProtectedByFill(a, size) \in SUBSET Pages /\ Span(a, size) \in SUBSET Pages
    BY <1>1, <2>1, FilledPages, SpanType
  <2>3. \E S \in {ProtectedByFill(a, size), ProtectedByFill(a, size) \union Span(a, size)} :
          prot' = protectDB_prot(S) /\ host' = protectDB_host(S)
    <3>1. PICK U \in {Span(a, size), {}} : /\ prot' = protectDB_prot(ProtectedByFill(a, size) \union U)
                                           /\ host' = protectDB_host(ProtectedByFill(a, size) \union U)
      BY <1>2 DEF FillBlock
    <3>2. ProtectedByFill(a, size) \union {} = ProtectedByFill(a, size)
      OBVIOUS
    <3> QED BY <3>1, <3>2
  <2> QED BY <2>2, <2>3
<1>3. ASSUME NEW size \in 0 .. MaxBlock, FillAborts(a, size)
      PROVE  \E S \in SUBSET Pages : prot' = protectDB_prot(S) /\ host' = protectDB_host(S)
  <2>1. CASE size = 0
    BY <1>1, <1>3, <2>1 DEF FillAborts
  <2>2. CASE size > 0
    BY <1>1, <1>3, <2>2, FilledPages, CacheAssumption DEF FillAborts, CanTranslate
  <2> QED BY <2>1, <2>2, CacheAssumption
<1>4. CASE FillEmpty(a)
  BY <1>1, <1>4 DEF FillEmpty
<1> QED BY <1>2, <1>3, <1>4 DEF Fill

\* The pages of a block in the jump table.
LEMMA BlockPages ==
  ASSUME TypeOK, NEW a \in Entries, IsBlock(a)
  PROVE  /\ a \in Addr /\ jmptbl[a].size \in Nat /\ jmptbl[a].size > 0 /\ a + jmptbl[a].size - 1 \in Addr
         /\ BlockSpan(a) \in SUBSET Pages
<1>1. a \in Addr /\ jmptbl[a].size \in Nat /\ jmptbl[a].size > 0 /\ a + jmptbl[a].size - 1 \in Addr
  BY CacheAssumption DEF TypeOK, Blocks
<1> QED BY <1>1, SpanType DEF BlockSpan

-----------------------------------------------------------------------------
(***************************************************************************)
(* No SIGSEGV for a write that the guest may do.  A page the guest may     *)
(* write to is writable in the host, unless the dynarec tagged it; a guest *)
(* that moves pages is left out, as my_mremap drops the tag and not the    *)
(* host's protection.                                                      *)
(***************************************************************************)
OpenHost == \A p \in Pages : CanWrite(asked[p].perm) =>
              host[p] # "unmapped" /\ (prot[p].tag = "-" => host[p] = "rw")

LEMMA ProtectOpen ==
  ASSUME CacheInv, OpenHost, NEW S \in SUBSET Pages,
         prot' = protectDB_prot(S), host' = protectDB_host(S), asked' = asked
  PROVE  OpenHost'
<1>1. /\ \A p \in S : prot'[p].tag \in {"D", "R"}
      /\ \A p \in Pages : host'[p] = "unmapped" <=> host[p] = "unmapped"
  BY ProtectKeeps DEF CacheInv
<1>2. \A p \in Pages : p \notin S => prot'[p] = prot[p] /\ host'[p] = host[p]
  BY DEF protectDB_prot, protectDB_host
<1> QED BY <1>1, <1>2 DEF OpenHost

LEMMA DispatchOpen ==
  ASSUME CacheInv, OpenHost, NEW a \in Entries,
         \/ DispatchHot(a) \/ DispatchCreate(a) \/ DispatchRun(a)
         \/ DispatchValidate(a) \/ DispatchInvalidate(a) \/ JumpTo(a)
  PROVE  OpenHost'
<1>1. asked' = asked
  BY DEF DispatchHot, DispatchCreate, DispatchRun, DispatchValidate, DispatchInvalidate, JumpTo, Dispatch
<1>2. CASE DispatchHot(a) \/ DispatchRun(a) \/ JumpTo(a)
  BY <1>1, <1>2 DEF DispatchHot, DispatchRun, JumpTo, OpenHost
<1>3. CASE DispatchCreate(a) \/ DispatchInvalidate(a)
  BY <1>1, <1>3, FillProtects, ProtectOpen DEF DispatchCreate, DispatchInvalidate
<1>4. CASE DispatchValidate(a)
  <2>1. BlockSpan(a) \in SUBSET Pages /\ prot' = protectDB_prot(BlockSpan(a)) /\ host' = protectDB_host(BlockSpan(a))
    BY <1>4, BlockPages DEF DispatchValidate, NeedTest, CacheInv
  <2> QED BY <1>1, <2>1, ProtectOpen
<1> QED BY <1>2, <1>3, <1>4

LEMMA FaultOpen ==
  ASSUME CacheInv, OpenHost, FaultProtected \/ FaultGlitch \/ FaultRefresh \/ GuestSegv
  PROVE  OpenHost'
<1>1. CASE FaultProtected
  <2>1. /\ pend # NoWrite /\ prot[WPage].tag # "-" /\ asked' = asked
        /\ prot' = [prot EXCEPT ![WPage] = UnprotectTag(prot[WPage])]
        /\ host' = [host EXCEPT ![WPage] = UnprotectHost(prot[WPage], host[WPage])]
    BY <1>1 DEF FaultProtected, AccessError
  <2>2. WPage \in Pages /\ prot[WPage] \in [perm : AllPerms, tag : Tags]
    BY <2>1, WriteTypes DEF CacheInv, TypeOK
  <2>3. CanWrite(prot[WPage].perm) /\ prot[WPage].tag = "D"
    BY <2>1, <2>2 DEF CacheInv, PendWritable, AskedTracked, Assumed, Untracked, Tracked, ReadOnlyTag, NeverShared, Tags
  <2>4. host'[WPage] = "rw"
    BY <2>1, <2>2, <2>3 DEF UnprotectHost, HostOf, CanWrite, CacheInv, TypeOK
  <2>5. \A p \in Pages : p # WPage => host'[p] = host[p] /\ prot'[p] = prot[p]
    BY <2>1 DEF CacheInv, TypeOK
  <2> QED BY <2>1, <2>4, <2>5 DEF OpenHost
<1>2. CASE FaultGlitch \/ GuestSegv
  BY <1>2 DEF FaultGlitch, GuestSegv, OpenHost
<1>3. CASE FaultRefresh
  <2>1. /\ asked' = asked /\ prot' = prot /\ CanWrite(prot[WPage].perm)
        /\ host' = [host EXCEPT ![WPage] = HostOf(prot[WPage].perm)]
    BY <1>3 DEF FaultRefresh
  <2>2. HostOf(prot[WPage].perm) = "rw"
    BY <2>1 DEF HostOf, CanWrite
  <2>3. \A p \in Pages : host'[p] = host[p] \/ host'[p] = "rw"
    BY <2>1, <2>2 DEF CacheInv, TypeOK
  <2> QED BY <2>1, <2>3 DEF OpenHost
<1> QED BY <1>1, <1>2, <1>3

LEMMA CloseOpen ==
  ASSUME CacheInv, OpenHost, NEW r \in Ranges, NEW k, NEW v,
         my_munmap(r, k) \/ my_mprotect_none(r, k) \/ my_mmap_none(r, k, v)
  PROVE  OpenHost'
<1> DEFINE C == r[1] .. r[2]
<1>0. r[1] \in Pages /\ r[2] \in Pages
  BY DEF Ranges
<1>1. \A p \in Pages : p \in C => asked'[p].perm = "0"
  BY DEF my_munmap, my_mprotect_none, my_mmap_none, AskedPerm, OnRange, Asked
<1>2. \A p \in Pages : p \notin C => asked'[p] = asked[p] /\ host'[p] = host[p]
  BY DEF my_munmap, my_mprotect_none, my_mmap_none, AskedPerm, OnRange
<1>3. FreesTail(r, k) /\ prot' = freeProtection(r, k)
  BY DEF my_munmap, my_mprotect_none, my_mmap_none
<1>4. \A p \in Pages : p \notin C => prot'[p] = prot[p]
  BY <1>0, <1>3, FreeFacts DEF CacheInv
<1> QED BY <1>1, <1>2, <1>4 DEF OpenHost, CanWrite

LEMMA AskOpen ==
  ASSUME CacheInv, OpenHost, NEW r \in Ranges, NEW perm, NEW shared, NEW v,
         my_mmap(r, perm, shared, v) \/ my_mprotect(r, perm)
  PROVE  OpenHost'
<1> DEFINE C == r[1] .. r[2]
<1>1. CASE my_mmap(r, perm, shared, v)
  <2>1. \A p \in Pages : p \in C => asked'[p].perm = perm /\ host'[p] = HostOf(perm)
    BY <1>1 DEF my_mmap, OnRange, Asked
  <2>2. \A p \in Pages : p \notin C => asked'[p] = asked[p] /\ host'[p] = host[p] /\ prot'[p] = prot[p]
    BY <1>1 DEF my_mmap, OnRange
  <2>3. CanWrite(perm) => HostOf(perm) = "rw"
    BY DEF HostOf, CanWrite
  <2> QED BY <2>1, <2>2, <2>3 DEF OpenHost
<1>2. CASE my_mprotect(r, perm)
  <2>1. \A p \in Pages : p \in C => /\ asked'[p].perm = perm /\ host'[p] = UpdateHost(prot[p], perm)
                                    /\ prot'[p] = UpdateTag(prot[p], perm)
    BY <1>2 DEF my_mprotect, AskedPerm, Asked
  <2>2. \A p \in Pages : p \notin C => asked'[p] = asked[p] /\ host'[p] = host[p] /\ prot'[p] = prot[p]
    BY <1>2 DEF my_mprotect, AskedPerm
  <2>3. \A q \in [perm : AllPerms, tag : Tags] : CanWrite(perm) =>
          /\ UpdateHost(q, perm) # "unmapped"
          /\ UpdateTag(q, perm).tag = "-" => UpdateHost(q, perm) = "rw"
    BY DEF UpdateHost, UpdateTag, HostOf, CanWrite, Tracked
  <2> QED BY <2>1, <2>2, <2>3 DEF OpenHost, CacheInv, TypeOK
<1> QED BY <1>1, <1>2

LEMMA NextOpen ==
  ASSUME CacheInv, OpenHost, "move" \notin Guest, [Next]_vars
  PROVE  OpenHost'
<1>1. ASSUME NEW a \in Targets, NEW v \in Contents, StartWrite(a, v) \/ SharedWrite(a, v) PROVE OpenHost'
  BY <1>1 DEF StartWrite, SharedWrite, OpenHost
<1>2. CASE DoWrite
  BY <1>2 DEF DoWrite, OpenHost
<1>3. CASE UNCHANGED vars
  BY <1>3 DEF vars, OpenHost
<1>4. ASSUME NEW p \in Pages, NEW q \in Pages, NEW k \in 0 .. NPages PROVE ~ my_mremap(p, q, k)
  BY DEF my_mremap
<1>5. CASE Next
  BY <1>1, <1>2, <1>4, <1>5, DispatchOpen, FaultOpen, CloseOpen, AskOpen DEF Next
<1> QED BY <1>3, <1>5

\* The steps that end a write without doing it are not for such a page.
LEMMA SegvOwn ==
  ASSUME CacheInv, OpenHost, [Next]_vars, pend # NoWrite, pend' = NoWrite, CanWrite(asked[WPage].perm)
  PROVE  DoWrite
<1>1. WPage \in Pages /\ prot[WPage] \in [perm : AllPerms, tag : Tags]
  BY WriteTypes DEF CacheInv, TypeOK
<1>2. host[WPage] # "unmapped" /\ (prot[WPage].tag = "-" => host[WPage] = "rw")
  BY <1>1 DEF OpenHost
<1>3. ~ GuestSegv
  BY <1>2 DEF GuestSegv, GlitchFault, AccessError, Untracked, Tracked
<1>4. ~ FaultProtected
  <2> SUFFICES ASSUME FaultProtected PROVE FALSE
    OBVIOUS
  <2>1. prot[WPage].tag # "-" /\ pend' \in {pend, IF CanWrite(prot[WPage].perm) THEN pend ELSE NoWrite}
    BY DEF FaultProtected
  <2>2. CanWrite(prot[WPage].perm)
    BY <1>1, <2>1 DEF CacheInv, AskedTracked, Assumed, Untracked, Tracked
  <2> QED BY <2>1, <2>2
<1>5. ~ UNCHANGED vars /\ ~ FaultGlitch /\ ~ FaultRefresh
  BY DEF vars, FaultGlitch, FaultRefresh
<1>6. \A a \in Entries : ~ (\/ DispatchHot(a) \/ DispatchCreate(a) \/ DispatchRun(a)
                          \/ DispatchValidate(a) \/ DispatchInvalidate(a) \/ JumpTo(a))
  BY DEF DispatchHot, DispatchCreate, DispatchRun, DispatchValidate, DispatchInvalidate, JumpTo, Dispatch
<1>7. \A a \in Targets, v \in Contents : ~ (StartWrite(a, v) \/ SharedWrite(a, v))
  BY DEF StartWrite, SharedWrite
<1>8. ~ MemoryCall
  BY DEF MemoryCall
<1>9. ASSUME NEW r, NEW k, NEW v, NEW perm, NEW shared,
             \/ my_mmap(r, perm, shared, v) \/ my_munmap(r, k) \/ my_mprotect_none(r, k)
             \/ my_mmap_none(r, k, v) \/ my_mprotect(r, perm)
      PROVE  FALSE
  <2>1. my_mmap(r, perm, shared, v) => MemoryCall
    BY DEF my_mmap, Maps
  <2>2. my_munmap(r, k) \/ my_mprotect_none(r, k) => MemoryCall
    BY DEF my_munmap, my_mprotect_none
  <2>3. my_mmap_none(r, k, v) => MemoryCall
    BY DEF my_mmap_none, Maps
  <2>4. my_mprotect(r, perm) => MemoryCall
    BY DEF my_mprotect
  <2> QED BY <1>8, <1>9, <2>1, <2>2, <2>3, <2>4
<1>10. \A p, q, k : ~ my_mremap(p, q, k)
  BY <1>8 DEF my_mremap
<1> QED BY <1>3, <1>4, <1>5, <1>6, <1>7, <1>9, <1>10 DEF Next

(***************************************************************************)
(* The guest gets no SIGSEGV for a write to a page it may write to: when   *)
(* the guest is tame and moves no pages, my_box86signalhandler finds out   *)
(* of each such fault that it is the dynarec's, and the write is done.     *)
(***************************************************************************)
THEOREM NoSpuriousSegvAlways ==
  ASSUME Tame, "move" \notin Guest
  PROVE  Spec => NoSpuriousSegv
<1>1. Init => OpenHost
  <2> SUFFICES ASSUME Init PROVE OpenHost
    OBVIOUS
  <2>1. \A p \in Pages : /\ host[p] = IF p \in Heap THEN "rw" ELSE "unmapped"
                         /\ asked[p].perm = IF p \in Heap THEN "RW" ELSE "0"
    BY DEF Init, Asked
  <2> QED BY <2>1 DEF OpenHost, CanWrite
<1>2. CacheInv /\ OpenHost /\ [Next]_vars => OpenHost'
  BY NextOpen
<1>3. CacheInv /\ OpenHost /\ [Next]_vars =>
        [pend # NoWrite /\ pend' = NoWrite /\ CanWrite(asked[WPage].perm) => DoWrite]_vars
  BY SegvOwn
<1> QED BY <1>1, <1>2, <1>3, CacheInvAlways, PTL DEF Spec, NoSpuriousSegv

-----------------------------------------------------------------------------
(***************************************************************************)
(* The block that runs.  Its pages are tagged, so that no write to them    *)
(* passes without a fault, and the fault handler leaves the block.         *)
(***************************************************************************)
CurInv == cur # NoEntry /\ IsBlock(cur) => /\ Fresh(cur)
                                           /\ \A p \in BlockSpan(cur) : prot[p].tag \in {"D", "R"}

\* NoEntry is no entry.
LEMMA CurEntry ==
  ASSUME TypeOK, cur # NoEntry
  PROVE  cur \in Entries
BY DEF TypeOK

\* The page of an address between the starts of two pages.
LEMMA PageIs ==
  ASSUME NEW x \in Nat, NEW q \in Nat, PageStart(q) <= x, x < PageStart(q + 1)
  PROVE  Page(x) = q
<1>1. Page(x) \in Nat /\ PageStart(Page(x)) <= x /\ x < PageStart(Page(x) + 1)
  BY PageBounds
<1>2. ~ (q + 1 <= Page(x))
  BY <1>1, PageStartMono
<1>3. ~ (Page(x) + 1 <= q)
  BY <1>1, PageStartMono
<1> QED BY <1>1, <1>2, <1>3

(***************************************************************************)
(* The test with ~box86_pagesize finds every block that crosses a page, if *)
(* the block is shorter than a page: of a block of a page's length that    *)
(* starts on an even page, both ends look the same.                        *)
(***************************************************************************)
LEMMA SpanProtected ==
  ASSUME MaxBlock < PageSize, NEW a \in Addr, NEW size \in 1 .. MaxBlock
  PROVE  Span(a, size) \subseteq ProtectedByFill(a, size)
<1> DEFINE P == Page(a)
<1>1. /\ a \in Nat /\ size \in Nat /\ size > 0 /\ size < PageSize /\ PageSize \in Nat
      /\ P \in Nat /\ PageStart(P) <= a /\ a < PageStart(P + 1)
  BY PageType, PageBounds, CacheAssumption
<1>2. /\ PageStart(P) \in Nat /\ PageStart(P + 1) = PageStart(P) + PageSize
      /\ PageStart(P + 2) = PageStart(P) + PageSize + PageSize
  BY <1>1, CacheAssumption DEF PageStart
<1>3. ASSUME NEW b \in a .. (a + size - 1), Page(b) # P PROVE ClearPageBit(a) # ClearPageBit(a + size)
  <2>1. b \in Nat /\ a <= b /\ b < a + size
    BY <1>1
  <2>2. ~ (b < PageStart(P + 1))
    BY <1>1, <1>2, <1>3, <2>1, PageIs
  <2>3. PageStart(P + 1) <= a + size /\ a + size < PageStart(P + 2)
    BY <1>1, <1>2, <2>1, <2>2
  <2>4. (P + 1) + 1 = P + 2 /\ P + 1 \in Nat /\ a + size \in Nat
    BY <1>1
  <2>5. Page(a + size) = P + 1
    BY <2>3, <2>4, PageIs
  <2>6. \A n \in Nat : (n % 2 = 1 /\ (n + 1) % 2 = 0) \/ (n % 2 = 0 /\ (n + 1) % 2 = 1)
    OBVIOUS
  <2>7. (P % 2 = 1 /\ (P + 1) % 2 = 0) \/ (P % 2 = 0 /\ (P + 1) % 2 = 1)
    BY <1>1, <2>6
  <2>8. CASE P % 2 = 1 /\ (P + 1) % 2 = 0
    <3>1. ClearPageBit(a) = a - PageSize /\ ClearPageBit(a + size) = a + size
      BY <2>5, <2>8 DEF ClearPageBit
    <3> QED BY <1>1, <3>1
  <2>9. CASE P % 2 = 0 /\ (P + 1) % 2 = 1
    <3>0. Page(a) % 2 # 1
      BY <2>9
    <3>1. ClearPageBit(a) = a
      BY <3>0 DEF ClearPageBit
    <3>2. Page(a + size) % 2 = 1
      BY <2>5, <2>9
    <3>3. ClearPageBit(a + size) = (a + size) - PageSize
      BY <3>2 DEF ClearPageBit
    <3> QED BY <1>1, <3>1, <3>3
  <2> QED BY <2>7, <2>8, <2>9
<1> QED BY <1>3 DEF Span, ProtectedByFill

\* cleanDBFromAddressRange changes neither the size nor the hash of a block it leaves.
LEMMA CleanSnap ==
  ASSUME TypeOK, NEW lo, NEW hi, NEW a \in Entries
  PROVE  /\ FreeRange(lo, hi)[a] \in {jmptbl[a], ArmNext}
         /\ /\ MarkRange(lo, hi)[a].kind = jmptbl[a].kind
            /\ MarkRange(lo, hi)[a].size = jmptbl[a].size
            /\ MarkRange(lo, hi)[a].snap = jmptbl[a].snap
<1>1. jmptbl[a] \in Blocks
  BY DEF TypeOK
<1>2. \A x \in Blocks : /\ [x EXCEPT !.direct = FALSE].kind = x.kind
                        /\ [x EXCEPT !.direct = FALSE].size = x.size
                        /\ [x EXCEPT !.direct = FALSE].snap = x.snap
  BY DEF Blocks
<1> QED BY <1>1, <1>2 DEF FreeRange, MarkRange

\* A step that cleans a range at most leaves the block that runs its size and its hash.
LEMMA CurBlockKept ==
  ASSUME CacheInv, cur' \in {cur, NoEntry}, NEW lo, NEW hi,
         jmptbl' \in {jmptbl, FreeRange(lo, hi), MarkRange(lo, hi)}
  PROVE  cur' # NoEntry /\ jmptbl'[cur].kind = "block" =>
           IsBlock(cur) /\ jmptbl'[cur].size = jmptbl[cur].size /\ jmptbl'[cur].snap = jmptbl[cur].snap
<1> SUFFICES ASSUME cur' # NoEntry, jmptbl'[cur].kind = "block"
             PROVE  IsBlock(cur) /\ jmptbl'[cur].size = jmptbl[cur].size /\ jmptbl'[cur].snap = jmptbl[cur].snap
  OBVIOUS
<1>1. cur \in Entries
  BY CurEntry DEF CacheInv
<1>2. CASE jmptbl' = jmptbl
  BY <1>2 DEF IsBlock
<1>3. CASE jmptbl' = FreeRange(lo, hi)
  <2>1. FreeRange(lo, hi)[cur] \in {jmptbl[cur], ArmNext}
    BY <1>1, CleanSnap DEF CacheInv
  <2> QED BY <1>3, <2>1 DEF IsBlock, ArmNext
<1>4. CASE jmptbl' = MarkRange(lo, hi)
  BY <1>1, <1>4, CleanSnap DEF CacheInv, IsBlock
<1> QED BY <1>2, <1>3, <1>4

\* A step that changes memory, or loosens protection, away from the block that runs.
LEMMA CurApart ==
  ASSUME TypeOK, CurInv, cur' \in {cur, NoEntry}, NEW C \in SUBSET Pages,
         cur' # NoEntry /\ jmptbl'[cur].kind = "block" =>
           /\ IsBlock(cur) /\ jmptbl'[cur].size = jmptbl[cur].size /\ jmptbl'[cur].snap = jmptbl[cur].snap
           /\ BlockSpan(cur) \intersect C = {},
         \A p \in Pages \ C : prot[p].tag \in {"D", "R"} => prot'[p].tag \in {"D", "R"},
         \A b \in Addr : Page(b) \notin C => content'[b] = content[b]
  PROVE  CurInv'
<1> SUFFICES ASSUME cur' # NoEntry, IsBlock(cur)'
             PROVE  Fresh(cur)' /\ \A p \in BlockSpan(cur)' : prot'[p].tag \in {"D", "R"}
  BY DEF CurInv
<1>1. cur' = cur /\ cur # NoEntry
  OBVIOUS
<1>2. PICK a : a = cur
  OBVIOUS
<1>3. a \in Entries /\ a = cur'
  BY <1>1, <1>2, CurEntry
<1>4. /\ IsBlock(a) /\ jmptbl'[a].size = jmptbl[a].size /\ jmptbl'[a].snap = jmptbl[a].snap
      /\ BlockSpan(a) \intersect C = {}
  BY <1>1, <1>2 DEF IsBlock
<1>5. a \in Addr /\ jmptbl[a].size \in Nat /\ jmptbl[a].size > 0 /\ a + jmptbl[a].size - 1 \in Addr
      /\ BlockSpan(a) \in SUBSET Pages
  BY <1>3, <1>4, BlockPages
<1>6. BlockSpan(a)' = BlockSpan(a)
  BY <1>4 DEF BlockSpan
<1>7. \A b \in a .. (a + jmptbl[a].size - 1) : content'[b] = content[b]
  BY <1>4, <1>5, SpanType DEF BlockSpan
<1>8. HashCode(content', a, jmptbl[a].size) = HashCode(content, a, jmptbl[a].size)
  BY <1>7 DEF HashCode
<1>9. Fresh(a) /\ \A p \in BlockSpan(a) : prot[p].tag \in {"D", "R"}
  BY <1>1, <1>2, <1>4 DEF CurInv
<1>10. Fresh(a)'
  BY <1>4, <1>8, <1>9 DEF Fresh
<1>11. \A p \in BlockSpan(a)' : prot'[p].tag \in {"D", "R"}
  BY <1>4, <1>5, <1>6, <1>9
<1>12. Fresh(cur)' <=> Fresh(a)'
  BY <1>3 DEF Fresh
<1>13. BlockSpan(cur)' = BlockSpan(a)'
  BY <1>3 DEF BlockSpan
<1> QED BY <1>10, <1>11, <1>12, <1>13

LEMMA FillCur ==
  ASSUME CacheInv, MaxBlock < PageSize, NEW a \in Entries, Dispatch(a), NEW test \in BOOLEAN, Fill(a, test)
  PROVE  CurInv'
<1>1. CASE cur' = NoEntry
  BY <1>1 DEF CurInv, NoEntry
<1>2. ASSUME NEW size \in 1 .. MaxBlock, NEW loop \in Loops, FillBlock(a, size, loop, test)
      PROVE  CurInv'
  <2>1. a \in Addr /\ size \in Nat /\ size > 0 /\ a + size - 1 \in Addr
    BY <1>2, CacheAssumption DEF FillBlock, CanTranslate
  <2>2. ProtectedByFill(a, size) \in SUBSET Pages /\ Span(a, size) \in SUBSET Pages
        /\ Span(a, size) \subseteq ProtectedByFill(a, size)
    BY <2>1, FilledPages, SpanType, SpanProtected
  <2>3. PICK U \in {Span(a, size), {}} : /\ prot' = protectDB_prot(ProtectedByFill(a, size) \union U)
                                         /\ host' = protectDB_host(ProtectedByFill(a, size) \union U)
    BY <1>2 DEF FillBlock
  <2>4. ProtectedByFill(a, size) \union U \in SUBSET Pages
    BY <2>2
  <2>5. content' = content /\ asked' = asked
    BY DEF Dispatch
  <2>6. \A p \in Span(a, size) : prot'[p].tag \in {"D", "R"}
    BY <2>2, <2>3, <2>4, <2>5, ProtectKeeps DEF CacheInv
  <2>7. cur' = a /\ jmptbl'[a].size = size /\ jmptbl'[a].snap = HashCode(content, a, size)
    BY <1>2 DEF FillBlock, CacheInv, TypeOK
  <2>8. Fresh(cur)' /\ BlockSpan(cur)' = Span(a, size)
    BY <2>5, <2>7 DEF Fresh, BlockSpan
  <2> QED BY <2>6, <2>8 DEF CurInv
<1>3. ASSUME NEW size \in 0 .. MaxBlock, FillAborts(a, size) PROVE cur' = NoEntry
  BY <1>3 DEF FillAborts
<1>4. FillEmpty(a) => cur' = NoEntry
  BY DEF FillEmpty
<1> QED BY <1>1, <1>2, <1>3, <1>4 DEF Fill

LEMMA DispatchCur ==
  ASSUME CacheInv, CurInv, MaxBlock < PageSize, NEW a \in Entries,
         \/ DispatchHot(a) \/ DispatchCreate(a) \/ DispatchRun(a)
         \/ DispatchValidate(a) \/ DispatchInvalidate(a) \/ JumpTo(a)
  PROVE  CurInv'
<1>1. CASE DispatchCreate(a) \/ DispatchInvalidate(a)
  BY <1>1, FillCur DEF DispatchCreate, DispatchInvalidate
<1>2. CASE DispatchHot(a) \/ DispatchRun(a) \/ JumpTo(a)
  <2>1. /\ UNCHANGED <<content, prot, jmptbl>>
        /\ cur' = NoEntry \/ (cur' = a /\ jmptbl[a].direct)
    BY <1>2, EntryTypes DEF DispatchHot, DispatchRun, JumpTo, Dispatch, IsBlock
  <2>2. CASE cur' = NoEntry
    BY <2>2 DEF CurInv, NoEntry
  <2>3. CASE cur' = a /\ jmptbl[a].direct
    <3>1. Fresh(a) /\ \A p \in BlockSpan(a) : prot[p].tag \in {"D", "R"}
      BY <2>3 DEF CacheInv, Coherent, DirectProtected
    <3>2. Fresh(cur)' /\ BlockSpan(cur)' = BlockSpan(a)
      BY <2>1, <2>3, <3>1 DEF Fresh, BlockSpan
    <3> QED BY <2>1, <3>1, <3>2 DEF CurInv
  <2> QED BY <2>1, <2>2, <2>3
<1>3. CASE DispatchValidate(a)
  <2>1. /\ BlockSpan(a) \in SUBSET Pages /\ jmptbl[a] \in Blocks
        /\ prot' = protectDB_prot(BlockSpan(a)) /\ host' = protectDB_host(BlockSpan(a))
    BY <1>3, BlockPages DEF DispatchValidate, NeedTest, CacheInv, TypeOK
  <2>2. content' = content /\ asked' = asked /\ Fresh(a) /\ cur' = a
    BY <1>3 DEF DispatchValidate, Dispatch
  <2>3. \A p \in BlockSpan(a) : prot'[p].tag \in {"D", "R"}
    BY <2>1, <2>2, ProtectKeeps DEF CacheInv
  <2>4. jmptbl'[a].size = jmptbl[a].size /\ jmptbl'[a].snap = jmptbl[a].snap
    BY <1>3, <2>1 DEF DispatchValidate, CacheInv, TypeOK, Blocks
  <2>5. Fresh(cur)' /\ BlockSpan(cur)' = BlockSpan(a)
    BY <2>2, <2>4 DEF Fresh, BlockSpan
  <2> QED BY <2>3, <2>5 DEF CurInv
<1> QED BY <1>1, <1>2, <1>3

LEMMA WriteCur ==
  ASSUME CacheInv, CurInv, DoWrite \/ FaultProtected \/ FaultGlitch \/ FaultRefresh \/ GuestSegv
  PROVE  CurInv'
<1>1. pend # NoWrite /\ WPage \in Pages /\ WPage \in WPage .. WPage /\ {WPage} \in SUBSET Pages /\ {} \in SUBSET Pages
  <2>1. pend # NoWrite
    BY DEF DoWrite, FaultProtected, FaultGlitch, FaultRefresh, GuestSegv, GlitchFault, AccessError
  <2> QED BY <2>1, WriteTypes DEF CacheInv, Pages
<1>2. CASE DoWrite
  <2>1. /\ cur' = cur /\ prot' = prot /\ jmptbl' = jmptbl /\ prot[WPage].tag = "-"
        /\ content' = [content EXCEPT ![pend.addr] = pend.val]
    BY <1>1, <1>2 DEF DoWrite, CacheInv, WritableUntagged
  <2>2. \A b \in Addr : Page(b) \notin {WPage} => content'[b] = content[b]
    BY <2>1 DEF CacheInv, TypeOK, WPage
  <2>3. cur' # NoEntry /\ IsBlock(cur) => BlockSpan(cur) \intersect {WPage} = {}
    BY <2>1 DEF CurInv
  <2> QED BY <1>1, <2>1, <2>2, <2>3, CurApart DEF CacheInv, IsBlock
<1>3. CASE FaultGlitch \/ FaultRefresh \/ GuestSegv
  <2>1. /\ cur' = cur /\ prot' = prot /\ content' = content
        /\ jmptbl' = jmptbl \/ jmptbl' = MarkRange(WPage, WPage)
    BY <1>3 DEF FaultGlitch, FaultRefresh, GuestSegv
  <2>2. cur' # NoEntry /\ jmptbl'[cur].kind = "block" =>
           IsBlock(cur) /\ jmptbl'[cur].size = jmptbl[cur].size /\ jmptbl'[cur].snap = jmptbl[cur].snap
    BY <2>1, CurBlockKept
  <2> QED BY <1>1, <2>1, <2>2, CurApart DEF CacheInv
<1>4. CASE FaultProtected
  <2>1. /\ prot[WPage].tag # "-" /\ content' = content
        /\ prot' = [prot EXCEPT ![WPage] = UnprotectTag(prot[WPage])]
        /\ jmptbl' = IF prot[WPage].tag = "D" THEN MarkRange(WPage, WPage) ELSE jmptbl
        /\ cur' \in {cur, NoEntry}
        /\ cur' # NoEntry => cur' = cur /\ ~ (jmptbl'[cur].kind = "block" /\ ~ jmptbl'[cur].direct)
    BY <1>4 DEF FaultProtected, AccessError
  <2>2. prot[WPage] \in [perm : AllPerms, tag : Tags]
    BY <1>1 DEF CacheInv, TypeOK
  <2>3. CanWrite(prot[WPage].perm) /\ prot[WPage].tag = "D"
    BY <1>1, <2>1, <2>2 DEF CacheInv, PendWritable, AskedTracked, Assumed, Untracked, Tracked, ReadOnlyTag, NeverShared, Tags
  <2>4. jmptbl' = MarkRange(WPage, WPage)
    BY <2>1, <2>3
  <2>5. cur' # NoEntry /\ jmptbl'[cur].kind = "block" =>
           IsBlock(cur) /\ jmptbl'[cur].size = jmptbl[cur].size /\ jmptbl'[cur].snap = jmptbl[cur].snap
    BY <2>1, <2>4, CurBlockKept
  <2>6. cur' # NoEntry /\ jmptbl'[cur].kind = "block" => BlockSpan(cur) \intersect {WPage} = {}
    <3> SUFFICES ASSUME cur' # NoEntry, jmptbl'[cur].kind = "block" PROVE BlockSpan(cur) \intersect {WPage} = {}
      OBVIOUS
    <3>1. cur \in Entries /\ jmptbl'[cur].direct
      BY <2>1, CurEntry DEF CacheInv
    <3>2. BlockSpan(cur) \intersect (WPage .. WPage) = {}
      BY <1>1, <2>4, <3>1, CleanApart DEF CacheInv
    <3> QED BY <1>1, <3>2
  <2>7. \A p \in Pages \ {WPage} : prot'[p] = prot[p]
    BY <2>1 DEF CacheInv, TypeOK
  <2> QED BY <1>1, <2>1, <2>5, <2>6, <2>7, CurApart DEF CacheInv
<1> QED BY <1>2, <1>3, <1>4

\* A memory call away from the block that runs, or one that leaves it its tags.
LEMMA CloseCur ==
  ASSUME CacheInv, CurInv, NEW r \in Ranges, NEW k, NEW v,
         my_munmap(r, k) \/ my_mprotect_none(r, k) \/ my_mmap_none(r, k, v)
  PROVE  CurInv'
<1> DEFINE C == r[1] .. r[2]
<1>1. /\ MemoryCall /\ FreesTail(r, k) /\ NotRunning(r)
      /\ content' \in {content, [a \in Addr |-> IF Page(a) \in C THEN v ELSE content[a]]}
      /\ jmptbl' = FreeRange(r[1], r[2]) /\ prot' = freeProtection(r, k)
  BY DEF my_munmap, my_mprotect_none, my_mmap_none, Maps
<1>2. cur' = cur /\ r[1] \in Pages /\ r[2] \in Pages /\ C \in SUBSET Pages
  BY <1>1, MemoryCallFacts
<1>3. \A p \in Pages \ C : prot'[p] = prot[p]
  BY <1>1, <1>2, FreeFacts DEF CacheInv
<1>4. \A b \in Addr : Page(b) \notin C => content'[b] = content[b]
  BY <1>1
<1>5. cur # NoEntry => BlockSpan(cur) \intersect C = {}
  BY <1>1 DEF NotRunning
<1> HIDE DEF C
<1>6. cur' # NoEntry /\ jmptbl'[cur].kind = "block" =>
           IsBlock(cur) /\ jmptbl'[cur].size = jmptbl[cur].size /\ jmptbl'[cur].snap = jmptbl[cur].snap
  BY <1>1, <1>2, CurBlockKept
<1> QED BY <1>2, <1>3, <1>4, <1>5, <1>6, CurApart DEF CacheInv

LEMMA AskCur ==
  ASSUME CacheInv, CurInv, NEW r \in Ranges, NEW perm \in Perms, NEW shared, NEW v,
         my_mmap(r, perm, shared, v) \/ my_mprotect(r, perm)
  PROVE  CurInv'
<1> DEFINE C == r[1] .. r[2]
<1>0. MemoryCall
  BY DEF my_mmap, my_mprotect, Maps
<1>1. cur' = cur /\ r[1] \in Pages /\ r[2] \in Pages /\ C \in SUBSET Pages /\ {} \in SUBSET Pages
  BY <1>0, MemoryCallFacts
<1>2. jmptbl' \in {jmptbl, FreeRange(r[1], r[2]), MarkRange(r[1], r[2])}
  BY DEF my_mmap, my_mprotect
<1>3. cur' # NoEntry /\ jmptbl'[cur].kind = "block" =>
           IsBlock(cur) /\ jmptbl'[cur].size = jmptbl[cur].size /\ jmptbl'[cur].snap = jmptbl[cur].snap
  BY <1>1, <1>2, CurBlockKept
<1>4. CASE my_mmap(r, perm, shared, v)
  <2>1. /\ NotRunning(r)
        /\ content' = [a \in Addr |-> IF Page(a) \in C THEN v ELSE content[a]]
        /\ \A p \in Pages \ C : prot'[p] = prot[p]
    BY <1>4 DEF my_mmap, Maps, OnRange
  <2>2. cur # NoEntry => BlockSpan(cur) \intersect C = {}
    BY <2>1 DEF NotRunning
  <2>3. \A b \in Addr : Page(b) \notin C => content'[b] = content[b]
    BY <2>1
  <2> HIDE DEF C
  <2> QED BY <1>1, <1>3, <2>1, <2>2, <2>3, CurApart DEF CacheInv
<1>5. CASE my_mprotect(r, perm)
  <2>1. /\ content' = content
        /\ \A p \in Pages : prot'[p] = prot[p] \/ prot'[p] = UpdateTag(prot[p], perm)
    BY <1>5 DEF my_mprotect
  <2>2. \A q \in [perm : AllPerms, tag : Tags] : q.tag \in {"D", "R"} => UpdateTag(q, perm).tag \in {"D", "R"}
    BY DEF UpdateTag, Tracked
  <2>3. \A p \in Pages : prot[p].tag \in {"D", "R"} => prot'[p].tag \in {"D", "R"}
    BY <2>1, <2>2 DEF CacheInv, TypeOK
  <2> QED BY <1>1, <1>3, <2>1, <2>3, CurApart DEF CacheInv
<1> QED BY <1>4, <1>5

LEMMA MoveCur ==
  ASSUME CacheInv, CurInv, NEW p \in Pages, NEW q \in Pages, NEW k, my_mremap(p, q, k)
  PROVE  CurInv'
<1> DEFINE r == <<p, p>>
           C == {p, q}
<1>1. /\ FreesTail(r, k) /\ NotRunning(<<p, p>>) /\ NotRunning(<<q, q>>) /\ cur' = cur
      /\ content' = [a \in Addr |-> IF Page(a) = q THEN content[PageStart(p) + (a % PageSize)] ELSE content[a]]
      /\ jmptbl' = FreeRange(p, p)
      /\ prot' = [freeProtection(r, k) EXCEPT ![q] = Tracked(prot[p].perm, "-")]
  BY DEF my_mremap, MemoryCall
<1>2. p .. p = {p} /\ q .. q = {q} /\ <<p, p>>[1] = p /\ <<p, p>>[2] = p /\ <<q, q>>[1] = q /\ <<q, q>>[2] = q
  BY DEF Pages
<1>3. cur # NoEntry => BlockSpan(cur) \intersect C = {}
  BY <1>1, <1>2 DEF NotRunning
<1>4. /\ freeProtection(r, k) \in [Pages -> [perm : AllPerms, tag : Tags]]
      /\ \A x \in Pages \ {p} : freeProtection(r, k)[x] = prot[x]
  <2> HIDE DEF r
  <2>1. r[1] \in Pages /\ r[2] \in Pages /\ r[1] .. r[2] = {p}
    BY <1>2 DEF r
  <2> QED BY <1>1, <2>1, FreeFacts DEF CacheInv
<1>5. \A x \in Pages \ C : prot'[x] = prot[x]
  BY <1>1, <1>4
<1>6. \A b \in Addr : Page(b) \notin C => content'[b] = content[b]
  BY <1>1
<1>7. cur' # NoEntry /\ jmptbl'[cur].kind = "block" =>
           IsBlock(cur) /\ jmptbl'[cur].size = jmptbl[cur].size /\ jmptbl'[cur].snap = jmptbl[cur].snap
  BY <1>1, CurBlockKept
<1>8. C \in SUBSET Pages
  OBVIOUS
<1> HIDE DEF C
<1> QED BY <1>1, <1>3, <1>5, <1>6, <1>7, <1>8, CurApart DEF CacheInv

LEMMA NextCur ==
  ASSUME CacheInv, CurInv, MaxBlock < PageSize, Tame, [Next]_vars
  PROVE  CurInv'
<1>1. ASSUME NEW a \in Targets, NEW v \in Contents, StartWrite(a, v) PROVE CurInv'
  BY <1>1 DEF StartWrite, CurInv, IsBlock, Fresh, BlockSpan, NoEntry
<1>2. ASSUME NEW a \in Targets, NEW v \in Contents PROVE ~ SharedWrite(a, v)
  BY PageType, CacheAssumption DEF SharedWrite, CacheInv, NeverShared
<1>3. CASE UNCHANGED vars
  BY <1>3 DEF vars, CurInv, IsBlock, Fresh, BlockSpan, NoEntry
<1>4. CASE Next
  BY <1>1, <1>2, <1>4, DispatchCur, WriteCur, CloseCur, AskCur, MoveCur DEF Next
<1> QED BY <1>3, <1>4

(***************************************************************************)
(* The block that runs is a translation of what memory holds, also after   *)
(* its own writes, for a tame guest and blocks shorter than a page: the    *)
(* fault handler leaves a block when a page of it is unprotected.          *)
(***************************************************************************)
THEOREM RunningFreshAlways ==
  ASSUME Tame, MaxBlock < PageSize
  PROVE  Spec => []RunningFresh
<1>1. Init => CurInv
  BY DEF Init, CurInv
<1>2. CacheInv /\ CurInv /\ [Next]_vars => CurInv'
  BY NextCur
<1>3. CurInv => RunningFresh
  BY DEF CurInv, RunningFresh
<1> QED BY <1>1, <1>2, <1>3, CacheInvAlways, PTL DEF Spec
-----------------------------------------------------------------------------
(***************************************************************************)
(* Host protection and what the guest asked for.  Of one page: q what is   *)
(* tracked, h what the host allows, k what the guest asked.  The tracked   *)
(* flags are no wider than the asked ones, and a readable page that is not *)
(* tracked, which protectDB takes for a writable one, is one.              *)
(***************************************************************************)
Within(q, h, k) ==
  /\ h = "rw" => CanWrite(k)
  /\ h = "ro" => k # "0"
  /\ CanWrite(q.perm) => CanWrite(k)
  /\ q.perm # "0" => k # "0"
  /\ q.perm = "0" /\ h \in {"ro", "rw"} => CanWrite(k)

WithinInv ==
  /\ prot \in [Pages -> [perm : AllPerms, tag : Tags]]
  /\ host \in [Pages -> {"unmapped", "noaccess", "ro", "rw"}]
  /\ asked \in [Pages -> [perm : AllPerms, shared : BOOLEAN]]
  /\ \A p \in Pages : Within(prot[p], host[p], asked[p].perm)

\* protectDB of readable pages.
LEMMA ProtectWithin ==
  ASSUME WithinInv, NEW S, \A p \in S \intersect Pages : Readable(p),
         prot' = protectDB_prot(S), host' = protectDB_host(S), asked' = asked
  PROVE  WithinInv'
<1>1. \A p \in Pages : p \in S =>
        /\ ProtectTag(prot[p]) \in [perm : AllPerms, tag : Tags]
        /\ ProtectHost(prot[p], host[p]) \in {"unmapped", "noaccess", "ro", "rw"}
        /\ Within(ProtectTag(prot[p]), ProtectHost(prot[p], host[p]), asked[p].perm)
  BY DEF WithinInv, Within, ProtectTag, ProtectHost, Assumed, Untracked, Tracked, CanWrite, Readable, AllPerms, Tags
<1> QED BY <1>1 DEF WithinInv, protectDB_prot, protectDB_host

LEMMA FillWithin ==
  ASSUME WithinInv, "exec_none" \notin Guest, NEW a \in Entries, Dispatch(a), NEW test \in BOOLEAN, Fill(a, test)
  PROVE  WithinInv'
<1>1. Readable(Page(a)) /\ asked' = asked
  BY DEF Dispatch
<1>2. ASSUME NEW size, CanTranslate(a, size)
      PROVE  \A p \in Span(a, size) \intersect Pages : Readable(p)
  BY <1>1, <1>2 DEF CanTranslate, protectDB_host, Readable
<1>3. ASSUME NEW size, CanTranslate(a, size)
      PROVE  \A p \in ProtectedByFill(a, size) \intersect Pages : Readable(p)
  BY <1>1, <1>2, <1>3 DEF ProtectedByFill
<1>4. ASSUME NEW size \in 1 .. MaxBlock, NEW loop \in Loops, FillBlock(a, size, loop, test)
      PROVE  WithinInv'
  <2>1. PICK U \in {Span(a, size), {}} : /\ prot' = protectDB_prot(ProtectedByFill(a, size) \union U)
                                         /\ host' = protectDB_host(ProtectedByFill(a, size) \union U)
    BY <1>4 DEF FillBlock
  <2>2. \A p \in (ProtectedByFill(a, size) \union U) \intersect Pages : Readable(p)
    BY <1>2, <1>3, <1>4 DEF FillBlock
  <2> QED BY <1>1, <2>1, <2>2, ProtectWithin
<1>5. ASSUME NEW size \in 0 .. MaxBlock, FillAborts(a, size) PROVE WithinInv'
  <2>1. PICK S \in {{Page(a)}, ProtectedByFill(a, size)} :
          /\ prot' = protectDB_prot(S) /\ host' = protectDB_host(S)
          /\ S = {Page(a)} \/ CanTranslate(a, size)
    BY <1>5 DEF FillAborts
  <2>2. \A p \in S \intersect Pages : Readable(p)
    BY <1>1, <1>3, <2>1
  <2> QED BY <1>1, <2>1, <2>2, ProtectWithin
<1>6. ASSUME FillEmpty(a) PROVE WithinInv'
  <2>1. PICK S \in {{Page(a)}, {}} : prot' = protectDB_prot(S) /\ host' = protectDB_host(S)
    BY <1>6 DEF FillEmpty
  <2>2. \A p \in S \intersect Pages : Readable(p)
    BY <1>1
  <2> QED BY <1>1, <2>1, <2>2, ProtectWithin
<1> QED BY <1>4, <1>5, <1>6 DEF Fill

LEMMA DispatchWithin ==
  ASSUME WithinInv, "exec_none" \notin Guest, NEW a \in Entries,
         \/ DispatchHot(a) \/ DispatchCreate(a) \/ DispatchRun(a)
         \/ DispatchValidate(a) \/ DispatchInvalidate(a) \/ JumpTo(a)
  PROVE  WithinInv'
<1>1. CASE DispatchCreate(a) \/ DispatchInvalidate(a)
  BY <1>1, FillWithin DEF DispatchCreate, DispatchInvalidate
<1>2. CASE DispatchHot(a) \/ DispatchRun(a) \/ JumpTo(a)
  BY <1>2 DEF DispatchHot, DispatchRun, JumpTo, Dispatch, WithinInv
<1>3. CASE DispatchValidate(a)
  <2>1. PICK S : S = BlockSpan(a)
    OBVIOUS
  <2>2. /\ \A p \in S : Readable(p)
        /\ prot' = protectDB_prot(S) /\ host' = protectDB_host(S) /\ asked' = asked
    BY <1>3, <2>1 DEF DispatchValidate, Dispatch
  <2> QED BY <2>2, ProtectWithin
<1> QED BY <1>1, <1>2, <1>3

\* unprotectDB and refreshProtection go back to the tracked flags.
LEMMA FaultWithin ==
  ASSUME WithinInv, FaultProtected \/ FaultRefresh
  PROVE  WithinInv'
<1>1. PICK w : w = WPage
  OBVIOUS
<1>2. CASE FaultProtected
  <2>1. /\ prot' = [prot EXCEPT ![w] = UnprotectTag(prot[w])]
        /\ host' = [host EXCEPT ![w] = UnprotectHost(prot[w], host[w])]
        /\ asked' = asked
    BY <1>1, <1>2 DEF FaultProtected
  <2>2. w \in Pages =>
          /\ UnprotectTag(prot[w]) \in [perm : AllPerms, tag : Tags]
          /\ UnprotectHost(prot[w], host[w]) \in {"unmapped", "noaccess", "ro", "rw"}
          /\ Within(UnprotectTag(prot[w]), UnprotectHost(prot[w], host[w]), asked[w].perm)
    BY DEF WithinInv, Within, UnprotectTag, UnprotectHost, HostOf, Tracked, CanWrite, AllPerms, Tags
  <2> QED BY <2>1, <2>2 DEF WithinInv
<1>3. CASE FaultRefresh
  <2>1. /\ prot' = prot /\ asked' = asked /\ prot[w].perm # "0"
        /\ host' = [host EXCEPT ![w] = HostOf(prot[w].perm)]
    BY <1>1, <1>3 DEF FaultRefresh, GlitchFault
  <2>2. w \in Pages =>
          /\ HostOf(prot[w].perm) \in {"unmapped", "noaccess", "ro", "rw"}
          /\ Within(prot[w], HostOf(prot[w].perm), asked[w].perm)
    BY <2>1 DEF WithinInv, Within, HostOf
  <2> QED BY <2>1, <2>2 DEF WithinInv
<1> QED BY <1>2, <1>3

\* The memory calls that close a range: what is freed is all of it.
LEMMA CloseWithin ==
  ASSUME WithinInv, "cross_free" \notin Guest, NEW r \in Ranges, NEW k, NEW v,
         my_munmap(r, k) \/ my_mprotect_none(r, k) \/ my_mmap_none(r, k, v)
  PROVE  WithinInv'
<1>1. r[1] \in Pages /\ r[2] \in Pages
  BY DEF Ranges
<1>2. k = r[1]
  BY DEF my_munmap, my_mprotect_none, my_mmap_none, FreesTail
<1>3. prot' = [p \in Pages |-> IF p \in r[1] .. r[2] THEN Untracked ELSE prot[p]]
  <2>1. prot' = freeProtection(r, k)
    BY DEF my_munmap, my_mprotect_none, my_mmap_none
  <2>2. \A p \in Pages : (r[1] <= p /\ p <= r[2]) <=> p \in r[1] .. r[2]
    BY <1>1 DEF Pages
  <2> QED BY <1>2, <2>1, <2>2 DEF freeProtection
<1>4. PICK h \in {"unmapped", "noaccess"} :
         host' = [p \in Pages |-> IF p \in r[1] .. r[2] THEN h ELSE host[p]]
  BY DEF my_munmap, my_mprotect_none, my_mmap_none, OnRange
<1>5. \E sh \in [Pages -> BOOLEAN] :
         asked' = [p \in Pages |-> IF p \in r[1] .. r[2] THEN Asked("0", sh[p]) ELSE asked[p]]
  <2>1. CASE my_munmap(r, k) \/ my_mmap_none(r, k, v)
    <3>1. asked' = [p \in Pages |-> IF p \in r[1] .. r[2] THEN Asked("0", [x \in Pages |-> FALSE][p]) ELSE asked[p]]
      BY <2>1 DEF my_munmap, my_mmap_none, OnRange
    <3>2. [x \in Pages |-> FALSE] \in [Pages -> BOOLEAN]
      OBVIOUS
    <3> QED BY <3>1, <3>2
  <2>2. CASE my_mprotect_none(r, k)
    <3>1. asked' = [p \in Pages |-> IF p \in r[1] .. r[2] THEN Asked("0", [x \in Pages |-> asked[x].shared][p]) ELSE asked[p]]
      BY <2>2 DEF my_mprotect_none, AskedPerm
    <3>2. [x \in Pages |-> asked[x].shared] \in [Pages -> BOOLEAN]
      BY DEF WithinInv
    <3> QED BY <3>1, <3>2
  <2> QED BY <2>1, <2>2
<1>6. PICK sh \in [Pages -> BOOLEAN] :
         asked' = [p \in Pages |-> IF p \in r[1] .. r[2] THEN Asked("0", sh[p]) ELSE asked[p]]
  BY <1>5
<1>7. \A b \in BOOLEAN : /\ Asked("0", b) \in [perm : AllPerms, shared : BOOLEAN]
                         /\ Within(Untracked, h, Asked("0", b).perm)
  BY <1>4 DEF Asked, Untracked, Tracked, Within, CanWrite, AllPerms
<1>8. Untracked \in [perm : AllPerms, tag : Tags]
  BY DEF Untracked, Tracked, AllPerms, Tags
<1> QED BY <1>3, <1>4, <1>6, <1>7, <1>8 DEF WithinInv

LEMMA AskWithin ==
  ASSUME WithinInv, NEW r \in Ranges, NEW perm \in Perms, NEW shared \in BOOLEAN, NEW v,
         my_mmap(r, perm, shared, v) \/ my_mprotect(r, perm)
  PROVE  WithinInv'
<1>1. perm \in AllPerms
  BY CacheAssumption
<1>2. CASE my_mmap(r, perm, shared, v)
  <2>1. PICK tag \in Tags : prot' = [p \in Pages |-> IF p \in r[1] .. r[2] THEN Tracked(perm, tag) ELSE prot[p]]
    BY <1>2 DEF my_mmap, OnRange, Tags
  <2>2. /\ host' = [p \in Pages |-> IF p \in r[1] .. r[2] THEN HostOf(perm) ELSE host[p]]
        /\ asked' = [p \in Pages |-> IF p \in r[1] .. r[2] THEN Asked(perm, shared) ELSE asked[p]]
    BY <1>2 DEF my_mmap, OnRange
  <2>3. /\ Tracked(perm, tag) \in [perm : AllPerms, tag : Tags]
        /\ HostOf(perm) \in {"unmapped", "noaccess", "ro", "rw"}
        /\ Asked(perm, shared) \in [perm : AllPerms, shared : BOOLEAN]
        /\ Within(Tracked(perm, tag), HostOf(perm), Asked(perm, shared).perm)
    BY <1>1, <2>1 DEF Tracked, HostOf, Asked, Within, CanWrite
  <2> QED BY <2>1, <2>2, <2>3 DEF WithinInv
<1>3. CASE my_mprotect(r, perm)
  <2>1. /\ perm # "0"
        /\ host' = [p \in Pages |-> IF p \in r[1] .. r[2] THEN UpdateHost(prot[p], perm) ELSE host[p]]
        /\ prot' = [p \in Pages |-> IF p \in r[1] .. r[2] THEN UpdateTag(prot[p], perm) ELSE prot[p]]
        /\ asked' = [p \in Pages |-> IF p \in r[1] .. r[2] THEN Asked(perm, asked[p].shared) ELSE asked[p]]
    BY <1>3 DEF my_mprotect, AskedPerm
  <2>2. \A p \in Pages : /\ UpdateTag(prot[p], perm) \in [perm : AllPerms, tag : Tags]
                         /\ UpdateHost(prot[p], perm) \in {"unmapped", "noaccess", "ro", "rw"}
                         /\ Asked(perm, asked[p].shared) \in [perm : AllPerms, shared : BOOLEAN]
                         /\ Within(UpdateTag(prot[p], perm), UpdateHost(prot[p], perm), Asked(perm, asked[p].shared).perm)
    BY <1>1, <2>1 DEF WithinInv, Within, UpdateTag, UpdateHost, Tracked, HostOf, Asked, CanWrite, Tags
  <2> QED BY <2>1, <2>2 DEF WithinInv
<1> QED BY <1>2, <1>3

\* mremap takes all three along.
LEMMA MoveWithin ==
  ASSUME WithinInv, "cross_free" \notin Guest, NEW p \in Pages, NEW q \in Pages, NEW k, my_mremap(p, q, k)
  PROVE  WithinInv'
<1>1. p # q /\ k = p /\ p \in Nat
  BY DEF my_mremap, MovePage, FreesTail, Pages
<1>2. PICK fp : fp = freeProtection(<<p, p>>, k)
  OBVIOUS
<1>3. fp = [x \in Pages |-> IF x = p THEN Untracked ELSE prot[x]]
  BY <1>1, <1>2 DEF freeProtection, Pages
<1>4. /\ prot' = [fp EXCEPT ![q] = Tracked(prot[p].perm, "-")]
      /\ host' = [host EXCEPT ![p] = "unmapped", ![q] = host[p]]
      /\ asked' = [asked EXCEPT ![p] = Asked("0", FALSE), ![q] = asked[p]]
  BY <1>2 DEF my_mremap
<1>5. /\ Tracked(prot[p].perm, "-") \in [perm : AllPerms, tag : Tags]
      /\ Within(Tracked(prot[p].perm, "-"), host[p], asked[p].perm)
  BY DEF WithinInv, Within, Tracked, Tags
<1>6. /\ Untracked \in [perm : AllPerms, tag : Tags]
      /\ Asked("0", FALSE) \in [perm : AllPerms, shared : BOOLEAN]
      /\ Within(Untracked, "unmapped", Asked("0", FALSE).perm)
  BY DEF Asked, Untracked, Tracked, Within, CanWrite, AllPerms, Tags
<1>7. \A x \in Pages : /\ prot'[x] = IF x = q THEN Tracked(prot[p].perm, "-") ELSE IF x = p THEN Untracked ELSE prot[x]
                       /\ host'[x] = IF x = q THEN host[p] ELSE IF x = p THEN "unmapped" ELSE host[x]
                       /\ asked'[x] = IF x = q THEN asked[p] ELSE IF x = p THEN Asked("0", FALSE) ELSE asked[x]
  BY <1>1, <1>3, <1>4 DEF WithinInv
<1>8. /\ prot' \in [Pages -> [perm : AllPerms, tag : Tags]]
      /\ host' \in [Pages -> {"unmapped", "noaccess", "ro", "rw"}]
      /\ asked' \in [Pages -> [perm : AllPerms, shared : BOOLEAN]]
  BY <1>3, <1>4, <1>5, <1>6 DEF WithinInv
<1>9. \A x \in Pages : Within(prot'[x], host'[x], asked'[x].perm)
  <2> SUFFICES ASSUME NEW x \in Pages PROVE Within(prot'[x], host'[x], asked'[x].perm)
    OBVIOUS
  <2>1. CASE x = q
    BY <1>5, <1>7, <2>1
  <2>2. CASE x # q /\ x = p
    BY <1>6, <1>7, <2>2
  <2>3. CASE x # q /\ x # p
    BY <1>7, <2>3 DEF WithinInv
  <2> QED BY <2>1, <2>2, <2>3
<1> QED BY <1>8, <1>9 DEF WithinInv

LEMMA NextWithin ==
  ASSUME WithinInv, "exec_none" \notin Guest, "cross_free" \notin Guest, [Next]_vars
  PROVE  WithinInv'
<1>1. ASSUME UNCHANGED <<prot, host, asked>> PROVE WithinInv'
  BY <1>1 DEF WithinInv
<1>2. ASSUME NEW a \in Targets, NEW v \in Contents, StartWrite(a, v) \/ SharedWrite(a, v)
      PROVE  UNCHANGED <<prot, host, asked>>
  BY <1>2 DEF StartWrite, SharedWrite
<1>3. DoWrite \/ FaultGlitch \/ GuestSegv => UNCHANGED <<prot, host, asked>>
  BY DEF DoWrite, FaultGlitch, GuestSegv
<1>4. UNCHANGED vars => UNCHANGED <<prot, host, asked>>
  BY DEF vars
<1> QED BY <1>1, <1>2, <1>3, <1>4, DispatchWithin, FaultWithin, CloseWithin, AskWithin, MoveWithin DEF Next

(***************************************************************************)
(* Protecting code and unprotecting it again never opens a page further    *)
(* than the guest asked, whatever the guest maps, moves or writes to, as   *)
(* long as it jumps to no page it closed (protectDB makes RWX of it) and   *)
(* frees no range that rb_unset leaves a first part of.                    *)
(***************************************************************************)
THEOREM HostWithinAskedAlways ==
  ASSUME "exec_none" \notin Guest, "cross_free" \notin Guest
  PROVE  Spec => []HostWithinAsked
<1>1. Init => WithinInv
  BY CacheAssumption DEF Init, WithinInv, Within, Untracked, Tracked, Asked, CanWrite, AllPerms, Tags
<1>2. WithinInv /\ [Next]_vars => WithinInv'
  BY NextWithin
<1>3. WithinInv => HostWithinAsked
  BY DEF WithinInv, Within, HostWithinAsked
<1> QED BY <1>1, <1>2, <1>3, PTL DEF Spec
-----------------------------------------------------------------------------
(***************************************************************************)
(* Shared mappings.  PROT_NEVERCLEAN is set by mmap and looked up by       *)
(* FillBlock for the page the block starts on; TestedInv relates the two.  *)
(* Its types ask nothing of memory's contents and of hashes.               *)
(***************************************************************************)
BlockShape(x) ==
  /\ DOMAIN x = {"kind", "size", "snap", "direct", "always_test"}
  /\ x.size \in 0 .. MaxBlock
  /\ x.direct \in BOOLEAN /\ x.always_test \in BOOLEAN

\* An entry of the jump table, with the tag q and the host protection h of its page.
EntryTested(a, x, tag, h) ==
  /\ x.kind = "block" => /\ x.size > 0 /\ a + x.size - 1 \in Addr /\ h # "unmapped"
                         /\ tag = "N" => x.always_test
  /\ x.direct => x.kind = "block" /\ ~ x.always_test

TestedInv ==
  /\ prot \in [Pages -> [perm : AllPerms, tag : Tags]]
  /\ host \in [Pages -> {"unmapped", "noaccess", "ro", "rw"}]
  /\ asked \in [Pages -> [perm : AllPerms, shared : BOOLEAN]]
  /\ DOMAIN jmptbl = Entries
  /\ \A a \in Entries : BlockShape(jmptbl[a]) /\ EntryTested(a, jmptbl[a], prot[Page(a)].tag, host[Page(a)])
  /\ \A p \in Pages : asked[p].shared => prot[p].tag = "N"

\* No block crosses a page.
OnePage == \A a \in Entries, size \in 1 .. MaxBlock : a + size - 1 \in Addr => Span(a, size) = {Page(a)}

LEMMA EntryPage ==
  ASSUME NEW a \in Entries
  PROVE  a \in Addr /\ a \in Nat /\ Page(a) \in Pages
BY CacheAssumption, PageType

LEMMA ArmNextTested ==
  ASSUME NEW a, NEW tag, NEW h
  PROVE  /\ BlockShape(ArmNext) /\ BlockShape(EmptyBlock)
         /\ EntryTested(a, ArmNext, tag, h) /\ EntryTested(a, EmptyBlock, tag, h)
<1>1. /\ DOMAIN ArmNext = {"kind", "size", "snap", "direct", "always_test"}
      /\ ArmNext.size = 0 /\ ArmNext.direct = FALSE /\ ArmNext.always_test = FALSE /\ ArmNext.kind = "next"
  BY DEF ArmNext
<1>2. /\ DOMAIN EmptyBlock = {"kind", "size", "snap", "direct", "always_test"}
      /\ EmptyBlock.size = 0 /\ EmptyBlock.direct = FALSE /\ EmptyBlock.always_test = FALSE
      /\ EmptyBlock.kind = "empty"
  BY <1>1 DEF EmptyBlock
<1>3. 0 \in 0 .. MaxBlock
  BY CacheAssumption
<1>4. BlockShape(ArmNext) /\ BlockShape(EmptyBlock)
  BY <1>1, <1>2, <1>3 DEF BlockShape
<1>5. EntryTested(a, ArmNext, tag, h) /\ EntryTested(a, EmptyBlock, tag, h)
  BY <1>1, <1>2 DEF EntryTested
<1> QED BY <1>4, <1>5

\* Changing direct keeps the shape.
LEMMA DirectShape ==
  ASSUME NEW x, BlockShape(x), NEW d \in BOOLEAN
  PROVE  LET y == [x EXCEPT !.direct = d]
         IN  BlockShape(y) /\ y.kind = x.kind /\ y.size = x.size /\ y.always_test = x.always_test /\ y.direct = d
BY DEF BlockShape

\* Cleaning a range leaves each entry what it was, not direct, or arm_next.
LEMMA CleanTested ==
  ASSUME TestedInv, NEW lo, NEW hi, jmptbl' \in {jmptbl, FreeRange(lo, hi), MarkRange(lo, hi)},
         NEW a \in Entries, NEW tag, NEW h, jmptbl'[a].kind = "block" => EntryTested(a, jmptbl[a], tag, h)
  PROVE  BlockShape(jmptbl'[a]) /\ EntryTested(a, jmptbl'[a], tag, h)
<1>1. PICK x : x = jmptbl[a]
  OBVIOUS
<1>2. BlockShape(x) /\ (x.direct => x.kind = "block")
  BY <1>1 DEF TestedInv, EntryTested
<1>3. \/ jmptbl'[a] = x
      \/ jmptbl'[a] = ArmNext
      \/ jmptbl'[a] = [x EXCEPT !.direct = FALSE]
  BY <1>1 DEF FreeRange, MarkRange
<1>4. CASE jmptbl'[a] = x
  BY <1>1, <1>2, <1>4 DEF EntryTested
<1>5. CASE jmptbl'[a] = ArmNext
  BY <1>5, ArmNextTested
<1>6. CASE jmptbl'[a] = [x EXCEPT !.direct = FALSE]
  <2>1. PICK y : y = [x EXCEPT !.direct = FALSE]
    OBVIOUS
  <2>2. BlockShape(y) /\ y.kind = x.kind /\ y.size = x.size /\ y.always_test = x.always_test /\ y.direct = FALSE
    BY <1>2, <2>1, DirectShape
  <2> QED BY <1>1, <1>6, <2>1, <2>2 DEF EntryTested
<1> QED BY <1>3, <1>4, <1>5, <1>6

\* cleanDBFromAddressRange frees every block that starts on a page of the range.
LEMMA FreeAll ==
  ASSUME TestedInv, NEW lo \in Pages, NEW hi \in Pages, NEW a \in Entries, Page(a) \in lo .. hi
  PROVE  FreeRange(lo, hi)[a].kind # "block"
<1> SUFFICES ASSUME jmptbl[a].kind = "block" PROVE Hit(a, lo, hi)
  BY DEF FreeRange, ArmNext
<1>1. a \in Nat /\ Page(a) \in Nat /\ lo \in Nat /\ hi \in Nat /\ lo <= Page(a) /\ Page(a) + 1 <= hi + 1
      /\ jmptbl[a].size \in Nat /\ jmptbl[a].size > 0
  BY EntryPage, CacheAssumption DEF Pages, TestedInv, EntryTested, BlockShape
<1>2. PageStart(Page(a)) <= a /\ a < PageStart(Page(a) + 1)
  BY <1>1, PageBounds
<1>3. /\ PageStart(lo) \in Nat /\ PageStart(Page(a)) \in Nat /\ PageStart(lo) <= PageStart(Page(a))
  BY <1>1, PageStartMono
<1>4. /\ PageStart(Page(a) + 1) \in Nat /\ PageStart(hi + 1) \in Nat /\ PageStart(Page(a) + 1) <= PageStart(hi + 1)
  BY <1>1, PageStartMono
<1> QED BY <1>1, <1>2, <1>3, <1>4 DEF Hit, Found, RangeEnd

\* protectDB leaves PROT_NEVERCLEAN where it is and sets it nowhere.
LEMMA ProtectTested ==
  ASSUME TestedInv, NEW S
  PROVE  /\ protectDB_prot(S) \in [Pages -> [perm : AllPerms, tag : Tags]]
         /\ protectDB_host(S) \in [Pages -> {"unmapped", "noaccess", "ro", "rw"}]
         /\ \A p \in Pages : /\ protectDB_prot(S)[p].tag = "N" <=> prot[p].tag = "N"
                             /\ protectDB_host(S)[p] = "unmapped" <=> host[p] = "unmapped"
<1>1. \A p \in Pages :
        /\ ProtectTag(prot[p]) \in [perm : AllPerms, tag : Tags]
        /\ ProtectHost(prot[p], host[p]) \in {"unmapped", "noaccess", "ro", "rw"}
        /\ ProtectTag(prot[p]).tag = "N" <=> prot[p].tag = "N"
        /\ ProtectHost(prot[p], host[p]) = "unmapped" <=> host[p] = "unmapped"
  BY DEF TestedInv, ProtectTag, ProtectHost, Assumed, Untracked, Tracked, CanWrite, AllPerms, Tags
<1> QED BY <1>1 DEF TestedInv, protectDB_prot, protectDB_host

\* A step that protects pages and gives at most the entry a a new value.
LEMMA FillTested ==
  ASSUME TestedInv, NEW a \in Entries, NEW S, NEW x,
         prot' = protectDB_prot(S), host' = protectDB_host(S), asked' = asked,
         jmptbl' = [jmptbl EXCEPT ![a] = x],
         BlockShape(x), EntryTested(a, x, prot[Page(a)].tag, host[Page(a)])
  PROVE  TestedInv'
<1>1. /\ prot' \in [Pages -> [perm : AllPerms, tag : Tags]]
      /\ host' \in [Pages -> {"unmapped", "noaccess", "ro", "rw"}]
      /\ \A p \in Pages : /\ prot'[p].tag = "N" <=> prot[p].tag = "N"
                          /\ host'[p] = "unmapped" <=> host[p] = "unmapped"
  BY ProtectTested
<1>2. DOMAIN jmptbl' = Entries /\ jmptbl'[a] = x /\ \A b \in Entries \ {a} : jmptbl'[b] = jmptbl[b]
  BY DEF TestedInv
<1>3. \A b \in Entries : BlockShape(jmptbl'[b]) /\ EntryTested(b, jmptbl'[b], prot[Page(b)].tag, host[Page(b)])
  BY <1>2 DEF TestedInv
<1>4. \A b \in Entries : EntryTested(b, jmptbl'[b], prot'[Page(b)].tag, host'[Page(b)])
  BY <1>1, <1>3, EntryPage DEF EntryTested
<1>5. \A p \in Pages : asked'[p].shared => prot'[p].tag = "N"
  BY <1>1 DEF TestedInv
<1> QED BY <1>1, <1>2, <1>3, <1>4, <1>5 DEF TestedInv

LEMMA FillBlockTested ==
  ASSUME TestedInv, NEW a \in Entries, Dispatch(a), NEW test \in BOOLEAN,
         NEW size \in 1 .. MaxBlock, NEW loop \in Loops, FillBlock(a, size, loop, test)
  PROVE  TestedInv'
<1>1. PICK never \in BOOLEAN : never = (protectDB_prot(ProtectedByFill(a, size))[Page(a)].tag = "N")
  OBVIOUS
<1>2. PICK S : prot' = protectDB_prot(S) /\ host' = protectDB_host(S)
  BY DEF FillBlock
<1>3. PICK x : x = jmptbl'[a]
  OBVIOUS
<1>4. /\ DOMAIN x = {"kind", "size", "snap", "direct", "always_test"}
      /\ x.kind = "block" /\ x.size = size /\ x.always_test = (loop \/ never)
      /\ x.direct \in BOOLEAN /\ (x.direct => ~ loop /\ ~ never)
      /\ jmptbl' = [jmptbl EXCEPT ![a] = x]
  BY <1>1, <1>3 DEF FillBlock, TestedInv
<1>5. never <=> prot[Page(a)].tag = "N"
  BY <1>1, EntryPage, ProtectTested
<1>6. host[Page(a)] # "unmapped" /\ a + size - 1 \in Addr /\ loop \in BOOLEAN
  <2>1. a + size - 1 \in Addr /\ loop \in BOOLEAN
    BY CacheAssumption DEF FillBlock, CanTranslate
  <2>2. Page(a) \in Span(a, size)
    BY <2>1, EntryPage, SpanType
  <2>3. protectDB_host({Page(a)})[Page(a)] # "unmapped"
    BY <2>2 DEF FillBlock, CanTranslate
  <2> QED BY <2>1, <2>3, EntryPage, ProtectTested
<1>7. BlockShape(x)
  BY <1>4, <1>6 DEF BlockShape
<1>8. EntryTested(a, x, prot[Page(a)].tag, host[Page(a)])
  BY <1>4, <1>5, <1>6 DEF EntryTested
<1>9. asked' = asked
  BY DEF Dispatch
<1> QED BY <1>2, <1>4, <1>7, <1>8, <1>9, FillTested

LEMMA DispatchTested ==
  ASSUME TestedInv, NEW a \in Entries,
         \/ DispatchHot(a) \/ DispatchCreate(a) \/ DispatchRun(a)
         \/ DispatchValidate(a) \/ DispatchInvalidate(a) \/ JumpTo(a)
  PROVE  TestedInv'
<1>1. CASE DispatchHot(a) \/ DispatchRun(a) \/ JumpTo(a)
  BY <1>1 DEF DispatchHot, DispatchRun, JumpTo, Dispatch, TestedInv
<1>2. ASSUME Dispatch(a), NEW test \in BOOLEAN, Fill(a, test) PROVE TestedInv'
  <2>1. ASSUME NEW size \in 0 .. MaxBlock, FillAborts(a, size) PROVE TestedInv'
    <3>1. PICK S : prot' = protectDB_prot(S) /\ host' = protectDB_host(S)
      BY <2>1 DEF FillAborts
    <3>2. jmptbl' = [jmptbl EXCEPT ![a] = ArmNext] /\ asked' = asked
      BY <1>2, <2>1 DEF FillAborts, Dispatch
    <3> QED BY <3>1, <3>2, FillTested, ArmNextTested
  <2>2. ASSUME FillEmpty(a) PROVE TestedInv'
    <3>1. PICK S : prot' = protectDB_prot(S) /\ host' = protectDB_host(S)
      BY <2>2 DEF FillEmpty
    <3>2. jmptbl' = [jmptbl EXCEPT ![a] = EmptyBlock] /\ asked' = asked
      BY <1>2, <2>2 DEF FillEmpty, Dispatch
    <3> QED BY <3>1, <3>2, FillTested, ArmNextTested
  <2> QED BY <1>2, <2>1, <2>2, FillBlockTested DEF Fill
<1>3. CASE DispatchValidate(a)
  <2>1. PICK S : S = BlockSpan(a)
    OBVIOUS
  <2>2. PICK d \in BOOLEAN : d = (isprotectedDB(prot', S) /\ ~ jmptbl[a].always_test)
    OBVIOUS
  <2>3. PICK x : x = [jmptbl[a] EXCEPT !.direct = d]
    OBVIOUS
  <2>4. prot' = protectDB_prot(S) /\ host' = protectDB_host(S) /\ asked' = asked /\ jmptbl[a].kind = "block"
    BY <1>3, <2>1 DEF DispatchValidate, Dispatch, NeedTest, IsBlock
  <2>5. jmptbl' = [jmptbl EXCEPT ![a] = x]
    BY <1>3, <2>1, <2>2, <2>3 DEF DispatchValidate
  <2>6. BlockShape(jmptbl[a]) /\ EntryTested(a, jmptbl[a], prot[Page(a)].tag, host[Page(a)])
    BY DEF TestedInv
  <2>7. /\ BlockShape(x) /\ x.kind = "block" /\ x.size = jmptbl[a].size
        /\ x.always_test = jmptbl[a].always_test /\ x.direct = d
    BY <2>3, <2>4, <2>6, DirectShape
  <2>8. EntryTested(a, x, prot[Page(a)].tag, host[Page(a)])
    BY <2>2, <2>4, <2>6, <2>7 DEF EntryTested
  <2> QED BY <2>4, <2>5, <2>7, <2>8, FillTested
<1> QED BY <1>1, <1>2, <1>3 DEF DispatchCreate, DispatchInvalidate

\* A fault: unprotectDB leaves PROT_NEVERCLEAN alone.
LEMMA FaultTested ==
  ASSUME TestedInv, FaultProtected \/ FaultGlitch \/ FaultRefresh \/ GuestSegv
  PROVE  TestedInv'
<1>1. PICK w : w = WPage
  OBVIOUS
<1>2. /\ asked' = asked /\ jmptbl' \in {jmptbl, FreeRange(w, w), MarkRange(w, w)}
      /\ prot' \in {prot, [prot EXCEPT ![w] = UnprotectTag(prot[w])]}
      /\ host' \in {host, [host EXCEPT ![w] = UnprotectHost(prot[w], host[w])],
                    [host EXCEPT ![w] = HostOf(prot[w].perm)]}
      /\ host[w] # "unmapped" \/ host' = host
  BY <1>1 DEF FaultProtected, FaultGlitch, FaultRefresh, GuestSegv, GlitchFault, AccessError
<1>3. w \in Pages =>
        /\ UnprotectTag(prot[w]) \in [perm : AllPerms, tag : Tags]
        /\ UnprotectTag(prot[w]).tag = "N" <=> prot[w].tag = "N"
        /\ HostOf(prot[w].perm) \in {"noaccess", "ro", "rw"}
        /\ UnprotectHost(prot[w], host[w]) \in {HostOf(prot[w].perm), host[w]}
  BY DEF TestedInv, UnprotectTag, UnprotectHost, HostOf, Tracked, Tags
<1>4. /\ prot' \in [Pages -> [perm : AllPerms, tag : Tags]]
      /\ host' \in [Pages -> {"unmapped", "noaccess", "ro", "rw"}]
      /\ \A p \in Pages : /\ prot'[p].tag = "N" <=> prot[p].tag = "N"
                          /\ host'[p] = "unmapped" <=> host[p] = "unmapped"
  <2>1. /\ prot' \in [Pages -> [perm : AllPerms, tag : Tags]]
        /\ \A p \in Pages : prot'[p].tag = "N" <=> prot[p].tag = "N"
    <3>1. CASE prot' = prot
      BY <3>1 DEF TestedInv
    <3>2. CASE prot' = [prot EXCEPT ![w] = UnprotectTag(prot[w])]
      BY <1>3, <3>2 DEF TestedInv
    <3> QED BY <1>2, <3>1, <3>2
  <2>2. CASE host' = host
    BY <2>1, <2>2 DEF TestedInv
  <2>3. CASE host' # host
    <3>1. PICK h \in {UnprotectHost(prot[w], host[w]), HostOf(prot[w].perm)} : host' = [host EXCEPT ![w] = h]
      BY <1>2, <2>3
    <3>2. host[w] # "unmapped" /\ (w \in Pages => h \in {"noaccess", "ro", "rw"})
      BY <1>2, <1>3, <2>3, <3>1 DEF TestedInv
    <3> QED BY <2>1, <3>1, <3>2 DEF TestedInv
  <2> QED BY <2>2, <2>3
<1>5. \A a \in Entries : EntryTested(a, jmptbl[a], prot'[Page(a)].tag, host'[Page(a)])
  BY <1>4, EntryPage DEF TestedInv, EntryTested
<1>6. DOMAIN jmptbl' = Entries
  BY <1>2 DEF TestedInv, FreeRange, MarkRange
<1>7. \A a \in Entries : BlockShape(jmptbl'[a]) /\ EntryTested(a, jmptbl'[a], prot'[Page(a)].tag, host'[Page(a)])
  <2> SUFFICES ASSUME NEW a \in Entries
               PROVE  BlockShape(jmptbl'[a]) /\ EntryTested(a, jmptbl'[a], prot'[Page(a)].tag, host'[Page(a)])
    OBVIOUS
  <2>1. PICK tag, h : tag = prot'[Page(a)].tag /\ h = host'[Page(a)]
    OBVIOUS
  <2>2. jmptbl'[a].kind = "block" => EntryTested(a, jmptbl[a], tag, h)
    BY <1>5, <2>1
  <2>3. BlockShape(jmptbl'[a]) /\ EntryTested(a, jmptbl'[a], tag, h)
    BY <1>2, <2>2, CleanTested
  <2> QED BY <2>1, <2>3
<1>8. \A p \in Pages : asked'[p].shared => prot'[p].tag = "N"
  BY <1>2, <1>4 DEF TestedInv
<1> QED BY <1>2, <1>4, <1>6, <1>7, <1>8 DEF TestedInv

\* A memory call: outside the range nothing changes, inside a block is gone or was there before.
LEMMA RangeTested ==
  ASSUME TestedInv, NEW r \in Ranges, jmptbl' \in {jmptbl, FreeRange(r[1], r[2]), MarkRange(r[1], r[2])},
         prot' \in [Pages -> [perm : AllPerms, tag : Tags]],
         host' \in [Pages -> {"unmapped", "noaccess", "ro", "rw"}],
         asked' \in [Pages -> [perm : AllPerms, shared : BOOLEAN]],
         \A p \in Pages \ (r[1] .. r[2]) : prot'[p] = prot[p] /\ host'[p] = host[p] /\ asked'[p] = asked[p],
         \A p \in Pages : p \in r[1] .. r[2] => (asked'[p].shared => prot'[p].tag = "N"),
         \A a \in Entries : Page(a) \in r[1] .. r[2] /\ jmptbl'[a].kind = "block" =>
            EntryTested(a, jmptbl[a], prot'[Page(a)].tag, host'[Page(a)])
  PROVE  TestedInv'
<1>1. \A a \in Entries : jmptbl'[a].kind = "block" => EntryTested(a, jmptbl[a], prot'[Page(a)].tag, host'[Page(a)])
  BY EntryPage DEF TestedInv
<1>2. \A a \in Entries : BlockShape(jmptbl'[a]) /\ EntryTested(a, jmptbl'[a], prot'[Page(a)].tag, host'[Page(a)])
  <2> SUFFICES ASSUME NEW a \in Entries
               PROVE  BlockShape(jmptbl'[a]) /\ EntryTested(a, jmptbl'[a], prot'[Page(a)].tag, host'[Page(a)])
    OBVIOUS
  <2>1. PICK tag, h : tag = prot'[Page(a)].tag /\ h = host'[Page(a)]
    OBVIOUS
  <2>2. jmptbl'[a].kind = "block" => EntryTested(a, jmptbl[a], tag, h)
    BY <1>1, <2>1
  <2>3. BlockShape(jmptbl'[a]) /\ EntryTested(a, jmptbl'[a], tag, h)
    BY <2>2, CleanTested
  <2> QED BY <2>1, <2>3
<1>3. DOMAIN jmptbl' = Entries
  BY DEF TestedInv, FreeRange, MarkRange
<1>4. \A p \in Pages : asked'[p].shared => prot'[p].tag = "N"
  BY DEF TestedInv
<1> QED BY <1>2, <1>3, <1>4 DEF TestedInv

LEMMA UnmapTested ==
  ASSUME TestedInv, NEW r \in Ranges, NEW k, my_munmap(r, k)
  PROVE  TestedInv'
<1>1. r[1] \in Pages /\ r[2] \in Pages /\ k \in r[1] .. r[2]
  BY DEF Ranges, my_munmap, FreesTail, LeftSet
<1>2. /\ jmptbl' = FreeRange(r[1], r[2]) /\ prot' = freeProtection(r, k)
      /\ host' = OnRange(host, r, "unmapped") /\ asked' = OnRange(asked, r, Asked("0", FALSE))
  BY DEF my_munmap
<1>3. /\ Untracked \in [perm : AllPerms, tag : Tags] /\ Asked("0", FALSE) \in [perm : AllPerms, shared : BOOLEAN]
      /\ Asked("0", FALSE).shared = FALSE
  BY DEF Untracked, Tracked, Asked, AllPerms, Tags
<1>4. \A p \in Pages \ (r[1] .. r[2]) : ~ (k <= p /\ p <= r[2])
  BY <1>1 DEF Pages
<1>5. /\ prot' \in [Pages -> [perm : AllPerms, tag : Tags]]
      /\ host' \in [Pages -> {"unmapped", "noaccess", "ro", "rw"}]
      /\ asked' \in [Pages -> [perm : AllPerms, shared : BOOLEAN]]
  BY <1>2, <1>3 DEF TestedInv, freeProtection, OnRange
<1>6. \A p \in Pages \ (r[1] .. r[2]) : prot'[p] = prot[p] /\ host'[p] = host[p] /\ asked'[p] = asked[p]
  BY <1>2, <1>4 DEF freeProtection, OnRange
<1>7. \A p \in Pages : p \in r[1] .. r[2] => ~ asked'[p].shared
  BY <1>2, <1>3 DEF OnRange
<1>8. \A a \in Entries : Page(a) \in r[1] .. r[2] => jmptbl'[a].kind # "block"
  BY <1>1, <1>2, FreeAll
<1> QED BY <1>2, <1>5, <1>6, <1>7, <1>8, RangeTested

LEMMA AskTested ==
  ASSUME TestedInv, "over" \notin Guest, NEW r \in Ranges, NEW perm \in Perms, NEW shared \in BOOLEAN, NEW v,
         my_mmap(r, perm, shared, v) \/ my_mprotect(r, perm)
  PROVE  TestedInv'
<1>1. perm \in AllPerms /\ jmptbl' \in {jmptbl, FreeRange(r[1], r[2]), MarkRange(r[1], r[2])}
      /\ HostOf(perm) \in {"noaccess", "ro", "rw"}
  BY CacheAssumption DEF my_mmap, my_mprotect, HostOf
<1>2. CASE my_mmap(r, perm, shared, v)
  <2>1. /\ host' = OnRange(host, r, HostOf(perm)) /\ asked' = OnRange(asked, r, Asked(perm, shared))
        /\ prot' = OnRange(prot, r, Tracked(perm, IF shared THEN "N" ELSE "-"))
        /\ \A p \in r[1] .. r[2] : host[p] = "unmapped"
    BY <1>2 DEF my_mmap, Maps
  <2>2. /\ Tracked(perm, IF shared THEN "N" ELSE "-") \in [perm : AllPerms, tag : Tags]
        /\ Tracked(perm, IF shared THEN "N" ELSE "-").tag = IF shared THEN "N" ELSE "-"
        /\ Asked(perm, shared) \in [perm : AllPerms, shared : BOOLEAN] /\ Asked(perm, shared).shared = shared
    BY <1>1 DEF Tracked, Asked, Tags
  <2>3. /\ prot' \in [Pages -> [perm : AllPerms, tag : Tags]]
        /\ host' \in [Pages -> {"unmapped", "noaccess", "ro", "rw"}]
        /\ asked' \in [Pages -> [perm : AllPerms, shared : BOOLEAN]]
    BY <1>1, <2>1, <2>2 DEF TestedInv, OnRange
  <2>4. \A p \in Pages \ (r[1] .. r[2]) : prot'[p] = prot[p] /\ host'[p] = host[p] /\ asked'[p] = asked[p]
    BY <2>1 DEF OnRange
  <2>5. \A p \in Pages : p \in r[1] .. r[2] => (asked'[p].shared => prot'[p].tag = "N")
    BY <2>1, <2>2 DEF OnRange
  <2>6. \A a \in Entries : Page(a) \in r[1] .. r[2] =>
           jmptbl[a].kind # "block" /\ EntryTested(a, jmptbl[a], prot'[Page(a)].tag, host'[Page(a)])
    BY <2>1 DEF TestedInv, EntryTested
  <2> QED BY <1>1, <2>3, <2>4, <2>5, <2>6, RangeTested
<1>3. CASE my_mprotect(r, perm)
  <2>1. /\ host' = [p \in Pages |-> IF p \in r[1] .. r[2] THEN UpdateHost(prot[p], perm) ELSE host[p]]
        /\ prot' = [p \in Pages |-> IF p \in r[1] .. r[2] THEN UpdateTag(prot[p], perm) ELSE prot[p]]
        /\ asked' = [p \in Pages |-> IF p \in r[1] .. r[2] THEN Asked(perm, asked[p].shared) ELSE asked[p]]
    BY <1>3 DEF my_mprotect, AskedPerm
  <2>2. \A p \in Pages : /\ UpdateTag(prot[p], perm) \in [perm : AllPerms, tag : Tags]
                         /\ UpdateTag(prot[p], perm).tag = "N" <=> prot[p].tag = "N"
                         /\ UpdateHost(prot[p], perm) \in {"noaccess", "ro", "rw"}
                         /\ Asked(perm, asked[p].shared) \in [perm : AllPerms, shared : BOOLEAN]
                         /\ Asked(perm, asked[p].shared).shared = asked[p].shared
    BY <1>1 DEF TestedInv, UpdateTag, UpdateHost, Tracked, Asked, Tags
  <2>3. /\ prot' \in [Pages -> [perm : AllPerms, tag : Tags]]
        /\ host' \in [Pages -> {"unmapped", "noaccess", "ro", "rw"}]
        /\ asked' \in [Pages -> [perm : AllPerms, shared : BOOLEAN]]
    BY <2>1, <2>2 DEF TestedInv
  <2>4. \A p \in Pages \ (r[1] .. r[2]) : prot'[p] = prot[p] /\ host'[p] = host[p] /\ asked'[p] = asked[p]
    BY <2>1
  <2>5. \A p \in Pages : p \in r[1] .. r[2] =>
           /\ prot'[p].tag = "N" <=> prot[p].tag = "N"
           /\ host'[p] # "unmapped" /\ asked'[p].shared = asked[p].shared
    BY <2>1, <2>2
  <2>6. \A p \in Pages : p \in r[1] .. r[2] => (asked'[p].shared => prot'[p].tag = "N")
    BY <2>5 DEF TestedInv
  <2>7. \A a \in Entries : Page(a) \in r[1] .. r[2] =>
           EntryTested(a, jmptbl[a], prot'[Page(a)].tag, host'[Page(a)])
    BY <2>5, EntryPage DEF TestedInv, EntryTested
  <2> QED BY <1>1, <2>3, <2>4, <2>6, <2>7, RangeTested
<1> QED BY <1>2, <1>3

LEMMA NextTested ==
  ASSUME TestedInv, Guest \intersect {"over", "move"} = {}, "0" \notin Perms, [Next]_vars
  PROVE  TestedInv'
<1>1. ASSUME UNCHANGED <<prot, host, asked, jmptbl>> PROVE TestedInv'
  BY <1>1 DEF TestedInv
<1>2. ASSUME NEW a \in Targets, NEW v \in Contents, StartWrite(a, v) \/ SharedWrite(a, v)
      PROVE  UNCHANGED <<prot, host, asked, jmptbl>>
  BY <1>2 DEF StartWrite, SharedWrite
<1>3. DoWrite => UNCHANGED <<prot, host, asked, jmptbl>>
  BY DEF DoWrite
<1>4. UNCHANGED vars => UNCHANGED <<prot, host, asked, jmptbl>>
  BY DEF vars
<1>5. \A r, k, v : ~ my_mprotect_none(r, k) /\ ~ my_mmap_none(r, k, v)
  BY DEF my_mprotect_none, my_mmap_none
<1>6. \A p, q, k : ~ my_mremap(p, q, k)
  BY DEF my_mremap
<1> QED BY <1>1, <1>2, <1>3, <1>4, <1>5, <1>6, DispatchTested, FaultTested, UnmapTested, AskTested DEF Next

(***************************************************************************)
(* A block in a shared mapping is tested every time it is reached: for a   *)
(* guest that may map shared files, write to read-only pages and free      *)
(* across intervals, but closes no page, maps over none and moves none     *)
(* (each loses the flag or the block), and for blocks that cross no page   *)
(* (the flag of later pages is not looked at).                             *)
(***************************************************************************)
THEOREM SharedTestedAlways ==
  ASSUME Guest \intersect {"over", "move"} = {}, "0" \notin Perms, OnePage
  PROVE  Spec => []SharedTested
<1>1. Init => TestedInv
  <2> SUFFICES ASSUME Init PROVE TestedInv
    OBVIOUS
  <2>1. /\ Untracked \in [perm : AllPerms, tag : Tags]
        /\ \A perm \in AllPerms : /\ Asked(perm, FALSE) \in [perm : AllPerms, shared : BOOLEAN]
                                  /\ Asked(perm, FALSE).shared = FALSE
    BY DEF Untracked, Tracked, Asked, AllPerms, Tags
  <2>2. "RW" \in AllPerms /\ "0" \in AllPerms
    BY DEF AllPerms
  <2> QED BY <2>1, <2>2, ArmNextTested DEF Init, TestedInv
<1>2. TestedInv /\ [Next]_vars => TestedInv'
  BY NextTested
<1>3. TestedInv => SharedTested
  <2> SUFFICES ASSUME TestedInv, NEW a \in Entries, jmptbl[a].direct PROVE \A p \in BlockSpan(a) : ~ asked[p].shared
    BY DEF SharedTested
  <2>1. /\ jmptbl[a].size \in 1 .. MaxBlock /\ a + jmptbl[a].size - 1 \in Addr
        /\ prot[Page(a)].tag # "N"
    BY CacheAssumption DEF TestedInv, EntryTested, BlockShape
  <2>2. BlockSpan(a) = {Page(a)}
    BY <2>1 DEF OnePage, BlockSpan
  <2> QED BY <2>1, <2>2, EntryPage DEF TestedInv
<1> QED BY <1>1, <1>2, <1>3, PTL DEF Spec
=============================================================================
