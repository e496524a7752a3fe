------------------------- MODULE DynaFlagsRunProofs -------------------------
(***************************************************************************)
(* What a block does to the flags when it runs, for blocks of any length:  *)
(* where the instructions and the jumps are tame, every flag that is read  *)
(* is there and every flag that is left can be recovered.                  *)
(***************************************************************************)
EXTENDS DynaFlagsCodeProofs

-----------------------------------------------------------------------------
(***************************************************************************)
(* The layout of a block.                                                  *)
(***************************************************************************)
Kind(x) == Repertoire[x.op].kind

\* A native call is a barrier, and so is what comes just after one.
Barriers(is) ==
  \A j \in DOMAIN is : is[j].barrier <=> Kind(is[j]) = "native" \/ (j > 0 /\ Kind(is[j - 1]) = "native")

\* Instruction i was asked for the flags that are deferred.
Wanted(i) == "PEND" \in insts[i].need_after \/ Turned(op(i), {"PEND"}) \subseteq insts[i].need_after

\* Where control leaves the block the flags are asked for, and fillPredecessors
\* and updateNeed have done their work.
Laid ==
  /\ Barriers(insts)
  /\ phase = "pass0" /\ fwd # <<>> => Kind(insts[fwd[2]]) \in {"jmp", "ret"}
  /\ phase # "pass0" /\ GoesOn(size - 1) => Wanted(size - 1)
  /\ phase \notin {"pass0", "link"} =>
       \A i \in DOMAIN insts : op(i).kind \in {"jcc", "jmp"} /\ insts[i].jmp_insts = NoInst => Wanted(i)
  /\ phase \notin Early =>
       \A i \in DOMAIN insts : insts[i].alive /\ GoesOn(i) /\ i + 1 \in DOMAIN insts => insts[i].has_next
  /\ phase = "need" => ninst = 0
  /\ phase \notin Early \cup {"preds", "need"} => Linked(size) /\ Reached

LEMMA BarriersPrefix ==
  ASSUME NEW is, NEW n \in Nat, DOMAIN is = 0 .. n - 1, Barriers(is), NEW k \in 0 .. n - 1
  PROVE  /\ Barriers(Prefix(is, k + 1)) /\ Prefix(is, k + 1)[k] = is[k]
         /\ DOMAIN Prefix(is, k + 1) = 0 .. k
<1>1. PICK p : p = Prefix(is, k + 1)
  OBVIOUS
<1>2. DOMAIN p = 0 .. k /\ \A j \in 0 .. k : p[j] = is[j]
  BY <1>1 DEF Prefix
<1>3. \A j \in 0 .. k : j \in DOMAIN is /\ (j > 0 => j - 1 \in 0 .. k)
  OBVIOUS
<1> QED BY <1>1, <1>2, <1>3 DEF Barriers

\* The asking does not change what the block is.
LEMMA BarriersNeedPend ==
  ASSUME NEW is, NEW n \in Nat, DOMAIN is = 0 .. n - 1, \A j \in 0 .. n - 1 : NewlyDecoded(is[j], 0 .. n - 1),
         Barriers(is), NEW k \in 0 .. n - 1
  PROVE  /\ Barriers(NeedPend(is, k)) /\ DOMAIN NeedPend(is, k) = 0 .. n - 1
         /\ "PEND" \in NeedPend(is, k)[k].need_after
<1>1. PICK p : p = NeedPend(is, k)
  OBVIOUS
<1>2. PICK a : a = is[k].need_after \cup {"PEND"}
  OBVIOUS
<1>3. /\ DOMAIN p = 0 .. n - 1 /\ \A j \in 0 .. n - 1 : j # k => p[j] = is[j]
      /\ p[k] = [is[k] EXCEPT !.need_after = a]
  BY <1>1, <1>2 DEF NeedPend
<1>4. p[k].op = is[k].op /\ p[k].barrier = is[k].barrier /\ p[k].need_after = a
  <2>1. PICK x : x = is[k]
    OBVIOUS
  <2>2. x \in Inst(0 .. n - 1)
    BY <2>1 DEF NewlyDecoded
  <2> QED BY <1>3, <2>1, <2>2 DEF Inst
<1>5. \A j \in 0 .. n - 1 : Kind(p[j]) = Kind(is[j]) /\ p[j].barrier = is[j].barrier
  BY <1>3, <1>4 DEF Kind
<1>6. \A j \in 0 .. n - 1 : j > 0 => j - 1 \in 0 .. n - 1
  OBVIOUS
<1> QED BY <1>1, <1>2, <1>3, <1>4, <1>5, <1>6 DEF Barriers

LEMMA DecodeLaid ==
  ASSUME BlockInv, Laid, NEW o \in DOMAIN Repertoire, NEW j \in Int, Decode(o, j)
  PROVE  Laid'
<1>1. phase = "pass0" /\ Decoded(insts, size) /\ size \in Nat /\ DOMAIN insts = 0 .. size - 1 /\ Barriers(insts)
  BY Pass0Decoded DEF Decode, Decoded, Laid
<1>2. PICK b, k, g, ok, inst, is, next :
        /\ b = (size > 0 /\ op(size - 1).kind = "native")
        /\ k = Repertoire[o]
        /\ g = Pass0F(k, f)
        /\ ok = (k.kind \notin {"jmp", "ret"})
        /\ inst = [NewInst(o, j, b \/ k.kind = "native")
                    EXCEPT !.has_next = ok, !.f_entry = f, !.f_exit = g]
        /\ is = [n \in 0..size |-> IF n = size THEN inst ELSE insts[n]]
        /\ next = ClosestNext(is, size + 1)
  OBVIOUS
<1>3. \/ \E h : GoOn(is, h) /\ (fwd' = <<>> \/ fwd' = fwd)
      \/ fwd # <<>> /\ EndPass0(Prefix(insts, fwd[2] + 1))
      \/ ~ ok /\ EndPass0(is)
      \/ ~ ok /\ GoOn(is, Unknown) /\ fwd' = <<next, size>>
  BY <1>2 DEF Decode
<1>4. inst.op = o /\ (inst.barrier <=> b \/ k.kind = "native")
  BY <1>2 DEF NewInst
<1>5. /\ DOMAIN is = 0 .. size /\ is[size] = inst /\ size \in 0 .. size
      /\ \A n \in 0 .. size - 1 : is[n] = insts[n] /\ n \in 0 .. size
  BY <1>1, <1>2
<1>6. Barriers(is)
  <2>1. ASSUME NEW n \in 0 .. size
        PROVE  is[n].barrier <=> Kind(is[n]) = "native" \/ (n > 0 /\ Kind(is[n - 1]) = "native")
    <3>1. CASE n = size
      <4>1. n > 0 => n - 1 \in 0 .. size - 1
        BY <1>1, <3>1
      <4>2. b <=> n > 0 /\ Kind(is[n - 1]) = "native"
        BY <1>2, <1>5, <3>1, <4>1 DEF Kind, op
      <4>3. k.kind = "native" <=> Kind(is[n]) = "native"
        BY <1>2, <1>4, <1>5, <3>1 DEF Kind
      <4> QED BY <1>4, <1>5, <3>1, <4>2, <4>3
    <3>2. CASE n # size
      <4>1. n \in 0 .. size - 1 /\ (n > 0 => n - 1 \in 0 .. size - 1)
        BY <1>1, <3>2
      <4> QED BY <1>1, <1>5, <4>1 DEF Barriers
    <3> QED BY <3>1, <3>2
  <2> QED BY <1>5, <2>1 DEF Barriers
<1>7. fwd # <<>> => fwd[2] \in 0 .. size - 1 /\ Kind(insts[fwd[2]]) \in {"jmp", "ret"}
  BY <1>1 DEF BlockInv, Laid
<1>8. ~ ok => Kind(is[size]) \in {"jmp", "ret"}
  BY <1>2, <1>4, <1>5 DEF Kind
<1>9. CASE \E h : GoOn(is, h) /\ (fwd' = <<>> \/ fwd' = fwd)
  <2>1. insts' = is /\ phase' = "pass0"
    BY <1>1, <1>9 DEF GoOn
  <2>2. fwd' # <<>> => Kind(insts'[fwd'[2]]) \in {"jmp", "ret"}
    BY <1>5, <1>7, <1>9, <2>1
  <2> QED BY <1>6, <2>1, <2>2 DEF Laid, Early
<1>10. CASE ~ ok /\ GoOn(is, Unknown) /\ fwd' = <<next, size>>
  <2>1. insts' = is /\ phase' = "pass0" /\ fwd'[2] = size
    BY <1>1, <1>10 DEF GoOn
  <2>2. Kind(insts'[fwd'[2]]) \in {"jmp", "ret"}
    BY <1>8, <1>10, <2>1
  <2> QED BY <1>6, <2>1, <2>2 DEF Laid, Early
<1>11. CASE ~ ok /\ EndPass0(is)
  <2>1. insts' = is /\ phase' = "link"
    BY <1>11 DEF EndPass0
  <2>2. size' = size + 1
    <3>1. PICK n : n = size + 1
      OBVIOUS
    <3>2. n \in Nat /\ DOMAIN insts' = 0 .. n - 1
      BY <1>1, <1>5, <2>1, <3>1
    <3> QED BY <3>1, <3>2, SizeIs DEF size
  <2>3. size' - 1 = size
    BY <1>1, <2>2
  <2>4. ~ GoesOn(size - 1)'
    BY <1>8, <1>11, <2>1, <2>3 DEF GoesOn, op, Kind
  <2> QED BY <1>6, <2>1, <2>4 DEF Laid, Early
<1>12. CASE fwd # <<>> /\ EndPass0(Prefix(insts, fwd[2] + 1))
  <2>1. PICK n : n = fwd[2]
    OBVIOUS
  <2>2. n \in 0 .. size - 1 /\ Kind(insts[n]) \in {"jmp", "ret"} /\ n \in Nat
    BY <1>1, <1>7, <1>12, <2>1
  <2>3. insts' = Prefix(insts, n + 1) /\ phase' = "link"
    BY <1>12, <2>1 DEF EndPass0
  <2>4. Barriers(insts') /\ insts'[n] = insts[n] /\ DOMAIN insts' = 0 .. n
    BY <1>1, <2>2, <2>3, BarriersPrefix
  <2>5. size' = n + 1
    <3>1. PICK m : m = n + 1
      OBVIOUS
    <3>2. m \in Nat /\ DOMAIN insts' = 0 .. m - 1
      BY <2>2, <2>4, <3>1
    <3> QED BY <3>1, <3>2, SizeIs DEF size
  <2>6. ~ GoesOn(size - 1)'
    <3>1. size' - 1 = n
      BY <2>2, <2>5
    <3> QED BY <2>2, <2>4, <3>1 DEF GoesOn, op, Kind
  <2> QED BY <2>3, <2>4, <2>6 DEF Laid, Early
<1> QED BY <1>3, <1>9, <1>10, <1>11, <1>12

LEMMA StopLaid ==
  ASSUME BlockInv, Laid, Stop
  PROVE  Laid'
<1>1. phase = "pass0" /\ Decoded(insts, size) /\ size \in Nat /\ size > 0 /\ DOMAIN insts = 0 .. size - 1 /\ Barriers(insts)
  BY Pass0Decoded DEF Stop, Decoded, Laid
<1>2. fwd # <<>> => fwd[2] \in 0 .. size - 1 /\ Kind(insts[fwd[2]]) \in {"jmp", "ret"}
  BY <1>1 DEF BlockInv, Laid
<1>3. \A i \in 0 .. size - 1 : NewlyDecoded(insts[i], 0 .. size - 1)
  BY <1>1 DEF Decoded
<1>4. CASE fwd = <<>> /\ EndPass0(NeedPend(insts, size - 1))
  <2>1. insts' = NeedPend(insts, size - 1) /\ phase' = "link" /\ size - 1 \in 0 .. size - 1
    BY <1>1, <1>4 DEF EndPass0
  <2>2. Barriers(insts') /\ DOMAIN insts' = 0 .. size - 1 /\ "PEND" \in insts'[size - 1].need_after
    BY <1>1, <1>3, <2>1, BarriersNeedPend
  <2>3. size' = size
    BY <1>1, <2>2, SizeIs DEF size
  <2>4. Wanted(size - 1)'
    BY <2>2, <2>3 DEF Wanted
  <2> QED BY <2>1, <2>2, <2>4 DEF Laid, Early
<1>5. CASE fwd # <<>>
  <2>1. PICK n, p, m : n = fwd[2] /\ p = Prefix(insts, n + 1) /\ m = n + 1
    OBVIOUS
  <2>2. /\ n \in 0 .. size - 1 /\ Kind(insts[n]) \in {"jmp", "ret"} /\ n \in Nat /\ m \in Nat
        /\ 0 .. n = 0 .. m - 1 /\ n \in 0 .. m - 1 /\ m - 1 = n
    BY <1>1, <1>2, <1>5, <2>1
  <2>3. Barriers(p) /\ p[n] = insts[n] /\ DOMAIN p = 0 .. m - 1
    BY <1>1, <2>1, <2>2, BarriersPrefix
  <2>4. Decoded(p, m)
    BY <1>1, <2>1, <2>2, PrefixDecoded
  <2>5. CASE EndPass0(p)
    <3>1. insts' = p /\ phase' = "link"
      BY <2>5 DEF EndPass0
    <3>2. size' = m
      BY <2>2, <2>3, <3>1, SizeIs DEF size
    <3>3. ~ GoesOn(size - 1)'
      BY <2>2, <2>3, <3>1, <3>2 DEF GoesOn, op, Kind
    <3> QED BY <2>3, <3>1, <3>3 DEF Laid, Early
  <2>6. CASE EndPass0(NeedPend(p, n))
    <3>1. insts' = NeedPend(p, n) /\ phase' = "link"
      BY <2>6 DEF EndPass0
    <3>2. \A i \in 0 .. m - 1 : NewlyDecoded(p[i], 0 .. m - 1)
      BY <2>4 DEF Decoded
    <3>3. Barriers(insts') /\ DOMAIN insts' = 0 .. m - 1 /\ "PEND" \in insts'[n].need_after
      BY <2>2, <2>3, <3>1, <3>2, BarriersNeedPend
    <3>4. size' = m
      BY <2>2, <3>3, SizeIs DEF size
    <3>5. Wanted(size - 1)'
      BY <2>2, <3>3, <3>4 DEF Wanted
    <3> QED BY <3>1, <3>3, <3>5 DEF Laid, Early
  <2> QED BY <1>5, <2>1, <2>5, <2>6 DEF Stop
<1> QED BY <1>4, <1>5 DEF Stop

\* A step that leaves the operations and the barriers alone, and takes back nothing
\* that was asked for.
Steady ==
  /\ DOMAIN insts' = DOMAIN insts
  /\ \A i \in DOMAIN insts : /\ insts'[i].op = insts[i].op /\ insts'[i].barrier = insts[i].barrier
                             /\ Wanted(i) => Wanted(i)'

LEMMA SteadyKeeps ==
  ASSUME InstsOK, Laid, Steady
  PROVE  /\ Barriers(insts') /\ size' = size /\ \A i \in DOMAIN insts : op(i)' = op(i)
         /\ phase # "pass0" /\ size > 0 => (GoesOn(size - 1) => Wanted(size - 1))'
<1>1. size' = size /\ DOMAIN insts = 0 .. size - 1 /\ size \in Nat
  BY DEF Steady, size, InstsOK
<1>2. \A i \in DOMAIN insts : op(i)' = op(i) /\ Kind(insts'[i]) = Kind(insts[i]) /\ (i > 0 => i - 1 \in DOMAIN insts)
  BY <1>1 DEF Steady, op, Kind
<1>3. Barriers(insts')
  BY <1>2 DEF Steady, Barriers, Laid
<1>4. phase # "pass0" /\ size > 0 => (GoesOn(size - 1) => Wanted(size - 1))'
  <2> SUFFICES ASSUME phase # "pass0", size > 0 PROVE (GoesOn(size - 1) => Wanted(size - 1))'
    OBVIOUS
  <2>1. size - 1 \in DOMAIN insts
    BY <1>1
  <2>2. PICK k : k = size - 1
    OBVIOUS
  <2>3. k \in DOMAIN insts /\ (GoesOn(k) => Wanted(k))
    BY <2>1, <2>2 DEF Laid
  <2>4. (GoesOn(k) => Wanted(k))'
    BY <1>2, <2>3 DEF Steady, GoesOn
  <2> QED BY <1>1, <2>2, <2>4
<1> QED BY <1>1, <1>2, <1>3, <1>4

LEMMA ResolveLaid ==
  ASSUME BlockInv, Laid, ResolveJumps
  PROVE  Laid'
<1>1. phase = "link" /\ phase' = "alive" /\ InstsOK /\ size > 0
  BY DEF ResolveJumps, BlockInv
<1>2. ASSUME NEW i \in DOMAIN insts
      PROVE  /\ insts'[i].op = insts[i].op /\ insts'[i].barrier = insts[i].barrier
             /\ insts[i].need_after \subseteq insts'[i].need_after
             /\ op(i).kind \in {"jcc", "jmp"} /\ insts'[i].jmp_insts = NoInst => "PEND" \in insts'[i].need_after
  <2>1. PICK x, k, a : /\ x = insts[i] /\ k = JmpInsts(insts, i)
                       /\ a = IF op(i).kind \in {"jcc", "jmp"} /\ k = NoInst
                              THEN insts[i].need_after \cup {"PEND"} ELSE insts[i].need_after
    OBVIOUS
  <2>2. insts'[i] = [x EXCEPT !.jmp_insts = k, !.need_after = a]
    BY <2>1 DEF ResolveJumps
  <2>3. x \in Inst(DOMAIN insts)
    BY <1>1, <2>1 DEF InstsOK
  <2>4. insts'[i].op = x.op /\ insts'[i].barrier = x.barrier /\ insts'[i].need_after = a /\ insts'[i].jmp_insts = k
    BY <2>2, <2>3 DEF Inst
  <2> QED BY <2>1, <2>4
<1>3. DOMAIN insts' = DOMAIN insts
  BY DEF ResolveJumps
<1>4. Steady
  <2>1. \A i \in DOMAIN insts : op(i)' = op(i)
    BY <1>2 DEF op
  <2>2. \A i \in DOMAIN insts : Wanted(i) => Wanted(i)'
    BY <1>2, <2>1 DEF Wanted
  <2> QED BY <1>2, <1>3, <2>2 DEF Steady
<1>5. Barriers(insts') /\ (GoesOn(size - 1) => Wanted(size - 1))' /\ \A i \in DOMAIN insts : op(i)' = op(i)
  BY <1>1, <1>4, SteadyKeeps
<1>6. \A i \in DOMAIN insts' : op(i)'.kind \in {"jcc", "jmp"} /\ insts'[i].jmp_insts = NoInst => Wanted(i)'
  BY <1>2, <1>3, <1>5 DEF Wanted
<1> QED BY <1>1, <1>5, <1>6 DEF Laid, Early

LEMMA MarkLaid ==
  ASSUME BlockInv, Laid, MarkAlive
  PROVE  Laid'
<1>1. phase = "alive" /\ phase' = "preds" /\ InstsOK /\ size > 0 /\ LiveOK
  BY DEF MarkAlive, BlockInv
<1>2. PICK live : live = Alive(insts)
  OBVIOUS
<1>3. ASSUME NEW i \in DOMAIN insts
      PROVE  /\ insts'[i].op = insts[i].op /\ insts'[i].barrier = insts[i].barrier
             /\ insts'[i].need_after = insts[i].need_after /\ insts'[i].jmp_insts = insts[i].jmp_insts
             /\ insts'[i].alive <=> i \in live
             /\ insts'[i].has_next <=> insts[i].has_next /\ (i + 1 \in DOMAIN insts => i + 1 \in live)
  <2>1. PICK x, a, h : /\ x = insts[i] /\ a = (i \in live)
                       /\ h = (insts[i].has_next /\ (i + 1 \in DOMAIN insts => i + 1 \in live))
    OBVIOUS
  <2>2. insts'[i] = [x EXCEPT !.alive = a, !.has_next = h]
    BY <1>2, <2>1, Zenon DEF MarkAlive
  <2>3. x \in Inst(DOMAIN insts)
    BY <1>1, <2>1 DEF InstsOK
  <2>4. insts'[i].op = x.op /\ insts'[i].barrier = x.barrier /\ insts'[i].need_after = x.need_after
        /\ insts'[i].jmp_insts = x.jmp_insts /\ insts'[i].alive = a /\ insts'[i].has_next = h
    BY <2>2, <2>3 DEF Inst
  <2> QED BY <2>1, <2>4
<1>4. DOMAIN insts' = DOMAIN insts
  BY DEF MarkAlive
<1>5. \A i \in DOMAIN insts : op(i)' = op(i)
  BY <1>3 DEF op
<1>6. Steady
  BY <1>3, <1>4, <1>5 DEF Steady, Wanted
<1>7. Barriers(insts') /\ (GoesOn(size - 1) => Wanted(size - 1))'
  BY <1>1, <1>6, SteadyKeeps
<1>8. \A i \in DOMAIN insts' : op(i)'.kind \in {"jcc", "jmp"} /\ insts'[i].jmp_insts = NoInst => Wanted(i)'
  BY <1>1, <1>3, <1>4, <1>5, <1>6 DEF Laid, Steady
<1>9. ASSUME NEW i \in DOMAIN insts, insts'[i].alive, GoesOn(i)', i + 1 \in DOMAIN insts PROVE insts'[i].has_next
  <2>1. insts[i].has_next
    BY <1>1, <1>5, <1>9 DEF LiveOK, Early, GoesOn
  <2>2. insts'[i + 1].alive
    BY <1>1, <1>4, <1>9, MarkBlock DEF BlockInv, LiveOK, Early
  <2> QED BY <1>3, <1>9, <2>1, <2>2
<1> QED BY <1>1, <1>4, <1>7, <1>8, <1>9 DEF Laid, Early

\* And when control flows as before.
LEMMA LaterLaid ==
  ASSUME InstsOK, Laid, Steady, size > 0, phase \notin Early, phase' \notin Early,
         \A i \in DOMAIN insts : /\ insts'[i].jmp_insts = insts[i].jmp_insts
                                 /\ insts'[i].alive = insts[i].alive /\ insts'[i].has_next = insts[i].has_next,
         phase' = "need" => ninst' = 0,
         phase' \notin Early \cup {"preds", "need"} => Linked(size)' /\ Reached'
  PROVE  Laid'
<1>1. /\ Barriers(insts') /\ size' = size /\ (\A i \in DOMAIN insts : op(i)' = op(i))
      /\ (GoesOn(size - 1) => Wanted(size - 1))' /\ DOMAIN insts' = DOMAIN insts
  BY SteadyKeeps DEF Early, Steady
<1>2. \A i \in DOMAIN insts' : op(i)'.kind \in {"jcc", "jmp"} /\ insts'[i].jmp_insts = NoInst => Wanted(i)'
  BY <1>1 DEF Laid, Steady, Early
<1>3. \A i \in DOMAIN insts' : insts'[i].alive /\ GoesOn(i)' /\ i + 1 \in DOMAIN insts' => insts'[i].has_next
  BY <1>1 DEF Laid, GoesOn
<1> QED BY <1>1, <1>2, <1>3 DEF Laid, Early

LEMMA FillLaid ==
  ASSUME BlockInv, Laid, FillPredecessors
  PROVE  Laid'
<1>1. phase = "preds" /\ phase' = "preds" /\ InstsOK /\ size > 0
  BY DEF FillPredecessors, BlockInv
<1>2. ASSUME NEW i \in DOMAIN insts
      PROVE  /\ insts'[i].op = insts[i].op /\ insts'[i].barrier = insts[i].barrier
             /\ insts'[i].need_after = insts[i].need_after /\ insts'[i].jmp_insts = insts[i].jmp_insts
             /\ insts'[i].alive = insts[i].alive /\ insts'[i].has_next = insts[i].has_next
  <2>1. PICK x, p : x = insts[i] /\ p = insts[i].pred \o WithPred(insts, ninst, i)
    OBVIOUS
  <2>2. insts'[i] = [x EXCEPT !.pred = p]
    BY <2>1 DEF FillPredecessors
  <2>3. x \in Inst(DOMAIN insts)
    BY <1>1, <2>1 DEF InstsOK
  <2>4. /\ insts'[i].op = x.op /\ insts'[i].barrier = x.barrier /\ insts'[i].need_after = x.need_after
        /\ insts'[i].jmp_insts = x.jmp_insts /\ insts'[i].alive = x.alive /\ insts'[i].has_next = x.has_next
    BY <2>2, <2>3 DEF Inst
  <2> QED BY <2>1, <2>4
<1>3. DOMAIN insts' = DOMAIN insts
  BY DEF FillPredecessors
<1>4. Steady
  BY <1>2, <1>3 DEF Steady, Wanted, op
<1> QED BY <1>1, <1>2, <1>4, LaterLaid DEF Early

LEMMA SameSteady ==
  ASSUME insts' = insts
  PROVE  Steady
BY DEF Steady, Wanted, op

LEMMA StartLaid ==
  ASSUME BlockInv, Laid, StartNeed
  PROVE  Laid'
<1>1. phase = "preds" /\ phase' = "need" /\ ninst' = 0 /\ insts' = insts /\ InstsOK /\ size > 0
  BY DEF StartNeed, BlockInv
<1> QED BY <1>1, SameSteady, LaterLaid DEF Early

LEMMA UpdateLaid ==
  ASSUME BlockInv, FlowInv, Laid, UpdateNeed, phase' = "need" \/ (phase' = "pass1" /\ Reached')
  PROVE  Laid' /\ ninst' = 0 /\ (phase' = "pass1" => f' = Unknown)
<1>1. phase = "need" /\ ninst' = ninst /\ ninst = 0 /\ NeedOK
  BY DEF UpdateNeed, VisitInst, VisitPred, VisitBefore, Laid, FlowInv
<1>2. InstsOK /\ LiveOK /\ size > 0 /\ phase \notin Early /\ phase' \notin Early /\ Linked(size)
  BY <1>1, TopFrame DEF Early, NeedOK
<1>3. SameFlow /\ Steady
  <2>1. CASE VisitInst
    <3>1. PICK i, n : i = Top.ninst /\ n = NeedOf(op(i), Top.need \cup insts[i].need_after)
      OBVIOUS
    <3>2. i \in DOMAIN insts
      BY <1>1, <3>1, TopFrame
    <3>3. insts' = [insts EXCEPT ![i].need_after = n.after, ![i].gen = n.gen, ![i].need_before = n.before]
      BY <2>1, <3>1 DEF VisitInst
    <3>4. SameFlow /\ (\A m \in DOMAIN insts : m # i => insts'[m] = insts[m]) /\ op(i)' = op(i)
          /\ \A asked : Turned(op(i), asked) \subseteq insts[i].need_after
                      => Turned(op(i), asked) \subseteq insts'[i].need_after
      BY <1>1, <3>1, <3>2, <3>3, VisitChange
    <3>5. "PEND" \in insts[i].need_after => Turned(op(i), {"PEND"}) \subseteq insts'[i].need_after
      <4> SUFFICES ASSUME "PEND" \in insts[i].need_after
                   PROVE  Turned(op(i), {"PEND"}) \subseteq insts'[i].need_after
        OBVIOUS
      <4>1. PICK w : w = Top.need \cup insts[i].need_after
        OBVIOUS
      <4>2. w \in Needs /\ {"PEND"} \subseteq w /\ op(i) \in OpSet
        <5>1. insts[i].need_after \in Needs /\ Top.need \in Needs
          BY <1>1, <1>2, <3>2, TopFrame DEF InstsOK, Inst
        <5> QED BY <1>2, <3>2, <4>1, <5>1, OpType DEF Needs
      <4>3. Turned(op(i), {"PEND"}) \subseteq n.after
        BY <3>1, <4>1, <4>2, NeedOfKeeps
      <4>4. insts'[i].need_after = n.after
        <5>1. PICK x : x = insts[i]
          OBVIOUS
        <5>2. x \in Inst(DOMAIN insts)
          BY <1>2, <3>2, <5>1 DEF InstsOK
        <5>3. insts'[i] = [x EXCEPT !.need_after = n.after, !.gen = n.gen, !.need_before = n.before]
          BY <3>2, <3>3, <5>1
        <5> QED BY <5>2, <5>3 DEF Inst
      <4> QED BY <4>3, <4>4
    <3>6. Wanted(i) => Wanted(i)'
      BY <3>4, <3>5 DEF Wanted
    <3>7. \A m \in DOMAIN insts : m # i => (Wanted(m) => Wanted(m)')
      BY <3>4 DEF Wanted, op
    <3> QED BY <3>4, <3>6, <3>7 DEF Steady, SameFlow
  <2>2. CASE VisitPred \/ VisitBefore
    <3>1. insts' = insts
      BY <2>2 DEF VisitPred, VisitBefore
    <3> QED BY <1>2, <3>1, SameBlock, SameSteady
  <2> QED BY <2>1, <2>2 DEF UpdateNeed
<1>4. Linked(size)' 
  BY <1>2, <1>3, SameFlowKeeps
<1>5. Laid'
  BY <1>1, <1>2, <1>3, <1>4, LaterLaid DEF SameFlow
<1>6. phase' = "pass1" => f' = Unknown
  BY <1>1 DEF UpdateNeed, VisitInst, VisitPred, VisitBefore, Return
<1> QED BY <1>1, <1>5, <1>6

-----------------------------------------------------------------------------
(***************************************************************************)
(* Passes 1 and 2.                                                         *)
(***************************************************************************)
\* What is emitted for an instruction depends on these fields alone.
LEMMA EmitSame ==
  ASSUME NEW i \in DOMAIN insts, insts'[i].op = insts[i].op, insts'[i].need_before = insts[i].need_before,
         insts'[i].need_after = insts[i].need_after, insts'[i].gen = insts[i].gen, insts'[i].pred = insts[i].pred
  PROVE  \A g : EmitInst(i, g)' = EmitInst(i, g)
<1>1. PICK x, y : x = insts[i] /\ y = insts'[i]
  OBVIOUS
<1>2. /\ y.op = x.op /\ y.need_before = x.need_before /\ y.need_after = x.need_after /\ y.gen = x.gen
      /\ y.pred = x.pred
  BY <1>1
<1>3. op(i)' = op(i)
  BY DEF op
<1>4. \A e : SET_DF(e, y) = SET_DF(e, x)
  BY <1>2 DEF SET_DF
<1>5. \A e, o : SETFLAGS(e, y, o) = SETFLAGS(e, x, o)
  BY <1>2 DEF SETFLAGS
<1>6. \A e, o : EmitWrites(e, y, o) = EmitWrites(e, x, o)
  BY <1>2, <1>4 DEF EmitWrites
<1> SUFFICES ASSUME NEW g PROVE EmitInst(i, g)' = EmitInst(i, g)
  OBVIOUS
<1>7. PICK o : o = op(i)
  OBVIOUS
<1> DEFINE before(z) == LET e0    == [f |-> g, ops |-> <<>>]
                            entry == IF z.need_before \ {"PEND"} # {} /\ z.pred = <<>>
                                     THEN READFLAGS(e0, z.need_before \ {"PEND"}) ELSE e0
                        IN  IF o.use = {} THEN entry ELSE Emit(READFLAGS(entry, o.use), <<"read">>)
           set(z, e)  == IF o.state = "UNKNOWN" THEN e ELSE SETFLAGS(e, z, o)
           skip(z, e) == IF o.skips /\ z.gen # {} THEN Emit(e, <<"skip">>) ELSE e
           new(e)     == IF o.state = "UNKNOWN" THEN e ELSE Emit(e, <<"commit">>)
<1>8. EmitInst(i, g) = EmitWrites(new(skip(x, set(x, before(x)))), x, o)
  BY <1>1, <1>7 DEF EmitInst
<1>9. EmitInst(i, g)' = EmitWrites(new(skip(y, set(y, before(y)))), y, o)
  BY <1>1, <1>3, <1>7 DEF EmitInst
<1>10. before(y) = before(x)
  BY <1>2
<1>11. \A e : set(y, e) = set(x, e) /\ skip(y, e) = skip(x, e)
  BY <1>2, <1>5
<1> HIDE DEF before, set, skip, new
<1> QED BY <1>6, <1>8, <1>9, <1>10, <1>11

\* The f an instruction starts from depends on the exit of one predecessor.
LEMMA ResetSame ==
  ASSUME NEW is, NEW js, DOMAIN js = DOMAIN is, NEW i \in DOMAIN is,
         js[i].pred = is[i].pred, js[i].barrier = is[i].barrier
  PROVE  /\ NominalPred(js, i) = NominalPred(is, i)
         /\ (NominalPred(is, i) # NoInst => js[NominalPred(is, i)].f_exit = is[NominalPred(is, i)].f_exit)
              => ResetF(js, i) = ResetF(is, i)
<1>1. NominalPred(js, i) = NominalPred(is, i)
  BY DEF NominalPred
<1> QED BY <1>1 DEF ResetF

LEMMA NominalIs ==
  ASSUME NEW is, NEW i \in DOMAIN is, i \in Nat, i > 0
  PROVE  Has(is[i].pred, i - 1) => NominalPred(is, i) = i - 1
<1> SUFFICES ASSUME NEW k \in DOMAIN is[i].pred, is[i].pred[k] = i - 1 PROVE NominalPred(is, i) = i - 1
  BY DEF Has
<1>1. is[i].pred # <<>>
  OBVIOUS
<1> QED BY <1>1 DEF NominalPred

\* What a turn of the loop of arm_pass does.
LEMMA PassEffect ==
  ASSUME BlockInv, NEW step \in {"pass1", "pass2"}, Pass(step), insts[ninst].alive
  PROVE  LET e == EmitInst(ninst, f)
         IN  /\ ninst \in DOMAIN insts /\ ninst' \in ninst + 1 .. size
             /\ ninst' < size => insts[ninst'].alive
             /\ \A m \in DOMAIN insts : ninst < m /\ m < ninst' => ~ insts[m].alive
             /\ step = "pass2" =>
                  /\ insts' = insts
                  /\ code' = [code EXCEPT ![ninst] = [ops |-> e.ops, taken |-> TakenOps(ninst, e.f)]]
             /\ step = "pass1" =>
                  /\ insts'[ninst].f_entry = f /\ insts'[ninst].f_exit = e.f
                  /\ \A m \in DOMAIN insts : m < ninst \/ m >= ninst' => insts'[m] = insts[m]
             /\ GoesOn(ninst) => /\ ninst' = ninst + 1
                                 /\ f' = IF ninst' \in DOMAIN insts /\ insts[ninst'].barrier THEN Unknown ELSE e.f
             /\ ~ GoesOn(ninst) => f' = ResetF(insts', ninst')
<1>1. InstsOK /\ LiveOK /\ phase = step /\ ninst < size /\ size \in Nat /\ ninst \in 0 .. size /\ DOMAIN insts = 0 .. size - 1
      /\ phase \notin Early
  BY DEF Pass, BlockInv, InstsOK, Early
<1>2. ninst \in DOMAIN insts /\ ninst + 1 \in 0 .. size /\ ninst \in Int
  BY <1>1
<1> DEFINE e == EmitInst(ninst, f)
           goes == op(ninst).kind \notin {"jmp", "ret"}
           to == IF goes THEN ninst + 1 ELSE NextLive(ninst + 1)
           cell(i) == CASE i = ninst -> [insts[i] EXCEPT !.f_entry = f, !.f_exit = e.f]
                        [] i > ninst /\ i < to ->
                             [insts[i] EXCEPT !.f_entry = e.f, !.f_exit = e.f]
                        [] OTHER -> insts[i]
           new == [i \in DOMAIN insts |-> cell(i)]
           is == IF step = "pass2" THEN insts ELSE new
<1>3. /\ insts' = is
      /\ code' = IF step = "pass2"
                 THEN [code EXCEPT ![ninst] = [ops |-> e.ops, taken |-> TakenOps(ninst, e.f)]] ELSE code
      /\ f' = IF ~goes THEN ResetF(is, to)
              ELSE IF to \in DOMAIN insts /\ insts[to].barrier THEN Unknown ELSE e.f
      /\ ninst' = to
  BY Zenon DEF Pass
<1>4. goes <=> GoesOn(ninst)
  BY DEF GoesOn
<1>5. /\ to \in ninst + 1 .. size /\ (to < size => insts[to].alive)
      /\ \A m \in DOMAIN insts : ninst < m /\ m < to => ~ insts[m].alive
  <2>1. CASE goes
    <3>1. to = ninst + 1 /\ to \in ninst + 1 .. size
      BY <1>1, <1>2, <2>1
    <3>2. \A m \in DOMAIN insts : ~ (ninst < m /\ m < to)
      BY <1>1, <1>2, <3>1
    <3>3. to < size => insts[to].alive
      <4>1. to < size => ninst + 1 \in DOMAIN insts
        BY <1>1, <1>2, <3>1
      <4> QED BY <1>1, <1>2, <1>4, <2>1, <3>1, <4>1 DEF LiveOK
    <3> QED BY <3>1, <3>2, <3>3
  <2>2. CASE ~ goes
    <3>1. to = NextLive(ninst + 1)
      BY <2>2
    <3> HIDE DEF to
    <3>2. to \in ninst + 1 .. size /\ (to = size \/ insts[to].alive) /\ \A m \in ninst + 1 .. (to - 1) : ~insts[m].alive
      BY <1>1, <1>2, <3>1, NextLiveIn
    <3>3. \A m \in DOMAIN insts : ninst < m /\ m < to => m \in ninst + 1 .. (to - 1)
      BY <1>1, <1>2, <3>2
    <3> QED BY <1>1, <1>2, <3>2, <3>3
  <2> QED BY <2>1, <2>2
<1> HIDE DEF e, goes
<1>6. step = "pass1" => /\ insts'[ninst].f_entry = f /\ insts'[ninst].f_exit = e.f
                        /\ \A m \in DOMAIN insts : m < ninst \/ m >= to => insts'[m] = insts[m]
  <2> HIDE DEF to
  <2> SUFFICES ASSUME step = "pass1"
               PROVE  /\ insts'[ninst].f_entry = f /\ insts'[ninst].f_exit = e.f
                      /\ \A m \in DOMAIN insts : m < ninst \/ m >= to => insts'[m] = insts[m]
    OBVIOUS
  <2>1. insts' = new
    BY <1>3
  <2>2. insts'[ninst] = [insts[ninst] EXCEPT !.f_entry = f, !.f_exit = e.f]
    <3>1. insts'[ninst] = cell(ninst)
      <4> HIDE DEF cell
      <4> QED BY <1>2, <2>1
    <3>2. ~ (ninst > ninst)
      BY <1>2
    <3>3. PICK x, y, n, b : /\ x = [insts[ninst] EXCEPT !.f_entry = f, !.f_exit = e.f] /\ n = ninst
                            /\ y = [insts[ninst] EXCEPT !.f_entry = e.f, !.f_exit = e.f] /\ b = (n > n /\ n < to)
      OBVIOUS
    <3>4. insts'[ninst] = CASE n = n -> x [] b -> y [] OTHER -> insts[ninst]
      BY <3>1, <3>3, Zenon
    <3> QED BY <3>2, <3>3, <3>4
  <2>3. insts[ninst] \in Inst(DOMAIN insts)
    BY <1>1, <1>2 DEF InstsOK
  <2>4. insts'[ninst].f_entry = f /\ insts'[ninst].f_exit = e.f
    BY <2>2, <2>3 DEF Inst
  <2>5. ASSUME NEW m \in DOMAIN insts, m < ninst \/ m >= to PROVE insts'[m] = insts[m]
    <3>1. m # ninst /\ ~ (m > ninst /\ m < to)
      BY <1>1, <1>2, <1>5, <2>5
    <3>2. insts'[m] = cell(m)
      BY <2>1
    <3> QED BY <3>1, <3>2
  <2> QED BY <2>4, <2>5
<1>7. step = "pass2" => insts' = insts /\ code' = [code EXCEPT ![ninst] = [ops |-> e.ops, taken |-> TakenOps(ninst, e.f)]]
  BY <1>3
<1>8. GoesOn(ninst) => /\ ninst' = ninst + 1
                       /\ f' = IF ninst' \in DOMAIN insts /\ insts[ninst'].barrier THEN Unknown ELSE e.f
  BY <1>3, <1>4
<1>9. ~ GoesOn(ninst) => f' = ResetF(insts', ninst')
  <2> HIDE DEF is, to
  <2> QED BY <1>3, <1>4
<1>10. ninst' = to
  BY <1>3
<1> HIDE DEF to
<1> QED BY <1>2, <1>5, <1>6, <1>7, <1>8, <1>9, <1>10 DEF e

(***************************************************************************)
(* The blocks for which what the passes knew of the flags is true when the *)
(* code runs.  Each condition excludes a block on which TLC finds          *)
(* ReadsFresh or FlagsKept violated:                                       *)
(*   - operations that write every flag they set, or leave it alone,       *)
(*     always: not CMC (no SET_DFNONE), MUL (SETFLAGS asks gen_flags & ~A, *)
(*     dynarec_arm_helper.h:415) or a shift by CL (a count of zero); and   *)
(*     no RET unless it asks for the flags (SafeFlags # 0);                *)
(*   - nothing jumps back to the first instruction, whose READFLAGS at the *)
(*     entry of the block is there only without predecessors;              *)
(*   - the passes come to the predecessor that an instruction starts from  *)
(*     before they come to the instruction (dynarec_arm_pass.c:81);        *)
(*   - what follows a native call, a barrier that asks its predecessors    *)
(*     for X_PEND alone, is reached from the call only.                    *)
(***************************************************************************)
TameBlock ==
  /\ \A i \in DOMAIN insts : insts[i].op \in Plain
  /\ insts[0].pred = <<>>
  /\ \A i \in DOMAIN insts : insts[i].alive => NominalPred(insts, i) < i
  /\ \A i \in DOMAIN insts \ {0} : op(i - 1).kind = "native" =>
       \A k \in DOMAIN insts[i].pred : insts[i].pred[k] = i - 1

\* What pass 1 found out about instruction i, and what pass 2 emitted for it.
Entered(i) == /\ insts[i].f_entry = ResetF(insts, i)
              /\ insts[i].f_exit = EmitInst(i, insts[i].f_entry).f
Coded(i) == /\ code[i].ops = EmitInst(i, insts[i].f_entry).ops
            /\ code[i].taken = TakenOps(i, insts[i].f_exit)

PassInv ==
  /\ phase \in {"pass1", "pass2"} /\ ninst < size => insts[ninst].alive /\ f = ResetF(insts, ninst)
  /\ phase = "pass1" => \A i \in DOMAIN insts : insts[i].alive /\ i < ninst => Entered(i)
  /\ phase \in {"pass2", "ready", "run", "left"} => \A i \in DOMAIN insts : insts[i].alive => Entered(i)
  /\ phase = "pass2" => \A i \in DOMAIN insts : insts[i].alive /\ i < ninst => Coded(i)
  /\ phase \in {"ready", "run", "left"} => \A i \in DOMAIN insts : insts[i].alive => Coded(i)

\* Pass 1 does not come back to what it has been through.
LEMMA EnteredKeeps ==
  ASSUME InstsOK, SameFlow, SameNeeds, NEW i \in DOMAIN insts, Entered(i), insts'[i] = insts[i],
         NominalPred(insts, i) # NoInst => insts'[NominalPred(insts, i)].f_exit = insts[NominalPred(insts, i)].f_exit
  PROVE  Entered(i)'
<1>1. \A g : EmitInst(i, g)' = EmitInst(i, g)
  BY EmitSame
<1>2. DOMAIN insts' = DOMAIN insts
  BY DEF SameFlow
<1>3. ResetF(insts', i) = ResetF(insts, i)
  BY <1>2, ResetSame
<1>4. PICK g : g = insts[i].f_entry
  OBVIOUS
<1>5. EmitInst(i, insts[i].f_entry)' = EmitInst(i, g)
  BY <1>1, <1>4
<1> QED BY <1>3, <1>4, <1>5 DEF Entered

LEMMA PassPasses ==
  ASSUME BlockInv, Laid, TameBlock, PassInv, NEW step \in {"pass1", "pass2"}, Pass(step), step = "pass2" => code \in Code
  PROVE  PassInv'
<1>1. InstsOK /\ LiveOK /\ phase = step /\ phase' = step /\ ninst < size /\ size \in Nat /\ ninst \in 0 .. size
      /\ DOMAIN insts = 0 .. size - 1 /\ phase \notin Early /\ Linked(size) /\ Reached
  BY DEF Pass, BlockInv, InstsOK, Early, Laid
<1>2. SameFlow /\ SameNeeds /\ DOMAIN insts' = DOMAIN insts /\ size' = size
  BY <1>1, PassKeeps, SameFlowKeeps DEF BlockInv, SameFlow, size
<1>3. PICK e, n : e = EmitInst(ninst, f) /\ n = ninst'
  OBVIOUS
<1>4. insts[ninst].alive /\ f = ResetF(insts, ninst)
  BY <1>1 DEF PassInv
<1>5. /\ ninst \in DOMAIN insts /\ n \in ninst + 1 .. size
      /\ n < size => insts[n].alive
      /\ \A m \in DOMAIN insts : ninst < m /\ m < n => ~ insts[m].alive
      /\ step = "pass2" =>
           /\ insts' = insts
           /\ code' = [code EXCEPT ![ninst] = [ops |-> e.ops, taken |-> TakenOps(ninst, e.f)]]
      /\ step = "pass1" =>
           /\ insts'[ninst].f_entry = f /\ insts'[ninst].f_exit = e.f
           /\ \A m \in DOMAIN insts : m < ninst \/ m >= n => insts'[m] = insts[m]
      /\ GoesOn(ninst) => /\ n = ninst + 1
                          /\ f' = IF n \in DOMAIN insts /\ insts[n].barrier THEN Unknown ELSE e.f
      /\ ~ GoesOn(ninst) => f' = ResetF(insts', n)
  BY <1>1, <1>3, <1>4, PassEffect
<1>6. \A m \in DOMAIN insts : m < n => m < ninst \/ m = ninst \/ (ninst < m /\ m < n)
  BY <1>1, <1>5
<1>7. \A m \in DOMAIN insts : m < ninst => insts'[m] = insts[m]
  BY <1>1, <1>5
<1>8. \A m \in DOMAIN insts : insts'[m].alive = insts[m].alive /\ insts'[m].barrier = insts[m].barrier
                              /\ insts'[m].pred = insts[m].pred
  BY <1>2 DEF SameFlow
<1>9. \A m \in DOMAIN insts : insts[m].alive =>
        /\ NominalPred(insts, m) < m
        /\ NominalPred(insts, m) # NoInst => NominalPred(insts, m) \in DOMAIN insts
  <2> SUFFICES ASSUME NEW m \in DOMAIN insts, insts[m].alive, NominalPred(insts, m) # NoInst
               PROVE  NominalPred(insts, m) \in DOMAIN insts
    BY DEF TameBlock
  <2>1. insts[m].pred # <<>> /\ insts[m].pred \in Seq(DOMAIN insts)
    BY <1>1 DEF NominalPred, InstsOK, Inst
  <2>2. 1 \in DOMAIN insts[m].pred /\ \A k \in DOMAIN insts[m].pred : insts[m].pred[k] \in DOMAIN insts
    BY <2>1
  <2> QED BY <2>2 DEF NominalPred
<1>10. \A m \in DOMAIN insts : insts[m].alive /\ m <= ninst => ResetF(insts', m) = ResetF(insts, m)
  <2> SUFFICES ASSUME NEW m \in DOMAIN insts, insts[m].alive, m <= ninst PROVE ResetF(insts', m) = ResetF(insts, m)
    OBVIOUS
  <2>1. PICK p : p = NominalPred(insts, m)
    OBVIOUS
  <2>2. p # NoInst => p \in DOMAIN insts /\ p < m
    BY <1>9, <2>1
  <2>3. p # NoInst => insts'[p] = insts[p]
    BY <1>1, <1>7, <2>2
  <2> QED BY <1>2, <1>8, <2>1, <2>3, ResetSame
<1>11. PICK k, g : k = ninst /\ g = f
  OBVIOUS
<1>12. \A h : EmitInst(k, h)' = EmitInst(k, h)
  BY <1>2, <1>5, <1>11, EmitSame DEF SameFlow, SameNeeds
<1>13. insts'[k].f_entry = g /\ insts'[k].f_exit = e.f /\ e = EmitInst(k, g) /\ k \in DOMAIN insts /\ k \in Nat
  <2>1. CASE step = "pass1"
    BY <1>1, <1>3, <1>5, <1>11, <2>1
  <2>2. CASE step = "pass2"
    <3>1. Entered(k)
      BY <1>1, <1>4, <1>5, <1>11, <2>2 DEF PassInv
    <3> QED BY <1>1, <1>3, <1>4, <1>5, <1>11, <2>2, <3>1 DEF Entered
  <2> QED BY <2>1, <2>2
<1>14. EmitInst(k, insts[k].f_entry)' = e
  BY <1>12, <1>13
<1>15. Entered(k)'
  <2>1. ResetF(insts', k) = g
    BY <1>1, <1>4, <1>5, <1>10, <1>11
  <2> QED BY <1>13, <1>14, <2>1 DEF Entered
<1>16. ASSUME NEW m \in DOMAIN insts, insts[m].alive, Entered(m), m < k \/ step = "pass2" PROVE Entered(m)'
  <2>1. insts'[m] = insts[m]
    BY <1>5, <1>7, <1>11, <1>16
  <2>2. PICK p : p = NominalPred(insts, m)
    OBVIOUS
  <2>3. p # NoInst => p \in DOMAIN insts /\ p < m
    BY <1>9, <1>16, <2>2
  <2>4. p # NoInst => insts'[p] = insts[p]
    BY <1>1, <1>5, <1>7, <1>11, <1>16, <2>3
  <2> QED BY <1>1, <1>2, <1>16, <2>1, <2>2, <2>4, EnteredKeeps
<1>17. n < size => f' = ResetF(insts', n)
  <2>1. CASE ~ GoesOn(k)
    BY <1>5, <1>11, <2>1
  <2>2. CASE GoesOn(k)
    <3> SUFFICES ASSUME n < size PROVE f' = ResetF(insts', n)
      OBVIOUS
    <3>1. n = k + 1 /\ n \in DOMAIN insts /\ n \in Nat /\ n > 0 /\ n - 1 = k /\ k < size
          /\ f' = IF insts[n].barrier THEN Unknown ELSE e.f
      BY <1>1, <1>5, <1>11, <1>13, <2>2
    <3>2. insts[k].has_next /\ insts[k].alive
      BY <1>1, <1>4, <1>11, <1>13, <2>2, <3>1 DEF Laid
    <3>3. n \in Succ(insts, k)
      BY <3>1, <3>2 DEF Succ
    <3>4. HasPred(k, n)
      BY <1>1, <1>13, <3>1, <3>2, <3>3 DEF Linked
    <3>5. Has(insts'[n].pred, n - 1)
      BY <1>8, <3>1, <3>4 DEF HasPred
    <3>6. NominalPred(insts', n) = k
      BY <1>2, <3>1, <3>5, NominalIs
    <3>7. k # NoInst
      BY <1>13 DEF NoInst
    <3> QED BY <1>8, <1>13, <3>1, <3>6, <3>7 DEF ResetF
  <2> QED BY <2>1, <2>2
<1>18. n < size => insts'[n].alive
  BY <1>1, <1>5, <1>8
<1>19. \A m \in DOMAIN insts : insts'[m].alive /\ m < n => m < k \/ m = k
  BY <1>5, <1>6, <1>8, <1>11
<1>20. CASE step = "pass1"
  <2>1. \A m \in DOMAIN insts : insts'[m].alive /\ m < n => Entered(m)'
    BY <1>1, <1>8, <1>11, <1>15, <1>16, <1>19, <1>20 DEF PassInv
  <2> QED BY <1>1, <1>2, <1>3, <1>17, <1>18, <1>20, <2>1 DEF PassInv
<1>21. CASE step = "pass2"
  <2>1. \A m \in DOMAIN insts : insts'[m].alive => Entered(m)'
    BY <1>1, <1>8, <1>16, <1>21 DEF PassInv
  <2>2. insts' = insts /\ code \in Code /\ code' = [code EXCEPT ![k] = [ops |-> e.ops, taken |-> TakenOps(k, e.f)]]
    BY <1>5, <1>11, <1>21
  <2>3. \A m \in DOMAIN insts : \A h : EmitInst(m, h)' = EmitInst(m, h) /\ TakenOps(m, h)' = TakenOps(m, h)
    BY <2>2, EmitSame DEF TakenOps
  <2>4. ASSUME NEW m \in DOMAIN insts, insts'[m].alive, m < n PROVE Coded(m)'
    <3>1. CASE m = k
      <4>1. code'[k].ops = e.ops /\ code'[k].taken = TakenOps(k, e.f)
        BY <1>13, <2>2 DEF Code
      <4>2. TakenOps(k, insts[k].f_exit)' = TakenOps(k, e.f)
        BY <1>13, <2>3
      <4> QED BY <1>14, <3>1, <4>1, <4>2 DEF Coded
    <3>2. CASE m < k
      <4>1. Coded(m)
        BY <1>1, <1>8, <1>11, <1>21, <2>4, <3>2 DEF PassInv
      <4>2. code'[m] = code[m]
        BY <1>1, <1>13, <2>2, <3>2 DEF Code
      <4>3. PICK g1, g2 : g1 = insts[m].f_entry /\ g2 = insts[m].f_exit
        OBVIOUS
      <4>4. EmitInst(m, insts[m].f_entry)' = EmitInst(m, g1) /\ TakenOps(m, insts[m].f_exit)' = TakenOps(m, g2)
        BY <2>2, <2>3, <4>3
      <4> QED BY <4>1, <4>2, <4>3, <4>4 DEF Coded
    <3> QED BY <1>19, <2>4, <3>1, <3>2
  <2> QED BY <1>1, <1>2, <1>3, <1>17, <1>18, <1>21, <2>1, <2>4 DEF PassInv
<1> QED BY <1>20, <1>21

-----------------------------------------------------------------------------
(***************************************************************************)
(* The block runs.                                                         *)
(***************************************************************************)
\* What instruction i hands to what comes after it.
Handed(i, fl, o, d) == /\ fl \in insts[i].need_after => Held(o, d)
                       /\ "PEND" \in insts[i].need_after => Rec(o, d)

RunInv ==
  /\ phase = "run" /\ ~ run.taken =>
       \A fl \in Flags : Good6(run.at, insts[run.at].f_exit, run.ops, fl, run.ok[fl], run.df[fl])
  /\ phase = "run" /\ run.taken =>
       /\ op(run.at).kind \in {"jcc", "jmp"} /\ run.ops \in {<<>>, <<"update">>}
       /\ \A fl \in Flags : /\ Handed(run.at, fl, run.ok[fl], run.df[fl])
                            /\ \/ insts[run.at].jmp_insts = NoInst
                               \/ ~ insts[insts[run.at].jmp_insts].f_entry.dfnone
                               \/ run.df[fl] = "no" \/ run.ops = <<"update">>
  /\ phase = "left" => \A fl \in Flags : Rec(run.ok[fl], run.df[fl])

\* A native call needs no flag.
LEMMA NativeNeeds ==
  ASSUME InstsOK, NEW i \in DOMAIN insts, op(i).kind = "native", Solved(i)
  PROVE  insts[i].need_before = {}
<1>1. insts[i].op \in DOMAIN Repertoire /\ insts[i].need_after \in Needs
  BY DEF InstsOK, Inst
<1>2. insts[i].op = "native"
  <2>1. \A k \in DOMAIN Repertoire : Repertoire[k].kind = "native" => k = "native"
    <3>1. NOP.kind = "next" /\ ADD.kind = "next" /\ INC.kind = "next" /\ MUL.kind = "next" /\ CLC.kind = "next"
      BY DEF NoFlags, NOP, ADD, INC, MUL, CLC
    <3>4. CMC.kind = "next" /\ POPF.kind = "next" /\ DAA.kind = "next" /\ PUSHF.kind = "next"
      BY DEF NoFlags, CMC, POPF, DAA, PUSHF
    <3>2. ADC.kind = "next" /\ SHL_CL.kind = "next"
      BY DEF NoFlags, ADD, ADC, SHL_CL
    <3>3. Jcc("CF").kind = "jcc" /\ Jcc("PF").kind = "jcc" /\ JECXZ.kind = "jcc" /\ JMP.kind = "jmp" /\ RET.kind = "ret"
      BY DEF NoFlags, Jcc, JECXZ, JMP, RET
    <3> QED BY <3>1, <3>2, <3>3, <3>4 DEF Repertoire
  <2> QED BY <1>1, <2>1 DEF op
<1>3. op(i).use = {} /\ op(i).set = Flags /\ op(i).state = "SET_NODF" /\ ~ op(i).may
  <2>1. op(i) = NativeCall
    BY <1>2 DEF op, Repertoire
  <2> QED BY <2>1 DEF NativeCall, NoFlags
<1>4. PICK a, m, b : a = insts[i].need_after /\ m = insts[i].gen /\ b = insts[i].need_before
  OBVIOUS
<1>5. "PEND" \notin a /\ m = a \cap Flags /\ b \subseteq a \ m
  BY <1>3, <1>4, SolvedIs DEF NoPend, HasPend
<1> QED BY <1>1, <1>4, <1>5 DEF Needs

\* Along an edge of the block the flags are found as they were handed over.
LEMMA EdgeReady ==
  ASSUME InstsOK, Laid, TameBlock, Reached, NEW i \in DOMAIN insts, NEW k \in DOMAIN insts, op(i).kind # "native",
         Met(i, k), HasPred(i, k), NEW fl \in Flags, NEW o \in BOOLEAN, NEW d \in Dfs, Handed(i, fl, o, d),
         insts[k].f_entry.dfnone => d = "no"
  PROVE  Ready(k, insts[k].f_entry, fl, o, d)
<1>1. insts[k].pred # <<>>
  BY DEF HasPred, Has
<1>2. Held(o, d) => Rec(o, d)
  BY DEF Held, Rec, Dfs
<1>3. CASE insts[k].barrier
  <2>1. op(k).kind = "native"
    <3>1. Kind(insts[k]) = "native" \/ (k > 0 /\ Kind(insts[k - 1]) = "native")
      BY <1>3 DEF Laid, Barriers
    <3>2. CASE k > 0 /\ Kind(insts[k - 1]) = "native"
      <4>1. op(k - 1).kind = "native" /\ k \in DOMAIN insts \ {0}
        BY <3>2 DEF Kind, op, InstsOK
      <4>2. \A m \in DOMAIN insts[k].pred : insts[k].pred[m] = k - 1
        BY <4>1 DEF TameBlock
      <4>3. i = k - 1
        BY <4>2 DEF HasPred, Has
      <4> QED BY <4>1, <4>3
    <3> QED BY <3>1, <3>2 DEF Kind, op
  <2>2. insts[k].need_before = {}
    BY <2>1, NativeNeeds DEF Reached
  <2> QED BY <2>2 DEF Ready
<1>4. CASE ~ insts[k].barrier
  <2>1. Turned(op(i), insts[k].need_before) \subseteq insts[i].need_after
    BY <1>4 DEF Met, Asked
  <2>2. fl # "PEND"
    BY FlagsAssumption
  <2>3. fl \in insts[k].need_before => Held(o, d)
    BY <2>1, <2>2 DEF Turned, Handed
  <2>4. "PEND" \in insts[k].need_before => Rec(o, d)
    BY <1>2, <2>1 DEF Turned, Handed
  <2> QED BY <1>1, <2>3, <2>4 DEF Ready
<1> QED BY <1>3, <1>4

\* The meaning of code depends on nothing but the instructions.
LEMMA GoodSame ==
  ASSUME insts' = insts, NEW i, NEW h
  PROVE  \A s, fl, o, d : Good6(i, h, s, fl, o, d)' <=> Good6(i, h, s, fl, o, d)
<1>1. op(i)' = op(i)
  BY DEF op
<1>2. \A s, fl, o, d : Good0(i, h, s, fl, o, d)' <=> Good0(i, h, s, fl, o, d)
  BY <1>1 DEF Good0, End
<1>3. \A fl, o, d : End(i, h, fl, o, d)' <=> End(i, h, fl, o, d)
  BY <1>1 DEF End
<1>4. \A x, fl, o : Reads(i, x, fl, o)' <=> Reads(i, x, fl, o)
  BY <1>1 DEF Reads
<1>5. \A x, fl, o, d : OkAfter(x, i, fl, o, d)' = OkAfter(x, i, fl, o, d) /\ DfAfter(x, i, fl, d)' = DfAfter(x, i, fl, d)
  BY <1>1 DEF OkAfter, DfAfter
<1>6. \A s, fl, o, d : Good1(i, h, s, fl, o, d)' <=> Good1(i, h, s, fl, o, d)
  <2> SUFFICES ASSUME NEW s, NEW fl, NEW o, NEW d PROVE Good1(i, h, s, fl, o, d)' <=> Good1(i, h, s, fl, o, d)
    OBVIOUS
  <2>1. PICK x, t, p, q : x = Head(s) /\ t = Tail(s) /\ p = OkAfter(x, i, fl, o, d) /\ q = DfAfter(x, i, fl, d)
    OBVIOUS
  <2>2. Good0(i, h, t, fl, p, q)' <=> Good0(i, h, t, fl, p, q)
    BY <1>2
  <2> QED BY <1>3, <1>4, <1>5, <2>1, <2>2 DEF Good1
<1>7. \A s, fl, o, d : Good2(i, h, s, fl, o, d)' <=> Good2(i, h, s, fl, o, d)
  <2> SUFFICES ASSUME NEW s, NEW fl, NEW o, NEW d PROVE Good2(i, h, s, fl, o, d)' <=> Good2(i, h, s, fl, o, d)
    OBVIOUS
  <2>1. PICK x, t, p, q : x = Head(s) /\ t = Tail(s) /\ p = OkAfter(x, i, fl, o, d) /\ q = DfAfter(x, i, fl, d)
    OBVIOUS
  <2>2. Good1(i, h, t, fl, p, q)' <=> Good1(i, h, t, fl, p, q)
    BY <1>6
  <2> QED BY <1>3, <1>4, <1>5, <2>1, <2>2 DEF Good2
<1>8. \A s, fl, o, d : Good3(i, h, s, fl, o, d)' <=> Good3(i, h, s, fl, o, d)
  <2> SUFFICES ASSUME NEW s, NEW fl, NEW o, NEW d PROVE Good3(i, h, s, fl, o, d)' <=> Good3(i, h, s, fl, o, d)
    OBVIOUS
  <2>1. PICK x, t, p, q : x = Head(s) /\ t = Tail(s) /\ p = OkAfter(x, i, fl, o, d) /\ q = DfAfter(x, i, fl, d)
    OBVIOUS
  <2>2. Good2(i, h, t, fl, p, q)' <=> Good2(i, h, t, fl, p, q)
    BY <1>7
  <2> QED BY <1>3, <1>4, <1>5, <2>1, <2>2 DEF Good3
<1>9. \A s, fl, o, d : Good4(i, h, s, fl, o, d)' <=> Good4(i, h, s, fl, o, d)
  <2> SUFFICES ASSUME NEW s, NEW fl, NEW o, NEW d PROVE Good4(i, h, s, fl, o, d)' <=> Good4(i, h, s, fl, o, d)
    OBVIOUS
  <2>1. PICK x, t, p, q : x = Head(s) /\ t = Tail(s) /\ p = OkAfter(x, i, fl, o, d) /\ q = DfAfter(x, i, fl, d)
    OBVIOUS
  <2>2. Good3(i, h, t, fl, p, q)' <=> Good3(i, h, t, fl, p, q)
    BY <1>8
  <2> QED BY <1>3, <1>4, <1>5, <2>1, <2>2 DEF Good4
<1>10. \A s, fl, o, d : Good5(i, h, s, fl, o, d)' <=> Good5(i, h, s, fl, o, d)
  <2> SUFFICES ASSUME NEW s, NEW fl, NEW o, NEW d PROVE Good5(i, h, s, fl, o, d)' <=> Good5(i, h, s, fl, o, d)
    OBVIOUS
  <2>1. PICK x, t, p, q : x = Head(s) /\ t = Tail(s) /\ p = OkAfter(x, i, fl, o, d) /\ q = DfAfter(x, i, fl, d)
    OBVIOUS
  <2>2. Good4(i, h, t, fl, p, q)' <=> Good4(i, h, t, fl, p, q)
    BY <1>9
  <2> QED BY <1>3, <1>4, <1>5, <2>1, <2>2 DEF Good5
<1>11. \A s, fl, o, d : Good6(i, h, s, fl, o, d)' <=> Good6(i, h, s, fl, o, d)
  <2> SUFFICES ASSUME NEW s, NEW fl, NEW o, NEW d PROVE Good6(i, h, s, fl, o, d)' <=> Good6(i, h, s, fl, o, d)
    OBVIOUS
  <2>1. PICK x, t, p, q : x = Head(s) /\ t = Tail(s) /\ p = OkAfter(x, i, fl, o, d) /\ q = DfAfter(x, i, fl, d)
    OBVIOUS
  <2>2. Good5(i, h, t, fl, p, q)' <=> Good5(i, h, t, fl, p, q)
    BY <1>10
  <2> QED BY <1>3, <1>4, <1>5, <2>1, <2>2 DEF Good6
<1> QED BY <1>11

\* Control comes to a live instruction.
LEMMA ArriveRun ==
  ASSUME BlockInv, Laid, TameBlock, PassInv, code \in Code, phase \in {"ready", "run"}, NEW k \in DOMAIN insts, insts[k].alive,
         NEW p, p.ok \in [Flags -> BOOLEAN], p.df \in [Flags -> Dfs],
         \A fl \in Flags : Ready(k, insts[k].f_entry, fl, p.ok[fl], p.df[fl]),
         run' = At(k, p), phase' = "run", insts' = insts
  PROVE  RunInv'
<1>1. InstsOK /\ Reached /\ Entered(k) /\ Coded(k) /\ insts[k].op \in Plain
  BY DEF BlockInv, Laid, Early, PassInv, TameBlock
<1>2. PICK g : g = insts[k].f_entry
  OBVIOUS
<1>3. g \in F /\ g = ResetF(insts, k)
  BY <1>1, <1>2 DEF Entered, InstsOK, Inst
<1>4. insts[k].pred = <<>> => g = Unknown
  BY <1>3 DEF ResetF, NominalPred
<1>5. /\ run'.at = k /\ run'.ops = EmitInst(k, g).ops /\ ~ run'.taken /\ run'.ok = p.ok /\ run'.df = p.df
      /\ insts[k].f_exit = EmitInst(k, g).f
  BY <1>1, <1>2 DEF At, Coded, Entered
<1>6. ASSUME NEW fl \in Flags PROVE Good6(k, EmitInst(k, g).f, EmitInst(k, g).ops, fl, p.ok[fl], p.df[fl])
  <2>1. PICK o, d : o = p.ok[fl] /\ d = p.df[fl]
    OBVIOUS
  <2>2. o \in BOOLEAN /\ d \in Dfs /\ Ready(k, g, fl, o, d)
    BY <1>2, <2>1
  <2>3. Solved(k)
    BY <1>1 DEF Reached
  <2>4. Good6(k, EmitInst(k, g).f, EmitInst(k, g).ops, fl, o, d)
    BY <1>1, <1>3, <1>4, <2>2, <2>3, InstGood
  <2> QED BY <2>1, <2>4
<1>7. PICK h, s : h = EmitInst(k, g).f /\ s = EmitInst(k, g).ops
  OBVIOUS
<1>8. \A fl, o, d : Good6(k, h, s, fl, o, d)' <=> Good6(k, h, s, fl, o, d)
  BY GoodSame
<1> QED BY <1>5, <1>6, <1>7, <1>8 DEF RunInv

LEMMA EnterRun ==
  ASSUME BlockInv, CodeInv, Laid, TameBlock, PassInv, Enter
  PROVE  RunInv'
<1>1. phase = "ready" /\ phase' = "run" /\ insts' = insts /\ code \in Code
  BY DEF Enter, CodeInv
<1>2. PICK k : k = 0
  OBVIOUS
<1>3. InstsOK /\ k \in DOMAIN insts /\ insts[k].alive /\ insts[k].pred = <<>>
  BY <1>1, <1>2 DEF BlockInv, InstsOK, LiveOK, Early, TameBlock
<1>4. PICK p \in Entries : run' = At(k, p)
  BY <1>2 DEF Enter
<1>5. PICK d : /\ p.ok = [fl \in Flags |-> fl \notin d]
               /\ p.df = [fl \in Flags |-> IF fl \in d THEN "ok" ELSE "no"]
  <2>1. PICK d : p = [ok |-> [fl \in Flags |-> fl \notin d], df |-> [fl \in Flags |-> IF fl \in d THEN "ok" ELSE "no"]]
    BY DEF Entries
  <2>2. p.ok = [fl \in Flags |-> fl \notin d] /\ p.df = [fl \in Flags |-> IF fl \in d THEN "ok" ELSE "no"]
    BY <2>1
  <2> QED BY <2>2
<1>6. p.ok \in [Flags -> BOOLEAN]
  BY <1>5, Zenon
<1>7. p.df \in [Flags -> Dfs]
  BY <1>5 DEF Dfs
<1>8. \A fl \in Flags : Rec(p.ok[fl], p.df[fl])
  BY <1>5 DEF Rec
<1>9. ~ insts[k].f_entry.dfnone
  <2>1. Entered(k)
    BY <1>1, <1>3 DEF PassInv
  <2>2. insts[k].f_entry = Unknown
    BY <1>3, <2>1 DEF Entered, ResetF, NominalPred
  <2> QED BY <2>2 DEF Unknown
<1>10. \A fl \in Flags : Ready(k, insts[k].f_entry, fl, p.ok[fl], p.df[fl])
  BY <1>3, <1>8, <1>9 DEF Ready
<1> QED BY <1>1, <1>3, <1>4, <1>6, <1>7, <1>10, ArriveRun

\* What a step of the code does to one flag.
LEMMA EffectFlag ==
  ASSUME run \in Runs, NEW i, i = run.at, NEW x \in Micro, NEW fl \in Flags
  PROVE  LET e == Effect(x, op(i), insts[i].gen)
         IN  /\ e.ok[fl] <=> OkAfter(x, i, fl, run.ok[fl], run.df[fl])
             /\ e.df[fl] = DfAfter(x, i, fl, run.df[fl])
             /\ e.ops = run.ops /\ e.taken = run.taken /\ e.at = i
<1>1. PICK r, s, m : r = run /\ s = op(i).set /\ m = insts[i].gen
  OBVIOUS
<1>2. r \in [at : DOMAIN insts, ops : Seq(Micro), taken : BOOLEAN, ok : [Flags -> BOOLEAN], df : [Flags -> Dfs]]
  BY <1>1 DEF Runs, Dfs
<1>3. Clean[fl] = "no"
  BY DEF Clean
<1>4. CASE x = "update"
  <2>1. PICK k : k = [z \in Flags |-> IF r.df[z] = "no" THEN r.ok[z] ELSE r.df[z] = "ok"]
    OBVIOUS
  <2>2. Effect(x, op(i), insts[i].gen) = [r EXCEPT !.ok = k, !.df = Clean]
    BY <1>1, <1>4, <2>1 DEF Effect, Applied
  <2>3. k[fl] <=> Rec(r.ok[fl], r.df[fl])
    BY <1>2, <2>1 DEF Rec
  <2> QED BY <1>1, <1>2, <1>3, <1>4, <2>2, <2>3 DEF OkAfter, DfAfter
<1>5. CASE x = "dfnone"
  BY <1>1, <1>2, <1>3, <1>5 DEF Effect, OkAfter, DfAfter
<1>6. CASE x = "setdf"
  BY <1>1, <1>2, <1>6 DEF Effect, OkAfter, DfAfter
<1>7. CASE x = "commit"
  <2>1. PICK k, q : /\ k = [z \in Flags |-> r.ok[z] /\ z \notin s]
                    /\ q = [z \in Flags |-> IF z \in s /\ r.df[z] = "ok" THEN "bad" ELSE r.df[z]]
    OBVIOUS
  <2>2. Effect(x, op(i), insts[i].gen) = [r EXCEPT !.ok = k, !.df = q]
    BY <1>1, <1>7, <2>1 DEF Effect
  <2>3. /\ k[fl] <=> r.ok[fl] /\ fl \notin s
        /\ q[fl] = IF fl \in s /\ r.df[fl] = "ok" THEN "bad" ELSE r.df[fl]
    BY <2>1
  <2>4. [r EXCEPT !.ok = k, !.df = q].ok = k /\ [r EXCEPT !.ok = k, !.df = q].df = q
        /\ [r EXCEPT !.ok = k, !.df = q].ops = r.ops /\ [r EXCEPT !.ok = k, !.df = q].taken = r.taken
        /\ [r EXCEPT !.ok = k, !.df = q].at = r.at
    BY <1>2
  <2>5. OkAfter(x, i, fl, run.ok[fl], run.df[fl]) <=> r.ok[fl] /\ fl \notin s
    BY <1>1, <1>7 DEF OkAfter
  <2>6. DfAfter(x, i, fl, run.df[fl]) = IF fl \in s /\ r.df[fl] = "ok" THEN "bad" ELSE r.df[fl]
    BY <1>1, <1>7 DEF DfAfter
  <2> QED BY <1>1, <2>2, <2>3, <2>4, <2>5, <2>6
<1>8. CASE x = "write"
  <2>1. PICK k : k = [z \in Flags |-> r.ok[z] \/ z \in m]
    OBVIOUS
  <2>2. Effect(x, op(i), insts[i].gen) = [r EXCEPT !.ok = k]
    BY <1>1, <1>8, <2>1 DEF Effect
  <2>3. k[fl] <=> r.ok[fl] \/ fl \in m
    BY <2>1
  <2> QED BY <1>1, <1>2, <1>8, <2>2, <2>3 DEF OkAfter, DfAfter
<1>9. CASE x = "writeall"
  <2>1. PICK k : k = [z \in Flags |-> r.ok[z] \/ z \in s]
    OBVIOUS
  <2>2. Effect(x, op(i), insts[i].gen) = [r EXCEPT !.ok = k]
    BY <1>1, <1>9, <2>1 DEF Effect
  <2>3. k[fl] <=> r.ok[fl] \/ fl \in s
    BY <2>1
  <2> QED BY <1>1, <1>2, <1>9, <2>2, <2>3 DEF OkAfter, DfAfter
<1>10. CASE x \in {"read", "skip"}
  BY <1>1, <1>2, <1>10 DEF Effect, OkAfter, DfAfter
<1> QED BY <1>4, <1>5, <1>6, <1>7, <1>8, <1>9, <1>10 DEF Micro

LEMMA StepRun ==
  ASSUME BlockInv, CodeInv, RunInv, Step
  PROVE  RunInv'
<1>1. phase = "run" /\ phase' = "run" /\ insts' = insts /\ run.ops # <<>> /\ run \in Runs
  BY DEF Step, CodeInv
<1>2. PICK i, x, s, t : i = run.at /\ x = Head(run.ops) /\ s = run.ops /\ t = Tail(run.ops)
  OBVIOUS
<1>3. x \in Micro /\ i \in DOMAIN insts /\ s \in Seq(Micro) /\ s # <<>> /\ x = Head(s) /\ t = Tail(s)
  BY <1>1, <1>2 DEF Runs
<1>4. PICK h : h = insts[i].f_exit
  OBVIOUS
<1>5. op(i)' = op(i)
  BY <1>1 DEF op
<1>6. PICK e : e = Effect(x, op(i), insts[i].gen)
  OBVIOUS
<1>7. e \in Runs /\ e.ops = s /\ e.taken = run.taken /\ e.at = i
      /\ \A fl \in Flags : /\ e.ok[fl] <=> OkAfter(x, i, fl, run.ok[fl], run.df[fl])
                           /\ e.df[fl] = DfAfter(x, i, fl, run.df[fl])
  <2>1. e \in Runs
    BY <1>1, <1>6, EffectType
  <2>2. ASSUME NEW fl \in Flags
        PROVE  /\ e.ok[fl] <=> OkAfter(x, i, fl, run.ok[fl], run.df[fl])
               /\ e.df[fl] = DfAfter(x, i, fl, run.df[fl])
               /\ e.ops = s /\ e.taken = run.taken /\ e.at = i
    BY <1>1, <1>2, <1>3, <1>6, EffectFlag
  <2>3. "CF" \in Flags
    BY FlagsAssumption
  <2> QED BY <2>1, <2>2, <2>3
<1>8. run' = [e EXCEPT !.ops = t] \/ (x = "skip" /\ run' = [run EXCEPT !.ops = <<>>])
  BY <1>2, <1>6, <1>7 DEF Step
<1>9. CASE ~ run.taken
  <2>1. \A fl \in Flags : Good6(i, h, s, fl, run.ok[fl], run.df[fl])
    BY <1>1, <1>2, <1>4, <1>9 DEF RunInv
  <2>2. ASSUME NEW fl \in Flags
        PROVE  /\ Reads(i, x, fl, run.ok[fl])
               /\ Good5(i, h, t, fl, OkAfter(x, i, fl, run.ok[fl], run.df[fl]), DfAfter(x, i, fl, run.df[fl]))
    BY <1>3, <2>1 DEF Good6
  <2>3. x # "skip"
    BY <2>2, FlagsAssumption DEF Reads
  <2>4. run' = [e EXCEPT !.ops = t]
    BY <1>8, <2>3
  <2>5. run'.at = i /\ run'.ops = t /\ ~ run'.taken /\ run'.ok = e.ok /\ run'.df = e.df
    BY <1>7, <1>9, <2>4 DEF Runs
  <2>6. ASSUME NEW fl \in Flags PROVE Good6(i, h, t, fl, e.ok[fl], e.df[fl])
    <3>1. PICK o, d : o = OkAfter(x, i, fl, run.ok[fl], run.df[fl]) /\ d = DfAfter(x, i, fl, run.df[fl])
      OBVIOUS
    <3>2. o \in BOOLEAN
      <4>1. run.ok[fl] \in BOOLEAN /\ run.df[fl] \in Dfs
        BY <1>1 DEF Runs, Dfs
      <4> QED BY <3>1, <4>1 DEF OkAfter, Rec
    <3>3. e.ok[fl] = o /\ e.df[fl] = d
      <4>1. e.ok[fl] \in BOOLEAN
        BY <1>7 DEF Runs
      <4> QED BY <1>7, <3>1, <3>2, <4>1
    <3>4. Good5(i, h, t, fl, o, d)
      BY <2>2, <3>1
    <3> QED BY <3>3, <3>4, GoodMore
  <2>7. \A fl, o, d : Good6(i, h, t, fl, o, d)' <=> Good6(i, h, t, fl, o, d)
    BY <1>1, GoodSame
  <2> QED BY <1>1, <1>4, <2>5, <2>6, <2>7 DEF RunInv
<1>10. CASE run.taken
  <2>1. s = <<"update">> /\ op(i).kind \in {"jcc", "jmp"} /\ \A fl \in Flags : Handed(i, fl, run.ok[fl], run.df[fl])
    BY <1>1, <1>2, <1>10 DEF RunInv
  <2>2. x = "update" /\ t = <<>>
    BY <1>3, <2>1
  <2>3. run'.at = i /\ run'.ops = <<>> /\ run'.taken /\ run'.ok = e.ok /\ run'.df = e.df
    BY <1>7, <1>8, <1>10, <2>2 DEF Runs
  <2>4. ASSUME NEW fl \in Flags PROVE Handed(i, fl, e.ok[fl], e.df[fl])' /\ e.df[fl] = "no"
    <3>1. PICK o, d, a : o = run.ok[fl] /\ d = run.df[fl] /\ a = e.ok[fl]
      OBVIOUS
    <3>2. o \in BOOLEAN /\ d \in Dfs /\ a \in BOOLEAN
      BY <1>1, <1>7, <3>1 DEF Runs, Dfs
    <3>3. (a <=> Rec(o, d)) /\ e.df[fl] = "no"
      BY <1>7, <2>2, <3>1 DEF OkAfter, DfAfter
    <3>4. Handed(i, fl, o, d)
      BY <2>1, <3>1
    <3>5. Held(o, d) => Rec(o, d)
      BY <3>2 DEF Held, Rec, Dfs
    <3>6. Rec(o, d) => Held(a, "no") /\ Rec(a, "no")
      BY <3>2, <3>3 DEF Held, Rec
    <3>7. Handed(i, fl, a, "no")'
      BY <1>1, <3>4, <3>5, <3>6 DEF Handed, Held, Rec
    <3> QED BY <1>1, <3>1, <3>3, <3>7 DEF Handed, Held, Rec
  <2> QED BY <1>1, <1>5, <2>1, <2>3, <2>4 DEF RunInv, Handed
<1> QED BY <1>1, <1>9, <1>10 DEF Runs

\* A transfer of control, inside the block or out of it.
LEMMA GoToRun ==
  ASSUME BlockInv, CodeInv, Laid, TameBlock, PassInv, phase = "run", NEW k, NEW p, p.ok \in [Flags -> BOOLEAN],
         p.df \in [Flags -> Dfs], GoTo(k, p), insts' = insts,
         k \in DOMAIN insts => insts[k].alive /\ \A fl \in Flags : Ready(k, insts[k].f_entry, fl, p.ok[fl], p.df[fl]),
         k \notin DOMAIN insts => \A fl \in Flags : Rec(p.ok[fl], p.df[fl])
  PROVE  RunInv'
<1>1. code \in Code /\ run \in Runs
  BY DEF CodeInv
<1>2. CASE k \in DOMAIN insts
  <2>1. run' = At(k, p) /\ phase' = "run"
    BY <1>2 DEF GoTo
  <2> QED BY <1>1, <1>2, <2>1, ArriveRun
<1>3. CASE k \notin DOMAIN insts
  <2>1. phase' = "left" /\ run' = [run EXCEPT !.ok = p.ok, !.df = p.df]
    BY <1>3 DEF GoTo
  <2>2. run'.ok = p.ok /\ run'.df = p.df
    BY <1>1, <2>1 DEF Runs
  <2> QED BY <1>3, <2>1, <2>2 DEF RunInv, Rec
<1> QED BY <1>2, <1>3

\* An instruction that was asked for the flags leaves each of them recoverable.
LEMMA WantedRec ==
  ASSUME NEW i, Wanted(i), NEW fl \in Flags, NEW o \in BOOLEAN, NEW d \in Dfs, Handed(i, fl, o, d)
  PROVE  Rec(o, d)
<1>1. Held(o, d) => Rec(o, d)
  BY DEF Held, Rec, Dfs
<1>2. "PEND" \in insts[i].need_after \/ fl \in insts[i].need_after
  BY DEF Wanted, Turned
<1> QED BY <1>1, <1>2 DEF Handed

\* Control goes from a live instruction, other than a native call, to a successor.
LEMMA FollowReady ==
  ASSUME BlockInv, CodeInv, Laid, TameBlock, PassInv, phase = "run", NEW i \in DOMAIN insts, insts[i].alive,
         op(i).kind # "native", NEW k \in Succ(insts, i), NEW p, p.ok \in [Flags -> BOOLEAN], p.df \in [Flags -> Dfs],
         \A fl \in Flags : Handed(i, fl, p.ok[fl], p.df[fl]) /\ (insts[k].f_entry.dfnone => p.df[fl] = "no")
  PROVE  insts[k].alive /\ \A fl \in Flags : Ready(k, insts[k].f_entry, fl, p.ok[fl], p.df[fl])
<1>1. InstsOK /\ LiveOK /\ phase \notin Early /\ Linked(size) /\ Reached
  BY DEF BlockInv, Laid, Early
<1>2. i < size /\ k \in DOMAIN insts
  BY <1>1, SuccIn DEF InstsOK
<1>3. insts[k].alive /\ HasPred(i, k) /\ Met(i, k)
  BY <1>1, <1>2 DEF LiveOK, Linked, Reached
<1>4. ASSUME NEW fl \in Flags PROVE Ready(k, insts[k].f_entry, fl, p.ok[fl], p.df[fl])
  <2>1. PICK o, d : o = p.ok[fl] /\ d = p.df[fl]
    OBVIOUS
  <2>2. o \in BOOLEAN /\ d \in Dfs /\ Handed(i, fl, o, d) /\ (insts[k].f_entry.dfnone => d = "no")
    BY <2>1
  <2>3. Ready(k, insts[k].f_entry, fl, o, d)
    BY <1>1, <1>2, <1>3, <2>2, EdgeReady
  <2> QED BY <2>1, <2>3
<1> QED BY <1>3, <1>4

\* What comes just after an instruction that goes on starts from what that one left.
LEMMA NextEntry ==
  ASSUME BlockInv, Laid, PassInv, phase = "run", NEW i \in DOMAIN insts, insts[i].alive, GoesOn(i), i + 1 \in DOMAIN insts
  PROVE  /\ i + 1 \in Succ(insts, i)
         /\ insts[i + 1].f_entry = IF insts[i + 1].barrier THEN Unknown ELSE insts[i].f_exit
<1>1. InstsOK /\ LiveOK /\ phase \notin Early /\ Linked(size) /\ i \in Nat /\ size \in Nat /\ DOMAIN insts = 0 .. size - 1
  BY DEF BlockInv, Laid, Early, InstsOK
<1>2. insts[i].has_next
  BY <1>1 DEF Laid
<1>3. PICK k : k = i + 1
  OBVIOUS
<1>4. k \in Nat /\ k > 0 /\ k - 1 = i /\ i < size /\ i # NoInst /\ k \in DOMAIN insts
  BY <1>1, <1>3 DEF NoInst
<1>5. k \in Succ(insts, i)
  BY <1>2, <1>3, <1>4 DEF Succ
<1>6. Has(insts[k].pred, k - 1)
  BY <1>1, <1>4, <1>5 DEF Linked, HasPred
<1>7. NominalPred(insts, k) = k - 1
  BY <1>1, <1>4, <1>6, NominalIs
<1>8. insts[k].alive
  BY <1>1, <1>5 DEF LiveOK
<1>9. insts[k].f_entry = ResetF(insts, k)
  BY <1>4, <1>8 DEF PassInv, Entered
<1> QED BY <1>3, <1>4, <1>5, <1>7, <1>9 DEF ResetF

LEMMA AfterRun ==
  ASSUME BlockInv, CodeInv, Laid, TameBlock, PassInv, RunInv, After
  PROVE  RunInv'
<1>1. phase = "run" /\ insts' = insts /\ code' = code /\ run.ops = <<>>
  BY DEF After
<1>2. PICK i : i = run.at
  OBVIOUS
<1>3. /\ run \in Runs /\ insts[i].alive /\ code \in Code /\ i \in DOMAIN insts
      /\ run.ok \in [Flags -> BOOLEAN] /\ run.df \in [Flags -> Dfs] /\ run.taken \in BOOLEAN
  BY <1>1, <1>2 DEF CodeInv, Runs, Dfs
<1>4. InstsOK /\ LiveOK /\ phase \notin Early /\ size \in Nat /\ DOMAIN insts = 0 .. size - 1 /\ i \in Nat
      /\ NoInst \notin DOMAIN insts /\ (i + 1 \notin DOMAIN insts => i = size - 1)
  BY <1>1, <1>3 DEF BlockInv, Early, InstsOK, NoInst
<1>5. run.taken => op(i).kind \in {"jcc", "jmp"}
  BY <1>1, <1>2 DEF RunInv
<1>6. ~ run.taken => \A fl \in Flags : End(i, insts[i].f_exit, fl, run.ok[fl], run.df[fl])
  BY <1>1, <1>2 DEF RunInv, Good6
<1>7. ~ run.taken /\ op(i).kind # "native" =>
        \A fl \in Flags : /\ Handed(i, fl, run.ok[fl], run.df[fl])
                          /\ insts[i].f_exit.dfnone => run.df[fl] = "no"
  BY <1>6 DEF End, Handed
<1>8. CASE ~ run.taken /\ op(i).kind \in {"next", "jcc"} /\ GoTo(i + 1, run)
  <2>1. GoesOn(i) /\ op(i).kind # "native"
    BY <1>8 DEF GoesOn
  <2>2. PICK k : k = i + 1
    OBVIOUS
  <2>3. k \in DOMAIN insts => insts[k].alive /\ \A fl \in Flags : Ready(k, insts[k].f_entry, fl, run.ok[fl], run.df[fl])
    <3> SUFFICES ASSUME k \in DOMAIN insts
                 PROVE  insts[k].alive /\ \A fl \in Flags : Ready(k, insts[k].f_entry, fl, run.ok[fl], run.df[fl])
      OBVIOUS
    <3>1. k \in Succ(insts, i) /\ insts[k].f_entry = IF insts[k].barrier THEN Unknown ELSE insts[i].f_exit
      BY <1>1, <1>3, <2>1, <2>2, NextEntry
    <3>2. \A fl \in Flags : insts[k].f_entry.dfnone => run.df[fl] = "no"
      BY <1>7, <1>8, <2>1, <3>1 DEF Unknown
    <3> QED BY <1>1, <1>3, <1>7, <1>8, <2>1, <3>1, <3>2, FollowReady
  <2>4. k \notin DOMAIN insts => \A fl \in Flags : Rec(run.ok[fl], run.df[fl])
    <3> SUFFICES ASSUME k \notin DOMAIN insts, NEW fl \in Flags PROVE Rec(run.ok[fl], run.df[fl])
      OBVIOUS
    <3>1. Wanted(i)
      BY <1>1, <1>4, <2>1, <2>2 DEF Laid
    <3>2. Handed(i, fl, run.ok[fl], run.df[fl])
      BY <1>7, <1>8, <2>1
    <3> QED BY <1>3, <3>1, <3>2, WantedRec
  <2> QED BY <1>1, <1>3, <1>8, <2>2, <2>3, <2>4, GoToRun
<1>9. CASE /\ ~ run.taken /\ op(i).kind \in {"jcc", "jmp"}
           /\ run' = [run EXCEPT !.ops = code[i].taken, !.taken = TRUE] /\ UNCHANGED phase
  <2>1. run'.at = i /\ run'.ops = code[i].taken /\ run'.taken /\ run'.ok = run.ok /\ run'.df = run.df
    BY <1>2, <1>3, <1>9 DEF Runs
  <2>2. PICK j, h : j = insts[i].jmp_insts /\ h = insts[i].f_exit
    OBVIOUS
  <2>3. code[i].taken = TakenOps(i, h)
    BY <1>1, <1>3, <2>2 DEF PassInv, Coded
  <2>4. code[i].taken \in {<<>>, <<"update">>}
    BY <2>3 DEF TakenOps
  <2>5. j = NoInst \/ ~ insts[j].f_entry.dfnone \/ h.dfnone \/ code[i].taken = <<"update">>
    BY <2>2, <2>3 DEF TakenOps, NeedsTransform, Transforms
  <2>6. ASSUME NEW fl \in Flags
        PROVE  /\ Handed(i, fl, run.ok[fl], run.df[fl])'
               /\ j = NoInst \/ ~ insts[j].f_entry.dfnone \/ run.df[fl] = "no" \/ code[i].taken = <<"update">>
    <3>1. PICK o, d : o = run.ok[fl] /\ d = run.df[fl]
      OBVIOUS
    <3>2. Handed(i, fl, o, d) /\ (h.dfnone => d = "no")
      BY <1>7, <1>9, <2>2, <3>1
    <3>3. Handed(i, fl, o, d)'
      BY <1>1, <3>2 DEF Handed, Held, Rec
    <3> QED BY <2>1, <2>5, <3>1, <3>2, <3>3
  <2>7. op(i)' = op(i)
    BY <1>1 DEF op
  <2> QED BY <1>1, <1>9, <2>1, <2>2, <2>4, <2>6, <2>7 DEF RunInv
<1>10. CASE run.taken /\ GoTo(insts[i].jmp_insts, run)
  <2>1. PICK k : k = insts[i].jmp_insts
    OBVIOUS
  <2>2. op(i).kind # "native" /\ op(i).kind \in {"jcc", "jmp"}
    BY <1>5, <1>10
  <2>3. \A fl \in Flags : /\ Handed(i, fl, run.ok[fl], run.df[fl])
                          /\ k = NoInst \/ ~ insts[k].f_entry.dfnone \/ run.df[fl] = "no"
    BY <1>1, <1>2, <1>10, <2>1 DEF RunInv
  <2>4. k \in {NoInst} \cup DOMAIN insts
    BY <1>3, <1>4, <2>1 DEF InstsOK, Inst
  <2>5. k \in DOMAIN insts => insts[k].alive /\ \A fl \in Flags : Ready(k, insts[k].f_entry, fl, run.ok[fl], run.df[fl])
    <3> SUFFICES ASSUME k \in DOMAIN insts
                 PROVE  insts[k].alive /\ \A fl \in Flags : Ready(k, insts[k].f_entry, fl, run.ok[fl], run.df[fl])
      OBVIOUS
    <3>1. k # NoInst /\ k \in Succ(insts, i)
      BY <1>4, <2>1 DEF Succ
    <3> QED BY <1>1, <1>3, <2>2, <2>3, <3>1, FollowReady
  <2>6. k \notin DOMAIN insts => \A fl \in Flags : Rec(run.ok[fl], run.df[fl])
    <3> SUFFICES ASSUME k \notin DOMAIN insts, NEW fl \in Flags PROVE Rec(run.ok[fl], run.df[fl])
      OBVIOUS
    <3>1. Wanted(i)
      BY <1>1, <1>3, <2>1, <2>2, <2>4 DEF Laid
    <3> QED BY <1>3, <2>3, <3>1, WantedRec
  <2> QED BY <1>1, <1>3, <1>10, <2>1, <2>5, <2>6, GoToRun
<1>11. CASE op(i).kind = "ret" /\ GoTo(NoInst, run)
  <2>1. ~ run.taken
    BY <1>5, <1>11
  <2>2. \A fl \in Flags : Rec(run.ok[fl], run.df[fl])
    BY <1>6, <1>11, <2>1 DEF End
  <2> QED BY <1>1, <1>3, <1>4, <1>11, <2>2, GoToRun
<1>12. CASE op(i).kind = "native" /\ \E d \in SUBSET Flags : GoTo(i + 1, Unspecified(d))
  <2>1. PICK c \in SUBSET Flags : GoTo(i + 1, Unspecified(c))
    BY <1>12
  <2>2. PICK k, p : k = i + 1 /\ p = Unspecified(c)
    OBVIOUS
  <2>3. p.ok \in [Flags -> BOOLEAN] /\ p.df \in [Flags -> Dfs] /\ \A fl \in Flags : p.ok[fl] = TRUE /\ p.df[fl] \in {"no", "ok"}
    BY <2>2 DEF Unspecified, Dfs
  <2>4. \A fl \in Flags : Held(p.ok[fl], p.df[fl]) /\ Rec(p.ok[fl], p.df[fl])
    BY <2>3 DEF Held, Rec
  <2>5. k \in DOMAIN insts => insts[k].alive /\ \A fl \in Flags : Ready(k, insts[k].f_entry, fl, p.ok[fl], p.df[fl])
    <3> SUFFICES ASSUME k \in DOMAIN insts
                 PROVE  insts[k].alive /\ \A fl \in Flags : Ready(k, insts[k].f_entry, fl, p.ok[fl], p.df[fl])
      OBVIOUS
    <3>1. GoesOn(i)
      BY <1>12 DEF GoesOn
    <3>2. insts[k].f_entry = IF insts[k].barrier THEN Unknown ELSE insts[i].f_exit
      BY <1>1, <1>3, <2>2, <3>1, NextEntry
    <3>3. insts[k].barrier
      <4>1. k > 0 /\ k - 1 = i /\ Kind(insts[k - 1]) = "native"
        BY <1>4, <1>12, <2>2 DEF Kind, op
      <4> QED BY <4>1 DEF Laid, Barriers
    <3>4. ~ insts[k].f_entry.dfnone
      BY <3>2, <3>3 DEF Unknown
    <3>5. insts[k].alive
      BY <1>3, <1>4, <2>2, <3>1 DEF LiveOK
    <3> QED BY <2>4, <3>4, <3>5 DEF Ready
  <2> QED BY <1>1, <2>1, <2>2, <2>3, <2>4, <2>5, GoToRun
<1> QED BY <1>2, <1>8, <1>9, <1>10, <1>11, <1>12 DEF After

-----------------------------------------------------------------------------
(***************************************************************************)
(* The theorems.                                                           *)
(***************************************************************************)
\* A block that is there, laid out and, when it is tame, compiled and run right.
KeptInv == FlagsInv /\ Laid /\ (TameBlock => PassInv /\ RunInv)

LEMMA TameSame ==
  ASSUME InstsOK, size > 0, SameFlow, TameBlock'
  PROVE  TameBlock
<1>1. DOMAIN insts' = DOMAIN insts /\ 0 \in DOMAIN insts
  BY DEF SameFlow, InstsOK
<1>2. \A i \in DOMAIN insts : insts'[i].op = insts[i].op /\ insts'[i].pred = insts[i].pred /\ insts'[i].alive = insts[i].alive
  BY DEF SameFlow
<1>3. \A i \in DOMAIN insts : NominalPred(insts', i) = NominalPred(insts, i)
  BY <1>1, <1>2 DEF NominalPred
<1>4. \A i \in DOMAIN insts : op(i)' = op(i)
  BY <1>2 DEF op
<1>5. \A i \in DOMAIN insts \ {0} : i - 1 \in DOMAIN insts
  BY DEF InstsOK
<1>6. \A i \in DOMAIN insts \ {0} : op(i - 1).kind = "native" => \A k \in DOMAIN insts[i].pred : insts[i].pred[k] = i - 1
  <2> SUFFICES ASSUME NEW i \in DOMAIN insts \ {0}, op(i - 1).kind = "native"
               PROVE  \A k \in DOMAIN insts[i].pred : insts[i].pred[k] = i - 1
    OBVIOUS
  <2>1. PICK j : j = i - 1
    OBVIOUS
  <2>2. op(j)' = op(j)
    BY <1>4, <1>5, <2>1
  <2> QED BY <1>1, <1>2, <2>1, <2>2 DEF TameBlock
<1> QED BY <1>1, <1>2, <1>3, <1>6 DEF TameBlock

\* What the passes found out stays while the block does not change.
LEMMA PassSame ==
  ASSUME InstsOK, insts' = insts, NEW i \in DOMAIN insts
  PROVE  /\ Entered(i) => Entered(i)'
         /\ code' = code /\ Coded(i) => Coded(i)'
<1>1. SameFlow /\ SameNeeds
  BY SameBlock DEF SameNeeds
<1>2. PICK g, h : g = insts[i].f_entry /\ h = insts[i].f_exit
  OBVIOUS
<1>3. EmitInst(i, insts[i].f_entry)' = EmitInst(i, g) /\ TakenOps(i, insts[i].f_exit)' = TakenOps(i, h)
  <2>1. EmitInst(i, g)' = EmitInst(i, g)
    BY EmitSame
  <2> QED BY <1>2, <2>1 DEF TakenOps
<1>4. Entered(i) => Entered(i)'
  BY <1>1, EnteredKeeps
<1> QED BY <1>2, <1>3, <1>4 DEF Coded

LEMMA NextPassPasses ==
  ASSUME BlockInv, CodeInv, PassInv, NextPass
  PROVE  PassInv'
<1>1. phase \in {"pass1", "pass2"} /\ ninst = size /\ insts' = insts /\ ninst' = 0 /\ f' = Unknown
      /\ phase' = (IF phase = "pass1" THEN "pass2" ELSE "ready") /\ (phase = "pass2" => code' = code)
  BY DEF NextPass
<1>2. InstsOK /\ LiveOK /\ phase \notin Early /\ size > 0 /\ size' = size
  BY <1>1 DEF BlockInv, Early, size
<1>3. \A i \in DOMAIN insts : i < size /\ ~ i < 0
  BY <1>2 DEF InstsOK
<1>4. insts[0].alive /\ ResetF(insts, 0) = Unknown
  BY <1>2 DEF LiveOK, ResetF, NominalPred
<1>5. \A i \in DOMAIN insts : insts[i].alive => Entered(i)'
  BY <1>1, <1>2, <1>3, PassSame DEF PassInv
<1>6. phase = "pass2" => \A i \in DOMAIN insts : insts[i].alive => Coded(i)'
  BY <1>1, <1>2, <1>3, PassSame DEF PassInv
<1> QED BY <1>1, <1>2, <1>3, <1>4, <1>5, <1>6 DEF PassInv

\* The block does not change while it runs.
LEMMA RunPasses ==
  ASSUME BlockInv, PassInv, insts' = insts, code' = code, phase \in {"ready", "run", "left"}, phase' \in {"ready", "run", "left"}
  PROVE  PassInv'
<1>1. InstsOK
  BY DEF BlockInv
<1>2. \A i \in DOMAIN insts : insts[i].alive => Entered(i)' /\ Coded(i)'
  BY <1>1, PassSame DEF PassInv
<1> QED BY <1>2 DEF PassInv

LEMMA SameLaid ==
  ASSUME BlockInv, Laid, insts' = insts, phase \notin Early \cup {"preds", "need"}, phase' \notin Early \cup {"preds", "need"}
  PROVE  Laid'
<1>1. InstsOK /\ size > 0 /\ phase \notin Early /\ phase' \notin Early /\ Linked(size) /\ Reached /\ Steady
  BY SameSteady DEF BlockInv, Laid, Early
<1>2. SameFlow /\ SameNeeds /\ Linked(size)'
  BY <1>1, SameBlock DEF SameNeeds
<1>3. Reached'
  BY <1>1, <1>2, ReachedKeeps
<1> QED BY <1>1, <1>2, <1>3, LaterLaid

LEMMA PassLaid ==
  ASSUME BlockInv, Laid, NEW step \in {"pass1", "pass2"}, Pass(step), step = "pass2" => code \in Code
  PROVE  Laid' /\ SameFlow
<1>1. phase = step /\ phase' = step /\ InstsOK /\ LiveOK /\ size > 0 /\ phase \notin Early /\ phase' \notin Early
      /\ Linked(size) /\ Reached
  BY DEF Pass, BlockInv, Early, Laid
<1>2. SameFlow /\ SameNeeds /\ Reached'
  BY <1>1, PassKeeps
<1>3. Linked(size)'
  BY <1>1, <1>2, SameFlowKeeps
<1>4. Steady
  BY <1>2 DEF Steady, SameFlow, SameNeeds, Wanted, op
<1>5. Laid'
  BY <1>1, <1>2, <1>3, <1>4, LaterLaid DEF SameFlow
<1> QED BY <1>2, <1>5

LEMMA InitKept == Init => KeptInv
<1> SUFFICES ASSUME Init PROVE KeptInv
  OBVIOUS
<1>1. phase = "pass0" /\ insts = <<>> /\ fwd = <<>>
  BY DEF Init
<1>2. \A i \in DOMAIN insts : FALSE
  BY <1>1
<1>3. Laid
  BY <1>1, <1>2 DEF Laid, Barriers, Early
<1>4. PassInv /\ RunInv
  BY <1>1 DEF PassInv, RunInv
<1> QED BY <1>3, <1>4, InitInv DEF KeptInv

LEMMA NextKept == KeptInv /\ [Next]_vars => KeptInv'
<1> SUFFICES ASSUME KeptInv, [Next]_vars PROVE KeptInv'
  OBVIOUS
<1>1. BlockInv /\ FlowInv /\ CodeInv /\ Laid /\ (TameBlock => PassInv /\ RunInv)
  BY DEF KeptInv, FlagsInv
<1>2. FlagsInv'
  BY NextInv DEF KeptInv
<1>3. BlockInv' /\ FlowInv' /\ CodeInv'
  BY <1>2 DEF FlagsInv
<1>4. phase' \in Early \cup {"preds", "need"} => PassInv' /\ RunInv'
  BY DEF PassInv, RunInv, Early
<1>5. CASE DecodeAny
  <2>1. PICK o \in DOMAIN Repertoire, j \in Int : Decode(o, j)
    <3>1. PICK fam \in Families : \E o \in fam.ops :
            IF Repertoire[o].kind \in {"jcc", "jmp"} THEN \E j \in Targets : Decode(o, j) ELSE Decode(o, Out - 1)
      BY <1>5 DEF DecodeAny
    <3>2. fam.ops \subseteq DOMAIN Repertoire
      BY FamiliesAssumption
    <3>3. Out - 1 \in Int
      BY DEF Out
    <3> QED BY <3>1, <3>2, <3>3, TargetsAssumption
  <2>2. Laid'
    BY <1>1, <2>1, DecodeLaid
  <2>3. phase' \in Early
    <3>1. phase = "pass0"
      BY <2>1 DEF Decode
    <3> QED BY <2>1, <3>1 DEF Decode, GoOn, EndPass0, Early
  <2> QED BY <1>2, <1>4, <2>2, <2>3 DEF KeptInv
<1>6. CASE Stop
  <2>1. Laid' /\ phase' = "link"
    BY <1>1, <1>6, StopLaid DEF Stop, EndPass0
  <2> QED BY <1>2, <1>4, <2>1 DEF KeptInv, Early
<1>7. CASE ResolveJumps
  <2>1. Laid' /\ phase' = "alive"
    BY <1>1, <1>7, ResolveLaid DEF ResolveJumps
  <2> QED BY <1>2, <1>4, <2>1 DEF KeptInv, Early
<1>8. CASE MarkAlive
  <2>1. Laid' /\ phase' = "preds"
    BY <1>1, <1>8, MarkLaid DEF MarkAlive
  <2> QED BY <1>2, <1>4, <2>1 DEF KeptInv
<1>9. CASE FillPredecessors
  <2>1. Laid' /\ phase' = "preds"
    BY <1>1, <1>9, FillLaid DEF FillPredecessors
  <2> QED BY <1>2, <1>4, <2>1 DEF KeptInv
<1>10. CASE StartNeed
  <2>1. Laid' /\ phase' = "need"
    BY <1>1, <1>10, StartLaid DEF StartNeed
  <2> QED BY <1>2, <1>4, <2>1 DEF KeptInv
<1>11. CASE UpdateNeed
  <2>1. phase' \in {"need", "pass1"}
    BY <1>11 DEF UpdateNeed, VisitInst, VisitPred, VisitBefore, Return
  <2>2. Laid' /\ ninst' = 0 /\ (phase' = "pass1" => f' = Unknown)
    BY <1>1, <1>3, <1>11, <2>1, UpdateLaid DEF FlowInv
  <2>3. CASE phase' = "pass1"
    <3>1. insts'[0].alive /\ \A i \in DOMAIN insts' : ~ i < 0
      BY <1>3, <2>3 DEF BlockInv, LiveOK, Early, InstsOK
    <3>2. ResetF(insts', 0) = Unknown
      BY DEF ResetF, NominalPred
    <3>3. PassInv' /\ RunInv'
      BY <2>2, <2>3, <3>1, <3>2 DEF PassInv, RunInv
    <3> QED BY <1>2, <2>2, <3>3 DEF KeptInv
  <2> QED BY <1>2, <1>4, <2>1, <2>2, <2>3 DEF KeptInv
<1>12. ASSUME NEW step \in {"pass1", "pass2"}, Pass(step) PROVE KeptInv'
  <2>1. phase = step /\ phase' = step /\ size > 0 /\ InstsOK /\ (step = "pass2" => code \in Code)
    BY <1>1, <1>12 DEF Pass, BlockInv, CodeInv
  <2>2. Laid' /\ SameFlow
    BY <1>1, <1>12, <2>1, PassLaid
  <2>3. ASSUME TameBlock' PROVE PassInv' /\ RunInv'
    <3>1. TameBlock
      BY <2>1, <2>2, <2>3, TameSame
    <3>2. PassInv'
      BY <1>1, <1>12, <2>1, <3>1, PassPasses
    <3> QED BY <2>1, <3>2 DEF RunInv
  <2> QED BY <1>2, <2>2, <2>3 DEF KeptInv
<1>13. ASSUME insts' = insts, phase \notin Early \cup {"preds", "need"}, phase' \notin Early \cup {"preds", "need"},
              PassInv /\ RunInv /\ TameBlock => PassInv' /\ RunInv'
       PROVE  KeptInv'
  <2>1. InstsOK /\ size > 0 /\ SameFlow
    BY <1>1, <1>13, SameBlock DEF BlockInv, Early
  <2>2. Laid'
    BY <1>1, <1>13, SameLaid
  <2>3. TameBlock' => TameBlock
    BY <2>1, TameSame
  <2> QED BY <1>1, <1>2, <1>13, <2>2, <2>3 DEF KeptInv
<1>14. CASE NextPass
  <2>1. insts' = insts /\ phase \in {"pass1", "pass2"} /\ phase' \in {"pass2", "ready"}
    BY <1>14 DEF NextPass
  <2>2. PassInv => PassInv'
    BY <1>1, <1>14, NextPassPasses
  <2>3. RunInv'
    BY <2>1 DEF RunInv
  <2> QED BY <1>13, <2>1, <2>2, <2>3 DEF Early
<1>15. CASE Enter \/ Step \/ After \/ Again
  <2>1. insts' = insts /\ code' = code /\ phase \in {"ready", "run", "left"} /\ phase' \in {"ready", "run", "left"}
    BY <1>15 DEF Enter, Step, After, Again, GoTo
  <2>2. PassInv => PassInv'
    BY <1>1, <2>1, RunPasses
  <2>3. Again => RunInv'
    BY DEF Again, RunInv
  <2>4. PassInv /\ RunInv /\ TameBlock => RunInv'
    BY <1>1, <1>15, <2>3, EnterRun, StepRun, AfterRun
  <2> QED BY <1>13, <2>1, <2>2, <2>4 DEF Early
<1>16. CASE UNCHANGED vars
  <2>1. UNCHANGED <<phase, insts, fwd, stack, ninst, f, code, run>>
    BY <1>16 DEF vars
  <2>2. InstsOK
    BY <1>1 DEF BlockInv
  <2>3. Laid'
    <3>1. Reached' = Reached
      BY <2>1 DEF Reached, Solved, Met, op
    <3>2. Linked(size)' = Linked(size)
      BY <2>1 DEF Linked, HasPred, size
    <3> QED BY <1>1, <2>1, <3>1, <3>2 DEF Laid, Barriers, Wanted, GoesOn, op, size
  <2>4. TameBlock' = TameBlock
    BY <2>1 DEF TameBlock, op
  <2>5. PassInv => PassInv'
    <3>1. \A i \in DOMAIN insts : (Entered(i) => Entered(i)') /\ (Coded(i) => Coded(i)')
      BY <2>1, <2>2, PassSame
    <3> QED BY <2>1, <3>1 DEF PassInv, size
  <2>6. RunInv => RunInv'
    <3>1. PICK i, h, s : i = run.at /\ h = insts[run.at].f_exit /\ s = run.ops
      OBVIOUS
    <3>2. \A fl, o, d : Good6(i, h, s, fl, o, d)' <=> Good6(i, h, s, fl, o, d)
      BY <2>1, GoodSame
    <3>3. op(i)' = op(i) /\ \A fl, o, d : Handed(i, fl, o, d)' <=> Handed(i, fl, o, d)
      BY <2>1 DEF op, Handed, Held, Rec
    <3> QED BY <2>1, <3>1, <3>2, <3>3 DEF RunInv, Rec
  <2> QED BY <1>1, <1>2, <2>3, <2>4, <2>5, <2>6 DEF KeptInv
<1> QED BY <1>5, <1>6, <1>7, <1>8, <1>9, <1>10, <1>11, <1>12, <1>14, <1>15, <1>16 DEF Next

\* The invariant holds in every state.
LEMMA KeptInvAlways == Spec => []KeptInv
BY InitKept, NextKept, PTL DEF Spec

(* In a tame block, of any length and with jumps and loops anywhere, the   *)
(* code that passes 1 to 3 emit reads a flag from xFlags only when xFlags  *)
(* holds its value, on every path and whatever was deferred when the block *)
(* was entered (READFLAGS, the entry of arm_pass, flagsCacheTransform).    *)
THEOREM ReadsFreshTame == Spec => [](TameBlock => ReadsFresh)
<1>1. KeptInv => (TameBlock => ReadsFresh)
  <2> SUFFICES ASSUME KeptInv, TameBlock, phase = "run", run.ops # <<>>, Head(run.ops) = "read",
                      NEW fl \in op(run.at).use \cap Flags
               PROVE  run.ok[fl]
    BY DEF ReadsFresh
  <2>1. CodeInv /\ RunInv
    BY DEF KeptInv, FlagsInv
  <2>2. CASE run.taken
    <3>1. run.ops = <<"update">>
      BY <2>1, <2>2 DEF RunInv
    <3> QED BY <3>1
  <2>3. CASE ~ run.taken
    <3>1. Good6(run.at, insts[run.at].f_exit, run.ops, fl, run.ok[fl], run.df[fl])
      BY <2>1, <2>3 DEF RunInv
    <3> QED BY <3>1 DEF Good6, Reads
  <2> QED BY <2>2, <2>3
<1> QED BY <1>1, KeptInvAlways, PTL

(* A tame block is left, by a jump, a return, its end or the return of a   *)
(* native call, with every flag recoverable: in xFlags or, by UpdateFlags, *)
(* from what the block deferred (SETFLAGS, SET_DF and SET_DFNONE, after    *)
(* the needs that FillBlock and updateNeed computed).                      *)
THEOREM FlagsKeptTame == Spec => [](TameBlock => FlagsKept)
<1>1. KeptInv => (TameBlock => FlagsKept)
  <2> SUFFICES ASSUME KeptInv, TameBlock, phase = "left", NEW fl \in Flags PROVE Applied(run).ok[fl]
    BY DEF FlagsKept
  <2>1. run \in Runs /\ Rec(run.ok[fl], run.df[fl])
    BY DEF KeptInv, FlagsInv, CodeInv, RunInv
  <2>2. PICK k : k = [z \in Flags |-> IF run.df[z] = "no" THEN run.ok[z] ELSE run.df[z] = "ok"]
    OBVIOUS
  <2>3. Applied(run).ok = k
    BY <2>1, <2>2 DEF Applied, Runs
  <2>4. k[fl] <=> Rec(run.ok[fl], run.df[fl])
    BY <2>2 DEF Rec
  <2> QED BY <2>1, <2>3, <2>4
<1> QED BY <1>1, KeptInvAlways, PTL
=============================================================================
