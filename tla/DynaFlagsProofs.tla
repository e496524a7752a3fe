-------------------------- MODULE DynaFlagsProofs --------------------------
(***************************************************************************)
(* What the passes of FillBlock keep, for blocks of any length and any     *)
(* jumps in them: updateNeed reaches a solution of its equations.          *)
(***************************************************************************)
EXTENDS DynaFlags, NaturalsInduction, WellFoundedInduction, FiniteSetTheorems, SequenceTheorems, TLAPS

-----------------------------------------------------------------------------
(***************************************************************************)
(* The inductive invariant.                                                *)
(***************************************************************************)
\* dyn->insts while it grows, and what it keeps when it is complete.
Inst(D) ==
  [op : DOMAIN Repertoire, jmp : Int, jmp_insts : {NoInst} \cup D, has_next : BOOLEAN,
   alive : BOOLEAN, barrier : BOOLEAN, pred : Seq(D), need_before : Needs, need_after : Needs,
   gen : Needs, f_entry : F, f_exit : F]

InstsOK == /\ size \in Nat /\ size <= MaxInsts /\ DOMAIN insts = 0 .. size - 1
           /\ insts \in [DOMAIN insts -> Inst(DOMAIN insts)]

Phases == {"pass0", "link", "alive", "preds", "need", "pass1", "pass2", "ready", "run", "left"}

Early == {"pass0", "link", "alive"}

\* Before the predecessors are filled in, nothing is computed.
Fresh == phase \in Early \cup {"preds"} =>
           \A i \in DOMAIN insts : /\ insts[i].need_before = {} /\ insts[i].gen = {}
                                   /\ phase \in Early => insts[i].pred = <<>>
                                   /\ phase \in {"pass0", "link"} => insts[i].jmp_insts = NoInst

GoesOn(i) == op(i).kind \notin {"jmp", "ret"}

\* What is live, and what comes after it, once recurse_mark_alive has run.
LiveOK ==
  /\ phase \in Early => \A i \in DOMAIN insts : insts[i].has_next <=> GoesOn(i)
  /\ phase \notin Early =>
       /\ insts[0].alive
       /\ \A i \in DOMAIN insts : insts[i].alive =>
            /\ \A j \in Succ(insts, i) : insts[j].alive
            /\ GoesOn(i) /\ i + 1 \in DOMAIN insts => insts[i + 1].alive
  /\ \A i \in DOMAIN insts : \A k \in DOMAIN insts[i].pred : insts[insts[i].pred[k]].alive

FrameSet == [ninst : DOMAIN insts, need : Needs, at : Nat]

\* The block, as far as it is known.
BlockInv ==
  /\ phase \in Phases
  /\ InstsOK
  /\ f \in F
  /\ ninst \in 0 .. size /\ (phase \in Early => ninst = 0)
  /\ fwd # <<>> => fwd[2] \in DOMAIN insts
  /\ phase # "pass0" => size > 0
  /\ IF phase = "need" THEN stack \in Seq(FrameSet) /\ stack # <<>> ELSE stack = <<>>
  /\ Fresh
  /\ LiveOK

Has(s, x) == \E k \in DOMAIN s : s[k] = x

HasPred(i, j) == Has(insts[j].pred, i)

\* The live instructions before the n-th are among the predecessors of their successors.
Linked(n) == \A i \in DOMAIN insts : i < n /\ insts[i].alive => \A j \in Succ(insts, i) : HasPred(i, j)

AskedOf(j) == Asked(insts[j], insts[j].need_before)

\* A call of updateNeed that has visited j will still ask i for what j needs: in
\* its loop over the predecessors or, when i comes just before j, after it.
WillAsk(fr, i, j) ==
  /\ fr.at > 0 /\ fr.ninst = j /\ AskedOf(j) \subseteq fr.need
  /\ i # j - 1 => \E m \in DOMAIN insts[j].pred : m >= fr.at /\ insts[j].pred[m] = i

\* Or the innermost call is asking i.
Asks(fr, i, j) == fr.at = 0 /\ fr.ninst = i /\ AskedOf(j) \subseteq fr.need

Pending(i, j) == \/ \E k \in 1 .. Len(stack) : WillAsk(stack[k], i, j)
                 \/ Asks(Top, i, j)

\* The loop of FillBlock has been through all above the instruction of the
\* outermost call, and what is needed is asked for or will be.
NeedOK ==
  /\ Linked(size)
  /\ \A i \in DOMAIN insts : i > stack[1].ninst \/ (i = stack[1].ninst /\ stack[1].at > 0) => Solved(i)
  /\ \A i \in DOMAIN insts : insts[i].alive => \A j \in Succ(insts, i) : Met(i, j) \/ Pending(i, j)

Reached == /\ \A i \in DOMAIN insts : Solved(i)
           /\ \A i \in DOMAIN insts : insts[i].alive => \A j \in Succ(insts, i) : Met(i, j)

FlowInv ==
  /\ phase = "preds" => Linked(ninst)
  /\ phase = "need" => NeedOK
  /\ phase \in {"pass1", "pass2"} => Reached

-----------------------------------------------------------------------------
(***************************************************************************)
(* The instructions.                                                       *)
(***************************************************************************)
States == {"UNKNOWN", "SET_PENDING", "SUBSET_PENDING", "PENDING", "SUBSET", "SET_NODF", "SET_DF"}

OpSet == [use : Needs, set : SUBSET Flags, state : States, may : BOOLEAN, skips : BOOLEAN,
          emit : {"-", "lazy", "mul", "none", "bare", "call"},
          kind : {"next", "jcc", "jmp", "ret", "native"}]

LEMMA RepertoireOK ==
  ASSUME NEW o \in DOMAIN Repertoire
  PROVE  Repertoire[o] \in OpSet
<1>1. NoFlags \in OpSet
  BY DEF NoFlags, OpSet, Needs, States
<1>2. {"CF"} \in Needs /\ {"PF"} \in Needs /\ {"PEND"} \in Needs /\ Flags \in Needs /\ {"CF"} \in SUBSET Flags
      /\ Flags \ {"CF"} \in SUBSET Flags
  BY FlagsAssumption DEF Needs
<1>3. NOP \in OpSet /\ ADD \in OpSet /\ INC \in OpSet /\ MUL \in OpSet
  BY <1>1, <1>2 DEF NOP, ADD, INC, MUL, OpSet, States
<1>4. ADC \in OpSet /\ SHL_CL \in OpSet
  <2>1. ADC \in OpSet
    BY <1>2, <1>3 DEF ADC, OpSet
  <2>2. \A m \in BOOLEAN : [ADD EXCEPT !.may = m, !.skips = TRUE] \in OpSet
    BY <1>3 DEF OpSet
  <2>3. (SafeFlags > 1) \in BOOLEAN
    BY SafeFlagsAssumption
  <2> QED BY <2>1, <2>2, <2>3, Zenon DEF SHL_CL
<1>5. CLC \in OpSet /\ CMC \in OpSet /\ POPF \in OpSet /\ DAA \in OpSet /\ PUSHF \in OpSet
  BY <1>1, <1>2 DEF CLC, CMC, POPF, DAA, PUSHF, OpSet, States
<1>6. Jcc("CF") \in OpSet /\ Jcc("PF") \in OpSet /\ JECXZ \in OpSet /\ JMP \in OpSet
      /\ NativeCall \in OpSet
  BY <1>1, <1>2 DEF Jcc, JECXZ, JMP, NativeCall, OpSet, States
<1>7. RET \in OpSet
  <2>1. CASE SafeFlags = 0
    <3>1. RET = [NoFlags EXCEPT !.use = {}, !.kind = "ret"]
      BY <2>1 DEF RET
    <3>2. {} \in Needs
      BY DEF Needs
    <3> QED BY <1>1, <3>1, <3>2 DEF OpSet
  <2>2. CASE SafeFlags # 0
    <3>1. RET = [NoFlags EXCEPT !.use = {"PEND"}, !.kind = "ret"]
      BY <2>2 DEF RET
    <3> QED BY <1>1, <1>2, <3>1 DEF OpSet
  <2> QED BY <2>1, <2>2
<1> QED BY <1>3, <1>4, <1>5, <1>6, <1>7 DEF Repertoire

-----------------------------------------------------------------------------
(***************************************************************************)
(* NeedOf: it keeps what is needed after an instruction, but for X_PEND,   *)
(* and gives the same when it is applied to its own result.                *)
(***************************************************************************)
LEMMA NeedOfType ==
  ASSUME NEW o \in OpSet, NEW a \in Needs
  PROVE  NeedOf(o, a) \in [after : Needs, gen : Needs, before : Needs]
BY FlagsAssumption DEF NeedOf, OpSet, Needs, HasPend

LEMMA NeedOfKeeps ==
  ASSUME NEW o \in OpSet, NEW a \in Needs, NEW asked
  PROVE  /\ asked \subseteq a => Turned(o, asked) \subseteq NeedOf(o, a).after
         /\ Turned(o, asked) \subseteq a => Turned(o, asked) \subseteq NeedOf(o, a).after
<1>1. PICK t : t = Turned(o, a)
  OBVIOUS
<1>2. t \subseteq NeedOf(o, a).after
  BY <1>1 DEF NeedOf, Turned
<1>3. asked \subseteq a => Turned(o, asked) \subseteq t
  BY <1>1 DEF Turned
<1>4. Turned(o, asked) \subseteq a => Turned(o, asked) \subseteq t
  BY <1>1, FlagsAssumption DEF Turned
<1> QED BY <1>2, <1>3, <1>4

LEMMA NeedOfTwice ==
  ASSUME NEW o \in OpSet, NEW a \in Needs
  PROVE  NeedOf(o, NeedOf(o, a).after) = NeedOf(o, a)
<1> DEFINE first(x)  == IF "PEND" \in x /\ o.state \in NoPend THEN (x \ {"PEND"}) \cup Flags ELSE x
           second(x) == IF "PEND" \in x /\ o.state = "SUBSET_PENDING" THEN x \cup (Flags \ o.set) ELSE x
           rest(b) == LET g == (b \cap o.set) \cup (IF "PEND" \in b /\ HasPend(o.state) THEN {"PEND"} ELSE {})
                          r == b \ g
                          p == IF o.may THEN r \cup g ELSE IF "PF" \in o.set THEN r \ {"PEND"} ELSE r
                      IN  [after |-> b, gen |-> g, before |-> p \cup o.use]
<1>1. \A x : NeedOf(o, x) = rest(second(first(x)))
  BY DEF NeedOf
<1>2. \A x : rest(x).after = x
  OBVIOUS
<1>3. second(first(second(first(a)))) = second(first(a))
  <2>1. CASE o.state \in NoPend
    BY <2>1, FlagsAssumption DEF NoPend
  <2>2. CASE o.state \notin NoPend
    BY <2>2
  <2> QED BY <2>1, <2>2
<1> HIDE DEF first, second, rest
<1> QED BY <1>1, <1>2, <1>3

LEMMA AskedType ==
  ASSUME NEW inst, NEW b \in Needs
  PROVE  Asked(inst, b) \in Needs
BY DEF Asked, Needs

-----------------------------------------------------------------------------
(***************************************************************************)
(* The block while it is decoded.                                          *)
(***************************************************************************)
LEMMA SizeIs ==
  ASSUME NEW n \in Nat, NEW D, D = 0 .. n - 1
  PROVE  Cardinality(D) = n
<1>1. 0 \in Int /\ n - 1 \in Int
  OBVIOUS
<1>2. Cardinality(0 .. n - 1) = IF 0 > n - 1 THEN 0 ELSE ((n - 1) - 0) + 1
  BY <1>1, FS_Interval
<1> QED BY <1>2

\* The operation of an instruction.
LEMMA OpType ==
  ASSUME InstsOK, NEW i \in DOMAIN insts
  PROVE  op(i) \in OpSet
BY RepertoireOK DEF InstsOK, Inst, op

LEMMA UnknownType == Unknown \in F
BY DEF Unknown, F

LEMMA Pass0FType ==
  ASSUME NEW o \in OpSet, NEW g \in F
  PROVE  Pass0F(o, g) \in F
BY DEF Pass0F, F, OpSet, States

\* An instruction as pass 0 leaves it.
NewlyDecoded(x, D) ==
  /\ x \in Inst(D)
  /\ x.need_before = {} /\ x.gen = {} /\ x.pred = <<>> /\ x.jmp_insts = NoInst
  /\ x.has_next <=> Repertoire[x.op].kind \notin {"jmp", "ret"}

\* A block that pass 0 may leave in insts.
Decoded(is, n) == /\ DOMAIN is = 0 .. n - 1 /\ is = [i \in 0 .. n - 1 |-> is[i]]
                  /\ \A i \in 0 .. n - 1 : NewlyDecoded(is[i], 0 .. n - 1)

LEMMA InstWiden ==
  ASSUME NEW D, NEW E, D \subseteq E, NEW x, NewlyDecoded(x, D)
  PROVE  NewlyDecoded(x, E)
<1>1. <<>> \in Seq(E)
  BY EmptySeq
<1> QED BY <1>1 DEF NewlyDecoded, Inst

LEMMA Pass0Decoded ==
  ASSUME BlockInv, phase = "pass0"
  PROVE  Decoded(insts, size) /\ size \in Nat /\ size <= MaxInsts /\ stack = <<>> /\ ninst = 0 /\ f \in F
BY DEF BlockInv, InstsOK, Decoded, NewlyDecoded, Fresh, LiveOK, Early, GoesOn, op

LEMMA DecodedBlock ==
  ASSUME NEW n \in Nat, n <= MaxInsts, Decoded(insts', n), phase' \in {"pass0", "link"}, f' \in F, ninst' = 0,
         fwd' # <<>> => fwd'[2] \in DOMAIN insts', phase' = "link" => n > 0, stack' = <<>>
  PROVE  BlockInv'
<1>1. size' = n
  BY SizeIs DEF size, Decoded
<1>2. InstsOK'
  BY <1>1 DEF InstsOK, Decoded, NewlyDecoded
<1>3. Fresh' /\ LiveOK'
  BY <1>1 DEF Decoded, NewlyDecoded, Fresh, LiveOK, Early, GoesOn, op
<1> QED BY <1>1, <1>2, <1>3 DEF BlockInv, Phases

\* A set of numbers has a least one.
LEMMA LeastOf ==
  ASSUME NEW S \in SUBSET Nat, S # {}
  PROVE  \E i \in S : \A m \in S : i <= m
<1> DEFINE R == OpToRel(<, Nat)
<1>1. PICK x \in S : \A y \in S : ~ (<<y, x>> \in R)
  BY NatLessThanWellFounded, WFMin, Zenon
<1>2. \A y \in S : y < x => <<y, x>> \in R
  BY DEF OpToRel
<1> HIDE DEF R
<1>3. \A y \in S : ~ (y < x) /\ y \in Nat /\ x \in Nat
  BY <1>1, <1>2
<1> QED BY <1>3

\* The block cut after some instruction.
LEMMA PrefixDecoded ==
  ASSUME NEW is, NEW n \in Nat, Decoded(is, n), NEW k \in 0 .. n - 1
  PROVE  Decoded(Prefix(is, k + 1), k + 1)
<1>1. PICK p : p = Prefix(is, k + 1)
  OBVIOUS
<1>2. k + 1 \in Nat /\ 0 .. (k + 1) - 1 \subseteq 0 .. n - 1
  OBVIOUS
<1>3. p = [i \in 0 .. (k + 1) - 1 |-> is[i]]
  BY <1>1 DEF Prefix
<1>4. ASSUME NEW i \in 0 .. (k + 1) - 1 PROVE NewlyDecoded(p[i], 0 .. (k + 1) - 1)
  <2>1. <<>> \in Seq(0 .. (k + 1) - 1)
    BY EmptySeq
  <2>2. p[i] = is[i] /\ NewlyDecoded(is[i], 0 .. n - 1)
    BY <1>2, <1>3 DEF Decoded
  <2> QED BY <2>1, <2>2 DEF NewlyDecoded, Inst
<1> QED BY <1>1, <1>3, <1>4 DEF Decoded

\* The last instruction of a block asks for the deferred flags.
LEMMA NeedPendDecoded ==
  ASSUME NEW is, NEW n \in Nat, Decoded(is, n), NEW k \in 0 .. n - 1
  PROVE  Decoded(NeedPend(is, k), n)
<1>1. PICK p : p = NeedPend(is, k)
  OBVIOUS
<1>2. /\ DOMAIN p = DOMAIN is /\ p = [i \in 0 .. n - 1 |-> p[i]]
      /\ \A i \in 0 .. n - 1 : i # k => p[i] = is[i]
      /\ p[k] = [is[k] EXCEPT !.need_after = is[k].need_after \cup {"PEND"}]
  BY <1>1 DEF NeedPend, Decoded
<1>3. NewlyDecoded(is[k], 0 .. n - 1)
  BY DEF Decoded
<1>4. NewlyDecoded(p[k], 0 .. n - 1)
  <2>1. PICK x, y, a : x = is[k] /\ y = p[k] /\ a = is[k].need_after \cup {"PEND"}
    OBVIOUS
  <2>2. NewlyDecoded(x, 0 .. n - 1) /\ y = [x EXCEPT !.need_after = a]
    BY <1>2, <1>3, <2>1
  <2>3. a \in Needs
    BY <2>1, <2>2 DEF NewlyDecoded, Inst, Needs
  <2>4. y \in Inst(0 .. n - 1)
    BY <2>2, <2>3 DEF NewlyDecoded, Inst
  <2>5. /\ y.need_before = x.need_before /\ y.gen = x.gen /\ y.pred = x.pred /\ y.jmp_insts = x.jmp_insts
        /\ y.has_next = x.has_next /\ y.op = x.op
    BY <2>2 DEF NewlyDecoded, Inst
  <2>6. NewlyDecoded(y, 0 .. n - 1)
    BY <2>2, <2>4, <2>5 DEF NewlyDecoded
  <2> QED BY <2>1, <2>6
<1> QED BY <1>1, <1>2, <1>4 DEF Decoded

LEMMA DecodeBlock ==
  ASSUME BlockInv, NEW o \in DOMAIN Repertoire, NEW j \in Int, Decode(o, j)
  PROVE  BlockInv'
<1>1. /\ phase = "pass0" /\ size < MaxInsts /\ Decoded(insts, size) /\ size \in Nat /\ stack = <<>>
      /\ ninst = 0 /\ f \in F
  BY Pass0Decoded DEF Decode
<1>2. PICK b, k, g, ok, inst, is, next :
        /\ b = (size > 0 /\ op(size - 1).kind = "native")
        /\ k = Repertoire[o]
        /\ g = Pass0F(k, f)
        /\ ok = (k.kind \notin {"jmp", "ret"})
        /\ inst = [NewInst(o, j, b \/ k.kind = "native")
                    EXCEPT !.has_next = ok, !.f_entry = f, !.f_exit = g]
        /\ is = [n \in 0..size |-> IF n = size THEN inst ELSE insts[n]]
        /\ next = ClosestNext(is, size + 1)
  OBVIOUS
<1>3. \/ GoOn(is, FirstJumpF(is, size + 1)) /\ fwd' = <<>>
      \/ GoOn(is, g) /\ UNCHANGED fwd
      \/ fwd # <<>> /\ EndPass0(Prefix(insts, fwd[2] + 1))
      \/ EndPass0(is)
      \/ next = size + 1 /\ GoOn(is, FirstJumpF(is, next)) /\ UNCHANGED fwd
      \/ GoOn(is, Unknown) /\ fwd' = <<next, size>>
  BY <1>2 DEF Decode
<1>4. k \in OpSet /\ g \in F /\ b \in BOOLEAN /\ ok \in BOOLEAN
  BY <1>1, <1>2, RepertoireOK, Pass0FType
<1>5. PICK n : n = size + 1
  OBVIOUS
<1>6. n \in Nat /\ n <= MaxInsts /\ n > 0 /\ 0 .. size = 0 .. n - 1 /\ 0 .. size - 1 \subseteq 0 .. n - 1 /\ size \in 0 .. n - 1
  BY <1>1, <1>5, BoundAssumption
<1>7. NewlyDecoded(inst, 0 .. n - 1)
  <2>1. <<>> \in Seq(0 .. n - 1) /\ {} \in Needs
    BY EmptySeq DEF Needs
  <2> QED BY <1>1, <1>2, <1>4, <2>1, UnknownType DEF NewlyDecoded, Inst, NewInst, OpSet
<1>8. Decoded(is, n)
  <2>1. \A i \in 0 .. n - 1 : is[i] = IF i = size THEN inst ELSE insts[i]
    BY <1>2, <1>6
  <2>2. \A i \in 0 .. n - 1 : i # size => i \in 0 .. size - 1
    BY <1>1, <1>5
  <2>3. ASSUME NEW i \in 0 .. n - 1 PROVE NewlyDecoded(is[i], 0 .. n - 1)
    <3>1. CASE i = size
      BY <1>7, <2>1, <3>1
    <3>2. CASE i # size
      <4>1. NewlyDecoded(insts[i], 0 .. size - 1)
        BY <1>1, <2>2, <3>2 DEF Decoded
      <4> QED BY <1>6, <2>1, <3>2, <4>1, InstWiden
    <3> QED BY <3>1, <3>2
  <2> QED BY <1>2, <1>6, <2>3 DEF Decoded
<1>9. \A a : FirstJumpF(is, a) \in F
  <2> SUFFICES ASSUME NEW a PROVE FirstJumpF(is, a) \in F
    OBVIOUS
  <2>1. PICK js : js = {i \in DOMAIN is : is[i].jmp = a}
    OBVIOUS
  <2>2. CASE js = {}
    BY <2>1, <2>2, UnknownType DEF FirstJumpF
  <2>3. CASE js # {}
    <3>1. js \subseteq Nat /\ js \subseteq 0 .. n - 1
      BY <1>8, <2>1 DEF Decoded
    <3>2. \E i \in js : \A m \in js : i <= m
      BY <2>3, <3>1, LeastOf
    <3>3. PICK i : i = CHOOSE x \in js : \A m \in js : x <= m
      OBVIOUS
    <3>4. i \in js
      BY <3>2, <3>3
    <3>5. FirstJumpF(is, a) = is[i].f_exit
      BY <2>1, <2>3, <3>3 DEF FirstJumpF
    <3>6. is[i] \in Inst(0 .. n - 1)
      BY <1>8, <3>1, <3>4 DEF Decoded, NewlyDecoded
    <3> QED BY <3>5, <3>6 DEF Inst
  <2> QED BY <2>2, <2>3
<1>10. DOMAIN is = 0 .. n - 1 /\ DOMAIN insts = 0 .. size - 1 /\ (fwd # <<>> => fwd[2] \in 0 .. size - 1)
  BY <1>1, <1>8 DEF Decoded, BlockInv
<1>11. CASE GoOn(is, FirstJumpF(is, size + 1)) /\ fwd' = <<>>
  BY <1>1, <1>6, <1>8, <1>9, <1>11, DecodedBlock DEF GoOn
<1>12. CASE GoOn(is, g) /\ UNCHANGED fwd
  BY <1>1, <1>4, <1>6, <1>8, <1>10, <1>12, DecodedBlock DEF GoOn
<1>13. CASE fwd # <<>> /\ EndPass0(Prefix(insts, fwd[2] + 1))
  <2>1. fwd[2] \in 0 .. size - 1 /\ fwd[2] + 1 \in Nat /\ fwd[2] + 1 <= MaxInsts /\ fwd[2] + 1 > 0
    BY <1>1, <1>10, <1>13, BoundAssumption
  <2>2. Decoded(Prefix(insts, fwd[2] + 1), fwd[2] + 1)
    BY <1>1, <2>1, PrefixDecoded
  <2> QED BY <1>1, <1>13, <2>1, <2>2, UnknownType, DecodedBlock DEF EndPass0
<1>14. CASE EndPass0(is)
  BY <1>1, <1>6, <1>8, <1>14, UnknownType, DecodedBlock DEF EndPass0
<1>15. CASE next = size + 1 /\ GoOn(is, FirstJumpF(is, next)) /\ UNCHANGED fwd
  BY <1>1, <1>6, <1>8, <1>9, <1>10, <1>15, DecodedBlock DEF GoOn
<1>16. CASE GoOn(is, Unknown) /\ fwd' = <<next, size>>
  <2>1. fwd'[2] = size
    BY <1>16
  <2> QED BY <1>1, <1>6, <1>8, <1>10, <1>16, <2>1, UnknownType, DecodedBlock DEF GoOn
<1> QED BY <1>3, <1>11, <1>12, <1>13, <1>14, <1>15, <1>16

LEMMA StopBlock ==
  ASSUME BlockInv, Stop
  PROVE  BlockInv'
<1>1. phase = "pass0" /\ size > 0 /\ Decoded(insts, size) /\ size \in Nat /\ size <= MaxInsts /\ stack = <<>> /\ ninst = 0
  BY Pass0Decoded DEF Stop
<1>2. DOMAIN insts = 0 .. size - 1 /\ (fwd # <<>> => fwd[2] \in 0 .. size - 1)
  BY <1>1 DEF Decoded, BlockInv
<1>3. PICK k, n, is : /\ k \in 0 .. size - 1 /\ n \in Nat /\ n > 0 /\ n <= MaxInsts
                      /\ Decoded(is, n) /\ EndPass0(is)
  <2>1. CASE fwd = <<>> /\ EndPass0(NeedPend(insts, size - 1))
    <3>1. size - 1 \in 0 .. size - 1
      BY <1>1
    <3> QED BY <1>1, <2>1, <3>1, NeedPendDecoded
  <2>2. CASE fwd # <<>>
    <3>1. PICK m : m = fwd[2] + 1
      OBVIOUS
    <3>2. fwd[2] \in 0 .. size - 1 /\ m \in Nat /\ m <= MaxInsts /\ m > 0 /\ fwd[2] \in 0 .. m - 1
      BY <1>1, <1>2, <2>2, <3>1, BoundAssumption
    <3>3. Decoded(Prefix(insts, m), m)
      BY <1>1, <3>1, <3>2, PrefixDecoded
    <3>4. Decoded(NeedPend(Prefix(insts, m), fwd[2]), m)
      BY <3>2, <3>3, NeedPendDecoded
    <3>5. EndPass0(Prefix(insts, m)) \/ EndPass0(NeedPend(Prefix(insts, m), fwd[2]))
      BY <2>2, <3>1 DEF Stop
    <3> QED BY <3>2, <3>3, <3>4, <3>5
  <2> QED BY <2>1, <2>2 DEF Stop
<1> QED BY <1>1, <1>3, UnknownType, DecodedBlock DEF EndPass0

-----------------------------------------------------------------------------
(***************************************************************************)
(* The block when it is complete: its instructions are rewritten in place. *)
(***************************************************************************)
LEMMA Rewritten ==
  ASSUME InstsOK, insts' \in [DOMAIN insts -> Inst(DOMAIN insts)]
  PROVE  InstsOK' /\ size' = size /\ DOMAIN insts' = DOMAIN insts
<1>1. DOMAIN insts' = DOMAIN insts
  OBVIOUS
<1>2. size' = size
  BY <1>1 DEF size
<1> QED BY <1>1, <1>2 DEF InstsOK

LEMMA ResolveBlock ==
  ASSUME BlockInv, ResolveJumps
  PROVE  BlockInv'
<1>1. /\ phase = "link" /\ phase' = "alive" /\ fwd' = fwd /\ stack' = stack /\ ninst' = ninst /\ f' = f
      /\ InstsOK /\ size > 0
  BY DEF ResolveJumps, BlockInv
<1>2. \A i \in DOMAIN insts : JmpInsts(insts, i) \in {NoInst} \cup DOMAIN insts
  BY DEF JmpInsts
<1>3. PICK need : insts' = [i \in DOMAIN insts |-> [insts[i] EXCEPT !.jmp_insts = JmpInsts(insts, i), !.need_after = need[i]]]
                  /\ \A i \in DOMAIN insts : need[i] \in {insts[i].need_after, insts[i].need_after \cup {"PEND"}}
  <2> DEFINE nd == [i \in DOMAIN insts |-> IF op(i).kind \in {"jcc", "jmp"} /\ JmpInsts(insts, i) = NoInst
                                 THEN insts[i].need_after \cup {"PEND"} ELSE insts[i].need_after]
  <2>1. insts' = [i \in DOMAIN insts |-> [insts[i] EXCEPT !.jmp_insts = JmpInsts(insts, i), !.need_after = nd[i]]]
    BY DEF ResolveJumps
  <2>2. \A i \in DOMAIN insts : nd[i] \in {insts[i].need_after, insts[i].need_after \cup {"PEND"}}
    OBVIOUS
  <2> HIDE DEF nd
  <2> QED BY <2>1, <2>2
<1>4. \A i \in DOMAIN insts : insts[i] \in Inst(DOMAIN insts)
  BY <1>1 DEF InstsOK
<1>5. \A i \in DOMAIN insts :
        /\ insts'[i] \in Inst(DOMAIN insts)
        /\ insts'[i].op = insts[i].op /\ insts'[i].has_next = insts[i].has_next /\ insts'[i].pred = insts[i].pred
        /\ insts'[i].need_before = insts[i].need_before /\ insts'[i].gen = insts[i].gen
  <2> SUFFICES ASSUME NEW i \in DOMAIN insts
               PROVE  /\ insts'[i] \in Inst(DOMAIN insts)
                      /\ insts'[i].op = insts[i].op /\ insts'[i].has_next = insts[i].has_next
                      /\ insts'[i].pred = insts[i].pred
                      /\ insts'[i].need_before = insts[i].need_before /\ insts'[i].gen = insts[i].gen
    OBVIOUS
  <2>1. PICK j \in {NoInst} \cup DOMAIN insts : j = JmpInsts(insts, i)
    BY <1>2
  <2>2. insts[i] \in Inst(DOMAIN insts)
    BY <1>4
  <2>3. PICK n : n \in Needs /\ insts'[i] = [insts[i] EXCEPT !.jmp_insts = j, !.need_after = n]
    <3>1. insts'[i] = [insts[i] EXCEPT !.jmp_insts = j, !.need_after = need[i]]
      BY <1>3, <2>1
    <3>2. need[i] \in Needs
      BY <1>3, <2>2 DEF Inst, Needs
    <3> QED BY <3>1, <3>2
  <2> QED BY <2>2, <2>3 DEF Inst
<1>6. InstsOK' /\ size' = size /\ DOMAIN insts' = DOMAIN insts
  BY <1>1, <1>3, <1>5, Rewritten
<1>7. Fresh' /\ LiveOK'
  BY <1>1, <1>5, <1>6 DEF BlockInv, Fresh, LiveOK, Early, GoesOn, op
<1> QED BY <1>1, <1>6, <1>7 DEF BlockInv, Phases, Early

\* recurse_mark_alive marks the first instruction and all it leads to.
LEMMA AliveClosed ==
  ASSUME NEW is, 0 \in DOMAIN is,
         \A i \in DOMAIN is : is[i].jmp_insts \in {NoInst} \cup DOMAIN is
  PROVE  0 \in Alive(is) /\ Alive(is) \subseteq DOMAIN is /\ Closed(is, Alive(is))
<1>1. \A i \in DOMAIN is : Succ(is, i) \subseteq DOMAIN is
  BY DEF Succ
<1>2. ASSUME NEW i \in Alive(is), NEW j \in Succ(is, i) PROVE j \in Alive(is)
  BY <1>1, <1>2 DEF Alive, Closed
<1> QED BY <1>2 DEF Alive, Closed

LEMMA MarkBlock ==
  ASSUME BlockInv, MarkAlive
  PROVE  BlockInv'
<1>1. /\ phase = "alive" /\ phase' = "preds" /\ fwd' = fwd /\ stack' = stack /\ ninst' = ninst /\ f' = f
      /\ InstsOK /\ size > 0
  BY DEF MarkAlive, BlockInv
<1>2. PICK live : live = Alive(insts)
  OBVIOUS
<1>3. insts' = [i \in DOMAIN insts |->
                    [insts[i] EXCEPT !.alive = i \in live,
                       !.has_next = insts[i].has_next /\ (i + 1 \in DOMAIN insts => i + 1 \in live)]]
  BY <1>2 DEF MarkAlive
<1>4. \A i \in DOMAIN insts : insts[i] \in Inst(DOMAIN insts)
  BY <1>1 DEF InstsOK
<1>5. \A i \in DOMAIN insts :
        /\ insts'[i] \in Inst(DOMAIN insts)
        /\ insts'[i].op = insts[i].op /\ insts'[i].pred = insts[i].pred /\ insts'[i].jmp_insts = insts[i].jmp_insts
        /\ insts'[i].need_before = insts[i].need_before /\ insts'[i].gen = insts[i].gen
        /\ insts'[i].has_next = (insts[i].has_next /\ (i + 1 \in DOMAIN insts => i + 1 \in live))
        /\ insts'[i].alive = (i \in live)
  <2> SUFFICES ASSUME NEW i \in DOMAIN insts
               PROVE  /\ insts'[i] \in Inst(DOMAIN insts)
                      /\ insts'[i].op = insts[i].op /\ insts'[i].pred = insts[i].pred
                      /\ insts'[i].jmp_insts = insts[i].jmp_insts
                      /\ insts'[i].need_before = insts[i].need_before /\ insts'[i].gen = insts[i].gen
                      /\ insts'[i].has_next = (insts[i].has_next /\ (i + 1 \in DOMAIN insts => i + 1 \in live))
                      /\ insts'[i].alive = (i \in live)
    OBVIOUS
  <2>1. PICK a, h : /\ a = (i \in live)
                    /\ h = (insts[i].has_next /\ (i + 1 \in DOMAIN insts => i + 1 \in live))
                    /\ insts'[i] = [insts[i] EXCEPT !.alive = a, !.has_next = h]
    BY <1>3, Zenon
  <2>2. a \in BOOLEAN /\ h \in BOOLEAN
    BY <2>1
  <2>3. insts[i] \in Inst(DOMAIN insts)
    BY <1>4
  <2>4. /\ insts'[i] \in Inst(DOMAIN insts)
        /\ insts'[i].op = insts[i].op /\ insts'[i].pred = insts[i].pred
        /\ insts'[i].jmp_insts = insts[i].jmp_insts
        /\ insts'[i].need_before = insts[i].need_before /\ insts'[i].gen = insts[i].gen
        /\ insts'[i].has_next = h /\ insts'[i].alive = a
    <3>1. insts'[i] = [insts[i] EXCEPT !.alive = a, !.has_next = h]
      BY <2>1
    <3> QED BY <2>2, <2>3, <3>1 DEF Inst
  <2> QED BY <2>1, <2>4
<1>6. InstsOK' /\ size' = size /\ DOMAIN insts' = DOMAIN insts
  BY <1>1, <1>3, <1>5, Rewritten
<1>7. 0 \in DOMAIN insts
  BY <1>1 DEF InstsOK
<1>8. 0 \in live /\ live \subseteq DOMAIN insts /\ Closed(insts, live)
  BY <1>2, <1>4, <1>7, AliveClosed DEF Inst
<1>9. Fresh'
  BY <1>1, <1>5, <1>6 DEF BlockInv, Fresh, Early
<1>10. \A i \in DOMAIN insts : Succ(insts', i) \subseteq Succ(insts, i)
  BY <1>5, <1>6 DEF Succ
<1>11. \A i \in DOMAIN insts : insts[i].pred = <<>> /\ (insts[i].has_next <=> GoesOn(i))
  BY <1>1 DEF BlockInv, Fresh, LiveOK, Early
<1>12. LiveOK'
  <2>1. insts'[0].alive
    BY <1>5, <1>7, <1>8
  <2>2. ASSUME NEW i \in DOMAIN insts, insts'[i].alive
        PROVE  /\ \A j \in Succ(insts', i) : insts'[j].alive
               /\ GoesOn(i)' /\ i + 1 \in DOMAIN insts => insts'[i + 1].alive
    <3>1. i \in live
      BY <1>5, <2>2
    <3>2. Succ(insts, i) \subseteq live
      BY <1>8, <3>1 DEF Closed
    <3>3. \A j \in Succ(insts', i) : insts'[j].alive
      BY <1>5, <1>8, <1>10, <3>2
    <3>4. GoesOn(i)' /\ i + 1 \in DOMAIN insts => i + 1 \in Succ(insts, i)
      BY <1>5, <1>11 DEF GoesOn, op, Succ
    <3> QED BY <1>5, <3>2, <3>3, <3>4
  <2>3. \A i \in DOMAIN insts : insts'[i].pred = <<>>
    BY <1>5, <1>11
  <2>4. phase' \notin Early
    BY <1>1 DEF Early
  <2> QED BY <1>6, <2>1, <2>2, <2>3, <2>4 DEF LiveOK
<1> QED BY <1>1, <1>6, <1>9, <1>12 DEF BlockInv, Phases, Early

-----------------------------------------------------------------------------
(***************************************************************************)
(* The predecessors.                                                       *)
(***************************************************************************)
LEMMA ConcatSeq ==
  ASSUME NEW S, NEW s \in Seq(S), NEW t \in Seq(S)
  PROVE  /\ s \o t \in Seq(S)
         /\ \A k \in DOMAIN (s \o t) : \/ \E m \in DOMAIN s : (s \o t)[k] = s[m]
                                       \/ \E m \in DOMAIN t : (s \o t)[k] = t[m]
         /\ \A m \in DOMAIN s : \E k \in DOMAIN (s \o t) : (s \o t)[k] = s[m]
         /\ \A m \in DOMAIN t : \E k \in DOMAIN (s \o t) : (s \o t)[k] = t[m]
<1>1. /\ s \o t \in Seq(S) /\ Len(s) \in Nat /\ Len(t) \in Nat /\ Len(s \o t) = Len(s) + Len(t)
      /\ DOMAIN s = 1 .. Len(s) /\ DOMAIN t = 1 .. Len(t) /\ DOMAIN (s \o t) = 1 .. Len(s) + Len(t)
  OBVIOUS
<1>2. \A k \in 1 .. Len(s) + Len(t) : (s \o t)[k] = IF k <= Len(s) THEN s[k] ELSE t[k - Len(s)]
  OBVIOUS
<1>3. \A k \in 1 .. Len(s) + Len(t) : k <= Len(s) => k \in 1 .. Len(s)
  BY <1>1
<1>4. \A k \in 1 .. Len(s) + Len(t) : ~ k <= Len(s) => k - Len(s) \in 1 .. Len(t)
  BY <1>1
<1>5. \A m \in 1 .. Len(s) : (s \o t)[m] = s[m] /\ m \in DOMAIN (s \o t)
  BY <1>1, <1>2
<1>6. \A m \in 1 .. Len(t) : (s \o t)[m + Len(s)] = t[m] /\ m + Len(s) \in DOMAIN (s \o t)
  <2> SUFFICES ASSUME NEW m \in 1 .. Len(t) PROVE (s \o t)[m + Len(s)] = t[m] /\ m + Len(s) \in DOMAIN (s \o t)
    OBVIOUS
  <2>1. m + Len(s) \in 1 .. Len(s) + Len(t) /\ ~ m + Len(s) <= Len(s) /\ (m + Len(s)) - Len(s) = m
    BY <1>1
  <2> QED BY <1>1, <1>2, <2>1
<1> QED BY <1>1, <1>2, <1>3, <1>4, <1>5, <1>6

LEMMA ConcatHas ==
  ASSUME NEW S, NEW s \in Seq(S), NEW t \in Seq(S), NEW x, Has(s, x) \/ Has(t, x)
  PROVE  Has(s \o t, x)
<1>1. CASE Has(s, x)
  <2>1. PICK m \in DOMAIN s : s[m] = x
    BY <1>1 DEF Has
  <2>2. m \in DOMAIN (s \o t) /\ (s \o t)[m] = x
    BY <2>1
  <2> QED BY <2>2 DEF Has
<1>2. CASE Has(t, x)
  <2>1. PICK m \in DOMAIN t : t[m] = x
    BY <1>2 DEF Has
  <2>2. Len(s) + m \in DOMAIN (s \o t) /\ (s \o t)[Len(s) + m] = x
    BY <2>1
  <2> QED BY <2>2 DEF Has
<1> QED BY <1>1, <1>2

\* What an instruction adds: itself, when it is live, and then to each of its successors.
LEMMA WithPredIs ==
  ASSUME NEW is, NEW i \in DOMAIN is, NEW j
  PROVE  /\ WithPred(is, i, j) \in Seq(DOMAIN is)
         /\ \A k \in DOMAIN WithPred(is, i, j) : WithPred(is, i, j)[k] = i /\ is[i].alive
         /\ is[i].alive /\ j \in Succ(is, i) => \E k \in DOMAIN WithPred(is, i, j) : WithPred(is, i, j)[k] = i
<1>1. PICK a, b : /\ a = IF is[i].has_next /\ j = i + 1 THEN <<i>> ELSE <<>>
                  /\ b = IF is[i].jmp_insts = j THEN <<i>> ELSE <<>>
  OBVIOUS
<1>2. WithPred(is, i, j) = IF ~ is[i].alive THEN <<>> ELSE a \o b
  BY <1>1 DEF WithPred
<1>3. /\ a \in Seq({i}) /\ b \in Seq({i}) /\ {i} \subseteq DOMAIN is
  <2>1. <<i>> \in Seq({i}) /\ <<>> \in Seq({i})
    BY EmptySeq
  <2> QED BY <1>1, <2>1
<1>4. a \o b \in Seq({i})
  BY <1>3, ConcatSeq
<1>5. a \o b \in Seq(DOMAIN is) /\ \A k \in DOMAIN (a \o b) : (a \o b)[k] = i
  BY <1>4
<1>6. <<>> \in Seq(DOMAIN is) /\ DOMAIN <<>> = {}
  BY EmptySeq
<1>7. j \in Succ(is, i) => a = <<i>> \/ b = <<i>>
  BY <1>1 DEF Succ
<1>8. j \in Succ(is, i) => \E k \in DOMAIN (a \o b) : (a \o b)[k] = i
  <2>1. j \in Succ(is, i) => Has(a, i) \/ Has(b, i)
    BY <1>7 DEF Has
  <2>2. j \in Succ(is, i) => Has(a \o b, i)
    BY <1>3, <2>1, ConcatHas
  <2> QED BY <2>2 DEF Has
<1> QED BY <1>2, <1>5, <1>6, <1>8

\* One turn of the loop of fillPredecessors.
LEMMA FillBlock ==
  ASSUME BlockInv, FillPredecessors, Linked(ninst)
  PROVE  BlockInv' /\ Linked(ninst)'
<1>1. /\ phase = "preds" /\ phase' = "preds" /\ fwd' = fwd /\ stack' = stack /\ ninst' = ninst + 1 /\ f' = f
      /\ InstsOK /\ size > 0 /\ ninst < size /\ ninst \in 0 .. size /\ size \in Nat
  BY DEF FillPredecessors, BlockInv, InstsOK
<1>2. ninst \in DOMAIN insts /\ ninst + 1 \in 0 .. size
  BY <1>1 DEF InstsOK
<1>3. insts' = [j \in DOMAIN insts |-> [insts[j] EXCEPT !.pred = insts[j].pred \o WithPred(insts, ninst, j)]]
  BY DEF FillPredecessors
<1>4. \A i \in DOMAIN insts : insts[i] \in Inst(DOMAIN insts)
  BY <1>1 DEF InstsOK
<1>5. \A j \in DOMAIN insts :
        /\ insts'[j] \in Inst(DOMAIN insts)
        /\ insts'[j].pred = insts[j].pred \o WithPred(insts, ninst, j)
        /\ insts'[j].op = insts[j].op /\ insts'[j].jmp_insts = insts[j].jmp_insts
        /\ insts'[j].has_next = insts[j].has_next /\ insts'[j].alive = insts[j].alive
        /\ insts'[j].need_before = insts[j].need_before /\ insts'[j].gen = insts[j].gen
  <2> SUFFICES ASSUME NEW j \in DOMAIN insts
               PROVE  /\ insts'[j] \in Inst(DOMAIN insts)
                      /\ insts'[j].pred = insts[j].pred \o WithPred(insts, ninst, j)
                      /\ insts'[j].op = insts[j].op /\ insts'[j].jmp_insts = insts[j].jmp_insts
                      /\ insts'[j].has_next = insts[j].has_next /\ insts'[j].alive = insts[j].alive
                      /\ insts'[j].need_before = insts[j].need_before /\ insts'[j].gen = insts[j].gen
    OBVIOUS
  <2>1. PICK p : p = insts[j].pred \o WithPred(insts, ninst, j)
    OBVIOUS
  <2>2. insts[j].pred \in Seq(DOMAIN insts) /\ WithPred(insts, ninst, j) \in Seq(DOMAIN insts)
    BY <1>2, <1>4, WithPredIs DEF Inst
  <2>3. p \in Seq(DOMAIN insts)
    BY <2>1, <2>2, ConcatSeq
  <2>4. insts'[j] = [insts[j] EXCEPT !.pred = p]
    BY <1>3, <2>1
  <2>5. insts[j] \in Inst(DOMAIN insts)
    BY <1>4
  <2>6. insts'[j].pred = p
    BY <2>4, <2>5 DEF Inst
  <2> QED BY <2>1, <2>3, <2>4, <2>5, <2>6 DEF Inst
<1>6. InstsOK' /\ size' = size /\ DOMAIN insts' = DOMAIN insts
  BY <1>1, <1>3, <1>5, Rewritten
<1>7. Fresh'
  BY <1>1, <1>5, <1>6 DEF BlockInv, Fresh, Early
<1>8. \A i \in DOMAIN insts : Succ(insts', i) = Succ(insts, i)
  BY <1>5, <1>6 DEF Succ
<1>9. \A i \in DOMAIN insts : insts[i].pred \in Seq(DOMAIN insts) /\ WithPred(insts, ninst, i) \in Seq(DOMAIN insts)
  BY <1>2, <1>4, WithPredIs DEF Inst
<1>10. LiveOK'
  <2>1. phase \notin Early /\ phase' \notin Early /\ LiveOK
    BY <1>1 DEF Early, BlockInv
  <2>2. 0 \in DOMAIN insts
    BY <1>1 DEF InstsOK
  <2>3. ASSUME NEW i \in DOMAIN insts, insts'[i].alive
        PROVE  /\ \A j \in Succ(insts', i) : insts'[j].alive
               /\ GoesOn(i)' /\ i + 1 \in DOMAIN insts => insts'[i + 1].alive
    <3>1. Succ(insts, i) \subseteq DOMAIN insts
      BY <1>4 DEF Succ, Inst
    <3> QED BY <1>5, <1>8, <2>1, <2>3, <3>1 DEF LiveOK, GoesOn, op
  <2>4. ASSUME NEW i \in DOMAIN insts, NEW k \in DOMAIN insts'[i].pred PROVE insts'[insts'[i].pred[k]].alive
    <3>1. PICK s, w : s = insts[i].pred /\ w = WithPred(insts, ninst, i)
      OBVIOUS
    <3>2. s \in Seq(DOMAIN insts) /\ w \in Seq(DOMAIN insts) /\ k \in DOMAIN (s \o w) /\ insts'[i].pred = s \o w
      BY <1>5, <1>9, <3>1, <2>4
    <3>3. CASE \E m \in DOMAIN s : (s \o w)[k] = s[m]
      <4>1. PICK m \in DOMAIN s : (s \o w)[k] = s[m]
        BY <3>3
      <4>2. s[m] \in DOMAIN insts /\ insts[s[m]].alive
        BY <2>1, <3>1, <3>2 DEF LiveOK
      <4> QED BY <1>5, <3>2, <4>1, <4>2
    <3>4. CASE \E m \in DOMAIN w : (s \o w)[k] = w[m]
      <4>1. PICK m \in DOMAIN w : (s \o w)[k] = w[m]
        BY <3>4
      <4>2. w[m] = ninst /\ insts[ninst].alive
        BY <1>2, <3>1, WithPredIs
      <4> QED BY <1>2, <1>5, <3>2, <4>1, <4>2
    <3> QED BY <3>2, <3>3, <3>4, ConcatSeq
  <2>5. insts'[0].alive
    BY <1>5, <2>1, <2>2 DEF LiveOK
  <2> QED BY <1>6, <2>1, <2>3, <2>4, <2>5 DEF LiveOK
<1>11. Linked(ninst)'
  <2> SUFFICES ASSUME NEW i \in DOMAIN insts, i < ninst + 1, insts[i].alive, NEW j \in Succ(insts, i)
               PROVE  Has(insts'[j].pred, i)
    BY <1>1, <1>5, <1>6, <1>8 DEF Linked, HasPred
  <2>1. j \in DOMAIN insts
    BY <1>4 DEF Succ, Inst
  <2>2. PICK s, w : s = insts[j].pred /\ w = WithPred(insts, ninst, j)
    OBVIOUS
  <2>3. s \in Seq(DOMAIN insts) /\ w \in Seq(DOMAIN insts) /\ insts'[j].pred = s \o w
    BY <1>5, <1>9, <2>1, <2>2
  <2>4. Has(s, i) \/ Has(w, i)
    <3>1. CASE i < ninst
      BY <2>2, <3>1 DEF Linked, HasPred
    <3>2. CASE i = ninst
      BY <1>2, <2>2, <3>2, WithPredIs DEF Has
    <3>3. i < ninst \/ i = ninst
      BY <1>1 DEF InstsOK
    <3> QED BY <3>1, <3>2, <3>3
  <2>5. Has(s \o w, i)
    BY <2>3, <2>4, ConcatHas
  <2> QED BY <2>3, <2>5
<1> QED BY <1>1, <1>2, <1>6, <1>7, <1>10, <1>11 DEF BlockInv, Phases, Early

LEMMA StartBlock ==
  ASSUME BlockInv, StartNeed, Linked(ninst)
  PROVE  BlockInv' /\ NeedOK' /\ phase' = "need"
<1>1. /\ phase = "preds" /\ phase' = "need" /\ fwd' = fwd /\ ninst = size /\ ninst' = 0 /\ f' = f /\ insts' = insts
      /\ InstsOK /\ size > 0 /\ size \in Nat
  BY DEF StartNeed, BlockInv, InstsOK
<1>2. size' = size
  BY <1>1 DEF size
<1>3. PICK fr : fr = Frame(size - 1, {}) /\ stack' = <<fr>>
  BY DEF StartNeed
<1>4. size - 1 \in DOMAIN insts /\ {} \in Needs
  BY <1>1 DEF InstsOK, Needs
<1>5. fr \in FrameSet /\ fr.at = 0 /\ fr.ninst = size - 1
  BY <1>3, <1>4 DEF Frame, FrameSet
<1>6. stack' \in Seq(FrameSet) /\ stack' # <<>> /\ stack'[1] = fr
  BY <1>3, <1>5
<1>7. BlockInv'
  <2>1. InstsOK' /\ FrameSet' = FrameSet
    BY <1>1, <1>2 DEF InstsOK, FrameSet
  <2>2. Fresh' /\ LiveOK'
    BY <1>1 DEF BlockInv, Fresh, LiveOK, Early, GoesOn, op
  <2> QED BY <1>1, <1>2, <1>6, <2>1, <2>2 DEF BlockInv, Phases, Early
<1>8. Linked(size)'
  BY <1>1, <1>2 DEF Linked, HasPred
<1>9. \A i \in DOMAIN insts : insts[i].need_before = {}
  BY <1>1 DEF BlockInv, Fresh, Early
<1>10. \A i \in DOMAIN insts : \A j \in Succ(insts, i) : j \in DOMAIN insts /\ Met(i, j)'
  <2>1. \A i \in DOMAIN insts : insts[i].jmp_insts \in {NoInst} \cup DOMAIN insts
    BY <1>1 DEF InstsOK, Inst
  <2>2. \A i \in DOMAIN insts : \A j \in Succ(insts, i) : j \in DOMAIN insts
    BY <2>1 DEF Succ
  <2>3. \A j \in DOMAIN insts : Asked(insts[j], insts[j].need_before) = {}
    BY <1>9 DEF Asked
  <2> QED BY <1>1, <2>2, <2>3 DEF Met, Turned, op
<1>11. \A i \in DOMAIN insts : ~ (i > size - 1)
  BY <1>1 DEF InstsOK
<1> QED BY <1>1, <1>2, <1>5, <1>6, <1>7, <1>8, <1>10, <1>11 DEF NeedOK

-----------------------------------------------------------------------------
(***************************************************************************)
(* updateNeed.                                                             *)
(***************************************************************************)
\* A step that leaves the flow of control of the block alone.
SameFlow ==
  /\ insts' \in [DOMAIN insts -> Inst(DOMAIN insts)]
  /\ \A i \in DOMAIN insts :
        /\ insts'[i].op = insts[i].op /\ insts'[i].jmp_insts = insts[i].jmp_insts
        /\ insts'[i].has_next = insts[i].has_next /\ insts'[i].alive = insts[i].alive
        /\ insts'[i].pred = insts[i].pred /\ insts'[i].barrier = insts[i].barrier

LEMMA SuccIn ==
  ASSUME InstsOK, NEW i \in DOMAIN insts
  PROVE  Succ(insts, i) \subseteq DOMAIN insts
<1>1. insts[i].jmp_insts \in {NoInst} \cup DOMAIN insts
  BY DEF InstsOK, Inst
<1> QED BY <1>1 DEF Succ

LEMMA SameFlowKeeps ==
  ASSUME InstsOK, LiveOK, SameFlow, phase \notin Early, phase' \notin Early, size > 0
  PROVE  /\ InstsOK' /\ LiveOK' /\ size' = size /\ DOMAIN insts' = DOMAIN insts
         /\ \A i \in DOMAIN insts : Succ(insts', i) = Succ(insts, i) /\ op(i)' = op(i)
         /\ Linked(size) => Linked(size)'
<1>1. InstsOK' /\ size' = size /\ DOMAIN insts' = DOMAIN insts
  BY Rewritten DEF SameFlow
<1>2. \A i \in DOMAIN insts : Succ(insts', i) = Succ(insts, i) /\ op(i)' = op(i)
  BY <1>1 DEF SameFlow, Succ, op
<1>3. Linked(size) => Linked(size)'
  BY <1>1, <1>2, SuccIn DEF Linked, HasPred, SameFlow
<1>4. LiveOK'
  <2>1. 0 \in DOMAIN insts
    BY DEF InstsOK
  <2>2. ASSUME NEW i \in DOMAIN insts, insts'[i].alive
        PROVE  /\ \A j \in Succ(insts', i) : insts'[j].alive
               /\ GoesOn(i)' /\ i + 1 \in DOMAIN insts => insts'[i + 1].alive
    BY <1>2, <2>2, SuccIn DEF LiveOK, SameFlow, GoesOn
  <2>3. ASSUME NEW i \in DOMAIN insts, NEW k \in DOMAIN insts'[i].pred PROVE insts'[insts'[i].pred[k]].alive
    <3>1. k \in DOMAIN insts[i].pred /\ insts'[i].pred = insts[i].pred
      BY <2>3 DEF SameFlow
    <3>2. insts[i].pred[k] \in DOMAIN insts
      <4>1. insts[i].pred \in Seq(DOMAIN insts)
        BY DEF InstsOK, Inst
      <4> QED BY <3>1, <4>1
    <3> QED BY <3>1, <3>2 DEF LiveOK, SameFlow
  <2>4. insts'[0].alive
    BY <2>1 DEF LiveOK, SameFlow
  <2> QED BY <1>1, <2>2, <2>3, <2>4 DEF LiveOK
<1> QED BY <1>1, <1>2, <1>3, <1>4

\* The return of a call of updateNeed, in which all that the call owed is asked for.
LEMMA ReturnNeed ==
  ASSUME NEW s \in Seq(FrameSet), s = stack, s # <<>>, phase = "need", Return(s[Len(s)].ninst - 1),
         InstsOK, DOMAIN insts' = DOMAIN insts, Linked(size)',
         \A m \in DOMAIN insts :
           m > s[1].ninst \/ (m = s[1].ninst /\ (s[1].at > 0 \/ Len(s) = 1)) => Solved(m)',
         \A a \in DOMAIN insts : insts'[a].alive =>
           \A j \in Succ(insts', a) : Met(a, j)' \/ \E k \in 1 .. Len(s) - 1 : WillAsk(s[k], a, j)'
  PROVE  \/ phase' = "need" /\ stack' \in Seq(FrameSet) /\ stack' # <<>> /\ f' = f /\ NeedOK'
         \/ phase' = "pass1" /\ stack' = <<>> /\ f' = Unknown /\ Reached'
<1>1. /\ Len(s) \in Nat /\ Len(s) > 0 /\ s[1] \in FrameSet /\ s[Len(s)] \in FrameSet /\ Top = s[Len(s)]
      /\ Len(s) = Len(stack)
  BY DEF Top
<1>2. PICK i : i = s[Len(s)].ninst
  OBVIOUS
<1>3. i \in DOMAIN insts /\ i \in Int /\ DOMAIN insts = 0 .. size - 1 /\ size \in Nat /\ s[1].ninst \in Int
  BY <1>1, <1>2 DEF FrameSet, InstsOK
<1>4. CASE Len(s) > 1
  <2>1. stack' = SubSeq(s, 1, Len(s) - 1) /\ phase' = "need" /\ f' = f
    BY <1>1, <1>4 DEF Return
  <2>2. PICK t : t = SubSeq(s, 1, Len(s) - 1)
    OBVIOUS
  <2>3. /\ t \in Seq(FrameSet) /\ t # <<>> /\ Len(t) = Len(s) - 1 /\ \A k \in 1 .. Len(s) - 1 : t[k] = s[k]
        /\ t[1] = s[1]
    <3>1. 1 \in 1 .. Len(s) + 1 /\ Len(s) - 1 \in 1 - 1 .. Len(s)
      BY <1>1
    <3>2. /\ t \in Seq(FrameSet) /\ Len(t) = (IF 1 <= Len(s) - 1 THEN (Len(s) - 1) - 1 + 1 ELSE 0)
          /\ \A k \in 1 .. (Len(s) - 1) - 1 + 1 : t[k] = s[1 + k - 1]
      BY <2>2, <3>1, SubSeqProperties
    <3>3. Len(t) = Len(s) - 1 /\ \A k \in 1 .. Len(s) - 1 : t[k] = s[k]
      BY <1>1, <1>4, <3>2
    <3>4. 1 \in 1 .. Len(s) - 1
      BY <1>1, <1>4
    <3>5. t # <<>>
      BY <1>1, <1>4, <3>3
    <3> QED BY <3>2, <3>3, <3>4, <3>5
  <2>4. \A m \in DOMAIN insts' : m > stack'[1].ninst \/ (m = stack'[1].ninst /\ stack'[1].at > 0) => Solved(m)'
    BY <2>1, <2>2, <2>3
  <2>5. \A a \in DOMAIN insts' : insts'[a].alive => \A j \in Succ(insts', a) : Met(a, j)' \/ Pending(a, j)'
    <3> SUFFICES ASSUME NEW a \in DOMAIN insts, NEW j, NEW k \in 1 .. Len(s) - 1, WillAsk(s[k], a, j)'
                 PROVE  Pending(a, j)'
      OBVIOUS
    <3>1. k \in 1 .. Len(stack') /\ stack'[k] = s[k]
      BY <2>1, <2>2, <2>3
    <3>2. WillAsk(stack[k], a, j)'
      BY <3>1 DEF WillAsk
    <3> QED BY <3>1, <3>2 DEF Pending
  <2> QED BY <2>1, <2>2, <2>3, <2>4, <2>5 DEF NeedOK
<1>5. CASE Len(s) = 1
  <2>1. s[1].ninst = i /\ 1 .. Len(s) - 1 = {}
    BY <1>1, <1>2, <1>5
  <2>2. \A m \in DOMAIN insts : m >= i => Solved(m)'
    BY <1>3, <1>5, <2>1
  <2>3. \A a \in DOMAIN insts : insts'[a].alive => \A j \in Succ(insts', a) : Met(a, j)'
    BY <2>1
  <2>4. CASE i - 1 >= 0
    <3>1. PICK fr : fr = Frame(i - 1, {})
      OBVIOUS
    <3>2. stack' = <<fr>> /\ phase' = "need" /\ f' = f
      <4>1. Return(i - 1) /\ Len(stack) = 1
        BY <1>1, <1>2, <1>5
      <4>2. ~ i - 1 < 0 /\ ~ Len(stack) > 1
        BY <1>3, <2>4, <4>1
      <4> QED BY <4>1, <4>2, <3>1 DEF Return
    <3>3. fr \in FrameSet /\ fr.ninst = i - 1 /\ fr.at = 0
      BY <1>3, <2>4, <3>1 DEF Frame, FrameSet, Needs
    <3>4. stack' \in Seq(FrameSet) /\ stack' # <<>> /\ stack'[1] = fr
      BY <3>2, <3>3
    <3>5. \A m \in DOMAIN insts' : m > stack'[1].ninst \/ (m = stack'[1].ninst /\ stack'[1].at > 0) => Solved(m)'
      BY <1>3, <2>2, <3>3, <3>4
    <3> QED BY <2>3, <3>2, <3>4, <3>5 DEF NeedOK
  <2>5. CASE i - 1 < 0
    <3>1. stack' = <<>> /\ phase' = "pass1" /\ f' = Unknown
      BY <1>1, <1>2, <1>3, <1>5, <2>5 DEF Return
    <3>2. \A m \in DOMAIN insts' : Solved(m)'
      BY <1>3, <2>2, <2>5
    <3> QED BY <2>3, <3>1, <3>2 DEF Reached
  <2> QED BY <1>3, <2>4, <2>5
<1>6. Len(s) > 1 \/ Len(s) = 1
  <2>1. \A n \in Nat : n > 0 => n > 1 \/ n = 1
    OBVIOUS
  <2> QED BY <1>1, <2>1, Zenon
<1> QED BY <1>4, <1>5, <1>6

\* The innermost call, and its frame.
LEMMA TopFrame ==
  ASSUME BlockInv, phase = "need"
  PROVE  /\ InstsOK /\ LiveOK /\ size > 0 /\ size \in Nat /\ phase \notin Early /\ stack \in Seq(FrameSet) /\ stack # <<>>
         /\ Len(stack) \in Nat /\ Len(stack) > 0 /\ Top = stack[Len(stack)] /\ Top \in FrameSet
         /\ Top.ninst \in DOMAIN insts /\ Top.need \in Needs /\ Top.at \in Nat
         /\ stack[1] \in FrameSet /\ DOMAIN insts = 0 .. size - 1
<1>1. stack \in Seq(FrameSet) /\ stack # <<>>
  BY DEF BlockInv
<1>2. Len(stack) \in Nat /\ Len(stack) > 0 /\ stack[Len(stack)] \in FrameSet /\ stack[1] \in FrameSet
  BY <1>1
<1>3. Top \in FrameSet
  BY <1>2 DEF Top
<1>4. Top.ninst \in DOMAIN insts /\ Top.need \in Needs /\ Top.at \in Nat
  BY <1>3 DEF FrameSet
<1> QED BY <1>1, <1>2, <1>3, <1>4 DEF BlockInv, InstsOK, Early, Top

\* A block that passes through updateNeed or the passes that follow.
LEMMA LaterBlock ==
  ASSUME BlockInv, SameFlow, phase \notin Early \cup {"preds"}, phase' \in Phases \ (Early \cup {"preds"}),
         f' \in F, ninst' \in 0 .. size, fwd' = fwd,
         IF phase' = "need" THEN stack' \in Seq(FrameSet) /\ stack' # <<>> ELSE stack' = <<>>
  PROVE  BlockInv'
<1>1. InstsOK /\ LiveOK /\ phase \notin Early /\ phase' \notin Early /\ size > 0
  BY DEF BlockInv, Early
<1>2. InstsOK' /\ LiveOK' /\ size' = size /\ DOMAIN insts' = DOMAIN insts
  BY <1>1, SameFlowKeeps
<1>3. FrameSet' = FrameSet
  BY <1>2 DEF FrameSet
<1>4. Fresh'
  BY DEF Fresh
<1> QED BY <1>1, <1>2, <1>3, <1>4 DEF BlockInv

\* What a visit changes: the needs of one instruction, which solve its equations.
LEMMA VisitChange ==
  ASSUME BlockInv, phase = "need", NEW i \in DOMAIN insts, i = Top.ninst, NEW n,
         n = NeedOf(op(i), Top.need \cup insts[i].need_after),
         insts' = [insts EXCEPT ![i].need_after = n.after, ![i].gen = n.gen, ![i].need_before = n.before]
  PROVE  /\ SameFlow
         /\ \A m \in DOMAIN insts : m # i => insts'[m] = insts[m]
         /\ insts'[i].need_before = n.before
         /\ \A a \in DOMAIN insts : op(a)' = op(a)
         /\ n.before \in Needs
         /\ Solved(i)'
         /\ \A asked : \/ asked \subseteq Top.need
                         \/ Turned(op(i), asked) \subseteq insts[i].need_after
                      => Turned(op(i), asked) \subseteq insts'[i].need_after
<1>1. InstsOK /\ Top.need \in Needs
  BY TopFrame
<1>2. \A m \in DOMAIN insts : insts[m] \in Inst(DOMAIN insts)
  BY <1>1 DEF InstsOK
<1>3. op(i) \in OpSet
  BY <1>1, OpType
<1>4. PICK w : w = Top.need \cup insts[i].need_after
  OBVIOUS
<1>5. w \in Needs
  BY <1>1, <1>2, <1>4 DEF Inst, Needs
<1>6. n \in [after : Needs, gen : Needs, before : Needs]
  BY <1>3, <1>4, <1>5, NeedOfType
<1>7. insts' = [insts EXCEPT ![i] = [insts[i] EXCEPT !.need_after = n.after, !.gen = n.gen, !.need_before = n.before]]
  OBVIOUS
<1>8. /\ insts'[i] \in Inst(DOMAIN insts)
      /\ insts'[i].op = insts[i].op /\ insts'[i].jmp_insts = insts[i].jmp_insts
      /\ insts'[i].has_next = insts[i].has_next /\ insts'[i].alive = insts[i].alive
      /\ insts'[i].pred = insts[i].pred /\ insts'[i].barrier = insts[i].barrier
      /\ insts'[i].need_after = n.after /\ insts'[i].gen = n.gen /\ insts'[i].need_before = n.before
  <2>1. PICK x, y : x = insts[i] /\ y = [x EXCEPT !.need_after = n.after, !.gen = n.gen, !.need_before = n.before]
    OBVIOUS
  <2>2. insts'[i] = y /\ x \in Inst(DOMAIN insts)
    BY <1>2, <1>7, <2>1
  <2>3. y \in Inst(DOMAIN insts)
    BY <1>6, <2>1, <2>2 DEF Inst
  <2>4. /\ y.op = x.op /\ y.jmp_insts = x.jmp_insts /\ y.has_next = x.has_next /\ y.alive = x.alive /\ y.pred = x.pred
        /\ y.barrier = x.barrier /\ y.need_after = n.after /\ y.gen = n.gen /\ y.need_before = n.before
    BY <2>1, <2>2 DEF Inst
  <2> QED BY <2>1, <2>2, <2>3, <2>4
<1>9. \A m \in DOMAIN insts : m # i => insts'[m] = insts[m]
  BY <1>7
<1>10. SameFlow
  <2>1. \A m \in DOMAIN insts : insts'[m] \in Inst(DOMAIN insts)
    BY <1>2, <1>8, <1>9
  <2>2. DOMAIN insts' = DOMAIN insts /\ insts' = [m \in DOMAIN insts |-> insts'[m]]
    BY <1>1, <1>7 DEF InstsOK
  <2>3. insts' \in [DOMAIN insts -> Inst(DOMAIN insts)]
    <3>1. PICK g, D, S : g = insts' /\ D = DOMAIN insts /\ S = Inst(DOMAIN insts)
      OBVIOUS
    <3>2. g = [m \in D |-> g[m]] /\ \A m \in D : g[m] \in S
      BY <2>1, <2>2, <3>1, Zenon
    <3>3. g \in [D -> S]
      BY <3>2
    <3> QED BY <3>1, <3>3, Zenon
  <2>4. ASSUME NEW m \in DOMAIN insts
        PROVE  /\ insts'[m].op = insts[m].op /\ insts'[m].jmp_insts = insts[m].jmp_insts
               /\ insts'[m].has_next = insts[m].has_next /\ insts'[m].alive = insts[m].alive
               /\ insts'[m].pred = insts[m].pred /\ insts'[m].barrier = insts[m].barrier
    <3>1. CASE m = i
      BY <1>8, <3>1
    <3>2. CASE m # i
      BY <1>9, <3>2
    <3> QED BY <3>1, <3>2
  <2> QED BY <2>3, <2>4 DEF SameFlow
<1>11. \A a \in DOMAIN insts : op(a)' = op(a)
  BY <1>10 DEF SameFlow, op
<1>12. Solved(i)'
  <2>1. NeedOf(op(i), n.after) = n
    BY <1>3, <1>4, <1>5, NeedOfTwice
  <2>2. op(i)' = op(i)
    BY <1>11
  <2> QED BY <1>8, <2>1, <2>2 DEF Solved
<1>13. ASSUME NEW asked, asked \subseteq Top.need \/ Turned(op(i), asked) \subseteq insts[i].need_after
       PROVE  Turned(op(i), asked) \subseteq insts'[i].need_after
  <2>1. asked \subseteq w \/ Turned(op(i), asked) \subseteq w
    BY <1>4, <1>13
  <2>2. Turned(op(i), asked) \subseteq NeedOf(op(i), w).after
    BY <1>3, <1>5, <2>1, NeedOfKeeps
  <2>3. NeedOf(op(i), w).after = insts'[i].need_after
    BY <1>4, <1>8
  <2> QED BY <2>2, <2>3
<1>14. n.before \in Needs
  BY <1>6
<1> QED BY <1>4, <1>8, <1>9, <1>10, <1>11, <1>12, <1>13, <1>14

LEMMA VisitInstKeeps ==
  ASSUME BlockInv, NeedOK, VisitInst
  PROVE  BlockInv' /\ \/ phase' = "need" /\ NeedOK'
                      \/ phase' = "pass1" /\ Reached'
<1>1. phase = "need" /\ Top.at = 0 /\ fwd' = fwd /\ ninst' = ninst
  BY DEF VisitInst
<1>2. PICK i : i = Top.ninst
  OBVIOUS
<1>3. PICK s : s = stack
  OBVIOUS
<1>4. /\ InstsOK /\ LiveOK /\ size > 0 /\ phase \notin Early /\ s \in Seq(FrameSet) /\ s # <<>>
      /\ Len(s) \in Nat /\ Len(s) > 0 /\ Top = s[Len(s)] /\ Top \in FrameSet
      /\ i \in DOMAIN insts /\ DOMAIN insts = 0 .. size - 1 /\ size \in Nat /\ s[1].ninst \in Int /\ i \in Int
  <2>1. s[1] \in FrameSet
    BY <1>1, <1>3, TopFrame
  <2>2. s[1].ninst \in DOMAIN insts
    BY <2>1 DEF FrameSet
  <2> QED BY <1>1, <1>2, <1>3, <2>2, TopFrame
<1>5. PICK n : n = NeedOf(op(i), Top.need \cup insts[i].need_after)
  OBVIOUS
<1>6. /\ insts' = [insts EXCEPT ![i].need_after = n.after, ![i].gen = n.gen, ![i].need_before = n.before]
      /\ \/ n.before = insts[i].need_before /\ Return(i - 1)
         \/ /\ n.before # insts[i].need_before
            /\ stack' = [s EXCEPT ![Len(s)] = [Top EXCEPT !.need = Asked(insts[i], n.before), !.at = 1]]
            /\ UNCHANGED <<phase, f>>
  BY <1>2, <1>3, <1>5 DEF VisitInst
<1>7. /\ SameFlow
      /\ \A m \in DOMAIN insts : m # i => insts'[m] = insts[m]
      /\ insts'[i].need_before = n.before
      /\ \A a \in DOMAIN insts : op(a)' = op(a)
      /\ n.before \in Needs
      /\ Solved(i)'
      /\ \A asked : \/ asked \subseteq Top.need
                      \/ Turned(op(i), asked) \subseteq insts[i].need_after
                   => Turned(op(i), asked) \subseteq insts'[i].need_after
  <2>1. insts' = [insts EXCEPT ![i].need_after = n.after, ![i].gen = n.gen, ![i].need_before = n.before]
    BY <1>6
  <2>2. i \in DOMAIN insts
    BY <1>4
  <2> QED BY <1>1, <1>2, <1>5, <2>1, <2>2, VisitChange, ZenonT(60)
<1>8. /\ DOMAIN insts' = DOMAIN insts /\ size' = size /\ Linked(size)'
      /\ \A a \in DOMAIN insts : Succ(insts', a) = Succ(insts, a) /\ Succ(insts, a) \subseteq DOMAIN insts
      /\ \A a \in DOMAIN insts : insts'[a].alive = insts[a].alive /\ insts'[a].pred = insts[a].pred
                                 /\ insts'[a].barrier = insts[a].barrier
  <2>1. Linked(size)
    BY DEF NeedOK
  <2>2. DOMAIN insts' = DOMAIN insts
    BY <1>6
  <2>3. phase' \notin Early
    BY <1>1, <1>6 DEF Early, Return
  <2>4. size' = size /\ Linked(size)' /\ \A a \in DOMAIN insts : Succ(insts', a) = Succ(insts, a)
    BY <1>4, <1>7, <2>1, <2>3, SameFlowKeeps
  <2> QED BY <1>4, <1>7, <2>2, <2>4, SuccIn DEF SameFlow
<1>9. \A m \in DOMAIN insts : Solved(m) => Solved(m)'
  <2> SUFFICES ASSUME NEW m \in DOMAIN insts, Solved(m), m # i PROVE Solved(m)'
    BY <1>7
  <2>1. insts'[m] = insts[m] /\ op(m)' = op(m)
    BY <1>7
  <2> QED BY <2>1 DEF Solved
\* What is asked of the instructions but by the one that is visited.
<1>10. \A j \in DOMAIN insts : n.before = insts[i].need_before \/ j # i => AskedOf(j)' = AskedOf(j)
  <2> SUFFICES ASSUME NEW j \in DOMAIN insts, n.before = insts[i].need_before \/ j # i
               PROVE  Asked(insts'[j], insts'[j].need_before) = Asked(insts[j], insts[j].need_before)
    BY DEF AskedOf
  <2>1. insts'[j].need_before = insts[j].need_before /\ insts'[j].barrier = insts[j].barrier
    BY <1>7, <1>8
  <2> QED BY <2>1 DEF Asked
<1>11. ASSUME NEW a \in DOMAIN insts, NEW j \in DOMAIN insts, insts[a].alive, j \in Succ(insts, a),
              n.before = insts[i].need_before \/ j # i
       PROVE  Met(a, j)' \/ \E k \in 1 .. Len(s) - 1 : WillAsk(s[k], a, j)'
  <2>1. AskedOf(j)' = AskedOf(j)
    BY <1>10, <1>11
  <2>2. CASE Met(a, j)
    <3>1. Turned(op(a), AskedOf(j)) \subseteq insts[a].need_after
      BY <2>2 DEF Met, AskedOf
    <3>2. Turned(op(a), AskedOf(j)) \subseteq insts'[a].need_after
      BY <1>7, <3>1
    <3>3. op(a)' = op(a)
      BY <1>7
    <3>4. Turned(op(a)', AskedOf(j)') \subseteq insts'[a].need_after
      BY <2>1, <3>2, <3>3
    <3> QED BY <3>4 DEF Met, AskedOf
  <2>3. CASE Asks(Top, a, j)
    <3>1. a = i /\ AskedOf(j) \subseteq Top.need
      BY <1>2, <2>3 DEF Asks
    <3>2. Turned(op(a), AskedOf(j)) \subseteq insts'[a].need_after
      BY <1>7, <3>1
    <3>3. op(a)' = op(a)
      BY <1>7
    <3>4. Turned(op(a)', AskedOf(j)') \subseteq insts'[a].need_after
      BY <2>1, <3>2, <3>3
    <3> QED BY <3>4 DEF Met, AskedOf
  <2>4. ASSUME NEW k \in 1 .. Len(s), WillAsk(s[k], a, j) PROVE k \in 1 .. Len(s) - 1 /\ WillAsk(s[k], a, j)'
    <3>1. k # Len(s)
      BY <1>1, <1>4, <2>4 DEF WillAsk
    <3>2. k \in 1 .. Len(s) - 1
      BY <1>4, <3>1
    <3>3. insts'[j].pred = insts[j].pred
      BY <1>8
    <3> QED BY <2>1, <2>4, <3>2, <3>3 DEF WillAsk
  <2>5. Met(a, j) \/ (\E k \in 1 .. Len(s) : WillAsk(s[k], a, j)) \/ Asks(Top, a, j)
    BY <1>3, <1>11 DEF NeedOK, Pending
  <2> QED BY <2>2, <2>3, <2>4, <2>5
<1>12. CASE n.before = insts[i].need_before /\ Return(i - 1)
  <2>1. \A m \in DOMAIN insts :
           m > s[1].ninst \/ (m = s[1].ninst /\ (s[1].at > 0 \/ Len(s) = 1)) => Solved(m)'
    <3> SUFFICES ASSUME NEW m \in DOMAIN insts,
                        m > s[1].ninst \/ (m = s[1].ninst /\ (s[1].at > 0 \/ Len(s) = 1))
                 PROVE  Solved(m)'
      OBVIOUS
    <3>1. CASE m > s[1].ninst \/ (m = s[1].ninst /\ s[1].at > 0)
      BY <1>3, <1>9, <3>1 DEF NeedOK
    <3>2. CASE m = s[1].ninst /\ Len(s) = 1
      BY <1>2, <1>4, <1>7, <3>2
    <3> QED BY <3>1, <3>2
  <2>2. \A a \in DOMAIN insts : insts'[a].alive =>
           \A j \in Succ(insts', a) : Met(a, j)' \/ \E k \in 1 .. Len(s) - 1 : WillAsk(s[k], a, j)'
    BY <1>8, <1>11, <1>12
  <2>3. Return(s[Len(s)].ninst - 1)
    BY <1>2, <1>4, <1>12
  <2>4. \/ phase' = "need" /\ stack' \in Seq(FrameSet) /\ stack' # <<>> /\ f' = f /\ NeedOK'
        \/ phase' = "pass1" /\ stack' = <<>> /\ f' = Unknown /\ Reached'
    BY <1>1, <1>3, <1>4, <1>8, <2>1, <2>2, <2>3, ReturnNeed
  <2>5. BlockInv'
    <3>1. phase' \in Phases \ (Early \cup {"preds"}) /\ f' \in F /\ ninst' \in 0 .. size
      BY <1>1, <2>4, UnknownType DEF BlockInv, Phases, Early
    <3>2. phase \notin Early \cup {"preds"}
      BY <1>1 DEF Early
    <3> QED BY <1>1, <1>7, <2>4, <3>1, <3>2, LaterBlock
  <2> QED BY <2>4, <2>5
<1>13. CASE /\ n.before # insts[i].need_before
            /\ stack' = [s EXCEPT ![Len(s)] = [Top EXCEPT !.need = Asked(insts[i], n.before), !.at = 1]]
            /\ UNCHANGED <<phase, f>>
  <2>1. PICK fr : fr = [Top EXCEPT !.need = Asked(insts[i], n.before), !.at = 1]
    OBVIOUS
  <2>2. Asked(insts[i], n.before) \in Needs /\ AskedOf(i)' = Asked(insts[i], n.before)
    BY <1>4, <1>7, <1>8, AskedType DEF AskedOf, Asked
  <2>3. fr \in FrameSet /\ fr.ninst = i /\ fr.at = 1 /\ fr.need = Asked(insts[i], n.before)
    BY <1>2, <1>4, <2>1, <2>2 DEF FrameSet
  <2>4. /\ stack' \in Seq(FrameSet) /\ stack' # <<>> /\ Len(stack') = Len(s) /\ stack'[Len(s)] = fr
        /\ \A k \in 1 .. Len(s) - 1 : stack'[k] = s[k]
    <3>1. stack' = [s EXCEPT ![Len(s)] = fr]
      BY <1>13, <2>1
    <3> QED BY <1>4, <2>3, <3>1
  <2>5. BlockInv'
    <3>1. phase' \in Phases \ (Early \cup {"preds"}) /\ f' \in F /\ ninst' \in 0 .. size /\ phase' = "need"
      BY <1>1, <1>13 DEF BlockInv, Phases, Early
    <3>2. phase \notin Early \cup {"preds"}
      BY <1>1 DEF Early
    <3> QED BY <1>1, <1>7, <2>4, <3>1, <3>2, LaterBlock
  <2>6. ASSUME NEW m \in DOMAIN insts, m > stack'[1].ninst \/ (m = stack'[1].ninst /\ stack'[1].at > 0)
        PROVE  Solved(m)'
    <3>1. CASE m = i
      BY <1>7, <3>1
    <3>2. CASE m # i
      <4>1. stack'[1].ninst = s[1].ninst /\ (m # s[1].ninst \/ stack'[1].at = s[1].at)
        <5>1. CASE Len(s) = 1
          BY <1>2, <1>4, <2>3, <2>4, <3>2, <5>1
        <5>2. CASE Len(s) # 1
          <6>1. 1 \in 1 .. Len(s) - 1
            <7>1. \A l \in Nat : l > 0 /\ l # 1 => 1 \in 1 .. l - 1
              OBVIOUS
            <7> QED BY <1>4, <5>2, <7>1, Zenon
          <6> QED BY <2>4, <6>1, Zenon
        <5> QED BY <5>1, <5>2
      <4>2. m > s[1].ninst \/ (m = s[1].ninst /\ s[1].at > 0)
        BY <2>6, <4>1
      <4> QED BY <1>3, <1>9, <4>2 DEF NeedOK
    <3> QED BY <3>1, <3>2
  <2>7. ASSUME NEW a \in DOMAIN insts, insts[a].alive, NEW j \in Succ(insts, a) PROVE Met(a, j)' \/ Pending(a, j)'
    <3>1. j \in DOMAIN insts
      BY <1>8
    <3>2. CASE j # i
      <4>1. ASSUME NEW k \in 1 .. Len(s) - 1, WillAsk(s[k], a, j)' PROVE Pending(a, j)'
        <5>1. k \in 1 .. Len(stack') /\ stack'[k] = s[k]
          BY <1>4, <2>4
        <5>2. WillAsk(stack[k], a, j)'
          BY <4>1, <5>1 DEF WillAsk
        <5> QED BY <5>1, <5>2 DEF Pending
      <4> QED BY <1>11, <2>7, <3>1, <3>2, <4>1
    <3>3. CASE j = i
      <4>1. Has(insts[i].pred, a)
        BY <1>4, <2>7, <3>3 DEF NeedOK, Linked, HasPred
      <4>2. insts[i].pred \in Seq(DOMAIN insts) /\ insts'[i].pred = insts[i].pred
        BY <1>4, <1>8 DEF InstsOK, Inst
      <4>3. \E m \in DOMAIN insts'[i].pred : m >= 1 /\ insts'[i].pred[m] = a
        BY <4>1, <4>2 DEF Has
      <4>4. AskedOf(i)' \subseteq fr.need
        BY <2>2, <2>3
      <4>5. Len(s) \in 1 .. Len(stack') /\ stack'[Len(s)] = fr
        BY <1>4, <2>4
      <4>6. WillAsk(fr, a, i)'
        BY <2>3, <4>3, <4>4 DEF WillAsk
      <4> QED BY <3>3, <4>5, <4>6 DEF Pending, WillAsk
    <3> QED BY <3>2, <3>3
  <2>8. NeedOK'
    BY <1>8, <2>6, <2>7 DEF NeedOK
  <2> QED BY <1>1, <1>13, <2>5, <2>8
<1> QED BY <1>6, <1>12, <1>13

\* A step that leaves the block alone.
LEMMA SameBlock ==
  ASSUME InstsOK, insts' = insts
  PROVE  /\ SameFlow /\ size' = size
         /\ Linked(size) => Linked(size)'
         /\ \A i : Solved(i)' = Solved(i) /\ AskedOf(i)' = AskedOf(i)
         /\ \A i, j : Met(i, j)' = Met(i, j)
         /\ \A fr, i, j : WillAsk(fr, i, j)' = WillAsk(fr, i, j)
<1>1. SameFlow /\ size' = size
  BY DEF InstsOK, SameFlow, size
<1>2. Linked(size) => Linked(size)'
  BY <1>1 DEF Linked, HasPred
<1>3. \A i : Solved(i)' = Solved(i) /\ AskedOf(i)' = AskedOf(i)
  BY DEF Solved, AskedOf, op
<1>4. \A i, j : Met(i, j)' = Met(i, j)
  BY DEF Met, op
<1>5. \A fr, i, j : WillAsk(fr, i, j)' = WillAsk(fr, i, j)
  BY DEF WillAsk, AskedOf
<1> QED BY <1>1, <1>2, <1>3, <1>4, <1>5

LEMMA VisitPredKeeps ==
  ASSUME BlockInv, NeedOK, VisitPred
  PROVE  BlockInv' /\ phase' = "need" /\ NeedOK'
<1>1. phase = "need" /\ phase' = "need" /\ Top.at > 0 /\ fwd' = fwd /\ ninst' = ninst /\ f' = f /\ insts' = insts
  BY DEF VisitPred
<1>2. PICK i, s, d, at : i = Top.ninst /\ s = stack /\ at = Top.at /\ d = Top.need
  OBVIOUS
<1>3. /\ InstsOK /\ LiveOK /\ size > 0 /\ s \in Seq(FrameSet) /\ s # <<>>
      /\ Len(s) \in Nat /\ Len(s) > 0 /\ Top = s[Len(s)] /\ Top \in FrameSet
      /\ i \in DOMAIN insts /\ at \in Nat /\ d \in Needs /\ s[1] \in FrameSet
  BY <1>1, <1>2, TopFrame
<1>4. insts[i].pred \in Seq(DOMAIN insts) /\ at \in DOMAIN insts[i].pred /\ insts[i].pred[at] \in DOMAIN insts
  <2>1. insts[i].pred \in Seq(DOMAIN insts)
    BY <1>3 DEF InstsOK, Inst
  <2>2. at <= Len(insts[i].pred) /\ at > 0
    BY <1>1, <1>2 DEF VisitPred
  <2> QED BY <1>3, <2>1, <2>2
<1>5. PICK fr, new, next : /\ fr = [ninst |-> i, need |-> d, at |-> at + 1]
                           /\ new = Frame(insts[i].pred[at], d)
                           /\ next = [s EXCEPT ![Len(s)] = fr]
  OBVIOUS
<1>6. stack' = IF insts[i].pred[at] = i - 1 THEN next ELSE Append(next, new)
  <2>1. [Top EXCEPT !.at = @ + 1] = fr
    BY <1>2, <1>3, <1>5 DEF FrameSet
  <2>2. [stack EXCEPT ![Len(stack)].at = @ + 1] = next
    BY <1>2, <1>3, <1>5, <2>1
  <2> QED BY <1>2, <1>5, <2>2 DEF VisitPred
<1>7. fr \in FrameSet /\ new \in FrameSet /\ fr.ninst = i /\ fr.at = at + 1 /\ fr.need = d
      /\ new.ninst = insts[i].pred[at] /\ new.at = 0 /\ new.need = d
  BY <1>3, <1>4, <1>5 DEF Frame, FrameSet
<1>8. /\ next \in Seq(FrameSet) /\ next # <<>> /\ Len(next) = Len(s) /\ next[Len(s)] = fr
      /\ \A k \in 1 .. Len(s) : k # Len(s) => next[k] = s[k]
  BY <1>3, <1>5, <1>7
<1>9. /\ stack' \in Seq(FrameSet) /\ stack' # <<>> /\ Len(stack') >= Len(s) /\ Len(stack') \in Nat
      /\ \A k \in 1 .. Len(s) : stack'[k] = next[k]
      /\ insts[i].pred[at] # i - 1 => Top' = new
  <2>1. CASE insts[i].pred[at] = i - 1
    BY <1>3, <1>6, <1>8, <2>1
  <2>2. CASE insts[i].pred[at] # i - 1
    <3>1. stack' = Append(next, new)
      BY <1>6, <2>2
    <3>2. /\ stack' \in Seq(FrameSet) /\ Len(stack') = Len(s) + 1 /\ stack'[Len(s) + 1] = new
          /\ \A k \in 1 .. Len(s) : stack'[k] = next[k]
      BY <1>3, <1>7, <1>8, <3>1
    <3> QED BY <1>3, <3>2 DEF Top
  <2> QED BY <2>1, <2>2
<1>10. BlockInv'
  <2>1. phase' \in Phases \ (Early \cup {"preds"}) /\ phase \notin Early \cup {"preds"} /\ f' \in F /\ ninst' \in 0 .. size
    BY <1>1 DEF BlockInv, Phases, Early
  <2>2. SameFlow
    BY <1>1, <1>3, SameBlock
  <2> QED BY <1>1, <1>9, <2>1, <2>2, LaterBlock
<1>11. ASSUME NEW m \in DOMAIN insts, m > stack'[1].ninst \/ (m = stack'[1].ninst /\ stack'[1].at > 0) PROVE Solved(m)'
  <2>1. stack'[1].ninst = s[1].ninst /\ (stack'[1].at > 0 => s[1].at > 0)
    <3>1. CASE Len(s) = 1
      BY <1>1, <1>2, <1>3, <1>7, <1>8, <1>9, <3>1
    <3>2. CASE Len(s) # 1
      BY <1>3, <1>8, <1>9, <3>2
    <3> QED BY <3>1, <3>2
  <2>2. Solved(m)
    BY <1>2, <1>11, <2>1 DEF NeedOK
  <2> QED BY <1>1, <1>3, <2>2, SameBlock
<1>12. ASSUME NEW a \in DOMAIN insts, insts[a].alive, NEW j \in Succ(insts, a) PROVE Met(a, j)' \/ Pending(a, j)'
  <2>1. CASE Met(a, j)
    BY <1>1, <1>3, <2>1, SameBlock
  <2>2. ASSUME NEW k \in 1 .. Len(s), WillAsk(s[k], a, j) PROVE Pending(a, j)'
    <3>1. k \in 1 .. Len(stack')
      BY <1>3, <1>9
    <3>2. CASE k # Len(s)
      <4>1. stack'[k] = s[k]
        BY <1>8, <1>9, <3>2
      <4>2. WillAsk(s[k], a, j)'
        BY <1>1, <1>3, <2>2, SameBlock
      <4> QED BY <3>1, <4>1, <4>2 DEF Pending, WillAsk
    <3>3. CASE k = Len(s)
      <4>1. j = i /\ AskedOf(j) \subseteq d
        BY <1>2, <1>3, <2>2, <3>3 DEF WillAsk
      <4>2. AskedOf(j)' \subseteq d
        BY <1>1, <1>3, <4>1, SameBlock
      <4>3. a # i - 1 => \E m \in DOMAIN insts[i].pred : m >= at /\ insts[i].pred[m] = a
        BY <1>2, <1>3, <2>2, <3>3 DEF WillAsk
      <4>4. CASE a # i - 1 /\ insts[i].pred[at] = a
        <5>1. Top' = new
          BY <1>9, <4>4
        <5>2. Top'.at = 0 /\ Top'.ninst = a /\ AskedOf(j)' \subseteq Top'.need
          BY <1>7, <4>2, <4>4, <5>1
        <5> QED BY <5>2 DEF Pending, Asks
      <4>5. CASE a = i - 1 \/ insts[i].pred[at] # a
        <5>1. a # i - 1 => \E m \in DOMAIN insts[i].pred : m >= at + 1 /\ insts[i].pred[m] = a
          <6>1. ASSUME NEW m \in DOMAIN insts[i].pred, m >= at, insts[i].pred[m] = a, insts[i].pred[at] # a
                PROVE  m >= at + 1
            BY <1>3, <1>4, <6>1
          <6> QED BY <4>3, <4>5, <6>1
        <5>2. fr.at > 0
          BY <1>3, <1>7
        <5>3. WillAsk(fr, a, j)'
          BY <1>1, <1>7, <4>1, <4>2, <5>1, <5>2 DEF WillAsk
        <5>4. stack'[k] = fr
          BY <1>3, <1>8, <1>9, <3>3
        <5> QED BY <3>1, <5>3, <5>4 DEF Pending, WillAsk
      <4> QED BY <4>4, <4>5
    <3> QED BY <3>2, <3>3
  <2>3. ~ Asks(Top, a, j)
    BY <1>1 DEF Asks
  <2> QED BY <1>2, <1>12, <2>1, <2>2, <2>3 DEF NeedOK, Pending
<1>13. Linked(size)'
  BY <1>1, <1>3, SameBlock DEF NeedOK
<1> QED BY <1>1, <1>10, <1>11, <1>12, <1>13 DEF NeedOK

LEMMA VisitBeforeKeeps ==
  ASSUME BlockInv, NeedOK, VisitBefore
  PROVE  BlockInv' /\ \/ phase' = "need" /\ NeedOK'
                      \/ phase' = "pass1" /\ Reached'
<1>1. phase = "need" /\ Top.at > 0 /\ fwd' = fwd /\ ninst' = ninst /\ insts' = insts
  BY DEF VisitBefore
<1>2. PICK i, s, d, at : i = Top.ninst /\ s = stack /\ at = Top.at /\ d = Top.need
  OBVIOUS
<1>3. /\ InstsOK /\ LiveOK /\ size > 0 /\ s \in Seq(FrameSet) /\ s # <<>> /\ size \in Nat
      /\ Len(s) \in Nat /\ Len(s) > 0 /\ Top = s[Len(s)] /\ Top \in FrameSet
      /\ i \in DOMAIN insts /\ at \in Nat /\ d \in Needs /\ s[1] \in FrameSet /\ DOMAIN insts = 0 .. size - 1
  BY <1>1, <1>2, TopFrame
<1>4. insts[i].pred \in Seq(DOMAIN insts) /\ at > Len(insts[i].pred)
  BY <1>2, <1>3 DEF VisitBefore, InstsOK, Inst
<1>5. Linked(size) /\ Linked(size)' /\ size' = size /\ SameFlow
  BY <1>1, <1>3, SameBlock DEF NeedOK
<1>6. phase \notin Early \cup {"preds"} /\ f \in F /\ ninst' \in 0 .. size
  BY <1>1 DEF Early, BlockInv
\* The loop over the predecessors is over: what is left is the instruction before.
<1>7. ASSUME NEW a \in DOMAIN insts, NEW j, WillAsk(s[Len(s)], a, j)
      PROVE  j = i /\ a = i - 1 /\ AskedOf(j) \subseteq d
  <2>1. /\ j = i /\ AskedOf(j) \subseteq d
        /\ a # i - 1 => \E m \in DOMAIN insts[i].pred : m >= at /\ insts[i].pred[m] = a
    BY <1>2, <1>3, <1>7 DEF WillAsk
  <2>2. \A m \in DOMAIN insts[i].pred : ~ m >= at
    BY <1>3, <1>4
  <2> QED BY <2>1, <2>2
<1>8. ASSUME NEW a \in DOMAIN insts, insts[a].alive, NEW j \in Succ(insts, a)
      PROVE  \/ Met(a, j)'
             \/ \E k \in 1 .. Len(s) - 1 : WillAsk(s[k], a, j)'
             \/ WillAsk(s[Len(s)], a, j)
  <2>1. ~ Asks(Top, a, j)
    BY <1>1 DEF Asks
  <2>2. Met(a, j) \/ \E k \in 1 .. Len(s) : WillAsk(s[k], a, j)
    BY <1>2, <1>8, <2>1 DEF NeedOK, Pending
  <2>3. Met(a, j) => Met(a, j)'
    BY <1>1, <1>3, SameBlock
  <2>4. ASSUME NEW k \in 1 .. Len(s), WillAsk(s[k], a, j), k # Len(s)
        PROVE  k \in 1 .. Len(s) - 1 /\ WillAsk(s[k], a, j)'
    <3>1. k \in 1 .. Len(s) - 1
      BY <1>3, <2>4
    <3> QED BY <1>1, <1>3, <2>4, <3>1, SameBlock
  <2> QED BY <2>2, <2>3, <2>4
<1>9. \A m \in DOMAIN insts : m > s[1].ninst \/ (m = s[1].ninst /\ (s[1].at > 0 \/ Len(s) = 1)) => Solved(m)'
  <2> SUFFICES ASSUME NEW m \in DOMAIN insts,
                      m > s[1].ninst \/ (m = s[1].ninst /\ (s[1].at > 0 \/ Len(s) = 1))
               PROVE  Solved(m)
    BY <1>1, <1>3, SameBlock
  <2>1. Len(s) = 1 => s[1].at > 0
    BY <1>1, <1>3
  <2> QED BY <1>2, <2>1 DEF NeedOK
<1>10. CASE Falls(i)
  <2>1. PICK fr : fr = Frame(i - 1, d)
    OBVIOUS
  <2>2. stack' = [s EXCEPT ![Len(s)] = fr] /\ phase' = "need" /\ f' = f
    BY <1>1, <1>2, <1>10, <2>1 DEF VisitBefore
  <2>3. i - 1 \in DOMAIN insts
    BY <1>4, <1>10 DEF Falls
  <2>4. fr \in FrameSet /\ fr.ninst = i - 1 /\ fr.at = 0 /\ fr.need = d
    BY <1>3, <2>1, <2>3 DEF Frame, FrameSet
  <2>5. /\ stack' \in Seq(FrameSet) /\ stack' # <<>> /\ Len(stack') = Len(s) /\ stack'[Len(s)] = fr
        /\ \A k \in 1 .. Len(s) - 1 : stack'[k] = s[k]
    BY <1>3, <2>2, <2>4
  <2>6. BlockInv'
    <3>1. phase' \in Phases \ (Early \cup {"preds"})
      BY <2>2 DEF Phases, Early
    <3> QED BY <1>1, <1>5, <1>6, <2>2, <2>5, <3>1, LaterBlock
  <2>7. ASSUME NEW m \in DOMAIN insts, m > stack'[1].ninst \/ (m = stack'[1].ninst /\ stack'[1].at > 0)
        PROVE  Solved(m)'
    <3>1. CASE Len(s) = 1
      <4>1. s[1].ninst = i /\ stack'[1] = fr
        BY <1>2, <1>3, <2>5, <3>1
      <4>2. m > i \/ m = i
        BY <1>3, <2>4, <2>7, <4>1
      <4> QED BY <1>9, <3>1, <4>1, <4>2
    <3>2. CASE Len(s) # 1
      <4>1. stack'[1] = s[1]
        BY <1>3, <2>5, <3>2
      <4> QED BY <1>9, <2>7, <4>1
    <3> QED BY <3>1, <3>2
  <2>8. ASSUME NEW a \in DOMAIN insts, insts[a].alive, NEW j \in Succ(insts, a) PROVE Met(a, j)' \/ Pending(a, j)'
    <3>1. ASSUME NEW k \in 1 .. Len(s) - 1, WillAsk(s[k], a, j)' PROVE Pending(a, j)'
      <4>1. k \in 1 .. Len(stack') /\ stack'[k] = s[k]
        BY <1>3, <2>5
      <4> QED BY <3>1, <4>1 DEF Pending, WillAsk
    <3>2. CASE WillAsk(s[Len(s)], a, j)
      <4>1. j = i /\ a = i - 1 /\ AskedOf(j) \subseteq d
        BY <1>7, <3>2
      <4>2. AskedOf(j)' \subseteq d
        BY <1>1, <1>3, <4>1, SameBlock
      <4>3. Top' = fr
        BY <2>5 DEF Top
      <4>4. Top'.at = 0 /\ Top'.ninst = a /\ AskedOf(j)' \subseteq Top'.need
        BY <2>4, <4>1, <4>2, <4>3
      <4> QED BY <4>4 DEF Pending, Asks
    <3> QED BY <1>8, <2>8, <3>1, <3>2
  <2> QED BY <1>1, <1>5, <2>2, <2>6, <2>7, <2>8 DEF NeedOK
<1>11. CASE ~ Falls(i)
  <2>1. Return(i - 1)
    BY <1>2, <1>11 DEF VisitBefore
  <2>2. ASSUME NEW a \in DOMAIN insts, insts[a].alive, NEW j \in Succ(insts, a)
        PROVE  ~ WillAsk(s[Len(s)], a, j)
    <3> SUFFICES ASSUME WillAsk(s[Len(s)], a, j) PROVE FALSE
      OBVIOUS
    <3>1. j = i /\ a = i - 1
      BY <1>7
    <3>2. HasPred(a, i)
      BY <1>3, <1>5, <2>2, <3>1 DEF Linked
    <3> QED BY <1>11, <3>1, <3>2 DEF HasPred, Has, Falls
  <2>3. \A a \in DOMAIN insts : insts'[a].alive =>
           \A j \in Succ(insts', a) : Met(a, j)' \/ \E k \in 1 .. Len(s) - 1 : WillAsk(s[k], a, j)'
    BY <1>1, <1>8, <2>2
  <2>4. Return(s[Len(s)].ninst - 1)
    BY <1>2, <1>3, <2>1
  <2>5. DOMAIN insts' = DOMAIN insts
    BY <1>1
  <2>6. \/ phase' = "need" /\ stack' \in Seq(FrameSet) /\ stack' # <<>> /\ f' = f /\ NeedOK'
        \/ phase' = "pass1" /\ stack' = <<>> /\ f' = Unknown /\ Reached'
    BY <1>1, <1>2, <1>3, <1>5, <1>9, <2>3, <2>4, <2>5, ReturnNeed
  <2>7. BlockInv'
    <3>1. phase' \in Phases \ (Early \cup {"preds"}) /\ f' \in F
      BY <1>6, <2>6, UnknownType DEF Phases, Early
    <3> QED BY <1>1, <1>5, <1>6, <2>6, <3>1, LaterBlock
  <2> QED BY <2>6, <2>7
<1> QED BY <1>10, <1>11

-----------------------------------------------------------------------------
(***************************************************************************)
(* Passes 1 and 2: what they emit.                                         *)
(***************************************************************************)
Emission == [f : F, ops : Seq(Micro)]

LEMMA EmitType ==
  ASSUME NEW e \in Emission, NEW ops \in Seq(Micro)
  PROVE  Emit(e, ops) \in Emission
<1>1. e.ops \o ops \in Seq(Micro)
  BY ConcatSeq DEF Emission
<1> QED BY <1>1 DEF Emission, Emit

LEMMA AppendOp ==
  ASSUME NEW e \in Emission, NEW o \in Micro
  PROVE  Append(e.ops, o) \in Seq(Micro) /\ <<o>> \in Seq(Micro)
BY DEF Emission

LEMMA ReadFlagsType ==
  ASSUME NEW e \in Emission, NEW a
  PROVE  READFLAGS(e, a) \in Emission
<1>1. Append(e.ops, "update") \in Seq(Micro)
  BY AppendOp DEF Micro
<1> QED BY <1>1 DEF READFLAGS, Emission, F

LEMMA DfNoneType ==
  ASSUME NEW e \in Emission
  PROVE  SET_DFNONE(e) \in Emission
<1>1. Append(e.ops, "dfnone") \in Seq(Micro)
  BY AppendOp DEF Micro
<1>2. e.f \in F /\ [e.f EXCEPT !.dfnone = TRUE] \in F
  BY DEF Emission, F
<1> QED BY <1>1, <1>2 DEF SET_DFNONE, Emission

LEMMA DfType ==
  ASSUME NEW e \in Emission, NEW inst
  PROVE  SET_DF(e, inst) \in Emission
<1>1. Append(e.ops, "setdf") \in Seq(Micro)
  BY AppendOp DEF Micro
<1>2. <<"setdf", "update">> \in Seq(Micro)
  BY DEF Micro
<1>3. e.ops \o <<"setdf", "update">> \in Seq(Micro)
  BY <1>2, ConcatSeq DEF Emission
<1>4. [e.f EXCEPT !.dfnone = FALSE] \in F /\ [pending |-> "SET", dfnone |-> FALSE] \in F
  BY DEF Emission, F
<1> QED BY <1>1, <1>3, <1>4 DEF SET_DF, Emission

LEMMA SetFlagsType ==
  ASSUME NEW e \in Emission, NEW inst, NEW o
  PROVE  SETFLAGS(e, inst, o) \in Emission
<1> DEFINE r == IF /\ e.f.pending # "SET"
                   /\ o.state \in {"SUBSET", "SUBSET_PENDING"}
                   /\ inst.gen \ o.set # {}
                THEN READFLAGS(e, (IF "PEND" \in inst.gen THEN Flags ELSE inst.gen) \ o.set)
                ELSE e
           p == CASE inst.gen = {} -> "SET"
                  [] inst.gen # {} /\ o.state = "PENDING" -> "PENDING"
                  [] inst.gen # {} /\ o.state \in {"SET_PENDING", "SUBSET_PENDING"} ->
                         IF "PEND" \in inst.gen THEN "SET_PENDING" ELSE "SET"
                  [] OTHER -> "SET"
           d == CASE inst.gen # {} /\ o.state = "SET_DF" -> TRUE
                  [] inst.gen # {} /\ o.state = "SET_NODF" -> FALSE
                  [] OTHER -> r.f.dfnone
<1>1. r \in Emission
  BY ReadFlagsType
<1>2. p \in {"SET", "PENDING", "SET_PENDING"}
  OBVIOUS
<1>3. d \in BOOLEAN
  <2>1. r.f.dfnone \in BOOLEAN
    BY <1>1 DEF Emission, F
  <2> HIDE DEF r
  <2> QED BY <2>1
<1>4. SETFLAGS(e, inst, o) = [r EXCEPT !.f = [pending |-> p, dfnone |-> d]]
  BY DEF SETFLAGS
<1> HIDE DEF r, p, d
<1> QED BY <1>1, <1>2, <1>3, <1>4 DEF Emission, F

LEMMA WritesType ==
  ASSUME NEW e \in Emission, NEW inst, NEW o
  PROVE  EmitWrites(e, inst, o) \in Emission
<1>1. <<"write">> \in Seq(Micro) /\ <<"writeall">> \in Seq(Micro) /\ <<"dfnone", "writeall">> \in Seq(Micro)
  BY DEF Micro
<1>2. SET_DF(e, inst) \in Emission /\ SET_DFNONE(e) \in Emission
  BY DfType, DfNoneType
<1>3. /\ Emit(SET_DF(e, inst), <<"write">>) \in Emission /\ Emit(SET_DFNONE(e), <<"write">>) \in Emission
      /\ Emit(e, <<"write">>) \in Emission /\ Emit(SET_DFNONE(e), <<"writeall">>) \in Emission
      /\ Emit(e, <<"writeall">>) \in Emission /\ Emit(e, <<"dfnone", "writeall">>) \in Emission
  BY <1>1, <1>2, EmitType
<1> QED BY <1>2, <1>3 DEF EmitWrites

LEMMA EmitInstType ==
  ASSUME NEW i, NEW g \in F
  PROVE  EmitInst(i, g) \in Emission
<1> DEFINE e0    == [f |-> g, ops |-> <<>>]
           entry == IF insts[i].need_before \ {"PEND"} # {} /\ insts[i].pred = <<>>
                    THEN READFLAGS(e0, insts[i].need_before \ {"PEND"}) ELSE e0
           read  == IF op(i).use = {} THEN entry ELSE Emit(READFLAGS(entry, op(i).use), <<"read">>)
           set   == IF op(i).state = "UNKNOWN" THEN read ELSE SETFLAGS(read, insts[i], op(i))
           skip  == IF op(i).skips /\ insts[i].gen # {} THEN Emit(set, <<"skip">>) ELSE set
           new   == IF op(i).state = "UNKNOWN" THEN skip ELSE Emit(skip, <<"commit">>)
<1>1. <<"read">> \in Seq(Micro) /\ <<"skip">> \in Seq(Micro) /\ <<"commit">> \in Seq(Micro) /\ <<>> \in Seq(Micro)
  BY EmptySeq DEF Micro
<1>2. e0 \in Emission
  BY <1>1 DEF Emission
<1>3. entry \in Emission
  <2> HIDE DEF e0
  <2> QED BY <1>2, ReadFlagsType
<1>4. read \in Emission
  <2> HIDE DEF entry
  <2> QED BY <1>1, <1>3, ReadFlagsType, EmitType
<1>5. set \in Emission
  <2> HIDE DEF read
  <2> QED BY <1>4, SetFlagsType
<1>6. skip \in Emission
  <2> HIDE DEF set
  <2> QED BY <1>1, <1>5, EmitType
<1>7. new \in Emission
  <2> HIDE DEF skip
  <2> QED BY <1>1, <1>6, EmitType
<1>8. EmitInst(i, g) = EmitWrites(new, insts[i], op(i))
  BY DEF EmitInst
<1> HIDE DEF new
<1> QED BY <1>7, <1>8, WritesType

\* The next live instruction after a jump, or the end of the block.
LEMMA NextLiveIn ==
  ASSUME InstsOK, NEW i \in 0 .. size
  PROVE  LET k == NextLive(i)
         IN  k \in i .. size /\ (k = size \/ insts[k].alive) /\ \A m \in i .. (k - 1) : ~insts[m].alive
<1>1. size \in Nat
  BY DEF InstsOK
<1>2. PICK S : S = {k \in i .. size : k = size \/ insts[k].alive}
  OBVIOUS
<1>3. S \in SUBSET Nat /\ size \in S
  BY <1>1, <1>2
<1>4. PICK k \in S : \A m \in S : k <= m
  BY <1>3, LeastOf
<1>5. k \in i .. size /\ (k = size \/ insts[k].alive) /\ \A m \in i .. (k - 1) : ~insts[m].alive
  <2>1. k \in i .. size /\ (k = size \/ insts[k].alive)
    BY <1>2, <1>4
  <2>2. ASSUME NEW m \in i .. (k - 1), insts[m].alive PROVE FALSE
    <3>1. m \in i .. size /\ ~ k <= m
      BY <1>1, <2>1
    <3> QED BY <1>2, <1>4, <2>2, <3>1
  <2> QED BY <2>1, <2>2
<1> QED BY <1>5, Zenon DEF NextLive

\* The instructions as pass 1 rewrites them.
LEMMA ResetFType ==
  ASSUME NEW D, NEW is \in [D -> Inst(D)], NEW i
  PROVE  ResetF(is, i) \in F
<1>1. PICK p : p = NominalPred(is, i)
  OBVIOUS
<1>2. CASE p = NoInst
  BY <1>1, <1>2, UnknownType DEF ResetF
<1>3. CASE p # NoInst
  <2>1. i \in D /\ is[i].pred # <<>>
    BY <1>1, <1>3 DEF NominalPred
  <2>2. is[i].pred \in Seq(D)
    BY <2>1 DEF Inst
  <2>3. \A k \in DOMAIN is[i].pred : is[i].pred[k] \in D
    BY <2>2
  <2>4. 1 \in DOMAIN is[i].pred
    BY <2>1, <2>2
  <2>5. p \in D
    BY <1>1, <1>3, <2>3, <2>4 DEF NominalPred
  <2>6. is[p].f_exit \in F
    BY <2>5 DEF Inst
  <2> QED BY <1>1, <2>6, UnknownType DEF ResetF
<1> QED BY <1>2, <1>3

\* A step of a pass: it leaves the needs and the flow of control alone.
SameNeeds ==
  \A i \in DOMAIN insts : /\ insts'[i].need_before = insts[i].need_before
                          /\ insts'[i].need_after = insts[i].need_after
                          /\ insts'[i].gen = insts[i].gen

LEMMA ReachedKeeps ==
  ASSUME InstsOK, SameFlow, SameNeeds, Reached
  PROVE  Reached'
<1>1. DOMAIN insts' = DOMAIN insts /\ \A i \in DOMAIN insts : op(i)' = op(i) /\ insts'[i].barrier = insts[i].barrier
                                                             /\ insts'[i].alive = insts[i].alive
  BY DEF SameFlow, op
<1>2. \A i \in DOMAIN insts : Succ(insts', i) = Succ(insts, i) /\ Succ(insts, i) \subseteq DOMAIN insts
  BY <1>1, SuccIn DEF SameFlow, Succ
<1>3. \A i \in DOMAIN insts : Solved(i)'
  BY <1>1 DEF Reached, Solved, SameNeeds
<1>4. \A i, j \in DOMAIN insts : Met(i, j) => Met(i, j)'
  BY <1>1 DEF Met, Asked, SameNeeds
<1> QED BY <1>1, <1>2, <1>3, <1>4 DEF Reached

Code == [DOMAIN insts -> [ops : Seq(Micro), taken : Seq(Micro)]]

LEMMA PassKeeps ==
  ASSUME BlockInv, Reached, NEW step \in {"pass1", "pass2"}, Pass(step), step = "pass2" => code \in Code
  PROVE  /\ BlockInv' /\ phase' = phase /\ Reached' /\ (step = "pass2" => code' \in Code')
         /\ SameFlow /\ SameNeeds
<1>1. phase = step /\ phase' = phase /\ fwd' = fwd /\ stack' = stack /\ ninst < size
  BY DEF Pass
<1>2. /\ InstsOK /\ size \in Nat /\ ninst \in 0 .. size /\ f \in F /\ stack = <<>>
      /\ phase \notin Early \cup {"preds"} /\ phase # "need" /\ phase \in Phases \ (Early \cup {"preds"})
      /\ DOMAIN insts = 0 .. size - 1
  BY <1>1 DEF BlockInv, InstsOK, Early, Phases
<1> DEFINE e == EmitInst(ninst, f)
           goes == op(ninst).kind \notin {"jmp", "ret"}
           to == IF goes THEN ninst + 1 ELSE NextLive(ninst + 1)
           cell(i) == CASE i = ninst -> [insts[i] EXCEPT !.f_entry = f, !.f_exit = e.f]
                        [] i > ninst /\ i < to ->
                             [insts[i] EXCEPT !.f_entry = e.f, !.f_exit = e.f]
                        [] OTHER -> insts[i]
           new == [i \in DOMAIN insts |-> cell(i)]
           is == IF step = "pass2" THEN insts ELSE new
<1>4. /\ insts' = is
      /\ code' = IF step = "pass2"
                 THEN [code EXCEPT ![ninst] = [ops |-> e.ops, taken |-> TakenOps(ninst, e.f)]] ELSE code
      /\ f' = IF ~goes THEN ResetF(is, to)
              ELSE IF to \in DOMAIN insts /\ insts[to].barrier THEN Unknown ELSE e.f
      /\ ninst' = to
  BY Zenon DEF Pass
<1>5. e \in Emission /\ e.f \in F /\ e.ops \in Seq(Micro)
  BY <1>2, EmitInstType DEF Emission
<1>6. to \in 0 .. size
  <2>1. ninst + 1 \in 0 .. size
    BY <1>1, <1>2
  <2>2. NextLive(ninst + 1) \in 0 .. size
    BY <1>2, <2>1, NextLiveIn
  <2> QED BY <2>1, <2>2
<1> HIDE DEF e, goes, to
<1>7. \A i \in DOMAIN insts : insts[i] \in Inst(DOMAIN insts)
  BY <1>2 DEF InstsOK
<1>8. \A i \in DOMAIN insts : \E g, h \in F : is[i] = insts[i] \/ is[i] = [insts[i] EXCEPT !.f_entry = g, !.f_exit = h]
  <2> SUFFICES ASSUME NEW i \in DOMAIN insts
               PROVE  \E g, h \in F : is[i] = insts[i] \/ is[i] = [insts[i] EXCEPT !.f_entry = g, !.f_exit = h]
    OBVIOUS
  <2>1. \/ is[i] = insts[i] \/ is[i] = [insts[i] EXCEPT !.f_entry = f, !.f_exit = e.f]
        \/ is[i] = [insts[i] EXCEPT !.f_entry = e.f, !.f_exit = e.f]
    OBVIOUS
  <2> HIDE DEF is
  <2> QED BY <1>2, <1>5, <2>1, Zenon
<1>9. DOMAIN is = DOMAIN insts /\ is = [i \in DOMAIN insts |-> is[i]]
  <2>1. DOMAIN insts = DOMAIN insts /\ insts = [i \in DOMAIN insts |-> insts[i]]
    BY <1>2 DEF InstsOK
  <2>2. DOMAIN new = DOMAIN insts /\ new = [i \in DOMAIN insts |-> new[i]]
    <3> HIDE DEF cell
    <3> QED OBVIOUS
  <2>3. is = insts \/ is = new
    OBVIOUS
  <2> HIDE DEF is, new
  <2> QED BY <2>1, <2>2, <2>3, Zenon
<1> HIDE DEF is, new
<1>10. ASSUME NEW i \in DOMAIN insts
       PROVE  /\ is[i] \in Inst(DOMAIN insts)
              /\ is[i].op = insts[i].op /\ is[i].jmp_insts = insts[i].jmp_insts
              /\ is[i].has_next = insts[i].has_next /\ is[i].alive = insts[i].alive
              /\ is[i].pred = insts[i].pred /\ is[i].barrier = insts[i].barrier
              /\ is[i].need_before = insts[i].need_before /\ is[i].need_after = insts[i].need_after
              /\ is[i].gen = insts[i].gen
  <2>1. PICK x, y : x = insts[i] /\ y = is[i]
    OBVIOUS
  <2>2. x \in Inst(DOMAIN insts)
    BY <1>7, <2>1
  <2>3. PICK g \in F, h \in F : y = x \/ y = [x EXCEPT !.f_entry = g, !.f_exit = h]
    BY <1>8, <2>1
  <2>4. /\ y \in Inst(DOMAIN insts)
        /\ y.op = x.op /\ y.jmp_insts = x.jmp_insts /\ y.has_next = x.has_next /\ y.alive = x.alive
        /\ y.pred = x.pred /\ y.barrier = x.barrier
        /\ y.need_before = x.need_before /\ y.need_after = x.need_after /\ y.gen = x.gen
    BY <2>2, <2>3 DEF Inst
  <2> QED BY <2>1, <2>4
<1>11. is \in [DOMAIN insts -> Inst(DOMAIN insts)]
  BY <1>9, <1>10
<1>12. SameFlow /\ SameNeeds
  BY <1>4, <1>10, <1>11 DEF SameFlow, SameNeeds
<1>13. f' \in F
  BY <1>4, <1>5, <1>11, ResetFType, UnknownType
<1>14. BlockInv'
  BY <1>1, <1>2, <1>4, <1>6, <1>12, <1>13, LaterBlock
<1>15. Reached'
  BY <1>2, <1>12, ReachedKeeps
<1>16. step = "pass2" => code' \in Code'
  <2>1. DOMAIN insts' = DOMAIN insts
    BY <1>4, <1>9
  <2>2. TakenOps(ninst, e.f) \in Seq(Micro)
    <3>1. <<"update">> \in Seq(Micro) /\ <<>> \in Seq(Micro)
      BY EmptySeq DEF Micro
    <3> QED BY <3>1 DEF TakenOps
  <2>3. PICK c : c = [ops |-> e.ops, taken |-> TakenOps(ninst, e.f)]
    OBVIOUS
  <2>4. c \in [ops : Seq(Micro), taken : Seq(Micro)]
    BY <1>5, <2>2, <2>3
  <2>5. step = "pass2" => code' = [code EXCEPT ![ninst] = c]
    BY <1>4, <2>3
  <2> QED BY <2>1, <2>4, <2>5 DEF Code
<1> QED BY <1>1, <1>12, <1>14, <1>15, <1>16

-----------------------------------------------------------------------------
(***************************************************************************)
(* The block runs.                                                         *)
(***************************************************************************)
Runs == [at : DOMAIN insts, ops : Seq(Micro), taken : BOOLEAN,
         ok : [Flags -> BOOLEAN], df : [Flags -> {"no", "ok", "bad"}]]

\* The code, and where it runs: always in a live instruction.
CodeInv ==
  /\ phase \in {"pass2", "ready", "run", "left"} => code \in Code
  /\ phase \in {"run", "left"} => run \in Runs /\ insts[run.at].alive

LEMMA SameInsts ==
  ASSUME BlockInv, insts' = insts, fwd' = fwd, stack' = stack, f' \in F, ninst' \in 0 .. size,
         phase \notin Early \cup {"preds", "need"}, phase' \in Phases \ (Early \cup {"preds", "need"})
  PROVE  BlockInv' /\ Code' = Code /\ Runs' = Runs /\ (Reached => Reached')
<1>1. InstsOK /\ stack = <<>>
  BY DEF BlockInv
<1>2. SameFlow
  BY <1>1, SameBlock
<1>3. BlockInv'
  BY <1>1, <1>2, LaterBlock
<1>4. Reached => Reached'
  BY <1>1, <1>2, ReachedKeeps DEF SameNeeds
<1> QED BY <1>3, <1>4 DEF Code, Runs

LEMMA NextPassKeeps ==
  ASSUME BlockInv, CodeInv, NextPass
  PROVE  BlockInv' /\ CodeInv' /\ phase' \in {"pass2", "ready"} /\ (Reached => Reached')
<1>1. phase \in {"pass1", "pass2"} /\ phase' \in {"pass2", "ready"} /\ insts' = insts /\ fwd' = fwd /\ stack' = stack
      /\ ninst' = 0 /\ f' = Unknown
  BY DEF NextPass
<1>2. ninst' \in 0 .. size /\ phase \notin Early \cup {"preds", "need"} /\ phase' \in Phases \ (Early \cup {"preds", "need"})
  BY <1>1 DEF BlockInv, InstsOK, Early, Phases
<1>3. BlockInv' /\ Code' = Code /\ (Reached => Reached')
  BY <1>1, <1>2, SameInsts, UnknownType
<1>4. code' \in Code
  <2>1. <<>> \in Seq(Micro)
    BY EmptySeq
  <2>2. CASE phase = "pass1"
    BY <2>1, <2>2 DEF NextPass, Code
  <2>3. CASE phase = "pass2"
    BY <2>3 DEF NextPass, CodeInv
  <2> QED BY <1>1, <2>2, <2>3
<1> QED BY <1>1, <1>3, <1>4 DEF CodeInv

LEMMA AtType ==
  ASSUME BlockInv, code \in Code, NEW i \in DOMAIN insts, NEW p, p.ok \in [Flags -> BOOLEAN],
         p.df \in [Flags -> {"no", "ok", "bad"}]
  PROVE  At(i, p) \in Runs /\ At(i, p).at = i
<1>1. code[i].ops \in Seq(Micro)
  BY DEF Code
<1> QED BY <1>1 DEF At, Runs

LEMMA EnterKeeps ==
  ASSUME BlockInv, CodeInv, Enter
  PROVE  BlockInv' /\ CodeInv' /\ phase' = "run"
<1>1. phase = "ready" /\ phase' = "run" /\ insts' = insts /\ fwd' = fwd /\ stack' = stack /\ ninst' = ninst /\ f' = f
      /\ code' = code
  BY DEF Enter
<1>2. BlockInv' /\ Code' = Code /\ Runs' = Runs
  BY <1>1, SameInsts DEF BlockInv, Early, Phases
<1>3. 0 \in DOMAIN insts /\ insts[0].alive
  BY <1>1 DEF BlockInv, InstsOK, LiveOK, Early
<1>4. PICK p \in Entries : run' = At(0, p)
  BY DEF Enter
<1>5. p.ok \in [Flags -> BOOLEAN] /\ p.df \in [Flags -> {"no", "ok", "bad"}]
  <2>1. PICK d : p = [ok |-> [fl \in Flags |-> fl \notin d], df |-> [fl \in Flags |-> IF fl \in d THEN "ok" ELSE "no"]]
    BY DEF Entries
  <2>2. p.ok = [fl \in Flags |-> fl \notin d] /\ p.df = [fl \in Flags |-> IF fl \in d THEN "ok" ELSE "no"]
    BY <2>1
  <2>3. p.ok \in [Flags -> BOOLEAN]
    BY <2>2, Zenon
  <2>4. p.df \in [Flags -> {"no", "ok", "bad"}]
    BY <2>2
  <2> QED BY <2>3, <2>4
<1>6. run' \in Runs /\ run'.at = 0
  BY <1>1, <1>3, <1>4, <1>5, AtType DEF CodeInv
<1> QED BY <1>1, <1>2, <1>3, <1>6 DEF CodeInv

LEMMA EffectType ==
  ASSUME run \in Runs, NEW r, NEW o, NEW gen
  PROVE  Effect(r, o, gen) \in Runs /\ Effect(r, o, gen).at = run.at
<1>1. PICK x : x = run
  OBVIOUS
<1>2. x \in Runs /\ x.ok \in [Flags -> BOOLEAN] /\ x.df \in [Flags -> {"no", "ok", "bad"}]
  BY <1>1 DEF Runs
<1>3. ASSUME NEW ok \in [Flags -> BOOLEAN] PROVE [x EXCEPT !.ok = ok] \in Runs /\ [x EXCEPT !.ok = ok].at = x.at
  BY <1>2 DEF Runs
<1>4. ASSUME NEW df \in [Flags -> {"no", "ok", "bad"}] PROVE [x EXCEPT !.df = df] \in Runs /\ [x EXCEPT !.df = df].at = x.at
  BY <1>2 DEF Runs
<1>5. Clean \in [Flags -> {"no", "ok", "bad"}]
  BY DEF Clean
<1>6. CASE r = "update"
  <2>1. PICK ok : ok = [fl \in Flags |-> IF x.df[fl] = "no" THEN x.ok[fl] ELSE x.df[fl] = "ok"]
    OBVIOUS
  <2>2. ok \in [Flags -> BOOLEAN]
    BY <1>2, <2>1
  <2>3. Effect(r, o, gen) = [x EXCEPT !.ok = ok, !.df = Clean]
    BY <1>1, <1>6, <2>1 DEF Effect, Applied
  <2> QED BY <1>1, <1>2, <1>5, <2>2, <2>3 DEF Runs
<1>7. CASE r = "dfnone"
  BY <1>1, <1>4, <1>5, <1>7 DEF Effect
<1>8. CASE r = "setdf"
  <2>1. [fl \in Flags |-> IF fl \in o.set THEN "ok" ELSE "no"] \in [Flags -> {"no", "ok", "bad"}]
    OBVIOUS
  <2> QED BY <1>1, <1>4, <1>8, <2>1 DEF Effect
<1>9. CASE r = "commit"
  <2>1. PICK ok, df : /\ ok = [fl \in Flags |-> x.ok[fl] /\ fl \notin o.set]
                      /\ df = [fl \in Flags |-> IF fl \in o.set /\ x.df[fl] = "ok" THEN "bad" ELSE x.df[fl]]
    OBVIOUS
  <2>2. ok \in [Flags -> BOOLEAN] /\ df \in [Flags -> {"no", "ok", "bad"}]
    BY <1>2, <2>1
  <2>3. Effect(r, o, gen) = [x EXCEPT !.ok = ok, !.df = df]
    BY <1>1, <1>9, <2>1 DEF Effect
  <2> QED BY <1>1, <1>2, <2>2, <2>3 DEF Runs
<1>10. CASE r = "write"
  <2>1. [fl \in Flags |-> x.ok[fl] \/ fl \in gen] \in [Flags -> BOOLEAN]
    OBVIOUS
  <2> QED BY <1>1, <1>3, <1>10, <2>1 DEF Effect
<1>11. CASE r = "writeall"
  <2>1. [fl \in Flags |-> x.ok[fl] \/ fl \in o.set] \in [Flags -> BOOLEAN]
    OBVIOUS
  <2> QED BY <1>1, <1>3, <1>11, <2>1 DEF Effect
<1>12. CASE r \notin {"update", "dfnone", "setdf", "commit", "write", "writeall"}
  BY <1>1, <1>2, <1>12 DEF Effect
<1> QED BY <1>6, <1>7, <1>8, <1>9, <1>10, <1>11, <1>12

LEMMA StepKeeps ==
  ASSUME BlockInv, CodeInv, Step
  PROVE  BlockInv' /\ CodeInv' /\ phase' = "run"
<1>1. phase = "run" /\ phase' = "run" /\ insts' = insts /\ fwd' = fwd /\ stack' = stack /\ ninst' = ninst /\ f' = f
      /\ code' = code /\ run.ops # <<>>
  BY DEF Step
<1>2. BlockInv' /\ Code' = Code /\ Runs' = Runs
  BY <1>1, SameInsts DEF BlockInv, Early, Phases
<1>3. run \in Runs /\ insts[run.at].alive
  BY <1>1 DEF CodeInv
<1>4. PICK e : /\ e \in Runs /\ e.at = run.at
               /\ run' = [e EXCEPT !.ops = Tail(e.ops)] \/ run' = [e EXCEPT !.ops = <<>>]
               /\ e.ops = run.ops
  <2>1. CASE run' = [run EXCEPT !.ops = <<>>]
    BY <1>3, <2>1
  <2>2. CASE \E r, o, gen : run' = [Effect(r, o, gen) EXCEPT !.ops = Tail(@)]
    <3>1. PICK r, o, gen : run' = [Effect(r, o, gen) EXCEPT !.ops = Tail(@)]
      BY <2>2
    <3>2. Effect(r, o, gen) \in Runs /\ Effect(r, o, gen).at = run.at
      BY <1>3, EffectType
    <3>3. Effect(r, o, gen).ops = run.ops
      BY <1>3 DEF Effect, Applied, Runs
    <3> QED BY <3>1, <3>2, <3>3
  <2> QED BY <2>1, <2>2 DEF Step
<1>5. Tail(e.ops) \in Seq(Micro) /\ <<>> \in Seq(Micro)
  BY <1>1, <1>4, EmptySeq DEF Runs
<1>6. run' \in Runs /\ run'.at = run.at
  BY <1>4, <1>5 DEF Runs
<1> QED BY <1>1, <1>2, <1>3, <1>6 DEF CodeInv

LEMMA GoToKeeps ==
  ASSUME BlockInv, CodeInv, phase = "run", NEW i, i \in DOMAIN insts => insts[i].alive,
         NEW p, p.ok \in [Flags -> BOOLEAN], p.df \in [Flags -> {"no", "ok", "bad"}],
         GoTo(i, p), UNCHANGED <<insts, fwd, stack, ninst, f, code>>
  PROVE  BlockInv' /\ CodeInv' /\ phase' \in {"run", "left"}
<1>1. phase' \in {"run", "left"}
  BY DEF GoTo
<1>2. BlockInv' /\ Code' = Code /\ Runs' = Runs
  BY <1>1, SameInsts DEF BlockInv, Early, Phases
<1>3. run \in Runs /\ insts[run.at].alive /\ code \in Code
  BY DEF CodeInv
<1>4. CASE i \in DOMAIN insts
  <2>1. run' = At(i, p)
    BY <1>4 DEF GoTo
  <2>2. run' \in Runs /\ run'.at = i
    BY <1>3, <1>4, <2>1, AtType
  <2> QED BY <1>1, <1>2, <1>3, <1>4, <2>2 DEF CodeInv
<1>5. CASE i \notin DOMAIN insts
  <2>1. run' = [run EXCEPT !.ok = p.ok, !.df = p.df]
    BY <1>5 DEF GoTo
  <2>2. run' \in Runs /\ run'.at = run.at
    BY <1>3, <2>1 DEF Runs
  <2> QED BY <1>1, <1>2, <1>3, <2>2 DEF CodeInv
<1> QED BY <1>4, <1>5

LEMMA AfterKeeps ==
  ASSUME BlockInv, CodeInv, After
  PROVE  BlockInv' /\ CodeInv' /\ phase' \in {"run", "left"}
<1>1. phase = "run" /\ UNCHANGED <<insts, fwd, stack, ninst, f, code>>
  BY DEF After
<1>2. PICK i, o : i = run.at /\ o = op(i)
  OBVIOUS
<1>3. /\ run \in Runs /\ insts[i].alive /\ code \in Code /\ i \in DOMAIN insts
      /\ run.ok \in [Flags -> BOOLEAN] /\ run.df \in [Flags -> {"no", "ok", "bad"}]
  BY <1>1, <1>2 DEF CodeInv, Runs
<1>4. InstsOK /\ LiveOK /\ phase \notin Early
  BY <1>1 DEF BlockInv, Early
<1>5. GoesOn(i) /\ i + 1 \in DOMAIN insts => insts[i + 1].alive
  BY <1>3, <1>4 DEF LiveOK
<1>6. insts[i].jmp_insts \in DOMAIN insts => insts[insts[i].jmp_insts].alive
  <2>1. NoInst \notin DOMAIN insts
    BY <1>4 DEF InstsOK, NoInst
  <2>2. insts[i].jmp_insts \in DOMAIN insts => insts[i].jmp_insts \in Succ(insts, i)
    BY <2>1 DEF Succ
  <2> QED BY <1>3, <1>4, <2>2 DEF LiveOK
<1>7. \/ o.kind \in {"next", "jcc"} /\ GoTo(i + 1, run)
      \/ run' = [run EXCEPT !.ops = code[i].taken, !.taken = TRUE] /\ UNCHANGED phase
      \/ GoTo(insts[i].jmp_insts, run)
      \/ GoTo(NoInst, run)
      \/ o.kind = "native" /\ \E d \in SUBSET Flags : GoTo(i + 1, Unspecified(d))
  BY <1>2 DEF After
<1>8. CASE o.kind \in {"next", "jcc"} /\ GoTo(i + 1, run)
  <2>1. i + 1 \in DOMAIN insts => insts[i + 1].alive
    BY <1>2, <1>5, <1>8 DEF GoesOn
  <2> QED BY <1>1, <1>3, <1>8, <2>1, GoToKeeps
<1>9. CASE run' = [run EXCEPT !.ops = code[i].taken, !.taken = TRUE] /\ UNCHANGED phase
  <2>1. code[i].taken \in Seq(Micro)
    BY <1>3 DEF Code
  <2>2. run' \in Runs /\ run'.at = i
    BY <1>2, <1>3, <1>9, <2>1 DEF Runs
  <2>3. BlockInv' /\ Code' = Code /\ Runs' = Runs
    BY <1>1, <1>9, SameInsts DEF BlockInv, Early, Phases
  <2> QED BY <1>1, <1>3, <1>9, <2>2, <2>3 DEF CodeInv
<1>10. CASE GoTo(insts[i].jmp_insts, run)
  BY <1>1, <1>3, <1>6, <1>10, GoToKeeps
<1>11. CASE GoTo(NoInst, run)
  <2>1. NoInst \notin DOMAIN insts
    BY <1>4 DEF InstsOK, NoInst
  <2> QED BY <1>1, <1>3, <1>11, <2>1, GoToKeeps
<1>12. CASE o.kind = "native" /\ \E d \in SUBSET Flags : GoTo(i + 1, Unspecified(d))
  <2>1. PICK d \in SUBSET Flags : GoTo(i + 1, Unspecified(d))
    BY <1>12
  <2>2. i + 1 \in DOMAIN insts => insts[i + 1].alive
    BY <1>2, <1>5, <1>12 DEF GoesOn
  <2>3. Unspecified(d).ok \in [Flags -> BOOLEAN] /\ Unspecified(d).df \in [Flags -> {"no", "ok", "bad"}]
    BY DEF Unspecified
  <2> QED BY <1>1, <2>1, <2>2, <2>3, GoToKeeps
<1> QED BY <1>7, <1>8, <1>9, <1>10, <1>11, <1>12

LEMMA AgainKeeps ==
  ASSUME BlockInv, CodeInv, Again
  PROVE  BlockInv' /\ CodeInv' /\ phase' = "ready"
<1>1. phase = "left" /\ phase' = "ready" /\ insts' = insts /\ fwd' = fwd /\ stack' = stack /\ ninst' = ninst /\ f' = f
      /\ code' = code
  BY DEF Again
<1>2. BlockInv' /\ Code' = Code
  BY <1>1, SameInsts DEF BlockInv, Early, Phases
<1> QED BY <1>1, <1>2 DEF CodeInv

-----------------------------------------------------------------------------
(***************************************************************************)
(* The theorems.                                                           *)
(***************************************************************************)
\* A block that is there, solved as far as updateNeed has got, and run only
\* where it is live.
FlagsInv == BlockInv /\ FlowInv /\ CodeInv

LEMMA InitInv == Init => FlagsInv
<1> SUFFICES ASSUME Init PROVE FlagsInv
  OBVIOUS
<1>1. DOMAIN insts = 0 .. 0 - 1 /\ insts = <<>>
  BY DEF Init
<1>2. size = 0
  BY <1>1, SizeIs DEF size
<1>3. InstsOK
  BY <1>1, <1>2, BoundAssumption DEF InstsOK
<1>4. \A i \in DOMAIN insts : FALSE
  BY <1>1
<1>5. phase = "pass0" /\ ninst = 0 /\ f \in F /\ fwd = <<>> /\ stack = <<>>
  BY UnknownType DEF Init
<1>6. Fresh /\ LiveOK
  BY <1>4, <1>5 DEF Fresh, LiveOK, Early
<1>7. BlockInv
  BY <1>2, <1>3, <1>5, <1>6 DEF BlockInv, Phases
<1> QED BY <1>5, <1>7 DEF FlagsInv, FlowInv, CodeInv

LEMMA NextInv == FlagsInv /\ [Next]_vars => FlagsInv'
<1> SUFFICES ASSUME FlagsInv, [Next]_vars PROVE FlagsInv'
  OBVIOUS
<1>1. BlockInv /\ FlowInv /\ CodeInv
  BY DEF FlagsInv
<1>2. CASE DecodeAny
  <2>1. PICK o \in DOMAIN Repertoire, j \in Int : Decode(o, j)
    <3>1. PICK fam \in Families : \E o \in fam.ops :
            IF Repertoire[o].kind \in {"jcc", "jmp"} THEN \E j \in Targets : Decode(o, j) ELSE Decode(o, Out - 1)
      BY <1>2 DEF DecodeAny
    <3>2. fam.ops \subseteq DOMAIN Repertoire
      BY FamiliesAssumption
    <3>3. Out - 1 \in Int
      BY DEF Out
    <3> QED BY <3>1, <3>2, <3>3, TargetsAssumption
  <2>2. BlockInv'
    BY <1>1, <2>1, DecodeBlock
  <2>3. phase' \in {"pass0", "link"}
    <3>1. phase = "pass0"
      BY <2>1 DEF Decode
    <3> QED BY <2>1, <3>1 DEF Decode, GoOn, EndPass0
  <2> QED BY <2>2, <2>3 DEF FlagsInv, FlowInv, CodeInv
<1>3. CASE Stop
  <2>1. BlockInv'
    BY <1>1, <1>3, StopBlock
  <2>2. phase' = "link"
    BY <1>3 DEF Stop, EndPass0
  <2> QED BY <2>1, <2>2 DEF FlagsInv, FlowInv, CodeInv
<1>4. CASE ResolveJumps
  <2>1. BlockInv'
    BY <1>1, <1>4, ResolveBlock
  <2>2. phase' = "alive"
    BY <1>4 DEF ResolveJumps
  <2> QED BY <2>1, <2>2 DEF FlagsInv, FlowInv, CodeInv
<1>5. CASE MarkAlive
  <2>1. BlockInv'
    BY <1>1, <1>5, MarkBlock
  <2>2. phase' = "preds" /\ ninst' = 0
    BY <1>1, <1>5 DEF MarkAlive, BlockInv, Early
  <2>3. Linked(ninst)'
    <3>1. \A i \in DOMAIN insts' : ~ i < ninst'
      BY <2>1, <2>2 DEF BlockInv, InstsOK
    <3> QED BY <3>1 DEF Linked
  <2> QED BY <2>1, <2>2, <2>3 DEF FlagsInv, FlowInv, CodeInv
<1>6. CASE FillPredecessors
  <2>1. phase = "preds" /\ phase' = "preds" /\ Linked(ninst)
    BY <1>1, <1>6 DEF FillPredecessors, FlowInv
  <2>2. BlockInv' /\ Linked(ninst)'
    BY <1>1, <1>6, <2>1, FillBlock
  <2> QED BY <2>1, <2>2 DEF FlagsInv, FlowInv, CodeInv
<1>7. CASE StartNeed
  <2>1. phase = "preds" /\ Linked(ninst)
    BY <1>1, <1>7 DEF StartNeed, FlowInv
  <2>2. BlockInv' /\ NeedOK' /\ phase' = "need"
    BY <1>1, <1>7, <2>1, StartBlock
  <2> QED BY <2>2 DEF FlagsInv, FlowInv, CodeInv
<1>8. CASE UpdateNeed
  <2>1. phase = "need" /\ NeedOK
    BY <1>1, <1>8 DEF UpdateNeed, VisitInst, VisitPred, VisitBefore, FlowInv
  <2>2. BlockInv' /\ ((phase' = "need" /\ NeedOK') \/ (phase' = "pass1" /\ Reached'))
    <3>1. CASE VisitInst
      BY <1>1, <2>1, <3>1, VisitInstKeeps
    <3>2. CASE VisitPred
      BY <1>1, <2>1, <3>2, VisitPredKeeps
    <3>3. CASE VisitBefore
      BY <1>1, <2>1, <3>3, VisitBeforeKeeps
    <3> QED BY <1>8, <3>1, <3>2, <3>3 DEF UpdateNeed
  <2> QED BY <2>2 DEF FlagsInv, FlowInv, CodeInv
<1>9. ASSUME NEW step \in {"pass1", "pass2"}, Pass(step) PROVE FlagsInv'
  <2>1. phase = step
    BY <1>9 DEF Pass
  <2>2. Reached /\ (step = "pass2" => code \in Code)
    BY <1>1, <2>1 DEF FlowInv, CodeInv
  <2>3. BlockInv' /\ phase' = phase /\ Reached' /\ (step = "pass2" => code' \in Code')
    BY <1>1, <1>9, <2>2, PassKeeps
  <2> QED BY <2>1, <2>3 DEF FlagsInv, FlowInv, CodeInv
<1>10. CASE NextPass
  <2>1. Reached
    BY <1>1, <1>10 DEF NextPass, FlowInv
  <2>2. BlockInv' /\ CodeInv' /\ phase' \in {"pass2", "ready"} /\ Reached'
    BY <1>1, <1>10, <2>1, NextPassKeeps
  <2> QED BY <2>2 DEF FlagsInv, FlowInv
<1>11. CASE Enter \/ Step \/ After \/ Again
  <2>1. BlockInv' /\ CodeInv' /\ phase' \in {"ready", "run", "left"}
    BY <1>1, <1>11, EnterKeeps, StepKeeps, AfterKeeps, AgainKeeps
  <2> QED BY <2>1 DEF FlagsInv, FlowInv
<1>12. CASE UNCHANGED vars
  <2>1. UNCHANGED <<phase, insts, fwd, stack, ninst, f, code, run>>
    BY <1>12 DEF vars
  <2>2. BlockInv'
    BY <1>1, <2>1 DEF BlockInv, InstsOK, size, Fresh, LiveOK, GoesOn, op, FrameSet
  <2>3. Reached' = Reached
    BY <2>1 DEF Reached, Solved, Met, op
  <2>4. Linked(ninst)' = Linked(ninst) /\ NeedOK' = NeedOK
    BY <2>1 DEF Linked, HasPred, NeedOK, Solved, Met, op, Pending, WillAsk, Asks, AskedOf, Top, size
  <2>5. CodeInv'
    BY <1>1, <2>1 DEF CodeInv, Code, Runs
  <2> QED BY <1>1, <2>1, <2>2, <2>3, <2>4, <2>5 DEF FlagsInv, FlowInv
<1> QED BY <1>2, <1>3, <1>4, <1>5, <1>6, <1>7, <1>8, <1>9, <1>10, <1>11, <1>12 DEF Next

(* The invariant holds in every state, for any set of flags, blocks of any *)
(* length and jumps anywhere.                                              *)
THEOREM FlagsInvAlways == Spec => []FlagsInv
BY InitInv, NextInv, PTL DEF Spec

(* The instructions of a block and what the passes know of them keep their *)
(* types, what is live leads only to what is live, and the code that was   *)
(* emitted never runs outside it (FillBlock, sizePredecessors, arm_pass).  *)
THEOREM TypeOKAlways == Spec => []TypeOK
<1>1. FlagsInv => TypeOK
  <2> SUFFICES ASSUME BlockInv, CodeInv PROVE TypeOK
    BY DEF FlagsInv
  <2>1. InstsOK /\ LiveOK /\ phase \in Phases /\ f \in F /\ ninst \in 0 .. size
    BY DEF BlockInv
  <2>2. ASSUME NEW i \in DOMAIN insts
        PROVE  /\ insts[i].op \in DOMAIN Repertoire
               /\ insts[i].jmp_insts \in {NoInst} \cup DOMAIN insts
               /\ {insts[i].need_before, insts[i].need_after, insts[i].gen} \subseteq Needs
               /\ {insts[i].f_entry, insts[i].f_exit} \subseteq F
    BY <2>1 DEF InstsOK, Inst
  <2>3. ASSUME NEW i \in DOMAIN insts
        PROVE  /\ \A k \in DOMAIN insts[i].pred : insts[insts[i].pred[k]].alive
               /\ phase \notin {"pass0", "link", "alive"} /\ insts[i].alive
                    => \A j \in Succ(insts, i) : insts[j].alive
    BY <2>1 DEF LiveOK, Early
  <2>4. phase = "need" <=> stack # <<>>
    BY DEF BlockInv
  <2>5. phase \in {"run", "left"} =>
          /\ run.at \in DOMAIN insts /\ insts[run.at].alive
          /\ \A k \in DOMAIN run.ops : run.ops[k] \in Micro
    BY DEF CodeInv, Runs
  <2> QED BY <2>1, <2>2, <2>3, <2>4, <2>5 DEF TypeOK, Phases, InstsOK
<1> QED BY <1>1, FlagsInvAlways, PTL

(* updateNeed, with its recursion, its early return and the loop of        *)
(* FillBlock around it, reaches a solution of the equations of the needs   *)
(* on every block, loops included, before pass 1 uses them.                *)
THEOREM NeedReachedAlways == Spec => []NeedReached
<1>1. FlagsInv => NeedReached
  BY DEF FlagsInv, FlowInv, Reached, NeedReached
<1> QED BY <1>1, FlagsInvAlways, PTL
=============================================================================
