----------------------------- MODULE DynaFlags -----------------------------
(***************************************************************************)
(* The lazy x86 flags of the dynarec: how FillBlock decides which flags    *)
(* each instruction of a block computes, and what the code it emits does   *)
(* to them when it runs.                                                   *)
(*                                                                         *)
(* The flags live in two places: the register xFlags, and emu->df with its *)
(* operands, a deferred operation that UpdateFlags applies to xFlags.      *)
(* Pass 0 decodes the block, updateNeed walks it backward, passes 1 and 2  *)
(* follow what is known of the two places (dyn->f) and decide the code.    *)
(* Pass 3 repeats pass 2.  Then the code runs, on every path.              *)
(*                                                                         *)
(* Instructions are one address each, so a jump target is an index; the    *)
(* values of the flags are not kept, only whether a place holds the value  *)
(* the x86 program would see.                                              *)
(***************************************************************************)
EXTENDS Integers, Sequences, FiniteSets

CONSTANTS Flags,        \* X_CF ... X_OF: at least "CF" and "PF"
          MaxInsts,     \* bound: instructions of a block
          Families,     \* the programs: operations used together, and how many
          SafeFlags,    \* BOX86_DYNAREC_SAFEFLAGS, which is 1 by default
          Targets       \* where jumps may go: Out or an address

ASSUME FlagsAssumption == {"CF", "PF"} \subseteq Flags /\ "PEND" \notin Flags
ASSUME BoundAssumption == MaxInsts \in Nat \ {0}
ASSUME SafeFlagsAssumption == SafeFlags \in 0..2
ASSUME TargetsAssumption == Targets \subseteq Int

Out == -1               \* a jump target below the start of the block
NoInst == -1            \* jmp_insts of a jump out of the block

VARIABLES phase,        \* what FillBlock, or the block, is doing
          insts,        \* dyn->insts
          fwd,          \* dyn->forward, forward_to and forward_ninst
          stack,        \* the calls of updateNeed in progress
          ninst,        \* the instruction a pass is at
          f,            \* dyn->f: pending and dfnone
          code,         \* what pass 2 emitted for each instruction
          run           \* the block running: where, and the two places

vars == <<phase, insts, fwd, stack, ninst, f, code, run>>

-----------------------------------------------------------------------------
(* The instructions.  "use" is READFLAGS, "set" and "state" are SETFLAGS,  *)
(* "emit" is how the case writes the flags it generates:                   *)
(*   lazy  SET_DF if X_PEND is generated, else SET_DFNONE                  *)
(*   mul   SET_DF whenever some flag is generated                          *)
(*   none  SET_DFNONE, then xFlags                                         *)
(*   bare  xFlags alone                                                    *)
(*   call  a helper that writes xFlags and clears df                       *)
(* "may" is MAYSETFLAGS; "skips" is a B_NEXT before the flags are written, *)
(* there when some are generated.                                          *)

NoFlags == [use |-> {}, set |-> {}, state |-> "UNKNOWN", may |-> FALSE, skips |-> FALSE,
            emit |-> "-", kind |-> "next"]

NOP   == NoFlags
ADD   == [NoFlags EXCEPT !.set = Flags, !.state = "SET_PENDING", !.emit = "lazy"]
ADC   == [ADD EXCEPT !.use = {"CF"}]
INC   == [NoFlags EXCEPT !.set = Flags \ {"CF"}, !.state = "SUBSET_PENDING", !.emit = "lazy"]
SHL_CL == [ADD EXCEPT !.may = SafeFlags > 1, !.skips = TRUE]     \* of a byte or a word
MUL   == [NoFlags EXCEPT !.set = Flags, !.state = "PENDING", !.emit = "mul"]
CLC   == [NoFlags EXCEPT !.set = {"CF"}, !.state = "SUBSET", !.emit = "none"]
CMC   == [NoFlags EXCEPT !.use = {"CF"}, !.set = {"CF"}, !.state = "SUBSET", !.emit = "bare"]
POPF  == [NoFlags EXCEPT !.set = Flags, !.state = "SET_NODF", !.emit = "none"]
DAA   == [NoFlags EXCEPT !.use = {"CF"}, !.set = Flags, !.state = "SET_DF", !.emit = "call"]
PUSHF == [NoFlags EXCEPT !.use = Flags]
Jcc(flag) == [NoFlags EXCEPT !.use = {flag}, !.kind = "jcc"]
JECXZ == [NoFlags EXCEPT !.kind = "jcc"]
JMP   == [NoFlags EXCEPT !.kind = "jmp"]
RET   == [NoFlags EXCEPT !.use = IF SafeFlags = 0 THEN {} ELSE {"PEND"}, !.kind = "ret"]
NativeCall == [NoFlags EXCEPT !.set = Flags, !.state = "SET_NODF", !.kind = "native"]

Repertoire ==
  [nop |-> NOP, add |-> ADD, adc |-> ADC, inc |-> INC, shlcl |-> SHL_CL, mul |-> MUL,
   clc |-> CLC, cmc |-> CMC, popf |-> POPF, daa |-> DAA, pushf |-> PUSHF,
   jc |-> Jcc("CF"), jp |-> Jcc("PF"), jecxz |-> JECXZ, jmp |-> JMP, ret |-> RET,
   native |-> NativeCall]

ASSUME FamiliesAssumption ==
  \A fam \in Families : fam.ops \subseteq DOMAIN Repertoire /\ fam.max <= MaxInsts

op(i) == Repertoire[insts[i].op]

Unknown == [pending |-> "UNKNOWN", dfnone |-> FALSE]

size == Cardinality(DOMAIN insts)

-----------------------------------------------------------------------------
(* Pass 0: decode, one instruction per step.                               *)

NewInst(o, j, b) ==
  [op |-> o, jmp |-> j, jmp_insts |-> NoInst, has_next |-> TRUE, alive |-> FALSE,
   barrier |-> b, pred |-> <<>>, need_before |-> {}, need_after |-> {},
   gen |-> {}, f_entry |-> Unknown, f_exit |-> Unknown]

(* READFLAGS and SETFLAGS as pass 0 defines them, and the SET_DFNONE of    *)
(* the cases that do not ask for gen_flags first.                          *)
Pass0F(o, g) ==
  LET r == IF o.use = {} THEN g ELSE [pending |-> "SET", dfnone |-> TRUE]
      s == CASE o.state = "UNKNOWN" -> r
             [] o.state = "PENDING" -> [pending |-> "PENDING", dfnone |-> FALSE]
             [] o.state \in {"SET_PENDING", "SUBSET_PENDING"} ->
                    [pending |-> "SET_PENDING", dfnone |-> TRUE]
             [] o.state = "SET_NODF" -> [pending |-> "SET", dfnone |-> FALSE]
             [] OTHER -> [pending |-> "SET", dfnone |-> TRUE]
  IN  IF o.emit = "none" THEN [s EXCEPT !.dfnone = TRUE] ELSE s

(* get_closest_next: the closest jump target at or after an address.       *)
ClosestNext(is, addr) ==
  LET later == {is[i].jmp : i \in {k \in DOMAIN is : is[k].jmp >= addr}}
  IN  IF later = {} THEN Out ELSE CHOOSE a \in later : \A b \in later : a <= b

(* get_first_jump, and the f that the code after it starts from.           *)
FirstJumpF(is, addr) ==
  LET js == {i \in DOMAIN is : is[i].jmp = addr}
  IN  IF js = {} THEN Unknown
      ELSE is[CHOOSE i \in js : \A k \in js : i <= k].f_exit

Prefix(is, n) == [i \in 0..(n - 1) |-> is[i]]

NeedPend(is, i) == [is EXCEPT ![i].need_after = @ \cup {"PEND"}]

EndPass0(is) ==
  /\ insts' = is
  /\ phase' = "link"
  /\ fwd' = <<>>
  /\ f' = Unknown
  /\ UNCHANGED <<stack, ninst, code, run>>

GoOn(is, g) ==
  /\ insts' = is
  /\ f' = g
  /\ UNCHANGED <<phase, stack, ninst, code, run>>

(* One turn of the loop of arm_pass in pass 0: decode an instruction, then *)
(* extend the block past a jump, go forward over dead code to a known jump *)
(* target, or give that up.                                                *)
Decode(o, j) ==
  /\ phase = "pass0" /\ size < MaxInsts
  /\ LET i    == size
         b    == i > 0 /\ op(i - 1).kind = "native"
         k    == Repertoire[o]
         g    == Pass0F(k, f)
         ok   == k.kind \notin {"jmp", "ret"}
         inst == [NewInst(o, j, b \/ k.kind = "native")
                    EXCEPT !.has_next = ok, !.f_entry = f, !.f_exit = g]
         is   == [n \in 0..i |-> IF n = i THEN inst ELSE insts[n]]
         next == ClosestNext(is, i + 1)
     IN  IF fwd # <<>>
         THEN IF fwd[1] = i + 1
              THEN GoOn(is, FirstJumpF(is, i + 1)) /\ fwd' = <<>>
              ELSE IF ok THEN GoOn(is, g) /\ UNCHANGED fwd
                         ELSE EndPass0(Prefix(insts, fwd[2] + 1))
         ELSE \/ ok /\ GoOn(is, g) /\ UNCHANGED fwd
              \/ ~ok /\ EndPass0(is)
              \/ ~ok /\ next = i + 1 /\ GoOn(is, FirstJumpF(is, next)) /\ UNCHANGED fwd
              \/ ~ok /\ next > i + 1 /\ next < MaxInsts
                     /\ GoOn(is, Unknown) /\ fwd' = <<next, i>>

(* The block is stopped after an instruction that goes on: a block already *)
(* starts there, or the opcode is not known (DEFAULT).                     *)
Stop ==
  /\ phase = "pass0" /\ size > 0
  /\ \/ fwd = <<>> /\ EndPass0(NeedPend(insts, size - 1))
     \/ fwd # <<>> /\ EndPass0(NeedPend(Prefix(insts, fwd[2] + 1), fwd[2]))
     \/ fwd # <<>> /\ EndPass0(Prefix(insts, fwd[2] + 1))

-----------------------------------------------------------------------------
(* Jump targets, live instructions and predecessors.                       *)

JmpInsts(is, i) ==
  IF is[i].jmp \in DOMAIN is \ {i} THEN is[i].jmp ELSE NoInst

Succ(is, i) ==
  (IF is[i].jmp_insts # NoInst THEN {is[i].jmp_insts} ELSE {})
  \cup (IF is[i].has_next /\ i + 1 \in DOMAIN is THEN {i + 1} ELSE {})

Closed(is, S) == \A i \in S : Succ(is, i) \subseteq S

(* recurse_mark_alive: what can be reached from the first instruction.     *)
Alive(is) ==
  {i \in DOMAIN is : \A S \in SUBSET DOMAIN is : 0 \in S /\ Closed(is, S) => i \in S}

(* FillBlock resolves the jumps; a jump out of the block needs the flags.  *)
ResolveJumps ==
  /\ phase = "link"
  /\ insts' = [i \in DOMAIN insts |->
                 LET k == JmpInsts(insts, i)
                 IN  [insts[i] EXCEPT !.jmp_insts = k,
                        !.need_after = IF op(i).kind \in {"jcc", "jmp"} /\ k = NoInst
                                       THEN @ \cup {"PEND"} ELSE @]]
  /\ phase' = "alive"
  /\ UNCHANGED <<fwd, stack, ninst, f, code, run>>

(* sizePredecessors marks what can be reached and cuts the fall-through    *)
(* into what cannot.                                                       *)
MarkAlive ==
  /\ phase = "alive"
  /\ LET live == Alive(insts)
     IN  insts' = [i \in DOMAIN insts |->
                    [insts[i] EXCEPT !.alive = i \in live,
                       !.has_next = @ /\ (i + 1 \in DOMAIN insts => i + 1 \in live)]]
  /\ phase' = "preds"
  /\ UNCHANGED <<fwd, stack, ninst, f, code, run>>

\* Mutants of WithPred: dead instructions count; jumps do not.
WithPred_dead(is, i, j) ==
  (IF is[i].has_next /\ j = i + 1 THEN <<i>> ELSE <<>>)
  \o (IF is[i].jmp_insts = j THEN <<i>> ELSE <<>>)
WithPred_fall(is, i, j) == IF is[i].alive /\ is[i].has_next /\ j = i + 1 THEN <<i>> ELSE <<>>

(* What instruction i adds to the predecessors of j: its fall-through, and *)
(* then its jump.                                                          *)
WithPred(is, i, j) ==
  IF ~ is[i].alive THEN <<>>
  ELSE (IF is[i].has_next /\ j = i + 1 THEN <<i>> ELSE <<>>)
       \o (IF is[i].jmp_insts = j THEN <<i>> ELSE <<>>)

(* A call of updateNeed: the instruction it is at, the need it carries     *)
(* backward and, once it has computed that (at > 0), the predecessor its   *)
(* loop is at.                                                             *)
Frame(i, n) == [ninst |-> i, need |-> n, at |-> 0]

(* fillPredecessors, one turn of its loop per step; then the first call of *)
(* updateNeed that counts: the one before it, for what comes after the     *)
(* last instruction, finds no predecessor there and returns.               *)
FillPredecessors ==
  /\ phase = "preds" /\ ninst < size
  /\ insts' = [j \in DOMAIN insts |-> [insts[j] EXCEPT !.pred = @ \o WithPred(insts, ninst, j)]]
  /\ ninst' = ninst + 1
  /\ UNCHANGED <<phase, fwd, stack, f, code, run>>

StartNeed ==
  /\ phase = "preds" /\ ninst = size
  /\ phase' = "need"
  /\ stack' = <<Frame(size - 1, {})>>
  /\ ninst' = 0
  /\ UNCHANGED <<insts, fwd, f, code, run>>

-----------------------------------------------------------------------------
(* updateNeed, one turn of its loops per step.                             *)

\* The states in which an instruction leaves nothing deferred (SETFLAGS stores
\* SF_SET_DF as SF_SET).
NoPend == {"SUBSET", "SET", "SET_DF", "SET_NODF"}

HasPend(state) == state \in {"PENDING", "SET_PENDING", "SUBSET_PENDING"}

\* Mutant: an operation that may leave the flags alone forwards no need.
NeedOf_kill(o, after) ==
  LET g == (after \cap o.set) \cup
           (IF "PEND" \in after /\ HasPend(o.state) THEN {"PEND"} ELSE {})
  IN  [after |-> after, gen |-> g, before |-> (after \ g) \cup o.use]

(* What one instruction needs before it, given what is needed after it.    *)
NeedOf(o, after) ==
  LET a == IF "PEND" \in after /\ o.state \in NoPend
           THEN (after \ {"PEND"}) \cup Flags ELSE after
      b == IF "PEND" \in a /\ o.state = "SUBSET_PENDING"
           THEN a \cup (Flags \ o.set) ELSE a
      g == (b \cap o.set) \cup (IF "PEND" \in b /\ HasPend(o.state) THEN {"PEND"} ELSE {})
      r == b \ g
      p == IF o.may THEN r \cup g
           ELSE IF "PF" \in o.set THEN r \ {"PEND"} ELSE r
  IN  [after |-> b, gen |-> g, before |-> p \cup o.use]

(* What an instruction asks of its predecessors.                           *)
Asked(inst, before) ==
  IF inst.barrier THEN (IF before = {} THEN {} ELSE {"PEND"}) ELSE before

Top == stack[Len(stack)]

Falls(i) == \E k \in DOMAIN insts[i].pred : insts[i].pred[k] = i - 1

\* Mutant: the loop of FillBlock does not go on to the instruction before.
Return_same(i) ==
  \/ Len(stack) > 1 /\ stack' = SubSeq(stack, 1, Len(stack) - 1) /\ UNCHANGED <<phase, f>>
  \/ Len(stack) = 1 /\ i >= 0 /\ stack' = <<Frame(i + 1, {})>> /\ UNCHANGED <<phase, f>>
  \/ Len(stack) = 1 /\ i < 0 /\ stack' = <<>> /\ phase' = "pass1" /\ f' = Unknown

(* A call returns; the loop of FillBlock calls again from where it got.    *)
Return(i) ==
  \/ Len(stack) > 1 /\ stack' = SubSeq(stack, 1, Len(stack) - 1) /\ UNCHANGED <<phase, f>>
  \/ Len(stack) = 1 /\ i >= 0 /\ stack' = <<Frame(i, {})>> /\ UNCHANGED <<phase, f>>
  \/ Len(stack) = 1 /\ i < 0 /\ stack' = <<>> /\ phase' = "pass1" /\ f' = Unknown

(* The need of an instruction; the call ends when it was known before.     *)
VisitInst ==
  /\ phase = "need" /\ Top.at = 0
  /\ LET i == Top.ninst
         n == NeedOf(op(i), Top.need \cup insts[i].need_after)
     IN  /\ insts' = [insts EXCEPT ![i].need_after = n.after, ![i].gen = n.gen,
                                   ![i].need_before = n.before]
         /\ \/ n.before = insts[i].need_before /\ Return(i - 1)
            \/ /\ n.before # insts[i].need_before
               /\ stack' = [stack EXCEPT ![Len(stack)] =
                     [Top EXCEPT !.need = Asked(insts[i], n.before), !.at = 1]]
               /\ UNCHANGED <<phase, f>>
  /\ UNCHANGED <<fwd, ninst, code, run>>

(* The loop over the predecessors calls updateNeed for all but the         *)
(* instruction before, with which the loop of the call goes on.            *)
VisitPred ==
  /\ phase = "need" /\ Top.at > 0
  /\ LET i    == Top.ninst
         next == [stack EXCEPT ![Len(stack)].at = @ + 1]
     IN  /\ Top.at <= Len(insts[i].pred)
         /\ stack' = IF insts[i].pred[Top.at] = i - 1 THEN next
                     ELSE Append(next, Frame(insts[i].pred[Top.at], Top.need))
  /\ UNCHANGED <<phase, insts, fwd, ninst, f, code, run>>

VisitBefore ==
  /\ phase = "need" /\ Top.at > 0
  /\ LET i == Top.ninst
     IN  /\ Top.at > Len(insts[i].pred)
         /\ \/ /\ Falls(i)
               /\ stack' = [stack EXCEPT ![Len(stack)] = Frame(i - 1, Top.need)]
               /\ UNCHANGED <<phase, f>>
            \/ ~ Falls(i) /\ Return(i - 1)
  /\ UNCHANGED <<insts, fwd, ninst, code, run>>

UpdateNeed == VisitInst \/ VisitPred \/ VisitBefore

-----------------------------------------------------------------------------
(* Passes 1 and 2.  Emission is a pair: dyn->f, and the operations on the  *)
(* flags that the code will do.                                            *)

Emit(e, ops) == [e EXCEPT !.ops = @ \o ops]

READFLAGS(e, a) ==
  IF a # {"PEND"} /\ e.f.pending \notin {"SET", "SET_PENDING"}
  THEN [f |-> [pending |-> "SET", dfnone |-> TRUE], ops |-> Append(e.ops, "update")]
  ELSE e

SET_DFNONE(e) ==
  IF e.f.dfnone THEN e
  ELSE [f |-> [e.f EXCEPT !.dfnone = TRUE], ops |-> Append(e.ops, "dfnone")]

SET_DF(e, inst) ==
  IF e.f.pending = "PENDING" /\ inst.need_after # {} /\ "PEND" \notin inst.need_after
  THEN [f |-> [pending |-> "SET", dfnone |-> FALSE], ops |-> e.ops \o <<"setdf", "update">>]
  ELSE [f |-> [e.f EXCEPT !.dfnone = FALSE], ops |-> Append(e.ops, "setdf")]

SETFLAGS(e, inst, o) ==
  LET r == IF /\ e.f.pending # "SET"
              /\ o.state \in {"SUBSET", "SUBSET_PENDING"}
              /\ inst.gen \ o.set # {}
           THEN READFLAGS(e, (IF "PEND" \in inst.gen THEN Flags ELSE inst.gen) \ o.set)
           ELSE e
      p == CASE inst.gen = {} -> "SET"
             [] inst.gen # {} /\ o.state = "PENDING" -> "PENDING"
             [] inst.gen # {} /\ o.state \in {"SET_PENDING", "SUBSET_PENDING"} ->
                    IF "PEND" \in inst.gen THEN "SET_PENDING" ELSE "SET"
             [] OTHER -> "SET"
      d == CASE inst.gen # {} /\ o.state = "SET_DF" -> TRUE
             [] inst.gen # {} /\ o.state = "SET_NODF" -> FALSE
             [] OTHER -> r.f.dfnone
  IN  [r EXCEPT !.f = [pending |-> p, dfnone |-> d]]

(* The writes of the flags that the instruction generates.                 *)
EmitWrites(e, inst, o) ==
  CASE o.emit = "lazy" ->
         LET d == IF "PEND" \in inst.gen THEN SET_DF(e, inst)
                  ELSE IF inst.gen # {} THEN SET_DFNONE(e) ELSE e
         IN  Emit(d, <<"write">>)
    [] o.emit = "mul"  -> IF inst.gen = {} THEN e ELSE SET_DF(e, inst)
    [] o.emit = "none" -> Emit(SET_DFNONE(e), <<"writeall">>)
    [] o.emit = "bare" -> Emit(e, <<"writeall">>)
    [] o.emit = "call" -> Emit(e, <<"dfnone", "writeall">>)
    [] OTHER -> e

EmitInst(i, g) ==
  LET inst  == insts[i]
      o     == op(i)
      e0    == [f |-> g, ops |-> <<>>]
      entry == IF inst.need_before \ {"PEND"} # {} /\ inst.pred = <<>>
               THEN READFLAGS(e0, inst.need_before \ {"PEND"}) ELSE e0
      read  == IF o.use = {} THEN entry ELSE Emit(READFLAGS(entry, o.use), <<"read">>)
      set   == IF o.state = "UNKNOWN" THEN read ELSE SETFLAGS(read, inst, o)
      skip  == IF o.skips /\ inst.gen # {} THEN Emit(set, <<"skip">>) ELSE set
      new   == IF o.state = "UNKNOWN" THEN skip ELSE Emit(skip, <<"commit">>)
  IN  EmitWrites(new, inst, o)

(* flagsCacheNeedsTransform asks with the f_exit of pass 1, then           *)
(* flagsCacheTransform with dyn->f.                                        *)
NeedsTransform(entry, exit) ==
  /\ ~exit.dfnone
  /\ \/ entry.dfnone
     \/ entry.pending = "SET" /\ exit.pending \notin {"SET", "SET_PENDING"}
     \/ entry.pending = "SET_PENDING" /\ exit.pending # "SET_PENDING"
     \/ /\ entry.pending = "PENDING" /\ exit.pending \notin {"PENDING", "SET_PENDING"}
        /\ entry.dfnone # exit.dfnone

Transforms(entry, g) ==
  /\ ~g.dfnone
  /\ \/ entry.dfnone
     \/ entry.pending = "SET" /\ g.pending \notin {"SET", "SET_PENDING"}
     \/ /\ entry.pending \in {"SET_PENDING", "PENDING"}
        /\ g.pending \notin {"SET", "SET_PENDING", "PENDING"}
     \/ entry.pending = "PENDING" /\ entry.dfnone # g.dfnone

\* Mutant: a jump inside the block goes as it is.
TakenOps_none(i, g) == <<>>

TakenOps(i, g) ==
  LET k == insts[i].jmp_insts
  IN  IF k # NoInst /\ NeedsTransform(insts[k].f_entry, insts[i].f_exit)
                    /\ Transforms(insts[k].f_entry, g)
      THEN <<"update">> ELSE <<>>

(* getNominalPred, and the f a pass goes on with after a jump, over the    *)
(* dead instructions it skips.                                             *)
NominalPred(is, i) ==
  IF i <= 0 \/ i \notin DOMAIN is \/ is[i].pred = <<>> THEN NoInst
  ELSE IF \E k \in DOMAIN is[i].pred : is[i].pred[k] = i - 1 THEN i - 1 ELSE is[i].pred[1]

ResetF(is, i) ==
  LET p == NominalPred(is, i)
  IN  IF p = NoInst \/ is[i].barrier THEN Unknown ELSE is[p].f_exit

NextLive(i) ==
  CHOOSE k \in i..size : /\ k = size \/ insts[k].alive
                         /\ \A m \in i..(k - 1) : ~insts[m].alive

(* One turn of the loop of arm_pass in pass 1 or 2.                        *)
Pass(step) ==
  /\ phase = step /\ ninst < size
  /\ LET e   == EmitInst(ninst, f)
         goes == op(ninst).kind \notin {"jmp", "ret"}
         to  == IF goes THEN ninst + 1 ELSE NextLive(ninst + 1)
         is  == IF step = "pass2" THEN insts
                ELSE [i \in DOMAIN insts |->
                        CASE i = ninst -> [insts[i] EXCEPT !.f_entry = f, !.f_exit = e.f]
                          [] i > ninst /\ i < to ->
                               [insts[i] EXCEPT !.f_entry = e.f, !.f_exit = e.f]
                          [] OTHER -> insts[i]]
     IN  /\ insts' = is
         /\ code' = IF step = "pass2"
                    THEN [code EXCEPT ![ninst] = [ops |-> e.ops, taken |-> TakenOps(ninst, e.f)]]
                    ELSE code
         /\ f' = IF ~goes THEN ResetF(is, to)
                 ELSE IF to \in DOMAIN insts /\ insts[to].barrier THEN Unknown ELSE e.f
         /\ ninst' = to
  /\ UNCHANGED <<phase, fwd, stack, run>>

NextPass ==
  /\ phase \in {"pass1", "pass2"} /\ ninst = size
  /\ phase' = IF phase = "pass1" THEN "pass2" ELSE "ready"
  /\ ninst' = 0
  /\ f' = Unknown
  /\ code' = IF phase = "pass1" THEN [i \in DOMAIN insts |-> [ops |-> <<>>, taken |-> <<>>]]
             ELSE code
  /\ UNCHANGED <<insts, fwd, stack, run>>

-----------------------------------------------------------------------------
(* The block runs.  run.ops is what is left of the code of instruction     *)
(* run.at; run.ok says of each flag whether xFlags holds its value; run.df *)
(* what UpdateFlags would do to it: nothing, the right value or a wrong    *)
(* one.                                                                    *)

Clean == [fl \in Flags |-> "no"]

(* The states in which a block, or the code after a native call, may find  *)
(* the flags: all of them in xFlags, or some of them deferred.             *)
Entries ==
  {[ok |-> [fl \in Flags |-> fl \notin d], df |-> [fl \in Flags |-> IF fl \in d THEN "ok" ELSE "no"]] :
     d \in {{}, Flags, Flags \ {"CF"}}}

At(i, p) == [at |-> i, ops |-> code[i].ops, taken |-> FALSE, ok |-> p.ok, df |-> p.df]

Enter ==
  /\ phase = "ready"
  /\ phase' = "run"
  /\ \E p \in Entries : run' = At(0, p)
  /\ UNCHANGED <<insts, fwd, stack, ninst, f, code>>

Applied(r) ==
  [r EXCEPT !.ok = [fl \in Flags |-> IF r.df[fl] = "no" THEN r.ok[fl] ELSE r.df[fl] = "ok"],
            !.df = Clean]

(* The effect of one operation on the flags.                               *)
Effect(r, o, gen) ==
  CASE r = "update"   -> Applied(run)
    [] r = "dfnone"   -> [run EXCEPT !.df = Clean]
    [] r = "setdf"    -> [run EXCEPT !.df = [fl \in Flags |->
                                               IF fl \in o.set THEN "ok" ELSE "no"]]
    [] r = "commit"   -> [run EXCEPT !.ok = [fl \in Flags |-> @[fl] /\ fl \notin o.set],
                                     !.df = [fl \in Flags |->
                                               IF fl \in o.set /\ @[fl] = "ok" THEN "bad"
                                               ELSE @[fl]]]
    [] r = "write"    -> [run EXCEPT !.ok = [fl \in Flags |-> @[fl] \/ fl \in gen]]
    [] r = "writeall" -> [run EXCEPT !.ok = [fl \in Flags |-> @[fl] \/ fl \in o.set]]
    [] OTHER          -> run

Step ==
  /\ phase = "run" /\ run.ops # <<>>
  /\ LET i == run.at
         r == Head(run.ops)
     IN  \/ run' = [Effect(r, op(i), insts[i].gen) EXCEPT !.ops = Tail(@)]
         \/ /\ r = "skip"                     \* B_NEXT: the count is zero
            /\ run' = [run EXCEPT !.ops = <<>>]
  /\ UNCHANGED <<phase, insts, fwd, stack, ninst, f, code>>

(* The end of an instruction: fall through, jump, or leave the block.      *)
GoTo(i, p) ==
  IF i \in DOMAIN insts THEN run' = At(i, p) /\ UNCHANGED phase
  ELSE /\ phase' = "left"
       /\ run' = [run EXCEPT !.ok = p.ok, !.df = p.df]

(* A native function returns: the flags are unspecified, so that either    *)
(* place will do, and any of them may be deferred.                         *)
Unspecified(d) ==
  [ok |-> [fl \in Flags |-> TRUE],
   df |-> [fl \in Flags |-> IF fl \in d THEN "ok" ELSE "no"]]

After ==
  /\ phase = "run" /\ run.ops = <<>>
  /\ LET i == run.at
         o == op(i)
     IN  \/ ~run.taken /\ o.kind \in {"next", "jcc"} /\ GoTo(i + 1, run)
         \/ /\ ~run.taken /\ o.kind \in {"jcc", "jmp"}
            /\ run' = [run EXCEPT !.ops = code[i].taken, !.taken = TRUE]
            /\ UNCHANGED phase
         \/ run.taken /\ GoTo(insts[i].jmp_insts, run)
         \/ o.kind = "ret" /\ GoTo(NoInst, run)
         \/ o.kind = "native" /\ \E d \in SUBSET Flags : GoTo(i + 1, Unspecified(d))
  /\ UNCHANGED <<insts, fwd, stack, ninst, f, code>>

Again ==
  /\ phase = "left"
  /\ phase' = "ready"
  /\ run' = <<>>
  /\ UNCHANGED <<insts, fwd, stack, ninst, f, code>>

-----------------------------------------------------------------------------
Init ==
  /\ phase = "pass0"
  /\ insts = <<>>
  /\ fwd = <<>>
  /\ stack = <<>>
  /\ ninst = 0
  /\ f = Unknown
  /\ code = <<>>
  /\ run = <<>>

DecodeAny ==
  \E fam \in Families : \E o \in fam.ops :
    /\ size < fam.max /\ \A i \in DOMAIN insts : insts[i].op \in fam.ops
    /\ IF Repertoire[o].kind \in {"jcc", "jmp"}
       THEN \E j \in Targets : Decode(o, j)
       ELSE Decode(o, Out - 1)

Next ==
  \/ DecodeAny \/ Stop
  \/ ResolveJumps \/ MarkAlive \/ FillPredecessors \/ StartNeed \/ UpdateNeed
  \/ Pass("pass1") \/ Pass("pass2") \/ NextPass
  \/ Enter \/ Step \/ After \/ Again

Spec == Init /\ [][Next]_vars

(* FillBlock runs to its end once it is called.                            *)
Fairness == WF_vars(UpdateNeed)
FairSpec == Spec /\ Fairness

-----------------------------------------------------------------------------
F == [pending : {"UNKNOWN", "SET", "PENDING", "SET_PENDING"}, dfnone : BOOLEAN]
Needs == SUBSET (Flags \cup {"PEND"})
Micro == {"update", "dfnone", "setdf", "commit", "write", "writeall", "read", "skip"}

(* The fields of dyn->insts, the passes and the running block keep their   *)
(* types; the live instructions are closed under their successors.         *)
TypeOK ==
  /\ phase \in {"pass0", "link", "alive", "preds", "need", "pass1", "pass2",
                "ready", "run", "left"}
  /\ DOMAIN insts = 0..(size - 1) /\ size <= MaxInsts
  /\ \A i \in DOMAIN insts :
       /\ insts[i].op \in DOMAIN Repertoire
       /\ insts[i].jmp_insts \in {NoInst} \cup DOMAIN insts
       /\ {insts[i].need_before, insts[i].need_after, insts[i].gen} \subseteq Needs
       /\ {insts[i].f_entry, insts[i].f_exit} \subseteq F
       /\ \A k \in DOMAIN insts[i].pred : insts[insts[i].pred[k]].alive
       /\ phase \notin {"pass0", "link", "alive"} /\ insts[i].alive
            => \A j \in Succ(insts, i) : insts[j].alive
  /\ f \in F
  /\ ninst \in 0..size
  /\ phase = "need" <=> stack # <<>>
  /\ phase \in {"run", "left"} =>
       /\ run.at \in DOMAIN insts /\ insts[run.at].alive
       /\ \A k \in DOMAIN run.ops : run.ops[k] \in Micro

(* The flags an instruction of the block reads from xFlags hold the values *)
(* the x86 program would see, on every path of the block, whatever was     *)
(* deferred when the block was entered.  A byte or word shifted by a CL of *)
(* zero keeps the flags for SafeFlags = 2 only: below, its predecessors do *)
(* not compute what it takes for its own.                                  *)
ReadsFresh ==
  phase = "run" /\ run.ops # <<>> /\ Head(run.ops) = "read"
    => \A fl \in op(run.at).use \cap Flags : run.ok[fl]

(* A block is left with every flag recoverable: UpdateFlags applied to     *)
(* what it leaves in df gives the flags of the x86 program.  The same goes *)
(* for shifts by a CL of zero, and a RET asks for flags if SafeFlags > 0.  *)
FlagsKept == phase = "left" => \A fl \in Flags : Applied(run).ok[fl]

(* updateNeed, with its early returns, reaches a solution: what each       *)
(* instruction needs before it and generates follows from what is needed   *)
(* after it, and what it asks for each of its predecessors is asked for.   *)
Solved(i) ==
  LET n == NeedOf(op(i), insts[i].need_after)
  IN  /\ n.after = insts[i].need_after /\ n.gen = insts[i].gen
      /\ n.before = insts[i].need_before

(* An instruction that leaves nothing deferred answers a need of X_PEND    *)
(* with all the flags.                                                     *)
Turned(o, asked) ==
  IF "PEND" \in asked /\ o.state \in NoPend THEN (asked \ {"PEND"}) \cup Flags ELSE asked

Met(i, j) == Turned(op(i), Asked(insts[j], insts[j].need_before)) \subseteq insts[i].need_after

NeedReached ==
  phase \in {"pass1", "pass2"} =>
    /\ \A i \in DOMAIN insts : Solved(i)
    /\ \A i \in DOMAIN insts : insts[i].alive => \A j \in Succ(insts, i) : Met(i, j)

(* updateNeed comes to an end on every block, loops included: each need    *)
(* only grows.                                                             *)
NeedEnds == phase = "need" ~> phase = "pass1"
=============================================================================
