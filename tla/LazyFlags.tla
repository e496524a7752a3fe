----------------------------- MODULE LazyFlags -----------------------------
(***************************************************************************)
(* What the lazy flags are worth: the x86 operations as the interpreter    *)
(* (x86primop) and the emitters of the dynarec compute them, the deferred  *)
(* operation they leave in emu, and UpdateFlags, which turns it into       *)
(* flags.  Beside them, the flags and the result the x86 manual asks for.  *)
(*                                                                         *)
(* The widths are scaled down.  What the code relies on is kept: a byte    *)
(* has an even number of bits (its parity when all are set), a product of  *)
(* words fits in a long, the emulator computes in registers of Long bits.  *)
(* Counts are immediate: the dynarec's shifts by CL are not in the model.  *)
(***************************************************************************)
EXTENDS Integers, FiniteSets, FiniteSetsExt, Bitwise, TLC

CONSTANTS Byte,       \* bits of a byte
          Word,       \* bits of a word
          Nibble,     \* bits below the one AF is the carry into
          Families    \* the programs, by name: operations, operands, how many

Long == 2 * Word

ASSUME CountAssumption == \A f \in DOMAIN Families : Families[f].counts \subseteq 1..(Long - 1)

ASSUME WidthAssumption ==
  /\ Nibble \in 1..(Byte - 1) /\ Byte % 2 = 0 /\ Byte < Word
  /\ Word <= 7          \* TLC's integers hold a product of longs

VARIABLES emu,        \* emu->df (with its width), op1, op2, res and the flags
          out,        \* what the operation wrote to its destination
          direct,     \* flags that emu's flag register holds, deferred or not
          arch,       \* x86: the values each flag may have
          want,       \* x86: the destination
          amiss,      \* history: flags an emitter is known to have got wrong
          family,     \* the family the program is of
          left        \* bound: operations still to run

vars == <<emu, out, direct, arch, want, amiss, family, left>>

Flags == {"CF", "PF", "AF", "ZF", "SF", "OF"}

Rotates == {"rol", "ror", "rcl", "rcr"}

Counted == {"shl", "shr", "sar", "shld", "shrd"} \cup Rotates

Unary == {"inc", "dec", "neg"}

(* The flags an operation sets.                                            *)
Sets(op) == CASE op \in {"inc", "dec"} -> Flags \ {"CF"}
              [] op \in Rotates -> {"CF", "OF"}
              [] OTHER -> Flags

ReadsCF(op) == op \in {"adc", "sbb", "sbbc", "rcl", "rcr"}

-----------------------------------------------------------------------------
(* Bits.                                                                   *)

Bit(n, i) == (n \div 2^i) % 2 = 1

Low(n, w) == n % 2^w

Trunc(n) == n % 2^Long

One(b) == IF b THEN 1 ELSE 0

Signed(n, w) == IF Bit(n, w - 1) THEN n - 2^w ELSE n

PARITY(n) == Cardinality({i \in 0..(Byte - 1) : Bit(n, i)}) % 2 = 0

ZSP(w, r) == [ZF |-> Low(r, w) = 0, SF |-> Bit(r, w - 1), PF |-> PARITY(r)]

(* The note at the top of x86primop.c: the carry out of, and the borrow    *)
(* into, each bit, from the operands and the result.                       *)
Carry(a, b, r, i) == \/ Bit(a, i) /\ Bit(b, i)
                     \/ ~Bit(r, i) /\ (Bit(a, i) \/ Bit(b, i))

Borrow(a, b, r, i) == \/ Bit(r, i) /\ (~Bit(a, i) \/ Bit(b, i))
                      \/ ~Bit(a, i) /\ Bit(b, i)

CarryChain(w, a, b, r) ==
  [OF |-> Carry(a, b, r, w - 1) # Carry(a, b, r, w - 2),
   AF |-> Carry(a, b, r, Nibble - 1)]

BorrowChain(w, a, b, r) ==
  [OF |-> Borrow(a, b, r, w - 1) # Borrow(a, b, r, w - 2),
   AF |-> Borrow(a, b, r, Nibble - 1)]

(* The carry of a long sum: a register has no bit for it, so it is had     *)
(* from the halves.                                                        *)
HiCarry(a, b, c) ==
  LET half == Long \div 2
      lo   == Low(a, half) + Low(b, half) + c
  IN  Bit(lo \div 2^half + a \div 2^half + b \div 2^half, half)

AddFlags(w, a, b, c, r) ==
  [CF |-> IF w = Long THEN HiCarry(a, b, c) ELSE Bit(r, w)]
    @@ CarryChain(w, a, b, r) @@ ZSP(w, r)

SubFlags(w, a, b, r) ==
  [CF |-> Borrow(a, b, r, w - 1)] @@ BorrowChain(w, a, b, r) @@ ZSP(w, r)

NegFlags(w, a, r) ==
  [CF |-> a # 0, OF |-> (Bit(a, w - 1) \/ Bit(r, w - 1)) # (Bit(a, w - 2) \/ Bit(r, w - 2)),
   AF |-> Bit(a, Nibble - 1) \/ Bit(r, Nibble - 1)] @@ ZSP(w, r)

LogicFlags(w, r) ==
  [CF |-> FALSE, OF |-> FALSE, AF |-> FALSE, ZF |-> r = 0] @@ ZSP(w, r)

Without(f, g) == [x \in (DOMAIN f) \ {g} |-> f[x]]

(* OF is only given a value by the shifts and rotates by one bit; for      *)
(* other counts some clear it and some leave it.                           *)
IfOne(n, v) == IF n = 1 THEN [OF |-> v] ELSE << >>

OrClear(n, v) == [OF |-> n = 1 /\ v]

(* All bits of the byte or word are gone.                                  *)
Emptied == [ZF |-> TRUE, SF |-> FALSE, PF |-> TRUE]

RolFlags(w, n, r) ==
  [CF |-> Bit(r, 0)] @@ IfOne(n, Bit(r, 0) # Bit(r, w - 1))

RorFlags(w, n, r) ==
  [CF |-> Bit(r, w - 1)] @@ IfOne(n, Bit(r, w - 1) # Bit(r, w - 2))

-----------------------------------------------------------------------------
(* UpdateFlags.                                                            *)

ShiftFlags(df, w, a, n, r) ==
  CASE df = "shl" /\ (n < w \/ w = Long) ->
         [CF |-> Bit(a, w - n)] @@ ZSP(w, r) @@ OrClear(n, Bit(r, w - 1) # Bit(a, w - n))
    [] df = "shl" -> [CF |-> Bit(a * 2^(n - 1), w - 1), OF |-> FALSE] @@ Emptied
    [] df = "shr" /\ (n < w \/ w = Long) ->
         [CF |-> Bit(a, n - 1)] @@ ZSP(w, r) @@ IfOne(n, Bit(a, w - 1))
    [] df = "shr" -> [CF |-> w = Byte /\ Bit(a, n - 1)] @@ Emptied
    [] df = "sar" /\ (n < w \/ w = Long) ->
         [CF |-> Bit(a, n - 1)] @@ ZSP(w, r) @@ IfOne(n, FALSE)
    [] df = "sar" ->
         LET s == Bit(a, w - 1) IN [CF |-> s, SF |-> s, ZF |-> ~s, PF |-> TRUE]

DeferredFlags(e) ==
  LET w == e.w   a == e.op1   b == e.op2   r == e.res
      hi == IF w = Long THEN a ELSE Low(r \div 2^w, w)
      Product(overflow) == [CF |-> overflow, OF |-> overflow, PF |-> PARITY(r)]
  IN  CASE e.df = "none" -> << >>
        [] e.df = "add" -> AddFlags(w, a, b, 0, r)
        [] e.df = "adc" -> AddFlags(w, a, b, One(r # Trunc(a + b)), r)
        [] e.df \in {"sub", "cmp", "sbb"} -> SubFlags(w, a, b, r)
        [] e.df = "inc" -> CarryChain(w, a, 1, r) @@ ZSP(w, r)
        [] e.df = "dec" -> BorrowChain(w, a, 1, r) @@ ZSP(w, r)
        [] e.df = "neg" -> NegFlags(w, a, r)
        [] e.df \in {"and", "or", "xor"} -> LogicFlags(w, r)
        [] e.df = "tst" -> Without(LogicFlags(w, r), "AF")
        [] e.df = "mul" -> Product(hi # 0)
        [] e.df = "imul" -> Product(hi # IF Bit(r, w - 1) THEN 2^w - 1 ELSE 0)
        [] e.df \in {"shl", "shr", "sar"} -> ShiftFlags(e.df, w, a, b, r)
        [] e.df = "rol" -> RolFlags(w, b, r)
        [] e.df = "ror" -> RorFlags(w, b, r)

UpdateFlags(e) == [e EXCEPT !.df = "none", !.fl = DeferredFlags(e) @@ @]

-----------------------------------------------------------------------------
(* The interpreter: the functions of x86primop.h and x86primop.c.  Each    *)
(* defers itself, or settles what is deferred (CHECK_FLAGS) or drops it    *)
(* (RESET_FLAGS) and sets its flags at once.                               *)

Rotl(a, w, n) == LET c == n % w IN Low(a * 2^c, w) + a \div 2^(w - c)

Rotr(a, w, n) == LET c == n % w IN a \div 2^c + Low(a * 2^(w - c), w)

(* Rotation of the w + 1 bits that the carry and the operand make.         *)
RclRes(a, w, c, cf) == Low(a * 2^c, w) + One(cf) * 2^(c - 1) + a \div 2^(w + 1 - c)

\* Mutant: the old carry goes in one bit too low.
RcrRes_low(a, w, c, cf) == a \div 2^c + (One(cf) * 2^(w - c)) \div 2 + Low(a * 2^(w + 1 - c), w)

RcrRes(a, w, c, cf) == a \div 2^c + One(cf) * 2^(w - c) + Low(a * 2^(w + 1 - c), w)

Asr(a, w, n) == Signed(a, w) \div 2^n

Logic(op, a, b) == CASE op = "and" -> a & b
                     [] op = "or"  -> a | b
                     [] op = "xor" -> a ^^ b

(* An operation that ends with its flags deferred: what it stores, and its *)
(* result; and one that ends with its flags set.                           *)
Deferred(e, w, stores, v) == [emu |-> (stores @@ [w |-> w]) @@ e, out |-> v]

Settled(e, fl, v) == [emu |-> [e EXCEPT !.df = "none", !.fl = fl @@ @], out |-> v]

Product(w, n, df) ==
  LET r == n % 2^(2 * w)
  IN  IF w = Long THEN [df |-> df, res |-> Low(r, w), op1 |-> r \div 2^w]
                  ELSE [df |-> df, res |-> Trunc(n)]

InterpDeferred(op, w, a, b, n) ==
  LET all(r, v) == [df |-> op, op1 |-> a, op2 |-> v, res |-> r]
      one(r)    == [df |-> op, op1 |-> a, res |-> r]
  IN  CASE op = "add" -> all(Trunc(a + b), b)
        [] op = "sub" -> all(Trunc(a - b), b)
        [] op = "inc" -> one(Trunc(a + 1))
        [] op = "dec" -> one(Trunc(a - 1))
        [] op = "neg" -> one(Low(-a, w))
        [] op \in {"and", "or", "xor"} -> [df |-> op, res |-> Logic(op, a, b)]
        [] op = "shl" -> all(Trunc(a * 2^n), n)
        [] op = "shr" -> all(a \div 2^n, n)
        [] op = "sar" -> all(Low(Asr(a, w, n), w), n)
        [] op = "mul" -> Product(w, a * b, op)
        [] op = "imul" -> Product(w, Signed(a, w) * Signed(b, w), op)

(* The two halves of a product make the result of mul and imul.            *)
OutOf(op, w, e) ==
  CASE op \in {"mul", "imul"} /\ w = Long -> e.op1 * 2^w + e.res
    [] op \in {"mul", "imul"} -> Low(e.res, 2 * w)
    [] OTHER -> Low(e.res, w)

\* Mutant: what is deferred is dropped rather than settled.
CHECK_FLAGS_reset(e) == [e EXCEPT !.df = "none"]

CHECK_FLAGS(e) == UpdateFlags(e)

RESET_FLAGS(e) == [e EXCEPT !.df = "none"]

(* The double shifts of words and longs, for counts below the width.       *)
DoubleRes(op, w, a, b, n) ==
  IF op = "shld" THEN Low(a * 2^n, w) + b \div 2^(w - n)
                 ELSE a \div 2^n + Low(b * 2^(w - n), w)

DoubleFlags(op, w, a, n, r) ==
  [CF |-> Bit(a, IF op = "shld" THEN w - n ELSE n - 1)]
    @@ OrClear(n, Bit(a, w - 1) # Bit(r, w - 1)) @@ ZSP(w, r)

RotateCarry(op, e, w, a, n) ==
  LET c  == n % (w + 1)
      cf == Bit(a, IF op = "rcl" THEN w - c ELSE c - 1)
      r  == IF op = "rcl" THEN RclRes(a, w, c, e.fl.CF) ELSE RcrRes(a, w, c, e.fl.CF)
      of == IF op = "rcl" THEN cf # Bit(r, w - 1) ELSE e.fl.CF # Bit(a, w - 1)
  IN  IF c = 0 THEN Settled(e, << >>, a)
               ELSE Settled(e, [CF |-> cf] @@ IfOne(c, of), r)

Interp(op, w, a, b, n, e) ==
  LET checked == CHECK_FLAGS(e)
      fresh   == RESET_FLAGS(e)
      c       == One(checked.fl.CF)
      sum     == Trunc(a + b + c)
      diff    == Trunc(a - b - c)
      Defer(before) ==
        LET s == InterpDeferred(op, w, a, b, n) IN Deferred(before, w, s, OutOf(op, w, s))
      Double  == DoubleRes(op, w, a, b, n)
  IN  CASE op \in {"inc", "dec"} -> Defer(checked)
        [] op = "adc" -> Settled(checked, AddFlags(w, a, b, c, sum), Low(sum, w))
        [] op = "sbb" -> Settled(checked, SubFlags(w, a, b, diff), Low(diff, w))
        [] op \in {"rcl", "rcr"} -> RotateCarry(op, checked, w, a, n)
        [] op = "rol" -> LET r == Rotl(a, w, n) IN Settled(checked, RolFlags(w, n, r), r)
        [] op = "ror" -> LET r == Rotr(a, w, n) IN Settled(checked, RorFlags(w, n, r), r)
        [] op = "cmp" -> Settled(fresh, SubFlags(w, a, b, Trunc(a - b)), a)
        [] op = "test" -> Settled(fresh, Without(LogicFlags(w, a & b), "AF"), a)
        [] op \in {"shld", "shrd"} -> Settled(fresh, DoubleFlags(op, w, a, n, Double), Double)
        [] OTHER -> Defer(e)

-----------------------------------------------------------------------------
(* The emitters.  With G the gen_flags of the instruction, each stores its *)
(* operands and defers itself if X_PEND is in G, else clears df if any     *)
(* flag is, and in either case puts the flags of G in xFlags; arithmetic   *)
(* on ESP may do neither (Ignores).  What an emitter may do to the flags   *)
(* outside G, which nothing reads, is left out.                            *)

(* The flags ARM has after ADDS, ADCS, SUBS, SBCS or RSBS.                 *)
ArmAdd(a, b, c) ==
  [CF |-> a + b + c >= 2^Long, ZF |-> Trunc(a + b + c) = 0,
   OF |-> Signed(a, Long) + Signed(b, Long) + c \notin -(2^(Long - 1))..(2^(Long - 1) - 1)]

\* Mutant: the carry is not inverted.
ArmSub_carry(a, b, c) ==
  [CF |-> a >= b + c, ZF |-> Trunc(a - b - c) = 0,
   OF |-> Signed(a, Long) - Signed(b, Long) - c \notin -(2^(Long - 1))..(2^(Long - 1) - 1)]

(* The emitters invert the carry, which ARM clears for a borrow.           *)
ArmSub(a, b, c) ==
  [CF |-> a < b + c, ZF |-> Trunc(a - b - c) = 0,
   OF |-> Signed(a, Long) - Signed(b, Long) - c \notin -(2^(Long - 1))..(2^(Long - 1) - 1)]

(* Past the special case of ESP, for which see Ignores.                    *)
EmitAdd(w, a, b, c, r) ==
  (IF w = Long THEN ArmAdd(a, b, c) ELSE [CF |-> Bit(r, w)])
    @@ CarryChain(w, a, b, r) @@ ZSP(w, r)

EmitSub(w, a, b, c, r) ==
  (IF w = Long THEN ArmSub(a, b, c) ELSE << >>) @@ SubFlags(w, a, b, r)

EmitNeg(w, a, r) ==
  (IF w = Long THEN Without(ArmSub(0, a, 0), "CF") ELSE << >>) @@ NegFlags(w, a, r)

(* emit_sbb32c takes for ~op1, when the constant is small, what is left in *)
(* s3 after the carry was loaded: AF is where the borrow's bit should be.  *)
EmitSbbc(a, b, e, r) ==
  LET i == Nibble - 1
      s3 == e.fl.AF
      af == (Bit(r, i) /\ (s3 \/ Bit(b, i))) \/ (s3 /\ Bit(b, i))
  IN  (IF b < 2^Byte THEN [AF |-> af] ELSE << >>) @@ EmitSub(Long, a, b, One(e.fl.CF), r)

(* shl by a byte's or a word's width or more: no result is stored.         *)
EmitShl(w, a, n) ==
  IF n < w
  THEN LET r == Low(a * 2^n, w)
       IN  [res |-> r, fl |-> [CF |-> Bit(a, w - n)] @@ ZSP(w, r)
                                @@ OrClear(n, Bit(r, w - 1) # Bit(a, w - n))]
  ELSE [fl |-> [CF |-> Bit(a * 2^(n - 1), w - 1), OF |-> FALSE] @@ Emptied]

(* The result of rol8 is stored with the copy of the byte above it.        *)
EmitRol(w, a, n) ==
  IF w = Byte /\ n % w # 0 THEN (a + a * 2^w) \div 2^(w - (n % w)) ELSE Rotl(a, w, n)

(* What an emitter stores when it defers, what it writes, its flags.       *)
Code(stores, v, fl) == [stores |-> stores, out |-> v, fl |-> fl]

EmitShift(op, w, a, b, n) ==
  LET ops(x) == [df |-> op, op1 |-> x, op2 |-> n]
  IN  CASE op = "shl" ->
             LET s == EmitShl(w, a, n)
             IN  Code(ops(a) @@ Without(s, "fl"), IF n < w THEN s.res ELSE 0, s.fl)
        [] op = "shr" ->
             LET r == a \div 2^n
             IN  Code(ops(a) @@ [res |-> r], r,
                      [CF |-> Bit(a, n - 1)] @@ ZSP(w, r) @@ IfOne(n, Bit(a, w - 1)))
        [] op = "sar" ->
             LET r == Trunc(Asr(a, w, n))
             IN  Code(ops(Trunc(Signed(a, w))) @@ [res |-> r], Low(r, w),
                      [CF |-> Bit(Trunc(Asr(a, w, n - 1)), 0)] @@ ZSP(w, r) @@ IfOne(n, FALSE))
        [] op = "rol" ->
             LET r == EmitRol(w, a, n)
             IN  Code([df |-> op, op2 |-> n, res |-> r], Low(r, w), RolFlags(w, n, r))
        [] op = "ror" ->
             LET r == Rotr(a, w, n)
             IN  Code([df |-> op, op2 |-> n, res |-> r], r, RorFlags(w, n, r))
        [] op \in {"shld", "shrd"} ->
             LET r == DoubleRes(op, w, a, b, n)
             IN  Code([ops(a) EXCEPT !.df = IF op = "shld" THEN "shl" ELSE "shr"] @@ [res |-> r],
                      r, DoubleFlags(op, w, a, n, r))

Emit(op, w, a, b, n, e) ==
  LET c    == One(e.fl.CF)
      all(df, r) == [df |-> df, op1 |-> a, op2 |-> b, res |-> r]
      one(r)     == [df |-> op, op1 |-> a, res |-> r]
      sum(cf)    == Trunc(a + b + cf)
      diff(cf)   == Trunc(a - b - cf)
      logic(r) == Code([df |-> op, res |-> r], r, LogicFlags(w, r))
  IN  CASE op = "add" -> Code(all(op, sum(0)), Low(sum(0), w), EmitAdd(w, a, b, 0, sum(0)))
        [] op = "adc" -> Code(all(op, sum(c)), Low(sum(c), w), EmitAdd(w, a, b, c, sum(c)))
        [] op = "sub" -> Code(all(op, diff(0)), Low(diff(0), w), EmitSub(w, a, b, 0, diff(0)))
        [] op = "cmp" -> Code(all(op, diff(0)), a, EmitSub(w, a, b, 0, diff(0)))
        [] op = "sbb" -> Code(all(op, diff(c)), Low(diff(c), w), EmitSub(w, a, b, c, diff(c)))
        [] op = "sbbc" -> Code(all("sbb", diff(c)), diff(c), EmitSbbc(a, b, e, diff(c)))
        [] op = "inc" -> LET r == Trunc(a + 1)
                         IN  Code(one(r), Low(r, w), Without(EmitAdd(w, a, 1, 0, r), "CF"))
        [] op = "dec" -> LET r == Trunc(a - 1)
                         IN  Code(one(r), Low(r, w), Without(EmitSub(w, a, 1, 0, r), "CF"))
        [] op = "neg" -> LET r == Trunc(-a) IN Code(one(r), Low(r, w), EmitNeg(w, a, r))
        [] op \in {"and", "or", "xor"} -> logic(Logic(op, a, b))
        [] op = "test" -> LET r == a & b
                          IN  Code([df |-> "tst", res |-> r], a, Without(LogicFlags(w, r), "AF"))
        [] op = "mul" -> LET s == Product(w, a * b, op) IN Code(s, OutOf(op, w, s), << >>)
        [] op = "imul" -> LET s == Product(w, Signed(a, w) * Signed(b, w), op)
                          IN  Code(s, OutOf(op, w, s), << >>)
        [] op \in Counted -> EmitShift(op, w, a, b, n)

(* mul and imul defer whenever some flag is wanted, cmp and test also when *)
(* none is; those two clear df whatever is wanted.                         *)
Defers(op, G) ==
  \/ "PEND" \in G
  \/ op \in {"mul", "imul"} /\ G # {}
  \/ op \in {"cmp", "test"} /\ G = {}

(* "special case when doing math on ESP and only PEND is needed: ignoring  *)
(* it!"  emit_add32c and emit_sub32c, which take a constant, only add and  *)
(* subtract when their register is ESP and gen_flags is X_PEND, or X_ALL.  *)
Ignores(op, esp, G) == esp /\ op \in {"add", "sub"} /\ G \in {{"PEND"}, Flags}

(* The other cases whose flags are not x86's: AF of emit_sbb32c with a     *)
(* small constant, and OF of emit_shrd32c by one, deferred as d_shr32.     *)
Amiss(op, x, G) ==
  CASE Ignores(op, x.esp, G) -> Flags
    [] op = "sbbc" /\ x.b < 2^Byte -> G \cap {"AF"}
    [] op = "shrd" /\ x.n = 1 /\ "PEND" \in G -> {"OF"}
    [] OTHER -> {}

(* gen_flags decides what is stored and which flags are put in xFlags.     *)
JitFlags(op, w, a, b, n, e, G) ==
  LET code == Emit(op, w, a, b, n, e)
      fl   == [f \in G \cap DOMAIN code.fl |-> code.fl[f]]
      e1   == CASE Defers(op, G) -> (code.stores @@ [w |-> w]) @@ e
                [] ~Defers(op, G) /\ (G # {} \/ op \in {"cmp", "test"}) -> RESET_FLAGS(e)
                [] OTHER -> e
  IN  [emu |-> [e1 EXCEPT !.fl = fl @@ @], out |-> code.out, written |-> DOMAIN fl]

(* What runs, and the flags the translator takes to be in xFlags after it. *)
Jit(op, w, x, e, G) ==
  IF Ignores(op, x.esp, G)
  THEN [emu |-> e, out |-> Emit(op, w, x.a, x.b, x.n, e).out, written |-> G \cap Flags]
  ELSE JitFlags(op, w, x.a, x.b, x.n, e, G)

-----------------------------------------------------------------------------
(* The x86 manual: the result of an operation, and the values its flags    *)
(* may have.  A flag the manual leaves undefined may have both.            *)

Undefined == BOOLEAN

RefZSP(w, r) ==
  [ZF |-> {r = 0}, SF |-> {r >= 2^(w - 1)},
   PF |-> {Cardinality({i \in 0..(Byte - 1) : Bit(r, i)}) \in {0, 2, 4}}]

RefSum(w, x, y, sign, c) ==
  LET Sum(u, v) == u + sign * (v + c)
      n  == Sum(x, y)
      sn == Sum(Signed(x, w), Signed(y, w))
      r  == Low(n, w)
  IN  [out |-> r,
       fl  |-> [CF |-> {n \notin 0..(2^w - 1)}, OF |-> {sn \notin -(2^(w - 1))..(2^(w - 1) - 1)},
                AF |-> {Sum(Low(x, Nibble), Low(y, Nibble)) \notin 0..(2^Nibble - 1)}]
                  @@ RefZSP(w, r)]

Keeping(f, ref) == [ref EXCEPT !.fl = Without(@, f)]

RefArith(op, w, a, b, c) ==
  CASE op = "add" -> RefSum(w, a, b, 1, 0)
    [] op = "adc" -> RefSum(w, a, b, 1, c)
    [] op = "inc" -> Keeping("CF", RefSum(w, a, 1, 1, 0))
    [] op \in {"sub", "cmp"} -> RefSum(w, a, b, -1, 0)
    [] op \in {"sbb", "sbbc"} -> RefSum(w, a, b, -1, c)
    [] op = "dec" -> Keeping("CF", RefSum(w, a, 1, -1, 0))
    [] op = "neg" -> RefSum(w, 0, a, -1, 0)

RefLogic(op, w, a, b) ==
  LET bits == {i \in 0..(w - 1) : CASE op \in {"and", "test"} -> Bit(a, i) /\ Bit(b, i)
                                     [] op = "or"  -> Bit(a, i) \/ Bit(b, i)
                                     [] op = "xor" -> Bit(a, i) # Bit(b, i)}
      r    == MapThenSumSet(LAMBDA i : 2^i, bits)
  IN  [out |-> r, fl |-> [CF |-> {FALSE}, OF |-> {FALSE}, AF |-> Undefined] @@ RefZSP(w, r)]

RefProduct(op, w, a, b) ==
  LET n == IF op = "mul" THEN a * b ELSE Signed(a, w) * Signed(b, w)
      fits == n \in IF op = "mul" THEN 0..(2^w - 1) ELSE -(2^(w - 1))..(2^(w - 1) - 1)
  IN  [out |-> n % 2^(2 * w),
       fl  |-> [CF |-> {~fits}, OF |-> {~fits}] @@ [f \in Flags |-> Undefined]]

(* A shift is n shifts by one bit: the carry is the last bit to leave.     *)
RefShift(op, w, a, n) ==
  LET r  == CASE op = "shl" -> Low(a * 2^n, w)
              [] op = "shr" -> a \div 2^n
              [] op = "sar" -> Low(Signed(a, w) \div 2^n, w)
      cf == CASE op = "shl" -> Bit(a * 2^n, w)
              [] op = "shr" -> Bit(a, n - 1)
              [] op = "sar" -> Bit(Signed(a, w), n - 1)
      of == CASE op = "shl" -> cf # (r >= 2^(w - 1))
              [] op = "shr" -> a >= 2^(w - 1)
              [] op = "sar" -> FALSE
  IN  [out |-> r,
       fl  |-> [CF |-> IF op # "sar" /\ n >= w THEN Undefined ELSE {cf},
                OF |-> IF n = 1 THEN {of} ELSE Undefined, AF |-> Undefined] @@ RefZSP(w, r)]

(* A rotation is one of the w bits, or of the w + 1 with the carry.        *)
RefRotate(op, w, a, n, c) ==
  LET m  == IF op \in {"rol", "ror"} THEN w ELSE w + 1
      v  == IF op \in {"rol", "ror"} THEN a ELSE a + c * 2^w
      k  == n % m
      u  == IF op \in {"rol", "rcl"} THEN Low(v * 2^k, m) + v \div 2^(m - k)
                                     ELSE v \div 2^k + Low(v * 2^(m - k), m)
      r  == Low(u, w)
      cf == CASE op = "rol" -> Bit(r, 0) [] op = "ror" -> Bit(r, w - 1) [] OTHER -> Bit(u, w)
      of == IF op \in {"rol", "rcl"} THEN cf # Bit(r, w - 1) ELSE Bit(r, w - 1) # Bit(r, w - 2)
  IN  [out |-> r, fl |-> [CF |-> {cf}, OF |-> IF n = 1 THEN {of} ELSE Undefined]]

RefDouble(op, w, a, b, n) ==
  LET r == IF op = "shld" THEN Low((a * 2^w + b) \div 2^(w - n), w)
                          ELSE Low((b * 2^w + a) \div 2^n, w)
  IN  [out |-> r,
       fl  |-> [CF |-> {Bit(a, IF op = "shld" THEN w - n ELSE n - 1)}, AF |-> Undefined,
                OF |-> IF n = 1 THEN {Bit(a, w - 1) # Bit(r, w - 1)} ELSE Undefined]
                  @@ RefZSP(w, r)]

Ref(op, w, a, b, n, c) ==
  CASE op \in {"and", "or", "xor", "test"} -> RefLogic(op, w, a, b)
    [] op \in {"mul", "imul"} -> RefProduct(op, w, a, b)
    [] op \in {"shl", "shr", "sar"} -> RefShift(op, w, a, n)
    [] op \in Rotates -> RefRotate(op, w, a, n, c)
    [] op \in {"shld", "shrd"} -> RefDouble(op, w, a, b, n)
    [] OTHER -> RefArith(op, w, a, b, c)

-----------------------------------------------------------------------------
(* Programs: operations of a family, each run by the interpreter or by     *)
(* code of the dynarec, and reads of the flags.  A constant may be added   *)
(* to ESP or subtracted from it.                                           *)

Family == Families[family]

Live == {f \in Flags \ amiss : arch[f] # Undefined}

CanRead(op) == ReadsCF(op) => "CF" \in Live

Inputs(op, w) ==
  LET values == {v \in Family.values : v < 2^w}
      counts == IF op \in {"shld", "shrd"} THEN {n \in Family.counts : n < w} ELSE Family.counts
  IN  [a : values,
       b : IF op \in Unary \cup (Counted \ {"shld", "shrd"}) THEN {0} ELSE values,
       n : IF op \in Counted THEN counts ELSE {0},
       esp : IF op \in {"add", "sub"} /\ w = Long THEN BOOLEAN ELSE {FALSE}]

(* What the x86 program now expects; the result of cmp and test is thrown  *)
(* away.                                                                   *)
Expect(op, w, x) ==
  LET ref == Ref(op, w, x.a, x.b, x.n, One(TRUE \in arch.CF))
  IN  [ref EXCEPT !.out = IF op \in {"cmp", "test"} THEN x.a ELSE @]

Init ==
  /\ family \in DOMAIN Families
  /\ left = Family.steps
  /\ \E v \in BOOLEAN :
       /\ emu = [df |-> "none", w |-> Byte, op1 |-> 0, op2 |-> 0, res |-> 0,
                 fl |-> [f \in Flags |-> v]]
       /\ arch = [f \in Flags |-> {v}]
  /\ out = 0 /\ want = 0
  /\ direct = Flags /\ amiss = {}

(* The interpreter runs an operation.                                      *)
RunInterp(op, w, x) ==
  /\ left > 0 /\ CanRead(op)
  /\ LET did == Interp(op, w, x.a, x.b, x.n, emu)
         ref == Expect(op, w, x)
     IN  /\ emu' = did.emu
         /\ out' = did.out
         /\ direct' = IF did.emu.df = "none" THEN Flags ELSE Flags \ Sets(op)
         /\ arch' = ref.fl @@ arch
         /\ want' = ref.out
  /\ amiss' = amiss \ Sets(op)
  /\ left' = left - 1
  /\ UNCHANGED family

(* Code of the dynarec runs it, emitted for a gen_flags.  READFLAGS and    *)
(* SETFLAGS have seen to the flags it reads, and to those it leaves.       *)
RunJit(op, w, x, G) ==
  /\ left > 0 /\ CanRead(op)
  /\ (IF ReadsCF(op) THEN {"CF"} ELSE {}) \cup (Live \ Sets(op)) \subseteq direct
  /\ LET did == Jit(op, w, x, emu, G)
         ref == Expect(op, w, x)
         gone == IF Defers(op, G) THEN {} ELSE Sets(op) \ G
     IN  /\ emu' = did.emu
         /\ out' = did.out
         /\ direct' = (direct \ Sets(op)) \cup did.written
         /\ arch' = [f \in gone |-> Undefined] @@ ref.fl @@ arch
         /\ want' = ref.out
  /\ amiss' = (amiss \ Sets(op)) \cup Amiss(op, x, G)
  /\ left' = left - 1
  /\ UNCHANGED family

(* CHECK_FLAGS of the interpreter's Jcc, SETcc, PUSHF; the UpdateFlags of  *)
(* READFLAGS in a block.                                                   *)
Read ==
  /\ direct # Flags
  /\ emu' = CHECK_FLAGS(emu)
  /\ direct' = Flags
  /\ UNCHANGED <<out, arch, want, amiss, family, left>>

AnyInterp == \E op \in Family.interp, w \in Family.widths : \E x \in Inputs(op, w) :
               RunInterp(op, w, x)

AnyJit == \E op \in Family.jit, w \in Family.widths, G \in Family.gens :
            \E x \in Inputs(op, w) : RunJit(op, w, x, G \cap (Sets(op) \cup {"PEND"}))

Next == AnyInterp \/ AnyJit \/ Read

Spec == Init /\ [][Next]_vars

-----------------------------------------------------------------------------
(* UpdateFlags recovers every flag: from whatever the last operations of   *)
(* the interpreter and of the dynarec left deferred, it computes for each  *)
(* flag that is defined, and that something may still read, the x86 value. *)
(* Excepted are the flags Amiss names, until an operation sets them: those *)
(* of ESP arithmetic, which nobody computes, above all.                    *)
DeferredRight == \A f \in Flags \ amiss : UpdateFlags(emu).fl[f] \in arch[f]

(* The flags the code believes to be up to date in eflags or xFlags are,   *)
(* without an UpdateFlags: those the interpreter or an emitter set itself, *)
(* and those an operation left alone.  The flags Amiss names are excepted. *)
DirectRight == \A f \in direct \ amiss : emu.fl[f] \in arch[f]

(* The interpreter and the emitters write the result x86 does, with the    *)
(* carry the deferred flags make where an operation reads it.              *)
ResultsAgree == out = want

=============================================================================
