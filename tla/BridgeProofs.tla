---------------------------- MODULE BridgeProofs ----------------------------
(***************************************************************************)
(* What tools/bridge.c and the mutexes of box86context.c keep, for any     *)
(* threads, functions, calls and signals.                                  *)
(*                                                                         *)
(* The argument is in five layers.  BaseInv says how a thread's stack is   *)
(* made and which mutexes it has.  RoomInv bounds the places that calls    *)
(* take, and CoveredInv says that a call which a signal interrupted        *)
(* between the test of b->sz and its increment has its brick in "opened".  *)
(* SlotInv adds the bridges that calls have taken in the other bricks, and *)
(* MapInv what the maps point to there.  CountInv counts the bridges of    *)
(* one function, those written and those a call is about to write.         *)
(***************************************************************************)
EXTENDS Bridge, TLAPS, FiniteSetTheorems, SequenceTheorems

-----------------------------------------------------------------------------
(***************************************************************************)
(* The inductive invariants.                                               *)
(***************************************************************************)
\* A frame, without the bounds of its bridge.
FrameW == [op : Ops \union {"handler"}, pc : PCs \union {"run", "relock"}, fnc : Fncs \union {None},
           b : Bricks, sz : Nat, ret : Nat \X Nat, saved : SUBSET Mutexes]

TypeW == /\ owner \in [Mutexes -> Threads \union {None}]
         /\ last = bricks /\ bricks \in Bricks
         /\ sz \in [Bricks -> Nat]
         /\ bridgemap \in [Fncs -> Nat \X Nat]
         /\ stack \in [Threads -> Seq(FrameW)]
         /\ calls \in 0 .. MaxCalls /\ signals \in 0 .. MaxSignals

IsHandler(fr) == fr.op = "handler"

Bridges(fr) == fr.op \in {"check", "auto", "add"}

\* A frame is where its operation can be.
Placed(fr) ==
  /\ IsHandler(fr) => fr.pc \in {"run", "relock"}
  /\ ~ IsHandler(fr) => fr.pc \in PCs
  /\ fr.op = "protect" => fr.pc \in InNewBrick \union {"return"}
  /\ fr.op = "malloc" => fr.pc \in {"node", "noded", "return"}
  /\ Bridges(fr) => fr.fnc \in Fncs

\* Calls and handlers alternate from a call on; what lies under another frame
\* is a handler that runs or a call.
Under(fr, next) == (IsHandler(fr) <=> ~ IsHandler(next)) /\ fr.pc # "relock"

Shape(s) ==
  /\ \A i \in 1 .. Len(s) : Placed(s[i])
  /\ s # <<>> => ~ IsHandler(s[1])
  /\ \A i \in 1 .. Len(s) - 1 : Under(s[i], s[i + 1])
  /\ Len(s) <= 2 * signals + 1
  /\ s # <<>> /\ IsHandler(s[Len(s)]) => Len(s) <= 2 * signals

\* The mutexes of thread t, and those that the handlers on its stack released.
LockInv(t) ==
  LET s == stack[t]
      n == Len(s)
  IN  /\ s = <<>> => Held(t) = {}
      /\ s # <<>> /\ s[n].pc # "relock" => Held(t) = Needs(s[n])
      /\ s # <<>> /\ s[n].pc = "relock" => /\ s[n].saved \subseteq Needs(s[n - 1])
                                           /\ Held(t) = Needs(s[n - 1]) \ s[n].saved
      /\ \A i \in 2 .. n : IsHandler(s[i]) /\ s[i].pc # "relock" => s[i].saved = Needs(s[i - 1])

\* The calls that may still attach a brick.
BeforeAttach == {"check", "lock", "full", "attach"} \union InNewBrick

Attaching == {p \in Threads \X (Nat \ {0}) :
                p[2] \in DOMAIN stack[p[1]] /\ stack[p[1]][p[2]].pc \in BeforeAttach}

\* A call attaches one brick at most.
BrickCount == IsFiniteSet(Attaching) /\ bricks + Cardinality(Attaching) <= calls + 1

BaseInv == /\ TypeW
           /\ \A t \in Threads : Shape(stack[t]) /\ LockInv(t)
           /\ BrickCount

-----------------------------------------------------------------------------
(***************************************************************************)
(* What the three changes of a stack do to it.                             *)
(***************************************************************************)
LEMMA SetTopEffect ==
  ASSUME stack \in [Threads -> Seq(FrameW)], NEW t \in Threads, stack[t] # <<>>,
         NEW fr \in FrameW, SetTop(t, fr)
  PROVE  /\ stack' \in [Threads -> Seq(FrameW)]
         /\ \A u \in Threads \ {t} : stack'[u] = stack[u]
         /\ stack'[t] # <<>> /\ Len(stack'[t]) = Len(stack[t])
         /\ stack'[t][Len(stack[t])] = fr
         /\ \A i \in 1 .. Len(stack[t]) - 1 : stack'[t][i] = stack[t][i]
<1> DEFINE s == stack[t]
           n == Len(s)
           r == [s EXCEPT ![n] = fr]
<1>1. s \in Seq(FrameW) /\ n \in Nat \ {0}
  BY EmptySeq, LenProperties
<1>2. r \in Seq(FrameW) /\ Len(r) = n /\ r[n] = fr /\ \A i \in 1 .. n - 1 : r[i] = s[i]
  BY <1>1, ExceptSeq
<1>3. stack' = [stack EXCEPT ![t] = r]
  BY DEF SetTop
<1> HIDE DEF r
<1>4. r # <<>>
  BY <1>1, <1>2
<1> QED BY <1>1, <1>2, <1>3, <1>4

LEMMA PushEffect ==
  ASSUME stack \in [Threads -> Seq(FrameW)], NEW t \in Threads,
         NEW fr \in FrameW, Push(t, fr)
  PROVE  /\ stack' \in [Threads -> Seq(FrameW)]
         /\ \A u \in Threads \ {t} : stack'[u] = stack[u]
         /\ stack'[t] # <<>> /\ Len(stack'[t]) = Len(stack[t]) + 1
         /\ stack'[t][Len(stack[t]) + 1] = fr
         /\ \A i \in 1 .. Len(stack[t]) : stack'[t][i] = stack[t][i]
<1> DEFINE s == stack[t]
           r == Append(s, fr)
<1>1. s \in Seq(FrameW) /\ Len(s) \in Nat
  BY LenProperties
<1>2. /\ r \in Seq(FrameW) /\ Len(r) = Len(s) + 1 /\ r[Len(s) + 1] = fr
      /\ r # <<>> /\ \A i \in 1 .. Len(s) : r[i] = s[i]
  BY <1>1, AppendProperties
<1>3. stack' = [stack EXCEPT ![t] = r]
  BY DEF Push
<1> HIDE DEF r
<1> QED BY <1>1, <1>2, <1>3

LEMMA DropEffect ==
  ASSUME stack \in [Threads -> Seq(FrameW)], NEW t \in Threads,
         NEW k \in 1 .. 2, k <= Len(stack[t]), Drop(t, k)
  PROVE  /\ stack' \in [Threads -> Seq(FrameW)]
         /\ \A u \in Threads \ {t} : stack'[u] = stack[u]
         /\ Len(stack'[t]) = Len(stack[t]) - k
         /\ \A i \in 1 .. Len(stack[t]) - k : stack'[t][i] = stack[t][i]
<1> DEFINE s == stack[t]
           r == SubSeq(s, 1, Len(s) - k)
<1>1. s \in Seq(FrameW) /\ Len(s) \in Nat /\ \A i \in 1 .. Len(s) : s[i] \in FrameW
  BY LenProperties, ElementOfSeq
<1>2. \A i \in 1 .. Len(s) - k : s[i] \in FrameW
  BY <1>1
<1>3. /\ r \in Seq(FrameW)
      /\ Len(r) = IF 1 <= Len(s) - k THEN Len(s) - k - 1 + 1 ELSE 0
      /\ \A i \in 1 .. Len(s) - k - 1 + 1 : r[i] = s[1 + i - 1]
  BY <1>1, <1>2, SubSeqProperties
<1>4. Len(r) = Len(s) - k /\ \A i \in 1 .. Len(s) - k : r[i] = s[i]
  BY <1>1, <1>3
<1>5. stack' = [stack EXCEPT ![t] = r]
  BY DEF Drop
<1> HIDE DEF r
<1> QED BY <1>1, <1>3, <1>4, <1>5

\* The frames of a stack.
LEMMA StackFrames ==
  ASSUME TypeW, NEW t \in Threads
  PROVE  /\ stack[t] \in Seq(FrameW) /\ Len(stack[t]) \in Nat
         /\ DOMAIN stack[t] = 1 .. Len(stack[t])
         /\ \A i \in 1 .. Len(stack[t]) : stack[t][i] \in FrameW
         /\ stack[t] # <<>> => Len(stack[t]) >= 1 /\ Top(t) \in FrameW
         /\ Len(stack[t]) >= 1 => stack[t] # <<>>
<1>1. stack[t] \in Seq(FrameW)
  BY DEF TypeW
<1>2. Len(stack[t]) \in Nat /\ DOMAIN stack[t] = 1 .. Len(stack[t])
  BY <1>1, LenProperties
<1>3. \A i \in 1 .. Len(stack[t]) : stack[t][i] \in FrameW
  BY <1>1, ElementOfSeq
<1>4. stack[t] # <<>> => Len(stack[t]) >= 1
  BY <1>1, EmptySeq
<1>5. stack[t] # <<>> => Top(t) \in FrameW
  BY <1>2, <1>3, <1>4 DEF Top
<1>6. Len(stack[t]) >= 1 => stack[t] # <<>>
  BY <1>1, EmptySeq
<1> QED BY <1>1, <1>2, <1>3, <1>4, <1>5, <1>6

-----------------------------------------------------------------------------
(***************************************************************************)
(* What taking and releasing a mutex does to the mutexes of each thread.   *)
(***************************************************************************)
LEMMA HeldAcquire ==
  ASSUME TypeW, NEW t \in Threads, NEW m \in Mutexes, Acquire(t, m)
  PROVE  /\ owner' \in [Mutexes -> Threads \union {None}]
         /\ Held(t)' = Held(t) \union {m}
         /\ m \notin Held(t)
         /\ \A u \in Threads \ {t} : Held(u)' = Held(u)
BY BridgeAssumption DEF TypeW, Acquire, Held, None

LEMMA HeldRelease ==
  ASSUME TypeW, NEW t \in Threads, NEW m \in Held(t), Release(m)
  PROVE  /\ owner' \in [Mutexes -> Threads \union {None}]
         /\ Held(t)' = Held(t) \ {m}
         /\ \A u \in Threads \ {t} : Held(u)' = Held(u)
BY BridgeAssumption DEF TypeW, Release, Held, None

LEMMA HeldSame ==
  ASSUME UNCHANGED owner
  PROVE  \A u \in Threads : Held(u)' = Held(u)
BY DEF Held

-----------------------------------------------------------------------------
(***************************************************************************)
(* A step of a call keeps the shape of its stack, and the mutexes right    *)
(* when the thread has those of the code it gets to.                       *)
(***************************************************************************)
LEMMA CallStep ==
  ASSUME TypeW, \A u \in Threads : Shape(stack[u]) /\ LockInv(u),
         NEW t \in Threads, stack[t] # <<>>, ~ IsHandler(Top(t)),
         NEW fr \in FrameW, SetTop(t, fr), fr.op = Top(t).op, Placed(fr),
         Held(t)' = Needs(fr), \A u \in Threads \ {t} : Held(u)' = Held(u),
         signals' = signals
  PROVE  \A u \in Threads : Shape(stack[u])' /\ LockInv(u)'
<1> DEFINE n == Len(stack[t])
<1>0. stack \in [Threads -> Seq(FrameW)]
  BY DEF TypeW
<1>1. /\ stack' \in [Threads -> Seq(FrameW)]
      /\ \A u \in Threads \ {t} : stack'[u] = stack[u]
      /\ stack'[t] # <<>> /\ Len(stack'[t]) = n
      /\ stack'[t][n] = fr
      /\ \A i \in 1 .. n - 1 : stack'[t][i] = stack[t][i]
  BY <1>0, SetTopEffect
<1>2. n \in Nat /\ n >= 1 /\ Top(t) = stack[t][n]
  BY StackFrames DEF Top
<1>3. ASSUME NEW u \in Threads \ {t} PROVE Shape(stack[u])' /\ LockInv(u)'
  <2>1. stack'[u] = stack[u] /\ Held(u)' = Held(u) /\ Shape(stack[u]) /\ LockInv(u)
    BY <1>1
  <2>2. Shape(stack[u])'
    BY <2>1 DEF Shape
  <2>3. LockInv(u)'
    BY <2>1 DEF LockInv
  <2> QED BY <2>2, <2>3
<1>4. Shape(stack[t])'
  <2>1. Shape(stack[t])
    OBVIOUS
  <2>2. \A i \in 1 .. n : Placed(stack'[t][i])
    BY <1>1, <1>2, <2>1 DEF Shape
  <2>3. \A i \in 1 .. n : IsHandler(stack'[t][i]) <=> IsHandler(stack[t][i])
    BY <1>1, <1>2 DEF IsHandler
  <2>4. \A i \in 1 .. n - 1 : Under(stack'[t][i], stack'[t][i + 1])
    <3>1. \A i \in 1 .. n - 1 : Under(stack[t][i], stack[t][i + 1])
      BY <2>1 DEF Shape
    <3>2. \A i \in 1 .. n - 1 : i + 1 \in 1 .. n /\ i \in 1 .. n
      BY <1>2
    <3> QED BY <1>1, <2>3, <3>1, <3>2 DEF Under
  <2>5. ~ IsHandler(stack'[t][1]) /\ ~ IsHandler(stack'[t][n])
    BY <1>1, <1>2, <2>1, <2>3 DEF Shape
  <2>6. n <= 2 * signals' + 1
    BY <2>1 DEF Shape
  <2> QED BY <1>1, <2>2, <2>4, <2>5, <2>6 DEF Shape
<1>5. LockInv(t)'
  <2>1. LockInv(t)
    OBVIOUS
  <2>2. fr.pc # "relock"
    BY <1>2 DEF Placed, IsHandler, PCs
  <2>3. \A i \in 2 .. n : IsHandler(stack[t][i]) /\ stack[t][i].pc # "relock" => stack[t][i].saved = Needs(stack[t][i - 1])
    BY <2>1 DEF LockInv
  <2>4. \A i \in 2 .. n : IsHandler(stack'[t][i]) /\ stack'[t][i].pc # "relock" => stack'[t][i].saved = Needs(stack'[t][i - 1])
    <3> SUFFICES ASSUME NEW i \in 2 .. n, IsHandler(stack'[t][i]), stack'[t][i].pc # "relock"
                 PROVE  stack'[t][i].saved = Needs(stack'[t][i - 1])
      OBVIOUS
    <3>1. i # n
      BY <1>1, <1>2 DEF IsHandler
    <3>2. stack'[t][i] = stack[t][i] /\ stack'[t][i - 1] = stack[t][i - 1]
      BY <1>1, <1>2, <3>1
    <3> QED BY <2>3, <3>2
  <2> QED BY <1>1, <1>2, <2>2, <2>4 DEF LockInv, Needs
<1> QED BY <1>3, <1>4, <1>5

-----------------------------------------------------------------------------
(***************************************************************************)
(* The count of bricks, when no call comes nearer to attaching one, when a *)
(* call attaches one and when a call starts.                               *)
(***************************************************************************)
LEMMA CountFewer ==
  ASSUME BrickCount, Attaching' \subseteq Attaching, bricks \in Nat, calls \in Nat, bricks' = bricks, calls' = calls
  PROVE  BrickCount'
<1>1. IsFiniteSet(Attaching') /\ Cardinality(Attaching') <= Cardinality(Attaching)
  BY FS_Subset DEF BrickCount
<1>2. Cardinality(Attaching') \in Nat /\ Cardinality(Attaching) \in Nat
  BY <1>1, FS_CardinalityType DEF BrickCount
<1> QED BY <1>1, <1>2 DEF BrickCount

LEMMA CountAttach ==
  ASSUME BrickCount, NEW p \in Attaching, Attaching' \subseteq Attaching \ {p},
         bricks \in Nat, calls \in Nat, bricks' = bricks + 1, calls' = calls
  PROVE  BrickCount' /\ bricks' <= calls + 1
<1>1. IsFiniteSet(Attaching \ {p}) /\ Cardinality(Attaching \ {p}) = Cardinality(Attaching) - 1
  BY FS_RemoveElement DEF BrickCount
<1>2. IsFiniteSet(Attaching') /\ Cardinality(Attaching') <= Cardinality(Attaching \ {p})
  BY <1>1, FS_Subset
<1>3. Cardinality(Attaching') \in Nat /\ Cardinality(Attaching) \in Nat
  BY <1>2, FS_CardinalityType DEF BrickCount
<1> QED BY <1>1, <1>2, <1>3 DEF BrickCount

LEMMA CountBegin ==
  ASSUME BrickCount, NEW p, Attaching' \subseteq Attaching \union {p},
         bricks \in Nat, calls \in Nat, bricks' = bricks, calls' = calls + 1
  PROVE  BrickCount'
<1>1. IsFiniteSet(Attaching \union {p}) /\ Cardinality(Attaching \union {p}) <= Cardinality(Attaching) + 1
  <2>1. Cardinality(Attaching) \in Nat
    BY FS_CardinalityType DEF BrickCount
  <2> QED BY <2>1, FS_AddElement DEF BrickCount
<1>2. IsFiniteSet(Attaching') /\ Cardinality(Attaching') <= Cardinality(Attaching \union {p})
  BY <1>1, FS_Subset
<1>3. /\ Cardinality(Attaching') \in Nat /\ Cardinality(Attaching) \in Nat
      /\ Cardinality(Attaching \union {p}) \in Nat
  BY <1>1, <1>2, FS_CardinalityType DEF BrickCount
<1> QED BY <1>1, <1>2, <1>3 DEF BrickCount

\* Which calls may attach a brick after a step of the innermost frame.
LEMMA AttachingSetTop ==
  ASSUME TypeW, NEW t \in Threads, stack[t] # <<>>, NEW fr \in FrameW, SetTop(t, fr)
  PROVE  /\ fr.pc \in BeforeAttach /\ Top(t).pc \in BeforeAttach => Attaching' \subseteq Attaching
         /\ fr.pc \notin BeforeAttach => Attaching' \subseteq Attaching \ {<<t, Len(stack[t])>>}
<1> DEFINE n == Len(stack[t])
<1>0. stack \in [Threads -> Seq(FrameW)]
  BY DEF TypeW
<1>1. /\ stack' \in [Threads -> Seq(FrameW)]
      /\ \A u \in Threads \ {t} : stack'[u] = stack[u]
      /\ stack'[t] # <<>> /\ Len(stack'[t]) = n
      /\ stack'[t][n] = fr
      /\ \A i \in 1 .. n - 1 : stack'[t][i] = stack[t][i]
  BY <1>0, SetTopEffect
<1>2. n \in Nat /\ n >= 1 /\ Top(t) = stack[t][n] /\ DOMAIN stack[t] = 1 .. n
  BY StackFrames DEF Top
<1>3. stack'[t] \in Seq(FrameW)
  BY <1>1
<1>4. DOMAIN stack'[t] = 1 .. n
  BY <1>1, <1>3, LenProperties
<1>5. ASSUME NEW p \in Attaching'
      PROVE  /\ p \in Threads \X (Nat \ {0})
             /\ p[2] \in DOMAIN stack[p[1]]
             /\ p # <<t, n>> => stack[p[1]][p[2]].pc \in BeforeAttach
             /\ p = <<t, n>> => fr.pc \in BeforeAttach
  <2>1. /\ p \in Threads \X (Nat \ {0})
        /\ p[2] \in DOMAIN stack'[p[1]] /\ stack'[p[1]][p[2]].pc \in BeforeAttach
    BY DEF Attaching
  <2>2. CASE p[1] # t
    BY <1>1, <2>1, <2>2
  <2>3. CASE p[1] = t
    <3>1. p[2] \in 1 .. n /\ p = <<t, p[2]>>
      BY <1>4, <2>1, <2>3
    <3>2. CASE p[2] = n
      BY <1>1, <1>2, <2>1, <2>3, <3>1, <3>2
    <3>3. CASE p[2] # n
      BY <1>1, <1>2, <2>1, <2>3, <3>1, <3>3
    <3> QED BY <3>2, <3>3
  <2> QED BY <2>2, <2>3
<1>6. CASE fr.pc \in BeforeAttach /\ Top(t).pc \in BeforeAttach
  <2>1. \A p \in Attaching' : stack[p[1]][p[2]].pc \in BeforeAttach
    BY <1>2, <1>5, <1>6
  <2> QED BY <1>5, <1>6, <2>1 DEF Attaching
<1>7. CASE fr.pc \notin BeforeAttach
  BY <1>5, <1>7 DEF Attaching
<1> QED BY <1>6, <1>7

-----------------------------------------------------------------------------
\* The innermost frame of a thread that is at a step of a call.
LEMMA CallTop ==
  ASSUME BaseInv, NEW t \in Threads, NEW pc \in PCs, At(t, pc)
  PROVE  /\ stack[t] # <<>> /\ Top(t) \in FrameW /\ Top(t).pc = pc
         /\ ~ IsHandler(Top(t)) /\ Top(t).op \in Ops /\ Placed(Top(t))
         /\ Held(t) = Needs(Top(t))
<1>1. stack[t] # <<>> /\ Top(t).pc = pc
  BY DEF At
<1>2. /\ Top(t) \in FrameW /\ Len(stack[t]) \in Nat /\ Len(stack[t]) >= 1
      /\ Top(t) = stack[t][Len(stack[t])]
  BY <1>1, StackFrames DEF BaseInv, Top
<1>3. Placed(Top(t))
  BY <1>2 DEF BaseInv, Shape
<1>4. ~ IsHandler(Top(t)) /\ pc # "relock"
  BY <1>1, <1>3 DEF Placed, PCs
<1>5. Top(t).op \in Ops
  BY <1>2, <1>4 DEF FrameW, IsHandler
<1>6. Held(t) = Needs(Top(t))
  BY <1>1, <1>2, <1>4 DEF BaseInv, LockInv
<1> QED BY <1>1, <1>2, <1>3, <1>4, <1>5, <1>6

\* A step of a call that attaches no brick keeps BaseInv.
LEMMA CallStepBase ==
  ASSUME BaseInv, NEW t \in Threads, NEW pc \in PCs, At(t, pc),
         NEW fr \in FrameW, SetTop(t, fr), fr.op = Top(t).op, Placed(fr),
         owner' \in [Mutexes -> Threads \union {None}],
         Held(t)' = Needs(fr), \A u \in Threads \ {t} : Held(u)' = Held(u),
         sz' \in [Bricks -> Nat], bridgemap' \in [Fncs -> Nat \X Nat],
         UNCHANGED <<last, bricks, calls, signals>>,
         fr.pc \in BeforeAttach => pc \in BeforeAttach
  PROVE  BaseInv'
<1>1. /\ stack[t] # <<>> /\ Top(t) \in FrameW /\ Top(t).pc = pc
      /\ ~ IsHandler(Top(t)) /\ TypeW /\ \A u \in Threads : Shape(stack[u]) /\ LockInv(u)
  BY CallTop DEF BaseInv
<1>2. stack' \in [Threads -> Seq(FrameW)]
  BY <1>1, SetTopEffect DEF TypeW
<1>3. TypeW'
  BY <1>1, <1>2 DEF TypeW
<1>4. \A u \in Threads : Shape(stack[u])' /\ LockInv(u)'
  BY <1>1, CallStep
<1>5. Attaching' \subseteq Attaching
  BY <1>1, AttachingSetTop
<1>6. bricks \in Nat /\ calls \in Nat
  BY <1>1, BridgeAssumption DEF TypeW, Bricks
<1>7. BrickCount'
  BY <1>5, <1>6, CountFewer DEF BaseInv
<1> QED BY <1>3, <1>4, <1>7 DEF BaseInv

\* The steps of a call that touch no mutex.
LEMMA PlainStepBase ==
  ASSUME BaseInv, NEW t \in Threads, NEW pc \in PCs, At(t, pc),
         NEW fr \in FrameW, SetTop(t, fr), fr.op = Top(t).op, Placed(fr),
         Needs(fr) = Needs(Top(t)), UNCHANGED owner,
         sz' \in [Bricks -> Nat], bridgemap' \in [Fncs -> Nat \X Nat],
         UNCHANGED <<last, bricks, calls, signals>>,
         fr.pc \in BeforeAttach => pc \in BeforeAttach
  PROVE  BaseInv'
<1>1. Held(t)' = Needs(fr) /\ \A u \in Threads \ {t} : Held(u)' = Held(u)
  BY HeldSame, CallTop
<1>2. owner' \in [Mutexes -> Threads \union {None}]
  BY DEF BaseInv, TypeW
<1> QED BY <1>1, <1>2, CallStepBase

\* The operations that make bridges, and the others.
LEMMA OpCases ==
  ASSUME NEW fr \in FrameW, ~ IsHandler(fr)
  PROVE  \/ Bridges(fr) /\ fr.op # "malloc" /\ fr.op # "protect"
         \/ fr.op = "malloc" /\ ~ Bridges(fr)
         \/ fr.op = "protect" /\ ~ Bridges(fr)
BY BridgeAssumption DEF FrameW, IsHandler, Bridges

LEMMA CheckBridgedBase ==
  ASSUME BaseInv, NEW t \in Threads, CheckBridged(t)
  PROVE  BaseInv'
<1> DEFINE s  == bridgemap[Top(t).fnc]
           fr == IF s = NoSlot THEN [Top(t) EXCEPT !.pc = "lock"]
                 ELSE [Top(t) EXCEPT !.ret = s, !.pc = After(Top(t).op)]
<1>1. At(t, "check") /\ SetTop(t, fr) /\ UNCHANGED <<owner, last, bricks, sz, bridgemap, calls, signals>>
  BY DEF CheckBridged, Goto, bridgeVars, budget
<1>2. "check" \in PCs /\ "lock" \in PCs /\ After(Top(t).op) \in {"has", "return"} /\ "has" \in PCs /\ "return" \in PCs
  BY DEF PCs, After
<1>3. /\ Top(t) \in FrameW /\ Top(t).pc = "check" /\ ~ IsHandler(Top(t)) /\ Placed(Top(t))
  BY <1>1, <1>2, CallTop
<1>4. Bridges(Top(t)) /\ Top(t).fnc \in Fncs
  BY <1>3, OpCases DEF Placed, InNewBrick
<1>5. s \in Nat \X Nat
  BY <1>4 DEF BaseInv, TypeW
<1>6. /\ fr \in FrameW /\ fr.op = Top(t).op /\ fr.fnc = Top(t).fnc /\ fr.pc \in {"lock", "has", "return"}
  BY <1>2, <1>3, <1>5 DEF FrameW
<1> HIDE DEF fr
<1>7. Placed(fr)
  BY <1>2, <1>3, <1>4, <1>6 DEF Placed, Bridges, IsHandler
<1>8. Needs(fr) = Needs(Top(t))
  BY <1>3, <1>6 DEF Needs, InAddBridge, InNewBrick
<1>9. sz' \in [Bricks -> Nat] /\ bridgemap' \in [Fncs -> Nat \X Nat]
  BY <1>1 DEF BaseInv, TypeW
<1>10. "check" \in BeforeAttach
  BY DEF BeforeAttach
<1> QED BY <1>1, <1>2, <1>6, <1>7, <1>8, <1>9, <1>10, PlainStepBase

\* A frame that goes to another step.
LEMMA GotoFrame ==
  ASSUME NEW fr \in FrameW, NEW pc \in PCs
  PROVE  /\ [fr EXCEPT !.pc = pc] \in FrameW
         /\ [fr EXCEPT !.pc = pc].pc = pc /\ [fr EXCEPT !.pc = pc].op = fr.op
         /\ [fr EXCEPT !.pc = pc].fnc = fr.fnc
BY DEF FrameW

LEMMA LockBridgeBase ==
  ASSUME BaseInv, NEW t \in Threads, LockBridge(t)
  PROVE  BaseInv'
<1> DEFINE fr == [Top(t) EXCEPT !.pc = "full"]
<1>1. /\ At(t, "lock") /\ Acquire(t, "bridge") /\ SetTop(t, fr)
      /\ UNCHANGED <<last, bricks, sz, bridgemap, calls, signals>>
  BY DEF LockBridge, Goto, bridgeVars, budget
<1>2. "lock" \in PCs /\ "full" \in PCs /\ "bridge" \in Mutexes /\ "lock" \in BeforeAttach
  BY DEF PCs, Mutexes, BeforeAttach
<1>3. /\ Top(t) \in FrameW /\ Top(t).pc = "lock" /\ ~ IsHandler(Top(t)) /\ Placed(Top(t)) /\ Held(t) = Needs(Top(t))
  BY <1>1, <1>2, CallTop
<1>4. Bridges(Top(t)) /\ Top(t).fnc \in Fncs
  BY <1>3, OpCases DEF Placed, InNewBrick
<1>5. /\ fr \in FrameW /\ fr.op = Top(t).op /\ fr.fnc = Top(t).fnc /\ fr.pc = "full"
  BY <1>2, <1>3, GotoFrame
<1> HIDE DEF fr
<1>6. Placed(fr)
  BY <1>2, <1>3, <1>4, <1>5 DEF Placed, Bridges, IsHandler
<1>7. Needs(fr) = Needs(Top(t)) \union {"bridge"}
  BY <1>2, <1>3, <1>4, <1>5 DEF Needs, InAddBridge, InNewBrick, Bridges
<1>8. /\ owner' \in [Mutexes -> Threads \union {None}]
      /\ Held(t)' = Needs(fr) /\ \A u \in Threads \ {t} : Held(u)' = Held(u)
  BY <1>1, <1>2, <1>3, <1>7, HeldAcquire DEF BaseInv
<1>9. sz' \in [Bricks -> Nat] /\ bridgemap' \in [Fncs -> Nat \X Nat]
  BY <1>1 DEF BaseInv, TypeW
<1> QED BY <1>1, <1>2, <1>5, <1>6, <1>8, <1>9, CallStepBase

LEMMA TestFullBase ==
  ASSUME BaseInv, NEW t \in Threads, TestFull(t)
  PROVE  BaseInv'
<1> DEFINE fr == [Top(t) EXCEPT !.b = last, !.pc = IF Full(last) THEN "prot" ELSE "claim"]
<1>1. At(t, "full") /\ SetTop(t, fr) /\ UNCHANGED <<owner, last, bricks, sz, bridgemap, calls, signals>>
  BY DEF TestFull, bridgeVars, budget
<1>2. "full" \in PCs /\ "prot" \in PCs /\ "claim" \in PCs /\ "full" \in BeforeAttach
  BY DEF PCs, BeforeAttach
<1>3. /\ Top(t) \in FrameW /\ Top(t).pc = "full" /\ ~ IsHandler(Top(t)) /\ Placed(Top(t))
  BY <1>1, <1>2, CallTop
<1>4. Bridges(Top(t)) /\ Top(t).fnc \in Fncs
  BY <1>3, OpCases DEF Placed, InNewBrick
<1>5. last \in Bricks
  BY DEF BaseInv, TypeW
<1>6. /\ fr \in FrameW /\ fr.op = Top(t).op /\ fr.fnc = Top(t).fnc /\ fr.pc \in {"prot", "claim"}
  BY <1>2, <1>3, <1>5 DEF FrameW
<1> HIDE DEF fr
<1>7. Placed(fr)
  BY <1>2, <1>3, <1>4, <1>6 DEF Placed, Bridges, IsHandler
<1>8. Needs(fr) = Needs(Top(t))
  BY <1>3, <1>4, <1>6 DEF Needs, InAddBridge, InNewBrick, Bridges
<1>9. sz' \in [Bricks -> Nat] /\ bridgemap' \in [Fncs -> Nat \X Nat]
  BY <1>1 DEF BaseInv, TypeW
<1> QED BY <1>1, <1>2, <1>6, <1>7, <1>8, <1>9, PlainStepBase

LEMMA LockProtBase ==
  ASSUME BaseInv, NEW t \in Threads, LockProt(t)
  PROVE  BaseInv'
<1>0. PICK pc \in {"node", "protd"} : Goto(t, pc)
  BY DEF LockProt
<1> DEFINE fr == [Top(t) EXCEPT !.pc = pc]
<1>1. /\ At(t, "prot") /\ Acquire(t, "prot") /\ SetTop(t, fr)
      /\ UNCHANGED <<last, bricks, sz, bridgemap, calls, signals>>
  BY <1>0 DEF LockProt, Goto, bridgeVars, budget
<1>2. "prot" \in PCs /\ pc \in PCs /\ "prot" \in Mutexes /\ "prot" \in BeforeAttach
  BY DEF PCs, Mutexes, BeforeAttach, InNewBrick
<1>3. /\ Top(t) \in FrameW /\ Top(t).pc = "prot" /\ ~ IsHandler(Top(t)) /\ Placed(Top(t)) /\ Held(t) = Needs(Top(t))
  BY <1>1, <1>2, CallTop
<1>4. Top(t).op # "malloc"
  BY <1>3 DEF Placed
<1>5. /\ fr \in FrameW /\ fr.op = Top(t).op /\ fr.fnc = Top(t).fnc /\ fr.pc = pc
  BY <1>2, <1>3, GotoFrame
<1> HIDE DEF fr
<1>6. Placed(fr)
  BY <1>2, <1>3, <1>4, <1>5 DEF Placed, Bridges, IsHandler, InNewBrick
<1>7. Needs(fr) = Needs(Top(t)) \union {"prot"}
  BY <1>2, <1>3, <1>4, <1>5 DEF Needs, InAddBridge, InNewBrick
<1>8. /\ owner' \in [Mutexes -> Threads \union {None}]
      /\ Held(t)' = Needs(fr) /\ \A u \in Threads \ {t} : Held(u)' = Held(u)
  BY <1>1, <1>2, <1>3, <1>7, HeldAcquire DEF BaseInv
<1>9. sz' \in [Bricks -> Nat] /\ bridgemap' \in [Fncs -> Nat \X Nat]
  BY <1>1 DEF BaseInv, TypeW
<1> QED BY <1>1, <1>2, <1>5, <1>6, <1>8, <1>9, CallStepBase

LEMMA LockBlocksBase ==
  ASSUME BaseInv, NEW t \in Threads, LockBlocks(t)
  PROVE  BaseInv'
<1> DEFINE fr == [Top(t) EXCEPT !.pc = "noded"]
<1>1. /\ At(t, "node") /\ Acquire(t, "blocks") /\ SetTop(t, fr)
      /\ UNCHANGED <<last, bricks, sz, bridgemap, calls, signals>>
  BY DEF LockBlocks, Goto, bridgeVars, budget
<1>2. "node" \in PCs /\ "noded" \in PCs /\ "blocks" \in Mutexes /\ "node" \in BeforeAttach
  BY DEF PCs, Mutexes, BeforeAttach, InNewBrick
<1>3. /\ Top(t) \in FrameW /\ Top(t).pc = "node" /\ ~ IsHandler(Top(t)) /\ Placed(Top(t)) /\ Held(t) = Needs(Top(t))
  BY <1>1, <1>2, CallTop
<1>5. /\ fr \in FrameW /\ fr.op = Top(t).op /\ fr.fnc = Top(t).fnc /\ fr.pc = "noded"
  BY <1>2, <1>3, GotoFrame
<1> HIDE DEF fr
<1>6. Placed(fr)
  BY <1>2, <1>3, <1>5 DEF Placed, Bridges, IsHandler, InNewBrick
<1>7. Needs(fr) = Needs(Top(t)) \union {"blocks"}
  BY <1>2, <1>3, <1>5 DEF Needs, InAddBridge, InNewBrick
<1>8. /\ owner' \in [Mutexes -> Threads \union {None}]
      /\ Held(t)' = Needs(fr) /\ \A u \in Threads \ {t} : Held(u)' = Held(u)
  BY <1>1, <1>2, <1>3, <1>7, HeldAcquire DEF BaseInv
<1>9. sz' \in [Bricks -> Nat] /\ bridgemap' \in [Fncs -> Nat \X Nat]
  BY <1>1 DEF BaseInv, TypeW
<1> QED BY <1>1, <1>2, <1>5, <1>6, <1>8, <1>9, CallStepBase

LEMMA UnlockBlocksBase ==
  ASSUME BaseInv, NEW t \in Threads, UnlockBlocks(t)
  PROVE  BaseInv'
<1> DEFINE pc == IF Top(t).op = "malloc" THEN "return" ELSE "protd"
           fr == [Top(t) EXCEPT !.pc = pc]
<1>1. /\ At(t, "noded") /\ Release("blocks") /\ SetTop(t, fr)
      /\ UNCHANGED <<last, bricks, sz, bridgemap, calls, signals>>
  BY DEF UnlockBlocks, Goto, bridgeVars, budget
<1>2. "noded" \in PCs /\ pc \in PCs /\ "blocks" \in Mutexes /\ "noded" \in BeforeAttach
  BY DEF PCs, Mutexes, BeforeAttach, InNewBrick
<1>3. /\ Top(t) \in FrameW /\ Top(t).pc = "noded" /\ ~ IsHandler(Top(t)) /\ Placed(Top(t)) /\ Held(t) = Needs(Top(t))
  BY <1>1, <1>2, CallTop
<1>5. /\ fr \in FrameW /\ fr.op = Top(t).op /\ fr.fnc = Top(t).fnc /\ fr.pc = pc
  BY <1>2, <1>3, GotoFrame
<1> HIDE DEF fr
<1>6. Placed(fr)
  BY <1>2, <1>3, <1>5 DEF Placed, Bridges, IsHandler, InNewBrick
<1>7. Needs(fr) = Needs(Top(t)) \ {"blocks"} /\ "blocks" \in Needs(Top(t))
  BY <1>2, <1>3, <1>5, OpCases DEF Needs, InAddBridge, InNewBrick, Bridges
<1>8. /\ owner' \in [Mutexes -> Threads \union {None}]
      /\ Held(t)' = Needs(fr) /\ \A u \in Threads \ {t} : Held(u)' = Held(u)
  BY <1>1, <1>2, <1>3, <1>7, HeldRelease DEF BaseInv
<1>9. sz' \in [Bricks -> Nat] /\ bridgemap' \in [Fncs -> Nat \X Nat]
  BY <1>1 DEF BaseInv, TypeW
<1> QED BY <1>1, <1>2, <1>5, <1>6, <1>8, <1>9, CallStepBase

LEMMA UnlockProtBase ==
  ASSUME BaseInv, NEW t \in Threads, UnlockProt(t)
  PROVE  BaseInv'
<1> DEFINE pc == IF Top(t).op = "protect" THEN "return" ELSE "attach"
           fr == [Top(t) EXCEPT !.pc = pc]
<1>1. /\ At(t, "protd") /\ Release("prot") /\ SetTop(t, fr)
      /\ UNCHANGED <<last, bricks, sz, bridgemap, calls, signals>>
  BY DEF UnlockProt, Goto, bridgeVars, budget
<1>2. "protd" \in PCs /\ pc \in PCs /\ "prot" \in Mutexes /\ "protd" \in BeforeAttach
  BY DEF PCs, Mutexes, BeforeAttach, InNewBrick
<1>3. /\ Top(t) \in FrameW /\ Top(t).pc = "protd" /\ ~ IsHandler(Top(t)) /\ Placed(Top(t)) /\ Held(t) = Needs(Top(t))
  BY <1>1, <1>2, CallTop
<1>4. Top(t).op # "malloc"
  BY <1>3 DEF Placed
<1>5. /\ fr \in FrameW /\ fr.op = Top(t).op /\ fr.fnc = Top(t).fnc /\ fr.pc = pc
  BY <1>2, <1>3, GotoFrame
<1> HIDE DEF fr
<1>6. Placed(fr)
  BY <1>2, <1>3, <1>4, <1>5 DEF Placed, Bridges, IsHandler, InNewBrick
<1>7. Needs(fr) = Needs(Top(t)) \ {"prot"} /\ "prot" \in Needs(Top(t))
  BY <1>2, <1>3, <1>4, <1>5, OpCases DEF Needs, InAddBridge, InNewBrick, Bridges
<1>8. /\ owner' \in [Mutexes -> Threads \union {None}]
      /\ Held(t)' = Needs(fr) /\ \A u \in Threads \ {t} : Held(u)' = Held(u)
  BY <1>1, <1>2, <1>3, <1>7, HeldRelease DEF BaseInv
<1>9. sz' \in [Bricks -> Nat] /\ bridgemap' \in [Fncs -> Nat \X Nat]
  BY <1>1 DEF BaseInv, TypeW
<1> QED BY <1>1, <1>2, <1>5, <1>6, <1>8, <1>9, CallStepBase

LEMMA AttachBase ==
  ASSUME BaseInv, NEW t \in Threads, Attach(t)
  PROVE  BaseInv'
<1> DEFINE fr == [Top(t) EXCEPT !.b = bricks + 1, !.pc = "claim"]
           p  == <<t, Len(stack[t])>>
<1>1. /\ At(t, "attach") /\ SetTop(t, fr) /\ bricks' = bricks + 1 /\ last' = bricks'
      /\ UNCHANGED <<owner, sz, bridgemap, calls, signals>>
  BY DEF Attach, budget
<1>2. "attach" \in PCs /\ "claim" \in PCs /\ "attach" \in BeforeAttach /\ "claim" \notin BeforeAttach
  BY DEF PCs, BeforeAttach, InNewBrick
<1>3. /\ Top(t) \in FrameW /\ Top(t).pc = "attach" /\ ~ IsHandler(Top(t)) /\ Placed(Top(t))
      /\ Held(t) = Needs(Top(t)) /\ stack[t] # <<>>
  BY <1>1, <1>2, CallTop
<1>4. Bridges(Top(t)) /\ Top(t).fnc \in Fncs
  BY <1>3, OpCases DEF Placed, InNewBrick
<1>5. /\ TypeW /\ bricks \in Nat /\ calls \in Nat /\ calls <= MaxCalls
      /\ \A u \in Threads : Shape(stack[u]) /\ LockInv(u)
  BY BridgeAssumption DEF BaseInv, TypeW, Bricks
<1>6. p \in Attaching
  BY <1>2, <1>3, <1>5, StackFrames DEF Attaching, Top
<1>7. /\ [Top(t) EXCEPT !.b = bricks + 1, !.pc = "claim"].pc = "claim"
      /\ [Top(t) EXCEPT !.b = bricks + 1, !.pc = "claim"].op = Top(t).op
      /\ [Top(t) EXCEPT !.b = bricks + 1, !.pc = "claim"].fnc = Top(t).fnc
  BY <1>3 DEF FrameW
<1>8. bricks + 1 \in Bricks
  <2>1. Cardinality(Attaching) \in Nat /\ Cardinality(Attaching) # 0
    BY <1>6, FS_CardinalityType, FS_EmptySet DEF BaseInv, BrickCount
  <2>2. bricks + Cardinality(Attaching) <= calls + 1
    BY DEF BaseInv, BrickCount
  <2> QED BY <1>5, <2>1, <2>2, BridgeAssumption DEF Bricks
<1>9. fr \in FrameW
  BY <1>2, <1>3, <1>8 DEF FrameW
<1>10. fr.pc = "claim" /\ fr.op = Top(t).op /\ fr.fnc = Top(t).fnc
  BY <1>7
<1> HIDE DEF fr
<1>11. Placed(fr)
  BY <1>2, <1>3, <1>4, <1>10 DEF Placed, Bridges, IsHandler
<1>12. Needs(fr) = Needs(Top(t))
  BY <1>3, <1>10 DEF Needs, InAddBridge, InNewBrick
<1>13. Held(t)' = Needs(fr) /\ \A u \in Threads \ {t} : Held(u)' = Held(u)
  BY <1>1, <1>3, <1>12, HeldSame
<1>14. \A u \in Threads : Shape(stack[u])' /\ LockInv(u)'
  BY <1>1, <1>3, <1>5, <1>9, <1>10, <1>11, <1>13, CallStep
<1>15. Attaching' \subseteq Attaching \ {p}
  BY <1>1, <1>2, <1>3, <1>5, <1>9, <1>10, AttachingSetTop
<1>16. BrickCount'
  BY <1>1, <1>5, <1>6, <1>15, CountAttach DEF BaseInv
<1>17. stack' \in [Threads -> Seq(FrameW)]
  BY <1>1, <1>3, <1>5, <1>9, SetTopEffect DEF TypeW
<1>18. TypeW'
  BY <1>1, <1>5, <1>8, <1>17 DEF TypeW
<1> QED BY <1>14, <1>16, <1>18 DEF BaseInv

LEMMA ClaimBase ==
  ASSUME BaseInv, NEW t \in Threads, Claim(t)
  PROVE  BaseInv'
<1> DEFINE fr == [Top(t) EXCEPT !.sz = sz[Top(t).b], !.pc = "bump"]
<1>1. At(t, "claim") /\ SetTop(t, fr) /\ UNCHANGED <<owner, last, bricks, sz, bridgemap, calls, signals>>
  BY DEF Claim, bridgeVars, budget
<1>2. "claim" \in PCs /\ "bump" \in PCs /\ "bump" \notin BeforeAttach
  BY DEF PCs, BeforeAttach, InNewBrick
<1>3. /\ Top(t) \in FrameW /\ Top(t).pc = "claim" /\ ~ IsHandler(Top(t)) /\ Placed(Top(t))
  BY <1>1, <1>2, CallTop
<1>4. Bridges(Top(t)) /\ Top(t).fnc \in Fncs
  BY <1>3, OpCases DEF Placed, InNewBrick
<1>5. sz[Top(t).b] \in Nat
  BY <1>3 DEF BaseInv, TypeW, FrameW
<1>6. /\ fr \in FrameW /\ fr.op = Top(t).op /\ fr.fnc = Top(t).fnc /\ fr.pc = "bump"
  BY <1>2, <1>3, <1>5 DEF FrameW
<1> HIDE DEF fr
<1>7. Placed(fr)
  BY <1>2, <1>3, <1>4, <1>6 DEF Placed, Bridges, IsHandler
<1>8. Needs(fr) = Needs(Top(t))
  BY <1>3, <1>6 DEF Needs, InAddBridge, InNewBrick
<1>9. sz' \in [Bricks -> Nat] /\ bridgemap' \in [Fncs -> Nat \X Nat]
  BY <1>1 DEF BaseInv, TypeW
<1> QED BY <1>1, <1>2, <1>6, <1>7, <1>8, <1>9, PlainStepBase

LEMMA BumpBase ==
  ASSUME BaseInv, NEW t \in Threads, Bump(t)
  PROVE  BaseInv'
<1> DEFINE fr == [Top(t) EXCEPT !.pc = "put"]
<1>1. /\ At(t, "bump") /\ SetTop(t, fr) /\ UNCHANGED <<owner, last, bricks, bridgemap, calls, signals>>
  BY DEF Bump, Goto, budget
<1>0. PICK k \in {sz[Top(t).b], Top(t).sz} : sz' = [sz EXCEPT ![Top(t).b] = k + 1]
  BY DEF Bump
<1>2. "bump" \in PCs /\ "put" \in PCs /\ "put" \notin BeforeAttach
  BY DEF PCs, BeforeAttach, InNewBrick
<1>3. /\ Top(t) \in FrameW /\ Top(t).pc = "bump" /\ ~ IsHandler(Top(t)) /\ Placed(Top(t))
  BY <1>1, <1>2, CallTop
<1>4. Bridges(Top(t)) /\ Top(t).fnc \in Fncs
  BY <1>3, OpCases DEF Placed, InNewBrick
<1>6. /\ fr \in FrameW /\ fr.op = Top(t).op /\ fr.fnc = Top(t).fnc /\ fr.pc = "put"
  BY <1>2, <1>3, GotoFrame
<1> HIDE DEF fr
<1>7. Placed(fr)
  BY <1>2, <1>3, <1>4, <1>6 DEF Placed, Bridges, IsHandler
<1>8. Needs(fr) = Needs(Top(t))
  BY <1>3, <1>6 DEF Needs, InAddBridge, InNewBrick
<1>9. sz' \in [Bricks -> Nat] /\ bridgemap' \in [Fncs -> Nat \X Nat]
  <2>1. sz \in [Bricks -> Nat] /\ bridgemap \in [Fncs -> Nat \X Nat]
    BY DEF BaseInv, TypeW
  <2>2. k + 1 \in Nat
    BY <1>3, <2>1 DEF FrameW
  <2>3. sz' \in [Bricks -> Nat]
    BY <1>0, <2>1, <2>2
  <2> QED BY <1>1, <2>1, <2>3
<1> QED BY <1>1, <1>2, <1>6, <1>7, <1>8, <1>9, PlainStepBase

LEMMA PutBase ==
  ASSUME BaseInv, NEW t \in Threads, Put(t)
  PROVE  BaseInv'
<1> DEFINE fr == [Top(t) EXCEPT !.pc = "unlock"]
<1>1. /\ At(t, "put") /\ SetTop(t, fr) /\ UNCHANGED <<owner, last, bricks, sz, calls, signals>>
      /\ bridgemap' = [bridgemap EXCEPT ![Top(t).fnc] = Slot(Top(t))]
  BY DEF Put, Goto, budget
<1>2. "put" \in PCs /\ "unlock" \in PCs /\ "unlock" \notin BeforeAttach
  BY DEF PCs, BeforeAttach, InNewBrick
<1>3. /\ Top(t) \in FrameW /\ Top(t).pc = "put" /\ ~ IsHandler(Top(t)) /\ Placed(Top(t))
  BY <1>1, <1>2, CallTop
<1>4. Bridges(Top(t)) /\ Top(t).fnc \in Fncs
  BY <1>3, OpCases DEF Placed, InNewBrick
<1>6. /\ fr \in FrameW /\ fr.op = Top(t).op /\ fr.fnc = Top(t).fnc /\ fr.pc = "unlock"
  BY <1>2, <1>3, GotoFrame
<1> HIDE DEF fr
<1>7. Placed(fr)
  BY <1>2, <1>3, <1>4, <1>6 DEF Placed, Bridges, IsHandler
<1>8. Needs(fr) = Needs(Top(t))
  BY <1>3, <1>6 DEF Needs, InAddBridge, InNewBrick
<1>9. Slot(Top(t)) \in Nat \X Nat
  BY <1>3, BridgeAssumption DEF FrameW, Slot, Bricks
<1>10. sz' \in [Bricks -> Nat] /\ bridgemap' \in [Fncs -> Nat \X Nat]
  BY <1>1, <1>9 DEF BaseInv, TypeW
<1> QED BY <1>1, <1>2, <1>6, <1>7, <1>8, <1>10, PlainStepBase

LEMMA UnlockBridgeBase ==
  ASSUME BaseInv, NEW t \in Threads, UnlockBridge(t)
  PROVE  BaseInv'
<1> DEFINE fr == [Top(t) EXCEPT !.pc = "CC"]
<1>1. /\ At(t, "unlock") /\ Release("bridge") /\ SetTop(t, fr)
      /\ UNCHANGED <<last, bricks, sz, bridgemap, calls, signals>>
  BY DEF UnlockBridge, Goto, bridgeVars, budget
<1>2. "unlock" \in PCs /\ "CC" \in PCs /\ "bridge" \in Mutexes /\ "CC" \notin BeforeAttach
  BY DEF PCs, Mutexes, BeforeAttach, InNewBrick
<1>3. /\ Top(t) \in FrameW /\ Top(t).pc = "unlock" /\ ~ IsHandler(Top(t)) /\ Placed(Top(t)) /\ Held(t) = Needs(Top(t))
  BY <1>1, <1>2, CallTop
<1>4. Bridges(Top(t)) /\ Top(t).fnc \in Fncs
  BY <1>3, OpCases DEF Placed, InNewBrick
<1>5. /\ fr \in FrameW /\ fr.op = Top(t).op /\ fr.fnc = Top(t).fnc /\ fr.pc = "CC"
  BY <1>2, <1>3, GotoFrame
<1> HIDE DEF fr
<1>6. Placed(fr)
  BY <1>2, <1>3, <1>4, <1>5 DEF Placed, Bridges, IsHandler
<1>7. Needs(fr) = Needs(Top(t)) \ {"bridge"} /\ "bridge" \in Needs(Top(t))
  BY <1>2, <1>3, <1>4, <1>5 DEF Needs, InAddBridge, InNewBrick, Bridges
<1>8. /\ owner' \in [Mutexes -> Threads \union {None}]
      /\ Held(t)' = Needs(fr) /\ \A u \in Threads \ {t} : Held(u)' = Held(u)
  BY <1>1, <1>2, <1>3, <1>7, HeldRelease DEF BaseInv
<1>9. sz' \in [Bricks -> Nat] /\ bridgemap' \in [Fncs -> Nat \X Nat]
  BY <1>1 DEF BaseInv, TypeW
<1> QED BY <1>1, <1>2, <1>5, <1>6, <1>8, <1>9, CallStepBase

LEMMA WriteBase ==
  ASSUME BaseInv, NEW t \in Threads, NEW pc \in {"CC", "f", "C3"}, NEW fnc, NEW k,
         NEW next \in {"f", "C3", "has", "return"}, Write(t, pc, fnc, k, next)
  PROVE  BaseInv'
<1> DEFINE fr == [Top(t) EXCEPT !.ret = Slot(Top(t)), !.pc = next]
<1>1. /\ At(t, pc) /\ SetTop(t, fr) /\ UNCHANGED <<owner, last, bricks, sz, bridgemap, calls, signals>>
  BY DEF Write, budget
<1>2. pc \in PCs /\ next \in PCs /\ next \notin BeforeAttach
  BY DEF PCs, BeforeAttach, InNewBrick
<1>3. /\ Top(t) \in FrameW /\ Top(t).pc = pc /\ ~ IsHandler(Top(t)) /\ Placed(Top(t))
  BY <1>1, <1>2, CallTop
<1>4. Bridges(Top(t)) /\ Top(t).fnc \in Fncs
  BY <1>3, OpCases DEF Placed, InNewBrick
<1>5. Slot(Top(t)) \in Nat \X Nat
  BY <1>3, BridgeAssumption DEF FrameW, Slot, Bricks
<1>6. /\ fr \in FrameW /\ fr.op = Top(t).op /\ fr.fnc = Top(t).fnc /\ fr.pc = next
  BY <1>2, <1>3, <1>5 DEF FrameW
<1> HIDE DEF fr
<1>7. Placed(fr)
  BY <1>2, <1>3, <1>4, <1>6 DEF Placed, Bridges, IsHandler
<1>8. Needs(fr) = Needs(Top(t))
  BY <1>3, <1>6 DEF Needs, InAddBridge, InNewBrick
<1>9. sz' \in [Bricks -> Nat] /\ bridgemap' \in [Fncs -> Nat \X Nat]
  BY <1>1 DEF BaseInv, TypeW
<1> QED BY <1>1, <1>2, <1>6, <1>7, <1>8, <1>9, PlainStepBase

LEMMA AlternateBase ==
  ASSUME BaseInv, NEW t \in Threads, HasAlternate(t) \/ AddAlternate(t)
  PROVE  BaseInv'
<1>0. PICK pc \in {"has", "alt"}, next \in {"alt", "return"} :
        At(t, pc) /\ Goto(t, next) /\ UNCHANGED <<owner, last, bricks, sz, bridgemap, calls, signals>>
  BY DEF HasAlternate, AddAlternate, bridgeVars, budget
<1> DEFINE fr == [Top(t) EXCEPT !.pc = next]
<1>1. At(t, pc) /\ SetTop(t, fr) /\ UNCHANGED <<owner, last, bricks, sz, bridgemap, calls, signals>>
  BY <1>0 DEF Goto
<1>2. pc \in PCs /\ next \in PCs /\ next \notin BeforeAttach
  BY DEF PCs, BeforeAttach, InNewBrick
<1>3. /\ Top(t) \in FrameW /\ Top(t).pc = pc /\ ~ IsHandler(Top(t)) /\ Placed(Top(t))
  BY <1>1, <1>2, CallTop
<1>4. Bridges(Top(t)) /\ Top(t).fnc \in Fncs
  BY <1>3, OpCases DEF Placed, InNewBrick
<1>6. /\ fr \in FrameW /\ fr.op = Top(t).op /\ fr.fnc = Top(t).fnc /\ fr.pc = next
  BY <1>2, <1>3, GotoFrame
<1> HIDE DEF fr
<1>7. Placed(fr)
  BY <1>2, <1>3, <1>4, <1>6 DEF Placed, Bridges, IsHandler
<1>8. Needs(fr) = Needs(Top(t))
  BY <1>3, <1>6 DEF Needs, InAddBridge, InNewBrick
<1>9. sz' \in [Bricks -> Nat] /\ bridgemap' \in [Fncs -> Nat \X Nat]
  BY <1>1 DEF BaseInv, TypeW
<1> QED BY <1>1, <1>2, <1>6, <1>7, <1>8, <1>9, PlainStepBase

-----------------------------------------------------------------------------
(***************************************************************************)
(* Frames that come and go: calls that begin and return, signals, and the  *)
(* two ways out of a handler.                                              *)
(***************************************************************************)
\* What the other threads have does not change.
LEMMA OthersSame ==
  ASSUME NEW u \in Threads, stack[u] \in Seq(FrameW), Shape(stack[u]), LockInv(u),
         stack'[u] = stack[u], Held(u)' = Held(u),
         signals \in Nat, signals' \in {signals, signals + 1}
  PROVE  Shape(stack[u])' /\ LockInv(u)'
<1>1. LockInv(u)'
  BY DEF LockInv
<1>2. CASE signals' = signals
  BY <1>1, <1>2 DEF Shape
<1>3. CASE signals' = signals + 1
  <2>1. \A k \in Int : /\ k <= 2 * signals => k <= 2 * signals'
                      /\ k <= 2 * signals + 1 => k <= 2 * signals' + 1
    BY <1>3
  <2>2. Len(stack[u]) \in Nat
    BY LenProperties
  <2> QED BY <1>1, <2>1, <2>2 DEF Shape
<1> QED BY <1>2, <1>3

\* Which calls may attach a brick after a frame came, or went.
LEMMA AttachingPush ==
  ASSUME TypeW, NEW t \in Threads, NEW fr \in FrameW, Push(t, fr)
  PROVE  /\ Attaching' \subseteq Attaching \union {<<t, Len(stack[t]) + 1>>}
         /\ fr.pc \notin BeforeAttach => Attaching' \subseteq Attaching
<1> DEFINE n == Len(stack[t])
<1>0. stack \in [Threads -> Seq(FrameW)]
  BY DEF TypeW
<1>1. /\ stack' \in [Threads -> Seq(FrameW)]
      /\ \A u \in Threads \ {t} : stack'[u] = stack[u]
      /\ stack'[t] # <<>> /\ Len(stack'[t]) = n + 1
      /\ stack'[t][n + 1] = fr
      /\ \A i \in 1 .. n : stack'[t][i] = stack[t][i]
  BY <1>0, PushEffect
<1>2. n \in Nat /\ DOMAIN stack[t] = 1 .. n
  BY StackFrames
<1>3. stack'[t] \in Seq(FrameW)
  BY <1>1
<1>4. DOMAIN stack'[t] = 1 .. n + 1
  BY <1>1, <1>3, LenProperties
<1>5. ASSUME NEW p \in Attaching' PROVE p \in Attaching \/ (p = <<t, n + 1>> /\ fr.pc \in BeforeAttach)
  <2>1. /\ p \in Threads \X (Nat \ {0})
        /\ p[2] \in DOMAIN stack'[p[1]] /\ stack'[p[1]][p[2]].pc \in BeforeAttach
    BY DEF Attaching
  <2>2. CASE p[1] # t
    <3>1. p \in Attaching
      BY <1>1, <2>1, <2>2 DEF Attaching
    <3> QED BY <3>1
  <2>3. CASE p[1] = t
    <3>1. p[2] \in 1 .. n + 1 /\ p = <<t, p[2]>>
      BY <1>4, <2>1, <2>3
    <3>2. CASE p[2] = n + 1
      BY <1>1, <1>2, <2>1, <2>3, <3>1, <3>2
    <3>3. CASE p[2] # n + 1
      <4>1. p[2] \in 1 .. n
        BY <1>2, <3>1, <3>3
      <4>2. p \in Attaching
        BY <1>1, <1>2, <2>1, <2>3, <4>1 DEF Attaching
      <4> QED BY <4>2
    <3> QED BY <3>2, <3>3
  <2> QED BY <2>2, <2>3
<1> QED BY <1>5

LEMMA AttachingDrop ==
  ASSUME TypeW, NEW t \in Threads, NEW k \in 1 .. 2, k <= Len(stack[t]), Drop(t, k)
  PROVE  Attaching' \subseteq Attaching
<1> DEFINE n == Len(stack[t])
<1>0. stack \in [Threads -> Seq(FrameW)]
  BY DEF TypeW
<1>1. /\ stack' \in [Threads -> Seq(FrameW)]
      /\ \A u \in Threads \ {t} : stack'[u] = stack[u]
      /\ Len(stack'[t]) = n - k
      /\ \A i \in 1 .. n - k : stack'[t][i] = stack[t][i]
  BY <1>0, DropEffect
<1>2. n \in Nat /\ DOMAIN stack[t] = 1 .. n
  BY StackFrames
<1>3. stack'[t] \in Seq(FrameW)
  BY <1>1
<1>4. DOMAIN stack'[t] = 1 .. n - k
  BY <1>1, <1>3, LenProperties
<1> SUFFICES ASSUME NEW p \in Attaching' PROVE p \in Attaching
  OBVIOUS
<1>5. /\ p \in Threads \X (Nat \ {0})
      /\ p[2] \in DOMAIN stack'[p[1]] /\ stack'[p[1]][p[2]].pc \in BeforeAttach
  BY DEF Attaching
<1>6. CASE p[1] # t
  BY <1>1, <1>5, <1>6 DEF Attaching
<1>7. CASE p[1] = t
  <2>1. p[2] \in 1 .. n - k /\ p[2] \in 1 .. n
    BY <1>2, <1>4, <1>5, <1>7
  <2> QED BY <1>1, <1>2, <1>5, <1>7, <2>1 DEF Attaching
<1> QED BY <1>6, <1>7

\* A frame pushed on a stack.
LEMMA PushStep ==
  ASSUME TypeW, \A u \in Threads : Shape(stack[u]) /\ LockInv(u),
         NEW t \in Threads, NEW fr \in FrameW, Push(t, fr), Placed(fr), fr.pc # "relock",
         stack[t] = <<>> => ~ IsHandler(fr),
         stack[t] # <<>> => Under(Top(t), fr),
         Len(stack[t]) <= 2 * signals', IsHandler(fr) => Len(stack[t]) + 1 <= 2 * signals',
         IsHandler(fr) => fr.saved = Needs(Top(t)),
         Held(t)' = Needs(fr), \A u \in Threads \ {t} : Held(u)' = Held(u),
         signals' \in {signals, signals + 1}
  PROVE  /\ stack' \in [Threads -> Seq(FrameW)]
         /\ \A u \in Threads : Shape(stack[u])' /\ LockInv(u)'
<1> DEFINE n == Len(stack[t])
<1>0. stack \in [Threads -> Seq(FrameW)] /\ signals \in Nat /\ signals' \in Nat
  BY BridgeAssumption DEF TypeW
<1>1. /\ stack' \in [Threads -> Seq(FrameW)]
      /\ \A u \in Threads \ {t} : stack'[u] = stack[u]
      /\ stack'[t] # <<>> /\ Len(stack'[t]) = n + 1
      /\ stack'[t][n + 1] = fr
      /\ \A i \in 1 .. n : stack'[t][i] = stack[t][i]
  BY <1>0, PushEffect
<1>2. n \in Nat /\ Top(t) = stack[t][n] /\ (stack[t] # <<>> <=> n >= 1)
  BY StackFrames DEF Top
<1>3. ASSUME NEW u \in Threads \ {t} PROVE Shape(stack[u])' /\ LockInv(u)'
  BY <1>0, <1>1, OthersSame
<1>4. Shape(stack[t]) /\ LockInv(t)
  OBVIOUS
<1>5. Shape(stack[t])'
  <2>1. \A i \in 1 .. n + 1 : Placed(stack'[t][i])
    BY <1>1, <1>2, <1>4 DEF Shape
  <2>2. ~ IsHandler(stack'[t][1])
    <3>1. CASE n = 0
      BY <1>1, <1>2, <3>1
    <3>2. CASE n >= 1
      BY <1>1, <1>2, <1>4, <3>2 DEF Shape
    <3> QED BY <1>2, <3>1, <3>2
  <2>3. \A i \in 1 .. n : Under(stack'[t][i], stack'[t][i + 1])
    <3> SUFFICES ASSUME NEW i \in 1 .. n PROVE Under(stack'[t][i], stack'[t][i + 1])
      OBVIOUS
    <3>1. CASE i = n
      BY <1>1, <1>2, <3>1
    <3>2. CASE i # n
      <4>1. i \in 1 .. n - 1 /\ i + 1 \in 1 .. n
        BY <1>2, <3>2
      <4> QED BY <1>1, <1>4, <4>1 DEF Shape
    <3> QED BY <3>1, <3>2
  <2>4. n + 1 <= 2 * signals' + 1
    BY <1>0, <1>2
  <2>5. (n + 1) - 1 = n
    BY <1>2
  <2> QED BY <1>1, <2>1, <2>2, <2>3, <2>4, <2>5 DEF Shape
<1>6. LockInv(t)'
  <2>1. \A i \in 2 .. n + 1 : IsHandler(stack'[t][i]) /\ stack'[t][i].pc # "relock"
                                => stack'[t][i].saved = Needs(stack'[t][i - 1])
    <3> SUFFICES ASSUME NEW i \in 2 .. n + 1, IsHandler(stack'[t][i]), stack'[t][i].pc # "relock"
                 PROVE  stack'[t][i].saved = Needs(stack'[t][i - 1])
      OBVIOUS
    <3>1. CASE i = n + 1
      <4>1. i - 1 = n /\ n \in 1 .. n
        BY <1>2, <3>1
      <4> QED BY <1>1, <1>2, <3>1, <4>1
    <3>2. CASE i # n + 1
      <4>1. i \in 2 .. n /\ i \in 1 .. n /\ i - 1 \in 1 .. n
        BY <1>2, <3>2
      <4> QED BY <1>1, <1>4, <4>1 DEF LockInv
    <3> QED BY <3>1, <3>2
  <2> QED BY <1>1, <2>1 DEF LockInv, Needs
<1> QED BY <1>1, <1>3, <1>5, <1>6

\* One or two frames taken off a stack.
LEMMA DropStep ==
  ASSUME TypeW, \A u \in Threads : Shape(stack[u]) /\ LockInv(u),
         NEW t \in Threads, NEW k \in 1 .. 2, k <= Len(stack[t]), Drop(t, k),
         Len(stack[t]) = k => Held(t)' = {},
         Len(stack[t]) # k => Held(t)' = Needs(stack[t][Len(stack[t]) - k]),
         \A u \in Threads \ {t} : Held(u)' = Held(u), signals' = signals
  PROVE  /\ stack' \in [Threads -> Seq(FrameW)]
         /\ \A u \in Threads : Shape(stack[u])' /\ LockInv(u)'
<1> DEFINE n == Len(stack[t])
           m == n - k
<1>0. stack \in [Threads -> Seq(FrameW)] /\ signals \in Nat
  BY BridgeAssumption DEF TypeW
<1>1. /\ stack' \in [Threads -> Seq(FrameW)]
      /\ \A u \in Threads \ {t} : stack'[u] = stack[u]
      /\ Len(stack'[t]) = m
      /\ \A i \in 1 .. m : stack'[t][i] = stack[t][i]
  BY <1>0, DropEffect
<1>2. n \in Nat /\ m \in Nat /\ m < n
  BY StackFrames
<1>3. ASSUME NEW u \in Threads \ {t} PROVE Shape(stack[u])' /\ LockInv(u)'
  BY <1>0, <1>1, OthersSame
<1>4. Shape(stack[t]) /\ LockInv(t) /\ stack[t] # <<>>
  BY <1>2, StackFrames
<1>5. stack'[t] = <<>> <=> m = 0
  BY <1>1, EmptySeq
<1> HIDE DEF m
<1>6. Shape(stack[t])'
  <2>1. \A i \in 1 .. m : Placed(stack'[t][i])
    BY <1>1, <1>2, <1>4 DEF Shape
  <2>2. m # 0 => ~ IsHandler(stack'[t][1])
    BY <1>1, <1>2, <1>4 DEF Shape
  <2>3. \A i \in 1 .. m - 1 : Under(stack'[t][i], stack'[t][i + 1])
    <3>1. \A i \in 1 .. m - 1 : i \in 1 .. n - 1 /\ i \in 1 .. m /\ i + 1 \in 1 .. m
      BY <1>2
    <3> QED BY <1>1, <1>4, <3>1 DEF Shape
  <2>4. m <= 2 * signals
    <3>1. n <= 2 * signals + 1
      BY <1>4 DEF Shape
    <3> QED BY <1>0, <1>2, <3>1
  <2>5. m <= 2 * signals' /\ m <= 2 * signals' + 1
    BY <1>0, <1>2, <2>4
  <2> QED BY <1>1, <1>5, <2>1, <2>2, <2>3, <2>5 DEF Shape
<1>7. LockInv(t)'
  <2>1. \A i \in 2 .. m : IsHandler(stack'[t][i]) /\ stack'[t][i].pc # "relock"
                            => stack'[t][i].saved = Needs(stack'[t][i - 1])
    <3>1. \A i \in 2 .. m : i \in 2 .. n /\ i \in 1 .. m /\ i - 1 \in 1 .. m
      BY <1>2
    <3> QED BY <1>1, <1>4, <3>1 DEF LockInv
  <2>2. m # 0 => stack'[t][m] = stack[t][m] /\ stack'[t][m].pc # "relock"
    <3>1. m # 0 => m \in 1 .. n - 1 /\ m \in 1 .. m
      BY <1>2
    <3>2. m # 0 => Under(stack[t][m], stack[t][m + 1])
      BY <1>4, <3>1 DEF Shape
    <3> QED BY <1>1, <3>1, <3>2 DEF Under
  <2>3. m # 0 => Held(t)' = Needs(stack[t][m])
    BY <1>2 DEF m
  <2>4. m = 0 => Held(t)' = {}
    BY <1>2 DEF m
  <2> QED BY <1>1, <1>5, <2>1, <2>2, <2>3, <2>4 DEF LockInv, Needs
<1> QED BY <1>1, <1>3, <1>6, <1>7

\* A step of a handler that ends.
LEMMA HandlerStep ==
  ASSUME TypeW, \A u \in Threads : Shape(stack[u]) /\ LockInv(u),
         NEW t \in Threads, stack[t] # <<>>, IsHandler(Top(t)),
         NEW fr \in FrameW, SetTop(t, fr), IsHandler(fr), fr.pc = "relock",
         fr.saved \subseteq Needs(stack[t][Len(stack[t]) - 1]),
         Held(t)' = Needs(stack[t][Len(stack[t]) - 1]) \ fr.saved,
         \A u \in Threads \ {t} : Held(u)' = Held(u), signals' = signals
  PROVE  /\ stack' \in [Threads -> Seq(FrameW)]
         /\ \A u \in Threads : Shape(stack[u])' /\ LockInv(u)'
<1> DEFINE n == Len(stack[t])
<1>0. stack \in [Threads -> Seq(FrameW)] /\ signals \in Nat
  BY BridgeAssumption DEF TypeW
<1>1. /\ stack' \in [Threads -> Seq(FrameW)]
      /\ \A u \in Threads \ {t} : stack'[u] = stack[u]
      /\ stack'[t] # <<>> /\ Len(stack'[t]) = n
      /\ stack'[t][n] = fr
      /\ \A i \in 1 .. n - 1 : stack'[t][i] = stack[t][i]
  BY <1>0, SetTopEffect
<1>2. n \in Nat /\ n >= 1 /\ Top(t) = stack[t][n]
  BY StackFrames DEF Top
<1>3. ASSUME NEW u \in Threads \ {t} PROVE Shape(stack[u])' /\ LockInv(u)'
  BY <1>0, <1>1, OthersSame
<1>4. Shape(stack[t]) /\ LockInv(t)
  OBVIOUS
<1>5. n >= 2
  BY <1>2, <1>4 DEF Shape
<1>6. Shape(stack[t])'
  <2>1. Placed(fr)
    BY DEF Placed, IsHandler, Bridges
  <2>2. \A i \in 1 .. n : Placed(stack'[t][i])
    BY <1>1, <1>2, <1>4, <2>1 DEF Shape
  <2>3. \A i \in 1 .. n : IsHandler(stack'[t][i]) <=> IsHandler(stack[t][i])
    BY <1>1, <1>2
  <2>4. \A i \in 1 .. n - 1 : Under(stack'[t][i], stack'[t][i + 1])
    <3>1. \A i \in 1 .. n - 1 : Under(stack[t][i], stack[t][i + 1])
      BY <1>4 DEF Shape
    <3>2. \A i \in 1 .. n - 1 : i + 1 \in 1 .. n /\ i \in 1 .. n
      BY <1>2
    <3> QED BY <1>1, <2>3, <3>1, <3>2 DEF Under
  <2>5. ~ IsHandler(stack'[t][1])
    BY <1>1, <1>5, <1>2, <1>4 DEF Shape
  <2>6. n <= 2 * signals' /\ n <= 2 * signals' + 1
    BY <1>2, <1>4 DEF Shape
  <2> QED BY <1>1, <2>2, <2>4, <2>5, <2>6 DEF Shape
<1>7. LockInv(t)'
  <2>1. \A i \in 2 .. n : IsHandler(stack'[t][i]) /\ stack'[t][i].pc # "relock"
                            => stack'[t][i].saved = Needs(stack'[t][i - 1])
    <3> SUFFICES ASSUME NEW i \in 2 .. n, IsHandler(stack'[t][i]), stack'[t][i].pc # "relock"
                 PROVE  stack'[t][i].saved = Needs(stack'[t][i - 1])
      OBVIOUS
    <3>1. i # n
      BY <1>1
    <3>2. i \in 1 .. n - 1 /\ i - 1 \in 1 .. n - 1
      BY <1>2, <3>1
    <3> QED BY <1>1, <1>4, <3>2 DEF LockInv
  <2>2. stack'[t][n - 1] = stack[t][n - 1]
    BY <1>1, <1>5, <1>2
  <2> QED BY <1>1, <2>1, <2>2 DEF LockInv, Needs
<1> QED BY <1>1, <1>3, <1>6, <1>7

\* What BaseInv says of numbers and stacks.
LEMMA BaseFacts ==
  ASSUME BaseInv
  PROVE  /\ TypeW /\ stack \in [Threads -> Seq(FrameW)]
         /\ bricks \in Nat /\ calls \in Nat /\ signals \in Nat
         /\ \A u \in Threads : Shape(stack[u]) /\ LockInv(u)
         /\ BrickCount
BY BridgeAssumption DEF BaseInv, TypeW, Bricks

\* The innermost frame of a thread that is in the signal handler.
LEMMA HandlerTop ==
  ASSUME BaseInv, NEW t \in Threads, NEW pc \in {"run", "relock"}, At(t, pc)
  PROVE  /\ stack[t] # <<>> /\ Top(t) \in FrameW /\ Top(t).pc = pc /\ IsHandler(Top(t))
         /\ Top(t) = stack[t][Len(stack[t])]
         /\ Len(stack[t]) \in Nat /\ Len(stack[t]) >= 2 /\ Len(stack[t]) <= 2 * signals
         /\ stack[t][Len(stack[t]) - 1] \in FrameW
         /\ ~ IsHandler(stack[t][Len(stack[t]) - 1])
         /\ pc = "run" => Held(t) = {} /\ Top(t).saved = Needs(stack[t][Len(stack[t]) - 1])
<1> DEFINE n == Len(stack[t])
<1>1. stack[t] # <<>> /\ Top(t).pc = pc
  BY DEF At
<1>2. /\ n \in Nat /\ n >= 1 /\ Top(t) = stack[t][n] /\ Top(t) \in FrameW
      /\ \A i \in 1 .. n : stack[t][i] \in FrameW
  BY <1>1, BaseFacts, StackFrames DEF Top
<1>3. Shape(stack[t]) /\ LockInv(t)
  BY BaseFacts
<1>4. IsHandler(Top(t))
  <2>1. Placed(Top(t))
    BY <1>2, <1>3 DEF Shape
  <2> QED BY <1>1, <2>1 DEF Placed, PCs
<1>5. n >= 2 /\ n <= 2 * signals
  BY <1>1, <1>2, <1>3, <1>4 DEF Shape
<1>6. ~ IsHandler(stack[t][n - 1])
  <2>1. n - 1 \in 1 .. n - 1 /\ (n - 1) + 1 = n
    BY <1>2, <1>5
  <2>2. Under(stack[t][n - 1], stack[t][n])
    BY <1>3, <2>1 DEF Shape
  <2> QED BY <1>2, <1>4, <2>2 DEF Under
<1>7. pc = "run" => Held(t) = {}
  BY <1>1, <1>2, <1>3, <1>4 DEF LockInv, Needs, IsHandler, InAddBridge, InNewBrick
<1>8. pc = "run" => Top(t).saved = Needs(stack[t][n - 1])
  <2>1. n \in 2 .. n
    BY <1>2, <1>5
  <2> QED BY <1>1, <1>2, <1>3, <1>4, <2>1 DEF LockInv
<1>9. stack[t][n - 1] \in FrameW
  BY <1>2, <1>5
<1> QED BY <1>1, <1>2, <1>4, <1>5, <1>6, <1>7, <1>8, <1>9

LEMMA BeginCallBase ==
  ASSUME BaseInv, NEW t \in Threads, NEW op \in Ops, NEW f \in Fncs, BeginCall(t, op, f)
  PROVE  BaseInv'
<1> DEFINE n  == Len(stack[t])
           fr == Call(op, Start(op), IF op \in {"protect", "malloc"} THEN None ELSE f)
<1>1. /\ stack[t] = <<>> \/ At(t, "run")
      /\ calls < MaxCalls /\ calls' = calls + 1 /\ Push(t, fr)
      /\ UNCHANGED <<owner, last, bricks, sz, bridgemap, signals>>
  BY DEF BeginCall, bridgeVars
<1>2. /\ TypeW /\ stack \in [Threads -> Seq(FrameW)] /\ bricks \in Nat /\ calls \in Nat /\ signals \in Nat
      /\ \A u \in Threads : Shape(stack[u]) /\ LockInv(u)
      /\ BrickCount
  BY BaseFacts
<1>3. op \in {"check", "auto", "add", "protect", "malloc"} /\ 1 \in Bricks
  BY BridgeAssumption DEF Bricks
<1>4. /\ fr.op = op /\ fr.pc = Start(op) /\ fr.saved = {}
      /\ fr.fnc = IF op \in {"protect", "malloc"} THEN None ELSE f
      /\ Start(op) = IF op \in {"check", "auto"} THEN "check" ELSE IF op = "add" THEN "lock"
                     ELSE IF op = "protect" THEN "prot" ELSE "node"
  BY <1>3 DEF Call, Start
<1>5. fr \in FrameW
  <2>1. Start(op) \in PCs /\ NoSlot \in Nat \X Nat
    BY <1>3, <1>4 DEF PCs, NoSlot
  <2> QED BY <1>3, <2>1 DEF Call, FrameW
<1> HIDE DEF fr
<1>6. Placed(fr) /\ ~ IsHandler(fr) /\ Needs(fr) = {} /\ fr.pc # "relock"
  BY <1>3, <1>4 DEF Placed, IsHandler, Bridges, Needs, InAddBridge, InNewBrick, PCs
<1>7. ASSUME stack[t] = <<>>
      PROVE  stack' \in [Threads -> Seq(FrameW)] /\ \A u \in Threads : Shape(stack[u])' /\ LockInv(u)'
  <2>1. n = 0 /\ Held(t) = {}
    BY <1>2, <1>7, StackFrames DEF LockInv
  <2>2. Held(t)' = Needs(fr) /\ \A u \in Threads \ {t} : Held(u)' = Held(u)
    BY <1>1, <1>6, <2>1, HeldSame
  <2>3. n <= 2 * signals'
    BY <1>1, <1>2, <2>1
  <2> QED BY <1>1, <1>2, <1>5, <1>6, <1>7, <2>2, <2>3, PushStep
<1>8. ASSUME At(t, "run")
      PROVE  stack' \in [Threads -> Seq(FrameW)] /\ \A u \in Threads : Shape(stack[u])' /\ LockInv(u)'
  <2>1. IsHandler(Top(t)) /\ Top(t).pc = "run" /\ n <= 2 * signals /\ Held(t) = {} /\ stack[t] # <<>>
    BY <1>8, HandlerTop
  <2>2. Held(t)' = Needs(fr) /\ \A u \in Threads \ {t} : Held(u)' = Held(u)
    BY <1>1, <1>6, <2>1, HeldSame
  <2>3. Under(Top(t), fr)
    BY <1>6, <2>1 DEF Under
  <2>4. n <= 2 * signals'
    BY <1>1, <2>1
  <2> QED BY <1>1, <1>2, <1>5, <1>6, <2>1, <2>2, <2>3, <2>4, PushStep
<1>9. BrickCount'
  <2>1. Attaching' \subseteq Attaching \union {<<t, n + 1>>}
    BY <1>1, <1>2, <1>5, AttachingPush
  <2> QED BY <1>1, <1>2, <2>1, CountBegin
<1>10. calls' \in 0 .. MaxCalls
  BY <1>1, <1>2, BridgeAssumption
<1>11. TypeW'
  BY <1>1, <1>2, <1>7, <1>8, <1>10 DEF TypeW
<1> QED BY <1>1, <1>7, <1>8, <1>9, <1>11 DEF BaseInv

LEMMA ReturnBase ==
  ASSUME BaseInv, NEW t \in Threads, Return(t)
  PROVE  BaseInv'
<1> DEFINE n == Len(stack[t])
<1>1. At(t, "return") /\ Drop(t, 1) /\ UNCHANGED <<owner, last, bricks, sz, bridgemap, calls, signals>>
  BY DEF Return, bridgeVars, budget
<1>2. /\ TypeW /\ bricks \in Nat /\ calls \in Nat /\ BrickCount
      /\ \A u \in Threads : Shape(stack[u]) /\ LockInv(u)
  BY BaseFacts
<1>3. "return" \in PCs
  BY DEF PCs
<1>4. /\ stack[t] # <<>> /\ Top(t).pc = "return" /\ ~ IsHandler(Top(t)) /\ Held(t) = Needs(Top(t))
      /\ n \in Nat /\ n >= 1 /\ Top(t) = stack[t][n]
  BY <1>1, <1>2, <1>3, CallTop, StackFrames DEF Top
<1>5. Held(t)' = {} /\ \A u \in Threads \ {t} : Held(u)' = Held(u)
  BY <1>1, <1>4, HeldSame DEF Needs, InAddBridge, InNewBrick
<1>6. n # 1 => Needs(stack[t][n - 1]) = {}
  <2> SUFFICES ASSUME n # 1 PROVE Needs(stack[t][n - 1]) = {}
    OBVIOUS
  <2>0. \A k \in Nat : k >= 1 /\ k # 1 => k - 1 \in 1 .. k /\ k - 1 \in 1 .. k - 1 /\ (k - 1) + 1 = k
    OBVIOUS
  <2>1. n - 1 \in 1 .. n /\ n - 1 \in 1 .. n - 1 /\ (n - 1) + 1 = n
    BY <1>4, <2>0
  <2>2. Under(stack[t][n - 1], stack[t][n]) /\ Placed(stack[t][n - 1])
    BY <1>2, <2>1 DEF Shape
  <2>3. IsHandler(stack[t][n - 1]) /\ stack[t][n - 1].pc = "run"
    BY <1>4, <2>2 DEF Under, Placed
  <2> QED BY <2>3 DEF Needs, IsHandler, InAddBridge, InNewBrick
<1>7. stack' \in [Threads -> Seq(FrameW)] /\ \A u \in Threads : Shape(stack[u])' /\ LockInv(u)'
  <2>1. 1 \in 1 .. 2 /\ 1 <= n
    BY <1>4
  <2>2. n # 1 => Held(t)' = Needs(stack[t][n - 1])
    BY <1>5, <1>6
  <2> QED BY <1>1, <1>2, <1>5, <2>1, <2>2, DropStep
<1>8. BrickCount'
  BY <1>1, <1>2, <1>4, AttachingDrop, CountFewer
<1>9. TypeW'
  BY <1>1, <1>2, <1>7 DEF TypeW
<1> QED BY <1>7, <1>8, <1>9 DEF BaseInv

LEMMA SignalBase ==
  ASSUME BaseInv, NEW t \in Threads, Signal(t)
  PROVE  BaseInv'
<1> DEFINE n  == Len(stack[t])
           fr == Handler(Held(t))
<1>1. /\ stack[t] # <<>> /\ Top(t).pc \in PCs
      /\ signals < MaxSignals /\ signals' = signals + 1
      /\ Push(t, fr)
      /\ owner' = [m \in Mutexes |-> IF m \in Held(t) THEN None ELSE owner[m]]
      /\ UNCHANGED <<last, bricks, sz, bridgemap, calls>>
  BY DEF Signal, unlockMutex, bridgeVars
<1>2. /\ TypeW /\ bricks \in Nat /\ calls \in Nat /\ signals \in Nat /\ BrickCount
      /\ \A u \in Threads : Shape(stack[u]) /\ LockInv(u)
  BY BaseFacts
<1>3. At(t, Top(t).pc)
  BY <1>1 DEF At
<1>4. /\ ~ IsHandler(Top(t)) /\ Held(t) = Needs(Top(t))
      /\ n \in Nat /\ n >= 1 /\ Top(t) = stack[t][n]
  BY <1>1, <1>2, <1>3, CallTop, StackFrames DEF Top
<1>5. 1 \in Bricks /\ NoSlot \in Nat \X Nat /\ Held(t) \in SUBSET Mutexes
  BY BridgeAssumption DEF Bricks, NoSlot, Held
<1>6. /\ fr \in FrameW /\ fr.op = "handler" /\ fr.pc = "run" /\ fr.saved = Held(t)
  BY <1>5 DEF Handler, Call, FrameW
<1> HIDE DEF fr
<1>7. /\ Placed(fr) /\ IsHandler(fr) /\ fr.pc # "relock" /\ Needs(fr) = {} /\ fr.pc \notin BeforeAttach
  BY <1>6 DEF Placed, IsHandler, Bridges, Needs, InAddBridge, InNewBrick, BeforeAttach
<1>8. /\ owner' \in [Mutexes -> Threads \union {None}]
      /\ Held(t)' = Needs(fr) /\ \A u \in Threads \ {t} : Held(u)' = Held(u)
  BY <1>1, <1>2, <1>7, BridgeAssumption DEF TypeW, Held, None
<1>9. Under(Top(t), fr)
  BY <1>1, <1>4, <1>7 DEF Under, PCs
<1>10. n + 1 <= 2 * signals' /\ n <= 2 * signals'
  <2>1. n <= 2 * signals + 1
    BY <1>2 DEF Shape
  <2> QED BY <1>1, <1>2, <1>4, <2>1
<1>11. stack' \in [Threads -> Seq(FrameW)] /\ \A u \in Threads : Shape(stack[u])' /\ LockInv(u)'
  BY <1>1, <1>2, <1>4, <1>6, <1>7, <1>8, <1>9, <1>10, PushStep
<1>12. BrickCount'
  BY <1>1, <1>2, <1>6, <1>7, AttachingPush, CountFewer
<1>13. signals' \in 0 .. MaxSignals
  BY <1>1, <1>2, BridgeAssumption
<1>14. TypeW'
  BY <1>1, <1>2, <1>8, <1>11, <1>13 DEF TypeW
<1> QED BY <1>11, <1>12, <1>14 DEF BaseInv

LEMMA HandlerEndsBase ==
  ASSUME BaseInv, NEW t \in Threads, HandlerEnds(t)
  PROVE  BaseInv'
<1> DEFINE fr == [Top(t) EXCEPT !.pc = "relock"]
<1>1. At(t, "run") /\ SetTop(t, fr) /\ UNCHANGED <<owner, last, bricks, sz, bridgemap, calls, signals>>
  BY DEF HandlerEnds, Goto, bridgeVars, budget
<1>2. /\ TypeW /\ bricks \in Nat /\ calls \in Nat /\ BrickCount
      /\ \A u \in Threads : Shape(stack[u]) /\ LockInv(u)
  BY BaseFacts
<1>3. /\ stack[t] # <<>> /\ Top(t) \in FrameW /\ IsHandler(Top(t))
      /\ Held(t) = {} /\ Top(t).saved = Needs(stack[t][Len(stack[t]) - 1])
  BY <1>1, HandlerTop
<1>4. fr \in FrameW /\ fr.pc = "relock" /\ fr.op = Top(t).op /\ fr.saved = Top(t).saved
  BY <1>3 DEF FrameW
<1> HIDE DEF fr
<1>5. IsHandler(fr) /\ fr.pc \notin BeforeAttach
  BY <1>3, <1>4 DEF IsHandler, BeforeAttach, InNewBrick
<1>6. /\ Held(t)' = Needs(stack[t][Len(stack[t]) - 1]) \ fr.saved
      /\ \A u \in Threads \ {t} : Held(u)' = Held(u)
  BY <1>1, <1>3, <1>4, HeldSame
<1>7. stack' \in [Threads -> Seq(FrameW)] /\ \A u \in Threads : Shape(stack[u])' /\ LockInv(u)'
  BY <1>1, <1>2, <1>3, <1>4, <1>5, <1>6, HandlerStep
<1>8. BrickCount'
  BY <1>1, <1>2, <1>3, <1>4, <1>5, AttachingSetTop, CountFewer
<1>9. TypeW'
  BY <1>1, <1>2, <1>7 DEF TypeW
<1> QED BY <1>7, <1>8, <1>9 DEF BaseInv

\* What is left to take again, and the mutex that relockMutex takes next.
LEMMA RelockNext ==
  ASSUME NEW t \in Threads, Top(t) \in FrameW
  PROVE  /\ ToRelock(t) = {} => Top(t).saved = {}
         /\ ToRelock(t) # {} =>
              LET m == RelockOrder[CHOOSE i \in ToRelock(t) : \A j \in ToRelock(t) : i <= j]
              IN  m \in Top(t).saved /\ m \in Mutexes
<1>1. DOMAIN RelockOrder = {1, 2, 3} /\ RelockOrder[1] = "bridge" /\ RelockOrder[2] = "blocks" /\ RelockOrder[3] = "prot"
  BY DEF RelockOrder
<1>2. Top(t).saved \subseteq {"bridge", "prot", "blocks"}
  BY DEF FrameW, Mutexes
<1>3. ToRelock(t) \subseteq {1, 2, 3} /\ \A i \in ToRelock(t) : RelockOrder[i] \in Top(t).saved
  BY <1>1 DEF ToRelock
<1>4. ToRelock(t) = {} => Top(t).saved = {}
  BY <1>1, <1>2 DEF ToRelock
<1>5. ASSUME ToRelock(t) # {} PROVE \E i \in ToRelock(t) : \A j \in ToRelock(t) : i <= j
  BY <1>3, <1>5
<1> QED BY <1>1, <1>2, <1>3, <1>4, <1>5 DEF Mutexes

LEMMA RelockBase ==
  ASSUME BaseInv, NEW t \in Threads, Relock(t)
  PROVE  BaseInv'
<1> DEFINE m  == RelockOrder[CHOOSE i \in ToRelock(t) : \A j \in ToRelock(t) : i <= j]
           fr == [Top(t) EXCEPT !.saved = @ \ {m}]
           below == stack[t][Len(stack[t]) - 1]
<1>1. /\ At(t, "relock") /\ ToRelock(t) # {} /\ Acquire(t, m) /\ SetTop(t, fr)
      /\ UNCHANGED <<last, bricks, sz, bridgemap, calls, signals>>
  BY DEF Relock, bridgeVars, budget
<1>2. /\ TypeW /\ bricks \in Nat /\ calls \in Nat /\ BrickCount
      /\ \A u \in Threads : Shape(stack[u]) /\ LockInv(u)
  BY BaseFacts
<1>3. /\ stack[t] # <<>> /\ Top(t) \in FrameW /\ IsHandler(Top(t)) /\ Top(t).pc = "relock"
      /\ Top(t) = stack[t][Len(stack[t])]
  BY <1>1, HandlerTop
<1>4. m \in Top(t).saved /\ m \in Mutexes
  BY <1>1, <1>3, RelockNext
<1> HIDE DEF m
<1>5. fr \in FrameW /\ fr.pc = "relock" /\ fr.op = Top(t).op /\ fr.saved = Top(t).saved \ {m}
  BY <1>3 DEF FrameW
<1> HIDE DEF fr
<1>6. IsHandler(fr) /\ fr.pc \notin BeforeAttach
  BY <1>3, <1>5 DEF IsHandler, BeforeAttach, InNewBrick
<1>7. Top(t).saved \subseteq Needs(below) /\ Held(t) = Needs(below) \ Top(t).saved
  BY <1>2, <1>3 DEF LockInv
<1>8. /\ owner' \in [Mutexes -> Threads \union {None}] /\ Held(t)' = Held(t) \union {m}
      /\ \A u \in Threads \ {t} : Held(u)' = Held(u)
  BY <1>1, <1>2, <1>4, HeldAcquire
<1>9. fr.saved \subseteq Needs(below) /\ Held(t)' = Needs(below) \ fr.saved
  BY <1>4, <1>5, <1>7, <1>8
<1>10. stack' \in [Threads -> Seq(FrameW)] /\ \A u \in Threads : Shape(stack[u])' /\ LockInv(u)'
  BY <1>1, <1>2, <1>3, <1>5, <1>6, <1>8, <1>9, HandlerStep
<1>11. BrickCount'
  BY <1>1, <1>2, <1>3, <1>5, <1>6, AttachingSetTop, CountFewer
<1>12. TypeW'
  BY <1>1, <1>2, <1>8, <1>10 DEF TypeW
<1> QED BY <1>10, <1>11, <1>12 DEF BaseInv

LEMMA SigReturnBase ==
  ASSUME BaseInv, NEW t \in Threads, SigReturn(t)
  PROVE  BaseInv'
<1> DEFINE n == Len(stack[t])
<1>1. /\ At(t, "relock") /\ ToRelock(t) = {} /\ Drop(t, 1)
      /\ UNCHANGED <<owner, last, bricks, sz, bridgemap, calls, signals>>
  BY DEF SigReturn, bridgeVars, budget
<1>2. /\ TypeW /\ bricks \in Nat /\ calls \in Nat /\ BrickCount
      /\ \A u \in Threads : Shape(stack[u]) /\ LockInv(u)
  BY BaseFacts
<1>3. /\ stack[t] # <<>> /\ Top(t) \in FrameW /\ Top(t).pc = "relock"
      /\ Top(t) = stack[t][n] /\ n \in Nat /\ n >= 2
  BY <1>1, HandlerTop
<1>4. Top(t).saved = {}
  BY <1>1, <1>3, RelockNext
<1>5. Held(t) = Needs(stack[t][n - 1]) \ Top(t).saved
  BY <1>2, <1>3 DEF LockInv
<1>6. Held(t)' = Needs(stack[t][n - 1]) /\ \A u \in Threads \ {t} : Held(u)' = Held(u)
  BY <1>1, <1>4, <1>5, HeldSame
<1>7. stack' \in [Threads -> Seq(FrameW)] /\ \A u \in Threads : Shape(stack[u])' /\ LockInv(u)'
  BY <1>1, <1>2, <1>3, <1>6, DropStep
<1>8. BrickCount'
  BY <1>1, <1>2, <1>3, AttachingDrop, CountFewer
<1>9. TypeW'
  BY <1>1, <1>2, <1>7 DEF TypeW
<1> QED BY <1>7, <1>8, <1>9 DEF BaseInv

LEMMA SigLongjmpBase ==
  ASSUME BaseInv, NEW t \in Threads, SigLongjmp(t)
  PROVE  BaseInv'
<1> DEFINE n == Len(stack[t])
<1>1. /\ At(t, "run") /\ Drop(t, 2)
      /\ UNCHANGED <<owner, last, bricks, sz, bridgemap, calls, signals>>
  BY DEF SigLongjmp, bridgeVars
<1>2. /\ TypeW /\ bricks \in Nat /\ calls \in Nat /\ BrickCount
      /\ \A u \in Threads : Shape(stack[u]) /\ LockInv(u)
  BY BaseFacts
<1>3. /\ n \in Nat /\ n >= 2 /\ Held(t) = {} /\ ~ IsHandler(stack[t][n - 1])
  BY <1>1, HandlerTop
<1>4. Held(t)' = {} /\ \A u \in Threads \ {t} : Held(u)' = Held(u)
  BY <1>1, <1>3, HeldSame
<1>5. n # 2 => Needs(stack[t][n - 2]) = {}
  <2> SUFFICES ASSUME n # 2 PROVE Needs(stack[t][n - 2]) = {}
    OBVIOUS
  <2>0. \A k \in Nat : k >= 2 /\ k # 2 => k - 2 \in 1 .. k /\ k - 2 \in 1 .. k - 1 /\ (k - 2) + 1 = k - 1
    OBVIOUS
  <2>1. n - 2 \in 1 .. n /\ n - 2 \in 1 .. n - 1 /\ (n - 2) + 1 = n - 1
    BY <1>3, <2>0
  <2>2. Under(stack[t][n - 2], stack[t][n - 1]) /\ Placed(stack[t][n - 2])
    BY <1>2, <2>1 DEF Shape
  <2>3. IsHandler(stack[t][n - 2]) /\ stack[t][n - 2].pc = "run"
    BY <1>3, <2>2 DEF Under, Placed
  <2> QED BY <2>3 DEF Needs, IsHandler, InAddBridge, InNewBrick
<1>6. stack' \in [Threads -> Seq(FrameW)] /\ \A u \in Threads : Shape(stack[u])' /\ LockInv(u)'
  <2>1. 2 \in 1 .. 2 /\ 2 <= n
    BY <1>3
  <2>2. n # 2 => Held(t)' = Needs(stack[t][n - 2])
    BY <1>4, <1>5
  <2> QED BY <1>1, <1>2, <1>4, <2>1, <2>2, DropStep
<1>7. BrickCount'
  BY <1>1, <1>2, <1>3, AttachingDrop, CountFewer
<1>8. TypeW'
  BY <1>1, <1>2, <1>6 DEF TypeW
<1> QED BY <1>6, <1>7, <1>8 DEF BaseInv

-----------------------------------------------------------------------------
LEMMA BaseInit == Init => BaseInv
<1> SUFFICES ASSUME Init PROVE BaseInv
  OBVIOUS
<1>1. /\ stack = [t \in Threads |-> <<>>] /\ calls = 0 /\ signals = 0 /\ last = 1 /\ bricks = 1
      /\ owner = [m \in Mutexes |-> None] /\ sz = [b \in Bricks |-> 0]
      /\ bridgemap = [f \in Fncs |-> NoSlot]
  BY DEF Init
<1>2. TypeW
  <2>1. <<>> \in Seq(FrameW) /\ NoSlot \in Nat \X Nat /\ 1 \in Bricks
    BY EmptySeq, BridgeAssumption DEF NoSlot, Bricks
  <2> QED BY <1>1, <2>1, BridgeAssumption DEF TypeW
<1>3. ASSUME NEW t \in Threads PROVE Shape(stack[t]) /\ LockInv(t)
  <2>1. stack[t] = <<>> /\ Len(stack[t]) = 0
    BY <1>1, EmptySeq
  <2>2. Held(t) = {}
    BY <1>1, BridgeAssumption DEF Held, None
  <2>3. Shape(stack[t])
    BY <1>1, <2>1 DEF Shape
  <2>4. LockInv(t)
    BY <2>1, <2>2 DEF LockInv
  <2> QED BY <2>3, <2>4
<1>4. Attaching = {}
  <2>1. \A t \in Threads : DOMAIN stack[t] = {}
    BY <1>1
  <2> QED BY <2>1 DEF Attaching
<1>5. BrickCount
  BY <1>1, <1>4, FS_EmptySet DEF BrickCount
<1> QED BY <1>2, <1>3, <1>5 DEF BaseInv

LEMMA StepBase ==
  ASSUME BaseInv, NEW t \in Threads, Step(t)
  PROVE  BaseInv'
<1>1. CASE WriteHead(t)
  BY <1>1, WriteBase DEF WriteHead
<1>2. CASE WriteFnc(t)
  BY <1>2, WriteBase DEF WriteFnc
<1>3. CASE WriteTail(t)
  <2>1. After(Top(t).op) \in {"has", "return"}
    BY DEF After
  <2> QED BY <1>3, <2>1, WriteBase DEF WriteTail
<1> QED BY <1>1, <1>2, <1>3, CheckBridgedBase, LockBridgeBase, TestFullBase, LockProtBase, LockBlocksBase,
           UnlockBlocksBase, UnlockProtBase, AttachBase, ClaimBase, BumpBase, PutBase, UnlockBridgeBase,
           AlternateBase, ReturnBase, RelockBase, SigReturnBase
        DEF Step

LEMMA BaseNext == BaseInv /\ [Next]_vars => BaseInv'
<1> SUFFICES ASSUME BaseInv, [Next]_vars PROVE BaseInv'
  OBVIOUS
<1>1. CASE UNCHANGED vars
  <2>1. /\ UNCHANGED <<owner, last, bricks, sz, bridgemap, stack, calls, signals>>
    BY <1>1 DEF vars
  <2>2. TypeW' /\ \A t \in Threads : Shape(stack[t])' /\ LockInv(t)'
    <3>1. TypeW'
      BY <2>1 DEF BaseInv, TypeW
    <3>2. ASSUME NEW t \in Threads PROVE Shape(stack[t])'
      BY <2>1 DEF BaseInv, Shape
    <3>3. ASSUME NEW t \in Threads PROVE LockInv(t)'
      BY <2>1 DEF BaseInv, LockInv, Held
    <3> QED BY <3>1, <3>2, <3>3
  <2>3. BrickCount'
    BY <2>1 DEF BaseInv, BrickCount, Attaching
  <2> QED BY <2>2, <2>3 DEF BaseInv
<1>2. CASE Next
  <2>1. PICK t \in Threads :
          \/ Step(t) \/ Signal(t) \/ HandlerEnds(t) \/ SigLongjmp(t)
          \/ \E op \in Ops, f \in Fncs : BeginCall(t, op, f)
    BY <1>2 DEF Next
  <2> QED BY <2>1, StepBase, SignalBase, HandlerEndsBase, SigLongjmpBase, BeginCallBase
<1> QED BY <1>1, <1>2

LEMMA BaseInvAlways == Spec => []BaseInv
BY BaseInit, BaseNext, PTL DEF Spec

(***************************************************************************)
(* A thread holds the mutexes of the code it is in, no more and no fewer,  *)
(* whatever signals came and wherever they came: unlockMutex and           *)
(* relockMutex of box86context.c lose and keep none.                       *)
(***************************************************************************)
THEOREM LocksKeptAlways == Spec => []LocksKept
<1>1. BaseInv => LocksKept
  <2> SUFFICES ASSUME BaseInv, NEW t \in Threads
               PROVE  IF stack[t] = <<>> THEN Held(t) = {}
                      ELSE ~ At(t, "relock") => Held(t) = Needs(Top(t))
    BY DEF LocksKept
  <2>1. LockInv(t)
    BY DEF BaseInv
  <2> QED BY <2>1 DEF LockInv, At, Top
<1> QED BY <1>1, BaseInvAlways, PTL

-----------------------------------------------------------------------------
(***************************************************************************)
(* A step leaves every frame where it is but those of one thread from its  *)
(* k-th on, of which the k-th, if there is one then, becomes fr.           *)
(***************************************************************************)
Moved(t, k, fr) ==
  /\ \A u \in Threads : Len(stack[u]) \in Nat /\ Len(stack'[u]) \in Nat
  /\ \A u \in Threads : \A i \in 1 .. Len(stack'[u]) :
       IF u = t /\ i = k THEN stack'[u][i] = fr
       ELSE i \in 1 .. Len(stack[u]) /\ stack'[u][i] = stack[u][i]
  /\ \A u \in Threads : \A i \in 1 .. Len(stack[u]) :
       ~ (u = t /\ k <= i) => i \in 1 .. Len(stack'[u]) /\ stack'[u][i] = stack[u][i]

LEMMA MovedSetTop ==
  ASSUME TypeW, NEW t \in Threads, stack[t] # <<>>, NEW fr \in FrameW, SetTop(t, fr)
  PROVE  Moved(t, Len(stack[t]), fr) /\ Len(stack[t]) \in 1 .. Len(stack'[t])
<1> DEFINE n == Len(stack[t])
<1>0. stack \in [Threads -> Seq(FrameW)]
  BY DEF TypeW
<1>1. /\ stack' \in [Threads -> Seq(FrameW)]
      /\ \A u \in Threads \ {t} : stack'[u] = stack[u]
      /\ Len(stack'[t]) = n
      /\ stack'[t][n] = fr
      /\ \A i \in 1 .. n - 1 : stack'[t][i] = stack[t][i]
  BY <1>0, SetTopEffect
<1>2. n \in Nat /\ n >= 1 /\ \A u \in Threads : Len(stack[u]) \in Nat
  BY StackFrames
<1>3. \A i \in 1 .. n : i # n => i \in 1 .. n - 1
  BY <1>2
<1>4. \A i \in 1 .. n : ~ (n <= i) => i # n
  BY <1>2
<1>5. \A u \in Threads : Len(stack'[u]) \in Nat
  BY <1>1, <1>2
<1> QED BY <1>1, <1>2, <1>3, <1>4, <1>5 DEF Moved

LEMMA MovedPush ==
  ASSUME TypeW, NEW t \in Threads, NEW fr \in FrameW, Push(t, fr)
  PROVE  Moved(t, Len(stack[t]) + 1, fr)
<1> DEFINE n == Len(stack[t])
<1>0. stack \in [Threads -> Seq(FrameW)]
  BY DEF TypeW
<1>1. /\ stack' \in [Threads -> Seq(FrameW)]
      /\ \A u \in Threads \ {t} : stack'[u] = stack[u]
      /\ Len(stack'[t]) = n + 1
      /\ stack'[t][n + 1] = fr
      /\ \A i \in 1 .. n : stack'[t][i] = stack[t][i]
  BY <1>0, PushEffect
<1>2. n \in Nat /\ \A u \in Threads : Len(stack[u]) \in Nat
  BY StackFrames
<1>3. \A i \in 1 .. n + 1 : i # n + 1 => i \in 1 .. n
  BY <1>2
<1>4. \A i \in 1 .. n : i \in 1 .. n + 1
  BY <1>2
<1>5. \A u \in Threads : Len(stack'[u]) \in Nat
  BY <1>1, <1>2
<1> QED BY <1>1, <1>2, <1>3, <1>4, <1>5 DEF Moved

LEMMA MovedDrop ==
  ASSUME TypeW, NEW t \in Threads, NEW k \in 1 .. 2, k <= Len(stack[t]), Drop(t, k), NEW fr
  PROVE  Moved(t, Len(stack[t]) - k + 1, fr)
<1> DEFINE n == Len(stack[t])
           m == n - k
<1>0. stack \in [Threads -> Seq(FrameW)]
  BY DEF TypeW
<1>1. /\ \A u \in Threads \ {t} : stack'[u] = stack[u]
      /\ Len(stack'[t]) = m
      /\ \A i \in 1 .. m : stack'[t][i] = stack[t][i]
  BY <1>0, DropEffect
<1>2. n \in Nat /\ m \in Nat /\ m < n /\ \A u \in Threads : Len(stack[u]) \in Nat
  BY StackFrames
<1> HIDE DEF m
<1>3. \A i \in 1 .. m : i # m + 1 /\ i \in 1 .. n
  BY <1>2
<1>4. \A i \in 1 .. n : ~ (m + 1 <= i) => i \in 1 .. m
  BY <1>2
<1>5. \A u \in Threads : Len(stack'[u]) \in Nat
  BY <1>1, <1>2
<1>6. Moved(t, m + 1, fr)
  BY <1>1, <1>2, <1>3, <1>4, <1>5 DEF Moved
<1> QED BY <1>6 DEF m

\* The places of the stacks.
Place == {p \in Threads \X (Nat \ {0}) : p[2] \in 1 .. Len(stack[p[1]])}

\* Where the places of a stack come from.
LEMMA PlacesMoved ==
  ASSUME NEW t \in Threads, NEW k, NEW fr, Moved(t, k, fr), NEW p \in Place'
  PROVE  /\ p \in Threads \X (Nat \ {0}) /\ p[2] \in 1 .. Len(stack'[p[1]])
         /\ \/ p = <<t, k>> /\ k \in 1 .. Len(stack'[t]) /\ stack'[p[1]][p[2]] = fr
            \/ p \in Place /\ stack'[p[1]][p[2]] = stack[p[1]][p[2]]
<1>1. PICK u \in Threads, i \in Nat \ {0} : p = <<u, i>>
  BY DEF Place
<1>2. p[1] = u /\ p[2] = i /\ p \in Threads \X (Nat \ {0}) /\ i \in 1 .. Len(stack'[u])
  BY <1>1 DEF Place
<1>3. CASE u = t /\ i = k
  BY <1>1, <1>2, <1>3 DEF Moved
<1>4. CASE ~ (u = t /\ i = k)
  <2>1. i \in 1 .. Len(stack[u]) /\ stack'[u][i] = stack[u][i]
    BY <1>2, <1>4 DEF Moved
  <2> QED BY <1>2, <2>1 DEF Place
<1> QED BY <1>2, <1>3, <1>4

-----------------------------------------------------------------------------
(***************************************************************************)
(* The second layer: how far b->sz gets.  A call counts it up once, so it  *)
(* stays behind the calls that have not done so yet.                       *)
(***************************************************************************)
BeforeBump == BeforeAttach \union {"claim", "bump"}

Bumping == {p \in Place : stack[p[1]][p[2]].pc \in BeforeBump}

Fits(n) == n + Cardinality(Bumping) <= calls

RoomInv == /\ IsFiniteSet(Bumping)
           /\ \A b \in Bricks : Fits(sz[b])
           /\ \A t \in Threads : \A i \in 1 .. Len(stack[t]) : Fits(stack[t][i].sz)

LEMMA BumpingMoved ==
  ASSUME NEW t \in Threads, NEW k, NEW fr, Moved(t, k, fr)
  PROVE  /\ Bumping' \subseteq Bumping \union {<<t, k>>}
         /\ (k \in 1 .. Len(stack'[t]) /\ fr.pc \in BeforeBump => <<t, k>> \in Bumping) => Bumping' \subseteq Bumping
         /\ k \in 1 .. Len(stack'[t]) /\ fr.pc \notin BeforeBump => Bumping' \subseteq Bumping \ {<<t, k>>}
<1>0. ASSUME NEW p \in Bumping'
      PROVE  \/ k \in 1 .. Len(stack'[t]) /\ fr.pc \in BeforeBump /\ p = <<t, k>>
             \/ /\ p \in Bumping
                /\ p = <<t, k>> /\ k \in 1 .. Len(stack'[t]) => fr.pc \in BeforeBump
  <2>1. p \in Place' /\ stack'[p[1]][p[2]].pc \in BeforeBump
    BY DEF Bumping
  <2>2. \/ p = <<t, k>> /\ k \in 1 .. Len(stack'[t]) /\ stack'[p[1]][p[2]] = fr
        \/ p \in Place /\ stack'[p[1]][p[2]] = stack[p[1]][p[2]]
    BY <2>1, PlacesMoved
  <2>3. CASE p = <<t, k>> /\ k \in 1 .. Len(stack'[t]) /\ stack'[p[1]][p[2]] = fr
    <3>1. fr.pc \in BeforeBump
      BY <2>1, <2>3, Zenon
    <3> QED BY <2>3, <3>1, Zenon
  <2>4. CASE p \in Place /\ stack'[p[1]][p[2]] = stack[p[1]][p[2]]
    <3>1. p \in Bumping
      BY <2>1, <2>4, Zenon DEF Bumping
    <3>2. ASSUME p = <<t, k>>, k \in 1 .. Len(stack'[t]) PROVE fr.pc \in BeforeBump
      <4>1. stack'[t][k] = fr /\ p[1] = t /\ p[2] = k
        BY <3>2 DEF Moved
      <4> QED BY <2>1, <4>1
    <3> QED BY <3>1, <3>2
  <2> QED BY <2>2, <2>3, <2>4
<1> QED BY <1>0

\* What fits still fits when no call comes, when one comes and when one counts.
LEMMA FitsSame ==
  ASSUME RoomInv, Bumping' \subseteq Bumping, calls \in Nat, calls' = calls
  PROVE  IsFiniteSet(Bumping') /\ \A n \in Nat : Fits(n) => Fits(n)'
<1>1. IsFiniteSet(Bumping') /\ Cardinality(Bumping') <= Cardinality(Bumping)
  BY FS_Subset DEF RoomInv
<1>2. Cardinality(Bumping') \in Nat /\ Cardinality(Bumping) \in Nat
  BY <1>1, FS_CardinalityType DEF RoomInv
<1> QED BY <1>1, <1>2 DEF Fits

LEMMA AddOne ==
  ASSUME NEW S, NEW x, IsFiniteSet(S)
  PROVE  IsFiniteSet(S \union {x}) /\ Cardinality(S \union {x}) <= Cardinality(S) + 1
<1>1. Cardinality(S) \in Nat
  BY FS_CardinalityType
<1> QED BY <1>1, FS_AddElement

LEMMA FitsBegin ==
  ASSUME RoomInv, NEW p, Bumping' \subseteq Bumping \union {p}, calls \in Nat, calls' = calls + 1
  PROVE  IsFiniteSet(Bumping') /\ \A n \in Nat : Fits(n) => Fits(n)'
<1>1. Cardinality(Bumping) \in Nat
  BY FS_CardinalityType DEF RoomInv
<1>2. IsFiniteSet(Bumping \union {p}) /\ Cardinality(Bumping \union {p}) <= Cardinality(Bumping) + 1
  BY AddOne DEF RoomInv
<1>3. IsFiniteSet(Bumping') /\ Cardinality(Bumping') <= Cardinality(Bumping \union {p})
  BY <1>2, FS_Subset
<1>4. Cardinality(Bumping') \in Nat /\ Cardinality(Bumping \union {p}) \in Nat
  BY <1>2, <1>3, FS_CardinalityType
<1> QED BY <1>1, <1>2, <1>3, <1>4 DEF Fits

LEMMA FitsBump ==
  ASSUME RoomInv, NEW p \in Bumping, Bumping' \subseteq Bumping \ {p}, calls \in Nat, calls' = calls
  PROVE  IsFiniteSet(Bumping') /\ \A n \in Nat : Fits(n) => Fits(n)' /\ Fits(n + 1)'
<1>1. IsFiniteSet(Bumping \ {p}) /\ Cardinality(Bumping \ {p}) = Cardinality(Bumping) - 1
  BY FS_RemoveElement DEF RoomInv
<1>2. IsFiniteSet(Bumping') /\ Cardinality(Bumping') <= Cardinality(Bumping \ {p})
  BY <1>1, FS_Subset
<1>3. Cardinality(Bumping') \in Nat /\ Cardinality(Bumping) \in Nat
  BY <1>2, FS_CardinalityType DEF RoomInv
<1> QED BY <1>1, <1>2, <1>3 DEF Fits

LEMMA RoomStep ==
  ASSUME BaseInv, RoomInv, NEW t \in Threads, NEW k, NEW fr, Moved(t, k, fr),
         IsFiniteSet(Bumping'), \A n \in Nat : Fits(n) => Fits(n)',
         k \in 1 .. Len(stack'[t]) => fr.sz \in Nat /\ Fits(fr.sz)',
         \A b \in Bricks : sz'[b] = sz[b] \/ Fits(sz[b])'
  PROVE  RoomInv'
<1>1. ASSUME NEW b \in Bricks PROVE Fits(sz[b])'
  <2>1. sz[b] \in Nat /\ Fits(sz[b])
    BY DEF BaseInv, TypeW, RoomInv
  <2>2. PICK m : m = sz[b]
    OBVIOUS
  <2>3. Fits(m)'
    BY <2>1, <2>2
  <2>4. CASE sz'[b] = sz[b]
    BY <2>2, <2>3, <2>4 DEF Fits
  <2> QED BY <2>4
<1>2. ASSUME NEW u \in Threads, NEW i \in 1 .. Len(stack'[u]) PROVE Fits(stack[u][i].sz)'
  <2>1. CASE u = t /\ i = k
    <3>1. stack'[u][i] = fr /\ k \in 1 .. Len(stack'[t])
      BY <2>1 DEF Moved
    <3> QED BY <3>1 DEF Fits
  <2>2. CASE ~ (u = t /\ i = k)
    <3>1. i \in 1 .. Len(stack[u]) /\ stack'[u][i] = stack[u][i]
      BY <2>2 DEF Moved
    <3>2. stack[u][i] \in FrameW
      BY <3>1, BaseFacts, StackFrames
    <3>3. PICK m : m = stack[u][i].sz
      OBVIOUS
    <3>4. m \in Nat /\ Fits(m)
      BY <3>1, <3>2, <3>3 DEF FrameW, RoomInv
    <3>5. Fits(m)'
      BY <3>4
    <3> QED BY <3>1, <3>3, <3>5 DEF Fits
  <2> QED BY <2>1, <2>2
<1> QED BY <1>1, <1>2 DEF RoomInv

\* Zero fits.
LEMMA FitsZero == ASSUME BaseInv, RoomInv PROVE Fits(0)
<1>1. 1 \in Bricks
  BY BridgeAssumption DEF Bricks
<1>2. sz[1] \in Nat /\ Fits(sz[1])
  BY <1>1 DEF BaseInv, TypeW, RoomInv
<1>3. Cardinality(Bumping) \in Nat /\ calls \in Nat
  BY FS_CardinalityType, BaseFacts DEF RoomInv
<1> QED BY <1>2, <1>3 DEF Fits

\* The innermost frame goes on: no call gets nearer to counting, and what it
\* knows of b->sz is what it knew, or what b->sz is.
Onward(t, fr) == /\ stack[t] # <<>> /\ SetTop(t, fr)
                 /\ fr.sz = Top(t).sz \/ fr.sz = sz[Top(t).b]
                 /\ fr.pc \in BeforeBump => Top(t).pc \in BeforeBump
                 /\ UNCHANGED <<sz, calls, opened>>

LEMMA RoomTop ==
  ASSUME BaseInv, RoomInv, NEW t \in Threads, NEW fr \in FrameW, Onward(t, fr)
  PROVE  RoomInv'
<1>1. PICK n : n = Len(stack[t])
  OBVIOUS
<1>2. /\ TypeW /\ calls \in Nat /\ n \in Nat /\ n >= 1 /\ Top(t) = stack[t][n] /\ Top(t) \in FrameW
      /\ n \in 1 .. Len(stack[t]) /\ SetTop(t, fr) /\ stack[t] # <<>>
  BY <1>1, BaseFacts, StackFrames DEF Top, Onward
<1>3. Moved(t, n, fr)
  BY <1>1, <1>2, MovedSetTop
<1>4. PICK p : p = <<t, n>>
  OBVIOUS
<1>5. p \in Place /\ p[1] = t /\ p[2] = n
  BY <1>2, <1>4 DEF Place
<1>6. fr.pc \in BeforeBump => p \in Bumping
  BY <1>2, <1>5 DEF Onward, Bumping
<1>7. Bumping' \subseteq Bumping
  BY <1>3, <1>4, <1>6, BumpingMoved
<1>8. IsFiniteSet(Bumping') /\ \A m \in Nat : Fits(m) => Fits(m)'
  BY <1>2, <1>7, FitsSame DEF Onward
<1>9. fr.sz \in Nat /\ Fits(fr.sz)
  <2>1. Fits(Top(t).sz) /\ Top(t).b \in Bricks
    BY <1>2 DEF RoomInv, FrameW
  <2>2. Fits(sz[Top(t).b])
    BY <2>1 DEF RoomInv
  <2>3. fr.sz = Top(t).sz \/ fr.sz = sz[Top(t).b]
    BY DEF Onward
  <2> QED BY <2>1, <2>2, <2>3 DEF FrameW
<1>10. PICK m : m = fr.sz
  OBVIOUS
<1>11. Fits(m)'
  BY <1>8, <1>9, <1>10
<1> QED BY <1>3, <1>8, <1>9, <1>10, <1>11, RoomStep DEF Onward, Fits

\* Frames go.
LEMMA RoomDrop ==
  ASSUME BaseInv, RoomInv, NEW t \in Threads, NEW k \in 1 .. 2, k <= Len(stack[t]), Drop(t, k),
         UNCHANGED <<sz, calls>>
  PROVE  RoomInv'
<1>1. TypeW /\ calls \in Nat /\ Len(stack[t]) \in Nat
  BY BaseFacts, StackFrames
<1>2. PICK m, fr : m = Len(stack[t]) - k + 1 /\ fr = Handler({})
  OBVIOUS
<1>3. Moved(t, m, fr)
  BY <1>1, <1>2, MovedDrop
<1>4. Len(stack'[t]) = Len(stack[t]) - k
  BY <1>1, DropEffect DEF TypeW
<1>5. m \notin 1 .. Len(stack'[t])
  BY <1>1, <1>2, <1>4
<1>6. Bumping' \subseteq Bumping
  BY <1>3, <1>5, BumpingMoved
<1>7. IsFiniteSet(Bumping') /\ \A n \in Nat : Fits(n) => Fits(n)'
  BY <1>1, <1>6, FitsSame
<1> QED BY <1>3, <1>5, <1>7, RoomStep

\* A frame comes: a call that has just begun, or a handler.
LEMMA RoomPush ==
  ASSUME BaseInv, RoomInv, NEW t \in Threads, NEW fr \in FrameW, Push(t, fr), fr.sz = 0, UNCHANGED sz,
         calls' = calls + 1 \/ (calls' = calls /\ fr.pc \notin BeforeBump)
  PROVE  RoomInv'
<1>1. TypeW /\ calls \in Nat /\ Len(stack[t]) \in Nat
  BY BaseFacts, StackFrames
<1>2. PICK m : m = Len(stack[t]) + 1
  OBVIOUS
<1>3. Moved(t, m, fr)
  BY <1>1, <1>2, MovedPush
<1>4. /\ Bumping' \subseteq Bumping \union {<<t, m>>}
      /\ fr.pc \notin BeforeBump => Bumping' \subseteq Bumping
  BY <1>3, BumpingMoved
<1>5. IsFiniteSet(Bumping') /\ \A n \in Nat : Fits(n) => Fits(n)'
  <2>1. CASE calls' = calls + 1
    BY <1>1, <1>4, <2>1, FitsBegin
  <2>2. CASE calls' = calls /\ fr.pc \notin BeforeBump
    BY <1>1, <1>4, <2>2, FitsSame
  <2> QED BY <2>1, <2>2
<1>6. Fits(0)'
  BY <1>5, FitsZero
<1> QED BY <1>3, <1>5, <1>6, RoomStep DEF Fits

\* A call counts b->sz up, from what it is or from what the call knew.
LEMMA RoomBump ==
  ASSUME BaseInv, BaseInv', RoomInv, NEW t \in Threads, Bump(t)
  PROVE  RoomInv'
<1>1. PICK n, fr : /\ n = Len(stack[t]) /\ fr = [Top(t) EXCEPT !.pc = "put"] /\ SetTop(t, fr)
                   /\ stack[t] # <<>> /\ Top(t).pc = "bump" /\ calls' = calls
  BY DEF Bump, Goto, At, budget
<1>2. PICK j \in {sz[Top(t).b], Top(t).sz} : sz' = [sz EXCEPT ![Top(t).b] = j + 1]
  BY DEF Bump
<1>3. /\ TypeW /\ calls \in Nat /\ n \in Nat /\ n >= 1 /\ Top(t) = stack[t][n] /\ Top(t) \in FrameW
      /\ n \in 1 .. Len(stack[t])
  BY <1>1, BaseFacts, StackFrames DEF Top
<1>4. fr \in FrameW /\ fr.pc = "put" /\ fr.sz = Top(t).sz /\ Top(t).b \in Bricks /\ Top(t).sz \in Nat
  BY <1>1, <1>3 DEF FrameW, PCs
<1>5. Moved(t, n, fr) /\ n \in 1 .. Len(stack'[t])
  BY <1>1, <1>3, <1>4, MovedSetTop
<1>6. PICK p : p = <<t, n>>
  OBVIOUS
<1>7. p \in Place /\ p[1] = t /\ p[2] = n
  BY <1>3, <1>6 DEF Place
<1>8. p \in Bumping
  BY <1>1, <1>3, <1>7 DEF Bumping, BeforeBump
<1>9. fr.pc \notin BeforeBump
  BY <1>4 DEF BeforeBump, BeforeAttach, InNewBrick
<1>10. Bumping' \subseteq Bumping \ {p}
  BY <1>5, <1>6, <1>9, BumpingMoved
<1>11. IsFiniteSet(Bumping') /\ \A m \in Nat : Fits(m) => Fits(m)' /\ Fits(m + 1)'
  BY <1>1, <1>3, <1>8, <1>10, FitsBump
<1>12. j \in Nat /\ Fits(j) /\ Fits(Top(t).sz)
  BY <1>3, <1>4 DEF RoomInv, TypeW
<1>13. Fits(j + 1)'
  BY <1>11, <1>12
<1>14. \A b \in Bricks : sz'[b] = sz[b] \/ Fits(sz[b])'
  <2>1. \A b \in Bricks : sz'[b] = sz[b] \/ sz'[b] = j + 1
    BY <1>2, <1>3 DEF TypeW
  <2> QED BY <1>13, <2>1 DEF Fits
<1>15. PICK m : m = fr.sz
  OBVIOUS
<1>16. m \in Nat /\ Fits(m)'
  BY <1>4, <1>11, <1>12, <1>15
<1>17. fr.sz \in Nat /\ Fits(fr.sz)'
  BY <1>15, <1>16
<1> QED BY <1>5, <1>11, <1>14, <1>15, <1>16, RoomStep DEF Fits

\* The steps of a call or a handler that neither begin nor end it, but Bump.
LEMMA GotoOnward ==
  ASSUME BaseInv, NEW t \in Threads,
         \/ LockBridge(t) \/ LockProt(t) \/ LockBlocks(t) \/ UnlockBlocks(t) \/ UnlockProt(t)
         \/ Put(t) \/ UnlockBridge(t) \/ HasAlternate(t) \/ AddAlternate(t) \/ HandlerEnds(t)
  PROVE  \E fr \in FrameW : Onward(t, fr)
<1>1. PICK p, pc : /\ At(t, p) /\ Goto(t, pc) /\ pc \in PCs \union {"relock"}
                   /\ pc \in BeforeBump => p \in BeforeBump
                   /\ UNCHANGED <<sz, calls, opened>>
  <2>1. CASE LockBridge(t) \/ LockProt(t) \/ LockBlocks(t) \/ UnlockBlocks(t) \/ UnlockProt(t)
    <3>1. PICK p, pc : /\ At(t, p) /\ Goto(t, pc) /\ UNCHANGED <<sz, calls, opened>>
                       /\ p \in {"lock", "prot", "node", "noded", "protd"}
                       /\ pc \in {"full", "node", "protd", "noded", "return", "attach"}
      BY <2>1 DEF LockBridge, LockProt, LockBlocks, UnlockBlocks, UnlockProt, bridgeVars, budget, history
    <3>2. p \in BeforeBump /\ pc \in PCs
      BY <3>1 DEF BeforeBump, BeforeAttach, InNewBrick, PCs
    <3> QED BY <3>1, <3>2
  <2>2. CASE Put(t) \/ UnlockBridge(t) \/ HasAlternate(t) \/ AddAlternate(t) \/ HandlerEnds(t)
    <3>1. PICK p, pc : /\ At(t, p) /\ Goto(t, pc) /\ UNCHANGED <<sz, calls, opened>>
                       /\ pc \in {"unlock", "CC", "alt", "return", "relock"}
      BY <2>2 DEF Put, UnlockBridge, HasAlternate, AddAlternate, HandlerEnds, bridgeVars, budget, history
    <3>2. pc \notin BeforeBump /\ pc \in PCs \union {"relock"}
      BY <3>1 DEF BeforeBump, BeforeAttach, InNewBrick, PCs
    <3> QED BY <3>1, <3>2
  <2> QED BY <2>1, <2>2
<1>2. PICK fr : fr = [Top(t) EXCEPT !.pc = pc] /\ SetTop(t, fr)
  BY <1>1 DEF Goto
<1>3. stack[t] # <<>> /\ Top(t).pc = p /\ Top(t) \in FrameW
  BY <1>1, BaseFacts, StackFrames DEF At
<1>4. fr \in FrameW /\ fr.pc = pc /\ fr.sz = Top(t).sz
  BY <1>1, <1>2, <1>3 DEF FrameW
<1> QED BY <1>1, <1>2, <1>3, <1>4 DEF Onward

LEMMA CallOnward ==
  ASSUME BaseInv, BaseInv', NEW t \in Threads,
         \/ CheckBridged(t) \/ TestFull(t) \/ Attach(t) \/ Claim(t)
         \/ WriteHead(t) \/ WriteFnc(t) \/ WriteTail(t) \/ Relock(t)
  PROVE  \E fr \in FrameW : Onward(t, fr)
<1>1. PICK fr : /\ stack[t] # <<>> /\ SetTop(t, fr) /\ UNCHANGED <<sz, calls, opened>>
                /\ fr.sz = Top(t).sz \/ fr.sz = sz[Top(t).b]
                /\ fr.pc \in BeforeBump => Top(t).pc \in BeforeBump
  <2>0. ASSUME stack[t] # <<>> PROVE Top(t) \in FrameW
    BY <2>0, BaseFacts, StackFrames
  <2>1. CASE CheckBridged(t)
    <3>1. At(t, "check") /\ UNCHANGED <<sz, calls, opened>>
      BY <2>1 DEF CheckBridged, bridgeVars, budget, history
    <3>2. PICK fr : /\ SetTop(t, fr)
                    /\ fr = IF bridgemap[Top(t).fnc] = NoSlot THEN [Top(t) EXCEPT !.pc = "lock"]
                            ELSE [Top(t) EXCEPT !.ret = bridgemap[Top(t).fnc], !.pc = After(Top(t).op)]
      BY <2>1 DEF CheckBridged, Goto
    <3>3. stack[t] # <<>> /\ Top(t).pc \in BeforeBump
      BY <3>1 DEF At, BeforeBump, BeforeAttach
    <3>4. fr.sz = Top(t).sz
      BY <2>0, <3>2, <3>3 DEF FrameW
    <3> QED BY <3>1, <3>2, <3>3, <3>4
  <2>2. CASE TestFull(t)
    <3>1. At(t, "full") /\ UNCHANGED <<sz, calls, opened>>
      BY <2>2 DEF TestFull, bridgeVars, budget, history
    <3>2. PICK fr : /\ SetTop(t, fr)
                    /\ fr = [Top(t) EXCEPT !.b = last, !.pc = IF Full(last) THEN "prot" ELSE "claim"]
      BY <2>2 DEF TestFull
    <3>3. stack[t] # <<>> /\ Top(t).pc \in BeforeBump
      BY <3>1 DEF At, BeforeBump, BeforeAttach
    <3>4. fr.sz = Top(t).sz
      BY <2>0, <3>2, <3>3 DEF FrameW
    <3> QED BY <3>1, <3>2, <3>3, <3>4
  <2>3. CASE Attach(t)
    <3>1. At(t, "attach") /\ UNCHANGED <<sz, calls, opened>>
      BY <2>3 DEF Attach, budget, history
    <3>2. PICK fr : SetTop(t, fr) /\ fr = [Top(t) EXCEPT !.b = bricks', !.pc = "claim"]
      BY <2>3 DEF Attach
    <3>3. stack[t] # <<>> /\ Top(t).pc \in BeforeBump
      BY <3>1 DEF At, BeforeBump, BeforeAttach
    <3>4. fr.sz = Top(t).sz
      BY <2>0, <3>2, <3>3 DEF FrameW
    <3> QED BY <3>1, <3>2, <3>3, <3>4
  <2>4. CASE Claim(t)
    <3>1. At(t, "claim") /\ UNCHANGED <<sz, calls, opened>>
      BY <2>4 DEF Claim, bridgeVars, budget, history
    <3>2. PICK fr : SetTop(t, fr) /\ fr = [Top(t) EXCEPT !.sz = sz[Top(t).b], !.pc = "bump"]
      BY <2>4 DEF Claim
    <3>3. stack[t] # <<>> /\ Top(t).pc \in BeforeBump
      BY <3>1 DEF At, BeforeBump
    <3>4. fr.sz = sz[Top(t).b]
      BY <2>0, <3>2, <3>3 DEF FrameW
    <3> QED BY <3>1, <3>2, <3>3, <3>4
  <2>5. CASE WriteHead(t) \/ WriteFnc(t) \/ WriteTail(t)
    <3>1. PICK pc, fnc, n, next : Write(t, pc, fnc, n, next) /\ next \in {"f", "C3", "has", "return"}
      BY <2>5 DEF WriteHead, WriteFnc, WriteTail, After
    <3>2. stack[t] # <<>> /\ UNCHANGED <<sz, calls, opened>>
      BY <3>1 DEF Write, At, budget, history
    <3>3. PICK fr : SetTop(t, fr) /\ fr = [Top(t) EXCEPT !.ret = Slot(Top(t)), !.pc = next]
      BY <3>1 DEF Write
    <3>4. fr.sz = Top(t).sz /\ fr.pc = next
      BY <2>0, <3>2, <3>3 DEF FrameW
    <3>5. fr.pc \notin BeforeBump
      BY <3>1, <3>4 DEF BeforeBump, BeforeAttach, InNewBrick
    <3> QED BY <3>2, <3>3, <3>4, <3>5
  <2>6. CASE Relock(t)
    <3>1. PICK m : /\ At(t, "relock") /\ SetTop(t, [Top(t) EXCEPT !.saved = @ \ {m}])
                   /\ UNCHANGED <<sz, calls, opened>>
      BY <2>6 DEF Relock, bridgeVars, budget, history
    <3>2. PICK fr : fr = [Top(t) EXCEPT !.saved = @ \ {m}]
      OBVIOUS
    <3>3. stack[t] # <<>> /\ fr.sz = Top(t).sz /\ fr.pc = Top(t).pc
      BY <2>0, <3>1, <3>2 DEF FrameW, At
    <3> QED BY <3>1, <3>2, <3>3
  <2> QED BY <2>1, <2>2, <2>3, <2>4, <2>5, <2>6
<1>2. fr \in FrameW
  <2>1. PICK n : n = Len(stack[t])
    OBVIOUS
  <2>2. stack[t] \in Seq(FrameW) /\ n \in Nat /\ n \in 1 .. n /\ TypeW /\ TypeW'
    BY <1>1, <2>1, BaseFacts, StackFrames DEF BaseInv
  <2>3. stack'[t] = [stack[t] EXCEPT ![n] = fr] /\ stack'[t] \in Seq(FrameW)
    BY <1>1, <2>1, <2>2 DEF SetTop, TypeW
  <2>4. DOMAIN stack[t] = 1 .. n
    BY <2>1, <2>2, LenProperties
  <2>5. stack'[t][n] = fr /\ DOMAIN stack'[t] = 1 .. n
    BY <2>2, <2>3, <2>4, LenProperties
  <2>6. Len(stack'[t]) \in Nat /\ DOMAIN stack'[t] = 1 .. Len(stack'[t])
    BY <2>3, LenProperties
  <2>7. n \in 1 .. Len(stack'[t])
    BY <2>2, <2>5, <2>6
  <2> QED BY <2>3, <2>5, <2>7, ElementOfSeq
<1> QED BY <1>1, <1>2 DEF Onward

\* A step of a call or a handler: it goes on, counts b->sz up, or ends.
LEMMA StepKinds ==
  ASSUME BaseInv, BaseInv', NEW t \in Threads, Step(t) \/ HandlerEnds(t) \/ SigLongjmp(t)
  PROVE  \/ \E fr \in FrameW : Onward(t, fr)
         \/ Bump(t)
         \/ \E k \in 1 .. 2 : k <= Len(stack[t]) /\ Drop(t, k) /\ UNCHANGED <<sz, calls, opened>>
<1>1. ASSUME Return(t) \/ SigReturn(t) \/ SigLongjmp(t)
      PROVE  \E k \in 1 .. 2 : k <= Len(stack[t]) /\ Drop(t, k) /\ UNCHANGED <<sz, calls, opened>>
  <2>1. CASE Return(t) \/ SigReturn(t)
    <3>1. stack[t] # <<>> /\ Drop(t, 1) /\ UNCHANGED <<sz, calls, opened>>
      BY <2>1 DEF Return, SigReturn, At, bridgeVars, budget, history
    <3>2. Len(stack[t]) >= 1
      BY <3>1, BaseFacts, StackFrames
    <3> QED BY <3>1, <3>2
  <2>2. CASE SigLongjmp(t)
    <3>1. At(t, "run") /\ Drop(t, 2) /\ UNCHANGED <<sz, calls, opened>>
      BY <2>2 DEF SigLongjmp, bridgeVars
    <3>2. Len(stack[t]) >= 2
      BY <3>1, HandlerTop
    <3> QED BY <3>1, <3>2
  <2> QED BY <1>1, <2>1, <2>2
<1> QED BY <1>1, GotoOnward, CallOnward DEF Step

LEMMA RoomInit == Init => RoomInv
<1> SUFFICES ASSUME Init PROVE RoomInv
  OBVIOUS
<1>1. stack = [t \in Threads |-> <<>>] /\ calls = 0 /\ sz = [b \in Bricks |-> 0]
  BY DEF Init
<1>2. \A t \in Threads : Len(stack[t]) = 0
  BY <1>1, EmptySeq
<1>3. Bumping = {}
  BY <1>2 DEF Bumping, Place
<1>4. IsFiniteSet(Bumping) /\ Cardinality(Bumping) = 0
  BY <1>3, FS_EmptySet
<1> QED BY <1>1, <1>2, <1>4 DEF RoomInv, Fits

LEMMA RoomNext == BaseInv /\ BaseInv' /\ RoomInv /\ [Next]_vars => RoomInv'
<1> SUFFICES ASSUME BaseInv, BaseInv', RoomInv, [Next]_vars PROVE RoomInv'
  OBVIOUS
<1>1. CASE UNCHANGED vars
  BY <1>1 DEF vars, RoomInv, Fits, Bumping, Place
<1>2. CASE Next
  <2>1. PICK t \in Threads :
          \/ Step(t) \/ Signal(t) \/ HandlerEnds(t) \/ SigLongjmp(t)
          \/ \E op \in Ops, f \in Fncs : BeginCall(t, op, f)
    BY <1>2 DEF Next
  <2>2. CASE Step(t) \/ HandlerEnds(t) \/ SigLongjmp(t)
    BY <2>2, StepKinds, RoomTop, RoomBump, RoomDrop
  <2>3. CASE Signal(t)
    <3>1. PICK fr : fr = Handler(Held(t)) /\ Push(t, fr) /\ UNCHANGED <<sz, calls>>
      BY <2>3 DEF Signal, unlockMutex, bridgeVars
    <3>2. 1 \in Bricks /\ NoSlot \in Nat \X Nat /\ Held(t) \in SUBSET Mutexes
      BY BridgeAssumption DEF Bricks, NoSlot, Held
    <3>3. fr \in FrameW /\ fr.sz = 0 /\ fr.pc = "run"
      BY <3>1, <3>2 DEF FrameW, Handler, Call
    <3> QED BY <3>1, <3>3, RoomPush DEF BeforeBump, BeforeAttach, InNewBrick
  <2>4. CASE \E op \in Ops, f \in Fncs : BeginCall(t, op, f)
    <3>1. PICK op \in Ops, f \in Fncs : BeginCall(t, op, f)
      BY <2>4
    <3>2. PICK fr : /\ fr = Call(op, Start(op), IF op \in {"protect", "malloc"} THEN None ELSE f)
                    /\ Push(t, fr) /\ UNCHANGED sz /\ calls' = calls + 1
      BY <3>1 DEF BeginCall, bridgeVars
    <3>3. op \in {"check", "auto", "add", "protect", "malloc"} /\ 1 \in Bricks /\ NoSlot \in Nat \X Nat
      BY BridgeAssumption DEF Bricks, NoSlot
    <3>4. Start(op) \in PCs
      BY <3>3 DEF Start, PCs
    <3>5. fr \in FrameW /\ fr.sz = 0
      BY <3>2, <3>3, <3>4 DEF FrameW, Call
    <3> QED BY <3>2, <3>5, RoomPush
  <2> QED BY <2>1, <2>2, <2>3, <2>4
<1> QED BY <1>1, <1>2

-----------------------------------------------------------------------------
\* A call that a signal interrupted between test and increment: its brick is opened.
Covered(fr) == fr.pc \in {"claim", "bump"} => fr.b \in opened

CoveredInv == \A t \in Threads : \A i \in 1 .. Len(stack[t]) - 1 : Covered(stack[t][i])

LEMMA CoveredTop ==
  ASSUME BaseInv, CoveredInv, NEW t \in Threads, stack[t] # <<>>, NEW fr \in FrameW, SetTop(t, fr), opened' = opened
  PROVE  CoveredInv'
<1>1. /\ \A u \in Threads \ {t} : stack'[u] = stack[u]
      /\ Len(stack'[t]) = Len(stack[t])
      /\ \A i \in 1 .. Len(stack[t]) - 1 : stack'[t][i] = stack[t][i]
  BY SetTopEffect DEF BaseInv, TypeW
<1> QED BY <1>1 DEF CoveredInv, Covered

LEMMA CoveredDrop ==
  ASSUME BaseInv, CoveredInv, NEW t \in Threads, NEW k \in 1 .. 2, k <= Len(stack[t]), Drop(t, k), opened' = opened
  PROVE  CoveredInv'
<1>1. /\ \A u \in Threads \ {t} : stack'[u] = stack[u]
      /\ Len(stack'[t]) = Len(stack[t]) - k
      /\ \A i \in 1 .. Len(stack[t]) - k : stack'[t][i] = stack[t][i]
  BY DropEffect DEF BaseInv, TypeW
<1>2. Len(stack[t]) \in Nat
  BY BaseFacts, StackFrames
<1>3. \A i \in 1 .. Len(stack'[t]) - 1 : i \in 1 .. Len(stack[t]) - k /\ i \in 1 .. Len(stack[t]) - 1
  BY <1>1, <1>2
<1> QED BY <1>1, <1>3 DEF CoveredInv, Covered

LEMMA CoveredPush ==
  ASSUME BaseInv, CoveredInv, NEW t \in Threads, NEW fr \in FrameW, Push(t, fr), opened \subseteq opened',
         stack[t] # <<>> => (Top(t).pc \in {"claim", "bump"} => Top(t).b \in opened')
  PROVE  CoveredInv'
<1>1. /\ \A u \in Threads \ {t} : stack'[u] = stack[u]
      /\ Len(stack'[t]) = Len(stack[t]) + 1
      /\ \A i \in 1 .. Len(stack[t]) : stack'[t][i] = stack[t][i]
  BY PushEffect DEF BaseInv, TypeW
<1>2. Len(stack[t]) \in Nat /\ (Len(stack[t]) > 0 => stack[t] # <<>>)
  BY BaseFacts, StackFrames
<1>3. ASSUME NEW u \in Threads, NEW i \in 1 .. Len(stack'[u]) - 1 PROVE Covered(stack[u][i])'
  <2>1. CASE u # t
    BY <1>1, <1>3, <2>1 DEF CoveredInv, Covered
  <2>2. CASE u = t
    <3>1. i \in 1 .. Len(stack[t]) /\ stack'[u][i] = stack[t][i] /\ stack[t] # <<>>
      BY <1>1, <1>2, <1>3, <2>2
    <3>2. CASE i = Len(stack[t])
      BY <3>1, <3>2 DEF Covered, Top
    <3>3. CASE i # Len(stack[t])
      <4>1. i \in 1 .. Len(stack[t]) - 1
        BY <1>2, <3>1, <3>3
      <4>2. Covered(stack[t][i])
        BY <4>1 DEF CoveredInv
      <4> QED BY <3>1, <4>2 DEF Covered
    <3> QED BY <3>2, <3>3
  <2> QED BY <2>1, <2>2
<1> QED BY <1>3 DEF CoveredInv

LEMMA CoveredInit == Init => CoveredInv
<1> SUFFICES ASSUME Init PROVE CoveredInv
  OBVIOUS
<1>1. \A t \in Threads : Len(stack[t]) = 0
  BY EmptySeq DEF Init
<1> QED BY <1>1 DEF CoveredInv

LEMMA CoveredNext == BaseInv /\ BaseInv' /\ CoveredInv /\ [Next]_vars => CoveredInv'
<1> SUFFICES ASSUME BaseInv, BaseInv', CoveredInv, [Next]_vars PROVE CoveredInv'
  OBVIOUS
<1>1. CASE UNCHANGED vars
  BY <1>1 DEF vars, CoveredInv, Covered
<1>2. CASE Next
  <2>1. PICK t \in Threads :
          \/ Step(t) \/ Signal(t) \/ HandlerEnds(t) \/ SigLongjmp(t)
          \/ \E op \in Ops, f \in Fncs : BeginCall(t, op, f)
    BY <1>2 DEF Next
  <2>2. CASE Step(t) \/ HandlerEnds(t) \/ SigLongjmp(t)
    <3>1. CASE \E fr \in FrameW : Onward(t, fr)
      BY <3>1, CoveredTop DEF Onward
    <3>2. CASE Bump(t)
      <4>1. PICK fr : /\ fr = [Top(t) EXCEPT !.pc = "put"] /\ SetTop(t, fr)
                      /\ stack[t] # <<>> /\ opened' = opened
        BY <3>2 DEF Bump, Goto, At, budget, history
      <4>2. fr \in FrameW
        <5>1. Top(t) \in FrameW
          BY <4>1, BaseFacts, StackFrames
        <5> QED BY <4>1, <5>1 DEF FrameW, PCs
      <4> QED BY <4>1, <4>2, CoveredTop
    <3> QED BY <2>2, <3>1, <3>2, StepKinds, CoveredDrop
  <2>3. CASE Signal(t)
    <3>1. PICK fr : fr = Handler(Held(t)) /\ Push(t, fr)
      BY <2>3 DEF Signal, unlockMutex
    <3>2. 1 \in Bricks /\ NoSlot \in Nat \X Nat /\ Held(t) \in SUBSET Mutexes
      BY BridgeAssumption DEF Bricks, NoSlot, Held
    <3>3. fr \in FrameW
      BY <3>1, <3>2 DEF FrameW, Handler, Call
    <3>4. opened \subseteq opened' /\ (Top(t).pc \in {"claim", "bump"} => Top(t).b \in opened')
      BY <2>3 DEF Signal
    <3> QED BY <3>1, <3>3, <3>4, CoveredPush
  <2>4. CASE \E op \in Ops, f \in Fncs : BeginCall(t, op, f)
    <3>1. PICK op \in Ops, f \in Fncs : BeginCall(t, op, f)
      BY <2>4
    <3>2. PICK fr : /\ fr = Call(op, Start(op), IF op \in {"protect", "malloc"} THEN None ELSE f)
                    /\ Push(t, fr) /\ opened' = opened
                    /\ stack[t] # <<>> => Top(t).pc = "run"
      BY <3>1 DEF BeginCall, history, At
    <3>3. op \in {"check", "auto", "add", "protect", "malloc"} /\ 1 \in Bricks /\ NoSlot \in Nat \X Nat
      BY BridgeAssumption DEF Bricks, NoSlot
    <3>4. Start(op) \in PCs
      BY <3>3 DEF Start, PCs
    <3>5. fr \in FrameW
      BY <3>2, <3>3, <3>4 DEF FrameW, Call
    <3> QED BY <3>2, <3>5, CoveredPush
  <2> QED BY <2>1, <2>2, <2>3, <2>4
<1> QED BY <1>1, <1>2

\* What the other layers start from.
EntryInv == BaseInv /\ RoomInv /\ CoveredInv

LEMMA EntryInvAlways == Spec => []EntryInv
<1>1. Init => EntryInv
  BY BaseInit, RoomInit, CoveredInit DEF EntryInv
<1>2. EntryInv /\ [Next]_vars => EntryInv'
  BY BaseNext, RoomNext, CoveredNext DEF EntryInv
<1> QED BY <1>1, <1>2, PTL DEF Spec

-----------------------------------------------------------------------------
(***************************************************************************)
(* The third layer: the bridges that calls have taken.                     *)
(***************************************************************************)
\* The call has taken its bridge and has not finished it.
Owns(fr) == fr.pc \in {"put", "unlock", "CC", "f", "C3"}

\* How much of its bridge a call has written.
Progress(fr) == IF fr.pc = "f" THEN 1 ELSE IF fr.pc = "C3" THEN 2 ELSE 0

\* The bridge of a call is free until b->sz counts it, and then the call's own;
\* of a brick that a signal opened nothing is known.
SlotOK(fr) ==
  /\ fr.pc \in {"claim", "bump"} => fr.b <= bricks
  /\ fr.b \notin opened =>
       /\ fr.pc \in {"claim", "bump"} => sz[fr.b] < NBRICK
       /\ fr.pc = "bump" => fr.sz = sz[fr.b]
       /\ Owns(fr) => fr.sz < sz[fr.b] /\ cell[Slot(fr)].written = Progress(fr)

TypeS == /\ sz \in [Bricks -> 0 .. MaxCalls]
         /\ bridgemap \in [Fncs -> Slots \union {NoSlot}]
         /\ cell \in [Slots -> [fnc : Fncs \union {None}, written : 0 .. 3]]
         /\ alternates \in [Fncs -> Slots \union {NoSlot}]
         /\ opened \subseteq Bricks /\ canceled \subseteq Slots

\* Bricks to come are empty, b->sz stays in its brick, and a bridge that it does
\* not count is not written.
FreeOK == /\ \A b \in Bricks : bricks < b => sz[b] = 0
          /\ \A b \in Bricks \ opened : sz[b] <= NBRICK
          /\ \A b \in Bricks \ opened, k \in 0 .. MaxCalls : sz[b] <= k => cell[<<b, k>>].written = 0

OwnDistinct == \A t, u \in Threads : \A i \in 1 .. Len(stack[t]), j \in 1 .. Len(stack[u]) :
  Owns(stack[t][i]) /\ Owns(stack[u][j]) /\ stack[t][i].b \notin opened /\ (t # u \/ i # j) =>
  Slot(stack[t][i]) # Slot(stack[u][j])

SlotInv == /\ TypeS /\ FreeOK /\ OwnDistinct
           /\ \A t \in Threads : \A i \in 1 .. Len(stack[t]) : stack[t][i] \in Frame /\ SlotOK(stack[t][i])

(***************************************************************************)
(* The fourth layer: what the maps point to.                               *)
(***************************************************************************)
\* Bridge s is the one of function f, or a call is about to make it so or would
\* have, or its brick was opened.
Sound(f, s) ==
  \/ s = NoSlot
  \/ cell[s] = [fnc |-> f, written |-> 3]
  \/ \E t \in Threads : \E i \in 1 .. Len(stack[t]) :
       /\ stack[t][i].pc \in {"unlock", "CC", "f", "C3"}
       /\ stack[t][i].fnc = f /\ Slot(stack[t][i]) = s
  \/ s \in canceled \/ s[1] \in opened

MapInv == /\ \A f \in Fncs : Sound(f, bridgemap[f]) /\ Sound(f, alternates[f])
          /\ \A t \in Threads : \A i \in 1 .. Len(stack[t]) :
               /\ stack[t][i].pc \in {"has", "alt"} => Sound(stack[t][i].fnc, stack[t][i].ret)
               /\ stack[t][i].pc = "C3" /\ stack[t][i].b \notin opened =>
                    cell[Slot(stack[t][i])].fnc = stack[t][i].fnc

-----------------------------------------------------------------------------
\* A call between the test of b->sz and its increment is the only one there.
LEMMA OneTakes ==
  ASSUME BaseInv, CoveredInv,
         NEW t \in Threads, NEW i \in 1 .. Len(stack[t]), stack[t][i].pc \in {"claim", "bump"}, stack[t][i].b \notin opened,
         NEW u \in Threads, NEW j \in 1 .. Len(stack[u]), stack[u][j].pc \in {"claim", "bump"}, stack[u][j].b \notin opened
  PROVE  t = u /\ i = j /\ i = Len(stack[t])
<1>1. ASSUME NEW v \in Threads, NEW k \in 1 .. Len(stack[v]), stack[v][k].pc \in {"claim", "bump"}, stack[v][k].b \notin opened
      PROVE  k = Len(stack[v]) /\ owner["bridge"] = v
  <2>1. /\ TypeW /\ Shape(stack[v]) /\ LockInv(v)
        /\ Len(stack[v]) \in Nat /\ stack[v][k] \in FrameW /\ Placed(stack[v][k]) /\ stack[v] # <<>>
    BY <1>1, BaseFacts, StackFrames DEF Shape
  <2>2. ~ IsHandler(stack[v][k])
    BY <1>1, <2>1 DEF Placed
  <2>3. Bridges(stack[v][k])
    BY <1>1, <2>1, <2>2, OpCases DEF Placed, InNewBrick
  <2>4. k = Len(stack[v])
    <3> SUFFICES ASSUME k # Len(stack[v]) PROVE FALSE
      OBVIOUS
    <3>1. k \in 1 .. Len(stack[v]) - 1
      BY <2>1
    <3> QED BY <1>1, <3>1 DEF CoveredInv, Covered
  <2>5. Held(v) = Needs(stack[v][k])
    BY <1>1, <2>1, <2>4 DEF LockInv
  <2>6. "bridge" \in Needs(stack[v][k])
    BY <1>1, <2>3 DEF Needs, Bridges, InAddBridge, Mutexes
  <2> QED BY <2>4, <2>5, <2>6 DEF Held
<1> QED BY <1>1

\* A frame of the third layer is one of the first.
LEMMA FrameTypes == Frame \subseteq FrameW
<1>1. Slots \union {NoSlot} \subseteq Nat \X Nat
  BY BridgeAssumption DEF Slots, NoSlot, Bricks
<1>2. 0 .. MaxCalls \subseteq Nat
  BY BridgeAssumption
<1> QED BY <1>1, <1>2 DEF Frame, FrameW

\* A step that touches neither b->sz nor a bridge.
LEMMA QuietStep ==
  ASSUME SlotInv, BaseInv, NEW t \in Threads, NEW k \in Nat, NEW fr, Moved(t, k, fr),
         fr \in Frame, SlotOK(fr)',
         Owns(fr) => k \in 1 .. Len(stack[t]) /\ Owns(stack[t][k]) /\ Slot(stack[t][k]) = Slot(fr),
         UNCHANGED <<sz, cell>>, bricks' \in Nat, bricks <= bricks',
         bridgemap' \in [Fncs -> Slots \union {NoSlot}],
         alternates' \in [Fncs -> Slots \union {NoSlot}],
         opened \subseteq opened', opened' \subseteq Bricks, canceled' \subseteq Slots
  PROVE  SlotInv'
<1>0. bricks \in Nat /\ TypeS /\ FreeOK
  BY BaseFacts DEF SlotInv
<1>1. TypeS'
  BY <1>0 DEF TypeS
<1>2. FreeOK'
  <2>1. \A b \in Bricks : bricks' < b => bricks < b
    BY <1>0 DEF Bricks
  <2> QED BY <1>0, <2>1 DEF FreeOK
<1>3. ASSUME NEW u \in Threads, NEW i \in 1 .. Len(stack'[u])
      PROVE  stack'[u][i] \in Frame /\ SlotOK(stack[u][i])'
  <2>1. CASE u = t /\ i = k
    BY <2>1 DEF Moved
  <2>2. CASE ~ (u = t /\ i = k)
    <3>1. i \in 1 .. Len(stack[u]) /\ stack'[u][i] = stack[u][i]
      BY <2>2 DEF Moved
    <3>2. stack[u][i] \in Frame /\ SlotOK(stack[u][i])
      BY <3>1 DEF SlotInv
    <3>3. stack[u][i].b \in Nat
      BY <3>2 DEF Frame, Bricks
    <3>4. stack[u][i].b <= bricks => stack[u][i].b <= bricks'
      BY <1>0, <3>3
    <3>5. PICK g : g = stack[u][i]
      OBVIOUS
    <3>6. SlotOK(g)' /\ stack'[u][i] = g
      BY <3>1, <3>2, <3>4, <3>5 DEF SlotOK
    <3> QED BY <3>2, <3>5, <3>6 DEF SlotOK
  <2> QED BY <2>1, <2>2
<1>4. OwnDistinct'
  <2>1. ASSUME NEW u \in Threads, NEW i \in 1 .. Len(stack'[u]), Owns(stack'[u][i])
        PROVE  /\ i \in 1 .. Len(stack[u]) /\ Owns(stack[u][i])
               /\ Slot(stack'[u][i]) = Slot(stack[u][i]) /\ stack'[u][i].b = stack[u][i].b
    <3>1. CASE u = t /\ i = k
      BY <2>1, <3>1 DEF Moved, Slot
    <3>2. CASE ~ (u = t /\ i = k)
      BY <2>1, <3>2 DEF Moved
    <3> QED BY <3>1, <3>2
  <2>2. OwnDistinct
    BY DEF SlotInv
  <2>9. ASSUME NEW u \in Threads, NEW v \in Threads, NEW i \in 1 .. Len(stack'[u]), NEW j \in 1 .. Len(stack'[v]),
               Owns(stack'[u][i]), Owns(stack'[v][j]), stack'[u][i].b \notin opened', u # v \/ i # j
        PROVE  Slot(stack'[u][i]) # Slot(stack'[v][j])
    <3>1. /\ i \in 1 .. Len(stack[u]) /\ Owns(stack[u][i]) /\ stack[u][i].b \notin opened
          /\ j \in 1 .. Len(stack[v]) /\ Owns(stack[v][j])
          /\ Slot(stack'[u][i]) = Slot(stack[u][i]) /\ Slot(stack'[v][j]) = Slot(stack[v][j])
      BY <2>1, <2>9
    <3> QED BY <2>2, <2>9, <3>1 DEF OwnDistinct
  <2> QED BY <2>9 DEF OwnDistinct
<1> QED BY <1>1, <1>2, <1>3, <1>4 DEF SlotInv

\* The innermost frame of a thread, in the third layer.
LEMMA TopFrame ==
  ASSUME SlotInv, BaseInv, NEW t \in Threads, stack[t] # <<>>
  PROVE  /\ Top(t) \in Frame /\ SlotOK(Top(t)) /\ Len(stack[t]) \in 1 .. Len(stack[t])
         /\ Top(t) = stack[t][Len(stack[t])] /\ Len(stack[t]) \in Nat
<1>1. Len(stack[t]) \in Nat /\ Len(stack[t]) >= 1
  BY BaseFacts, StackFrames
<1>2. Len(stack[t]) \in 1 .. Len(stack[t])
  BY <1>1
<1> QED BY <1>1, <1>2 DEF Top, SlotInv

\* The pcs at which a call has a bridge or is about to take one.
Taking == {"claim", "bump", "put", "unlock", "CC", "f", "C3"}

\* The innermost frame changes, away from the bridges.
LEMMA EasyTop ==
  ASSUME SlotInv, BaseInv, NEW t \in Threads, stack[t] # <<>>,
         NEW fr \in Frame, SetTop(t, fr), fr.pc \notin Taking,
         UNCHANGED <<sz, cell, bricks, opened, canceled>>,
         bridgemap' \in [Fncs -> Slots \union {NoSlot}],
         alternates' \in [Fncs -> Slots \union {NoSlot}]
  PROVE  SlotInv'
<1>1. TypeW /\ bricks \in Nat
  BY BaseFacts
<1>2. Moved(t, Len(stack[t]), fr) /\ Len(stack[t]) \in Nat
  BY <1>1, FrameTypes, MovedSetTop, TopFrame
<1>3. SlotOK(fr)' /\ ~ Owns(fr)
  BY DEF SlotOK, Owns, Taking
<1>4. opened \subseteq opened' /\ opened' \subseteq Bricks /\ canceled' \subseteq Slots
  BY DEF SlotInv, TypeS
<1> QED BY <1>1, <1>2, <1>3, <1>4, QuietStep

\* A step of a call that only goes on to another pc, away from the bridges.
LEMMA EasyGoto ==
  ASSUME SlotInv, BaseInv, NEW t \in Threads, NEW p, At(t, p),
         NEW pc \in PCs \union {"relock"}, Goto(t, pc), pc \notin Taking,
         UNCHANGED <<sz, cell, bricks, bridgemap, opened, canceled>>,
         alternates' \in [Fncs -> Slots \union {NoSlot}]
  PROVE  SlotInv'
<1>1. stack[t] # <<>>
  BY DEF At
<1>2. Top(t) \in Frame
  BY <1>1, TopFrame
<1>3. PICK fr : fr = [Top(t) EXCEPT !.pc = pc]
  OBVIOUS
<1>4. fr \in Frame /\ fr.pc = pc
  BY <1>2, <1>3 DEF Frame
<1>5. SetTop(t, fr)
  BY <1>3 DEF Goto
<1>6. bridgemap' \in [Fncs -> Slots \union {NoSlot}]
  BY DEF SlotInv, TypeS
<1> QED BY <1>1, <1>4, <1>5, <1>6, EasyTop

LEMMA CheckBridgedSlot ==
  ASSUME SlotInv, BaseInv, NEW t \in Threads, CheckBridged(t)
  PROVE  SlotInv'
<1>1. /\ stack[t] # <<>> /\ At(t, "check")
      /\ UNCHANGED <<sz, cell, bricks, bridgemap, alternates, opened, canceled>>
  BY DEF CheckBridged, At, bridgeVars, budget, history
<1>2. /\ Top(t) \in FrameW /\ Top(t).pc = "check" /\ ~ IsHandler(Top(t)) /\ Placed(Top(t))
  BY <1>1, CallTop DEF PCs
<1>3. Top(t).fnc \in Fncs
  BY <1>2, OpCases DEF Placed, InNewBrick
<1>4. Top(t) \in Frame /\ bridgemap[Top(t).fnc] \in Slots \union {NoSlot}
  BY <1>1, <1>3, TopFrame DEF SlotInv, TypeS
<1>5. After(Top(t).op) \in {"has", "return"}
  BY DEF After
<1>6. PICK fr : /\ SetTop(t, fr)
                /\ fr = IF bridgemap[Top(t).fnc] = NoSlot THEN [Top(t) EXCEPT !.pc = "lock"]
                        ELSE [Top(t) EXCEPT !.ret = bridgemap[Top(t).fnc], !.pc = After(Top(t).op)]
  BY DEF CheckBridged, Goto
<1>7. fr \in Frame /\ fr.pc \in {"lock", "has", "return"}
  BY <1>4, <1>5, <1>6 DEF Frame, PCs
<1>8. bridgemap' \in [Fncs -> Slots \union {NoSlot}] /\ alternates' \in [Fncs -> Slots \union {NoSlot}]
  BY <1>1 DEF SlotInv, TypeS
<1> QED BY <1>1, <1>6, <1>7, <1>8, EasyTop DEF Taking

LEMMA LocksSlot ==
  ASSUME SlotInv, BaseInv, NEW t \in Threads,
         \/ LockBridge(t) \/ LockProt(t) \/ LockBlocks(t) \/ UnlockBlocks(t) \/ UnlockProt(t)
         \/ HasAlternate(t) \/ HandlerEnds(t)
  PROVE  SlotInv'
<1>1. PICK p, pc : /\ At(t, p) /\ Goto(t, pc)
                   /\ pc \in {"full", "node", "protd", "noded", "return", "attach", "alt", "relock"}
                   /\ UNCHANGED <<sz, cell, bricks, bridgemap, alternates, opened, canceled>>
  BY DEF LockBridge, LockProt, LockBlocks, UnlockBlocks, UnlockProt, HasAlternate, HandlerEnds, bridgeVars, budget, history
<1>2. pc \in PCs \union {"relock"} /\ pc \notin Taking
  BY <1>1 DEF PCs, Taking
<1>3. alternates' \in [Fncs -> Slots \union {NoSlot}]
  BY <1>1 DEF SlotInv, TypeS
<1> QED BY <1>1, <1>2, <1>3, EasyGoto

LEMMA AddAlternateSlot ==
  ASSUME SlotInv, BaseInv, NEW t \in Threads, AddAlternate(t)
  PROVE  SlotInv'
<1>1. /\ At(t, "alt") /\ Goto(t, "return") /\ UNCHANGED <<sz, cell, bricks, bridgemap, opened, canceled>>
      /\ alternates' = [alternates EXCEPT ![Top(t).fnc] = IF @ = NoSlot THEN Top(t).ret ELSE @]
  BY DEF AddAlternate, bridgeVars, budget, history
<1>2. Top(t).ret \in Slots \union {NoSlot}
  BY <1>1, TopFrame DEF At, Frame
<1>3. alternates' \in [Fncs -> Slots \union {NoSlot}]
  BY <1>1, <1>2 DEF SlotInv, TypeS
<1>4. "return" \in PCs /\ "return" \notin Taking
  BY DEF PCs, Taking
<1> QED BY <1>1, <1>3, <1>4, EasyGoto

LEMMA RelockSlot ==
  ASSUME SlotInv, BaseInv, NEW t \in Threads, Relock(t)
  PROVE  SlotInv'
<1>1. PICK m : /\ At(t, "relock") /\ SetTop(t, [Top(t) EXCEPT !.saved = @ \ {m}])
               /\ UNCHANGED <<sz, cell, bricks, bridgemap, alternates, opened, canceled>>
  BY DEF Relock, bridgeVars, budget, history
<1>2. stack[t] # <<>> /\ Top(t) \in Frame /\ Top(t).pc = "relock"
  BY <1>1, TopFrame DEF At
<1>3. PICK fr : fr = [Top(t) EXCEPT !.saved = @ \ {m}]
  OBVIOUS
<1>4. fr \in Frame /\ fr.pc = "relock"
  BY <1>2, <1>3 DEF Frame
<1>5. bridgemap' \in [Fncs -> Slots \union {NoSlot}] /\ alternates' \in [Fncs -> Slots \union {NoSlot}]
  BY <1>1 DEF SlotInv, TypeS
<1> QED BY <1>1, <1>2, <1>3, <1>4, <1>5, EasyTop DEF Taking

\* A frame comes.
LEMMA PushSlot ==
  ASSUME SlotInv, BaseInv, NEW t \in Threads, NEW fr \in Frame, Push(t, fr), fr.pc \notin Taking,
         UNCHANGED <<sz, cell, bricks, bridgemap, alternates>>,
         opened \subseteq opened', opened' \subseteq Bricks, canceled' \subseteq Slots
  PROVE  SlotInv'
<1>1. TypeW /\ bricks \in Nat
  BY BaseFacts
<1>2. Moved(t, Len(stack[t]) + 1, fr) /\ Len(stack[t]) + 1 \in Nat
  BY <1>1, FrameTypes, MovedPush, StackFrames
<1>3. SlotOK(fr)' /\ ~ Owns(fr)
  BY DEF SlotOK, Owns, Taking
<1>4. bridgemap' \in [Fncs -> Slots \union {NoSlot}] /\ alternates' \in [Fncs -> Slots \union {NoSlot}]
  BY DEF SlotInv, TypeS
<1> QED BY <1>1, <1>2, <1>3, <1>4, QuietStep

LEMMA BeginCallSlot ==
  ASSUME SlotInv, BaseInv, NEW t \in Threads, NEW op \in Ops, NEW f \in Fncs, BeginCall(t, op, f)
  PROVE  SlotInv'
<1>1. PICK fr : /\ fr = Call(op, Start(op), IF op \in {"protect", "malloc"} THEN None ELSE f)
                /\ Push(t, fr) /\ UNCHANGED <<sz, cell, bricks, bridgemap, alternates, opened, canceled>>
  BY DEF BeginCall, bridgeVars, history
<1>2. op \in {"check", "auto", "add", "protect", "malloc"} /\ 1 \in Bricks /\ 0 \in 0 .. MaxCalls
  BY BridgeAssumption DEF Bricks
<1>3. Start(op) \in {"check", "lock", "prot", "node"}
  BY <1>2 DEF Start
<1>4. fr \in Frame /\ fr.pc = Start(op)
  BY <1>1, <1>2, <1>3 DEF Frame, Call, PCs
<1>5. opened \subseteq opened' /\ opened' \subseteq Bricks /\ canceled' \subseteq Slots
  BY <1>1 DEF SlotInv, TypeS
<1> QED BY <1>1, <1>3, <1>4, <1>5, PushSlot DEF Taking

LEMMA SignalSlot ==
  ASSUME SlotInv, BaseInv, NEW t \in Threads, Signal(t)
  PROVE  SlotInv'
<1>1. PICK fr : fr = Handler(Held(t)) /\ Push(t, fr) /\ UNCHANGED <<sz, cell, bricks, bridgemap, alternates>>
  BY DEF Signal, unlockMutex, bridgeVars
<1>2. 1 \in Bricks /\ 0 \in 0 .. MaxCalls /\ Held(t) \in SUBSET Mutexes
  BY BridgeAssumption DEF Bricks, Held
<1>3. fr \in Frame /\ fr.pc = "run"
  BY <1>1, <1>2 DEF Frame, Handler, Call
<1>4. opened \subseteq opened' /\ opened' \subseteq Bricks /\ canceled' \subseteq Slots
  <2>1. Top(t).b \in Bricks
    BY TopFrame DEF Signal, Frame
  <2> QED BY <2>1 DEF Signal, SlotInv, TypeS
<1> QED BY <1>1, <1>3, <1>4, PushSlot DEF Taking

\* Frames go.
LEMMA DropSlot ==
  ASSUME SlotInv, BaseInv, NEW t \in Threads, NEW k \in 1 .. 2, k <= Len(stack[t]), Drop(t, k),
         UNCHANGED <<sz, cell, bricks, bridgemap, alternates>>,
         opened \subseteq opened', opened' \subseteq Bricks, canceled' \subseteq Slots
  PROVE  SlotInv'
<1>1. TypeW /\ bricks \in Nat /\ 1 \in Bricks /\ 0 \in 0 .. MaxCalls
  BY BaseFacts, BridgeAssumption DEF Bricks
<1>2. PICK fr : fr = Handler({})
  OBVIOUS
<1>3. fr \in Frame /\ fr.pc = "run"
  BY <1>1, <1>2 DEF Frame, Handler, Call
<1>4. PICK m : m = Len(stack[t]) - k + 1
  OBVIOUS
<1>7. Len(stack[t]) \in Nat
  BY <1>1, StackFrames
<1>8. m \in Nat
  BY <1>4, <1>7
<1>9. Moved(t, m, fr)
  BY <1>1, <1>4, MovedDrop
<1>5. SlotOK(fr)' /\ ~ Owns(fr)
  BY <1>3 DEF SlotOK, Owns
<1>6. bridgemap' \in [Fncs -> Slots \union {NoSlot}] /\ alternates' \in [Fncs -> Slots \union {NoSlot}]
  BY DEF SlotInv, TypeS
<1>10. fr \in Frame /\ UNCHANGED <<sz, cell>> /\ bricks' \in Nat /\ bricks <= bricks'
  BY <1>1, <1>3
<1> QED BY <1>5, <1>6, <1>8, <1>9, <1>10, QuietStep

LEMMA LeaveSlot ==
  ASSUME SlotInv, BaseInv, NEW t \in Threads, Return(t) \/ SigReturn(t) \/ SigLongjmp(t)
  PROVE  SlotInv'
<1>1. PICK k \in 1 .. 2 : /\ Drop(t, k) /\ UNCHANGED <<sz, cell, bricks, bridgemap, alternates>>
                          /\ k <= Len(stack[t])
                          /\ opened \subseteq opened' /\ opened' \subseteq Bricks /\ canceled' \subseteq Slots
  <2>0. opened \subseteq Bricks /\ canceled \subseteq Slots
    BY DEF SlotInv, TypeS
  <2>1. CASE Return(t)
    <3>1. stack[t] # <<>> /\ Len(stack[t]) >= 1
      BY <2>1, BaseFacts, StackFrames DEF Return, At
    <3> QED BY <2>0, <2>1, <3>1 DEF Return, bridgeVars, budget, history
  <2>2. CASE SigReturn(t)
    <3>1. stack[t] # <<>> /\ Len(stack[t]) >= 1
      BY <2>2, BaseFacts, StackFrames DEF SigReturn, At
    <3> QED BY <2>0, <2>2, <3>1 DEF SigReturn, bridgeVars, budget, history
  <2>3. CASE SigLongjmp(t)
    <3>1. Len(stack[t]) >= 2
      BY <2>3, HandlerTop DEF SigLongjmp
    <3>2. PICK fr : /\ fr = stack[t][Len(stack[t]) - 1]
                    /\ canceled' = IF fr.pc \in InBridge THEN canceled \union {Slot(fr)} ELSE canceled
      BY <2>3 DEF SigLongjmp
    <3>3. Len(stack[t]) - 1 \in 1 .. Len(stack[t])
      BY <3>1, BaseFacts, StackFrames
    <3>4. fr \in Frame
      BY <3>2, <3>3 DEF SlotInv
    <3>5. Slot(fr) \in Slots
      BY <3>4 DEF Frame, Slot, Slots
    <3> QED BY <2>0, <2>3, <3>1, <3>2, <3>5 DEF SigLongjmp, bridgeVars
  <2> QED BY <2>1, <2>2, <2>3
<1> QED BY <1>1, DropSlot

LEMMA TestFullSlot ==
  ASSUME SlotInv, BaseInv, NEW t \in Threads, TestFull(t)
  PROVE  SlotInv'
<1>1. /\ stack[t] # <<>> /\ UNCHANGED <<sz, cell, bricks, bridgemap, alternates, opened, canceled>>
  BY DEF TestFull, At, bridgeVars, budget, history
<1>2. PICK fr : /\ SetTop(t, fr)
                /\ fr = [Top(t) EXCEPT !.b = last, !.pc = IF Full(last) THEN "prot" ELSE "claim"]
  BY DEF TestFull
<1>3. Top(t) \in Frame
  BY <1>1, TopFrame
<1>4. TypeW /\ last = bricks /\ last \in Bricks /\ bricks \in Nat
  BY BaseFacts DEF TypeW
<1>5. /\ fr \in Frame /\ fr.b = last /\ fr.pc \in {"prot", "claim"}
      /\ fr.pc = "claim" => ~ Full(last)
  BY <1>2, <1>3, <1>4 DEF Frame, PCs
<1>6. fr.pc = "claim" /\ last \notin opened => sz[last] < NBRICK
  <2>1. sz[last] \in Nat /\ (last \notin opened => sz[last] <= NBRICK)
    BY <1>4, BridgeAssumption DEF SlotInv, TypeS, FreeOK
  <2> QED BY <1>5, <2>1, BridgeAssumption DEF Full
<1>7. SlotOK(fr)' /\ ~ Owns(fr)
  BY <1>1, <1>4, <1>5, <1>6 DEF SlotOK, Owns
<1>8. Moved(t, Len(stack[t]), fr) /\ Len(stack[t]) \in Nat
  BY <1>1, <1>2, <1>4, <1>5, FrameTypes, MovedSetTop, TopFrame
<1>9. bridgemap' \in [Fncs -> Slots \union {NoSlot}] /\ alternates' \in [Fncs -> Slots \union {NoSlot}]
  BY <1>1 DEF SlotInv, TypeS
<1>20. opened \subseteq opened' /\ opened' \subseteq Bricks /\ canceled' \subseteq Slots
  BY <1>1 DEF SlotInv, TypeS
<1> QED BY <1>1, <1>4, <1>5, <1>7, <1>8, <1>9, <1>20, QuietStep

LEMMA AttachSlot ==
  ASSUME SlotInv, BaseInv, BaseInv', NEW t \in Threads, Attach(t)
  PROVE  SlotInv'
<1>1. /\ stack[t] # <<>> /\ bricks' = bricks + 1 /\ UNCHANGED <<sz, cell, bridgemap, alternates, opened, canceled>>
  BY DEF Attach, At, budget, history
<1>2. PICK fr : SetTop(t, fr) /\ fr = [Top(t) EXCEPT !.b = bricks + 1, !.pc = "claim"]
  BY DEF Attach
<1>3. Top(t) \in Frame
  BY <1>1, TopFrame
<1>4. TypeW /\ bricks \in Nat /\ bricks + 1 \in Bricks
  BY <1>1, BaseFacts DEF BaseInv, TypeW
<1>5. /\ fr \in Frame /\ fr.b = bricks + 1 /\ fr.pc = "claim"
  BY <1>2, <1>3, <1>4 DEF Frame, PCs
<1>6. sz[bricks + 1] = 0
  BY <1>4 DEF SlotInv, FreeOK
<1>7. SlotOK(fr)' /\ ~ Owns(fr)
  BY <1>1, <1>4, <1>5, <1>6, BridgeAssumption DEF SlotOK, Owns
<1>8. Moved(t, Len(stack[t]), fr) /\ Len(stack[t]) \in Nat
  BY <1>1, <1>2, <1>4, <1>5, FrameTypes, MovedSetTop, TopFrame
<1>9. bridgemap' \in [Fncs -> Slots \union {NoSlot}] /\ alternates' \in [Fncs -> Slots \union {NoSlot}]
  BY <1>1 DEF SlotInv, TypeS
<1>10. bricks' \in Nat /\ bricks <= bricks'
  BY <1>1, <1>4
<1>20. opened \subseteq opened' /\ opened' \subseteq Bricks /\ canceled' \subseteq Slots
  BY <1>1 DEF SlotInv, TypeS
<1> QED BY <1>1, <1>5, <1>7, <1>8, <1>9, <1>10, <1>20, QuietStep

LEMMA ClaimSlot ==
  ASSUME SlotInv, BaseInv, NEW t \in Threads, Claim(t)
  PROVE  SlotInv'
<1>1. /\ stack[t] # <<>> /\ Top(t).pc = "claim" /\ UNCHANGED <<sz, cell, bricks, bridgemap, alternates, opened, canceled>>
  BY DEF Claim, At, bridgeVars, budget, history
<1>2. PICK fr : SetTop(t, fr) /\ fr = [Top(t) EXCEPT !.sz = sz[Top(t).b], !.pc = "bump"]
  BY DEF Claim
<1>3. Top(t) \in Frame /\ SlotOK(Top(t))
  BY <1>1, TopFrame
<1>4. TypeW /\ bricks \in Nat
  BY BaseFacts
<1>5. /\ Top(t).b \in Bricks /\ sz[Top(t).b] \in 0 .. MaxCalls /\ Top(t).b <= bricks
      /\ Top(t).b \notin opened => sz[Top(t).b] < NBRICK
  BY <1>1, <1>3 DEF Frame, SlotInv, TypeS, SlotOK
<1>6. sz[Top(t).b] \in 0 .. MaxCalls
  BY <1>5
<1>7. /\ fr \in Frame /\ fr.b = Top(t).b /\ fr.pc = "bump" /\ fr.sz = sz[Top(t).b]
  BY <1>2, <1>3, <1>6 DEF Frame, PCs
<1>8. SlotOK(fr)' /\ ~ Owns(fr)
  BY <1>1, <1>5, <1>7 DEF SlotOK, Owns
<1>9. Moved(t, Len(stack[t]), fr) /\ Len(stack[t]) \in Nat
  BY <1>1, <1>2, <1>4, <1>7, FrameTypes, MovedSetTop, TopFrame
<1>10. bridgemap' \in [Fncs -> Slots \union {NoSlot}] /\ alternates' \in [Fncs -> Slots \union {NoSlot}]
  BY <1>1 DEF SlotInv, TypeS
<1>20. opened \subseteq opened' /\ opened' \subseteq Bricks /\ canceled' \subseteq Slots
  BY <1>1 DEF SlotInv, TypeS
<1> QED BY <1>1, <1>4, <1>7, <1>8, <1>9, <1>10, <1>20, QuietStep

LEMMA PutSlot ==
  ASSUME SlotInv, BaseInv, NEW t \in Threads, Put(t) \/ UnlockBridge(t)
  PROVE  SlotInv'
<1>1. /\ stack[t] # <<>> /\ Top(t).pc \in {"put", "unlock"} /\ UNCHANGED <<sz, cell, bricks, alternates, opened, canceled>>
      /\ bridgemap' \in {bridgemap, [bridgemap EXCEPT ![Top(t).fnc] = Slot(Top(t))]}
  BY DEF Put, UnlockBridge, At, bridgeVars, budget, history
<1>2. PICK fr : SetTop(t, fr) /\ (\/ fr = [Top(t) EXCEPT !.pc = "unlock"] \/ fr = [Top(t) EXCEPT !.pc = "CC"])
  BY DEF Put, UnlockBridge, Goto
<1>3. /\ Top(t) \in Frame /\ SlotOK(Top(t)) /\ Len(stack[t]) \in 1 .. Len(stack[t])
      /\ Top(t) = stack[t][Len(stack[t])]
  BY <1>1, TopFrame
<1>4. TypeW /\ bricks \in Nat
  BY BaseFacts
<1>5. /\ fr \in Frame /\ fr.b = Top(t).b /\ fr.pc \in {"unlock", "CC"} /\ fr.sz = Top(t).sz
  BY <1>2, <1>3 DEF Frame, PCs
<1>6. Slot(fr) = Slot(Top(t)) /\ Owns(Top(t)) /\ Owns(fr) /\ Progress(fr) = 0 /\ Progress(Top(t)) = 0
  BY <1>1, <1>5 DEF Slot, Owns, Progress
<1>7. SlotOK(fr)'
  BY <1>1, <1>3, <1>5, <1>6 DEF SlotOK, Slot
<1>8. Moved(t, Len(stack[t]), fr) /\ Len(stack[t]) \in Nat
  BY <1>1, <1>2, <1>4, <1>5, FrameTypes, MovedSetTop, TopFrame
<1>9. Slot(Top(t)) \in Slots
  BY <1>3 DEF Frame, Slot, Slots
<1>10. bridgemap' \in [Fncs -> Slots \union {NoSlot}] /\ alternates' \in [Fncs -> Slots \union {NoSlot}]
  <2>1. bridgemap \in [Fncs -> Slots \union {NoSlot}] /\ alternates \in [Fncs -> Slots \union {NoSlot}]
    BY DEF SlotInv, TypeS
  <2>2. [bridgemap EXCEPT ![Top(t).fnc] = Slot(Top(t))] \in [Fncs -> Slots \union {NoSlot}]
    BY <1>9, <2>1
  <2> QED BY <1>1, <2>1, <2>2
<1>20. opened \subseteq opened' /\ opened' \subseteq Bricks /\ canceled' \subseteq Slots
  BY <1>1 DEF SlotInv, TypeS
<1> QED BY <1>1, <1>3, <1>4, <1>5, <1>6, <1>7, <1>8, <1>10, <1>20, QuietStep

\* The bridge of a call that owns one is not the one another call is about to take.
LEMMA BumpSlot ==
  ASSUME SlotInv, BaseInv, BaseInv', RoomInv', CoveredInv, NEW t \in Threads, Bump(t)
  PROVE  SlotInv'
<1> DEFINE n == Len(stack[t])
<1>1. /\ stack[t] # <<>> /\ Top(t).pc = "bump"
      /\ UNCHANGED <<bricks, cell, bridgemap, alternates, opened, canceled>>
  BY DEF Bump, At, budget, history
<1>2. PICK fr, b, m : /\ SetTop(t, fr) /\ fr = [Top(t) EXCEPT !.pc = "put"] /\ b = Top(t).b
                      /\ m \in {sz[b], Top(t).sz} /\ sz' = [sz EXCEPT ![b] = m + 1]
  BY DEF Bump, Goto
<1>3. /\ Top(t) \in Frame /\ SlotOK(Top(t)) /\ n \in 1 .. n /\ n \in Nat
      /\ Top(t) = stack[t][n]
  BY <1>1, TopFrame
<1>4. TypeW /\ bricks \in Nat /\ TypeS /\ FreeOK /\ OwnDistinct
  BY BaseFacts DEF SlotInv
<1>5. /\ b \in Bricks /\ b <= bricks /\ sz[b] \in Nat /\ Top(t).sz \in Nat
      /\ sz \in [Bricks -> 0 .. MaxCalls] /\ NBRICK \in Nat /\ MaxCalls \in Nat
  BY <1>1, <1>2, <1>3, <1>4, BridgeAssumption DEF Frame, TypeS, SlotOK
<1>6. b \notin opened => sz[b] < NBRICK /\ Top(t).sz = sz[b] /\ m = sz[b]
  BY <1>1, <1>2, <1>3 DEF SlotOK
<1>7. /\ fr \in Frame /\ fr.b = b /\ fr.pc = "put" /\ fr.sz = Top(t).sz
  BY <1>2, <1>3, <1>5 DEF Frame, PCs
<1>8. sz'[b] = m + 1 /\ \A x \in Bricks : x # b => sz'[x] = sz[x]
  BY <1>2, <1>5
<1>9. \A x \in Bricks \ opened : sz'[x] \in Nat /\ sz[x] \in Nat /\ sz[x] <= sz'[x] /\ (sz[x] <= NBRICK => sz'[x] <= NBRICK)
  BY <1>5, <1>6, <1>8
<1>10. TypeS'
  <2>1. \A x \in Bricks : sz'[x] \in 0 .. MaxCalls
    <3>1. IsFiniteSet(Bumping') /\ \A x \in Bricks : sz'[x] + Cardinality(Bumping') <= calls'
      BY DEF RoomInv, Fits
    <3>2. Cardinality(Bumping') \in Nat /\ calls' \in 0 .. MaxCalls /\ sz' \in [Bricks -> Nat]
      BY <3>1, FS_CardinalityType DEF BaseInv, TypeW
    <3>3. \A x \in Bricks : sz'[x] \in Nat
      BY <3>2
    <3> QED BY <1>5, <3>1, <3>2, <3>3
  <2>2. sz' \in [Bricks -> 0 .. MaxCalls]
    BY <1>2, <1>5, <2>1
  <2> QED BY <1>1, <1>4, <2>2 DEF TypeS
<1>11. FreeOK'
  <2>1. \A x \in Bricks : bricks < x => sz'[x] = 0
    BY <1>4, <1>5, <1>8 DEF FreeOK, Bricks
  <2>2. \A x \in Bricks \ opened, k \in 0 .. MaxCalls : sz'[x] <= k => sz[x] <= k
    BY <1>5, <1>9
  <2>3. \A x \in Bricks \ opened : sz'[x] <= NBRICK
    BY <1>4, <1>9 DEF FreeOK
  <2> QED BY <1>1, <1>4, <2>1, <2>2, <2>3 DEF FreeOK
<1>12. Moved(t, n, fr)
  BY <1>1, <1>2, <1>4, <1>7, FrameTypes, MovedSetTop
<1>13. ASSUME NEW u \in Threads, NEW i \in 1 .. Len(stack'[u]), ~ (u = t /\ i = n)
       PROVE  /\ i \in 1 .. Len(stack[u]) /\ stack'[u][i] = stack[u][i]
              /\ stack[u][i] \in Frame /\ SlotOK(stack[u][i])
              /\ stack[u][i].b = b /\ b \notin opened => stack[u][i].pc \notin {"claim", "bump"}
  <2>1. i \in 1 .. Len(stack[u]) /\ stack'[u][i] = stack[u][i]
    BY <1>12, <1>13 DEF Moved
  <2>2. stack[u][i].b = b /\ b \notin opened => stack[u][i].pc \notin {"claim", "bump"}
    BY <1>1, <1>2, <1>3, <1>13, <2>1, OneTakes
  <2> QED BY <2>1, <2>2 DEF SlotInv
<1>14. SlotOK(fr)'
  <2> SUFFICES ASSUME b \notin opened PROVE fr.sz < sz'[fr.b] /\ cell[Slot(fr)].written = Progress(fr)
    BY <1>1, <1>7 DEF SlotOK
  <2>1. cell[Slot(fr)].written = 0
    <3>1. fr.sz \in 0 .. MaxCalls /\ Slot(fr) = <<b, fr.sz>>
      BY <1>7 DEF Frame, Slot
    <3>2. sz[b] <= fr.sz
      BY <1>5, <1>6, <1>7
    <3> QED BY <1>4, <1>5, <3>1, <3>2 DEF FreeOK
  <2>2. fr.sz < sz'[fr.b]
    BY <1>5, <1>6, <1>7, <1>8
  <2>3. Progress(fr) = 0
    BY <1>7 DEF Progress
  <2> QED BY <2>1, <2>2, <2>3
<1>15. ASSUME NEW u \in Threads, NEW i \in 1 .. Len(stack'[u])
       PROVE  stack'[u][i] \in Frame /\ SlotOK(stack[u][i])'
  <2>1. CASE u = t /\ i = n
    BY <1>7, <1>12, <1>14, <2>1 DEF Moved
  <2>2. CASE ~ (u = t /\ i = n)
    <3>1. PICK g : g = stack[u][i]
      OBVIOUS
    <3>2. /\ g \in Frame /\ SlotOK(g) /\ stack'[u][i] = g
          /\ g.b = b /\ b \notin opened => g.pc \notin {"claim", "bump"}
      BY <1>13, <2>2, <3>1
    <3>3. g.b \in Bricks /\ g.sz \in Nat
      BY <3>2, BridgeAssumption DEF Frame
    <3>4. CASE g.b # b
      <4>1. sz'[g.b] = sz[g.b]
        BY <1>8, <3>3, <3>4
      <4>2. SlotOK(g)'
        BY <1>1, <3>2, <4>1 DEF SlotOK
      <4> QED BY <3>2, <4>2 DEF SlotOK
    <3>5. CASE g.b = b
      <4>1. b \notin opened => g.pc \notin {"claim", "bump"} /\ (Owns(g) => g.sz < sz'[g.b])
        BY <1>9, <3>2, <3>3, <3>5 DEF SlotOK
      <4>2. SlotOK(g)'
        BY <1>1, <3>2, <3>5, <4>1 DEF SlotOK
      <4> QED BY <3>2, <4>2 DEF SlotOK
    <3> QED BY <3>4, <3>5
  <2> QED BY <2>1, <2>2
<1>16. ASSUME NEW u \in Threads, NEW i \in 1 .. Len(stack'[u]), ~ (u = t /\ i = n), Owns(stack'[u][i]),
              b \notin opened
       PROVE  Slot(stack'[u][i]) # Slot(fr)
  <2>1. PICK g : g = stack[u][i]
    OBVIOUS
  <2>2. g \in Frame /\ SlotOK(g) /\ Owns(g) /\ stack'[u][i] = g
    BY <1>13, <1>16, <2>1
  <2>3. g.b \in Bricks /\ g.sz \in Nat /\ (g.b = b => g.sz < sz[b])
    BY <1>16, <2>2, BridgeAssumption DEF Frame, SlotOK
  <2>4. Slot(g) # Slot(fr)
    BY <1>5, <1>6, <1>7, <1>16, <2>3 DEF Slot
  <2> QED BY <2>2, <2>4
<1>17. OwnDistinct'
  <2> SUFFICES ASSUME NEW u \in Threads, NEW v \in Threads, NEW i \in 1 .. Len(stack'[u]), NEW j \in 1 .. Len(stack'[v]),
                      Owns(stack'[u][i]), Owns(stack'[v][j]), stack'[u][i].b \notin opened, u # v \/ i # j
               PROVE  Slot(stack'[u][i]) # Slot(stack'[v][j])
    BY <1>1 DEF OwnDistinct
  <2>1. CASE u = t /\ i = n
    <3>1. stack'[u][i] = fr /\ b \notin opened
      BY <1>7, <1>12, <2>1 DEF Moved
    <3> QED BY <1>16, <2>1, <3>1
  <2>2. CASE v = t /\ j = n
    <3>1. stack'[v][j] = fr
      BY <1>12, <2>2 DEF Moved
    <3>2. CASE b \notin opened
      BY <1>16, <2>2, <3>1, <3>2
    <3>3. CASE b \in opened
      BY <1>7, <3>1, <3>3 DEF Slot
    <3> QED BY <3>2, <3>3
  <2>3. CASE ~ (u = t /\ i = n) /\ ~ (v = t /\ j = n)
    <3>1. /\ i \in 1 .. Len(stack[u]) /\ stack'[u][i] = stack[u][i]
          /\ j \in 1 .. Len(stack[v]) /\ stack'[v][j] = stack[v][j]
      BY <1>13, <2>3
    <3> QED BY <1>4, <3>1 DEF OwnDistinct
  <2> QED BY <2>1, <2>2, <2>3
<1> QED BY <1>10, <1>11, <1>15, <1>17 DEF SlotInv

LEMMA WriteSlot ==
  ASSUME SlotInv, BaseInv, NEW t \in Threads, NEW pc \in {"CC", "f", "C3"},
         NEW fnc \in Fncs \union {None}, NEW next \in {"f", "C3", "has", "return"},
         NEW k \in 0 .. 3, Write(t, pc, fnc, k, next),
         next = "f" => k = 1, next = "C3" => k = 2
  PROVE  SlotInv'
<1> DEFINE n == Len(stack[t])
<1>1. /\ stack[t] # <<>> /\ Top(t).pc = pc /\ UNCHANGED <<bricks, sz, bridgemap, alternates, opened, canceled>>
  BY DEF Write, At, budget, history
<1>2. PICK fr, s : /\ SetTop(t, fr) /\ fr = [Top(t) EXCEPT !.ret = Slot(Top(t)), !.pc = next]
                   /\ s = Slot(Top(t)) /\ cell' = [cell EXCEPT ![s] = [fnc |-> fnc, written |-> k]]
  BY DEF Write
<1>3. /\ Top(t) \in Frame /\ SlotOK(Top(t)) /\ n \in 1 .. n /\ n \in Nat
      /\ Top(t) = stack[t][n] /\ Owns(Top(t))
  BY <1>1, TopFrame DEF Owns
<1>4. TypeW /\ bricks \in Nat /\ TypeS /\ FreeOK /\ OwnDistinct
  BY BaseFacts DEF SlotInv
<1>5. s \in Slots /\ s = <<Top(t).b, Top(t).sz>> /\ Top(t).b \in Bricks /\ Top(t).sz \in 0 .. MaxCalls
  BY <1>2, <1>3 DEF Frame, Slot, Slots
<1>6. Top(t).b \notin opened => Top(t).sz < sz[Top(t).b]
  BY <1>3 DEF SlotOK
<1>7. /\ fr \in Frame /\ fr.b = Top(t).b /\ fr.sz = Top(t).sz /\ fr.pc = next
  BY <1>2, <1>3, <1>5 DEF Frame, PCs, Slot
<1>8. Slot(fr) = s
  BY <1>5, <1>7 DEF Slot
<1>9. cell'[s] = [fnc |-> fnc, written |-> k] /\ \A r \in Slots : r # s => cell'[r] = cell[r]
  BY <1>2, <1>4, <1>5 DEF TypeS
<1>10. TypeS'
  <2>1. cell' \in [Slots -> [fnc : Fncs \union {None}, written : 0 .. 3]]
    BY <1>2, <1>4 DEF TypeS
  <2> QED BY <1>1, <1>4, <2>1 DEF TypeS
<1>11. FreeOK'
  <2>1. ASSUME NEW b \in Bricks \ opened, NEW j \in 0 .. MaxCalls, sz[b] <= j PROVE cell'[<<b, j>>].written = 0
    <3>1. <<b, j>> \in Slots /\ <<b, j>> # s
      <4>1. sz[b] \in Nat
        BY <1>4, BridgeAssumption DEF TypeS
      <4> QED BY <1>5, <1>6, <2>1, <4>1, BridgeAssumption DEF Slots
    <3>2. cell[<<b, j>>].written = 0
      BY <1>4, <2>1 DEF FreeOK
    <3> QED BY <1>9, <3>1, <3>2
  <2> QED BY <1>1, <1>4, <2>1 DEF FreeOK
<1>12. Moved(t, n, fr)
  BY <1>1, <1>2, <1>4, <1>7, FrameTypes, MovedSetTop
<1>13. SlotOK(fr)'
  <2>1. cell'[s].written = k
    BY <1>9
  <2>2. Owns(fr) => Progress(fr) = k
    BY <1>7 DEF Owns, Progress
  <2> QED BY <1>1, <1>6, <1>7, <1>8, <2>1, <2>2 DEF SlotOK
<1>14. ASSUME NEW u \in Threads, NEW i \in 1 .. Len(stack'[u])
       PROVE  stack'[u][i] \in Frame /\ SlotOK(stack[u][i])'
  <2>1. CASE u = t /\ i = n
    BY <1>7, <1>12, <1>13, <2>1 DEF Moved
  <2>2. CASE ~ (u = t /\ i = n)
    <3>1. PICK g : g = stack[u][i]
      OBVIOUS
    <3>2. i \in 1 .. Len(stack[u]) /\ stack'[u][i] = g
      BY <1>12, <2>2, <3>1 DEF Moved
    <3>3. /\ g \in Frame /\ SlotOK(g)
      BY <3>1, <3>2 DEF SlotInv
    <3>4. Slot(g) \in Slots
      BY <3>3 DEF Frame, Slot, Slots
    <3>5. Owns(g) /\ g.b \notin opened => Slot(g) # s
      BY <1>2, <1>3, <1>4, <2>2, <3>1, <3>2 DEF OwnDistinct
    <3>6. SlotOK(g)'
      BY <1>1, <1>9, <3>3, <3>4, <3>5 DEF SlotOK
    <3> QED BY <3>2, <3>3, <3>6 DEF SlotOK
  <2> QED BY <2>1, <2>2
<1>15. OwnDistinct'
  <2>1. ASSUME NEW u \in Threads, NEW i \in 1 .. Len(stack'[u]), Owns(stack'[u][i])
        PROVE  /\ i \in 1 .. Len(stack[u]) /\ Owns(stack[u][i])
               /\ Slot(stack'[u][i]) = Slot(stack[u][i]) /\ stack'[u][i].b = stack[u][i].b
    <3>1. CASE u = t /\ i = n
      BY <1>2, <1>3, <1>7, <1>8, <1>12, <2>1, <3>1 DEF Moved
    <3>2. CASE ~ (u = t /\ i = n)
      BY <1>12, <2>1, <3>2 DEF Moved
    <3> QED BY <3>1, <3>2
  <2>9. ASSUME NEW u \in Threads, NEW v \in Threads, NEW i \in 1 .. Len(stack'[u]), NEW j \in 1 .. Len(stack'[v]),
               Owns(stack'[u][i]), Owns(stack'[v][j]), stack'[u][i].b \notin opened', u # v \/ i # j
        PROVE  Slot(stack'[u][i]) # Slot(stack'[v][j])
    <3>1. /\ i \in 1 .. Len(stack[u]) /\ Owns(stack[u][i]) /\ stack[u][i].b \notin opened
          /\ j \in 1 .. Len(stack[v]) /\ Owns(stack[v][j])
          /\ Slot(stack'[u][i]) = Slot(stack[u][i]) /\ Slot(stack'[v][j]) = Slot(stack[v][j])
      BY <1>1, <2>1, <2>9
    <3> QED BY <1>4, <2>9, <3>1 DEF OwnDistinct
  <2> QED BY <2>9 DEF OwnDistinct
<1> QED BY <1>10, <1>11, <1>14, <1>15 DEF SlotInv

LEMMA SlotInit == Init => SlotInv
<1> SUFFICES ASSUME Init PROVE SlotInv
  OBVIOUS
<1>1. /\ stack = [t \in Threads |-> <<>>] /\ bricks = 1 /\ sz = [b \in Bricks |-> 0]
      /\ bridgemap = [f \in Fncs |-> NoSlot] /\ alternates = [f \in Fncs |-> NoSlot]
      /\ cell = [s \in Slots |-> [fnc |-> None, written |-> 0]]
      /\ opened = {} /\ canceled = {}
  BY DEF Init
<1>2. TypeS
  BY <1>1, BridgeAssumption DEF TypeS
<1>3. FreeOK
  BY <1>1, BridgeAssumption DEF FreeOK, Slots
<1>4. \A t \in Threads : Len(stack[t]) = 0
  BY <1>1, EmptySeq
<1> QED BY <1>2, <1>3, <1>4 DEF SlotInv, OwnDistinct

LEMMA SlotStep ==
  ASSUME SlotInv, BaseInv, BaseInv', RoomInv', CoveredInv, NEW t \in Threads, Step(t)
  PROVE  SlotInv'
<1>1. ASSUME NEW pc \in {"CC", "f", "C3"}, At(t, pc)
      PROVE  /\ cell[Slot(Top(t))].fnc \in Fncs \union {None} /\ Top(t).fnc \in Fncs \union {None}
  <2>1. Top(t) \in Frame
    BY <1>1, TopFrame DEF At
  <2>2. Slot(Top(t)) \in Slots /\ Top(t).fnc \in Fncs \union {None}
    BY <2>1 DEF Frame, Slot, Slots
  <2>3. cell \in [Slots -> [fnc : Fncs \union {None}, written : 0 .. 3]]
    BY DEF SlotInv, TypeS
  <2> QED BY <2>2, <2>3
<1>2. CASE WriteHead(t)
  <2>1. At(t, "CC")
    BY <1>2 DEF WriteHead, Write
  <2> QED BY <1>1, <1>2, <2>1, WriteSlot DEF WriteHead
<1>3. CASE WriteFnc(t)
  <2>1. At(t, "f")
    BY <1>3 DEF WriteFnc, Write
  <2> QED BY <1>1, <1>3, <2>1, WriteSlot DEF WriteFnc
<1>4. CASE WriteTail(t)
  <2>1. At(t, "C3")
    BY <1>4 DEF WriteTail, Write
  <2>2. After(Top(t).op) \in {"has", "return"}
    BY DEF After
  <2> QED BY <1>1, <1>4, <2>1, <2>2, WriteSlot DEF WriteTail
<1> QED BY <1>2, <1>3, <1>4, CheckBridgedSlot, LocksSlot, TestFullSlot, AttachSlot, ClaimSlot, BumpSlot,
           PutSlot, AddAlternateSlot, RelockSlot, LeaveSlot
        DEF Step

LEMMA SlotNext == SlotInv /\ EntryInv /\ EntryInv' /\ [Next]_vars => SlotInv'
<1> SUFFICES ASSUME SlotInv, EntryInv, EntryInv', [Next]_vars PROVE SlotInv'
  OBVIOUS
<1>0. BaseInv /\ BaseInv' /\ RoomInv' /\ CoveredInv
  BY DEF EntryInv
<1>1. CASE UNCHANGED vars
  BY <1>1 DEF vars, SlotInv, TypeS, FreeOK, OwnDistinct, SlotOK
<1>2. CASE Next
  <2>1. PICK t \in Threads :
          \/ Step(t) \/ Signal(t) \/ HandlerEnds(t) \/ SigLongjmp(t)
          \/ \E op \in Ops, f \in Fncs : BeginCall(t, op, f)
    BY <1>2 DEF Next
  <2> QED BY <1>0, <2>1, SlotStep, SignalSlot, LocksSlot, LeaveSlot, BeginCallSlot
<1> QED BY <1>1, <1>2

LEMMA SlotInvAlways == Spec => [](EntryInv /\ SlotInv)
BY SlotInit, SlotNext, EntryInvAlways, PTL DEF Spec

(***************************************************************************)
(* The variables have their types, and b->sz of AddBridge passes NBRICK    *)
(* only in a brick that a signal opened, between the test of b->sz and its *)
(* increment: signals that come elsewhere, however many and whatever the   *)
(* mutexes do under them, make no brick overrun.                           *)
(***************************************************************************)
THEOREM TypeOKAlways == Spec => []TypeOK
<1>1. EntryInv /\ SlotInv => TypeOK
  <2> SUFFICES ASSUME BaseInv, SlotInv PROVE TypeOK
    BY DEF EntryInv
  <2>1. \A t \in Threads : Frames(t) \subseteq Frame
    BY BaseFacts, StackFrames DEF Frames, SlotInv
  <2> QED BY <2>1 DEF TypeOK, BaseInv, TypeW, SlotInv, TypeS, FreeOK
<1> QED BY <1>1, SlotInvAlways, PTL

(***************************************************************************)
(* Two calls of AddBridge never write the same bridge, none writes one     *)
(* already in use and none writes past the end of a brick, but in a brick  *)
(* that a signal opened.                                                   *)
(***************************************************************************)
THEOREM SlotsDistinctAlways == Spec => []SlotsDistinct
<1>1. EntryInv /\ SlotInv => SlotsDistinct
  <2> SUFFICES ASSUME BaseInv, CoveredInv, SlotInv PROVE SlotsDistinct
    BY DEF EntryInv
  <2>1. ASSUME NEW p \in Places, Writing(p)
        PROVE  /\ p[1] \in Threads /\ p[2] \in 1 .. Len(stack[p[1]]) /\ p = <<p[1], p[2]>>
               /\ stack[p[1]][p[2]] \in Frame /\ SlotOK(stack[p[1]][p[2]])
               /\ Owns(stack[p[1]][p[2]]) \/ stack[p[1]][p[2]].pc = "bump"
    <3>1. p[1] \in Threads /\ p[2] \in DOMAIN stack[p[1]] /\ p = <<p[1], p[2]>>
      BY DEF Places
    <3>2. p[2] \in 1 .. Len(stack[p[1]])
      BY <3>1, BaseFacts, StackFrames
    <3> QED BY <2>1, <3>1, <3>2 DEF Writing, InBridge, SlotInv, Owns
  <2>2. ASSUME NEW p \in Places, Writing(p), NEW q \in Places, Writing(q), p # q,
               stack[p[1]][p[2]].b \notin opened
        PROVE  Slot(stack[p[1]][p[2]]) # Slot(stack[q[1]][q[2]])
    <3>0. PICK g, h : g = stack[p[1]][p[2]] /\ h = stack[q[1]][q[2]]
      OBVIOUS
    <3> SUFFICES ASSUME g.b = h.b PROVE Slot(g) # Slot(h)
      BY <3>0 DEF Slot
    <3>1. /\ p[1] \in Threads /\ p[2] \in 1 .. Len(stack[p[1]]) /\ g \in Frame /\ SlotOK(g)
          /\ q[1] \in Threads /\ q[2] \in 1 .. Len(stack[q[1]]) /\ h \in Frame /\ SlotOK(h)
          /\ Owns(g) \/ g.pc = "bump"
          /\ Owns(h) \/ h.pc = "bump"
          /\ p[1] # q[1] \/ p[2] # q[2]
          /\ g.b \notin opened /\ h.b \notin opened
      BY <2>1, <2>2, <3>0
    <3>2. ~ (g.pc = "bump" /\ h.pc = "bump")
      BY <3>0, <3>1, OneTakes
    <3>3. CASE Owns(g) /\ Owns(h)
      BY <3>0, <3>1, <3>3 DEF SlotInv, OwnDistinct
    <3>4. g.b \in Bricks /\ h.b \in Bricks /\ g.sz \in Nat /\ h.sz \in Nat
      BY <3>1, BridgeAssumption DEF Frame
    <3>5. CASE g.pc = "bump" /\ Owns(h)
      BY <3>1, <3>4, <3>5 DEF SlotOK, Slot
    <3>6. CASE Owns(g) /\ h.pc = "bump"
      BY <3>1, <3>4, <3>6 DEF SlotOK, Slot
    <3> QED BY <3>1, <3>2, <3>3, <3>5, <3>6
  <2>3. ASSUME NEW p \in Places, Writing(p), stack[p[1]][p[2]].b \notin opened
        PROVE  /\ stack[p[1]][p[2]].sz < NBRICK
               /\ cell[Slot(stack[p[1]][p[2]])].written =
                    CASE stack[p[1]][p[2]].pc = "f" -> 1 [] stack[p[1]][p[2]].pc = "C3" -> 2 [] OTHER -> 0
    <3> DEFINE g == stack[p[1]][p[2]]
    <3>1. g \in Frame /\ SlotOK(g) /\ (Owns(g) \/ g.pc = "bump") /\ g.b \notin opened
      BY <2>1, <2>3
    <3> HIDE DEF g
    <3>2. g.b \in Bricks \ opened /\ g.sz \in 0 .. MaxCalls /\ g.sz \in Nat
      BY <3>1, BridgeAssumption DEF Frame
    <3>3. sz[g.b] \in Nat /\ sz[g.b] <= NBRICK /\ NBRICK \in Nat
      BY <3>2, BridgeAssumption DEF SlotInv, TypeS, FreeOK
    <3>4. g.sz < NBRICK
      BY <3>1, <3>2, <3>3 DEF SlotOK
    <3>5. CASE g.pc = "bump"
      <4>1. sz[g.b] = g.sz
        BY <3>1, <3>5 DEF SlotOK
      <4>2. cell[Slot(g)].written = 0
        BY <3>2, <4>1 DEF SlotInv, FreeOK, Slot
      <4> QED BY <3>4, <3>5, <4>2 DEF g
    <3>6. CASE Owns(g)
      BY <3>1, <3>4, <3>6 DEF SlotOK, Owns, Progress, g
    <3> QED BY <3>1, <3>5, <3>6
  <2> QED BY <2>2, <2>3 DEF SlotsDistinct
<1> QED BY <1>1, SlotInvAlways, PTL

-----------------------------------------------------------------------------
\* The call's bridge is in the map and not written yet.
Late(fr) == fr.pc \in {"unlock", "CC", "f", "C3"}

\* Sound, in the state after a step.
SoundNext(f, s) ==
  \/ s = NoSlot
  \/ cell'[s] = [fnc |-> f, written |-> 3]
  \/ \E t \in Threads : \E i \in 1 .. Len(stack'[t]) :
       Late(stack'[t][i]) /\ stack'[t][i].fnc = f /\ Slot(stack'[t][i]) = s
  \/ s \in canceled' \/ s[1] \in opened'

\* A bridge stays sound when no bridge is written and no such call is left.
LEMMA SoundQuiet ==
  ASSUME NEW t \in Threads, NEW k \in Nat, NEW fr, Moved(t, k, fr), UNCHANGED cell,
         opened \subseteq opened', canceled \subseteq canceled',
         \A i \in 1 .. Len(stack[t]) : k <= i /\ Late(stack[t][i]) =>
           \/ /\ i = k /\ k \in 1 .. Len(stack'[t])
              /\ Late(fr) /\ fr.fnc = stack[t][i].fnc /\ Slot(fr) = Slot(stack[t][i])
           \/ Slot(stack[t][i]) \in canceled',
         NEW f, NEW s, Sound(f, s)
  PROVE  SoundNext(f, s)
<1>1. CASE s = NoSlot \/ cell[s] = [fnc |-> f, written |-> 3] \/ s \in canceled \/ s[1] \in opened
  BY <1>1 DEF SoundNext
<1>2. CASE \E u \in Threads : \E i \in 1 .. Len(stack[u]) :
             Late(stack[u][i]) /\ stack[u][i].fnc = f /\ Slot(stack[u][i]) = s
  <2>0. PICK u \in Threads : \E i \in 1 .. Len(stack[u]) :
          Late(stack[u][i]) /\ stack[u][i].fnc = f /\ Slot(stack[u][i]) = s
    BY <1>2
  <2>1. PICK i \in 1 .. Len(stack[u]) :
          Late(stack[u][i]) /\ stack[u][i].fnc = f /\ Slot(stack[u][i]) = s
    BY <2>0
  <2>2. CASE u = t /\ k <= i
    <3>1. CASE s \in canceled'
      BY <3>1 DEF SoundNext
    <3>2. CASE s \notin canceled'
      <4>1. /\ i = k /\ k \in 1 .. Len(stack'[t])
            /\ Late(fr) /\ fr.fnc = f /\ Slot(fr) = s
        BY <2>1, <2>2, <3>2
      <4>2. stack'[t][k] = fr
        BY <4>1 DEF Moved
      <4> QED BY <4>1, <4>2 DEF SoundNext
    <3> QED BY <3>1, <3>2
  <2>3. CASE ~ (u = t /\ k <= i)
    <3>1. i \in 1 .. Len(stack'[u]) /\ stack'[u][i] = stack[u][i]
      BY <2>3 DEF Moved
    <3> QED BY <2>1, <3>1 DEF SoundNext
  <2> QED BY <2>2, <2>3
<1> QED BY <1>1, <1>2 DEF Sound, Late

\* The maps stay sound, if what a step puts in them is.
LEMMA MapStep ==
  ASSUME MapInv, SlotInv, NEW t \in Threads, NEW k \in Nat, NEW fr, Moved(t, k, fr), opened \subseteq opened',
         \A f : \A s \in Slots \union {NoSlot} : Sound(f, s) => SoundNext(f, s),
         \A u \in Threads : \A i \in 1 .. Len(stack[u]) :
           ~ (u = t /\ i = k) /\ stack[u][i].pc = "C3" /\ stack[u][i].b \notin opened =>
             cell'[Slot(stack[u][i])] = cell[Slot(stack[u][i])],
         fr.pc \in {"has", "alt"} => SoundNext(fr.fnc, fr.ret),
         fr.pc = "C3" /\ fr.b \notin opened' => cell'[Slot(fr)].fnc = fr.fnc,
         \A f \in Fncs : SoundNext(f, bridgemap'[f]) /\ SoundNext(f, alternates'[f])
  PROVE  MapInv'
<1>1. ASSUME NEW u \in Threads, NEW i \in 1 .. Len(stack'[u])
      PROVE  /\ stack'[u][i].pc \in {"has", "alt"} => SoundNext(stack'[u][i].fnc, stack'[u][i].ret)
             /\ stack'[u][i].pc = "C3" /\ stack'[u][i].b \notin opened' =>
                  cell'[Slot(stack'[u][i])].fnc = stack'[u][i].fnc
  <2>1. CASE u = t /\ i = k
    <3>1. stack'[u][i] = fr
      BY <2>1 DEF Moved
    <3> QED BY <3>1
  <2>2. CASE ~ (u = t /\ i = k)
    <3>1. PICK g : g = stack[u][i]
      OBVIOUS
    <3>2. i \in 1 .. Len(stack[u]) /\ stack'[u][i] = g
      BY <2>2, <3>1 DEF Moved
    <3>3. /\ g.pc \in {"has", "alt"} => Sound(g.fnc, g.ret)
          /\ g.pc = "C3" /\ g.b \notin opened => cell[Slot(g)].fnc = g.fnc
      BY <3>1, <3>2 DEF MapInv
    <3>4. g.ret \in Slots \union {NoSlot}
      BY <3>1, <3>2 DEF SlotInv, Frame
    <3>5. g.pc \in {"has", "alt"} => SoundNext(g.fnc, g.ret)
      BY <3>3, <3>4
    <3>6. g.pc = "C3" /\ g.b \notin opened => cell'[Slot(g)] = cell[Slot(g)]
      BY <2>2, <3>1, <3>2
    <3> QED BY <3>2, <3>3, <3>5, <3>6
  <2> QED BY <2>1, <2>2
<1>2. ASSUME NEW f \in Fncs PROVE Sound(f, bridgemap[f])' /\ Sound(f, alternates[f])'
  <2>1. SoundNext(f, bridgemap'[f])
    OBVIOUS
  <2>2. SoundNext(f, alternates'[f])
    OBVIOUS
  <2>3. Sound(f, bridgemap[f])'
    <3>1. CASE bridgemap'[f] = NoSlot \/ bridgemap'[f] \in canceled' \/ bridgemap'[f][1] \in opened'
      BY <3>1 DEF Sound
    <3>2. CASE cell'[bridgemap'[f]] = [fnc |-> f, written |-> 3]
      BY <3>2 DEF Sound
    <3>3. CASE \E w \in Threads : \E j \in 1 .. Len(stack'[w]) :
                 Late(stack'[w][j]) /\ stack'[w][j].fnc = f /\ Slot(stack'[w][j]) = bridgemap'[f]
      <4>1. PICK w \in Threads : \E j \in 1 .. Len(stack'[w]) :
              Late(stack'[w][j]) /\ stack'[w][j].fnc = f /\ Slot(stack'[w][j]) = bridgemap'[f]
        BY <3>3
      <4>2. PICK j \in 1 .. Len(stack'[w]) :
              Late(stack'[w][j]) /\ stack'[w][j].fnc = f /\ Slot(stack'[w][j]) = bridgemap'[f]
        BY <4>1
      <4> QED BY <4>2 DEF Sound, Late, Slot
    <3> QED BY <2>1, <3>1, <3>2, <3>3 DEF SoundNext
  <2>4. Sound(f, alternates[f])'
    <3>1. CASE alternates'[f] = NoSlot \/ alternates'[f] \in canceled' \/ alternates'[f][1] \in opened'
      BY <3>1 DEF Sound
    <3>2. CASE cell'[alternates'[f]] = [fnc |-> f, written |-> 3]
      BY <3>2 DEF Sound
    <3>3. CASE \E w \in Threads : \E j \in 1 .. Len(stack'[w]) :
                 Late(stack'[w][j]) /\ stack'[w][j].fnc = f /\ Slot(stack'[w][j]) = alternates'[f]
      <4>1. PICK w \in Threads : \E j \in 1 .. Len(stack'[w]) :
              Late(stack'[w][j]) /\ stack'[w][j].fnc = f /\ Slot(stack'[w][j]) = alternates'[f]
        BY <3>3
      <4>2. PICK j \in 1 .. Len(stack'[w]) :
              Late(stack'[w][j]) /\ stack'[w][j].fnc = f /\ Slot(stack'[w][j]) = alternates'[f]
        BY <4>1
      <4> QED BY <4>2 DEF Sound, Late, Slot
    <3> QED BY <2>2, <3>1, <3>2, <3>3 DEF SoundNext
  <2> QED BY <2>3, <2>4
<1>3. ASSUME NEW u \in Threads, NEW i \in 1 .. Len(stack'[u]), stack'[u][i].pc \in {"has", "alt"}
      PROVE  Sound(stack[u][i].fnc, stack[u][i].ret)'
  <2>1. SoundNext(stack'[u][i].fnc, stack'[u][i].ret)
    BY <1>1, <1>3
  <2> QED BY <2>1 DEF Sound, SoundNext, Late, Slot
<1>4. ASSUME NEW u \in Threads, NEW i \in 1 .. Len(stack'[u]), stack'[u][i].pc = "C3", stack'[u][i].b \notin opened'
      PROVE  (cell[Slot(stack[u][i])].fnc = stack[u][i].fnc)'
  BY <1>1, <1>4 DEF Slot
<1> QED BY <1>2, <1>3, <1>4 DEF MapInv

\* The steps that leave the maps and the bridges alone.
LEMMA MapQuiet ==
  ASSUME MapInv, SlotInv, NEW t \in Threads, NEW k \in Nat, NEW fr, Moved(t, k, fr),
         UNCHANGED <<cell, bridgemap, alternates>>, opened \subseteq opened', canceled \subseteq canceled',
         \A i \in 1 .. Len(stack[t]) : k <= i /\ Late(stack[t][i]) =>
           \/ /\ i = k /\ k \in 1 .. Len(stack'[t])
              /\ Late(fr) /\ fr.fnc = stack[t][i].fnc /\ Slot(fr) = Slot(stack[t][i])
           \/ Slot(stack[t][i]) \in canceled',
         fr.pc \in {"has", "alt"} => Sound(fr.fnc, fr.ret),
         fr.pc # "C3"
  PROVE  MapInv'
<1>1. \A f, s : Sound(f, s) => SoundNext(f, s)
  BY SoundQuiet
<1>2. \A f \in Fncs : Sound(f, bridgemap[f]) /\ Sound(f, alternates[f])
  BY DEF MapInv
<1>3. \A f \in Fncs : SoundNext(f, bridgemap'[f]) /\ SoundNext(f, alternates'[f])
  BY <1>1, <1>2
<1> QED BY <1>1, <1>3, MapStep

\* The innermost frame changes.
LEMMA MapTop ==
  ASSUME MapInv, SlotInv, BaseInv, NEW t \in Threads, stack[t] # <<>>, NEW fr \in Frame, SetTop(t, fr),
         UNCHANGED <<cell, bridgemap, alternates, opened, canceled>>,
         Late(Top(t)) => Late(fr) /\ fr.fnc = Top(t).fnc /\ Slot(fr) = Slot(Top(t)),
         fr.pc \in {"has", "alt"} => Sound(fr.fnc, fr.ret),
         fr.pc # "C3"
  PROVE  MapInv'
<1> DEFINE n == Len(stack[t])
<1>1. TypeW /\ n \in Nat /\ Top(t) = stack[t][n]
  BY BaseFacts, TopFrame
<1>2. Moved(t, n, fr) /\ n \in 1 .. Len(stack'[t])
  BY <1>1, FrameTypes, MovedSetTop
<1>3. \A i \in 1 .. n : n <= i => i = n
  BY <1>1
<1>4. \A i \in 1 .. n : n <= i /\ Late(stack[t][i]) =>
           /\ i = n /\ n \in 1 .. Len(stack'[t])
           /\ Late(fr) /\ fr.fnc = stack[t][i].fnc /\ Slot(fr) = Slot(stack[t][i])
  BY <1>1, <1>2, <1>3
<1> HIDE DEF n
<1> QED BY <1>1, <1>2, <1>4, MapQuiet DEF n

LEMMA GotoMap ==
  ASSUME MapInv, SlotInv, BaseInv, NEW t \in Threads,
         \/ LockBridge(t) \/ LockProt(t) \/ LockBlocks(t) \/ UnlockBlocks(t) \/ UnlockProt(t)
         \/ HasAlternate(t) \/ HandlerEnds(t) \/ UnlockBridge(t)
  PROVE  MapInv'
<1>1. PICK p, pc : /\ At(t, p) /\ Goto(t, pc)
                   /\ pc \in {"full", "node", "protd", "noded", "return", "attach", "alt", "relock", "CC"}
                   /\ p \in {"lock", "prot", "node", "noded", "protd", "has", "run", "unlock"}
                   /\ p = "unlock" => pc = "CC"
                   /\ pc = "alt" => p = "has"
                   /\ UNCHANGED <<cell, bridgemap, alternates, opened, canceled>>
  BY DEF LockBridge, LockProt, LockBlocks, UnlockBlocks, UnlockProt, HasAlternate, HandlerEnds,
         UnlockBridge, bridgeVars, budget, history
<1>2. PICK fr : fr = [Top(t) EXCEPT !.pc = pc] /\ SetTop(t, fr)
  BY <1>1 DEF Goto
<1>3. stack[t] # <<>> /\ Top(t) \in Frame /\ Top(t).pc = p /\ Top(t) = stack[t][Len(stack[t])]
      /\ Len(stack[t]) \in 1 .. Len(stack[t])
  BY <1>1, TopFrame DEF At
<1>4. /\ fr \in Frame /\ fr.pc = pc /\ fr.fnc = Top(t).fnc /\ fr.ret = Top(t).ret
      /\ Slot(fr) = Slot(Top(t))
  BY <1>1, <1>2, <1>3 DEF Frame, PCs, Slot
<1>5. Late(Top(t)) => Late(fr)
  BY <1>1, <1>3, <1>4 DEF Late
<1>6. p = "has" => Sound(Top(t).fnc, Top(t).ret)
  BY <1>3 DEF MapInv
<1>7. fr.pc \in {"has", "alt"} => Sound(fr.fnc, fr.ret)
  BY <1>1, <1>4, <1>6
<1> QED BY <1>1, <1>2, <1>3, <1>4, <1>5, <1>7, MapTop

LEMMA CheckBridgedMap ==
  ASSUME MapInv, SlotInv, BaseInv, NEW t \in Threads, CheckBridged(t)
  PROVE  MapInv'
<1>1. /\ stack[t] # <<>> /\ At(t, "check") /\ UNCHANGED <<cell, bridgemap, alternates, opened, canceled>>
  BY DEF CheckBridged, At, bridgeVars, budget, history
<1>2. /\ Top(t) \in FrameW /\ Top(t).pc = "check" /\ ~ IsHandler(Top(t)) /\ Placed(Top(t))
  BY <1>1, CallTop DEF PCs
<1>3. Top(t).fnc \in Fncs
  BY <1>2, OpCases DEF Placed, InNewBrick
<1>4. /\ Top(t) \in Frame /\ bridgemap[Top(t).fnc] \in Slots \union {NoSlot}
      /\ Sound(Top(t).fnc, bridgemap[Top(t).fnc])
  BY <1>1, <1>3, TopFrame DEF SlotInv, TypeS, MapInv
<1>5. After(Top(t).op) \in {"has", "return"}
  BY DEF After
<1>6. PICK fr : /\ SetTop(t, fr)
                /\ fr = IF bridgemap[Top(t).fnc] = NoSlot THEN [Top(t) EXCEPT !.pc = "lock"]
                        ELSE [Top(t) EXCEPT !.ret = bridgemap[Top(t).fnc], !.pc = After(Top(t).op)]
  BY DEF CheckBridged, Goto
<1>7. /\ fr \in Frame /\ fr.pc \in {"lock", "has", "return"} /\ fr.fnc = Top(t).fnc
      /\ fr.pc = "has" => fr.ret = bridgemap[Top(t).fnc]
  BY <1>4, <1>5, <1>6 DEF Frame, PCs
<1>8. fr.pc \in {"has", "alt"} => Sound(fr.fnc, fr.ret)
  BY <1>4, <1>7
<1>9. ~ Late(Top(t))
  BY <1>2 DEF Late
<1> QED BY <1>1, <1>6, <1>7, <1>8, <1>9, MapTop

LEMMA BrickMap ==
  ASSUME MapInv, SlotInv, BaseInv, BaseInv', NEW t \in Threads,
         TestFull(t) \/ Attach(t) \/ Claim(t) \/ Bump(t)
  PROVE  MapInv'
<1>1. /\ stack[t] # <<>> /\ Top(t).pc \in {"full", "attach", "claim", "bump"}
      /\ UNCHANGED <<cell, bridgemap, alternates, opened, canceled>>
  BY DEF TestFull, Attach, Claim, Bump, At, bridgeVars, budget, history
<1>2. Top(t) \in Frame /\ TypeW /\ last = bricks /\ last \in Bricks /\ SlotOK(Top(t))
  BY <1>1, TopFrame, BaseFacts DEF TypeW
<1>3. PICK fr : SetTop(t, fr) /\ fr \in Frame /\ fr.pc \in {"prot", "claim", "bump", "put"}
  <2>1. CASE TestFull(t)
    <3>1. PICK fr : /\ SetTop(t, fr)
                    /\ fr = [Top(t) EXCEPT !.b = last, !.pc = IF Full(last) THEN "prot" ELSE "claim"]
      BY <2>1 DEF TestFull
    <3>2. fr \in Frame /\ fr.pc \in {"prot", "claim"}
      BY <1>2, <3>1 DEF Frame, PCs
    <3> QED BY <3>1, <3>2
  <2>2. CASE Attach(t)
    <3>1. PICK fr : SetTop(t, fr) /\ fr = [Top(t) EXCEPT !.b = bricks', !.pc = "claim"]
      BY <2>2 DEF Attach
    <3>2. bricks' \in Bricks
      BY DEF BaseInv, TypeW
    <3>3. fr \in Frame /\ fr.pc = "claim"
      BY <1>2, <3>1, <3>2 DEF Frame, PCs
    <3> QED BY <3>1, <3>3
  <2>3. CASE Claim(t)
    <3>1. PICK fr : SetTop(t, fr) /\ fr = [Top(t) EXCEPT !.sz = sz[Top(t).b], !.pc = "bump"]
      BY <2>3 DEF Claim
    <3>2. Top(t).pc = "claim" /\ Top(t).b \in Bricks /\ sz[Top(t).b] \in 0 .. MaxCalls
      BY <1>2, <2>3 DEF Claim, At, Frame, SlotInv, TypeS, SlotOK
    <3>3. fr \in Frame /\ fr.pc = "bump"
      BY <1>2, <3>1, <3>2 DEF Frame, PCs
    <3> QED BY <3>1, <3>3
  <2>4. CASE Bump(t)
    <3>1. PICK fr : SetTop(t, fr) /\ fr = [Top(t) EXCEPT !.pc = "put"]
      BY <2>4 DEF Bump, Goto
    <3>2. fr \in Frame /\ fr.pc = "put"
      BY <1>2, <3>1 DEF Frame, PCs
    <3> QED BY <3>1, <3>2
  <2> QED BY <2>1, <2>2, <2>3, <2>4
<1>4. ~ Late(Top(t))
  BY <1>1 DEF Late
<1> QED BY <1>1, <1>3, <1>4, MapTop

\* A frame comes.
LEMMA PushMap ==
  ASSUME MapInv, SlotInv, BaseInv, NEW t \in Threads, NEW fr \in Frame, Push(t, fr),
         fr.pc \notin {"has", "alt", "C3"}, UNCHANGED <<cell, bridgemap, alternates>>,
         opened \subseteq opened', canceled \subseteq canceled'
  PROVE  MapInv'
<1>1. PICK k : k = Len(stack[t]) + 1
  OBVIOUS
<1>2. TypeW /\ Len(stack[t]) \in Nat
  BY BaseFacts, StackFrames
<1>3. Moved(t, k, fr) /\ k \in Nat
  BY <1>1, <1>2, FrameTypes, MovedPush
<1>4. \A i \in 1 .. Len(stack[t]) : ~ (k <= i)
  BY <1>1, <1>2
<1> QED BY <1>3, <1>4, MapQuiet

LEMMA BeginCallMap ==
  ASSUME MapInv, SlotInv, BaseInv, NEW t \in Threads, NEW op \in Ops, NEW f \in Fncs, BeginCall(t, op, f)
  PROVE  MapInv'
<1>1. PICK fr : /\ fr = Call(op, Start(op), IF op \in {"protect", "malloc"} THEN None ELSE f)
                /\ Push(t, fr) /\ UNCHANGED <<cell, bridgemap, alternates, opened, canceled>>
  BY DEF BeginCall, bridgeVars, history
<1>2. op \in {"check", "auto", "add", "protect", "malloc"} /\ 1 \in Bricks /\ 0 \in 0 .. MaxCalls
  BY BridgeAssumption DEF Bricks
<1>3. Start(op) \in {"check", "lock", "prot", "node"}
  BY <1>2 DEF Start
<1>4. fr \in Frame /\ fr.pc = Start(op)
  BY <1>1, <1>2, <1>3 DEF Frame, Call, PCs
<1> QED BY <1>1, <1>3, <1>4, PushMap

LEMMA SignalMap ==
  ASSUME MapInv, SlotInv, BaseInv, NEW t \in Threads, Signal(t)
  PROVE  MapInv'
<1>1. PICK fr : fr = Handler(Held(t)) /\ Push(t, fr) /\ UNCHANGED <<cell, bridgemap, alternates>>
  BY DEF Signal, unlockMutex, bridgeVars
<1>2. 1 \in Bricks /\ 0 \in 0 .. MaxCalls /\ Held(t) \in SUBSET Mutexes
  BY BridgeAssumption DEF Bricks, Held
<1>3. fr \in Frame /\ fr.pc = "run"
  BY <1>1, <1>2 DEF Frame, Handler, Call
<1>4. opened \subseteq opened' /\ canceled \subseteq canceled'
  BY DEF Signal
<1> QED BY <1>1, <1>3, <1>4, PushMap

LEMMA RelockMap ==
  ASSUME MapInv, SlotInv, BaseInv, NEW t \in Threads, Relock(t)
  PROVE  MapInv'
<1>1. PICK m : /\ At(t, "relock") /\ SetTop(t, [Top(t) EXCEPT !.saved = @ \ {m}])
               /\ UNCHANGED <<cell, bridgemap, alternates, opened, canceled>>
  BY DEF Relock, bridgeVars, budget, history
<1>2. stack[t] # <<>> /\ Top(t) \in Frame /\ Top(t).pc = "relock"
  BY <1>1, TopFrame DEF At
<1>3. PICK fr : fr = [Top(t) EXCEPT !.saved = @ \ {m}]
  OBVIOUS
<1>4. fr \in Frame /\ fr.pc = "relock" /\ ~ Late(Top(t))
  BY <1>2, <1>3 DEF Frame, Late
<1> QED BY <1>1, <1>2, <1>3, <1>4, MapTop

\* Frames go: of a call whose bridge is in the map and not written only by
\* siglongjmp, which cancels it.
LEMMA LeaveMap ==
  ASSUME MapInv, SlotInv, BaseInv, NEW t \in Threads, Return(t) \/ SigReturn(t) \/ SigLongjmp(t)
  PROVE  MapInv'
<1>0. TypeW /\ Len(stack[t]) \in Nat
  BY BaseFacts, StackFrames
<1>1. PICK k \in 1 .. 2 : /\ Drop(t, k) /\ UNCHANGED <<cell, bridgemap, alternates>>
                          /\ opened \subseteq opened' /\ canceled \subseteq canceled'
                          /\ k <= Len(stack[t])
                          /\ \A i \in 1 .. Len(stack[t]) : Len(stack[t]) - k + 1 <= i /\ Late(stack[t][i]) =>
                               Slot(stack[t][i]) \in canceled'
  <2>1. CASE Return(t) \/ SigReturn(t)
    <3>1. /\ stack[t] # <<>> /\ Top(t).pc \in {"return", "relock"} /\ Drop(t, 1)
          /\ UNCHANGED <<cell, bridgemap, alternates, opened, canceled>>
      BY <2>1 DEF Return, SigReturn, At, bridgeVars, budget, history
    <3>2. Len(stack[t]) >= 1 /\ Top(t) = stack[t][Len(stack[t])]
      BY <3>1, BaseFacts, StackFrames DEF Top
    <3>3. ~ Late(stack[t][Len(stack[t])])
      BY <3>1, <3>2 DEF Late
    <3>4. \A n \in Nat : \A i \in 1 .. n : n - 1 + 1 <= i => i = n
      OBVIOUS
    <3>5. \A i \in 1 .. Len(stack[t]) : ~ (Len(stack[t]) - 1 + 1 <= i /\ Late(stack[t][i]))
      BY <1>0, <3>3, <3>4
    <3> QED BY <3>1, <3>2, <3>5
  <2>2. CASE SigLongjmp(t)
    <3>1. /\ Len(stack[t]) >= 2 /\ Top(t) = stack[t][Len(stack[t])] /\ Top(t).pc = "run"
      BY <2>2, HandlerTop DEF SigLongjmp
    <3>2. PICK n, fr : /\ n = Len(stack[t]) - 1 /\ fr = stack[t][n]
                       /\ canceled' = IF fr.pc \in InBridge THEN canceled \union {Slot(fr)} ELSE canceled
                       /\ Drop(t, 2) /\ UNCHANGED <<cell, bridgemap, alternates, opened>>
      BY <2>2 DEF SigLongjmp, bridgeVars
    <3>3. ~ Late(stack[t][Len(stack[t])]) /\ (Late(stack[t][n]) => Slot(stack[t][n]) \in canceled')
      BY <3>1, <3>2 DEF Late, InBridge
    <3>4. \A m \in Nat : \A i \in 1 .. m : m - 2 + 1 <= i => i = m \/ i = m - 1
      OBVIOUS
    <3>5. \A i \in 1 .. Len(stack[t]) : Len(stack[t]) - 2 + 1 <= i /\ Late(stack[t][i]) =>
            Slot(stack[t][i]) \in canceled'
      BY <1>0, <3>2, <3>3, <3>4
    <3> QED BY <3>1, <3>2, <3>5
  <2> QED BY <2>1, <2>2
<1>2. PICK fr : fr = Handler({})
  OBVIOUS
<1>3. fr.pc = "run"
  BY <1>2 DEF Handler, Call
<1>4. PICK m : m = Len(stack[t]) - k + 1
  OBVIOUS
<1>5. m \in Nat
  BY <1>0, <1>1, <1>4
<1>6. Moved(t, m, fr)
  BY <1>0, <1>1, <1>4, MovedDrop
<1>7. \A i \in 1 .. Len(stack[t]) : m <= i /\ Late(stack[t][i]) => Slot(stack[t][i]) \in canceled'
  BY <1>1, <1>4
<1> QED BY <1>1, <1>3, <1>5, <1>6, <1>7, MapQuiet

\* kh_put: the bridge is in the map, and the call will write it.
LEMMA PutMap ==
  ASSUME MapInv, SlotInv, BaseInv, NEW t \in Threads, Put(t)
  PROVE  MapInv'
<1> DEFINE n == Len(stack[t])
<1>1. /\ stack[t] # <<>> /\ Top(t).pc = "put" /\ UNCHANGED <<cell, alternates, opened, canceled>>
      /\ bridgemap' = [bridgemap EXCEPT ![Top(t).fnc] = Slot(Top(t))]
  BY DEF Put, At, budget, history
<1>2. PICK fr : SetTop(t, fr) /\ fr = [Top(t) EXCEPT !.pc = "unlock"]
  BY DEF Put, Goto
<1>3. /\ Top(t) \in Frame /\ n \in Nat /\ Top(t) = stack[t][n] /\ TypeW
  BY <1>1, TopFrame, BaseFacts
<1>4. /\ fr \in Frame /\ fr.pc = "unlock" /\ fr.fnc = Top(t).fnc /\ Slot(fr) = Slot(Top(t))
  BY <1>2, <1>3 DEF Frame, PCs, Slot
<1>5. Moved(t, n, fr) /\ n \in 1 .. Len(stack'[t])
  BY <1>1, <1>2, <1>3, <1>4, FrameTypes, MovedSetTop
<1>6. \A i \in 1 .. n : n <= i => i = n
  BY <1>3
<1>7. ~ Late(stack[t][n])
  BY <1>1, <1>3 DEF Late
<1>8. \A i \in 1 .. n : ~ (n <= i /\ Late(stack[t][i]))
  BY <1>6, <1>7
<1>13. opened \subseteq opened' /\ canceled \subseteq canceled'
  BY <1>1
<1>9. \A f, s : Sound(f, s) => SoundNext(f, s)
  BY <1>1, <1>3, <1>5, <1>8, <1>13, SoundQuiet
<1>10. SoundNext(Top(t).fnc, Slot(Top(t)))
  <2>1. stack'[t][n] = fr
    BY <1>5 DEF Moved
  <2>2. Late(fr)
    BY <1>4 DEF Late
  <2> QED BY <1>4, <1>5, <2>1, <2>2 DEF SoundNext
<1>11. ASSUME NEW f \in Fncs PROVE SoundNext(f, bridgemap'[f]) /\ SoundNext(f, alternates'[f])
  <2>1. Sound(f, bridgemap[f]) /\ Sound(f, alternates[f])
    BY DEF MapInv
  <2>2. bridgemap'[f] = bridgemap[f] \/ (f = Top(t).fnc /\ bridgemap'[f] = Slot(Top(t)))
    BY <1>1 DEF SlotInv, TypeS
  <2> QED BY <1>1, <1>9, <1>10, <2>1, <2>2
<1> HIDE DEF n
<1>12. fr.pc # "C3" /\ fr.pc \notin {"has", "alt"}
  BY <1>4
<1> QED BY <1>1, <1>3, <1>5, <1>9, <1>11, <1>12, <1>13, MapStep

\* addAlternate: the alternate is the bridge the call found or made.
LEMMA AddAlternateMap ==
  ASSUME MapInv, SlotInv, BaseInv, NEW t \in Threads, AddAlternate(t)
  PROVE  MapInv'
<1> DEFINE n == Len(stack[t])
<1>1. /\ stack[t] # <<>> /\ Top(t).pc = "alt" /\ UNCHANGED <<cell, bridgemap, opened, canceled>>
      /\ alternates' = [alternates EXCEPT ![Top(t).fnc] = IF @ = NoSlot THEN Top(t).ret ELSE @]
  BY DEF AddAlternate, At, bridgeVars, budget, history
<1>2. PICK fr : SetTop(t, fr) /\ fr = [Top(t) EXCEPT !.pc = "return"]
  BY DEF AddAlternate, Goto
<1>3. /\ Top(t) \in Frame /\ n \in Nat /\ n \in 1 .. n /\ Top(t) = stack[t][n] /\ TypeW
  BY <1>1, TopFrame, BaseFacts
<1>4. /\ fr \in Frame /\ fr.pc = "return"
  BY <1>2, <1>3 DEF Frame, PCs
<1>5. Moved(t, n, fr) /\ n \in 1 .. Len(stack'[t])
  BY <1>1, <1>2, <1>3, <1>4, FrameTypes, MovedSetTop
<1>6. \A i \in 1 .. n : n <= i => i = n
  BY <1>3
<1>7. ~ Late(stack[t][n])
  BY <1>1, <1>3 DEF Late
<1>8. \A i \in 1 .. n : ~ (n <= i /\ Late(stack[t][i]))
  BY <1>6, <1>7
<1>13. opened \subseteq opened' /\ canceled \subseteq canceled'
  BY <1>1
<1>9. \A f, s : Sound(f, s) => SoundNext(f, s)
  BY <1>1, <1>3, <1>5, <1>8, <1>13, SoundQuiet
<1>10. SoundNext(Top(t).fnc, Top(t).ret)
  BY <1>1, <1>3, <1>9 DEF MapInv
<1>11. ASSUME NEW f \in Fncs PROVE SoundNext(f, bridgemap'[f]) /\ SoundNext(f, alternates'[f])
  <2>1. Sound(f, bridgemap[f]) /\ Sound(f, alternates[f])
    BY DEF MapInv
  <2>2. alternates'[f] = alternates[f] \/ (f = Top(t).fnc /\ alternates'[f] = Top(t).ret)
    BY <1>1 DEF SlotInv, TypeS
  <2> QED BY <1>1, <1>9, <1>10, <2>1, <2>2
<1> HIDE DEF n
<1>12. fr.pc # "C3" /\ fr.pc \notin {"has", "alt"}
  BY <1>4
<1> QED BY <1>1, <1>3, <1>5, <1>9, <1>11, <1>12, <1>13, MapStep

\* The writes: a bridge that another call writes, or that is written, is another one.
LEMMA WriteMap ==
  ASSUME MapInv, SlotInv, BaseInv, NEW t \in Threads, NEW pc \in {"CC", "f", "C3"},
         NEW fnc, NEW next \in {"f", "C3", "has", "return"}, NEW k, Write(t, pc, fnc, k, next),
         next = "C3" => fnc = Top(t).fnc,
         next \in {"has", "return"} => k = 3 /\ (Top(t).b \notin opened => fnc = Top(t).fnc)
  PROVE  MapInv'
<1> DEFINE n == Len(stack[t])
<1>1. /\ stack[t] # <<>> /\ Top(t).pc = pc /\ UNCHANGED <<bridgemap, alternates, opened, canceled>>
  BY DEF Write, At, budget, history
<1>2. PICK fr, s : /\ SetTop(t, fr) /\ fr = [Top(t) EXCEPT !.ret = Slot(Top(t)), !.pc = next]
                   /\ s = Slot(Top(t)) /\ cell' = [cell EXCEPT ![s] = [fnc |-> fnc, written |-> k]]
  BY DEF Write
<1>3. /\ Top(t) \in Frame /\ SlotOK(Top(t)) /\ n \in 1 .. n /\ n \in Nat
      /\ Top(t) = stack[t][n] /\ Owns(Top(t)) /\ TypeW
  BY <1>1, TopFrame, BaseFacts DEF Owns
<1>4. s \in Slots /\ s = <<Top(t).b, Top(t).sz>>
  BY <1>2, <1>3 DEF Frame, Slot, Slots
<1>5. /\ fr \in Frame /\ fr.b = Top(t).b /\ fr.sz = Top(t).sz /\ fr.pc = next /\ fr.fnc = Top(t).fnc /\ fr.ret = s
  BY <1>2, <1>3, <1>4 DEF Frame, PCs, Slot
<1>6. Slot(fr) = s
  BY <1>4, <1>5 DEF Slot
<1>7. cell'[s] = [fnc |-> fnc, written |-> k] /\ \A r \in Slots : r # s => cell'[r] = cell[r]
  BY <1>2, <1>4 DEF SlotInv, TypeS
<1>8. Top(t).b \notin opened => cell[s].written # 3
  <2>1. Top(t).b \notin opened => cell[s].written = Progress(Top(t))
    BY <1>2, <1>3 DEF SlotOK
  <2> QED BY <2>1 DEF Progress
<1>9. Moved(t, n, fr) /\ n \in 1 .. Len(stack'[t])
  BY <1>1, <1>2, <1>3, <1>5, FrameTypes, MovedSetTop
<1>10. stack'[t][n] = fr
  BY <1>9 DEF Moved
<1>11. next \in {"has", "return"} => SoundNext(Top(t).fnc, s)
  BY <1>1, <1>4, <1>7 DEF SoundNext
<1>12. next \in {"f", "C3"} => SoundNext(Top(t).fnc, s)
  <2>1. next \in {"f", "C3"} => Late(fr)
    BY <1>5 DEF Late
  <2> QED BY <1>5, <1>6, <1>9, <1>10, <2>1 DEF SoundNext
<1>13. \A i \in 1 .. n : n <= i => i = n
  BY <1>3
<1>14. ASSUME NEW u \in Threads, NEW i \in 1 .. Len(stack[u]), ~ (u = t /\ i = n)
       PROVE  i \in 1 .. Len(stack'[u]) /\ stack'[u][i] = stack[u][i]
  BY <1>9, <1>13, <1>14 DEF Moved
<1>15. ASSUME NEW f, NEW r \in Slots \union {NoSlot}, Sound(f, r) PROVE SoundNext(f, r)
  <2>1. CASE r = NoSlot \/ r \in canceled \/ r[1] \in opened
    BY <1>1, <2>1 DEF SoundNext
  <2>2. CASE r # NoSlot /\ cell[r] = [fnc |-> f, written |-> 3]
    <3>1. CASE Top(t).b \notin opened
      <4>1. r \in Slots /\ r # s
        BY <1>8, <2>2, <3>1
      <4> QED BY <1>7, <2>2, <4>1 DEF SoundNext
    <3>2. CASE Top(t).b \in opened /\ r = s
      <4>1. r[1] \in opened'
        BY <1>1, <1>4, <3>2
      <4> QED BY <4>1 DEF SoundNext
    <3>3. CASE r # s
      BY <1>7, <2>2, <3>3 DEF SoundNext
    <3> QED BY <3>1, <3>2, <3>3
  <2>3. CASE \E u \in Threads : \E i \in 1 .. Len(stack[u]) :
               Late(stack[u][i]) /\ stack[u][i].fnc = f /\ Slot(stack[u][i]) = r
    <3>0. PICK u \in Threads : \E i \in 1 .. Len(stack[u]) :
            Late(stack[u][i]) /\ stack[u][i].fnc = f /\ Slot(stack[u][i]) = r
      BY <2>3
    <3>1. PICK i \in 1 .. Len(stack[u]) :
            Late(stack[u][i]) /\ stack[u][i].fnc = f /\ Slot(stack[u][i]) = r
      BY <3>0
    <3>2. CASE u = t /\ i = n
      <4>1. f = Top(t).fnc /\ r = s
        BY <1>2, <1>3, <3>1, <3>2
      <4> QED BY <1>11, <1>12, <4>1
    <3>3. CASE ~ (u = t /\ i = n)
      <4>1. i \in 1 .. Len(stack'[u]) /\ stack'[u][i] = stack[u][i]
        BY <1>14, <3>3
      <4> QED BY <3>1, <4>1 DEF SoundNext
    <3> QED BY <3>2, <3>3
  <2> QED BY <1>15, <2>1, <2>2, <2>3 DEF Sound, Late
<1>16. ASSUME NEW u \in Threads, NEW i \in 1 .. Len(stack[u]), ~ (u = t /\ i = n), stack[u][i].pc = "C3",
              stack[u][i].b \notin opened
       PROVE  cell'[Slot(stack[u][i])] = cell[Slot(stack[u][i])]
  <2>1. PICK g : g = stack[u][i]
    OBVIOUS
  <2>2. g \in Frame /\ Owns(g)
    BY <1>16, <2>1 DEF SlotInv, Owns
  <2>3. Slot(g) \in Slots
    BY <2>2 DEF Frame, Slot, Slots
  <2>4. Slot(g) # s
    BY <1>2, <1>3, <1>16, <2>1, <2>2 DEF SlotInv, OwnDistinct
  <2> QED BY <1>7, <2>1, <2>3, <2>4
<1>17. fr.pc = "C3" => cell'[Slot(fr)].fnc = fr.fnc
  BY <1>5, <1>6, <1>7
<1>18. fr.pc \in {"has", "alt"} => SoundNext(fr.fnc, fr.ret)
  BY <1>5, <1>11
<1>19. ASSUME NEW f \in Fncs PROVE SoundNext(f, bridgemap'[f]) /\ SoundNext(f, alternates'[f])
  <2>1. Sound(f, bridgemap[f]) /\ Sound(f, alternates[f])
    BY DEF MapInv
  <2>2. bridgemap[f] \in Slots \union {NoSlot} /\ alternates[f] \in Slots \union {NoSlot}
    BY DEF SlotInv, TypeS
  <2> QED BY <1>1, <1>15, <2>1, <2>2
<1> HIDE DEF n
<1>20. opened \subseteq opened'
  BY <1>1
<1> QED BY <1>3, <1>9, <1>15, <1>16, <1>17, <1>18, <1>19, <1>20, MapStep

LEMMA MapInit == Init => MapInv
<1> SUFFICES ASSUME Init PROVE MapInv
  OBVIOUS
<1>1. /\ stack = [t \in Threads |-> <<>>]
      /\ bridgemap = [f \in Fncs |-> NoSlot] /\ alternates = [f \in Fncs |-> NoSlot]
  BY DEF Init
<1>2. \A t \in Threads : Len(stack[t]) = 0
  BY <1>1, EmptySeq
<1> QED BY <1>1, <1>2 DEF MapInv, Sound

LEMMA MapStepThread ==
  ASSUME MapInv, SlotInv, BaseInv, BaseInv', NEW t \in Threads, Step(t)
  PROVE  MapInv'
<1>1. CASE WriteHead(t)
  BY <1>1, WriteMap DEF WriteHead
<1>2. CASE WriteFnc(t)
  BY <1>2, WriteMap DEF WriteFnc
<1>3. CASE WriteTail(t)
  <2>1. stack[t] # <<>> /\ Top(t).pc = "C3"
    BY <1>3 DEF WriteTail, Write, At
  <2>2. Top(t).b \notin opened => cell[Slot(Top(t))].fnc = Top(t).fnc
    BY <2>1, TopFrame DEF MapInv
  <2>3. After(Top(t).op) \in {"has", "return"}
    BY DEF After
  <2> QED BY <1>3, <2>2, <2>3, WriteMap DEF WriteTail
<1> QED BY <1>1, <1>2, <1>3, CheckBridgedMap, GotoMap, BrickMap, PutMap, AddAlternateMap, RelockMap, LeaveMap
        DEF Step

LEMMA MapNext == MapInv /\ SlotInv /\ BaseInv /\ BaseInv' /\ [Next]_vars => MapInv'
<1> SUFFICES ASSUME MapInv, SlotInv, BaseInv, BaseInv', [Next]_vars PROVE MapInv'
  OBVIOUS
<1>1. CASE UNCHANGED vars
  <2>1. UNCHANGED <<cell, stack, bridgemap, alternates, opened, canceled>>
    BY <1>1 DEF vars
  <2>3. ASSUME NEW f \in Fncs PROVE Sound(f, bridgemap[f])' /\ Sound(f, alternates[f])'
    BY <2>1 DEF MapInv, Sound, Slot
  <2>4. ASSUME NEW t \in Threads, NEW i \in 1 .. Len(stack'[t])
        PROVE  /\ stack'[t][i].pc \in {"has", "alt"} => Sound(stack[t][i].fnc, stack[t][i].ret)'
               /\ stack'[t][i].pc = "C3" /\ stack'[t][i].b \notin opened' => (cell[Slot(stack[t][i])].fnc = stack[t][i].fnc)'
    BY <2>1 DEF MapInv, Sound, Slot
  <2> QED BY <2>3, <2>4 DEF MapInv
<1>2. CASE Next
  <2>1. PICK t \in Threads :
          \/ Step(t) \/ Signal(t) \/ HandlerEnds(t) \/ SigLongjmp(t)
          \/ \E op \in Ops, f \in Fncs : BeginCall(t, op, f)
    BY <1>2 DEF Next
  <2> QED BY <2>1, MapStepThread, SignalMap, GotoMap, LeaveMap, BeginCallMap
<1> QED BY <1>1, <1>2

(***************************************************************************)
(* The bridge that bridgemap or my_alternates gives for a function is that *)
(* function's, or a call that is not over is about to make it so, or one   *)
(* that siglongjmp canceled would have, or it is in a brick that a signal  *)
(* opened: nothing else leaves a half-written bridge in the map.           *)
(***************************************************************************)
THEOREM MapSoundAlways == Spec => []MapSound
<1>1. MapInv /\ SlotInv /\ EntryInv /\ EntryInv' /\ [Next]_vars => MapInv'
  BY MapNext DEF EntryInv
<1>2. EntryInv /\ MapInv => MapSound
  <2> SUFFICES ASSUME BaseInv, MapInv,
                      NEW f \in Fncs, NEW s \in {bridgemap[f], alternates[f]} \ {NoSlot},
                      cell[s] # [fnc |-> f, written |-> 3], s \notin canceled, s[1] \notin opened
               PROVE  \E p \in Places : LET fr == stack[p[1]][p[2]] IN Writing(p) /\ fr.fnc = f /\ Slot(fr) = s
    BY DEF MapSound, EntryInv
  <2>1. Sound(f, s)
    BY DEF MapInv
  <2>2. PICK u \in Threads : \E i \in 1 .. Len(stack[u]) :
          Late(stack[u][i]) /\ stack[u][i].fnc = f /\ Slot(stack[u][i]) = s
    BY <2>1 DEF Sound, Late
  <2>3. PICK i \in 1 .. Len(stack[u]) :
          Late(stack[u][i]) /\ stack[u][i].fnc = f /\ Slot(stack[u][i]) = s
    BY <2>2
  <2>4. /\ Len(stack[u]) \in Nat /\ Len(stack[u]) <= 2 * signals + 1
        /\ signals \in 0 .. MaxSignals /\ stack[u] \in Seq(FrameW)
    BY BaseFacts, StackFrames DEF Shape, TypeW
  <2>5. i \in 1 .. 2 * MaxSignals + 1
    BY <2>4, BridgeAssumption
  <2>6. i \in DOMAIN stack[u]
    BY <2>4
  <2>7. PICK p : p = <<u, i>>
    OBVIOUS
  <2>8. p[1] = u /\ p[2] = i /\ p \in Threads \X (1 .. 2 * MaxSignals + 1)
    BY <2>5, <2>7
  <2>9. p \in Places
    BY <2>6, <2>8 DEF Places
  <2>10. Writing(p)
    BY <2>3, <2>8 DEF Writing, Late, InBridge
  <2> QED BY <2>3, <2>8, <2>9, <2>10
<1> QED BY <1>1, <1>2, SlotInvAlways, MapInit, PTL DEF Spec

-----------------------------------------------------------------------------
(***************************************************************************)
(* How many bridges a function gets.  A call of AddCheckBridge or          *)
(* AddAutomaticBridge writes f into a bridge only if it found nothing for  *)
(* f in bridgemap, and once a bridge for f is put there it stays: the      *)
(* calls that can still write one are those that looked before.  There are *)
(* never more calls in progress than threads and running handlers.         *)
(***************************************************************************)
\* The places of the handlers and those of the calls.
Handlers == {p \in Place : IsHandler(stack[p[1]][p[2]])}

InCall == {p \in Place : ~ IsHandler(stack[p[1]][p[2]])}

\* The calls for f that looked in bridgemap in vain and have not written f yet.
BeforeWrite == {"lock", "full", "prot", "node", "noded", "protd", "attach", "claim", "bump", "put",
                "unlock", "CC", "f"}

Unwritten(f) == {p \in InCall : stack[p[1]][p[2]].fnc = f /\ stack[p[1]][p[2]].pc \in BeforeWrite}

\* The bridges that are f's.
Written(f) == {s \in Slots : cell[s].fnc = f}

\* The calls that have put their bridge in the map and not finished it.
Listed(fr) == fr.pc \in {"unlock", "CC", "f", "C3"}

HandlerCount == IsFiniteSet(Handlers) /\ Cardinality(Handlers) <= signals

Bounded(f) == /\ IsFiniteSet(Written(f)) /\ IsFiniteSet(Unwritten(f))
              /\ Cardinality(Written(f)) + Cardinality(Unwritten(f)) <= Cardinality(Threads) + signals

\* Nobody has come to write f while bridgemap has nothing for f.
Fresh(f) == bridgemap[f] = NoSlot => /\ Written(f) = {}
                                     /\ \A p \in Place : stack[p[1]][p[2]].fnc = f => ~ Listed(stack[p[1]][p[2]])

CountInv == /\ HandlerCount
            /\ cell \in [Slots -> [fnc : Fncs \union {None}, written : 0 .. 3]]
            /\ \A f \in Fncs : Bounded(f) /\ Fresh(f)

\* Under every call but the first of its thread lies a handler.
LEMMA CallsBound ==
  ASSUME BaseInv, HandlerCount
  PROVE  IsFiniteSet(InCall) /\ Cardinality(InCall) <= Cardinality(Threads) + signals
<1> DEFINE Base == Threads \X {0}
           g == [p \in InCall |-> <<p[1], p[2] - 1>>]
<1>1. IsFiniteSet(Base) /\ Cardinality(Base) <= Cardinality(Threads)
  <2> DEFINE h == [p \in Base |-> p[1]]
  <2>1. h \in Injection(Base, Threads)
    BY DEF Injection, IsInjective
  <2> QED BY <2>1, FS_Injection, CountAssumption
<1>2. ASSUME NEW p \in InCall PROVE g[p] \in Base \union Handlers
  <2>1. PICK t \in Threads, i \in Nat \ {0} : p = <<t, i>>
    BY DEF InCall, Place
  <2>2. p[1] = t /\ p[2] = i /\ i \in 1 .. Len(stack[t]) /\ ~ IsHandler(stack[t][i]) /\ g[p] = <<t, i - 1>>
    BY <2>1 DEF InCall, Place
  <2> HIDE DEF g
  <2>3. CASE i = 1
    BY <2>2, <2>3
  <2>4. CASE i # 1
    <3>1. Len(stack[t]) \in Nat /\ Shape(stack[t])
      BY BaseFacts, StackFrames
    <3>2. PICK j \in Nat \ {0} : j = i - 1
      BY <2>4
    <3>3. j \in 1 .. Len(stack[t]) - 1 /\ j + 1 = i /\ j \in 1 .. Len(stack[t])
      BY <2>2, <3>1, <3>2
    <3>4. Under(stack[t][j], stack[t][j + 1])
      BY <3>1, <3>3 DEF Shape
    <3>5. IsHandler(stack[t][j])
      BY <2>2, <3>3, <3>4 DEF Under
    <3>6. PICK q : q = <<t, j>>
      OBVIOUS
    <3>7. q[1] = t /\ q[2] = j /\ q \in Threads \X (Nat \ {0})
      BY <3>6
    <3>8. q \in Handlers
      BY <3>3, <3>5, <3>7 DEF Handlers, Place
    <3> QED BY <2>2, <3>2, <3>6, <3>8
  <2> QED BY <2>3, <2>4
<1>3. ASSUME NEW p \in InCall, NEW q \in InCall, g[p] = g[q] PROVE p = q
  <2>1. PICK t \in Threads, i \in Nat \ {0} : p = <<t, i>>
    BY DEF InCall, Place
  <2>2. PICK u \in Threads, j \in Nat \ {0} : q = <<u, j>>
    BY DEF InCall, Place
  <2>3. <<t, i - 1>> = <<u, j - 1>>
    BY <1>3, <2>1, <2>2
  <2> QED BY <2>1, <2>2, <2>3
<1>4. g \in Injection(InCall, Base \union Handlers)
  <2>1. g \in [InCall -> Base \union Handlers]
    BY <1>2
  <2> HIDE DEF g
  <2> QED BY <1>3, <2>1 DEF Injection, IsInjective
<1> HIDE DEF g, Base
<1>5. IsFiniteSet(Base \union Handlers) /\ Cardinality(Base \union Handlers) <= Cardinality(Base) + Cardinality(Handlers)
  <2>1. IsFiniteSet(Handlers)
    BY DEF HandlerCount
  <2>2. IsFiniteSet(Base \intersect Handlers)
    BY <1>1, FS_Intersection
  <2>3. /\ Cardinality(Base) \in Nat /\ Cardinality(Handlers) \in Nat
        /\ Cardinality(Base \intersect Handlers) \in Nat
    BY <1>1, <2>1, <2>2, FS_CardinalityType
  <2>4. /\ IsFiniteSet(Base \union Handlers)
        /\ Cardinality(Base \union Handlers) =
             Cardinality(Base) + Cardinality(Handlers) - Cardinality(Base \intersect Handlers)
    BY <1>1, <2>1, FS_Union
  <2> QED BY <2>3, <2>4
<1>6. IsFiniteSet(InCall) /\ Cardinality(InCall) <= Cardinality(Base \union Handlers)
  BY <1>4, <1>5, FS_Injection
<1>7. /\ Cardinality(InCall) \in Nat /\ Cardinality(Base \union Handlers) \in Nat /\ Cardinality(Base) \in Nat
      /\ Cardinality(Handlers) \in Nat /\ Cardinality(Threads) \in Nat /\ signals \in Nat
  BY <1>1, <1>5, <1>6, FS_CardinalityType, CountAssumption, BaseFacts DEF HandlerCount
<1>8. Cardinality(Handlers) <= signals
  BY DEF HandlerCount
<1> QED BY <1>1, <1>5, <1>6, <1>7, <1>8

LEMMA HandlersMoved ==
  ASSUME NEW t \in Threads, NEW k, NEW fr, Moved(t, k, fr)
  PROVE  /\ Handlers' \subseteq Handlers \union {<<t, k>>}
         /\ (k \in 1 .. Len(stack'[t]) /\ IsHandler(fr) => <<t, k>> \in Handlers) => Handlers' \subseteq Handlers
<1> SUFFICES ASSUME NEW p \in Handlers'
             PROVE  /\ p \in Handlers \/ p = <<t, k>>
                    /\ (k \in 1 .. Len(stack'[t]) /\ IsHandler(fr) => <<t, k>> \in Handlers) => p \in Handlers
  OBVIOUS
<1>1. p \in Place' /\ IsHandler(stack'[p[1]][p[2]])
  BY DEF Handlers
<1>2. \/ p = <<t, k>> /\ k \in 1 .. Len(stack'[t]) /\ stack'[p[1]][p[2]] = fr
      \/ p \in Place /\ stack'[p[1]][p[2]] = stack[p[1]][p[2]]
  BY <1>1, PlacesMoved
<1>3. CASE p = <<t, k>> /\ k \in 1 .. Len(stack'[t]) /\ stack'[p[1]][p[2]] = fr
  <2>1. IsHandler(fr)
    BY <1>1, <1>3, Zenon
  <2> QED BY <1>3, <2>1, Zenon
<1>4. CASE p \in Place /\ stack'[p[1]][p[2]] = stack[p[1]][p[2]]
  <2>1. IsHandler(stack[p[1]][p[2]])
    BY <1>1, <1>4, Zenon
  <2> QED BY <1>4, <2>1, Zenon DEF Handlers
<1> QED BY <1>2, <1>3, <1>4

LEMMA HandlerCountFewer ==
  ASSUME HandlerCount, Handlers' \subseteq Handlers, signals' = signals, signals \in Nat
  PROVE  HandlerCount'
<1>1. IsFiniteSet(Handlers') /\ Cardinality(Handlers') <= Cardinality(Handlers)
  BY FS_Subset DEF HandlerCount
<1>2. Cardinality(Handlers') \in Nat /\ Cardinality(Handlers) \in Nat
  BY <1>1, FS_CardinalityType DEF HandlerCount
<1> QED BY <1>1, <1>2 DEF HandlerCount

LEMMA HandlerCountMore ==
  ASSUME HandlerCount, NEW p, Handlers' \subseteq Handlers \union {p}, signals' = signals + 1, signals \in Nat
  PROVE  HandlerCount'
<1>1. Cardinality(Handlers) \in Nat
  BY FS_CardinalityType DEF HandlerCount
<1>2. IsFiniteSet(Handlers \union {p}) /\ Cardinality(Handlers \union {p}) <= Cardinality(Handlers) + 1
  BY <1>1, FS_AddElement DEF HandlerCount
<1>3. IsFiniteSet(Handlers') /\ Cardinality(Handlers') <= Cardinality(Handlers \union {p})
  BY <1>2, FS_Subset
<1>4. Cardinality(Handlers') \in Nat /\ Cardinality(Handlers \union {p}) \in Nat
  BY <1>2, <1>3, FS_CardinalityType
<1> QED BY <1>1, <1>2, <1>3, <1>4 DEF HandlerCount

LEMMA UnwrittenMoved ==
  ASSUME NEW t \in Threads, NEW k, NEW fr, Moved(t, k, fr), NEW f
  PROVE  /\ Unwritten(f)' \subseteq Unwritten(f) \union {<<t, k>>}
         /\ (k \in 1 .. Len(stack'[t]) /\ fr.fnc = f /\ fr.pc \in BeforeWrite => <<t, k>> \in Unwritten(f))
              => Unwritten(f)' \subseteq Unwritten(f)
         /\ k \in 1 .. Len(stack'[t]) /\ ~ (fr.fnc = f /\ fr.pc \in BeforeWrite)
              => Unwritten(f)' \subseteq Unwritten(f) \ {<<t, k>>}
<1> DEFINE Old == k \in 1 .. Len(stack'[t]) /\ fr.fnc = f /\ fr.pc \in BeforeWrite
<1>0. ASSUME NEW p \in Unwritten(f)'
      PROVE  \/ Old /\ p = <<t, k>>
             \/ /\ p \in Unwritten(f)
                /\ p = <<t, k>> /\ k \in 1 .. Len(stack'[t]) => fr.fnc = f /\ fr.pc \in BeforeWrite
  <2>1. /\ p \in Place' /\ ~ IsHandler(stack'[p[1]][p[2]])
        /\ stack'[p[1]][p[2]].fnc = f /\ stack'[p[1]][p[2]].pc \in BeforeWrite
    BY DEF Unwritten, InCall
  <2>2. \/ p = <<t, k>> /\ k \in 1 .. Len(stack'[t]) /\ stack'[p[1]][p[2]] = fr
        \/ p \in Place /\ stack'[p[1]][p[2]] = stack[p[1]][p[2]]
    BY <2>1, PlacesMoved
  <2>3. CASE p = <<t, k>> /\ k \in 1 .. Len(stack'[t]) /\ stack'[p[1]][p[2]] = fr
    <3>1. fr.fnc = f /\ fr.pc \in BeforeWrite
      BY <2>1, <2>3, Zenon
    <3> QED BY <2>3, <3>1, Zenon
  <2>4. CASE p \in Place /\ stack'[p[1]][p[2]] = stack[p[1]][p[2]]
    <3>1. p \in Unwritten(f)
      BY <2>1, <2>4, Zenon DEF Unwritten, InCall
    <3>2. ASSUME p = <<t, k>>, k \in 1 .. Len(stack'[t]) PROVE fr.fnc = f /\ fr.pc \in BeforeWrite
      <4>1. stack'[t][k] = fr /\ p[1] = t /\ p[2] = k
        BY <3>2 DEF Moved
      <4> QED BY <2>1, <4>1
    <3> QED BY <3>1, <3>2
  <2> QED BY <2>2, <2>3, <2>4
<1> QED BY <1>0

LEMMA BoundedFewer ==
  ASSUME NEW f, Bounded(f), Written(f)' \subseteq Written(f), Unwritten(f)' \subseteq Unwritten(f),
         signals \in Nat, signals' \in Nat, signals <= signals'
  PROVE  Bounded(f)'
<1>1. /\ IsFiniteSet(Written(f)') /\ Cardinality(Written(f)') <= Cardinality(Written(f))
      /\ IsFiniteSet(Unwritten(f)') /\ Cardinality(Unwritten(f)') <= Cardinality(Unwritten(f))
  BY FS_Subset DEF Bounded
<1>2. /\ Cardinality(Written(f)') \in Nat /\ Cardinality(Written(f)) \in Nat
      /\ Cardinality(Unwritten(f)') \in Nat /\ Cardinality(Unwritten(f)) \in Nat
      /\ Cardinality(Threads) \in Nat
  BY <1>1, FS_CardinalityType, CountAssumption DEF Bounded
<1> QED BY <1>1, <1>2 DEF Bounded

\* A call writes f into a bridge: it is not one of those to come any more.
LEMMA BoundedWrite ==
  ASSUME NEW f, Bounded(f), NEW s, NEW p \in Unwritten(f),
         Written(f)' \subseteq Written(f) \union {s}, Unwritten(f)' \subseteq Unwritten(f) \ {p},
         signals \in Nat, signals' = signals
  PROVE  Bounded(f)'
<1>0. Cardinality(Written(f)) \in Nat /\ Cardinality(Unwritten(f)) \in Nat
  BY FS_CardinalityType DEF Bounded
<1>1. /\ IsFiniteSet(Written(f) \union {s}) /\ Cardinality(Written(f) \union {s}) <= Cardinality(Written(f)) + 1
  <2>1. IsFiniteSet(Written(f))
    BY DEF Bounded
  <2> QED BY <2>1, AddOne
<1>2. /\ IsFiniteSet(Unwritten(f) \ {p}) /\ Cardinality(Unwritten(f) \ {p}) = Cardinality(Unwritten(f)) - 1
  BY FS_RemoveElement DEF Bounded
<1>3. IsFiniteSet(Written(f)') /\ Cardinality(Written(f)') <= Cardinality(Written(f) \union {s})
  BY <1>1, FS_Subset
<1>4. IsFiniteSet(Unwritten(f)') /\ Cardinality(Unwritten(f)') <= Cardinality(Unwritten(f) \ {p})
  BY <1>2, FS_Subset
<1>5. /\ Cardinality(Written(f)') \in Nat /\ Cardinality(Unwritten(f)') \in Nat
      /\ Cardinality(Written(f) \union {s}) \in Nat /\ Cardinality(Unwritten(f) \ {p}) \in Nat
      /\ Cardinality(Threads) \in Nat
  BY <1>1, <1>2, <1>3, <1>4, FS_CardinalityType, CountAssumption
<1> QED BY <1>0, <1>1, <1>2, <1>3, <1>4, <1>5 DEF Bounded

\* Nothing of f is written: the calls in progress bound those to come.
LEMMA BoundedMiss ==
  ASSUME BaseInv, HandlerCount, NEW f, Written(f)' = {}, Unwritten(f)' \subseteq InCall, signals' = signals
  PROVE  Bounded(f)'
<1>1. IsFiniteSet(InCall) /\ Cardinality(InCall) <= Cardinality(Threads) + signals
  BY CallsBound
<1>2. IsFiniteSet(Unwritten(f)') /\ Cardinality(Unwritten(f)') <= Cardinality(InCall)
  BY <1>1, FS_Subset
<1>3. IsFiniteSet(Written(f)') /\ Cardinality(Written(f)') = 0
  BY FS_EmptySet
<1>4. /\ Cardinality(Unwritten(f)') \in Nat /\ Cardinality(InCall) \in Nat /\ Cardinality(Threads) \in Nat
      /\ signals \in Nat
  BY <1>1, <1>2, FS_CardinalityType, CountAssumption, BaseFacts
<1> QED BY <1>1, <1>2, <1>3, <1>4 DEF Bounded

\* bridgemap forgets no function, nothing new of f is written, and the frame
\* that moves is not one that has its bridge in a map without f.
LEMMA FreshMoved ==
  ASSUME NEW f, Fresh(f), NEW t \in Threads, NEW k, NEW fr, Moved(t, k, fr),
         bridgemap'[f] = NoSlot => bridgemap[f] = NoSlot /\ Written(f)' \subseteq Written(f),
         k \in 1 .. Len(stack'[t]) /\ fr.fnc = f /\ Listed(fr) => bridgemap'[f] # NoSlot
  PROVE  Fresh(f)'
<1> SUFFICES ASSUME bridgemap'[f] = NoSlot
             PROVE  /\ Written(f)' = {}
                    /\ \A p \in Place' : stack'[p[1]][p[2]].fnc = f => ~ Listed(stack'[p[1]][p[2]])
  BY DEF Fresh, Listed
<1>1. /\ Written(f) = {}
      /\ \A p \in Place : stack[p[1]][p[2]].fnc = f => ~ Listed(stack[p[1]][p[2]])
  BY DEF Fresh
<1>2. ASSUME NEW p \in Place', stack'[p[1]][p[2]].fnc = f PROVE ~ Listed(stack'[p[1]][p[2]])
  <2>1. \/ p = <<t, k>> /\ k \in 1 .. Len(stack'[t]) /\ stack'[p[1]][p[2]] = fr
        \/ p \in Place /\ stack'[p[1]][p[2]] = stack[p[1]][p[2]]
    BY PlacesMoved
  <2>2. CASE k \in 1 .. Len(stack'[t]) /\ stack'[p[1]][p[2]] = fr
    BY <1>2, <2>2, Zenon
  <2>3. CASE p \in Place /\ stack'[p[1]][p[2]] = stack[p[1]][p[2]]
    BY <1>1, <1>2, <2>3, Zenon
  <2> QED BY <2>1, <2>2, <2>3
<1> QED BY <1>1, <1>2

\* A step that brings no call nearer to writing f.
LEMMA CountQuiet ==
  ASSUME BaseInv, CountInv, NEW t \in Threads, NEW k, NEW fr, Moved(t, k, fr),
         HandlerCount', signals' \in Nat, signals <= signals',
         cell' \in [Slots -> [fnc : Fncs \union {None}, written : 0 .. 3]],
         \A f \in Fncs : Written(f)' \subseteq Written(f),
         \A f \in Fncs : bridgemap'[f] = NoSlot => bridgemap[f] = NoSlot,
         \A f \in Fncs : k \in 1 .. Len(stack'[t]) /\ fr.fnc = f =>
           /\ fr.pc \in BeforeWrite => <<t, k>> \in Unwritten(f)
           /\ Listed(fr) => bridgemap'[f] # NoSlot
  PROVE  CountInv'
<1>1. signals \in Nat
  BY BaseFacts
<1>2. ASSUME NEW f \in Fncs PROVE Bounded(f)' /\ Fresh(f)'
  <2>1. Bounded(f) /\ Fresh(f)
    BY DEF CountInv
  <2>2. k \in 1 .. Len(stack'[t]) /\ fr.fnc = f /\ fr.pc \in BeforeWrite => <<t, k>> \in Unwritten(f)
    BY Zenon
  <2>3. Unwritten(f)' \subseteq Unwritten(f)
    BY <2>2, UnwrittenMoved
  <2>4. Bounded(f)'
    BY <1>1, <2>1, <2>3, BoundedFewer
  <2>5. /\ bridgemap'[f] = NoSlot => bridgemap[f] = NoSlot /\ Written(f)' \subseteq Written(f)
        /\ k \in 1 .. Len(stack'[t]) /\ fr.fnc = f /\ Listed(fr) => bridgemap'[f] # NoSlot
    BY Zenon
  <2>6. Fresh(f)'
    BY <2>1, <2>5, FreshMoved
  <2> QED BY <2>4, <2>6
<1> QED BY <1>2 DEF CountInv

\* A step of the innermost frame of a thread.
LEMMA CountTop ==
  ASSUME BaseInv, CountInv, NEW t \in Threads, stack[t] # <<>>,
         NEW fr \in FrameW, SetTop(t, fr), fr.op = Top(t).op, fr.fnc = Top(t).fnc,
         fr.pc \in BeforeWrite => Top(t).pc \in BeforeWrite,
         fr.fnc \in Fncs /\ Listed(fr) => Listed(Top(t)) \/ bridgemap'[fr.fnc] # NoSlot,
         signals' = signals,
         cell' \in [Slots -> [fnc : Fncs \union {None}, written : 0 .. 3]],
         \A f \in Fncs : Written(f)' \subseteq Written(f),
         \A f \in Fncs : bridgemap'[f] = NoSlot => bridgemap[f] = NoSlot
  PROVE  CountInv'
<1>1. PICK n : n = Len(stack[t])
  OBVIOUS
<1>2. /\ TypeW /\ signals \in Nat /\ n \in Nat /\ n >= 1 /\ Top(t) = stack[t][n] /\ Shape(stack[t])
      /\ n \in 1 .. Len(stack[t])
  BY <1>1, BaseFacts, StackFrames DEF Top
<1>3. Moved(t, n, fr)
  BY <1>1, <1>2, MovedSetTop
<1>4. PICK p : p = <<t, n>>
  OBVIOUS
<1>5. p \in Place /\ p[1] = t /\ p[2] = n
  BY <1>2, <1>4 DEF Place
<1>6. IsHandler(fr) => p \in Handlers
  BY <1>2, <1>5 DEF Handlers, IsHandler
<1>7. HandlerCount'
  <2>1. Handlers' \subseteq Handlers
    BY <1>3, <1>4, <1>6, HandlersMoved
  <2> QED BY <1>2, <2>1, HandlerCountFewer DEF CountInv
<1>8. ASSUME NEW f \in Fncs, fr.fnc = f, fr.pc \in BeforeWrite PROVE p \in Unwritten(f)
  <2>1. Placed(stack[t][n])
    BY <1>2 DEF Shape
  <2>2. ~ IsHandler(stack[t][n])
    BY <1>2, <1>8, <2>1 DEF Placed, BeforeWrite
  <2> QED BY <1>2, <1>5, <1>8, <2>2 DEF Unwritten, InCall
<1>9. ASSUME NEW f \in Fncs, fr.fnc = f, Listed(fr) PROVE bridgemap'[f] # NoSlot
  <2>1. CASE Listed(Top(t))
    <3>1. Fresh(f)
      BY DEF CountInv
    <3>2. bridgemap[f] # NoSlot
      BY <1>2, <1>5, <1>9, <2>1, <3>1 DEF Fresh
    <3> QED BY <3>2
  <2> QED BY <1>9, <2>1
<1>10. \A f \in Fncs : n \in 1 .. Len(stack'[t]) /\ fr.fnc = f =>
         /\ fr.pc \in BeforeWrite => <<t, n>> \in Unwritten(f)
         /\ Listed(fr) => bridgemap'[f] # NoSlot
  BY <1>4, <1>8, <1>9
<1> QED BY <1>2, <1>3, <1>7, <1>10, CountQuiet

\* The functions of the bridges when cell stays, and when nothing changes but
\* how much of a bridge is written.
LEMMA CellSame ==
  ASSUME CountInv, cell' = cell
  PROVE  /\ cell' \in [Slots -> [fnc : Fncs \union {None}, written : 0 .. 3]]
         /\ \A f \in Fncs : Written(f)' \subseteq Written(f)
BY DEF CountInv, Written

LEMMA CellWritten ==
  ASSUME CountInv, NEW s, NEW x, NEW n \in 0 .. 3, x \in Fncs \union {None} \/ s \notin Slots,
         cell' = [cell EXCEPT ![s] = [fnc |-> x, written |-> n]]
  PROVE  /\ cell' \in [Slots -> [fnc : Fncs \union {None}, written : 0 .. 3]]
         /\ \A f \in Fncs : Written(f)' \subseteq Written(f) \union {s}
         /\ \A f \in Fncs : f # x \/ x = cell[s].fnc => Written(f)' \subseteq Written(f)
<1>1. cell \in [Slots -> [fnc : Fncs \union {None}, written : 0 .. 3]]
  BY DEF CountInv
<1>2. PICK c : c = [fnc |-> x, written |-> n]
  OBVIOUS
<1>3. c.fnc = x /\ (x \in Fncs \union {None} => c \in [fnc : Fncs \union {None}, written : 0 .. 3])
  BY <1>2
<1>4. cell' = [cell EXCEPT ![s] = c]
  BY <1>2
<1>5. cell' \in [Slots -> [fnc : Fncs \union {None}, written : 0 .. 3]]
  BY <1>1, <1>3, <1>4
<1>6. \A r \in Slots : IF r = s THEN cell'[r].fnc = x ELSE cell'[r] = cell[r]
  BY <1>1, <1>3, <1>4
<1> QED BY <1>5, <1>6 DEF Written

LEMMA GotoCount ==
  ASSUME CountInv, BaseInv, NEW t \in Threads,
         \/ LockBridge(t) \/ LockProt(t) \/ LockBlocks(t) \/ UnlockBlocks(t) \/ UnlockProt(t)
         \/ HasAlternate(t) \/ AddAlternate(t) \/ HandlerEnds(t) \/ UnlockBridge(t)
  PROVE  CountInv'
<1>1. PICK p, pc : /\ At(t, p) /\ Goto(t, pc)
                   /\ pc \in {"full", "node", "protd", "noded", "return", "attach", "alt", "relock", "CC"}
                   /\ p \in {"lock", "prot", "node", "noded", "protd", "has", "alt", "run", "unlock"}
                   /\ p = "unlock" <=> pc = "CC"
                   /\ pc \in {"full", "node", "protd", "noded", "attach"}
                        => p \in {"lock", "prot", "node", "noded", "protd"}
                   /\ UNCHANGED <<cell, bridgemap, signals>>
  BY DEF LockBridge, LockProt, LockBlocks, UnlockBlocks, UnlockProt, HasAlternate, AddAlternate,
         HandlerEnds, UnlockBridge, bridgeVars, budget
<1>2. PICK fr : fr = [Top(t) EXCEPT !.pc = pc] /\ SetTop(t, fr)
  BY <1>1 DEF Goto
<1>3. stack[t] # <<>> /\ Top(t) \in FrameW /\ Top(t).pc = p
  BY <1>1, BaseFacts, StackFrames DEF At
<1>4. /\ fr \in FrameW /\ fr.pc = pc /\ fr.fnc = Top(t).fnc /\ fr.op = Top(t).op
  BY <1>1, <1>2, <1>3 DEF FrameW, PCs
<1>5. fr.pc \in BeforeWrite => Top(t).pc \in BeforeWrite
  BY <1>1, <1>3, <1>4 DEF BeforeWrite
<1>6. Listed(fr) => Listed(Top(t))
  BY <1>1, <1>3, <1>4 DEF Listed
<1> QED BY <1>1, <1>2, <1>3, <1>4, <1>5, <1>6, CellSame, CountTop

LEMMA BrickCountStep ==
  ASSUME CountInv, BaseInv, BaseInv', NEW t \in Threads,
         TestFull(t) \/ Attach(t) \/ Claim(t) \/ Bump(t)
  PROVE  CountInv'
<1>1. /\ stack[t] # <<>> /\ Top(t).pc \in {"full", "attach", "claim", "bump"}
      /\ UNCHANGED <<cell, bridgemap, signals>>
  BY DEF TestFull, Attach, Claim, Bump, At, bridgeVars, budget
<1>2. Top(t) \in FrameW /\ TypeW /\ last = bricks /\ last \in Bricks /\ bricks' \in Bricks
  BY <1>1, BaseFacts, StackFrames DEF TypeW, BaseInv
<1>3. PICK fr \in FrameW : /\ SetTop(t, fr) /\ fr.op = Top(t).op /\ fr.fnc = Top(t).fnc
                           /\ fr.pc \in {"prot", "claim", "bump", "put"}
  <2>1. CASE TestFull(t)
    <3>1. PICK fr : /\ SetTop(t, fr)
                    /\ fr = [Top(t) EXCEPT !.b = last, !.pc = IF Full(last) THEN "prot" ELSE "claim"]
      BY <2>1 DEF TestFull
    <3>2. fr \in FrameW /\ fr.pc \in {"prot", "claim"} /\ fr.op = Top(t).op /\ fr.fnc = Top(t).fnc
      BY <1>2, <3>1 DEF FrameW, PCs
    <3> QED BY <3>1, <3>2
  <2>2. CASE Attach(t)
    <3>1. PICK fr : SetTop(t, fr) /\ fr = [Top(t) EXCEPT !.b = bricks', !.pc = "claim"]
      BY <2>2 DEF Attach
    <3>2. fr \in FrameW /\ fr.pc = "claim" /\ fr.op = Top(t).op /\ fr.fnc = Top(t).fnc
      BY <1>2, <3>1 DEF FrameW, PCs
    <3> QED BY <3>1, <3>2
  <2>3. CASE Claim(t)
    <3>1. PICK fr : SetTop(t, fr) /\ fr = [Top(t) EXCEPT !.sz = sz[Top(t).b], !.pc = "bump"]
      BY <2>3 DEF Claim
    <3>2. sz[Top(t).b] \in Nat
      BY <1>2 DEF FrameW, TypeW
    <3>3. fr \in FrameW /\ fr.pc = "bump" /\ fr.op = Top(t).op /\ fr.fnc = Top(t).fnc
      BY <1>2, <3>1, <3>2 DEF FrameW, PCs
    <3> QED BY <3>1, <3>3
  <2>4. CASE Bump(t)
    <3>1. PICK fr : SetTop(t, fr) /\ fr = [Top(t) EXCEPT !.pc = "put"]
      BY <2>4 DEF Bump, Goto
    <3>2. fr \in FrameW /\ fr.pc = "put" /\ fr.op = Top(t).op /\ fr.fnc = Top(t).fnc
      BY <1>2, <3>1 DEF FrameW, PCs
    <3> QED BY <3>1, <3>2
  <2> QED BY <1>1, <2>1, <2>2, <2>3, <2>4
<1>4. Top(t).pc \in BeforeWrite /\ ~ Listed(fr)
  BY <1>1, <1>3 DEF BeforeWrite, Listed
<1> QED BY <1>1, <1>3, <1>4, CellSame, CountTop

LEMMA RelockCount ==
  ASSUME CountInv, BaseInv, NEW t \in Threads, Relock(t)
  PROVE  CountInv'
<1>1. PICK m : /\ At(t, "relock") /\ SetTop(t, [Top(t) EXCEPT !.saved = @ \ {m}])
               /\ UNCHANGED <<cell, bridgemap, signals>>
  BY DEF Relock, bridgeVars, budget
<1>2. stack[t] # <<>> /\ Top(t) \in FrameW /\ Top(t).pc = "relock"
  BY <1>1, BaseFacts, StackFrames DEF At
<1>3. PICK fr : fr = [Top(t) EXCEPT !.saved = @ \ {m}]
  OBVIOUS
<1>4. fr \in FrameW /\ fr.pc = "relock" /\ fr.op = Top(t).op /\ fr.fnc = Top(t).fnc
  BY <1>2, <1>3 DEF FrameW
<1>5. fr.pc \notin BeforeWrite /\ ~ Listed(fr)
  BY <1>4 DEF BeforeWrite, Listed
<1> QED BY <1>1, <1>2, <1>3, <1>4, <1>5, CellSame, CountTop

\* kh_put: from now on CheckBridged finds a bridge for the function.
LEMMA PutCount ==
  ASSUME CountInv, BaseInv, NEW t \in Threads, Put(t)
  PROVE  CountInv'
<1>1. /\ stack[t] # <<>> /\ Top(t).pc = "put" /\ UNCHANGED <<cell, signals>>
      /\ bridgemap' = [bridgemap EXCEPT ![Top(t).fnc] = Slot(Top(t))]
  BY DEF Put, At, budget
<1>2. PICK fr : SetTop(t, fr) /\ fr = [Top(t) EXCEPT !.pc = "unlock"]
  BY DEF Put, Goto
<1>3. /\ Top(t) \in FrameW /\ bridgemap \in [Fncs -> Nat \X Nat]
  BY <1>1, StackFrames, BaseFacts DEF TypeW
<1>4. /\ fr \in FrameW /\ fr.pc = "unlock" /\ fr.fnc = Top(t).fnc /\ fr.op = Top(t).op
  BY <1>2, <1>3 DEF FrameW, PCs
<1>5. Slot(Top(t)) # NoSlot
  <2>1. Top(t).b \in Nat /\ Top(t).b # 0
    BY <1>3, BridgeAssumption DEF FrameW, Bricks
  <2> QED BY <2>1 DEF Slot, NoSlot
<1>6. \A f \in Fncs : bridgemap'[f] = IF f = Top(t).fnc THEN Slot(Top(t)) ELSE bridgemap[f]
  BY <1>1, <1>3
<1>7. /\ \A f \in Fncs : bridgemap'[f] = NoSlot => bridgemap[f] = NoSlot
      /\ fr.fnc \in Fncs => bridgemap'[fr.fnc] # NoSlot
  BY <1>4, <1>5, <1>6
<1>8. Top(t).pc \in BeforeWrite
  BY <1>1 DEF BeforeWrite
<1> QED BY <1>1, <1>2, <1>4, <1>7, <1>8, CellSame, CountTop

\* CheckBridged: a call that finds nothing goes on to AddBridge, and no bridge
\* of its function is written yet.
LEMMA CheckBridgedCount ==
  ASSUME CountInv, BaseInv, NEW t \in Threads, CheckBridged(t)
  PROVE  CountInv'
<1>1. /\ stack[t] # <<>> /\ At(t, "check") /\ UNCHANGED <<cell, bridgemap, signals>>
  BY DEF CheckBridged, At, bridgeVars, budget
<1>2. /\ Top(t) \in FrameW /\ Top(t).pc = "check" /\ ~ IsHandler(Top(t)) /\ Placed(Top(t))
  BY <1>1, CallTop DEF PCs
<1>3. Top(t).fnc \in Fncs
  BY <1>2, OpCases DEF Placed, InNewBrick
<1>4. After(Top(t).op) \in {"has", "return"} /\ bridgemap[Top(t).fnc] \in Nat \X Nat
  BY <1>3, BaseFacts DEF After, TypeW
<1>5. PICK fr : /\ SetTop(t, fr)
                /\ fr = IF bridgemap[Top(t).fnc] = NoSlot THEN [Top(t) EXCEPT !.pc = "lock"]
                        ELSE [Top(t) EXCEPT !.ret = bridgemap[Top(t).fnc], !.pc = After(Top(t).op)]
  BY DEF CheckBridged, Goto
<1>6. /\ fr \in FrameW /\ fr.fnc = Top(t).fnc /\ fr.op = Top(t).op
      /\ fr.pc = (IF bridgemap[Top(t).fnc] = NoSlot THEN "lock" ELSE After(Top(t).op))
  BY <1>2, <1>4, <1>5 DEF FrameW, PCs
<1>7. ~ Listed(fr)
  BY <1>4, <1>6 DEF Listed
<1>8. /\ cell' \in [Slots -> [fnc : Fncs \union {None}, written : 0 .. 3]]
      /\ \A f \in Fncs : Written(f)' \subseteq Written(f)
  BY <1>1, CellSame
<1>9. CASE bridgemap[Top(t).fnc] # NoSlot
  <2>1. fr.pc \notin BeforeWrite
    BY <1>4, <1>6, <1>9 DEF BeforeWrite
  <2> QED BY <1>1, <1>5, <1>6, <1>7, <1>8, <2>1, CountTop
<1>10. CASE bridgemap[Top(t).fnc] = NoSlot
  <2>1. PICK n : n = Len(stack[t])
    OBVIOUS
  <2>2. /\ TypeW /\ signals \in Nat /\ n \in Nat /\ n >= 1 /\ Top(t) = stack[t][n] /\ n \in 1 .. Len(stack[t])
    BY <1>1, <2>1, BaseFacts, StackFrames DEF Top
  <2>3. Moved(t, n, fr)
    BY <1>1, <1>5, <1>6, <2>1, <2>2, MovedSetTop
  <2>4. PICK p : p = <<t, n>>
    OBVIOUS
  <2>5. p \in Place /\ p[1] = t /\ p[2] = n
    BY <2>2, <2>4 DEF Place
  <2>6. p \in InCall
    BY <1>2, <2>2, <2>5 DEF InCall
  <2>7. HandlerCount'
    <3>1. ~ IsHandler(fr)
      BY <1>2, <1>6 DEF IsHandler
    <3>2. Handlers' \subseteq Handlers
      BY <2>3, <3>1, HandlersMoved
    <3> QED BY <1>1, <2>2, <3>2, HandlerCountFewer DEF CountInv
  <2>8. ASSUME NEW f \in Fncs PROVE Bounded(f)' /\ Fresh(f)'
    <3>1. Bounded(f) /\ Fresh(f)
      BY DEF CountInv
    <3>2. Fresh(f)'
      BY <1>1, <1>7, <1>8, <2>3, <3>1, FreshMoved
    <3>3. CASE f = fr.fnc
      <4>1. Written(f)' = {}
        BY <1>6, <1>8, <1>10, <3>1, <3>3 DEF Fresh
      <4>2. Unwritten(f)' \subseteq Unwritten(f) \union {<<t, n>>}
        BY <2>3, UnwrittenMoved
      <4>3. Unwritten(f)' \subseteq InCall
        BY <2>4, <2>6, <4>2 DEF Unwritten
      <4>4. HandlerCount
        BY DEF CountInv
      <4> QED BY <1>1, <3>2, <4>1, <4>3, <4>4, BoundedMiss
    <3>4. CASE f # fr.fnc
      <4>1. Unwritten(f)' \subseteq Unwritten(f)
        BY <2>3, <3>4, UnwrittenMoved
      <4> QED BY <1>1, <1>8, <2>2, <3>1, <3>2, <4>1, BoundedFewer
    <3> QED BY <3>3, <3>4
  <2> QED BY <1>8, <2>7, <2>8 DEF CountInv
<1> QED BY <1>9, <1>10

\* The writes of CC and of C3 leave the function of the bridge alone.
LEMMA WriteCount ==
  ASSUME CountInv, BaseInv, NEW t \in Threads, NEW pc \in {"CC", "C3"}, NEW n \in 0 .. 3, NEW next,
         next = IF pc = "CC" THEN "f" ELSE After(Top(t).op),
         Write(t, pc, cell[Slot(Top(t))].fnc, n, next)
  PROVE  CountInv'
<1>1. PICK s : s = Slot(Top(t))
  OBVIOUS
<1>2. /\ stack[t] # <<>> /\ Top(t).pc = pc /\ UNCHANGED <<bridgemap, signals>>
      /\ cell' = [cell EXCEPT ![s] = [fnc |-> cell[s].fnc, written |-> n]]
  BY <1>1 DEF Write, At, budget
<1>3. PICK fr : SetTop(t, fr) /\ fr = [Top(t) EXCEPT !.ret = s, !.pc = next]
  BY <1>1 DEF Write
<1>4. Top(t) \in FrameW /\ After(Top(t).op) \in {"has", "return"}
  BY <1>2, StackFrames, BaseFacts DEF After
<1>5. s \in Nat \X Nat
  BY <1>1, <1>4, BridgeAssumption DEF Slot, FrameW, Bricks
<1>6. /\ fr \in FrameW /\ fr.pc = next /\ fr.fnc = Top(t).fnc /\ fr.op = Top(t).op
  BY <1>3, <1>4, <1>5 DEF FrameW, PCs
<1>7. cell[s].fnc \in Fncs \union {None} \/ s \notin Slots
  BY DEF CountInv
<1>8. /\ cell' \in [Slots -> [fnc : Fncs \union {None}, written : 0 .. 3]]
      /\ \A f \in Fncs : Written(f)' \subseteq Written(f)
  <2>1. PICK x : x = cell[s].fnc
    OBVIOUS
  <2> QED BY <1>2, <1>7, <2>1, CellWritten
<1>9. /\ fr.pc \in BeforeWrite => Top(t).pc \in BeforeWrite
      /\ Listed(fr) => Listed(Top(t))
  BY <1>2, <1>4, <1>6 DEF BeforeWrite, Listed
<1> QED BY <1>2, <1>3, <1>6, <1>8, <1>9, CountTop

\* The write of f: one bridge more of the function, and one call fewer to come.
LEMMA WriteFncCount ==
  ASSUME CountInv, BaseInv, NEW t \in Threads, WriteFnc(t)
  PROVE  CountInv'
<1>1. PICK s : s = Slot(Top(t))
  OBVIOUS
<1>2. /\ stack[t] # <<>> /\ At(t, "f") /\ UNCHANGED <<bridgemap, signals>>
      /\ cell' = [cell EXCEPT ![s] = [fnc |-> Top(t).fnc, written |-> 2]]
  BY <1>1 DEF WriteFnc, Write, At, budget
<1>3. PICK fr : SetTop(t, fr) /\ fr = [Top(t) EXCEPT !.ret = s, !.pc = "C3"]
  BY <1>1 DEF WriteFnc, Write
<1>4. /\ Top(t) \in FrameW /\ Top(t).pc = "f" /\ ~ IsHandler(Top(t)) /\ Placed(Top(t))
  BY <1>2, CallTop DEF PCs
<1>5. Top(t).fnc \in Fncs
  BY <1>4, OpCases DEF Placed, InNewBrick
<1>6. s \in Nat \X Nat
  BY <1>1, <1>4, BridgeAssumption DEF Slot, FrameW, Bricks
<1>7. /\ fr \in FrameW /\ fr.pc = "C3" /\ fr.fnc = Top(t).fnc /\ fr.op = Top(t).op
  BY <1>3, <1>4, <1>6 DEF FrameW, PCs
<1>8. /\ cell' \in [Slots -> [fnc : Fncs \union {None}, written : 0 .. 3]]
      /\ \A f \in Fncs : Written(f)' \subseteq Written(f) \union {s}
      /\ \A f \in Fncs : f # Top(t).fnc => Written(f)' \subseteq Written(f)
  <2>1. PICK x : x = Top(t).fnc
    OBVIOUS
  <2>2. 2 \in 0 .. 3
    OBVIOUS
  <2> QED BY <1>2, <1>5, <2>1, <2>2, CellWritten
<1>9. PICK n : n = Len(stack[t])
  OBVIOUS
<1>10. /\ TypeW /\ signals \in Nat /\ n \in Nat /\ n >= 1 /\ Top(t) = stack[t][n] /\ n \in 1 .. Len(stack[t])
  BY <1>2, <1>9, BaseFacts, StackFrames DEF Top
<1>11. Moved(t, n, fr) /\ n \in 1 .. Len(stack'[t])
  BY <1>2, <1>3, <1>7, <1>9, <1>10, MovedSetTop
<1>12. PICK p : p = <<t, n>>
  OBVIOUS
<1>13. p \in Place /\ p[1] = t /\ p[2] = n
  BY <1>10, <1>12 DEF Place
<1>14. p \in Unwritten(Top(t).fnc)
  BY <1>4, <1>10, <1>13 DEF Unwritten, InCall, BeforeWrite
<1>15. bridgemap[Top(t).fnc] # NoSlot
  <2>1. Fresh(Top(t).fnc) /\ Listed(Top(t))
    BY <1>4, <1>5 DEF CountInv, Listed
  <2> QED BY <1>10, <1>13, <2>1 DEF Fresh
<1>16. HandlerCount'
  <2>1. ~ IsHandler(fr)
    BY <1>4, <1>7 DEF IsHandler
  <2>2. Handlers' \subseteq Handlers
    BY <1>11, <2>1, HandlersMoved
  <2> QED BY <1>2, <1>10, <2>2, HandlerCountFewer DEF CountInv
<1>17. ASSUME NEW f \in Fncs PROVE Bounded(f)' /\ Fresh(f)'
  <2>1. Bounded(f) /\ Fresh(f)
    BY DEF CountInv
  <2>2. fr.pc \notin BeforeWrite
    BY <1>7 DEF BeforeWrite
  <2>3. Unwritten(f)' \subseteq Unwritten(f) /\ Unwritten(f)' \subseteq Unwritten(f) \ {<<t, n>>}
    BY <1>11, <2>2, UnwrittenMoved
  <2>4. CASE f = Top(t).fnc
    <3>1. Bounded(f)'
      BY <1>2, <1>8, <1>10, <1>12, <1>14, <2>1, <2>3, <2>4, BoundedWrite
    <3>2. Fresh(f)'
      BY <1>2, <1>15, <2>4 DEF Fresh
    <3> QED BY <3>1, <3>2
  <2>5. CASE f # Top(t).fnc
    <3>1. Written(f)' \subseteq Written(f)
      BY <1>8, <2>5
    <3>2. Bounded(f)'
      BY <1>2, <1>10, <2>1, <2>3, <3>1, BoundedFewer
    <3>3. Fresh(f)'
      BY <1>2, <1>7, <1>11, <2>1, <2>5, <3>1, FreshMoved
    <3> QED BY <3>2, <3>3
  <2> QED BY <2>4, <2>5
<1> QED BY <1>8, <1>16, <1>17 DEF CountInv

\* A call starts before it looks in bridgemap, when it is not of AddBridge alone.
LEMMA BeginCallCount ==
  ASSUME CountInv, BaseInv, "add" \notin Ops,
         NEW t \in Threads, NEW op \in Ops, NEW f \in Fncs, BeginCall(t, op, f)
  PROVE  CountInv'
<1>1. PICK fr : /\ fr = Call(op, Start(op), IF op \in {"protect", "malloc"} THEN None ELSE f)
                /\ Push(t, fr) /\ UNCHANGED <<cell, bridgemap, signals>>
  BY DEF BeginCall, bridgeVars
<1>2. op \in {"check", "auto", "protect", "malloc"} /\ 1 \in Bricks /\ NoSlot \in Nat \X Nat
  BY BridgeAssumption DEF Bricks, NoSlot
<1>3. IF op \in {"protect", "malloc"} THEN Start(op) \in {"prot", "node"} ELSE Start(op) = "check"
  BY <1>2 DEF Start
<1>4. /\ fr \in FrameW /\ fr.pc = Start(op) /\ fr.op = op
      /\ op \in {"protect", "malloc"} => fr.fnc \notin Fncs
  BY <1>1, <1>2, <1>3, CountAssumption DEF FrameW, Call, PCs, None
<1>5. PICK k : k = Len(stack[t]) + 1
  OBVIOUS
<1>6. TypeW /\ signals \in Nat
  BY BaseFacts
<1>7. Moved(t, k, fr)
  BY <1>1, <1>4, <1>5, <1>6, MovedPush
<1>8. HandlerCount'
  <2>1. ~ IsHandler(fr)
    BY <1>2, <1>4 DEF IsHandler
  <2>2. Handlers' \subseteq Handlers
    BY <1>7, <2>1, HandlersMoved
  <2> QED BY <1>1, <1>6, <2>2, HandlerCountFewer DEF CountInv
<1>9. fr.fnc \in Fncs => fr.pc \notin BeforeWrite /\ ~ Listed(fr)
  BY <1>3, <1>4 DEF BeforeWrite, Listed
<1>10. signals' \in Nat /\ signals <= signals'
  BY <1>1, <1>6
<1>11. /\ cell' \in [Slots -> [fnc : Fncs \union {None}, written : 0 .. 3]]
       /\ \A g \in Fncs : Written(g)' \subseteq Written(g)
       /\ \A g \in Fncs : bridgemap'[g] = NoSlot => bridgemap[g] = NoSlot
  BY <1>1, CellSame
<1>12. \A g \in Fncs : k \in 1 .. Len(stack'[t]) /\ fr.fnc = g =>
         /\ fr.pc \in BeforeWrite => <<t, k>> \in Unwritten(g)
         /\ Listed(fr) => bridgemap'[g] # NoSlot
  BY <1>9
<1> QED BY <1>7, <1>8, <1>10, <1>11, <1>12, CountQuiet

LEMMA SignalCount ==
  ASSUME CountInv, BaseInv, NEW t \in Threads, Signal(t)
  PROVE  CountInv'
<1>1. PICK fr : fr = Handler(Held(t)) /\ Push(t, fr) /\ UNCHANGED <<cell, bridgemap>> /\ signals' = signals + 1
  BY DEF Signal, unlockMutex, bridgeVars
<1>2. 1 \in Bricks /\ NoSlot \in Nat \X Nat /\ Held(t) \in SUBSET Mutexes
  BY BridgeAssumption DEF Bricks, NoSlot, Held
<1>3. fr \in FrameW /\ fr.pc = "run"
  BY <1>1, <1>2 DEF FrameW, Handler, Call
<1>4. PICK k : k = Len(stack[t]) + 1
  OBVIOUS
<1>5. TypeW /\ signals \in Nat
  BY BaseFacts
<1>6. Moved(t, k, fr)
  BY <1>1, <1>3, <1>4, <1>5, MovedPush
<1>7. HandlerCount'
  <2>1. Handlers' \subseteq Handlers \union {<<t, k>>}
    BY <1>6, HandlersMoved
  <2> QED BY <1>1, <1>5, <2>1, HandlerCountMore DEF CountInv
<1>8. fr.pc \notin BeforeWrite /\ ~ Listed(fr) /\ signals' \in Nat /\ signals <= signals'
  BY <1>1, <1>3, <1>5 DEF BeforeWrite, Listed
<1> QED BY <1>1, <1>6, <1>7, <1>8, CellSame, CountQuiet

\* Frames go: a call that siglongjmp leaves writes nothing any more.
LEMMA LeaveCount ==
  ASSUME CountInv, BaseInv, NEW t \in Threads, Return(t) \/ SigReturn(t) \/ SigLongjmp(t)
  PROVE  CountInv'
<1>0. TypeW /\ Len(stack[t]) \in Nat /\ signals \in Nat
  BY BaseFacts, StackFrames
<1>1. PICK k \in 1 .. 2 : /\ Drop(t, k) /\ UNCHANGED <<cell, bridgemap, signals>>
                          /\ k <= Len(stack[t])
  <2>1. CASE Return(t) \/ SigReturn(t)
    <3>1. stack[t] # <<>> /\ Drop(t, 1) /\ UNCHANGED <<cell, bridgemap, signals>>
      BY <2>1 DEF Return, SigReturn, At, bridgeVars, budget
    <3>2. Len(stack[t]) >= 1
      BY <3>1, BaseFacts, StackFrames
    <3> QED BY <1>0, <3>1, <3>2
  <2>2. CASE SigLongjmp(t)
    <3>1. Len(stack[t]) >= 2
      BY <2>2, HandlerTop DEF SigLongjmp
    <3>2. Drop(t, 2) /\ UNCHANGED <<cell, bridgemap, signals>>
      BY <2>2 DEF SigLongjmp, bridgeVars, budget
    <3> QED BY <1>0, <3>1, <3>2
  <2> QED BY <2>1, <2>2
<1>2. PICK fr : fr = Call("check", "check", None)
  OBVIOUS
<1>3. fr.op = "check" /\ fr.pc = "check"
  BY <1>2 DEF Call
<1>4. PICK m : m = Len(stack[t]) - k + 1
  OBVIOUS
<1>5. Moved(t, m, fr)
  BY <1>0, <1>1, <1>4, MovedDrop
<1>6. HandlerCount'
  <2>1. ~ IsHandler(fr)
    BY <1>3 DEF IsHandler
  <2>2. Handlers' \subseteq Handlers
    BY <1>5, <2>1, HandlersMoved
  <2> QED BY <1>0, <1>1, <2>2, HandlerCountFewer DEF CountInv
<1>7. fr.pc \notin BeforeWrite /\ ~ Listed(fr)
  BY <1>3 DEF BeforeWrite, Listed
<1>8. signals' \in Nat /\ signals <= signals'
  BY <1>0, <1>1
<1> QED BY <1>1, <1>5, <1>6, <1>7, <1>8, CellSame, CountQuiet

LEMMA CountInit == Init => CountInv
<1> SUFFICES ASSUME Init PROVE CountInv
  OBVIOUS
<1>1. /\ stack = [t \in Threads |-> <<>>] /\ signals = 0
      /\ cell = [s \in Slots |-> [fnc |-> None, written |-> 0]]
  BY DEF Init
<1>2. \A t \in Threads : Len(stack[t]) = 0
  BY <1>1, EmptySeq
<1>3. Place = {}
  BY <1>2 DEF Place
<1>4. Handlers = {} /\ \A f : Unwritten(f) = {}
  BY <1>3 DEF Handlers, Unwritten, InCall
<1>5. \A f \in Fncs : Written(f) = {}
  BY <1>1, CountAssumption DEF Written, None
<1>6. IsFiniteSet({}) /\ Cardinality({}) = 0
  BY FS_EmptySet
<1>7. Cardinality(Threads) \in Nat
  BY FS_CardinalityType, CountAssumption
<1>8. HandlerCount
  BY <1>1, <1>4, <1>6 DEF HandlerCount
<1>9. ASSUME NEW f \in Fncs PROVE Bounded(f)
  <2>1. Written(f) = {} /\ Unwritten(f) = {}
    BY <1>4, <1>5
  <2>2. 0 + 0 <= Cardinality(Threads) + signals
    BY <1>1, <1>7
  <2> QED BY <1>6, <2>1, <2>2 DEF Bounded
<1>10. \A f \in Fncs : Fresh(f)
  BY <1>3, <1>5 DEF Fresh
<1>11. cell \in [Slots -> [fnc : Fncs \union {None}, written : 0 .. 3]]
  BY <1>1
<1> QED BY <1>8, <1>9, <1>10, <1>11 DEF CountInv

LEMMA CountStepThread ==
  ASSUME CountInv, BaseInv, BaseInv', NEW t \in Threads, Step(t)
  PROVE  CountInv'
<1>1. CASE WriteHead(t)
  BY <1>1, WriteCount DEF WriteHead
<1>2. CASE WriteTail(t)
  BY <1>2, WriteCount DEF WriteTail
<1> QED BY <1>1, <1>2, CheckBridgedCount, GotoCount, BrickCountStep, PutCount, WriteFncCount, RelockCount, LeaveCount
        DEF Step

LEMMA CountNext ==
  ASSUME "add" \notin Ops
  PROVE  CountInv /\ BaseInv /\ BaseInv' /\ [Next]_vars => CountInv'
<1> SUFFICES ASSUME CountInv, BaseInv, BaseInv', [Next]_vars PROVE CountInv'
  OBVIOUS
<1>1. CASE UNCHANGED vars
  <2>1. UNCHANGED <<cell, stack, bridgemap, signals>>
    BY <1>1 DEF vars
  <2>2. /\ Place' = Place /\ Handlers' = Handlers /\ InCall' = InCall
    BY <2>1 DEF Place, Handlers, InCall
  <2>3. HandlerCount'
    BY <2>1, <2>2 DEF CountInv, HandlerCount
  <2>4. ASSUME NEW f \in Fncs PROVE Bounded(f)' /\ Fresh(f)'
    <3>1. Written(f)' = Written(f) /\ Unwritten(f)' = Unwritten(f)
      BY <2>1, <2>2 DEF Written, Unwritten
    <3>2. Bounded(f) /\ Fresh(f)
      BY DEF CountInv
    <3>3. Bounded(f)'
      BY <2>1, <3>1, <3>2 DEF Bounded
    <3>4. Fresh(f)'
      BY <2>1, <2>2, <3>1, <3>2 DEF Fresh, Listed
    <3> QED BY <3>3, <3>4
  <2> QED BY <2>1, <2>3, <2>4 DEF CountInv
<1>2. CASE Next
  <2>1. PICK t \in Threads :
          \/ Step(t) \/ Signal(t) \/ HandlerEnds(t) \/ SigLongjmp(t)
          \/ \E op \in Ops, f \in Fncs : BeginCall(t, op, f)
    BY <1>2 DEF Next
  <2> QED BY <2>1, CountStepThread, SignalCount, GotoCount, LeaveCount, BeginCallCount
<1> QED BY <1>1, <1>2

(***************************************************************************)
(* A function gets no more bridges from AddCheckBridge and                 *)
(* AddAutomaticBridge than there are threads and signals so far, wherever  *)
(* the signals come and whatever the guest's handlers leave: the two steps *)
(* in which they look and add can waste a bridge per call in progress, and *)
(* no more.                                                                *)
(***************************************************************************)
THEOREM DuplicatesAlways == Spec => []Duplicates
<1>1. CASE "add" \in Ops
  <2>1. Duplicates
    BY <1>1 DEF Duplicates
  <2> QED BY <2>1, PTL
<1>2. CASE "add" \notin Ops
  <2>1. CountInv /\ BaseInv /\ BaseInv' /\ [Next]_vars => CountInv'
    BY <1>2, CountNext
  <2>2. BaseInv /\ CountInv => Duplicates
    <3> SUFFICES ASSUME BaseInv, CountInv, NEW f \in Fncs
                 PROVE  Cardinality({s \in Slots : cell[s].fnc = f}) <= Cardinality(Threads) + signals
      BY DEF Duplicates
    <3>1. Bounded(f) /\ signals \in Nat
      BY BaseFacts DEF CountInv
    <3>2. /\ Cardinality(Written(f)) \in Nat /\ Cardinality(Unwritten(f)) \in Nat
          /\ Cardinality(Threads) \in Nat
      BY <3>1, FS_CardinalityType, CountAssumption DEF Bounded
    <3>3. Cardinality(Written(f)) <= Cardinality(Threads) + signals
      BY <3>1, <3>2 DEF Bounded
    <3> QED BY <3>3 DEF Written
  <2> QED BY <2>1, <2>2, BaseInvAlways, CountInit, PTL DEF Spec
<1> QED BY <1>1, <1>2
=============================================================================
