------------------------------- MODULE Bridge -------------------------------
(***************************************************************************)
(* The bridges of tools/bridge.c, by which the guest calls a native        *)
(* function, made by several threads at once, and the mutexes they take,   *)
(* when a signal may arrive in the middle: unlockMutex and relockMutex of  *)
(* box86context.c around the guest's signal handler (libtools/signals.c).  *)
(*                                                                         *)
(* A thread is a stack of what runs on it: a call, the signal handler that *)
(* interrupted it, a call that the guest's handler makes, and so on.  A    *)
(* step is what a call does between two accesses to shared state.  kh_get  *)
(* and kh_put are one step each; a failing mmap, FreeBridge and the block  *)
(* that DBAlternateBlock makes are left out.                               *)
(*                                                                         *)
(* Nothing masks signals in these calls: one that arrives between the test *)
(* of b->sz and its increment opens the brick to others, and a handler     *)
(* that changes the context cancels the call it interrupted.  Two history  *)
(* variables, which no guard reads, remember both: the properties say what *)
(* still holds everywhere else.                                            *)
(***************************************************************************)
EXTENDS Naturals, Sequences, FiniteSets

CONSTANTS
  Threads,     \* the emulated threads
  Fncs,        \* native functions
  Ops,         \* what threads call: "check", "auto", "add", "protect", "malloc"
  NBRICK,      \* bridges of a brick
  MaxCalls,    \* bound: calls, of all threads
  MaxSignals   \* bound: signals

ASSUME BridgeAssumption == /\ NBRICK \in Nat \ {0} /\ MaxCalls \in Nat /\ MaxSignals \in Nat
                           /\ Ops \subseteq {"check", "auto", "add", "protect", "malloc"}
                           /\ "none" \notin Threads

ASSUME CountAssumption == IsFiniteSet(Threads) /\ "none" \notin Fncs

VARIABLES
  owner,      \* who holds each mutex
  last,       \* bridge->last
  bricks,     \* how many bricks there are
  sz,         \* sz of each brick
  bridgemap,  \* bridge->bridgemap
  cell,       \* the bridges: the function f, and how much of the bridge is written
  alternates, \* my_alternates
  stack,      \* what runs on each thread, innermost last
  calls,      \* calls so far
  signals,    \* signals so far
  opened,     \* history: bricks in which a signal came between test and increment
  canceled    \* history: bridges of the calls that siglongjmp left

vars == <<owner, last, bricks, sz, bridgemap, cell, alternates, stack, calls, signals, opened, canceled>>

None    == "none"

NoSlot  == <<0, 0>>

Mutexes == {"bridge", "prot", "blocks"}

Bricks  == 1 .. MaxCalls + 1

\* The places of bridges, those past the end of a brick included.
Slots   == Bricks \X (0 .. MaxCalls)

\* Where a call is, in the order of AddAutomaticBridge.
PCs == {"check", "lock", "full", "prot", "node", "noded", "protd", "attach", "claim", "bump", "put",
        "unlock", "CC", "f", "C3", "has", "alt", "return"}

\* Where it has a bridge and has not finished it.
InBridge == {"bump", "put", "unlock", "CC", "f", "C3"}

\* A call, and a run of the signal handler with the mutexes it released.
Call(op, pc, f) == [op |-> op, pc |-> pc, fnc |-> f, b |-> 1, sz |-> 0, ret |-> NoSlot, saved |-> {}]

Handler(locks)  == [Call("handler", "run", None) EXCEPT !.saved = locks]

Init == /\ owner = [m \in Mutexes |-> None]
        /\ last = 1 /\ bricks = 1
        /\ sz = [b \in Bricks |-> 0]
        /\ bridgemap = [f \in Fncs |-> NoSlot]
        /\ cell = [s \in Slots |-> [fnc |-> None, written |-> 0]]
        /\ alternates = [f \in Fncs |-> NoSlot]
        /\ stack = [t \in Threads |-> <<>>]
        /\ calls = 0 /\ signals = 0
        /\ opened = {} /\ canceled = {}

-----------------------------------------------------------------------------
(***************************************************************************)
(* The innermost frame of a thread, its steps and its mutexes.             *)
(***************************************************************************)
Top(t)  == stack[t][Len(stack[t])]

At(t, pc) == stack[t] # <<>> /\ Top(t).pc = pc

Slot(fr) == <<fr.b, fr.sz>>

Held(t) == {m \in Mutexes : owner[m] = t}

SetTop(t, fr) == stack' = [stack EXCEPT ![t][Len(stack[t])] = fr]

Goto(t, pc)   == SetTop(t, [Top(t) EXCEPT !.pc = pc])

Push(t, fr)   == stack' = [stack EXCEPT ![t] = Append(@, fr)]

Drop(t, n)    == stack' = [stack EXCEPT ![t] = SubSeq(@, 1, Len(@) - n)]

Acquire(t, m) == owner[m] = None /\ owner' = [owner EXCEPT ![m] = t]

Release(m)    == owner' = [owner EXCEPT ![m] = None]

bridgeVars == <<last, bricks, sz, bridgemap, cell>>

history    == <<opened, canceled>>

budget     == <<calls, signals, history>>

-----------------------------------------------------------------------------
(***************************************************************************)
(* A thread calls AddCheckBridge, AddAutomaticBridge or AddBridge, or      *)
(* takes the mutexes of custommem.c by setProtection or customMalloc, from *)
(* its own code or from the guest's signal handler.                        *)
(***************************************************************************)
Start(op) == CASE op \in {"check", "auto"} -> "check"
               [] op = "add"     -> "lock"
               [] op = "protect" -> "prot"
               [] op = "malloc"  -> "node"

BeginCall(t, op, f) == /\ stack[t] = <<>> \/ At(t, "run")
                       /\ calls < MaxCalls
                       /\ calls' = calls + 1
                       /\ Push(t, Call(op, Start(op), IF op \in {"protect", "malloc"} THEN None ELSE f))
                       /\ UNCHANGED <<owner, bridgeVars, alternates, signals, history>>

\* CheckBridged, without a lock; AddAutomaticBridge goes on to the alternate.
After(op) == IF op = "auto" THEN "has" ELSE "return"

\* Mutant: CheckBridged finds nothing.
CheckBridged_miss(t) ==
  /\ At(t, "check")
  /\ Goto(t, "lock")
  /\ UNCHANGED <<owner, bridgeVars, alternates, budget>>

CheckBridged(t) ==
  /\ At(t, "check")
  /\ LET s == bridgemap[Top(t).fnc] IN
     IF s = NoSlot THEN Goto(t, "lock")
     ELSE SetTop(t, [Top(t) EXCEPT !.ret = s, !.pc = After(Top(t).op)])
  /\ UNCHANGED <<owner, bridgeVars, alternates, budget>>

-----------------------------------------------------------------------------
(***************************************************************************)
(* AddBridge: a free bridge of the last brick, or of a new one, is taken   *)
(* and put in the map with the mutex held, and written without it.         *)
(***************************************************************************)
LockBridge(t) == /\ At(t, "lock") /\ Acquire(t, "bridge") /\ Goto(t, "full")
                 /\ UNCHANGED <<bridgeVars, alternates, budget>>

\* Mutant: the brick is taken for full one bridge too late.
Full_late(b) == sz[b] = NBRICK + 1

Full(b) == sz[b] = NBRICK

TestFull(t) == /\ At(t, "full")
               /\ SetTop(t, [Top(t) EXCEPT !.b = last, !.pc = IF Full(last) THEN "prot" ELSE "claim"])
               /\ UNCHANGED <<owner, bridgeVars, alternates, budget>>

\* NewBrick: setProtection takes mutex_prot, and customMalloc, when memprot
\* needs a node, mutex_blocks.  An arena with room is assumed.
LockProt(t) == /\ At(t, "prot") /\ Acquire(t, "prot")
               /\ \E pc \in {"node", "protd"} : Goto(t, pc)
               /\ UNCHANGED <<bridgeVars, alternates, budget>>

LockBlocks(t) == /\ At(t, "node") /\ Acquire(t, "blocks") /\ Goto(t, "noded")
                 /\ UNCHANGED <<bridgeVars, alternates, budget>>

UnlockBlocks(t) == /\ At(t, "noded") /\ Release("blocks")
                   /\ Goto(t, IF Top(t).op = "malloc" THEN "return" ELSE "protd")
                   /\ UNCHANGED <<bridgeVars, alternates, budget>>

UnlockProt(t) == /\ At(t, "protd") /\ Release("prot")
                 /\ Goto(t, IF Top(t).op = "protect" THEN "return" ELSE "attach")
                 /\ UNCHANGED <<bridgeVars, alternates, budget>>

Attach(t) == /\ At(t, "attach")
             /\ bricks' = bricks + 1 /\ last' = bricks'
             /\ SetTop(t, [Top(t) EXCEPT !.b = bricks', !.pc = "claim"])
             /\ UNCHANGED <<owner, sz, bridgemap, cell, alternates, budget>>

Claim(t) == /\ At(t, "claim")
            /\ SetTop(t, [Top(t) EXCEPT !.sz = sz[Top(t).b], !.pc = "bump"])
            /\ UNCHANGED <<owner, bridgeVars, alternates, budget>>

\* Mutant: b->sz is not counted up.
Bump_none(t) == /\ At(t, "bump")
                /\ Goto(t, "put")
                /\ UNCHANGED <<owner, bridgeVars, alternates, budget>>

\* b->sz++ reads b->sz again, or adds to what was read before.
Bump(t) == /\ At(t, "bump")
           /\ \E n \in {sz[Top(t).b], Top(t).sz} : sz' = [sz EXCEPT ![Top(t).b] = n + 1]
           /\ Goto(t, "put")
           /\ UNCHANGED <<owner, last, bricks, bridgemap, cell, alternates, budget>>

\* Mutant: the bridge is looked up again as the last one of the last brick.
Put_last(t) == /\ At(t, "put")
               /\ bridgemap' = [bridgemap EXCEPT ![Top(t).fnc] = <<last, sz[last] - 1>>]
               /\ Goto(t, "unlock")
               /\ UNCHANGED <<owner, last, bricks, sz, cell, alternates, budget>>

Put(t) == /\ At(t, "put")
          /\ bridgemap' = [bridgemap EXCEPT ![Top(t).fnc] = Slot(Top(t))]
          /\ Goto(t, "unlock")
          /\ UNCHANGED <<owner, last, bricks, sz, cell, alternates, budget>>

UnlockBridge(t) == /\ At(t, "unlock") /\ Release("bridge") /\ Goto(t, "CC")
                   /\ UNCHANGED <<bridgeVars, alternates, budget>>

\* The writes to the bridge: CC, S, C and w; f; C3 and N.
Write(t, pc, fnc, n, next) ==
  /\ At(t, pc)
  /\ cell' = [cell EXCEPT ![Slot(Top(t))] = [fnc |-> fnc, written |-> n]]
  /\ SetTop(t, [Top(t) EXCEPT !.ret = Slot(Top(t)), !.pc = next])
  /\ UNCHANGED <<owner, last, bricks, sz, bridgemap, alternates, budget>>

WriteHead(t) == Write(t, "CC", cell[Slot(Top(t))].fnc, 1, "f")

WriteFnc(t)  == Write(t, "f", Top(t).fnc, 2, "C3")

WriteTail(t) == Write(t, "C3", cell[Slot(Top(t))].fnc, 3, After(Top(t).op))

-----------------------------------------------------------------------------
(***************************************************************************)
(* The end of AddAutomaticBridge: hasAlternate, then addAlternate, which   *)
(* keeps the alternate that is there.                                      *)
(***************************************************************************)
HasAlternate(t) == /\ At(t, "has")
                   /\ Goto(t, IF alternates[Top(t).fnc] = NoSlot THEN "alt" ELSE "return")
                   /\ UNCHANGED <<owner, bridgeVars, alternates, budget>>

AddAlternate(t) == /\ At(t, "alt")
                   /\ alternates' = [alternates EXCEPT ![Top(t).fnc] = IF @ = NoSlot THEN Top(t).ret ELSE @]
                   /\ Goto(t, "return")
                   /\ UNCHANGED <<owner, bridgeVars, budget>>

Return(t) == /\ At(t, "return") /\ Drop(t, 1)
             /\ UNCHANGED <<owner, bridgeVars, alternates, budget>>

-----------------------------------------------------------------------------
(***************************************************************************)
(* A signal: the handler releases the mutexes the thread holds and runs    *)
(* the guest's handler, then takes them again and returns to the code it   *)
(* interrupted, or leaves that code for good with siglongjmp when the      *)
(* guest changed the context.                                              *)
(***************************************************************************)
\* Mutant: unlockMutex passes over mutex_bridge.
unlockMutex_bridge(t) == Held(t) \ {"bridge"}

unlockMutex(t) == Held(t)

Signal(t) == /\ stack[t] # <<>> /\ Top(t).pc \in PCs
             /\ signals < MaxSignals
             /\ signals' = signals + 1
             /\ Push(t, Handler(unlockMutex(t)))
             /\ owner' = [m \in Mutexes |-> IF m \in unlockMutex(t) THEN None ELSE owner[m]]
             /\ opened' = IF Top(t).pc \in {"claim", "bump"} THEN opened \union {Top(t).b} ELSE opened
             /\ UNCHANGED <<bridgeVars, alternates, calls, canceled>>

HandlerEnds(t) == /\ At(t, "run") /\ Goto(t, "relock")
                  /\ UNCHANGED <<owner, bridgeVars, alternates, budget>>

\* relockMutex: mutex_bridge, then relockCustommemMutex: mutex_blocks, mutex_prot.
\* Mutant: relockMutex passes over mutex_bridge.
RelockOrder_bridge == <<"blocks", "prot">>

RelockOrder == <<"bridge", "blocks", "prot">>

ToRelock(t) == {i \in DOMAIN RelockOrder : RelockOrder[i] \in Top(t).saved}

Relock(t) == /\ At(t, "relock") /\ ToRelock(t) # {}
             /\ LET m == RelockOrder[CHOOSE i \in ToRelock(t) : \A j \in ToRelock(t) : i <= j] IN
                /\ Acquire(t, m)
                /\ SetTop(t, [Top(t) EXCEPT !.saved = @ \ {m}])
             /\ UNCHANGED <<bridgeVars, alternates, budget>>

SigReturn(t) == /\ At(t, "relock") /\ ToRelock(t) = {}
                /\ Drop(t, 1)
                /\ UNCHANGED <<owner, bridgeVars, alternates, budget>>

SigLongjmp(t) == /\ At(t, "run") /\ Drop(t, 2)
                 /\ LET fr == stack[t][Len(stack[t]) - 1] IN
                    canceled' = IF fr.pc \in InBridge THEN canceled \union {Slot(fr)} ELSE canceled
                 /\ UNCHANGED <<owner, bridgeVars, alternates, calls, signals, opened>>

-----------------------------------------------------------------------------
\* What a call does next.
Step(t) == \/ CheckBridged(t) \/ LockBridge(t) \/ TestFull(t)
           \/ LockProt(t) \/ LockBlocks(t) \/ UnlockBlocks(t) \/ UnlockProt(t) \/ Attach(t)
           \/ Claim(t) \/ Bump(t) \/ Put(t) \/ UnlockBridge(t)
           \/ WriteHead(t) \/ WriteFnc(t) \/ WriteTail(t)
           \/ HasAlternate(t) \/ AddAlternate(t) \/ Return(t)
           \/ Relock(t) \/ SigReturn(t)

Next == \E t \in Threads :
          \/ Step(t)
          \/ Signal(t) \/ HandlerEnds(t) \/ SigLongjmp(t)
          \/ \E op \in Ops, f \in Fncs : BeginCall(t, op, f)

\* A thread goes on while it can, and the guest's handlers end.
Fairness == \A t \in Threads : WF_vars(Step(t)) /\ WF_vars(HandlerEnds(t))

Spec == Init /\ [][Next]_vars /\ Fairness

-----------------------------------------------------------------------------
(***************************************************************************)
(* Properties.                                                             *)
(***************************************************************************)
Frames(t) == {stack[t][i] : i \in DOMAIN stack[t]}

Frame == [op : Ops \union {"handler"}, pc : PCs \union {"run", "relock"}, fnc : Fncs \union {None},
          b : Bricks, sz : 0 .. MaxCalls, ret : Slots \union {NoSlot}, saved : SUBSET Mutexes]

\* The variables have their types, and b->sz of AddBridge passes NBRICK only in
\* a brick that a signal opened: whatever signals come elsewhere, and however
\* the mutex changes hands under them, no brick is overrun.
TypeOK == /\ owner \in [Mutexes -> Threads \union {None}]
          /\ last \in Bricks /\ bricks \in Bricks
          /\ sz \in [Bricks -> 0 .. MaxCalls]
          /\ bridgemap \in [Fncs -> Slots \union {NoSlot}]
          /\ cell \in [Slots -> [fnc : Fncs \union {None}, written : 0 .. 3]]
          /\ alternates \in [Fncs -> Slots \union {NoSlot}]
          /\ \A t \in Threads : Frames(t) \subseteq Frame
          /\ calls \in 0 .. MaxCalls /\ signals \in 0 .. MaxSignals
          /\ opened \subseteq Bricks /\ canceled \subseteq Slots
          /\ \A b \in Bricks \ opened : sz[b] <= NBRICK

\* The mutexes a frame holds when it is the innermost one.
InNewBrick  == {"prot", "node", "noded", "protd"}

InAddBridge == {"full", "attach", "claim", "bump", "put", "unlock"} \union InNewBrick

Needs(fr) == {m \in Mutexes :
  \/ m = "bridge" /\ fr.op \in {"check", "auto", "add"} /\ fr.pc \in InAddBridge
  \/ m = "prot" /\ fr.op # "malloc" /\ fr.pc \in InNewBrick \ {"prot"}
  \/ m = "blocks" /\ fr.pc = "noded"}

\* A thread holds the mutexes of the code it is in, no more and no fewer,
\* whatever signals came before: unlockMutex leaves none held while the guest's
\* handler runs, relockMutex has all of them back before the interrupted code
\* goes on, and siglongjmp leaves none behind.
LocksKept == \A t \in Threads :
  IF stack[t] = <<>> THEN Held(t) = {}
  ELSE ~ At(t, "relock") => Held(t) = Needs(Top(t))

\* Two calls of AddBridge, of two threads or of one thread and its signal
\* handler, never write the same bridge, none writes one already in use, and
\* none writes past the end of a brick: but in a brick that a signal opened.
Places == {p \in Threads \X (1 .. 2 * MaxSignals + 1) : p[2] \in DOMAIN stack[p[1]]}

Writing(p) == stack[p[1]][p[2]].pc \in InBridge

SlotsDistinct == \A p, q \in {r \in Places : Writing(r)} :
  LET fr == stack[p[1]][p[2]] IN
  fr.b \notin opened =>
  /\ fr.sz < NBRICK
  /\ p # q => Slot(fr) # Slot(stack[q[1]][q[2]])
  /\ cell[Slot(fr)].written = CASE fr.pc = "f" -> 1 [] fr.pc = "C3" -> 2 [] OTHER -> 0

\* The bridge that bridgemap or my_alternates gives for a function is that
\* function's, or a call that is not over is about to make it so.  One that is
\* left half written is of a call that siglongjmp canceled, which the map keeps,
\* or is in a brick that a signal opened.
MapSound == \A f \in Fncs : \A s \in {bridgemap[f], alternates[f]} \ {NoSlot} :
  \/ cell[s] = [fnc |-> f, written |-> 3]
  \/ \E p \in Places : LET fr == stack[p[1]][p[2]] IN Writing(p) /\ fr.fnc = f /\ Slot(fr) = s
  \/ s \in canceled
  \/ s[1] \in opened

\* AddCheckBridge looks and adds in two steps, so a function can get two
\* bridges; but no more than one per thread and per interrupted call.
Duplicates == "add" \notin Ops =>
  \A f \in Fncs : Cardinality({s \in Slots : cell[s].fnc = f}) <= Cardinality(Threads) + signals

\* relockCustommemMutex has mutex_blocks and waits for mutex_prot, and
\* setProtection has mutex_prot and waits for mutex_blocks.
LockCycle == \E t, u \in Threads :
  /\ At(t, "relock") /\ owner["blocks"] = t /\ "prot" \in Top(t).saved
  /\ At(u, "node") /\ owner["prot"] = u

\* Every call ends: no thread is stuck on a mutex, its own included, unless two
\* threads are left waiting for each other in the cycle of relockMutex and
\* setProtection, which is the only one.
CallsEnd == \A t \in Threads : (stack[t] # <<>> ~> stack[t] = <<>>) \/ <>[]LockCycle
=============================================================================
