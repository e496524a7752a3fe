---------------------------- MODULE IntervalMap ----------------------------
(***************************************************************************)
(* What an interval tree of tools/rbtree.c promises its users in           *)
(* custommem.c: a map from addresses to data on which a range is set or    *)
(* unset at once.  NoData stands for an address that lies in no interval.  *)
(***************************************************************************)
EXTENDS Naturals

CONSTANTS Top,      \* (uintptr_t)-1, the bound of every interval
          Data,     \* the uint32_t values stored
          NoData    \* what an address in no interval holds

VARIABLE map        \* map[a]: what address a holds

Addr == 0 .. (Top - 1)

\* The ranges a caller may pass: start < end.
Ranges == {r \in (0 .. Top) \X (0 .. Top) : r[1] < r[2]}

Init == map = [a \in Addr |-> NoData]

Set(s, e, d) == map' = [a \in Addr |-> IF s <= a /\ a < e THEN d ELSE map[a]]

(***************************************************************************)
(* What rb_unset keeps of its promise to clear [s, e): addresses from s up *)
(* to some k < e may stay set, if they hold what the address before s does.*)
(***************************************************************************)
UnsetFrom(s, k, e) ==
  /\ \A a \in s .. (k - 1) : s > 0 /\ map[a] = map[s - 1] /\ map[a] # NoData
  /\ map' = [a \in Addr |-> IF k <= a /\ a < e THEN NoData ELSE map[a]]

NextTail == \E r \in Ranges : \/ \E d \in Data : Set(r[1], r[2], d)
                              \/ \E k \in r[1] .. (r[2] - 1) : UnsetFrom(r[1], k, r[2])

SpecTail == Init /\ [][NextTail]_map
=============================================================================
