----------------------------- MODULE PoolAlloc -----------------------------
(***************************************************************************)
(* The pool allocator behind the garbage-collected values (poolalloc.c).   *)
(* Areas of slots are added when few are free, each twice the size of the  *)
(* one before.  A hint, the last area and in every area the slot after the *)
(* last one given out or the last one freed, is tried before the areas are *)
(* searched.  The last Margin - 1 free items are kept for allocations that *)
(* must not fail, those of errors.                                         *)
(***************************************************************************)
EXTENDS Integers, Sequences, FiniteSets

CONSTANTS FirstPoolSize, \* slots of the first area (256)
          Margin,        \* free items below which an area is added (10)
          MaxAreas       \* bound: areas the system has memory for

\* The first area has room for the margin.
ASSUME PoolAssumption ==
    /\ FirstPoolSize \in Nat \ {0} /\ Margin \in Nat \ {0} /\ MaxAreas \in Nat
    /\ FirstPoolSize >= Margin - 1

VARIABLE pool  \* [areas, used, maybe, last, free, total, urgent]

NoItem == <<0, 0>>
Slots(areas)    == UNION {{j} \X (0..(areas[j] - 1)) : j \in DOMAIN areas}
Unused(p, j)    == {k \in 0..(p.areas[j] - 1) : <<j, k>> \notin p.used}
Lowest(S)       == CHOOSE x \in S : \A y \in S : x <= y

\* poolalloc_AddArea.
AddArea(p) ==
    LET n    == Len(p.areas)
        size == IF n = 0 THEN FirstPoolSize ELSE 2 * p.areas[n]
    IN  [p EXCEPT !.areas = Append(@, size), !.maybe = Append(@, 0),
                  !.free = @ + size, !.total = @ + size, !.last = n + 1]

\* The item an allocation takes: the hint, the last area, then all of them.
Hint(p) == <<p.last, p.maybe[p.last]>>
Take(p) ==
    LET open == {j \in DOMAIN p.areas : Unused(p, j) # {}}
        area == IF Unused(p, p.last) # {} THEN p.last ELSE Lowest(open)
    IN  IF Hint(p) \in Slots(p.areas) \ p.used THEN Hint(p)
        ELSE IF open = {} THEN NoItem
        ELSE <<area, Lowest(Unused(p, area))>>

GiveOut(p, item, urgent) ==
    [p EXCEPT !.used = @ \cup {item}, !.free = @ - 1, !.last = item[1],
              !.maybe[item[1]] = item[2] + 1,
              !.urgent = IF urgent THEN @ \cup {item} ELSE @]

GiveBackKeepingHint(p, item) ==
    [p EXCEPT !.used = @ \ {item}, !.last = item[1],
              !.maybe[item[1]] = item[2], !.urgent = @ \ {item}]
GiveBack(p, item) ==
    [p EXCEPT !.used = @ \ {item}, !.free = @ + 1, !.last = item[1],
              !.maybe[item[1]] = item[2], !.urgent = @ \ {item}]

PoolInit ==
    pool = AddArea([areas |-> <<>>, used |-> {}, maybe |-> <<>>, last |-> 0,
                    free |-> 0, total |-> 0, urgent |-> {}])

\* poolalloc_malloc: more areas may or may not be had.
NeedsAreaWhenEmpty(urgent) == ~urgent /\ pool.free < 1
NeedsArea(urgent) == ~urgent /\ pool.free < Margin

PoolMalloc ==
    \E urgent \in BOOLEAN :
        \E p \in (IF NeedsArea(urgent)
                  THEN IF Len(pool.areas) < MaxAreas THEN {AddArea(pool)} ELSE {}
                  ELSE {pool}) :
            /\ p.free > 0
            /\ pool' = GiveOut(p, Take(p), urgent)

PoolFree == \E item \in pool.used : pool' = GiveBack(pool, item)

PoolNext == PoolMalloc \/ PoolFree
PoolSpec == PoolInit /\ [][PoolNext]_pool

------------------------------------------------------------------------------
PoolTypeOK ==
    /\ DOMAIN pool.maybe = DOMAIN pool.areas /\ pool.last \in DOMAIN pool.areas
    /\ pool.used \subseteq Slots(pool.areas) /\ pool.urgent \subseteq pool.used

\* The count of free items is what the slots say: an allocation that counts on a
\* free item finds one, whatever the hints point at (poolalloc.c:151-205, where the
\* assertion after the search of all areas says so).
FreeItemsAreThere ==
    /\ pool.free = Cardinality(Slots(pool.areas)) - Cardinality(pool.used)
    /\ pool.total = Cardinality(Slots(pool.areas))
    /\ pool.free > 0 => Take(pool) \in Slots(pool.areas) \ pool.used

\* Ordinary allocations leave the margin: what is free and what the urgent
\* allocations hold of it is never less (can_use_emergency_margin, poolalloc.c:145-149).
MarginIsKept == pool.free + Cardinality(pool.urgent) >= Margin - 1
==============================================================================
