--------------------------- MODULE PoolAlloc_proofs ---------------------------
(***************************************************************************)
(* The pool allocator counts its free items right and keeps the margin for *)
(* allocations that must not fail, for any sizes and any number of areas.  *)
(***************************************************************************)
EXTENDS PoolAlloc, FiniteSetTheorems, SequenceTheorems, TLAPS

PoolRecords ==
  [areas : Seq(Nat \ {0}), used : SUBSET (Nat \X Nat), maybe : Seq(Nat), last : Nat,
   free : Int, total : Int, urgent : SUBSET (Nat \X Nat)]

\* What holds of a pool before and after every step, and of an allocation also after
\* an area was added. A pool without areas is counted right too.
Counted(p) ==
  /\ p \in PoolRecords
  /\ Len(p.maybe) = Len(p.areas)
  /\ p.used \subseteq Slots(p.areas) /\ p.urgent \subseteq p.used
  /\ IsFiniteSet(Slots(p.areas))
  /\ p.total = Cardinality(Slots(p.areas))
  /\ p.free = p.total - Cardinality(p.used)
Sound(p) == Counted(p) /\ p.last \in 1 .. Len(p.areas)
KeepsMargin(p) == p.free + Cardinality(p.urgent) >= Margin - 1

IInv == Sound(pool) /\ KeepsMargin(pool)

-----------------------------------------------------------------------------
(* Slots and areas *)

LEMMA SlotOfArea ==
  ASSUME NEW areas \in Seq(Nat \ {0}), NEW j, NEW k
  PROVE  <<j, k>> \in Slots(areas) <=> j \in 1 .. Len(areas) /\ k \in 0 .. areas[j] - 1
<1>1. DOMAIN areas = 1 .. Len(areas)
    BY LenProperties
<1> QED
    BY <1>1 DEF Slots

LEMMA SlotIsPair ==
  ASSUME NEW areas \in Seq(Nat \ {0}), NEW item \in Slots(areas)
  PROVE  item = <<item[1], item[2]>> /\ item \in Nat \X Nat /\ item[1] \in 1 .. Len(areas)
<1>1. DOMAIN areas = 1 .. Len(areas) /\ \A j \in 1 .. Len(areas) : areas[j] \in Nat
    BY LenProperties, ElementOfSeq
<1>2. PICK j \in 1 .. Len(areas) : item \in {j} \X (0 .. areas[j] - 1)
    BY <1>1 DEF Slots
<1> QED
    BY <1>1, <1>2

LEMMA SlotsOfOneMore ==
  ASSUME NEW areas \in Seq(Nat \ {0}), NEW size \in Nat \ {0}, IsFiniteSet(Slots(areas))
  PROVE  /\ Slots(areas) \subseteq Slots(Append(areas, size))
         /\ IsFiniteSet(Slots(Append(areas, size)))
         /\ Cardinality(Slots(Append(areas, size))) = Cardinality(Slots(areas)) + size
<1> DEFINE n == Len(areas)
           more == Append(areas, size)
           new == {n + 1} \X (0 .. size - 1)
<1>1. /\ more \in Seq(Nat \ {0}) /\ Len(more) = n + 1 /\ n \in Nat
      /\ more[n + 1] = size /\ \A j \in 1 .. n : more[j] = areas[j]
    BY AppendProperties, LenProperties
<1>2. DOMAIN areas = 1 .. n /\ DOMAIN more = 1 .. n + 1
    BY <1>1, LenProperties
<1>3. Slots(more) = Slots(areas) \cup new
    BY <1>1, <1>2 DEF Slots
<1>4. Slots(areas) \cap new = {}
    BY <1>1, <1>2 DEF Slots
<1>5. IsFiniteSet(new) /\ Cardinality(new) = size
  <2>1. IsFiniteSet({n + 1}) /\ Cardinality({n + 1}) = 1
    BY FS_Singleton
  <2>2. IsFiniteSet(0 .. size - 1) /\ Cardinality(0 .. size - 1) = size
    BY FS_Interval
  <2>3. IsFiniteSet(new) /\ Cardinality(new) = 1 * size
    BY <2>1, <2>2, FS_Product
  <2> QED
    BY <2>3
<1>6. /\ IsFiniteSet(Slots(areas) \cup new)
      /\ Cardinality(Slots(areas) \cup new)
           = Cardinality(Slots(areas)) + Cardinality(new) - Cardinality(Slots(areas) \cap new)
    BY <1>5, FS_Union
<1>7. Cardinality(Slots(areas)) \in Nat
    BY FS_CardinalityType
<1>8. Cardinality(Slots(areas) \cap new) = 0
    BY <1>4, FS_EmptySet
<1> HIDE DEF new
<1> QED
    BY <1>3, <1>5, <1>6, <1>7, <1>8

LEMMA LowestIsLowest ==
  ASSUME NEW S, S \subseteq Nat, S # {}
  PROVE  Lowest(S) \in S
<1> DEFINE R == OpToRel(<, Nat)
<1>1. \E x \in S : \A y \in S : ~(<<y, x>> \in R)
    BY NatLessThanWellFounded, WFMin
<1>2. PICK x \in S : \A y \in S : ~(<<y, x>> \in R)
    BY <1>1
<1>3. SUFFICES ASSUME NEW y \in S PROVE x <= y
    BY DEF Lowest
<1>4. ~(y < x)
    BY <1>2 DEF OpToRel
<1> QED
    BY <1>4

\* The search finds a free slot when there is one, wherever the hint points.
LEMMA TakeIsFree ==
  ASSUME NEW p, Sound(p), p.free > 0
  PROVE  Take(p) \in Slots(p.areas) \ p.used
<1> DEFINE open == {j \in DOMAIN p.areas : Unused(p, j) # {}}
<1>1. /\ p.areas \in Seq(Nat \ {0}) /\ DOMAIN p.areas = 1 .. Len(p.areas)
      /\ \A j \in 1 .. Len(p.areas) : Unused(p, j) \subseteq Nat
  <2>1. p.areas \in Seq(Nat \ {0})
    BY DEF Sound, Counted, PoolRecords
  <2>2. DOMAIN p.areas = 1 .. Len(p.areas) /\ \A j \in 1 .. Len(p.areas) : p.areas[j] \in Nat
    BY <2>1, LenProperties, ElementOfSeq
  <2> QED
    BY <2>1, <2>2 DEF Unused
<1>2. Slots(p.areas) \ p.used # {}
  <2>1. Slots(p.areas) # p.used
    BY FS_CardinalityType DEF Sound, Counted, PoolRecords
  <2> QED
    BY <2>1 DEF Sound, Counted
<1>3. open # {}
  <2>1. PICK item \in Slots(p.areas) : item \notin p.used
    BY <1>2
  <2>2. /\ item = <<item[1], item[2]>> /\ item[1] \in 1 .. Len(p.areas)
        /\ item[2] \in 0 .. p.areas[item[1]] - 1
    BY <1>1, SlotIsPair, SlotOfArea
  <2>3. item[2] \in Unused(p, item[1])
    BY <2>1, <2>2 DEF Unused
  <2> QED
    BY <1>1, <2>2, <2>3
<1>4. \A j \in open : <<j, Lowest(Unused(p, j))>> \in Slots(p.areas) \ p.used
  <2> SUFFICES ASSUME NEW j \in open
               PROVE  <<j, Lowest(Unused(p, j))>> \in Slots(p.areas) \ p.used
    OBVIOUS
  <2>1. Lowest(Unused(p, j)) \in Unused(p, j)
    BY <1>1, LowestIsLowest
  <2> QED
    BY <1>1, <2>1, SlotOfArea DEF Unused
<1>5. Lowest(open) \in open
  <2>1. open \subseteq Nat
    BY <1>1
  <2> QED
    BY <1>3, <2>1, LowestIsLowest
<1>6. p.last \in DOMAIN p.areas
    BY <1>1 DEF Sound, Counted
<1>7. CASE Hint(p) \in Slots(p.areas) \ p.used
  <2>1. Take(p) = Hint(p)
    BY <1>7 DEF Take
  <2> QED
    BY <1>7, <2>1
<1>8. CASE Hint(p) \notin Slots(p.areas) \ p.used /\ Unused(p, p.last) # {}
  <2>1. Take(p) = <<p.last, Lowest(Unused(p, p.last))>>
    BY <1>3, <1>8 DEF Take
  <2> QED
    BY <1>4, <1>6, <1>8, <2>1
<1>9. CASE Hint(p) \notin Slots(p.areas) \ p.used /\ Unused(p, p.last) = {}
  <2>1. Take(p) = <<Lowest(open), Lowest(Unused(p, Lowest(open)))>>
    BY <1>3, <1>9 DEF Take
  <2> QED
    BY <1>4, <1>5, <2>1
<1> QED
    BY <1>7, <1>8, <1>9

LEMMA CountsAreNumbers ==
  ASSUME NEW p, Sound(p)
  PROVE  p.free \in Int /\ Cardinality(p.urgent) \in Nat
    BY FS_Subset, FS_CardinalityType DEF Sound, Counted, PoolRecords

-----------------------------------------------------------------------------
(* The steps *)

LEMMA AreaIsSound ==
  ASSUME NEW p, Counted(p)
  PROVE  /\ Sound(AddArea(p)) /\ AddArea(p).urgent = p.urgent
         /\ AddArea(p).free > p.free
<1> DEFINE n == Len(p.areas)
           size == IF n = 0 THEN FirstPoolSize ELSE 2 * p.areas[n]
           q == AddArea(p)
<1>1. /\ p \in PoolRecords /\ p.areas \in Seq(Nat \ {0}) /\ p.maybe \in Seq(Nat) /\ n \in Nat
      /\ p.free \in Int /\ p.total \in Int /\ IsFiniteSet(Slots(p.areas))
    BY LenProperties DEF Counted, PoolRecords
<1>2. size \in Nat \ {0}
  <2>1. n # 0 => p.areas[n] \in Nat \ {0}
    BY <1>1, ElementOfSeq
  <2> QED
    BY <2>1, PoolAssumption
<1> HIDE DEF size
<1>3. q = [p EXCEPT !.areas = Append(@, size), !.maybe = Append(@, 0),
                    !.free = @ + size, !.total = @ + size, !.last = n + 1]
    BY DEF AddArea, size
<1>4. /\ q.areas = Append(p.areas, size) /\ q.maybe = Append(p.maybe, 0)
      /\ q.free = p.free + size /\ q.total = p.total + size /\ q.last = n + 1
      /\ q.used = p.used /\ q.urgent = p.urgent
    BY <1>1, <1>3 DEF PoolRecords
<1>5. /\ Append(p.areas, size) \in Seq(Nat \ {0}) /\ Len(Append(p.areas, size)) = n + 1
      /\ Append(p.maybe, 0) \in Seq(Nat) /\ Len(Append(p.maybe, 0)) = Len(p.maybe) + 1
    BY <1>1, <1>2, AppendProperties
<1>6. q \in PoolRecords
  <2>1. q = [areas |-> q.areas, used |-> q.used, maybe |-> q.maybe, last |-> q.last,
             free |-> q.free, total |-> q.total, urgent |-> q.urgent]
    BY <1>1, <1>3 DEF PoolRecords
  <2>2. q.areas \in Seq(Nat \ {0}) /\ q.maybe \in Seq(Nat)
    BY <1>4, <1>5
  <2>3. q.last \in Nat /\ q.free \in Int /\ q.total \in Int
    BY <1>1, <1>2, <1>4
  <2>4. q.used \subseteq Nat \X Nat /\ q.urgent \subseteq Nat \X Nat
    BY <1>1, <1>4 DEF PoolRecords
  <2> HIDE DEF q
  <2> QED
    BY <2>1, <2>2, <2>3, <2>4 DEF PoolRecords
<1>7. /\ Slots(p.areas) \subseteq Slots(q.areas) /\ IsFiniteSet(Slots(q.areas))
      /\ Cardinality(Slots(q.areas)) = Cardinality(Slots(p.areas)) + size
    BY <1>1, <1>2, <1>4, SlotsOfOneMore
<1>8. IsFiniteSet(p.used) /\ Cardinality(p.used) \in Nat
    BY FS_Subset, FS_CardinalityType DEF Counted
<1>9. Sound(q)
  <2>1. Len(q.maybe) = Len(q.areas) /\ q.last \in 1 .. Len(q.areas)
    BY <1>1, <1>4, <1>5 DEF Counted
  <2>2. q.used \subseteq Slots(q.areas) /\ q.urgent \subseteq q.used
    BY <1>4, <1>7 DEF Counted
  <2>3. q.total = Cardinality(Slots(q.areas))
    BY <1>4, <1>7 DEF Counted
  <2>4. q.free = q.total - Cardinality(q.used)
    BY <1>1, <1>2, <1>4, <1>8 DEF Counted
  <2> QED
    BY <1>6, <1>7, <2>1, <2>2, <2>3, <2>4 DEF Sound, Counted
<1> QED
    BY <1>1, <1>2, <1>4, <1>9

\* The fields a step that gives out or takes back an item changes.
ItemMoved(p, used, free, item, hint, urgent) ==
  [p EXCEPT !.used = used, !.free = free, !.last = item[1],
            !.maybe[item[1]] = hint, !.urgent = urgent]

LEMMA ItemIsSound ==
  ASSUME NEW p, Sound(p), NEW item \in Slots(p.areas),
         NEW used \in SUBSET Slots(p.areas), NEW urgent \in SUBSET used,
         NEW hint \in Nat, NEW free \in Int, free = p.total - Cardinality(used)
  PROVE  LET q == ItemMoved(p, used, free, item, hint, urgent)
         IN  Sound(q) /\ q.free = free /\ q.urgent = urgent
<1> DEFINE q == ItemMoved(p, used, free, item, hint, urgent)
<1>1. /\ p \in PoolRecords /\ p.areas \in Seq(Nat \ {0}) /\ p.maybe \in Seq(Nat)
      /\ Len(p.maybe) = Len(p.areas) /\ item[1] \in 1 .. Len(p.areas)
    BY SlotIsPair DEF Sound, Counted, PoolRecords
<1>2. Slots(p.areas) \subseteq Nat \X Nat
    BY <1>1, SlotIsPair
<1> DEFINE maybe == [p.maybe EXCEPT ![item[1]] = hint]
<1>3. /\ q.areas = p.areas /\ q.used = used /\ q.maybe = maybe /\ q.last = item[1]
      /\ q.free = free /\ q.total = p.total /\ q.urgent = urgent
      /\ q = [areas |-> q.areas, used |-> q.used, maybe |-> q.maybe, last |-> q.last,
              free |-> q.free, total |-> q.total, urgent |-> q.urgent]
  <2>1. q = [p EXCEPT !.used = used, !.free = free, !.last = item[1],
                      !.maybe = maybe, !.urgent = urgent]
    BY <1>1 DEF ItemMoved, PoolRecords
  <2>2. p = [areas |-> p.areas, used |-> p.used, maybe |-> p.maybe, last |-> p.last,
             free |-> p.free, total |-> p.total, urgent |-> p.urgent]
    BY <1>1 DEF PoolRecords
  <2> HIDE DEF q, maybe
  <2>3. q = [areas |-> p.areas, used |-> used, maybe |-> maybe, last |-> item[1],
             free |-> free, total |-> p.total, urgent |-> urgent]
    BY <2>1, <2>2
  <2> QED
    BY <2>3
<1>4. maybe \in Seq(Nat) /\ Len(maybe) = Len(p.maybe)
    BY <1>1, ExceptSeq
<1>5. q.total \in Int /\ q.last \in Nat
    BY <1>1, <1>3, LenProperties DEF PoolRecords
<1> HIDE DEF maybe, q
<1>6. q \in PoolRecords
    BY <1>1, <1>2, <1>3, <1>4, <1>5 DEF PoolRecords
<1>7. Sound(q)
    BY <1>1, <1>3, <1>4, <1>6 DEF Sound, Counted
<1> QED
    BY <1>3, <1>7 DEF q

LEMMA GivenOut ==
  ASSUME NEW p, Sound(p), p.free > 0, NEW urgent \in BOOLEAN
  PROVE  LET q == GiveOut(p, Take(p), urgent)
         IN  /\ Sound(q) /\ q.free = p.free - 1
             /\ urgent => Cardinality(q.urgent) = Cardinality(p.urgent) + 1
             /\ ~urgent => Cardinality(q.urgent) = Cardinality(p.urgent)
<1> DEFINE item == Take(p)
           q == GiveOut(p, item, urgent)
           used == p.used \cup {item}
           marked == IF urgent THEN p.urgent \cup {item} ELSE p.urgent
<1>1. item \in Slots(p.areas) /\ item \notin p.used
    BY TakeIsFree
<1>2. item[2] + 1 \in Nat
    BY <1>1, SlotIsPair DEF Sound, Counted, PoolRecords
<1>3. /\ p \in PoolRecords /\ p.free \in Int /\ p.total \in Int
      /\ IsFiniteSet(p.used) /\ IsFiniteSet(p.urgent)
      /\ Cardinality(p.used) \in Nat /\ Cardinality(p.urgent) \in Nat
    BY FS_Subset, FS_CardinalityType DEF Sound, Counted, PoolRecords
<1>4. Cardinality(used) = Cardinality(p.used) + 1
    BY <1>1, <1>3, FS_AddElement
<1>5. /\ urgent => Cardinality(marked) = Cardinality(p.urgent) + 1
      /\ ~urgent => Cardinality(marked) = Cardinality(p.urgent)
  <2>1. item \notin p.urgent
    BY <1>1 DEF Sound, Counted
  <2>2. Cardinality(p.urgent \cup {item}) = Cardinality(p.urgent) + 1
    BY <1>3, <2>1, FS_AddElement
  <2> QED
    BY <1>3, <2>2
<1> DEFINE free == p.free - 1
<1>6. q = ItemMoved(p, used, free, item, item[2] + 1, marked)
    BY <1>3 DEF GiveOut, ItemMoved, PoolRecords
<1>7. used \in SUBSET Slots(p.areas) /\ marked \in SUBSET used
    BY <1>1 DEF Sound, Counted
<1>8. free = p.total - Cardinality(used) /\ free \in Int
    BY <1>3, <1>4 DEF Sound, Counted
<1> HIDE DEF item, q, used, marked, free
<1>9. Sound(q) /\ q.free = free /\ q.urgent = marked
    BY <1>1, <1>2, <1>6, <1>7, <1>8, ItemIsSound
<1> QED
    BY <1>5, <1>9 DEF q, item, free

LEMMA GivenBack ==
  ASSUME NEW p, Sound(p), NEW item \in p.used
  PROVE  LET q == GiveBack(p, item)
         IN  /\ Sound(q) /\ q.free = p.free + 1
             /\ Cardinality(q.urgent) >= Cardinality(p.urgent) - 1
<1> DEFINE q == GiveBack(p, item)
           used == p.used \ {item}
           marked == p.urgent \ {item}
<1>1. item \in Slots(p.areas) /\ item[2] \in Nat
  <2>1. item \in Slots(p.areas) /\ p.areas \in Seq(Nat \ {0})
    BY DEF Sound, Counted, PoolRecords
  <2> QED
    BY <2>1, SlotIsPair
<1>2. /\ p \in PoolRecords /\ p.free \in Int /\ p.total \in Int
      /\ IsFiniteSet(p.used) /\ IsFiniteSet(p.urgent)
      /\ Cardinality(p.used) \in Nat /\ Cardinality(p.urgent) \in Nat
    BY FS_Subset, FS_CardinalityType DEF Sound, Counted, PoolRecords
<1>3. Cardinality(used) = Cardinality(p.used) - 1
    BY <1>2, FS_RemoveElement
<1>4. Cardinality(marked) >= Cardinality(p.urgent) - 1
  <2>1. Cardinality(marked) = IF item \in p.urgent THEN Cardinality(p.urgent) - 1
                              ELSE Cardinality(p.urgent)
    BY <1>2, FS_RemoveElement
  <2> HIDE DEF marked
  <2> QED
    BY <1>2, <2>1
<1>5. q = ItemMoved(p, used, p.free + 1, item, item[2], marked)
    BY <1>2 DEF GiveBack, ItemMoved, PoolRecords
<1>6. used \in SUBSET Slots(p.areas) /\ marked \in SUBSET used
    BY DEF Sound, Counted
<1> DEFINE free == p.free + 1
<1>7. free = p.total - Cardinality(used) /\ free \in Int
    BY <1>2, <1>3 DEF Sound, Counted
<1> HIDE DEF q, used, marked
<1>8. Sound(q) /\ q.free = p.free + 1 /\ q.urgent = marked
    BY <1>1, <1>5, <1>6, <1>7, ItemIsSound
<1> QED
    BY <1>4, <1>8 DEF q

-----------------------------------------------------------------------------
LEMMA InitIInv == PoolInit => IInv
<1> DEFINE empty == [areas |-> <<>>, used |-> {}, maybe |-> <<>>, last |-> 0,
                     free |-> 0, total |-> 0, urgent |-> {}]
<1> SUFFICES ASSUME pool = AddArea(empty) PROVE IInv
    BY DEF PoolInit
<1>1. Counted(empty)
  <2>1. empty \in PoolRecords
    BY EmptySeq DEF PoolRecords
  <2>2. Slots(empty.areas) = {}
    BY DEF Slots
  <2>3. IsFiniteSet({}) /\ Cardinality({}) = 0
    BY FS_EmptySet
  <2>4. empty.used = {} /\ empty.free = 0 /\ empty.total = 0 /\ empty.urgent = {}
    OBVIOUS
  <2>5. Len(empty.maybe) = Len(empty.areas)
    OBVIOUS
  <2> HIDE DEF empty
  <2> QED
    BY <2>1, <2>2, <2>3, <2>4, <2>5 DEF Counted
<1>2. Sound(pool) /\ pool.urgent = {}
    BY <1>1, AreaIsSound
<1>3. pool.free = FirstPoolSize
    BY PoolAssumption, EmptySeq DEF AddArea
<1> QED
    BY <1>2, <1>3, FS_EmptySet, PoolAssumption DEF IInv, KeepsMargin

LEMMA MallocIInv == IInv /\ PoolMalloc => IInv'
<1> SUFFICES ASSUME IInv, NEW urgent \in BOOLEAN, NEW p,
                    \/ ~NeedsArea(urgent) /\ p = pool
                    \/ NeedsArea(urgent) /\ p = AddArea(pool),
                    p.free > 0, pool' = GiveOut(p, Take(p), urgent)
             PROVE  IInv'
    BY DEF PoolMalloc
<1>1. /\ Sound(p) /\ p.urgent = pool.urgent
      /\ IF NeedsArea(urgent) THEN p.free > pool.free ELSE p.free = pool.free
    BY AreaIsSound DEF IInv, Sound
<1>2. /\ pool.free \in Int /\ p.free \in Int /\ Cardinality(pool.urgent) \in Nat
      /\ Margin \in Nat
    BY <1>1, CountsAreNumbers, PoolAssumption DEF IInv
<1>3. /\ Sound(pool') /\ pool'.free = p.free - 1
      /\ urgent => Cardinality(pool'.urgent) = Cardinality(pool.urgent) + 1
      /\ ~urgent => Cardinality(pool'.urgent) = Cardinality(pool.urgent)
    BY <1>1, GivenOut
<1>4. pool'.free + Cardinality(pool'.urgent) >= Margin - 1
  <2>1. CASE urgent
    <3>1. ~NeedsArea(urgent)
      BY <2>1 DEF NeedsArea
    <3>2. p.free = pool.free
      BY <1>1, <3>1
    <3>3. Cardinality(pool'.urgent) = Cardinality(pool.urgent) + 1
      BY <1>3, <2>1
    <3>4. pool.free + Cardinality(pool.urgent) >= Margin - 1
      BY DEF IInv, KeepsMargin
    <3> QED
      BY <1>2, <1>3, <3>2, <3>3, <3>4
  <2>2. CASE ~urgent /\ NeedsArea(urgent)
    BY <1>1, <1>2, <1>3, <2>2 DEF IInv, KeepsMargin
  <2>3. CASE ~urgent /\ ~NeedsArea(urgent)
    BY <1>1, <1>2, <1>3, <2>3 DEF NeedsArea
  <2> QED
    BY <2>1, <2>2, <2>3
<1> QED
    BY <1>3, <1>4 DEF IInv, KeepsMargin

LEMMA FreeIInv == IInv /\ PoolFree => IInv'
<1> SUFFICES ASSUME IInv, NEW item \in pool.used, pool' = GiveBack(pool, item)
             PROVE  IInv'
    BY DEF PoolFree
<1>1. /\ Sound(pool') /\ pool'.free = pool.free + 1
      /\ Cardinality(pool'.urgent) >= Cardinality(pool.urgent) - 1
    BY GivenBack DEF IInv
<1>2. /\ pool.free \in Int /\ Cardinality(pool.urgent) \in Nat /\ Margin \in Nat
      /\ Cardinality(pool'.urgent) \in Nat
    BY <1>1, CountsAreNumbers, PoolAssumption DEF IInv
<1> QED
    BY <1>1, <1>2 DEF IInv, KeepsMargin

LEMMA Invariance == PoolSpec => []IInv
<1>1. IInv /\ [PoolNext]_pool => IInv'
  <2>1. ASSUME IInv, UNCHANGED pool PROVE IInv'
    BY <2>1 DEF IInv, Sound, Counted, KeepsMargin
  <2> QED
    BY <2>1, MallocIInv, FreeIInv DEF PoolNext
<1> QED
    BY <1>1, InitIInv, PTL DEF PoolSpec

-----------------------------------------------------------------------------
\* The count of free items is what the slots say, and whoever counts on a free item
\* gets one, for any sizes of areas and any number of them (poolalloc.c:151-205).
THEOREM FreeItemsFound == PoolSpec => []FreeItemsAreThere
<1>1. IInv => FreeItemsAreThere
  <2> SUFFICES ASSUME IInv PROVE FreeItemsAreThere
    OBVIOUS
  <2> QED
    BY TakeIsFree DEF IInv, Sound, Counted, FreeItemsAreThere
<1> QED
    BY <1>1, Invariance, PTL

\* Ordinary allocations always leave the margin to urgent ones, for any margin the
\* first area has room for (poolalloc.c:145-149).
THEOREM MarginAlwaysKept == PoolSpec => []MarginIsKept
<1>1. IInv => MarginIsKept
    BY DEF IInv, KeepsMargin, MarginIsKept
<1> QED
    BY <1>1, Invariance, PTL
=============================================================================
