------------------------------ MODULE ItemSort ------------------------------
(***************************************************************************)
(* itemsort_Do (itemsort.c): quick sort with a queue of ranges instead of  *)
(* recursion, and a pivot drawn at random.  Items above the pivot's place  *)
(* that belong below it are pulled past it one by one, so that the pivot   *)
(* wanders upwards.  Ranges are [start, end) with indices from 1; ranges   *)
(* that have been worked off are dropped from the queue.                   *)
(***************************************************************************)
EXTENDS Integers, Sequences

CONSTANTS Inputs,           \* the sequences to sort
          Comparable(_, _), \* whether two items can be compared
          Below(_, _)       \* Below(a, b): item a sorts before item b

Items == UNION {{s[i] : i \in DOMAIN s} : s \in Inputs}

\* Below orders the items, where several may have the same place.
ASSUME SortAssumption ==
    /\ Inputs \subseteq Seq(Items)
    /\ \A a, b \in Items : Below(a, b) => ~Below(b, a)
    /\ \A a, b, c \in Items : Below(a, c) => Below(a, b) \/ Below(b, c)

VARIABLE sort   \* [input, data, jobs, z, pivot, phase]

\* The range at the head of the queue.
First == sort.jobs[1].start
End   == sort.jobs[1].end

Range2(a, b) == IF b > a THEN <<[start |-> a, end |-> b]>> ELSE <<>>
Swap(d, i, j) == [d EXCEPT ![i] = d[j], ![j] = d[i]]

SortOf(s) ==
    [input |-> s, data |-> s, z |-> 0, pivot |-> 0, phase |-> "queue",
     jobs |-> IF Len(s) > 1 THEN Range2(1, Len(s) + 1) ELSE <<>>]
SortInit == \E s \in Inputs : sort = SortOf(s)

\* Both items must be comparable, or the sort stops where it is.
Give(i, j) == ~Comparable(sort.data[i], sort.data[j])
Stop == sort' = [sort EXCEPT !.phase = "unsortable"]

NextJob ==
    /\ sort.phase = "queue" /\ sort.jobs # <<>>
    /\ CASE End - First <= 1 -> sort' = [sort EXCEPT !.jobs = Tail(@)]
         [] End - First = 2 ->
              IF Give(First, First + 1) THEN Stop
              ELSE sort' = [sort EXCEPT
                              !.jobs = Tail(@),
                              !.data = IF Below(@[First + 1], @[First])
                                       THEN Swap(@, First, First + 1) ELSE @]
         [] OTHER ->
              \E p \in First..(End - 1) :
                  sort' = [sort EXCEPT !.phase = "pass", !.z = First, !.pivot = p]

\* One comparison of the pass over the range.
SwapWithPivot(z) ==
    [sort EXCEPT !.data = Swap(@, z, sort.pivot), !.pivot = z, !.z = z + 1]
PullOverNext(z) ==
    LET p == sort.pivot
    IN  [sort EXCEPT !.data[p] = sort.data[z], !.data[p + 1] = sort.data[p],
                     !.pivot = p + 1, !.z = z + 1]
PullUnderPivot(z) ==
    LET p == sort.pivot
    IN  [sort EXCEPT !.data = Swap(Swap(@, p, p + 1), p, z),
                     !.pivot = p + 1, !.z = z + 1]

Compare ==
    /\ sort.phase = "pass" /\ sort.z < End
    /\ LET z == sort.z  p == sort.pivot
           wrong == \/ z < p /\ Below(sort.data[p], sort.data[z])
                    \/ z > p /\ Below(sort.data[z], sort.data[p])
       IN  IF z # p /\ Give(z, p) THEN Stop
           ELSE sort' = CASE z = p \/ ~wrong -> [sort EXCEPT !.z = z + 1]
                          [] wrong /\ z <= p + 1 -> SwapWithPivot(z)
                          [] OTHER -> PullUnderPivot(z)

SplitShortOfPivot == Range2(First, sort.pivot - 1) \o Range2(sort.pivot, End)
Split == Range2(First, sort.pivot) \o Range2(sort.pivot, End)

EndOfPass ==
    /\ sort.phase = "pass" /\ sort.z = End
    /\ sort' = [sort EXCEPT !.phase = "queue", !.z = 0, !.pivot = 0,
                            !.jobs = Tail(@) \o Split]

SortEnd ==
    /\ sort.phase = "queue" /\ sort.jobs = <<>>
    /\ sort' = [sort EXCEPT !.phase = "sorted"]

SortNext == NextJob \/ Compare \/ EndOfPass \/ SortEnd
SortSpec == SortInit /\ [][SortNext]_sort

------------------------------------------------------------------------------
SortTypeOK ==
    /\ sort.phase \in {"queue", "pass", "sorted", "unsortable"}
    /\ sort.data \in Seq({sort.input[i] : i \in DOMAIN sort.input})
    /\ \A i \in DOMAIN sort.jobs :
          sort.jobs[i].start \in DOMAIN sort.data
          /\ sort.jobs[i].end \in 2..(Len(sort.data) + 1)
    /\ sort.phase = "pass" => sort.pivot \in First..(End - 1) /\ sort.z \in First..End

\* Two places that are out of order are in one range that is still to be sorted:
\* what the queue no longer holds together never needs a comparison again
\* (itemsort.c:149-213).
Together(i, j) ==
    \E n \in DOMAIN sort.jobs :
        {i, j} \subseteq sort.jobs[n].start..(sort.jobs[n].end - 1)
DisorderIsQueued ==
    sort.phase # "unsortable" =>
        \A i, j \in DOMAIN sort.data :
            i < j /\ Below(sort.data[j], sort.data[i]) => Together(i, j)

\* No item is lost or doubled while items are pulled past the pivot, also when the
\* sort stops half-way at items that cannot be compared (itemsort.c:174-206).
Occurrences(s, v) == {i \in DOMAIN s : s[i] = v}
NoItemLost ==
    /\ Len(sort.data) = Len(sort.input)
    /\ \A i \in DOMAIN sort.input :
          \E f \in [Occurrences(sort.input, sort.input[i])
                       -> Occurrences(sort.data, sort.input[i])] :
              \A a, b \in DOMAIN f : a # b => f[a] # f[b]
==============================================================================
