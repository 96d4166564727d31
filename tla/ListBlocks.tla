----------------------------- MODULE ListBlocks -----------------------------
(***************************************************************************)
(* List values (vmlist.c, vmlist.h) and the loops over them (NEWITERATOR   *)
(* and ITERATE in vmexec.c).  The entries are in a chain of blocks; the    *)
(* first one starts small and is moved as it grows, and the block accessed *)
(* last is remembered with the number of entries before it.  A loop is     *)
(* told apart from a change of the list by a revision number.              *)
(*                                                                         *)
(* Remove and Insert have no callers and are left out.                     *)
(***************************************************************************)
EXTENDS Integers, Sequences

CONSTANTS Values,     \* what the entries may be
          MinSize,    \* entries the first block has room for at first (16)
          BlockSize,  \* entries a block has room for (4096)
          MaxEntries  \* bound: entries of the list

ASSUME ListAssumption ==
    MinSize \in Nat \ {0} /\ BlockSize \in Nat /\ MinSize <= BlockSize

VARIABLES list, starved
\* blocks  the entries, block by block        room  first_block_shrunk_size
\* moves   how often the first block moved    total list_total_entry_count
\* rev     contentrevisionid                  iter  the loop over the list
\* cache   last_accessed_block (0 for none), its offset, and the moves when it was set
\* added   all entries as they were added and set: what the list should hold
\* lost    an entry was read from memory that was given back
\* starved there was no memory for a larger first block: its last entry was written
\*         behind it, and what the program does from there on is undefined

listVars == <<list, starved>>

NoCache == [block |-> 0, offset |-> 0, moves |-> 0]
NoIter  == [on |-> FALSE, idx |-> 0, len |-> 0, rev |-> 0, failed |-> FALSE]

ListInit ==
    /\ starved = FALSE
    /\ list = [blocks |-> <<<<>>>>, room |-> MinSize, moves |-> 0, total |-> 0, rev |-> 0,
               cache |-> NoCache, iter |-> NoIter, added |-> <<>>, lost |-> FALSE]

Lesser(a, b)  == IF a < b THEN a ELSE b
Greater(a, b) == IF a > b THEN a ELSE b

\* _grow_shrunk_first_block. The number of blocks the code asks for here stays 1.
MustGrowWhenOver(l) == l.room < BlockSize /\ l.total > l.room
MustGrow(l) == l.room < BlockSize /\ l.total + 1 > l.room
Grow(l) ==
    IF ~MustGrow(l) THEN l
    ELSE [l EXCEPT !.room = Lesser(BlockSize, Greater(2 * l.room, Len(l.blocks[1]) + 1)),
                   !.moves = @ + 1]

AddedWithoutRevision(l, v) ==
    LET n == Len(l.blocks)
    IN  [l EXCEPT !.blocks = IF Len(l.blocks[n]) >= BlockSize
                             THEN Append(@, <<v>>) ELSE [@ EXCEPT ![n] = Append(l.blocks[n], v)],
                  !.total = @ + 1, !.added = Append(@, v)]
Added(l, v) ==
    LET n == Len(l.blocks)
    IN  [l EXCEPT !.blocks = IF Len(l.blocks[n]) >= BlockSize
                             THEN Append(@, <<v>>) ELSE [@ EXCEPT ![n] = Append(l.blocks[n], v)],
                  !.total = @ + 1, !.rev = @ + 1, !.added = Append(@, v)]

\* vmlist_GetEntryBlock: the block of an entry and the entries before it. The cache
\* serves for its block and the one after it.
Dangling(l) == l.cache.block = 1 /\ l.cache.moves # l.moves
Before(blocks, b) ==
    LET upto[k \in 0..Len(blocks)] == IF k = 0 THEN 0 ELSE upto[k - 1] + Len(blocks[k])
    IN  upto[b - 1]
Holds(l, b, offset, i) == offset < i /\ offset + Len(l.blocks[b]) >= i

Scan(l, i) ==
    LET b == CHOOSE n \in DOMAIN l.blocks : Holds(l, n, Before(l.blocks, n), i)
    IN  [block |-> b, offset |-> Before(l.blocks, b), moves |-> l.moves]
NextOfCacheAtOffset(l) == [l.cache EXCEPT !.block = @ + 1, !.moves = l.moves]
NextOfCache(l) ==
    [l.cache EXCEPT !.block = @ + 1, !.offset = @ + Len(l.blocks[l.cache.block]),
                    !.moves = l.moves]
EntryBlock(l, i) ==
    LET c == l.cache
    IN  CASE c.block # 0 /\ Holds(l, c.block, c.offset, i) -> c
          [] c.block \in 1..(Len(l.blocks) - 1)
             /\ c.offset < i /\ ~Holds(l, c.block, c.offset, i)
             /\ Holds(l, c.block + 1, c.offset + Len(l.blocks[c.block]), i) ->
               NextOfCache(l)
          [] OTHER -> Scan(l, i)

\* Reading the remembered block when the list has moved it.
Touch(l, i) ==
    IF Dangling(l) /\ l.cache.offset < i THEN [l EXCEPT !.lost = TRUE]
                                         ELSE [l EXCEPT !.cache = EntryBlock(l, i)]

ListAdd(v) ==
    /\ list.total < MaxEntries
    /\ list' = Added(Grow(list), v)

\* malloc fails in _grow_shrunk_first_block: it returns 0, and vmlist_Add, which knows a
\* failure by a negative number, adds the entry all the same.
AddStarved(v) ==
    /\ list.total < MaxEntries
    /\ MustGrow(list)
    /\ list' = Added(list, v)
    /\ starved' = TRUE

\* It fails for a block behind a full one: vmlist_Add returns 0 and leaves the list alone.
AddRefused ==
    /\ list.total < MaxEntries
    /\ Len(list.blocks[Len(list.blocks)]) >= BlockSize
    /\ UNCHANGED list

ListGet(i) ==
    /\ i \in 1..list.total
    /\ list' = Touch(list, i)

\* vmlist_Set: the entry after the last one is added.
Replaced(l, i, v) ==
    LET e == EntryBlock(l, i)
    IN  [l EXCEPT !.blocks[e.block][i - e.offset] = v, !.cache = e, !.added[i] = v]
ListSet(i, v) ==
    /\ i \in 1..list.total
    /\ list' = IF Dangling(list) /\ list.cache.offset < i
               THEN [list EXCEPT !.lost = TRUE] ELSE Replaced(list, i, v)

NewIterator ==
    list' = [list EXCEPT !.iter = [on |-> TRUE, idx |-> 0, len |-> list.total,
                                   rev |-> list.rev, failed |-> FALSE]]

\* ITERATE: an error when the revision differs, the end, or the next entry.
Iterate ==
    /\ list.iter.on
    /\ LET next == [list EXCEPT !.iter.idx = @ + 1]
       IN  list' = CASE list.rev # list.iter.rev ->
                          [list EXCEPT !.iter.on = FALSE, !.iter.failed = TRUE]
                     [] list.rev = list.iter.rev /\ list.iter.idx + 1 > list.iter.len ->
                          [next EXCEPT !.iter.on = FALSE]
                     [] OTHER -> Touch(next, list.iter.idx + 1)

ListStep ==
    \/ \E v \in Values : ListAdd(v)
    \/ AddRefused
    \/ \E i \in 1..MaxEntries : ListGet(i)
    \/ \E i \in 1..MaxEntries, v \in Values : ListSet(i, v)
    \/ NewIterator
    \/ Iterate

ListNext ==
    /\ ~list.lost /\ ~starved
    /\ \/ ListStep /\ UNCHANGED starved
       \/ \E v \in Values : AddStarved(v)

ListSpec == ListInit /\ [][ListNext]_listVars

------------------------------------------------------------------------------
ListTypeOK ==
    /\ list.total = Len(list.added) /\ list.room \in MinSize..BlockSize
    /\ \A b \in DOMAIN list.blocks : list.blocks[b] \in Seq(Values)
    /\ list.cache.block \in 0..Len(list.blocks) /\ starved \in BOOLEAN

\* Whatever was read before, every entry is found where it was put, unless the
\* block that is remembered has been moved (vmlist.h:26-75), or the first block could not
\* be made larger.
EntriesAreFound ==
    ~starved /\ ~Dangling(list) =>
        \A i \in 1..list.total :
            LET e == EntryBlock(list, i)
            IN  /\ i - e.offset \in DOMAIN list.blocks[e.block]
                /\ list.blocks[e.block][i - e.offset] = list.added[i]

\* As long as the first block gets the memory it asks for, it is never written past the
\* room it has, and only the last block has room left: the assertions of vmlist_Add
\* (vmlist.c:132-147). Without that memory the code breaks them (vmlist.c:92, 124).
BlocksHoldTheirEntries ==
    ~starved =>
      /\ Len(list.blocks[1]) <= list.room
      /\ \A b \in 1..(Len(list.blocks) - 1) : Len(list.blocks[b]) = BlockSize
      /\ Len(list.blocks) > 1 => list.room = BlockSize

\* A loop that goes on has the length the list has: it ends after the last entry
\* (vmexec.c:3239-3348).
LoopsEndWithTheList ==
    list.iter.on /\ list.rev = list.iter.rev => list.iter.len = list.total
==============================================================================
