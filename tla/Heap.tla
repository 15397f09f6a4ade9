-------------------------------- MODULE Heap --------------------------------
(***************************************************************************)
(* kernel/mm/heap.cpp: a list of blocks, each with a header in front of    *)
(* it, in an area that is committed step by step.  kmalloc() and kfree()   *)
(* run under heap_lock, so each is one action.                             *)
(*                                                                         *)
(* Addresses and sizes count units of 16 bytes, the alignment: a header    *)
(* takes 2.  The header of a block that was merged away is erased; the     *)
(* code leaves it in memory and never reads it.                            *)
(***************************************************************************)
EXTENDS Integers

CONSTANTS GrowthStep,   \* heap_growth_step
          Reserved,     \* heap_reserved
          page_size,
          Frames,       \* the frames alloc_page() has
          Sizes         \* the sizes kmalloc() is asked for, aligned

Header == 2
Alignment == 1
null == -1

ASSUME StepHoldsABlock ==
    /\ GrowthStep \in Nat /\ page_size \in Nat \ {0} /\ Reserved \in Nat /\ Frames \in Nat
    /\ GrowthStep % page_size = 0 /\ GrowthStep > Header /\ GrowthStep <= Reserved
    /\ Frames * page_size >= GrowthStep
ASSUME SizesArePositive == Sizes \subseteq 1..Reserved

VARIABLES heap,    \* [memory, head, tail, committed, used]
          frames,  \* the frames the page allocator still has
          live     \* what the callers hold: pointer -> the size they asked for

heap_vars == <<heap, frames, live>>

HeapAddresses == 0..(Reserved - 1)
NoBlock == [size |-> 0, free |-> "no", next |-> null, prev |-> null]

\* A header store
Set(h, b, header) == [h EXCEPT !.memory[b] = header]

\* The block after, or the tail when there is none, learns who is before it
SetPrev(h, b, p) ==
    IF b = null THEN [h EXCEPT !.tail = p] ELSE Set(h, b, [h.memory[b] EXCEPT !.prev = p])

\* A rest that has no room for a header is split off too.
SplitsBare(remaining) == remaining > 0

\* remaining >= sizeof(BlockHeader) + alignment
Splits(remaining) == remaining >= Header + Alignment

split(h, b, size) ==
    LET block == h.memory[b]
        remaining == block.size - size
        n == b + Header + size
        rest == [size |-> remaining - Header, free |-> "yes", next |-> block.next, prev |-> b]
    IN IF ~Splits(remaining) THEN h
       ELSE LET linked == SetPrev(Set(h, n, rest), block.next, n)
            IN Set(linked, b, [block EXCEPT !.next = n, !.size = size])

\* block->size += sizeof(BlockHeader) + victim->size
GrownSize(block, victim) == block.size + Header + victim.size

\* Block b takes in the one after it
Absorb(h, b) ==
    LET block == h.memory[b]
        victim == h.memory[block.next]
        grown == Set(h, b, [block EXCEPT !.size = GrownSize(block, victim), !.next = victim.next])
    IN SetPrev(Set(grown, block.next, NoBlock), victim.next, b)

IsFree(h, b) == b # null /\ h.memory[b].free = "yes"

\* The block before a freed one is left as it is.
MergesBackNever(h, b) == FALSE

MergesBack(h, b) == IsFree(h, h.memory[b].prev)

merge(h, b) ==
    LET forward == IF IsFree(h, h.memory[b].next) THEN Absorb(h, b) ELSE h
    IN IF MergesBack(forward, b) THEN Absorb(forward, forward.memory[b].prev) ELSE forward

----------------------------------------------------------------------------
\* The least multiple of the growth step that holds the block and its header
StepFor(wanted) == ((wanted + Header + GrowthStep - 1) \div GrowthStep) * GrowthStep

Fits(h, wanted) == h.committed + StepFor(wanted) <= Reserved

\* grow(), when every page of the step gets a frame
Grown(h, wanted) ==
    LET where == h.committed
        block == [size |-> StepFor(wanted) - Header, free |-> "yes",
                  next |-> null, prev |-> h.tail]
        stored == Set(h, where, block)
        linked == IF h.tail = null THEN stored
                  ELSE Set(stored, h.tail, [h.memory[h.tail] EXCEPT !.next = where])
        added == [linked EXCEPT !.tail = where,
                                !.head = IF h.head = null THEN where ELSE h.head,
                                !.committed = where + StepFor(wanted)]
    IN merge(added, where)

Blocks(h) == {b \in HeapAddresses : h.memory[b] # NoBlock}

\* The first block of the list that is free and large enough; the list is in the
\* order of the addresses (BlocksTile)
Candidates(h, wanted) == {b \in Blocks(h) : h.memory[b].free = "yes" /\ h.memory[b].size >= wanted}
FirstBlock(h, wanted) ==
    CHOOSE b \in Candidates(h, wanted) : \A c \in Candidates(h, wanted) : b <= c

\* used += block->size, after the split
CountedSize(h, b, wanted) == h.memory[b].size

TakeBlock(h, wanted) ==
    LET b == FirstBlock(h, wanted)
        cut == split(h, b, wanted)
        taken == Set(cut, b, [cut.memory[b] EXCEPT !.free = "no"])
    IN [taken EXCEPT !.used = @ + CountedSize(cut, b, wanted)]

----------------------------------------------------------------------------
\* heap_init(), with its first step committed
HeapInit ==
    /\ heap = Grown([memory |-> [a \in HeapAddresses |-> NoBlock], head |-> null, tail |-> null,
                     committed |-> 0, used |-> 0], 1)
    /\ frames = Frames - (GrowthStep \div page_size)
    /\ live = <<>>

Give(p, size) == live' = [q \in DOMAIN live \cup {p} |-> IF q = p THEN size ELSE live[q]]

\* kmalloc(), when a block is there
Allocate(size) ==
    /\ Candidates(heap, size) # {}
    /\ heap' = TakeBlock(heap, size)
    /\ Give(FirstBlock(heap, size) + Header, size)
    /\ UNCHANGED frames

\* kmalloc(), when the heap grows first; the second attempt may still find nothing
GrowAndAllocate(size) ==
    /\ Candidates(heap, size) = {} /\ Fits(heap, size)
    /\ frames * page_size >= StepFor(size)
    /\ frames' = frames - (StepFor(size) \div page_size)
    /\ LET h == Grown(heap, size)
       IN /\ Candidates(h, size) # {}
          /\ heap' = TakeBlock(h, size)
          /\ Give(FirstBlock(h, size) + Header, size)

\* kmalloc(), when alloc_page() runs dry in the middle of grow(): nullptr, and the
\* pages mapped so far stay behind the committed end
GrowFails(size) ==
    /\ Candidates(heap, size) = {} /\ Fits(heap, size)
    /\ frames * page_size < StepFor(size)
    /\ frames' = 0
    /\ UNCHANGED <<heap, live>>

\* used -= block->size
Returned(h, b) == h.used - h.memory[b].size

kfree(p) ==
    /\ LET b == p - Header
           freed == Set(heap, b, [heap.memory[b] EXCEPT !.free = "yes"])
       IN heap' = merge([freed EXCEPT !.used = Returned(heap, b)], b)
    /\ live' = [q \in DOMAIN live \ {p} |-> live[q]]
    /\ UNCHANGED frames

HeapNext ==
    \/ \E size \in Sizes : Allocate(size) \/ GrowAndAllocate(size) \/ GrowFails(size)
    \/ \E p \in DOMAIN live : kfree(p)

HeapSpec == HeapInit /\ [][HeapNext]_heap_vars

----------------------------------------------------------------------------
End(b) == b + Header + heap.memory[b].size

\* The blocks of the list tile the committed area from its first to its last unit:
\* each ends where the next header begins, however they were split and merged.
BlocksTile ==
    /\ heap.head = 0
    /\ \A b \in Blocks(heap) :
        IF heap.memory[b].next = null THEN b = heap.tail /\ End(b) = heap.committed
        ELSE heap.memory[b].next = End(b) /\ heap.memory[b].size >= Alignment

\* The list reads the same from its tail: prev undoes next.
ListIsDouble ==
    /\ heap.memory[heap.head].prev = null
    /\ \A b \in Blocks(heap) :
        heap.memory[b].next # null => heap.memory[heap.memory[b].next].prev = b

\* No two free blocks lie side by side, so that a request fails only when no run of
\* free memory is long enough (merge).
FreeBlocksMerged ==
    \A b \in Blocks(heap) : ~(IsFree(heap, b) /\ IsFree(heap, heap.memory[b].next))

\* What a caller holds is a block of the list that is taken and large enough, and
\* every taken block is held by a caller: none is handed out twice or lost.
AllocationsIntact ==
    /\ {p - Header : p \in DOMAIN live} = {b \in Blocks(heap) : ~IsFree(heap, b)}
    /\ \A p \in DOMAIN live : heap.memory[p - Header].size >= live[p]

\* The memory in the taken blocks below an address: a free block, and an address
\* without a block, add nothing
TakenBelow[n \in 0..Reserved] ==
    IF n = 0 THEN 0
    ELSE TakenBelow[n - 1] + IF heap.memory[n - 1].free = "no" THEN heap.memory[n - 1].size ELSE 0

\* heap_used() is the memory in the taken blocks.
UsedExact == heap.used = TakenBelow[Reserved]

\* The list of blocks after any order of kmalloc(), kfree() and growth that may fail:
\* it tiles the committed area, is linked both ways, has no two free neighbours,
\* leaves every allocation as it was handed out and counts them exactly.
HeapIsSound ==
    BlocksTile /\ ListIsDouble /\ FreeBlocksMerged /\ AllocationsIntact /\ UsedExact

\* The heap has the frames of its committed area and no others.
OnlyCommittedFrames == (Frames - frames) * page_size = heap.committed

=============================================================================
