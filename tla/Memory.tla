------------------------------- MODULE Memory -------------------------------
(***************************************************************************)
(* Who may use which memory, and how it is reached: the page allocator,    *)
(* the heap, the virtual ranges, the page tables and the copies of their   *)
(* entries that the CPUs cache.  The first part of Paging has every entry  *)
(* and one CPU that changes them, the second one entry and every CPU that  *)
(* caches it.  The five share no variable (the frames of the heap are a    *)
(* count), so a part does among the others what it does while they rest,   *)
(* and a behaviour moves one part, busy.                                   *)
(***************************************************************************)
EXTENDS PageAlloc, Heap, Vmalloc, Paging

VARIABLE busy

MemoryInit ==
    /\ busy \in {"pages", "heap", "ranges", "tables", "tlb"}
    /\ Init /\ HeapInit /\ RangesInit /\ PagingInit /\ TlbInit

MemoryNext ==
    /\ UNCHANGED busy
    /\ \/ busy = "pages" /\ Next /\ UNCHANGED <<heap_vars, range_vars, paging_vars, tlb_vars>>
       \/ busy = "heap" /\ HeapNext /\ UNCHANGED <<vars, range_vars, paging_vars, tlb_vars>>
       \/ busy = "ranges" /\ RangesNext /\ UNCHANGED <<vars, heap_vars, paging_vars, tlb_vars>>
       \/ busy = "tables" /\ PagingNext /\ UNCHANGED <<vars, heap_vars, range_vars, tlb_vars>>
       \/ busy = "tlb" /\ TlbNext /\ UNCHANGED <<vars, heap_vars, range_vars, paging_vars>>

\* The fairness of the shootdown; the other calls promise nothing but safety
MemorySpec ==
    /\ MemoryInit /\ [][MemoryNext]_<<vars, heap_vars, range_vars, paging_vars, tlb_vars, busy>>
    /\ \A c \in CPUs : /\ WF_tlb_vars(busy = "tlb" /\ Clear(c))
                       /\ WF_tlb_vars(busy = "tlb" /\ Broadcast(c))
                       /\ WF_tlb_vars(busy = "tlb" /\ Shootdown(c))

----------------------------------------------------------------------------
\* A memory map with a hole and ends that are not page aligned
MCAvailable == {<<0, 21>>, <<23, 30>>, <<31, 60>>}
MCBoot == {<<0, 4>>, <<4, 7>>, <<38, 39>>}

\* The calls of the tree on the page tables
MCTables == 103..106
R(op, space, address, frame, length, flags) ==
    [op |-> op, space |-> space, address |-> address, frame |-> frame,
     length |-> length, flags |-> flags]
MCRequests ==
    { R("map", KernelRoot, 2, 10, 2, {"write"}),       \* the heap, an image
      R("map", KernelRoot, 1, 1, 2, {}),               \* over a table's end, out of the huge page
      R("unmap", KernelRoot, 0, 0, 1, {}),             \* a stack guard
      R("unmap", KernelRoot, 2, 0, 2, {}),             \* an image
      R("protect", KernelRoot, 1, 0, 2, {}),           \* the trampoline, a section
      R("map", ProcessRoot, 5, 14, 2, {"user", "write"}),
      R("protect", ProcessRoot, 5, 0, 1, {"user"}) }
=============================================================================
