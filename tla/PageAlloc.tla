----------------------------- MODULE PageAlloc -----------------------------
(***************************************************************************)
(* kernel/mm/page_alloc.cpp: the bitmap of physical pages, how it is built *)
(* from the memory map of the boot loader, and first-fit allocation under  *)
(* allocator_lock.  Callers free what they were given, once.               *)
(***************************************************************************)
EXTENDS Integers, FiniteSets

CONSTANTS managed_pages,
          PageSize,  \* page_size, in bytes
          Available, \* available memory map entries, byte ranges <<start, end>>
          Boot,      \* ranges of the kernel, the low megabyte and boot data
          MaxCount   \* bound: pages asked for at once

ASSUME PageAllocAssumption ==
    /\ managed_pages \in Nat /\ PageSize \in Nat \ {0} /\ MaxCount \in Nat
    /\ Available \subseteq Nat \X Nat /\ Boot \subseteq Nat \X Nat
    /\ \E r \in Boot : r[1] = 0 /\ r[2] > 0     \* the low megabyte

VARIABLES used,       \* pages whose bit is set in the bitmap
          used_pages,
          held,       \* history: allocations not freed yet, as <<first, count>>
          want,       \* count of the alloc_pages() that has the lock, or 0
          i, run      \* its locals

vars == <<used, used_pages, held, want, i, run>>

Page == 0..managed_pages - 1
Run(first, count) == first..first + count - 1

\* mark_range_used() that rounds the end of the range down.
TouchedShort(r) == (r[1] \div PageSize .. r[2] \div PageSize - 1) \cap Page

\* The pages of mark_range_used(): every page the range touches
Touched(r) == (r[1] \div PageSize .. (r[2] + PageSize - 1) \div PageSize - 1) \cap Page

\* The pages of mark_range_free(): every page that lies in the range
Covered(r) == ((r[1] + PageSize - 1) \div PageSize .. r[2] \div PageSize - 1) \cap Page

\* page_alloc_init() and reserve_boot_data()
BootUsed ==
    (Page \ UNION {Covered(r) : r \in Available}) \cup UNION {Touched(r) : r \in Boot}

Init ==
    /\ used = BootUsed /\ used_pages = Cardinality(BootUsed)
    /\ held = {} /\ want = 0 /\ i = 0 /\ run = 0

----------------------------------------------------------------------------
(* alloc_pages(), one step per page it looks at                             *)

AllocPages(n) ==
    /\ want = 0
    /\ want' = n /\ i' = 0 /\ run' = 0
    /\ UNCHANGED <<used, used_pages, held>>

\* A run goes on over a page in use.
RestartedNot == run

\* run = 0 at a page in use
Restarted == 0

ScanUsed ==
    /\ want # 0 /\ i \in used
    /\ i' = i + 1 /\ run' = Restarted
    /\ UNCHANGED <<used, used_pages, held, want>>

\* A test that lets a run through that is one page short.
EnoughShort == run + 2 >= want

\* ++run; run >= count
Enough == run + 1 >= want

ScanFree ==
    /\ want # 0 /\ i \in Page \ used /\ ~Enough
    /\ i' = i + 1 /\ run' = run + 1
    /\ UNCHANGED <<used, used_pages, held, want>>

\* ++used_pages in mark_used(), for pages that were all free
Counted == used_pages + want

ScanFound ==
    LET first == i + 1 - want IN
    /\ want # 0 /\ i \in Page \ used /\ Enough
    /\ used' = used \cup Run(first, want)
    /\ used_pages' = Counted
    /\ held' = held \cup {<<first, want>>}
    /\ want' = 0
    /\ UNCHANGED <<i, run>>

ScanFailed ==
    /\ want # 0 /\ i \notin Page
    /\ want' = 0
    /\ UNCHANGED <<used, used_pages, held, i, run>>

Freed(a) == used \ Run(a[1], a[2])

\* free_pages(page, count)
FreePages(a) ==
    /\ want = 0
    /\ used' = Freed(a)
    /\ used_pages' = used_pages - Cardinality(used \cap Run(a[1], a[2]))
    /\ held' = held \ {a}
    /\ UNCHANGED <<want, i, run>>

Next ==
    \/ \E n \in 1..MaxCount : AllocPages(n)
    \/ ScanUsed \/ ScanFree \/ ScanFound \/ ScanFailed
    \/ \E a \in held : FreePages(a)

Spec == Init /\ [][Next]_vars

----------------------------------------------------------------------------
TypeOK ==
    /\ used \subseteq Page /\ used_pages \in Nat
    /\ held \subseteq Page \X (1..MaxCount)
    /\ want \in 0..MaxCount /\ i \in 0..managed_pages /\ run \in Nat

\* Allocations never share a page and never touch a page that was not free at
\* boot; every page marked used belongs to one of them or to the boot image.
PagesAccounted ==
    /\ used = BootUsed \cup UNION {Run(a[1], a[2]) : a \in held}
    /\ \A a \in held :
           /\ Run(a[1], a[2]) \cap BootUsed = {}
           /\ \A b \in held : a # b => Run(a[1], a[2]) \cap Run(b[1], b[2]) = {}

\* free_pages_count() is exact.
UsedCounted == used_pages = Cardinality(used)

\* No page handed out holds a byte of the kernel or of what the boot loader
\* left, and every byte of it is memory the map calls available.  In particular
\* no allocation starts at 0, which means failure.
OnlyAvailableMemory ==
    \A p \in Page \ used :
        \A b \in p * PageSize .. p * PageSize + PageSize - 1 :
            /\ \A r \in Boot : ~(r[1] <= b /\ b < r[2])
            /\ \E r \in Available : r[1] <= b /\ b < r[2]

\* The bitmap accounts for the memory: a page in use has one holder, used_pages is
\* their number, and a free page is memory the firmware gave and the image left.
MemoryAccounted == TypeOK /\ PagesAccounted /\ UsedCounted /\ OnlyAvailableMemory

\* The scan stops at the lowest run of free pages that is long enough, and fails
\* only when there is none.
FirstFit ==
    [][LET Fits(f) == Run(f, want) \subseteq Page \ used IN
       /\ ScanFound => /\ Fits(i + 1 - want)
                       /\ \A f \in Page : Fits(f) => i + 1 - want <= f
       /\ ScanFailed => \A f \in Page : ~Fits(f)]_vars
====
