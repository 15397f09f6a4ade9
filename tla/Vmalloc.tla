------------------------------ MODULE Vmalloc ------------------------------
(***************************************************************************)
(* kernel/mm/vmalloc.cpp: the table of free ranges above the direct map,   *)
(* and map_device() and unmap_device() on top of it.  Every operation on   *)
(* the table runs under range_lock and is one action.                      *)
(*                                                                         *)
(* A page is 2 units, so that lengths and device addresses may end in the  *)
(* middle of one.                                                          *)
(***************************************************************************)
EXTENDS Integers, Sequences, FiniteSets

CONSTANTS Pages,      \* pages in the area
          MaxRanges,  \* max_ranges
          Lengths,    \* lengths asked for, in units
          Offsets     \* where in its page a device's registers begin: 0, or 1

PageUnits == 2
Base == 100

ASSUME AreaAssumption == Pages \in Nat \ {0} /\ MaxRanges \in Nat \ {0}
ASSUME RequestAssumption == Lengths \subseteq Nat \ {0} /\ Offsets \subseteq {0, 1}

VARIABLES free_ranges,  \* the table: its first range_count entries
          ranges,         \* reservations of the callers: [kind, address, length, taken]
          leaked        \* pages that release() found no room for

range_vars == <<free_ranges, ranges, leaked>>

RangesInit ==
    /\ free_ranges = <<[start |-> Base, length |-> Pages * PageUnits]>>
    /\ ranges = {} /\ leaked = {}

\* (length + page_size - 1) & ~(page_size - 1)
round_up(length) == ((length + PageUnits - 1) \div PageUnits) * PageUnits

\* A reservation and its guard page
WithGuard(length) == round_up(length) + PageUnits

\* The last entry is dropped whichever range was used up.
WithoutRangeLast(table, i) == SubSeq(table, 1, Len(table) - 1)

\* free_ranges[i] = free_ranges[--range_count]
WithoutRange(table, i) ==
    SubSeq([table EXCEPT ![i] = table[Len(table)]], 1, Len(table) - 1)

\* vmalloc_reserve() takes the front of the first range that is long enough
LongEnough(table, wanted) == {i \in 1..Len(table) : table[i].length >= wanted}
FirstRange(table, wanted) ==
    CHOOSE i \in LongEnough(table, wanted) : \A j \in LongEnough(table, wanted) : i <= j
Reserve(table, wanted) ==
    LET i == FirstRange(table, wanted)
        cut == [start |-> table[i].start + wanted, length |-> table[i].length - wanted]
    IN IF cut.length = 0 THEN WithoutRange(table, i) ELSE [table EXCEPT ![i] = cut]

\* A range that follows gets the new start and keeps its length.
JoinedShort(range, address, released) ==
    IF range.start = address + released THEN [range EXCEPT !.start = address]
    ELSE [range EXCEPT !.length = @ + released]

\* The released range goes in front of this one or behind it
Joined(range, address, released) ==
    IF range.start = address + released
    THEN [start |-> address, length |-> range.length + released]
    ELSE [range EXCEPT !.length = @ + released]

\* range_count < max_ranges
HasRoom(table) == Len(table) < MaxRanges

\* vmalloc_release() joins the first range that touches and no second one; without
\* one the range gets an entry, or is lost when the table is full
Release(table, address, released) ==
    LET touching == {i \in 1..Len(table) :
                        \/ table[i].start = address + released
                        \/ table[i].start + table[i].length = address}
        first == CHOOSE i \in touching : \A j \in touching : i <= j
    IN IF touching # {} THEN [table EXCEPT ![first] = Joined(table[first], address, released)]
       ELSE IF HasRoom(table) THEN Append(table, [start |-> address, length |-> released])
       ELSE table

\* The pages of an interval
PagesOf(start, length) == {start + PageUnits * k : k \in 0..((length \div PageUnits) - 1)}

----------------------------------------------------------------------------
\* A reservation of span units, for a caller that will name its length
TakeRange(kind, span, length) ==
    /\ LongEnough(free_ranges, WithGuard(span)) # {}
    /\ free_ranges' = Reserve(free_ranges, WithGuard(span))
    /\ ranges' = ranges \cup
              {[kind |-> kind, length |-> length, taken |-> round_up(span) + PageUnits,
                address |-> free_ranges[FirstRange(free_ranges, WithGuard(span))].start]}
    /\ UNCHANGED leaked

GiveBack(r) ==
    LET released == WithGuard(r.length)
        after == Release(free_ranges, r.address, released)
    IN /\ ranges' = ranges \ {r}
       /\ free_ranges' = after
       /\ leaked' = IF after = free_ranges THEN leaked \cup PagesOf(r.address, released) ELSE leaked

\* For the heap, or a module image
vmalloc_reserve(length) == TakeRange("range", length, length)

vmalloc_release(r) == r.kind = "range" /\ GiveBack(r)

\* The window holds the registers from their page on
map_device(offset, length) == TakeRange("window", round_up(length + offset), length)

\* map_device(), when there is no frame for a page table: what was reserved is
\* released again
MapFails(offset, length) ==
    LET wanted == WithGuard(round_up(length + offset))
        window == free_ranges[FirstRange(free_ranges, wanted)].start
    IN /\ LongEnough(free_ranges, wanted) # {}
       /\ free_ranges' = Release(Reserve(free_ranges, wanted), window, wanted)
       /\ UNCHANGED <<ranges, leaked>>

\* unmap_device() is told the length and not where in its page the window began
unmap_device(r) == r.kind = "window" /\ GiveBack(r)

RangesNext ==
    \/ \E length \in Lengths : vmalloc_reserve(length)
    \/ \E offset \in Offsets, length \in Lengths :
        map_device(offset, length) \/ MapFails(offset, length)
    \/ \E r \in ranges : vmalloc_release(r) \/ unmap_device(r)

RangesSpec == RangesInit /\ [][RangesNext]_range_vars

----------------------------------------------------------------------------
Area == PagesOf(Base, Pages * PageUnits)
RangePages(i) == PagesOf(free_ranges[i].start, free_ranges[i].length)
HeldPages(r) == PagesOf(r.address, r.taken)

\* The table stays within its size and its ranges within the area.
RangesTypeOK ==
    /\ Len(free_ranges) \in 0..MaxRanges
    /\ \A i \in 1..Len(free_ranges) :
        free_ranges[i].length > 0 /\ RangePages(i) \subseteq Area
    /\ \A r \in ranges : HeldPages(r) \subseteq Area

\* A page is in one free range or in one reservation, never in two: no window is
\* handed out over another one or over the guard page behind it.
NoPageTwice ==
    /\ \A i, j \in 1..Len(free_ranges) : i # j => RangePages(i) \cap RangePages(j) = {}
    /\ \A r, s \in ranges : r # s => HeldPages(r) \cap HeldPages(s) = {}
    /\ \A i \in 1..Len(free_ranges), r \in ranges : RangePages(i) \cap HeldPages(r) = {}

\* No page is lost but by the release that found the table full and said so.
NoPageLost ==
    Area = (UNION {RangePages(i) : i \in 1..Len(free_ranges)})
           \cup (UNION {HeldPages(r) : r \in ranges}) \cup leaked

\* Every page of the area is in one free range, in one range handed out, or given up
\* when the table was full, and in no two of them.
RangesAccounted == RangesTypeOK /\ NoPageTwice /\ NoPageLost

=============================================================================
