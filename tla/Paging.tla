------------------------------- MODULE Paging -------------------------------
(***************************************************************************)
(* AddressSpace of kernel/mm/paging.cpp: map(), unmap() and protect() edit *)
(* the page tables one entry at a time under table_lock, while the other   *)
(* CPUs and translate(), which takes no lock, walk the same tables.        *)
(*                                                                         *)
(* A table has 2 entries instead of 512 and the walk has the levels 2, 1   *)
(* and 0 (levels 3 and 2 of the code run the same loop body).  Addresses   *)
(* and frames count pages.  The first top level entry is the kernel's,     *)
(* which a process root shares (proc/process.cpp); the second is the       *)
(* program's own.                                                          *)
(***************************************************************************)
EXTENDS Integers, FiniteSets

CONSTANTS Tables,    \* the frames alloc_page() has left, as positive numbers
          Requests,  \* the calls made: [op, space, address, frame, length, flags]
          MaxCalls,  \* how many of them a behaviour makes
          Looked     \* the addresses translate() is asked for

Addresses == 0..7
KernelRoot == 100
ProcessRoot == 101
Directory == 102                       \* the table behind the shared entry
Spaces == {KernelRoot, ProcessRoot}
none == -1

Absent == [to |-> none, bits |-> {}]
Unmapped == [page |-> none, bits |-> {}]
ASSUME TablesAreFrames == \A t \in Tables : t \in 103..120
ASSUME RequestsAreCalls ==
    \A r \in Requests :
        /\ r.op \in {"map", "unmap", "protect"} /\ r.space \in Spaces
        /\ r.address \in Addresses /\ r.length \in 1..2 /\ r.address + r.length <= 8
        /\ r.frame \in 0..20 /\ r.flags \subseteq {"write", "user"}
        \* a segment below user_base is refused, and the kernel maps below it
        /\ ("user" \in r.flags => r.address >= 4 /\ r.space = ProcessRoot)
        /\ (r.space = KernelRoot => r.address + r.length <= 4)
ASSUME MaxCallsIsNat == MaxCalls \in Nat
ASSUME LookedAreAddresses == Looked \subseteq Addresses

VARIABLES entries,   \* [table -> [0..1 -> entry]]
          unused,    \* frames the page allocator still has
          call,      \* the call that holds table_lock
          calls,     \* how many calls were made
          walker,    \* a translate() on another CPU
          view       \* what the calls so far said of each address

paging_vars == <<entries, unused, call, calls, walker, view>>

Idle == [at |-> "idle"]
NoWalk == [at |-> "idle"]
Pow == <<1, 2, 4>>

\* (address >> (12 + 9 * level)) & 0x1FF
index_of(address, level) == (address \div Pow[level + 1]) % 2

\* paging_init(): the direct map is one huge page of the first directory
PagingInit ==
    /\ entries = [t \in Tables \cup Spaces \cup {Directory} |->
                    [i \in 0..1 |->
                        CASE t \in Spaces /\ i = 0 -> [to |-> Directory, bits |-> {"write"}]
                          [] t = Directory /\ i = 0 -> [to |-> 0, bits |-> {"write", "huge"}]
                          [] OTHER -> Absent]]
    /\ unused = Tables
    /\ call = Idle /\ calls = 0 /\ walker = NoWalk
    /\ view = [a \in Addresses |-> IF a < 2 THEN [page |-> a, bits |-> {"write"}] ELSE Unmapped]

----------------------------------------------------------------------------
\* Walking the tables: what translate() and the processor find from a table on.

\* (entry & pte_address_mask) + (address & (huge_page_size - 1))
HugePage(entry, a) == entry.to + (a % 2)

Path(s, a) ==
    LET top == entries[s][index_of(a, 2)]
        middle == IF top = Absent THEN Absent ELSE entries[top.to][index_of(a, 1)]
        last == IF middle = Absent \/ "huge" \in middle.bits THEN middle
                ELSE entries[middle.to][index_of(a, 0)]
    IN <<top, middle, last>>

Translate(s, a) ==
    LET last == Path(s, a)[3]
    IN IF last = Absent THEN none
       ELSE IF "huge" \in last.bits THEN last.to + (a % 2) ELSE last.to

\* Access is the intersection of every level
Access(s, a) ==
    {b \in {"write", "user"} : \A l \in 1..3 : b \in Path(s, a)[l].bits}

----------------------------------------------------------------------------
Address == call.address + call.offset
Here == entries[call.table][index_of(Address, call.level)]

Begin(r) ==
    /\ call = Idle /\ calls < MaxCalls
    /\ calls' = calls + 1
    /\ call' = [at |-> "walk", op |-> r.op, space |-> r.space, address |-> r.address,
                frame |-> r.frame, length |-> r.length, flags |-> r.flags,
                offset |-> 0, level |-> 2, table |-> r.space]
    /\ UNCHANGED <<entries, unused, walker, view>>

IsAbsent(entry) == entry = Absent

\* alloc_page() hands out the first free frame
Lowest == CHOOSE t \in unused : \A u \in unused : t <= u

SetHere(entry) ==
    entries' = [entries EXCEPT ![call.table][index_of(Address, call.level)] = entry]

\* table_for(): a level that is not there gets a table, linked by one store
CreateTable ==
    /\ call.at = "walk" /\ IsAbsent(Here)
    /\ unused # {}
    /\ unused' = unused \ {Lowest}
    /\ SetHere([to |-> Lowest, bits |-> {"write"}])
    /\ call' = [call EXCEPT !.at = "mark"]
    /\ UNCHANGED <<calls, walker, view>>

\* alloc_page() has nothing left: the call returns false with the pages before
\* this one done
OutOfTables ==
    /\ \/ call.at = "walk" /\ IsAbsent(Here)
       \/ call.at = "split"
    /\ unused = {}
    /\ call' = Idle
    /\ UNCHANGED <<entries, unused, calls, walker, view>>

TakeTable ==
    /\ call.at = "walk" /\ ~IsAbsent(Here)
    /\ call' = [call EXCEPT !.at = "mark"]
    /\ UNCHANGED <<entries, unused, calls, walker, view>>

\* if (user) entry |= pte_user
Marked(entry) ==
    IF "user" \in call.flags /\ call.op # "unmap"
    THEN [entry EXCEPT !.bits = @ \cup {"user"}] ELSE entry

MarkUser ==
    /\ call.at = "mark"
    /\ SetHere(Marked(Here))
    /\ call' = [call EXCEPT !.at = IF call.level = 1 /\ "huge" \in Here.bits
                                   THEN "split" ELSE "down"]
    /\ UNCHANGED <<unused, calls, walker, view>>

\* Every small page mapped to the base of the huge one.
SplitTableBase(entry) ==
    [i \in 0..1 |-> [to |-> entry.to, bits |-> entry.bits \ {"huge"}]]

\* table[i] = (base + i * page_size) | flags
SplitTable(entry) ==
    [i \in 0..1 |-> [to |-> entry.to + i, bits |-> entry.bits \ {"huge"}]]

\* split_huge_page(): the table is filled before one store puts it in place
Split ==
    /\ call.at = "split" /\ unused # {}
    /\ unused' = unused \ {Lowest}
    /\ entries' = [entries EXCEPT
                    ![Lowest] = SplitTable(Here),
                    ![call.table][index_of(Address, 1)] = [to |-> Lowest, bits |-> {"write"}]]
    /\ call' = [call EXCEPT !.at = "down"]
    /\ UNCHANGED <<calls, walker, view>>

Down ==
    /\ call.at = "down"
    /\ call' = [call EXCEPT !.table = Here.to, !.level = call.level - 1,
                            !.at = IF call.level = 1 THEN "store" ELSE "walk"]
    /\ UNCHANGED <<entries, unused, calls, walker, view>>

\* offset < length
MorePages(offset) == offset < call.length

\* The entry that the call writes for the page
NewEntry ==
    CASE call.op = "map" -> [to |-> call.frame + call.offset, bits |-> call.flags]
      [] call.op = "unmap" -> Absent
      [] call.op = "protect" -> [Here EXCEPT !.bits = call.flags]

NextPage ==
    IF MorePages(call.offset + 1)
    THEN [call EXCEPT !.offset = @ + 1, !.level = 2, !.table = call.space, !.at = "walk"]
    ELSE Idle

\* protect() returns false at a page that is not there
NothingToProtect ==
    /\ call.at = "store" /\ call.op = "protect" /\ Here = Absent
    /\ call' = Idle
    /\ UNCHANGED <<entries, unused, calls, walker, view>>

Store ==
    /\ call.at = "store" /\ ~(call.op = "protect" /\ Here = Absent)
    /\ SetHere(NewEntry)
    /\ view' = [view EXCEPT ![Address] = [page |-> NewEntry.to, bits |-> NewEntry.bits]]
    /\ walker' = IF walker.at # "idle" /\ walker.address = Address
                 THEN [walker EXCEPT !.seen = @ \cup {NewEntry.to}] ELSE walker
    /\ call' = NextPage
    /\ UNCHANGED <<unused, calls>>

----------------------------------------------------------------------------
\* translate() on another CPU; seen collects what the address was mapped to
\* between its first and its last step

StartWalk(s, a) ==
    /\ walker = NoWalk
    /\ walker' = [at |-> "walk", address |-> a, table |-> s, level |-> 2,
                  result |-> none,
                  seen |-> {IF s = KernelRoot /\ a >= 4 THEN none ELSE view[a].page}]
    /\ UNCHANGED <<entries, unused, call, calls, view>>

WalkStep ==
    LET entry == entries[walker.table][index_of(walker.address, walker.level)]
        Answer(page) == walker' = [walker EXCEPT !.at = "done", !.result = page]
    IN /\ walker.at = "walk"
       /\ IF entry = Absent THEN Answer(none)
          ELSE IF "huge" \in entry.bits THEN Answer(HugePage(entry, walker.address))
          ELSE IF walker.level = 0 THEN Answer(entry.to)
          ELSE walker' = [walker EXCEPT !.table = entry.to, !.level = @ - 1]
       /\ UNCHANGED <<entries, unused, call, calls, view>>

WalkReturns ==
    /\ walker.at = "done"
    /\ walker' = NoWalk
    /\ UNCHANGED <<entries, unused, call, calls, view>>

PagingNext ==
    \/ \E r \in Requests : Begin(r)
    \/ CreateTable \/ OutOfTables \/ TakeTable \/ MarkUser \/ Split \/ Down
    \/ NothingToProtect \/ Store
    \/ \E s \in Spaces, a \in Looked : StartWalk(s, a)
    \/ WalkStep \/ WalkReturns

PagingSpec == PagingInit /\ [][PagingNext]_paging_vars

----------------------------------------------------------------------------
\* Entries point at tables or frames, and a call stays inside its range.
PagingTypeOK ==
    /\ \A t \in DOMAIN entries, i \in 0..1 :
        /\ entries[t][i].to \in {none} \cup 0..120
        /\ entries[t][i].bits \subseteq {"write", "user", "huge"}
    /\ unused \subseteq Tables
    /\ call # Idle => call.offset \in 0..(call.length - 1) /\ call.level \in 0..2
    /\ calls \in 0..MaxCalls
    /\ \A a \in Addresses : view[a].page \in {none} \cup 0..25

\* At every moment, in the middle of a call too, an address leads to the frame that
\* the last call on it chose, in the kernel's tables and through the entry that every
\* process shares: splitting the huge page around an address never shows.
TranslationExact ==
    \A a \in Addresses :
        /\ Translate(ProcessRoot, a) = view[a].page
        /\ Translate(KernelRoot, a) = IF a < 4 THEN view[a].page ELSE none

\* The processor grants an address exactly the rights of the last call on it: the
\* levels above a user page are all marked, and no page beside it gains or loses
\* a right by that (table_for).
PermissionsExact ==
    \A a \in Addresses :
        view[a].page # none => Access(ProcessRoot, a) = view[a].bits

\* The entries that hold a table
Links == {e \in (DOMAIN entries) \X (0..1) : entries[e[1]][e[2]].to \in Tables}

\* The tables form a tree: a frame taken for a table hangs from one entry, so that
\* no table is lost and none is edited through two addresses.
TablesFormATree ==
    /\ \A t \in Tables :
        Cardinality({e \in Links : entries[e[1]][e[2]].to = t}) = IF t \in unused THEN 0 ELSE 1
    /\ \A e \in Links : e[1] \notin unused

\* translate() takes no lock, yet what it returns is what the address was mapped to
\* at some moment of the call.
TranslateIsLinear == walker.at = "done" => walker.result \in walker.seen

\* Between any two stores of map(), unmap() and protect(): each address translates as
\* the calls left it, with their rights, through tables that form a tree, and a
\* translate() alongside returns what held at some point of its walk.
TablesExact ==
    PagingTypeOK /\ TranslationExact /\ PermissionsExact /\ TablesFormATree /\ TranslateIsLinear

(***************************************************************************)
(* One kernel page and the copies of its entry that the CPUs cache: map(), *)
(* protect() and unmap() taken as steps of several CPUs, the shootdown     *)
(* interrupt that follows an unmap, and its handler in kernel/cpu/idt.cpp. *)
(*                                                                         *)
(* Every CPU is online.  A frame is named by the map() that put it in      *)
(* place, so two mappings are told apart even when free_page() and         *)
(* alloc_page() between them hand the same memory out again.               *)
(***************************************************************************)
CONSTANTS CPUs, MaxMaps

ASSUME SomeCPUs == CPUs # {} /\ IsFiniteSet(CPUs)
ASSUME MaxMapsIsNat == MaxMaps \in Nat

VARIABLES entry,    \* the entry in the table: a frame and its rights, or nothing
          tlb,      \* [CPU -> the entry it has cached]
          pending,  \* CPUs with a shootdown interrupt to take
          step,     \* [CPU -> where it is in unmap()]
          shared,   \* [CPU -> what unmap() read before it took the lock]
          holder,   \* who holds table_lock
          maps,     \* how many frames were mapped
          replaced  \* history: the frames a map() put another in the place of, and 0

tlb_vars == <<entry, tlb, pending, step, shared, holder, maps, replaced>>

nothing == [frame |-> 0, rights |-> "none"]
nobody == "nobody"

TlbInit ==
    /\ entry = nothing /\ maps = 0 /\ replaced = {0}
    /\ tlb = [c \in CPUs |-> nothing]
    /\ pending = {} /\ holder = nobody
    /\ step = [c \in CPUs |-> "out"] /\ shared = [c \in CPUs |-> FALSE]

\* The processor caches the entry it used
Load(c) ==
    /\ tlb[c] = nothing /\ entry # nothing
    /\ tlb' = [tlb EXCEPT ![c] = entry]
    /\ UNCHANGED <<entry, pending, step, shared, holder, maps, replaced>>

\* map(), which writes the entry, whatever it held, and drops this CPU's copy under the lock
Map(c) ==
    /\ step[c] = "out" /\ holder = nobody /\ maps < MaxMaps
    /\ maps' = maps + 1 /\ replaced' = replaced \cup {entry.frame}
    /\ entry' = [frame |-> maps + 1, rights |-> "write"]
    /\ tlb' = [tlb EXCEPT ![c] = nothing]
    /\ UNCHANGED <<pending, step, shared, holder>>

\* protect(), which tells no other CPU
Protect(c) ==
    /\ step[c] = "out" /\ holder = nobody /\ entry # nothing
    /\ entry' = [entry EXCEPT !.rights = "execute"]
    /\ tlb' = [tlb EXCEPT ![c] = nothing]
    /\ UNCHANGED <<pending, step, shared, holder, maps, replaced>>

\* cpu_online_count() > 1
Shared(n) == n > 1

UnmapBegins(c) ==
    /\ step[c] = "out" /\ entry # nothing
    /\ shared' = [shared EXCEPT ![c] = Shared(Cardinality(CPUs))]
    /\ step' = [step EXCEPT ![c] = "guard"]
    /\ UNCHANGED <<entry, tlb, pending, holder, maps, replaced>>

\* The guard turns interrupts off and spins for table_lock
Spin(c) ==
    /\ step[c] = "guard"
    /\ step' = [step EXCEPT ![c] = "spin"]
    /\ UNCHANGED <<entry, tlb, pending, shared, holder, maps, replaced>>

\* With the lock the entry is cleared, and this CPU's copy with it
Clear(c) ==
    /\ step[c] = "spin" /\ holder = nobody
    /\ holder' = c
    /\ entry' = nothing
    /\ tlb' = [tlb EXCEPT ![c] = nothing]
    /\ step' = [step EXCEPT ![c] = "broadcast"]
    /\ UNCHANGED <<pending, shared, maps, replaced>>

\* lapic_broadcast_ipi() returns when the interrupt is on its way, and the guard
\* gives the lock back
Broadcast(c) ==
    /\ step[c] = "broadcast"
    /\ pending' = IF shared[c] THEN pending \cup (CPUs \ {c}) ELSE pending
    /\ holder' = nobody
    /\ step' = [step EXCEPT ![c] = "out"]
    /\ UNCHANGED <<entry, tlb, shared, maps, replaced>>

\* A handler that only acknowledges.
FlushedNot(c) == tlb

\* tlb_flush_local()
Flushed(c) == [tlb EXCEPT ![c] = nothing]

\* unmap() returns with interrupts off.
InterruptsOffAfter(c) == step[c] = "guard"

\* The guard of unmap() holds them back from the spin to the last step
InterruptsOn(c) == step[c] \in {"out", "guard"}

\* vector_tlb_shootdown, while interrupts are on
Shootdown(c) ==
    /\ c \in pending /\ InterruptsOn(c)
    /\ tlb' = Flushed(c)
    /\ pending' = pending \ {c}
    /\ UNCHANGED <<entry, step, shared, holder, maps, replaced>>

\* tlb_shootdown(): this CPU first, then the others
ShootdownAll(c) ==
    /\ step[c] = "out"
    /\ tlb' = Flushed(c)
    /\ pending' = IF Shared(Cardinality(CPUs)) THEN pending \cup (CPUs \ {c}) ELSE pending
    /\ UNCHANGED <<entry, step, shared, holder, maps, replaced>>

TlbNext ==
    \E c \in CPUs :
        \/ Load(c) \/ Map(c) \/ Protect(c)
        \/ UnmapBegins(c) \/ Spin(c) \/ Clear(c) \/ Broadcast(c)
        \/ Shootdown(c) \/ ShootdownAll(c)

\* A CPU in unmap() goes on, a CPU that spins gets a lock that stays free, and an
\* interrupt that stays possible is taken.
TlbFairness ==
    \A c \in CPUs : WF_tlb_vars(Clear(c)) /\ WF_tlb_vars(Broadcast(c)) /\ WF_tlb_vars(Shootdown(c))

TlbSpec == TlbInit /\ [][TlbNext]_tlb_vars /\ TlbFairness

----------------------------------------------------------------------------
\* The page is cached on c, but mapped no more or mapped to another frame.
Stale(c) == tlb[c].frame \notin {0, entry.frame}

\* Likewise, and it was unmap() that took it away: no map() was called over it.
TakenAway(c) == Stale(c) /\ tlb[c].frame \notin replaced

\* No copy of a mapping that unmap() took away is forgotten: a CPU that has one has the
\* interrupt on its way, or the call has yet to send it.
StaleIsAnnounced ==
    \A c \in CPUs : TakenAway(c) => c \in pending \/ \E o \in CPUs \ {c} : step[o] = "broadcast"

\* Every copy of a mapping that unmap() took away goes away in the end.
StaleGoesAway == \A c \in CPUs : TakenAway(c) ~> ~TakenAway(c)

\* When unmap() has returned no CPU reaches the old frame, which its callers free
\* at once (loader.cpp, release_image).
UnmapIsFinished ==
    \A c \in CPUs : TakenAway(c) => \E o \in CPUs : step[o] = "broadcast"

\* A map() over a page that is mapped tells the CPUs that have a copy.
ReplacedIsAnnounced ==
    \A c \in CPUs : Stale(c) => c \in pending \/ \E o \in CPUs \ {c} : step[o] = "broadcast"

\* When protect() has returned every CPU uses the page with its new rights.
RightsHaveLanded ==
    \A c \in CPUs : tlb[c].frame = entry.frame => tlb[c].rights = entry.rights
=============================================================================
