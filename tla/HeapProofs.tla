----------------------------- MODULE HeapProofs -----------------------------
(***************************************************************************)
(* The list of blocks of kernel/mm/heap.cpp is sound for every size of the *)
(* area, of a growth step and of a request.  The lemmas speak of a list    *)
(* (its headers m, its tail t, its committed end c) and of one operation   *)
(* on it: a block takes in the next one, a block is cut in two, a block is *)
(* added at the end.                                                       *)
(***************************************************************************)
EXTENDS Heap, WellFoundedInduction, TLAPS

Links == HeapAddresses \cup {null}
Cell == [size : Nat, free : {"yes", "no"}, next : Links, prev : Links]
InUse(m) == {b \in HeapAddresses : m[b] # NoBlock}
After(m, b) == b + 2 + m[b].size

\* The list tiles [0, c): each block but the tail ends where the next begins, next and
\* prev undo each other, and no block begins inside another.
Tiled(m, t, c) ==
    /\ m \in [HeapAddresses -> Cell] /\ c \in 0..Reserved
    /\ 0 \in InUse(m) /\ t \in InUse(m) /\ m[t].next = null
    /\ \A b \in InUse(m) : m[b].size >= 1 /\ After(m, b) <= c
    /\ \A b \in InUse(m) : m[b].next = null => b = t /\ After(m, b) = c
    /\ \A b \in InUse(m) : m[b].next # null =>
            m[b].next \in InUse(m) /\ m[b].next = After(m, b) /\ m[m[b].next].prev = b
    /\ \A b \in InUse(m) : m[b].prev = null => b = 0
    /\ \A b \in InUse(m) : m[b].prev # null => m[b].prev \in InUse(m) /\ m[m[b].prev].next = b
    /\ \A a, b \in InUse(m) : a < b => After(m, a) <= b

\* No free block but b has a free one after it, and none has b, if b is free.
MergedBut(m, b) ==
    \A a \in InUse(m) :
        a # b /\ m[a].free = "yes" /\ m[a].next # null /\ m[a].next # b => m[m[a].next].free = "no"

\* What a header adds to heap_used()
Part(m) == [a \in HeapAddresses |-> IF m[a].free = "no" THEN m[a].size ELSE 0]

----------------------------------------------------------------------------
\* A growth step holds the block that was asked for and its header.
LEMMA StepHolds ==
  ASSUME NEW w \in Nat \ {0}
  PROVE  StepFor(w) \in Nat /\ StepFor(w) >= w + 2
<1> DEFINE x == w + 2 + GrowthStep - 1
           q == x \div GrowthStep
<1>1. GrowthStep \in Nat /\ GrowthStep > 2 /\ x \in Nat
  BY StepHoldsABlock DEF Header
<1> HIDE DEF x
<1>2. q \in Int /\ GrowthStep * q + GrowthStep > x
  BY <1>1
<1> HIDE DEF q
<1>3. q \in Nat
  BY <1>1, <1>2
<1>4. q * GrowthStep \in Nat /\ q * GrowthStep + GrowthStep > x
  BY <1>1, <1>2, <1>3
<1> QED
  BY <1>1, <1>4 DEF StepFor, Header, x, q

\* A set of addresses has a first.
LEMMA LeastOfSome ==
  ASSUME NEW S, S \subseteq Nat, S # {}
  PROVE  \E k \in S : \A j \in S : k <= j
<1> DEFINE R == OpToRel(<, Nat)
<1>1. \E k \in S : \A j \in S : <<j, k>> \notin R
  BY ZenonT(30), NatLessThanWellFounded, WFMin
<1>2. \A j, k \in Nat : <<j, k>> \in R <=> j < k
  BY Zenon DEF OpToRel
<1> HIDE DEF R
<1>3. PICK k \in S : \A j \in S : <<j, k>> \notin R
  BY Zenon, <1>1
<1>4. \A j \in S : ~(j < k) /\ j \in Nat /\ k \in Nat
  BY ZenonT(30), <1>2, <1>3
<1>5. \A j \in S : k <= j
  BY <1>4
<1> QED
  BY Zenon, <1>5

\* kmalloc() takes one of the blocks that are free and large enough.
LEMMA FirstIsCandidate ==
  ASSUME NEW h, NEW w, Candidates(h, w) # {}
  PROVE  FirstBlock(h, w) \in Candidates(h, w)
<1>1. Candidates(h, w) \subseteq Nat
  BY StepHoldsABlock DEF Candidates, Blocks, HeapAddresses
<1>2. \E b \in Candidates(h, w) : \A c \in Candidates(h, w) : b <= c
  BY Zenon, <1>1, LeastOfSome
<1> QED
  BY Zenon, <1>2 DEF FirstBlock

----------------------------------------------------------------------------
(* A block takes in the one after it                                        *)

\* Two numbers that a block of the list has.
LEMMA BlockTypes ==
  ASSUME NEW m, NEW t, NEW c, Tiled(m, t, c), NEW b \in InUse(m)
  PROVE  /\ b \in HeapAddresses /\ b \in Nat /\ m[b] \in Cell /\ m[b].size \in Nat /\ m[b].size >= 1
         /\ After(m, b) \in Nat /\ After(m, b) > b /\ After(m, b) <= c
         /\ m[b].next \in Links /\ m[b].prev \in Links /\ m[b].free \in {"yes", "no"} /\ b # null
<1>1. b \in HeapAddresses /\ m[b] \in Cell /\ m[b].size >= 1 /\ After(m, b) <= c
  BY Zenon DEF Tiled, InUse
<1>2. /\ b \in Nat /\ m[b].size \in Nat /\ m[b].next \in Links /\ m[b].prev \in Links
      /\ m[b].free \in {"yes", "no"} /\ b # null
  BY <1>1, StepHoldsABlock DEF HeapAddresses, Cell, null
<1>3. After(m, b) \in Nat /\ After(m, b) > b
  BY <1>1, <1>2 DEF After
<1> QED
  BY Zenon, <1>1, <1>2, <1>3

\* The neighbours that Absorb() relinks are different blocks in the order of the list.
LEMMA Neighbours ==
  ASSUME NEW m, NEW t, NEW c, Tiled(m, t, c), NEW b \in InUse(m), m[b].next # null
  PROVE  LET n == m[b].next
             v == m[n].next
         IN /\ n \in InUse(m) /\ n = After(m, b) /\ n > b /\ m[n].prev = b
            /\ v # null => v \in InUse(m) /\ v = After(m, n) /\ v > n /\ m[v].prev = n
            /\ v # b /\ v # n
<1> DEFINE n == m[b].next
           v == m[n].next
<1>1. n \in InUse(m) /\ n = After(m, b) /\ m[n].prev = b
  BY Zenon DEF Tiled
<1>2. v # null => v \in InUse(m) /\ v = After(m, n) /\ m[v].prev = n
  BY Zenon, <1>1 DEF Tiled
<1> HIDE DEF n, v
<1>3. n > b /\ n \in Nat /\ b \in Nat
  BY Zenon, <1>1, BlockTypes
<1>4. v # null => v > n
  BY Zenon, <1>1, <1>2, BlockTypes
<1>5. v # b /\ v # n
  BY <1>3, <1>4 DEF null
<1> QED
  BY Zenon, <1>1, <1>2, <1>3, <1>4, <1>5 DEF n, v
\* What Absorb() does to the headers and the tail: n is the block after b, v the one
\* after n.
Absorbs(m, t, b, m2, t2) ==
    LET n == m[b].next
        v == m[n].next
    IN /\ m2 \in [HeapAddresses -> Cell] /\ m2[n] = NoBlock
       /\ m2[b].size = m[b].size + 2 + m[n].size /\ m2[b].free = m[b].free
       /\ m2[b].next = v /\ m2[b].prev = m[b].prev
       /\ v # null => /\ m2[v].size = m[v].size /\ m2[v].free = m[v].free
                      /\ m2[v].next = m[v].next /\ m2[v].prev = b
       /\ \A a \in HeapAddresses \ {b, n, v} : m2[a] = m[a]
       /\ t2 = IF v = null THEN b ELSE t

\* The list stays a tiling without the block that was taken in.
LEMMA AbsorbTiles ==
  ASSUME NEW m, NEW t, NEW c, Tiled(m, t, c), NEW b \in InUse(m), m[b].next # null,
         NEW m2, NEW t2, Absorbs(m, t, b, m2, t2)
  PROVE  Tiled(m2, t2, c) /\ InUse(m2) = InUse(m) \ {m[b].next}
<1> DEFINE n == m[b].next
           v == m[n].next
<1>1. /\ n \in InUse(m) /\ n = After(m, b) /\ n > b /\ m[n].prev = b
      /\ v # null => v \in InUse(m) /\ v = After(m, n) /\ v > n /\ m[v].prev = n
      /\ v # b /\ v # n
  BY Zenon, Neighbours
<1>2. /\ m2 \in [HeapAddresses -> Cell] /\ m2[n] = NoBlock
      /\ m2[b].size = m[b].size + 2 + m[n].size /\ m2[b].free = m[b].free
      /\ m2[b].next = v /\ m2[b].prev = m[b].prev
      /\ v # null => /\ m2[v].size = m[v].size /\ m2[v].free = m[v].free
                     /\ m2[v].next = m[v].next /\ m2[v].prev = b
      /\ \A a \in HeapAddresses \ {b, n, v} : m2[a] = m[a]
      /\ t2 = IF v = null THEN b ELSE t
  BY Zenon DEF Absorbs
<1> HIDE DEF n, v
<1>3. /\ n \in HeapAddresses /\ b \in HeapAddresses /\ n \in Nat /\ b \in Nat
      /\ m[b].size \in Nat /\ m[n].size \in Nat /\ m[n].size >= 1
      /\ (v # null => v \in HeapAddresses /\ v \in Nat)
      /\ n # b /\ \A a \in InUse(m) : a \in HeapAddresses
      /\ \A a \in HeapAddresses : a # null
  <2>1. \A a \in InUse(m) : a \in HeapAddresses /\ a \in Nat /\ m[a].size \in Nat /\ m[a].size >= 1
    BY Zenon, BlockTypes
  <2>2. \A a \in HeapAddresses : a # null
    BY DEF null, HeapAddresses
  <2>3. n # b
    BY <1>1, <2>1
  <2> QED
    BY Zenon, <1>1, <2>1, <2>2, <2>3
<1>4. \A a \in InUse(m) : a # b /\ a # n =>
          m2[a].size = m[a].size /\ m2[a].next = m[a].next /\ (a # v => m2[a].prev = m[a].prev)
  BY Zenon, <1>2, <1>3
<1>5. InUse(m2) = InUse(m) \ {n}
  <2>1. ASSUME NEW a \in InUse(m), a # n PROVE m2[a] # NoBlock
    <3>1. m2[a].size >= 1
      <4>1. m2[b].size >= 1
        BY <1>2, <1>3
      <4>2. m[a].size >= 1
        BY Zenon, BlockTypes
      <4> QED
        BY Zenon, <1>4, <2>1, <4>1, <4>2
    <3>2. NoBlock.size = 0
      BY DEF NoBlock
    <3> QED
      BY <3>1, <3>2
  <2>2. ASSUME NEW a \in HeapAddresses, a \notin InUse(m) PROVE m2[a] = NoBlock
    <3>1. a # b /\ a # n /\ a # v
      BY Zenon, <1>1, <1>3, <2>2
    <3> QED
      BY Zenon, <1>2, <2>2, <3>1 DEF InUse
  <2> QED
    BY Zenon, <1>2, <2>1, <2>2 DEF InUse
<1>6. After(m2, b) = After(m, n) /\ \A a \in InUse(m2) : a # b => After(m2, a) = After(m, a)
  <2>1. After(m2, b) = After(m, n)
    BY <1>1, <1>2, <1>3 DEF After
  <2> QED
    BY Zenon, <1>4, <1>5, <2>1 DEF After
<1>7. 0 \in InUse(m2) /\ t2 \in InUse(m2) /\ m2[t2].next = null
  <2>1. 0 # n
    BY <1>1, <1>3
  <2>2. 0 \in InUse(m) /\ t \in InUse(m) /\ m[t].next = null
    BY Zenon DEF Tiled
  <2>3. CASE v = null
    BY Zenon, <1>2, <1>3, <1>5, <2>1, <2>2, <2>3
  <2>4. CASE v # null
    <3>1. t2 = t /\ t # n /\ t # b
      BY Zenon, <1>2, <2>2, <2>4 DEF n, v
    <3> QED
      BY Zenon, <1>4, <1>5, <2>1, <2>2, <3>1
  <2> QED
    BY Zenon, <2>3, <2>4
<1>8. \A a \in InUse(m2) : m2[a].size >= 1 /\ After(m2, a) <= c
  <2>1. m2[b].size >= 1
    BY <1>2, <1>3
  <2>2. \A a \in InUse(m) : m[a].size >= 1 /\ After(m, a) <= c
    BY Zenon DEF Tiled
  <2> QED
    BY Zenon, <1>1, <1>4, <1>5, <1>6, <2>1, <2>2
<1>9. \A a \in InUse(m2) : m2[a].next = null => a = t2 /\ After(m2, a) = c
  <2>1. \A a \in InUse(m) : m[a].next = null => a = t /\ After(m, a) = c
    BY Zenon DEF Tiled
  <2>2. v = null => n = t /\ After(m, n) = c
    BY Zenon, <1>1, <2>1 DEF v
  <2> SUFFICES ASSUME NEW a \in InUse(m2), m2[a].next = null PROVE a = t2 /\ After(m2, a) = c
    BY Zenon
  <2>3. CASE a = b
    BY Zenon, <1>2, <1>6, <2>2, <2>3
  <2>4. CASE a # b
    <3>1. a \in InUse(m) /\ a # n /\ m[a].next = null /\ After(m2, a) = After(m, a)
      BY Zenon, <1>4, <1>5, <1>6, <2>4
    <3> QED
      BY Zenon, <1>2, <2>1, <2>2, <3>1
  <2> QED
    BY Zenon, <2>3, <2>4
<1>10. \A a \in InUse(m2) : m2[a].next # null =>
           m2[a].next \in InUse(m2) /\ m2[a].next = After(m2, a) /\ m2[m2[a].next].prev = a
  <2> SUFFICES ASSUME NEW a \in InUse(m2), m2[a].next # null
               PROVE  m2[a].next \in InUse(m2) /\ m2[a].next = After(m2, a) /\ m2[m2[a].next].prev = a
    BY Zenon
  <2>1. CASE a = b
    BY Zenon, <1>1, <1>2, <1>5, <1>6, <2>1
  <2>2. CASE a # b
    <3> DEFINE x == m[a].next
    <3>1. a \in InUse(m) /\ a # n /\ m2[a].next = x /\ x # null
      BY Zenon, <1>4, <1>5, <2>2
    <3>2. x \in InUse(m) /\ x = After(m, a) /\ m[x].prev = a
      BY Zenon, <3>1 DEF Tiled
    <3>3. x # n /\ x # v
      BY Zenon, <1>1, <2>2, <3>1, <3>2
    <3>4. m2[x].prev = a
      BY Zenon, <1>2, <1>4, <3>2, <3>3
    <3> QED
      BY Zenon, <1>5, <1>6, <2>2, <3>1, <3>2, <3>3, <3>4
  <2> QED
    BY Zenon, <2>1, <2>2
<1>11. \A a \in InUse(m2) : m2[a].prev = null => a = 0
  <2>1. \A a \in InUse(m) : m[a].prev = null => a = 0
    BY Zenon DEF Tiled
  <2> SUFFICES ASSUME NEW a \in InUse(m2), m2[a].prev = null PROVE a = 0
    BY Zenon
  <2>2. a \in InUse(m) /\ a # n
    BY Zenon, <1>5
  <2>3. CASE a = b
    BY Zenon, <1>2, <1>3, <2>1, <2>2, <2>3
  <2>4. CASE a = v /\ a # b
    BY Zenon, <1>2, <1>3, <2>1, <2>2, <2>4
  <2>5. CASE a # b /\ a # v
    BY Zenon, <1>4, <2>1, <2>2, <2>5
  <2> QED
    BY Zenon, <2>3, <2>4, <2>5
<1>12. \A a \in InUse(m2) : m2[a].prev # null => m2[a].prev \in InUse(m2) /\ m2[m2[a].prev].next = a
  <2> SUFFICES ASSUME NEW a \in InUse(m2), m2[a].prev # null
               PROVE  m2[a].prev \in InUse(m2) /\ m2[m2[a].prev].next = a
    BY Zenon
  <2>1. CASE a = v
    BY Zenon, <1>1, <1>2, <1>3, <1>5, <2>1
  <2>2. CASE a # v
    <3> DEFINE p == m[a].prev
    <3>1. a \in InUse(m) /\ a # n /\ m2[a].prev = p /\ p # null
      BY Zenon, <1>2, <1>4, <1>5, <2>2
    <3>2. p \in InUse(m) /\ m[p].next = a
      BY Zenon, <3>1 DEF Tiled
    <3>3. p # n /\ p # b
      BY Zenon, <2>2, <3>1, <3>2 DEF n, v
    <3> QED
      BY Zenon, <1>4, <1>5, <3>1, <3>2, <3>3
  <2> QED
    BY Zenon, <2>1, <2>2
<1>13. \A x, y \in InUse(m2) : x < y => After(m2, x) <= y
  <2> SUFFICES ASSUME NEW x \in InUse(m2), NEW y \in InUse(m2), x < y PROVE After(m2, x) <= y
    BY Zenon
  <2>1. \A a, e \in InUse(m) : a < e => After(m, a) <= e
    BY Zenon DEF Tiled
  <2>2. CASE x = b
    <3>1. n <= y /\ y # n /\ y \in Nat
      BY Zenon, <1>1, <1>5, <2>1, <2>2, BlockTypes
    <3>2. n < y
      BY <1>3, <3>1
    <3> QED
      BY Zenon, <1>1, <1>5, <1>6, <2>1, <2>2, <3>2
  <2>3. CASE x # b
    BY Zenon, <1>5, <1>6, <2>1, <2>3
  <2> QED
    BY Zenon, <2>2, <2>3
<1>14. c \in 0..Reserved
  BY Zenon DEF Tiled
<1> QED
  BY ZenonT(30), <1>2, <1>5, <1>7, <1>8, <1>9, <1>10, <1>11, <1>12, <1>13, <1>14 DEF Tiled, n
Heaps == [memory : [HeapAddresses -> Cell], head : Links, tail : Links, committed : Nat, used : Int]

\* h2 is h but for its headers and its tail.
SameBut(h, h2) ==
    /\ h2 \in Heaps /\ h2.memory \in [HeapAddresses -> Cell]
    /\ h2.head = h.head /\ h2.committed = h.committed /\ h2.used = h.used

\* h2 is h with header x stored at b.
Stored(h, b, x, h2) ==
    /\ SameBut(h, h2) /\ h2.tail = h.tail /\ h2.memory[b] = x
    /\ \A a \in HeapAddresses \ {b} : h2.memory[a] = h.memory[a]

\* A header store changes that header.
LEMMA SetFacts ==
  ASSUME NEW h \in Heaps, NEW b \in HeapAddresses, NEW x \in Cell
  PROVE  Stored(h, b, x, Set(h, b, x))
<1>1. h.memory \in [HeapAddresses -> Cell]
  BY DEF Heaps
<1>2. [h.memory EXCEPT ![b] = x] \in [HeapAddresses -> Cell]
  BY Zenon, <1>1
<1> QED
  BY <1>1, <1>2 DEF Heaps, Set, Stored, SameBut

\* h2 is h with p stored as the block before v, or as the tail when there is no v.
PrevStored(h, v, p, h2) ==
    /\ SameBut(h, h2) /\ h2.tail = IF v = null THEN p ELSE h.tail
    /\ \A a \in HeapAddresses \ {v} : h2.memory[a] = h.memory[a]
    /\ v # null => /\ h2.memory[v].size = h.memory[v].size /\ h2.memory[v].free = h.memory[v].free
                   /\ h2.memory[v].next = h.memory[v].next /\ h2.memory[v].prev = p

\* SetPrev() changes a prev field, or the tail when there is no block.
LEMMA SetPrevFacts ==
  ASSUME NEW h \in Heaps, NEW v \in Links, NEW p \in Links
  PROVE  PrevStored(h, v, p, SetPrev(h, v, p))
<1>1. CASE v = null
  BY <1>1 DEF SetPrev, Heaps, PrevStored, SameBut
<1>2. CASE v # null
  <2> DEFINE x == [h.memory[v] EXCEPT !.prev = p]
  <2>1. v \in HeapAddresses
    BY Zenon, <1>2 DEF Links
  <2>2. h.memory[v] \in Cell
    BY <2>1 DEF Heaps
  <2>3. /\ x \in Cell /\ x.size = h.memory[v].size /\ x.free = h.memory[v].free
        /\ x.next = h.memory[v].next /\ x.prev = p
    BY <2>2 DEF Cell
  <2>4. SetPrev(h, v, p) = Set(h, v, x)
    BY Zenon, <1>2 DEF SetPrev
  <2> HIDE DEF x
  <2>5. Stored(h, v, x, SetPrev(h, v, p))
    BY Zenon, <2>1, <2>3, <2>4, SetFacts
  <2> QED
    BY Zenon, <1>2, <2>3, <2>5 DEF Stored, PrevStored
<1> QED
  BY Zenon, <1>1, <1>2

\* The header Absorb() writes, and the header of a block that covers both
GrownCell(x, y, v) == [x EXCEPT !.size = GrownSize(x, y), !.next = v]
Covers(x, y, v, z) ==
    /\ z \in Cell /\ z.size = x.size + 2 + y.size
    /\ z.free = x.free /\ z.next = v /\ z.prev = x.prev

\* They are the same.
LEMMA GrownHeader ==
  ASSUME NEW x \in Cell, NEW y \in Cell, NEW v \in Links
  PROVE  Covers(x, y, v, GrownCell(x, y, v))
<1>1. GrownSize(x, y) \in Nat /\ GrownSize(x, y) = x.size + 2 + y.size
  BY DEF GrownSize, Header, Cell
<1> QED
  BY Zenon, <1>1 DEF Cell, GrownCell, Covers

\* Absorb() does that to a heap, and nothing to its other fields.
LEMMA AbsorbFacts ==
  ASSUME NEW h \in Heaps, NEW b \in HeapAddresses,
         NEW n \in HeapAddresses, n = h.memory[b].next, n # b,
         NEW v \in Links, v = h.memory[n].next, v # b, v # n,
         NEW h2, h2 = Absorb(h, b)
  PROVE  Absorbs(h.memory, h.tail, b, h2.memory, h2.tail) /\ SameBut(h, h2)
<1> DEFINE m == h.memory
           grown == GrownCell(m[b], m[n], v)
           g1 == Set(h, b, grown)
           g2 == Set(g1, n, NoBlock)
<1>1. m[b] \in Cell /\ m[n] \in Cell /\ NoBlock \in Cell /\ b \in Links
  BY DEF Heaps, NoBlock, Cell, Links
<1>2. grown = GrownCell(m[b], m[n], v) /\ h2 = SetPrev(g2, v, b)
  BY Zenon DEF Absorb, GrownCell
<1> HIDE DEF grown
<1>3. Covers(m[b], m[n], v, grown)
  BY Zenon, <1>1, <1>2, GrownHeader
<1>4. Stored(h, b, grown, g1)
  BY Zenon, <1>3, SetFacts DEF Covers
<1> HIDE DEF g1
<1>5. Stored(g1, n, NoBlock, g2)
  <2>1. g1 \in Heaps
    BY Zenon, <1>4 DEF Stored, SameBut
  <2> QED
    BY Zenon, <1>1, <2>1, SetFacts
<1> HIDE DEF g2
<1>6. PrevStored(g2, v, b, h2)
  BY Zenon, <1>1, <1>2, <1>5, SetPrevFacts DEF Stored, SameBut
<1>7. SameBut(h, h2) /\ h2.tail = IF v = null THEN b ELSE h.tail
  BY Zenon, <1>4, <1>5, <1>6 DEF Stored, PrevStored, SameBut
<1>8. h2.memory[b] = grown /\ h2.memory[n] = NoBlock
  BY Zenon, <1>4, <1>5, <1>6 DEF Stored, PrevStored
<1>9. \A a \in HeapAddresses \ {b, n, v} : h2.memory[a] = m[a]
  BY Zenon, <1>4, <1>5, <1>6 DEF Stored, PrevStored
<1>10. v # null => g2.memory[v] = m[v]
  BY Zenon, <1>4, <1>5 DEF Links, Stored
<1> QED
  BY Zenon, <1>3, <1>6, <1>7, <1>8, <1>9, <1>10 DEF Absorbs, PrevStored, SameBut, Covers
----------------------------------------------------------------------------
\* The heap's list, and the blocks of it that are taken
List(h) == h \in Heaps /\ h.head = 0 /\ Tiled(h.memory, h.tail, h.committed)
Taken(m) == {b \in InUse(m) : m[b].free = "no"}

\* m2 has the taken blocks of m, and they are as large.
SameTaken(m, m2) ==
    Taken(m2) = Taken(m) /\ (\A a \in Taken(m) : m2[a].size = m[a].size) /\ Part(m2) = Part(m)

\* No two free blocks lie side by side.
Merged(m) ==
    \A a \in InUse(m) : m[a].free = "yes" /\ m[a].next # null => m[m[a].next].free = "no"

\* What Absorb() leaves alone when both blocks are free
KeepsRest(m, b, m2) ==
    /\ InUse(m2) = InUse(m) \ {m[b].next} /\ b \in InUse(m2) /\ m2[b].next = m[m[b].next].next
    /\ \A a \in InUse(m2) : m2[a].free = m[a].free /\ (a # b => m2[a].next = m[a].next)

\* A free block takes in a free one: the list stays sound and the taken blocks as they were.
LEMMA AbsorbList ==
  ASSUME NEW h, List(h), NEW b \in InUse(h.memory), h.memory[b].free = "yes",
         h.memory[b].next # null, h.memory[h.memory[b].next].free = "yes",
         NEW h2, h2 = Absorb(h, b)
  PROVE  /\ List(h2) /\ SameTaken(h.memory, h2.memory) /\ h2.used = h.used
         /\ KeepsRest(h.memory, b, h2.memory) /\ h2.memory[b].prev = h.memory[b].prev
<1> DEFINE m == h.memory
           n == m[b].next
           v == m[n].next
           m2 == h2.memory
<1>1. h \in Heaps /\ h.head = 0 /\ Tiled(m, h.tail, h.committed)
  BY Zenon DEF List
<1>2. /\ n \in InUse(m) /\ n > b
      /\ v # null => v \in InUse(m) /\ v > n
      /\ v # b /\ v # n
  BY Zenon, <1>1, Neighbours
<1>3. /\ b \in HeapAddresses /\ b \in Nat /\ n \in HeapAddresses /\ n \in Nat
      /\ (v # null => v \in HeapAddresses) /\ \A a \in InUse(m) : a \in HeapAddresses
  BY Zenon, <1>1, <1>2, BlockTypes
<1>4. n # b /\ v \in Links
  <2>1. n # b
    BY SMTT(20), <1>2, <1>3
  <2> QED
    BY Zenon, <1>3, <2>1 DEF Links
<1>5. Absorbs(m, h.tail, b, m2, h2.tail) /\ SameBut(h, h2)
  BY SMT, <1>1, <1>2, <1>3, <1>4, AbsorbFacts
<1>6. Tiled(m2, h2.tail, h.committed) /\ InUse(m2) = InUse(m) \ {n}
  BY SMT, <1>1, <1>5, AbsorbTiles
<1>7. List(h2) /\ h2.used = h.used
  BY Zenon, <1>1, <1>5, <1>6 DEF List, SameBut
<1>8. /\ m2[n] = NoBlock /\ m2[b].free = m[b].free /\ m2[b].next = v /\ m2[b].prev = m[b].prev
      /\ v # null => m2[v].size = m[v].size /\ m2[v].free = m[v].free /\ m2[v].next = m[v].next
      /\ \A a \in HeapAddresses \ {b, n, v} : m2[a] = m[a]
  BY Zenon, <1>5 DEF Absorbs
<1> HIDE DEF m2, n, v
<1>9. \A a \in HeapAddresses : a # b /\ a # n =>
          m2[a].free = m[a].free /\ m2[a].next = m[a].next /\ m2[a].size = m[a].size
  <2>1. \A a \in HeapAddresses : a # null
    BY DEF HeapAddresses, null
  <2> QED
    BY Zenon, <1>8, <2>1
<1>10. KeepsRest(m, b, m2)
  <2>1. m2[b].next = m[m[b].next].next
    BY Zenon, <1>8 DEF n, v
  <2>2. InUse(m2) = InUse(m) \ {m[b].next} /\ b \in InUse(m2)
    BY Zenon, <1>4, <1>6 DEF n
  <2> QED
    BY Zenon, <1>3, <1>6, <1>8, <1>9, <2>1, <2>2 DEF KeepsRest
<1>11. m[b].free = "yes" /\ m[n].free = "yes" /\ m2[b].free = "yes" /\ m2[n].free = "no" /\ m2[n].size = 0
  <2>1. NoBlock.free = "no" /\ NoBlock.size = 0
    BY DEF NoBlock
  <2> QED
    BY Zenon, <1>8, <2>1 DEF n
<1>12. SameTaken(m, m2)
  <2>1. "yes" # "no"
    OBVIOUS
  <2>2. Taken(m2) = Taken(m)
    <3>1. ASSUME NEW a \in Taken(m2) PROVE a \in Taken(m)
      BY Zenon, <1>3, <1>6, <1>9, <1>11, <2>1 DEF Taken
    <3>2. ASSUME NEW a \in Taken(m) PROVE a \in Taken(m2)
      BY Zenon, <1>3, <1>6, <1>9, <1>11, <2>1 DEF Taken
    <3> QED
      BY Zenon, <3>1, <3>2
  <2>3. \A a \in Taken(m) : m2[a].size = m[a].size
    BY Zenon, <1>3, <1>9, <1>11, <2>1 DEF Taken
  <2>4. Part(m2) = Part(m)
    <3>1. \A a \in HeapAddresses : (IF m2[a].free = "no" THEN m2[a].size ELSE 0)
                                 = (IF m[a].free = "no" THEN m[a].size ELSE 0)
      BY Zenon, <1>9, <1>11, <2>1
    <3> QED
      BY Zenon, <3>1 DEF Part
  <2> QED
    BY Zenon, <2>2, <2>3, <2>4 DEF SameTaken
<1> QED
  BY Zenon, <1>7, <1>8, <1>10, <1>12 DEF m2
\* What merge() keeps, whichever of its two steps it takes
MergeKeeps(h, h2) == List(h2) /\ SameTaken(h.memory, h2.memory) /\ h2.used = h.used

\* Two steps keep what each keeps.
LEMMA KeepsTwice ==
  ASSUME NEW h, NEW g, NEW k, MergeKeeps(h, g), MergeKeeps(g, k)
  PROVE  MergeKeeps(h, k)
<1>1. SameTaken(h.memory, k.memory)
  BY Zenon DEF MergeKeeps, SameTaken
<1> QED
  BY Zenon, <1>1 DEF MergeKeeps

\* The forward step of merge(): the block after b is then taken or not there, and b is
\* still the only block that may have a free neighbour.
LEMMA MergeForward ==
  ASSUME NEW h, List(h), NEW b \in InUse(h.memory), h.memory[b].free = "yes",
         MergedBut(h.memory, b),
         NEW g, g = IF IsFree(h, h.memory[b].next) THEN Absorb(h, b) ELSE h
  PROVE  /\ MergeKeeps(h, g) /\ b \in InUse(g.memory) /\ g.memory[b].free = "yes"
         /\ MergedBut(g.memory, b)
         /\ g.memory[b].next # null => g.memory[g.memory[b].next].free = "no"
<1> DEFINE m == h.memory
           n == m[b].next
<1>1. Tiled(m, h.tail, h.committed)
  BY Zenon DEF List
<1>2. n # null => n \in InUse(m) /\ n # b
  <2>1. n # null => n \in InUse(m) /\ n > b /\ n \in Nat /\ b \in Nat
    BY Zenon, <1>1, Neighbours, BlockTypes
  <2> QED
    BY <2>1
<1>3. \A a \in InUse(m) : m[a].free \in {"yes", "no"}
  BY Zenon, <1>1, BlockTypes
<1>4. CASE ~IsFree(h, n)
  <2>1. g = h /\ SameTaken(m, m)
    BY Zenon, <1>4 DEF SameTaken
  <2>2. n # null => m[n].free = "no"
    BY Zenon, <1>2, <1>3, <1>4 DEF IsFree
  <2> QED
    BY Zenon, <2>1, <2>2 DEF MergeKeeps
<1>5. CASE IsFree(h, n)
  <2> DEFINE m2 == g.memory
  <2>1. n # null /\ m[n].free = "yes" /\ g = Absorb(h, b)
    BY Zenon, <1>5 DEF IsFree
  <2>2. List(g) /\ SameTaken(m, m2) /\ g.used = h.used /\ KeepsRest(m, b, m2)
    BY SMT, <2>1, AbsorbList
  <2> HIDE DEF m2
  <2>3. /\ InUse(m2) = InUse(m) \ {n} /\ b \in InUse(m2) /\ m2[b].next = m[n].next
        /\ \A a \in InUse(m2) : m2[a].free = m[a].free /\ (a # b => m2[a].next = m[a].next)
    BY Zenon, <2>2 DEF KeepsRest
  <2>4. m2[b].next # null => m2[m2[b].next].free = "no"
    <3> DEFINE v == m[n].next
    <3> SUFFICES ASSUME v # null PROVE m2[v].free = "no"
      BY Zenon, <2>3
    <3>1. v \in InUse(m) /\ v # b /\ v # n
      BY Zenon, <1>1, <2>1, Neighbours
    <3>2. m[v].free = "no"
      BY Zenon, <1>2, <2>1, <3>1 DEF MergedBut
    <3> QED
      BY Zenon, <2>3, <3>1, <3>2
  <2>5. MergedBut(m2, b)
    <3> SUFFICES ASSUME NEW a \in InUse(m2), a # b, m2[a].free = "yes", m2[a].next # null, m2[a].next # b
                 PROVE  m2[m2[a].next].free = "no"
      BY Zenon DEF MergedBut
    <3> DEFINE x == m[a].next
    <3>1. a \in InUse(m) /\ m[a].free = "yes" /\ m2[a].next = x /\ x # null /\ x # b
      BY Zenon, <2>3
    <3>2. m[x].free = "no" /\ x \in InUse(m) /\ m[x].prev = a
      BY Zenon, <1>1, <3>1 DEF MergedBut, Tiled
    <3>3. x # n
      BY Zenon, <1>1, <2>1, <3>2 DEF Tiled
    <3> QED
      BY Zenon, <2>3, <3>1, <3>2, <3>3
  <2> QED
    BY Zenon, <2>2, <2>3, <2>4, <2>5 DEF m2, MergeKeeps
<1> QED
  BY Zenon, <1>4, <1>5

\* The backward step: no two free blocks are left side by side.
LEMMA MergeBack ==
  ASSUME NEW g, List(g), NEW b \in InUse(g.memory), g.memory[b].free = "yes",
         MergedBut(g.memory, b),
         g.memory[b].next # null => g.memory[g.memory[b].next].free = "no",
         NEW k, k = IF MergesBack(g, b) THEN Absorb(g, g.memory[b].prev) ELSE g
  PROVE  MergeKeeps(g, k) /\ Merged(k.memory)
<1> DEFINE m == g.memory
           p == m[b].prev
<1>1. Tiled(m, g.tail, g.committed)
  BY Zenon DEF List
<1>2. p # null => p \in InUse(m) /\ m[p].next = b /\ p # b
  <2>1. p # null => p \in InUse(m) /\ m[p].next = b
    BY Zenon, <1>1 DEF Tiled
  <2>2. b # null /\ b \in Nat
    BY Zenon, <1>1, BlockTypes
  <2>3. p # null => m[p].next > p /\ p \in Nat
    BY Zenon, <1>1, <2>1, <2>2, Neighbours, BlockTypes
  <2> QED
    BY <2>1, <2>2, <2>3
<1>3. \A a \in InUse(m) : m[a].next = b => a = p
  <2>1. b # null
    BY Zenon, <1>1, BlockTypes
  <2> QED
    BY Zenon, <1>1, <2>1 DEF Tiled
<1>4. CASE ~IsFree(g, p)
  <2>1. k = g /\ SameTaken(m, m)
    BY Zenon, <1>4 DEF SameTaken, MergesBack
  <2>2. p # null => m[p].free # "yes"
    BY Zenon, <1>4 DEF IsFree
  <2>3. \A a \in InUse(m) : a # null
    BY Zenon, <1>1, BlockTypes
  <2>4. Merged(m)
    <3> SUFFICES ASSUME NEW a \in InUse(m), m[a].free = "yes", m[a].next # null
                 PROVE  m[m[a].next].free = "no"
      BY Zenon DEF Merged
    <3>1. CASE a = b
      BY Zenon, <3>1
    <3>2. CASE a # b
      <4>1. m[a].next # b
        BY Zenon, <1>3, <2>2, <2>3
      <4> QED
        BY Zenon, <3>2, <4>1 DEF MergedBut
    <3> QED
      BY Zenon, <3>1, <3>2
  <2> QED
    BY Zenon, <2>1, <2>4 DEF MergeKeeps
<1>5. CASE IsFree(g, p)
  <2> DEFINE m2 == k.memory
  <2>1. p # null /\ m[p].free = "yes" /\ k = Absorb(g, p)
    BY Zenon, <1>5 DEF IsFree, MergesBack
  <2>2. b # null
    BY Zenon, <1>1, BlockTypes
  <2>3. List(k) /\ SameTaken(m, m2) /\ k.used = g.used /\ KeepsRest(m, p, m2)
    BY SMT, <1>2, <2>1, <2>2, AbsorbList
  <2> HIDE DEF m2
  <2>4. /\ InUse(m2) = InUse(m) \ {b} /\ p \in InUse(m2) /\ m2[p].next = m[b].next
        /\ \A a \in InUse(m2) : m2[a].free = m[a].free /\ (a # p => m2[a].next = m[a].next)
    BY Zenon, <1>2, <2>1, <2>3 DEF KeepsRest
  <2>5. Merged(m2)
    <3> SUFFICES ASSUME NEW a \in InUse(m2), m2[a].free = "yes", m2[a].next # null
                 PROVE  m2[m2[a].next].free = "no"
      BY Zenon DEF Merged
    <3> DEFINE x == m2[a].next
    <3>1. CASE a = p
      <4>1. x = m[b].next /\ m[x].free = "no" /\ x # null
        BY Zenon, <2>4, <3>1
      <4>2. x \in InUse(m) /\ x # b
        <5> DEFINE y == m[b].next
        <5>1. y \in InUse(m) /\ y > b
          BY Zenon, <1>1, <4>1, Neighbours
        <5>2. y \in Nat /\ b \in Nat
          BY Zenon, <1>1, <5>1, BlockTypes
        <5>3. y # b
          BY <5>1, <5>2
        <5> QED
          BY Zenon, <4>1, <5>1, <5>3
      <4> QED
        BY Zenon, <2>4, <4>1, <4>2
    <3>2. CASE a # p
      <4>1. a \in InUse(m) /\ a # b /\ m[a].free = "yes" /\ x = m[a].next /\ x # null
        BY Zenon, <2>4, <3>2
      <4>2. x # b /\ x \in InUse(m)
        BY Zenon, <1>1, <1>3, <3>2, <4>1 DEF Tiled
      <4>3. m[x].free = "no"
        BY Zenon, <4>1, <4>2 DEF MergedBut
      <4> QED
        BY Zenon, <2>4, <4>2, <4>3
    <3> QED
      BY Zenon, <3>1, <3>2
  <2> QED
    BY Zenon, <2>3, <2>5 DEF m2, MergeKeeps
<1> QED
  BY Zenon, <1>4, <1>5

\* merge() of a free block whose neighbours may be free: no two free blocks are left side
\* by side, and the taken blocks are as they were.
LEMMA MergeSound ==
  ASSUME NEW h, List(h), NEW b \in InUse(h.memory), h.memory[b].free = "yes",
         MergedBut(h.memory, b), NEW k, k = merge(h, b)
  PROVE  MergeKeeps(h, k) /\ Merged(k.memory)
<1> DEFINE g == IF IsFree(h, h.memory[b].next) THEN Absorb(h, b) ELSE h
<1>1. /\ k = IF MergesBack(g, b) THEN Absorb(g, g.memory[b].prev) ELSE g
      /\ g = IF IsFree(h, h.memory[b].next) THEN Absorb(h, b) ELSE h
  BY Zenon DEF merge
<1> HIDE DEF g
<1>2. /\ MergeKeeps(h, g) /\ b \in InUse(g.memory) /\ g.memory[b].free = "yes"
      /\ MergedBut(g.memory, b)
      /\ g.memory[b].next # null => g.memory[g.memory[b].next].free = "no"
  BY SMT, <1>1, MergeForward
<1>3. List(g)
  BY Zenon, <1>2 DEF MergeKeeps
<1>4. MergeKeeps(g, k) /\ Merged(k.memory)
  BY Zenon, <1>1, <1>2, <1>3, MergeBack
<1> QED
  BY Zenon, <1>2, <1>4, KeepsTwice
----------------------------------------------------------------------------
(* A block is cut in two                                                     *)

\* What split() does to the headers and the tail: b keeps s, and n is the block for
\* the rest.
Cuts(m, t, b, s, m2, t2) ==
    LET n == b + 2 + s
        v == m[b].next
    IN /\ m2 \in [HeapAddresses -> Cell]
       /\ m2[n].size = m[b].size - s - 2 /\ m2[n].free = "yes" /\ m2[n].next = v /\ m2[n].prev = b
       /\ m2[b].size = s /\ m2[b].free = m[b].free /\ m2[b].next = n /\ m2[b].prev = m[b].prev
       /\ v # null => /\ m2[v].size = m[v].size /\ m2[v].free = m[v].free
                      /\ m2[v].next = m[v].next /\ m2[v].prev = n
       /\ \A a \in HeapAddresses \ {b, n, v} : m2[a] = m[a]
       /\ t2 = IF v = null THEN n ELSE t

\* The rest begins inside the block that is cut, where no other header is.
LEMMA RestIsInside ==
  ASSUME NEW m, NEW t, NEW c, Tiled(m, t, c), NEW b \in InUse(m),
         NEW s \in Nat \ {0}, m[b].size >= s + 3, NEW n, n = b + 2 + s
  PROVE  n \in HeapAddresses /\ n \in Nat /\ n > b /\ n < After(m, b) /\ n \notin InUse(m)
<1>1. b \in Nat /\ m[b].size \in Nat /\ After(m, b) <= c
  BY Zenon, BlockTypes
<1>2. c \in 0..Reserved /\ \A x, y \in InUse(m) : x < y => After(m, x) <= y
  BY Zenon DEF Tiled
<1>3. n \in Nat /\ n > b /\ n < After(m, b) /\ After(m, b) \in Nat
  BY <1>1 DEF After
<1>4. n \in HeapAddresses
  BY <1>1, <1>2, <1>3, StepHoldsABlock DEF HeapAddresses
<1>5. ASSUME n \in InUse(m) PROVE FALSE
  <2>1. After(m, b) <= n
    BY Zenon, <1>2, <1>3, <1>5
  <2> QED
    BY <1>3, <2>1
<1> QED
  BY Zenon, <1>3, <1>4, <1>5

\* The list stays a tiling with the block for the rest in it.
LEMMA CutTiles ==
  ASSUME NEW m, NEW t, NEW c, Tiled(m, t, c), NEW b \in InUse(m),
         NEW s \in Nat \ {0}, m[b].size >= s + 3, NEW n, n = b + 2 + s,
         NEW m2, NEW t2, Cuts(m, t, b, s, m2, t2)
  PROVE  Tiled(m2, t2, c) /\ InUse(m2) = InUse(m) \cup {n}
<1> DEFINE v == m[b].next
<1>1. n \in HeapAddresses /\ n \in Nat /\ n > b /\ n < After(m, b) /\ n \notin InUse(m)
  BY Zenon, RestIsInside
<1>2. /\ m2 \in [HeapAddresses -> Cell]
      /\ m2[n].size = m[b].size - s - 2 /\ m2[n].free = "yes" /\ m2[n].next = v /\ m2[n].prev = b
      /\ m2[b].size = s /\ m2[b].free = m[b].free /\ m2[b].next = n /\ m2[b].prev = m[b].prev
      /\ v # null => /\ m2[v].size = m[v].size /\ m2[v].free = m[v].free
                     /\ m2[v].next = m[v].next /\ m2[v].prev = n
      /\ \A a \in HeapAddresses \ {b, n, v} : m2[a] = m[a]
      /\ t2 = IF v = null THEN n ELSE t
  BY Zenon DEF Cuts
<1>3. v # null => v \in InUse(m) /\ v = After(m, b) /\ v > b /\ m[v].prev = b
  BY Zenon, Neighbours
<1> HIDE DEF v
<1>4. /\ b \in HeapAddresses /\ b \in Nat /\ m[b].size \in Nat
      /\ (v # null => v \in HeapAddresses /\ v \in Nat)
      /\ \A a \in InUse(m) : a \in HeapAddresses
      /\ \A a \in InUse(m) : a # n /\ a # null /\ a \in Nat
  BY Zenon, <1>1, <1>3, BlockTypes
<1>5. n # null /\ b # n /\ (v # null => v # b) /\ v # n
  <2>1. n # null
    BY <1>1 DEF null
  <2>2. v # null => v # b
    BY <1>3, <1>4
  <2> QED
    BY Zenon, <1>3, <1>4, <2>1, <2>2
<1>6. \A a \in InUse(m) : a # b =>
          m2[a].size = m[a].size /\ m2[a].next = m[a].next /\ (a # v => m2[a].prev = m[a].prev)
  BY Zenon, <1>2, <1>4
<1>7. m2[n].size >= 1 /\ After(m2, n) = After(m, b) /\ m2[b].size >= 1 /\ After(m2, b) = n
  BY <1>2, <1>4 DEF After
<1>8. InUse(m2) = InUse(m) \cup {n}
  <2>1. NoBlock.size = 0 /\ ~(NoBlock.size >= 1)
    BY DEF NoBlock
  <2>2. ASSUME NEW a \in InUse(m) PROVE m2[a] # NoBlock
    <3>1. m2[a].size >= 1
      BY Zenon, <1>6, <1>7, BlockTypes
    <3> QED
      BY Zenon, <2>1, <3>1
  <2>3. m2[n] # NoBlock
    BY Zenon, <1>7, <2>1
  <2>4. ASSUME NEW a \in HeapAddresses, a \notin InUse(m), a # n PROVE m2[a] = NoBlock
    <3>1. \A x \in HeapAddresses : x # null
      BY DEF HeapAddresses, null
    <3>2. a # b /\ a # v
      BY Zenon, <1>3, <2>4, <3>1
    <3> QED
      BY Zenon, <1>2, <2>4, <3>2 DEF InUse
  <2> QED
    BY Zenon, <1>1, <2>2, <2>3, <2>4 DEF InUse
<1>9. \A a \in InUse(m) : a # b => After(m2, a) = After(m, a)
  BY Zenon, <1>6 DEF After
<1>10. 0 \in InUse(m2) /\ t2 \in InUse(m2) /\ m2[t2].next = null
  <2>1. 0 \in InUse(m) /\ t \in InUse(m) /\ m[t].next = null
    BY Zenon DEF Tiled
  <2>2. CASE v = null
    BY Zenon, <1>2, <1>8, <2>1, <2>2
  <2>3. CASE v # null
    <3>1. t2 = t /\ t # b
      BY Zenon, <1>2, <2>1, <2>3 DEF v
    <3> QED
      BY Zenon, <1>6, <1>8, <2>1, <3>1
  <2> QED
    BY Zenon, <2>2, <2>3
<1>11. \A a \in InUse(m2) : m2[a].size >= 1 /\ After(m2, a) <= c
  <2>1. \A a \in InUse(m) : m[a].size >= 1 /\ After(m, a) <= c /\ After(m, a) \in Nat
    BY Zenon, BlockTypes
  <2>2. n <= c
    <3>1. c \in Nat
      BY StepHoldsABlock DEF Tiled
    <3> QED
      BY <1>1, <2>1, <3>1
  <2> QED
    BY Zenon, <1>6, <1>7, <1>8, <1>9, <2>1, <2>2
<1>12. \A a \in InUse(m2) : m2[a].next = null => a = t2 /\ After(m2, a) = c
  <2>1. \A a \in InUse(m) : m[a].next = null => a = t /\ After(m, a) = c
    BY Zenon DEF Tiled
  <2> SUFFICES ASSUME NEW a \in InUse(m2), m2[a].next = null PROVE a = t2 /\ After(m2, a) = c
    BY Zenon
  <2>2. a # b
    BY Zenon, <1>2, <1>5
  <2>3. CASE a = n
    <3>1. v = null /\ t2 = n
      BY Zenon, <1>2, <2>3
    <3>2. After(m, b) = c
      BY Zenon, <2>1, <3>1 DEF v
    <3> QED
      BY Zenon, <1>7, <2>3, <3>1, <3>2
  <2>4. CASE a # n
    <3>1. a \in InUse(m) /\ m[a].next = null
      BY Zenon, <1>6, <1>8, <2>2, <2>4
    <3>2. a = t /\ After(m2, a) = c
      BY Zenon, <1>9, <2>1, <2>2, <3>1
    <3>3. v # null
      BY Zenon, <2>1, <2>2, <3>2 DEF v
    <3> QED
      BY Zenon, <1>2, <3>2, <3>3
  <2> QED
    BY Zenon, <2>3, <2>4
<1>13. \A a \in InUse(m2) : m2[a].next # null =>
           m2[a].next \in InUse(m2) /\ m2[a].next = After(m2, a) /\ m2[m2[a].next].prev = a
  <2> SUFFICES ASSUME NEW a \in InUse(m2), m2[a].next # null
               PROVE  m2[a].next \in InUse(m2) /\ m2[a].next = After(m2, a) /\ m2[m2[a].next].prev = a
    BY Zenon
  <2>1. CASE a = b
    BY Zenon, <1>2, <1>7, <1>8, <2>1
  <2>2. CASE a = n
    BY Zenon, <1>2, <1>3, <1>7, <1>8, <2>2
  <2>3. CASE a # b /\ a # n
    <3> DEFINE x == m[a].next
    <3>1. a \in InUse(m) /\ m2[a].next = x /\ x # null
      BY Zenon, <1>6, <1>8, <2>3
    <3>2. x \in InUse(m) /\ x = After(m, a) /\ m[x].prev = a
      BY Zenon, <3>1 DEF Tiled
    <3>3. x # v
      BY Zenon, <1>3, <2>3, <3>1, <3>2
    <3>4. m2[x].prev = a
      BY Zenon, <1>2, <1>6, <3>2, <3>3
    <3> QED
      BY Zenon, <1>8, <1>9, <2>3, <3>1, <3>2, <3>4
  <2> QED
    BY Zenon, <2>1, <2>2, <2>3
<1>14. \A a \in InUse(m2) : m2[a].prev = null => a = 0
  <2>1. \A a \in InUse(m) : m[a].prev = null => a = 0
    BY Zenon DEF Tiled
  <2> SUFFICES ASSUME NEW a \in InUse(m2), m2[a].prev = null PROVE a = 0
    BY Zenon
  <2>2. a # n /\ a \in InUse(m)
    BY Zenon, <1>2, <1>4, <1>8
  <2>3. a # v
    BY Zenon, <1>2, <1>4, <1>5, <2>2
  <2> QED
    BY Zenon, <1>2, <1>6, <2>1, <2>2, <2>3
<1>15. \A a \in InUse(m2) : m2[a].prev # null => m2[a].prev \in InUse(m2) /\ m2[m2[a].prev].next = a
  <2> SUFFICES ASSUME NEW a \in InUse(m2), m2[a].prev # null
               PROVE  m2[a].prev \in InUse(m2) /\ m2[m2[a].prev].next = a
    BY Zenon
  <2>1. CASE a = n
    BY Zenon, <1>2, <1>8, <2>1
  <2>2. CASE a = v
    <3>1. m2[a].prev = n
      BY Zenon, <1>2, <1>8, <1>4, <1>5, <2>2
    <3> QED
      BY Zenon, <1>2, <1>8, <2>2, <3>1
  <2>3. CASE a # n /\ a # v
    <3> DEFINE p == m[a].prev
    <3>1. a \in InUse(m) /\ m2[a].prev = p /\ p # null
      BY Zenon, <1>2, <1>6, <1>8, <2>3
    <3>2. p \in InUse(m) /\ m[p].next = a
      BY Zenon, <3>1 DEF Tiled
    <3>3. p # b
      BY Zenon, <2>3, <3>2 DEF v
    <3> QED
      BY Zenon, <1>6, <1>8, <3>1, <3>2, <3>3
  <2> QED
    BY Zenon, <2>1, <2>2, <2>3
<1>16. \A x, y \in InUse(m2) : x < y => After(m2, x) <= y
  <2> SUFFICES ASSUME NEW x \in InUse(m2), NEW y \in InUse(m2), x < y PROVE After(m2, x) <= y
    BY Zenon
  <2>1. \A a, e \in InUse(m) : a < e => After(m, a) <= e
    BY Zenon DEF Tiled
  <2>2. \A a \in InUse(m) : a \in Nat /\ After(m, a) \in Nat /\ After(m, a) > a
    BY Zenon, BlockTypes
  <2>3. CASE x = b
    <3>1. y = n \/ (y \in InUse(m) /\ After(m, b) <= y)
      BY Zenon, <1>8, <2>1, <2>3
    <3> QED
      BY <1>1, <1>7, <2>2, <2>3, <3>1
  <2>4. CASE x = n
    <3>1. y \in InUse(m) /\ n < y
      BY <1>1, <1>8, <2>4
    <3>2. After(m, b) <= y
      <4>1. b < y
        BY <1>1, <1>4, <2>2, <3>1
      <4> QED
        BY Zenon, <2>1, <3>1, <4>1
    <3> QED
      BY Zenon, <1>7, <2>4, <3>2
  <2>5. CASE x # b /\ x # n /\ y = n
    <3>1. x \in InUse(m) /\ x \in Nat /\ x < n
      BY Zenon, <1>8, <2>2, <2>5
    <3>2. x < b
      <4>1. ASSUME b < x PROVE FALSE
        <5>1. After(m, b) <= x
          BY Zenon, <2>1, <3>1, <4>1
        <5> QED
          BY <1>1, <2>2, <3>1, <5>1
      <4> QED
        BY <1>4, <2>5, <3>1, <4>1
    <3>3. After(m, x) <= b
      BY Zenon, <2>1, <3>1, <3>2
    <3>4. After(m, x) <= n
      BY <1>1, <1>4, <2>2, <3>1, <3>3
    <3> QED
      BY Zenon, <1>9, <2>5, <3>1, <3>4
  <2>6. CASE x # b /\ x # n /\ y # n
    BY Zenon, <1>8, <1>9, <2>1, <2>6
  <2> QED
    BY Zenon, <2>3, <2>4, <2>5, <2>6
<1>17. c \in 0..Reserved
  BY Zenon DEF Tiled
<1> QED
  BY ZenonT(30), <1>2, <1>8, <1>10, <1>11, <1>12, <1>13, <1>14, <1>15, <1>16, <1>17 DEF Tiled
\* The headers split() writes
RestCell(x, s, b) == [size |-> x.size - s - Header, free |-> "yes", next |-> x.next, prev |-> b]
KeptCell(x, s, n) == [x EXCEPT !.next = n, !.size = s]
RestOf(x, s, b, z) ==
    z \in Cell /\ z.size = x.size - s - 2 /\ z.free = "yes" /\ z.next = x.next /\ z.prev = b
KeptOf(x, s, n, z) ==
    z \in Cell /\ z.size = s /\ z.free = x.free /\ z.next = n /\ z.prev = x.prev

\* They are the headers of two parts of the block.
LEMMA CutHeaders ==
  ASSUME NEW x \in Cell, NEW s \in Nat, x.size >= s + 3, NEW b \in Links, NEW n \in Links
  PROVE  RestOf(x, s, b, RestCell(x, s, b)) /\ KeptOf(x, s, n, KeptCell(x, s, n))
<1>1. x.size - s - Header \in Nat /\ x.size - s - Header = x.size - s - 2
  BY DEF Header, Cell
<1>2. RestOf(x, s, b, RestCell(x, s, b))
  BY Zenon, <1>1 DEF RestOf, RestCell, Cell
<1>3. KeptOf(x, s, n, KeptCell(x, s, n))
  BY Zenon DEF KeptOf, KeptCell, Cell
<1> QED
  BY Zenon, <1>2, <1>3

\* split() does that to a heap, and nothing to its other fields.
LEMMA CutFacts ==
  ASSUME NEW h \in Heaps, NEW b \in HeapAddresses, NEW s \in Nat, h.memory[b].size >= s + 3,
         NEW n \in HeapAddresses, n = b + 2 + s, n # b,
         NEW v \in Links, v = h.memory[b].next, v # b, v # n,
         NEW h2, h2 = split(h, b, s)
  PROVE  Cuts(h.memory, h.tail, b, s, h2.memory, h2.tail) /\ SameBut(h, h2)
<1> DEFINE m == h.memory
           rest == RestCell(m[b], s, b)
           kept == KeptCell(m[b], s, n)
           g1 == Set(h, n, rest)
           g2 == SetPrev(g1, v, n)
<1>1. m[b] \in Cell /\ b \in Links /\ n \in Links /\ m[b].size \in Nat
  BY DEF Heaps, Cell, Links
<1>2. RestOf(m[b], s, b, rest) /\ KeptOf(m[b], s, n, kept)
  BY SMT, <1>1, CutHeaders
<1>3. h2 = Set(g2, b, kept)
  <2>1. Splits(m[b].size - s) /\ b + Header + s = n
    BY <1>1 DEF Splits, Header, Alignment
  <2> QED
    BY Zenon, <2>1 DEF split, RestCell, KeptCell
<1> HIDE DEF rest, kept
<1>4. Stored(h, n, rest, g1)
  BY Zenon, <1>2, SetFacts DEF RestOf
<1> HIDE DEF g1
<1>5. PrevStored(g1, v, n, g2)
  <2>1. g1 \in Heaps
    BY Zenon, <1>4 DEF Stored, SameBut
  <2> QED
    BY Zenon, <1>1, <2>1, SetPrevFacts
<1> HIDE DEF g2
<1>6. Stored(g2, b, kept, h2)
  <2>1. g2 \in Heaps
    BY Zenon, <1>5 DEF PrevStored, SameBut
  <2>2. Stored(g2, b, kept, Set(g2, b, kept))
    BY Zenon, <1>2, <2>1, SetFacts DEF KeptOf
  <2> QED
    BY Zenon, <1>3, <2>2
<1>7. SameBut(h, h2) /\ h2.tail = IF v = null THEN n ELSE h.tail
  BY Zenon, <1>4, <1>5, <1>6 DEF Stored, PrevStored, SameBut
<1>8. h2.memory[b] = kept /\ h2.memory[n] = rest
  BY Zenon, <1>4, <1>5, <1>6 DEF Stored, PrevStored
<1>9. \A a \in HeapAddresses \ {b, n, v} : h2.memory[a] = m[a]
  BY Zenon, <1>4, <1>5, <1>6 DEF Stored, PrevStored
<1>10. v # null => h2.memory[v] = g2.memory[v] /\ g1.memory[v] = m[v]
  BY Zenon, <1>4, <1>6 DEF Links, Stored
<1>11. v # null => /\ h2.memory[v].size = m[v].size /\ h2.memory[v].free = m[v].free
                   /\ h2.memory[v].next = m[v].next /\ h2.memory[v].prev = n
  BY Zenon, <1>5, <1>10 DEF PrevStored
<1>12. KeptOf(m[b], s, n, h2.memory[b]) /\ RestOf(m[b], s, b, h2.memory[n])
  BY Zenon, <1>2, <1>8
<1>13. /\ h2.memory[n].size = m[b].size - s - 2 /\ h2.memory[n].free = "yes"
       /\ h2.memory[n].next = v /\ h2.memory[n].prev = b
  BY Zenon, <1>12 DEF RestOf
<1>14. /\ h2.memory[b].size = s /\ h2.memory[b].free = m[b].free
       /\ h2.memory[b].next = n /\ h2.memory[b].prev = m[b].prev
  BY Zenon, <1>12 DEF KeptOf
<1>15. h2.memory \in [HeapAddresses -> Cell]
  BY Zenon, <1>7 DEF SameBut
<1> QED
  BY Zenon, <1>7, <1>9, <1>11, <1>13, <1>14, <1>15 DEF Cuts

\* A block is marked free or taken: the list is the same.
LEMMA RetagTiles ==
  ASSUME NEW m, NEW t, NEW c, Tiled(m, t, c), NEW b \in InUse(m),
         NEW m2 \in [HeapAddresses -> Cell],
         m2[b].size = m[b].size, m2[b].next = m[b].next, m2[b].prev = m[b].prev,
         \A a \in HeapAddresses \ {b} : m2[a] = m[a]
  PROVE  Tiled(m2, t, c) /\ InUse(m2) = InUse(m)
<1>1. \A a \in HeapAddresses : m2[a].size = m[a].size /\ m2[a].next = m[a].next /\ m2[a].prev = m[a].prev
  BY Zenon
<1>2. InUse(m2) = InUse(m)
  <2>1. NoBlock.size = 0 /\ ~(NoBlock.size >= 1)
    BY DEF NoBlock
  <2>2. m2[b] # NoBlock
    BY Zenon, <2>1, BlockTypes
  <2> QED
    BY Zenon, <2>2 DEF InUse
<1>3. \A a \in InUse(m) : m2[a].size = m[a].size /\ m2[a].next = m[a].next /\ m2[a].prev = m[a].prev
                          /\ After(m2, a) = After(m, a)
  BY Zenon, <1>1 DEF InUse, After
<1>4. c \in 0..Reserved /\ 0 \in InUse(m) /\ t \in InUse(m) /\ m[t].next = null
  BY Zenon DEF Tiled
<1>5. \A a \in InUse(m2) : m2[a].size >= 1 /\ After(m2, a) <= c
  BY Zenon, <1>2, <1>3 DEF Tiled
<1>6. \A a \in InUse(m2) : m2[a].next = null => a = t /\ After(m2, a) = c
  <2>1. \A a \in InUse(m) : m[a].next = null => a = t /\ After(m, a) = c
    BY Zenon DEF Tiled
  <2> QED
    BY Zenon, <1>2, <1>3, <2>1
<1>7. \A a \in InUse(m2) : m2[a].next # null =>
          m2[a].next \in InUse(m2) /\ m2[a].next = After(m2, a) /\ m2[m2[a].next].prev = a
  <2>1. \A a \in InUse(m) : m[a].next # null =>
            m[a].next \in InUse(m) /\ m[a].next = After(m, a) /\ m[m[a].next].prev = a
    BY Zenon DEF Tiled
  <2> TAKE a \in InUse(m2)
  <2> HAVE m2[a].next # null
  <2>2. a \in InUse(m) /\ m2[a].next = m[a].next /\ After(m2, a) = After(m, a)
    BY Zenon, <1>2, <1>3
  <2>3. m[a].next \in InUse(m) /\ m[a].next = After(m, a) /\ m[m[a].next].prev = a
    BY Zenon, <2>1, <2>2
  <2>4. m2[m[a].next].prev = a
    BY Zenon, <1>3, <2>3
  <2> QED
    BY Zenon, <1>2, <2>2, <2>3, <2>4
<1>8. \A a \in InUse(m2) : m2[a].prev = null => a = 0
  BY Zenon, <1>2, <1>3 DEF Tiled
<1>9. \A a \in InUse(m2) : m2[a].prev # null => m2[a].prev \in InUse(m2) /\ m2[m2[a].prev].next = a
  <2>1. \A a \in InUse(m) : m[a].prev # null => m[a].prev \in InUse(m) /\ m[m[a].prev].next = a
    BY Zenon DEF Tiled
  <2> TAKE a \in InUse(m2)
  <2> HAVE m2[a].prev # null
  <2>2. a \in InUse(m) /\ m2[a].prev = m[a].prev
    BY Zenon, <1>2, <1>3
  <2>3. m[a].prev \in InUse(m) /\ m[m[a].prev].next = a
    BY Zenon, <2>1, <2>2
  <2>4. m2[m[a].prev].next = a
    BY Zenon, <1>3, <2>3
  <2> QED
    BY Zenon, <1>2, <2>2, <2>3, <2>4
<1>10. \A x, y \in InUse(m2) : x < y => After(m2, x) <= y
  BY Zenon, <1>2, <1>3 DEF Tiled
<1> QED
  BY ZenonT(30), <1>2, <1>3, <1>4, <1>5, <1>6, <1>7, <1>8, <1>9, <1>10 DEF Tiled
\* m2 is m with b marked f.
Marked(m, b, f, m2) ==
    /\ m2 \in [HeapAddresses -> Cell]
    /\ m2[b].size = m[b].size /\ m2[b].next = m[b].next /\ m2[b].prev = m[b].prev /\ m2[b].free = f
    /\ \A a \in HeapAddresses \ {b} : m2[a] = m[a]

Mark(h, b, f) == Set(h, b, [h.memory[b] EXCEPT !.free = f])
MarkAndCount(h, b, f, u) == [Mark(h, b, f) EXCEPT !.used = u]
MarkKeeps(h, b, f, u, k) ==
    /\ List(k) /\ k.used = u /\ Marked(h.memory, b, f, k.memory)
    /\ InUse(k.memory) = InUse(h.memory)

\* kmalloc() and kfree() mark a block and set the count: the list is the same.
LEMMA MarkList ==
  ASSUME NEW h, List(h), NEW b \in InUse(h.memory), NEW f \in {"yes", "no"}, NEW u \in Int,
         NEW k, k = MarkAndCount(h, b, f, u)
  PROVE  MarkKeeps(h, b, f, u, k)
<1> DEFINE m == h.memory
           x == [m[b] EXCEPT !.free = f]
           g == Set(h, b, x)
<1>1. h \in Heaps /\ h.head = 0 /\ Tiled(m, h.tail, h.committed)
  BY Zenon DEF List
<1>2. m[b] \in Cell /\ b \in HeapAddresses
  BY Zenon, <1>1, BlockTypes
<1>3. x \in Cell /\ x.size = m[b].size /\ x.next = m[b].next /\ x.prev = m[b].prev /\ x.free = f
  BY <1>2 DEF Cell
<1>4. k = [g EXCEPT !.used = u]
  BY Zenon DEF Mark, MarkAndCount
<1> HIDE DEF x
<1>5. Stored(h, b, x, g)
  BY Zenon, <1>1, <1>2, <1>3, SetFacts
<1> HIDE DEF g
<1>6. g \in Heaps
  BY Zenon, <1>5 DEF Stored, SameBut
<1>7. /\ k \in Heaps /\ k.memory = g.memory /\ k.tail = g.tail /\ k.head = g.head
      /\ k.committed = g.committed /\ k.used = u
  BY Zenon, <1>4, <1>6 DEF Heaps
<1>8. Marked(m, b, f, k.memory)
  BY Zenon, <1>3, <1>5, <1>7 DEF Stored, SameBut, Marked
<1>9. Tiled(k.memory, h.tail, h.committed) /\ InUse(k.memory) = InUse(m)
  <2> DEFINE m2 == k.memory
  <2>1. /\ m2 \in [HeapAddresses -> Cell]
        /\ m2[b].size = m[b].size /\ m2[b].next = m[b].next /\ m2[b].prev = m[b].prev
        /\ \A a \in HeapAddresses \ {b} : m2[a] = m[a]
    BY Zenon, <1>8 DEF Marked
  <2> HIDE DEF m2
  <2>2. Tiled(m2, h.tail, h.committed) /\ InUse(m2) = InUse(m)
    BY SMT, <1>1, <2>1, RetagTiles
  <2> QED
    BY Zenon, <2>2 DEF m2
<1>10. k.tail = h.tail /\ k.head = h.head /\ k.committed = h.committed
  BY Zenon, <1>5, <1>7 DEF Stored, SameBut
<1> QED
  BY Zenon, <1>1, <1>7, <1>8, <1>9, <1>10 DEF List, MarkKeeps

\* h2 is h with the free block b cut in two free ones, b with s and n.
CutKeeps(h, b, s, n, h2) ==
    /\ MergeKeeps(h, h2) /\ InUse(h2.memory) = InUse(h.memory) \cup {n} /\ n \notin InUse(h.memory)
    /\ h2.memory[b].next = n /\ h2.memory[b].free = "yes" /\ h2.memory[b].size = s
    /\ h2.memory[n].next = h.memory[b].next /\ h2.memory[n].free = "yes"
    /\ \A a \in InUse(h.memory) :
        a # b => h2.memory[a].free = h.memory[a].free /\ h2.memory[a].next = h.memory[a].next

\* A free block is cut in two free ones: the taken blocks are as they were.
LEMMA CutList ==
  ASSUME NEW h, List(h), NEW b \in InUse(h.memory), h.memory[b].free = "yes",
         NEW s \in Nat \ {0}, h.memory[b].size >= s + 3, NEW n, n = b + 2 + s,
         NEW h2, h2 = split(h, b, s)
  PROVE  CutKeeps(h, b, s, n, h2)
<1> DEFINE m == h.memory
           v == m[b].next
           m2 == h2.memory
<1>1. h \in Heaps /\ h.head = 0 /\ Tiled(m, h.tail, h.committed)
  BY Zenon DEF List
<1>2. n \in HeapAddresses /\ n \in Nat /\ n > b /\ n \notin InUse(m)
  BY SMT, <1>1, RestIsInside
<1>3. b \in HeapAddresses /\ v \in Links /\ b # null /\ \A a \in InUse(m) : a \in HeapAddresses /\ a # null
  BY Zenon, <1>1, BlockTypes
<1>4. v # b /\ v # n /\ b # n
  <2>1. v # null => v \in InUse(m) /\ v > b /\ v \in Nat /\ b \in Nat
    BY Zenon, <1>1, Neighbours, BlockTypes
  <2>2. n # null
    BY <1>2 DEF null
  <2>3. v # b
    BY <1>3, <2>1
  <2> QED
    BY Zenon, <1>2, <2>1, <2>2, <2>3
<1>5. Cuts(m, h.tail, b, s, m2, h2.tail) /\ SameBut(h, h2)
  <2>1. s \in Nat
    OBVIOUS
  <2> QED
    BY SMT, <1>1, <1>2, <1>3, <1>4, <2>1, CutFacts
<1>6. Tiled(m2, h2.tail, h.committed) /\ InUse(m2) = InUse(m) \cup {n}
  BY SMT, <1>1, <1>5, CutTiles
<1>7. List(h2) /\ h2.used = h.used
  BY Zenon, <1>1, <1>5, <1>6 DEF List, SameBut
<1>8. /\ m2[n].free = "yes" /\ m2[n].next = v
      /\ m2[b].size = s /\ m2[b].free = m[b].free /\ m2[b].next = n
      /\ v # null => m2[v].size = m[v].size /\ m2[v].free = m[v].free /\ m2[v].next = m[v].next
      /\ \A a \in HeapAddresses \ {b, n, v} : m2[a] = m[a]
  BY Zenon, <1>5 DEF Cuts
<1> HIDE DEF m2, v
<1>9. \A a \in HeapAddresses : a # b /\ a # n =>
          m2[a].free = m[a].free /\ m2[a].next = m[a].next /\ m2[a].size = m[a].size
  <2>1. \A a \in HeapAddresses : a # null
    BY DEF HeapAddresses, null
  <2> QED
    BY Zenon, <1>8, <2>1
<1>10. m[b].free = "yes" /\ m2[b].free = "yes" /\ m2[n].free = "yes" /\ m[n].free = "no" /\ m[n].size = 0
  <2>1. NoBlock.free = "no" /\ NoBlock.size = 0 /\ m[n] = NoBlock
    BY <1>2 DEF NoBlock, InUse
  <2> QED
    BY Zenon, <1>8, <2>1
<1>11. SameTaken(m, m2)
  <2>1. "yes" # "no"
    OBVIOUS
  <2>2. Taken(m2) = Taken(m)
    <3>1. ASSUME NEW a \in Taken(m2) PROVE a \in Taken(m)
      BY Zenon, <1>3, <1>6, <1>9, <1>10, <2>1 DEF Taken
    <3>2. ASSUME NEW a \in Taken(m) PROVE a \in Taken(m2)
      BY Zenon, <1>2, <1>3, <1>6, <1>9, <1>10, <2>1 DEF Taken
    <3> QED
      BY Zenon, <3>1, <3>2
  <2>3. \A a \in Taken(m) : m2[a].size = m[a].size
    BY Zenon, <1>2, <1>3, <1>9, <1>10, <2>1 DEF Taken
  <2>4. Part(m2) = Part(m)
    <3>1. \A a \in HeapAddresses : (IF m2[a].free = "no" THEN m2[a].size ELSE 0)
                                 = (IF m[a].free = "no" THEN m[a].size ELSE 0)
      BY Zenon, <1>9, <1>10, <2>1
    <3> QED
      BY Zenon, <3>1 DEF Part
  <2> QED
    BY Zenon, <2>2, <2>3, <2>4 DEF SameTaken
<1>12. \A a \in InUse(m) : a # b => m2[a].free = m[a].free /\ m2[a].next = m[a].next
  BY Zenon, <1>2, <1>3, <1>9
<1>13. MergeKeeps(h, h2)
  BY Zenon, <1>7, <1>11 DEF MergeKeeps, m2
<1> QED
  BY Zenon, <1>2, <1>6, <1>8, <1>12, <1>13 DEF CutKeeps, m2, v
\* split(), whether it cuts or not: b holds what was asked for, and the others have no
\* free neighbours but b.
LEMMA SplitSound ==
  ASSUME NEW h, List(h), Merged(h.memory), NEW b \in InUse(h.memory), h.memory[b].free = "yes",
         NEW w \in Nat \ {0}, h.memory[b].size >= w, NEW cut, cut = split(h, b, w)
  PROVE  /\ MergeKeeps(h, cut) /\ b \in InUse(cut.memory) /\ cut.memory[b].free = "yes"
         /\ cut.memory[b].size >= w /\ MergedBut(cut.memory, b)
<1> DEFINE m == h.memory
           m2 == cut.memory
           v == m[b].next
           n == b + 2 + w
<1>1. Tiled(m, h.tail, h.committed)
  BY Zenon DEF List
<1>2. m[b].size \in Nat
  BY Zenon, <1>1, BlockTypes
<1>3. CASE ~Splits(m[b].size - w)
  <2>1. cut = h /\ SameTaken(m, m)
    BY Zenon, <1>3 DEF split, SameTaken
  <2>2. MergedBut(m, b)
    BY Zenon DEF Merged, MergedBut
  <2> QED
    BY Zenon, <2>1, <2>2 DEF MergeKeeps
<1>4. CASE Splits(m[b].size - w)
  <2>1. m[b].size >= w + 3 /\ w >= w
    BY <1>2, <1>4 DEF Splits, Header, Alignment
  <2>2. n = b + 2 + w
    OBVIOUS
  <2> HIDE DEF n
  <2>3. CutKeeps(h, b, w, n, cut)
    BY SMT, <2>1, <2>2, CutList
  <2>4. /\ MergeKeeps(h, cut) /\ InUse(m2) = InUse(m) \cup {n} /\ n \notin InUse(m)
        /\ m2[b].next = n /\ m2[b].free = "yes" /\ m2[b].size = w
        /\ m2[n].next = v /\ m2[n].free = "yes"
        /\ \A a \in InUse(m) : a # b => m2[a].free = m[a].free /\ m2[a].next = m[a].next
    BY Zenon, <2>3 DEF CutKeeps
  <2> HIDE DEF m2
  <2>5. MergedBut(m2, b)
    <3> SUFFICES ASSUME NEW a \in InUse(m2), a # b, m2[a].free = "yes", m2[a].next # null, m2[a].next # b
                 PROVE  m2[m2[a].next].free = "no"
      BY Zenon DEF MergedBut
    <3>1. CASE a = n
      <4>1. m2[a].next = v /\ v # null /\ v # b
        BY Zenon, <2>4, <3>1
      <4>2. v \in InUse(m) /\ m[v].free = "no"
        BY Zenon, <1>1, <4>1 DEF Tiled, Merged
      <4> QED
        BY Zenon, <2>4, <4>1, <4>2
    <3>2. CASE a # n
      <4> DEFINE x == m[a].next
      <4>1. a \in InUse(m) /\ m[a].free = "yes" /\ m2[a].next = x /\ x # null /\ x # b
        BY Zenon, <2>4, <3>2
      <4>2. x \in InUse(m) /\ m[x].free = "no"
        BY Zenon, <1>1, <4>1 DEF Tiled, Merged
      <4> QED
        BY Zenon, <2>4, <4>1, <4>2
    <3> QED
      BY Zenon, <3>1, <3>2
  <2> QED
    BY Zenon, <2>1, <2>4, <2>5 DEF m2
<1> QED
  BY Zenon, <1>3, <1>4

\* k is h with the block b, free before, taken: its size is counted.
Takes(h, b, k) ==
    /\ b \in InUse(h.memory) /\ b \notin Taken(h.memory)
    /\ Taken(k.memory) = Taken(h.memory) \cup {b}
    /\ \A a \in Taken(h.memory) : k.memory[a].size = h.memory[a].size
    /\ k.used = h.used + k.memory[b].size
    /\ \A a \in HeapAddresses \ {b} : Part(k.memory)[a] = Part(h.memory)[a]
    /\ Part(k.memory)[b] = k.memory[b].size /\ Part(h.memory)[b] = 0

\* kmalloc() takes a free block that is large enough, and leaves no two free blocks side
\* by side.
LEMMA TakeSound ==
  ASSUME NEW h, List(h), Merged(h.memory), NEW w \in Nat \ {0}, Candidates(h, w) # {},
         NEW b, b = FirstBlock(h, w), NEW k, k = TakeBlock(h, w)
  PROVE  List(k) /\ Merged(k.memory) /\ Takes(h, b, k) /\ k.memory[b].size >= w
<1> DEFINE m == h.memory
           cut == split(h, b, w)
           m1 == cut.memory
           m2 == k.memory
<1>1. b \in InUse(m) /\ m[b].free = "yes" /\ m[b].size >= w
  BY Zenon, FirstIsCandidate DEF Candidates, Blocks, InUse
<1>2. /\ MergeKeeps(h, cut) /\ b \in InUse(m1) /\ m1[b].free = "yes"
      /\ m1[b].size >= w /\ MergedBut(m1, b)
  BY Zenon, <1>1, SplitSound
<1>3. k = [Mark(cut, b, "no") EXCEPT !.used = @ + m1[b].size]
  BY Zenon DEF TakeBlock, Mark, CountedSize
<1> HIDE DEF cut
<1>4. List(cut) /\ SameTaken(m, m1) /\ cut.used = h.used /\ cut \in Heaps /\ Tiled(m1, cut.tail, cut.committed)
  BY Zenon, <1>2 DEF MergeKeeps, List
<1>5. /\ b \in HeapAddresses /\ m1[b].size \in Nat /\ m1[b] \in Cell
      /\ \A a \in InUse(m1) : a \in HeapAddresses /\ m1[a].free \in {"yes", "no"}
  BY Zenon, <1>2, <1>4, BlockTypes
<1>6. Mark(cut, b, "no").used = cut.used
  <2> DEFINE x == [m1[b] EXCEPT !.free = "no"]
  <2>1. x \in Cell
    BY Zenon, <1>5 DEF Cell
  <2>2. Mark(cut, b, "no") = Set(cut, b, x)
    BY Zenon DEF Mark
  <2> HIDE DEF x
  <2>3. Stored(cut, b, x, Set(cut, b, x))
    BY Zenon, <1>4, <1>5, <2>1, SetFacts
  <2> QED
    BY Zenon, <2>2, <2>3 DEF Stored, SameBut
<1> DEFINE u == cut.used + m1[b].size
<1>7. k = MarkAndCount(cut, b, "no", u)
  BY Zenon, <1>3, <1>6 DEF MarkAndCount
<1>8. u \in Int
  <2>1. cut.used \in Int
    BY Zenon, <1>4 DEF Heaps
  <2> QED
    BY <1>5, <2>1
<1> HIDE DEF u
<1>9. List(k) /\ k.used = u /\ Marked(m1, b, "no", m2) /\ InUse(m2) = InUse(m1)
  <2>1. "no" \in {"yes", "no"}
    OBVIOUS
  <2>2. MarkKeeps(cut, b, "no", u, k)
    BY Zenon, <1>2, <1>4, <1>7, <1>8, <2>1, MarkList
  <2> QED
    BY Zenon, <2>2 DEF MarkKeeps
<1> HIDE DEF m1, m2
<1>10. /\ m2[b].size = m1[b].size /\ m2[b].next = m1[b].next /\ m2[b].free = "no"
       /\ \A a \in HeapAddresses \ {b} : m2[a] = m1[a]
  BY Zenon, <1>9 DEF Marked
<1>11. Merged(m2)
  <2> SUFFICES ASSUME NEW a \in InUse(m2), m2[a].free = "yes", m2[a].next # null
               PROVE  m2[m2[a].next].free = "no"
    BY Zenon DEF Merged
  <2> DEFINE x == m1[a].next
  <2>1. a # b /\ a \in InUse(m1) /\ m2[a] = m1[a]
    <3>1. a # b
      BY <1>10
    <3> QED
      BY Zenon, <1>5, <1>9, <1>10, <3>1
  <2>2. CASE x = b
    BY Zenon, <1>10, <2>1, <2>2
  <2>3. CASE x # b
    <3>1. x # null /\ m1[a].free = "yes"
      BY Zenon, <2>1
    <3>2. x \in InUse(m1)
      BY Zenon, <1>4, <2>1, <3>1 DEF Tiled
    <3>3. m1[x].free = "no"
      BY Zenon, <1>2, <2>1, <2>3, <3>1 DEF MergedBut
    <3> QED
      BY Zenon, <1>5, <1>10, <2>1, <2>3, <3>2, <3>3
  <2> QED
    BY Zenon, <2>2, <2>3
<1>12. Takes(h, b, k)
  <2>1. "yes" # "no"
    OBVIOUS
  <2>2. Taken(m1) = Taken(m) /\ (\A a \in Taken(m) : m1[a].size = m[a].size) /\ Part(m1) = Part(m)
    BY Zenon, <1>4 DEF SameTaken
  <2>3. b \notin Taken(m)
    BY Zenon, <1>1, <2>1 DEF Taken
  <2>4. Taken(m2) = Taken(m) \cup {b}
    <3>1. Taken(m2) = Taken(m1) \cup {b}
      BY Zenon, <1>2, <1>5, <1>9, <1>10 DEF Taken
    <3> QED
      BY Zenon, <2>2, <3>1
  <2>5. \A a \in Taken(m) : m2[a].size = m[a].size
    <3>1. \A a \in Taken(m1) : m2[a].size = m1[a].size
      BY Zenon, <1>5, <1>10 DEF Taken
    <3> QED
      BY Zenon, <2>2, <3>1
  <2>6. \A a \in HeapAddresses \ {b} : Part(m2)[a] = Part(m)[a]
    <3>1. \A a \in HeapAddresses \ {b} : Part(m2)[a] = Part(m1)[a]
      BY Zenon, <1>10 DEF Part
    <3> QED
      BY Zenon, <2>2, <3>1
  <2>7. Part(m2)[b] = m2[b].size /\ Part(m)[b] = 0
    BY Zenon, <1>1, <1>5, <1>10, <2>1 DEF Part
  <2>8. k.used = h.used + m2[b].size
    BY Zenon, <1>4, <1>9, <1>10 DEF u
  <2> QED
    BY Zenon, <1>1, <2>3, <2>4, <2>5, <2>6, <2>7, <2>8 DEF Takes, m2
<1> QED
  BY Zenon, <1>2, <1>9, <1>10, <1>11, <1>12 DEF m2
\* k is h with the taken block b given back.
Gives(h, b, k) ==
    /\ List(k) /\ Merged(k.memory) /\ Taken(k.memory) = Taken(h.memory) \ {b}
    /\ \A a \in Taken(k.memory) : k.memory[a].size = h.memory[a].size
    /\ k.used = h.used - h.memory[b].size
    /\ \A a \in HeapAddresses \ {b} : Part(k.memory)[a] = Part(h.memory)[a]
    /\ Part(k.memory)[b] = 0 /\ Part(h.memory)[b] = h.memory[b].size

\* kfree() gives back the block b: its size is not counted any more.
LEMMA FreeSound ==
  ASSUME NEW h, List(h), Merged(h.memory), NEW b \in Taken(h.memory),
         NEW k, k = merge(MarkAndCount(h, b, "yes", h.used - h.memory[b].size), b)
  PROVE  Gives(h, b, k)
<1> DEFINE m == h.memory
           u == h.used - m[b].size
           g == MarkAndCount(h, b, "yes", u)
           m1 == g.memory
<1>1. /\ b \in InUse(m) /\ m[b].free = "no"
      /\ h \in Heaps /\ Tiled(m, h.tail, h.committed)
  BY Zenon DEF List, Taken
<1>2. b \in HeapAddresses /\ m[b].size \in Nat /\ \A a \in InUse(m) : a \in HeapAddresses
  BY Zenon, <1>1, BlockTypes
<1>3. u \in Int /\ "yes" \in {"yes", "no"}
  <2>1. h.used \in Int
    BY Zenon, <1>1 DEF Heaps
  <2> QED
    BY <1>2, <2>1
<1> HIDE DEF u
<1>4. MarkKeeps(h, b, "yes", u, g)
  BY Zenon, <1>1, <1>3, MarkList
<1>5. k = merge(g, b)
  BY Zenon DEF u
<1> HIDE DEF g
<1>6. List(g) /\ g.used = u /\ InUse(m1) = InUse(m) /\ Marked(m, b, "yes", m1)
  BY Zenon, <1>4 DEF MarkKeeps
<1>7. /\ m1[b].size = m[b].size /\ m1[b].next = m[b].next /\ m1[b].free = "yes"
      /\ \A a \in HeapAddresses \ {b} : m1[a] = m[a]
  BY Zenon, <1>6 DEF Marked
<1>8. MergedBut(m1, b)
  <2> SUFFICES ASSUME NEW a \in InUse(m1), a # b, m1[a].free = "yes", m1[a].next # null, m1[a].next # b
               PROVE  m1[m1[a].next].free = "no"
    BY Zenon DEF MergedBut
  <2>1. a \in InUse(m) /\ m1[a] = m[a]
    BY Zenon, <1>2, <1>6, <1>7
  <2>2. m[a].next \in InUse(m)
    BY Zenon, <1>1, <2>1 DEF Tiled
  <2>3. m[m[a].next].free = "no"
    BY Zenon, <2>1 DEF Merged
  <2> QED
    BY Zenon, <1>2, <1>7, <2>1, <2>2, <2>3
<1>9. MergeKeeps(g, k) /\ Merged(k.memory)
  BY SMT, <1>1, <1>5, <1>6, <1>7, <1>8, MergeSound
<1>10. List(k) /\ k.used = u /\ SameTaken(m1, k.memory)
  BY Zenon, <1>6, <1>9 DEF MergeKeeps
<1> HIDE DEF m1
<1> DEFINE m2 == k.memory
<1> HIDE DEF m2
<1>11. Taken(m2) = Taken(m1) /\ (\A a \in Taken(m1) : m2[a].size = m1[a].size) /\ Part(m2) = Part(m1)
  BY Zenon, <1>10 DEF SameTaken, m2
<1>12. Taken(m2) = Taken(m) \ {b}
  <2>1. "yes" # "no"
    OBVIOUS
  <2>2. Taken(m1) = Taken(m) \ {b}
    BY Zenon, <1>2, <1>6, <1>7, <2>1 DEF Taken
  <2> QED
    BY Zenon, <1>11, <2>2
<1>13. \A a \in Taken(m2) : m2[a].size = m[a].size
  BY Zenon, <1>2, <1>7, <1>11, <1>12 DEF Taken
<1>14. \A a \in HeapAddresses \ {b} : Part(m2)[a] = Part(m)[a]
  <2>1. \A a \in HeapAddresses \ {b} : Part(m1)[a] = Part(m)[a]
    BY Zenon, <1>7 DEF Part
  <2> QED
    BY Zenon, <1>11, <2>1
<1>15. Part(m2)[b] = 0 /\ Part(m)[b] = m[b].size
  <2>1. "yes" # "no"
    OBVIOUS
  <2>2. Part(m1)[b] = 0 /\ Part(m)[b] = m[b].size
    BY Zenon, <1>1, <1>2, <1>7, <2>1 DEF Part
  <2> QED
    BY Zenon, <1>11, <2>2
<1>16. k.used = h.used - m[b].size
  BY Zenon, <1>10 DEF u
<1> QED
  BY Zenon, <1>9, <1>10, <1>12, <1>13, <1>14, <1>15, <1>16 DEF Gives, m2
----------------------------------------------------------------------------
(* A block is added at the end                                               *)

\* A block with s is stored behind the tail, at the committed end c.
Appends(m, t, c, s, m2) ==
    /\ m2 \in [HeapAddresses -> Cell]
    /\ m2[c].size = s /\ m2[c].free = "yes" /\ m2[c].next = null /\ m2[c].prev = t
    /\ m2[t].size = m[t].size /\ m2[t].free = m[t].free /\ m2[t].next = c /\ m2[t].prev = m[t].prev
    /\ \A a \in HeapAddresses \ {c, t} : m2[a] = m[a]

\* The list stays a tiling, of a larger area.
LEMMA AppendTiles ==
  ASSUME NEW m, NEW t, NEW c, Tiled(m, t, c), NEW s \in Nat \ {0}, c + s + 2 <= Reserved,
         NEW m2, Appends(m, t, c, s, m2), NEW c2, c2 = c + s + 2
  PROVE  /\ Tiled(m2, c, c2) /\ InUse(m2) = InUse(m) \cup {c}
         /\ c \in HeapAddresses /\ c \notin InUse(m) /\ c # null
<1>1. /\ m2 \in [HeapAddresses -> Cell]
      /\ m2[c].size = s /\ m2[c].free = "yes" /\ m2[c].next = null /\ m2[c].prev = t
      /\ m2[t].size = m[t].size /\ m2[t].free = m[t].free /\ m2[t].next = c /\ m2[t].prev = m[t].prev
      /\ \A a \in HeapAddresses \ {c, t} : m2[a] = m[a]
  BY Zenon DEF Appends
<1>2. t \in InUse(m) /\ m[t].next = null /\ After(m, t) = c /\ 0 \in InUse(m) /\ c \in 0..Reserved
  BY Zenon DEF Tiled
<1>3. \A a \in InUse(m) : /\ a \in HeapAddresses /\ a \in Nat /\ a # null /\ m[a].size >= 1
                          /\ After(m, a) \in Nat /\ After(m, a) > a /\ After(m, a) <= c
  BY Zenon, BlockTypes
<1>4. c \in Nat /\ c \in HeapAddresses /\ c # null /\ c2 \in 0..Reserved /\ c < c2 /\ s >= 1
  BY <1>2, StepHoldsABlock DEF HeapAddresses, null
<1>5. \A a \in InUse(m) : a < c
  BY <1>3, <1>4
<1>6. c \notin InUse(m) /\ t # c
  BY <1>2, <1>4, <1>5
<1>7. \A a \in InUse(m) : /\ m2[a].size = m[a].size /\ m2[a].prev = m[a].prev
                          /\ a # t => m2[a].next = m[a].next
  BY Zenon, <1>1, <1>3, <1>6
<1>8. After(m2, c) = c2 /\ \A a \in InUse(m) : After(m2, a) = After(m, a)
  <2>1. After(m2, c) = c2
    BY <1>1, <1>4 DEF After
  <2> QED
    BY Zenon, <1>7, <2>1 DEF After
<1>9. InUse(m2) = InUse(m) \cup {c}
  <2>1. NoBlock.size = 0 /\ ~(NoBlock.size >= 1)
    BY DEF NoBlock
  <2>2. ASSUME NEW a \in InUse(m) PROVE m2[a] # NoBlock
    BY Zenon, <1>3, <1>7, <2>1
  <2>3. m2[c] # NoBlock
    BY Zenon, <1>1, <1>4, <2>1
  <2>4. ASSUME NEW a \in HeapAddresses, a \notin InUse(m), a # c PROVE m2[a] = NoBlock
    BY Zenon, <1>1, <1>2, <2>4 DEF InUse
  <2> QED
    BY Zenon, <1>4, <2>2, <2>3, <2>4 DEF InUse
<1>10. \A a \in InUse(m2) : m2[a].size >= 1 /\ After(m2, a) <= c2
  <2>1. \A a \in InUse(m) : After(m, a) <= c2
    BY <1>3, <1>4
  <2>2. c2 <= c2
    BY <1>4
  <2> QED
    BY Zenon, <1>1, <1>3, <1>4, <1>7, <1>8, <1>9, <2>1, <2>2
<1>11. \A a \in InUse(m2) : m2[a].next = null => a = c /\ After(m2, a) = c2
  <2>1. \A a \in InUse(m) : m[a].next = null => a = t
    BY Zenon DEF Tiled
  <2> QED
    BY Zenon, <1>1, <1>4, <1>7, <1>8, <1>9, <2>1
<1>12. \A a \in InUse(m2) : m2[a].next # null =>
           m2[a].next \in InUse(m2) /\ m2[a].next = After(m2, a) /\ m2[m2[a].next].prev = a
  <2> SUFFICES ASSUME NEW a \in InUse(m2), m2[a].next # null
               PROVE  m2[a].next \in InUse(m2) /\ m2[a].next = After(m2, a) /\ m2[m2[a].next].prev = a
    BY Zenon
  <2>1. a \in InUse(m)
    BY Zenon, <1>1, <1>9
  <2>2. CASE a = t
    BY Zenon, <1>1, <1>2, <1>8, <1>9, <2>2
  <2>3. CASE a # t
    <3> DEFINE x == m[a].next
    <3>1. m2[a].next = x /\ x # null
      BY Zenon, <1>7, <2>1, <2>3
    <3>2. x \in InUse(m) /\ x = After(m, a) /\ m[x].prev = a
      BY Zenon, <2>1, <3>1 DEF Tiled
    <3> QED
      BY Zenon, <1>7, <1>8, <1>9, <2>1, <3>1, <3>2
  <2> QED
    BY Zenon, <2>2, <2>3
<1>13. \A a \in InUse(m2) : m2[a].prev = null => a = 0
  <2>1. \A a \in InUse(m) : m[a].prev = null => a = 0
    BY Zenon DEF Tiled
  <2> QED
    BY Zenon, <1>1, <1>2, <1>3, <1>7, <1>9, <2>1
<1>14. \A a \in InUse(m2) : m2[a].prev # null => m2[a].prev \in InUse(m2) /\ m2[m2[a].prev].next = a
  <2> SUFFICES ASSUME NEW a \in InUse(m2), m2[a].prev # null
               PROVE  m2[a].prev \in InUse(m2) /\ m2[m2[a].prev].next = a
    BY Zenon
  <2>1. CASE a = c
    BY Zenon, <1>1, <1>2, <1>9, <2>1
  <2>2. CASE a # c
    <3> DEFINE p == m[a].prev
    <3>1. a \in InUse(m) /\ m2[a].prev = p /\ p # null /\ a # null
      BY Zenon, <1>3, <1>7, <1>9, <2>2
    <3>2. p \in InUse(m) /\ m[p].next = a
      BY Zenon, <3>1 DEF Tiled
    <3>3. p # t
      BY Zenon, <1>2, <3>1, <3>2
    <3> QED
      BY Zenon, <1>7, <1>9, <3>1, <3>2, <3>3
  <2> QED
    BY Zenon, <2>1, <2>2
<1>15. \A x, y \in InUse(m2) : x < y => After(m2, x) <= y
  <2> SUFFICES ASSUME NEW x \in InUse(m2), NEW y \in InUse(m2), x < y PROVE After(m2, x) <= y
    BY Zenon
  <2>1. x # c
    <3>1. ASSUME x = c PROVE FALSE
      <4>1. y \in InUse(m) \/ y = c
        BY Zenon, <1>9
      <4> QED
        BY <1>3, <1>4, <1>5, <3>1, <4>1
    <3> QED
      BY Zenon, <3>1
  <2>2. x \in InUse(m) /\ After(m2, x) = After(m, x)
    BY Zenon, <1>8, <1>9, <2>1
  <2>3. CASE y = c
    BY Zenon, <1>3, <2>2, <2>3
  <2>4. CASE y # c
    BY Zenon, <1>9, <2>2, <2>4 DEF Tiled
  <2> QED
    BY Zenon, <2>3, <2>4
<1>16. 0 \in InUse(m2) /\ c \in InUse(m2)
  BY Zenon, <1>2, <1>9
<1>17. Tiled(m2, c, c2)
  BY ZenonT(30), <1>1, <1>4, <1>10, <1>11, <1>12, <1>13, <1>14, <1>15, <1>16 DEF Tiled
<1> QED
  BY Zenon, <1>4, <1>6, <1>9, <1>17
\* The three fields grow() sets at the end
Extend(h, t, d, c) == [h EXCEPT !.tail = t, !.head = d, !.committed = c]
Extended(h, t, d, c, h2) ==
    /\ h2 \in Heaps /\ h2.memory = h.memory
    /\ h2.tail = t /\ h2.head = d /\ h2.committed = c /\ h2.used = h.used

\* Nothing else changes.
LEMMA ExtendFacts ==
  ASSUME NEW h \in Heaps, NEW t \in Links, NEW d \in Links, NEW c \in Nat
  PROVE  Extended(h, t, d, c, Extend(h, t, d, c))
BY Zenon DEF Extend, Extended, Heaps

\* The header grow() writes
NewCell(s, p) == [size |-> s, free |-> "yes", next |-> null, prev |-> p]
IsNew(s, p, x) == x \in Cell /\ x.size = s /\ x.free = "yes" /\ x.next = null /\ x.prev = p

\* It is the header of a free block at the end.
LEMMA NewHeader ==
  ASSUME NEW s \in Nat, NEW p \in Links
  PROVE  IsNew(s, p, NewCell(s, p))
BY DEF NewCell, IsNew, Cell, Links

\* A heap that grows keeps its taken blocks, and no two free blocks lie side by side.
LEMMA GrowSound ==
  ASSUME NEW h, List(h), Merged(h.memory), NEW w \in Nat \ {0}, Fits(h, w),
         NEW k, k = Grown(h, w)
  PROVE  MergeKeeps(h, k) /\ Merged(k.memory)
<1> DEFINE m == h.memory
           t == h.tail
           c == h.committed
           s == StepFor(w) - 2
           c2 == c + StepFor(w)
           new == NewCell(s, t)
           last == [m[t] EXCEPT !.next = c]
           g1 == Set(h, c, new)
           g2 == Set(g1, t, last)
           g == Extend(g2, c, 0, c2)
           m2 == g2.memory
<1>1. h \in Heaps /\ h.head = 0 /\ Tiled(m, t, c)
  BY Zenon DEF List
<1>2. /\ t \in InUse(m) /\ m[t] \in Cell /\ t \in HeapAddresses /\ t \in Links /\ t # null
      /\ After(m, t) = c /\ t \in Nat /\ After(m, t) > t
  <2>1. t \in InUse(m) /\ After(m, t) = c
    BY Zenon, <1>1 DEF Tiled
  <2> QED
    BY Zenon, <1>1, <2>1, BlockTypes DEF Links
<1>3. StepFor(w) \in Nat /\ StepFor(w) >= w + 2 /\ c + StepFor(w) <= Reserved /\ c \in Nat
  <2>1. c \in Nat
    BY Zenon, <1>1 DEF Heaps
  <2> QED
    BY Zenon, <2>1, StepHolds DEF Fits
<1>4. /\ s \in Nat \ {0} /\ c2 = c + s + 2 /\ c + s + 2 <= Reserved /\ c2 \in Nat
      /\ c \in HeapAddresses /\ c \in Links /\ c # t /\ 0 \in Links
  BY <1>2, <1>3, StepHoldsABlock DEF HeapAddresses, Links
<1>5. k = merge(g, c)
  <2>1. NewCell(s, t) = [size |-> StepFor(w) - Header, free |-> "yes", next |-> null, prev |-> t]
    BY DEF NewCell, Header
  <2>2. h.head # null
    BY <1>1 DEF null
  <2> QED
    BY Zenon, <1>1, <1>2, <2>1, <2>2 DEF Grown, Extend
<1> HIDE DEF s, c2
<1>6. /\ new \in Cell /\ new.size = s /\ new.free = "yes" /\ new.next = null /\ new.prev = t
  <2>1. IsNew(s, t, new)
    BY Zenon, <1>2, <1>4, NewHeader
  <2> QED
    BY Zenon, <2>1 DEF IsNew
<1>7. /\ last \in Cell /\ last.size = m[t].size /\ last.free = m[t].free
      /\ last.next = c /\ last.prev = m[t].prev
  BY Zenon, <1>2, <1>4 DEF Cell
<1> HIDE DEF new, last
<1>8. Stored(h, c, new, g1)
  BY Zenon, <1>1, <1>4, <1>6, SetFacts
<1> HIDE DEF g1
<1>9. Stored(g1, t, last, g2)
  <2>1. g1 \in Heaps
    BY Zenon, <1>8 DEF Stored, SameBut
  <2> QED
    BY Zenon, <1>2, <1>7, <2>1, SetFacts
<1> HIDE DEF g2
<1>10. g2 \in Heaps /\ m2 \in [HeapAddresses -> Cell] /\ g2.used = h.used
  BY Zenon, <1>8, <1>9 DEF Stored, SameBut
<1>11. /\ g \in Heaps /\ g.memory = m2 /\ g.tail = c /\ g.head = 0 /\ g.committed = c2 /\ g.used = h.used
  <2>1. Extended(g2, c, 0, c2, g)
    BY Zenon, <1>4, <1>10, ExtendFacts
  <2> QED
    BY Zenon, <1>10, <2>1 DEF Extended
<1>12. m2[c] = new /\ m2[t] = last /\ \A a \in HeapAddresses \ {c, t} : m2[a] = m[a]
  BY Zenon, <1>4, <1>8, <1>9 DEF Stored
<1> HIDE DEF g, m2
<1>13. Appends(m, t, c, s, m2)
  BY Zenon, <1>6, <1>7, <1>10, <1>12 DEF Appends
<1>14. Tiled(m2, c, c2) /\ InUse(m2) = InUse(m) \cup {c} /\ c \notin InUse(m)
  BY SMT, <1>1, <1>4, <1>13, AppendTiles
<1>15. List(g) /\ c \in InUse(m2) /\ m2[c].free = "yes"
  BY Zenon, <1>6, <1>11, <1>12, <1>14 DEF List
<1>16. /\ \A a \in InUse(m) : a \in HeapAddresses /\ a # c
       /\ \A a \in InUse(m) : m2[a].free = m[a].free /\ m2[a].size = m[a].size /\ (a # t => m2[a].next = m[a].next)
  <2>1. \A a \in InUse(m) : a \in HeapAddresses /\ a # c
    BY Zenon, <1>1, <1>14, BlockTypes
  <2> QED
    BY Zenon, <1>7, <1>12, <2>1
<1>17. MergedBut(m2, c)
  <2> SUFFICES ASSUME NEW a \in InUse(m2), a # c, m2[a].free = "yes", m2[a].next # null, m2[a].next # c
               PROVE  m2[m2[a].next].free = "no"
    BY Zenon DEF MergedBut
  <2>1. a \in InUse(m) /\ a # t
    BY Zenon, <1>7, <1>12, <1>14
  <2>2. m2[a].next = m[a].next /\ m[a].free = "yes"
    BY Zenon, <1>16, <2>1
  <2>3. m[a].next \in InUse(m)
    BY Zenon, <1>1, <2>1, <2>2 DEF Tiled
  <2>4. m[m[a].next].free = "no"
    BY Zenon, <2>1, <2>2 DEF Merged
  <2> QED
    BY Zenon, <1>16, <2>2, <2>3, <2>4
<1>18. SameTaken(m, m2)
  <2>1. "yes" # "no" /\ NoBlock.free = "no" /\ NoBlock.size = 0
    BY DEF NoBlock
  <2>2. Taken(m2) = Taken(m)
    BY Zenon, <1>14, <1>15, <1>16, <2>1 DEF Taken
  <2>3. \A a \in Taken(m) : m2[a].size = m[a].size
    BY Zenon, <1>16 DEF Taken
  <2>4. m[c] = NoBlock
    BY Zenon, <1>4, <1>14 DEF InUse
  <2>5. \A a \in HeapAddresses : (IF m2[a].free = "no" THEN m2[a].size ELSE 0)
                               = (IF m[a].free = "no" THEN m[a].size ELSE 0)
    <3> TAKE a \in HeapAddresses
    <3>1. CASE a = c
      BY Zenon, <1>15, <2>1, <2>4, <3>1
    <3>2. CASE a = t
      BY Zenon, <1>2, <1>16, <3>2
    <3>3. CASE a # c /\ a # t
      BY Zenon, <1>12, <3>3
    <3> QED
      BY Zenon, <3>1, <3>2, <3>3
  <2>6. Part(m2) = Part(m)
    BY Zenon, <2>5 DEF Part
  <2> QED
    BY Zenon, <2>2, <2>3, <2>6 DEF SameTaken
<1>19. MergeKeeps(h, g)
  BY Zenon, <1>11, <1>15, <1>18 DEF MergeKeeps
<1>20. MergeKeeps(g, k) /\ Merged(k.memory)
  <2>1. c \in InUse(g.memory) /\ g.memory[c].free = "yes" /\ MergedBut(g.memory, c)
    BY Zenon, <1>11, <1>15, <1>17
  <2> QED
    BY SMT, <1>5, <1>15, <2>1, MergeSound
<1> QED
  BY Zenon, <1>19, <1>20, KeepsTwice
----------------------------------------------------------------------------
(* The sum of the taken blocks                                              *)

\* f[n] is the sum of p below n.
SumsTo(f, p) ==
    /\ f \in [0..Reserved -> Int]
    /\ \A i \in 0..Reserved : f[i] = IF i = 0 THEN 0 ELSE f[i - 1] + p[i - 1]

\* The sums exist.
LEMMA SumsExist ==
  ASSUME NEW p \in [HeapAddresses -> Int]
  PROVE  \E f : SumsTo(f, p)
<1> DEFINE Upto(f, j) == /\ f \in [0..j -> Int]
                         /\ \A i \in 0..j : f[i] = IF i = 0 THEN 0 ELSE f[i - 1] + p[i - 1]
           S == {j \in 0..Reserved : ~ \E f : Upto(f, j)}
<1>1. ASSUME NEW k \in S, \A j \in S : k <= j PROVE FALSE
  <2>1. k \in 0..Reserved /\ ~ \E f : Upto(f, k)
    BY Zenon
  <2>2. CASE k = 0
    <3> DEFINE g == [i \in 0..0 |-> 0]
    <3>1. Upto(g, 0)
      OBVIOUS
    <3> HIDE DEF Upto
    <3> QED
      BY Zenon, <2>1, <2>2, <3>1
  <2>3. CASE k # 0
    <3>1. k - 1 \in 0..Reserved /\ ~(k <= k - 1) /\ k \in Nat /\ k - 1 \in Nat
      BY <2>1, <2>3, StepHoldsABlock
    <3>2. k - 1 \notin S
      BY Zenon, <1>1, <3>1
    <3>3. PICK f : Upto(f, k - 1)
      BY Zenon, <3>1, <3>2
    <3>4. k - 1 \in HeapAddresses /\ p[k - 1] \in Int
      BY <2>1, <3>1, StepHoldsABlock DEF HeapAddresses
    <3>5. f \in [0..(k - 1) -> Int] /\ \A i \in 0..(k - 1) : f[i] = IF i = 0 THEN 0 ELSE f[i - 1] + p[i - 1]
      BY Zenon, <3>3
    <3> DEFINE g == [i \in 0..k |-> IF i = k THEN f[k - 1] + p[k - 1] ELSE f[i]]
    <3>6. f[k - 1] \in Int /\ \A i \in 0..k : i # k => i \in 0..(k - 1) /\ i # k /\ f[i] \in Int
      BY <3>1, <3>5
    <3>7. g \in [0..k -> Int]
      BY <3>4, <3>6
    <3>8. \A i \in 0..k : g[i] = IF i = 0 THEN 0 ELSE g[i - 1] + p[i - 1]
      <4> TAKE i \in 0..k
      <4>1. CASE i = k
        <5>1. g[k] = f[k - 1] + p[k - 1] /\ g[k - 1] = f[k - 1]
          BY <3>1
        <5> QED
          BY Zenon, <2>3, <4>1, <5>1
      <4>2. CASE i # k
        <5>1. i \in 0..(k - 1) /\ g[i] = f[i]
          BY Zenon, <3>6, <4>2
        <5>2. i # 0 => i - 1 \in 0..k /\ i - 1 # k
          BY <3>1, <5>1
        <5>3. i # 0 => g[i - 1] = f[i - 1]
          BY Zenon, <5>2
        <5> QED
          BY Zenon, <3>5, <5>1, <5>3
      <4> QED
        BY Zenon, <4>1, <4>2
    <3>9. Upto(g, k)
      BY Zenon, <3>7, <3>8
    <3> HIDE DEF Upto
    <3> QED
      BY Zenon, <2>1, <3>9
  <2> QED
    BY Zenon, <2>2, <2>3
<1>2. S \subseteq Nat
  BY StepHoldsABlock
<1> HIDE DEF S
<1>3. S = {}
  BY Zenon, <1>1, <1>2, LeastOfSome
<1>4. Reserved \in 0..Reserved
  BY StepHoldsABlock
<1>5. \E f : Upto(f, Reserved)
  BY Zenon, <1>3, <1>4 DEF S
<1> QED
  BY Zenon, <1>5 DEF SumsTo

\* A change of d at b changes the sum by d.
LEMMA SumsDiffer ==
  ASSUME NEW p \in [HeapAddresses -> Int], NEW q \in [HeapAddresses -> Int],
         NEW b \in HeapAddresses, NEW d \in Int, q[b] = p[b] + d,
         \A a \in HeapAddresses \ {b} : q[a] = p[a],
         NEW f, SumsTo(f, p), NEW g, SumsTo(g, q)
  PROVE  g[Reserved] = f[Reserved] + d
<1> DEFINE S == {j \in 0..Reserved : g[j] # f[j] + IF j > b THEN d ELSE 0}
<1>1. /\ f \in [0..Reserved -> Int] /\ g \in [0..Reserved -> Int]
      /\ \A i \in 0..Reserved : f[i] = IF i = 0 THEN 0 ELSE f[i - 1] + p[i - 1]
      /\ \A i \in 0..Reserved : g[i] = IF i = 0 THEN 0 ELSE g[i - 1] + q[i - 1]
  BY Zenon DEF SumsTo
<1>2. ASSUME NEW k \in S, \A j \in S : k <= j PROVE FALSE
  <2>1. k \in 0..Reserved /\ g[k] # f[k] + IF k > b THEN d ELSE 0
    BY Zenon
  <2>2. b \in Nat
    BY StepHoldsABlock DEF HeapAddresses
  <2>3. CASE k = 0
    <3>1. g[k] = 0 /\ f[k] = 0
      BY Zenon, <1>1, <2>1, <2>3
    <3> QED
      BY <2>1, <2>2, <2>3, <3>1
  <2>4. CASE k # 0
    <3>1. k - 1 \in 0..Reserved /\ ~(k <= k - 1) /\ k \in Nat /\ k - 1 \in HeapAddresses
      BY <2>1, <2>4, StepHoldsABlock DEF HeapAddresses
    <3>2. k - 1 \notin S
      BY Zenon, <1>2, <3>1
    <3>3. g[k - 1] = f[k - 1] + IF k - 1 > b THEN d ELSE 0
      BY Zenon, <3>1, <3>2
    <3>4. g[k] = g[k - 1] + q[k - 1] /\ f[k] = f[k - 1] + p[k - 1]
      BY Zenon, <1>1, <2>1, <2>4
    <3>5. f[k - 1] \in Int /\ p[k - 1] \in Int /\ q[k - 1] \in Int
      BY Zenon, <1>1, <3>1
    <3>6. q[k - 1] = IF k - 1 = b THEN p[k - 1] + d ELSE p[k - 1]
      BY Zenon, <3>1
    <3> HIDE DEF S
    <3> QED
      BY SMTT(20), <2>1, <2>2, <3>1, <3>3, <3>4, <3>5, <3>6
  <2> QED
    BY Zenon, <2>3, <2>4
<1>3. S \subseteq Nat
  BY StepHoldsABlock
<1>4. Reserved \in 0..Reserved /\ Reserved > b
  BY StepHoldsABlock DEF HeapAddresses
<1> HIDE DEF S
<1>5. S = {}
  BY Zenon, <1>2, <1>3, LeastOfSome
<1> QED
  BY Zenon, <1>4, <1>5 DEF S

\* The function the heap's used() is compared with
Below(m) ==
    CHOOSE f : f = [n \in 0..Reserved |->
                       IF n = 0 THEN 0
                       ELSE f[n - 1] + IF m[n - 1].free = "no" THEN m[n - 1].size ELSE 0]

\* It is a sum.
LEMMA BelowSums ==
  ASSUME NEW m \in [HeapAddresses -> Cell]
  PROVE  SumsTo(Below(m), Part(m)) /\ Part(m) \in [HeapAddresses -> Int]
<1> DEFINE p == Part(m)
           Is(f) == f = [n \in 0..Reserved |->
                            IF n = 0 THEN 0
                            ELSE f[n - 1] + IF m[n - 1].free = "no" THEN m[n - 1].size ELSE 0]
<1>1. p \in [HeapAddresses -> Int]
  <2>1. \A a \in HeapAddresses : m[a].size \in Int
    BY DEF Cell
  <2> QED
    BY <2>1 DEF Part
<1>2. \A n \in 0..Reserved : n # 0 => p[n - 1] = IF m[n - 1].free = "no" THEN m[n - 1].size ELSE 0
  <2>1. \A n \in 0..Reserved : n # 0 => n - 1 \in HeapAddresses
    BY StepHoldsABlock DEF HeapAddresses
  <2> QED
    BY Zenon, <2>1 DEF Part
<1>3. PICK f : SumsTo(f, p)
  BY Zenon, <1>1, SumsExist
<1>4. f \in [0..Reserved -> Int] /\ \A i \in 0..Reserved : f[i] = IF i = 0 THEN 0 ELSE f[i - 1] + p[i - 1]
  BY Zenon, <1>3 DEF SumsTo
<1> HIDE DEF p
<1>5. Is(f)
  <2>1. \A n \in 0..Reserved : f[n] = IF n = 0 THEN 0
                            ELSE f[n - 1] + IF m[n - 1].free = "no" THEN m[n - 1].size ELSE 0
    BY Zenon, <1>2, <1>4
  <2> QED
    BY Zenon, <1>4, <2>1
<1>6. Is(Below(m))
  BY Zenon, <1>5 DEF Below
<1> DEFINE g == Below(m)
           S == {j \in 0..Reserved : g[j] # f[j]}
<1>7. ASSUME NEW k \in S, \A j \in S : k <= j PROVE FALSE
  <2> HIDE DEF g
  <2>1. k \in 0..Reserved /\ g[k] # f[k]
    BY Zenon
  <2>2. g[k] = IF k = 0 THEN 0 ELSE g[k - 1] + IF m[k - 1].free = "no" THEN m[k - 1].size ELSE 0
    BY Zenon, <1>6, <2>1 DEF g
  <2>3. f[k] = IF k = 0 THEN 0 ELSE f[k - 1] + IF m[k - 1].free = "no" THEN m[k - 1].size ELSE 0
    BY Zenon, <1>5, <2>1
  <2>4. k # 0
    BY Zenon, <2>1, <2>2, <2>3
  <2>5. k - 1 \in 0..Reserved /\ ~(k <= k - 1)
    BY <2>1, <2>4, StepHoldsABlock
  <2>6. g[k - 1] = f[k - 1]
    BY Zenon, <1>7, <2>5
  <2> QED
    BY Zenon, <2>1, <2>2, <2>3, <2>6
<1>8. S \subseteq Nat
  BY StepHoldsABlock
<1> HIDE DEF S
<1>9. S = {}
  BY Zenon, <1>7, <1>8, LeastOfSome
<1>10. \A j \in 0..Reserved : g[j] = f[j]
  BY Zenon, <1>9 DEF S
<1>11. g = [j \in 0..Reserved |-> g[j]] /\ f = [j \in 0..Reserved |-> f[j]]
  <2> HIDE DEF g
  <2>1. f = [j \in 0..Reserved |-> f[j]]
    BY Zenon, <1>4
  <2>2. g = [n \in 0..Reserved |-> IF n = 0 THEN 0
                 ELSE g[n - 1] + IF m[n - 1].free = "no" THEN m[n - 1].size ELSE 0]
    BY Zenon, <1>6 DEF g
  <2>3. g = [j \in 0..Reserved |-> g[j]]
    BY Zenon, <2>2
  <2> QED
    BY Zenon, <2>1, <2>3
<1> HIDE DEF g
<1>12. g = f
  BY Zenon, <1>10, <1>11
<1> QED
  BY Zenon, <1>1, <1>3, <1>12 DEF p, g
----------------------------------------------------------------------------
(* The invariant                                                             *)

\* What every caller holds, and nothing else, is a taken block that is large enough.
Held(m, l) ==
    /\ DOMAIN l \subseteq Int /\ {p - Header : p \in DOMAIN l} = Taken(m)
    /\ \A p \in DOMAIN l : m[p - Header].size >= l[p]

\* The list is a tiling without two free neighbours, the callers hold its taken blocks,
\* and their sum is counted.
HeapInv ==
    List(heap) /\ Merged(heap.memory) /\ Held(heap.memory, live) /\ UsedExact

\* The invariant says what HeapIsSound says, and more.
LEMMA InvIsSound ==
  ASSUME HeapInv
  PROVE  HeapIsSound
<1> DEFINE m == heap.memory
<1>1. heap.head = 0 /\ Tiled(m, heap.tail, heap.committed) /\ Merged(m) /\ Held(m, live)
  BY Zenon DEF HeapInv, List
<1>2. Blocks(heap) = InUse(m)
  BY Zenon DEF Blocks, InUse
<1>3. /\ 0 \in InUse(m)
      /\ \A b \in InUse(m) : m[b].next = null => b = heap.tail /\ After(m, b) = heap.committed
      /\ \A b \in InUse(m) : m[b].next # null =>
              m[b].next \in InUse(m) /\ m[b].next = After(m, b) /\ m[m[b].next].prev = b
  BY Zenon, <1>1 DEF Tiled
<1>4. \A b \in InUse(m) : b # null /\ m[b].free \in {"yes", "no"} /\ b \in Nat /\ m[b].size >= 1
                          /\ End(b) = After(m, b)
  <2>1. \A b \in InUse(m) : b # null /\ m[b].free \in {"yes", "no"} /\ b \in Nat /\ m[b].size >= 1
    BY Zenon, <1>1, BlockTypes
  <2>2. \A b \in InUse(m) : End(b) = After(m, b)
    BY Zenon DEF End, After, Header
  <2> QED
    BY Zenon, <2>1, <2>2
<1>5. BlocksTile
  <2>1. \A b \in Blocks(heap) :
            IF m[b].next = null THEN b = heap.tail /\ End(b) = heap.committed
            ELSE m[b].next = End(b) /\ m[b].size >= Alignment
    <3> TAKE b \in Blocks(heap)
    <3>1. b \in InUse(m) /\ End(b) = After(m, b) /\ m[b].size >= 1
      BY Zenon, <1>2, <1>4
    <3> QED
      BY Zenon, <1>3, <3>1 DEF Alignment
  <2> QED
    BY Zenon, <1>1, <2>1 DEF BlocksTile
<1>6. m[0].prev = null
  <2> SUFFICES ASSUME m[0].prev # null PROVE FALSE
    BY Zenon
  <2> DEFINE p == m[0].prev
  <2>1. p \in InUse(m) /\ m[p].next = 0
    BY Zenon, <1>1, <1>3 DEF Tiled
  <2>2. 0 # null
    BY DEF null
  <2>3. m[p].next # null
    BY Zenon, <2>1, <2>2
  <2>4. m[p].next > p /\ p \in Nat
    BY Zenon, <1>1, <2>1, <2>3, Neighbours, BlockTypes
  <2> QED
    BY <2>1, <2>4
<1>7. ListIsDouble
  BY Zenon, <1>1, <1>2, <1>3, <1>6 DEF ListIsDouble
<1>8. FreeBlocksMerged
  <2>1. "yes" # "no"
    OBVIOUS
  <2> QED
    BY Zenon, <1>1, <1>2, <2>1 DEF FreeBlocksMerged, IsFree, Merged
<1>9. AllocationsIntact
  <2>1. "yes" # "no"
    OBVIOUS
  <2>2. {b \in Blocks(heap) : ~IsFree(heap, b)} = Taken(m)
    BY Zenon, <1>2, <1>4, <2>1 DEF IsFree, Taken
  <2> QED
    BY Zenon, <1>1, <2>2 DEF AllocationsIntact, Held
<1> QED
  BY Zenon, <1>5, <1>7, <1>8, <1>9 DEF HeapInv, HeapIsSound

\* A block is taken from a heap that holds the same allocations.
LEMMA TakeStep ==
  ASSUME HeapInv, NEW size \in Sizes, NEW h, List(h), Merged(h.memory),
         SameTaken(heap.memory, h.memory), h.used = heap.used, Candidates(h, size) # {},
         heap' = TakeBlock(h, size), Give(FirstBlock(h, size) + Header, size)
  PROVE  HeapInv'
<1> DEFINE m == heap.memory
           k == heap'
           m2 == k.memory
           b == FirstBlock(h, size)
           x == b + Header
<1>1. size \in Nat \ {0}
  BY SizesArePositive, StepHoldsABlock
<1>2. List(k) /\ Merged(m2) /\ Takes(h, b, k) /\ m2[b].size >= size
  BY Zenon, <1>1, TakeSound
<1>3. /\ DOMAIN live' = DOMAIN live \cup {x}
      /\ \A q \in DOMAIN live' : live'[q] = IF q = x THEN size ELSE live[q]
  BY Zenon DEF Give
<1> HIDE DEF b
<1>4. /\ List(heap) /\ Held(m, live) /\ heap.used = Below(m)[Reserved]
      /\ TakenBelow' = Below(m2)
  BY Zenon DEF HeapInv, UsedExact, TakenBelow, Below
<1>5. /\ Taken(h.memory) = Taken(m) /\ (\A a \in Taken(m) : h.memory[a].size = m[a].size)
      /\ Part(h.memory) = Part(m)
  BY Zenon DEF SameTaken
<1>6. /\ b \in InUse(h.memory) /\ b \notin Taken(m) /\ Taken(m2) = Taken(m) \cup {b}
      /\ \A a \in Taken(m) : m2[a].size = m[a].size
      /\ k.used = heap.used + m2[b].size
      /\ \A a \in HeapAddresses \ {b} : Part(m2)[a] = Part(m)[a]
      /\ Part(m2)[b] = m2[b].size /\ Part(m)[b] = 0
  BY Zenon, <1>2, <1>5 DEF Takes
<1>7. /\ m \in [HeapAddresses -> Cell] /\ m2 \in [HeapAddresses -> Cell]
      /\ Tiled(m2, k.tail, k.committed) /\ b \in InUse(m2)
  BY Zenon, <1>2, <1>4, <1>6 DEF List, Tiled, Taken
<1>8. b \in HeapAddresses /\ b \in Nat /\ m2[b].size \in Nat
  BY Zenon, <1>7, BlockTypes
<1> HIDE DEF k, m2, m
<1>9. Held(m2, live')
  <2>1. DOMAIN live \subseteq Int /\ {p - Header : p \in DOMAIN live} = Taken(m)
        /\ \A p \in DOMAIN live : m[p - Header].size >= live[p]
    BY Zenon, <1>4 DEF Held
  <2>2. x \in Int /\ x - Header = b
    BY <1>8 DEF Header
  <2> HIDE DEF x
  <2>3. DOMAIN live' \subseteq Int
    BY Zenon, <1>3, <2>1, <2>2
  <2>4. {p - Header : p \in DOMAIN live'} = Taken(m2)
    <3>1. {p - Header : p \in DOMAIN live'} = {p - Header : p \in DOMAIN live} \cup {x - Header}
      BY Zenon, <1>3
    <3> QED
      BY Zenon, <1>6, <2>1, <2>2, <3>1
  <2>5. \A p \in DOMAIN live' : m2[p - Header].size >= live'[p]
    <3> TAKE p \in DOMAIN live'
    <3>1. CASE p = x
      BY Zenon, <1>2, <1>3, <2>2, <3>1 DEF m2
    <3>2. CASE p # x
      <4>1. p \in DOMAIN live /\ live'[p] = live[p]
        BY Zenon, <1>3, <3>2
      <4>2. p - Header \in Taken(m) /\ m[p - Header].size >= live[p]
        BY Zenon, <2>1, <4>1
      <4> QED
        BY Zenon, <1>6, <4>1, <4>2
    <3> QED
      BY Zenon, <3>1, <3>2
  <2> QED
    BY Zenon, <2>3, <2>4, <2>5 DEF Held
<1>10. k.used = Below(m2)[Reserved]
  <2>1. /\ SumsTo(Below(m), Part(m)) /\ Part(m) \in [HeapAddresses -> Int]
        /\ SumsTo(Below(m2), Part(m2)) /\ Part(m2) \in [HeapAddresses -> Int]
    BY Zenon, <1>7, BelowSums
  <2>2. Part(m2)[b] = Part(m)[b] + m2[b].size /\ m2[b].size \in Int
    BY SMTT(20), <1>6, <1>8
  <2>3. Below(m2)[Reserved] = Below(m)[Reserved] + m2[b].size
    BY SMT, <1>6, <1>8, <2>1, <2>2, SumsDiffer
  <2> QED
    BY Zenon, <1>4, <1>6, <2>3
<1>11. UsedExact'
  BY Zenon, <1>4, <1>10 DEF UsedExact, k
<1> QED
  BY Zenon, <1>2, <1>9, <1>11 DEF HeapInv, k, m2
\* A caller gives its block back.
LEMMA FreeStep ==
  ASSUME HeapInv, NEW p \in DOMAIN live, kfree(p)
  PROVE  HeapInv'
<1> DEFINE m == heap.memory
           k == heap'
           m2 == k.memory
           b == p - Header
           d == m[b].size
<1>1. /\ List(heap) /\ Merged(m) /\ Held(m, live) /\ heap.used = Below(m)[Reserved]
      /\ TakenBelow' = Below(m2)
  BY Zenon DEF HeapInv, UsedExact, TakenBelow, Below
<1>2. /\ DOMAIN live \subseteq Int /\ {q - Header : q \in DOMAIN live} = Taken(m)
      /\ \A q \in DOMAIN live : m[q - Header].size >= live[q]
  BY Zenon, <1>1 DEF Held
<1>3. b \in Taken(m)
  BY Zenon, <1>2
<1>4. k = merge(MarkAndCount(heap, b, "yes", heap.used - d), b)
  BY Zenon DEF kfree, MarkAndCount, Mark, Returned
<1>5. /\ List(k) /\ Merged(m2) /\ Taken(m2) = Taken(m) \ {b}
      /\ \A a \in Taken(m2) : m2[a].size = m[a].size
      /\ k.used = heap.used - d
      /\ \A a \in HeapAddresses \ {b} : Part(m2)[a] = Part(m)[a]
      /\ Part(m2)[b] = 0 /\ Part(m)[b] = d
  <2> HIDE DEF b, k
  <2>1. Gives(heap, b, k)
    BY Zenon, <1>1, <1>3, <1>4, FreeSound
  <2> QED
    BY Zenon, <2>1 DEF Gives
<1>6. live' = [q \in DOMAIN live \ {p} |-> live[q]]
  BY Zenon DEF kfree
<1>7. /\ m \in [HeapAddresses -> Cell] /\ m2 \in [HeapAddresses -> Cell] /\ heap.used \in Int
      /\ Tiled(m, heap.tail, heap.committed) /\ b \in InUse(m)
  BY Zenon, <1>1, <1>3, <1>5 DEF List, Tiled, Taken, Heaps
<1>8. b \in HeapAddresses /\ d \in Nat
  BY Zenon, <1>7, BlockTypes
<1> HIDE DEF k, m2, m
<1>9. Held(m2, live')
  <2>1. \A q \in DOMAIN live : q # p => q - Header # b
    BY <1>2 DEF Header
  <2>2. DOMAIN live' = DOMAIN live \ {p} /\ \A q \in DOMAIN live' : live'[q] = live[q]
    BY Zenon, <1>6
  <2> HIDE DEF b
  <2>3. \A q \in DOMAIN live' : q - Header \in Taken(m) \ {b}
    BY Zenon, <1>2, <2>1, <2>2
  <2>4. \A a \in Taken(m) \ {b} : \E q \in DOMAIN live' : q - Header = a
    BY Zenon, <1>2, <2>2 DEF b
  <2>5. {q - Header : q \in DOMAIN live'} = Taken(m2)
    BY Zenon, <1>5, <2>3, <2>4
  <2>6. \A q \in DOMAIN live' : m2[q - Header].size >= live'[q]
    BY Zenon, <1>2, <1>5, <2>2, <2>3
  <2> QED
    BY Zenon, <1>2, <2>2, <2>5, <2>6 DEF Held
<1>10. k.used = Below(m2)[Reserved]
  <2>1. /\ SumsTo(Below(m), Part(m)) /\ Part(m) \in [HeapAddresses -> Int]
        /\ SumsTo(Below(m2), Part(m2)) /\ Part(m2) \in [HeapAddresses -> Int]
    BY Zenon, <1>7, BelowSums
  <2>2. Part(m2)[b] = Part(m)[b] + (0 - d) /\ 0 - d \in Int
    BY SMTT(20), <1>5, <1>8
  <2> HIDE DEF b, d
  <2>3. Below(m2)[Reserved] = Below(m)[Reserved] + (0 - d)
    BY SMT, <1>5, <1>8, <2>1, <2>2, SumsDiffer
  <2>4. heap.used + (0 - d) = heap.used - d
    BY <1>7, <1>8
  <2> QED
    BY Zenon, <1>1, <1>5, <2>3, <2>4
<1>11. UsedExact'
  BY Zenon, <1>1, <1>10 DEF UsedExact, k
<1> QED
  BY Zenon, <1>5, <1>9, <1>11 DEF HeapInv, k, m2

\* The first step of heap_init() holds one unit and is one growth step.
LEMMA FirstStep == StepFor(1) \in Nat /\ StepFor(1) >= 3 /\ StepFor(1) <= Reserved
<1> DEFINE x == 1 + Header + GrowthStep - 1
           q == x \div GrowthStep
<1>1. GrowthStep \in Nat /\ GrowthStep > 2 /\ GrowthStep <= Reserved /\ Reserved \in Nat /\ x = GrowthStep + 2
  BY StepHoldsABlock DEF Header
<1> HIDE DEF x
<1>2. q \in Int /\ GrowthStep * q <= x
  BY <1>1
<1> HIDE DEF q
<1>3. q * GrowthStep <= GrowthStep
  <2>1. q * GrowthStep = GrowthStep * q
    BY <1>1, <1>2
  <2>2. CASE q <= 1
    BY <1>1, <1>2, <2>2
  <2>3. CASE q >= 2
    <3>1. GrowthStep * q >= GrowthStep * 2
      BY <1>1, <1>2, <2>3
    <3> QED
      BY <1>1, <1>2, <3>1
  <2> QED
    BY <1>2, <2>2, <2>3
<1>4. StepFor(1) = q * GrowthStep
  BY DEF StepFor, x, q
<1>5. StepFor(1) \in Nat /\ StepFor(1) >= 1 + 2
  <2>1. 1 \in Nat \ {0}
    OBVIOUS
  <2> QED
    BY Zenon, <2>1, StepHolds
<1> QED
  BY <1>1, <1>3, <1>4, <1>5

\* heap_init() makes a list of one free block.
LEMMA InitInv ==
  ASSUME HeapInit
  PROVE  HeapInv
<1> DEFINE m0 == [a \in HeapAddresses |-> NoBlock]
           h0 == [memory |-> m0, head |-> null, tail |-> null, committed |-> 0, used |-> 0]
           s == StepFor(1) - 2
           c2 == StepFor(1)
           new == NewCell(s, null)
           g1 == Set(h0, 0, new)
           g == Extend(g1, 0, 0, c2)
           m == g.memory
           k == heap
           m2 == k.memory
<1>1. /\ s \in Nat /\ s >= 1 /\ c2 = 0 + 2 + s /\ c2 \in 0..Reserved /\ c2 \in Nat
      /\ 0 \in HeapAddresses /\ 0 \in Links /\ null \in Links
  BY FirstStep, StepHoldsABlock DEF HeapAddresses, Links
<1>2. h0 \in Heaps
  <2>1. NoBlock \in Cell
    BY DEF NoBlock, Cell, Links
  <2>2. m0 \in [HeapAddresses -> Cell]
    BY Zenon, <2>1
  <2> HIDE DEF m0
  <2> QED
    BY <1>1, <2>2 DEF Heaps
<1>3. k = merge(g, 0)
  <2>1. new = [size |-> StepFor(1) - Header, free |-> "yes", next |-> null, prev |-> null]
    BY DEF NewCell, Header
  <2>2. 0 + StepFor(1) = StepFor(1)
    BY FirstStep
  <2> QED
    BY Zenon, <2>1, <2>2 DEF HeapInit, Grown, Extend
<1> HIDE DEF s, c2
<1>4. /\ new \in Cell /\ new.size = s /\ new.free = "yes" /\ new.next = null /\ new.prev = null
  <2>1. IsNew(s, null, new)
    BY Zenon, <1>1, NewHeader
  <2> QED
    BY Zenon, <2>1 DEF IsNew
<1>5. \A a \in HeapAddresses : h0.memory[a] = NoBlock
  OBVIOUS
<1> HIDE DEF new
<1>6. h0.used = 0
  OBVIOUS
<1> HIDE DEF h0
<1>7. Stored(h0, 0, new, g1)
  BY Zenon, <1>1, <1>2, <1>4, SetFacts
<1> HIDE DEF g1
<1>8. Extended(g1, 0, 0, c2, g)
  <2>1. g1 \in Heaps
    BY Zenon, <1>7 DEF Stored, SameBut
  <2> QED
    BY Zenon, <1>1, <2>1, ExtendFacts
<1> HIDE DEF g
<1>9. g \in Heaps /\ g.tail = 0 /\ g.head = 0 /\ g.committed = c2 /\ g.used = 0 /\ m = g1.memory
  BY Zenon, <1>6, <1>7, <1>8 DEF Extended, Stored, SameBut
<1>10. m \in [HeapAddresses -> Cell] /\ m[0] = new /\ \A a \in HeapAddresses \ {0} : m[a] = NoBlock
  BY Zenon, <1>5, <1>7, <1>9 DEF Stored, SameBut
<1> HIDE DEF m
<1>11. InUse(m) = {0}
  <2>1. NoBlock.free = "no" /\ "yes" # "no"
    BY DEF NoBlock
  <2> QED
    BY Zenon, <1>1, <1>4, <1>10, <2>1 DEF InUse
<1>12. Tiled(m, 0, c2)
  <2>1. After(m, 0) = c2 /\ c2 <= c2 /\ ~(0 < 0)
    BY <1>1, <1>4, <1>10 DEF After
  <2> QED
    BY Zenon, <1>1, <1>4, <1>10, <1>11, <2>1 DEF Tiled
<1>13. List(g) /\ 0 \in InUse(m) /\ m[0].free = "yes" /\ MergedBut(m, 0) /\ Taken(m) = {}
  <2>1. "yes" # "no"
    OBVIOUS
  <2> QED
    BY Zenon, <1>4, <1>9, <1>10, <1>11, <1>12, <2>1 DEF List, MergedBut, Taken, m
<1>14. MergeKeeps(g, k) /\ Merged(m2)
  <2> HIDE DEF k
  <2> QED
    BY SMT, <1>3, <1>13, MergeSound DEF m
<1>15. List(k) /\ k.used = 0 /\ Taken(m2) = {} /\ Part(m2) = Part(m)
  BY Zenon, <1>9, <1>13, <1>14 DEF MergeKeeps, SameTaken, m
<1>16. Held(m2, live)
  <2>1. DOMAIN live = {}
    BY DEF HeapInit
  <2> QED
    BY Zenon, <1>15, <2>1 DEF Held
<1>17. UsedExact
  <2>1. TakenBelow = Below(m2)
    BY Zenon DEF TakenBelow, Below
  <2>2. m2 \in [HeapAddresses -> Cell] /\ Part(m2) = Part(m)
    BY Zenon, <1>15 DEF List, Tiled
  <2> HIDE DEF m2, k
  <2>3. SumsTo(Below(m2), Part(m2)) /\ Part(m2) \in [HeapAddresses -> Int]
    BY Zenon, <2>2, BelowSums
  <2>4. \A a \in HeapAddresses : Part(m2)[a] = 0
    <3>1. NoBlock.free = "no" /\ NoBlock.size = 0 /\ "yes" # "no"
      BY DEF NoBlock
    <3>2. \A a \in HeapAddresses : Part(m)[a] = 0
      BY Zenon, <1>4, <1>10, <3>1 DEF Part
    <3> QED
      BY Zenon, <2>2, <3>2
  <2> DEFINE z == [a \in HeapAddresses |-> 0]
             f == [i \in 0..Reserved |-> 0]
  <2>5. SumsTo(f, z) /\ z \in [HeapAddresses -> Int] /\ f[Reserved] = 0
    <3>1. \A i \in 0..Reserved : i # 0 => i - 1 \in 0..Reserved /\ i - 1 \in HeapAddresses
      BY StepHoldsABlock DEF HeapAddresses
    <3>2. Reserved \in 0..Reserved /\ 0 + 0 = 0 /\ 0 \in Int
      BY StepHoldsABlock
    <3>3. z \in [HeapAddresses -> Int] /\ f \in [0..Reserved -> Int] /\ f[Reserved] = 0
      BY <3>2
    <3>4. \A i \in 0..Reserved : i # 0 => f[i - 1] = 0 /\ z[i - 1] = 0
      BY Zenon, <3>1
    <3>5. \A i \in 0..Reserved : f[i] = 0
      BY Zenon
    <3> QED
      BY Zenon, <3>2, <3>3, <3>4, <3>5 DEF SumsTo
  <2>6. Part(m2)[0] = z[0] + 0 /\ 0 \in Int /\ \A a \in HeapAddresses \ {0} : Part(m2)[a] = z[a]
    BY <1>1, <2>4
  <2> HIDE DEF z, f
  <2>7. Below(m2)[Reserved] = f[Reserved] + 0
    BY SMT, <1>1, <2>3, <2>5, <2>6, SumsDiffer
  <2> QED
    BY <1>15, <2>1, <2>5, <2>7 DEF UsedExact, k
<1> QED
  BY Zenon, <1>14, <1>15, <1>16, <1>17 DEF HeapInv

\* However kmalloc(), kfree() and the growth of the heap alternate, for every size of
\* the area, of a growth step and of a request, the blocks tile the committed area, the
\* list reads the same both ways, no two free blocks lie side by side, every caller's
\* block is as it was handed out, and heap_used() is exactly what they hold.
THEOREM HeapStaysSound == HeapSpec => []HeapIsSound
<1>1. HeapInit => HeapInv
  BY Zenon, InitInv
<1>2. HeapInv /\ [HeapNext]_heap_vars => HeapInv'
  <2> SUFFICES ASSUME HeapInv, [HeapNext]_heap_vars PROVE HeapInv'
    BY Zenon
  <2>1. SameTaken(heap.memory, heap.memory) /\ List(heap) /\ Merged(heap.memory)
    BY Zenon DEF SameTaken, HeapInv
  <2>2. ASSUME NEW size \in Sizes, Allocate(size) PROVE HeapInv'
    BY Zenon, <2>1, <2>2, TakeStep DEF Allocate
  <2>3. ASSUME NEW size \in Sizes, GrowAndAllocate(size) PROVE HeapInv'
    <3> DEFINE h == Grown(heap, size)
    <3>1. /\ Fits(heap, size) /\ Candidates(h, size) # {} /\ heap' = TakeBlock(h, size)
          /\ Give(FirstBlock(h, size) + Header, size)
      BY Zenon, <2>3 DEF GrowAndAllocate
    <3>2. size \in Nat \ {0}
      BY SizesArePositive, StepHoldsABlock
    <3>3. MergeKeeps(heap, h) /\ Merged(h.memory)
      BY Zenon, <2>1, <3>1, <3>2, GrowSound
    <3> HIDE DEF h
    <3>4. List(h) /\ SameTaken(heap.memory, h.memory) /\ h.used = heap.used
      BY Zenon, <3>3 DEF MergeKeeps
    <3> QED
      BY Zenon, <3>1, <3>3, <3>4, TakeStep
  <2>4. ASSUME UNCHANGED <<heap, live>> PROVE HeapInv'
    BY Zenon, <2>4 DEF HeapInv, UsedExact, TakenBelow
  <2>5. ASSUME NEW p \in DOMAIN live, kfree(p) PROVE HeapInv'
    BY Zenon, <2>5, FreeStep
  <2> QED
    BY Zenon, <2>2, <2>3, <2>4, <2>5 DEF HeapNext, GrowFails, heap_vars
<1>3. HeapInv => HeapIsSound
  BY Zenon, InvIsSound
<1> QED
  BY <1>1, <1>2, <1>3, PTL DEF HeapSpec
=============================================================================
