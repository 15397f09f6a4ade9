---------------------------- MODULE MemoryProofs ----------------------------
(***************************************************************************)
(* kernel/mm for every size.                                               *)
(*                                                                         *)
(* First, for every area and any lengths, the free ranges of vmalloc.cpp:  *)
(* they never share a page with one another or with a range handed out,    *)
(* and no page is lost if every window is as long as what unmap_device()   *)
(* gives back.                                                             *)
(*                                                                         *)
(* Then page_alloc.cpp for every memory map, page size and number of       *)
(* pages.  The invariant of the scan is that the run it counts ends just   *)
(* before page i, is free, and that no run it passed was long enough.      *)
(*                                                                         *)
(* At the end, for every set of CPUs, the copies of an entry that          *)
(* paging.cpp changed: each is about to be flushed.                        *)
(***************************************************************************)
EXTENDS PageAlloc, Paging, Vmalloc, FiniteSetTheorems, WellFoundedInduction, TLAPS

(* kernel/mm/vmalloc.cpp                                                    *)

\* Addresses and lengths that are whole pages of two units.
Even == {n \in Nat : n % 2 = 0}
Spans == [start : Even, length : Even \ {0}]
Top == Base + Pages * PageUnits

\* Two intervals that share no unit.
Disjoint(s, l, t, m) == s + l <= t \/ t + m <= s

\* A shorter interval is apart from what the longer one was apart from.
LEMMA Shorter ==
    ASSUME NEW s \in Nat, NEW l \in Nat, NEW a \in Nat, NEW m \in Nat, NEW w \in Nat,
           w <= m, Disjoint(s, l, a, m)
    PROVE  Disjoint(s, l, a, w)
BY DEF Disjoint

\* A table of free ranges inside the area, no two of which share a unit.
TableOK(table) ==
    /\ table \in Seq(Spans) /\ Len(table) <= MaxRanges
    /\ \A x \in 1..Len(table) : Base <= table[x].start /\ table[x].start + table[x].length <= Top
    /\ \A x, j \in 1..Len(table) :
        x # j => Disjoint(table[x].start, table[x].length, table[j].start, table[j].length)

\* An interval that no free range reaches into.
ClearOf(table, address, length) ==
    \A x \in 1..Len(table) : Disjoint(table[x].start, table[x].length, address, length)

\* The pages of the free ranges.
CoveredBy(table) == UNION {PagesOf(table[x].start, table[x].length) : x \in 1..Len(table)}

\* Whole pages, added or taken away.
LEMMA EvenSums == \A m, n \in Even : m + n \in Even /\ (n <= m => m - n \in Even)
BY DEF Even

\* What the rounding of kernel/mm/vmalloc.cpp makes of a length is whole pages.
LEMMA Evens ==
    /\ \A m, n \in Even : m + n \in Even /\ (n <= m => m - n \in Even)
    /\ \A n \in Nat : round_up(n) \in Even /\ n <= round_up(n) /\ WithGuard(n) \in Even \ {0}
    /\ \A n \in Even : round_up(n) = n
    /\ \A m, n \in Nat : m <= n => round_up(m) <= round_up(n) /\ WithGuard(m) <= WithGuard(n)
    /\ Base \in Even /\ Top \in Even
<1>1. \A m, n \in Even : m + n \in Even /\ (n <= m => m - n \in Even)
  BY DEF Even
<1>2. \A n \in Nat : round_up(n) \in Even /\ n <= round_up(n)
  BY DEF Even, round_up, PageUnits
<1>3. \A n \in Nat : WithGuard(n) \in Even \ {0}
  BY <1>2 DEF Even, WithGuard, PageUnits
<1>4. \A n \in Even : round_up(n) = n
  BY DEF Even, round_up, PageUnits
<1>5. \A m, n \in Nat : m <= n => round_up(m) <= round_up(n)
  BY DEF round_up, PageUnits
<1>6. \A m, n \in Nat : m <= n => WithGuard(m) <= WithGuard(n)
  BY <1>2, <1>5 DEF WithGuard, PageUnits, Even
<1>7. Base \in Even /\ Top \in Even
  BY AreaAssumption DEF Base, Top, Even, PageUnits
<1> QED
  BY Zenon, <1>1, <1>2, <1>3, <1>4, <1>5, <1>6, <1>7

\* The pages of an interval of whole pages are the even numbers in it.
LEMMA PagesAreEven ==
    ASSUME NEW s \in Even, NEW l \in Even
    PROVE  PagesOf(s, l) = {p \in Even : s <= p /\ p < s + l}
<1>1. ASSUME NEW p \in PagesOf(s, l) PROVE p \in Even /\ s <= p /\ p < s + l
  <2>1. PICK k \in 0..((l \div 2) - 1) : p = s + 2 * k
    BY Zenon DEF PagesOf, PageUnits
  <2> QED
    BY <2>1 DEF Even
<1>2. ASSUME NEW p \in Even, s <= p, p < s + l PROVE p \in PagesOf(s, l)
  <2> DEFINE k == (p - s) \div 2
  <2>1. k \in 0..((l \div 2) - 1) /\ p = s + 2 * k
    BY <1>2 DEF Even
  <2> HIDE DEF k
  <2> QED
    BY Zenon, <2>1 DEF PagesOf, PageUnits
<1> QED
  BY Zenon, <1>1, <1>2

\* Intervals apart share no page.
LEMMA ApartPages ==
    ASSUME NEW s \in Even, NEW l \in Even, NEW t \in Even, NEW m \in Even, Disjoint(s, l, t, m)
    PROVE  PagesOf(s, l) \cap PagesOf(t, m) = {}
BY PagesAreEven DEF Disjoint, Even

\* An interval cut in two has the pages of both parts.
LEMMA PagesSplit ==
    ASSUME NEW s \in Even, NEW l \in Even, NEW m \in Even
    PROVE  PagesOf(s, l + m) = PagesOf(s, l) \cup PagesOf(s + l, m)
<1>1. s + l \in Even /\ l + m \in Even
  BY Zenon, Evens
<1>2. /\ PagesOf(s, l + m) = {p \in Even : s <= p /\ p < s + (l + m)}
      /\ PagesOf(s, l) = {p \in Even : s <= p /\ p < s + l}
      /\ PagesOf(s + l, m) = {p \in Even : s + l <= p /\ p < s + l + m}
  BY Zenon, <1>1, PagesAreEven
<1> QED
  BY <1>2 DEF Even

\* The first of several entries, as both loops over the table find it.
LEMMA LeastOfSome ==
    ASSUME NEW S, S \subseteq Nat, S # {}
    PROVE  \E k \in S : \A j \in S : k <= j
<1> DEFINE R == OpToRel(<, Nat)
<1>1. \E k \in S : \A j \in S : <<j, k>> \notin R
  BY ZenonT(30), NatLessThanWellFounded, WFMin
<1>2. \A j, k \in Nat : <<j, k>> \in R <=> j < k
  BY Zenon DEF OpToRel
<1> HIDE DEF R
<1>3. PICK k \in S : \A j \in S : <<j, k>> \notin R
  BY Zenon, <1>1
<1>4. \A j \in S : ~(j < k) /\ j \in Nat /\ k \in Nat
  BY ZenonT(30), <1>2, <1>3
<1>5. \A j \in S : k <= j
  BY <1>4
<1> QED
  BY Zenon, <1>5

\* A page is free if it is in one of the ranges.
LEMMA CoveredIs ==
    ASSUME NEW t, NEW p
    PROVE  p \in CoveredBy(t) <=> \E k \in 1..Len(t) : p \in PagesOf(t[k].start, t[k].length)
BY Zenon DEF CoveredBy

\* What vmalloc_reserve() does to the table.
LEMMA ReserveTable ==
    ASSUME NEW t, TableOK(t), NEW w \in Even \ {0}, LongEnough(t, w) # {}
    PROVE  LET x == FirstRange(t, w)
               r == Reserve(t, w)
           IN /\ x \in 1..Len(t) /\ t[x].length >= w /\ t[x] \in Spans
              /\ TableOK(r)
              /\ ClearOf(r, t[x].start, w)
              /\ \A a \in Nat, l \in Nat : ClearOf(t, a, l) => ClearOf(r, a, l)
              /\ CoveredBy(t) = CoveredBy(r) \cup PagesOf(t[x].start, w)
              /\ \/ Len(r) < Len(t)
                 \/ Len(r) = Len(t) /\ r[x].start = t[x].start + w
<1> DEFINE x == FirstRange(t, w)
           r == Reserve(t, w)
           n == Len(t)
           cut == [start |-> t[x].start + w, length |-> t[x].length - w]
<1>1. x \in LongEnough(t, w)
  <2>1. LongEnough(t, w) \subseteq Nat
    BY DEF LongEnough
  <2>2. \E k \in LongEnough(t, w) : \A j \in LongEnough(t, w) : k <= j
    BY Zenon, <2>1, LeastOfSome
  <2> QED
    BY Zenon, <2>2 DEF FirstRange
<1>2. x \in 1..n /\ t[x].length >= w /\ t[x] \in Spans /\ n \in Nat /\ \A j \in 1..n : t[j] \in Spans
  BY <1>1 DEF LongEnough, TableOK
<1>3. t[x].start \in Even /\ t[x].length \in Even \ {0} /\ w \in Even
  BY Zenon, <1>2 DEF Spans
<1>4. cut.start \in Even /\ cut.length \in Even /\ t[x].length = w + cut.length
  <2>1. t[x].start + w \in Even /\ t[x].length - w \in Even
    BY Zenon, <1>2, <1>3, Evens
  <2>2. t[x].length = w + (t[x].length - w)
    BY <1>3 DEF Even
  <2> QED
    BY Zenon, <2>1, <2>2
<1>5. PagesOf(t[x].start, t[x].length) = PagesOf(t[x].start, w) \cup PagesOf(cut.start, cut.length)
  BY <1>3, <1>4, PagesSplit

<1>6. CASE cut.length = 0
  <2>1. r \in Seq(Spans) /\ Len(r) = n - 1
        /\ \A j \in 1..(n - 1) : r[j] = IF j = x THEN t[n] ELSE t[j]
    <3> DEFINE u == [t EXCEPT ![x] = t[n]]
    <3>1. u \in Seq(Spans) /\ Len(u) = n /\ \A j \in 1..n : u[j] = IF j = x THEN t[n] ELSE t[j]
      BY <1>2 DEF TableOK
    <3>2. r = SubSeq(u, 1, n - 1)
      BY Zenon, <1>6 DEF Reserve, WithoutRange
    <3> HIDE DEF u
    <3> QED
      BY <1>2, <3>1, <3>2
  <2> DEFINE from(j) == IF j = x THEN n ELSE j
  <2>2. \A j \in 1..Len(r) : from(j) \in (1..n) \ {x} /\ r[j] = t[from(j)]
    BY <1>2, <2>1
  <2>3. \A j, k \in 1..Len(r) : j # k => from(j) # from(k)
    BY <1>2, <2>1
  <2>4. \A k \in (1..n) \ {x} : \E j \in 1..Len(r) : k = from(j)
    <3> SUFFICES ASSUME NEW k \in (1..n) \ {x} PROVE \E j \in 1..Len(r) : k = from(j)
      BY Zenon
    <3>1. CASE k = n
      <4>1. x \in 1..Len(r) /\ n = from(x)
        BY <1>2, <2>1, <3>1
      <4> QED
        BY Zenon, <3>1, <4>1
    <3>2. CASE k # n
      <4>1. k \in 1..Len(r) /\ k = from(k)
        BY <1>2, <2>1, <3>2
      <4> QED
        BY Zenon, <4>1
    <3> QED
      BY Zenon, <3>1, <3>2
  <2>5. w = t[x].length
    BY <1>3, <1>4, <1>6 DEF Even
  <2> HIDE DEF from, r, x, n
  <2>6. TableOK(r)
    <3>1. Len(r) <= MaxRanges
      BY <1>2, <2>1, AreaAssumption DEF TableOK, n
    <3> QED
      BY ZenonT(30), <2>1, <2>2, <2>3, <3>1 DEF TableOK, n
  <2>7. ClearOf(r, t[x].start, w) /\ \A a \in Nat, l \in Nat : ClearOf(t, a, l) => ClearOf(r, a, l)
    BY ZenonT(30), <1>2, <2>2, <2>5 DEF ClearOf, TableOK, n
  <2>8. CoveredBy(t) = CoveredBy(r) \cup PagesOf(t[x].start, w)
    <3>1. ASSUME NEW p, p \in CoveredBy(t) PROVE p \in CoveredBy(r) \cup PagesOf(t[x].start, w)
      <4>1. PICK k \in 1..n : p \in PagesOf(t[k].start, t[k].length)
        BY Zenon, <3>1, CoveredIs DEF n
      <4>2. CASE k = x
        BY Zenon, <2>5, <4>1, <4>2
      <4>3. CASE k # x
        <5>1. PICK j \in 1..Len(r) : k = from(j)
          BY Zenon, <2>4, <4>3
        <5> QED
          BY Zenon, <2>2, <4>1, <5>1, CoveredIs
      <4> QED
        BY Zenon, <4>2, <4>3
    <3>2. ASSUME NEW p, p \in CoveredBy(r) PROVE p \in CoveredBy(t)
      <4>1. PICK j \in 1..Len(r) : p \in PagesOf(r[j].start, r[j].length)
        BY Zenon, <3>2, CoveredIs
      <4> QED
        BY Zenon, <2>2, <4>1, CoveredIs DEF n
    <3>3. PagesOf(t[x].start, w) \subseteq CoveredBy(t)
      BY Zenon, <1>2, <2>5, CoveredIs DEF n
    <3> QED
      BY Zenon, <3>1, <3>2, <3>3
  <2>9. Len(r) < Len(t)
    BY <1>2, <2>1 DEF n
  <2> QED
    BY Zenon, <1>2, <2>6, <2>7, <2>8, <2>9 DEF r, x, n
<1>7. CASE cut.length # 0
  <2>1. r = [t EXCEPT ![x] = cut] /\ cut \in Spans
    BY Zenon, <1>4, <1>7 DEF Reserve, Spans
  <2>2. /\ r \in Seq(Spans) /\ Len(r) = n /\ r[x] = cut
        /\ \A j \in (1..n) \ {x} : r[j] = t[j]
    BY <1>2, <2>1 DEF TableOK
  <2> HIDE DEF r, x, n
  <2>3. /\ cut.start = t[x].start + w /\ cut.length = t[x].length - w
        /\ t[x].start \in Nat /\ t[x].length \in Nat /\ w \in Nat /\ cut.length \in Nat /\ w <= t[x].length
    BY Zenon, <1>2, <1>3, <1>4 DEF Even
  <2> HIDE DEF cut
  <2>4. \A a \in Nat, l \in Nat :
            Disjoint(t[x].start, t[x].length, a, l) => Disjoint(cut.start, cut.length, a, l)
    BY <2>3 DEF Disjoint
  <2>5. \A j \in 1..n : t[j].start \in Nat /\ t[j].length \in Nat
    BY Zenon, <1>2 DEF Spans, Even
  <2>6. \A a \in Nat, l \in Nat : ClearOf(t, a, l) => ClearOf(r, a, l)
    BY Zenon, <1>2, <2>2, <2>4 DEF ClearOf, n
  <2>7. TableOK(r)
    <3>1. \A j \in 1..n : Base <= r[j].start /\ r[j].start + r[j].length <= Top
      <4> SUFFICES ASSUME NEW j \in 1..n PROVE Base <= r[j].start /\ r[j].start + r[j].length <= Top
        BY Zenon
      <4>1. Base <= t[j].start /\ t[j].start + t[j].length <= Top
        BY Zenon DEF TableOK, n
      <4>2. Base \in Nat /\ Top \in Nat
        BY Zenon, Evens DEF Even
      <4>3. CASE j = x
        <5> DEFINE s == t[x].start
                   m == t[x].length
        <5>1. /\ s \in Nat /\ m \in Nat /\ w \in Nat /\ w <= m /\ Base <= s /\ s + m <= Top
              /\ r[j].start = s + w /\ r[j].length = m - w
          BY Zenon, <2>2, <2>3, <4>1, <4>3
        <5> HIDE DEF s, m
        <5>2. Base <= s + w /\ (s + w) + (m - w) <= Top
          BY <4>2, <5>1
        <5> QED
          BY Zenon, <5>1, <5>2
      <4>4. CASE j # x
        BY Zenon, <2>2, <4>1, <4>4
      <4> QED
        BY Zenon, <4>3, <4>4
    <3>2. \A j, k \in 1..n : j # k => Disjoint(r[j].start, r[j].length, r[k].start, r[k].length)
      <4> SUFFICES ASSUME NEW j \in 1..n, NEW k \in 1..n, j # k
                   PROVE  Disjoint(r[j].start, r[j].length, r[k].start, r[k].length)
        BY Zenon
      <4>0. Disjoint(t[j].start, t[j].length, t[k].start, t[k].length)
        BY Zenon DEF TableOK, n
      <4>1. CASE j = x
        BY Zenon, <2>2, <2>4, <2>5, <4>0, <4>1
      <4>2. CASE k = x
        <5>1. Disjoint(cut.start, cut.length, t[j].start, t[j].length)
          BY Zenon, <2>4, <2>5, <4>0, <4>2 DEF Disjoint
        <5> QED
          BY Zenon, <2>2, <4>2, <5>1 DEF Disjoint
      <4>3. CASE j # x /\ k # x
        BY Zenon, <2>2, <4>0, <4>3
      <4> QED
        BY Zenon, <4>1, <4>2, <4>3
    <3>3. Len(r) <= MaxRanges
      BY Zenon, <2>2 DEF TableOK, n
    <3> QED
      BY Zenon, <2>2, <3>1, <3>2, <3>3 DEF TableOK
  <2>8. ClearOf(r, t[x].start, w)
    <3> SUFFICES ASSUME NEW j \in 1..n PROVE Disjoint(r[j].start, r[j].length, t[x].start, w)
      BY Zenon, <2>2 DEF ClearOf
    <3>1. CASE j = x
      BY <2>2, <2>3, <3>1 DEF Disjoint
    <3>2. CASE j # x
      <4>1. Disjoint(t[j].start, t[j].length, t[x].start, t[x].length)
        BY Zenon, <1>2, <3>2 DEF TableOK, n
      <4>2. Disjoint(t[j].start, t[j].length, t[x].start, w)
        <5>1. t[j].start \in Nat /\ t[j].length \in Nat
          BY Zenon, <2>5
        <5> QED
          BY Zenon, <2>3, <4>1, <5>1, Shorter
      <4> QED
        BY Zenon, <2>2, <3>2, <4>2
    <3> QED
      BY Zenon, <3>1, <3>2
  <2>9. CoveredBy(t) = CoveredBy(r) \cup PagesOf(t[x].start, w)
    <3>1. ASSUME NEW p, p \in CoveredBy(t) PROVE p \in CoveredBy(r) \cup PagesOf(t[x].start, w)
      <4>1. PICK k \in 1..n : p \in PagesOf(t[k].start, t[k].length)
        BY Zenon, <3>1, CoveredIs DEF n
      <4>2. CASE k = x
        <5>1. PagesOf(cut.start, cut.length) \subseteq CoveredBy(r)
          BY Zenon, <1>2, <2>2, CoveredIs
        <5> QED
          BY Zenon, <1>5, <4>1, <4>2, <5>1
      <4>3. CASE k # x
        BY Zenon, <2>2, <4>1, <4>3, CoveredIs
      <4> QED
        BY Zenon, <4>2, <4>3
    <3>2. ASSUME NEW p, p \in CoveredBy(r) PROVE p \in CoveredBy(t)
      <4>1. PICK j \in 1..n : p \in PagesOf(r[j].start, r[j].length)
        BY Zenon, <2>2, <3>2, CoveredIs
      <4>2. CASE j = x
        <5>1. p \in PagesOf(t[x].start, t[x].length)
          BY Zenon, <1>5, <2>2, <4>1, <4>2
        <5> QED
          BY Zenon, <1>2, <5>1, CoveredIs DEF n
      <4>3. CASE j # x
        BY Zenon, <2>2, <4>1, <4>3, CoveredIs DEF n
      <4> QED
        BY Zenon, <4>2, <4>3
    <3>3. PagesOf(t[x].start, w) \subseteq CoveredBy(t)
      <4>1. PagesOf(t[x].start, t[x].length) \subseteq CoveredBy(t)
        BY Zenon, <1>2, CoveredIs DEF n
      <4> QED
        BY Zenon, <1>5, <4>1
    <3> QED
      BY Zenon, <3>1, <3>2, <3>3
  <2>10. Len(r) = Len(t) /\ r[x].start = t[x].start + w
    BY Zenon, <2>2, <2>3 DEF n
  <2> QED
    BY Zenon, <1>2, <2>6, <2>7, <2>8, <2>9, <2>10 DEF r, x, n
<1> QED
  BY Zenon, <1>6, <1>7

\* What vmalloc_release() does to the table: the range is in it afterwards unless the
\* table was full and none of its ranges touched.
LEMMA ReleaseTable ==
    ASSUME NEW t, TableOK(t), NEW a \in Even, NEW l \in Even \ {0},
           Base <= a, a + l <= Top, ClearOf(t, a, l)
    PROVE  LET r == Release(t, a, l)
           IN /\ TableOK(r)
              /\ \A b \in Nat, m \in Nat \ {0} : ClearOf(t, b, m) /\ Disjoint(a, l, b, m) => ClearOf(r, b, m)
              /\ r = t \/ CoveredBy(r) = CoveredBy(t) \cup PagesOf(a, l)
              /\ r = t => ~HasRoom(t) /\ \A x \in 1..Len(t) : t[x].start # a + l
<1> DEFINE touching == {x \in 1..Len(t) : t[x].start = a + l \/ t[x].start + t[x].length = a}
           f == CHOOSE x \in touching : \A j \in touching : x <= j
           r == Release(t, a, l)
           n == Len(t)
           e == Joined(t[f], a, l)
<1>1. n \in Nat /\ \A j \in 1..n : t[j] \in Spans
  BY DEF TableOK
<1>2. \A j \in 1..n : t[j].start \in Even /\ t[j].length \in Even \ {0}
  BY Zenon, <1>1 DEF Spans
<1>3. a \in Nat /\ l \in Nat /\ l > 0 /\ Base \in Nat /\ Top \in Nat
      /\ \A j \in 1..n : t[j].start \in Nat /\ t[j].length \in Nat
  <2>1. \A k \in Even : k \in Nat
    BY Zenon DEF Even
  <2>2. l > 0
    BY <2>1
  <2> QED
    BY ZenonT(30), <1>2, <2>1, <2>2, Evens
<1>4. CASE touching # {}
  <2>1. f \in touching
    <3>1. touching \subseteq Nat
      OBVIOUS
    <3>2. \E k \in touching : \A j \in touching : k <= j
      BY ZenonT(30), <1>4, <3>1, LeastOfSome
    <3> QED
      BY Zenon, <3>2
  <2>2. r = [t EXCEPT ![f] = e]
    BY Zenon, <1>4 DEF Release
  <2>3. f \in 1..n /\ (t[f].start = a + l \/ t[f].start + t[f].length = a)
    BY ZenonT(30), <2>1
  <2> HIDE DEF touching, f
  <2>4. \/ e = [start |-> a, length |-> t[f].length + l] /\ t[f].start = a + l
        \/ e = [start |-> t[f].start, length |-> t[f].length + l] /\ t[f].start + t[f].length = a
    <3>1. t[f] = [start |-> t[f].start, length |-> t[f].length]
      BY Zenon, <1>1, <2>3 DEF Spans
    <3> QED
      BY Zenon, <2>3, <3>1 DEF Joined
  <2> HIDE DEF e
  <2>5. e \in Spans /\ e.length \in Nat /\ e.start \in Nat
    <3>1. t[f].length + l \in Even /\ t[f].length + l \in Nat /\ t[f].length + l # 0
      <4>1. t[f].length \in Even /\ t[f].length \in Nat
        BY Zenon, <1>2, <1>3, <2>3
      <4>2. l \in Even /\ l \in Nat /\ l > 0
        BY Zenon, <1>3
      <4> DEFINE m == t[f].length
      <4>3. m \in Even /\ m \in Nat
        BY Zenon, <4>1
      <4> HIDE DEF m
      <4>4. m + l \in Even
        BY Zenon, <4>2, <4>3, EvenSums
      <4>5. m + l \in Nat /\ m + l # 0
        BY <4>2, <4>3
      <4> QED
        BY Zenon, <4>4, <4>5 DEF m
    <3>2. t[f].start \in Even /\ t[f].start \in Nat
      BY Zenon, <1>2, <1>3, <2>3
    <3> QED
      BY <2>4, <3>1, <3>2, <1>3 DEF Spans
  <2>6. /\ r \in Seq(Spans) /\ Len(r) = n /\ r[f] = e
        /\ \A j \in (1..n) \ {f} : r[j] = t[j]
    BY <2>2, <2>3, <2>5 DEF TableOK
  <2>7. /\ Base <= e.start /\ e.start + e.length <= Top
        /\ \A b \in Nat, m \in Nat \ {0} :
            Disjoint(t[f].start, t[f].length, b, m) /\ Disjoint(a, l, b, m) => Disjoint(e.start, e.length, b, m)
    <3>1. Base <= t[f].start /\ t[f].start + t[f].length <= Top
      BY Zenon, <2>3 DEF TableOK
    <3>2. \/ e.start = a /\ e.length = t[f].length + l /\ t[f].start = a + l
          \/ e.start = t[f].start /\ e.length = t[f].length + l /\ t[f].start + t[f].length = a
      BY <2>4
    <3> DEFINE s == t[f].start
               m == t[f].length
               u == e.start
               v == e.length
    <3>3. /\ s \in Nat /\ m \in Nat /\ Base <= s /\ s + m <= Top
          /\ (u = a /\ v = m + l /\ s = a + l) \/ (u = s /\ v = m + l /\ s + m = a)
      BY Zenon, <1>3, <2>3, <3>1, <3>2
    <3> HIDE DEF s, m, u, v
    <3>4. Base <= u /\ u + v <= Top
      BY <1>3, <3>3
    <3>5. \A b \in Nat, k \in Nat \ {0} : Disjoint(s, m, b, k) /\ Disjoint(a, l, b, k) => Disjoint(u, v, b, k)
      BY <1>3, <3>3 DEF Disjoint
    <3> QED
      BY Zenon, <3>4, <3>5 DEF s, m, u, v
  <2> HIDE DEF r, n
  <2>8. \A b \in Nat, m \in Nat \ {0} : ClearOf(t, b, m) /\ Disjoint(a, l, b, m) => ClearOf(r, b, m)
    <3> SUFFICES ASSUME NEW b \in Nat, NEW m \in Nat \ {0}, ClearOf(t, b, m), Disjoint(a, l, b, m),
                        NEW j \in 1..n
                 PROVE  Disjoint(r[j].start, r[j].length, b, m)
      BY Zenon, <2>6 DEF ClearOf
    <3>1. Disjoint(t[j].start, t[j].length, b, m)
      BY Zenon DEF ClearOf, n
    <3> QED
      BY Zenon, <2>6, <2>7, <3>1
  <2>9. TableOK(r)
    <3>1. \A j \in 1..n : Base <= r[j].start /\ r[j].start + r[j].length <= Top
      BY Zenon, <2>6, <2>7 DEF TableOK, n
    <3>2. \A j \in (1..n) \ {f} : Disjoint(e.start, e.length, t[j].start, t[j].length)
      <4> SUFFICES ASSUME NEW j \in (1..n) \ {f} PROVE Disjoint(e.start, e.length, t[j].start, t[j].length)
        BY Zenon
      <4>1. Disjoint(t[f].start, t[f].length, t[j].start, t[j].length)
        BY Zenon, <2>3 DEF TableOK, n
      <4>2. Disjoint(a, l, t[j].start, t[j].length)
        BY Zenon DEF ClearOf, n, Disjoint
      <4>3. t[j].start \in Nat /\ t[j].length \in Nat \ {0}
        BY Zenon, <1>2, <1>3
      <4> QED
        BY Zenon, <2>7, <4>1, <4>2, <4>3
    <3>3. \A j, k \in 1..n : j # k => Disjoint(r[j].start, r[j].length, r[k].start, r[k].length)
      <4> SUFFICES ASSUME NEW j \in 1..n, NEW k \in 1..n, j # k
                   PROVE  Disjoint(r[j].start, r[j].length, r[k].start, r[k].length)
        BY Zenon
      <4>1. CASE j = f
        BY Zenon, <2>6, <3>2, <4>1
      <4>2. CASE k = f
        <5>1. Disjoint(e.start, e.length, t[j].start, t[j].length) /\ r[k] = e /\ r[j] = t[j]
          BY Zenon, <2>6, <3>2, <4>2
        <5> QED
          BY Zenon, <5>1 DEF Disjoint
      <4>3. CASE j # f /\ k # f
        BY <2>6, <4>3 DEF TableOK, n
      <4> QED
        BY Zenon, <4>1, <4>2, <4>3
    <3>4. Len(r) <= MaxRanges
      BY Zenon, <2>6 DEF TableOK, n
    <3> QED
      BY Zenon, <2>6, <3>1, <3>3, <3>4 DEF TableOK
  <2>10. PagesOf(e.start, e.length) = PagesOf(t[f].start, t[f].length) \cup PagesOf(a, l)
    <3>1. CASE e = [start |-> a, length |-> t[f].length + l] /\ t[f].start = a + l
      <4>1. PagesOf(a, l + t[f].length) = PagesOf(a, l) \cup PagesOf(a + l, t[f].length)
        BY <1>2, <2>3, PagesSplit DEF n
      <4>2. l + t[f].length = t[f].length + l
        BY <1>3, <2>3 DEF n
      <4> QED
        BY Zenon, <3>1, <4>1, <4>2
    <3>2. CASE e = [start |-> t[f].start, length |-> t[f].length + l] /\ t[f].start + t[f].length = a
      BY <1>2, <2>3, <3>2, PagesSplit DEF n
    <3> QED
      BY Zenon, <2>4, <3>1, <3>2
  <2>11. CoveredBy(r) = CoveredBy(t) \cup PagesOf(a, l)
    <3>1. ASSUME NEW p, p \in CoveredBy(r) PROVE p \in CoveredBy(t) \cup PagesOf(a, l)
      <4>1. PICK j \in 1..n : p \in PagesOf(r[j].start, r[j].length)
        BY Zenon, <2>6, <3>1, CoveredIs
      <4>2. CASE j = f
        <5>1. p \in PagesOf(t[f].start, t[f].length) \cup PagesOf(a, l)
          BY Zenon, <2>6, <2>10, <4>1, <4>2
        <5> QED
          BY Zenon, <2>3, <5>1, CoveredIs DEF n
      <4>3. CASE j # f
        BY Zenon, <2>6, <4>1, <4>3, CoveredIs DEF n
      <4> QED
        BY Zenon, <4>2, <4>3
    <3>2. ASSUME NEW p, p \in CoveredBy(t) PROVE p \in CoveredBy(r)
      <4>1. PICK j \in 1..n : p \in PagesOf(t[j].start, t[j].length)
        BY Zenon, <3>2, CoveredIs DEF n
      <4>2. CASE j = f
        <5>1. p \in PagesOf(e.start, e.length)
          BY Zenon, <2>10, <4>1, <4>2
        <5> QED
          BY Zenon, <2>3, <2>6, <5>1, CoveredIs DEF n
      <4>3. CASE j # f
        BY Zenon, <2>6, <4>1, <4>3, CoveredIs
      <4> QED
        BY Zenon, <4>2, <4>3
    <3>3. PagesOf(a, l) \subseteq CoveredBy(r)
      <4>1. PagesOf(e.start, e.length) \subseteq CoveredBy(r)
        BY Zenon, <2>3, <2>6, CoveredIs DEF n
      <4> QED
        BY Zenon, <2>10, <4>1
    <3> QED
      BY Zenon, <3>1, <3>2, <3>3
  <2>12. r # t
    <3>1. e.length # t[f].length
      BY <1>3, <2>3, <2>4 DEF n
    <3> QED
      BY Zenon, <2>6, <3>1
  <2> QED
    BY Zenon, <2>8, <2>9, <2>11, <2>12 DEF r
<1>5. CASE touching = {} /\ HasRoom(t)
  <2> DEFINE e2 == [start |-> a, length |-> l]
  <2>1. r = Append(t, e2) /\ e2 \in Spans
    BY Zenon, <1>5 DEF Release, Spans
  <2>2. /\ r \in Seq(Spans) /\ Len(r) = n + 1 /\ r[n + 1] = e2
        /\ \A j \in 1..n : r[j] = t[j]
    BY <1>1, <2>1 DEF TableOK
  <2> HIDE DEF r, n
  <2>3. \A j \in 1..Len(r) : j \in 1..n \/ j = n + 1
    BY <1>1, <2>2
  <2>4. \A b \in Nat, m \in Nat \ {0} : ClearOf(t, b, m) /\ Disjoint(a, l, b, m) => ClearOf(r, b, m)
    BY <2>2, <2>3 DEF ClearOf, n
  <2>5. TableOK(r)
    <3>1. \A j \in 1..Len(r) : Base <= r[j].start /\ r[j].start + r[j].length <= Top
      <4>1. \A j \in 1..n : Base <= t[j].start /\ t[j].start + t[j].length <= Top
        BY Zenon DEF TableOK, n
      <4>2. r[n + 1].start = a /\ r[n + 1].length = l
        <5>1. e2.start = a /\ e2.length = l
          OBVIOUS
        <5> HIDE DEF e2
        <5> QED
          BY Zenon, <2>2, <5>1
      <4> QED
        BY Zenon, <2>2, <2>3, <4>1, <4>2
    <3>2. \A j, k \in 1..Len(r) : j # k => Disjoint(r[j].start, r[j].length, r[k].start, r[k].length)
      <4> SUFFICES ASSUME NEW j \in 1..Len(r), NEW k \in 1..Len(r), j # k
                   PROVE  Disjoint(r[j].start, r[j].length, r[k].start, r[k].length)
        BY Zenon
      <4>1. CASE j \in 1..n /\ k \in 1..n
        BY ZenonT(30), <2>2, <4>1 DEF TableOK, n
      <4>2. CASE j = n + 1 /\ k \in 1..n
        <5>1. Disjoint(t[k].start, t[k].length, a, l)
          BY Zenon, <4>2 DEF ClearOf, n
        <5> QED
          BY <2>2, <4>2, <5>1 DEF Disjoint
      <4>3. CASE j \in 1..n /\ k = n + 1
        BY <2>2, <4>3 DEF ClearOf, n
      <4> QED
        BY Zenon, <2>3, <4>1, <4>2, <4>3
    <3>3. Len(r) <= MaxRanges
      <4>1. n < MaxRanges /\ MaxRanges \in Nat /\ Len(r) = n + 1
        BY Zenon, <1>5, <2>2, AreaAssumption DEF HasRoom, n
      <4>2. n \in Nat
        BY <1>1 DEF TableOK, n
      <4> QED
        BY <4>1, <4>2
    <3> QED
      BY Zenon, <2>2, <3>1, <3>2, <3>3 DEF TableOK
  <2>6. CoveredBy(r) = CoveredBy(t) \cup PagesOf(a, l)
    <3>1. ASSUME NEW p, p \in CoveredBy(r) PROVE p \in CoveredBy(t) \cup PagesOf(a, l)
      <4>1. PICK j \in 1..Len(r) : p \in PagesOf(r[j].start, r[j].length)
        BY Zenon, <3>1, CoveredIs
      <4> QED
        BY <2>2, <2>3, <4>1, CoveredIs DEF n
    <3>2. ASSUME NEW p, p \in CoveredBy(t) PROVE p \in CoveredBy(r)
      <4>1. PICK j \in 1..n : p \in PagesOf(t[j].start, t[j].length)
        BY Zenon, <3>2, CoveredIs DEF n
      <4>2. j \in 1..Len(r)
        BY <1>1, <2>2
      <4> QED
        BY Zenon, <2>2, <4>1, <4>2, CoveredIs
    <3>3. PagesOf(a, l) \subseteq CoveredBy(r)
      <4>1. n + 1 \in 1..Len(r)
        BY <1>1, <2>2
      <4> QED
        BY <2>2, <4>1, CoveredIs
    <3> QED
      BY Zenon, <3>1, <3>2, <3>3
  <2>7. r # t
    BY <1>1, <2>2 DEF n
  <2> QED
    BY Zenon, <2>4, <2>5, <2>6, <2>7 DEF r
<1>6. CASE touching = {} /\ ~HasRoom(t)
  <2>1. r = t
    BY Zenon, <1>6 DEF Release
  <2> QED
    BY Zenon, <1>6, <2>1 DEF n
<1> QED
  BY Zenon, <1>4, <1>5, <1>6

----------------------------------------------------------------------------
\* What a caller of vmalloc_reserve() or map_device() holds.
Reservations == [kind : {"range", "window"}, address : Even, length : Nat \ {0}, taken : Even \ {0}]

\* A reservation is within the area, in no free range, and gives back no more than it took.
Sound(table, r) ==
    /\ r \in Reservations /\ WithGuard(r.length) <= r.taken
    /\ Base <= r.address /\ r.address + r.taken <= Top
    /\ ClearOf(table, r.address, r.taken)

\* Free ranges and reservations share nothing.
RangesInv ==
    /\ TableOK(free_ranges)
    /\ \A r \in ranges : Sound(free_ranges, r)
    /\ \A r, s \in ranges : r # s => Disjoint(r.address, r.taken, s.address, s.taken)

\* No device's registers begin so late in their page that the window is a page longer
\* than the length that unmap_device() is told.
WindowsFit == \A offset \in Offsets, length \in Lengths : round_up(length + offset) = round_up(length)

\* The pages that callers hold.
Held(reserved) == UNION {PagesOf(r.address, r.taken) : r \in reserved}

\* Nothing is missing, and what comes back is all that was taken.
LostInv ==
    /\ \A r \in ranges : r.taken = WithGuard(r.length)
    /\ Area = CoveredBy(free_ranges) \cup Held(ranges) \cup leaked

\* At boot the table has one range, the whole area.
LEMMA RangesInvInit == RangesInit => RangesInv /\ LostInv
<1> SUFFICES ASSUME RangesInit PROVE RangesInv /\ LostInv
  BY Zenon
<1> DEFINE all == [start |-> Base, length |-> Pages * PageUnits]
<1>1. all \in Spans
  BY AreaAssumption DEF Spans, Even, Base, PageUnits
<1>2. free_ranges = <<all>> /\ free_ranges \in Seq(Spans) /\ Len(free_ranges) = 1 /\ free_ranges[1] = all
  BY <1>1 DEF RangesInit
<1>3. TableOK(free_ranges)
  <2>1. Base <= all.start /\ all.start + all.length <= Top /\ 1 <= MaxRanges
    BY AreaAssumption DEF Top, Base, PageUnits
  <2> HIDE DEF all
  <2> QED
    BY <1>2, <2>1 DEF TableOK
<1>4. CoveredBy(free_ranges) = Area
  BY <1>2 DEF CoveredBy, Area
<1> QED
  BY Zenon, <1>3, <1>4 DEF RangesInit, RangesInv, LostInv, Held

\* What is within a range is apart from what the range is apart from.
LEMMA ApartWithin ==
    ASSUME NEW s \in Nat, NEW l \in Nat, NEW a \in Nat, NEW m \in Nat, NEW w \in Nat,
           w <= l, Disjoint(s, l, a, m)
    PROVE  Disjoint(s, w, a, m) /\ Disjoint(a, m, s, w) /\ Disjoint(a, m, s, l)
BY DEF Disjoint

\* A reservation keeps every page in one place.
LEMMA TakeKeeps ==
    ASSUME RangesInv, NEW kind \in {"range", "window"}, NEW span \in Nat, NEW length \in Nat \ {0},
           length <= span, TakeRange(kind, span, length)
    PROVE  /\ RangesInv'
           /\ LostInv /\ WithGuard(span) = WithGuard(length) => LostInv'
<1> DEFINE w == WithGuard(span)
           x == FirstRange(free_ranges, w)
           a == free_ranges[x].start
           n == [kind |-> kind, length |-> length, taken |-> w, address |-> a]
<1>1. w \in Even \ {0} /\ WithGuard(length) <= w
  BY Zenon, Evens
<1>2. TableOK(free_ranges) /\ LongEnough(free_ranges, w) # {}
      /\ free_ranges' = Reserve(free_ranges, w) /\ leaked' = leaked
  BY Zenon DEF RangesInv, TakeRange
<1>3. ranges' = ranges \cup {n}
  BY Zenon DEF TakeRange, WithGuard
<1> HIDE DEF w
<1>4. /\ x \in 1..Len(free_ranges) /\ free_ranges[x].length >= w /\ free_ranges[x] \in Spans
      /\ TableOK(free_ranges') /\ ClearOf(free_ranges', a, w)
      /\ \A b \in Nat, l \in Nat : ClearOf(free_ranges, b, l) => ClearOf(free_ranges', b, l)
      /\ CoveredBy(free_ranges) = CoveredBy(free_ranges') \cup PagesOf(a, w)
  BY Zenon, <1>1, <1>2, ReserveTable
<1>5. a \in Even /\ a \in Nat /\ w \in Nat /\ free_ranges[x].length \in Nat /\ w <= free_ranges[x].length
  BY Zenon, <1>1, <1>4 DEF Spans, Even
<1>6. Base <= a /\ a + free_ranges[x].length <= Top
  BY Zenon, <1>2, <1>4 DEF TableOK
<1> HIDE DEF x, a
<1>7. n \in Reservations /\ n.taken = w /\ n.address = a /\ n.length = length
  BY Zenon, <1>1, <1>5 DEF Reservations
<1>8. Base <= a /\ a + w <= Top
  <2> DEFINE m == free_ranges[x].length
  <2>1. m \in Nat /\ w <= m /\ a + m <= Top /\ a \in Nat /\ w \in Nat /\ Top \in Nat
    BY Zenon, <1>5, <1>6, Evens DEF Even
  <2> HIDE DEF m
  <2> QED
    BY <1>6, <2>1
<1> HIDE DEF n
<1>9. Sound(free_ranges', n)
  BY Zenon, <1>1, <1>4, <1>7, <1>8 DEF Sound
<1>10. ASSUME NEW r \in ranges
       PROVE  /\ Sound(free_ranges', r)
              /\ Disjoint(a, w, r.address, r.taken) /\ Disjoint(r.address, r.taken, a, w)
  <2>1. Sound(free_ranges, r)
    BY Zenon DEF RangesInv
  <2>2. r.address \in Nat /\ r.taken \in Nat
    BY Zenon, <2>1 DEF Sound, Reservations, Even
  <2>3. ClearOf(free_ranges', r.address, r.taken)
    BY Zenon, <1>4, <2>1, <2>2 DEF Sound
  <2>4. Disjoint(a, free_ranges[x].length, r.address, r.taken)
    BY Zenon, <1>4, <2>1 DEF Sound, ClearOf, a
  <2> QED
    BY ZenonT(30), <1>5, <2>1, <2>2, <2>3, <2>4, ApartWithin DEF Sound
<1>11. RangesInv'
  <2>1. \A r \in ranges' : Sound(free_ranges', r)
    BY Zenon, <1>3, <1>9, <1>10
  <2>2. \A r, s \in ranges' : r # s => Disjoint(r.address, r.taken, s.address, s.taken)
    BY Zenon, <1>3, <1>7, <1>10 DEF RangesInv
  <2> QED
    BY Zenon, <1>4, <2>1, <2>2 DEF RangesInv
<1>12. ASSUME LostInv, w = WithGuard(length) PROVE LostInv'
  <2>1. \A r \in ranges' : r.taken = WithGuard(r.length)
    BY Zenon, <1>3, <1>7, <1>12 DEF LostInv
  <2>2. Held(ranges') = Held(ranges) \cup PagesOf(a, w)
    BY Zenon, <1>3, <1>7 DEF Held
  <2>3. Area = CoveredBy(free_ranges) \cup Held(ranges) \cup leaked
    BY Zenon, <1>12 DEF LostInv
  <2>4. Area = CoveredBy(free_ranges') \cup Held(ranges') \cup leaked'
    BY Zenon, <1>2, <1>4, <2>2, <2>3
  <2> QED
    BY Zenon, <2>1, <2>4 DEF LostInv, Area
<1> QED
  BY Zenon, <1>11, <1>12 DEF w

\* So does giving one back, and none is lost if the table has room or says so.
LEMMA GiveBackKeeps ==
    ASSUME RangesInv, NEW r \in ranges, GiveBack(r)
    PROVE  RangesInv' /\ (LostInv => LostInv')
<1> DEFINE l == WithGuard(r.length)
           after == Release(free_ranges, r.address, l)
<1>1. Sound(free_ranges, r) /\ TableOK(free_ranges)
  BY Zenon DEF RangesInv
<1>2. /\ r.address \in Even /\ r.address \in Nat /\ r.length \in Nat /\ r.taken \in Nat
      /\ Base <= r.address /\ r.address + r.taken <= Top /\ l <= r.taken
  BY Zenon, <1>1 DEF Sound, Reservations, Even
<1>3. l \in Even \ {0} /\ l \in Nat
  BY Zenon, <1>2, Evens DEF Even
<1>4. /\ ranges' = ranges \ {r} /\ free_ranges' = after
      /\ leaked' = IF after = free_ranges THEN leaked \cup PagesOf(r.address, l) ELSE leaked
  BY Zenon DEF GiveBack
<1> HIDE DEF l, after
<1>5. ClearOf(free_ranges, r.address, l)
  <2> SUFFICES ASSUME NEW x \in 1..Len(free_ranges)
               PROVE  Disjoint(free_ranges[x].start, free_ranges[x].length, r.address, l)
    BY Zenon DEF ClearOf
  <2>1. free_ranges[x].start \in Nat /\ free_ranges[x].length \in Nat
    <3>1. free_ranges[x] \in Spans
      BY <1>1 DEF TableOK
    <3> QED
      BY Zenon, <3>1 DEF Spans, Even
  <2>2. Disjoint(free_ranges[x].start, free_ranges[x].length, r.address, r.taken)
    BY Zenon, <1>1 DEF Sound, ClearOf
  <2> QED
    BY Zenon, <1>2, <1>3, <2>1, <2>2, Shorter
<1>6. r.address + l <= Top
  BY <1>2, <1>3, Evens DEF Even
<1>7. /\ TableOK(after)
      /\ \A b \in Nat, m \in Nat \ {0} : ClearOf(free_ranges, b, m) /\ Disjoint(r.address, l, b, m) => ClearOf(after, b, m)
      /\ after = free_ranges \/ CoveredBy(after) = CoveredBy(free_ranges) \cup PagesOf(r.address, l)
  BY Zenon, <1>1, <1>2, <1>3, <1>5, <1>6, ReleaseTable DEF after
<1>8. ASSUME NEW s \in ranges' PROVE Sound(free_ranges', s)
  <2>1. s \in ranges /\ s # r /\ Sound(free_ranges, s)
    BY Zenon, <1>4 DEF RangesInv
  <2>2. s.address \in Nat /\ s.taken \in Nat \ {0}
    BY Zenon, <2>1 DEF Sound, Reservations, Even
  <2>3. Disjoint(r.address, r.taken, s.address, s.taken)
    BY Zenon, <2>1 DEF RangesInv
  <2>4. Disjoint(r.address, l, s.address, s.taken)
    BY <1>2, <1>3, <2>2, <2>3 DEF Disjoint
  <2> QED
    BY Zenon, <1>4, <1>7, <2>1, <2>2, <2>4 DEF Sound
<1>9. RangesInv'
  <2>1. \A s, t \in ranges' : s # t => Disjoint(s.address, s.taken, t.address, t.taken)
    BY Zenon, <1>4 DEF RangesInv
  <2> QED
    BY Zenon, <1>4, <1>7, <1>8, <2>1 DEF RangesInv
<1>10. ASSUME LostInv PROVE LostInv'
  <2>1. \A s \in ranges' : s.taken = WithGuard(s.length)
    BY Zenon, <1>4, <1>10 DEF LostInv
  <2>2. r.taken = l
    BY Zenon, <1>10 DEF LostInv, l
  <2>3. Held(ranges) = Held(ranges') \cup PagesOf(r.address, l)
    BY Zenon, <1>4, <2>2 DEF Held
  <2>4. Area = CoveredBy(free_ranges) \cup Held(ranges) \cup leaked
    BY Zenon, <1>10 DEF LostInv
  <2>5. Area = CoveredBy(free_ranges') \cup Held(ranges') \cup leaked'
    BY Zenon, <1>4, <1>7, <2>3, <2>4
  <2> QED
    BY Zenon, <2>1, <2>5 DEF LostInv, Area
<1> QED
  BY Zenon, <1>9, <1>10

\* A window that could not be mapped leaves the table as it was, but for its order.
LEMMA MapFailsKeeps ==
    ASSUME RangesInv, NEW offset \in Nat, NEW length \in Nat, MapFails(offset, length)
    PROVE  RangesInv' /\ (LostInv => LostInv')
<1> DEFINE w == WithGuard(round_up(length + offset))
           x == FirstRange(free_ranges, w)
           a == free_ranges[x].start
           rest == Reserve(free_ranges, w)
           after == Release(rest, a, w)
<1>1. w \in Even \ {0}
  <2>1. length + offset \in Nat
    OBVIOUS
  <2>2. round_up(length + offset) \in Nat
    BY Zenon, <2>1, Evens DEF Even
  <2> QED
    BY Zenon, <2>2, Evens
<1>2. TableOK(free_ranges) /\ LongEnough(free_ranges, w) # {}
      /\ free_ranges' = after /\ ranges' = ranges /\ leaked' = leaked
  BY Zenon DEF RangesInv, MapFails
<1> HIDE DEF w
<1>3. /\ x \in 1..Len(free_ranges) /\ free_ranges[x].length >= w /\ free_ranges[x] \in Spans
      /\ TableOK(rest) /\ ClearOf(rest, a, w)
      /\ \A b \in Nat, l \in Nat : ClearOf(free_ranges, b, l) => ClearOf(rest, b, l)
      /\ CoveredBy(free_ranges) = CoveredBy(rest) \cup PagesOf(a, w)
      /\ \/ Len(rest) < Len(free_ranges)
         \/ Len(rest) = Len(free_ranges) /\ rest[x].start = a + w
  BY ZenonT(30), <1>1, <1>2, ReserveTable
<1>4. a \in Even /\ a \in Nat /\ w \in Nat /\ free_ranges[x].length \in Nat /\ w <= free_ranges[x].length
  BY Zenon, <1>1, <1>3 DEF Spans, Even
<1>5. Base <= a /\ a + free_ranges[x].length <= Top
  BY ZenonT(30), <1>2, <1>3 DEF TableOK
<1> HIDE DEF x, a, rest, after
<1>6. a + w <= Top
  <2>1. Top \in Nat
    BY Zenon, Evens DEF Even
  <2> QED
    BY <1>4, <1>5, <2>1
<1>7. /\ TableOK(after)
      /\ \A b \in Nat, m \in Nat \ {0} : ClearOf(rest, b, m) /\ Disjoint(a, w, b, m) => ClearOf(after, b, m)
      /\ after = rest \/ CoveredBy(after) = CoveredBy(rest) \cup PagesOf(a, w)
      /\ after = rest => ~HasRoom(rest) /\ \A k \in 1..Len(rest) : rest[k].start # a + w
  BY Zenon, <1>1, <1>3, <1>4, <1>5, <1>6, ReleaseTable DEF after
<1>8. CoveredBy(after) = CoveredBy(free_ranges)
  <2>1. after # rest
    <3>1. Len(free_ranges) <= MaxRanges /\ Len(free_ranges) \in Nat /\ Len(rest) \in Nat
      <4>1. Len(free_ranges) <= MaxRanges /\ free_ranges \in Seq(Spans)
        BY Zenon, <1>2 DEF TableOK
      <4>2. rest \in Seq(Spans)
        BY Zenon, <1>3 DEF TableOK
      <4> QED
        BY <4>1, <4>2
    <3>2. CASE Len(rest) < Len(free_ranges)
      BY <1>7, <3>1, <3>2, AreaAssumption DEF HasRoom
    <3>3. CASE Len(rest) = Len(free_ranges) /\ rest[x].start = a + w
      BY ZenonT(30), <1>3, <1>7, <3>3
    <3> QED
      BY Zenon, <1>3, <3>2, <3>3
  <2> QED
    BY ZenonT(30), <1>3, <1>7, <2>1
<1>9. ASSUME NEW r \in ranges PROVE Sound(after, r)
  <2>1. Sound(free_ranges, r)
    BY Zenon DEF RangesInv
  <2>2. r.address \in Nat /\ r.taken \in Nat \ {0}
    BY Zenon, <2>1 DEF Sound, Reservations, Even
  <2>3. Disjoint(a, free_ranges[x].length, r.address, r.taken)
    BY ZenonT(30), <1>3, <2>1 DEF Sound, ClearOf, a
  <2>4. Disjoint(a, w, r.address, r.taken)
    BY Zenon, <1>4, <2>2, <2>3, ApartWithin
  <2> QED
    BY Zenon, <1>3, <1>7, <2>1, <2>2, <2>4 DEF Sound
<1>10. RangesInv'
  BY Zenon, <1>2, <1>7, <1>9 DEF RangesInv
<1>11. LostInv => LostInv'
  BY Zenon, <1>2, <1>8 DEF LostInv, Area
<1> QED
  BY Zenon, <1>10, <1>11

\* Every step keeps pages in one place; none is lost if windows fit.
LEMMA RangesInvStep ==
    /\ RangesInv /\ [RangesNext]_range_vars => RangesInv'
    /\ WindowsFit /\ RangesInv /\ LostInv /\ [RangesNext]_range_vars => LostInv'
<1> SUFFICES ASSUME RangesInv, [RangesNext]_range_vars
             PROVE  RangesInv' /\ (WindowsFit /\ LostInv => LostInv')
  BY Zenon
<1>1. ASSUME NEW length \in Lengths, vmalloc_reserve(length)
      PROVE  RangesInv' /\ (LostInv => LostInv')
  <2>1. length \in Nat \ {0} /\ length \in Nat /\ length <= length
    BY RequestAssumption
  <2> QED
    BY Zenon, <1>1, <2>1, TakeKeeps DEF vmalloc_reserve
<1>2. ASSUME NEW offset \in Offsets, NEW length \in Lengths, map_device(offset, length)
      PROVE  RangesInv' /\ (WindowsFit /\ LostInv => LostInv')
  <2>1. length \in Nat \ {0} /\ offset \in Nat /\ length + offset \in Nat /\ length <= length + offset
    BY RequestAssumption
  <2> DEFINE span == round_up(length + offset)
  <2>2. span \in Even /\ span \in Nat /\ length + offset <= span
    BY Zenon, <2>1, Evens DEF Even
  <2>3. TakeRange("window", span, length)
    BY Zenon, <1>2 DEF map_device
  <2>4. WindowsFit => WithGuard(span) = WithGuard(length)
    <3>1. round_up(span) = span
      BY Zenon, <2>2, Evens
    <3> QED
      BY Zenon, <3>1 DEF WithGuard, WindowsFit
  <2> HIDE DEF span
  <2>5. length <= span
    BY <2>1, <2>2
  <2> QED
    BY Zenon, <2>1, <2>2, <2>3, <2>4, <2>5, TakeKeeps
<1>3. ASSUME NEW offset \in Offsets, NEW length \in Lengths, MapFails(offset, length)
      PROVE  RangesInv' /\ (LostInv => LostInv')
  BY Zenon, <1>3, MapFailsKeeps, RequestAssumption
<1>4. ASSUME NEW r \in ranges, vmalloc_release(r) \/ unmap_device(r)
      PROVE  RangesInv' /\ (LostInv => LostInv')
  BY Zenon, <1>4, GiveBackKeeps DEF vmalloc_release, unmap_device
<1>5. CASE UNCHANGED range_vars
  BY Zenon, <1>5 DEF range_vars, RangesInv, LostInv, Area
<1> QED
  BY Zenon, <1>1, <1>2, <1>3, <1>4, <1>5 DEF RangesNext

\* In terms of pages.
LEMMA RangesInvMeans == RangesInv => RangesTypeOK /\ NoPageTwice
<1> SUFFICES ASSUME RangesInv PROVE RangesTypeOK /\ NoPageTwice
  BY Zenon
<1>1. \A x \in 1..Len(free_ranges) :
        /\ free_ranges[x].start \in Even /\ free_ranges[x].length \in Even \ {0}
        /\ Base <= free_ranges[x].start /\ free_ranges[x].start + free_ranges[x].length <= Top
  <2>1. \A x \in 1..Len(free_ranges) : free_ranges[x] \in Spans
    BY DEF RangesInv, TableOK
  <2> QED
    BY Zenon, <2>1 DEF RangesInv, TableOK, Spans
<1>2. \A r \in ranges :
        /\ r.address \in Even /\ r.taken \in Even /\ Base <= r.address /\ r.address + r.taken <= Top
        /\ ClearOf(free_ranges, r.address, r.taken)
  BY Zenon DEF RangesInv, Sound, Reservations
<1>3. ASSUME NEW s \in Even, NEW l \in Even, Base <= s, s + l <= Top PROVE PagesOf(s, l) \subseteq Area
  <2>1. Base \in Even /\ Pages * PageUnits \in Even
    BY AreaAssumption DEF Base, Even, PageUnits
  <2>2. Area = {p \in Even : Base <= p /\ p < Top}
    BY Zenon, <2>1, PagesAreEven DEF Area, Top
  <2>3. Top \in Nat /\ Base \in Nat
    BY Zenon, Evens DEF Even
  <2> QED
    BY <1>3, <2>2, <2>3, PagesAreEven DEF Even
<1>4. RangesTypeOK
  <2>1. Len(free_ranges) \in 0..MaxRanges
    BY AreaAssumption DEF RangesInv, TableOK
  <2>2. \A x \in 1..Len(free_ranges) : free_ranges[x].length > 0
    BY <1>1 DEF Even
  <2> QED
    BY Zenon, <1>1, <1>2, <1>3, <2>1, <2>2 DEF RangesTypeOK, RangePages, HeldPages
<1>5. NoPageTwice
  <2>1. \A x, j \in 1..Len(free_ranges) : x # j => RangePages(x) \cap RangePages(j) = {}
    BY Zenon, <1>1, ApartPages DEF RangesInv, TableOK, RangePages
  <2>2. \A r, s \in ranges : r # s => HeldPages(r) \cap HeldPages(s) = {}
    BY Zenon, <1>2, ApartPages DEF RangesInv, HeldPages
  <2>3. \A x \in 1..Len(free_ranges), r \in ranges : RangePages(x) \cap HeldPages(r) = {}
    BY Zenon, <1>1, <1>2, ApartPages DEF ClearOf, RangePages, HeldPages
  <2> QED
    BY Zenon, <2>1, <2>2, <2>3 DEF NoPageTwice
<1> QED
  BY Zenon, <1>4, <1>5

\* For every area, table size, length and device address: no page is in two free ranges, in
\* two reservations or in one of each, although vmalloc_release() joins one neighbour only
\* and unmap_device() may give back less than map_device() took.
THEOREM WindowsStayApart == RangesSpec => [](RangesTypeOK /\ NoPageTwice)
BY RangesInvInit, RangesInvStep, RangesInvMeans, PTL DEF RangesSpec

\* If every window is as long as the length unmap_device() is told, no page is lost either,
\* except by the release that finds the table full (RangesAccounted).
THEOREM RangesStayAccounted == ASSUME WindowsFit PROVE RangesSpec => []RangesAccounted
<1>1. RangesInv /\ LostInv => RangesAccounted
  <2>1. LostInv => NoPageLost
    <3> DEFINE free == UNION {RangePages(x) : x \in 1..Len(free_ranges)}
               reserved == UNION {HeldPages(r) : r \in ranges}
    <3>1. CoveredBy(free_ranges) = free
      BY Zenon DEF CoveredBy, RangePages
    <3>2. Held(ranges) = reserved
      BY Zenon DEF Held, HeldPages
    <3>3. NoPageLost <=> Area = free \cup reserved \cup leaked
      BY Zenon DEF NoPageLost
    <3> HIDE DEF free, reserved
    <3> QED
      BY Zenon, <3>1, <3>2, <3>3 DEF LostInv
  <2> QED
    BY Zenon, <2>1, RangesInvMeans DEF RangesAccounted
<1>2. RangesInv /\ LostInv /\ [RangesNext]_range_vars => (RangesInv /\ LostInv)'
  BY Zenon, RangesInvStep
<1> QED
  BY <1>1, <1>2, RangesInvInit, PTL DEF RangesSpec

----------------------------------------------------------------------------
(* kernel/mm/page_alloc.cpp                                                 *)

ScanInv ==
    want # 0 =>
        /\ run < want /\ run <= i
        /\ Run(i - run, run) \cap used = {}
        /\ i - run > 0 => i - run - 1 \in used
        /\ \A f \in Page : f + want <= i => Run(f, want) \cap used # {}

\* An allocation lies within the managed pages.
HeldInside == \A a \in held : a[1] + a[2] <= managed_pages

IndInv == TypeOK /\ PagesAccounted /\ UsedCounted /\ HeldInside /\ ScanInv

\* The constants, in the form the steps below use them
LEMMA Constants ==
  /\ managed_pages \in Nat /\ MaxCount \in Nat
  /\ BootUsed \subseteq Page /\ Page \subseteq Nat
BY PageAllocAssumption DEF BootUsed, Page, Touched, Covered

\* A run that ends before page p and takes p in.
LEMMA RunGrows ==
  ASSUME NEW p \in Nat, NEW k \in Nat, k <= p
  PROVE  Run(p + 1 - (k + 1), k + 1) = Run(p - k, k) \cup {p}
BY DEF Run

\* What is in a run.
LEMMA InRun ==
  ASSUME NEW p \in Nat, NEW f \in Nat, NEW k \in Nat
  PROVE  /\ f <= p /\ p < f + k => p \in Run(f, k)
         /\ f + k = p + 1 /\ k # 0 => p \in Run(f, k)
BY DEF Run

\* Sets of pages are finite, so that they can be counted.
LEMMA PagesFinite ==
  ASSUME NEW S, S \subseteq Page
  PROVE  IsFiniteSet(S) /\ Cardinality(S) \in Nat
<1>1. IsFiniteSet(Page)
  BY Constants, FS_Interval DEF Page
<1> QED
  BY Zenon, <1>1, FS_Subset, FS_CardinalityType

\* A run of n pages has n pages.
LEMMA RunCardinality ==
  ASSUME NEW first \in Int, NEW n \in Nat
  PROVE  IsFiniteSet(Run(first, n)) /\ Cardinality(Run(first, n)) = n
<1>1. first + n - 1 \in Int
  OBVIOUS
<1>2. /\ IsFiniteSet(first..first + n - 1)
      /\ Cardinality(first..first + n - 1)
             = IF first > first + n - 1 THEN 0 ELSE first + n - 1 - first + 1
  BY <1>1, FS_Interval
<1> QED
  BY <1>2 DEF Run

\* A page belongs to some allocation.
Owned(p, S) == \E a \in S : p \in Run(a[1], a[2])

\* The pages of some allocations.
LEMMA OwnedPages ==
  ASSUME NEW S, NEW p
  PROVE  p \in UNION {Run(a[1], a[2]) : a \in S} <=> Owned(p, S)
BY Zenon DEF Owned

\* No page belongs to the boot image or to two allocations.
Apart(S) ==
    \A a \in S : /\ Run(a[1], a[2]) \cap BootUsed = {}
                 /\ \A b \in S : a # b => Run(a[1], a[2]) \cap Run(b[1], b[2]) = {}

\* PagesAccounted, page by page.
LEMMA Accounted ==
  PagesAccounted <=> Apart(held) /\ \A p : p \in used <=> p \in BootUsed \/ Owned(p, held)
<1>1. used = BootUsed \cup UNION {Run(a[1], a[2]) : a \in held}
        <=> \A p : p \in used <=> p \in BootUsed \/ Owned(p, held)
  BY Zenon, OwnedPages
<1> QED
  BY ZenonT(30), <1>1 DEF PagesAccounted, Apart

\* The same of the next state.
LEMMA AccountedLater ==
  PagesAccounted' <=>
      Apart(held') /\ \A p : p \in used' <=> p \in BootUsed \/ Owned(p, held')
<1>1. used' = BootUsed \cup UNION {Run(a[1], a[2]) : a \in held'}
        <=> \A p : p \in used' <=> p \in BootUsed \/ Owned(p, held')
  BY Zenon, OwnedPages
<1> QED
  BY ZenonT(30), <1>1 DEF PagesAccounted, Apart

\* page_alloc_init() establishes the invariant.
LEMMA InitInd == Init => IndInv
<1> SUFFICES ASSUME Init PROVE IndInv
  BY Zenon
<1>1. TypeOK
  <2>1. Cardinality(BootUsed) \in Nat
    BY ZenonT(30), Constants, PagesFinite
  <2> QED
    BY <2>1, Constants DEF Init, TypeOK
<1>2. PagesAccounted
  BY Zenon DEF Init, PagesAccounted
<1>3. UsedCounted /\ HeldInside /\ ScanInv
  BY Zenon DEF Init, UsedCounted, HeldInside, ScanInv
<1> QED
  BY Zenon, <1>1, <1>2, <1>3 DEF IndInv

\* The four steps of the scan that leave the bitmap alone
LEMMA ScanInd ==
  IndInv /\ ((\E n \in 1..MaxCount : AllocPages(n)) \/ ScanUsed \/ ScanFree \/ ScanFailed)
    => IndInv'
<1> SUFFICES ASSUME IndInv,
                    (\E n \in 1..MaxCount : AllocPages(n)) \/ ScanUsed \/ ScanFree \/ ScanFailed
             PROVE  IndInv'
  BY Zenon
<1>1. UNCHANGED <<used, used_pages, held>>
  BY Zenon DEF AllocPages, ScanUsed, ScanFree, ScanFailed
<1>2. PagesAccounted' /\ UsedCounted' /\ HeldInside'
  BY Zenon, <1>1 DEF IndInv, PagesAccounted, UsedCounted, HeldInside
<1>3. i \in 0..managed_pages /\ run \in Nat /\ want \in 0..MaxCount
      /\ used \subseteq Page
  BY Zenon DEF IndInv, TypeOK
<1>0. i \in Nat /\ want \in Nat
  BY <1>3, Constants
<1>4. TypeOK'
  BY <1>1, <1>3, Constants
  DEF IndInv, TypeOK, AllocPages, ScanUsed, ScanFree, ScanFailed, Restarted, Page
<1>5. ScanInv'
  <2>1. CASE \E n \in 1..MaxCount : AllocPages(n)
    BY <2>1, Constants DEF AllocPages, ScanInv, Run, Page
  <2>2. CASE ScanFailed
    BY Zenon, <2>2 DEF ScanFailed, ScanInv
  <2>3. CASE ScanUsed
    <3>1. want # 0 /\ want' = want /\ i' = i + 1 /\ run' = 0 /\ used' = used /\ i \in used
      BY Zenon, <2>3 DEF ScanUsed, Restarted
    <3>2. Run(i' - run', run') = {}
      BY <1>3, <3>1 DEF Run
    <3>3. ASSUME NEW f \in Page, f + want <= i + 1
          PROVE  Run(f, want) \cap used # {}
      <4>1. CASE f + want <= i
        BY Zenon, <3>1, <4>1 DEF IndInv, ScanInv
      <4>2. CASE f + want = i + 1
        <5>1. i \in Nat /\ f \in Nat /\ want \in Nat
          BY Zenon, <1>0, Constants
        <5> QED
          BY Zenon, <3>1, <4>2, <5>1, InRun
      <4> QED
        BY <1>3, <3>3, <4>1, <4>2, Constants
    <3> QED
      BY <1>3, <3>1, <3>2, <3>3 DEF ScanInv
  <2>4. CASE ScanFree
    <3>1. want # 0 /\ want' = want /\ i' = i + 1 /\ run' = run + 1 /\ used' = used
          /\ i \notin used /\ run + 1 < want
      BY <1>3, <2>4 DEF ScanFree, Enough
    <3>2. run <= i /\ Run(i - run, run) \cap used = {}
          /\ (i - run > 0 => i - run - 1 \in used)
      BY Zenon, <3>1 DEF IndInv, ScanInv
    <3>3. Run(i' - run', run') = Run(i - run, run) \cup {i}
      <4>1. Run(i + 1 - (run + 1), run + 1) = Run(i - run, run) \cup {i}
        BY Zenon, <1>0, <1>3, <3>2, RunGrows
      <4>2. i' - run' = i + 1 - (run + 1)
        BY <1>0, <1>3, <3>1
      <4>3. run' = run + 1
        BY Zenon, <3>1
      <4> QED
        BY Zenon, <4>1, <4>2, <4>3
    <3>4. ASSUME NEW f \in Page, f + want <= i + 1
          PROVE  Run(f, want) \cap used # {}
      <4>1. CASE f + want <= i
        BY Zenon, <3>1, <4>1 DEF IndInv, ScanInv
      <4>2. CASE f + want = i + 1
        <5>1. i - run - 1 \in used /\ f <= i - run - 1 /\ i - run - 1 < f + want
          BY <1>3, <3>1, <3>2, <4>2, Constants
        <5> QED
          BY <1>3, <5>1, Constants DEF Run
      <4> QED
        BY <1>3, <3>4, <4>1, <4>2, Constants
    <3>5. i' - run' = i - run
      BY <1>3, <3>1
    <3>6. run' < want' /\ run' <= i'
      BY <1>0, <1>3, <3>1, <3>2
    <3>7. Run(i' - run', run') \cap used' = {} /\ (i' - run' > 0 => i' - run' - 1 \in used')
      BY Zenon, <3>1, <3>2, <3>3, <3>5
    <3> QED
      BY Zenon, <3>1, <3>4, <3>6, <3>7 DEF ScanInv
  <2> QED
    BY Zenon, <2>1, <2>2, <2>3, <2>4
<1> QED
  BY Zenon, <1>2, <1>4, <1>5 DEF IndInv

\* Where the scan stops, the run it takes is free and inside the memory.
LEMMA FoundRun ==
  ASSUME IndInv, ScanFound
  PROVE  /\ i + 1 - want \in Page /\ want \in 1..MaxCount
         /\ Run(i + 1 - want, want) \subseteq Page \ used
         /\ i + 1 <= managed_pages
<1>1. i \in Page \ used /\ want \in 1..MaxCount /\ run \in Nat /\ run + 1 >= want
  BY DEF ScanFound, Enough, IndInv, TypeOK
<1>2. run < want /\ run <= i /\ Run(i - run, run) \cap used = {}
  BY <1>1 DEF IndInv, ScanInv
<1>3. run + 1 = want
  BY <1>1, <1>2
<1>4. Run(i + 1 - want, want) = Run(i - run, run) \cup {i}
  <2>1. i \in Nat
    BY Zenon, <1>1, Constants
  <2> QED
    BY Zenon, <1>1, <1>2, <1>3, <2>1, RunGrows
<1>5. Run(i + 1 - want, want) \subseteq Page
  BY <1>1, <1>2, <1>3, Constants DEF Run, Page
<1>6. i + 1 - want \in Page /\ i + 1 <= managed_pages
  BY <1>1, <1>2, <1>3, Constants DEF Page
<1> QED
  BY Zenon, <1>1, <1>2, <1>4, <1>5, <1>6

\* Taking the run that was found keeps the invariant.
LEMMA FoundInd == IndInv /\ ScanFound => IndInv'
<1> SUFFICES ASSUME IndInv, ScanFound PROVE IndInv'
  BY Zenon
<1> DEFINE first == i + 1 - want
           taken == Run(first, want)
           a == <<first, want>>
<1>1. /\ first \in Page /\ want \in 1..MaxCount
      /\ taken \subseteq Page \ used /\ first + want <= managed_pages
  <2>1. i \in Nat /\ want \in Nat /\ i + 1 <= managed_pages
    BY FoundRun, Constants DEF IndInv, TypeOK
  <2> QED
    BY <2>1, FoundRun
<1>2. /\ used' = used \cup taken /\ used_pages' = used_pages + want
      /\ held' = held \cup {a} /\ want' = 0 /\ UNCHANGED <<i, run>>
  BY Zenon DEF ScanFound, Counted
<1>3. used \subseteq Page /\ used_pages \in Nat /\ held \subseteq Page \X (1..MaxCount)
      /\ i \in 0..managed_pages /\ run \in Nat
  BY Zenon DEF IndInv, TypeOK
<1>a. a \in Page \X (1..MaxCount) /\ Run(a[1], a[2]) = taken
  BY Zenon, <1>1
<1>b. first \in Int /\ want \in Nat /\ MaxCount \in Nat
  BY <1>1, Constants DEF Page
<1>c. a[1] + a[2] <= managed_pages
  BY Zenon, <1>1
<1> HIDE DEF first
<1>d. Cardinality(taken) = want /\ IsFiniteSet(taken)
  BY Zenon, <1>b, RunCardinality
<1> HIDE DEF a, taken
<1>4. TypeOK'
  <2>1. used' \subseteq Page /\ used_pages' \in Nat
    BY <1>1, <1>2, <1>3, <1>b
  <2>2. held' \subseteq Page \X (1..MaxCount)
    BY Zenon, <1>2, <1>3, <1>a
  <2>3. want' \in 0..MaxCount /\ i' \in 0..managed_pages /\ run' \in Nat
    BY <1>2, <1>3, <1>b
  <2> QED
    BY Zenon, <2>1, <2>2, <2>3 DEF TypeOK
<1>5. PagesAccounted'
  <2>1. Apart(held) /\ \A p : p \in used <=> p \in BootUsed \/ Owned(p, held)
    BY Zenon, Accounted DEF IndInv
  <2>2. taken \cap BootUsed = {}
    BY Zenon, <1>1, <2>1
  <2>3. ASSUME NEW b \in held PROVE Run(b[1], b[2]) \cap taken = {}
    BY Zenon, <1>1, <2>1 DEF Owned
  <2>4. Apart(held')
    BY Zenon, <1>2, <1>a, <2>1, <2>2, <2>3 DEF Apart
  <2>5. ASSUME NEW p PROVE p \in used' <=> p \in BootUsed \/ Owned(p, held')
    BY Zenon, <1>2, <1>a, <2>1 DEF Owned
  <2> QED
    BY Zenon, <2>4, <2>5, AccountedLater
<1>6. UsedCounted'
  <2>1. Cardinality(taken) = want /\ IsFiniteSet(taken)
    BY Zenon, <1>d
  <2>2. IsFiniteSet(used) /\ Cardinality(used) \in Nat
    BY Zenon, <1>3, PagesFinite
  <2>3. used \cap taken = {}
    BY Zenon, <1>1
  <2>4. Cardinality(used \cup taken)
            = Cardinality(used) + Cardinality(taken) - Cardinality(used \cap taken)
    BY Zenon, <2>1, <2>2, FS_Union
  <2>6. Cardinality(used \cap taken) = 0
    BY Zenon, <2>3, FS_EmptySet
  <2>5. Cardinality(used \cup taken) = Cardinality(used) + want
    BY <1>b, <2>1, <2>2, <2>4, <2>6
  <2> QED
    BY Zenon, <1>2, <2>5 DEF IndInv, UsedCounted
<1>7. HeldInside'
  BY Zenon, <1>c, <1>2 DEF IndInv, HeldInside
<1>8. ScanInv'
  BY Zenon, <1>2 DEF ScanInv
<1> QED
  BY Zenon, <1>4, <1>5, <1>6, <1>7, <1>8 DEF IndInv

\* free_pages() of what was handed out keeps the invariant.
LEMMA FreeInd == IndInv /\ (\E a \in held : FreePages(a)) => IndInv'
<1> SUFFICES ASSUME IndInv, NEW a \in held, FreePages(a) PROVE IndInv'
  BY Zenon
<1> DEFINE given == Run(a[1], a[2])
<1>1. /\ used' = used \ given /\ used_pages' = used_pages - Cardinality(used \cap given)
      /\ held' = held \ {a} /\ want = 0 /\ UNCHANGED <<want, i, run>>
  BY Zenon DEF FreePages, Freed
<1>2. Apart(held) /\ \A p : p \in used <=> p \in BootUsed \/ Owned(p, held)
  BY Zenon, Accounted DEF IndInv
<1>3. used \subseteq Page /\ used_pages = Cardinality(used)
  BY Zenon DEF IndInv, TypeOK, UsedCounted
<1>4. IsFiniteSet(used) /\ Cardinality(used) \in Nat
  BY Zenon, <1>3, PagesFinite
<1>5. Cardinality(used \ given) = Cardinality(used) - Cardinality(used \cap given)
  BY ZenonT(30), <1>4, FS_Difference
<1>6. Cardinality(used \ given) \in Nat
  BY Zenon, <1>3, PagesFinite
<1>7. TypeOK'
  BY Zenon, <1>1, <1>3, <1>5, <1>6 DEF IndInv, TypeOK
<1>8. PagesAccounted'
  <2>1. Apart(held')
    BY Zenon, <1>1, <1>2 DEF Apart
  <2>2. ASSUME NEW p PROVE p \in used' <=> p \in BootUsed \/ Owned(p, held')
    <3>1. p \in used' => p \in BootUsed \/ Owned(p, held')
      BY Zenon, <1>1, <1>2 DEF Owned
    <3>2. p \in BootUsed \/ Owned(p, held') => p \in used'
      BY Zenon, <1>1, <1>2 DEF Owned, Apart
    <3> QED
      BY Zenon, <3>1, <3>2
  <2> QED
    BY Zenon, <2>1, <2>2, AccountedLater
<1>9. UsedCounted' /\ HeldInside' /\ ScanInv'
  BY Zenon, <1>1, <1>3, <1>5 DEF IndInv, UsedCounted, HeldInside, ScanInv
<1> QED
  BY Zenon, <1>7, <1>8, <1>9 DEF IndInv

\* Every step keeps the invariant.
LEMMA NextInd == IndInv /\ [Next]_vars => IndInv'
<1>1. IndInv /\ UNCHANGED vars => IndInv'
  <2> SUFFICES ASSUME IndInv, UNCHANGED vars PROVE IndInv'
    BY Zenon
  <2>1. PagesAccounted'
    BY Zenon DEF vars, IndInv, PagesAccounted
  <2>2. TypeOK' /\ UsedCounted' /\ HeldInside' /\ ScanInv'
    BY Zenon DEF vars, IndInv, TypeOK, UsedCounted, HeldInside, ScanInv
  <2> QED
    BY Zenon, <2>1, <2>2 DEF IndInv
<1> QED
  BY Zenon, <1>1, ScanInd, FoundInd, FreeInd DEF Next

\* So it always holds.
LEMMA Invariance == Spec => []IndInv
BY InitInd, NextInd, PTL DEF Spec

----------------------------------------------------------------------------
\* The variables of the allocator keep their types.
THEOREM TypeCorrect == Spec => []TypeOK
BY Invariance, PTL DEF IndInv

\* alloc_pages() never hands out a page of the boot image or of another
\* allocation, and free_pages() gives back exactly the pages it was given.
THEOREM PagesStayAccounted == Spec => []PagesAccounted
BY Invariance, PTL DEF IndInv

\* used_pages, and with it free_pages_count(), is exact whenever the lock is free
\* or taken.
THEOREM UsedIsCounted == Spec => []UsedCounted
BY Invariance, PTL DEF IndInv

\* alloc_pages() returns the lowest run that is long enough, and 0 only when the
\* bitmap has none.
THEOREM AllocatesFirstFit == Spec => FirstFit
<1>1. ASSUME IndInv, ScanFound, NEW f \in Page, Run(f, want) \subseteq Page \ used
      PROVE  i + 1 - want <= f
  <2>1. i \in Nat /\ want \in Nat /\ want # 0 /\ f \in Nat
    BY <1>1, Constants DEF ScanFound, IndInv, TypeOK
  <2>2. ~ f + want <= i
    <3>1. Run(f, want) # {}
      BY <2>1 DEF Run
    <3> QED
      BY Zenon, <1>1, <2>1, <3>1 DEF IndInv, ScanInv
  <2> QED
    BY <2>1, <2>2
<1>2. ASSUME IndInv, ScanFailed, NEW f \in Page, Run(f, want) \subseteq Page \ used
      PROVE  FALSE
  <2>1. i = managed_pages /\ want \in Nat /\ want # 0 /\ f \in Nat /\ managed_pages \in Nat
    BY <1>2, Constants DEF ScanFailed, IndInv, TypeOK, Page
  <2>2. f + want - 1 \in Run(f, want)
    BY <2>1 DEF Run
  <2>3. f + want <= i
    BY <1>2, <2>1, <2>2 DEF Page
  <2> QED
    BY Zenon, <1>2, <2>1, <2>2, <2>3 DEF IndInv, ScanInv
<1>3. ASSUME IndInv
      PROVE  LET Fits(f) == Run(f, want) \subseteq Page \ used IN
             /\ ScanFound => /\ Fits(i + 1 - want)
                             /\ \A f \in Page : Fits(f) => i + 1 - want <= f
             /\ ScanFailed => \A f \in Page : ~Fits(f)
  BY Zenon, <1>1, <1>2, <1>3, FoundRun
<1> QED
  BY <1>3, Invariance, PTL DEF FirstFit

\* What rounding down to a whole number of pages gives.
LEMMA Division ==
  ASSUME NEW a \in Nat, NEW n \in Nat \ {0}
  PROVE  a \div n \in Nat /\ n * (a \div n) <= a /\ a < n * (a \div n) + n
OBVIOUS

\* Pages in order begin in order.
LEMMA Scale ==
  ASSUME NEW x \in Int, NEW y \in Int, NEW n \in Nat, x <= y
  PROVE  n * x <= n * y
OBVIOUS

\* What is not in an interval is on one side of it.
LEMMA Beside ==
  ASSUME NEW a \in Nat, NEW b \in Nat, NEW c \in Nat, a \notin b .. c - 1
  PROVE  a < b \/ c <= a
OBVIOUS

\* Numbers in this order do not exist.
LEMMA NoCircle ==
  ASSUME NEW a \in Nat, NEW b \in Nat, NEW c \in Nat, NEW d \in Nat, a <= b, b < c, c <= d, d <= a
  PROVE  FALSE
OBVIOUS

\* A page free at boot is available memory and holds no boot data.
LEMMA BootFree ==
  ASSUME NEW p \in Page \ BootUsed, NEW b \in p * PageSize .. p * PageSize + PageSize - 1
  PROVE  /\ \A r \in Boot : ~(r[1] <= b /\ b < r[2])
         /\ \E r \in Available : r[1] <= b /\ b < r[2]
<1> DEFINE lo == PageSize * p
<1>1. /\ p \in Nat /\ PageSize \in Nat \ {0} /\ lo \in Nat /\ b \in Nat
      /\ lo <= b /\ b < lo + PageSize /\ PageSize * (p + 1) = lo + PageSize
      /\ Available \subseteq Nat \X Nat /\ Boot \subseteq Nat \X Nat
  BY PageAllocAssumption, Constants
<1> HIDE DEF lo
<1>2. ASSUME NEW r \in Boot, r[1] <= b, b < r[2] PROVE FALSE
  <2> DEFINE q == r[1] \div PageSize
             e == (r[2] + PageSize - 1) \div PageSize
  <2>1. r[1] \in Nat /\ r[2] \in Nat /\ r[2] + PageSize - 1 \in Nat
    BY <1>1
  <2>2. /\ q \in Nat /\ PageSize * q <= r[1]
        /\ e \in Nat /\ r[2] + PageSize - 1 < PageSize * e + PageSize
    BY ZenonT(30), <1>1, <2>1, Division
  <2>3. p \notin q .. e - 1
    BY <1>2 DEF BootUsed, Touched
  <2> HIDE DEF q, e
  <2>4. CASE p < q
    <3>1. PageSize * (p + 1) <= PageSize * q
      BY <1>1, <2>2, <2>4, Scale
    <3>2. PageSize * q \in Nat
      BY <1>1, <2>2
    <3>3. lo + PageSize \in Nat
      BY <1>1
    <3>4. lo + PageSize <= PageSize * q
      BY Zenon, <1>1, <3>1
    <3> QED
      BY Zenon, <1>1, <1>2, <2>1, <2>2, <3>2, <3>3, <3>4, NoCircle
  <2>5. CASE e <= p
    <3>1. PageSize * e <= PageSize * p
      <4>1. e \in Int /\ p \in Int /\ PageSize \in Nat
        BY <1>1, <2>2
      <4> QED
        BY Zenon, <2>5, <4>1, Scale
    <3>2. PageSize * e <= lo
      BY Zenon, <3>1 DEF lo
    <3>3. PageSize * e \in Nat
      BY <1>1, <2>2
    <3>4. r[2] <= PageSize * e
      <4> DEFINE m == PageSize * e
                 z == r[2]
      <4>1. m \in Nat /\ z \in Nat /\ PageSize \in Nat /\ z + PageSize - 1 < m + PageSize
        BY Zenon, <1>1, <2>1, <2>2, <3>3
      <4> HIDE DEF m, z
      <4>2. z <= m
        BY <4>1
      <4> QED
        BY Zenon, <4>2 DEF m, z
    <3> QED
      BY Zenon, <1>1, <1>2, <2>1, <3>2, <3>3, <3>4, NoCircle
  <2>6. p \in Nat /\ q \in Nat /\ e \in Nat
    BY Zenon, <1>1, <2>2
  <2>7. p < q \/ e <= p
    BY Zenon, <2>3, <2>6, Beside
  <2> QED
    BY Zenon, <2>4, <2>5, <2>7
<1>3. PICK r \in Available : p \in Covered(r)
  BY Zenon DEF BootUsed
<1>4. r[1] <= b /\ b < r[2]
  <2> DEFINE q == (r[1] + PageSize - 1) \div PageSize
             e == r[2] \div PageSize
  <2>1. r[1] \in Nat /\ r[2] \in Nat /\ r[1] + PageSize - 1 \in Nat
    BY <1>1
  <2>2. /\ q \in Nat /\ r[1] + PageSize - 1 < PageSize * q + PageSize
        /\ e \in Nat /\ PageSize * e <= r[2]
    BY ZenonT(30), <1>1, <2>1, Division
  <2>3. q <= p /\ p + 1 <= e
    BY <1>1, <1>3, <2>2 DEF Covered
  <2> HIDE DEF q, e
  <2>6. /\ q \in Int /\ p \in Int /\ p + 1 \in Int /\ e \in Int /\ PageSize \in Nat
        /\ PageSize * q \in Nat /\ PageSize * e \in Nat
    <3>1. q \in Nat /\ p \in Nat /\ e \in Nat /\ PageSize \in Nat
      BY Zenon, <1>1, <2>2
    <3> QED
      BY <3>1
  <2>4. PageSize * q <= lo /\ PageSize * q \in Nat
    BY Zenon, <2>3, <2>6, Scale DEF lo
  <2>5. PageSize * (p + 1) <= PageSize * e /\ PageSize * e \in Nat
    BY Zenon, <2>3, <2>6, Scale
  <2> QED
    <3> DEFINE m == PageSize * q
               k == PageSize * e
               y == r[1]
               z == r[2]
    <3>1. /\ m \in Nat /\ k \in Nat /\ y \in Nat /\ z \in Nat /\ lo \in Nat /\ PageSize \in Nat /\ b \in Nat
          /\ y + PageSize - 1 < m + PageSize /\ k <= z /\ m <= lo /\ lo + PageSize <= k
          /\ lo <= b /\ b < lo + PageSize
      BY Zenon, <1>1, <2>1, <2>2, <2>4, <2>5
    <3> HIDE DEF m, k, y, z
    <3>2. y <= b /\ b < z
      BY <3>1
    <3> QED
      BY Zenon, <3>2 DEF y, z
<1> QED
  BY Zenon, <1>2, <1>4

\* page_alloc_init() leaves no page free that is not wholly available memory or
\* that holds a byte of the kernel or the boot data, and no operation ever does.
THEOREM FreePagesAreMemory == Spec => []OnlyAvailableMemory
<1>1. ASSUME IndInv PROVE OnlyAvailableMemory
  <2>1. BootUsed \subseteq used
    BY Zenon, <1>1, Accounted DEF IndInv
  <2> QED
    BY Zenon, <2>1, BootFree DEF OnlyAvailableMemory
<1> QED
  BY <1>1, Invariance, PTL

\* The three about the bitmap together, for any memory map.
THEOREM MemoryStaysAccounted == Spec => []MemoryAccounted
BY TypeCorrect, PagesStayAccounted, UsedIsCounted, FreePagesAreMemory, PTL
DEF MemoryAccounted

(***************************************************************************)
(* The cached copies of a page's entry (kernel/mm/paging.cpp), for every   *)
(* number of CPUs.                                                         *)
(***************************************************************************)
\* unmap() saw the other CPUs, if there are any, when it began.
OthersSeen ==
    \A c \in CPUs : step[c] # "out" => shared[c] = Shared(Cardinality(CPUs))

TlbTypes ==
    /\ tlb \in [CPUs -> [frame : Nat, rights : {"none", "write", "execute"}]]
    /\ entry \in [frame : Nat, rights : {"none", "write", "execute"}] /\ maps \in Nat
    /\ step \in [CPUs -> {"out", "guard", "spin", "broadcast"}] /\ DOMAIN shared = CPUs
    /\ pending \subseteq CPUs

TlbInv == TlbTypes /\ OthersSeen /\ StaleIsAnnounced

\* With two CPUs there is somebody to tell.
LEMMA TwoAreShared ==
  ASSUME NEW c \in CPUs, NEW o \in CPUs, c # o
  PROVE  Shared(Cardinality(CPUs))
<1>1. IsFiniteSet({c}) /\ Cardinality({c}) = 1
    BY ZenonT(30), FS_Singleton
<1>2. Cardinality({c} \cup {o}) = 2
    BY <1>1, FS_AddElement
<1>3. {c} \cup {o} \subseteq CPUs
    BY Zenon
<1>4. Cardinality({c} \cup {o}) <= Cardinality(CPUs) /\ Cardinality(CPUs) \in Nat
    BY Zenon, <1>3, SomeCPUs, FS_Subset, FS_CardinalityType
<1> QED
    BY <1>2, <1>4 DEF Shared

\* The entry and its copies stay what they are.
LEMMA TlbTypesKept == TlbTypes /\ TlbNext => TlbTypes'
<1> SUFFICES ASSUME TlbTypes, NEW c \in CPUs,
             \/ Load(c) \/ Map(c) \/ Protect(c) \/ UnmapBegins(c) \/ Spin(c) \/ Clear(c) \/ Broadcast(c)
             \/ Shootdown(c) \/ ShootdownAll(c)
             PROVE  TlbTypes'
    BY Zenon DEF TlbNext
<1> USE DEF TlbTypes, nothing
<1>1. CASE Load(c) \/ Map(c)
    BY <1>1 DEF Load, Map
<1>2. CASE UnmapBegins(c) \/ Spin(c)
    BY ZenonT(30), <1>2 DEF UnmapBegins, Spin
<1>5. CASE Protect(c)
    <2>1. entry' \in [frame : Nat, rights : {"none", "write", "execute"}]
        BY Zenon, <1>5 DEF Protect
    <2> QED
        BY Zenon, <1>5, <2>1 DEF Protect
<1>3. CASE Clear(c)
    BY <1>3 DEF Clear
<1>7. CASE Broadcast(c)
    BY <1>7 DEF Broadcast
<1>4. CASE Shootdown(c)
    BY Zenon, <1>4 DEF Shootdown, Flushed
<1>6. CASE ShootdownAll(c)
    BY Zenon, <1>6 DEF ShootdownAll, Flushed
<1> QED
    BY Zenon, <1>1, <1>2, <1>3, <1>4, <1>5, <1>6, <1>7

\* Every step on the copies keeps their invariant.
LEMMA TlbInvKept == TlbInv /\ [TlbNext]_tlb_vars => TlbInv'
<1> SUFFICES ASSUME TlbInv, [TlbNext]_tlb_vars PROVE TlbInv'
    BY Zenon
<1>1. CASE UNCHANGED tlb_vars
    BY ZenonT(30), <1>1 DEF tlb_vars, TlbInv, TlbTypes, OthersSeen, StaleIsAnnounced, TakenAway, Stale
<1>2. CASE TlbNext
    <2> SUFFICES OthersSeen' /\ StaleIsAnnounced'
        BY Zenon, <1>2, TlbTypesKept DEF TlbInv
    <2> PICK c \in CPUs :
             \/ Load(c) \/ Map(c) \/ Protect(c) \/ UnmapBegins(c) \/ Spin(c) \/ Clear(c) \/ Broadcast(c)
             \/ Shootdown(c) \/ ShootdownAll(c)
        BY Zenon, <1>2 DEF TlbNext
    <2> USE DEF TlbInv, TlbTypes, OthersSeen, StaleIsAnnounced, TakenAway, Stale, nothing
    <2>1. CASE Load(c)
        BY Zenon, <2>1 DEF Load
    <2>6. CASE Map(c)
        BY <2>6 DEF Map
    <2>7. CASE Protect(c)
        <3>1. entry'.frame = entry.frame
            BY <2>7 DEF Protect
        <3>2. \A o \in CPUs : tlb'[o] = tlb[o] \/ tlb'[o].frame = 0
            BY <2>7 DEF Protect
        <3>3. UNCHANGED <<pending, step, shared, replaced>>
            BY Zenon, <2>7 DEF Protect
        <3>4. \A o \in CPUs : TakenAway(o)' => TakenAway(o)
            BY Zenon, <3>1, <3>2, <3>3
        <3>5. StaleIsAnnounced /\ OthersSeen
            BY Zenon
        <3> HIDE DEF TakenAway, TlbInv, TlbTypes
        <3> QED
            BY Zenon, <3>3, <3>4, <3>5
    <2>2. CASE UnmapBegins(c) \/ Spin(c)
        BY <2>2 DEF UnmapBegins, Spin
    <2>3. CASE Clear(c)
        BY Zenon, <2>3 DEF Clear
    <2>4. CASE Broadcast(c)
        <3>1. \A o \in CPUs \ {c} : shared[c] /\ o \in pending'
            BY Zenon, <2>4, TwoAreShared DEF Broadcast
        <3>2. \A o \in CPUs : step'[o] # "out" => step[o] # "out" /\ o # c
            BY Zenon, <2>4 DEF Broadcast
        <3>3. OthersSeen'
            BY Zenon, <2>4, <3>2 DEF Broadcast
        <3>4. \A o \in CPUs : TakenAway(o)' => o \in pending' \/ \E q \in CPUs \ {o} : step'[q] = "broadcast"
            <4>1. \A q \in CPUs \ {c} : step'[q] = step[q]
                BY Zenon, <2>4 DEF Broadcast
            <4>2. pending \subseteq pending' /\ (TakenAway(c)' => TakenAway(c))
                BY Zenon, <2>4 DEF Broadcast
            <4>3. TakenAway(c) => c \in pending \/ \E q \in CPUs \ {c} : step[q] = "broadcast"
                BY Zenon
            <4> HIDE DEF TakenAway, TlbInv, TlbTypes, OthersSeen, StaleIsAnnounced
            <4>4. TakenAway(c)' => c \in pending' \/ \E q \in CPUs \ {c} : step'[q] = "broadcast"
                BY Zenon, <4>1, <4>2, <4>3
            <4> QED
                BY Zenon, <3>1, <4>4
        <3> QED
            BY Zenon, <3>3, <3>4
    <2>5. CASE Shootdown(c) \/ ShootdownAll(c)
        BY <2>5 DEF Shootdown, ShootdownAll, Flushed
    <2> QED
        BY Zenon, <2>1, <2>2, <2>3, <2>4, <2>5, <2>6, <2>7
<1> QED
    BY Zenon, <1>1, <1>2

\* No copy of a mapping that unmap() took away is forgotten, on any number of CPUs: one
\* that has such a copy has the shootdown interrupt on its way, or unmap() has yet to
\* send it.  A map() over a page that is mapped sends none, and is left out.
THEOREM EveryStaleCopyIsAnnounced == TlbSpec => []StaleIsAnnounced
<1>1. TlbInit => TlbInv
    BY DEF TlbInit, TlbInv, TlbTypes, OthersSeen, StaleIsAnnounced, TakenAway, Stale, nothing
<1>2. TlbInv /\ [TlbNext]_tlb_vars => TlbInv'
    BY Zenon, TlbInvKept
<1>3. TlbInv => StaleIsAnnounced
    BY Zenon DEF TlbInv
<1> QED
    BY <1>1, <1>2, <1>3, PTL DEF TlbSpec
============================================================================
