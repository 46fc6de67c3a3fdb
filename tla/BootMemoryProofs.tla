-------------------------- MODULE BootMemoryProofs --------------------------
(***************************************************************************)
(* Proofs about BootMemory.  For every memory map: no frame gets two       *)
(* owners, num_pages counts the frames left, every PageInfo is ready, and  *)
(* no count goes below zero.  With the constants of the kernel: init       *)
(* panics only on tiny regions and the Blocks fit, for every size of a     *)
(* region.                                                                 *)
(***************************************************************************)
EXTENDS BootMemory, TLAPS

(* The operators on sequences: an element,                                 *)
LEMMA ElementOfSeq ==
  ASSUME NEW S, NEW s \in Seq(S), NEW i \in 1..Len(s)
  PROVE  s[i] \in S
OBVIOUS

(* the empty sequence,                                                     *)
LEMMA EmptySeq ==
  ASSUME NEW S
  PROVE  <<>> \in Seq(S) /\ \A s \in Seq(S) : s = <<>> <=> Len(s) = 0
OBVIOUS

(* concatenation,                                                          *)
LEMMA ConcatProperties ==
  ASSUME NEW S, NEW s \in Seq(S), NEW q \in Seq(S)
  PROVE  /\ s \o q \in Seq(S) /\ Len(s \o q) = Len(s) + Len(q)
         /\ \A i \in 1..(Len(s) + Len(q)) :
              (s \o q)[i] = IF i <= Len(s) THEN s[i] ELSE q[i - Len(s)]
OBVIOUS

(* Head and Tail,                                                          *)
LEMMA HeadTailProperties ==
  ASSUME NEW S, NEW s \in Seq(S), s # <<>>
  PROVE  /\ Head(s) \in S
         /\ Tail(s) \in Seq(S) /\ Len(Tail(s)) = Len(s) - 1
         /\ \A i \in 1..Len(Tail(s)) : Tail(s)[i] = s[i + 1]
OBVIOUS

(* and Append.                                                             *)
LEMMA AppendProperties ==
  ASSUME NEW S, NEW s \in Seq(S), NEW x \in S
  PROVE  /\ Append(s, x) \in Seq(S) /\ Append(s, x) # <<>>
         /\ Len(Append(s, x)) = Len(s) + 1
         /\ \A i \in 1..Len(s) : Append(s, x)[i] = s[i]
         /\ Append(s, x)[Len(s) + 1] = x
OBVIOUS

-----------------------------------------------------------------------------

(* What usable_pages and blocks_in_region compute with the constants of    *)
(* the kernel, for every size of a region.                                 *)
KernelConstants ==
  /\ PAGE_SIZE = 4096
  /\ MAX_ORDER_PAGES = 2048
  /\ PageInfoSize = 8
  /\ Word = 18446744073709551616

(* The Blocks of n pages are 4095 for every 2048 pages begun.              *)
LEMMA BlocksValue ==
  ASSUME KernelConstants, NEW n \in Nat
  PROVE  \E k \in Nat : /\ BlocksInRegion(n) = 4095 * k
                        /\ 2048 * k >= n /\ 2048 * k < n + 2048
<1> DEFINE k == (n + 2047) \div 2048
<1>1. k \in Nat /\ 2048 * k >= n /\ 2048 * k < n + 2048
  OBVIOUS
<1>2. AlignUp(n, 2048) = k * 2048
  BY DEF AlignUp
<1> HIDE DEF k
<1>3. (k * 2048) \div 2048 = k
  BY <1>1
<1>4. BlocksInRegion(n) = 4095 * k
  BY <1>1, <1>2, <1>3 DEF BlocksInRegion, KernelConstants
<1> QED
  BY <1>1, <1>4

(* More pages do not have fewer Blocks.                                    *)
LEMMA BlocksMonotone ==
  ASSUME KernelConstants, NEW m \in Nat, NEW n \in Nat, m <= n
  PROVE  BlocksInRegion(m) <= BlocksInRegion(n)
<1>1. PICK j \in Nat : BlocksInRegion(m) = 4095 * j /\ 2048 * j >= m /\ 2048 * j < m + 2048
  BY BlocksValue
<1>2. PICK k \in Nat : BlocksInRegion(n) = 4095 * k /\ 2048 * k >= n /\ 2048 * k < n + 2048
  BY BlocksValue
<1> QED
  BY <1>1, <1>2

(* The quotient of usable_pages leaves room for the Blocks of the region.  *)
LEMMA Quotient ==
  ASSUME KernelConstants, NEW t \in Nat
  PROVE  /\ PagesAfterOverhead(t) \in Nat
         /\ 4104 * PagesAfterOverhead(t) <= 4096 * t - BlocksInRegion(t)
         /\ 4096 * t - BlocksInRegion(t) < 4104 * PagesAfterOverhead(t) + 4104
<1>1. PICK k \in Nat : BlocksInRegion(t) = 4095 * k /\ 2048 * k >= t /\ 2048 * k < t + 2048
  BY BlocksValue
<1> DEFINE x == 4096 * t - BlocksInRegion(t)
<1>2. x \in Nat
  BY <1>1
<1>3. PagesAfterOverhead(t) = x \div 4104
  BY DEF PagesAfterOverhead, KernelConstants
<1> HIDE DEF x
<1>4. x \div 4104 \in Nat /\ 4104 * (x \div 4104) <= x /\ x < 4104 * (x \div 4104) + 4104
  BY <1>2
<1> QED
  BY <1>3, <1>4 DEF x

(* usable_pages underflows for regions of fewer than four pages, and for   *)
(* no others.                                                              *)
THEOREM OverflowsOnlyOnTiny ==
  ASSUME KernelConstants, NEW t \in Nat
  PROVE  UsablePagesOverflows(t) <=> t < 4
<1>1. PICK k \in Nat : BlocksInRegion(t) = 4095 * k /\ 2048 * k >= t /\ 2048 * k < t + 2048
  BY BlocksValue
<1> QED
  BY <1>1, Quotient DEF UsablePagesOverflows

(* Otherwise it leaves at least two pages of the region unused, and what   *)
(* it leaves holds the Blocks of the pages it allows.                      *)
THEOREM ReservedHoldsBlocks ==
  ASSUME KernelConstants, NEW t \in Nat, t >= 4, t < Word
  PROVE  /\ UsablePages(t) \in Nat
         /\ UsablePages(t) = PagesAfterOverhead(t) - 2
         /\ UsablePages(t) + 2 <= t
         /\ BlocksInRegion(UsablePages(t)) <= 4096 * (t - UsablePages(t))
<1> DEFINE n == PagesAfterOverhead(t) - 2
<1>a. PICK k \in Nat : BlocksInRegion(t) = 4095 * k /\ 2048 * k >= t /\ 2048 * k < t + 2048
  BY BlocksValue
<1>b. /\ PagesAfterOverhead(t) \in Nat
      /\ 4104 * PagesAfterOverhead(t) <= 4096 * t - BlocksInRegion(t)
  BY Quotient
<1>c. ~(PagesAfterOverhead(t) < 2)
  BY OverflowsOnlyOnTiny DEF UsablePagesOverflows
<1>1. n \in Nat /\ n + 2 <= t
  BY <1>a, <1>b, <1>c
<1>2. n < Word
  BY <1>1 DEF KernelConstants
<1>3. UsablePages(t) = n
  BY <1>1, <1>2 DEF UsablePages, KernelConstants
<1>4. BlocksInRegion(n) <= BlocksInRegion(t)
  BY <1>1, BlocksMonotone
<1>5. BlocksInRegion(t) <= 4096 * (t - n)
  BY <1>1, <1>a, <1>b
<1> HIDE DEF n
<1>6. BlocksInRegion(n) \in Nat /\ BlocksInRegion(t) \in Nat
  BY <1>1, BlocksValue
<1> QED
  BY <1>1, <1>3, <1>4, <1>5, <1>6 DEF n

-----------------------------------------------------------------------------
(* The boot sequence.                                                      *)

ZoneRecord == [base : Nat, start : Int, pages : Int, blocks : Int, count : Int]

Types ==
  /\ memory_map \in MemoryMaps
  /\ build \in Builds
  /\ regions \in Seq(Region)
  /\ rg \in Nat \ {0}
  /\ taken \subseteq Nat
  /\ zones \in Seq(ZoneRecord)

(* While the regions are collected, each is an entry passed before.        *)
Collecting ==
  phase = "collect" =>
    /\ taken = {} /\ zones = <<>>
    /\ \A i \in DOMAIN regions : \E k \in DOMAIN memory_map :
         /\ k < rg /\ IsUsable(memory_map[k])
         /\ regions[i] = RegionOf(memory_map[k])

(* What is left of the regions lies in usable entries.                     *)
RegionsUsable == \A i \in DOMAIN regions : InUsable(regions[i])

IInv == Types /\ Collecting /\ RegionsUsable /\ NoFrameTwice /\ OnlyUsableMemory

-----------------------------------------------------------------------------
(* RemoveAt keeps the other elements, in their order.                      *)
LEMMA RemoveAtElements ==
  ASSUME NEW S, NEW s \in Seq(S), NEW i \in 1..Len(s)
  PROVE  /\ RemoveAt(s, i) \in Seq(S)
         /\ Len(RemoveAt(s, i)) = Len(s) - 1
         /\ \A j \in 1..(Len(s) - 1) : RemoveAt(s, i)[j] = IF j < i THEN s[j] ELSE s[j + 1]
<1> DEFINE a == SubSeq(s, 1, i - 1)
           b == SubSeq(s, i + 1, Len(s))
<1>1. a \in Seq(S) /\ Len(a) = i - 1 /\ \A j \in 1..(i - 1) : a[j] = s[j]
  OBVIOUS
<1>2. b \in Seq(S) /\ Len(b) = Len(s) - i /\ \A j \in 1..(Len(s) - i) : b[j] = s[i + j]
  OBVIOUS
<1>0. Len(s) \in Nat /\ i \in Nat /\ i <= Len(s)
  OBVIOUS
<1> HIDE DEF a, b
<1>3. RemoveAt(s, i) = a \o b
  BY Zenon DEF RemoveAt, a, b
<1>4. /\ a \o b \in Seq(S)
      /\ Len(a \o b) = Len(a) + Len(b)
      /\ \A j \in 1..(Len(a) + Len(b)) :
           (a \o b)[j] = IF j <= Len(a) THEN a[j] ELSE b[j - Len(a)]
  BY <1>1, <1>2, ConcatProperties, Zenon
<1> DEFINE c == a \o b
<1> HIDE DEF c
<1>5. c \in Seq(S) /\ Len(c) = Len(s) - 1
  BY <1>0, <1>1, <1>2, <1>4 DEF c
<1>6. ASSUME NEW j \in 1..(Len(s) - 1)
      PROVE  c[j] = IF j < i THEN s[j] ELSE s[j + 1]
  <2>1. c[j] = IF j <= i - 1 THEN a[j] ELSE b[j - (i - 1)]
    BY <1>0, <1>1, <1>2, <1>4 DEF c
  <2>2. CASE j < i
    BY <1>0, <1>1, <2>1, <2>2
  <2>3. CASE j >= i
    <3>1. j - (i - 1) \in 1..(Len(s) - i)
      BY <1>0, <2>3
    <3>2. b[j - (i - 1)] = s[i + (j - (i - 1))]
      BY <1>2, <3>1, Zenon
    <3> QED
      BY <1>0, <2>1, <2>3, <3>2
  <2> QED
    BY <1>0, <2>2, <2>3
<1> QED
  BY <1>3, <1>5, <1>6, Zenon DEF c

(* The fields of a region of a sequence.                                   *)
LEMMA RegionFields ==
  ASSUME NEW s \in Seq(Region)
  PROVE  \A j \in DOMAIN s : s[j] \in Region /\ s[j].addr \in Nat /\ s[j].size \in Nat
<1> SUFFICES ASSUME NEW j \in DOMAIN s
             PROVE  s[j] \in Region /\ s[j].addr \in Nat /\ s[j].size \in Nat
  BY Zenon
<1>1. j \in 1..Len(s)
  OBVIOUS
<1>2. s[j] \in Region
  BY <1>1, ElementOfSeq, Zenon
<1> QED
  BY <1>2, Zenon DEF Region, Frames

(* The fields of an entry of a memory map.                                *)
LEMMA EntryFields ==
  ASSUME NEW map \in MemoryMaps
  PROVE  \A k \in DOMAIN map : map[k].addr \in Nat /\ map[k].size \in Nat
<1> DEFINE Entry == [addr : Nat, size : Nat, region_type : STRING]
<1> SUFFICES ASSUME NEW k \in DOMAIN map
             PROVE  map[k].addr \in Nat /\ map[k].size \in Nat
  BY Zenon
<1>1. map \in Seq(Entry)
  BY MemoryMapsAssumption, Zenon
<1>2. k \in 1..Len(map)
  BY <1>1
<1>3. map[k] \in Entry
  BY <1>1, <1>2, ElementOfSeq, Zenon
<1> QED
  BY <1>3, Zenon

(* The fields of the region that a zone was made of.                       *)
LEMMA WholeFields ==
  ASSUME NEW zs \in Seq(ZoneRecord)
  PROVE  \A j \in DOMAIN zs : Whole(zs[j]).addr \in Int /\ Whole(zs[j]).size \in Int
<1> SUFFICES ASSUME NEW j \in DOMAIN zs
             PROVE  Whole(zs[j]).addr \in Int /\ Whole(zs[j]).size \in Int
  BY Zenon
<1>1. j \in 1..Len(zs)
  OBVIOUS
<1>2. zs[j] \in ZoneRecord
  BY <1>1, ElementOfSeq, Zenon
<1> QED
  BY <1>2 DEF ZoneRecord, Whole

(* allocate_frame takes a frame from a region: every region that is left   *)
(* is part of one that was there, no two of the same, and none has the     *)
(* frame.                                                                  *)
LEMMA AllocateFrameRegions ==
  ASSUME regions \in Seq(Region), AllocateFrame,
         \A i, j \in DOMAIN regions : i # j => Apart(regions[i], regions[j])
  PROVE  \E i \in DOMAIN regions, h \in [DOMAIN regions' -> DOMAIN regions] :
           /\ regions' \in Seq(Region)
           /\ regions[i].size >= 1
           /\ taken' = taken \cup {regions[i].addr}
           /\ \A j, k \in DOMAIN regions' : j # k => h[j] # h[k]
           /\ \A j \in DOMAIN regions' : /\ Within(regions'[j], regions[h[j]])
                                       /\ ~Inside(regions[i].addr, regions'[j])
<1>1. PICK i \in DOMAIN regions :
        /\ regions[i].size >= 1
        /\ taken' = taken \cup {regions[i].addr}
        /\ regions' = IF regions[i].size = 1 THEN RemoveAt(regions, i)
                      ELSE [regions EXCEPT ![i] = [addr |-> regions[i].addr + 1,
                                                   size |-> regions[i].size - 1]]
  BY Zenon DEF AllocateFrame, FirstFit
<1>2. DOMAIN regions = 1..Len(regions) /\ Len(regions) \in Nat
  OBVIOUS
<1>3. \A j \in DOMAIN regions : regions[j].addr \in Nat /\ regions[j].size \in Nat
  BY RegionFields, Zenon
<1>4. CASE regions[i].size = 1
  <2> DEFINE h == [j \in DOMAIN regions' |-> IF j < i THEN j ELSE j + 1]
  <2>1. /\ regions' \in Seq(Region)
        /\ Len(regions') = Len(regions) - 1
        /\ \A j \in 1..(Len(regions) - 1) :
             regions'[j] = IF j < i THEN regions[j] ELSE regions[j + 1]
    BY <1>1, <1>2, <1>4, RemoveAtElements, Zenon
  <2>2. DOMAIN regions' = 1..(Len(regions) - 1)
    BY <2>1
  <2>3. /\ h \in [DOMAIN regions' -> DOMAIN regions]
        /\ \A j \in DOMAIN regions' : h[j] # i /\ regions'[j] = regions[h[j]]
        /\ \A j, k \in DOMAIN regions' : j # k => h[j] # h[k]
    <3>1. \A j \in DOMAIN regions' : h[j] = IF j < i THEN j ELSE j + 1
      BY Zenon
    <3>2. i \in Nat
      BY <1>2
    <3> HIDE DEF h
    <3>3. \A j \in DOMAIN regions' : h[j] \in 1..Len(regions) /\ h[j] # i
      BY <1>2, <2>2, <3>1, <3>2
    <3>4. \A j, k \in DOMAIN regions' : j # k => h[j] # h[k]
      BY <1>2, <2>2, <3>1, <3>2
    <3>5. \A j \in DOMAIN regions' : regions'[j] = regions[h[j]]
      BY <2>1, <2>2, <3>1, Zenon
    <3>6. h \in [DOMAIN regions' -> DOMAIN regions]
      BY <1>2, <3>3, Zenon DEF h
    <3> QED
      BY <3>3, <3>4, <3>5, <3>6, Zenon
  <2> HIDE DEF h
  <2>4. ASSUME NEW j \in DOMAIN regions'
        PROVE  Within(regions'[j], regions[h[j]]) /\ ~Inside(regions[i].addr, regions'[j])
    <3>1. h[j] \in DOMAIN regions /\ Apart(regions[i], regions[h[j]])
      BY <2>3, Zenon
    <3>2. /\ regions[i].addr \in Nat /\ regions[i].size \in Nat
          /\ regions[h[j]].addr \in Nat /\ regions[h[j]].size \in Nat
      BY <1>3, <3>1, Zenon
    <3>3. ~Inside(regions[i].addr, regions[h[j]]) /\ Within(regions[h[j]], regions[h[j]])
      BY <1>1, <3>1, <3>2, SMTT(60) DEF Within, Inside, Apart
    <3> QED
      BY <2>3, <3>3, Zenon
  <2> QED
    BY <1>1, <2>1, <2>3, <2>4, Zenon
<1>5. CASE regions[i].size # 1
  <2> DEFINE h == [j \in DOMAIN regions' |-> j]
             r == [addr |-> regions[i].addr + 1, size |-> regions[i].size - 1]
  <2>1. r \in Region
    BY <1>1, <1>3, <1>5, SMTT(60) DEF Region, Frames
  <2>2. regions' = [regions EXCEPT ![i] = r]
    BY <1>1, <1>5, Zenon
  <2>3. regions' \in Seq(Region) /\ DOMAIN regions' = DOMAIN regions
    BY <1>1, <1>2, <2>1, <2>2, SMTT(60)
  <2>4. ASSUME NEW j \in DOMAIN regions'
        PROVE  Within(regions'[j], regions[h[j]]) /\ ~Inside(regions[i].addr, regions'[j])
    <3>1. CASE j = i
      BY <1>1, <1>3, <2>2, <2>3, <3>1, SMTT(60) DEF Within, Inside
    <3>2. CASE j # i
      <4>1. regions'[j] = regions[j] /\ Apart(regions[i], regions[j]) /\ h[j] = j
        BY <2>2, <2>3, <3>2, Zenon
      <4>2. /\ regions[i].addr \in Nat /\ regions[i].size \in Nat
            /\ regions[j].addr \in Nat /\ regions[j].size \in Nat
            /\ regions[i].size >= 1
        BY <1>1, <1>3, <2>3, Zenon
      <4>3. ~Inside(regions[i].addr, regions[j]) /\ Within(regions[j], regions[j])
        <5> DEFINE a == regions[i].addr
                   n == regions[i].size
                   b == regions[j].addr
                   m == regions[j].size
        <5>1. a \in Nat /\ n \in Nat /\ b \in Nat /\ m \in Nat /\ n >= 1 /\ (a + n <= b \/ b + m <= a)
          BY <4>1, <4>2, Zenon DEF Apart
        <5> HIDE DEF a, n, b, m
        <5>2. ~(b <= a /\ a < b + m) /\ b <= b /\ b + m <= b + m
          BY <5>1
        <5> QED
          BY <5>2, Zenon DEF Within, Inside, a, n, b, m
      <4> QED
        BY <4>1, <4>3, Zenon
    <3> QED
      BY <3>1, <3>2, Zenon
  <2>5. h \in [DOMAIN regions' -> DOMAIN regions] /\ \A j \in DOMAIN regions' : h[j] = j
    BY <2>3, Zenon
  <2> QED
    BY <1>1, <2>3, <2>4, <2>5, Zenon
<1> QED
  BY <1>4, <1>5, Zenon

-----------------------------------------------------------------------------
(* A part of a part is a part of the whole.                                *)
LEMMA WithinTransitive ==
  ASSUME NEW r, NEW s, NEW t,
         r.addr \in Int, r.size \in Int, s.addr \in Int, s.size \in Int,
         t.addr \in Int, t.size \in Int, Within(r, s), Within(s, t)
  PROVE  Within(r, t)
BY DEF Within

(* A part of a region is apart from what the region is apart from.         *)
LEMMA WithinApart ==
  ASSUME NEW r, NEW s, NEW q, NEW t,
         r.addr \in Int, r.size \in Int, s.addr \in Int, s.size \in Int,
         q.addr \in Int, q.size \in Int, t.addr \in Int, t.size \in Int,
         Within(q, r), Within(t, s), Apart(r, s)
  PROVE  Apart(q, t)
BY DEF Within, Apart

(* A frame allocated leaves every frame with one owner.                    *)
LEMMA AllocateFrameStep ==
  ASSUME IInv, AllocateFrame, UNCHANGED <<memory_map, zones>>
  PROVE  /\ regions' \in Seq(Region) /\ taken' \subseteq Nat
         /\ RegionsUsable' /\ NoFrameTwice' /\ OnlyUsableMemory'
<1>0. /\ memory_map \in MemoryMaps /\ regions \in Seq(Region)
      /\ taken \subseteq Nat /\ zones \in Seq(ZoneRecord)
      /\ RegionsUsable /\ NoFrameTwice /\ OnlyUsableMemory
  BY Zenon DEF IInv, Types
<1>1. PICK i \in DOMAIN regions, h \in [DOMAIN regions' -> DOMAIN regions] :
           /\ regions' \in Seq(Region)
           /\ regions[i].size >= 1
           /\ taken' = taken \cup {regions[i].addr}
           /\ \A j, k \in DOMAIN regions' : j # k => h[j] # h[k]
           /\ \A j \in DOMAIN regions' : /\ Within(regions'[j], regions[h[j]])
                                       /\ ~Inside(regions[i].addr, regions'[j])
  BY <1>0, AllocateFrameRegions, Zenon DEF NoFrameTwice
<1>2. \A j \in DOMAIN regions : regions[j].addr \in Nat /\ regions[j].size \in Nat
  BY <1>0, RegionFields, Zenon
<1>3. \A j \in DOMAIN regions' : regions'[j].addr \in Nat /\ regions'[j].size \in Nat
  BY <1>1, RegionFields, Zenon
<1>4. \A j \in DOMAIN zones : Whole(zones[j]).addr \in Int /\ Whole(zones[j]).size \in Int
  BY <1>0, WholeFields, Zenon
<1>5. \A k \in DOMAIN memory_map : memory_map[k].addr \in Nat /\ memory_map[k].size \in Nat
  BY <1>0, EntryFields, Zenon
<1>6. RegionsUsable'
  <2> SUFFICES ASSUME NEW j \in DOMAIN regions' PROVE InUsable(regions[j])'
    BY Zenon DEF RegionsUsable
  <2>1. PICK k \in DOMAIN memory_map :
          IsUsable(memory_map[k]) /\ Within(regions[h[j]], memory_map[k])
    BY <1>0, <1>1, Zenon DEF RegionsUsable, InUsable
  <2>2. Within(regions'[j], memory_map[k])
    <3>1. /\ regions'[j].addr \in Nat /\ regions'[j].size \in Nat
          /\ regions[h[j]].addr \in Nat /\ regions[h[j]].size \in Nat
          /\ memory_map[k].addr \in Nat /\ memory_map[k].size \in Nat
      BY <1>2, <1>3, <1>5, Zenon
    <3> QED
      BY <1>1, <2>1, <3>1, WithinTransitive
  <2> QED
    BY <2>1, <2>2, Zenon DEF InUsable
<1>7. taken' \subseteq Nat
  BY <1>0, <1>1, <1>2, Zenon
<1>8. OnlyUsableMemory'
  <2>1. InUsable([addr |-> regions[i].addr, size |-> 1])
    <3>1. PICK k \in DOMAIN memory_map :
            IsUsable(memory_map[k]) /\ Within(regions[i], memory_map[k])
      BY <1>0, <1>1, Zenon DEF RegionsUsable, InUsable
    <3> QED
      BY <1>1, <1>2, <1>5, <3>1 DEF InUsable, Within
  <2> QED
    BY <1>0, <1>1, <2>1, Zenon DEF OnlyUsableMemory, InUsable, Whole
<1>9. NoFrameTwice'
  <2>1. ASSUME NEW j \in DOMAIN regions', NEW k \in DOMAIN regions', j # k
        PROVE  Apart(regions'[j], regions'[k])
    <3>1. h[j] \in DOMAIN regions /\ h[k] \in DOMAIN regions /\ h[j] # h[k]
      BY <1>1, <2>1, Zenon
    <3>2. Apart(regions[h[j]], regions[h[k]])
      BY <1>0, <3>1, Zenon DEF NoFrameTwice
    <3>3. /\ regions'[j].addr \in Nat /\ regions'[j].size \in Nat
          /\ regions'[k].addr \in Nat /\ regions'[k].size \in Nat
          /\ regions[h[j]].addr \in Nat /\ regions[h[j]].size \in Nat
          /\ regions[h[k]].addr \in Nat /\ regions[h[k]].size \in Nat
      BY <1>2, <1>3, <3>1, Zenon
    <3>4. Within(regions'[j], regions[h[j]]) /\ Within(regions'[k], regions[h[k]])
      BY <1>1, Zenon
    <3> DEFINE q == regions'[j]
               t == regions'[k]
               r == regions[h[j]]
               s == regions[h[k]]
    <3>5. /\ q.addr \in Int /\ q.size \in Int /\ t.addr \in Int /\ t.size \in Int
          /\ r.addr \in Int /\ r.size \in Int /\ s.addr \in Int /\ s.size \in Int
          /\ Within(q, r) /\ Within(t, s) /\ Apart(r, s)
      BY <3>2, <3>3, <3>4
    <3> HIDE DEF q, t, r, s
    <3>6. Apart(q, t)
      BY <3>5, WithinApart, Zenon
    <3> QED
      BY <3>6, Zenon DEF q, t
  <2>2. ASSUME NEW j \in DOMAIN regions', NEW z \in DOMAIN zones
        PROVE  Apart(regions'[j], Whole(zones[z]))
    <3>1. Apart(regions[h[j]], Whole(zones[z])) /\ h[j] \in DOMAIN regions
      BY <1>0, <1>1, Zenon DEF NoFrameTwice
    <3>2. /\ regions'[j].addr \in Nat /\ regions'[j].size \in Nat
          /\ regions[h[j]].addr \in Nat /\ regions[h[j]].size \in Nat
          /\ Whole(zones[z]).addr \in Int /\ Whole(zones[z]).size \in Int
      BY <1>2, <1>3, <1>4, <3>1, Zenon
    <3>3. Within(regions'[j], regions[h[j]]) /\ Within(Whole(zones[z]), Whole(zones[z]))
      BY <1>1, <3>2 DEF Within
    <3> QED
      BY <3>1, <3>2, <3>3, WithinApart
  <2>3. ASSUME NEW f \in taken', NEW j \in DOMAIN regions'
        PROVE  ~Inside(f, regions'[j])
    <3>1. CASE f = regions[i].addr
      BY <1>1, <3>1, Zenon
    <3>2. CASE f \in taken
      <4>1. ~Inside(f, regions[h[j]]) /\ h[j] \in DOMAIN regions /\ f \in Nat
        BY <1>0, <1>1, <3>2, Zenon DEF NoFrameTwice
      <4> QED
        BY <1>1, <1>2, <1>3, <4>1 DEF Inside, Within
    <3> QED
      BY <1>1, <3>1, <3>2, Zenon
  <2>4. ASSUME NEW f \in taken', NEW z \in DOMAIN zones
        PROVE  ~Inside(f, Whole(zones[z]))
    <3>1. CASE f = regions[i].addr
      <4>1. Apart(regions[i], Whole(zones[z]))
        BY <1>0, <1>1, Zenon DEF NoFrameTwice
      <4> QED
        BY <1>1, <1>2, <1>4, <3>1, <4>1 DEF Apart, Inside
    <3>2. CASE f \in taken
      BY <1>0, <3>2, Zenon DEF NoFrameTwice
    <3> QED
      BY <1>1, <3>1, <3>2, Zenon
  <2> QED
    BY <1>0, <2>1, <2>2, <2>3, <2>4, Zenon DEF NoFrameTwice, Whole
<1> QED
  BY <1>1, <1>6, <1>7, <1>8, <1>9, Zenon

-----------------------------------------------------------------------------
(* The first loop of MemoryMap::new: a usable entry is apart from the      *)
(* regions made of earlier entries.                                        *)
LEMMA CollectStep ==
  ASSUME IInv, Collect
  PROVE  IInv'
<1>0. /\ memory_map \in MemoryMaps /\ regions \in Seq(Region) /\ rg \in Nat \ {0}
      /\ Collecting /\ RegionsUsable /\ NoFrameTwice /\ OnlyUsableMemory
      /\ phase = "collect" /\ rg <= Len(memory_map) /\ Types
  BY Zenon DEF IInv, Types, Collect
<1>1. rg \in DOMAIN memory_map
  BY <1>0, MemoryMapsAssumption
<1>2. memory_map[rg].addr \in Nat /\ memory_map[rg].size \in Nat
  BY <1>0, <1>1, EntryFields, Zenon
<1>3. /\ taken = {} /\ zones = <<>> /\ taken' = {} /\ zones' = <<>>
      /\ rg' = rg + 1 /\ UNCHANGED <<memory_map, build, phase>>
  BY <1>0, Zenon DEF Collect, Collecting
<1>4. OnlyUsableMemory'
  BY <1>3 DEF OnlyUsableMemory
<1>5. CASE ~IsUsable(memory_map[rg])
  <2>1. regions' = regions
    BY <1>5, Zenon DEF Collect
  <2>2. Collecting'
    <3> SUFFICES ASSUME NEW i \in DOMAIN regions
                 PROVE  \E k \in DOMAIN memory_map :
                          /\ k < rg + 1 /\ IsUsable(memory_map[k])
                          /\ regions[i] = RegionOf(memory_map[k])
      BY <1>3, <2>1, Zenon DEF Collecting, IsUsable, RegionOf
    <3>1. PICK k \in DOMAIN memory_map :
            k < rg /\ IsUsable(memory_map[k]) /\ regions[i] = RegionOf(memory_map[k])
      BY <1>0, Zenon DEF Collecting
    <3>2. k < rg + 1
      <4>1. k \in Nat
        BY <1>0, MemoryMapsAssumption
      <4> QED
        BY <1>0, <3>1, <4>1
    <3> QED
      BY <3>1, <3>2, Zenon
  <2>3. RegionsUsable' /\ NoFrameTwice' /\ Types'
    BY <1>0, <1>3, <2>1 DEF RegionsUsable, NoFrameTwice, Types, InUsable
  <2> QED
    BY <1>4, <2>2, <2>3, Zenon DEF IInv
<1>6. CASE IsUsable(memory_map[rg])
  <2> DEFINE e == RegionOf(memory_map[rg])
             n == Len(regions)
  <2>1. regions' = Append(regions, e)
    BY <1>6, Zenon DEF Collect, Push
  <2>2. e \in Region /\ e.addr = memory_map[rg].addr /\ e.size = memory_map[rg].size
    BY <1>2, Zenon DEF RegionOf, Region, Frames
  <2>3. /\ regions' \in Seq(Region) /\ DOMAIN regions' = 1..(n + 1)
        /\ DOMAIN regions = 1..n /\ n \in Nat
        /\ \A i \in 1..n : regions'[i] = regions[i]
        /\ regions'[n + 1] = e
    BY <1>0, <2>1, <2>2, AppendProperties
  <2> HIDE DEF e, n
  <2>4. \A i \in DOMAIN regions' : \E k \in DOMAIN memory_map :
          /\ k < rg + 1 /\ (i < n + 1 => k < rg) /\ (i = n + 1 => k = rg)
          /\ IsUsable(memory_map[k]) /\ regions'[i] = RegionOf(memory_map[k])
    <3> SUFFICES ASSUME NEW i \in DOMAIN regions'
                 PROVE  \E k \in DOMAIN memory_map :
          /\ k < rg + 1 /\ (i < n + 1 => k < rg) /\ (i = n + 1 => k = rg)
          /\ IsUsable(memory_map[k]) /\ regions'[i] = RegionOf(memory_map[k])
      BY Zenon
    <3>1. CASE i = n + 1
      BY <1>0, <1>1, <1>6, <2>3, <3>1 DEF e
    <3>2. CASE i # n + 1
      <4>1. i \in DOMAIN regions /\ regions'[i] = regions[i]
        BY <2>3, <3>2
      <4>2. PICK k \in DOMAIN memory_map :
              k < rg /\ IsUsable(memory_map[k]) /\ regions[i] = RegionOf(memory_map[k])
        BY <1>0, <4>1, Zenon DEF Collecting
      <4>3. k \in Nat
        BY <1>0, MemoryMapsAssumption
      <4> QED
        BY <1>0, <3>2, <4>1, <4>2, <4>3
    <3> QED
      BY <3>1, <3>2, Zenon
  <2>5. Collecting'
    BY <1>3, <2>4, Zenon DEF Collecting, IsUsable, RegionOf
  <2>6. RegionsUsable'
    <3> SUFFICES ASSUME NEW i \in DOMAIN regions' PROVE InUsable(regions[i])'
      BY Zenon DEF RegionsUsable
    <3>1. PICK k \in DOMAIN memory_map :
            IsUsable(memory_map[k]) /\ regions'[i] = RegionOf(memory_map[k])
      BY <2>4, Zenon
    <3>2. memory_map[k].addr \in Nat /\ memory_map[k].size \in Nat
      BY <1>0, EntryFields, Zenon
    <3>3. Within(regions'[i], memory_map[k])
      BY <3>1, <3>2 DEF Within, RegionOf
    <3> QED
      BY <1>3, <3>1, <3>3, Zenon DEF InUsable
  <2>7. ASSUME NEW i \in DOMAIN regions, NEW j \in DOMAIN regions', j = n + 1
        PROVE  Apart(regions'[i], regions'[j]) /\ Apart(regions'[j], regions'[i])
    <3>1. PICK k \in DOMAIN memory_map : k < rg /\ regions[i] = RegionOf(memory_map[k])
      BY <1>0, Zenon DEF Collecting
    <3>2. k # rg
      <4>1. k \in Nat
        BY <1>0, MemoryMapsAssumption
      <4> QED
        BY <1>0, <3>1, <4>1
    <3>3. Apart(memory_map[k], memory_map[rg]) /\ Apart(memory_map[rg], memory_map[k])
      BY <1>0, <1>1, <3>2, MemoryMapsAssumption, Zenon
    <3> QED
      BY <2>3, <2>7, <3>1, <3>3 DEF Apart, RegionOf, e
  <2>8. ASSUME NEW i \in DOMAIN regions', NEW j \in DOMAIN regions', i # j
        PROVE  Apart(regions'[i], regions'[j])
    <3>1. CASE i # n + 1 /\ j # n + 1
      BY <1>0, <2>3, <2>8, <3>1 DEF NoFrameTwice
    <3>2. CASE j = n + 1
      BY <2>3, <2>7, <2>8, <3>2
    <3>3. CASE i = n + 1
      BY <2>3, <2>7, <2>8, <3>3
    <3> QED
      BY <3>1, <3>2, <3>3, Zenon
  <2>9. NoFrameTwice'
    BY <1>3, <2>8 DEF NoFrameTwice
  <2>10. Types'
    BY <1>0, <1>3, <2>3 DEF Types
  <2> QED
    BY <1>4, <2>5, <2>6, <2>9, <2>10, Zenon DEF IInv
<1> QED
  BY <1>5, <1>6, Zenon

-----------------------------------------------------------------------------
(* The arithmetic of regions stays among the integers.                     *)
LEMMA RegionsIntegers ==
  /\ \A x, a \in Int : a > 0 => AlignUp(x, a) \in Int
  /\ \A x \in Int : /\ BlocksInRegion(x) \in Int /\ PagesAfterOverhead(x) \in Int
                    /\ UsablePages(x) \in Int /\ SplitOffset(x) \in Int
<1> USE RegionsAssumption
<1>1. \A x, a \in Int : a > 0 => AlignUp(x, a) \in Int
  BY DEF AlignUp
<1>2. \A x \in Int : BlocksInRegion(x) \in Int
  BY <1>1 DEF BlocksInRegion
<1>3. \A x \in Int : PagesAfterOverhead(x) \in Int
  BY <1>2 DEF PagesAfterOverhead
<1>4. \A x \in Int : UsablePages(x) \in Int
  BY <1>3 DEF UsablePages
<1>5. \A x \in Int : SplitOffset(x) \in Int
  BY <1>4 DEF SplitOffset
<1> QED
  BY <1>1, <1>2, <1>3, <1>4, <1>5, Zenon

(* What InitZone does, in numbers.                                         *)
LEMMA InitZoneCases ==
  ASSUME NEW region, InitZone(region)
  PROVE  LET usable   == UsablePages(region.size)
             offset   == SplitOffset(region.size)
             reserved == BumpFrom(region.addr * PAGE_SIZE, offset)
             count    == BlocksInRegion(usable)
             zone     == [base   |-> region.addr,
                          start  |-> region.addr + offset \div PAGE_SIZE,
                          pages  |-> region.size - offset \div PAGE_SIZE,
                          blocks |-> BumpOut(reserved, 1),
                          count  |-> count]
         IN  /\ usable > 1
             /\ phase' = IF offset >= region.size * PAGE_SIZE THEN "split_assert"
                         ELSE IF ~BumpFits(reserved, count, 1) THEN "blocks_expect"
                         ELSE "init"
             /\ zones' = IF phase' = "init" THEN Append(zones, zone) ELSE zones
BY DEF InitZone, SplitAsserts, SplitRight, NewBlocksForRegion

(* init makes of the first region a zone that covers the same pages, or    *)
(* drops it.                                                               *)
LEMMA InitRegionZones ==
  ASSUME IInv, InitRegion
  PROVE  \/ zones' = zones
         \/ \E zone \in ZoneRecord :
              /\ zones' = Append(zones, zone)
              /\ Whole(zone) = Head(regions)
<1> DEFINE region == Head(regions)
           offset == SplitOffset(region.size)
           zone   == [base   |-> region.addr,
                      start  |-> region.addr + offset \div PAGE_SIZE,
                      pages  |-> region.size - offset \div PAGE_SIZE,
                      blocks |-> BumpOut(BumpFrom(region.addr * PAGE_SIZE, offset), 1),
                      count  |-> BlocksInRegion(UsablePages(region.size))]
<1>1. region \in Region
  BY HeadTailProperties, Zenon DEF IInv, Types, InitRegion
<1>2. region.addr \in Nat /\ region.size \in Nat
  BY <1>1, Zenon DEF Region, Frames
<1>3. zones' = zones \/ zones' = Append(zones, zone)
  BY InitZoneCases, Zenon DEF InitRegion, InitOverflow, InitSkip
<1>4. region = [addr |-> region.addr, size |-> region.size]
  BY <1>1, Zenon DEF Region
<1> HIDE DEF region
<1>5. offset \in Int /\ offset \div PAGE_SIZE \in Int
  <2>1. region.size \in Int
    BY <1>2
  <2>2. offset \in Int
    BY <2>1, RegionsIntegers, Zenon
  <2> HIDE DEF offset
  <2> QED
    BY <2>2, RegionsAssumption
<1>6. BumpOut(BumpFrom(region.addr * PAGE_SIZE, offset), 1) \in Int
  <2>1. region.addr * PAGE_SIZE \in Int
    BY <1>2, RegionsAssumption
  <2>2. AlignUp(0, 1) \in Int
    BY DEF AlignUp
  <2> HIDE DEF offset
  <2> QED
    BY <2>1, <2>2 DEF BumpOut, BumpFrom
<1>7. BlocksInRegion(UsablePages(region.size)) \in Int
  <2>1. region.size \in Int
    BY <1>2
  <2>2. UsablePages(region.size) \in Int
    BY <2>1, RegionsIntegers, Zenon
  <2> QED
    BY <2>2, RegionsIntegers, Zenon
<1> HIDE DEF offset
<1>8. zone \in ZoneRecord
  BY <1>2, <1>5, <1>6, <1>7 DEF ZoneRecord
<1>9. Whole(zone) = [addr |-> region.addr, size |-> region.size]
  BY <1>2, <1>5 DEF Whole
<1> QED
  BY <1>3, <1>4, <1>8, <1>9, Zenon DEF region

(* The pages of the region change from the map to the zone, or to nobody.  *)
LEMMA InitRegionStep ==
  ASSUME IInv, InitRegion
  PROVE  IInv'
<1>0. /\ memory_map \in MemoryMaps /\ regions \in Seq(Region) /\ regions # <<>>
      /\ zones \in Seq(ZoneRecord) /\ Types
      /\ RegionsUsable /\ NoFrameTwice /\ OnlyUsableMemory
      /\ regions' = Tail(regions) /\ UNCHANGED <<memory_map, build, rg, taken>>
  BY Zenon DEF IInv, Types, InitRegion
<1> DEFINE n == Len(regions)
<1>1. /\ n \in Nat \ {0} /\ DOMAIN regions = 1..n /\ Head(regions) = regions[1]
      /\ regions' \in Seq(Region) /\ DOMAIN regions' = 1..(n - 1)
      /\ \A i \in 1..(n - 1) : regions'[i] = regions[i + 1]
  BY <1>0, HeadTailProperties, EmptySeq
<1> HIDE DEF n
<1>2. Collecting'
  BY Zenon DEF Collecting, InitRegion, InitOverflow, InitSkip, InitZone
<1>3. RegionsUsable'
  BY <1>0, <1>1 DEF RegionsUsable, InUsable
<1>4. \A i \in DOMAIN regions' : i + 1 \in DOMAIN regions /\ i + 1 # 1
  BY <1>1
<1>5. \A i, j \in DOMAIN regions' : i # j => Apart(regions'[i], regions'[j])
  <2> SUFFICES ASSUME NEW i \in DOMAIN regions', NEW j \in DOMAIN regions', i # j
               PROVE  Apart(regions'[i], regions'[j])
    BY Zenon
  <2>1. i + 1 # j + 1 /\ regions'[i] = regions[i + 1] /\ regions'[j] = regions[j + 1]
    BY <1>1
  <2> QED
    BY <1>0, <1>4, <2>1, Zenon DEF NoFrameTwice
<1>6. \A f \in taken' : \A i \in DOMAIN regions' : ~Inside(f, regions'[i])
  BY <1>0, <1>1, <1>4, Zenon DEF NoFrameTwice
<1>7. CASE zones' = zones
  <2>1. NoFrameTwice'
    BY <1>0, <1>1, <1>4, <1>5, <1>6, <1>7, Zenon DEF NoFrameTwice
  <2>2. OnlyUsableMemory' /\ Types'
    BY <1>0, <1>1, <1>7, Zenon DEF OnlyUsableMemory, InUsable, Types
  <2> QED
    BY <1>2, <1>3, <2>1, <2>2, Zenon DEF IInv
<1>8. ASSUME NEW zone \in ZoneRecord,
             zones' = Append(zones, zone), Whole(zone) = Head(regions)
      PROVE  IInv'
  <2> DEFINE m == Len(zones)
  <2>1. /\ zones' \in Seq(ZoneRecord) /\ DOMAIN zones' = 1..(m + 1)
        /\ DOMAIN zones = 1..m /\ m \in Nat
        /\ \A j \in 1..m : zones'[j] = zones[j]
        /\ zones'[m + 1] = zone
    BY <1>0, <1>8, AppendProperties
  <2> HIDE DEF m
  <2>2. \A j \in DOMAIN zones' : \/ j = m + 1 /\ Whole(zones'[j]) = regions[1]
                                 \/ j \in DOMAIN zones /\ Whole(zones'[j]) = Whole(zones[j])
    BY <1>1, <1>8, <2>1
  <2>3. 1 \in DOMAIN regions
    BY <1>1
  <2>4. ASSUME NEW i \in DOMAIN zones', NEW j \in DOMAIN zones', i # j
        PROVE  Apart(Whole(zones'[i]), Whole(zones'[j]))
    <3>1. CASE i \in DOMAIN zones /\ j \in DOMAIN zones
      BY <1>0, <2>1, <2>4, <3>1 DEF NoFrameTwice
    <3>2. CASE i = m + 1 /\ j \in DOMAIN zones
      <4>1. Apart(regions[1], Whole(zones[j]))
        BY <1>0, <2>3, <3>2, Zenon DEF NoFrameTwice
      <4> QED
        BY <1>1, <1>8, <2>1, <3>2, <4>1, Zenon
    <3>3. CASE i \in DOMAIN zones /\ j = m + 1
      <4>1. Apart(regions[1], Whole(zones[i]))
        BY <1>0, <2>3, <3>3, Zenon DEF NoFrameTwice
      <4>2. Apart(Whole(zones[i]), regions[1])
        BY <4>1, Zenon DEF Apart
      <4> QED
        BY <1>1, <1>8, <2>1, <3>3, <4>2, Zenon
    <3> QED
      BY <2>2, <2>4, <3>1, <3>2, <3>3, Zenon
  <2>5. ASSUME NEW i \in DOMAIN regions', NEW j \in DOMAIN zones'
        PROVE  Apart(regions'[i], Whole(zones'[j]))
    BY <1>0, <1>1, <1>4, <2>2, <2>3, SMTT(60) DEF NoFrameTwice
  <2>6. ASSUME NEW f \in taken', NEW j \in DOMAIN zones'
        PROVE  ~Inside(f, Whole(zones'[j]))
    BY <1>0, <2>2, <2>3, Zenon DEF NoFrameTwice
  <2>7. NoFrameTwice'
    BY <1>5, <1>6, <2>4, <2>5, <2>6, Zenon DEF NoFrameTwice, Whole
  <2>8. OnlyUsableMemory'
    <3>1. \A j \in DOMAIN zones' : InUsable(Whole(zones'[j]))
      BY <1>0, <2>2, <2>3, Zenon DEF OnlyUsableMemory, RegionsUsable
    <3> QED
      BY <1>0, <3>1, Zenon DEF OnlyUsableMemory, InUsable, Whole
  <2>9. Types'
    BY <1>0, <1>1, <2>1, Zenon DEF Types
  <2> QED
    BY <1>2, <1>3, <2>7, <2>8, <2>9, Zenon DEF IInv
<1> QED
  BY <1>7, <1>8, InitRegionZones, Zenon

-----------------------------------------------------------------------------
(* The regions do not change, or a frame is taken from them.               *)
LEMMA OtherStep ==
  ASSUME IInv, phase # "collect", phase' # "collect",
         UNCHANGED <<memory_map, build, zones>>, rg' \in Nat \ {0},
         AllocateFrame \/ UNCHANGED <<regions, taken>>
  PROVE  IInv'
<1>1. CASE AllocateFrame
  BY <1>1, AllocateFrameStep, Zenon DEF IInv, Types, Collecting
<1>2. CASE UNCHANGED <<regions, taken>>
  BY <1>2, Zenon DEF IInv, Types, Collecting, RegionsUsable, NoFrameTwice, OnlyUsableMemory,
              InUsable, Whole
<1> QED
  BY <1>1, <1>2, Zenon

(* The invariant is inductive.                                             *)
LEMMA StepIInv ==
  IInv /\ [Next]_vars => IInv'
<1> SUFFICES ASSUME IInv, [Next]_vars PROVE IInv'
  BY Zenon
<1>0. rg \in Nat \ {0} /\ rg + 1 \in Nat \ {0}
  BY DEF IInv, Types
<1>1. CASE Collect
  BY <1>1, CollectStep, Zenon
<1>2. CASE Collected
  BY <1>0, <1>2 DEF Collected, IInv, Types, Collecting, RegionsUsable, NoFrameTwice,
                    OnlyUsableMemory, InUsable, Whole
<1>3. CASE WriteInfo
  BY <1>0, <1>3, OtherStep, Zenon DEF WriteInfo, NextPage
<1>4. CASE \E n \in 0..MaxTables : AllocateInfoPage(n)
  BY <1>0, <1>4, OtherStep, Zenon DEF AllocateInfoPage
<1>5. CASE AllocateTable
  BY <1>0, <1>5, OtherStep, Zenon DEF AllocateTable
<1>6. CASE MapInfoPage
  BY <1>0, <1>6, OtherStep, Zenon DEF MapInfoPage, NextPage
<1>7. CASE BumpOutOfMemory
  BY <1>0, <1>7, OtherStep, Zenon DEF BumpOutOfMemory
<1>8. CASE InitRegion
  BY <1>8, InitRegionStep, Zenon
<1>9. CASE InitDone
  BY <1>0, <1>9, OtherStep, Zenon DEF InitDone
<1>10. CASE UNCHANGED vars
  BY <1>10, Zenon DEF vars, IInv, Types, Collecting, RegionsUsable, NoFrameTwice, OnlyUsableMemory,
               InUsable, Whole
<1> QED
  BY <1>1, <1>2, <1>3, <1>4, <1>5, <1>6, <1>7, <1>8, <1>9, <1>10, Zenon DEF Next

(* The invariant holds in every behaviour.                                 *)
LEMMA Invariant ==
  Spec => []IInv
<1>1. Init => IInv
  BY DEF Init, IInv, Types, Collecting, RegionsUsable, NoFrameTwice, OnlyUsableMemory
<1> QED
  BY <1>1, StepIInv, PTL DEF Spec

(* For every memory map, whatever order frames are allocated in: no frame  *)
(* is given twice by allocate_frame, left in a region after it was given,  *)
(* or made part of a zone as well.                                         *)
THEOREM NoFrameOwnedTwice ==
  Spec => []NoFrameTwice
<1>1. IInv => NoFrameTwice
  BY Zenon DEF IInv
<1> QED
  BY <1>1, Invariant, PTL

(* For every memory map: frames and zones come from usable entries only.   *)
THEOREM UsableMemoryOnly ==
  Spec => []OnlyUsableMemory
<1>1. IInv => OnlyUsableMemory
  BY Zenon DEF IInv
<1> QED
  BY <1>1, Invariant, PTL

-----------------------------------------------------------------------------
(* The offset at which init splits a region, with the kernel's constants.  *)
(* A release build whose usable_pages wrapped splits past the end.         *)
LEMMA SplitValue ==
  ASSUME KernelConstants, NEW t \in Nat, t * 4096 < Word
  PROVE  /\ t >= 4 => SplitOffset(t) = (t - UsablePages(t)) * 4096
         /\ t < 4 => SplitOffset(t) \in Int /\ SplitOffset(t) >= t * 4096
<1>1. CASE t >= 4
  <2> DEFINE d == t - UsablePages(t)
  <2>1. t < Word /\ Word \in Nat
    BY DEF KernelConstants
  <2>2. d \in Nat /\ d <= t
    BY <1>1, <2>1, ReservedHoldsBlocks
  <2>3. SplitOffset(t) = ((d % Word) * 4096) % Word
    BY DEF SplitOffset, KernelConstants
  <2> HIDE DEF d
  <2>4. d < Word /\ d * 4096 < Word /\ d * 4096 \in Nat
    BY <2>1, <2>2
  <2>5. d % Word = d /\ (d * 4096) % Word = d * 4096
    BY <2>2, <2>4 DEF KernelConstants
  <2> QED
    BY <1>1, <2>3, <2>5 DEF d
<1>2. CASE t < 4
  <2>1. PagesAfterOverhead(t) \in Nat /\ PagesAfterOverhead(t) < 2
    <3>1. UsablePagesOverflows(t)
      BY <1>2, OverflowsOnlyOnTiny
    <3>2. PagesAfterOverhead(t) \in Nat
      BY Quotient
    <3> QED
      BY <3>1, <3>2 DEF UsablePagesOverflows
  <2> DEFINE q == PagesAfterOverhead(t)
  <2> HIDE DEF q
  <2>2. q \in Nat /\ q < 2 /\ UsablePages(t) = (q - 2) % 18446744073709551616
    BY <2>1 DEF q, UsablePages, KernelConstants
  <2>3. UsablePages(t) = q + 18446744073709551614
    BY <2>2
  <2>4. (t - UsablePages(t)) % Word = t + 2 - q
    <3>1. (t - (q + 18446744073709551614)) % 18446744073709551616 = t + 2 - q
      BY <1>2, <2>2
    <3> QED
      BY <2>3, <3>1 DEF KernelConstants
  <2>5. SplitOffset(t) = ((t + 2 - q) * 4096) % Word
    BY <2>4 DEF SplitOffset, KernelConstants
  <2>6. SplitOffset(t) = (t + 2 - q) * 4096
    BY <1>2, <2>2, <2>5 DEF KernelConstants
  <2> QED
    BY <1>2, <2>2, <2>6
<1> QED
  BY <1>1, <1>2

(* What BlocksInReserved says of one zone.                                 *)
GoodZone(zone) ==
  /\ zone.base * PAGE_SIZE <= zone.blocks
  /\ zone.blocks + zone.count <= zone.start * PAGE_SIZE
  /\ zone.count = BlocksInRegion(zone.pages)
  /\ zone.pages > 1

(* How an iteration of init ends, with the kernel's constants.             *)
LEMMA InitRegionOutcome ==
  ASSUME KernelConstants, IInv, InitRegion
  PROVE  /\ phase' # "blocks_expect"
         /\ phase' # "init" => Head(regions).size < 4
         /\ \/ zones' = zones
            \/ \E zone \in ZoneRecord : zones' = Append(zones, zone) /\ GoodZone(zone)
<1> DEFINE region   == Head(regions)
           a        == region.addr
           t        == region.size
           usable   == UsablePages(t)
           offset   == SplitOffset(t)
           reserved == BumpFrom(a * PAGE_SIZE, offset)
           count    == BlocksInRegion(usable)
           zone     == [base   |-> a,
                        start  |-> a + offset \div PAGE_SIZE,
                        pages  |-> t - offset \div PAGE_SIZE,
                        blocks |-> BumpOut(reserved, 1),
                        count  |-> count]
<1>1. a \in Nat /\ t \in Nat
  <2>1. region \in Region
    BY HeadTailProperties, ZenonT(60) DEF IInv, Types, InitRegion
  <2> QED
    BY <2>1, Zenon DEF Region, Frames
<1>2. t * 4096 < Word
  <2>1. 1 \in DOMAIN regions /\ regions[1] = region
    BY HeadTailProperties, EmptySeq DEF IInv, Types, InitRegion
  <2>2. PICK k \in DOMAIN memory_map : Within(region, memory_map[k])
    BY <2>1, Zenon DEF IInv, RegionsUsable, InUsable
  <2>3. /\ memory_map[k].addr \in Nat /\ memory_map[k].size \in Nat
        /\ (memory_map[k].addr + memory_map[k].size) * PAGE_SIZE < Word
    BY EntryFields, MemoryMapsAssumption, Zenon DEF IInv, Types
  <2>4. a + t <= memory_map[k].addr + memory_map[k].size
    BY <2>2, Zenon DEF Within
  <2> HIDE DEF a, t
  <2> QED
    BY <1>1, <2>3, <2>4 DEF KernelConstants
<1>3. \/ InitOverflow(region)
      \/ InitSkip(region)
      \/ InitZone(region)
  BY Zenon DEF InitRegion
<1>4. CASE InitOverflow(region)
  <2>1. phase' = "overflow" /\ zones' = zones /\ UsablePagesOverflows(t)
    BY <1>4, Zenon DEF InitOverflow
  <2>2. t < 4
    BY <1>1, <2>1, OverflowsOnlyOnTiny, Zenon
  <2> QED
    BY <2>1, <2>2, Zenon
<1>5. CASE InitSkip(region)
  BY <1>5, Zenon DEF InitSkip
<1>6. CASE InitZone(region)
  <2>1. /\ usable > 1
        /\ phase' = IF offset >= t * PAGE_SIZE THEN "split_assert"
                    ELSE IF ~BumpFits(reserved, count, 1) THEN "blocks_expect"
                    ELSE "init"
        /\ zones' = IF phase' = "init" THEN Append(zones, zone) ELSE zones
    BY <1>6, InitZoneCases, Zenon
  <2>2. CASE t < 4
    <3>1. phase' = "split_assert"
      BY <1>1, <1>2, <2>1, <2>2, SplitValue DEF KernelConstants
    <3> QED
      BY <2>1, <2>2, <3>1, Zenon
  <2>3. CASE t >= 4
    <3> HIDE DEF a, t
    <3>1. t < Word
      BY <1>1, <1>2 DEF KernelConstants
    <3>2. usable \in Nat /\ usable + 2 <= t /\ count <= 4096 * (t - usable)
      BY <1>1, <2>3, <3>1, ReservedHoldsBlocks
    <3>3. offset = (t - usable) * 4096
      BY <1>1, <1>2, <2>3, SplitValue
    <3>4. count \in Nat
      BY <3>2, BlocksValue
    <3> HIDE DEF usable, offset, count
    <3>5. offset \div PAGE_SIZE = t - usable /\ offset \in Nat /\ PAGE_SIZE = 4096
      BY <1>1, <3>2, <3>3 DEF KernelConstants
    <3>6. BumpFits(reserved, count, 1)
      BY <3>2, <3>3, <3>4, <3>5 DEF BumpFits, BumpOffset, BumpFrom, AlignUp
    <3>7. BumpOut(reserved, 1) = a * 4096
      BY <1>1, <3>5 DEF BumpOut, BumpFrom, AlignUp
    <3>8. phase' = "init"
      BY <1>1, <2>1, <3>2, <3>3, <3>5, <3>6
    <3>9. zones' = Append(zones, zone)
      BY <2>1, <3>8, Zenon
    <3>10. zone = [base |-> a, start |-> a + (t - usable), pages |-> usable,
                   blocks |-> a * 4096, count |-> count]
      BY <1>1, <3>2, <3>5, <3>7
    <3> HIDE DEF zone
    <3>11. zone \in ZoneRecord
      BY <1>1, <3>2, <3>4, <3>10 DEF ZoneRecord
    <3>12. GoodZone(zone)
      <4>1. count = BlocksInRegion(usable)
        BY Zenon DEF count
      <4>2. a * 4096 + count <= (a + (t - usable)) * 4096
        BY <1>1, <3>2, <3>4
      <4> QED
        BY <1>1, <2>1, <3>5, <3>10, <4>1, <4>2 DEF GoodZone
    <3> QED
      BY <3>8, <3>9, <3>11, <3>12, Zenon
  <2> QED
    BY <1>1, <2>2, <2>3, SMTT(60)
<1> QED
  BY <1>3, <1>4, <1>5, <1>6, Zenon

(* With the kernel's constants and regions of any size: init panics only   *)
(* on a region of fewer than four pages, and never because the reserved    *)
(* part of a region is too small for its Blocks.                           *)
THEOREM InitPanics ==
  ASSUME KernelConstants, TinyPages = 4
  PROVE  Spec => InitPanicsOnlyOnTiny
<1> DEFINE Tiny == phase = "init" /\ phase' \in Panics =>
                     phase' # "blocks_expect" /\ Head(regions).size < TinyPages
<1>1. IInv /\ [Next]_vars => [Tiny]_vars
  <2> SUFFICES ASSUME IInv, Next, phase = "init", phase' \in Panics
               PROVE  phase' # "blocks_expect" /\ Head(regions).size < TinyPages
    BY Zenon
  <2>1. InitRegion
    BY Zenon DEF Next, Collect, Collected, WriteInfo, AllocateInfoPage, AllocateTable,
           MapInfoPage, BumpOutOfMemory, InitDone, Panics
  <2> QED
    BY <2>1, InitRegionOutcome, Zenon DEF Panics
<1> QED
  BY <1>1, Invariant, PTL DEF Spec, InitPanicsOnlyOnTiny

(* With the kernel's constants and regions of any size: the Blocks of a    *)
(* zone lie in the reserved part in front of it, and are as many as the    *)
(* buddy forest over its pages has.                                        *)
THEOREM BlocksFit ==
  ASSUME KernelConstants
  PROVE  Spec => []BlocksInReserved
<1> DEFINE Good == \A j \in DOMAIN zones : GoodZone(zones[j])
<1>1. Init => Good
  BY SMTT(60) DEF Init
<1>2. IInv /\ Good /\ [Next]_vars => Good'
  <2> SUFFICES ASSUME IInv, Good, [Next]_vars PROVE Good'
    BY Zenon
  <2>1. CASE InitRegion
    <3>1. CASE zones' = zones
      BY <3>1, Zenon
    <3>2. ASSUME NEW zone \in ZoneRecord, zones' = Append(zones, zone), GoodZone(zone)
          PROVE  Good'
      <4>1. /\ DOMAIN zones' = 1..(Len(zones) + 1) /\ DOMAIN zones = 1..Len(zones)
            /\ Len(zones) \in Nat
            /\ \A j \in 1..Len(zones) : zones'[j] = zones[j]
            /\ zones'[Len(zones) + 1] = zone
        BY <3>2, AppendProperties DEF IInv, Types
      <4>2. \A j \in DOMAIN zones' : GoodZone(zones'[j])
        BY <3>2, <4>1
      <4> QED
        BY <4>2, Zenon DEF GoodZone
    <3> QED
      BY <2>1, <3>1, <3>2, InitRegionOutcome, Zenon
  <2>2. CASE UNCHANGED zones
    BY <2>2, Zenon
  <2> QED
    BY <2>1, <2>2, Zenon DEF Next, vars, Collect, Collected, WriteInfo, AllocateInfoPage,
                      AllocateTable, MapInfoPage, BumpOutOfMemory, InitDone
<1>3. Good => BlocksInReserved
  BY Zenon DEF GoodZone, BlocksInReserved
<1> QED
  BY <1>1, <1>2, <1>3, Invariant, PTL DEF Spec

(* For every memory map: the regions and zones together never outnumber    *)
(* the entries of the bootloader's map, so that no push overflows a fixed  *)
(* vector.  While regions are collected, each entry gives at most one.     *)
THEOREM NoVectorOverflows == Spec => []VectorsFit
<1> DEFINE Fit == /\ VectorsFit
                  /\ phase = "collect" => Len(regions) < rg /\ zones = <<>>
<1>1. Init => Fit
  <2> SUFFICES ASSUME Init PROVE Fit
    BY Zenon
  <2>1. /\ memory_map \in Seq([addr : Nat, size : Nat, region_type : STRING])
        /\ regions = <<>> /\ zones = <<>> /\ rg = 1
    BY MemoryMapsAssumption, Zenon DEF Init
  <2>2. Len(memory_map) \in Nat /\ Len(regions) = 0 /\ Len(zones) = 0
    BY <2>1, SMTT(60)
  <2> QED
    BY <2>1, <2>2 DEF VectorsFit
<1>2. IInv /\ Fit /\ [Next]_vars => Fit'
  <2> SUFFICES ASSUME IInv, Fit, [Next]_vars PROVE Fit'
    BY Zenon
  <2>0. /\ memory_map \in Seq([addr : Nat, size : Nat, region_type : STRING])
        /\ regions \in Seq(Region) /\ zones \in Seq(ZoneRecord) /\ rg \in Nat
        /\ Len(memory_map) \in Nat /\ Len(regions) \in Nat /\ Len(zones) \in Nat
    BY MemoryMapsAssumption DEF IInv, Types
  <2>1. CASE Collect
    <3>1. /\ phase = "collect" /\ rg <= Len(memory_map) /\ rg' = rg + 1
          /\ UNCHANGED <<memory_map, phase, zones>>
      BY <2>1, Zenon DEF Collect
    <3>2. Len(zones) = 0 /\ Len(zones') = 0 /\ Len(regions) < rg
      BY <3>1, Zenon
    <3>3. Len(regions') \in Nat /\ Len(regions') <= Len(regions) + 1
      <4>1. CASE IsUsable(memory_map[rg])
        <5> DEFINE r == RegionOf(memory_map[rg])
        <5>1. regions' = Append(regions, r)
          BY <2>1, <4>1, Zenon DEF Collect, Push
        <5> HIDE DEF r
        <5> QED
          BY <2>0, <5>1
      <4>2. CASE ~IsUsable(memory_map[rg])
        BY <2>0, <2>1, <4>2 DEF Collect
      <4> QED
        BY <4>1, <4>2, Zenon
    <3> QED
      BY <2>0, <3>1, <3>2, <3>3, SMTT(60) DEF VectorsFit
  <2>2. CASE AllocateFrame /\ UNCHANGED <<memory_map, zones>> /\ phase' # "collect"
    <3>1. PICK i \in DOMAIN regions :
            regions' = IF regions[i].size = 1 THEN RemoveAt(regions, i)
                       ELSE [regions EXCEPT ![i] = [addr |-> regions[i].addr + 1,
                                                    size |-> regions[i].size - 1]]
      BY <2>2, Zenon DEF AllocateFrame, FirstFit
    <3>0. i \in 1..Len(regions)
      BY <2>0
    <3>2. Len(regions') \in Nat /\ Len(regions') <= Len(regions)
      <4>1. CASE regions' = RemoveAt(regions, i)
        BY <2>0, <3>0, <4>1, RemoveAtElements, SMTT(60)
      <4>2. CASE regions' # RemoveAt(regions, i)
        BY <2>0, <3>1, <4>2
      <4> QED
        BY <4>1, <4>2, Zenon
    <3> QED
      BY <2>0, <2>2, <3>2 DEF VectorsFit
  <2>3. CASE InitRegion
    <3>1. /\ phase = "init" /\ regions # <<>> /\ regions' = Tail(regions)
          /\ UNCHANGED memory_map /\ phase' # "collect"
      BY <2>3, Zenon DEF InitRegion, InitOverflow, InitSkip, InitZone
    <3>2. Len(regions') = Len(regions) - 1
      BY <2>0, <3>1
    <3>3. Len(zones') \in Nat /\ Len(zones') <= Len(zones) + 1
      <4>1. zones' = zones \/ \E zone \in ZoneRecord : zones' = Append(zones, zone)
        BY <2>3, InitRegionZones, Zenon DEF IInv
      <4> QED
        BY <2>0, <4>1
    <3> QED
      BY <2>0, <3>1, <3>2, <3>3, SMTT(60) DEF VectorsFit
  <2>4. CASE UNCHANGED <<memory_map, regions, zones>> /\ phase' # "collect"
    BY <2>4, Zenon DEF VectorsFit
  <2>5. CASE UNCHANGED vars
    BY <2>5, Zenon DEF vars, VectorsFit
  <2> QED
    BY <2>1, <2>2, <2>3, <2>4, <2>5, Zenon
    DEF Next, Collected, WriteInfo, NextPage, AllocateInfoPage, AllocateTable,
        MapInfoPage, BumpOutOfMemory, InitDone
<1> QED
  BY <1>1, <1>2, Invariant, PTL DEF Spec

-----------------------------------------------------------------------------
(* The second loop of MemoryMap::new.                                      *)

(* The frames that the inclusive range over a region has.                  *)
PagesAt(i) == clone[i].addr..(clone[i].addr + clone[i].size)

(* The frames that the loop is done with.                                  *)
Visited ==
  {f \in Nat : \E i \in DOMAIN clone : f \in PagesAt(i) /\ (i < rg \/ (i = rg /\ f < page))}

(* The PageInfos of frames v are mapped, and of each page but one written. *)
Settled(v, m, w) ==
  /\ \A f \in v : InfoPage(f) \in m
  /\ \A f, g \in v : f # g /\ InfoPage(f) = InfoPage(g) => f \in w \/ g \in w

(* Every usable entry before the n-th is one of the regions.               *)
Listed(rgs, n) ==
  \A k \in DOMAIN memory_map :
    k < n /\ IsUsable(memory_map[k]) => \E i \in DOMAIN rgs : rgs[i] = RegionOf(memory_map[k])

LoopTypes ==
  /\ phase \in {"collect", "infos", "map_to", "init", "done"} \cup Panics
  /\ clone \in Seq(Region) /\ page \in Nat /\ tables \in 0..MaxTables
  /\ mapped \subseteq Nat /\ written \subseteq Nat

Loop ==
  /\ LoopTypes
  /\ phase = "collect" => Listed(regions, rg)
  /\ phase \in {"infos", "map_to"} =>
       /\ Listed(clone, Len(memory_map) + 1)
       /\ rg \in DOMAIN clone /\ page \in PagesAt(rg)
       /\ Settled(Visited, mapped, written)
  /\ phase = "map_to" => InfoPage(page) \notin mapped
  /\ InfosReady

(* num_pages, and what makes it countable.                                 *)
Counted ==
  /\ num_pages \in Nat
  /\ phase \in {"collect", "infos", "map_to"} => IsFiniteSet(FramesOf(regions))
  /\ NumPagesExact

(* A usable frame is a number.                                             *)
LEMMA UsableInt ==
  ASSUME NEW f \in UsableFrames
  PROVE  f \in Int
BY SMTT(60) DEF UsableFrames, FramesOf

(* They depend on the memory map only.                                     *)
LEMMA UsableSame ==
  ASSUME UNCHANGED memory_map
  PROVE  UsableFrames' = UsableFrames
BY Zenon DEF UsableFrames, FramesOf, InUsable

(* The loop leaves a frame: what it has visited is settled, if that and    *)
(* the frame were; and after the last frame every PageInfo is ready.       *)
LEMMA NextPageStep ==
  ASSUME memory_map \in MemoryMaps, clone \in Seq(Region), rg \in Nat \ {0}, page \in Nat,
         rg \in DOMAIN clone, page \in PagesAt(rg), Listed(clone, Len(memory_map) + 1),
         UNCHANGED <<memory_map, clone>>, NextPage,
         Settled(Visited \cup {page}, mapped', written')
  PROVE  /\ phase' \in {"infos", "init"} /\ page' \in Nat
         /\ phase' = "infos" =>
              /\ rg' \in DOMAIN clone' /\ page' \in PagesAt(rg)'
              /\ Settled(Visited', mapped', written')
         /\ InfosReady'
<1> DEFINE last == clone[rg].addr + clone[rg].size
<1>1. DOMAIN clone = 1..Len(clone) /\ Len(clone) \in Nat
  OBVIOUS
<1>2. \A i \in DOMAIN clone : clone[i].addr \in Nat /\ clone[i].size \in Nat
  BY RegionFields, Zenon
<1>3. page \in clone[rg].addr..last /\ last \in Nat
  BY <1>2 DEF PagesAt
<1>4. \/ /\ page < last /\ page' = page + 1 /\ rg' = rg /\ phase' = "infos"
      \/ /\ ~(page < last) /\ rg' = rg + 1 /\ rg < Len(clone)
         /\ page' = clone[rg + 1].addr /\ phase' = "infos"
      \/ /\ ~(page < last) /\ rg' = rg + 1 /\ ~(rg < Len(clone)) /\ page' = 0 /\ phase' = "init"
  BY Zenon DEF NextPage
<1> HIDE DEF last
<1>5. \A i \in DOMAIN clone : PagesAt(i)' = PagesAt(i)
  BY Zenon DEF PagesAt
<1>6. ASSUME NEW f \in Nat, NEW i \in DOMAIN clone, f \in PagesAt(i),
             i < rg \/ (i = rg /\ f <= page)
      PROVE  f \in Visited \cup {page}
  BY <1>6 DEF Visited
<1>7. CASE page < last /\ page' = page + 1 /\ rg' = rg /\ phase' = "infos"
  <2>1. page' \in PagesAt(rg)
    BY <1>2, <1>3, <1>7 DEF PagesAt, last
  <2>2. Visited' \subseteq Visited \cup {page}
    <3> SUFFICES ASSUME NEW f \in Visited'
                 PROVE  f \in Visited \cup {page}
      BY Zenon
    <3>1. PICK i \in DOMAIN clone : f \in Nat /\ f \in PagesAt(i) /\ (i < rg \/ (i = rg /\ f < page + 1))
      BY <1>5, <1>7, Zenon DEF Visited
    <3> QED
      BY <1>6, <3>1
  <2>3. Settled(Visited', mapped', written')
    BY <2>2, Zenon DEF Settled
  <2>4. InfosReady'
    BY <1>7, Zenon DEF InfosReady
  <2> QED
    BY <1>5, <1>7, <2>1, <2>3, <2>4
<1>8. ASSUME NEW f \in PagesAt(rg), ~(page < last)
      PROVE  f \in Nat /\ f <= page
  BY <1>2, <1>3, <1>8, SMTT(60) DEF PagesAt, last
<1>9. CASE /\ ~(page < last) /\ rg' = rg + 1 /\ rg < Len(clone)
           /\ page' = clone[rg + 1].addr /\ phase' = "infos"
  <2>1. rg + 1 \in DOMAIN clone
    BY <1>1, <1>9
  <2>2. page' \in PagesAt(rg + 1) /\ page' \in Nat
    BY <1>2, <1>9, <2>1 DEF PagesAt
  <2>3. Visited' \subseteq Visited \cup {page}
    <3> SUFFICES ASSUME NEW f \in Visited'
                 PROVE  f \in Visited \cup {page}
      BY Zenon
    <3>1. PICK i \in DOMAIN clone :
            f \in Nat /\ f \in PagesAt(i) /\ (i < rg + 1 \/ (i = rg + 1 /\ f < clone[rg + 1].addr))
      BY <1>5, <1>9, Zenon DEF Visited
    <3>2. i # rg + 1
      BY <1>2, <2>1, <3>1, SMTT(60) DEF PagesAt
    <3>3. i < rg \/ i = rg
      BY <1>1, <3>1, <3>2
    <3> QED
      BY <1>6, <1>8, <1>9, <3>1, <3>3, Zenon
  <2>4. Settled(Visited', mapped', written')
    BY <2>3, Zenon DEF Settled
  <2>5. InfosReady'
    BY <1>9, Zenon DEF InfosReady
  <2>6. PagesAt(rg)' = PagesAt(rg + 1)
    BY <1>9, Zenon DEF PagesAt
  <2> QED
    BY <1>9, <2>1, <2>2, <2>4, <2>5, <2>6, Zenon
<1>10. CASE ~(page < last) /\ rg' = rg + 1 /\ ~(rg < Len(clone)) /\ page' = 0 /\ phase' = "init"
  <2>1. ASSUME NEW i \in DOMAIN clone, NEW f \in PagesAt(i)
        PROVE  f \in Visited \cup {page}
    <3>1. i < rg \/ i = rg
      BY <1>1, <1>10
    <3>2. f \in Nat
      BY <1>2 DEF PagesAt
    <3> QED
      BY <1>6, <1>8, <1>10, <3>1, <3>2, Zenon
  <2>2. ASSUME NEW f \in UsableFrames
        PROVE  f \in Visited \cup {page}
    <3>1. PICK k \in DOMAIN memory_map :
            IsUsable(memory_map[k]) /\ Within([addr |-> f, size |-> 1], memory_map[k])
      BY Zenon DEF UsableFrames, InUsable
    <3>2. k < Len(memory_map) + 1
      BY MemoryMapsAssumption, SMTT(60)
    <3>3. PICK i \in DOMAIN clone : clone[i] = RegionOf(memory_map[k])
      BY <3>1, <3>2, Zenon DEF Listed
    <3>4. clone[i].addr = memory_map[k].addr /\ clone[i].size = memory_map[k].size
      BY <3>3, SMTT(60) DEF RegionOf
    <3>5. f \in Int
      BY UsableInt
    <3>6. clone[i].addr <= f /\ f + 1 <= clone[i].addr + clone[i].size
      BY <3>1, <3>4, SMTT(60) DEF Within
    <3>7. f \in PagesAt(i)
      BY <1>2, <3>5, <3>6 DEF PagesAt
    <3> QED
      BY <2>1, <3>7, Zenon
  <2>3. UsableFrames' = UsableFrames
    BY UsableSame, Zenon
  <2>4. InfosReady'
    BY <1>10, <2>2, <2>3, Zenon DEF InfosReady, Settled
  <2> QED
    BY <1>10, <2>4, Zenon
<1> QED
  BY <1>4, <1>7, <1>9, <1>10, Zenon

(* The first loop lists every usable entry.                                *)
LEMMA CollectListed ==
  ASSUME IInv, Loop, Collect
  PROVE  Loop'
<1>1. /\ phase = "collect" /\ rg \in Nat /\ rg' = rg + 1 /\ regions \in Seq(Region)
      /\ memory_map \in MemoryMaps /\ Listed(regions, rg)
      /\ UNCHANGED <<memory_map, phase, clone, page, tables, mapped, written>>
  BY Zenon DEF IInv, Types, Loop, Collect
<1>2. DOMAIN memory_map = 1..Len(memory_map)
  BY <1>1, MemoryMapsAssumption
<1>3. Listed(regions, rg)'
  <2> SUFFICES ASSUME NEW k \in DOMAIN memory_map, k < rg + 1, IsUsable(memory_map[k])
               PROVE  \E i \in DOMAIN regions' : regions'[i] = RegionOf(memory_map[k])
    BY <1>1, Zenon DEF Listed
  <2>1. k < rg \/ k = rg
    BY <1>1, <1>2
  <2>2. CASE ~IsUsable(memory_map[rg])
    <3>1. regions' = regions /\ k < rg
      BY <2>1, <2>2, Zenon DEF Collect
    <3> QED
      BY <1>1, <3>1, Zenon DEF Listed
  <2>3. CASE IsUsable(memory_map[rg])
    <3> DEFINE r == RegionOf(memory_map[rg])
               n == Len(regions)
    <3>1. regions' = Append(regions, r)
      BY <2>3, Zenon DEF Collect, Push
    <3>2. rg \in DOMAIN memory_map
      BY <1>1, <1>2, MemoryMapsAssumption DEF IInv, Types, Collect
    <3>3. r \in Region
      BY <1>1, <3>2, EntryFields, Zenon DEF RegionOf, Region, Frames
    <3> HIDE DEF r
    <3>4. /\ DOMAIN regions' = 1..(n + 1) /\ DOMAIN regions = 1..n /\ n \in Nat
          /\ \A i \in 1..n : regions'[i] = regions[i]
          /\ regions'[n + 1] = r
      BY <1>1, <3>1, <3>3, AppendProperties
    <3>5. CASE k = rg
      <4>1. n + 1 \in DOMAIN regions' /\ regions'[n + 1] = RegionOf(memory_map[k])
        BY <3>4, <3>5 DEF r
      <4> QED
        BY <4>1, Zenon
    <3>6. CASE k < rg
      <4>1. PICK i \in DOMAIN regions : regions[i] = RegionOf(memory_map[k])
        BY <1>1, <2>3, <3>6, Zenon DEF Listed
      <4>2. i \in DOMAIN regions' /\ regions'[i] = regions[i]
        BY <3>4
      <4> QED
        BY <4>1, <4>2, Zenon
    <3> QED
      BY <2>1, <3>5, <3>6, Zenon
  <2> QED
    BY <2>2, <2>3, Zenon
<1>4. LoopTypes'
  BY <1>1, Zenon DEF Loop, LoopTypes
<1> QED
  BY <1>1, <1>3, <1>4, Zenon DEF Loop, InfosReady, Listed

(* The second loop starts on the first region.                             *)
LEMMA CollectedLoop ==
  ASSUME IInv, Loop, Collected
  PROVE  Loop'
<1>1. /\ phase = "collect" /\ rg \in Nat /\ rg > Len(memory_map) /\ regions \in Seq(Region)
      /\ memory_map \in MemoryMaps /\ Listed(regions, rg) /\ LoopTypes
      /\ UNCHANGED <<memory_map, regions, tables, mapped, written>>
  BY Zenon DEF IInv, Types, Loop, Collected
<1>2. CASE regions = <<>>
  <2>1. phase' = "no_memory" /\ UNCHANGED <<clone, page>>
    BY <1>2, Zenon DEF Collected
  <2> QED
    BY <1>1, <2>1, Zenon DEF Loop, LoopTypes, Panics, InfosReady
<1>3. CASE regions # <<>>
  <2>1. phase' = "infos" /\ clone' = regions /\ rg' = 1 /\ page' = regions[1].addr
    BY <1>3, Zenon DEF Collected
  <2>2. 1 \in DOMAIN regions /\ \A i \in DOMAIN regions : i >= 1
    BY <1>1, <1>3
  <2>3. \A i \in DOMAIN regions : regions[i].addr \in Nat /\ regions[i].size \in Nat
    BY <1>1, RegionFields, Zenon
  <2>4. page' \in PagesAt(rg)' /\ page' \in Nat
    BY <2>1, <2>2, <2>3 DEF PagesAt
  <2>5. Listed(clone, Len(memory_map) + 1)'
    <3>1. \A k \in DOMAIN memory_map : k < rg
      BY <1>1, MemoryMapsAssumption
    <3> QED
      BY <1>1, <2>1, <3>1, Zenon DEF Listed
  <2>6. Visited' = {}
    <3> SUFFICES ASSUME NEW f \in Visited'
                 PROVE  FALSE
      BY Zenon
    <3>1. PICK i \in DOMAIN regions :
            f \in Nat /\ f \in PagesAt(i)' /\ (i < 1 \/ (i = 1 /\ f < regions[1].addr))
      BY <2>1, Zenon DEF Visited
    <3>2. i = 1 /\ f < regions[1].addr
      BY <1>1, <2>2, <3>1
    <3>3. f \in regions[1].addr..(regions[1].addr + regions[1].size)
      BY <2>1, <3>1, <3>2, Zenon DEF PagesAt
    <3> QED
      BY <2>2, <2>3, <3>1, <3>2, <3>3
  <2>7. LoopTypes'
    BY <1>1, <2>1, <2>4, Zenon DEF LoopTypes
  <2>8. Settled(Visited, mapped, written)'
    BY <2>6, Zenon DEF Settled
  <2> QED
    BY <2>1, <2>2, <2>4, <2>5, <2>7, <2>8, Zenon DEF Loop, InfosReady
<1> QED
  BY <1>2, <1>3, Zenon

(* A PageInfo is written, or the page for it is mapped: the frame is       *)
(* settled with the ones before.                                           *)
LEMMA InfoLoop ==
  ASSUME IInv, Loop, WriteInfo \/ MapInfoPage
  PROVE  Loop'
<1>1. /\ memory_map \in MemoryMaps /\ clone \in Seq(Region) /\ rg \in Nat \ {0} /\ page \in Nat
      /\ rg \in DOMAIN clone /\ page \in PagesAt(rg) /\ Listed(clone, Len(memory_map) + 1)
      /\ Settled(Visited, mapped, written) /\ LoopTypes
      /\ UNCHANGED <<memory_map, clone, tables>> /\ NextPage
  BY Zenon DEF IInv, Types, Loop, LoopTypes, WriteInfo, MapInfoPage
<1>2. InfoPage(page) \in Nat
  BY <1>1, BootAssumption DEF InfoPage
<1>3. Settled(Visited \cup {page}, mapped', written') /\ mapped' \subseteq Nat /\ written' \subseteq Nat
  <2>1. CASE WriteInfo
    BY <1>1, <2>1, Zenon DEF WriteInfo, Settled, LoopTypes
  <2>2. CASE MapInfoPage
    <3>1. InfoPage(page) \notin mapped /\ mapped' = mapped \cup {InfoPage(page)} /\ written' = written
      BY <2>2, Zenon DEF MapInfoPage, Loop
    <3>2. \A f \in Visited : InfoPage(f) # InfoPage(page)
      BY <1>1, <3>1, Zenon DEF Settled
    <3> QED
      BY <1>1, <1>2, <3>1, <3>2, Zenon DEF Settled, LoopTypes
  <2> QED
    BY <2>1, <2>2, Zenon
<1>4. /\ phase' \in {"infos", "init"} /\ page' \in Nat
      /\ phase' = "infos" =>
           /\ rg' \in DOMAIN clone' /\ page' \in PagesAt(rg)'
           /\ Settled(Visited', mapped', written')
      /\ InfosReady'
  BY <1>1, <1>3, NextPageStep, Zenon
<1>5. LoopTypes'
  BY <1>1, <1>3, <1>4, Zenon DEF LoopTypes
<1>6. Listed(clone, Len(memory_map) + 1)'
  BY <1>1, Zenon DEF Listed
<1>7. Settled(Visited', mapped', written') => Settled(Visited, mapped, written)'
  BY Zenon DEF Settled
<1> QED
  BY <1>4, <1>5, <1>6, <1>7, Zenon DEF Loop

(* The other steps leave the loop alone, or have left it.                  *)
LEMMA StepLoop ==
  ASSUME IInv, Loop, [Next]_vars
  PROVE  Loop'
<1>1. ASSUME LoopTypes', UNCHANGED <<memory_map, clone, rg, page, mapped, written>>, phase # "collect",
             \/ phase' = phase
             \/ phase = "infos" /\ phase' = "map_to" /\ InfoPage(page) \notin mapped
             \/ phase' \in Panics
             \/ phase = "init" /\ phase' = "done"
      PROVE  Loop'
  <2>1. PagesAt(rg)' = PagesAt(rg) /\ Visited' = Visited
    BY <1>1, Zenon DEF PagesAt, Visited
  <2>2. Listed(clone, Len(memory_map) + 1) => Listed(clone, Len(memory_map) + 1)'
    BY <1>1, Zenon DEF Listed
  <2>3. Settled(Visited, mapped, written) => Settled(Visited, mapped, written)'
    BY <1>1, <2>1, Zenon DEF Settled
  <2>4. InfosReady'
    <3>1. UsableFrames' = UsableFrames
      BY <1>1, UsableSame, Zenon
    <3> QED
      BY <1>1, <3>1 DEF Loop, InfosReady, Panics
  <2> QED
    BY <1>1, <2>1, <2>2, <2>3, <2>4, Zenon DEF Loop, Panics
<1>2. LoopTypes
  BY Zenon DEF Loop
<1>3. CASE \E n \in 0..MaxTables : AllocateInfoPage(n)
  BY <1>1, <1>2, <1>3, Zenon DEF AllocateInfoPage, LoopTypes
<1>4. CASE AllocateTable
  <2>1. tables > 0 /\ tables' = tables - 1 /\ tables \in 0..MaxTables
    BY <1>2, <1>4, Zenon DEF AllocateTable, LoopTypes
  <2>2. tables' \in 0..MaxTables
    BY <2>1, BootAssumption
  <2> QED
    BY <1>1, <1>2, <1>4, <2>2, Zenon DEF AllocateTable, LoopTypes
<1>5. CASE BumpOutOfMemory
  BY <1>1, <1>2, <1>5, Zenon DEF BumpOutOfMemory, LoopTypes, Panics
<1>6. CASE InitRegion
  <2>1. phase = "init" /\ phase' \in {"init"} \cup Panics
    BY <1>6, Zenon DEF InitRegion, InitOverflow, InitSkip, InitZone, Panics
  <2>2. UNCHANGED <<memory_map, clone, rg, page, tables, mapped, written>>
    BY <1>6, Zenon DEF InitRegion
  <2>3. LoopTypes'
    BY <1>2, <2>1, <2>2, Zenon DEF LoopTypes
  <2> QED
    BY <1>1, <2>1, <2>2, <2>3, Zenon
<1>7. CASE InitDone
  BY <1>1, <1>2, <1>7, Zenon DEF InitDone, LoopTypes
<1>8. CASE UNCHANGED vars
  <2>1. /\ PagesAt(rg)' = PagesAt(rg) /\ Visited' = Visited
        /\ Listed(regions, rg)' = Listed(regions, rg)
        /\ Listed(clone, Len(memory_map) + 1)' = Listed(clone, Len(memory_map) + 1)
        /\ Settled(Visited, mapped, written)' = Settled(Visited, mapped, written)
    BY <1>8, ZenonT(60) DEF vars, PagesAt, Visited, Listed, Settled
  <2>2. UsableFrames' = UsableFrames
    BY <1>8, UsableSame, Zenon DEF vars
  <2> QED
    BY <1>8, <2>1, <2>2, SMTT(60) DEF vars, Loop, LoopTypes, InfosReady
<1> QED
  BY <1>3, <1>4, <1>5, <1>6, <1>7, <1>8, CollectListed, CollectedLoop, InfoLoop, Zenon DEF Next

-----------------------------------------------------------------------------
(* The count of frames.                                                    *)

(* allocate_frame takes one frame out of the regions, and counts it off.   *)
LEMMA AllocateFrameCount ==
  ASSUME regions \in Seq(Region), AllocateFrame,
         \A i, j \in DOMAIN regions : i # j => Apart(regions[i], regions[j])
  PROVE  \E a \in FramesOf(regions) :
           FramesOf(regions') = FramesOf(regions) \ {a} /\ num_pages' = num_pages - 1
<1>1. PICK i \in DOMAIN regions :
        /\ regions[i].size >= 1
        /\ num_pages' = num_pages - 1
        /\ regions' = IF regions[i].size = 1 THEN RemoveAt(regions, i)
                      ELSE [regions EXCEPT ![i] = [addr |-> regions[i].addr + 1,
                                                   size |-> regions[i].size - 1]]
  BY Zenon DEF AllocateFrame, FirstFit
<1> DEFINE n == Len(regions)
           a == regions[i].addr
<1>2. DOMAIN regions = 1..n /\ n \in Nat /\ i \in 1..n
  OBVIOUS
<1>3. \A j \in DOMAIN regions : regions[j].addr \in Nat /\ regions[j].size \in Nat
  BY RegionFields, Zenon
<1>4. \A f : f \in FramesOf(regions) <=>
        \E j \in 1..n : f \in regions[j].addr..(regions[j].addr + regions[j].size - 1)
  BY <1>2, Zenon DEF FramesOf
<1>5. a \in FramesOf(regions)
  <2>1. a \in regions[i].addr..(regions[i].addr + regions[i].size - 1)
    BY <1>1, <1>3, SMTT(60)
  <2> QED
    BY <1>2, <1>4, <2>1, Zenon
<1>6. ASSUME NEW j \in 1..n, j # i, NEW f \in regions[j].addr..(regions[j].addr + regions[j].size - 1)
      PROVE  f # a
  <2>1. Apart(regions[i], regions[j])
    BY <1>2, <1>6, Zenon
  <2>2. /\ regions[i].addr \in Nat /\ regions[i].size \in Nat /\ regions[i].size >= 1
        /\ regions[j].addr \in Nat /\ regions[j].size \in Nat
    BY <1>1, <1>2, <1>3, Zenon
  <2> DEFINE m == regions[i].size
             b == regions[j].addr
             l == regions[j].size
  <2>3. /\ a \in Nat /\ m \in Nat /\ m >= 1 /\ b \in Nat /\ l \in Nat
        /\ a + m <= b \/ b + l <= a
        /\ f \in b..(b + l - 1)
    BY <1>6, <2>1, <2>2, Zenon DEF Apart
  <2> HIDE DEF a, m, b, l
  <2> QED
    BY <2>3, SMTT(60)
<1>7. CASE regions[i].size = 1
  <2>1. /\ regions' \in Seq(Region)
        /\ Len(regions') = n - 1
        /\ \A j \in 1..(n - 1) : regions'[j] = IF j < i THEN regions[j] ELSE regions[j + 1]
    BY <1>1, <1>2, <1>7, RemoveAtElements, Zenon
  <2>2. DOMAIN regions' = 1..(n - 1)
    BY <2>1
  <2> HIDE DEF n
  <2>3. \A f : f \in FramesOf(regions') <=>
          \E j \in 1..(n - 1) : f \in regions'[j].addr..(regions'[j].addr + regions'[j].size - 1)
    BY <2>2, Zenon DEF FramesOf
  <2>4. ASSUME NEW f \in FramesOf(regions')
        PROVE  f \in FramesOf(regions) \ {a}
    <3>1. PICK j \in 1..(n - 1) : f \in regions'[j].addr..(regions'[j].addr + regions'[j].size - 1)
      BY <2>3, Zenon
    <3>2. \E k \in 1..n : k # i /\ regions'[j] = regions[k]
      <4>1. CASE j < i
        BY <1>2, <2>1, <4>1
      <4>2. CASE ~(j < i)
        <5>1. j + 1 \in 1..n /\ j + 1 # i
          BY <1>2, <4>2
        <5> QED
          BY <2>1, <4>2, <5>1, Zenon
      <4> QED
        BY <4>1, <4>2, Zenon
    <3>3. PICK k \in 1..n : k # i /\ regions'[j] = regions[k]
      BY <3>2, Zenon
    <3> QED
      BY <1>4, <1>6, <3>1, <3>3, Zenon
  <2>5. ASSUME NEW f \in FramesOf(regions), f # a
        PROVE  f \in FramesOf(regions')
    <3>1. PICK k \in 1..n : f \in regions[k].addr..(regions[k].addr + regions[k].size - 1)
      BY <1>4, Zenon
    <3>2. k # i
      BY <1>2, <1>3, <1>7, <2>5, <3>1
    <3>3. CASE k < i
      <4>1. k \in 1..(n - 1) /\ regions'[k] = regions[k]
        BY <1>2, <2>1, <3>3, SMTT(60)
      <4> QED
        BY <2>3, <3>1, <4>1, Zenon
    <3>4. CASE k > i
      <4>1. k - 1 \in 1..(n - 1) /\ ~(k - 1 < i) /\ k - 1 + 1 = k
        BY <1>2, <3>4
      <4>2. regions'[k - 1] = regions[k]
        BY <2>1, <4>1, Zenon
      <4> QED
        BY <2>3, <3>1, <4>1, <4>2, Zenon
    <3> QED
      BY <1>2, <3>2, <3>3, <3>4
  <2>6. FramesOf(regions') = FramesOf(regions) \ {a}
    BY <2>4, <2>5, Zenon
  <2> QED
    BY <1>1, <1>5, <2>6, Zenon
<1>8. CASE regions[i].size # 1
  <2> DEFINE r == [addr |-> a + 1, size |-> regions[i].size - 1]
  <2>1. regions' = [regions EXCEPT ![i] = r]
    BY <1>1, <1>8, Zenon
  <2>2. /\ DOMAIN regions' = 1..n /\ regions'[i] = r
        /\ \A j \in 1..n : j # i => regions'[j] = regions[j]
    BY <1>2, <2>1, Zenon
  <2>3. r.addr = a + 1 /\ r.addr + r.size - 1 = a + regions[i].size - 1 /\ a \in Nat /\ regions[i].size \in Nat
    <3>1. a \in Nat /\ regions[i].size \in Nat
      BY <1>3, Zenon
    <3>2. r.addr = a + 1 /\ r.size = regions[i].size - 1
      BY Zenon
    <3> DEFINE m == regions[i].size
               b == r.addr
               l == r.size
    <3>3. a \in Nat /\ m \in Nat /\ b = a + 1 /\ l = m - 1
      BY <3>1, <3>2, Zenon
    <3> HIDE DEF a, m, b, l
    <3>4. b + l - 1 = a + m - 1
      BY <3>3
    <3> QED
      BY <3>3, <3>4, Zenon DEF m, b, l
  <2> HIDE DEF r, n
  <2>4. \A f : f \in FramesOf(regions') <=>
          \E j \in 1..n : f \in regions'[j].addr..(regions'[j].addr + regions'[j].size - 1)
    BY <2>2, Zenon DEF FramesOf
  <2>5. \A f : f \in r.addr..(r.addr + r.size - 1) <=>
                 f \in a..(a + regions[i].size - 1) /\ f # a
    BY <2>3
  <2>6. ASSUME NEW f \in FramesOf(regions')
        PROVE  f \in FramesOf(regions) \ {a}
    <3>1. PICK j \in 1..n : f \in regions'[j].addr..(regions'[j].addr + regions'[j].size - 1)
      BY <2>4, Zenon
    <3>2. CASE j = i
      <4>1. f \in r.addr..(r.addr + r.size - 1)
        BY <2>2, <3>1, <3>2, Zenon
      <4> QED
        BY <1>2, <1>4, <2>5, <4>1, Zenon
    <3>3. CASE j # i
      <4>1. f \in regions[j].addr..(regions[j].addr + regions[j].size - 1)
        BY <2>2, <3>1, <3>3, Zenon
      <4> QED
        BY <1>4, <1>6, <3>3, <4>1, Zenon
    <3> QED
      BY <3>2, <3>3, Zenon
  <2>7. ASSUME NEW f \in FramesOf(regions), f # a
        PROVE  f \in FramesOf(regions')
    <3>1. PICK k \in 1..n : f \in regions[k].addr..(regions[k].addr + regions[k].size - 1)
      BY <1>4, Zenon
    <3>2. CASE k = i
      <4>1. f \in r.addr..(r.addr + r.size - 1)
        BY <2>5, <2>7, <3>1, <3>2, Zenon
      <4> QED
        BY <1>2, <2>2, <2>4, <4>1, Zenon
    <3>3. CASE k # i
      BY <2>2, <2>4, <3>1, <3>3, Zenon
    <3> QED
      BY <3>2, <3>3, Zenon
  <2>8. FramesOf(regions') = FramesOf(regions) \ {a}
    BY <2>6, <2>7, Zenon
  <2> QED
    BY <1>1, <1>5, <2>8, Zenon
<1> QED
  BY <1>7, <1>8, Zenon

INSTANCE FiniteSetTheorems

(* A region apart from the others adds its frames to the count.            *)
LEMMA PushCount ==
  ASSUME NEW rgs \in Seq(Region), NEW r \in Region, IsFiniteSet(FramesOf(rgs)),
         \A i \in DOMAIN rgs : Apart(rgs[i], r)
  PROVE  /\ IsFiniteSet(FramesOf(Append(rgs, r)))
         /\ Cardinality(FramesOf(Append(rgs, r))) = Cardinality(FramesOf(rgs)) + r.size
<1> DEFINE n == Len(rgs)
           s == FramesOf(rgs)
           t == r.addr..(r.addr + r.size - 1)
           u == Append(rgs, r)
<1>1. r.addr \in Nat /\ r.size \in Nat
  BY Zenon DEF Region, Frames
<1>2. \A i \in DOMAIN rgs : rgs[i].addr \in Nat /\ rgs[i].size \in Nat
  BY RegionFields, Zenon
<1>3. /\ DOMAIN rgs = 1..n /\ n \in Nat /\ DOMAIN u = 1..(n + 1)
      /\ \A i \in 1..n : u[i] = rgs[i]
      /\ u[n + 1] = r
  BY AppendProperties
<1> HIDE DEF u, n
<1>4. FramesOf(u) = s \cup t
  <2>1. \A f : f \in s <=> \E i \in 1..n : f \in rgs[i].addr..(rgs[i].addr + rgs[i].size - 1)
    BY <1>3, Zenon DEF FramesOf
  <2>2. \A f : f \in FramesOf(u) <=> \E i \in 1..(n + 1) : f \in u[i].addr..(u[i].addr + u[i].size - 1)
    BY <1>3, Zenon DEF FramesOf
  <2>3. \A i \in 1..(n + 1) : i \in 1..n \/ i = n + 1
    BY <1>3
  <2>4. n + 1 \in 1..(n + 1) /\ \A i \in 1..n : i \in 1..(n + 1)
    BY <1>3
  <2>5. ASSUME NEW f \in FramesOf(u)
        PROVE  f \in s \cup t
    <3>1. PICK i \in 1..(n + 1) : f \in u[i].addr..(u[i].addr + u[i].size - 1)
      BY <2>2, Zenon
    <3> QED
      BY <1>3, <2>1, <2>3, <3>1, Zenon
  <2>6. ASSUME NEW f \in s
        PROVE  f \in FramesOf(u)
    <3>1. PICK i \in 1..n : f \in rgs[i].addr..(rgs[i].addr + rgs[i].size - 1)
      BY <2>1, Zenon
    <3> QED
      BY <1>3, <2>2, <2>4, <3>1, Zenon
  <2>7. ASSUME NEW f \in t
        PROVE  f \in FramesOf(u)
    BY <1>3, <2>2, <2>4, Zenon
  <2> QED
    BY <2>5, <2>6, <2>7, Zenon
<1>5. s \cap t = {}
  <2> SUFFICES ASSUME NEW f \in s, f \in t
               PROVE  FALSE
    BY Zenon
  <2>1. PICK i \in DOMAIN rgs : f \in rgs[i].addr..(rgs[i].addr + rgs[i].size - 1)
    BY Zenon DEF FramesOf
  <2>2. Apart(rgs[i], r) /\ rgs[i].addr \in Nat /\ rgs[i].size \in Nat
    BY <1>2, Zenon
  <2>3. f \in r.addr..(r.addr + r.size - 1) /\ r.addr \in Nat /\ r.size \in Nat
    BY <1>1, Zenon
  <2>4. ASSUME NEW a \in Nat, NEW k \in Nat, NEW b \in Nat, NEW m \in Nat,
               a + k <= b \/ b + m <= a, f \in a..(a + k - 1), f \in b..(b + m - 1)
        PROVE  FALSE
    BY <2>4
  <2> QED
    BY <2>1, <2>2, <2>3, <2>4, Zenon DEF Apart
<1>6. IsFiniteSet(t) /\ Cardinality(t) = r.size
  <2>1. r.addr \in Int /\ r.addr + r.size - 1 \in Int
    BY <1>1
  <2>2. /\ IsFiniteSet(t)
        /\ Cardinality(t) = IF r.addr > r.addr + r.size - 1 THEN 0 ELSE (r.addr + r.size - 1) - r.addr + 1
    BY <2>1, FS_Interval, Zenon
  <2> QED
    BY <1>1, <2>2
<1> HIDE DEF s, t
<1>7. IsFiniteSet(s)
  BY Zenon DEF s
<1>8. /\ IsFiniteSet(s \cup t)
      /\ Cardinality(s \cup t) = Cardinality(s) + Cardinality(t) - Cardinality(s \cap t)
  BY <1>6, <1>7, FS_Union, Zenon
<1>9. Cardinality(s \cap t) = 0 /\ Cardinality(s) \in Nat
  BY <1>5, <1>7, FS_EmptySet, FS_CardinalityType, Zenon
<1>10. Cardinality(s \cup t) = Cardinality(s) + r.size
  BY <1>1, <1>6, <1>8, <1>9
<1> QED
  BY <1>4, <1>8, <1>10, Zenon DEF s, u

(* Every step keeps the count.                                             *)
LEMMA StepCounted ==
  ASSUME IInv, Counted, [Next]_vars
  PROVE  Counted'
<1> DEFINE Counting == {"collect", "infos", "map_to"}
<1>1. IInv' /\ num_pages \in Nat /\ regions \in Seq(Region)
  BY StepIInv, Zenon DEF Counted, IInv, Types
<1>2. ASSUME UNCHANGED <<regions, num_pages>>, phase' \in Counting => phase \in Counting
      PROVE  Counted'
  BY <1>2, Zenon DEF Counted, NumPagesExact
<1>3. ASSUME AllocateFrame, phase \in Counting
      PROVE  Counted'
  <2>1. \A i, j \in DOMAIN regions : i # j => Apart(regions[i], regions[j])
    BY Zenon DEF IInv, NoFrameTwice
  <2>2. PICK a \in FramesOf(regions) :
          FramesOf(regions') = FramesOf(regions) \ {a} /\ num_pages' = num_pages - 1
    BY <1>1, <1>3, <2>1, AllocateFrameCount, Zenon
  <2> DEFINE s == FramesOf(regions)
  <2>3. IsFiniteSet(s) /\ num_pages = Cardinality(s) /\ a \in s
    BY <1>3, Zenon DEF Counted, NumPagesExact
  <2> HIDE DEF s
  <2>4. IsFiniteSet(s \ {a}) /\ Cardinality(s \ {a}) = Cardinality(s) - 1
    BY <2>3, FS_RemoveElement, Zenon
  <2>5. Cardinality(s \ {a}) \in Nat
    BY <2>4, FS_CardinalityType, Zenon
  <2>6. num_pages' \in Nat /\ num_pages' = Cardinality(FramesOf(regions')) /\ IsFiniteSet(FramesOf(regions'))
    BY <2>2, <2>3, <2>4, <2>5, Zenon DEF s
  <2> QED
    BY <2>6, Zenon DEF Counted, NumPagesExact, FramesOf
<1>4. CASE Collect
  <2>1. phase = "collect" /\ phase' = "collect"
    BY <1>4, Zenon DEF Collect
  <2>2. CASE ~IsUsable(memory_map[rg])
    BY <1>2, <1>4, <2>1, <2>2, Zenon DEF Collect
  <2>3. CASE IsUsable(memory_map[rg])
    <3> DEFINE r == RegionOf(memory_map[rg])
               n == Len(regions)
    <3>1. regions' = Append(regions, r) /\ num_pages' = num_pages + memory_map[rg].size
      BY <1>4, <2>3, Zenon DEF Collect, Push
    <3>2. memory_map[rg].addr \in Nat /\ memory_map[rg].size \in Nat
      <4>1. memory_map \in MemoryMaps /\ rg \in Nat \ {0} /\ rg <= Len(memory_map)
        BY <1>4, Zenon DEF Collect, IInv, Types
      <4>2. rg \in DOMAIN memory_map
        BY <4>1, MemoryMapsAssumption, SMTT(60)
      <4> QED
        BY <4>1, <4>2, EntryFields, Zenon
    <3>3. r \in Region /\ r.size = memory_map[rg].size
      BY <3>2, Zenon DEF RegionOf, Region, Frames
    <3> HIDE DEF r
    <3>4. /\ DOMAIN regions' = 1..(n + 1) /\ DOMAIN regions = 1..n /\ n \in Nat
          /\ \A i \in 1..n : regions'[i] = regions[i]
          /\ regions'[n + 1] = r
      BY <1>1, <3>1, <3>3, AppendProperties, SMTT(60)
    <3>5. ASSUME NEW i \in DOMAIN regions
          PROVE  Apart(regions[i], r)
      <4>1. i \in DOMAIN regions' /\ n + 1 \in DOMAIN regions' /\ i # n + 1
        BY <3>4, SMTT(60)
      <4>2. Apart(regions'[i], regions'[n + 1])
        BY <1>1, <4>1, Zenon DEF IInv, NoFrameTwice
      <4> QED
        BY <3>4, <4>2, Zenon
    <3>6. IsFiniteSet(FramesOf(regions)) /\ num_pages = Cardinality(FramesOf(regions))
      BY <2>1, Zenon DEF Counted, NumPagesExact
    <3>7. /\ IsFiniteSet(FramesOf(Append(regions, r)))
          /\ Cardinality(FramesOf(Append(regions, r))) = Cardinality(FramesOf(regions)) + r.size
      BY <1>1, <3>3, <3>5, <3>6, PushCount, Zenon
    <3>8. /\ num_pages' \in Nat /\ num_pages' = Cardinality(FramesOf(regions'))
          /\ IsFiniteSet(FramesOf(regions'))
      BY <1>1, <3>1, <3>2, <3>3, <3>6, <3>7, SMTT(60)
    <3> QED
      BY <3>8, Zenon DEF Counted, NumPagesExact, FramesOf
  <2> QED
    BY <2>2, <2>3, Zenon
<1>5. CASE InitRegion
  BY <1>1, <1>5, Zenon DEF InitRegion, InitOverflow, InitSkip, InitZone, Counted, NumPagesExact
<1>6. CASE \/ Collected \/ WriteInfo \/ MapInfoPage \/ BumpOutOfMemory \/ InitDone \/ UNCHANGED vars
  BY <1>2, <1>6, Zenon DEF Collected, WriteInfo, MapInfoPage, NextPage, BumpOutOfMemory, InitDone, vars
<1>7. CASE (\E n \in 0..MaxTables : AllocateInfoPage(n)) \/ AllocateTable
  BY <1>3, <1>7, Zenon DEF AllocateInfoPage, AllocateTable
<1> QED
  BY <1>4, <1>5, <1>6, <1>7, Zenon DEF Next

-----------------------------------------------------------------------------
(* The types.                                                              *)
ZoneType == [base : Frames, start : Frames, pages : Nat, blocks : Nat, count : Nat]

(* The zone that init makes starts inside its region.                      *)
LEMMA InitZoneTyped ==
  ASSUME IInv, InitRegion
  PROVE  zones' = zones \/ \E zone \in ZoneType : zones' = Append(zones, zone)
<1> DEFINE region == Head(regions)
           offset == SplitOffset(region.size)
           usable == UsablePages(region.size)
           zone   == [base   |-> region.addr,
                      start  |-> region.addr + offset \div PAGE_SIZE,
                      pages  |-> region.size - offset \div PAGE_SIZE,
                      blocks |-> BumpOut(BumpFrom(region.addr * PAGE_SIZE, offset), 1),
                      count  |-> BlocksInRegion(usable)]
<1>1. region \in Region
  BY HeadTailProperties, Zenon DEF IInv, Types, InitRegion
<1>2. region.addr \in Nat /\ region.size \in Nat
  BY <1>1, Zenon DEF Region, Frames
<1>3. zones' = zones \/ (zones' = Append(zones, zone) /\ ~(offset >= region.size * PAGE_SIZE))
  BY InitZoneCases, Zenon DEF InitRegion, InitOverflow, InitSkip
<1> HIDE DEF region
<1>4. usable \in Nat
  <2>1. PagesAfterOverhead(region.size) \in Int
    <3>1. region.size \in Int
      BY <1>2
    <3> QED
      BY <3>1, RegionsIntegers, Zenon
  <2> QED
    BY <2>1, RegionsAssumption DEF UsablePages
<1>5. offset \in Nat
  <2>1. ((region.size - usable) % Word) * PAGE_SIZE \in Nat
    BY <1>2, <1>4, RegionsAssumption
  <2> DEFINE b == ((region.size - usable) % Word) * PAGE_SIZE
  <2>2. offset = b % Word
    BY Zenon DEF SplitOffset
  <2> HIDE DEF b, offset
  <2>3. b \in Nat
    BY <2>1, Zenon DEF b
  <2> QED
    BY <2>2, <2>3, RegionsAssumption
<1> HIDE DEF offset, usable
<1>6. ASSUME ~(offset >= region.size * PAGE_SIZE)
      PROVE  offset \div PAGE_SIZE \in Nat /\ region.size - offset \div PAGE_SIZE \in Nat
  <2> DEFINE q == offset \div PAGE_SIZE
             n == region.size
  <2>1. q \in Nat /\ q * PAGE_SIZE <= offset
    BY <1>5, RegionsAssumption, SMTT(20)
  <2>2. n \in Nat /\ offset < n * PAGE_SIZE /\ n * PAGE_SIZE \in Nat
    BY <1>2, <1>5, <1>6, RegionsAssumption
  <2> HIDE DEF q, n
  <2>3. q < n
    <3> SUFFICES ASSUME n <= q
                 PROVE  FALSE
      BY <2>1, <2>2
    <3>1. PICK d \in Nat : q = n + d
      <4>1. q - n \in Nat /\ q = n + (q - n)
        BY <2>1, <2>2
      <4> QED
        BY <4>1, Zenon
    <3>2. q * PAGE_SIZE = n * PAGE_SIZE + d * PAGE_SIZE /\ d * PAGE_SIZE \in Nat /\ q * PAGE_SIZE \in Nat
      BY <2>2, <3>1, RegionsAssumption
    <3> QED
      BY <1>5, <2>1, <2>2, <3>2
  <2> QED
    BY <2>1, <2>2, <2>3 DEF q, n
<1>7. BumpOut(BumpFrom(region.addr * PAGE_SIZE, offset), 1) \in Nat
  <2>1. region.addr * PAGE_SIZE \in Nat
    BY <1>2, RegionsAssumption
  <2>2. AlignUp(0, 1) = 0
    BY DEF AlignUp
  <2> QED
    BY <2>1, <2>2 DEF BumpOut, BumpFrom
<1>8. BlocksInRegion(usable) \in Nat
  <2> DEFINE m == MAX_ORDER_PAGES
             c == (usable + m - 1) \div m
  <2>1. m \in Nat \ {0} /\ usable + m - 1 \in Nat
    BY <1>4, RegionsAssumption
  <2>2. c \in Nat
    BY <2>1
  <2>3. BlocksInRegion(usable) = ((c * m) \div m) * (2 * m - 1)
    BY Zenon DEF BlocksInRegion, AlignUp
  <2> HIDE DEF c, m
  <2>4. c * m \in Nat
    BY <2>1, <2>2
  <2>5. (c * m) \div m \in Nat
    <3> DEFINE p == c * m
    <3> HIDE DEF p
    <3>1. p \in Nat
      BY <2>4, Zenon DEF p
    <3>2. p \div m \in Nat
      BY <2>1, <3>1
    <3> QED
      BY <3>2, Zenon DEF p
  <2> DEFINE e == (c * m) \div m
  <2> HIDE DEF e
  <2>6. e \in Nat /\ 2 * m - 1 \in Nat
    BY <2>1, <2>5 DEF e
  <2>7. e * (2 * m - 1) \in Nat
    BY <2>6, SMTT(60)
  <2> QED
    BY <2>3, <2>7, Zenon DEF e
<1>9. ~(offset >= region.size * PAGE_SIZE) => zone \in ZoneType
  BY <1>2, <1>6, <1>7, <1>8, SMTT(60) DEF ZoneType, Frames
<1> QED
  BY <1>3, <1>9, Zenon

(* Every step keeps the types of the zones.                                *)
LEMMA StepZones ==
  ASSUME IInv, zones \in Seq(ZoneType), [Next]_vars
  PROVE  zones' \in Seq(ZoneType)
<1>1. CASE InitRegion
  BY <1>1, InitZoneTyped, AppendProperties
<1>2. CASE zones' = zones
  BY <1>2, Zenon
<1> QED
  BY <1>1, <1>2, Zenon DEF Next, Collect, Collected, WriteInfo, AllocateInfoPage, AllocateTable,
                    MapInfoPage, BumpOutOfMemory, InitDone, vars

(* The loops of MemoryMap::new, its count and the zones, in every state.   *)
LEMMA LoopInvariant == Spec => [](Loop /\ Counted /\ zones \in Seq(ZoneType))
<1>1. Init => Loop /\ Counted /\ zones \in Seq(ZoneType)
  <2> SUFFICES ASSUME Init PROVE Loop /\ Counted /\ zones \in Seq(ZoneType)
    BY Zenon
  <2>1. LoopTypes
    BY BootAssumption DEF Init, LoopTypes
  <2>2. Listed(regions, rg)
    <3>1. memory_map \in Seq([addr : Nat, size : Nat, region_type : STRING]) /\ rg = 1
      BY MemoryMapsAssumption, Zenon DEF Init
    <3>2. \A k \in DOMAIN memory_map : ~(k < rg)
      BY <3>1, SMTT(60)
    <3> QED
      BY <3>2, Zenon DEF Listed
  <2>3. Loop
    BY <2>1, <2>2, Zenon DEF Init, Loop, InfosReady
  <2>4. FramesOf(regions) = {}
    BY DEF Init, FramesOf
  <2>5. Counted
    BY <2>4, FS_EmptySet, Zenon DEF Init, Counted, NumPagesExact
  <2> QED
    BY <2>3, <2>5 DEF Init
<1>2. IInv /\ Loop /\ Counted /\ zones \in Seq(ZoneType) /\ [Next]_vars
        => (Loop /\ Counted /\ zones \in Seq(ZoneType))'
  BY StepLoop, StepCounted, StepZones, Zenon
<1> QED
  BY <1>1, <1>2, Invariant, PTL DEF Spec

(* For every memory map and every number of page tables that the map_to    *)
(* calls need: when MemoryMap::new returns, the PageInfo of every usable   *)
(* frame is mapped, and at most one in a page of the array is unwritten.   *)
THEOREM InfosAreReady ==
  Spec => []InfosReady
<1>1. Loop => InfosReady
  BY Zenon DEF Loop
<1> QED
  BY <1>1, LoopInvariant, PTL

(* For every memory map: num_pages is the number of frames that the        *)
(* regions hold, however many allocate_frame has taken from them.          *)
THEOREM PagesCounted ==
  Spec => []NumPagesExact
<1>1. Counted => NumPagesExact
  BY Zenon DEF Counted
<1> QED
  BY <1>1, LoopInvariant, PTL

(* For every memory map: the types of the state of MemoryMap::new and of   *)
(* PhysAllocator::init.  Above all num_pages and the pages of a zone, both *)
(* computed by subtraction, never go below zero.                           *)
THEOREM BootTyped ==
  Spec => []TypeOK
<1>1. IInv /\ VectorsFit /\ Loop /\ Counted /\ zones \in Seq(ZoneType) => TypeOK
  BY Zenon DEF IInv, Types, Loop, LoopTypes, Counted, ZoneType, Frames, TypeOK
<1> QED
  BY <1>1, Invariant, NoVectorOverflows, LoopInvariant, PTL
=============================================================================
