----------------------------- MODULE SlobProofs -----------------------------
(***************************************************************************)
(* Proofs about the kernel heap of module Slob, for every page size,       *)
(* number of pages, set of request lengths and bound on live allocations.  *)
(* The free list is described by the set S of its blocks: ListOf says that *)
(* following next from head visits exactly S in increasing order, Tiles    *)
(* that the blocks of a set cover the granted units once.  The lemmas say  *)
(* what unlinking, splitting, linking and merging do to both, and the      *)
(* inductive invariant is that some S satisfies them at every step of      *)
(* every walk.                                                             *)
(***************************************************************************)
EXTENDS Slob, TLAPS

Top == MaxPages * PageUnits

Mems == [Units -> [size : 0..Top, next : Links]]

(* From h, the links of m visit the set S in increasing order.             *)
ListOf(h, m, S) ==
  /\ S \subseteq Units
  /\ h = None => S = {}
  /\ h # None => h \in S /\ \A a \in S : h <= a
  /\ \A a \in S :
       /\ m[a].next = None => \A c \in S : c <= a
       /\ m[a].next # None =>
            m[a].next \in S /\ m[a].next > a /\ \A c \in S : c <= a \/ m[a].next <= c

(* The blocks at the addresses B are apart, and cover exactly the units G. *)
Tiles(B, m, G) ==
  /\ \A a, c \in B : a < c => OffsetAddr(a, m[a].size) <= c
  /\ \A a \in B : \A u \in a..(a + m[a].size) : u \in G
  /\ \A u \in G : \E a \in B : a <= u /\ u <= a + m[a].size

(* A heap whose list is S while the blocks U are not on it.                *)
Heap(h, m, S, U, G) ==
  /\ m \in Mems
  /\ S \subseteq Units /\ U \subseteq Units /\ S \cap U = {}
  /\ G \subseteq Units
  /\ ListOf(h, m, S)
  /\ Tiles(S \cup U, m, G)

(* prev and curr are neighbours on the list.                               *)
Position(h, m, S, p, c) ==
  /\ p = None => c = h
  /\ p # None => p \in S /\ c = m[p].next

Owned == {b.addr : b \in live}
InHand == IF pc = "insert" THEN {block} ELSE {}

(* The variables' types, and what goes with each value of pc.              *)
Types ==
  /\ {head, block, prev, curr} \subseteq Links
  /\ live \subseteq [addr : Units, len : Requests]
  /\ granted \subseteq [first : Nat, size : Nat, pages : Nat]
  /\ \A g \in granted : g.pages <= g.size /\ g.first + g.size <= MaxPages
  /\ pc \in PCs \ {"double_free"}
  /\ want \in Requests \cup {0}
  /\ pc = "idle" => want = 0
  /\ pc = "search" => want # 0 /\ round \in {1, 2}
  /\ pc = "insert" => block \in Units /\ (want # 0 => round \in {1, 2})

Headers ==
  /\ \A b, c \in live : b.addr = c.addr => b = c
  /\ \A b \in live : mem[b.addr].size = b.len
  /\ InHand \cap Owned = {}

Walk(S) ==
  /\ pc \in {"search", "insert"} => Position(head, mem, S, prev, curr)
  /\ pc = "insert" /\ prev # None => prev < block

Chunk == NumPages(want) * PageUnits

Missed(a) == mem[a].size < want \/ mem[a].size = want + 1

(* Why the second search can fail at all.                                  *)
SecondSearch(S) ==
  /\ pc = "insert" /\ want # 0 /\ round = 1 => mem[block].size >= Chunk - 1
  /\ pc = "search" /\ round = 2 =>
       /\ \E a \in S : mem[a].size >= Chunk - 1
       /\ prev # None => \A a \in S : a <= prev => Missed(a)
  /\ pc = "insert" /\ want # 0 /\ round = 2 => Chunk = want + 2
  /\ pc = "unreachable" => Chunk = want + 2

Inv(S) ==
  /\ Types
  /\ Heap(head, mem, S, Owned \cup InHand, GrantedUnits)
  /\ Headers
  /\ Walk(S)
  /\ SecondSearch(S)

IInv == ~relinked => \E S \in SUBSET Units : Inv(S)

-----------------------------------------------------------------------------
(* Arithmetic and types *)

(* What the constants' assumption gives: the heap has Top units.           *)
LEMMA TopFacts ==
  /\ Top \in Nat /\ None = -1
  /\ Units = 0..(Top - 1) /\ Links = Units \cup {None}
  /\ \A a \in Units : a \in Nat /\ a < Top
  /\ None \notin Units
BY SlobAssumption DEF Top, Units, Links, None

(* The fields of a header of typed memory.                                 *)
LEMMA MemFacts ==
  ASSUME NEW m \in Mems, NEW a \in Units
  PROVE  /\ m[a] \in [size : 0..Top, next : Links]
         /\ m[a].size \in Nat /\ m[a].size <= Top
         /\ m[a].next \in Units \cup {None}
         /\ m[a] = [size |-> m[a].size, next |-> m[a].next]
<1>1. m[a] \in [size : 0..Top, next : Links]
  BY Zenon DEF Mems
<1> QED BY <1>1, TopFacts

(* A block of a tiling ends inside the memory.                             *)
LEMMA EndFacts ==
  ASSUME NEW h, NEW m, NEW S, NEW U, NEW G, Heap(h, m, S, U, G), NEW a \in S \cup U
  PROVE  a \in Units /\ m[a].size \in Nat /\ a + m[a].size < Top
<1>1. a \in Units
  BY Zenon DEF Heap
<1>2. m[a].size \in Nat
  BY <1>1, MemFacts, Zenon DEF Heap
<1>3. a + m[a].size \in a..(a + m[a].size)
  BY <1>1, <1>2, TopFacts
<1>4. a + m[a].size \in G
  BY <1>3, Zenon DEF Heap, Tiles
<1> QED BY <1>1, <1>2, <1>4, TopFacts, Zenon DEF Heap

-----------------------------------------------------------------------------
(* What the list and the tiling become *)

(* The block c, behind p, has been taken off the list.                     *)
Unlinked(h, m, p, c, h2, m2) ==
  /\ p = None => h2 = m[c].next /\ m2 = m
  /\ p # None => h2 = h /\ m2 = [m EXCEPT ![p].next = m[c].next]

(* ExactFit and the second half of Split: the block c is unlinked.         *)
LEMMA Unlink ==
  ASSUME NEW h, NEW m, NEW S, NEW U, NEW G, Heap(h, m, S, U, G),
         NEW p, NEW c \in S, Position(h, m, S, p, c),
         NEW h2, NEW m2, Unlinked(h, m, p, c, h2, m2)
  PROVE  /\ Heap(h2, m2, S \ {c}, U \cup {c}, G)
         /\ \A a \in Units : m2[a].size = m[a].size
<1>. DEFINE n == m[c].next
<1>1. c \in Units /\ m \in Mems /\ n \in Units \cup {None} /\ m \in [Units -> [size : 0..Top, next : Links]]
  BY MemFacts, Zenon DEF Heap, Mems
<1>2. p # None => p \in S /\ p \in Units /\ m[p].next = c
  BY Zenon DEF Position, Heap
<1>3. /\ m2 \in Mems
      /\ \A a \in Units : m2[a].size = m[a].size
      /\ \A a \in Units : a # p => m2[a].next = m[a].next
      /\ p # None => m2[p].next = n
  <2>1. CASE p = None
    BY <2>1, <1>1, TopFacts, Zenon DEF Mems, Unlinked
  <2>2. CASE p # None
    <3>1. m[p] \in [size : 0..Top, next : Links]
      BY <2>2, <1>2, MemFacts, <1>1, Zenon
    <3>2. m2 = [m EXCEPT ![p] = [m[p] EXCEPT !.next = n]]
      BY <2>2, Zenon DEF Unlinked
    <3>3. [m[p] EXCEPT !.next = n] \in [size : 0..Top, next : Links]
      BY <3>1, <1>1, TopFacts, Zenon
    <3>4. m2[p] = [m[p] EXCEPT !.next = n] /\ \A a \in Units : a # p => m2[a] = m[a]
      BY <3>2, <2>2, <1>2, <1>1, Zenon
    <3>5. m2 \in Mems
      BY <3>2, <3>3, <1>1, <1>2, <2>2, Zenon DEF Mems
    <3>. QED BY <3>1, <3>4, <3>5, <2>2, Zenon
  <2>. QED BY <2>1, <2>2, Zenon
<1>4. \A a \in S : a \in Nat
  BY TopFacts, Zenon DEF Heap
<1>5. ListOf(h2, m2, S \ {c})
  <2>1. /\ n = None => \A a \in S : a <= c
        /\ n # None => n \in S /\ n > c /\ \A a \in S : a <= c \/ n <= a
    BY Zenon DEF Heap, ListOf
  <2>2. CASE p = None
    <3>1. h = c /\ h2 = n /\ m2 = m
      BY <2>2, Zenon DEF Position, Unlinked
    <3>2. \A a \in S : c <= a
      BY <3>1, <1>1, TopFacts, Zenon DEF Heap, ListOf
    <3>3. \A a \in S \ {c} : m[a].next # c
      <4>1. \A a \in S : m[a].next = None \/ m[a].next > a
        BY Zenon DEF Heap, ListOf
      <4>. QED BY <4>1, <3>2, <1>1, <1>4, TopFacts, SMTT(60)
    <3>. QED BY <3>1, <3>2, <3>3, <2>1, <1>4, TopFacts DEF Heap, ListOf
  <2>3. CASE p # None
    <3>1. h2 = h /\ p \in S /\ c > p /\ p # c /\ c # None /\ h # c
      BY <2>3, <1>1, <1>2, <1>4, TopFacts DEF Heap, ListOf, Unlinked
    <3>2. \A a \in S : a <= p \/ c <= a
      BY <3>1, <1>2, <2>3, Zenon DEF Heap, ListOf
    <3>3. \A a \in S : m[a].next = c => a = p
      BY <3>1, <3>2, <1>4, TopFacts DEF Heap, ListOf
    <3>4. \A a \in S \ {c} : a # p => m2[a].next = m[a].next
      BY <1>3, Zenon DEF Heap
    <3>5. m2[p].next = n
      BY <1>3, <2>3, Zenon
    <3>6. ASSUME NEW a \in S \ {c}
          PROVE  /\ m2[a].next = None => \A x \in S \ {c} : x <= a
                 /\ m2[a].next # None =>
                      m2[a].next \in S \ {c} /\ m2[a].next > a /\ \A x \in S \ {c} : x <= a \/ m2[a].next <= x
      <4>1. CASE a = p
        BY <4>1, <3>1, <3>2, <3>5, <2>1, <1>1, <1>4, TopFacts, SMTT(60)
      <4>2. CASE a # p
        <5>1. /\ m[a].next = None => \A x \in S : x <= a
              /\ m[a].next # None => m[a].next \in S /\ m[a].next > a /\ \A x \in S : x <= a \/ m[a].next <= x
          BY Zenon DEF Heap, ListOf
        <5>. QED BY <5>1, <4>2, <3>3, <3>4, Zenon
      <4>. QED BY <4>1, <4>2, Zenon
    <3>7. S \ {c} \subseteq Units /\ h2 \in S \ {c} /\ h2 # None /\ \A x \in S \ {c} : h2 <= x
      BY <3>1, TopFacts, Zenon DEF Heap, ListOf
    <3>. QED BY <3>6, <3>7, Zenon DEF ListOf
  <2>. QED BY <2>2, <2>3, Zenon
<1>6. Tiles((S \ {c}) \cup (U \cup {c}), m2, G)
  <2>1. (S \ {c}) \cup (U \cup {c}) = S \cup U
    BY Zenon
  <2>. QED BY <2>1, <1>3, Zenon DEF Heap, Tiles
<1>. QED BY <1>1, <1>3, <1>5, <1>6, Zenon DEF Heap

(* Block::split_at on a block of the list that has room for a header more: *)
(* the right part is on the list behind the left one.                      *)
LEMMA SplitHeap ==
  ASSUME NEW h, NEW m, NEW S, NEW U, NEW G, Heap(h, m, S, U, G),
         NEW c \in S, NEW w \in Nat, m[c].size > w + 1
  PROVE  LET r == OffsetAddr(c, w)
             m2 == SplitAt(m, c, w)
         IN  /\ r \in Units /\ r > c /\ r \notin S \cup U
             /\ Heap(h, m2, S \cup {r}, U, G)
             /\ m2[c].size = w /\ m2[c].next = r
             /\ \A a \in Units : a # c /\ a # r => m2[a] = m[a]
<1>. DEFINE r == OffsetAddr(c, w)
            m2 == SplitAt(m, c, w)
            n == m[c].next
            k == m[c].size - w - 1
<1>1. /\ c \in Units /\ c \in Nat /\ m[c].size \in Nat /\ c + m[c].size < Top
      /\ n \in Units \cup {None} /\ m \in [Units -> [size : 0..Top, next : Links]]
  <2>1. c \in Units /\ m[c].size \in Nat /\ c + m[c].size < Top
    BY EndFacts, Zenon
  <2>2. m \in Mems
    BY Zenon DEF Heap
  <2>. QED BY <2>1, <2>2, MemFacts, TopFacts, Zenon DEF Mems
<1>2. /\ r \in Units /\ r = c + w + 1 /\ r > c /\ r <= c + m[c].size
      /\ k \in Nat /\ k > 0 /\ r + k = c + m[c].size /\ k \in 0..Top /\ w \in 0..Top
  <2>1. ASSUME NEW z \in Nat, z = m[c].size
        PROVE  /\ r = c + w + 1 /\ r > c /\ r <= c + z
               /\ k \in Nat /\ k > 0 /\ r + k = c + z /\ k <= Top /\ w <= Top /\ r < Top /\ r \in Nat
    <3>1. r = c + w + 1 /\ k = z - w - 1 /\ z > w + 1
      BY <2>1, Zenon DEF OffsetAddr
    <3>2. c \in Nat /\ c + z < Top /\ Top \in Nat
      BY <2>1, <1>1, TopFacts, Zenon
    <3>. HIDE DEF r, k
    <3>. QED BY <3>1, <3>2
  <2>. HIDE DEF r, k
  <2>. QED BY <2>1, <1>1, TopFacts
<1>3. \A a \in S \cup U : a > c => c + m[c].size + 1 <= a
  BY Zenon DEF Heap, Tiles, OffsetAddr
<1>4. r \notin S \cup U
  BY <1>1, <1>2, <1>3
<1>5. /\ m2 \in Mems
      /\ m2[c] = [size |-> w, next |-> r]
      /\ m2[r] = [size |-> k, next |-> n]
      /\ \A a \in Units : a # c /\ a # r => m2[a] = m[a]
  <2>1. m2 = [m EXCEPT ![r] = [size |-> k, next |-> n], ![c] = [size |-> w, next |-> r]]
    BY Zenon DEF SplitAt
  <2>2. [size |-> k, next |-> n] \in [size : 0..Top, next : Links]
    BY <1>1, <1>2, TopFacts, Zenon
  <2>3. [size |-> w, next |-> r] \in [size : 0..Top, next : Links]
    BY <1>1, <1>2, TopFacts, Zenon
  <2>. HIDE DEF m2, k, n, r
  <2>. QED BY <2>1, <2>2, <2>3, <1>1, <1>2 DEF Mems
<1>6. \A a \in S \cup U : a \in Nat /\ a \in Units
  BY TopFacts, Zenon DEF Heap
<1>. HIDE DEF m2, r, k
<1>7. ListOf(h, m2, S \cup {r})
  <2>1. /\ n = None => \A a \in S : a <= c
        /\ n # None => n \in S /\ n > c /\ \A a \in S : a <= c \/ n <= a
    BY Zenon DEF Heap, ListOf
  <2>2. n # None => r < n
    <3>1. n # None => n \in Nat /\ c + m[c].size + 1 <= n
      BY <2>1, <1>3, <1>6, Zenon
    <3>. QED BY <3>1, <1>1, <1>2
  <2>3. \A a \in S : a < r <=> a <= c
    BY <1>1, <1>2, <1>3, <1>6
  <2>4. \A a \in S : a # c => a # r /\ m2[a].next = m[a].next
    BY <1>4, <1>5, <1>6, Zenon
  <2>5. m2[c].next = r /\ m2[r].next = n
    BY <1>5
  <2>6. r \in Nat /\ h # None /\ h \in S /\ h <= c
    BY <1>2, TopFacts, Zenon DEF Heap, ListOf
  <2>7. \A a \in S : a # c => /\ m[a].next = None => \A x \in S : x <= a
                              /\ m[a].next # None => m[a].next \in S /\ m[a].next > a /\ \A x \in S : x <= a \/ m[a].next <= x
    BY Zenon DEF Heap, ListOf
  <2>8. S \cup {r} \subseteq Units /\ \A a \in S \cup {r} : h <= a
    <3>1. S \subseteq Units /\ \A a \in S : h <= a
      BY <2>6, Zenon DEF Heap, ListOf
    <3>. QED BY <3>1, <2>6, <1>1, <1>2, <1>6
  <2>9. ASSUME NEW a \in S, a # c
        PROVE  /\ m2[a].next = None => \A x \in S \cup {r} : x <= a
               /\ m2[a].next # None => m2[a].next \in S /\ m2[a].next > a /\ \A x \in S \cup {r} : x <= a \/ m2[a].next <= x
    <3>1. m2[a].next = m[a].next /\ a \in Nat
      BY <2>4, <2>9, <1>6, Zenon
    <3>2. m[a].next = None => r <= a
      BY <2>7, <2>9, <2>3, <3>1, <2>6, <1>1
    <3>3. m[a].next # None => r <= a \/ m[a].next <= r
      <4>1. m[a].next # None => m[a].next \in Nat /\ (c <= a \/ m[a].next <= c)
        BY <2>7, <2>9, <1>6, Zenon
      <4>2. c <= a => r <= a
        BY <2>9, <2>3, <3>1, <2>6, <1>1
      <4>. QED BY <4>1, <4>2, <1>1, <1>2, <2>6
    <3>. QED BY <3>1, <3>2, <3>3, <2>7, <2>9, Zenon
  <2>10. \A x \in S \cup {r} : x <= c \/ r <= x
    BY <2>3, <1>6, <2>6
  <2>11. /\ n = None => \A x \in S \cup {r} : x <= r
         /\ n # None => n \in S /\ n > r /\ \A x \in S \cup {r} : x <= r \/ n <= x
    BY <2>1, <2>2, <2>3, <1>6, <2>6, <1>1, <1>2, TopFacts, SMTT(60)
  <2>12. r # None
    BY <1>2, TopFacts, Zenon
  <2>. QED BY <2>5, <2>6, <2>8, <2>9, <2>10, <2>11, <2>12, <1>2, ZenonT(60) DEF ListOf
<1>8. Tiles((S \cup {r}) \cup U, m2, G)
  <2>. DEFINE B == S \cup U
  <2>1. \A a \in B : a # c => m2[a].size = m[a].size /\ m[a].size \in Nat
    BY <1>4, <1>5, <1>6, EndFacts, Zenon
  <2>2. m2[c].size = w /\ m2[r].size = k
    BY <1>5
  <2>3. \A a, x \in B : a < x => a + m[a].size + 1 <= x
    BY Zenon DEF Heap, Tiles, OffsetAddr
  <2>4. \A a, x \in B \cup {r} : a < x => a + m2[a].size + 1 <= x
    BY <2>1, <2>2, <2>3, <1>1, <1>2, <1>6
  <2>5. \A a \in B \cup {r} : \A u \in a..(a + m2[a].size) : u \in G
    <3>1. \A a \in B : \A u \in a..(a + m[a].size) : u \in G
      BY Zenon DEF Heap, Tiles
    <3>2. c..(c + w) \subseteq c..(c + m[c].size) /\ r..(r + k) \subseteq c..(c + m[c].size)
      BY <1>1, <1>2
    <3>. QED BY <3>1, <3>2, <2>1, <2>2, Zenon
  <2>6. \A u \in G : \E a \in B \cup {r} : a <= u /\ u <= a + m2[a].size
    <3>. SUFFICES ASSUME NEW u \in G
                  PROVE  \E a \in B \cup {r} : a <= u /\ u <= a + m2[a].size
      BY Zenon
    <3>1. PICK a \in B : a <= u /\ u <= a + m[a].size
      BY Zenon DEF Heap, Tiles
    <3>2. u \in Nat
      BY TopFacts, Zenon DEF Heap
    <3>3. CASE a # c
      BY <3>1, <3>3, <2>1, Zenon
    <3>4. CASE a = c /\ u <= c + w
      BY <3>1, <3>4, <2>2, Zenon
    <3>5. CASE a = c /\ ~(u <= c + w)
      BY <3>1, <3>2, <3>5, <2>2, <1>1, <1>2
    <3>. QED BY <3>3, <3>4, <3>5, Zenon
  <2>7. (S \cup {r}) \cup U = B \cup {r}
    BY Zenon
  <2>. QED BY <2>4, <2>5, <2>6, <2>7, Zenon DEF Tiles, OffsetAddr
<1>9. Heap(h, m2, S \cup {r}, U, G)
  BY <1>2, <1>4, <1>5, <1>7, <1>8, Zenon DEF Heap
<1>10. m2[c].size = w /\ m2[c].next = r
  BY <1>5
<1>. QED BY <1>2, <1>4, <1>5, <1>9, <1>10, Zenon DEF m2, r

(* h2 and m2 are h and m with b linked between its neighbours p and c.     *)
Linked(h, m, S, U, G, b, p, c, h2, m2) ==
  /\ Heap(h, m, S, U \cup {b}, G) /\ b \notin U
  /\ Position(h, m, S, p, c)
  /\ p # None => p < b
  /\ c # None => b < c
  /\ m2 \in Mems
  /\ \A a \in Units : m2[a].size = m[a].size
  /\ \A a \in S : a # p => m2[a].next = m[a].next
  /\ m2[b].next = c
  /\ p = None => h2 = b
  /\ p # None => h2 = h /\ m2[p].next = b

(* dealloc_inner links the block b between its neighbours p and c.         *)
LEMMA LinkHeap ==
  ASSUME NEW h, NEW m, NEW S, NEW U, NEW G, NEW b, NEW p, NEW c, NEW h2, NEW m2,
         Linked(h, m, S, U, G, b, p, c, h2, m2)
  PROVE  Heap(h2, m2, S \cup {b}, U, G)
<1>. USE DEF Linked
<1>1. b \in Units /\ b \in Nat /\ b # None /\ b \notin S /\ \A a \in S : a \in Nat /\ a # None
  BY TopFacts, Zenon DEF Heap
<1>2. Tiles((S \cup {b}) \cup U, m2, G)
  <2>1. (S \cup {b}) \cup U = S \cup (U \cup {b})
    BY Zenon
  <2>. QED BY <2>1, Zenon DEF Heap, Tiles
<1>3. ListOf(h2, m2, S \cup {b})
  <2>1. CASE p = None
    <3>1. c = h /\ h2 = b
      BY <2>1, Zenon DEF Position
    <3>2. /\ c = None => S = {}
          /\ c # None => c \in S /\ \A a \in S : c <= a
      BY <3>1, Zenon DEF Heap, ListOf
    <3>3. \A a \in S : b < a
      BY <3>2, <1>1
    <3>4. \A a \in S : m2[a].next = m[a].next
      BY <2>1, <1>1, Zenon
    <3>5. \A a \in S : /\ m[a].next = None => \A x \in S : x <= a
                       /\ m[a].next # None => m[a].next \in S /\ m[a].next > a /\ \A x \in S : x <= a \/ m[a].next <= x
      BY Zenon DEF Heap, ListOf
    <3>6. \A a \in S : /\ m2[a].next = None => \A x \in S \cup {b} : x <= a
                       /\ m2[a].next # None => m2[a].next \in S /\ m2[a].next > a /\ \A x \in S \cup {b} : x <= a \/ m2[a].next <= x
      BY <3>3, <3>4, <3>5, <1>1
    <3>7. /\ c = None => \A x \in S \cup {b} : x <= b
          /\ c # None => c \in S /\ c > b /\ \A x \in S \cup {b} : x <= b \/ c <= x
      BY <3>2, <3>3, <1>1
    <3>8. S \cup {b} \subseteq Units /\ \A x \in S \cup {b} : b <= x
      BY <3>3, <1>1 DEF Heap
    <3>9. /\ m2[b].next = None => \A x \in S \cup {b} : x <= b
          /\ m2[b].next # None => m2[b].next \in S \cup {b} /\ m2[b].next > b /\ \A x \in S \cup {b} : x <= b \/ m2[b].next <= x
      BY <3>7, Zenon
    <3>10. \A a \in S \cup {b} :
             /\ m2[a].next = None => \A x \in S \cup {b} : x <= a
             /\ m2[a].next # None => m2[a].next \in S \cup {b} /\ m2[a].next > a /\ \A x \in S \cup {b} : x <= a \/ m2[a].next <= x
      <4>. TAKE a \in S \cup {b}
      <4>1. CASE a \in S
        BY <4>1, <3>6, Zenon
      <4>2. CASE a = b
        BY <4>2, <3>9, Zenon
      <4>. QED BY <4>1, <4>2, Zenon
    <3>11. h2 # None /\ h2 \in S \cup {b} /\ \A x \in S \cup {b} : h2 <= x
      BY <3>1, <3>8, <1>1, Zenon
    <3>. QED BY <3>8, <3>10, <3>11, Zenon DEF ListOf
  <2>2. CASE p # None
    <3>1. p \in S /\ c = m[p].next /\ h2 = h /\ h \in S /\ h # None /\ h <= p /\ m2[p].next = b
      BY <2>2, TopFacts, Zenon DEF Position, Heap, ListOf
    <3>2. /\ c = None => \A a \in S : a <= p
          /\ c # None => c \in S /\ c > p /\ \A a \in S : a <= p \/ c <= a
      BY <3>1, Zenon DEF Heap, ListOf
    <3>3. p < b /\ (c # None => b < c)
      BY <2>2, Zenon
    <3>4. \A a \in S : a <= p \/ b < a
      BY <3>2, <3>3, <1>1
    <3>5. \A a \in S \cup {b} : h <= a
      BY <3>1, <3>3, <1>1 DEF Heap, ListOf
    <3>6. ASSUME NEW a \in S, a # p
          PROVE  /\ m2[a].next = None => \A x \in S \cup {b} : x <= a
                 /\ m2[a].next # None => m2[a].next \in S /\ m2[a].next > a /\ \A x \in S \cup {b} : x <= a \/ m2[a].next <= x
      <4>1. /\ m[a].next = None => \A x \in S : x <= a
            /\ m[a].next # None => m[a].next \in S /\ m[a].next > a /\ \A x \in S : x <= a \/ m[a].next <= x
        BY Zenon DEF Heap, ListOf
      <4>2. m[a].next = None => b <= a
        BY <4>1, <3>1, <3>4, <3>6, <1>1
      <4>3. m[a].next # None => b <= a \/ m[a].next <= b
        BY <4>1, <3>1, <3>3, <3>4, <3>6, <1>1
      <4>. QED BY <4>1, <4>2, <4>3, <3>6, Zenon
    <3>7. \A x \in S \cup {b} : x <= p \/ b <= x
      BY <3>4, <1>1
    <3>8. /\ c = None => \A x \in S \cup {b} : x <= b
          /\ c # None => c \in S /\ c > b /\ \A x \in S \cup {b} : x <= b \/ c <= x
      BY <3>1, <3>2, <3>3, <1>1
    <3>9. S \cup {b} \subseteq Units
      BY <1>1, Zenon DEF Heap
    <3>. QED BY <3>1, <3>3, <3>5, <3>6, <3>7, <3>8, <3>9, <1>1, SMTT(60) DEF ListOf
  <2>. QED BY <2>1, <2>2, Zenon
<1>. QED BY <1>1, <1>2, <1>3, Zenon DEF Heap

(* l and r are neighbours on the list.                                     *)
Neighbours(h, m, S, U, G, l, r) ==
  Heap(h, m, S, U, G) /\ l \in S /\ r = m[l].next /\ r # None

(* m2 and S2 are m and S with l and r merged, if they can be.              *)
Merged(h, m, S, U, G, l, r, m2, S2) ==
  /\ Heap(h, m2, S2, U, G)
  /\ l \in S2 /\ m2[l].size >= m[l].size
  /\ Mergeable(m, l, r) => m2[l].next = m[r].next /\ m2[l].size >= m[r].size
  /\ \A a \in Units : a # l /\ a # r => m2[a] = m[a]

(* Block::try_merge on two neighbours of the list: the list loses the      *)
(* right one if they merge, and no other header changes.                   *)
LEMMA MergeHeap ==
  ASSUME NEW h, NEW m, NEW S, NEW U, NEW G, NEW l, NEW r, Neighbours(h, m, S, U, G, l, r)
  PROVE  Merged(h, m, S, U, G, l, r, TryMerge(m, l, r),
                IF Mergeable(m, l, r) THEN S \ {r} ELSE S)
<1>. USE DEF Neighbours
<1>1. /\ r \in S /\ r > l /\ r # l /\ l \in Units /\ r \in Units /\ l \in Nat /\ r \in Nat
      /\ \A c \in S : c <= l \/ r <= c
  <2>1. S \subseteq Units /\ ListOf(h, m, S)
    BY Zenon DEF Heap
  <2>2. r \in S /\ r > l /\ \A c \in S : c <= l \/ r <= c
    BY <2>1, Zenon DEF ListOf
  <2>. QED BY <2>1, <2>2, TopFacts
<1>2. /\ m[l].size \in Nat /\ m[r].size \in Nat /\ r + m[r].size < Top
  BY <1>1, EndFacts, Zenon
<1>3. CASE ~Mergeable(m, l, r)
  <2>1. TryMerge(m, l, r) = m /\ (IF Mergeable(m, l, r) THEN S \ {r} ELSE S) = S
    BY <1>3, Zenon DEF TryMerge
  <2>2. m[l].size >= m[l].size
    BY <1>2
  <2>3. Merged(h, m, S, U, G, l, r, m, S)
    BY <1>3, <2>2, Zenon DEF Merged
  <2>. QED BY <2>1, <2>3, Zenon
<1>4. CASE Mergeable(m, l, r)
  <2>. DEFINE m2 == TryMerge(m, l, r)
              n == m[r].next
              k == m[l].size + m[r].size + 1
  <2>1. r = l + m[l].size + 1
    BY <1>4, Zenon DEF Mergeable, OffsetAddr
  <2>2. k \in Nat /\ k <= Top /\ l + k = r + m[r].size
    <3>1. ASSUME NEW y \in Nat, y = m[l].size, NEW z \in Nat, z = m[r].size
          PROVE  k \in Nat /\ k <= Top /\ l + k = r + m[r].size
      <4>1. k = y + z + 1 /\ r = l + y + 1 /\ r + z < Top /\ Top \in Nat
        BY <3>1, <2>1, <1>2, TopFacts, Zenon
      <4>. HIDE DEF k
      <4>. QED BY <4>1, <3>1, <1>1
    <3>. QED BY <3>1, <1>2, Zenon
  <2>3. m \in Mems /\ n \in Links
    BY <1>1, MemFacts, TopFacts, Zenon DEF Heap
  <2>4. /\ m2 \in Mems
        /\ m2[l] = [size |-> k, next |-> n]
        /\ \A a \in Units : a # l /\ a # r => m2[a] = m[a]
    <3>1. m2 = [m EXCEPT ![l] = [size |-> k, next |-> n], ![r] = NoHeader]
      BY <1>4, Zenon DEF TryMerge
    <3>2. [size |-> k, next |-> n] \in [size : 0..Top, next : Links]
      BY <2>2, <2>3, TopFacts
    <3>3. NoHeader \in [size : 0..Top, next : Links]
      BY TopFacts DEF NoHeader
    <3>. HIDE DEF m2, k, n
    <3>. QED BY <3>1, <3>2, <3>3, <2>3, <1>1, Zenon DEF Mems
  <2>. HIDE DEF m2, k
  <2>5. \A a \in S \cup U : a \in Nat /\ a \in Units /\ m[a].size \in Nat
    BY EndFacts, TopFacts, Zenon
  <2>6. ListOf(h, m2, S \ {r})
    <3>1. /\ n = None => \A x \in S : x <= r
          /\ n # None => n \in S /\ n > r /\ \A x \in S : x <= r \/ n <= x
      BY <1>1, Zenon DEF Heap, ListOf
    <3>2. m2[l].next = n
      BY <2>4
    <3>3. h # None /\ h \in S /\ h # r /\ \A x \in S : h <= x
      BY <1>1, TopFacts DEF Heap, ListOf
    <3>4. ASSUME NEW a \in S \ {r}
          PROVE  /\ m2[a].next = None => \A x \in S \ {r} : x <= a
                 /\ m2[a].next # None =>
                      m2[a].next \in S \ {r} /\ m2[a].next > a /\ \A x \in S \ {r} : x <= a \/ m2[a].next <= x
      <4>1. CASE a = l
        <5>. HIDE DEF n
        <5>1. \A x \in S : x \in Nat
          BY <2>5, Zenon
        <5>2. \A x \in S \ {r} : x <= r => x <= l
          BY <5>1, <1>1
        <5>3. n # None => n \in S \ {r} /\ n > l /\ \A x \in S \ {r} : x <= l \/ n <= x
          <6>1. n # None => n \in Nat /\ n > r
            BY <5>1, <3>1, Zenon
          <6>2. r \in Nat /\ l \in Nat /\ r > l
            BY <1>1, Zenon
          <6>3. n \in Nat /\ n > r => n # r /\ n > l
            BY <6>2
          <6>. QED BY <6>1, <6>3, <5>2, <3>1, Zenon
        <5>. QED BY <5>2, <5>3, <4>1, <3>1, <3>2, Zenon
      <4>2. CASE a # l
        <5>1. m2[a].next = m[a].next
          BY <4>2, <2>4, <2>5, Zenon
        <5>2. /\ m[a].next = None => \A x \in S : x <= a
              /\ m[a].next # None => m[a].next \in S /\ m[a].next > a /\ \A x \in S : x <= a \/ m[a].next <= x
          BY Zenon DEF Heap, ListOf
        <5>3. m[a].next # r
          BY <5>2, <4>2, <1>1, <2>5, TopFacts
        <5>. QED BY <5>1, <5>2, <5>3, Zenon
      <4>. QED BY <4>1, <4>2, Zenon
    <3>5. S \ {r} \subseteq Units
      BY <2>5, Zenon
    <3>. QED BY <3>3, <3>4, <3>5, Zenon DEF ListOf
  <2>7. Tiles((S \ {r}) \cup U, m2, G)
    <3>. DEFINE B == S \cup U
    <3>1. /\ \A a \in B : a # l /\ a # r => m2[a].size = m[a].size
          /\ m2[l].size = k
      BY <2>4, <2>5
    <3>2. \A a, x \in B : a < x => a + m[a].size + 1 <= x
      BY Zenon DEF Heap, Tiles, OffsetAddr
    <3>3. \A a, x \in B \ {r} : a < x => a + m2[a].size + 1 <= x
      <4>. SUFFICES ASSUME NEW a \in B \ {r}, NEW x \in B \ {r}, a < x
                    PROVE  a + m2[a].size + 1 <= x
        BY Zenon
      <4>1. CASE a # l
        BY <4>1, <3>1, <3>2, Zenon
      <4>2. CASE a = l
        <5>1. l + m[l].size + 1 <= x
          BY <4>2, <3>2, Zenon
        <5>2. r <= x /\ x \in Nat
          BY <5>1, <2>1, <2>5, Zenon
        <5>3. r < x
          BY <5>2, <1>1
        <5>4. r + m[r].size + 1 <= x
          BY <5>3, <3>2, <1>1, Zenon
        <5>. QED BY <5>4, <4>2, <3>1, <2>2, Zenon
      <4>. QED BY <4>1, <4>2, Zenon
    <3>4. \A a \in B \ {r} : \A u \in a..(a + m2[a].size) : u \in G
      <4>1. \A a \in B : \A u \in a..(a + m[a].size) : u \in G
        BY Zenon DEF Heap, Tiles
      <4>2. \A u \in l..(l + k) : u \in l..(l + m[l].size) \/ u \in r..(r + m[r].size)
        BY <2>1, <2>2, <1>1, <1>2
      <4>. QED BY <4>1, <4>2, <3>1, <1>1, Zenon
    <3>5. \A u \in G : \E a \in B \ {r} : a <= u /\ u <= a + m2[a].size
      <4>. SUFFICES ASSUME NEW u \in G
                    PROVE  \E a \in B \ {r} : a <= u /\ u <= a + m2[a].size
        BY Zenon
      <4>1. PICK a \in B : a <= u /\ u <= a + m[a].size
        BY Zenon DEF Heap, Tiles
      <4>2. u \in Nat
        BY TopFacts, Zenon DEF Heap
      <4>3. CASE a # l /\ a # r
        BY <4>1, <4>3, <3>1, Zenon
      <4>4. CASE a = l
        <5>1. l <= u /\ u <= l + k
          BY <4>1, <4>2, <4>4, <2>1, <2>2, <1>1, <1>2, SMTT(60)
        <5>. QED BY <5>1, <3>1, <1>1, Zenon
      <4>5. CASE a = r
        <5>1. l <= u /\ u <= l + k
          BY <4>1, <4>2, <4>5, <2>1, <2>2, <1>1, <1>2
        <5>. QED BY <5>1, <3>1, <1>1, Zenon
      <4>. QED BY <4>3, <4>4, <4>5, Zenon
    <3>6. (S \ {r}) \cup U = B \ {r}
      BY <1>1, Zenon DEF Heap
    <3>. QED BY <3>3, <3>4, <3>5, <3>6, Zenon DEF Tiles, OffsetAddr
  <2>8. Heap(h, m2, S \ {r}, U, G)
    BY <2>4, <2>6, <2>7, Zenon DEF Heap
  <2>9. m2[l].size >= m[l].size /\ m2[l].size >= m[r].size /\ m2[l].next = n
    <3>1. m2[l].size = k /\ k >= m[l].size /\ k >= m[r].size /\ m2[l].next = n
      BY <2>4, <1>2 DEF k
    <3>. QED BY <3>1, Zenon
  <2>10. (IF Mergeable(m, l, r) THEN S \ {r} ELSE S) = S \ {r}
    BY <1>4, Zenon
  <2>11. Merged(h, m, S, U, G, l, r, m2, S \ {r})
    BY <2>4, <2>8, <2>9, <1>1, <1>4, Zenon DEF Merged, n
  <2>. QED BY <2>10, <2>11, Zenon DEF m2
<1>. QED BY <1>3, <1>4, Zenon

(* A header for a block of size k was written at b.                        *)
Grown(m, b, k, m2) == m2 = [m EXCEPT ![b] = [size |-> k, next |-> None]]

(* The units from b to e were not granted before.                          *)
Growing(h, m, S, U, G, b, k, e, m2) ==
  /\ Heap(h, m, S, U, G)
  /\ b \in Units /\ k \in Nat /\ e = b + k /\ e < Top /\ (b..e) \cap G = {}
  /\ Grown(m, b, k, m2)

(* m2 has a block over them, in use.                                       *)
GrownHeap(h, m, S, U, G, b, k, e, m2) ==
  /\ b \notin S \cup U
  /\ Heap(h, m2, S, U \cup {b}, G \cup (b..e))
  /\ m2[b].size = k /\ \A a \in Units : a # b => m2[a] = m[a]

(* morecore: a block over units that were not granted before.              *)
LEMMA GrowHeap ==
  ASSUME NEW h, NEW m, NEW S, NEW U, NEW G, NEW b, NEW k, NEW e, NEW m2,
         Growing(h, m, S, U, G, b, k, e, m2)
  PROVE  GrownHeap(h, m, S, U, G, b, k, e, m2)
<1>. USE DEF Growing
<1>1. b \in Nat /\ b \in b..e
  BY TopFacts
<1>2. \A a \in S \cup U : a \in Nat /\ a \in Units /\ m[a].size \in Nat
  BY EndFacts, TopFacts, Zenon
<1>3. \A a \in S \cup U : \A u \in a..(a + m[a].size) : u \in G
  BY Zenon DEF Heap, Tiles
<1>4. b \notin S \cup U
  BY <1>1, <1>2, <1>3
<1>5. /\ m2 \in Mems
      /\ m2[b] = [size |-> k, next |-> None]
      /\ \A a \in Units : a # b => m2[a] = m[a]
  <2>1. [size |-> k, next |-> None] \in [size : 0..Top, next : Links]
    BY <1>1, TopFacts
  <2>2. m \in Mems
    BY Zenon DEF Heap
  <2>. QED BY <2>1, <2>2, Zenon DEF Mems, Grown
<1>6. ListOf(h, m2, S)
  <2>1. \A a \in S : m2[a].next = m[a].next
    BY <1>2, <1>4, <1>5, Zenon
  <2>. QED BY <2>1, Zenon DEF Heap, ListOf
<1>7. Tiles(S \cup (U \cup {b}), m2, G \cup (b..e))
  <2>. DEFINE B == S \cup U
  <2>1. \A a \in B : m2[a].size = m[a].size
    BY <1>2, <1>4, <1>5, Zenon
  <2>2. m2[b].size = k
    BY <1>5
  <2>3. \A a \in B : a < b => a + m[a].size + 1 <= b
    <3>. SUFFICES ASSUME NEW a \in B, a < b, ~(a + m[a].size + 1 <= b)
                  PROVE  FALSE
      BY Zenon
    <3>1. b \in a..(a + m[a].size)
      BY <1>1, <1>2
    <3>. QED BY <3>1, <1>1, <1>3, Zenon
  <2>4. \A a \in B : b < a => b + k + 1 <= a
    <3>. SUFFICES ASSUME NEW a \in B, b < a, ~(b + k + 1 <= a)
                  PROVE  FALSE
      BY Zenon
    <3>1. a \in b..e /\ a \in a..(a + m[a].size)
      BY <1>1, <1>2
    <3>. QED BY <3>1, <1>3, Zenon
  <2>5. \A a, x \in B \cup {b} : a < x => OffsetAddr(a, m2[a].size) <= x
    BY <2>1, <2>2, <2>3, <2>4, <1>1 DEF Heap, Tiles, OffsetAddr
  <2>6. \A a \in B \cup {b} : \A u \in a..(a + m2[a].size) : u \in G \cup (b..e)
    BY <2>1, <2>2, <1>3, Zenon
  <2>7. \A u \in G \cup (b..e) : \E a \in B \cup {b} : a <= u /\ u <= a + m2[a].size
    <3>1. \A u \in G : \E a \in B : a <= u /\ u <= a + m[a].size
      BY Zenon DEF Heap, Tiles
    <3>. QED BY <3>1, <2>1, <2>2, <1>1
  <2>8. S \cup (U \cup {b}) = B \cup {b}
    BY Zenon
  <2>. QED BY <2>5, <2>6, <2>7, <2>8, Zenon DEF Tiles
<1>8. b..e \subseteq Units
  BY <1>1, TopFacts
<1>9. Heap(h, m2, S, U \cup {b}, G \cup (b..e))
  BY <1>4, <1>5, <1>6, <1>7, <1>8, Zenon DEF Heap
<1>10. m2[b].size = k
  BY <1>5
<1>. QED BY <1>4, <1>5, <1>9, <1>10, Zenon DEF GrownHeap

-----------------------------------------------------------------------------
(* Every step preserves the invariant *)

(* The chunk morecore asks for has room for the request, its header and    *)
(* one unit more.                                                          *)
LEMMA ChunkFacts ==
  ASSUME NEW n \in Nat
  PROVE  /\ NumPages(n) \in Nat /\ NumPages(n) >= 1
         /\ NumPages(n) * PageUnits \in Nat /\ NumPages(n) * PageUnits >= n + 2
<1>. DEFINE q == NumPages(n)
            x == n + 1 + PageUnits
<1>1. PageUnits \in Nat /\ PageUnits >= 1 /\ x \in Nat
  BY SlobAssumption
<1>2. q = x \div PageUnits
  BY Zenon DEF NumPages
<1>3. x \div PageUnits \in Nat
  BY <1>1
<1>4. x = PageUnits * (x \div PageUnits) + (x % PageUnits) /\ x % PageUnits < PageUnits /\ x % PageUnits \in Nat
  BY <1>1
<1>5. PageUnits * q = q * PageUnits /\ q * PageUnits \in Nat
  BY <1>1, <1>2, <1>3
<1>6. q * PageUnits > n + 1
  BY <1>1, <1>2, <1>4, <1>5
<1>7. q # 0
  BY <1>1, <1>6
<1>. QED BY <1>2, <1>3, <1>5, <1>6, <1>7

(* The units of the chunks granted are units of the heap.                  *)
LEMMA GrantedInHeap ==
  ASSUME NEW first \in Nat, NEW pages \in Nat, first + pages <= MaxPages
  PROVE  /\ first * PageUnits \in Nat
         /\ (first + pages) * PageUnits = first * PageUnits + pages * PageUnits
         /\ first * PageUnits + pages * PageUnits <= Top
<1>1. (first + pages) * PageUnits <= MaxPages * PageUnits
  BY SlobAssumption
<1>. QED BY <1>1, SlobAssumption DEF Top

(* alloc_inner begins its first search.                                    *)
LEMMA AllocCallStep ==
  ASSUME NEW S \in SUBSET Units, Inv(S), NEW n \in Requests, AllocCall(n)
  PROVE  Inv(S)'
<1>. USE DEF AllocCall, StartWalk
<1>1. Types'
  <2>1. n # 0 /\ head \in Links
    BY SlobAssumption, Zenon DEF Inv, Types
  <2>2. {head', block', prev', curr'} \subseteq Links
    BY <2>1, TopFacts, Zenon DEF Inv, Types
  <2>. QED BY <2>1, <2>2, Zenon DEF Inv, Types, PCs
<1>2. (Owned \cup InHand)' = Owned \cup InHand
  BY Zenon DEF Owned, InHand
<1>3. Heap(head, mem, S, Owned \cup InHand, GrantedUnits)'
  BY <1>2, Zenon DEF Inv, GrantedUnits
<1>4. Headers'
  BY Zenon DEF Inv, Headers, Owned, InHand
<1>5. Walk(S)'
  BY Zenon DEF Walk, Position
<1>6. SecondSearch(S)'
  BY DEF SecondSearch
<1>. QED BY <1>1, <1>3, <1>4, <1>5, <1>6, Zenon DEF Inv

(* The position of a walk is on the list.                                  *)
LEMMA CurrOnList ==
  ASSUME NEW S \in SUBSET Units, Inv(S), pc \in {"search", "insert"}
  PROVE  /\ Position(head, mem, S, prev, curr)
         /\ curr # None => curr \in S /\ curr \in Units
         /\ prev # None => prev \in S /\ prev \in Units
         /\ prev # None /\ curr # None => prev < curr
<1>1. Position(head, mem, S, prev, curr) /\ ListOf(head, mem, S)
  BY Zenon DEF Inv, Walk, Heap
<1>. QED BY <1>1, Zenon DEF Position, ListOf

(* alloc_inner takes the block at curr, with its header saying want, out   *)
(* of the heap m that it found or split.                                   *)
LEMMA TakeCurr ==
  ASSUME NEW S \in SUBSET Units, Inv(S), pc = "search", curr # None,
         NEW m, NEW R \in SUBSET Units, Heap(head, m, R, Owned, GrantedUnits),
         curr \in R, m[curr].size = want,
         prev # None => prev \in R /\ m[prev].next = curr,
         \A a \in Owned : m[a].size = mem[a].size,
         Link(m, m[curr].next), AllocReturn
  PROVE  \E T \in SUBSET Units : Inv(T)'
<1>1. PICK T : T = R \ {curr}
  BY Zenon
<1>2. curr \in Units /\ want \in Requests /\ prev \in Links
  BY Zenon DEF Inv, Types
<1>3. Position(head, m, R, prev, curr)
  BY CurrOnList, Zenon DEF Position
<1>4. Unlinked(head, m, prev, curr, head', mem')
  BY Zenon DEF Link, Unlinked
<1>5. /\ Heap(head', mem', T, Owned \cup {curr}, GrantedUnits)
      /\ \A a \in Units : mem'[a].size = m[a].size
  <2>1. /\ Heap(head', mem', R \ {curr}, Owned \cup {curr}, GrantedUnits)
        /\ \A a \in Units : mem'[a].size = m[a].size
    BY Unlink, <1>3, <1>4, SMTT(60)
  <2>. QED BY <2>1, <1>1, Zenon
<1>6. (Owned \cup InHand)' = Owned \cup {curr}
  <2>1. InHand' = {} /\ live' = live \cup {[addr |-> curr, len |-> want]}
    BY Zenon DEF AllocReturn, InHand
  <2>2. Owned' = {b.addr : b \in live'}
    BY Zenon DEF Owned
  <2>3. \A x \in Owned \cup {curr} : x \in Owned'
    BY <2>1, <2>2, ZenonT(60) DEF Owned
  <2>4. \A x \in Owned' : x \in Owned \cup {curr}
    BY <2>1, <2>2 DEF Owned
  <2>. QED BY <2>1, <2>3, <2>4, Zenon
<1>7. GrantedUnits' = GrantedUnits
  BY Zenon DEF AllocReturn, GrantedUnits
<1>8. Heap(head, mem, T, Owned \cup InHand, GrantedUnits)'
  BY <1>5, <1>6, <1>7, Zenon
<1>9. Types'
  <2>1. {head', block', prev', curr'} \subseteq Links
    <3>1. head' \in Links
      <4>1. m[curr].next \in Links /\ head \in Links
        BY <1>2, MemFacts, TopFacts, Zenon DEF Heap, Inv, Types
      <4>. QED BY <4>1, <1>4, Zenon DEF Unlinked
    <3>. QED BY <3>1, TopFacts, Zenon DEF AllocReturn, Quiet
  <2>2. live' \subseteq [addr : Units, len : Requests]
    BY <1>2 DEF AllocReturn, Inv, Types
  <2>. QED BY <2>1, <2>2, SlobAssumption, Zenon DEF AllocReturn, Quiet, Inv, Types, PCs
<1>10. Headers'
  <2>1. \A b \in live : b.addr \in Owned /\ b.addr # curr /\ b.addr \in Units
    BY DEF Owned, Heap, Inv, Types
  <2>2. \A b \in live : mem'[b.addr].size = b.len
    BY <2>1, <1>5, Zenon DEF Inv, Headers
  <2>3. mem'[curr].size = want
    BY <1>2, <1>5, Zenon
  <2>4. live' = live \cup {[addr |-> curr, len |-> want]}
    BY Zenon DEF AllocReturn
  <2>5. \A b, c \in live' : b.addr = c.addr => b = c
    BY <2>1, <2>4, SMTT(60) DEF Inv, Headers
  <2>6. \A b \in live' : mem'[b.addr].size = b.len
    BY <2>2, <2>3, <2>4, SMTT(60)
  <2>7. (InHand \cap Owned)' = {}
    BY Zenon DEF AllocReturn, InHand
  <2>. QED BY <2>5, <2>6, <2>7, Zenon DEF Headers
<1>11. Walk(T)' /\ SecondSearch(T)'
  BY Zenon DEF AllocReturn, Walk, SecondSearch
<1>12. T \in SUBSET Units
  BY <1>1, Zenon
<1>. QED BY <1>8, <1>9, <1>10, <1>11, <1>12, Zenon DEF Inv

(* The block found has exactly the size asked for.                         *)
LEMMA ExactFitStep ==
  ASSUME NEW S \in SUBSET Units, Inv(S), ExactFit
  PROVE  \E T \in SUBSET Units : Inv(T)'
<1>1. pc = "search" /\ curr # None /\ mem[curr].size = want /\ Link(mem, mem[curr].next) /\ AllocReturn
  BY Zenon DEF ExactFit
<1>2. Owned \cup InHand = Owned
  BY <1>1, Zenon DEF InHand
<1>3. Heap(head, mem, S, Owned, GrantedUnits)
  BY <1>2, Zenon DEF Inv
<1>4. curr \in S /\ (prev # None => prev \in S /\ mem[prev].next = curr)
  BY <1>1, CurrOnList, Zenon DEF Position
<1>. QED BY <1>1, <1>3, <1>4, TakeCurr, Zenon

(* The block found is split: its left part is taken.                       *)
LEMMA SplitStep ==
  ASSUME NEW S \in SUBSET Units, Inv(S), Split
  PROVE  \E T \in SUBSET Units : Inv(T)'
<1>. DEFINE m == SplitAt(mem, curr, want)
            r == OffsetAddr(curr, want)
<1>1. pc = "search" /\ curr # None /\ mem[curr].size > want + 1 /\ Link(m, r) /\ AllocReturn
  BY Zenon DEF Split
<1>2. Owned \cup InHand = Owned
  BY <1>1, Zenon DEF InHand
<1>3. Heap(head, mem, S, Owned, GrantedUnits)
  BY <1>2, Zenon DEF Inv
<1>4. /\ curr \in S /\ curr \in Units
      /\ prev # None => prev \in S /\ prev \in Units /\ mem[prev].next = curr /\ prev < curr
  BY <1>1, CurrOnList, Zenon DEF Position
<1>5. want \in Nat
  BY SlobAssumption, SMTT(60) DEF Inv, Types
<1>6. /\ r \in Units /\ r > curr /\ r \notin S \cup Owned
      /\ Heap(head, m, S \cup {r}, Owned, GrantedUnits)
      /\ m[curr].size = want /\ m[curr].next = r
      /\ \A a \in Units : a # curr /\ a # r => m[a] = mem[a]
  BY <1>1, <1>3, <1>4, <1>5, SplitHeap
<1>. HIDE DEF m, r
<1>7. PICK R : R = S \cup {r}
  BY Zenon
<1>8. R \in SUBSET Units /\ curr \in R /\ Heap(head, m, R, Owned, GrantedUnits) /\ Link(m, m[curr].next)
  BY <1>1, <1>4, <1>6, <1>7, Zenon
<1>9. prev # None => prev \in R /\ m[prev].next = curr
  BY <1>4, <1>6, <1>7, TopFacts, SMTT(60)
<1>10. \A a \in Owned : m[a].size = mem[a].size
  BY <1>3, <1>4, <1>6, Zenon DEF Heap
<1>. QED BY <1>1, <1>6, <1>8, <1>9, <1>10, TakeCurr, Zenon

(* alloc_inner goes on to the next block.                                  *)
LEMMA SearchNextStep ==
  ASSUME NEW S \in SUBSET Units, Inv(S), SearchNext
  PROVE  Inv(S)'
<1>. USE DEF SearchNext
<1>1. /\ Position(head, mem, S, prev, curr) /\ curr \in S /\ curr \in Units
      /\ prev # None => prev \in S /\ curr = mem[prev].next
  BY CurrOnList, Zenon DEF Position
<1>2. mem \in Mems /\ ListOf(head, mem, S) /\ mem[curr].next \in Links
  BY <1>1, MemFacts, TopFacts, Zenon DEF Inv, Heap
<1>3. Types'
  BY <1>1, <1>2, TopFacts, ZenonT(60) DEF Inv, Types
<1>4. Heap(head, mem, S, Owned \cup InHand, GrantedUnits)'
  <2>1. (Owned \cup InHand)' = Owned \cup InHand /\ GrantedUnits' = GrantedUnits
    BY Zenon DEF Owned, InHand, GrantedUnits
  <2>. QED BY <2>1, Zenon DEF Inv
<1>5. Headers'
  BY Zenon DEF Inv, Headers, Owned, InHand
<1>6. Walk(S)'
  BY <1>1, TopFacts, Zenon DEF Walk, Position
<1>7. SecondSearch(S)'
  <2>1. \A a \in S : a <= curr => a = curr \/ (prev # None /\ a <= prev)
    <3>1. \A a \in S : a \in Nat
      BY TopFacts, Zenon
    <3>2. CASE prev = None
      BY <3>1, <3>2, <1>1, <1>2, SMTT(60) DEF Position, ListOf
    <3>3. CASE prev # None
      BY <3>1, <3>3, <1>1, <1>2, SMTT(60) DEF ListOf
    <3>. QED BY <3>2, <3>3, Zenon
  <2>2. Missed(curr)
    BY Zenon DEF Missed
  <2>3. \A a \in S : Missed(a)' <=> Missed(a)
    BY Zenon DEF Missed
  <2>4. Chunk' = Chunk
    BY Zenon DEF Chunk
  <2>5. round = 2 => \A a \in S : a <= curr => Missed(a)
    BY <2>1, <2>2, Zenon DEF Inv, SecondSearch
  <2>6. round = 2 => \E a \in S : mem[a].size >= Chunk - 1
    BY Zenon DEF Inv, SecondSearch
  <2>. QED BY <2>3, <2>4, <2>5, <2>6, Zenon DEF SecondSearch
<1>. QED BY <1>3, <1>4, <1>5, <1>6, <1>7, Zenon DEF Inv

(* PhysAllocator::alloc panics.                                            *)
LEMMA OutOfMemoryStep ==
  ASSUME NEW S \in SUBSET Units, Inv(S), OutOfMemory
  PROVE  Inv(S)'
<1>. USE DEF OutOfMemory
<1>1. Types'
  BY Zenon DEF Inv, Types, PCs
<1>2. Heap(head, mem, S, Owned \cup InHand, GrantedUnits)'
  <2>1. (Owned \cup InHand)' = Owned \cup InHand /\ GrantedUnits' = GrantedUnits
    BY Zenon DEF Owned, InHand, GrantedUnits
  <2>. QED BY <2>1, Zenon DEF Inv
<1>3. Headers'
  BY Zenon DEF Inv, Headers, Owned, InHand
<1>4. Walk(S)' /\ SecondSearch(S)'
  BY Zenon DEF Walk, SecondSearch
<1>. QED BY <1>1, <1>2, <1>3, <1>4, Zenon DEF Inv

(* A search that passed every block of the list fails the second time only *)
(* if one header is left of the chunk.                                     *)
LEMMA SecondSearchFails ==
  ASSUME NEW S \in SUBSET Units, Inv(S), pc = "search", curr = None, round = 2
  PROVE  Chunk = want + 2
<1>1. PICK a \in S : mem[a].size >= Chunk - 1
  BY Zenon DEF Inv, SecondSearch
<1>2. Position(head, mem, S, prev, curr) /\ ListOf(head, mem, S)
  BY CurrOnList, Zenon DEF Inv, Heap
<1>3. prev # None /\ prev \in S /\ mem[prev].next = None
  BY <1>1, <1>2, Zenon DEF Position, ListOf
<1>4. a <= prev
  BY <1>2, <1>3, Zenon DEF ListOf
<1>5. Missed(a)
  BY <1>3, <1>4, Zenon DEF Inv, SecondSearch
<1>6. want \in Nat /\ mem[a].size \in Nat
  BY SlobAssumption, MemFacts, Zenon DEF Inv, Types, Heap
<1>7. Chunk \in Nat /\ Chunk >= want + 2
  BY <1>6, ChunkFacts, Zenon DEF Chunk
<1>. QED BY <1>1, <1>5, <1>6, <1>7, SMTT(60) DEF Missed

(* morecore gets pages and dealloc_inner begins with them.                 *)
LEMMA MorecoreStep ==
  ASSUME NEW S \in SUBSET Units, Inv(S), Morecore
  PROVE  Inv(S)'
<1>1. /\ pc = "search" /\ curr = None /\ pc' = "insert" /\ head' = head
      /\ prev' = None /\ curr' = head /\ UNCHANGED <<live, relinked, want, round>>
  BY Zenon DEF Morecore, StartWalk
<1>. DEFINE pages == NumPages(want)
<1>2. PICK first \in 0..(MaxPages - 1), size \in 1..MaxPages :
        /\ IsPhysAlloc(first, size, pages)
        /\ granted' = granted \cup {[first |-> first, size |-> size, pages |-> pages]}
        /\ block' = first * PageUnits
        /\ mem' = [mem EXCEPT ![block'] = [size |-> pages * PageUnits - 1, next |-> None]]
  BY Zenon DEF Morecore
<1>3. want \in Nat /\ want # 0 /\ round \in {1, 2}
  BY <1>1, SlobAssumption, Zenon DEF Inv, Types
<1>4. /\ pages \in Nat /\ pages >= 1 /\ pages * PageUnits \in Nat /\ pages * PageUnits >= want + 2
      /\ pages * PageUnits = Chunk
  BY <1>3, ChunkFacts, Zenon DEF Chunk
<1>5. pages <= size /\ first + size <= MaxPages /\ first \in Nat /\ size \in Nat
  BY <1>2, SMTT(60) DEF IsPhysAlloc, IsNextPowerOfTwo
<1>. DEFINE b == first * PageUnits
            k == pages * PageUnits - 1
<1>6. /\ b \in Nat /\ k \in Nat /\ b + k < Top /\ b \in Units
      /\ (first + pages) * PageUnits = b + k + 1
  <2>1. /\ b \in Nat /\ (first + pages) * PageUnits = b + pages * PageUnits
        /\ b + pages * PageUnits <= Top
    <3>. HIDE DEF pages
    <3>1. first + pages <= MaxPages
      BY <1>4, <1>5, SlobAssumption
    <3>. QED BY <3>1, <1>4, <1>5, GrantedInHeap, Zenon
  <2>2. ASSUME NEW z \in Nat, z = pages * PageUnits
        PROVE  k \in Nat /\ b + k < Top /\ b + z = b + k + 1
    <3>1. k = z - 1 /\ z >= 2 /\ b + z <= Top /\ b \in Nat
      BY <2>1, <2>2, <1>3, <1>4
    <3>. HIDE DEF k, b, pages
    <3>. QED BY <3>1, TopFacts
  <2>3. b \in Units
    <3>1. b < Top
      BY <2>1, <2>2, <1>4, TopFacts
    <3>. QED BY <3>1, <2>1, TopFacts, SMTT(60)
  <2>. QED BY <2>1, <2>2, <2>3, <1>4, Zenon
<1>7. GrantedUnits' = GrantedUnits \cup (b..(b + k))
  <2>. DEFINE F(g) == (g.first * PageUnits)..((g.first + g.pages) * PageUnits - 1)
              g0 == [first |-> first, size |-> size, pages |-> pages]
  <2>1. F(g0) = b..(b + k)
    <3>1. F(g0) = b..((first + pages) * PageUnits - 1)
      BY Zenon
    <3>2. (first + pages) * PageUnits - 1 = b + k
      <4>. HIDE DEF b, k
      <4>. QED BY <1>6
    <3>. QED BY <3>1, <3>2, Zenon
  <2>2. GrantedUnits = UNION {F(g) : g \in granted} /\ GrantedUnits' = UNION {F(g) : g \in granted'}
    BY Zenon DEF GrantedUnits
  <2>3. granted' = granted \cup {g0}
    BY <1>2, Zenon
  <2>. HIDE DEF F, g0
  <2>. QED BY <2>1, <2>2, <2>3, Zenon
<1>8. \A u \in b..(b + k) : u \notin GrantedUnits
  <2>. SUFFICES ASSUME NEW u \in b..(b + k), NEW g \in granted,
                       u \in (g.first * PageUnits)..((g.first + g.pages) * PageUnits - 1)
                PROVE  FALSE
    BY Zenon DEF GrantedUnits
  <2>1. /\ g.first \in Nat /\ g.size \in Nat /\ g.pages \in Nat /\ g.pages <= g.size
        /\ g.first + g.size <= MaxPages
    BY Zenon DEF Inv, Types
  <2>2. first + size <= g.first \/ g.first + g.size <= first
    BY <1>2, Zenon DEF IsPhysAlloc
  <2>. HIDE DEF pages
  <2>3. first + pages <= g.first \/ g.first + g.pages <= first
    BY <2>1, <2>2, <1>4, <1>5, SMTT(60)
  <2>4. (first + pages) * PageUnits <= g.first * PageUnits \/ (g.first + g.pages) * PageUnits <= first * PageUnits
    BY <2>1, <2>3, <1>4, <1>5, SlobAssumption, SMTT(60)
  <2>5. /\ g.first * PageUnits \in Nat /\ (g.first + g.pages) * PageUnits \in Nat
        /\ (first + pages) * PageUnits \in Nat
    BY <2>1, <1>4, <1>5, SlobAssumption, SMTT(60)
  <2>. HIDE DEF b, k
  <2>6. (first + pages) * PageUnits = b + k + 1 /\ b = first * PageUnits /\ b \in Nat /\ k \in Nat
    BY <1>6, Zenon DEF b
  <2>. QED BY <2>4, <2>5, <2>6
<1>9. Grown(mem, b, k, mem')
  BY <1>2, Zenon DEF Grown
<1>. DEFINE e == b + k
<1>. HIDE DEF b, k, e
<1>10. Owned \cup InHand = Owned /\ Owned' = Owned /\ InHand' = {b}
  BY <1>1, <1>2, Zenon DEF InHand, Owned, b
<1>11. Heap(head, mem, S, Owned, GrantedUnits)
  BY <1>10, Zenon DEF Inv
<1>12. /\ b \notin S \cup Owned
       /\ Heap(head, mem', S, Owned \cup {b}, GrantedUnits \cup (b..e))
       /\ mem'[b].size = k /\ \A a \in Units : a # b => mem'[a] = mem[a]
  <2>1. b \in Units /\ k \in Nat /\ e = b + k /\ e < Top
    BY <1>6, Zenon DEF e
  <2>2. (b..e) \cap GrantedUnits = {}
    BY <1>8, Zenon DEF e
  <2>3. Growing(head, mem, S, Owned, GrantedUnits, b, k, e, mem')
    BY <2>1, <2>2, <1>9, <1>11, Zenon DEF Growing
  <2>4. GrownHeap(head, mem, S, Owned, GrantedUnits, b, k, e, mem')
    BY <2>3, GrowHeap, Zenon
  <2>. QED BY <2>4, Zenon DEF GrownHeap
<1>13. Heap(head, mem, S, Owned \cup InHand, GrantedUnits)'
  BY <1>1, <1>7, <1>10, <1>12, Zenon DEF e
<1>14. Types'
  <2>1. {head', block', prev', curr'} \subseteq Links /\ block' \in Units
    BY <1>1, <1>2, <1>6, TopFacts, Zenon DEF Inv, Types, b
  <2>2. /\ granted' \subseteq [first : Nat, size : Nat, pages : Nat]
        /\ \A g \in granted' : g.pages <= g.size /\ g.first + g.size <= MaxPages
    BY <1>2, <1>4, <1>5 DEF Inv, Types
  <2>. QED BY <2>1, <2>2, <1>1, <1>3, Zenon DEF Inv, Types, PCs
<1>15. Headers'
  <2>1. \A c \in live : c.addr \in Owned /\ c.addr \in Units
    BY Zenon DEF Owned, Inv, Types
  <2>2. \A c \in live : mem'[c.addr].size = c.len
    BY <2>1, <1>12, Zenon DEF Inv, Headers
  <2>. QED BY <2>2, <1>1, <1>10, <1>12, Zenon DEF Inv, Headers
<1>16. Walk(S)'
  BY <1>1, Zenon DEF Walk, Position
<1>17. SecondSearch(S)'
  <2>1. Chunk' = Chunk /\ mem'[block'].size = Chunk - 1 /\ Chunk \in Nat
    BY <1>1, <1>2, <1>4, <1>12, Zenon DEF Chunk, b, k
  <2>2. round = 2 => Chunk = want + 2
    BY <1>1, SecondSearchFails, Zenon
  <2>. QED BY <2>1, <2>2, <1>1, SMTT(60) DEF SecondSearch
<1>. QED BY <1>13, <1>14, <1>15, <1>16, <1>17, Zenon DEF Inv

(* dealloc_inner begins with a block its owner gives back.                 *)
LEMMA DeallocCallStep ==
  ASSUME NEW S \in SUBSET Units, Inv(S), NEW b \in live, DeallocCall(b)
  PROVE  Inv(S)'
<1>. USE DEF DeallocCall, StartWalk
<1>1. b.addr \in Units /\ want = 0 /\ pc = "idle" /\ head \in Links
  BY Zenon DEF Inv, Types
<1>2. Types'
  <2>1. {head', block', prev', curr'} \subseteq Links /\ block' \in Units
    BY <1>1, TopFacts, Zenon
  <2>. QED BY <2>1, <1>1, Zenon DEF Inv, Types, PCs
<1>3. \A c \in live : c.addr = b.addr => c = b
  BY Zenon DEF Inv, Headers
<1>4. InHand = {} /\ InHand' = {b.addr} /\ Owned' = Owned \ {b.addr} /\ b.addr \in Owned
  <2>1. InHand = {} /\ InHand' = {b.addr} /\ b.addr \in Owned
    BY <1>1, Zenon DEF InHand, Owned
  <2>2. \A x \in Owned' : x \in Owned /\ x # b.addr
    BY <1>3, Zenon DEF Owned
  <2>3. \A x \in Owned : x # b.addr => x \in Owned'
    BY Zenon DEF Owned
  <2>. QED BY <2>1, <2>2, <2>3, Zenon
<1>5. Heap(head, mem, S, Owned \cup InHand, GrantedUnits)'
  <2>1. (Owned \cup InHand)' = Owned \cup InHand /\ GrantedUnits' = GrantedUnits
    BY <1>4, Zenon DEF GrantedUnits
  <2>. QED BY <2>1, Zenon DEF Inv
<1>6. Headers'
  <2>1. (InHand \cap Owned)' = {}
    BY <1>4, Zenon
  <2>. QED BY <2>1, Zenon DEF Inv, Headers
<1>7. Walk(S)' /\ SecondSearch(S)'
  BY <1>1, Zenon DEF Walk, Position, SecondSearch
<1>. QED BY <1>2, <1>5, <1>6, <1>7, Zenon DEF Inv

(* The block in hand is apart from the list and from the blocks in use.    *)
LEMMA BlockInHand ==
  ASSUME NEW S \in SUBSET Units, Inv(S), pc = "insert"
  PROVE  /\ InHand = {block} /\ block \in Units /\ block \notin S /\ block \notin Owned
         /\ mem \in Mems /\ Owned \subseteq Units /\ Owned \cap S = {}
         /\ Heap(head, mem, S, Owned \cup {block}, GrantedUnits)
<1>1. InHand = {block}
  BY Zenon DEF InHand
<1>2. block \in Units /\ Heap(head, mem, S, Owned \cup {block}, GrantedUnits) /\ block \notin Owned
  BY <1>1, Zenon DEF Inv, Types, Headers
<1>. QED BY <1>1, <1>2, Zenon DEF Heap

(* dealloc_inner goes on to the next block: never the one in hand.         *)
LEMMA InsertNextStep ==
  ASSUME NEW S \in SUBSET Units, Inv(S), InsertNext
  PROVE  Inv(S)'
<1>. USE DEF InsertNext
<1>1. /\ curr \in S /\ curr \in Units /\ block \in Units /\ block \notin S /\ mem \in Mems
      /\ Heap(head, mem, S, Owned \cup {block}, GrantedUnits)
  BY CurrOnList, BlockInHand, Zenon
<1>2. curr # block /\ curr < block /\ pc' = "insert" /\ mem[curr].next \in Links
  <2>1. curr # block /\ curr \in Nat /\ block \in Nat
    BY <1>1, TopFacts, Zenon
  <2>2. mem[curr].next \in Links
    BY <1>1, MemFacts, TopFacts, Zenon
  <2>. QED BY <2>1, <2>2
<1>3. Types'
  BY <1>1, <1>2, TopFacts, ZenonT(60) DEF Inv, Types
<1>4. (Owned \cup InHand)' = Owned \cup InHand /\ GrantedUnits' = GrantedUnits /\ Owned' = Owned /\ InHand' = InHand
  BY <1>2, Zenon DEF Owned, InHand, GrantedUnits
<1>5. Heap(head, mem, S, Owned \cup InHand, GrantedUnits)'
  BY <1>4, Zenon DEF Inv
<1>6. Headers'
  BY <1>4, Zenon DEF Inv, Headers
<1>7. Walk(S)'
  BY <1>1, <1>2, TopFacts, Zenon DEF Walk, Position
<1>8. SecondSearch(S)'
  BY <1>2, Zenon DEF Inv, SecondSearch, Chunk
<1>. QED BY <1>3, <1>5, <1>6, <1>7, <1>8, Zenon DEF Inv

(* dealloc_inner returns with its block on the list, alone or merged.      *)
LEMMA InsertDoneStep ==
  ASSUME NEW S \in SUBSET Units, Inv(S), pc = "insert", InsertDone,
         UNCHANGED <<granted, live>>,
         NEW T \in SUBSET Units, Heap(head', mem', T, Owned, GrantedUnits),
         \A a \in Owned : mem'[a].size = mem[a].size,
         \E a \in T : mem'[a].size >= mem[block].size
  PROVE  Inv(T)'
<1>. USE DEF InsertDone, StartWalk, Quiet
<1>1. head' \in Links
  BY TopFacts, Zenon DEF Heap, ListOf
<1>2. want \in Requests \cup {0} /\ (want # 0 => round \in {1, 2})
  BY Zenon DEF Inv, Types
<1>3. pc' \in {"idle", "unreachable", "search"} /\ want' = want
  BY <1>2, Zenon
<1>4. Types'
  <2>1. {head', block', prev', curr'} \subseteq Links
    BY <1>1, TopFacts, Zenon DEF Inv, Types
  <2>2. pc' = "search" => want # 0 /\ round' \in {1, 2}
    BY <1>2, SMTT(60)
  <2>3. pc' = "idle" => want = 0
    BY Zenon
  <2>. QED BY <2>1, <2>2, <2>3, <1>3, Zenon DEF Inv, Types, PCs
<1>5. InHand' = {} /\ Owned' = Owned /\ GrantedUnits' = GrantedUnits
  BY <1>3, Zenon DEF InHand, Owned, GrantedUnits
<1>6. Heap(head, mem, T, Owned \cup InHand, GrantedUnits)'
  <2>1. (Owned \cup InHand)' = Owned
    BY <1>5, Zenon
  <2>. QED BY <2>1, <1>5, Zenon
<1>7. Headers'
  <2>1. \A b \in live : b.addr \in Owned
    BY Zenon DEF Owned
  <2>. QED BY <2>1, <1>5, Zenon DEF Inv, Headers
<1>8. Walk(T)'
  BY <1>3, Zenon DEF Walk, Position
<1>9. SecondSearch(T)'
  <2>1. Chunk' = Chunk /\ Chunk \in Nat
    <3>1. want \in Nat
      BY <1>2, SlobAssumption, SMTT(60)
    <3>. QED BY <3>1, <1>3, ChunkFacts, Zenon DEF Chunk
  <2>2. CASE pc' = "search"
    <3>1. round = 1 /\ want # 0 /\ prev' = None
      BY <2>2, <1>2, Zenon
    <3>2. mem[block].size >= Chunk - 1 /\ mem[block].size \in Nat
      BY <3>1, BlockInHand, MemFacts, Zenon DEF Inv, SecondSearch
    <3>3. PICK a \in T : mem'[a].size >= mem[block].size
      BY Zenon
    <3>4. mem'[a].size \in Nat
      BY MemFacts, Zenon DEF Heap
    <3>5. mem'[a].size >= Chunk - 1
      BY <3>2, <3>3, <3>4, <2>1
    <3>. QED BY <3>1, <3>5, <2>1, <2>2, Zenon DEF SecondSearch
  <2>3. CASE pc' = "unreachable"
    <3>1. round = 2 /\ want # 0
      BY <2>3, <1>2, Zenon
    <3>. QED BY <3>1, <2>1, <2>3, <1>3, Zenon DEF Inv, SecondSearch
  <2>4. CASE pc' = "idle"
    BY <2>4, Zenon DEF SecondSearch
  <2>. QED BY <2>2, <2>3, <2>4, <1>3, Zenon
<1>. QED BY <1>4, <1>6, <1>7, <1>8, <1>9, Zenon DEF Inv

(* Rewriting the next field of one header.                                 *)
LEMMA SetNext ==
  ASSUME NEW m \in Mems, NEW a \in Units, NEW n \in Links
  PROVE  /\ [m EXCEPT ![a].next = n] \in Mems
         /\ [m EXCEPT ![a].next = n][a].next = n
         /\ \A x \in Units : [m EXCEPT ![a].next = n][x].size = m[x].size
         /\ \A x \in Units : x # a => [m EXCEPT ![a].next = n][x] = m[x]
<1>. DEFINE r == [m[a] EXCEPT !.next = n]
            m2 == [m EXCEPT ![a].next = n]
<1>1. m[a] \in [size : 0..Top, next : Links] /\ m \in [Units -> [size : 0..Top, next : Links]]
  BY MemFacts, Zenon DEF Mems
<1>2. r \in [size : 0..Top, next : Links] /\ r.next = n /\ r.size = m[a].size
  BY <1>1, Zenon
<1>3. m2 = [m EXCEPT ![a] = r]
  BY Zenon
<1>. HIDE DEF r, m2
<1>4. m2 \in Mems
  BY <1>1, <1>2, <1>3, Zenon DEF Mems
<1>5. m2[a] = r /\ \A x \in Units : x # a => m2[x] = m[x]
  BY <1>1, <1>3, Zenon
<1>6. m2[a].next = n /\ \A x \in Units : m2[x].size = m[x].size
  BY <1>2, <1>5, Zenon
<1>. QED BY <1>4, <1>5, <1>6, Zenon DEF m2

(* dealloc_inner puts its block before curr, and merges what is adjacent.  *)
LEMMA InsertBeforeStep ==
  ASSUME NEW S \in SUBSET Units, Inv(S), InsertBefore
  PROVE  \E T \in SUBSET Units : Inv(T)'
<1>. DEFINE m == [mem EXCEPT ![block].next = curr]
            m1 == IF prev = None THEN m ELSE [m EXCEPT ![prev].next = block]
            merge == prev # None /\ Mergeable(m, prev, block)
            m2 == IF prev = None THEN m ELSE TryMerge(m1, prev, block)
            x == IF merge THEN prev ELSE block
            h2 == IF prev = None THEN block ELSE head
<1>1. /\ pc = "insert" /\ curr # None /\ curr > block
      /\ head' = h2 /\ mem' = TryMerge(m2, x, curr)
      /\ InsertDone /\ UNCHANGED <<granted, live, relinked>>
  BY DEF InsertBefore
<1>2. /\ block \in Units /\ block \notin S /\ block \notin Owned /\ mem \in Mems
      /\ Owned \subseteq Units /\ Owned \cap S = {}
      /\ Heap(head, mem, S, Owned \cup {block}, GrantedUnits)
  BY <1>1, BlockInHand, Zenon
<1>3. /\ Position(head, mem, S, prev, curr) /\ curr \in S /\ curr \in Units
      /\ prev # None => prev \in S /\ prev \in Units /\ prev < block /\ prev # block
  BY <1>1, <1>2, CurrOnList, Zenon DEF Inv, Walk
<1>4. /\ m \in Mems /\ m[block].next = curr
      /\ \A a \in Units : m[a].size = mem[a].size
      /\ \A a \in Units : a # block => m[a] = mem[a]
  BY <1>2, <1>3, SetNext, TopFacts
<1>. HIDE DEF m
<1>5. /\ m1 \in Mems /\ m1[block].next = curr
      /\ prev # None => m1[prev].next = block
      /\ \A a \in Units : m1[a].size = mem[a].size
      /\ \A a \in Units : a # block /\ a # prev => m1[a] = mem[a]
  <2>1. CASE prev = None
    BY <2>1, <1>4, Zenon
  <2>2. CASE prev # None
    <3>1. m1 = [m EXCEPT ![prev].next = block] /\ prev \in Units /\ prev # block /\ block \in Links
      BY <2>2, <1>2, <1>3, TopFacts, Zenon
    <3>2. /\ m1 \in Mems /\ m1[prev].next = block
          /\ \A a \in Units : m1[a].size = m[a].size
          /\ \A a \in Units : a # prev => m1[a] = m[a]
      <4>1. /\ [m EXCEPT ![prev].next = block] \in Mems
            /\ [m EXCEPT ![prev].next = block][prev].next = block
            /\ \A a \in Units : [m EXCEPT ![prev].next = block][a].size = m[a].size
            /\ \A a \in Units : a # prev => [m EXCEPT ![prev].next = block][a] = m[a]
        BY <3>1, <1>2, <1>4, SetNext, SMTT(60)
      <4>. HIDE DEF m1
      <4>. QED BY <3>1, <4>1, Zenon
    <3>. QED BY <3>1, <3>2, <1>2, <1>4, Zenon
  <2>. QED BY <2>1, <2>2, Zenon
<1>. HIDE DEF m1
<1>6. Heap(h2, m1, S \cup {block}, Owned, GrantedUnits)
  <2>1. \A a \in S : a # prev => m1[a].next = mem[a].next
    BY <1>2, <1>5, Zenon
  <2>2. prev # None => prev < block
    BY <1>3, Zenon
  <2>3. curr # None => block < curr
    BY <1>1, <1>2, <1>3, TopFacts, Zenon
  <2>4. /\ prev = None => h2 = block
        /\ prev # None => h2 = head /\ m1[prev].next = block
    BY <1>5, Zenon
  <2>. HIDE DEF h2
  <2>5. Linked(head, mem, S, Owned, GrantedUnits, block, prev, curr, h2, m1)
    BY <2>1, <2>2, <2>3, <2>4, <1>2, <1>3, <1>5, Zenon DEF Linked
  <2>. QED BY <2>5, LinkHeap, Zenon
<1>. HIDE DEF h2
<1>7. merge <=> prev # None /\ Mergeable(m1, prev, block)
  BY <1>3, <1>4, <1>5, Zenon DEF Mergeable
<1>. HIDE DEF merge
<1>8. PICK R : R = IF merge THEN (S \cup {block}) \ {block} ELSE S \cup {block}
  BY Zenon
<1>9. /\ Heap(h2, m2, R, Owned, GrantedUnits)
      /\ x \in R /\ x \in {prev, block} /\ m2[x].next = curr /\ m2[x].size >= mem[block].size
      /\ \A a \in Owned : m2[a].size = mem[a].size
  <2>1. mem[block].size \in Nat /\ m1[block].size = mem[block].size
    BY <1>2, <1>5, MemFacts, Zenon
  <2>2. CASE prev = None
    <3>1. m2 = m1 /\ x = block /\ R = S \cup {block}
      BY <2>2, <1>7, <1>8, Zenon DEF m1
    <3>2. \A a \in Owned : m1[a].size = mem[a].size
      BY <1>2, <1>5, Zenon
    <3>3. m2[x].size >= mem[block].size
      BY <3>1, <2>1
    <3>. QED BY <3>1, <3>2, <3>3, <1>5, <1>6, Zenon
  <2>3. CASE prev # None
    <3>1. /\ m2 = TryMerge(m1, prev, block) /\ block = m1[prev].next /\ block # None /\ prev \in S \cup {block}
          /\ (merge <=> Mergeable(m1, prev, block))
      BY <2>3, <1>2, <1>3, <1>5, <1>7, TopFacts, ZenonT(60)
    <3>. DEFINE R1 == IF Mergeable(m1, prev, block) THEN (S \cup {block}) \ {block} ELSE S \cup {block}
    <3>2. /\ Heap(h2, m2, R1, Owned, GrantedUnits)
          /\ prev \in R1
          /\ Mergeable(m1, prev, block) => m2[prev].next = m1[block].next /\ m2[prev].size >= m1[block].size
          /\ \A a \in Units : a # prev /\ a # block => m2[a] = m1[a]
      <4>. HIDE DEF m2
      <4>1. Neighbours(h2, m1, S \cup {block}, Owned, GrantedUnits, prev, block)
        BY <3>1, <1>6, Zenon DEF Neighbours
      <4>2. Merged(h2, m1, S \cup {block}, Owned, GrantedUnits, prev, block, m2, R1)
        BY <4>1, <3>1, MergeHeap, Zenon
      <4>. QED BY <4>2, Zenon DEF Merged
    <3>3. R1 = R
      BY <3>1, <1>8, Zenon
    <3>4. \A a \in Owned : m2[a].size = mem[a].size
      <4>. HIDE DEF m2
      <4>. QED BY <3>2, <1>2, <1>3, <1>5, ZenonT(60)
    <3>5. CASE merge
      <4>. HIDE DEF m2
      <4>. QED BY <3>1, <3>2, <3>3, <3>4, <3>5, <2>1, <1>5, Zenon
    <3>6. CASE ~merge
      <4>1. m2 = m1 /\ x = block /\ R = S \cup {block}
        BY <3>1, <3>6, <1>8, Zenon DEF TryMerge
      <4>2. m2[x].size >= mem[block].size
        BY <4>1, <2>1
      <4>. QED BY <4>1, <4>2, <3>2, <3>3, <3>4, <1>5, Zenon
    <3>. QED BY <3>5, <3>6, Zenon
  <2>. QED BY <2>2, <2>3, Zenon
<1>. HIDE DEF m2, x
<1>10. PICK T : T = IF Mergeable(m2, x, curr) THEN R \ {curr} ELSE R
  BY Zenon
<1>11. /\ Heap(h2, mem', T, Owned, GrantedUnits)
       /\ x \in T /\ mem'[x].size >= m2[x].size
       /\ \A a \in Units : a # x /\ a # curr => mem'[a] = m2[a]
  <2>1. mem' = TryMerge(m2, x, curr) /\ curr # None
    BY <1>1, Zenon
  <2>2. Neighbours(h2, m2, R, Owned, GrantedUnits, x, curr)
    BY <2>1, <1>9, Zenon DEF Neighbours
  <2>3. Merged(h2, m2, R, Owned, GrantedUnits, x, curr, mem', T)
    BY <2>1, <2>2, <1>10, MergeHeap, Zenon
  <2>. QED BY <2>3, Zenon DEF Merged
<1>12. \A a \in Owned : mem'[a].size = mem[a].size
  <2>1. x \notin Owned
    BY <1>9, Zenon DEF Heap
  <2>. QED BY <2>1, <1>2, <1>3, <1>9, <1>11, Zenon
<1>13. mem'[x].size >= mem[block].size
  <2>1. x \in Units /\ m2 \in Mems /\ mem' \in Mems
    BY <1>9, <1>11, Zenon DEF Heap
  <2>2. mem'[x].size \in Nat /\ m2[x].size \in Nat /\ mem[block].size \in Nat
    BY <2>1, <1>2, MemFacts, Zenon
  <2>. QED BY <2>2, <1>9, <1>11, SMTT(60)
<1>14. T \in SUBSET Units
  BY <1>11, Zenon DEF Heap
<1>15. Heap(head', mem', T, Owned, GrantedUnits)
  BY <1>1, <1>11, Zenon
<1>16. Inv(T)'
  BY <1>1, <1>11, <1>12, <1>13, <1>14, <1>15, InsertDoneStep, Zenon
<1>. QED BY <1>14, <1>16, Zenon

(* dealloc_inner puts its block at the end of the list.  Alone it must not *)
(* have a next of its own: that is what relinked records.                  *)
LEMMA InsertLastStep ==
  ASSUME NEW S \in SUBSET Units, Inv(S), InsertLast, ~relinked'
  PROVE  \E T \in SUBSET Units : Inv(T)'
<1>1. pc = "insert" /\ curr = None /\ InsertDone /\ UNCHANGED <<granted, live>>
  BY Zenon DEF InsertLast
<1>2. /\ block \in Units /\ block \notin S /\ block \notin Owned /\ mem \in Mems
      /\ Owned \subseteq Units /\ Owned \cap S = {}
      /\ Heap(head, mem, S, Owned \cup {block}, GrantedUnits)
  BY <1>1, BlockInHand, Zenon
<1>3. /\ Position(head, mem, S, prev, curr)
      /\ prev # None => prev \in S /\ prev \in Units /\ prev < block /\ prev # block
  BY <1>1, <1>2, CurrOnList, Zenon DEF Inv, Walk
<1>4. mem[block].size \in Nat
  BY <1>2, MemFacts, Zenon
<1>5. CASE prev = None
  <2>1. head' = block /\ mem' = mem /\ mem[block].next = None
    BY <1>5, Zenon DEF InsertLast
  <2>2. Heap(head', mem', S \cup {block}, Owned, GrantedUnits)
    <3>1. \A a \in S : a # prev => mem'[a].next = mem[a].next
      BY <2>1, Zenon
    <3>2. curr # None => block < curr
      BY <1>1, Zenon
    <3>3. Linked(head, mem, S, Owned, GrantedUnits, block, prev, curr, head', mem')
      BY <3>1, <3>2, <2>1, <1>1, <1>2, <1>3, <1>5, Zenon DEF Linked
    <3>. QED BY <3>3, LinkHeap, Zenon
  <2>3. PICK T : T = S \cup {block}
    BY Zenon
  <2>4. T \in SUBSET Units /\ block \in T /\ Heap(head', mem', T, Owned, GrantedUnits)
    BY <2>2, <2>3, <1>2, Zenon
  <2>5. Inv(T)'
    BY <2>1, <2>4, <1>1, <1>4, InsertDoneStep
  <2>. QED BY <2>4, <2>5, Zenon
<1>6. CASE prev # None
  <2>. DEFINE m == [mem EXCEPT ![prev].next = block]
              m1 == [m EXCEPT ![block].next = None]
  <2>1. head' = head /\ mem' = TryMerge(m1, prev, block)
    BY <1>6, Zenon DEF InsertLast
  <2>2. /\ m \in Mems /\ m[prev].next = block
        /\ \A a \in Units : m[a].size = mem[a].size
        /\ \A a \in Units : a # prev => m[a] = mem[a]
    BY <1>2, <1>3, <1>6, SetNext, TopFacts
  <2>. HIDE DEF m
  <2>3. /\ m1 \in Mems /\ m1[block].next = None
        /\ \A a \in Units : m1[a].size = m[a].size
        /\ \A a \in Units : a # block => m1[a] = m[a]
    BY <2>2, <1>2, SetNext, TopFacts, SMTT(60)
  <2>. HIDE DEF m1
  <2>4. Heap(head', m1, S \cup {block}, Owned, GrantedUnits)
    <3>1. \A a \in S : a # prev => m1[a].next = mem[a].next
      BY <2>2, <2>3, <1>2, Zenon
    <3>2. \A a \in Units : m1[a].size = mem[a].size
      BY <2>2, <2>3, Zenon
    <3>3. m1[prev].next = block
      BY <2>2, <2>3, <1>3, <1>6, Zenon
    <3>4. Linked(head, mem, S, Owned, GrantedUnits, block, prev, curr, head', m1)
      BY <3>1, <3>2, <3>3, <2>1, <2>3, <1>1, <1>2, <1>3, <1>6, Zenon DEF Linked
    <3>. QED BY <3>4, LinkHeap, Zenon
  <2>5. PICK T : T = IF Mergeable(m1, prev, block) THEN (S \cup {block}) \ {block} ELSE S \cup {block}
    BY Zenon
  <2>6. m1[prev].next = block /\ block # None /\ prev \in S \cup {block}
    BY <2>2, <2>3, <1>2, <1>3, <1>6, TopFacts, Zenon
  <2>7. /\ Heap(head', mem', T, Owned, GrantedUnits) /\ prev \in T
        /\ Mergeable(m1, prev, block) => mem'[prev].size >= m1[block].size
        /\ \A a \in Units : a # prev /\ a # block => mem'[a] = m1[a]
    <3>1. Neighbours(head', m1, S \cup {block}, Owned, GrantedUnits, prev, block)
      BY <2>4, <2>6, Zenon DEF Neighbours
    <3>2. Merged(head', m1, S \cup {block}, Owned, GrantedUnits, prev, block, mem', T)
      BY <2>1, <2>5, <3>1, MergeHeap, Zenon
    <3>. QED BY <3>2, Zenon DEF Merged
  <2>8. \A a \in Owned : mem'[a].size = mem[a].size
    BY <2>2, <2>3, <2>7, <1>2, <1>3, <1>6, Zenon
  <2>9. m1[block].size = mem[block].size
    BY <2>2, <2>3, <1>2, Zenon
  <2>10. \E a \in T : mem'[a].size >= mem[block].size
    <3>1. CASE Mergeable(m1, prev, block)
      BY <3>1, <2>7, <2>9, Zenon
    <3>2. CASE ~Mergeable(m1, prev, block)
      <4>1. mem' = m1 /\ block \in T
        BY <3>2, <2>1, <2>5, Zenon DEF TryMerge
      <4>. QED BY <4>1, <2>9, <1>4, SMTT(60)
    <3>. QED BY <3>1, <3>2, Zenon
  <2>11. T \in SUBSET Units
    BY <2>7, Zenon DEF Heap
  <2>12. Inv(T)'
    BY <2>7, <2>8, <2>10, <2>11, <1>1, InsertDoneStep, Zenon
  <2>. QED BY <2>11, <2>12, Zenon
<1>. QED BY <1>5, <1>6, Zenon

-----------------------------------------------------------------------------
(* The theorems *)

(* The empty heap satisfies the invariant with the empty list.             *)
LEMMA InitInv == Init => IInv
<1>. SUFFICES ASSUME Init PROVE Inv({})
  BY Zenon DEF IInv
<1>. USE DEF Init
<1>1. GrantedUnits = {} /\ Owned = {} /\ InHand = {}
  BY Zenon DEF GrantedUnits, Owned, InHand
<1>2. Types
  BY TopFacts, Zenon DEF Types, PCs
<1>3. mem \in Mems
  <2>1. NoHeader \in [size : 0..Top, next : Links]
    BY TopFacts, SMTT(60) DEF NoHeader
  <2>. QED BY <2>1, Zenon DEF Mems
<1>4. Heap(head, mem, {}, Owned \cup InHand, GrantedUnits)
  BY <1>1, <1>3, Zenon DEF Heap, ListOf, Tiles
<1>5. Headers /\ Walk({}) /\ SecondSearch({})
  BY <1>1, Zenon DEF Headers, Walk, SecondSearch
<1>. QED BY <1>2, <1>4, <1>5, Zenon DEF Inv

(* relinked is never reset.                                                *)
LEMMA RelinkedStays == Next /\ ~relinked' => ~relinked
BY Zenon DEF Next, AllocCall, ExactFit, Split, SearchNext, Morecore, OutOfMemory, DeallocCall,
       InsertNext, InsertBefore, InsertLast, AllocReturn

(* The invariant is inductive.                                             *)
LEMMA StepInv == IInv /\ [Next]_vars => IInv'
<1>. SUFFICES ASSUME IInv, [Next]_vars, ~relinked'
              PROVE  \E T \in SUBSET Units : Inv(T)'
  BY Zenon DEF IInv
<1>1. CASE UNCHANGED vars
  <2>1. PICK S \in SUBSET Units : Inv(S)
    BY <1>1, Zenon DEF IInv, vars
  <2>2. Inv(S)'
    BY <1>1, <2>1, ZenonT(60) DEF vars, Inv, Types, Heap, ListOf, Tiles, Headers, Walk, Position, SecondSearch,
       Owned, InHand, GrantedUnits, Chunk, Missed
  <2>. QED BY <2>2, Zenon
<1>2. CASE Next
  <2>1. PICK S \in SUBSET Units : Inv(S)
    BY <1>2, RelinkedStays, Zenon DEF IInv
  <2>2. ASSUME NEW n \in Requests, AllocCall(n) PROVE \E T \in SUBSET Units : Inv(T)'
    BY <2>1, <2>2, AllocCallStep, Zenon
  <2>3. CASE ExactFit
    BY <2>1, <2>3, ExactFitStep, Zenon
  <2>4. CASE Split
    BY <2>1, <2>4, SplitStep, Zenon
  <2>5. CASE SearchNext
    BY <2>1, <2>5, SearchNextStep, Zenon
  <2>6. CASE Morecore
    BY <2>1, <2>6, MorecoreStep, Zenon
  <2>7. CASE OutOfMemory
    BY <2>1, <2>7, OutOfMemoryStep, Zenon
  <2>8. ASSUME NEW b \in live, DeallocCall(b) PROVE \E T \in SUBSET Units : Inv(T)'
    BY <2>1, <2>8, DeallocCallStep, Zenon
  <2>9. CASE InsertNext
    BY <2>1, <2>9, InsertNextStep, Zenon
  <2>10. CASE InsertBefore
    BY <2>1, <2>10, InsertBeforeStep, Zenon
  <2>11. CASE InsertLast
    BY <2>1, <2>11, InsertLastStep, Zenon
  <2>. QED BY <1>2, <2>2, <2>3, <2>4, <2>5, <2>6, <2>7, <2>8, <2>9, <2>10, <2>11, Zenon DEF Next
<1>. QED BY <1>1, <1>2, Zenon

(* The inductive invariant holds in every state.                           *)
THEOREM HeapInvariant == Spec => []IInv
BY InitInv, StepInv, PTL DEF Spec

(* Every header and every link has its type, and dealloc_inner's assertion *)
(* against double frees holds, until a block was linked with a next of its *)
(* own.                                                                    *)
THEOREM HeapTyped == Spec => [](~relinked => TypeOK /\ NoDoubleFree)
<1>1. IInv => (~relinked => TypeOK /\ NoDoubleFree)
  <2>. SUFFICES ASSUME NEW S \in SUBSET Units, Inv(S)
                PROVE  TypeOK /\ NoDoubleFree
    BY Zenon DEF IInv
  <2>. QED BY Zenon DEF Inv, Types, Heap, Mems, Top, TypeOK, NoDoubleFree, PCs
<1>. QED BY <1>1, HeapInvariant, PTL

(* The header of a block in use keeps the length that dealloc_inner will   *)
(* read.                                                                   *)
THEOREM HeadersIntact == Spec => []HeaderIntact
<1>1. IInv => HeaderIntact
  BY Zenon DEF IInv, Inv, Headers, HeaderIntact
<1>. QED BY <1>1, HeapInvariant, PTL

(* alloc_inner meets unreachable!() only for a length that leaves exactly  *)
(* one header of the chunk it asked for.                                   *)
THEOREM UnreachableOnlyOneHeader == Spec => []SecondSearchMissesOnlyOneHeader
<1>1. IInv => SecondSearchMissesOnlyOneHeader
  BY Zenon DEF IInv, Inv, SecondSearch, Chunk, SecondSearchMissesOnlyOneHeader
<1>. QED BY <1>1, HeapInvariant, PTL

-----------------------------------------------------------------------------
(* The recursive definition of the blocks of the list *)
INSTANCE FiniteSetTheorems

(* T holds, with a block, the next block of its list.                      *)
Closed(T) == \A x \in T : x \in Units /\ mem[x].next > x => mem[x].next \in T

(* The blocks in every closed set that contains a.                         *)
Reach(a) == {b \in Units : \A T \in SUBSET Links : a \in T /\ Closed(T) => b \in T}

(* The recursion that defines Ascending has a solution, Reach.             *)
LEMMA AscendingEquation ==
  ASSUME mem \in Mems
  PROVE  \A a \in Links :
           Ascending[a] = IF a = None THEN {}
                          ELSE {a} \cup (IF mem[a].next > a THEN Ascending[mem[a].next] ELSE {})
<1>. DEFINE Eq(f) == f = [a \in Links |-> IF a = None THEN {}
                                          ELSE {a} \cup (IF mem[a].next > a THEN f[mem[a].next] ELSE {})]
            g == [a \in Links |-> Reach(a)]
<1>1. \A a \in Units : mem[a].next \in Links /\ a \in Nat /\ a \in Links /\ a # None
  BY MemFacts, TopFacts, Zenon
<1>2. Reach(None) = {}
  <2>1. {None} \in SUBSET Links /\ Closed({None}) /\ None \notin Units
    BY TopFacts, Zenon DEF Closed
  <2>. QED BY <2>1, Zenon DEF Reach
<1>3. ASSUME NEW a \in Units, ~(mem[a].next > a)
      PROVE  Reach(a) = {a}
  <2>1. {a} \in SUBSET Links /\ Closed({a})
    BY <1>1, <1>3, Zenon DEF Closed
  <2>. QED BY <2>1, <1>1, Zenon DEF Reach
<1>4. ASSUME NEW a \in Units, mem[a].next > a
      PROVE  Reach(a) = {a} \cup Reach(mem[a].next)
  <2>. DEFINE n == mem[a].next
  <2>1. Reach(n) \subseteq Reach(a)
    BY <1>4, Zenon DEF Reach, Closed
  <2>2. a \in Reach(a)
    BY Zenon DEF Reach
  <2>3. ASSUME NEW b \in Reach(a), b # a, b \notin Reach(n)
        PROVE  FALSE
    <3>1. b \in Units
      BY Zenon DEF Reach
    <3>2. PICK T \in SUBSET Links : n \in T /\ Closed(T) /\ b \notin T
      BY <2>3, <3>1, Zenon DEF Reach
    <3>3. T \cup {a} \in SUBSET Links /\ Closed(T \cup {a}) /\ a \in T \cup {a}
      BY <3>2, <1>1, Zenon DEF Closed
    <3>4. b \in T \cup {a}
      BY <3>3, Zenon DEF Reach
    <3>. QED BY <3>2, <3>4, <2>3, Zenon
  <2>. QED BY <2>1, <2>2, <2>3, Zenon
<1>5. Eq(g)
  <2>1. ASSUME NEW a \in Links
        PROVE  Reach(a) = IF a = None THEN {}
                          ELSE {a} \cup (IF mem[a].next > a THEN g[mem[a].next] ELSE {})
    <3>1. CASE a = None
      BY <3>1, <1>2, Zenon
    <3>2. CASE a # None
      <4>1. a \in Units
        BY <3>2, TopFacts, Zenon
      <4>2. g[mem[a].next] = Reach(mem[a].next)
        BY <4>1, <1>1, Zenon
      <4>. HIDE DEF g
      <4>. QED BY <3>2, <4>1, <4>2, <1>3, <1>4, Zenon
    <3>. QED BY <3>1, <3>2, Zenon
  <2>. QED BY <2>1, Zenon
<1>6. Ascending = CHOOSE f : Eq(f)
  BY Zenon DEF Ascending
<1>. HIDE DEF g
<1>7. Eq(CHOOSE f : Eq(f))
  <2>. HIDE DEF Eq
  <2>. QED BY <1>5, Zenon
<1>8. Eq(Ascending)
  <2>. HIDE DEF Eq
  <2>. QED BY <1>6, <1>7, Zenon
<1>. QED BY <1>8, Zenon

(* A non-empty set of units has a largest one.                             *)
LEMMA LargestUnit ==
  ASSUME NEW T \in SUBSET Units, T # {}
  PROVE  \E x \in T : \A y \in T : y <= x
<1>. DEFINE D == {Top - x : x \in T}
<1>1. D \subseteq Nat /\ D # {} /\ \A x \in T : x \in Nat
  <2>1. \A x \in T : x \in Units /\ x \in Nat /\ x < Top /\ Top \in Nat
    BY TopFacts, Zenon
  <2>2. \A x \in T : Top - x \in Nat
    BY <2>1
  <2>. QED BY <2>1, <2>2, Zenon
<1>2. PICK d \in D : \A y \in D : ~(<<y, d>> \in OpToRel(<, Nat))
  <2>. HIDE DEF D
  <2>. QED BY <1>1, WFMin, NatLessThanWellFounded, Zenon
<1>3. PICK x \in T : d = Top - x
  BY Zenon
<1>4. \A y \in T : ~(Top - y < Top - x)
  <2>. TAKE y \in T
  <2>1. Top - y \in D /\ Top - y \in Nat /\ d \in Nat
    BY <1>1, Zenon
  <2>2. ~(<<Top - y, d>> \in OpToRel(<, Nat))
    BY <1>2, <2>1, Zenon
  <2>. QED BY <2>1, <2>2, <1>3, Zenon DEF OpToRel
<1>5. \A y \in T : y <= x
  BY <1>1, <1>4, TopFacts
<1>. QED BY <1>5, Zenon

(* The blocks that Ascending finds from head are those of the list.        *)
LEMMA AscendingIsList ==
  ASSUME NEW S, mem \in Mems, ListOf(head, mem, S)
  PROVE  head \in Links /\ Ascending[head] = S
<1>. DEFINE Tail_(a) == {c \in S : a <= c}
            Bad == {a \in S : Ascending[a] # Tail_(a)}
<1>1. \A a \in S : a \in Units /\ a \in Links /\ a \in Nat /\ a # None
  BY TopFacts, Zenon DEF ListOf
<1>2. Bad = {}
  <2>. SUFFICES ASSUME Bad # {} PROVE FALSE
    BY Zenon
  <2>1. PICK a \in Bad : \A y \in Bad : y <= a
    BY LargestUnit, <1>1, Zenon
  <2>. DEFINE n == mem[a].next
  <2>2. a \in S /\ Ascending[a] # Tail_(a)
    BY <2>1, Zenon
  <2>3. /\ n = None => \A c \in S : c <= a
        /\ n # None => n \in S /\ n > a /\ \A c \in S : c <= a \/ n <= c
    BY <2>2, Zenon DEF ListOf
  <2>4. Ascending[a] = {a} \cup (IF n > a THEN Ascending[n] ELSE {})
    BY <2>2, <1>1, AscendingEquation, Zenon
  <2>5. CASE n = None
    <3>1. ~(n > a) /\ Tail_(a) = {a}
      BY <2>2, <2>3, <2>5, <1>1, TopFacts
    <3>. QED BY <3>1, <2>2, <2>4, Zenon
  <2>6. CASE n # None
    <3>1. n \in S /\ n > a /\ n \notin Bad
      BY <2>1, <2>2, <2>3, <2>6, <1>1
    <3>2. Ascending[n] = Tail_(n)
      BY <3>1, Zenon
    <3>3. Tail_(a) = {a} \cup Tail_(n)
      BY <2>2, <2>3, <2>6, <3>1, <1>1
    <3>. QED BY <3>1, <3>2, <3>3, <2>2, <2>4, Zenon
  <2>. QED BY <2>5, <2>6, Zenon
<1>3. CASE head = None
  BY <1>3, AscendingEquation, TopFacts, Zenon DEF ListOf
<1>4. CASE head # None
  <2>1. head \in S /\ \A a \in S : head <= a
    BY <1>4, Zenon DEF ListOf
  <2>2. Ascending[head] = Tail_(head)
    BY <1>2, <2>1, Zenon
  <2>. QED BY <2>1, <2>2, <1>1, Zenon
<1>. QED BY <1>3, <1>4, Zenon

(* The free list is sorted after every step of every walk: it never has a  *)
(* cycle.                                                                  *)
THEOREM ListSorted == Spec => []FreeListSorted
<1>1. IInv => FreeListSorted
  <2>. SUFFICES ASSUME NEW S \in SUBSET Units, Inv(S)
                PROVE  \A a \in Ascending[head] : mem[a].next = None \/ mem[a].next > a
    BY Zenon DEF IInv, FreeListSorted
  <2>1. Ascending[head] = S /\ ListOf(head, mem, S)
    BY AscendingIsList, Zenon DEF Inv, Heap
  <2>. QED BY <2>1, Zenon DEF ListOf
<1>. QED BY <1>1, HeapInvariant, PTL

(* Between two calls the blocks in use and the free blocks cover every     *)
(* granted unit exactly once, and no other unit.                           *)
THEOREM HeapTiled == Spec => []Tiled
<1>1. IInv => Tiled
  <2>. SUFFICES ASSUME NEW S \in SUBSET Units, Inv(S), pc = "idle", NEW u \in Units
                PROVE  Cardinality({b \in live : Covers(b, u)})
                         + Cardinality({b \in FreeBlocks : Covers(b, u)})
                         = IF u \in GrantedUnits THEN 1 ELSE 0
    BY Zenon DEF IInv, Tiled
  <2>. DEFINE L == {b \in live : Covers(b, u)}
              F == {b \in FreeBlocks : Covers(b, u)}
              B == S \cup Owned
              Free(a) == [addr |-> a, len |-> mem[a].size]
  <2>1. Heap(head, mem, S, Owned, GrantedUnits)
    <3>1. Owned \cup InHand = Owned
      BY Zenon DEF InHand
    <3>. QED BY <3>1, Zenon DEF Inv
  <2>2. FreeBlocks = {Free(a) : a \in S}
    BY <2>1, AscendingIsList, Zenon DEF FreeBlocks, Heap
  <2>3. \A a \in B : a \in Nat /\ mem[a].size \in Nat
    BY <2>1, EndFacts, TopFacts, Zenon
  <2>4. \A b \in live : /\ b.addr \in Owned /\ b.len = mem[b.addr].size
                        /\ \A c \in live : c.addr = b.addr => c = b
    BY Zenon DEF Owned, Inv, Headers
  <2>4a. u \in Nat
    BY TopFacts, Zenon
  <2>5. \A b \in live : Covers(b, u) <=> b.addr <= u /\ u <= b.addr + mem[b.addr].size
    <3>. TAKE b \in live
    <3>1. b.addr \in Nat /\ b.len \in Nat /\ b.len = mem[b.addr].size
      BY <2>3, <2>4, Zenon
    <3>. QED BY <3>1, <2>4a, SMTT(60) DEF Covers, OffsetAddr
  <2>6. \A a \in S : Covers(Free(a), u) <=> a <= u /\ u <= a + mem[a].size
    BY <2>3, TopFacts, SMTT(60) DEF Covers, OffsetAddr
  <2>7. \A a, c \in B : a <= u /\ u <= a + mem[a].size /\ c <= u /\ u <= c + mem[c].size => a = c
    <3>1. \A a, c \in B : a < c => a + mem[a].size + 1 <= c
      BY <2>1, Zenon DEF Heap, Tiles, OffsetAddr
    <3>2. ASSUME NEW a \in B, NEW c \in B, a < c, u <= a + mem[a].size, c <= u
          PROVE  FALSE
      <4>1. ASSUME NEW x \in Nat, NEW y \in Nat, NEW v \in Nat, NEW n \in Nat,
                   x + n + 1 <= y, v <= x + n, y <= v
            PROVE  FALSE
        BY <4>1
      <4>. HIDE DEF B
      <4>2. a \in Nat /\ c \in Nat /\ mem[a].size \in Nat /\ a + mem[a].size + 1 <= c
        BY <3>1, <3>2, <2>3, Zenon
      <4>. QED BY <4>1, <4>2, <3>2, <2>4a, Zenon
    <3>. QED BY <3>2, <2>3, SMTT(60)
  <2>8. S \cap Owned = {}
    BY <2>1, Zenon DEF Heap
  <2>9. \A b \in L : L = {b} /\ F = {}
    <3>. SUFFICES ASSUME NEW b \in L PROVE L = {b} /\ F = {}
      BY Zenon
    <3>1. b.addr \in B /\ b.addr \in Owned /\ b.addr <= u /\ u <= b.addr + mem[b.addr].size
      BY <2>4, <2>5, Zenon
    <3>2. \A c \in L : c = b
      BY <3>1, <2>4, <2>5, <2>7, Zenon
    <3>3. \A f \in F : FALSE
      <4>. SUFFICES ASSUME NEW a \in S, Covers(Free(a), u) PROVE FALSE
        BY <2>2, Zenon
      <4>1. a = b.addr
        BY <3>1, <2>6, <2>7, Zenon
      <4>. QED BY <4>1, <3>1, <2>8, Zenon
    <3>. QED BY <3>2, <3>3, Zenon
  <2>10. \A f \in F : F = {f} /\ L = {}
    <3>. SUFFICES ASSUME NEW f \in F PROVE F = {f} /\ L = {}
      BY Zenon
    <3>1. PICK a \in S : f = Free(a)
      BY <2>2, Zenon
    <3>2. a <= u /\ u <= a + mem[a].size
      BY <3>1, <2>6, Zenon
    <3>3. \A g \in F : g = f
      <4>. SUFFICES ASSUME NEW c \in S, Covers(Free(c), u) PROVE Free(c) = f
        BY <2>2, Zenon
      <4>1. c = a
        BY <3>2, <2>6, <2>7, Zenon
      <4>. QED BY <4>1, <3>1, Zenon
    <3>4. L = {}
      BY <2>9, Zenon
    <3>. QED BY <3>3, <3>4, Zenon
  <2>11. CASE u \in GrantedUnits
    <3>1. PICK a \in B : a <= u /\ u <= a + mem[a].size
      BY <2>1, <2>11, Zenon DEF Heap, Tiles
    <3>2. CASE a \in S
      <4>1. Free(a) \in F
        BY <3>1, <3>2, <2>2, <2>6, Zenon
      <4>2. F = {Free(a)} /\ L = {}
        BY <4>1, <2>10, Zenon
      <4>3. Cardinality(F) = 1 /\ Cardinality(L) = 0
        BY <4>2, FS_EmptySet, FS_Singleton, Zenon
      <4>. QED BY <4>3, <2>11, SMTT(60)
    <3>3. CASE a \in Owned
      <4>1. PICK b \in live : a = b.addr
        BY <3>3, Zenon DEF Owned
      <4>2. b \in L
        BY <4>1, <3>1, <2>5, Zenon
      <4>3. L = {b} /\ F = {}
        BY <4>2, <2>9, Zenon
      <4>4. Cardinality(L) = 1 /\ Cardinality(F) = 0
        BY <4>3, FS_EmptySet, FS_Singleton, Zenon
      <4>. QED BY <4>4, <2>11
    <3>. QED BY <3>2, <3>3, Zenon
  <2>12. CASE u \notin GrantedUnits
    <3>1. \A a \in B : ~(a <= u /\ u <= a + mem[a].size)
      <4>1. \A a \in B : \A v \in a..(a + mem[a].size) : v \in GrantedUnits
        BY <2>1, Zenon DEF Heap, Tiles
      <4>. QED BY <4>1, <2>3, <2>12, TopFacts, SMTT(60)
    <3>2. L = {}
      BY <3>1, <2>4, <2>5, Zenon
    <3>3. F = {}
      BY <3>1, <2>2, <2>6, Zenon
    <3>. QED BY <3>2, <3>3, <2>12, FS_EmptySet, SMTT(60)
  <2>. QED BY <2>11, <2>12, Zenon
<1>. QED BY <1>1, HeapInvariant, PTL
=============================================================================
