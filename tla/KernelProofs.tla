---------------------------- MODULE KernelProofs ----------------------------
(***************************************************************************)
(* Proofs about the composition in module Kernel, for every set of         *)
(* processors, number of zones and contents of the zones.  A step is       *)
(* allowed in a context, the locks its thread holds and whether it may     *)
(* rely on the zones being set, and leads to another; a thread's todo is a *)
(* path from the context it is in to one without locks, or the rest of the *)
(* panic handler.  A lock is only waited for by a thread whose locks are   *)
(* all of lower rank.                                                      *)
(***************************************************************************)
EXTENDS Kernel, TLAPS

(* Sequences with the same elements are equal.                             *)
LEMMA SeqEqual ==
  ASSUME NEW S, NEW s \in Seq(S), NEW q \in Seq(S),
         Len(s) = Len(q), \A i \in 1..Len(s) : s[i] = q[i]
  PROVE  s = q
OBVIOUS

Rank(l) ==
  CASE l = TABLE -> 1 [] l = HEAP -> 2 [] l = PMM -> 3 [] l = SCREEN -> 5 [] OTHER -> 4

Contexts == [locks : SUBSET Locks, ready : BOOLEAN]

(* Every lock of a has a rank below r.                                     *)
Under(a, r) == \A l \in a.locks : Rank(l) < r

With(a, l) == [a EXCEPT !.locks = @ \cup {l}]
Without(a, ls) == [a EXCEPT !.locks = @ \ ls]

Blocks == UNION {ZoneBlocks[z] : z \in Zones}

Reasons ==
  {"unwrap", "order", "unreachable", "double free", "out of memory", "not managed", "free order"}

(* Zone z is used under its lock and the guard of PMM.                     *)
InZone(a, z, b) ==
  /\ {PMM, ZONE(z)} \subseteq a.locks
  /\ Under(Without(a, {ZONE(z)}), 4)
  /\ b = Without(a, {PMM, ZONE(z)})

(* The list of zones is used under the guard of PMM.                       *)
InList(a, b) == PMM \in a.locks /\ Under(a, 4) /\ b = Without(a, {PMM})

(* The step s, done in the context a, leads to the context b.  A guard of  *)
(* PMM is dropped by what TryZone and TryFree are replaced by.             *)
Leads(a, s, b) ==
  \/ \E l \in Locks : s = Lock(l) /\ Under(a, Rank(l)) /\ b = With(a, l)
  \/ \E l \in {PMM, TABLE} : s = Read(l) /\ Under(a, Rank(l)) /\ b = With(a, l)
  \/ \E l \in Locks : s = Unlock(l) /\ b = Without(a, {l})
  \/ s = SetZones /\ b = [a EXCEPT !.ready = TRUE]
  \/ s \in {Booted, Unwrap} /\ a.ready /\ b = a
  \/ \E n \in 0..MaxTables : s = Tables(n) /\ a.ready /\ Under(a, 3) /\ b = a
  \/ \E z \in 1..(NumZones + 1) :
       (s = TryZone(z) \/ \E c \in Blocks : s = TryFree(z, c)) /\ InList(a, b)
  \/ \E z \in Zones :
       (s = Alloc(z) \/ \E c \in Blocks : s = Free(z, c)) /\ InZone(a, z, b)
  \/ \E z \in Zones, c \in Blocks : s = Take(z, c) /\ ZONE(z) \in a.locks /\ b = a
  \/ \E why \in Reasons : s = Panic(why)

(* The steps q lead from the context a to b.                               *)
Path(a, q, b) ==
  \E c \in [1..(Len(q) + 1) -> Contexts] :
    c[1] = a /\ c[Len(q) + 1] = b /\ \A i \in 1..Len(q) : Leads(c[i], q[i], c[i + 1])

(* With the locks ls, and the zones set if r, the steps q lead to a        *)
(* context without locks.                                                  *)
Fits(q, ls, r) ==
  \E a, b \in Contexts : a.locks = ls /\ (a.ready => r) /\ b.locks = {} /\ Path(a, q, b)

(* What remains of the panic handler.                                      *)
PanicTodos == {PanicHandler, <<Unlock(SCREEN), Halt>>, <<Halt>>}

Exhausted(z, f) == \A y \in Zones : y < z => f[y] = {}

(* What a step yet to be done says of the free blocks f.                   *)
Sound(s, f) ==
  /\ s.do \in {"try_zone", "alloc"} => Exhausted(s.zone, f)
  /\ s.do = "panic" => s.why # "unwrap" /\ (s.why = "out of memory" => Exhausted(NumZones + 1, f))

Steps ==
  {Lock(l) : l \in Locks} \cup {Read(l) : l \in Locks} \cup {Unlock(l) : l \in Locks}
    \cup {SetZones, Booted, Unwrap, Halt} \cup {Tables(n) : n \in 0..MaxTables}
    \cup {TryZone(z) : z \in 1..(NumZones + 1)} \cup {Alloc(z) : z \in Zones}
    \cup {TryFree(z, c) : z \in 1..(NumZones + 1), c \in Blocks}
    \cup {Free(z, c) : z \in Zones, c \in Blocks}
    \cup {Take(z, c) : z \in Zones, c \in Blocks}
    \cup {Panic(why) : why \in Reasons}

(* The next step may mark a block, one that is free; no later one does.    *)
NextSteps(f) == {s \in Steps : Sound(s, f) /\ (s.do = "take" => s.block \in f[s.zone])}
LaterSteps(f) == {s \in Steps : Sound(s, f) /\ s.do # "take"}

(* Steps q that a thread with the locks ls may have yet to do.             *)
Plan(q, ls, r, f) ==
  /\ q \in Seq(Steps)
  /\ q # <<>> => Head(q) \in NextSteps(f) /\ Tail(q) \in Seq(LaterSteps(f))
  /\ q \in PanicTodos \/ Fits(q, ls, r)

HeldBy(t) == {l \in Locks : \E g \in held[l] : g[1] = t}

Plans == \A t \in Threads : Plan(todo[t], HeldBy(t), init, free)

Types ==
  /\ DOMAIN todo = Threads /\ todo = [t \in Threads |-> todo[t]]
  /\ held \in [Locks -> SUBSET (Threads \X {"read", "write"})]
  /\ init \in BOOLEAN /\ booted \in BOOLEAN
  /\ free \in [Zones -> SUBSET Blocks] /\ \A z \in Zones : free[z] \subseteq ZoneBlocks[z]
  /\ given \in [Blocks -> Nat]
  /\ calls \in [Threads -> 0..MaxCalls] /\ faults \in 0..MaxFaults

(* A write guard excludes, and only PMM and TABLE have read guards.        *)
Guards ==
  \A l \in Locks : \A g \in held[l] :
    /\ g[2] = "write" => held[l] = {g}
    /\ l \notin {PMM, TABLE} => g[2] = "write"

Given ==
  /\ \A b \in Blocks : given[b] <= 1
  /\ \A z \in Zones : \A b \in free[z] : given[b] = 0

IInv == Types /\ Plans /\ Guards /\ Given /\ (booted => init)

-----------------------------------------------------------------------------
(* Locks, contexts and paths *)

(* The locks are distinct, and their ranks.                                *)
LEMMA LockFacts ==
  /\ {SCREEN, HEAP, TABLE, PMM} \subseteq Locks /\ \A z \in Zones : ZONE(z) \in Locks
  /\ Rank(TABLE) = 1 /\ Rank(HEAP) = 2 /\ Rank(PMM) = 3 /\ Rank(SCREEN) = 5
  /\ \A z \in Zones : Rank(ZONE(z)) = 4
  /\ \A l \in Locks : Rank(l) \in 1..5 /\ (Rank(l) = 5 => l = SCREEN)
<1>1. \A z \in Zones : ZONE(z) \notin {SCREEN, HEAP, TABLE, PMM}
  BY Zenon DEF ZONE, SCREEN, HEAP, TABLE, PMM
<1>2. /\ SCREEN # HEAP /\ SCREEN # TABLE /\ SCREEN # PMM
      /\ HEAP # TABLE /\ HEAP # PMM /\ TABLE # PMM
  BY Zenon DEF SCREEN, HEAP, TABLE, PMM
<1>3. /\ {SCREEN, HEAP, TABLE, PMM} \subseteq Locks /\ \A z \in Zones : ZONE(z) \in Locks
      /\ \A l \in Locks : l \in {SCREEN, HEAP, TABLE, PMM} \/ \E z \in Zones : l = ZONE(z)
  BY Zenon DEF Locks
<1> QED
  BY <1>1, <1>2, <1>3 DEF Rank

(* A context with a lock more.                                             *)
LEMMA WithFacts ==
  ASSUME NEW a \in Contexts, NEW l \in Locks
  PROVE  /\ a.locks \subseteq Locks /\ a.ready \in BOOLEAN
         /\ With(a, l) \in Contexts /\ With(a, l).locks = a.locks \cup {l}
         /\ With(a, l).ready = a.ready
BY Zenon DEF Contexts, With

(* A context with some locks less.                                         *)
LEMMA WithoutFacts ==
  ASSUME NEW a \in Contexts, NEW ls
  PROVE  /\ a.locks \subseteq Locks /\ a.ready \in BOOLEAN
         /\ Without(a, ls) \in Contexts /\ Without(a, ls).locks = a.locks \ ls
         /\ Without(a, ls).ready = a.ready
BY Zenon DEF Contexts, Without

(* Contexts with the same fields are the same.                             *)
LEMMA SameContext ==
  ASSUME NEW a \in Contexts, NEW b \in Contexts, a.locks = b.locks, a.ready = b.ready
  PROVE  a = b
BY DEF Contexts

(* No steps lead nowhere else.                                             *)
LEMMA PathNil ==
  ASSUME NEW a \in Contexts
  PROVE  Path(a, <<>>, a) /\ \A b : Path(a, <<>>, b) => b = a
<1>1. Path(a, <<>>, a)
  <2> DEFINE c == [i \in 1..1 |-> a]
  <2>1. /\ c \in [1..(Len(<<>>) + 1) -> Contexts] /\ c[1] = a /\ c[Len(<<>>) + 1] = a
        /\ 1..Len(<<>>) = {}
    OBVIOUS
  <2> HIDE DEF c
  <2> QED
    BY <2>1, Zenon DEF Path
<1>2. \A b : Path(a, <<>>, b) => b = a
  BY DEF Path
<1> QED
  BY <1>1, <1>2, Zenon

(* One step.                                                               *)
LEMMA PathOne ==
  ASSUME NEW a \in Contexts, NEW b \in Contexts, NEW s, Leads(a, s, b)
  PROVE  Path(a, <<s>>, b)
<1> DEFINE c == [i \in 1..2 |-> IF i = 1 THEN a ELSE b]
<1>1. c \in [1..(Len(<<s>>) + 1) -> Contexts] /\ c[1] = a /\ c[Len(<<s>>) + 1] = b
  OBVIOUS
<1>2. \A i \in 1..Len(<<s>>) : Leads(c[i], <<s>>[i], c[i + 1])
  <2> TAKE i \in 1..Len(<<s>>)
  <2>1. i = 1 /\ <<s>>[i] = s /\ c[i] = a /\ c[i + 1] = b
    OBVIOUS
  <2> QED
    BY <2>1, Zenon
<1> QED
  BY <1>1, <1>2, Zenon DEF Path

(* One path after the other.                                               *)
LEMMA PathConcat ==
  ASSUME NEW Q, NEW p \in Seq(Q), NEW q \in Seq(Q), NEW a, NEW m, NEW b,
         Path(a, p, m), Path(m, q, b)
  PROVE  Path(a, p \o q, b)
<1>1. PICK c \in [1..(Len(p) + 1) -> Contexts] :
        c[1] = a /\ c[Len(p) + 1] = m /\ \A i \in 1..Len(p) : Leads(c[i], p[i], c[i + 1])
  BY Zenon DEF Path
<1>2. PICK d \in [1..(Len(q) + 1) -> Contexts] :
        d[1] = m /\ d[Len(q) + 1] = b /\ \A i \in 1..Len(q) : Leads(d[i], q[i], d[i + 1])
  BY Zenon DEF Path
<1> DEFINE e == [i \in 1..(Len(p) + Len(q) + 1) |->
                   IF i <= Len(p) THEN c[i] ELSE d[i - Len(p)]]
<1>3. Len(p) \in Nat /\ Len(q) \in Nat /\ Len(p \o q) = Len(p) + Len(q)
  OBVIOUS
<1>4. e \in [1..(Len(p \o q) + 1) -> Contexts]
  BY <1>1, <1>2, <1>3
<1>5. e[1] = a
  BY <1>1, <1>2, <1>3
<1>6. e[Len(p \o q) + 1] = b
  BY <1>2, <1>3
<1>7. ASSUME NEW i \in 1..Len(p \o q) PROVE Leads(e[i], (p \o q)[i], e[i + 1])
  <2>1. CASE i <= Len(p)
    <3>1. (p \o q)[i] = p[i] /\ e[i] = c[i] /\ i \in 1..Len(p)
      BY <2>1, <1>3
    <3>2. e[i + 1] = c[i + 1]
      BY <2>1, <1>1, <1>2, <1>3
    <3> QED
      BY <3>1, <3>2, <1>1, Zenon
  <2>2. CASE i > Len(p)
    <3>1. /\ (p \o q)[i] = q[i - Len(p)] /\ e[i] = d[i - Len(p)]
          /\ i - Len(p) \in 1..Len(q) /\ e[i + 1] = d[(i - Len(p)) + 1]
      BY <2>2, <1>3
    <3> QED
      BY <3>1, <1>2, Zenon
  <2> QED
    BY <2>1, <2>2, <1>3
<1> HIDE DEF e
<1> QED
  BY <1>4, <1>5, <1>6, <1>7, Zenon DEF Path

(* A path without its first step.                                          *)
LEMMA PathTail ==
  ASSUME NEW Q, NEW q \in Seq(Q), q # <<>>, NEW a, NEW b, Path(a, q, b)
  PROVE  \E m \in Contexts : a \in Contexts /\ Leads(a, Head(q), m) /\ Path(m, Tail(q), b)
<1>1. PICK c \in [1..(Len(q) + 1) -> Contexts] :
        c[1] = a /\ c[Len(q) + 1] = b /\ \A i \in 1..Len(q) : Leads(c[i], q[i], c[i + 1])
  BY Zenon DEF Path
<1> DEFINE d == [i \in 1..Len(q) |-> c[i + 1]]
<1>2. /\ Len(q) \in Nat \ {0} /\ Len(Tail(q)) = Len(q) - 1 /\ Head(q) = q[1]
      /\ \A i \in 1..(Len(q) - 1) : Tail(q)[i] = q[i + 1]
  OBVIOUS
<1>3. c[1] \in Contexts /\ c[2] \in Contexts /\ Leads(c[1], q[1], c[2])
  BY <1>1, <1>2
<1>4. d \in [1..(Len(Tail(q)) + 1) -> Contexts] /\ d[1] = c[2] /\ d[Len(Tail(q)) + 1] = b
  BY <1>1, <1>2
<1>5. ASSUME NEW i \in 1..Len(Tail(q)) PROVE Leads(d[i], Tail(q)[i], d[i + 1])
  <2>1. d[i] = c[i + 1] /\ d[i + 1] = c[(i + 1) + 1] /\ Tail(q)[i] = q[i + 1] /\ i + 1 \in 1..Len(q)
    BY <1>2
  <2> QED
    BY <2>1, <1>1, Zenon
<1> HIDE DEF d
<1>6. Path(c[2], Tail(q), b)
  BY <1>4, <1>5, Zenon DEF Path
<1> QED
  BY <1>1, <1>2, <1>3, <1>6, Zenon

(* What the steps do.                                                      *)
LEMMA DoFacts ==
  /\ \A l : Lock(l).do = "write" /\ Read(l).do = "read" /\ Unlock(l).do = "unlock"
  /\ SetZones.do = "set_zones" /\ Booted.do = "booted" /\ Unwrap.do = "unwrap" /\ Halt.do = "halt"
  /\ \A n : Tables(n).do = "tables"
  /\ \A z : TryZone(z).do = "try_zone" /\ Alloc(z).do = "alloc"
  /\ \A z, c : TryFree(z, c).do = "try_free" /\ Free(z, c).do = "free" /\ Take(z, c).do = "take"
  /\ \A why : Panic(why).do = "panic"
BY Zenon DEF Lock, Read, Unlock, SetZones, Booted, Unwrap, Halt,
       Tables, TryZone, TryFree, Alloc, Free, Take, Panic

(* A step that leads from a to b, by what it does.                         *)
LEMMA LeadsWrite ==
  ASSUME NEW a, NEW b, NEW s, Leads(a, s, b), s.do = "write"
  PROVE  \E l \in Locks : s = Lock(l) /\ Under(a, Rank(l)) /\ b = With(a, l)
BY DoFacts, ZenonT(60) DEF Leads

(* The same for a read lock.                                               *)
LEMMA LeadsRead ==
  ASSUME NEW a, NEW b, NEW s, Leads(a, s, b), s.do = "read"
  PROVE  \E l \in {PMM, TABLE} : s = Read(l) /\ Under(a, Rank(l)) /\ b = With(a, l)
BY DoFacts, ZenonT(60) DEF Leads

(* The same for a guard that is dropped.                                   *)
LEMMA LeadsUnlock ==
  ASSUME NEW a, NEW b, NEW s, Leads(a, s, b), s.do = "unlock"
  PROVE  \E l \in Locks : s = Unlock(l) /\ b = Without(a, {l})
BY DoFacts, ZenonT(60) DEF Leads

(* The same for what uses PMM.zones and nothing else.                      *)
LEMMA LeadsZones ==
  ASSUME NEW a, NEW b, NEW s, Leads(a, s, b), s.do \in {"set_zones", "booted", "unwrap"}
  PROVE  IF s.do = "set_zones" THEN b = [a EXCEPT !.ready = TRUE] ELSE a.ready /\ b = a
BY DoFacts, ZenonT(60) DEF Leads

(* The same for the page tables.                                           *)
LEMMA LeadsTables ==
  ASSUME NEW a, NEW b, NEW s, Leads(a, s, b), s.do = "tables"
  PROVE  \E n \in 0..MaxTables : s = Tables(n) /\ a.ready /\ Under(a, 3) /\ b = a
BY DoFacts, ZenonT(60) DEF Leads

(* The same for the next zone to try.                                      *)
LEMMA LeadsTryZone ==
  ASSUME NEW a, NEW b, NEW s, Leads(a, s, b), s.do = "try_zone"
  PROVE  \E z \in 1..(NumZones + 1) : s = TryZone(z) /\ InList(a, b)
BY DoFacts, ZenonT(60) DEF Leads

(* The same for the next zone to free to.                                  *)
LEMMA LeadsTryFree ==
  ASSUME NEW a, NEW b, NEW s, Leads(a, s, b), s.do = "try_free"
  PROVE  \E z \in 1..(NumZones + 1), c \in Blocks : s = TryFree(z, c) /\ InList(a, b)
BY DoFacts, ZenonT(60) DEF Leads

(* The same for Zone::alloc.                                               *)
LEMMA LeadsAlloc ==
  ASSUME NEW a, NEW b, NEW s, Leads(a, s, b), s.do = "alloc"
  PROVE  \E z \in Zones : s = Alloc(z) /\ InZone(a, z, b)
BY DoFacts, ZenonT(60) DEF Leads

(* The same for Zone::free.                                                *)
LEMMA LeadsFree ==
  ASSUME NEW a, NEW b, NEW s, Leads(a, s, b), s.do = "free"
  PROVE  \E z \in Zones, c \in Blocks : s = Free(z, c) /\ InZone(a, z, b)
BY DoFacts, ZenonT(60) DEF Leads

(* The same for the marking of a block.                                    *)
LEMMA LeadsTake ==
  ASSUME NEW a, NEW b, NEW s, Leads(a, s, b), s.do = "take"
  PROVE  \E z \in Zones, c \in Blocks : s = Take(z, c) /\ ZONE(z) \in a.locks /\ b = a
BY DoFacts, ZenonT(60) DEF Leads

(* Two steps and three, one after the other.                               *)
LEMMA ConcatSteps ==
  ASSUME NEW x, NEW y, NEW z
  PROVE  <<x>> \o <<y>> = <<x, y>> /\ <<x, y>> \o <<z>> = <<x, y, z>>
<1>1. /\ <<x>> \o <<y>> \in Seq({x, y}) /\ <<x, y>> \in Seq({x, y})
      /\ Len(<<x>> \o <<y>>) = Len(<<x, y>>)
      /\ \A i \in 1..Len(<<x>> \o <<y>>) : (<<x>> \o <<y>>)[i] = <<x, y>>[i]
  OBVIOUS
<1>2. <<x>> \o <<y>> = <<x, y>>
  BY <1>1, SeqEqual, Zenon
<1>3. /\ <<x, y>> \o <<z>> \in Seq({x, y, z}) /\ <<x, y, z>> \in Seq({x, y, z})
      /\ Len(<<x, y>> \o <<z>>) = Len(<<x, y, z>>)
  OBVIOUS
<1>4. \A i \in 1..Len(<<x, y>> \o <<z>>) : (<<x, y>> \o <<z>>)[i] = <<x, y, z>>[i]
  OBVIOUS
<1>5. <<x, y>> \o <<z>> = <<x, y, z>>
  BY <1>3, <1>4, SeqEqual, Zenon
<1> QED
  BY <1>2, <1>5, Zenon

(* Two steps after two others.                                             *)
LEMMA ConcatPairs ==
  ASSUME NEW x, NEW y, NEW u, NEW v
  PROVE  <<x, y>> \o <<u, v>> = <<x, y, u, v>>
<1>1. /\ <<x, y>> \o <<u, v>> \in Seq({x, y, u, v}) /\ <<x, y, u, v>> \in Seq({x, y, u, v})
      /\ Len(<<x, y>> \o <<u, v>>) = Len(<<x, y, u, v>>)
  OBVIOUS
<1>2. \A i \in 1..Len(<<x, y>> \o <<u, v>>) : (<<x, y>> \o <<u, v>>)[i] = <<x, y, u, v>>[i]
  OBVIOUS
<1> QED
  BY <1>1, <1>2, SeqEqual, Zenon

(* The panic handler, written out.                                         *)
LEMMA PanicSteps == PanicHandler = <<Lock(SCREEN), Unlock(SCREEN), Halt>>
BY ConcatSteps, Zenon DEF PanicHandler, Log, PrintOut

(* What remains of the panic handler, by its next step.                    *)
LEMMA PanicFacts ==
  ASSUME NEW q \in PanicTodos
  PROVE  /\ q # <<>>
         /\ \/ q = PanicHandler /\ Head(q) = Lock(SCREEN) /\ Tail(q) = <<Unlock(SCREEN), Halt>>
            \/ q = <<Unlock(SCREEN), Halt>> /\ Head(q) = Unlock(SCREEN) /\ Tail(q) = <<Halt>>
            \/ q = <<Halt>> /\ Head(q) = Halt /\ Tail(q) = <<>>
         /\ Head(q).do \in {"write", "unlock", "halt"}
         /\ q[Len(q)] = Halt
<1>1. Lock(SCREEN).do = "write" /\ Unlock(SCREEN).do = "unlock" /\ Halt.do = "halt"
  BY Zenon DEF Lock, Unlock, Halt
<1>2. CASE q = <<Lock(SCREEN), Unlock(SCREEN), Halt>>
  BY <1>1, <1>2, PanicSteps
<1>3. CASE q = <<Unlock(SCREEN), Halt>>
  BY <1>1, <1>3
<1>4. CASE q = <<Halt>>
  BY <1>1, <1>4
<1> QED
  BY <1>2, <1>3, <1>4, PanicSteps, Zenon DEF PanicTodos

(* The panic handler is a plan, whatever is held.                          *)
LEMMA PanicPlan ==
  ASSUME NEW q \in PanicTodos, NEW ls, NEW r, NEW f
  PROVE  Plan(q, ls, r, f)
<1>1. {Lock(SCREEN), Unlock(SCREEN), Halt} \subseteq LaterSteps(f)
  <2>1. {Lock(SCREEN), Unlock(SCREEN), Halt} \subseteq Steps
    BY LockFacts DEF Steps
  <2>2. \A s \in {Lock(SCREEN), Unlock(SCREEN), Halt} : s.do \in {"write", "unlock", "halt"}
    BY DEF Lock, Unlock, Halt
  <2> QED
    BY <2>1, <2>2, Zenon DEF LaterSteps, Sound
<1>2. LaterSteps(f) \subseteq Steps /\ LaterSteps(f) \subseteq NextSteps(f)
  BY Zenon DEF LaterSteps, NextSteps
<1>3. \A x, y, z : /\ <<x, y, z>> \in Seq({x, y, z})
                   /\ <<y, z>> \in Seq({x, y, z})
                   /\ <<z>> \in Seq({x, y, z})
  OBVIOUS
<1>4. q \in Seq({Lock(SCREEN), Unlock(SCREEN), Halt}) /\ q # <<>>
  <2>1. CASE q = <<Lock(SCREEN), Unlock(SCREEN), Halt>>
    BY <2>1, <1>3, Zenon
  <2>2. CASE q = <<Unlock(SCREEN), Halt>>
    BY <2>2, <1>3, Zenon
  <2>3. CASE q = <<Halt>>
    BY <2>3, <1>3, Zenon
  <2> QED
    BY <2>1, <2>2, <2>3, PanicSteps, Zenon DEF PanicTodos
<1>5. q \in Seq(LaterSteps(f)) /\ q \in Seq(Steps)
  BY <1>1, <1>2, <1>4
<1>6. Head(q) \in LaterSteps(f) /\ Tail(q) \in Seq(LaterSteps(f))
  BY <1>4, <1>5
<1> QED
  BY <1>2, <1>5, <1>6, Zenon DEF Plan

(* From the context a of a thread, its next step leads to m and the rest   *)
(* to b.                                                                   *)
Onward(q, ls, r, a, m, b) ==
  /\ a.locks = ls /\ (a.ready => r) /\ b.locks = {}
  /\ Leads(a, Head(q), m) /\ Path(m, Tail(q), b)

(* A thread that has a next step.                                          *)
LEMMA PlanTail ==
  ASSUME NEW q, NEW ls, NEW r, NEW f, Plan(q, ls, r, f), q # <<>>
  PROVE  /\ Head(q) \in NextSteps(f) /\ Tail(q) \in Seq(LaterSteps(f))
         /\ q \in PanicTodos \/ \E a, m, b \in Contexts : Onward(q, ls, r, a, m, b)
<1>1. CASE Fits(q, ls, r)
  <2>1. PICK a, b \in Contexts : a.locks = ls /\ (a.ready => r) /\ b.locks = {} /\ Path(a, q, b)
    BY <1>1, Zenon DEF Fits
  <2>2. PICK m \in Contexts : Leads(a, Head(q), m) /\ Path(m, Tail(q), b)
    BY <2>1, PathTail, Zenon DEF Plan
  <2> QED
    BY <2>1, <2>2, Zenon DEF Plan, Onward
<1> QED
  BY <1>1, Zenon DEF Plan

(* Steps p put in front of what remains are a plan.                        *)
LEMMA NewPlan ==
  ASSUME NEW f, NEW r, NEW p \in Seq(Steps), NEW w \in Seq(LaterSteps(f)),
         p # <<>> => Head(p) \in NextSteps(f) /\ Tail(p) \in Seq(LaterSteps(f)),
         NEW a \in Contexts, NEW m \in Contexts, NEW b \in Contexts,
         Path(a, p, m), Path(m, w, b), b.locks = {}, a.ready => r
  PROVE  Plan(p \o w, a.locks, r, f)
<1>1. LaterSteps(f) \subseteq Steps /\ LaterSteps(f) \subseteq NextSteps(f)
  BY Zenon DEF LaterSteps, NextSteps
<1>2. w \in Seq(Steps) /\ p \o w \in Seq(Steps)
  BY <1>1
<1>3. Fits(p \o w, a.locks, r)
  BY <1>2, PathConcat, Zenon DEF Fits
<1>4. CASE p = <<>>
  <2>1. p \o w = w
    BY <1>4
  <2>2. w # <<>> => Head(w) \in LaterSteps(f) /\ Tail(w) \in Seq(LaterSteps(f))
    OBVIOUS
  <2> QED
    BY <2>1, <2>2, <1>1, <1>2, <1>3, Zenon DEF Plan
<1>5. CASE p # <<>>
  <2>1. Head(p \o w) = Head(p) /\ Tail(p \o w) = Tail(p) \o w
    BY <1>5, <1>2
  <2>2. Tail(p) \o w \in Seq(LaterSteps(f))
    BY <1>5
  <2> QED
    BY <2>1, <2>2, <1>2, <1>3, <1>5, Zenon DEF Plan
<1> QED
  BY <1>4, <1>5, Zenon

-----------------------------------------------------------------------------
(* The operations are plans *)

(* Which steps may come later.                                             *)
LEMMA LaterFacts ==
  ASSUME NEW f
  PROVE  /\ \A l \in Locks : {Lock(l), Read(l), Unlock(l)} \subseteq LaterSteps(f)
         /\ {SetZones, Booted, Unwrap, Halt} \subseteq LaterSteps(f)
         /\ \A n \in 0..MaxTables : Tables(n) \in LaterSteps(f)
         /\ \A z \in 1..(NumZones + 1), c \in Blocks : TryFree(z, c) \in LaterSteps(f)
         /\ \A z \in Zones, c \in Blocks : Free(z, c) \in LaterSteps(f)
         /\ \A z \in 1..(NumZones + 1) : Exhausted(z, f) => TryZone(z) \in LaterSteps(f)
         /\ \A z \in Zones : Exhausted(z, f) => Alloc(z) \in LaterSteps(f)
         /\ \A why \in Reasons \ {"unwrap", "out of memory"} : Panic(why) \in LaterSteps(f)
         /\ Exhausted(NumZones + 1, f) => Panic("out of memory") \in LaterSteps(f)
<1>1. \A l \in Locks : {Lock(l), Read(l), Unlock(l)} \subseteq LaterSteps(f)
  <2> TAKE l \in Locks
  <2>1. {Lock(l), Read(l), Unlock(l)} \subseteq Steps
    BY DEF Steps
  <2>2. Lock(l).do = "write" /\ Read(l).do = "read" /\ Unlock(l).do = "unlock"
    BY Zenon DEF Lock, Read, Unlock
  <2> QED
    BY <2>1, <2>2, Zenon DEF LaterSteps, Sound
<1>2. {SetZones, Booted, Unwrap, Halt} \subseteq LaterSteps(f)
  <2>1. {SetZones, Booted, Unwrap, Halt} \subseteq Steps
    BY DEF Steps
  <2>2. SetZones.do = "set_zones" /\ Booted.do = "booted" /\ Unwrap.do = "unwrap" /\ Halt.do = "halt"
    BY Zenon DEF SetZones, Booted, Unwrap, Halt
  <2> QED
    BY <2>1, <2>2, Zenon DEF LaterSteps, Sound
<1>3. \A n \in 0..MaxTables : Tables(n) \in LaterSteps(f)
  <2> TAKE n \in 0..MaxTables
  <2>1. Tables(n) \in Steps
    BY DEF Steps
  <2>2. Tables(n).do = "tables"
    BY Zenon DEF Tables
  <2> QED
    BY <2>1, <2>2, Zenon DEF LaterSteps, Sound
<1>4. \A z \in 1..(NumZones + 1), c \in Blocks : TryFree(z, c) \in LaterSteps(f)
  <2> TAKE z \in 1..(NumZones + 1), c \in Blocks
  <2>1. TryFree(z, c) \in Steps
    BY DEF Steps
  <2>2. TryFree(z, c).do = "try_free"
    BY Zenon DEF TryFree
  <2> QED
    BY <2>1, <2>2, Zenon DEF LaterSteps, Sound
<1>5. \A z \in Zones, c \in Blocks : Free(z, c) \in LaterSteps(f)
  <2> TAKE z \in Zones, c \in Blocks
  <2>1. Free(z, c) \in Steps
    BY DEF Steps
  <2>2. Free(z, c).do = "free"
    BY Zenon DEF Free
  <2> QED
    BY <2>1, <2>2, Zenon DEF LaterSteps, Sound
<1>6. \A z \in 1..(NumZones + 1) : Exhausted(z, f) => TryZone(z) \in LaterSteps(f)
  <2> TAKE z \in 1..(NumZones + 1)
  <2>1. TryZone(z) \in Steps
    BY DEF Steps
  <2>2. TryZone(z).do = "try_zone" /\ TryZone(z).zone = z
    BY Zenon DEF TryZone
  <2> QED
    BY <2>1, <2>2, Zenon DEF LaterSteps, Sound
<1>7. \A z \in Zones : Exhausted(z, f) => Alloc(z) \in LaterSteps(f)
  <2> TAKE z \in Zones
  <2>1. Alloc(z) \in Steps
    BY DEF Steps
  <2>2. Alloc(z).do = "alloc" /\ Alloc(z).zone = z
    BY Zenon DEF Alloc
  <2> QED
    BY <2>1, <2>2, Zenon DEF LaterSteps, Sound
<1>8. ASSUME NEW why \in Reasons \ {"unwrap"}, why = "out of memory" => Exhausted(NumZones + 1, f)
      PROVE  Panic(why) \in LaterSteps(f)
  <2>1. Panic(why) \in Steps
    BY DEF Steps
  <2>2. Panic(why).do = "panic" /\ Panic(why).why = why
    BY Zenon DEF Panic
  <2> QED
    BY <2>1, <2>2, <1>8, Zenon DEF LaterSteps, Sound
<1>9. "out of memory" \in Reasons \ {"unwrap"}
  BY Zenon DEF Reasons
<1> QED
  BY <1>1, <1>2, <1>3, <1>4, <1>5, <1>6, <1>7, <1>8, <1>9, Zenon

(* The steps q only come later and lead from a to b.                       *)
Leg(f, a, q, b) == q \in Seq(LaterSteps(f)) /\ Path(a, q, b)

(* One step.                                                               *)
LEMMA LegOne ==
  ASSUME NEW f, NEW a \in Contexts, NEW b \in Contexts, NEW s \in LaterSteps(f), Leads(a, s, b)
  PROVE  Leg(f, a, <<s>>, b)
BY PathOne DEF Leg

(* One leg after the other.                                                *)
LEMMA LegConcat ==
  ASSUME NEW f, NEW p, NEW q, NEW a, NEW m, NEW b, Leg(f, a, p, m), Leg(f, m, q, b)
  PROVE  Leg(f, a, p \o q, b)
BY PathConcat DEF Leg

(* Two steps.                                                              *)
LEMMA LegTwo ==
  ASSUME NEW f, NEW a \in Contexts, NEW m \in Contexts, NEW b \in Contexts,
         NEW s \in LaterSteps(f), NEW u \in LaterSteps(f), Leads(a, s, m), Leads(m, u, b)
  PROVE  Leg(f, a, <<s, u>>, b)
<1>1. Leg(f, a, <<s>>, m) /\ Leg(f, m, <<u>>, b)
  BY LegOne, Zenon
<1>2. Leg(f, a, <<s>> \o <<u>>, b)
  BY <1>1, LegConcat, Zenon
<1> QED
  BY <1>2, ConcatSteps, Zenon

(* Three steps.                                                            *)
LEMMA LegThree ==
  ASSUME NEW f, NEW a \in Contexts, NEW m \in Contexts, NEW n \in Contexts, NEW b \in Contexts,
         NEW s \in LaterSteps(f), NEW u \in LaterSteps(f), NEW v \in LaterSteps(f),
         Leads(a, s, m), Leads(m, u, n), Leads(n, v, b)
  PROVE  Leg(f, a, <<s, u, v>>, b)
<1>1. Leg(f, a, <<s, u>>, n) /\ Leg(f, n, <<v>>, b)
  BY LegOne, LegTwo, Zenon
<1>2. Leg(f, a, <<s, u>> \o <<v>>, b)
  BY <1>1, LegConcat, Zenon
<1> QED
  BY <1>2, ConcatSteps, Zenon

(* A lock is taken and its guard dropped.                                  *)
LEMMA LockUnlock ==
  ASSUME NEW f, NEW a \in Contexts, NEW l \in Locks, Under(a, Rank(l))
  PROVE  /\ Leg(f, a, <<Lock(l), Unlock(l)>>, a)
         /\ l \in {PMM, TABLE} => Leg(f, a, <<Read(l), Unlock(l)>>, a)
<1>1. Leads(a, Lock(l), With(a, l)) /\ Leads(With(a, l), Unlock(l), Without(With(a, l), {l}))
  BY Zenon DEF Leads
<1>2. l \in {PMM, TABLE} => Leads(a, Read(l), With(a, l))
  BY Zenon DEF Leads
<1>3. With(a, l) \in Contexts /\ Without(With(a, l), {l}) \in Contexts
  BY WithFacts, WithoutFacts, Zenon
<1>4. l \notin a.locks
  BY LockFacts DEF Under
<1>5. Without(With(a, l), {l}).locks = a.locks /\ Without(With(a, l), {l}).ready = a.ready
  <2>1. (a.locks \cup {l}) \ {l} = a.locks
    BY <1>4, Zenon
  <2>2. /\ With(a, l).locks = a.locks \cup {l} /\ With(a, l).ready = a.ready
    BY WithFacts, Zenon
  <2> DEFINE m == With(a, l)
  <2> HIDE DEF m
  <2>3. m \in Contexts /\ m.locks = a.locks \cup {l} /\ m.ready = a.ready
    BY <1>3, <2>2, Zenon DEF m
  <2>4. Without(m, {l}).locks = a.locks /\ Without(m, {l}).ready = a.ready
    BY <2>1, <2>3, WithoutFacts, Zenon
  <2> QED
    BY <2>4, Zenon DEF m
<1>6. Without(With(a, l), {l}) = a
  BY <1>3, <1>5, SameContext, Zenon
<1> QED
  BY <1>1, <1>2, <1>3, <1>6, LegTwo, LaterFacts, Zenon

(* Log and PhysAllocator::alloc, under locks of lower rank.                *)
LEMMA LogLeg ==
  ASSUME NEW f, NEW a \in Contexts, Under(a, 5)
  PROVE  Leg(f, a, Log, a)
BY LockUnlock, LockFacts, Zenon DEF Log, PrintOut

LEMMA PhysAllocLeg ==
  ASSUME NEW f, NEW a \in Contexts, a.ready, Under(a, 3)
  PROVE  /\ Leg(f, a, PhysAlloc, a)
         /\ \A c \in Blocks : Leg(f, a, PhysFree(c), a)
<1> DEFINE m == With(a, PMM)
<1>1. m \in Contexts /\ m.locks = a.locks \cup {PMM} /\ m.ready = a.ready
  BY LockFacts, WithFacts, Zenon
<1>2. Under(m, 4) /\ PMM \notin a.locks
  <2>1. a.locks \subseteq Locks /\ \A l \in a.locks : Rank(l) < 3
    BY LockFacts, WithFacts, Zenon DEF Under
  <2>2. \A l \in a.locks : Rank(l) < 4
    BY <2>1, LockFacts
  <2> QED
    BY <1>1, <2>1, <2>2, LockFacts DEF Under
<1>3. Leads(a, Read(PMM), m) /\ Leads(m, Unwrap, m)
  BY <1>1, LockFacts, Zenon DEF Leads
<1>4. Without(m, {PMM}) = a
  <2>0. (a.locks \cup {PMM}) \ {PMM} = a.locks
    BY <1>2, Zenon
  <2> HIDE DEF m
  <2>1. /\ Without(m, {PMM}) \in Contexts /\ Without(m, {PMM}).locks = a.locks
        /\ Without(m, {PMM}).ready = a.ready
    BY <2>0, <1>1, WithoutFacts, ZenonT(60)
  <2> QED
    BY <2>1, SameContext, Zenon
<1>5. 1 \in 1..(NumZones + 1)
  BY KernelAssumption
<1>6. Leads(m, TryZone(1), a) /\ \A c \in Blocks : Leads(m, TryFree(1, c), a)
  BY <1>1, <1>2, <1>4, <1>5, Zenon DEF Leads, InList
<1>7. Exhausted(1, f)
  BY DEF Exhausted, Zones
<1> HIDE DEF m
<1> QED
  BY <1>1, <1>3, <1>5, <1>6, <1>7, LegThree, LaterFacts, LockFacts, Zenon DEF PhysAlloc, PhysFree

(* A leg to a context without locks is a plan.                             *)
LEMMA LegPlan ==
  ASSUME NEW f, NEW r, NEW a \in Contexts, NEW b \in Contexts, NEW q,
         Leg(f, a, q, b), b.locks = {}, a.ready => r
  PROVE  Plan(q, a.locks, r, f)
<1>1. <<>> \in Seq(Steps) /\ Path(a, <<>>, a) /\ q \in Seq(LaterSteps(f)) /\ Path(a, q, b)
  BY PathNil DEF Leg
<1>2. Plan(<<>> \o q, a.locks, r, f)
  BY <1>1, NewPlan, Zenon
<1>3. <<>> \o q = q
  BY <1>1
<1> QED
  BY <1>2, <1>3, Zenon

(* The contexts of a thread that holds nothing.                            *)
Idle(r) == [locks |-> {}, ready |-> r]

(* An idle thread may take any lock.                                       *)
LEMMA IdleFacts ==
  ASSUME NEW r \in BOOLEAN
  PROVE  /\ Idle(r) \in Contexts /\ Idle(r).locks = {} /\ Idle(r).ready = r
         /\ \A n : Under(Idle(r), n)
BY Zenon DEF Idle, Contexts, Under

(* kernel_main's way to the zones.                                         *)
LEMMA BootPlan == ASSUME NEW f PROVE Plan(Boot, {}, FALSE, f)
<1> DEFINE a == Idle(FALSE)
           b == Idle(TRUE)
           m == With(a, PMM)
           n == With(b, PMM)
<1>1. a \in Contexts /\ b \in Contexts /\ a.locks = {} /\ b.locks = {} /\ a.ready = FALSE /\ b.ready = TRUE
  BY IdleFacts, Zenon
<1>2. \A k : Under(a, k) /\ Under(b, k)
  BY IdleFacts, Zenon
<1>3. /\ m \in Contexts /\ n \in Contexts
      /\ m.locks = {PMM} /\ n.locks = {PMM} /\ m.ready = FALSE /\ n.ready = TRUE
  <2> HIDE DEF a, b
  <2>1. {} \cup {PMM} = {PMM} /\ PMM \in Locks
    BY LockFacts, Zenon
  <2> QED
    BY <2>1, <1>1, WithFacts
<1>4. [m EXCEPT !.ready = TRUE] = n
  <2> HIDE DEF m, n
  <2>1. [m EXCEPT !.ready = TRUE] \in Contexts
    BY <1>3, Zenon DEF Contexts
  <2>2. [m EXCEPT !.ready = TRUE].locks = n.locks /\ [m EXCEPT !.ready = TRUE].ready = n.ready
    BY <1>3, Zenon DEF Contexts
  <2> QED
    BY <2>1, <2>2, <1>3, SameContext, Zenon
<1>5. Without(n, {PMM}) = b
  <2> HIDE DEF n, b
  <2>1. Without(n, {PMM}) \in Contexts /\ Without(n, {PMM}).locks = {} /\ Without(n, {PMM}).ready = TRUE
    BY <1>3, WithoutFacts
  <2> QED
    BY <2>1, <1>1, SameContext, Zenon
<1>6. Leads(a, Lock(PMM), m)
  BY <1>2, LockFacts, Zenon DEF Leads
<1>7. Leads(m, SetZones, n)
  BY <1>4, Zenon DEF Leads
<1>8. Leads(n, Unlock(PMM), b)
  BY <1>5, LockFacts, Zenon DEF Leads
<1>9. Leads(b, Booted, b)
  BY <1>1, Zenon DEF Leads
<1> HIDE DEF a, b, m, n
<1>10. Leg(f, a, <<Lock(PMM), SetZones, Unlock(PMM)>>, b)
  BY <1>1, <1>3, <1>6, <1>7, <1>8, LegThree, LaterFacts, LockFacts, Zenon
<1>11. Leg(f, a, Log, a) /\ Leg(f, b, Log, b)
  BY <1>1, <1>2, LogLeg, Zenon
<1>12. Leg(f, a, PhysInit, b)
  BY <1>10, <1>11, LegConcat, Zenon DEF PhysInit
<1>13. Leg(f, a, <<Read(TABLE), Unlock(TABLE)>>, a) /\ Leg(f, a, <<Lock(TABLE), Unlock(TABLE)>>, a)
  BY <1>1, <1>2, LockUnlock, LockFacts, Zenon
<1>14. Leg(f, a, <<Read(TABLE), Unlock(TABLE), Lock(TABLE), Unlock(TABLE)>>, a)
  <2>1. Leg(f, a, <<Read(TABLE), Unlock(TABLE)>> \o <<Lock(TABLE), Unlock(TABLE)>>, a)
    BY <1>13, LegConcat, Zenon
  <2> QED
    BY <2>1, ConcatPairs, Zenon
<1>15. Leg(f, b, <<Booted>>, b)
  BY <1>1, <1>9, LegOne, LaterFacts, Zenon
<1>16. Leg(f, a, PrintOut, a)
  BY <1>11, Zenon DEF Log
<1>17. Leg(f, a, PrintOut \o <<Read(TABLE), Unlock(TABLE), Lock(TABLE), Unlock(TABLE)>>, a)
  BY <1>14, <1>16, LegConcat, Zenon
<1>18. Leg(f, a, PrintOut \o <<Read(TABLE), Unlock(TABLE), Lock(TABLE), Unlock(TABLE)>> \o PhysInit, b)
  BY <1>12, <1>17, LegConcat, Zenon
<1>19. Leg(f, a, Boot, b)
  BY <1>15, <1>18, LegConcat, Zenon DEF Boot
<1> QED
  BY <1>1, <1>19, LegPlan, Zenon

(* Every operation, by a thread that holds nothing, once the zones are     *)
(* set.                                                                    *)
LEMMA OperationPlan ==
  ASSUME NEW f, NEW q,
         \/ q \in {PrintOut, Log, PhysAlloc, PhysAllocTooLarge, HeapDebug, MapTo, TranslateAddr}
         \/ q \in HeapAlloc \cup HeapDealloc
         \/ \E c \in Blocks : q = PhysFree(c)
  PROVE  Plan(q, {}, TRUE, f)
<1> DEFINE a == Idle(TRUE)
           h == With(a, HEAP)
           w == With(a, TABLE)
<1>1. a \in Contexts /\ a.locks = {} /\ a.ready = TRUE /\ \A k : Under(a, k)
  BY IdleFacts, Zenon
<1>2. /\ h \in Contexts /\ h.locks = {HEAP} /\ h.ready = TRUE
      /\ w \in Contexts /\ w.locks = {TABLE} /\ w.ready = TRUE
  BY <1>1, LockFacts, WithFacts, Zenon
<1>3. Without(h, {HEAP}) = a /\ Without(w, {TABLE}) = a
  <2> HIDE DEF a, h, w
  <2>1. Without(h, {HEAP}) \in Contexts /\ Without(h, {HEAP}).locks = {} /\ Without(h, {HEAP}).ready = TRUE
    BY <1>2, WithoutFacts
  <2>2. Without(w, {TABLE}) \in Contexts /\ Without(w, {TABLE}).locks = {} /\ Without(w, {TABLE}).ready = TRUE
    BY <1>2, WithoutFacts
  <2> QED
    BY <2>1, <2>2, <1>1, SameContext, Zenon
<1>4. Under(h, 3) /\ Under(h, 5) /\ Under(w, 3)
  <2> HIDE DEF h, w
  <2> QED
    BY <1>2, LockFacts DEF Under
<1>5. Leads(a, Lock(HEAP), h) /\ Leads(a, Lock(TABLE), w)
  BY <1>1, LockFacts, Zenon DEF Leads
<1>6. Leads(h, Unlock(HEAP), a) /\ Leads(w, Unlock(TABLE), a)
  BY <1>3, LockFacts, Zenon DEF Leads
<1>7. Leads(w, Tables(MaxTables), w) /\ MaxTables \in 0..MaxTables
  <2>1. MaxTables \in 0..MaxTables
    BY KernelAssumption
  <2> HIDE DEF w
  <2> QED
    BY <2>1, <1>2, <1>4, Zenon DEF Leads
<1>8. /\ Leads(h, Panic("unreachable"), a) /\ Leads(h, Panic("double free"), a)
      /\ Leads(h, Panic("order"), a) /\ Leads(a, Panic("order"), a)
      /\ {"unreachable", "double free", "order"} \subseteq Reasons \ {"unwrap", "out of memory"}
  BY Zenon DEF Leads, Reasons
<1> HIDE DEF a, h, w
<1>9. Leg(f, a, Log, a) /\ Leg(f, h, Log, h) /\ Leg(f, a, PrintOut, a)
  BY <1>1, <1>2, <1>4, LogLeg, Zenon DEF Log
<1>10. /\ Leg(f, a, PhysAlloc, a) /\ Leg(f, h, PhysAlloc, h)
       /\ \A c \in Blocks : Leg(f, a, PhysFree(c), a)
  BY <1>1, <1>2, <1>4, PhysAllocLeg, Zenon
<1>11. /\ Leg(f, a, <<Lock(HEAP)>>, h) /\ Leg(f, h, <<Unlock(HEAP)>>, a)
       /\ Leg(f, h, <<Panic("unreachable")>>, a)
       /\ Leg(f, h, PhysAllocTooLarge, a) /\ Leg(f, a, PhysAllocTooLarge, a)
  BY <1>1, <1>2, <1>5, <1>6, <1>8, LegOne, LaterFacts, LockFacts, Zenon DEF PhysAllocTooLarge
<1>12. Leg(f, a, HeapDebug, a)
  BY <1>9, <1>11, LegConcat, Zenon DEF HeapDebug
<1>13. Leg(f, a, MapTo, a)
  BY <1>1, <1>2, <1>5, <1>6, <1>7, LegThree, LaterFacts, LockFacts, Zenon DEF MapTo
<1>14. Leg(f, a, TranslateAddr, a)
  BY <1>1, LockUnlock, LockFacts, Zenon DEF TranslateAddr
<1>15. ASSUME q \in HeapAlloc PROVE Leg(f, a, q, a)
  <2> DEFINE S == {<<>>, Log}
             F == {<<Unlock(HEAP)>>, PhysAllocTooLarge, PhysAlloc \o <<Unlock(HEAP)>>,
                   PhysAlloc \o PhysAlloc \o <<Panic("unreachable")>>}
  <2>0. HeapAlloc = {<<Lock(HEAP)>> \o large \o found : large \in S, found \in F}
    BY DEF HeapAlloc
  <2> HIDE DEF S, F
  <2>1. PICK large \in S, found \in F : q = <<Lock(HEAP)>> \o large \o found
    BY <2>0, <1>15, SMTT(60)
  <2> USE DEF S, F
  <2>2. Leg(f, h, <<>>, h)
    BY <1>2, PathNil DEF Leg
  <2>3. Leg(f, h, large, h)
    BY <1>9, <2>2, Zenon
  <2>4. Leg(f, h, PhysAlloc \o <<Unlock(HEAP)>>, a)
    BY <1>10, <1>11, LegConcat, Zenon
  <2>5. Leg(f, h, PhysAlloc \o PhysAlloc, h)
    BY <1>10, LegConcat, Zenon
  <2>6. Leg(f, h, PhysAlloc \o PhysAlloc \o <<Panic("unreachable")>>, a)
    BY <1>11, <2>5, LegConcat, Zenon
  <2>7. Leg(f, h, found, a)
    BY <1>11, <2>4, <2>6, Zenon
  <2>8. Leg(f, a, <<Lock(HEAP)>> \o large, h)
    BY <1>11, <2>3, LegConcat, Zenon
  <2>9. Leg(f, a, <<Lock(HEAP)>> \o large \o found, a)
    BY <2>7, <2>8, LegConcat, Zenon
  <2> QED
    BY <2>1, <2>9, Zenon
<1>16. ASSUME q \in HeapDealloc PROVE Leg(f, a, q, a)
  <2>1. Leg(f, a, <<Lock(HEAP), Unlock(HEAP)>>, a) /\ Leg(f, a, <<Lock(HEAP), Panic("double free")>>, a)
    BY <1>1, <1>2, <1>5, <1>6, <1>8, LegTwo, LaterFacts, LockFacts, Zenon
  <2> QED
    BY <2>1, <1>16, Zenon DEF HeapDealloc
<1>17. Leg(f, a, q, a)
  BY <1>9, <1>10, <1>11, <1>12, <1>13, <1>14, <1>15, <1>16, Zenon
<1> QED
  BY <1>1, <1>17, LegPlan, Zenon

-----------------------------------------------------------------------------
(* The steps that replace a step are a plan *)

(* A leg in front of what remains.                                         *)
LEMMA LegThenPlan ==
  ASSUME NEW f, NEW r, NEW a \in Contexts, NEW m \in Contexts, NEW b \in Contexts,
         NEW p, NEW w \in Seq(LaterSteps(f)), Leg(f, a, p, m),
         Path(m, w, b), b.locks = {}, a.ready => r
  PROVE  Plan(p \o w, a.locks, r, f)
<1>1. LaterSteps(f) \subseteq Steps /\ LaterSteps(f) \subseteq NextSteps(f)
  BY Zenon DEF LaterSteps, NextSteps
<1>2. p \in Seq(LaterSteps(f)) /\ Path(a, p, m)
  BY Zenon DEF Leg
<1>3. p \in Seq(Steps) /\ (p # <<>> => Head(p) \in NextSteps(f) /\ Tail(p) \in Seq(LaterSteps(f)))
  BY <1>1, <1>2
<1> QED
  BY <1>2, <1>3, NewPlan, Zenon

(* What remains, in the context that the step before it led to.            *)
LEMMA RestPlan ==
  ASSUME NEW f, NEW r, NEW m \in Contexts, NEW b \in Contexts,
         NEW w \in Seq(LaterSteps(f)), Path(m, w, b), b.locks = {}, m.ready => r
  PROVE  Plan(w, m.locks, r, f)
BY LegPlan, Zenon DEF Leg

(* A plan stays one when zones are set and blocks are taken, unless it is  *)
(* about to mark one of them.                                              *)
LEMMA PlanStays ==
  ASSUME NEW q, NEW ls, NEW r, NEW f, Plan(q, ls, r, f), NEW r2, r => r2,
         NEW f2, \A z \in Zones : f2[z] \subseteq f[z],
         q # <<>> /\ Head(q).do = "take" => Head(q).block \in f2[Head(q).zone]
  PROVE  Plan(q, ls, r2, f2)
<1>1. \A z : Exhausted(z, f) => Exhausted(z, f2)
  BY Zenon DEF Exhausted
<1>2. \A s : Sound(s, f) => Sound(s, f2)
  BY <1>1, Zenon DEF Sound
<1>3. LaterSteps(f) \subseteq LaterSteps(f2)
  BY <1>2, Zenon DEF LaterSteps
<1>4. q \in PanicTodos \/ Fits(q, ls, r2)
  BY Zenon DEF Plan, Fits
<1>5. ASSUME q # <<>> PROVE Head(q) \in NextSteps(f2) /\ Tail(q) \in Seq(LaterSteps(f2))
  BY <1>2, <1>3, <1>5 DEF Plan, NextSteps
<1> QED
  BY <1>4, <1>5, Zenon DEF Plan

(* A thread with nothing to do holds no lock.                              *)
LEMMA IdleHoldsNone ==
  ASSUME NEW ls, NEW r, NEW f, Plan(<<>>, ls, r, f)
  PROVE  ls = {}
<1>1. <<>> \notin PanicTodos
  BY PanicFacts, Zenon
<1>2. Fits(<<>>, ls, r)
  BY <1>1, Zenon DEF Plan
<1> QED
  BY <1>2, PathNil, Zenon DEF Fits

(* The step is a lock.                                                     *)
LEMMA LockPlan ==
  ASSUME NEW q, NEW ls, NEW r, NEW f, Plan(q, ls, r, f), q # <<>>,
         Head(q).do \in {"write", "read"}
  PROVE  /\ Head(q).lock \in Locks
         /\ Head(q).do = "read" => Head(q).lock \in {PMM, TABLE}
         /\ q \notin PanicTodos => \A l \in ls : Rank(l) < Rank(Head(q).lock)
         /\ Plan(Tail(q), ls \cup {Head(q).lock}, r, f)
<1>1. CASE q \in PanicTodos
  <2>1. Head(q) = Lock(SCREEN) /\ Tail(q) = <<Unlock(SCREEN), Halt>>
    BY <1>1, PanicFacts DEF Lock, Unlock, Halt
  <2>2. Tail(q) \in PanicTodos /\ Head(q).lock = SCREEN /\ Head(q).do = "write"
    BY <2>1, SMTT(60) DEF PanicTodos, Lock
  <2> QED
    BY <1>1, <2>2, PanicPlan, LockFacts, Zenon
<1>2. CASE q \notin PanicTodos
  <2>1. PICK a, m, b \in Contexts :
          /\ a.locks = ls /\ (a.ready => r) /\ b.locks = {}
          /\ Leads(a, Head(q), m) /\ Path(m, Tail(q), b)
    <3>1. PICK a, m, b \in Contexts : Onward(q, ls, r, a, m, b)
      BY <1>2, PlanTail, Zenon
    <3> QED
      BY <3>1, Zenon DEF Onward
  <2>2. Tail(q) \in Seq(LaterSteps(f))
    BY PlanTail, Zenon
  <2>3. PICK l \in Locks : /\ Head(q) = Lock(l) \/ (Head(q) = Read(l) /\ l \in {PMM, TABLE})
                           /\ Under(a, Rank(l)) /\ m = With(a, l)
    <3>1. CASE Head(q).do = "write"
      BY <3>1, <2>1, LeadsWrite
    <3>2. CASE Head(q).do = "read"
      BY <3>2, <2>1, LeadsRead, LockFacts
    <3> QED
      BY <3>1, <3>2, Zenon
  <2>4. Head(q).lock = l /\ (Head(q).do = "read" => l \in {PMM, TABLE})
    BY <2>3, SMTT(60) DEF Lock, Read
  <2>5. m.locks = ls \cup {l} /\ m.ready = a.ready
    BY <2>1, <2>3, WithFacts, Zenon
  <2>6. Plan(Tail(q), m.locks, r, f)
    BY <2>1, <2>2, <2>5, RestPlan, Zenon
  <2> QED
    BY <2>1, <2>3, <2>4, <2>5, <2>6, Zenon DEF Under
<1> QED
  BY <1>1, <1>2, Zenon

(* The step drops a guard.                                                 *)
LEMMA UnlockPlan ==
  ASSUME NEW q, NEW ls, NEW r, NEW f, Plan(q, ls, r, f), q # <<>>, Head(q).do = "unlock"
  PROVE  Head(q).lock \in Locks /\ Plan(Tail(q), ls \ {Head(q).lock}, r, f)
<1>1. CASE q \in PanicTodos
  <2>1. Head(q) = Unlock(SCREEN) /\ Tail(q) = <<Halt>>
    BY <1>1, PanicFacts DEF Lock, Unlock, Halt
  <2>2. Tail(q) \in PanicTodos /\ Head(q).lock = SCREEN
    BY <2>1 DEF PanicTodos, Unlock
  <2> QED
    BY <2>2, PanicPlan, LockFacts, Zenon
<1>2. CASE q \notin PanicTodos
  <2>1. PICK a, m, b \in Contexts :
          /\ a.locks = ls /\ (a.ready => r) /\ b.locks = {}
          /\ Leads(a, Head(q), m) /\ Path(m, Tail(q), b)
    <3>1. PICK a, m, b \in Contexts : Onward(q, ls, r, a, m, b)
      BY <1>2, PlanTail, Zenon
    <3> QED
      BY <3>1, Zenon DEF Onward
  <2>2. Tail(q) \in Seq(LaterSteps(f))
    BY PlanTail, Zenon
  <2>3. PICK l \in Locks : Head(q) = Unlock(l) /\ m = Without(a, {l})
    BY <2>1, LeadsUnlock, ZenonT(60)
  <2>4. Head(q).lock = l
    BY <2>3 DEF Unlock
  <2>5. m.locks = ls \ {l} /\ m.ready = a.ready
    BY <2>1, <2>3, WithoutFacts, Zenon
  <2>6. Plan(Tail(q), m.locks, r, f)
    BY <2>1, <2>2, <2>5, RestPlan, Zenon
  <2> QED
    BY <2>4, <2>5, <2>6, Zenon
<1> QED
  BY <1>1, <1>2, Zenon

(* The step sets the zones, ends the boot or uses the zones.               *)
LEMMA ZonesPlan ==
  ASSUME NEW q, NEW ls, NEW r, NEW f, Plan(q, ls, r, f), q # <<>>
  PROVE  /\ Head(q).do = "set_zones" => Plan(Tail(q), ls, TRUE, f)
         /\ Head(q).do \in {"booted", "unwrap"} => r /\ Plan(Tail(q), ls, r, f)
<1>1. ASSUME Head(q).do \in {"set_zones", "booted", "unwrap"}
      PROVE  \E a, m, b \in Contexts :
                /\ a.locks = ls /\ (a.ready => r) /\ b.locks = {}
                /\ Leads(a, Head(q), m) /\ Path(m, Tail(q), b)
                /\ m.locks = ls
                /\ Head(q).do \in {"booted", "unwrap"} => a.ready /\ m = a
  <2>1. q \notin PanicTodos
    BY <1>1, PanicFacts, Zenon
  <2>2. PICK a, m, b \in Contexts :
          /\ a.locks = ls /\ (a.ready => r) /\ b.locks = {}
          /\ Leads(a, Head(q), m) /\ Path(m, Tail(q), b)
    <3>1. PICK a, m, b \in Contexts : Onward(q, ls, r, a, m, b)
      BY <2>1, PlanTail, Zenon
    <3> QED
      BY <3>1, Zenon DEF Onward
  <2>3. /\ Head(q).do = "set_zones" => m = [a EXCEPT !.ready = TRUE]
        /\ Head(q).do \in {"booted", "unwrap"} => a.ready /\ m = a
    BY <1>1, <2>2, LeadsZones, ZenonT(60)
  <2>4. [a EXCEPT !.ready = TRUE].locks = a.locks
    BY Zenon DEF Contexts
  <2> QED
    BY <1>1, <2>2, <2>3, <2>4, Zenon
<1>2. Tail(q) \in Seq(LaterSteps(f))
  BY PlanTail, Zenon
<1>3. ASSUME Head(q).do = "set_zones" PROVE Plan(Tail(q), ls, TRUE, f)
  <2>1. PICK m, b \in Contexts : m.locks = ls /\ b.locks = {} /\ Path(m, Tail(q), b)
    BY <1>1, <1>3, Zenon
  <2> QED
    BY <2>1, <1>2, RestPlan, Zenon
<1>4. ASSUME Head(q).do \in {"booted", "unwrap"} PROVE r /\ Plan(Tail(q), ls, r, f)
  <2>1. PICK m, b \in Contexts :
          m.locks = ls /\ m.ready /\ r /\ b.locks = {} /\ Path(m, Tail(q), b)
    BY <1>1, <1>4, Zenon
  <2> QED
    BY <2>1, <1>2, RestPlan, Zenon
<1> QED
  BY <1>3, <1>4, Zenon

(* A zone's lock, taken under PMM: Zone::alloc and Zone::free are done in  *)
(* its context.                                                            *)
LEMMA ZoneContext ==
  ASSUME NEW a \in Contexts, NEW z \in Zones, PMM \in a.locks, Under(a, 4)
  PROVE  \E h \in Contexts :
           /\ Leads(a, Lock(ZONE(z)), h)
           /\ Leads(h, Alloc(z), Without(a, {PMM}))
           /\ \A c \in Blocks : Leads(h, Free(z, c), Without(a, {PMM}))
<1> DEFINE h == With(a, ZONE(z))
           m == Without(a, {PMM})
<1>1. ZONE(z) \in Locks /\ Rank(ZONE(z)) = 4 /\ ZONE(z) \notin a.locks /\ PMM \in Locks
  BY LockFacts, SMTT(60) DEF Under
<1>2. h \in Contexts /\ h.locks = a.locks \cup {ZONE(z)} /\ h.ready = a.ready
  BY <1>1, WithFacts, Zenon
<1>3. Leads(a, Lock(ZONE(z)), h)
  BY <1>1, Zenon DEF Leads
<1>4. m \in Contexts /\ m.locks = a.locks \ {PMM} /\ m.ready = a.ready
  BY WithoutFacts, Zenon
<1> HIDE DEF h, m
<1>5. h.locks \ {ZONE(z)} = a.locks /\ h.locks \ {PMM, ZONE(z)} = a.locks \ {PMM}
  BY <1>1, <1>2, Zenon
<1>6. Under(Without(h, {ZONE(z)}), 4)
  <2>1. Without(h, {ZONE(z)}).locks = a.locks
    BY <1>2, <1>5, WithoutFacts, Zenon
  <2> QED
    BY <2>1, Zenon DEF Under
<1>7. Without(h, {PMM, ZONE(z)}) = m
  <2>1. /\ Without(h, {PMM, ZONE(z)}) \in Contexts /\ Without(h, {PMM, ZONE(z)}).locks = a.locks \ {PMM}
        /\ Without(h, {PMM, ZONE(z)}).ready = a.ready
    BY <1>2, <1>5, WithoutFacts, Zenon
  <2> QED
    BY <2>1, <1>4, SameContext, Zenon
<1>8. {PMM, ZONE(z)} \subseteq h.locks
  BY <1>2, Zenon
<1>9. Leads(h, Alloc(z), m) /\ \A c \in Blocks : Leads(h, Free(z, c), m)
  BY <1>6, <1>7, <1>8, Zenon DEF Leads, InZone
<1> QED
  BY <1>2, <1>3, <1>9, Zenon DEF m

(* The next zone to allocate from.                                         *)
LEMMA TryZonePlan ==
  ASSUME NEW q, NEW ls, NEW r, NEW f, Plan(q, ls, r, f), q # <<>>, Head(q).do = "try_zone"
  PROVE  Plan((IF Head(q).zone \in Zones THEN <<Lock(ZONE(Head(q).zone)), Alloc(Head(q).zone)>>
               ELSE <<Unlock(PMM), Panic("out of memory")>>) \o Tail(q), ls, r, f)
<1>1. q \notin PanicTodos
  BY PanicFacts, Zenon
<1>2. PICK a, m, b \in Contexts :
        /\ a.locks = ls /\ (a.ready => r) /\ b.locks = {}
        /\ Leads(a, Head(q), m) /\ Path(m, Tail(q), b)
  <2>1. PICK a, m, b \in Contexts : Onward(q, ls, r, a, m, b)
    BY <1>1, PlanTail, Zenon
  <2> QED
    BY <2>1, Zenon DEF Onward
<1>3. Tail(q) \in Seq(LaterSteps(f)) /\ Head(q) \in NextSteps(f)
  BY PlanTail, Zenon
<1>4. PICK z \in 1..(NumZones + 1) :
        Head(q) = TryZone(z) /\ InList(a, m)
  BY <1>2, LeadsTryZone, Zenon
<1>5. Head(q).zone = z /\ Head(q).do = "try_zone"
  BY <1>4 DEF TryZone
<1>6. Exhausted(z, f)
  BY <1>3, <1>5, Zenon DEF NextSteps, Sound
<1>7. CASE z \in Zones
  <2>1. PICK h \in Contexts : Leads(a, Lock(ZONE(z)), h) /\ Leads(h, Alloc(z), m)
    BY <1>4, <1>7, ZoneContext, Zenon DEF InList
  <2>2. ZONE(z) \in Locks
    BY <1>7, LockFacts, Zenon
  <2>3. Leg(f, a, <<Lock(ZONE(z)), Alloc(z)>>, m)
    BY <1>2, <1>6, <1>7, <2>1, <2>2, LegTwo, LaterFacts, Zenon
  <2>4. Plan(<<Lock(ZONE(z)), Alloc(z)>> \o Tail(q), a.locks, r, f)
    BY <1>2, <1>3, <2>3, LegThenPlan, Zenon
  <2> QED
    BY <1>2, <1>5, <1>7, <2>4, Zenon
<1>8. CASE z \notin Zones
  <2>1. z = NumZones + 1
    BY <1>8, KernelAssumption DEF Zones
  <2>2. Leads(a, Unlock(PMM), m) /\ PMM \in Locks
    BY <1>4, LockFacts, Zenon DEF Leads, InList
  <2>3. Leads(m, Panic("out of memory"), m)
    BY Zenon DEF Leads, Reasons
  <2>4. Leg(f, a, <<Unlock(PMM), Panic("out of memory")>>, m)
    BY <1>2, <1>6, <2>1, <2>2, <2>3, LegTwo, LaterFacts, Zenon
  <2>5. Plan(<<Unlock(PMM), Panic("out of memory")>> \o Tail(q), a.locks, r, f)
    BY <1>2, <1>3, <2>4, LegThenPlan, Zenon
  <2> QED
    BY <1>2, <1>5, <1>8, <2>5, Zenon
<1> QED
  BY <1>7, <1>8, Zenon

(* The next zone to free to.                                               *)
LEMMA TryFreePlan ==
  ASSUME NEW q, NEW ls, NEW r, NEW f, Plan(q, ls, r, f), q # <<>>, Head(q).do = "try_free"
  PROVE  Plan((IF Head(q).zone \in Zones
               THEN <<Lock(ZONE(Head(q).zone)), Free(Head(q).zone, Head(q).block)>>
               ELSE <<Unlock(PMM), Panic("not managed")>>) \o Tail(q), ls, r, f)
<1>1. q \notin PanicTodos
  BY PanicFacts, Zenon
<1>2. PICK a, m, b \in Contexts :
        /\ a.locks = ls /\ (a.ready => r) /\ b.locks = {}
        /\ Leads(a, Head(q), m) /\ Path(m, Tail(q), b)
  <2>1. PICK a, m, b \in Contexts : Onward(q, ls, r, a, m, b)
    BY <1>1, PlanTail, Zenon
  <2> QED
    BY <2>1, Zenon DEF Onward
<1>3. Tail(q) \in Seq(LaterSteps(f))
  BY PlanTail, Zenon
<1>4. PICK z \in 1..(NumZones + 1), c \in Blocks :
        Head(q) = TryFree(z, c) /\ InList(a, m)
  BY <1>2, LeadsTryFree, Zenon
<1>5. Head(q).zone = z /\ Head(q).block = c
  BY <1>4, SMTT(60) DEF TryFree
<1>7. CASE z \in Zones
  <2>1. PICK h \in Contexts : Leads(a, Lock(ZONE(z)), h) /\ Leads(h, Free(z, c), m)
    BY <1>4, <1>7, ZoneContext, Zenon DEF InList
  <2>2. ZONE(z) \in Locks
    BY <1>7, LockFacts, Zenon
  <2>3. Leg(f, a, <<Lock(ZONE(z)), Free(z, c)>>, m)
    BY <1>2, <1>7, <2>1, <2>2, LegTwo, LaterFacts, Zenon
  <2>4. Plan(<<Lock(ZONE(z)), Free(z, c)>> \o Tail(q), a.locks, r, f)
    BY <1>2, <1>3, <2>3, LegThenPlan, Zenon
  <2> QED
    BY <1>2, <1>5, <1>7, <2>4, Zenon
<1>8. CASE z \notin Zones
  <2>2. Leads(a, Unlock(PMM), m) /\ PMM \in Locks
    BY <1>4, LockFacts, Zenon DEF Leads, InList
  <2>3. Leads(m, Panic("not managed"), m) /\ "not managed" \in Reasons \ {"unwrap", "out of memory"}
    BY Zenon DEF Leads, Reasons
  <2>4. Leg(f, a, <<Unlock(PMM), Panic("not managed")>>, m)
    BY <1>2, <2>2, <2>3, LegTwo, LaterFacts, Zenon
  <2>5. Plan(<<Unlock(PMM), Panic("not managed")>> \o Tail(q), a.locks, r, f)
    BY <1>2, <1>3, <2>4, LegThenPlan, Zenon
  <2> QED
    BY <1>2, <1>5, <1>8, <2>5, Zenon
<1> QED
  BY <1>7, <1>8, Zenon

(* Zone::alloc and Zone::free, when they return: the zone's guard is       *)
(* dropped, and the guard of PMM remains.                                  *)
LEMMA ZoneLeft ==
  ASSUME NEW a \in Contexts, NEW m \in Contexts, NEW z \in Zones, InZone(a, z, m)
  PROVE  \E h \in Contexts : Leads(a, Unlock(ZONE(z)), h) /\ Leads(h, Unlock(PMM), m) /\ InList(h, m)
<1> DEFINE h == Without(a, {ZONE(z)})
<1>1. h \in Contexts /\ h.locks = a.locks \ {ZONE(z)} /\ h.ready = a.ready /\ Under(h, 4)
  BY WithoutFacts, Zenon DEF InZone
<1>2. ZONE(z) \in Locks /\ PMM \in Locks /\ ZONE(z) # PMM
  <2>1. Rank(ZONE(z)) = 4 /\ Rank(PMM) = 3 /\ ZONE(z) \in Locks /\ PMM \in Locks
    BY LockFacts, Zenon
  <2> QED
    BY <2>1
<1>3. Leads(a, Unlock(ZONE(z)), h)
  BY <1>2, Zenon DEF Leads
<1> HIDE DEF h
<1>4. Without(h, {PMM}) = m
  <2>1. (a.locks \ {ZONE(z)}) \ {PMM} = a.locks \ {PMM, ZONE(z)}
    BY Zenon
  <2>2. m.locks = a.locks \ {PMM, ZONE(z)} /\ m.ready = a.ready
    BY WithoutFacts, Zenon DEF InZone
  <2>3. Without(h, {PMM}) \in Contexts /\ Without(h, {PMM}).locks = m.locks /\ Without(h, {PMM}).ready = m.ready
    BY <2>1, <2>2, <1>1, WithoutFacts, ZenonT(60)
  <2> QED
    BY <2>3, SameContext, Zenon
<1>5. Leads(h, Unlock(PMM), m) /\ InList(h, m)
  BY <1>1, <1>2, <1>4, Zenon DEF Leads, InList, InZone
<1> QED
  BY <1>1, <1>3, <1>5, Zenon

(* Zone::alloc has a block to mark, or the next zone is tried.             *)
LEMMA AllocPlan ==
  ASSUME NEW q, NEW ls, NEW r, NEW f, Plan(q, ls, r, f), q # <<>>, Head(q).do = "alloc",
         \A z \in Zones : f[z] \subseteq Blocks
  PROVE  /\ Head(q).zone \in Zones
         /\ \A c \in f[Head(q).zone] :
              Plan(<<Take(Head(q).zone, c), Unlock(ZONE(Head(q).zone)), Unlock(PMM)>> \o Tail(q), ls, r, f)
         /\ f[Head(q).zone] = {} =>
              Plan(<<Unlock(ZONE(Head(q).zone)), TryZone(Head(q).zone + 1)>> \o Tail(q), ls, r, f)
<1>1. q \notin PanicTodos
  BY PanicFacts, Zenon
<1>2. PICK a, m, b \in Contexts :
        /\ a.locks = ls /\ (a.ready => r) /\ b.locks = {}
        /\ Leads(a, Head(q), m) /\ Path(m, Tail(q), b)
  <2>1. PICK a, m, b \in Contexts : Onward(q, ls, r, a, m, b)
    BY <1>1, PlanTail, Zenon
  <2> QED
    BY <2>1, Zenon DEF Onward
<1>3. Tail(q) \in Seq(LaterSteps(f)) /\ Head(q) \in NextSteps(f)
  BY PlanTail, Zenon
<1>4. PICK z \in Zones : Head(q) = Alloc(z) /\ InZone(a, z, m)
  BY <1>2, LeadsAlloc, Zenon
<1>5. Head(q).zone = z /\ Head(q).do = "alloc"
  BY <1>4, SMTT(60) DEF Alloc
<1>6. Exhausted(z, f)
  BY <1>3, <1>5, Zenon DEF NextSteps, Sound
<1>7. PICK h \in Contexts : Leads(a, Unlock(ZONE(z)), h) /\ Leads(h, Unlock(PMM), m) /\ InList(h, m)
  BY <1>2, <1>4, ZoneLeft, Zenon
<1>8. ZONE(z) \in Locks /\ PMM \in Locks
  BY LockFacts, Zenon
<1>11. ASSUME NEW c \in f[z] PROVE Plan(<<Take(z, c), Unlock(ZONE(z)), Unlock(PMM)>> \o Tail(q), ls, r, f)
  <2> DEFINE p == <<Take(z, c), Unlock(ZONE(z)), Unlock(PMM)>>
  <2>1. Leads(a, Take(z, c), a)
    BY <1>4, <1>11, Zenon DEF Leads, InZone
  <2>3. Leg(f, a, <<Unlock(ZONE(z)), Unlock(PMM)>>, m)
    BY <1>2, <1>7, <1>8, LegTwo, LaterFacts, Zenon
  <2>4. Take(z, c) \in NextSteps(f)
    <3>1. Take(z, c) \in Steps
      BY <1>11 DEF Steps
    <3>2. Take(z, c).do = "take" /\ Take(z, c).zone = z /\ Take(z, c).block = c
      BY Zenon DEF Take
    <3> QED
      BY <3>1, <3>2, <1>11, Zenon DEF NextSteps, Sound
  <2>5. /\ p = <<Take(z, c)>> \o <<Unlock(ZONE(z)), Unlock(PMM)>>
        /\ Head(p) = Take(z, c) /\ Tail(p) = <<Unlock(ZONE(z)), Unlock(PMM)>>
    BY ConcatSteps, SMTT(60)
  <2>6. {Take(z, c), Unlock(ZONE(z)), Unlock(PMM)} \subseteq Steps
    BY <1>8, <2>4, LaterFacts, Zenon DEF NextSteps, LaterSteps
  <2>7. p \in Seq(Steps) /\ <<Take(z, c)>> \in Seq(Steps) /\ <<Unlock(ZONE(z)), Unlock(PMM)>> \in Seq(Steps)
    BY <2>6, SMTT(60)
  <2>8. Path(a, <<Take(z, c)>>, a) /\ Path(a, <<Unlock(ZONE(z)), Unlock(PMM)>>, m)
    BY <2>1, <2>3, PathOne, Zenon DEF Leg
  <2>9. Path(a, p, m)
    BY <2>5, <2>7, <2>8, PathConcat, Zenon
  <2>10. Tail(p) \in Seq(LaterSteps(f))
    BY <2>3, <2>5, Zenon DEF Leg
  <2> HIDE DEF p
  <2>11. Plan(p \o Tail(q), a.locks, r, f)
    BY <1>2, <1>3, <2>4, <2>5, <2>7, <2>9, <2>10, NewPlan, Zenon
  <2> QED
    BY <1>2, <2>11, Zenon DEF p
<1>12. ASSUME f[z] = {} PROVE Plan(<<Unlock(ZONE(z)), TryZone(z + 1)>> \o Tail(q), ls, r, f)
  <2>1. Exhausted(z + 1, f)
    BY <1>6, <1>12 DEF Exhausted, Zones
  <2>2. z + 1 \in 1..(NumZones + 1)
    BY KernelAssumption DEF Zones
  <2>4. Leads(h, TryZone(z + 1), m)
    BY <1>7, <2>2, Zenon DEF Leads
  <2>5. Leg(f, a, <<Unlock(ZONE(z)), TryZone(z + 1)>>, m)
    BY <1>2, <1>7, <1>8, <2>1, <2>2, <2>4, LegTwo, LaterFacts, Zenon
  <2> QED
    BY <1>2, <1>3, <2>5, LegThenPlan, Zenon
<1> QED
  BY <1>5, <1>11, <1>12, Zenon

(* Zone::free panics, or the next zone is tried.                           *)
LEMMA FreePlan ==
  ASSUME NEW q, NEW ls, NEW r, NEW f, Plan(q, ls, r, f), q # <<>>, Head(q).do = "free"
  PROVE  Plan((IF Head(q).block \in ZoneBlocks[Head(q).zone] THEN <<Panic("free order")>>
               ELSE <<Unlock(ZONE(Head(q).zone)), TryFree(Head(q).zone + 1, Head(q).block)>>)
                 \o Tail(q), ls, r, f)
<1>1. q \notin PanicTodos
  BY PanicFacts, Zenon
<1>2. PICK a, m, b \in Contexts :
        /\ a.locks = ls /\ (a.ready => r) /\ b.locks = {}
        /\ Leads(a, Head(q), m) /\ Path(m, Tail(q), b)
  <2>1. PICK a, m, b \in Contexts : Onward(q, ls, r, a, m, b)
    BY <1>1, PlanTail, Zenon
  <2> QED
    BY <2>1, Zenon DEF Onward
<1>3. Tail(q) \in Seq(LaterSteps(f))
  BY PlanTail, Zenon
<1>4. PICK z \in Zones, c \in Blocks : Head(q) = Free(z, c) /\ InZone(a, z, m)
  BY <1>2, LeadsFree, Zenon
<1>5. Head(q).zone = z /\ Head(q).block = c
  BY <1>4, SMTT(60) DEF Free
<1>7. PICK h \in Contexts : Leads(a, Unlock(ZONE(z)), h) /\ Leads(h, Unlock(PMM), m) /\ InList(h, m)
  BY <1>2, <1>4, ZoneLeft, Zenon
<1>8. ZONE(z) \in Locks /\ PMM \in Locks
  BY LockFacts, Zenon
<1>11. Plan(<<Unlock(ZONE(z)), TryFree(z + 1, c)>> \o Tail(q), ls, r, f)
  <2>2. z + 1 \in 1..(NumZones + 1)
    BY KernelAssumption DEF Zones
  <2>4. Leads(h, TryFree(z + 1, c), m)
    BY <1>7, <2>2, Zenon DEF Leads
  <2>5. Leg(f, a, <<Unlock(ZONE(z)), TryFree(z + 1, c)>>, m)
    BY <1>2, <1>7, <1>8, <2>2, <2>4, LegTwo, LaterFacts, Zenon
  <2> QED
    BY <1>2, <1>3, <2>5, LegThenPlan, Zenon
<1>12. Plan(<<Panic("free order")>> \o Tail(q), ls, r, f)
  <2>1. Leads(a, Panic("free order"), m) /\ "free order" \in Reasons \ {"unwrap", "out of memory"}
    BY Zenon DEF Leads, Reasons
  <2>2. Leg(f, a, <<Panic("free order")>>, m)
    BY <1>2, <2>1, LegOne, LaterFacts, Zenon
  <2> QED
    BY <1>2, <1>3, <2>2, LegThenPlan, Zenon
<1> QED
  BY <1>5, <1>11, <1>12, Zenon

(* map_to is done, or a frame is allocated for one more page table.        *)
LEMMA TablesPlan ==
  ASSUME NEW q, NEW ls, NEW r, NEW f, Plan(q, ls, r, f), q # <<>>, Head(q).do = "tables"
  PROVE  /\ Plan(Tail(q), ls, r, f)
         /\ Head(q).most > 0 => Plan(PhysAlloc \o <<Tables(Head(q).most - 1)>> \o Tail(q), ls, r, f)
<1>1. q \notin PanicTodos
  BY PanicFacts, Zenon
<1>2. PICK a, m, b \in Contexts :
        /\ a.locks = ls /\ (a.ready => r) /\ b.locks = {}
        /\ Leads(a, Head(q), m) /\ Path(m, Tail(q), b)
  <2>1. PICK a, m, b \in Contexts : Onward(q, ls, r, a, m, b)
    BY <1>1, PlanTail, Zenon
  <2> QED
    BY <2>1, Zenon DEF Onward
<1>3. Tail(q) \in Seq(LaterSteps(f))
  BY PlanTail, Zenon
<1>4. PICK n \in 0..MaxTables : Head(q) = Tables(n) /\ a.ready /\ Under(a, 3) /\ m = a
  BY <1>2, LeadsTables, Zenon
<1>5. Head(q).most = n
  BY <1>4, SMTT(60) DEF Tables
<1>6. Plan(Tail(q), a.locks, r, f)
  BY <1>2, <1>3, <1>4, RestPlan, Zenon
<1>7. ASSUME n > 0 PROVE Plan(PhysAlloc \o <<Tables(n - 1)>> \o Tail(q), ls, r, f)
  <2>1. n - 1 \in 0..MaxTables
    BY <1>7, KernelAssumption
  <2>2. Leads(a, Tables(n - 1), a)
    BY <1>4, <2>1, Zenon DEF Leads
  <2>3. Leg(f, a, <<Tables(n - 1)>>, a)
    BY <1>2, <2>1, <2>2, LegOne, LaterFacts, Zenon
  <2>4. Leg(f, a, PhysAlloc, a)
    BY <1>2, <1>4, PhysAllocLeg, Zenon
  <2>5. Leg(f, a, PhysAlloc \o <<Tables(n - 1)>>, a)
    BY <2>3, <2>4, LegConcat, Zenon
  <2> QED
    BY <1>2, <1>3, <1>4, <2>5, LegThenPlan, Zenon
<1> QED
  BY <1>2, <1>5, <1>6, <1>7, Zenon

(* A block is marked: its thread has the zone's lock, and it is free.      *)
LEMMA TakePlan ==
  ASSUME NEW q, NEW ls, NEW r, NEW f, Plan(q, ls, r, f), q # <<>>, Head(q).do = "take"
  PROVE  /\ Head(q).zone \in Zones /\ Head(q).block \in Blocks
         /\ ZONE(Head(q).zone) \in ls /\ Head(q).block \in f[Head(q).zone]
         /\ Plan(Tail(q), ls, r, f)
<1>1. q \notin PanicTodos
  BY PanicFacts, Zenon
<1>2. PICK a, m, b \in Contexts :
        /\ a.locks = ls /\ (a.ready => r) /\ b.locks = {}
        /\ Leads(a, Head(q), m) /\ Path(m, Tail(q), b)
  <2>1. PICK a, m, b \in Contexts : Onward(q, ls, r, a, m, b)
    BY <1>1, PlanTail, Zenon
  <2> QED
    BY <2>1, Zenon DEF Onward
<1>3. Tail(q) \in Seq(LaterSteps(f)) /\ Head(q).block \in f[Head(q).zone]
  BY PlanTail, Zenon DEF NextSteps
<1>4. PICK z \in Zones, c \in Blocks : Head(q) = Take(z, c) /\ ZONE(z) \in a.locks /\ m = a
  BY <1>2, LeadsTake, Zenon
<1>5. Head(q).zone = z /\ Head(q).block = c
  BY <1>4, SMTT(60) DEF Take
<1>6. Plan(Tail(q), a.locks, r, f)
  BY <1>2, <1>3, <1>4, RestPlan, Zenon
<1> QED
  BY <1>2, <1>3, <1>4, <1>5, <1>6, Zenon

(* What remains after a step, without the sequence that replaces nothing.  *)
LEMMA NothingThenRest ==
  ASSUME NEW q, NEW ls, NEW r, NEW f, Plan(q, ls, r, f), q # <<>>
  PROVE  <<>> \o Tail(q) = Tail(q)
<1>1. Tail(q) \in Seq(LaterSteps(f))
  BY PlanTail, Zenon
<1> QED
  BY <1>1

-----------------------------------------------------------------------------
(* The invariant *)

LEMMA InitInv == Init => IInv
<1> SUFFICES ASSUME Init PROVE IInv
  BY Zenon
<1>1. Types
  <2>1. free \in [Zones -> SUBSET Blocks]
    <3>1. free = [z \in Zones |-> ZoneBlocks[z]]
      BY KernelAssumption, Zenon DEF Init
    <3>2. \A z \in Zones : ZoneBlocks[z] \in SUBSET Blocks
      BY Zenon DEF Blocks
    <3> QED
      BY <3>1, <3>2, Zenon
  <2>2. given \in [Blocks -> Nat] /\ \A z \in Zones : free[z] \subseteq ZoneBlocks[z]
    BY Zenon DEF Init, Blocks
  <2>3. held \in [Locks -> SUBSET (Threads \X {"read", "write"})]
    BY Zenon DEF Init
  <2>4. calls \in [Threads -> 0..MaxCalls] /\ faults \in 0..MaxFaults
    BY KernelAssumption DEF Init
  <2>5. DOMAIN todo = Threads /\ todo = [t \in Threads |-> todo[t]]
    BY Zenon DEF Init
  <2> QED
    BY <2>1, <2>2, <2>3, <2>4, <2>5, Zenon DEF Init, Types
<1>2. \A t \in Threads : HeldBy(t) = {}
  BY Zenon DEF Init, HeldBy
<1>3. ASSUME NEW t \in Threads PROVE Plan(todo[t], HeldBy(t), init, free)
  <2>1. CASE t = Main
    BY <2>1, <1>2, BootPlan, Zenon DEF Init
  <2>2. CASE t # Main
    <3>1. todo[t] = <<>> /\ HeldBy(t) = {} /\ init = FALSE
      BY <2>2, <1>2, Zenon DEF Init
    <3>2. Leg(free, Idle(FALSE), <<>>, Idle(FALSE))
      <4>1. Idle(FALSE) \in Contexts /\ <<>> \in Seq(LaterSteps(free))
        BY DEF Idle, Contexts
      <4> QED
        BY <4>1, PathNil, Zenon DEF Leg
    <3> QED
      BY <3>1, <3>2, LegPlan, IdleFacts, Zenon
  <2> QED
    BY <2>1, <2>2, Zenon
<1>4. Guards /\ Given
  BY KernelAssumption DEF Init, Guards, Given, Blocks
<1> QED
  BY <1>1, <1>3, <1>4, Zenon DEF IInv, Plans, Init

(* A step of thread t that changes only what it has yet to do.             *)
LEMMA TodoStep ==
  ASSUME IInv, NEW t \in Threads, NEW q, todo' = [todo EXCEPT ![t] = q],
         Plan(q, HeldBy(t), init, free), UNCHANGED <<held, init, booted, free, given>>,
         calls' \in [Threads -> 0..MaxCalls], faults' \in 0..MaxFaults
  PROVE  IInv'
<1>1. Types'
  BY Zenon DEF IInv, Types
<1>2. \A u \in Threads : HeldBy(u)' = HeldBy(u)
  BY Zenon DEF HeldBy
<1>3. ASSUME NEW u \in Threads PROVE Plan(todo[u], HeldBy(u), init, free)'
  <2>1. todo'[u] = IF u = t THEN q ELSE todo[u]
    BY Zenon DEF IInv, Types
  <2>2. Plan(todo[u], HeldBy(u), init, free)
    BY Zenon DEF IInv, Plans
  <2>3. init' = init /\ free' = free /\ HeldBy(u)' = HeldBy(u)
    BY <1>2, Zenon
  <2>4. Plan(todo'[u], HeldBy(u)', init', free')
    BY <2>1, <2>2, <2>3, Zenon
  <2> QED
    BY <2>4, Zenon
<1>4. Guards' /\ Given' /\ (booted => init)'
  BY Zenon DEF IInv, Guards, Given
<1> QED
  BY <1>1, <1>3, <1>4, Zenon DEF IInv, Plans

(* The steps that only change what a thread has yet to do.                 *)
LEMMA ControlSteps ==
  ASSUME IInv, NEW t \in Threads,
         \/ Begin(t) \/ Breakpoint(t) \/ Fault(t) \/ DoPanic(t)
         \/ UnwrapZones(t) \/ NextZone(t) \/ ZoneAlloc(t)
         \/ NextZoneToFree(t) \/ ZoneFree(t) \/ NextTable(t)
  PROVE  IInv'
<1> DEFINE q == todo[t]
<1>1. /\ Plan(q, HeldBy(t), init, free) /\ (booted => init)
      /\ calls \in [Threads -> 0..MaxCalls] /\ faults \in 0..MaxFaults
      /\ \A z \in Zones : free[z] \subseteq Blocks
      /\ init \in BOOLEAN /\ DOMAIN given = Blocks
  BY Zenon DEF IInv, Plans, Types
<1>2. ASSUME q = <<>>, booted PROVE HeldBy(t) = {} /\ init = TRUE
  BY <1>1, <1>2, IdleHoldsNone, Zenon
<1>3. PanicHandler \in PanicTodos
  BY Zenon DEF PanicTodos
<1> HIDE DEF q
<1>4. CASE Begin(t)
  <2>1. q = <<>> /\ booted /\ calls[t] < MaxCalls
    BY <1>4, Zenon DEF Begin, q
  <2>2. PICK steps \in Operations : todo' = [todo EXCEPT ![t] = steps]
    BY <1>4, Zenon DEF Begin
  <2>3. Plan(steps, HeldBy(t), init, free)
    <3>1. \/ steps \in {PrintOut, Log, PhysAlloc, PhysAllocTooLarge, HeapDebug, MapTo, TranslateAddr}
          \/ steps \in HeapAlloc \cup HeapDealloc
          \/ \E c \in Blocks : steps = PhysFree(c)
      BY <1>1, <2>2, Zenon DEF Operations
    <3>2. Plan(steps, {}, TRUE, free)
      BY <3>1, OperationPlan, Zenon
    <3> QED
      BY <3>2, <1>2, <2>1, Zenon
  <2>4. calls' \in [Threads -> 0..MaxCalls] /\ faults' \in 0..MaxFaults
    BY <1>1, <1>4, <2>1, KernelAssumption DEF Begin
  <2> QED
    BY <2>2, <2>3, <2>4, <1>4, TodoStep, Zenon DEF Begin
<1>5. CASE Breakpoint(t)
  <2>1. q = <<>> /\ booted /\ todo' = [todo EXCEPT ![t] = Log]
    BY <1>5, Zenon DEF Breakpoint, q
  <2>2. Plan(Log, HeldBy(t), init, free)
    BY <1>2, <2>1, OperationPlan, Zenon
  <2>3. calls' \in [Threads -> 0..MaxCalls] /\ faults' \in 0..MaxFaults
    BY <1>1, <1>5, KernelAssumption DEF Breakpoint
  <2> QED
    BY <2>1, <2>2, <2>3, <1>5, TodoStep, Zenon DEF Breakpoint
<1>6. CASE Fault(t)
  <2>1. Plan(PanicHandler, HeldBy(t), init, free)
    BY <1>3, PanicPlan, Zenon
  <2>2. calls' \in [Threads -> 0..MaxCalls] /\ faults' \in 0..MaxFaults
    BY <1>1, <1>6, KernelAssumption DEF Fault
  <2> QED
    BY <2>1, <2>2, <1>6, TodoStep, Zenon DEF Fault
<1>7. CASE DoPanic(t)
  <2>1. Plan(PanicHandler, HeldBy(t), init, free)
    BY <1>3, PanicPlan, Zenon
  <2> QED
    BY <2>1, <1>1, <1>7, TodoStep, Zenon DEF DoPanic
<1>8. CASE UnwrapZones(t)
  <2>1. q # <<>> /\ Head(q).do = "unwrap"
    BY <1>8, Zenon DEF UnwrapZones, At, q
  <2>2. init /\ Plan(Tail(q), HeldBy(t), init, free) /\ <<>> \o Tail(q) = Tail(q)
    BY <1>1, <2>1, ZonesPlan, NothingThenRest, Zenon
  <2>3. todo' = [todo EXCEPT ![t] = <<>> \o Tail(q)]
    BY <1>8, <2>2, Zenon DEF UnwrapZones, Replace, q
  <2> QED
    BY <2>2, <2>3, <1>1, <1>8, TodoStep, Zenon DEF UnwrapZones
<1>9. CASE NextZone(t)
  <2>1. q # <<>> /\ Head(q).do = "try_zone"
    BY <1>9, Zenon DEF NextZone, At, q
  <2> DEFINE p == IF Head(q).zone \in Zones THEN <<Lock(ZONE(Head(q).zone)), Alloc(Head(q).zone)>>
                  ELSE <<Unlock(PMM), Panic("out of memory")>>
  <2>2. Plan(p \o Tail(q), HeldBy(t), init, free)
    BY <1>1, <2>1, TryZonePlan, Zenon
  <2>3. todo' = [todo EXCEPT ![t] = p \o Tail(q)]
    BY <1>9, Zenon DEF NextZone, Replace, q
  <2> HIDE DEF p
  <2> QED
    BY <2>2, <2>3, <1>1, <1>9, TodoStep, Zenon DEF NextZone
<1>10. CASE ZoneAlloc(t)
  <2>1. q # <<>> /\ Head(q).do = "alloc"
    BY <1>10, Zenon DEF ZoneAlloc, At, q
  <2>2. PICK p : todo' = [todo EXCEPT ![t] = p \o Tail(q)] /\ Plan(p \o Tail(q), HeldBy(t), init, free)
    <3>1. CASE \E c \in free[Head(q).zone] :
                 Replace(t, <<Take(Head(q).zone, c), Unlock(ZONE(Head(q).zone)), Unlock(PMM)>>)
      BY <3>1, <1>1, <2>1, AllocPlan, Zenon DEF Replace, q
    <3>2. CASE free[Head(q).zone] = {} /\ Replace(t, <<Unlock(ZONE(Head(q).zone)), TryZone(Head(q).zone + 1)>>)
      BY <3>2, <1>1, <2>1, AllocPlan, Zenon DEF Replace, q
    <3> QED
      BY <3>1, <3>2, <1>10, Zenon DEF ZoneAlloc, q
  <2> QED
    BY <2>2, <1>1, <1>10, TodoStep, Zenon DEF ZoneAlloc
<1>11. CASE NextZoneToFree(t)
  <2>1. q # <<>> /\ Head(q).do = "try_free"
    BY <1>11, Zenon DEF NextZoneToFree, At, q
  <2> DEFINE p == IF Head(q).zone \in Zones
                  THEN <<Lock(ZONE(Head(q).zone)), Free(Head(q).zone, Head(q).block)>>
                  ELSE <<Unlock(PMM), Panic("not managed")>>
  <2>2. Plan(p \o Tail(q), HeldBy(t), init, free)
    BY <1>1, <2>1, TryFreePlan, Zenon
  <2>3. todo' = [todo EXCEPT ![t] = p \o Tail(q)]
    BY <1>11, Zenon DEF NextZoneToFree, Replace, q
  <2> HIDE DEF p
  <2> QED
    BY <2>2, <2>3, <1>1, <1>11, TodoStep, ZenonT(60) DEF NextZoneToFree
<1>12. CASE ZoneFree(t)
  <2>1. q # <<>> /\ Head(q).do = "free"
    BY <1>12, Zenon DEF ZoneFree, At, q
  <2> DEFINE p == IF Head(q).block \in ZoneBlocks[Head(q).zone] THEN <<Panic("free order")>>
                  ELSE <<Unlock(ZONE(Head(q).zone)), TryFree(Head(q).zone + 1, Head(q).block)>>
  <2>2. Plan(p \o Tail(q), HeldBy(t), init, free)
    BY <1>1, <2>1, FreePlan, Zenon
  <2>3. todo' = [todo EXCEPT ![t] = p \o Tail(q)]
    BY <1>12, Zenon DEF ZoneFree, Replace, q
  <2> HIDE DEF p
  <2> QED
    BY <2>2, <2>3, <1>1, <1>12, TodoStep, Zenon DEF ZoneFree
<1>13. CASE NextTable(t)
  <2>1. q # <<>> /\ Head(q).do = "tables"
    BY <1>13, Zenon DEF NextTable, At, q
  <2>2. PICK p : todo' = [todo EXCEPT ![t] = p \o Tail(q)] /\ Plan(p \o Tail(q), HeldBy(t), init, free)
    <3>1. CASE Replace(t, <<>>)
      BY <3>1, <1>1, <2>1, TablesPlan, NothingThenRest, Zenon DEF Replace, q
    <3>2. CASE Head(q).most > 0 /\ Replace(t, PhysAlloc \o <<Tables(Head(q).most - 1)>>)
      BY <3>2, <1>1, <2>1, TablesPlan, Zenon DEF Replace, q
    <3> QED
      BY <3>1, <3>2, <1>13, Zenon DEF NextTable, q
  <2> QED
    BY <2>2, <1>1, <1>13, TodoStep, Zenon DEF NextTable
<1> QED
  BY <1>4, <1>5, <1>6, <1>7, <1>8, <1>9, <1>10, <1>11, <1>12, <1>13, Zenon

(* kernel_main's processor ends.                                           *)
LEMMA FinishStep == ASSUME IInv, Finish PROVE IInv'
<1>1. PanicHandler \in PanicTodos
  BY Zenon DEF PanicTodos
<1>2. todo' = [todo EXCEPT ![Main] = PanicHandler] /\ Main \in Threads
  BY KernelAssumption, Zenon DEF Finish, PanicHandler
<1>3. Plan(PanicHandler, HeldBy(Main), init, free)
  BY <1>1, PanicPlan, Zenon
<1> QED
  BY <1>2, <1>3, TodoStep, Zenon DEF Finish, IInv, Types

(* A lock is taken.                                                        *)
LEMMA AcquireStep == ASSUME IInv, NEW t \in Threads, Acquire(t) PROVE IInv'
<1> DEFINE q == todo[t]
           l == Head(q).lock
           mode == Head(q).do
<1>1. Types /\ Guards /\ Given /\ (booted => init) /\ \A u \in Threads : Plan(todo[u], HeldBy(u), init, free)
  BY Zenon DEF IInv, Plans
<1>2. q # <<>> /\ mode \in {"write", "read"} /\ CanTake(Head(q))
  BY Zenon DEF Acquire, At
<1>3. /\ l \in Locks /\ (mode = "read" => l \in {PMM, TABLE})
      /\ Plan(Tail(q), HeldBy(t) \cup {l}, init, free) /\ <<>> \o Tail(q) = Tail(q)
  BY <1>1, <1>2, LockPlan, NothingThenRest, Zenon
<1>4. held' = [held EXCEPT ![l] = @ \cup {<<t, mode>>}] /\ todo' = [todo EXCEPT ![t] = Tail(q)]
  BY <1>3, Zenon DEF Acquire, Replace
<1>5. UNCHANGED <<init, booted, free, given, calls, faults>>
  BY Zenon DEF Acquire
<1>6. IF mode = "write" THEN held[l] = {} ELSE \A g \in held[l] : g[2] = "read"
  BY <1>2, Zenon DEF CanTake
<1> HIDE DEF q, l, mode
<1>7. /\ held \in [Locks -> SUBSET (Threads \X {"read", "write"})]
      /\ \A k \in Locks : held'[k] = IF k = l THEN held[l] \cup {<<t, mode>>} ELSE held[k]
  BY <1>1, <1>3, <1>4, Zenon DEF Types
<1>8. Types'
  <2>1. held' \in [Locks -> SUBSET (Threads \X {"read", "write"})]
    BY <1>2, <1>3, <1>4, <1>7
  <2>2. (DOMAIN todo = Threads /\ todo = [u \in Threads |-> todo[u]])'
    BY <1>1, <1>4, Zenon DEF Types
  <2> QED
    BY <1>1, <1>5, <2>1, <2>2, Zenon DEF Types
<1>9. /\ HeldBy(t)' = HeldBy(t) \cup {l}
      /\ \A u \in Threads : u # t => HeldBy(u)' = HeldBy(u)
  <2>1. ASSUME NEW u \in Threads, NEW k \in Locks
        PROVE  (\E g \in held'[k] : g[1] = u) <=> (\E g \in held[k] : g[1] = u) \/ (u = t /\ k = l)
    <3>1. CASE k = l
      <4>1. <<t, mode>>[1] = t /\ held'[k] = held[k] \cup {<<t, mode>>}
        BY <3>1, <1>7, Zenon
      <4> QED
        BY <3>1, <4>1, Zenon
    <3>2. CASE k # l
      BY <3>2, <1>7, Zenon
    <3> QED
      BY <3>1, <3>2, Zenon
  <2> QED
    BY <2>1, <1>3, Zenon DEF HeldBy
<1>10. ASSUME NEW u \in Threads PROVE Plan(todo[u], HeldBy(u), init, free)'
  <2>1. todo'[u] = IF u = t THEN Tail(q) ELSE todo[u]
    BY <1>1, <1>4, Zenon DEF Types
  <2>2. HeldBy(u)' = IF u = t THEN HeldBy(t) \cup {l} ELSE HeldBy(u)
    BY <1>9, Zenon
  <2>3. Plan(todo'[u], HeldBy(u)', init', free')
    BY <2>1, <2>2, <1>1, <1>3, <1>5, Zenon
  <2> QED
    BY <2>3, Zenon
<1>11. Guards'
  <2>1. ASSUME NEW k \in Locks, NEW g \in held'[k]
        PROVE  (g[2] = "write" => held'[k] = {g}) /\ (k \notin {PMM, TABLE} => g[2] = "write")
    <3>1. CASE k # l
      BY <3>1, <1>1, <1>7, <2>1, Zenon DEF Guards
    <3>2. CASE k = l /\ mode = "write"
      <4>1. held'[k] = {<<t, mode>>}
        BY <3>2, <1>6, <1>7, Zenon
      <4> QED
        BY <4>1, <2>1, <3>2
    <3>3. CASE k = l /\ mode = "read"
      <4>1. g[2] = "read"
        BY <3>3, <1>6, <1>7, <2>1
      <4> QED
        BY <4>1, <3>3, <1>3, Zenon
    <3> QED
      BY <3>1, <3>2, <3>3, <1>2, Zenon
  <2> QED
    BY <2>1, Zenon DEF Guards
<1>12. Given' /\ (booted => init)'
  BY <1>1, <1>5, Zenon DEF Given
<1> QED
  BY <1>8, <1>10, <1>11, <1>12, Zenon DEF IInv, Plans

(* A guard is dropped.                                                     *)
LEMMA ReleaseStep == ASSUME IInv, NEW t \in Threads, Release(t) PROVE IInv'
<1> DEFINE q == todo[t]
           l == Head(q).lock
<1>1. Types /\ Guards /\ Given /\ (booted => init) /\ \A u \in Threads : Plan(todo[u], HeldBy(u), init, free)
  BY Zenon DEF IInv, Plans
<1>2. q # <<>> /\ Head(q).do = "unlock"
  BY Zenon DEF Release, At
<1>3. /\ l \in Locks /\ Plan(Tail(q), HeldBy(t) \ {l}, init, free) /\ <<>> \o Tail(q) = Tail(q)
  BY <1>1, <1>2, UnlockPlan, NothingThenRest, Zenon
<1>4. held' = [held EXCEPT ![l] = @ \ ({t} \X {"read", "write"})] /\ todo' = [todo EXCEPT ![t] = Tail(q)]
  BY <1>3, Zenon DEF Release, Replace
<1>5. UNCHANGED <<init, booted, free, given, calls, faults>>
  BY Zenon DEF Release
<1> HIDE DEF q, l
<1>7. /\ held \in [Locks -> SUBSET (Threads \X {"read", "write"})]
      /\ \A k \in Locks : held'[k] = IF k = l THEN held[l] \ ({t} \X {"read", "write"}) ELSE held[k]
  BY <1>1, <1>3, <1>4, Zenon DEF Types
<1>8. Types'
  <2>1. held' \in [Locks -> SUBSET (Threads \X {"read", "write"})]
    BY <1>3, <1>4, <1>7, Zenon
  <2>2. (DOMAIN todo = Threads /\ todo = [u \in Threads |-> todo[u]])'
    BY <1>1, <1>4, Zenon DEF Types
  <2> QED
    BY <1>1, <1>5, <2>1, <2>2, Zenon DEF Types
<1>9. /\ HeldBy(t)' = HeldBy(t) \ {l}
      /\ \A u \in Threads : u # t => HeldBy(u)' = HeldBy(u)
  <2>1. \A g \in held[l] : g \in {t} \X {"read", "write"} <=> g[1] = t
    BY <1>3, <1>7
  <2>2. ASSUME NEW u \in Threads, NEW k \in Locks
        PROVE  (\E g \in held'[k] : g[1] = u) <=> (\E g \in held[k] : g[1] = u) /\ ~(u = t /\ k = l)
    BY <2>1, <1>3, <1>7, Zenon
  <2> QED
    BY <2>2, ZenonT(60) DEF HeldBy
<1>10. ASSUME NEW u \in Threads PROVE Plan(todo[u], HeldBy(u), init, free)'
  <2>1. todo'[u] = IF u = t THEN Tail(q) ELSE todo[u]
    BY <1>1, <1>4, Zenon DEF Types
  <2>2. HeldBy(u)' = IF u = t THEN HeldBy(t) \ {l} ELSE HeldBy(u)
    BY <1>9, Zenon
  <2>3. Plan(todo'[u], HeldBy(u)', init', free')
    BY <2>1, <2>2, <1>1, <1>3, <1>5, Zenon
  <2> QED
    BY <2>3, Zenon
<1>11. Guards'
  <2>1. \A k \in Locks : held'[k] \subseteq held[k]
    BY <1>7, Zenon
  <2> QED
    BY <2>1, <1>1 DEF Guards
<1>12. Given' /\ (booted => init)'
  BY <1>1, <1>5, Zenon DEF Given
<1> QED
  BY <1>8, <1>10, <1>11, <1>12, Zenon DEF IInv, Plans

(* The zones are stored, and the boot ends.                                *)
LEMMA PublishStep == ASSUME IInv, NEW t \in Threads, PublishZones(t) PROVE IInv'
<1> DEFINE q == todo[t]
<1>1. Types /\ Guards /\ Given /\ (booted => init) /\ \A u \in Threads : Plan(todo[u], HeldBy(u), init, free)
  BY Zenon DEF IInv, Plans
<1>2. UNCHANGED <<held, free, given, calls, faults>> /\ q # <<>>
  BY Zenon DEF PublishZones, At
<1>3. /\ Plan(Tail(q), HeldBy(t), init', free) /\ <<>> \o Tail(q) = Tail(q)
      /\ init' \in BOOLEAN /\ booted' \in BOOLEAN /\ (init => init') /\ (booted' => init')
  <2>1. CASE At(t, "set_zones") /\ init' = TRUE /\ UNCHANGED booted
    BY <2>1, <1>1, <1>2, ZonesPlan, NothingThenRest, Zenon DEF At, Types
  <2>2. CASE At(t, "booted") /\ booted' = TRUE /\ UNCHANGED init
    <3>1. Head(q).do \in {"booted", "unwrap"} /\ init \in BOOLEAN
      BY <2>2, <1>1, Zenon DEF At, Types
    <3>2. init /\ Plan(Tail(q), HeldBy(t), init, free)
      BY <3>1, <1>1, <1>2, ZonesPlan, Zenon
    <3> QED
      BY <3>1, <3>2, <2>2, <1>1, <1>2, NothingThenRest, Zenon
  <2> QED
    BY <2>1, <2>2, Zenon DEF PublishZones
<1>4. todo' = [todo EXCEPT ![t] = Tail(q)]
  BY <1>3, Zenon DEF PublishZones, Replace
<1> HIDE DEF q
<1>5. Types'
  BY <1>1, <1>2, <1>3, <1>4, Zenon DEF Types
<1>6. ASSUME NEW u \in Threads PROVE Plan(todo[u], HeldBy(u), init, free)'
  <2>1. todo'[u] = IF u = t THEN Tail(q) ELSE todo[u]
    BY <1>1, <1>4, Zenon DEF Types
  <2>2. HeldBy(u)' = HeldBy(u) /\ free' = free
    BY <1>2, Zenon DEF HeldBy
  <2>3. CASE u = t
    BY <2>1, <2>2, <2>3, <1>3, Zenon
  <2>4. CASE u # t
    <3>1. Plan(todo[u], HeldBy(u), init, free)
      BY <1>1, Zenon
    <3>2. todo[u] # <<>> /\ Head(todo[u]).do = "take" => Head(todo[u]).block \in free[Head(todo[u]).zone]
      BY <3>1, TakePlan, Zenon
    <3>3. Plan(todo[u], HeldBy(u), init', free)
      BY <3>1, <3>2, <1>3, PlanStays
    <3> QED
      BY <2>1, <2>2, <2>4, <3>3, Zenon
  <2> QED
    BY <2>3, <2>4, Zenon
<1>7. Guards' /\ Given'
  BY <1>1, <1>2, Zenon DEF Guards, Given
<1> QED
  BY <1>3, <1>5, <1>6, <1>7, Zenon DEF IInv, Plans

(* A block is marked: no other thread has the zone's lock, so none is      *)
(* about to mark the same one.                                             *)
LEMMA TakeStep == ASSUME IInv, NEW t \in Threads, ZoneTake(t) PROVE IInv'
<1> DEFINE q == todo[t]
           z == Head(q).zone
           c == Head(q).block
<1>1. Types /\ Guards /\ Given /\ (booted => init) /\ \A u \in Threads : Plan(todo[u], HeldBy(u), init, free)
  BY Zenon DEF IInv, Plans
<1>2. q # <<>> /\ Head(q).do = "take"
  BY Zenon DEF ZoneTake, At
<1>3. /\ z \in Zones /\ c \in Blocks /\ ZONE(z) \in HeldBy(t) /\ c \in free[z]
      /\ Plan(Tail(q), HeldBy(t), init, free) /\ <<>> \o Tail(q) = Tail(q)
  BY <1>1, <1>2, TakePlan, NothingThenRest, Zenon
<1>4. /\ free' = [free EXCEPT ![z] = @ \ {c}] /\ given' = [given EXCEPT ![c] = @ + 1]
      /\ todo' = [todo EXCEPT ![t] = Tail(q)]
  BY <1>3, Zenon DEF ZoneTake, Replace
<1>5. UNCHANGED <<held, init, booted, calls, faults>>
  BY Zenon DEF ZoneTake
<1> HIDE DEF q, z, c
<1>6. /\ free \in [Zones -> SUBSET Blocks] /\ given \in [Blocks -> Nat]
      /\ \A y \in Zones : free'[y] = IF y = z THEN free[z] \ {c} ELSE free[y]
      /\ \A b \in Blocks : given'[b] = IF b = c THEN given[c] + 1 ELSE given[b]
  BY <1>1, <1>3, <1>4, Zenon DEF Types
<1>7. Types'
  <2>1. free' \in [Zones -> SUBSET Blocks] /\ given' \in [Blocks -> Nat]
    BY <1>3, <1>4, <1>6
  <2>2. \A y \in Zones : free'[y] \subseteq ZoneBlocks[y]
    BY <1>1, <1>6, Zenon DEF Types
  <2>3. (DOMAIN todo = Threads /\ todo = [u \in Threads |-> todo[u]])'
    BY <1>1, <1>4, Zenon DEF Types
  <2> QED
    BY <1>1, <1>5, <2>1, <2>2, <2>3, Zenon DEF Types
<1>8. Given'
  <2>1. given[c] = 0
    BY <1>1, <1>3, Zenon DEF Given
  <2>2. \A b \in Blocks : given'[b] <= 1
    BY <2>1, <1>1, <1>6 DEF Given
  <2>3. ASSUME NEW y \in Zones, NEW b \in free'[y] PROVE given'[b] = 0
    <3>1. b \in free[y] /\ given[b] = 0 /\ b \in Blocks
      BY <2>3, <1>1, <1>6, Zenon DEF Given
    <3>2. b # c
      <4>1. free[y] \subseteq ZoneBlocks[y] /\ free[z] \subseteq ZoneBlocks[z]
        BY <1>1, <1>3, Zenon DEF Types
      <4> QED
        BY <4>1, <3>1, <2>3, <1>3, <1>6, KernelAssumption, ZenonT(60)
    <3> QED
      BY <3>1, <3>2, <1>6, Zenon
  <2> QED
    BY <2>2, <2>3, Zenon DEF Given
<1>9. ASSUME NEW u \in Threads PROVE Plan(todo[u], HeldBy(u), init, free)'
  <2>1. todo'[u] = IF u = t THEN Tail(q) ELSE todo[u]
    BY <1>1, <1>4, Zenon DEF Types
  <2>2. HeldBy(u)' = HeldBy(u) /\ init' = init
    BY <1>5, Zenon DEF HeldBy
  <2>3. \A y \in Zones : free'[y] \subseteq free[y]
    BY <1>6, Zenon
  <2>4. Plan(todo'[u], HeldBy(u), init, free)
    BY <2>1, <1>1, <1>3, Zenon
  <2>5. ASSUME todo'[u] # <<>>, Head(todo'[u]).do = "take"
        PROVE  Head(todo'[u]).block \in free'[Head(todo'[u]).zone]
    <3>1. /\ Head(todo'[u]).zone \in Zones /\ ZONE(Head(todo'[u]).zone) \in HeldBy(u)
          /\ Head(todo'[u]).block \in free[Head(todo'[u]).zone]
      BY <2>4, <2>5, TakePlan, Zenon
    <3>2. CASE u = t
      <4>1. Tail(q) \in Seq(LaterSteps(free)) /\ Tail(q) # <<>>
        BY <3>2, <2>1, <2>5, <1>1, <1>2, PlanTail, Zenon DEF q
      <4>2. Head(Tail(q)) \in LaterSteps(free)
        BY <4>1, SMTT(60)
      <4> QED
        BY <4>2, <3>2, <2>1, <2>5, Zenon DEF LaterSteps
    <3>3. CASE u # t /\ Head(todo'[u]).zone = z
      <4>1. ZONE(z) \in Locks /\ ZONE(z) \notin {PMM, TABLE}
        <5>1. ZONE(z) \in Locks /\ Rank(ZONE(z)) = 4 /\ Rank(PMM) = 3 /\ Rank(TABLE) = 1
          BY <1>3, LockFacts, Zenon
        <5> QED
          BY <5>1, SMTT(60)
      <4>2. PICK g \in held[ZONE(z)] : g[1] = t
        BY <1>3, Zenon DEF HeldBy
      <4>3. PICK h \in held[ZONE(z)] : h[1] = u
        BY <3>1, <3>3, Zenon DEF HeldBy
      <4>4. g[2] = "write" /\ held[ZONE(z)] = {g}
        BY <4>1, <4>2, <1>1, Zenon DEF Guards
      <4> QED
        BY <4>2, <4>3, <4>4, <3>3, Zenon
    <3>4. CASE Head(todo'[u]).zone # z
      BY <3>1, <3>4, <1>6, Zenon
    <3> QED
      BY <3>2, <3>3, <3>4, Zenon
  <2>6. Plan(todo'[u], HeldBy(u), init, free')
    <3> DEFINE w == todo'[u]
               f == free'
    <3>1. /\ Plan(w, HeldBy(u), init, free) /\ \A y \in Zones : f[y] \subseteq free[y]
          /\ w # <<>> /\ Head(w).do = "take" => Head(w).block \in f[Head(w).zone]
      BY <2>3, <2>4, <2>5, Zenon
    <3> HIDE DEF w, f
    <3>2. Plan(w, HeldBy(u), init, f)
      BY <3>1, PlanStays, SMTT(60)
    <3> QED
      BY <3>2, Zenon DEF w, f
  <2> QED
    BY <2>2, <2>6, Zenon
<1>10. Guards' /\ (booted => init)'
  BY <1>1, <1>5, Zenon DEF Guards
<1> QED
  BY <1>7, <1>8, <1>9, <1>10, Zenon DEF IInv, Plans

(* Every step preserves the invariant.                                     *)
LEMMA StepInv == IInv /\ [Next]_vars => IInv'
<1> SUFFICES ASSUME IInv, [Next]_vars PROVE IInv'
  BY Zenon
<1>1. CASE UNCHANGED vars
  <2>1. \A u \in Threads : HeldBy(u)' = HeldBy(u)
    BY <1>1, Zenon DEF vars, HeldBy
  <2> QED
    BY <1>1, <2>1, Zenon DEF vars, IInv, Types, Plans, Guards, Given
<1>2. ASSUME NEW t \in Threads, Step(t) \/ Begin(t) \/ Breakpoint(t) \/ Fault(t) PROVE IInv'
  BY <1>2, ControlSteps, AcquireStep, ReleaseStep, PublishStep, TakeStep, Zenon DEF Step
<1> QED
  BY <1>1, <1>2, FinishStep, Zenon DEF Next

(* Each thread's remaining steps lead from the locks that it holds to none,*)
(* taking locks in the order of their ranks, or are what is left of the    *)
(* panic handler; guards exclude; a free block was never handed out; and   *)
(* whoever goes on to the next zone has seen the earlier ones exhausted.   *)
THEOREM KernelInvariant == Spec => []IInv
BY InitInv, StepInv, PTL DEF Spec

(* The types, in every reachable state.                                    *)
THEOREM KernelTyped == Spec => []TypeOK
<1>1. IInv => TypeOK
  <2> SUFFICES ASSUME IInv PROVE TypeOK
    BY Zenon
  <2>1. ASSUME NEW s \in Steps, "lock" \in DOMAIN s PROVE s.lock \in Locks
    BY <2>1, SMTT(60) DEF Steps, Lock, Read, Unlock, SetZones, Booted, Unwrap, Halt, Tables,
                TryZone, Alloc, TryFree, Free, Take, Panic
  <2>2. \A t \in Threads : \A i \in DOMAIN todo[t] : todo[t][i] \in Steps
    BY DEF IInv, Plans, Plan
  <2> QED
    BY <2>1, <2>2, Zenon DEF IInv, Types, TypeOK
<1> QED
  BY <1>1, KernelInvariant, PTL

(* No block is handed out twice, for any number of processors and zones:   *)
(* choosing a block and marking it are one under the zone's lock.          *)
THEOREM GivenOnce == Spec => []BlocksGivenOnce
<1>1. IInv => BlocksGivenOnce
  BY Zenon DEF IInv, Types, Given, BlocksGivenOnce
<1> QED
  BY <1>1, KernelInvariant, PTL

(* PhysAllocator::alloc panics only when every zone is exhausted, although *)
(* it looks at one zone at a time, and never on the unwrap of the zones.   *)
THEOREM PanicsOnlyIfExhausted == Spec => []AllocPanicsOnlyIfExhausted
<1>1. IInv => AllocPanicsOnlyIfExhausted
  <2> SUFFICES ASSUME IInv, NEW t \in Threads, At(t, "panic")
               PROVE  /\ Head(todo[t]).why # "unwrap"
                      /\ Head(todo[t]).why = "out of memory" => \A z \in Zones : free[z] = {}
    BY Zenon DEF AllocPanicsOnlyIfExhausted
  <2>1. Head(todo[t]).do = "panic" /\ Head(todo[t]) \in NextSteps(free)
    BY Zenon DEF IInv, Plans, Plan, At
  <2>2. Sound(Head(todo[t]), free)
    BY <2>1, Zenon DEF NextSteps
  <2>3. \A z \in Zones : z < NumZones + 1
    BY KernelAssumption, SMTT(60) DEF Zones
  <2> QED
    BY <2>1, <2>2, <2>3, Zenon DEF Sound, Exhausted
<1> QED
  BY <1>1, KernelInvariant, PTL

-----------------------------------------------------------------------------
(* No circular wait *)

(* A blocked thread waits for a lock above all that it holds, unless it    *)
(* panicked.                                                               *)
LEMMA BlockedFacts ==
  ASSUME IInv, NEW t \in Threads, Blocked(t)
  PROVE  /\ todo[t] # <<>> /\ Head(todo[t]).lock \in Locks
         /\ \/ todo[t] \in PanicTodos /\ Head(todo[t]).lock = SCREEN
            \/ \A l \in HeldBy(t) : Rank(l) < Rank(Head(todo[t]).lock)
<1>1. todo[t] # <<>> /\ Head(todo[t]).do \in {"write", "read"}
  BY Zenon DEF Blocked, At
<1>2. Plan(todo[t], HeldBy(t), init, free)
  BY Zenon DEF IInv, Plans
<1>3. /\ Head(todo[t]).lock \in Locks
      /\ todo[t] \notin PanicTodos => \A l \in HeldBy(t) : Rank(l) < Rank(Head(todo[t]).lock)
  BY <1>1, <1>2, LockPlan, Zenon
<1>4. ASSUME todo[t] \in PanicTodos PROVE Head(todo[t]).lock = SCREEN
  <2>1. Head(todo[t]) = Lock(SCREEN)
    BY <1>1, <1>4, PanicFacts, DoFacts, Zenon
  <2> QED
    BY <2>1 DEF Lock
<1> QED
  BY <1>1, <1>3, <1>4, Zenon

(* A thread that another waits for is not blocked, or waits for a lock of  *)
(* higher rank, or was lost in print.                                      *)
LEMMA WaitsUp ==
  ASSUME IInv, NEW x \in Threads, NEW y \in Threads, WaitsFor(x, y), Blocked(y)
  PROVE  Rank(Head(todo[x]).lock) < Rank(Head(todo[y]).lock) \/ LostInPrint(y)
<1> DEFINE l == Head(todo[x]).lock
<1>1. l \in Locks /\ \E g \in held[l] : g[1] = y
  BY BlockedFacts, Zenon DEF WaitsFor
<1>2. l \in HeldBy(y)
  BY <1>1, Zenon DEF HeldBy
<1>3. CASE todo[y] \in PanicTodos /\ Head(todo[y]).lock = SCREEN /\ l = SCREEN
  <2>1. PICK g \in held[SCREEN] : g[1] = y
    BY <1>1, <1>3, Zenon
  <2>2. SCREEN \in Locks /\ SCREEN \notin {PMM, TABLE}
    <3>1. SCREEN \in Locks /\ Rank(SCREEN) = 5 /\ Rank(PMM) = 3 /\ Rank(TABLE) = 1
      BY LockFacts, Zenon
    <3> QED
      BY <3>1
  <2>3. g[2] = "write" /\ g \in Threads \X {"read", "write"}
    BY <2>1, <2>2, Zenon DEF IInv, Guards, Types
  <2>4. g = <<y, "write">>
    BY <2>1, <2>3, SMTT(60)
  <2>5. Panicking(y)
    BY <1>3, PanicFacts, Zenon DEF Panicking
  <2> QED
    BY <2>1, <2>4, <2>5, Zenon DEF LostInPrint
<1>4. CASE todo[y] \in PanicTodos /\ Head(todo[y]).lock = SCREEN /\ l # SCREEN
  BY <1>1, <1>4, LockFacts, SMTT(60)
<1>5. CASE \A k \in HeldBy(y) : Rank(k) < Rank(Head(todo[y]).lock)
  BY <1>2, <1>5, Zenon
<1> QED
  BY <1>3, <1>4, <1>5, BlockedFacts, Zenon

(* The locks nest without a cycle, for any number of processors: a thread  *)
(* that waits for itself, directly or through others, panicked in the      *)
(* middle of a print.                                                      *)
THEOREM LocksNest == Spec => []NoCircularWait
<1>1. IInv => NoCircularWait
  <2> SUFFICES ASSUME IInv, NEW t \in Threads, WaitsOn(t, t) PROVE LostInPrint(t)
    BY Zenon DEF NoCircularWait
  <2>1. Blocked(t)
    <3>1. SUFFICES ASSUME ~Blocked(t) PROVE FALSE
      BY Zenon
    <3>2. \A x \in {} \cup {t} : \A y \in Threads : WaitsFor(x, y) => y \in {}
      BY <3>1, Zenon DEF WaitsFor
    <3>3. {} \in SUBSET Threads
      BY Zenon
    <3>4. t \in {}
      BY <3>2, <3>3, Zenon DEF WaitsOn
    <3> QED
      BY <3>4, Zenon
  <2> DEFINE r(u) == Rank(Head(todo[u]).lock)
             S == {u \in Threads : Blocked(u) => r(t) < r(u) \/ LostInPrint(u)}
  <2>2. \A u \in Threads : Blocked(u) => r(u) \in 1..5
    BY BlockedFacts, LockFacts, Zenon
  <2>3. \A u \in Threads : LostInPrint(u) => Blocked(u)
    BY Zenon DEF LostInPrint
  <2>4. \A u \in Threads : LostInPrint(u) => r(u) = 5
    <3> SUFFICES ASSUME NEW u \in Threads, LostInPrint(u) PROVE r(u) = 5
      BY Zenon
    <3>1. Blocked(u) /\ <<u, "write">> \in held[SCREEN] /\ <<u, "write">>[1] = u /\ SCREEN \in Locks
      BY LockFacts, Zenon DEF LostInPrint
    <3>2. SCREEN \in HeldBy(u)
      BY <3>1, Zenon DEF HeldBy
    <3>3. Head(todo[u]).lock = SCREEN \/ 5 < r(u)
      BY <3>1, <3>2, BlockedFacts, LockFacts, Zenon
    <3>4. r(u) \in 1..5 /\ Rank(SCREEN) = 5
      BY <3>1, <2>2, LockFacts, Zenon
    <3>5. CASE Head(todo[u]).lock = SCREEN
      BY <3>4, <3>5, Zenon
    <3>6. CASE 5 < r(u)
      BY <3>4, <3>6
    <3> QED
      BY <3>3, <3>5, <3>6, Zenon
  <2>5. ASSUME NEW x \in S \cup {t}, NEW y \in Threads, WaitsFor(x, y) PROVE y \in S
    <3>1. x \in Threads /\ Blocked(x)
      BY <2>5, Zenon DEF WaitsFor
    <3>2. SUFFICES ASSUME Blocked(y), ~LostInPrint(y) PROVE r(t) < r(y)
      BY Zenon
    <3>3. r(x) < r(y)
      BY <2>5, <3>1, <3>2, WaitsUp, Zenon
    <3>4. r(x) \in 1..5 /\ r(y) \in 1..5 /\ r(t) \in 1..5
      BY <2>1, <2>2, <3>1, <3>2, Zenon
    <3>5. ~LostInPrint(x)
      BY <2>4, <3>1, <3>3, <3>4, SMTT(60)
    <3>6. x = t \/ r(t) < r(x)
      BY <2>5, <3>1, <3>5, Zenon
    <3> HIDE DEF r
    <3> QED
      BY <3>3, <3>4, <3>6, SMTT(60)
  <2>6. S \in SUBSET Threads
    BY Zenon
  <2> HIDE DEF S
  <2>7. t \in S
    BY <2>5, <2>6, Zenon DEF WaitsOn
  <2> QED
    BY <2>1, <2>2, <2>7 DEF S
<1> QED
  BY <1>1, KernelInvariant, PTL
=============================================================================
