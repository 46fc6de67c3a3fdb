---------------------------- MODULE BlockSource -----------------------------
(***************************************************************************)
(* What a zone promises, without a tree: each block it gives is aligned to *)
(* its size, starts inside the zone and meets no block given before; it    *)
(* refuses an order only when no block of that order is left inside the    *)
(* zone.  Zone implements this specification.                              *)
(***************************************************************************)
EXTENDS Integers

CONSTANTS MaxOrder, BlockPages, Sizes

VARIABLES
  num_pages,    \* the pages of the zone
  allocated,    \* the blocks given
  refused       \* the orders refused

vars == <<num_pages, allocated, refused>>

Block(o, i) ==
  [order |-> o, first |-> BlockPages[o] * i, last |-> BlockPages[o] * (i + 1) - 1]

Meets(b, c) == b.first <= c.last /\ c.first <= b.last

Init == num_pages \in Sizes /\ allocated = {} /\ refused = {}

Give(b) ==
  /\ b.first < num_pages
  /\ \A c \in allocated : ~Meets(b, c)
  /\ allocated' = allocated \cup {b}
  /\ UNCHANGED <<num_pages, refused>>

Refuse(o) ==
  /\ \A i \in 0..(num_pages - 1) :
       Block(o, i).last < num_pages => \E c \in allocated : Meets(Block(o, i), c)
  /\ refused' = refused \cup {o}
  /\ UNCHANGED <<num_pages, allocated>>

Next ==
  \E o \in 0..MaxOrder :
    \/ \E i \in 0..(num_pages - 1) : Give(Block(o, i))
    \/ Refuse(o)

Spec == Init /\ [][Next]_vars
=============================================================================
