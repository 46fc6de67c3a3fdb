---------------------------- MODULE MCBootMemory ----------------------------
(* BootMemory with the memory maps of three entries, side by side or with  *)
(* a hole, and one without usable memory.                                  *)
EXTENDS BootMemory

CONSTANTS Sizes, Types, Holes

Entries(a, b, c, type, hole) ==
  <<[addr |-> 1, size |-> a, region_type |-> "Usable"],
    [addr |-> 1 + a, size |-> b, region_type |-> type],
    [addr |-> 1 + a + b + hole, size |-> c, region_type |-> "Bootloader"]>>

MCMemoryMaps ==
  {Entries(a, b, c, type, hole) : a, b, c \in Sizes, type \in Types, hole \in Holes}
    \cup {<<[addr |-> 0, size |-> 4, region_type |-> "InUse"]>>}
=============================================================================
