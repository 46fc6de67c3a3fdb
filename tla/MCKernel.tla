------------------------------ MODULE MCKernel ------------------------------
(* Kernel with one block in each zone.                                     *)
EXTENDS Kernel

MCZoneBlocks == [z \in 1..NumZones |-> {z}]
=============================================================================
