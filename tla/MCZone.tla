------------------------------- MODULE MCZone -------------------------------
(* Zone with the powers of two up to 2^MaxOrder.                           *)
EXTENDS Zone

MCBlockPages == [o \in 0..MaxOrder |-> 2^o]
=============================================================================
