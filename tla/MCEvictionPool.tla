--------------------------- MODULE MCEvictionPool ---------------------------
(***************************************************************************)
(* Instance of EvictionPool for TLC: three slots, a clock that wraps after *)
(* four ticks, a short and a long name.  Addresses are interchangeable.    *)
(***************************************************************************)
EXTENDS EvictionPool, TLC

Interchangeable == Permutations(Sds)
=============================================================================
