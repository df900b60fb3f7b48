-------------------------- MODULE MCStringObjects --------------------------
(***************************************************************************)
(* Instance of StringObjects for TLC: the keys, values and deadlines of    *)
(* MCKeyspace, and memory for four objects: the two values, an argument of *)
(* a half-read request, and one that is being created or was lost.  No     *)
(* name is cut, so keys, values and objects are interchangeable.           *)
(***************************************************************************)
EXTENDS StringObjects, MCKeyspace

Interchangeable == Permutations(Key) \cup Permutations(Val) \cup Permutations(Object)
=============================================================================
