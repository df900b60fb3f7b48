----------------------------- MODULE MCKvStore -----------------------------
(* Instances of KvStore for TLC. *)
EXTENDS KvStore, TLC

(* Names are interchangeable: a dictionary is only a set of them. *)
KeySymmetry == Permutations(Key)
=============================================================================
