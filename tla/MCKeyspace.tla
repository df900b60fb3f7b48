---------------------------- MODULE MCKeyspace ----------------------------
(***************************************************************************)
(* Instances of Keyspace for TLC.  PlainNames: no key has a NUL byte.      *)
(* CutNames: the name k3 has a NUL byte and is cut to the name k1.         *)
(***************************************************************************)
EXTENDS Keyspace, TLC

CONSTANTS k1, k2, k3

PlainNames == [k \in Key |-> k]
CutNames == [k \in Key |-> IF k = k3 THEN k1 ELSE k]

(* 0, one and two seconds, a negative number and a word that is not one. *)
SecondsArgs == {NotAnInteger, -1, 0, 1, 2}
=============================================================================
