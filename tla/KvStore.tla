------------------------------- MODULE KvStore -------------------------------
(***************************************************************************)
(* kv_store_t: 2^num_dicts_bits dictionaries created on demand, with the   *)
(* counters that every insertion and deletion maintains: the number of     *)
(* keys, of dictionaries created, of dictionaries in use, and a binary     *)
(* indexed tree (dict_size_index) of the sizes of the dictionaries.        *)
(*                                                                         *)
(* Only the names in a dictionary matter here; what they map to is the     *)
(* subject of module Keyspace.                                             *)
(***************************************************************************)
EXTENDS Integers, FiniteSets

CONSTANTS
  Key,                \* names
  NumDictsBits,       \* num_dicts_bits, at most 16
  AllocateOnDemand,   \* the flag KVSTORE_ALLOCATE_DICTS_ON_DEMAND
  MaxNonEmpty         \* bound on non_empty_dicts, which drifts upwards

ASSUME KvStoreAssumption ==
  /\ IsFiniteSet(Key)
  /\ NumDictsBits \in 0 .. 16
  /\ AllocateOnDemand \in BOOLEAN
  /\ MaxNonEmpty \in Nat

VARIABLES
  dicts,            \* the names in each dictionary
  created,          \* the indices whose dictionary is not NULL
  key_count,
  allocated_dicts,
  non_empty_dicts,
  dict_size_index,  \* unsigned long long [num_dicts + 1], entry 0 unused
  proc              \* "up", or "aborted" once an assertion failed

vars == <<dicts, created, key_count, allocated_dicts, non_empty_dicts, dict_size_index, proc>>

(* 1 << b *)
Pow2[b \in 0 .. NumDictsBits] == IF b = 0 THEN 1 ELSE 2 * Pow2[b - 1]

num_dicts == Pow2[NumDictsBits]
Didx == 0 .. num_dicts - 1
TreeIdx == 1 .. num_dicts

-----------------------------------------------------------------------------
(* kv_store_create *)
Init ==
  /\ dicts = [d \in Didx |-> {}]
  /\ created = IF AllocateOnDemand THEN {} ELSE Didx
  /\ allocated_dicts = IF AllocateOnDemand THEN 0 ELSE num_dicts
  /\ key_count = 0
  /\ non_empty_dicts = 0
  /\ dict_size_index = [i \in TreeIdx |-> 0]
  /\ proc = "up"

(* idx & -idx, the lowest bit that is set in idx. *)
LowBit(i) == CHOOSE p \in {Pow2[b] : b \in 0 .. NumDictsBits} : i % (2 * p) = p

(* The entries that the loop of cumulative_key_count_add visits from idx. *)
TreePath[i \in TreeIdx] ==
  {i} \cup IF i + LowBit(i) \in TreeIdx THEN TreePath[i + LowBit(i)] ELSE {}

(* Wrong variant: the loop condition is idx < num_dicts. *)
VisitedEntriesShort(d) == IF num_dicts = 1 THEN {} ELSE TreePath[d + 1] \ {num_dicts}

(* The tree entries an insertion into or deletion from dictionary d        *)
(* changes; a store with one dictionary has no tree.                       *)
VisitedEntries(d) == IF num_dicts = 1 THEN {} ELSE TreePath[d + 1]

(* Wrong variant: a dictionary of size 1 counts as unused. *)
NonEmptyDeltaLow(dsize) == IF dsize <= 1 THEN -1 ELSE 0

(* A dictionary went to size 1: one more in use; to size 0: one less.  The *)
(* direction of the change is not looked at.                               *)
NonEmptyDelta(dsize) == IF dsize = 1 THEN 1 ELSE IF dsize = 0 THEN -1 ELSE 0

(* cumulative_key_count_add, called after dictionary d changed to ns.  An  *)
(* entry of the tree that would become negative aborts the process.        *)
cumulative_key_count_add(d, ns, delta) ==
  LET path == VisitedEntries(d)
  IN /\ key_count' = key_count + delta
     /\ non_empty_dicts' = non_empty_dicts + NonEmptyDelta(Cardinality(ns))
     /\ dict_size_index' = [i \in TreeIdx |->
                              dict_size_index[i] + IF i \in path THEN delta ELSE 0]
     /\ proc' = IF \E i \in path : dict_size_index[i] + delta < 0 THEN "aborted" ELSE proc

kv_store_create_dict_if_needed(d) ==
  /\ created' = created \cup {d}
  /\ allocated_dicts' = allocated_dicts + IF d \in created THEN 0 ELSE 1

(* Wrong variant: a name that is there is counted again. *)
kv_store_dict_add_raw_recount(d, k) ==
  /\ proc = "up"
  /\ kv_store_create_dict_if_needed(d)
  /\ dicts' = [dicts EXCEPT ![d] = @ \cup {k}]
  /\ key_count < Cardinality(Key) * num_dicts + 2
  /\ cumulative_key_count_add(d, dicts[d] \cup {k}, 1)

(* kv_store_dict_add_raw: the dictionary is created if needed, also when   *)
(* the name turns out to be there already.                                 *)
kv_store_dict_add_raw(d, k) ==
  /\ proc = "up"
  /\ kv_store_create_dict_if_needed(d)
  /\ dicts' = [dicts EXCEPT ![d] = @ \cup {k}]
  /\ \/ /\ k \notin dicts[d]
        /\ cumulative_key_count_add(d, dicts[d] \cup {k}, 1)
     \/ /\ k \in dicts[d]
        /\ UNCHANGED <<key_count, non_empty_dicts, dict_size_index, proc>>

(* Wrong variant: the count is taken although dict_delete_key failed. *)
kv_store_dict_delete_key_always(d, k) ==
  /\ proc = "up"
  /\ d \in created
  /\ non_empty_dicts < MaxNonEmpty
  /\ dicts' = [dicts EXCEPT ![d] = @ \ {k}]
  /\ cumulative_key_count_add(d, dicts[d] \ {k}, -1)
  /\ UNCHANGED <<created, allocated_dicts>>

(* kv_store_dict_delete_key: DICT_ERR when the dictionary or the name is   *)
(* missing, which changes nothing.                                         *)
kv_store_dict_delete_key(d, k) ==
  /\ proc = "up"
  /\ d \in created /\ k \in dicts[d]
  /\ non_empty_dicts < MaxNonEmpty
  /\ dicts' = [dicts EXCEPT ![d] = @ \ {k}]
  /\ cumulative_key_count_add(d, dicts[d] \ {k}, -1)
  /\ UNCHANGED <<created, allocated_dicts>>

Next ==
  \E d \in Didx, k \in Key :
    kv_store_dict_add_raw(d, k) \/ kv_store_dict_delete_key(d, k)

Spec == Init /\ [][Next]_vars
-----------------------------------------------------------------------------
(* Properties *)

TypeOK ==
  /\ dicts \in [Didx -> SUBSET Key]
  /\ created \in SUBSET Didx
  /\ key_count \in Nat
  /\ allocated_dicts \in Nat
  /\ non_empty_dicts \in Int
  /\ dict_size_index \in [TreeIdx -> Nat]
  /\ proc \in {"up", "aborted"}

Entries == {e \in Didx \X Key : e[2] \in dicts[e[1]]}
NonEmpty == {d \in Didx : dicts[d] # {}}

(* key_count is the number of names in all dictionaries. *)
KeyCountExact == key_count = Cardinality(Entries)

(* A dictionary that was never created is empty, and allocated_dicts is    *)
(* the number of those created: an insertion never goes to a NULL pointer. *)
AllocatedExact ==
  /\ allocated_dicts = Cardinality(created)
  /\ NonEmpty \subseteq created

(* Each entry of the tree counts the names whose insertion visits it, so   *)
(* that no deletion finds an entry at zero.                                *)
Visiting(i) == {e \in Entries : i \in VisitedEntries(e[1])}

TreeCountsItsVisitors == \A i \in TreeIdx : dict_size_index[i] = Cardinality(Visiting(i))

(* Summing the tree the way it is read (idx -= idx & -idx) gives, for      *)
(* every prefix of the dictionaries, the number of names in it.            *)
PrefixSum[i \in 0 .. num_dicts] ==
  IF i = 0 THEN 0 ELSE dict_size_index[i] + PrefixSum[i - LowBit(i)]

TreeSumsArePrefixSums ==
  num_dicts > 1 =>
    \A i \in TreeIdx : PrefixSum[i] = Cardinality({e \in Entries : e[1] < i})

(* The assertion of cumulative_key_count_add never fails. *)
TreeNeverUnderflows == proc # "aborted"

(* non_empty_dicts never understates the number of dictionaries in use. *)
NonEmptyNeverUnderstated == non_empty_dicts >= Cardinality(NonEmpty)
=============================================================================
