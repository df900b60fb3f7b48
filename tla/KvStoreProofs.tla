---------------------------- MODULE KvStoreProofs ----------------------------
(***************************************************************************)
(* Proofs about KvStore, for any number of names and dictionaries.         *)
(*                                                                         *)
(* The inductive invariant counts sets: each counter is the cardinality of *)
(* a set of entries, and an insertion or deletion adds or removes exactly  *)
(* one element of the sets whose counters it moves.                        *)
(***************************************************************************)
EXTENDS KvStore, Induction, FiniteSetTheorems, TLAPS

(* The variables have their shapes, before any counting. *)
Shape ==
  /\ dicts \in [Didx -> SUBSET Key]
  /\ created \in SUBSET Didx
  /\ key_count \in Int
  /\ allocated_dicts \in Int
  /\ non_empty_dicts \in Int
  /\ dict_size_index \in [TreeIdx -> Int]
  /\ proc = "up"

IInv ==
  /\ Shape
  /\ KeyCountExact
  /\ AllocatedExact
  /\ TreeCountsItsVisitors
  /\ NonEmptyNeverUnderstated

-----------------------------------------------------------------------------
(* The size tree *)

(* The powers of two up to the number of dictionaries. *)
LEMMA Powers ==
  /\ Pow2 \in [0 .. NumDictsBits -> Nat \ {0}]
  /\ Pow2[0] = 1
  /\ \A b \in 1 .. NumDictsBits : Pow2[b] = 2 * Pow2[b - 1]
<1> DEFINE n == NumDictsBits
           S == Nat \ {0}
           prev == [i \in 1 .. n |-> i - 1]
           step == [i \in 1 .. n |-> [x \in S |-> 2 * x]]
<1>0. n \in Nat /\ n = NumDictsBits /\ S = Nat \ {0}
  BY KvStoreAssumption
<1>a. n \in Nat /\ 1 \in S
  BY <1>0
<1>1. IsRecursion(n, S, prev, step)
  BY <1>0 DEF IsRecursion
<1>2. \A i \in 1 .. n : prev[i] = i - 1 /\ \A x \in S : step[i][x] = 2 * x
  BY <1>0
<1> HIDE DEF n, S, prev, step
<1>3. PICK f \in [0 .. n -> S] : Solves(f, n, S, 1, prev, step)
  BY <1>a, <1>1, RecursionExists
<1>4. ASSUME NEW i \in 1 .. n PROVE f[i] = 2 * f[i - 1]
  <2>1. f[i - 1] \in S
    BY <1>0
  <2>2. prev[i] = i - 1
    BY <1>2
  <2>3. f[i] = step[i][f[i - 1]]
    BY <1>3, <2>1, <2>2 DEF Solves
  <2> QED
    BY <1>2, <2>1, <2>3
<1>5. f[0] = 1
  BY <1>3 DEF Solves
<1>6. f = [b \in 0 .. NumDictsBits |-> IF b = 0 THEN 1 ELSE 2 * f[b - 1]]
  BY <1>0, <1>4, <1>5
<1>7. Pow2 = [b \in 0 .. NumDictsBits |-> IF b = 0 THEN 1 ELSE 2 * Pow2[b - 1]]
  BY <1>6, Zenon DEF Pow2
<1>8. Pow2[0] = 1 /\ \A i \in 1 .. n : Pow2[i] = 2 * Pow2[i - 1]
  BY <1>0, <1>7
<1>9. Solves(Pow2, n, S, 1, prev, step)
  <2>1. ASSUME NEW i \in 1 .. n, Pow2[prev[i]] \in S PROVE Pow2[i] = step[i][Pow2[prev[i]]]
    <3>1. prev[i] = i - 1 /\ step[i][Pow2[prev[i]]] = 2 * Pow2[prev[i]]
      BY <1>2, <2>1
    <3> QED
      BY <1>8, <3>1
  <2> QED
    BY <1>8, <2>1 DEF Solves
<1>10. \A i \in 0 .. n : Pow2[i] = f[i]
  <2>1. Agree(f, Pow2, n)
    BY <1>a, <1>1, <1>3, <1>9, RecursionUnique
  <2> QED
    BY <2>1 DEF Agree
<1>11. Pow2 \in [0 .. NumDictsBits -> Nat \ {0}]
  <2>1. \A i \in 0 .. n : Pow2[i] \in Nat \ {0}
    BY <1>0, <1>10
  <2> QED
    BY <1>0, <1>7, <2>1
<1> QED
  BY <1>0, <1>8, <1>11

(* A smaller power of two divides a larger one an even number of times. *)
LEMMA PowerDivides ==
  ASSUME NEW a \in 0 .. NumDictsBits, NEW b \in 0 .. NumDictsBits, a < b
  PROVE  \E c \in Nat \ {0} : Pow2[b] = Pow2[a] * (2 * c)
<1> DEFINE T == {n \in Nat : a + n + 1 <= NumDictsBits =>
                   \E c \in Nat \ {0} : Pow2[a + n + 1] = Pow2[a] * (2 * c)}
<1>0. NumDictsBits \in Nat
  BY KvStoreAssumption
<1>1. 0 \in T
  <2> SUFFICES ASSUME a + 1 <= NumDictsBits PROVE \E c \in Nat \ {0} : Pow2[a + 1] = Pow2[a] * (2 * c)
    OBVIOUS
  <2>1. Pow2[a + 1] = 2 * Pow2[a] /\ Pow2[a] \in Nat
    BY <1>0, Powers
  <2>2. Pow2[a + 1] = Pow2[a] * (2 * 1)
    BY <2>1
  <2> QED
    BY <2>2
<1>2. ASSUME NEW n \in T PROVE n + 1 \in T
  <2> SUFFICES ASSUME a + n + 2 <= NumDictsBits
               PROVE  \E c \in Nat \ {0} : Pow2[a + n + 2] = Pow2[a] * (2 * c)
    OBVIOUS
  <2>1. PICK c \in Nat \ {0} : Pow2[a + n + 1] = Pow2[a] * (2 * c)
    BY <1>0
  <2>2. Pow2[a + n + 2] = 2 * Pow2[a + n + 1] /\ Pow2[a] \in Nat
    BY <1>0, Powers
  <2>3. Pow2[a + n + 2] = Pow2[a] * (2 * (2 * c)) /\ 2 * c \in Nat \ {0}
    BY <2>1, <2>2
  <2> QED
    BY <2>3, Zenon
<1>3. T = Nat
  <2> T \in SUBSET Nat
    OBVIOUS
  <2> HIDE DEF T
  <2> QED
    BY <1>1, <1>2, SetInduction
<1>4. b - a - 1 \in T
  <2> b - a - 1 \in Nat
    OBVIOUS
  <2> HIDE DEF T
  <2> QED
    BY <1>3
<1>5. a + (b - a - 1) + 1 = b /\ b <= NumDictsBits
  BY <1>0
<1> QED
  BY <1>4, <1>5

(* Arithmetic of multiples. *)
LEMMA Cancel ==
  ASSUME NEW m \in Nat \ {0}, NEW u \in Int, NEW v \in Int
  PROVE  /\ m * u < m * v <=> u < v
         /\ m * u <= m * v <=> u <= v
OBVIOUS

(* The remainder of a number written as a quotient and a rest. *)
LEMMA Remainder ==
  ASSUME NEW m \in Nat \ {0}, NEW q \in Nat, NEW r \in 0 .. m - 1
  PROVE  (m * q + r) % m = r
OBVIOUS

(* Every number has a quotient and a remainder. *)
LEMMA Division ==
  ASSUME NEW m \in Nat \ {0}, NEW i \in Nat
  PROVE  i \div m \in Nat /\ i % m \in 0 .. m - 1 /\ i = m * (i \div m) + (i % m)
OBVIOUS

(* Every index of the tree is an odd multiple of its lowest bit. *)
LEMMA LowBitIs ==
  ASSUME NEW i \in TreeIdx
  PROVE  \E b \in 0 .. NumDictsBits, q \in Nat : LowBit(i) = Pow2[b] /\ i = Pow2[b] * (2 * q + 1)
<1> DEFINE P == {Pow2[b] : b \in 0 .. NumDictsBits}
           T == {b \in 0 .. NumDictsBits : i % (2 * Pow2[b]) # 0}
<1>0. NumDictsBits \in Nat /\ i \in Nat \ {0} /\ i <= Pow2[NumDictsBits]
  BY KvStoreAssumption, Powers DEF TreeIdx, num_dicts
<1>1. NumDictsBits \in T
  <2>1. Pow2[NumDictsBits] \in Nat \ {0}
    BY <1>0, Powers
  <2> DEFINE m == 2 * Pow2[NumDictsBits]
  <2>2. m \in Nat \ {0} /\ i \in 0 .. m - 1 /\ m * 0 + i = i
    BY <1>0, <2>1
  <2> HIDE DEF m
  <2>3. i % m = i
    BY <2>2, Remainder
  <2> QED
    BY <1>0, <2>3 DEF m
<1>2. PICK b \in T : \A c \in T : b <= c
  <2> T \in SUBSET Nat
    OBVIOUS
  <2> HIDE DEF T
  <2> QED
    BY <1>1, LeastMember
<1> DEFINE p == Pow2[b]
<1>3. p \in Nat \ {0} /\ b \in 0 .. NumDictsBits /\ i % (2 * p) # 0
  BY Powers
<1>4. i % p = 0
  <2>1. CASE b = 0
    BY <1>0, <2>1, Powers
  <2>2. CASE b # 0
    <3>1. b - 1 \in 0 .. NumDictsBits /\ b - 1 \notin T
      <4>1. b - 1 \in 0 .. NumDictsBits /\ ~(b <= b - 1)
        BY <1>0, <2>2
      <4> HIDE DEF T
      <4> QED
        BY <1>2, <4>1
    <3>2. p = 2 * Pow2[b - 1]
      <4>1. b \in 1 .. NumDictsBits
        BY <1>0, <2>2
      <4> QED
        BY <4>1, Powers
    <3>3. i % (2 * Pow2[b - 1]) = 0
      BY <3>1
    <3> QED
      BY <3>2, <3>3
  <2> QED
    BY <2>1, <2>2
<1> HIDE DEF p, T
<1>5. PICK r \in Nat : i = p * r
  <2>1. i \div p \in Nat /\ i = p * (i \div p) + 0
    BY <1>0, <1>3, <1>4, Division, Zenon
  <2>2. i = p * (i \div p)
    BY <1>3, <2>1
  <2> QED
    BY <2>1, <2>2
<1>6. PICK q \in Nat : r = 2 * q + 1
  <2>1. PICK q \in Nat : r = 2 * q \/ r = 2 * q + 1
    <3>1. r \div 2 \in Nat /\ (r = 2 * (r \div 2) \/ r = 2 * (r \div 2) + 1)
      OBVIOUS
    <3> QED
      BY <3>1
  <2>2. ASSUME r = 2 * q PROVE FALSE
    <3> DEFINE m == 2 * p
    <3>1. m \in Nat \ {0} /\ i = m * q + 0 /\ 0 \in 0 .. m - 1
      BY <1>3, <1>5, <2>2
    <3> HIDE DEF m
    <3>2. i % m = 0
      BY <3>1, Remainder
    <3> QED
      BY <1>3, <3>2 DEF m
  <2> QED
    BY <2>1, <2>2
<1>7. i = p * (2 * q + 1)
  BY <1>5, <1>6
<1>8. ASSUME NEW c \in Nat \ {0}, NEW s \in Nat, i = c * (2 * s + 1)
      PROVE  i % (2 * c) = c
  <2> DEFINE m == 2 * c
  <2>1. m \in Nat \ {0} /\ i = m * s + c /\ c \in 0 .. m - 1
    BY <1>8
  <2> HIDE DEF m
  <2>2. i % m = c
    BY <2>1, Remainder
  <2> QED
    BY <2>2 DEF m
<1>9. p \in P /\ i % (2 * p) = p
  BY <1>3, <1>7, <1>8 DEF p
<1>10. LowBit(i) \in P /\ i % (2 * LowBit(i)) = LowBit(i)
  <2> HIDE DEF P
  <2>1. \E x \in P : i % (2 * x) = x
    BY <1>9
  <2>2. LowBit(i) = CHOOSE x \in P : i % (2 * x) = x
    BY DEF LowBit, P
  <2> QED
    BY <2>1, <2>2
<1>11. PICK d \in 0 .. NumDictsBits : LowBit(i) = Pow2[d]
  BY <1>10
<1>12. \E s \in Nat : i = Pow2[d] * (2 * s + 1)
  <2> DEFINE c == Pow2[d]
             m == 2 * c
             s == i \div m
  <2>1. c \in Nat \ {0} /\ m \in Nat \ {0}
    BY Powers
  <2>2. i % m = c
    BY <1>10, <1>11
  <2> HIDE DEF m, c
  <2>3. s \in Nat /\ i = m * s + c
    BY <1>0, <2>1, <2>2, Division, Zenon
  <2> HIDE DEF s
  <2>4. i = c * (2 * s + 1)
    BY <2>1, <2>3 DEF m
  <2> QED
    BY <2>3, <2>4 DEF c
<1> QED
  BY <1>11, <1>12

(* One turn of the loop of cumulative_key_count_add: the entries j whose   *)
(* range, the LowBit(j) indices up to j, has k are k itself and those      *)
(* whose range has the next index that the loop visits.                    *)
LEMMA NextInRange ==
  ASSUME NEW k \in TreeIdx, NEW j \in TreeIdx
  PROVE  (j - LowBit(j) < k /\ k <= j)
           <=> (j = k \/ (j - LowBit(j) < k + LowBit(k) /\ k + LowBit(k) <= j))
<1> DEFINE p == LowBit(k)
           q == LowBit(j)
<1>1. PICK a \in 0 .. NumDictsBits, x \in Nat : p = Pow2[a] /\ k = Pow2[a] * (2 * x + 1)
  BY LowBitIs
<1>2. PICK b \in 0 .. NumDictsBits, y \in Nat : q = Pow2[b] /\ j = Pow2[b] * (2 * y + 1)
  BY LowBitIs
<1>3. p \in Nat \ {0} /\ q \in Nat \ {0} /\ a \in Nat /\ b \in Nat
  BY <1>1, <1>2, Powers
<1>4. k = p * (2 * x + 1) /\ k + p = p * (2 * x + 2)
  BY <1>1, <1>3
<1>5. j = q * (2 * y + 1) /\ j - q = q * (2 * y)
  BY <1>2, <1>3
<1> HIDE DEF p, q
<1> SUFFICES (j - q < k /\ k <= j) <=> (j = k \/ (j - q < k + p /\ k + p <= j))
  BY DEF p, q
<1>6. CASE a = b
  <2>1. p = q
    BY <1>1, <1>2, <1>6
  <2>2. /\ j - q < k <=> 2 * y < 2 * x + 1
        /\ k <= j <=> 2 * x + 1 <= 2 * y + 1
        /\ j - q < k + p <=> 2 * y < 2 * x + 2
        /\ k + p <= j <=> 2 * x + 2 <= 2 * y + 1
    BY <1>3, <1>4, <1>5, <2>1, Cancel
  <2>3. x = y => j = k
    BY <1>4, <1>5, <2>1
  <2>4. j = k => j - q < k
    BY <1>3, <1>4, <1>5
  <2> QED
    BY <1>3, <1>4, <1>5, <2>2, <2>3, <2>4
<1>7. CASE a < b
  <2>1. PICK c \in Nat \ {0} : q = p * (2 * c)
    BY <1>1, <1>2, <1>7, PowerDivides
  <2> DEFINE u == c * (2 * y)
             v == c * (2 * y + 1)
  <2>2. u \in Nat /\ v \in Nat /\ j - q = p * (2 * u) /\ j = p * (2 * v)
    BY <1>3, <1>5, <2>1
  <2> HIDE DEF u, v
  <2>3. /\ j - q < k <=> 2 * u < 2 * x + 1
        /\ k <= j <=> 2 * x + 1 <= 2 * v
        /\ j - q < k + p <=> 2 * u < 2 * x + 2
        /\ k + p <= j <=> 2 * x + 2 <= 2 * v
    BY <1>3, <1>4, <2>2, Cancel
  <2>4. j = k => j - q < k /\ k <= j
    BY <1>3, <1>4, <1>5
  <2> QED
    BY <2>2, <2>3, <2>4
<1>8. CASE b < a
  <2>1. PICK c \in Nat \ {0} : p = q * (2 * c)
    BY <1>1, <1>2, <1>8, PowerDivides
  <2> DEFINE u == c * (2 * x + 1)
             v == c * (2 * x + 2)
  <2>2. u \in Nat /\ v \in Nat /\ k = q * (2 * u) /\ k + p = q * (2 * v)
    BY <1>3, <1>4, <2>1
  <2> HIDE DEF u, v
  <2>3. /\ j - q < k <=> 2 * y < 2 * u
        /\ k <= j <=> 2 * u <= 2 * y + 1
        /\ j - q < k + p <=> 2 * y < 2 * v
        /\ k + p <= j <=> 2 * v <= 2 * y + 1
    BY <1>3, <1>5, <2>2, Cancel
  <2>4. j = k => j - q < k /\ k <= j
    BY <1>3, <1>4, <1>5
  <2> QED
    BY <2>2, <2>3, <2>4
<1> QED
  BY <1>3, <1>6, <1>7, <1>8

(* The indices that the entry j of the tree adds up. *)
InRange(j, k) == j - LowBit(j) < k /\ k <= j

(* LowBit(i) is between 1 and i. *)
LEMMA LowBitBounds ==
  ASSUME NEW i \in TreeIdx
  PROVE  LowBit(i) \in Nat \ {0} /\ LowBit(i) <= i /\ i \in Nat /\ InRange(i, i)
<1>1. PICK b \in 0 .. NumDictsBits, q \in Nat : LowBit(i) = Pow2[b] /\ i = Pow2[b] * (2 * q + 1)
  BY LowBitIs
<1>2. LowBit(i) \in Nat \ {0} /\ i = LowBit(i) * (2 * q + 1)
  BY <1>1, Powers
<1>3. LowBit(i) * 1 <= LowBit(i) * (2 * q + 1)
  BY <1>2, Cancel
<1>4. i \in Nat
  BY <1>2
<1> QED
  BY <1>2, <1>3, <1>4 DEF InRange

(* The loop of cumulative_key_count_add, started at k, visits exactly the  *)
(* entries that add up a range with k in it.                               *)
LEMMA TreePathIs ==
  ASSUME NEW k \in TreeIdx
  PROVE  TreePath[k] = {j \in TreeIdx : InRange(j, k)}
<1> DEFINE F == [i \in TreeIdx |-> {j \in TreeIdx : InRange(j, i)}]
           Succ(i) == i + LowBit(i)
<1>0. num_dicts \in Nat \ {0} /\ TreeIdx = 1 .. num_dicts
  BY KvStoreAssumption, Powers DEF num_dicts, TreeIdx
<1>1. ASSUME NEW i \in TreeIdx
      PROVE  F[i] = {i} \cup IF Succ(i) \in TreeIdx THEN F[Succ(i)] ELSE {}
  <2>1. ASSUME NEW j \in TreeIdx
        PROVE  InRange(j, i) <=> (j = i \/ InRange(j, Succ(i)))
    BY NextInRange DEF InRange
  <2>2. LowBit(i) \in Nat \ {0} /\ i \in Nat
    BY LowBitBounds
  <2>3. ASSUME Succ(i) \notin TreeIdx, NEW j \in TreeIdx PROVE ~InRange(j, Succ(i))
    BY <1>0, <2>2, <2>3 DEF InRange
  <2>4. CASE Succ(i) \in TreeIdx
    BY <2>1, <2>4
  <2>5. CASE Succ(i) \notin TreeIdx
    BY <2>1, <2>3, <2>5
  <2> QED
    BY <2>4, <2>5
<1>2. F = [i \in TreeIdx |-> {i} \cup IF i + LowBit(i) \in TreeIdx THEN F[i + LowBit(i)] ELSE {}]
  <2> HIDE DEF F
  <2>1. F = [i \in TreeIdx |-> F[i]]
    BY DEF F
  <2> QED
    BY <1>1, <2>1
<1>3. TreePath = [i \in TreeIdx |->
                    {i} \cup IF i + LowBit(i) \in TreeIdx THEN TreePath[i + LowBit(i)] ELSE {}]
  <2> HIDE DEF F
  <2> QED
    BY <1>2, Zenon DEF TreePath
<1> DEFINE T == {n \in Nat : n < num_dicts /\ TreePath[num_dicts - n] # F[num_dicts - n]}
<1>4. ASSUME T # {} PROVE FALSE
  <2>1. PICK n \in T : \A m \in T : n <= m
    <3> T \in SUBSET Nat
      OBVIOUS
    <3> HIDE DEF T
    <3> QED
      BY <1>4, LeastMember
  <2> DEFINE i == num_dicts - n
  <2>2. i \in TreeIdx /\ TreePath[i] # F[i]
    BY <1>0
  <2>3. LowBit(i) \in Nat \ {0}
    BY <2>2, LowBitBounds
  <2>4. CASE Succ(i) \in TreeIdx
    <3> DEFINE m == num_dicts - Succ(i)
    <3>1. m \in Nat /\ m < n /\ m < num_dicts /\ num_dicts - m = Succ(i)
      BY <1>0, <2>3, <2>4
    <3>2. TreePath[Succ(i)] = F[Succ(i)]
      <4> HIDE DEF F, m, Succ
      <4> QED
        BY <2>1, <3>1
    <3> HIDE DEF F, i
    <3> QED
      BY <1>1, <1>3, <2>2, <2>4, <3>2
  <2>5. CASE Succ(i) \notin TreeIdx
    <3> HIDE DEF F, i
    <3> QED
      BY <1>1, <1>3, <2>2, <2>5
  <2> QED
    BY <2>4, <2>5
<1>5. TreePath[k] = F[k]
  <2>1. num_dicts - k \in Nat /\ num_dicts - k < num_dicts /\ num_dicts - (num_dicts - k) = k
    BY <1>0
  <2> HIDE DEF F
  <2> QED
    BY <1>4, <2>1
<1> QED
  BY <1>5

(* There is at least one dictionary, and finitely many. *)
LEMMA DidxFinite == num_dicts \in Nat \ {0} /\ IsFiniteSet(Didx)
BY KvStoreAssumption, Powers, FS_Interval DEF Didx, num_dicts

(* The loop of cumulative_key_count_add stays inside the tree. *)
LEMMA VisitedInTree == ASSUME NEW d \in Didx PROVE VisitedEntries(d) \in SUBSET TreeIdx
<1>1. d + 1 \in TreeIdx
  BY DidxFinite DEF Didx, TreeIdx
<1> QED
  BY <1>1, TreePathIs DEF VisitedEntries

(* The sets that are counted are finite. *)
LEMMA CountedFinite ==
  ASSUME Shape
  PROVE  /\ IsFiniteSet(Entries)
         /\ IsFiniteSet(created)
         /\ IsFiniteSet(NonEmpty)
         /\ \A i \in TreeIdx : IsFiniteSet(Visiting(i))
         /\ \A d \in Didx : IsFiniteSet(dicts[d])
<1>1. IsFiniteSet(Didx \X Key)
  BY DidxFinite, KvStoreAssumption, FS_Product
<1>2. IsFiniteSet(Entries)
  BY <1>1, FS_Subset DEF Entries
<1>3. ASSUME NEW i \in TreeIdx PROVE IsFiniteSet(Visiting(i))
  BY <1>2, FS_Subset DEF Visiting
<1>4. IsFiniteSet(created) /\ IsFiniteSet(NonEmpty)
  BY DidxFinite, FS_Subset DEF Shape, NonEmpty
<1>5. ASSUME NEW d \in Didx PROVE IsFiniteSet(dicts[d])
  BY KvStoreAssumption, FS_Subset DEF Shape
<1> QED
  BY <1>2, <1>3, <1>4, <1>5

(* An empty store has exact counters. *)
LEMMA InitIInv == Init => IInv
<1> SUFFICES ASSUME Init PROVE IInv
  OBVIOUS
<1>1. Shape
  BY DidxFinite DEF Init, Shape, Didx, TreeIdx
<1>2. Entries = {} /\ NonEmpty = {}
  BY DEF Init, Entries, NonEmpty
<1>3. \A i \in TreeIdx : Visiting(i) = {}
  BY <1>2 DEF Visiting
<1>4. allocated_dicts = Cardinality(created)
  <2>1. Cardinality(Didx) = num_dicts
    BY DidxFinite, FS_Interval DEF Didx
  <2> QED
    BY <2>1, FS_EmptySet DEF Init
<1> QED
  BY <1>1, <1>2, <1>3, <1>4, FS_EmptySet
     DEF IInv, KeyCountExact, AllocatedExact, TreeCountsItsVisitors, NonEmptyNeverUnderstated, Init

(* Inserting a name: when it is there already only the creation of the     *)
(* dictionary could count, and that dictionary exists.                     *)
LEMMA AddPreserves ==
  ASSUME IInv, NEW d \in Didx, NEW k \in Key, kv_store_dict_add_raw(d, k)
  PROVE  IInv'
<1> USE DEF IInv
<1>0. Shape
  OBVIOUS
<1>1. CASE k \in dicts[d]
  <2>1. dicts' = dicts
    BY <1>0, <1>1 DEF kv_store_dict_add_raw, kv_store_create_dict_if_needed, Shape
  <2>2. /\ created' = created \cup {d}
        /\ allocated_dicts' = allocated_dicts + IF d \in created THEN 0 ELSE 1
        /\ UNCHANGED <<key_count, non_empty_dicts, dict_size_index, proc>>
    BY <1>1 DEF kv_store_dict_add_raw, kv_store_create_dict_if_needed
  <2>3. d \in created
    BY <1>0, <1>1 DEF AllocatedExact, NonEmpty, Shape
  <2>4. created' = created /\ allocated_dicts' = allocated_dicts
    BY <1>0, <2>2, <2>3 DEF Shape
  <2> QED
    BY <2>1, <2>2, <2>4, Zenon
       DEF Shape, KeyCountExact, AllocatedExact, TreeCountsItsVisitors, NonEmptyNeverUnderstated,
           Entries, NonEmpty, Visiting
<1>2. CASE k \notin dicts[d]
  <2>1. /\ dicts' = [dicts EXCEPT ![d] = @ \cup {k}]
        /\ created' = created \cup {d}
        /\ allocated_dicts' = allocated_dicts + IF d \in created THEN 0 ELSE 1
        /\ key_count' = key_count + 1
        /\ non_empty_dicts' = non_empty_dicts + NonEmptyDelta(Cardinality(dicts[d] \cup {k}))
        /\ dict_size_index' = [i \in TreeIdx |->
             dict_size_index[i] + IF i \in VisitedEntries(d) THEN 1 ELSE 0]
        /\ proc' = IF \E i \in VisitedEntries(d) : dict_size_index[i] + 1 < 0
                     THEN "aborted" ELSE proc
    BY <1>2 DEF kv_store_dict_add_raw, kv_store_create_dict_if_needed, cumulative_key_count_add
  <2>2. Entries' = Entries \cup {<<d, k>>} /\ <<d, k>> \notin Entries
    BY <1>0, <1>2, <2>1 DEF Entries, Shape
  <2>3. key_count' = Cardinality(Entries')
    BY <1>0, <2>1, <2>2, CountedFinite, FS_AddElement, FS_CardinalityType, Zenon DEF KeyCountExact
  <2>4. allocated_dicts' = Cardinality(created') /\ (NonEmpty \subseteq created)'
    <3>1. allocated_dicts' = Cardinality(created')
      <4>1. IsFiniteSet(created) /\ allocated_dicts = Cardinality(created)
        BY <1>0, CountedFinite DEF AllocatedExact
      <4>2. Cardinality(created \cup {d}) = Cardinality(created) + IF d \in created THEN 0 ELSE 1
        <5>1. CASE d \in created
          <6>1. created \cup {d} = created
            BY <5>1
          <6>2. Cardinality(created) \in Nat
            BY <4>1, FS_CardinalityType
          <6> QED BY <5>1, <6>1, <6>2
        <5>2. CASE d \notin created
          BY <4>1, <5>2, FS_AddElement, Zenon
        <5> QED BY <5>1, <5>2
      <4> QED BY <2>1, <4>1, <4>2
    <3>2. NonEmpty' \subseteq created'
      BY <1>0, <2>1 DEF AllocatedExact, NonEmpty, Shape
    <3> QED
      BY <3>1, <3>2
  <2>5. ASSUME NEW i \in TreeIdx PROVE dict_size_index'[i] = Cardinality(Visiting(i)')
    <3>1. CASE i \in VisitedEntries(d)
      <4>1. Visiting(i)' = Visiting(i) \cup {<<d, k>>} /\ <<d, k>> \notin Visiting(i)
        BY <2>2, <3>1 DEF Visiting
      <4>2. IsFiniteSet(Visiting(i)) /\ dict_size_index[i] = Cardinality(Visiting(i))
        BY <1>0, CountedFinite DEF TreeCountsItsVisitors
      <4>3. Cardinality(Visiting(i)') = Cardinality(Visiting(i)) + 1
        BY <4>1, <4>2, FS_AddElement, Zenon
      <4>4. dict_size_index'[i] = dict_size_index[i] + 1
        BY <2>1, <3>1
      <4> QED
        BY <4>2, <4>3, <4>4
    <3>2. CASE i \notin VisitedEntries(d)
      <4>1. Visiting(i)' = Visiting(i)
        BY <2>2, <3>2 DEF Visiting
      <4>2. dict_size_index'[i] = dict_size_index[i]
        BY <1>0, <2>1, <3>2 DEF Shape
      <4> QED
        BY <4>1, <4>2 DEF TreeCountsItsVisitors
    <3> QED
      BY <3>1, <3>2
  <2>6. non_empty_dicts' >= Cardinality(NonEmpty')
    <3>1. NonEmpty' = NonEmpty \cup {d} /\ (d \in NonEmpty <=> dicts[d] # {})
      BY <1>0, <2>1 DEF NonEmpty, Shape
    <3>2. Cardinality(dicts[d] \cup {k}) = Cardinality(dicts[d]) + 1 /\ Cardinality(dicts[d]) \in Nat
      BY <1>0, <1>2, CountedFinite, FS_AddElement, FS_CardinalityType, Zenon
    <3>3. Cardinality(NonEmpty) \in Nat /\ non_empty_dicts \in Int
          /\ non_empty_dicts >= Cardinality(NonEmpty)
      BY <1>0, CountedFinite, FS_CardinalityType DEF Shape, NonEmptyNeverUnderstated
    <3>4. CASE dicts[d] = {}
      <4>1. Cardinality(NonEmpty') = Cardinality(NonEmpty) + 1
        BY <1>0, <3>1, <3>4, CountedFinite, FS_AddElement, Zenon
      <4>2. non_empty_dicts' = non_empty_dicts + 1
        BY <2>1, <3>2, <3>4, FS_EmptySet DEF NonEmptyDelta
      <4> QED
        BY <3>3, <4>1, <4>2
    <3>5. CASE dicts[d] # {}
      <4>1. NonEmpty' = NonEmpty
        BY <3>1, <3>5
      <4>2. Cardinality(dicts[d]) # 0
        BY <1>0, <3>5, CountedFinite, FS_EmptySet
      <4>3. non_empty_dicts' = non_empty_dicts
        BY <2>1, <3>2, <3>3, <4>2 DEF NonEmptyDelta
      <4> QED
        BY <3>3, <4>1, <4>3
    <3> QED
      BY <3>4, <3>5
  <2>7. Shape'
    <3>1. non_empty_dicts' \in Int
      BY <1>0, <2>1 DEF NonEmptyDelta, Shape
    <3>2. \A i \in VisitedEntries(d) : dict_size_index[i] \in Nat
      BY <1>0, CountedFinite, VisitedInTree, FS_CardinalityType DEF TreeCountsItsVisitors
    <3>3. proc' = "up"
      BY <1>0, <2>1, <3>2 DEF Shape
    <3>4. dict_size_index' \in [TreeIdx -> Int]
      BY <1>0, <2>1 DEF Shape
    <3> QED
      BY <1>0, <2>1, <3>1, <3>3, <3>4 DEF Shape
  <2> QED
    BY <2>3, <2>4, <2>5, <2>6, <2>7
       DEF KeyCountExact, AllocatedExact, TreeCountsItsVisitors, NonEmptyNeverUnderstated
<1> QED
  BY <1>1, <1>2

(* Deleting a name that is there: no entry of the tree that the loop       *)
(* visits is zero, because it counts the name being deleted.               *)
LEMMA DeletePreserves ==
  ASSUME IInv, NEW d \in Didx, NEW k \in Key, kv_store_dict_delete_key(d, k)
  PROVE  IInv'
<1> USE DEF IInv
<1>0. Shape
  OBVIOUS
<1>1. /\ k \in dicts[d]
      /\ dicts' = [dicts EXCEPT ![d] = @ \ {k}]
      /\ UNCHANGED <<created, allocated_dicts>>
      /\ key_count' = key_count + -1
      /\ non_empty_dicts' = non_empty_dicts + NonEmptyDelta(Cardinality(dicts[d] \ {k}))
      /\ dict_size_index' = [i \in TreeIdx |->
           dict_size_index[i] + IF i \in VisitedEntries(d) THEN -1 ELSE 0]
      /\ proc' = IF \E i \in VisitedEntries(d) : dict_size_index[i] + -1 < 0
                   THEN "aborted" ELSE proc
  BY DEF kv_store_dict_delete_key, cumulative_key_count_add
<1>2. Entries' = Entries \ {<<d, k>>} /\ <<d, k>> \in Entries
  BY <1>0, <1>1 DEF Entries, Shape
<1>3. key_count' = Cardinality(Entries')
  BY <1>0, <1>1, <1>2, CountedFinite, FS_RemoveElement, FS_CardinalityType, Zenon DEF KeyCountExact
<1>4. NonEmpty' \subseteq NonEmpty
  BY <1>0, <1>1 DEF NonEmpty, Shape
<1>5. ASSUME NEW i \in TreeIdx, i \in VisitedEntries(d)
      PROVE  /\ dict_size_index[i] >= 1
             /\ dict_size_index'[i] = Cardinality(Visiting(i)')
  <2>1. Visiting(i)' = Visiting(i) \ {<<d, k>>} /\ <<d, k>> \in Visiting(i)
    BY <1>2, <1>5 DEF Visiting
  <2>2. Cardinality(Visiting(i)') = Cardinality(Visiting(i)) - 1 /\ Cardinality(Visiting(i)) \in Nat
    BY <1>0, <2>1, CountedFinite, FS_RemoveElement, FS_CardinalityType
  <2>3. Cardinality(Visiting(i)) # 0
    BY <1>0, <2>1, CountedFinite, FS_EmptySet
  <2>4. dict_size_index[i] = Cardinality(Visiting(i))
    BY DEF TreeCountsItsVisitors
  <2>5. dict_size_index'[i] = dict_size_index[i] + -1
    BY <1>1, <1>5
  <2> QED
    BY <2>2, <2>3, <2>4, <2>5
<1>6. ASSUME NEW i \in TreeIdx, i \notin VisitedEntries(d)
      PROVE  dict_size_index'[i] = Cardinality(Visiting(i)')
  <2>1. Visiting(i)' = Visiting(i)
    BY <1>2, <1>6 DEF Visiting
  <2>2. dict_size_index'[i] = dict_size_index[i]
    BY <1>0, <1>1, <1>6 DEF Shape
  <2> QED
    BY <2>1, <2>2 DEF TreeCountsItsVisitors
<1>7. non_empty_dicts' >= Cardinality(NonEmpty')
  <2>1. /\ Cardinality(dicts[d] \ {k}) = Cardinality(dicts[d]) - 1
        /\ Cardinality(dicts[d]) \in Nat /\ Cardinality(dicts[d] \ {k}) \in Nat
        /\ IsFiniteSet(dicts[d] \ {k})
    BY <1>0, <1>1, CountedFinite, FS_RemoveElement, FS_CardinalityType
  <2>2. Cardinality(NonEmpty) \in Nat /\ non_empty_dicts \in Int
        /\ non_empty_dicts >= Cardinality(NonEmpty)
    BY <1>0, CountedFinite, FS_CardinalityType DEF Shape, NonEmptyNeverUnderstated
  <2>3. CASE dicts[d] \ {k} = {}
    <3>1. NonEmpty' = NonEmpty \ {d} /\ d \in NonEmpty
      BY <1>0, <1>1, <2>3 DEF NonEmpty, Shape
    <3>2. Cardinality(NonEmpty') = Cardinality(NonEmpty) - 1
      BY <1>0, <3>1, CountedFinite, FS_RemoveElement, Zenon
    <3>3. non_empty_dicts' = non_empty_dicts + -1
      BY <1>1, <2>3, FS_EmptySet DEF NonEmptyDelta
    <3> QED
      BY <2>2, <3>2, <3>3
  <2>4. CASE dicts[d] \ {k} # {}
    <3>1. NonEmpty' = NonEmpty
      BY <1>0, <1>1, <2>4 DEF NonEmpty, Shape
    <3>2. Cardinality(dicts[d] \ {k}) # 0
      BY <2>1, <2>4, FS_EmptySet
    <3>3. non_empty_dicts' >= non_empty_dicts
      BY <1>1, <2>2, <3>2 DEF NonEmptyDelta
    <3>4. non_empty_dicts' \in Int
      BY <1>1, <2>2 DEF NonEmptyDelta
    <3> QED
      BY <2>2, <3>1, <3>3, <3>4
  <2> QED
    BY <2>3, <2>4
<1>8. Shape'
  <2>1. non_empty_dicts' \in Int
    BY <1>0, <1>1 DEF NonEmptyDelta, Shape
  <2>2. \A i \in VisitedEntries(d) : i \in TreeIdx /\ dict_size_index[i] \in Int
    BY <1>0, VisitedInTree DEF Shape
  <2>3. proc' = "up"
    BY <1>0, <1>1, <1>5, <2>2 DEF Shape
  <2>4. dict_size_index' \in [TreeIdx -> Int]
    BY <1>0, <1>1 DEF Shape
  <2> QED
    BY <1>0, <1>1, <2>1, <2>3, <2>4 DEF Shape
<1> QED
  BY <1>1, <1>3, <1>4, <1>5, <1>6, <1>7, <1>8
     DEF KeyCountExact, AllocatedExact, TreeCountsItsVisitors, NonEmptyNeverUnderstated

(* The accounting of a store is right in every reachable state. *)
LEMMA StoreInvariant == Spec => []IInv
<1>1. IInv /\ [Next]_vars => IInv'
  <2> SUFFICES ASSUME IInv, [Next]_vars PROVE IInv'
    OBVIOUS
  <2>1. CASE Next
    BY <2>1, AddPreserves, DeletePreserves DEF Next
  <2>2. CASE UNCHANGED vars
    BY <2>2 DEF vars, IInv, Shape, KeyCountExact, AllocatedExact, TreeCountsItsVisitors,
                NonEmptyNeverUnderstated, Entries, NonEmpty, Visiting
  <2> QED
    BY <2>1, <2>2
<1> QED
  BY <1>1, InitIInv, PTL DEF Spec

-----------------------------------------------------------------------------
(* key_count is exact for every number of names and dictionaries. *)
THEOREM KeyCountIsExact == Spec => []KeyCountExact
<1>1. IInv => KeyCountExact
  BY DEF IInv
<1> QED
  BY <1>1, StoreInvariant, PTL

(* The assertion on dict_size_index in cumulative_key_count_add holds at   *)
(* every deletion: each entry the loop visits counts the name deleted.     *)
THEOREM TreeAssertionHolds == Spec => []TreeNeverUnderflows
<1>1. IInv => TreeNeverUnderflows
  BY DEF IInv, Shape, TreeNeverUnderflows
<1> QED
  BY <1>1, StoreInvariant, PTL

(* allocated_dicts is exact, and every name is in a dictionary that was    *)
(* created, with and without allocation on demand.                         *)
THEOREM AllocatedIsExact == Spec => []AllocatedExact
<1>1. IInv => AllocatedExact
  BY DEF IInv
<1> QED
  BY <1>1, StoreInvariant, PTL

(* Dictionaries in use are never counted too low. *)
THEOREM NonEmptyIsUpperBound == Spec => []NonEmptyNeverUnderstated
<1>1. IInv => NonEmptyNeverUnderstated
  BY DEF IInv
<1> QED
  BY <1>1, StoreInvariant, PTL

(* The counters are natural numbers: none of them ever wraps below zero. *)
THEOREM StoreTypeCorrect == Spec => []TypeOK
<1>1. IInv => TypeOK
  <2> SUFFICES ASSUME IInv PROVE TypeOK
    OBVIOUS
  <2>1. Shape /\ key_count = Cardinality(Entries) /\ allocated_dicts = Cardinality(created)
        /\ \A i \in TreeIdx : dict_size_index[i] = Cardinality(Visiting(i))
    BY DEF IInv, KeyCountExact, AllocatedExact, TreeCountsItsVisitors
  <2>2. key_count \in Nat /\ allocated_dicts \in Nat
    BY <2>1, CountedFinite, FS_CardinalityType
  <2>3. \A i \in TreeIdx : dict_size_index[i] \in Nat
    BY <2>1, CountedFinite, FS_CardinalityType
  <2> QED
    BY <2>1, <2>2, <2>3 DEF Shape, TypeOK
<1> QED
  BY <1>1, StoreInvariant, PTL

(* Reading the tree the way its loop was meant to be read back gives the   *)
(* number of names in the first i dictionaries, for every number of        *)
(* dictionaries: the ranges of the entries on the way down from i are      *)
(* disjoint and cover 1 .. i.                                              *)
THEOREM TreeAddsUp == Spec => []TreeSumsArePrefixSums
<1>1. ASSUME IInv, num_dicts > 1
      PROVE  \A i \in TreeIdx : PrefixSum[i] = Cardinality({e \in Entries : e[1] < i})
  <2> DEFINE Below(i) == {e \in Entries : e[1] < i}
             G == [i \in 0 .. num_dicts |-> Cardinality(Below(i))]
  <2>0. num_dicts \in Nat \ {0} /\ TreeIdx = 1 .. num_dicts /\ IsFiniteSet(Entries)
        /\ \A e \in Entries : e[1] \in Nat /\ e[1] + 1 \in TreeIdx
    BY <1>1, DidxFinite, CountedFinite DEF IInv, TreeIdx, Entries, Didx
  <2>1. ASSUME NEW i \in TreeIdx
        PROVE  i - LowBit(i) \in 0 .. i - 1 /\ i \in 1 .. num_dicts
    BY <2>0, LowBitBounds
  <2>2. ASSUME NEW i \in TreeIdx
        PROVE  G[i] = dict_size_index[i] + G[i - LowBit(i)]
    <3> DEFINE low == i - LowBit(i)
    <3>1. low \in 0 .. i - 1 /\ i \in 1 .. num_dicts
      BY <2>1
    <3>2. ASSUME NEW e \in Entries
          PROVE  e \in Visiting(i) <=> (low <= e[1] /\ e[1] < i)
      <4>1. e[1] \in Nat /\ e[1] + 1 \in TreeIdx
        BY <2>0
      <4>2. VisitedEntries(e[1]) = {j \in TreeIdx : InRange(j, e[1] + 1)}
        BY <1>1, <4>1, TreePathIs DEF VisitedEntries
      <4>3. e \in Visiting(i) <=> InRange(i, e[1] + 1)
        BY <4>2 DEF Visiting
      <4>4. LowBit(i) \in Nat /\ i \in Nat
        BY LowBitBounds
      <4> QED
        BY <4>1, <4>3, <4>4 DEF InRange
    <3>3. Below(i) = Visiting(i) \cup Below(low) /\ Visiting(i) \cap Below(low) = {}
      <4>1. Visiting(i) \subseteq Entries
        BY DEF Visiting
      <4>2. \A e \in Entries : e[1] \in Nat
        BY <2>0
      <4> HIDE DEF low
      <4> QED
        BY <3>1, <3>2, <4>1, <4>2
    <3>4. IsFiniteSet(Visiting(i)) /\ IsFiniteSet(Below(low))
      <4>1. Visiting(i) \in SUBSET Entries /\ Below(low) \in SUBSET Entries
        BY DEF Visiting
      <4> QED
        BY <2>0, <4>1, FS_Subset
    <3>5. Cardinality(Below(i)) = Cardinality(Visiting(i)) + Cardinality(Below(low))
      <4> HIDE DEF Below, low
      <4>1. /\ Cardinality(Visiting(i)) \in Nat /\ Cardinality(Below(low)) \in Nat
            /\ Cardinality(Visiting(i) \cap Below(low)) = 0
        BY <3>3, <3>4, FS_CardinalityType, FS_EmptySet, Zenon
      <4>2. Cardinality(Below(i)) = Cardinality(Visiting(i)) + Cardinality(Below(low))
                                      - Cardinality(Visiting(i) \cap Below(low))
        BY <3>3, <3>4, FS_Union
      <4> QED
        BY <4>1, <4>2
    <3>6. dict_size_index[i] = Cardinality(Visiting(i))
      BY <1>1 DEF IInv, TreeCountsItsVisitors
    <3>7. G[i] = Cardinality(Below(i)) /\ G[low] = Cardinality(Below(low))
      <4>1. i \in 0 .. num_dicts /\ low \in 0 .. num_dicts
        BY <2>0, <3>1
      <4> HIDE DEF Below, low
      <4> QED
        BY <4>1
    <3> QED
      BY <3>5, <3>6, <3>7
  <2>3. G[0] = 0
    <3>1. Below(0) = {}
      BY <2>0
    <3> QED
      BY <2>0, <3>1, FS_EmptySet
  <2>4. DOMAIN G = 0 .. num_dicts /\ \A i \in TreeIdx : G[i] = Cardinality(Below(i))
    BY <2>0
  <2>5. G = [i \in 0 .. num_dicts |-> G[i]]
    OBVIOUS
  <2> HIDE DEF G
  <2>6. G = [i \in 0 .. num_dicts |-> IF i = 0 THEN 0 ELSE dict_size_index[i] + G[i - LowBit(i)]]
    <3>1. ASSUME NEW i \in 0 .. num_dicts
          PROVE  G[i] = IF i = 0 THEN 0 ELSE dict_size_index[i] + G[i - LowBit(i)]
      <4>1. i = 0 \/ i \in TreeIdx
        BY <2>0
      <4> QED
        BY <2>0, <2>2, <2>3, <4>1
    <3> QED
      BY <2>5, <3>1, Zenon
  <2>7. PrefixSum = [i \in 0 .. num_dicts |->
                       IF i = 0 THEN 0 ELSE dict_size_index[i] + PrefixSum[i - LowBit(i)]]
    BY <2>6, Zenon DEF PrefixSum
  <2>8. /\ PrefixSum[0] = 0
        /\ \A i \in TreeIdx : PrefixSum[i] = dict_size_index[i] + PrefixSum[i - LowBit(i)]
    BY <2>0, <2>7
  <2> DEFINE T == {i \in 0 .. num_dicts : PrefixSum[i] # G[i]}
  <2>9. ASSUME T # {} PROVE FALSE
    <3>1. PICK i \in T : \A j \in T : i <= j
      <4> T \in SUBSET Nat
        BY <2>0
      <4> HIDE DEF T
      <4> QED
        BY <2>9, LeastMember
    <3>2. i \in TreeIdx /\ PrefixSum[i] # G[i]
      BY <2>0, <2>3, <2>8
    <3> DEFINE low == i - LowBit(i)
    <3>3. low \in 0 .. num_dicts /\ ~(i <= low)
      BY <2>0, <2>1, <3>2
    <3>4. PrefixSum[low] = G[low]
      <4> HIDE DEF low
      <4> QED
        BY <3>1, <3>3
    <3> QED
      BY <2>2, <2>8, <3>2, <3>4
  <2>10. \A i \in TreeIdx : PrefixSum[i] = G[i]
    BY <2>0, <2>9
  <2> QED
    BY <2>4, <2>10
<1>2. IInv => TreeSumsArePrefixSums
  BY <1>1 DEF TreeSumsArePrefixSums
<1> QED
  BY <1>2, StoreInvariant, PTL
=============================================================================
