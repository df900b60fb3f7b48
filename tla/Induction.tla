----------------------------- MODULE Induction -----------------------------
(***************************************************************************)
(* Induction and recursion over the natural numbers, stated with sets and  *)
(* functions instead of operators, for the proofs about loops, and what    *)
(* they need about sequences.                                              *)
(***************************************************************************)
EXTENDS Integers, Sequences, WellFoundedInduction, TLAPS

(* A set of numbers that is not empty has a least member. *)
LEMMA LeastMember ==
  ASSUME NEW T \in SUBSET Nat, T # {}
  PROVE  \E n \in T : \A m \in T : n <= m
<1> DEFINE R == OpToRel(<, Nat)
<1>1. IsWellFoundedOn(R, Nat)
  BY NatLessThanWellFounded, Zenon
<1>2. \A x, y \in Nat : x < y => <<x, y>> \in R
  BY DEF OpToRel
<1> HIDE DEF R
<1>3. PICK x \in T : \A y \in T : ~(<<y, x>> \in R)
  BY <1>1, WFMin, Zenon
<1>4. ASSUME NEW m \in T PROVE x <= m
  <2>1. m \in Nat /\ x \in Nat
    OBVIOUS
  <2>2. ~(m < x)
    BY <1>2, <1>3, <2>1, Zenon
  <2> QED
    BY <2>1, <2>2
<1> QED
  BY <1>4

(* A set of numbers that has 0 and with each number the next has them all. *)
LEMMA SetInduction ==
  ASSUME NEW T \in SUBSET Nat, 0 \in T, \A n \in T : n + 1 \in T
  PROVE  T = Nat
<1> SUFFICES ASSUME Nat \ T # {} PROVE FALSE
  BY Zenon
<1>1. PICK n \in Nat \ T : \A m \in Nat \ T : n <= m
  BY LeastMember, Zenon
<1>2. n - 1 \in Nat /\ ~(n <= n - 1)
  OBVIOUS
<1>3. n - 1 \in T
  BY <1>1, <1>2
<1> QED
  BY <1>2, <1>3

(* A recursive equation for a function on 0 .. n: the value at i > 0       *)
(* follows from i and from the value at the smaller number prev[i].        *)
IsRecursion(n, S, prev, step) ==
  /\ prev \in [1 .. n -> Nat] /\ \A i \in 1 .. n : prev[i] < i
  /\ step \in [1 .. n -> [S -> S]]

Solves(f, n, S, a, prev, step) ==
  f[0] = a /\ \A i \in 1 .. n : f[prev[i]] \in S => f[i] = step[i][f[prev[i]]]

(* It has a solution ... *)
LEMMA RecursionExists ==
  ASSUME NEW n \in Nat, NEW S, NEW a \in S, NEW prev, NEW step, IsRecursion(n, S, prev, step)
  PROVE  \E f \in [0 .. n -> S] : Solves(f, n, S, a, prev, step)
<1> USE DEF IsRecursion
<1> DEFINE Upto(m, f) == f[0] = a /\ \A i \in 1 .. m : f[i] = step[i][f[prev[i]]]
           T == {m \in Nat : m <= n => \E f \in [0 .. m -> S] : Upto(m, f)}
<1>1. 0 \in T
  <2> DEFINE f == [i \in 0 .. 0 |-> a]
  <2>1. f \in [0 .. 0 -> S] /\ f[0] = a /\ 1 .. 0 = {}
    OBVIOUS
  <2> QED
    BY <2>1, Zenon
<1>2. ASSUME NEW m \in T PROVE m + 1 \in T
  <2> SUFFICES ASSUME m + 1 <= n PROVE \E f \in [0 .. m + 1 -> S] : Upto(m + 1, f)
    OBVIOUS
  <2>1. PICK f \in [0 .. m -> S] : Upto(m, f)
    OBVIOUS
  <2>2. m + 1 \in 1 .. n /\ prev[m + 1] \in 0 .. m
    OBVIOUS
  <2>3. step[m + 1][f[prev[m + 1]]] \in S
    BY <2>2
  <2> DEFINE g == [i \in 0 .. m + 1 |-> IF i = m + 1 THEN step[m + 1][f[prev[m + 1]]] ELSE f[i]]
  <2>4. g \in [0 .. m + 1 -> S]
    BY <2>3
  <2>5. g[0] = a
    BY <2>1
  <2>6. ASSUME NEW i \in 1 .. m + 1 PROVE g[i] = step[i][g[prev[i]]]
    <3>1. prev[i] \in 0 .. m /\ prev[i] < i
      BY <2>2
    <3>2. g[prev[i]] = f[prev[i]]
      BY <3>1
    <3>3. CASE i = m + 1
      <4>1. g[m + 1] = step[m + 1][f[prev[m + 1]]]
        OBVIOUS
      <4> HIDE DEF g
      <4> QED
        BY <3>2, <3>3, <4>1
    <3>4. CASE i # m + 1
      <4>1. i \in 1 .. m /\ g[i] = f[i]
        BY <3>4
      <4>2. f[i] = step[i][f[prev[i]]]
        BY <2>1, <4>1
      <4> QED
        BY <3>2, <4>1, <4>2
    <3> QED
      BY <3>3, <3>4
  <2> HIDE DEF g
  <2> QED
    BY <2>4, <2>5, <2>6, Zenon
<1> HIDE DEF T
<1>3. T = Nat
  <2>1. T \in SUBSET Nat
    BY DEF T
  <2> QED
    BY <1>1, <1>2, <2>1, SetInduction, Zenon
<1>4. n \in T
  BY <1>3
<1>5. n <= n => \E f \in [0 .. n -> S] : Upto(n, f)
  BY <1>4 DEF T
<1>6. PICK f \in [0 .. n -> S] : Upto(n, f)
  BY <1>5
<1>7. Solves(f, n, S, a, prev, step)
  BY <1>6 DEF Solves
<1> QED
  BY <1>7

Agree(f, g, n) == \A i \in 0 .. n : g[i] = f[i]

(* ... and only one, also among functions that are not known to have their *)
(* values in S.                                                            *)
LEMMA RecursionUnique ==
  ASSUME NEW n \in Nat, NEW S, NEW a, NEW prev, NEW step, IsRecursion(n, S, prev, step),
         NEW f \in [0 .. n -> S], Solves(f, n, S, a, prev, step),
         NEW g, Solves(g, n, S, a, prev, step)
  PROVE  Agree(f, g, n)
<1> DEFINE T == {i \in 0 .. n : g[i] # f[i]}
<1> SUFFICES ASSUME T # {} PROVE FALSE
  BY DEF Agree
<1> T \in SUBSET Nat
  OBVIOUS
<1>1. PICK i \in T : \A j \in T : i <= j
  <2> HIDE DEF T
  <2> QED
    BY LeastMember
<1>2. i \in 1 .. n
  BY DEF Solves
<1>3. prev[i] \in 0 .. n /\ prev[i] < i
  BY <1>2 DEF IsRecursion
<1>4. g[prev[i]] = f[prev[i]]
  BY <1>1, <1>3
<1>5. f[prev[i]] \in S
  BY <1>3
<1>6. g[i] = step[i][g[prev[i]]] /\ f[i] = step[i][f[prev[i]]]
  BY <1>2, <1>4, <1>5 DEF Solves
<1> QED
  BY <1>4, <1>6

(* Induction up to a bound. *)
LEMMA UpwardInduction ==
  ASSUME NEW n \in Nat, NEW T, 0 \in T, \A i \in 1 .. n : i - 1 \in T => i \in T
  PROVE  \A i \in 0 .. n : i \in T
<1> DEFINE U == {m \in Nat : m <= n => m \in T}
<1>1. U \in SUBSET Nat /\ 0 \in U
  OBVIOUS
<1>2. ASSUME NEW m \in U PROVE m + 1 \in U
  <2> SUFFICES ASSUME m + 1 <= n PROVE m + 1 \in T
    OBVIOUS
  <2>1. m + 1 \in 1 .. n /\ (m + 1) - 1 = m /\ m \in T
    OBVIOUS
  <2> QED BY <2>1
<1> HIDE DEF U
<1>3. U = Nat
  BY <1>1, <1>2, SetInduction
<1> QED BY <1>3 DEF U

(* A loop: n steps, each from the value of the one before. *)
Iterates(f, n, a, step) == f[0] = a /\ \A i \in 1 .. n : f[i] = step[i][f[i - 1]]

(* A number of steps from a starting point leads somewhere. *)
LEMMA IterationExists ==
  ASSUME NEW n \in Nat, NEW S, NEW a \in S, NEW step \in [1 .. n -> [S -> S]]
  PROVE  \E f \in [0 .. n -> S] : Iterates(f, n, a, step)
<1> DEFINE prev == [i \in 1 .. n |-> i - 1]
<1>1. IsRecursion(n, S, prev, step) /\ \A i \in 1 .. n : prev[i] = i - 1
  BY DEF IsRecursion
<1> HIDE DEF prev
<1>2. PICK f \in [0 .. n -> S] : Solves(f, n, S, a, prev, step)
  BY <1>1, RecursionExists
<1>3. ASSUME NEW i \in 1 .. n PROVE f[i] = step[i][f[i - 1]]
  <2>1. f[i - 1] \in S /\ prev[i] = i - 1
    BY <1>1
  <2> QED BY <1>2, <2>1 DEF Solves
<1>4. f[0] = a
  BY <1>2 DEF Solves
<1> QED BY <1>3, <1>4 DEF Iterates

(* A running total. *)
LEMMA RunningTotal ==
  ASSUME NEW n \in Nat, NEW a \in Nat, NEW d \in [1 .. n -> Nat]
  PROVE  \E f \in [0 .. n -> Nat] : f[0] = a /\ \A i \in 1 .. n : f[i] = f[i - 1] + d[i]
<1> DEFINE step == [i \in 1 .. n |-> [q \in Nat |-> q + d[i]]]
<1>1. step \in [1 .. n -> [Nat -> Nat]] /\ \A i \in 1 .. n : \A q \in Nat : step[i][q] = q + d[i]
  OBVIOUS
<1> HIDE DEF step
<1>2. PICK f \in [0 .. n -> Nat] : Iterates(f, n, a, step)
  BY <1>1, IterationExists, Zenon
<1>3. ASSUME NEW i \in 1 .. n PROVE f[i] = f[i - 1] + d[i]
  <2>1. f[i - 1] \in Nat
    OBVIOUS
  <2> QED BY <1>1, <1>2, <2>1, Zenon DEF Iterates
<1> QED BY <1>2, <1>3, Zenon DEF Iterates

(* What never falls from one number to the next never falls. *)
LEMMA NeverFalls ==
  ASSUME NEW n \in Nat, NEW f \in [0 .. n -> Nat], \A i \in 1 .. n : f[i - 1] <= f[i],
         NEW i \in 0 .. n, NEW j \in i .. n
  PROVE  f[i] <= f[j]
<1> DEFINE T == {m \in 0 .. n : m >= i => f[i] <= f[m]}
<1>1. 0 \in T
  OBVIOUS
<1>2. ASSUME NEW m \in 1 .. n, m - 1 \in T PROVE m \in T
  <2>1. CASE m = i
    BY <2>1
  <2>2. CASE m > i
    <3>1. f[i] <= f[m - 1] /\ f[m - 1] <= f[m]
      BY <1>2, <2>2
    <3>2. f[i] \in Nat /\ f[m - 1] \in Nat /\ f[m] \in Nat
      OBVIOUS
    <3> QED BY <3>1, <3>2
  <2> QED BY <2>1, <2>2
<1> HIDE DEF T
<1>3. \A m \in 0 .. n : m \in T
  BY <1>1, <1>2, UpwardInduction, Zenon
<1>4. j \in 0 .. n /\ j >= i
  OBVIOUS
<1> QED BY <1>3, <1>4 DEF T

-----------------------------------------------------------------------------
(* Sequences *)

(* Two sequences that agree on their length and every element are equal. *)
LEMMA EqualSequences ==
  ASSUME NEW S, NEW s \in Seq(S), NEW t \in Seq(S), Len(s) = Len(t), \A i \in 1 .. Len(s) : s[i] = t[i]
  PROVE  s = t
OBVIOUS

(* What Append, SubSeq and concatenation give. *)
LEMMA AppendAsConcat == ASSUME NEW S, NEW s \in Seq(S), NEW x \in S PROVE Append(s, x) = s \o <<x>>
OBVIOUS

(* A sequence from its first to its last element is itself. *)
LEMMA WholeSubSeq == ASSUME NEW S, NEW s \in Seq(S) PROVE SubSeq(s, 1, Len(s)) = s
OBVIOUS

(* The length and the elements of a part of a sequence ... *)
LEMMA SubSeqIs ==
  ASSUME NEW S, NEW s \in Seq(S), NEW m \in 1 .. Len(s) + 1, NEW n \in 0 .. Len(s), m <= n + 1
  PROVE  /\ SubSeq(s, m, n) \in Seq(S) /\ Len(SubSeq(s, m, n)) = n - m + 1
         /\ \A i \in 1 .. n - m + 1 : SubSeq(s, m, n)[i] = s[m + i - 1]
OBVIOUS

(* ... of two sequences put together ... *)
LEMMA ConcatIs ==
  ASSUME NEW S, NEW s \in Seq(S), NEW t \in Seq(S)
  PROVE  /\ s \o t \in Seq(S) /\ Len(s \o t) = Len(s) + Len(t)
         /\ \A i \in 1 .. Len(s) + Len(t) : (s \o t)[i] = IF i <= Len(s) THEN s[i] ELSE t[i - Len(s)]
OBVIOUS

(* The first elements and the next one. *)
LEMMA SubSeqGrows ==
  ASSUME NEW S, NEW s \in Seq(S), NEW k \in 0 .. Len(s) - 1
  PROVE  SubSeq(s, 1, k + 1) = Append(SubSeq(s, 1, k), s[k + 1])
<1> DEFINE a == SubSeq(s, 1, k + 1)
           b == SubSeq(s, 1, k)
           c == Append(b, s[k + 1])
<1>0. Len(s) \in Nat /\ k \in Nat /\ k + 1 \in 0 .. Len(s) /\ s[k + 1] \in S
  OBVIOUS
<1>1. a \in Seq(S) /\ Len(a) = k + 1 /\ \A i \in 1 .. k + 1 : a[i] = s[i]
  BY <1>0
<1>2. b \in Seq(S) /\ Len(b) = k /\ \A i \in 1 .. k : b[i] = s[i]
  BY <1>0
<1> HIDE DEF a, b
<1>3. c \in Seq(S) /\ Len(c) = k + 1 /\ c[k + 1] = s[k + 1] /\ \A i \in 1 .. k : c[i] = b[i]
  BY <1>0, <1>2
<1> HIDE DEF c
<1>4. ASSUME NEW i \in 1 .. k + 1 PROVE a[i] = c[i]
  <2>1. i = k + 1 \/ i \in 1 .. k
    BY <1>0
  <2> QED BY <1>1, <1>2, <1>3, <2>1
<1>5. a = c
  BY <1>1, <1>3, <1>4, EqualSequences
<1> QED BY <1>5 DEF a, b, c

(* A function on 1 .. n is a sequence of length n, and the reverse. *)
LEMMA FunctionIsSeq ==
  ASSUME NEW S, NEW n \in Nat, NEW f \in [1 .. n -> S]
  PROVE  f \in Seq(S) /\ Len(f) = n
OBVIOUS

(* A sequence is a function on its indices. *)
LEMMA SeqIsFunction ==
  ASSUME NEW S, NEW s \in Seq(S)
  PROVE  Len(s) \in Nat /\ s \in [1 .. Len(s) -> S]
OBVIOUS

(* A sequence with an element added, with one replaced, and without its    *)
(* first one.                                                              *)
LEMMA AppendIs ==
  ASSUME NEW S, NEW s \in Seq(S), NEW x \in S
  PROVE  /\ Append(s, x) \in Seq(S) /\ Len(Append(s, x)) = Len(s) + 1
         /\ \A i \in 1 .. Len(s) : Append(s, x)[i] = s[i]
         /\ Append(s, x)[Len(s) + 1] = x
OBVIOUS

(* A sequence with one element replaced ... *)
LEMMA ExceptIs ==
  ASSUME NEW S, NEW s \in Seq(S), NEW j \in 1 .. Len(s), NEW x \in S
  PROVE  /\ [s EXCEPT ![j] = x] \in Seq(S) /\ Len([s EXCEPT ![j] = x]) = Len(s)
         /\ \A i \in 1 .. Len(s) : [s EXCEPT ![j] = x][i] = IF i = j THEN x ELSE s[i]
OBVIOUS

(* ... and a sequence without its first. *)
LEMMA TailIs ==
  ASSUME NEW S, NEW s \in Seq(S), s # <<>>
  PROVE  /\ Head(s) \in S /\ Tail(s) \in Seq(S) /\ Len(Tail(s)) = Len(s) - 1
         /\ \A i \in 1 .. Len(Tail(s)) : Tail(s)[i] = s[i + 1]
OBVIOUS

(* Concatenation is associative. *)
LEMMA ConcatAssoc ==
  ASSUME NEW S, NEW s \in Seq(S), NEW t \in Seq(S), NEW u \in Seq(S)
  PROVE  (s \o t) \o u = s \o (t \o u)
OBVIOUS

(* A sequence is its first two elements and the rest. *)
LEMMA TakeTwo ==
  ASSUME NEW S, NEW s \in Seq(S), Len(s) >= 2, NEW p \in Seq(S)
  PROVE  /\ SubSeq(s, 3, Len(s)) \in Seq(S)
         /\ p \o s = (p \o <<s[1], s[2]>>) \o SubSeq(s, 3, Len(s))
<1> DEFINE r == SubSeq(s, 3, Len(s))
           u == Append(Append(p, s[1]), s[2])
<1>0. s[1] \in S /\ s[2] \in S /\ Len(p) \in Nat /\ Len(s) \in Nat
  OBVIOUS
<1>1. r \in Seq(S) /\ Len(r) = Len(s) - 2 /\ \A i \in 1 .. Len(s) - 2 : r[i] = s[i + 2]
  <2>1. 3 \in 1 .. Len(s) + 1 /\ Len(s) \in 0 .. Len(s) /\ 3 <= Len(s) + 1
    BY <1>0
  <2>2. Len(s) - 3 + 1 = Len(s) - 2 /\ \A i \in 1 .. Len(s) - 2 : 3 + i - 1 = i + 2
    BY <1>0
  <2> QED BY <1>0, <2>1, <2>2, SubSeqIs
<1>2. p \o <<s[1], s[2]>> = u
  BY <1>0
<1>3. u \in Seq(S) /\ Len(u) = Len(p) + 2 /\ u[Len(p) + 1] = s[1] /\ u[Len(p) + 2] = s[2]
      /\ \A i \in 1 .. Len(p) : u[i] = p[i]
  BY <1>0
<1> HIDE DEF r, u
<1>4. /\ p \o s \in Seq(S) /\ Len(p \o s) = Len(p) + Len(s)
      /\ \A i \in 1 .. Len(p) + Len(s) : (p \o s)[i] = IF i <= Len(p) THEN p[i] ELSE s[i - Len(p)]
  BY ConcatIs
<1>5. /\ u \o r \in Seq(S) /\ Len(u \o r) = Len(u) + Len(r)
      /\ \A i \in 1 .. Len(u) + Len(r) : (u \o r)[i] = IF i <= Len(u) THEN u[i] ELSE r[i - Len(u)]
  BY <1>1, <1>3, ConcatIs, Zenon
<1>6. ASSUME NEW i \in 1 .. Len(p) + Len(s) PROVE (p \o s)[i] = (u \o r)[i]
  <2>1. CASE i <= Len(p)
    BY <1>0, <1>1, <1>3, <1>4, <1>5, <2>1
  <2>2. CASE i = Len(p) + 1 \/ i = Len(p) + 2
    BY <1>0, <1>1, <1>3, <1>4, <1>5, <2>2
  <2>3. CASE i > Len(p) + 2
    <3>1. i - Len(u) \in 1 .. Len(s) - 2 /\ (i - Len(u)) + 2 = i - Len(p)
      BY <1>0, <1>3, <2>3
    <3>2. (p \o s)[i] = s[i - Len(p)]
      BY <1>0, <1>4, <2>3
    <3>3. (u \o r)[i] = r[i - Len(u)]
      BY <1>0, <1>1, <1>3, <1>5, <2>3
    <3>4. r[i - Len(u)] = s[(i - Len(u)) + 2]
      BY <1>1, <3>1, Zenon
    <3> QED BY <3>1, <3>2, <3>3, <3>4
  <2>4. i <= Len(p) \/ i = Len(p) + 1 \/ i = Len(p) + 2 \/ i > Len(p) + 2
    BY <1>0
  <2> QED BY <2>1, <2>2, <2>3, <2>4, Zenon
<1>7. p \o s = u \o r
  <2>1. Len(p \o s) = Len(u \o r) /\ Len(p \o s) = Len(p) + Len(s)
    BY <1>0, <1>1, <1>3, <1>4, <1>5
  <2>2. \A i \in 1 .. Len(p \o s) : (p \o s)[i] = (u \o r)[i]
    BY <1>6, <2>1, Zenon
  <2>3. p \o s \in Seq(S) /\ u \o r \in Seq(S)
    BY <1>4, <1>5
  <2> DEFINE x == p \o s
             y == u \o r
  <2>4. x \in Seq(S) /\ y \in Seq(S) /\ Len(x) = Len(y) /\ \A i \in 1 .. Len(x) : x[i] = y[i]
    BY <2>1, <2>2, <2>3, Zenon
  <2> HIDE DEF x, y
  <2>5. x = y
    BY <2>4, EqualSequences
  <2> QED BY <2>5 DEF x, y
<1>8. p \o s = (p \o <<s[1], s[2]>>) \o r
  BY <1>2, <1>7, Zenon
<1> QED BY <1>1, <1>8 DEF r
=============================================================================
