------------------------ MODULE EvictionPoolProofs ------------------------
(***************************************************************************)
(* Proofs about the eviction pool, for a pool of any size, any names and   *)
(* any width of the LRU clock.                                             *)
(***************************************************************************)
EXTENDS EvictionPool, SequenceTheorems, TLAPS

(* A product with a positive number keeps the order. *)
LEMMA Monotone ==
  ASSUME NEW a \in Int, NEW b \in Int, NEW c \in Nat, a <= b
  PROVE  a * c <= b * c
OBVIOUS

(* A number and the clock that shows it differ by whole periods. *)
LEMMA Periods ==
  ASSUME NEW t \in Nat
  PROVE  /\ LruClock(t) \in 0 .. LRU_CLOCK_MAX
         /\ \E q \in Nat : t = (LRU_CLOCK_MAX + 1) * q + LruClock(t)
<1> DEFINE P == LRU_CLOCK_MAX + 1
<1>1. P \in Nat /\ P > 0
  BY PoolAssumption
<1> HIDE DEF P
<1>2. t % P \in 0 .. P - 1
  BY <1>1
<1>3. t \div P \in Int /\ t = P * (t \div P) + (t % P)
  BY <1>1
<1>4. t \div P \in Nat
  <2>1. ASSUME t \div P < 0 PROVE P * (t \div P) <= P * (-1)
    BY <1>1, <1>3, <2>1
  <2> QED
    BY <1>1, <1>2, <1>3, <2>1
<1> QED
  BY <1>2, <1>3, <1>4, PoolAssumption DEF LruClock, P

(* The clock has wrapped at most once since a tick of the last period.     *)
LEMMA WrapsOnce ==
  ASSUME NEW t \in Nat, NEW u \in Nat, t <= u, u - t <= LRU_CLOCK_MAX
  PROVE  u - t = IF LruClock(u) >= LruClock(t) THEN LruClock(u) - LruClock(t)
                 ELSE LruClock(u) + (LRU_CLOCK_MAX + 1 - LruClock(t))
<1> DEFINE P == LRU_CLOCK_MAX + 1
           r == LruClock(u)
           s == LruClock(t)
<1>1. PICK a \in Nat, b \in Nat : u = P * a + r /\ t = P * b + s
  BY Periods
<1>2. r \in 0 .. P - 1 /\ s \in 0 .. P - 1 /\ P \in Nat /\ P > 0 /\ u - t <= P - 1
  BY Periods, PoolAssumption
<1> HIDE DEF P, r, s
<1>3. u - t = P * (a - b) + (r - s)
  BY <1>1, <1>2
<1>4. a - b < 2
  <2>1. ASSUME a - b >= 2 PROVE P * (a - b) >= P * 2
    BY <1>2, <2>1
  <2> QED
    BY <1>2, <1>3, <2>1
<1>5. a - b > -1
  <2>1. ASSUME a - b <= -1 PROVE P * (a - b) <= P * (-1)
    BY <1>2, <2>1
  <2> QED
    BY <1>2, <1>3, <2>1
<1>6. a - b = 0 \/ a - b = 1
  BY <1>4, <1>5
<1>7. CASE a - b = 0
  <2>1. u - t = r - s
    BY <1>2, <1>3, <1>7
  <2>2. r >= s
    BY <1>2, <2>1
  <2> QED
    BY <2>1, <2>2 DEF r, s
<1>8. CASE a - b = 1
  <2>1. u - t = P + (r - s)
    BY <1>2, <1>3, <1>8
  <2>2. ~(r >= s)
    BY <1>2, <2>1
  <2>3. u - t = r + (P - s)
    BY <1>2, <2>1
  <2> QED
    BY <1>2, <2>2, <2>3, PoolAssumption DEF r, s, P
<1> QED
  BY <1>6, <1>7, <1>8

(* The estimate in ticks: exact, or one too few if the clock wrapped. *)
LEMMA Estimate ==
  ASSUME NEW t \in Nat, NEW u \in Nat, t <= u, u - t <= LRU_CLOCK_MAX
  PROVE  estimate_object_idle_time(LruClock(u), LruClock(t)) =
           (IF LruClock(u) >= LruClock(t) THEN u - t ELSE u - t - 1) * LRU_CLOCK_RESOLUTION
<1>1. LruClock(t) \in Int /\ LruClock(u) \in Int /\ LRU_CLOCK_MAX \in Int
  BY Periods, PoolAssumption
<1>2. u - t = IF LruClock(u) >= LruClock(t) THEN LruClock(u) - LruClock(t)
              ELSE LruClock(u) + (LRU_CLOCK_MAX + 1 - LruClock(t))
  BY WrapsOnce
<1>3. CASE LruClock(u) >= LruClock(t)
  BY <1>2, <1>3 DEF estimate_object_idle_time
<1>4. CASE ~(LruClock(u) >= LruClock(t))
  <2>1. u - t - 1 = LruClock(u) + (LRU_CLOCK_MAX - LruClock(t))
    BY <1>1, <1>2, <1>4
  <2> QED
    BY <1>4, <2>1 DEF estimate_object_idle_time
<1> QED
  BY <1>3, <1>4

-----------------------------------------------------------------------------
(* The array and the strings *)

PoolInv == TypeOK /\ PoolIsSorted /\ EntriesOwnTheirKeys

(* Slot k of the array q can be overwritten, with the strings mem: every   *)
(* other slot owns its key, and nothing else is allocated but the buffers. *)
Owned(q, mem, k) ==
  /\ \A i, j \in Slot : q[i].cached = q[j].cached => i = j
  /\ \A i, j \in Slot \ {k} : q[i].key # NULL /\ q[i].key = q[j].key => i = j
  /\ \A i \in Slot \ {k}, j \in Slot : q[i].key = q[j].cached => i = j
  /\ \A j \in Slot : mem[q[j].cached] # NULL /\ mem[q[j].cached] \notin Long
  /\ \A j \in Slot \ {k} : q[j].key # NULL => mem[q[j].key] \in Key
  /\ \A p \in Sds : mem[p] # NULL =>
       (\E j \in Slot : p = q[j].cached) \/ (\E j \in Slot \ {k} : p = q[j].key)

(* The other slots are sorted, and k is the place of the score idle. *)
Ordered(q, k, idle) ==
  /\ \A i, j \in Slot \ {k} :
       i < j /\ q[j].key # NULL => q[i].key # NULL /\ q[i].idle <= q[j].idle
  /\ \A i \in Slot : i < k => q[i].key # NULL /\ q[i].idle <= idle
  /\ \A j \in Slot : k < j /\ q[j].key # NULL => idle <= q[j].idle

(* Every score is a natural number. *)
LEMMA IdleType == Idle \subseteq Nat
<1>1. ASSUME NEW n \in 0 .. LRU_CLOCK_MAX PROVE n * LRU_CLOCK_RESOLUTION \in Nat
  <2>1. n \in Nat /\ LRU_CLOCK_RESOLUTION \in Nat
    BY PoolAssumption
  <2> QED
    BY <2>1
<1>2. ASSUME NEW c \in Counter PROVE 255 - c \in Nat
  <2>1. c \in 0 .. 255
    BY PoolAssumption
  <2> QED
    BY <2>1
<1>3. ASSUME NEW d \in Deadline PROVE ULLONG_MAX - d \in Nat
  <2>1. d \in 0 .. ULLONG_MAX /\ ULLONG_MAX \in Nat
    BY PoolAssumption
  <2> QED
    BY <2>1
<1> QED
  BY <1>1, <1>2, <1>3 DEF Idle

(* What copying the key writes: slot k and one string, which no other slot *)
(* refers to.                                                              *)
Written(q, mem, k, name, idle, dbid, p) ==
  /\ pool' \in [Slot -> Entry]
  /\ pool'[k].key = p /\ pool'[k].idle = idle /\ pool'[k].dbid = dbid
  /\ \A j \in Slot \ {k} : pool'[j] = q[j]
  /\ \A j \in Slot : pool'[j].cached = q[j].cached
  /\ text' \in [Sds -> Key \cup {NULL, EMPTY}]
  /\ text'[p] = name /\ \A x \in Sds \ {p} : text'[x] = mem[x]
  /\ \A j \in Slot : j # k => q[j].key # p /\ q[j].cached # p
  /\ p = q[k].cached => name \notin Long

(* The copy of a name into a slot changes only the memory of that slot. *)
LEMMA CopyWrites ==
  ASSUME NEW q \in [Slot -> Entry], NEW mem \in [Sds -> Key \cup {NULL, EMPTY}],
         NEW k \in Slot, NEW name \in Key, NEW idle \in Nat, NEW dbid \in Dbid,
         Owned(q, mem, k), CopyKey(q, mem, k, name, idle, dbid)
  PROVE  \E p \in Sds : Written(q, mem, k, name, idle, dbid, p)
<1>0. /\ NULL \notin Key /\ NULL \notin Sds
      /\ \A j \in Slot : q[j].cached \in Sds /\ q[j].key \in Sds \cup {NULL}
  BY PoolAssumption DEF Entry
<1>1. \E p \in Sds :
        /\ text' = [mem EXCEPT ![p] = name]
        /\ pool' = [q EXCEPT ![k].key = p, ![k].idle = idle, ![k].dbid = dbid]
        /\ \/ name \in Long /\ mem[p] = NULL
           \/ name \notin Long /\ p = q[k].cached
  BY <1>0, Zenon DEF CopyKey
<1>2. PICK p \in Sds :
        /\ text' = [mem EXCEPT ![p] = name]
        /\ pool' = [q EXCEPT ![k].key = p, ![k].idle = idle, ![k].dbid = dbid]
        /\ \/ name \in Long /\ mem[p] = NULL
           \/ name \notin Long /\ p = q[k].cached
  BY <1>1, Zenon
<1>3. /\ pool' \in [Slot -> Entry]
      /\ pool'[k].key = p /\ pool'[k].idle = idle /\ pool'[k].dbid = dbid
      /\ \A j \in Slot \ {k} : pool'[j] = q[j]
      /\ \A j \in Slot : pool'[j].cached = q[j].cached
  BY <1>2, Zenon DEF Entry
<1>4. /\ text' \in [Sds -> Key \cup {NULL, EMPTY}]
      /\ text'[p] = name /\ \A x \in Sds \ {p} : text'[x] = mem[x]
  BY <1>2
<1>5. \A j \in Slot : j # k => q[j].key # p /\ q[j].cached # p
  BY <1>0, <1>2 DEF Owned
<1>6. p = q[k].cached => name \notin Long
  BY <1>2 DEF Owned
<1>7. Written(q, mem, k, name, idle, dbid, p)
  BY <1>3, <1>4, <1>5, <1>6 DEF Written
<1> QED
  BY <1>7

(* Copying the key into slot k completes the array. *)
LEMMA CopyPreserves ==
  ASSUME NEW q \in [Slot -> Entry], NEW mem \in [Sds -> Key \cup {NULL, EMPTY}],
         NEW k \in Slot, NEW name \in Key, NEW idle \in Nat, NEW dbid \in Dbid,
         Owned(q, mem, k), Ordered(q, k, idle), CopyKey(q, mem, k, name, idle, dbid)
  PROVE  /\ pool' \in [Slot -> Entry] /\ text' \in [Sds -> Key \cup {NULL, EMPTY}]
         /\ PoolIsSorted' /\ EntriesOwnTheirKeys'
<1>0. /\ NULL \notin Key /\ NULL \notin Sds /\ Long \subseteq Key
      /\ \A j \in Slot : q[j].cached \in Sds /\ q[j].key \in Sds \cup {NULL} /\ q[j].idle \in Nat
  BY PoolAssumption DEF Entry
<1>2. PICK p \in Sds : Written(q, mem, k, name, idle, dbid, p)
  BY CopyWrites
<1>3. /\ pool' \in [Slot -> Entry]
      /\ pool'[k].key = p /\ pool'[k].idle = idle
      /\ \A j \in Slot \ {k} : pool'[j] = q[j]
      /\ \A j \in Slot : pool'[j].cached = q[j].cached
  BY <1>2 DEF Written
<1>4. /\ text' \in [Sds -> Key \cup {NULL, EMPTY}]
      /\ text'[p] = name /\ \A x \in Sds \ {p} : text'[x] = mem[x]
  BY <1>2 DEF Written
<1>6. \A j \in Slot : j # k => q[j].key # p /\ q[j].cached # p
  BY <1>2 DEF Written
<1>5. PoolIsSorted'
  <2> SUFFICES ASSUME NEW i \in Slot, NEW j \in Slot, i < j, pool'[j].key # NULL
               PROVE  pool'[i].key # NULL /\ pool'[i].idle <= pool'[j].idle
    BY DEF PoolIsSorted
  <2>1. CASE i # k /\ j # k
    BY <1>3, <2>1 DEF Ordered
  <2>2. CASE i = k /\ j # k
    <3>1. k < j /\ q[j].key # NULL
      BY <1>3, <2>2
    <3>2. idle <= q[j].idle
      BY <3>1 DEF Ordered
    <3> QED
      BY <1>0, <1>3, <2>2, <3>2
  <2>3. CASE i # k /\ j = k
    <3>1. q[i].key # NULL /\ q[i].idle <= idle
      BY <2>3 DEF Ordered
    <3> QED
      BY <1>3, <2>3, <3>1
  <2>4. ~(i = k /\ j = k)
    BY DEF Slot
  <2> QED
    BY <2>1, <2>2, <2>3, <2>4
<1>7. \A i, j \in Slot : pool'[i].cached = pool'[j].cached => i = j
  BY <1>3 DEF Owned
<1>8. \A i, j \in Slot : pool'[i].key # NULL /\ pool'[i].key = pool'[j].key => i = j
  BY <1>3, <1>6 DEF Owned
<1>9. \A i, j \in Slot : pool'[i].key = pool'[j].cached => i = j
  BY <1>3, <1>6 DEF Owned
<1>10. \A j \in Slot : text'[pool'[j].cached] # NULL /\ text'[pool'[j].cached] \notin Long
  <2> SUFFICES ASSUME NEW j \in Slot
               PROVE  text'[q[j].cached] # NULL /\ text'[q[j].cached] \notin Long
    BY <1>3
  <2>1. mem[q[j].cached] # NULL /\ mem[q[j].cached] \notin Long /\ q[j].cached \in Sds
    BY <1>0 DEF Owned
  <2>2. CASE q[j].cached = p
    <3>1. j = k /\ name \notin Long
      BY <1>2, <2>2 DEF Written
    <3> QED
      BY <1>0, <1>4, <2>2, <3>1
  <2>3. CASE q[j].cached # p
    BY <1>4, <2>1, <2>3
  <2> QED
    BY <2>2, <2>3
<1>11. \A j \in Slot : pool'[j].key # NULL => text'[pool'[j].key] \in Key
  BY <1>0, <1>3, <1>4, <1>6 DEF Owned
<1>12. \A x \in Sds : text'[x] # NULL => \E j \in Slot : x \in {pool'[j].key, pool'[j].cached}
  <2> SUFFICES ASSUME NEW x \in Sds, text'[x] # NULL
               PROVE  \E j \in Slot : x = pool'[j].key \/ x = pool'[j].cached
    OBVIOUS
  <2>1. CASE x = p
    BY <1>3, <2>1
  <2>2. CASE x # p
    <3>1. (\E j \in Slot : x = q[j].cached) \/ (\E j \in Slot \ {k} : x = q[j].key)
      BY <1>4, <2>2 DEF Owned
    <3> QED
      BY <1>3, <3>1
  <2> QED
    BY <2>1, <2>2
<1>13. EntriesOwnTheirKeys'
  BY <1>7, <1>8, <1>9, <1>10, <1>11, <1>12 DEF EntriesOwnTheirKeys
<1> QED
  BY <1>3, <1>4, <1>5, <1>13

(* In q every slot but k has the entry of a slot of its own, as src says,  *)
(* and k the buffer of the one that is left over; in mem the key of that   *)
(* one is deleted if it had an allocation of its own.                      *)
Shifted(q, mem, k, spare, src) ==
  /\ src \in [Slot -> Slot]
  /\ \A i, j \in Slot \ {k} : src[i] = src[j] => i = j
  /\ \A j \in Slot : j # spare <=> \E i \in Slot \ {k} : src[i] = j
  /\ q = [j \in Slot |-> IF j = k THEN [pool[k] EXCEPT !.cached = pool[spare].cached]
                         ELSE pool[src[j]]]
  /\ mem = IF pool[spare].key \in {NULL, pool[spare].cached} THEN text
           ELSE [text EXCEPT ![pool[spare].key] = NULL]

(* Shifting the array frees slot k. *)
LEMMA ShiftOwns ==
  ASSUME PoolInv, NEW k \in Slot, NEW spare \in Slot, NEW src, NEW q, NEW mem,
         Shifted(q, mem, k, spare, src)
  PROVE  q \in [Slot -> Entry] /\ mem \in [Sds -> Key \cup {NULL, EMPTY}] /\ Owned(q, mem, k)
<1>a. /\ src \in [Slot -> Slot]
      /\ \A i, j \in Slot \ {k} : src[i] = src[j] => i = j
      /\ \A j \in Slot : j # spare <=> \E i \in Slot \ {k} : src[i] = j
  BY DEF Shifted
<1>b. mem = IF pool[spare].key \in {NULL, pool[spare].cached} THEN text
            ELSE [text EXCEPT ![pool[spare].key] = NULL]
  BY DEF Shifted
<1>0. /\ pool \in [Slot -> Entry] /\ text \in [Sds -> Key \cup {NULL, EMPTY}]
      /\ \A j \in Slot : pool[j].cached \in Sds /\ pool[j].key \in Sds \cup {NULL}
      /\ NULL \notin Key /\ NULL \notin Sds
  BY PoolAssumption DEF PoolInv, TypeOK, Entry
<1>1. /\ q \in [Slot -> Entry]
      /\ q[k].cached = pool[spare].cached
      /\ \A j \in Slot \ {k} : q[j] = pool[src[j]] /\ src[j] \in Slot /\ src[j] # spare
  <2> DEFINE e == [pool[k] EXCEPT !.cached = pool[spare].cached]
  <2>1. e \in Entry /\ e.cached = pool[spare].cached
    BY <1>0 DEF Entry
  <2>2. \A j \in Slot \ {k} : src[j] \in Slot /\ src[j] # spare
    BY <1>a
  <2>3. q = [j \in Slot |-> IF j = k THEN e ELSE pool[src[j]]]
    BY DEF Shifted
  <2> HIDE DEF e
  <2>4. q \in [Slot -> Entry]
    BY <1>0, <2>1, <2>2, <2>3
  <2> QED
    BY <2>1, <2>2, <2>3, <2>4
<1>2. /\ \A i, j \in Slot : pool[i].cached = pool[j].cached => i = j
      /\ \A i, j \in Slot : pool[i].key # NULL /\ pool[i].key = pool[j].key => i = j
      /\ \A i, j \in Slot : pool[i].key = pool[j].cached => i = j
      /\ \A j \in Slot : text[pool[j].cached] # NULL /\ text[pool[j].cached] \notin Long
      /\ \A j \in Slot : pool[j].key # NULL => text[pool[j].key] \in Key
      /\ \A p \in Sds : text[p] # NULL => \E j \in Slot : p \in {pool[j].key, pool[j].cached}
  BY DEF PoolInv, EntriesOwnTheirKeys
<1>3. mem \in [Sds -> Key \cup {NULL, EMPTY}]
  BY <1>0, <1>b
<1>4. \A p \in Sds : mem[p] = IF p = pool[spare].key /\ p # pool[spare].cached THEN NULL ELSE text[p]
  BY <1>0, <1>b
<1>5. \A j \in Slot : mem[pool[j].cached] = text[pool[j].cached]
  BY <1>0, <1>2, <1>4
<1>6. \A j \in Slot : j # spare /\ pool[j].key # NULL => mem[pool[j].key] = text[pool[j].key]
  BY <1>0, <1>2, <1>4
<1>7. \A i, j \in Slot : q[i].cached = q[j].cached => i = j
  BY <1>a, <1>1, <1>2
<1>8. \A i, j \in Slot \ {k} : q[i].key # NULL /\ q[i].key = q[j].key => i = j
  BY <1>a, <1>1, <1>2
<1>9. \A i \in Slot \ {k}, j \in Slot : q[i].key = q[j].cached => i = j
  BY <1>a, <1>1, <1>2
<1>10. \A j \in Slot : mem[q[j].cached] # NULL /\ mem[q[j].cached] \notin Long
  BY <1>1, <1>2, <1>5
<1>11. \A j \in Slot \ {k} : q[j].key # NULL => mem[q[j].key] \in Key
  BY <1>1, <1>2, <1>6
<1>12. \A p \in Sds : mem[p] # NULL =>
         (\E j \in Slot : p = q[j].cached) \/ (\E j \in Slot \ {k} : p = q[j].key)
  <2> SUFFICES ASSUME NEW p \in Sds, mem[p] # NULL
               PROVE  (\E j \in Slot : p = q[j].cached) \/ (\E j \in Slot \ {k} : p = q[j].key)
    OBVIOUS
  <2>1. text[p] # NULL /\ (p # pool[spare].key \/ p = pool[spare].cached)
    BY <1>4
  <2>2. PICK m \in Slot : p = pool[m].key \/ p = pool[m].cached
    BY <1>2, <2>1
  <2>3. CASE m = spare
    BY <1>1, <2>1, <2>2, <2>3
  <2>4. CASE m # spare
    <3>1. PICK i \in Slot \ {k} : src[i] = m
      BY <1>a, <2>4
    <3> QED
      BY <1>1, <2>2, <3>1
  <2> QED
    BY <2>3, <2>4
<1> QED
  BY <1>1, <1>3, <1>7, <1>8, <1>9, <1>10, <1>11, <1>12 DEF Owned

(* In a full pool every slot has a key. *)
LEMMA FullIsFull ==
  ASSUME PoolInv, Full, NEW j \in Slot
  PROVE  pool[j].key # NULL
<1>1. Last \in Slot /\ (j = Last \/ j < Last)
  BY PoolAssumption DEF Slot, Last
<1> QED
  BY <1>1 DEF Full, PoolInv, PoolIsSorted

(* An empty slot can be used where the scan found it. *)
LEMMA EmptyRoom ==
  ASSUME PoolInv, NEW k \in Slot, NEW idle \in Nat, ScanStops(k, idle), pool[k].key = NULL
  PROVE  Owned(pool, text, k) /\ Ordered(pool, k, idle)
<1>0. /\ pool \in [Slot -> Entry] /\ \A j \in Slot : j \in Int /\ pool[j].idle \in Nat
      /\ k \in Int
  BY DEF PoolInv, TypeOK, Entry, Slot
<1>1. Owned(pool, text, k)
  <2> DEFINE src == [j \in Slot |-> j]
             q == [j \in Slot |-> IF j = k THEN [pool[k] EXCEPT !.cached = pool[k].cached]
                                  ELSE pool[src[j]]]
             mem == IF pool[k].key \in {NULL, pool[k].cached} THEN text
                    ELSE [text EXCEPT ![pool[k].key] = NULL]
  <2>1. src \in [Slot -> Slot] /\ \A j \in Slot : src[j] = j
    OBVIOUS
  <2>2. mem = text
    OBVIOUS
  <2>3. [pool[k] EXCEPT !.cached = pool[k].cached] = pool[k]
    BY <1>0 DEF Entry
  <2>4. q = pool
    BY <1>0, <2>1, <2>3
  <2>5. \A j \in Slot : j # k <=> \E i \in Slot \ {k} : src[i] = j
    BY <2>1
  <2>6. /\ q = [j \in Slot |-> IF j = k THEN [pool[k] EXCEPT !.cached = pool[k].cached]
                               ELSE pool[src[j]]]
        /\ mem = IF pool[k].key \in {NULL, pool[k].cached} THEN text
                 ELSE [text EXCEPT ![pool[k].key] = NULL]
        /\ \A i, j \in Slot \ {k} : src[i] = src[j] => i = j
    BY <2>1
  <2> HIDE DEF src, q, mem
  <2>7. Owned(q, mem, k)
    <3>1. Shifted(q, mem, k, k, src)
      BY <2>1, <2>5, <2>6 DEF Shifted
    <3> QED
      BY <3>1, ShiftOwns
  <2> QED
    BY <2>2, <2>4, <2>7
<1>2. \A i, j \in Slot :
        i < j /\ pool[j].key # NULL => pool[i].key # NULL /\ pool[i].idle <= pool[j].idle
  BY DEF PoolInv, PoolIsSorted
<1>3. \A i \in Slot : i < k => pool[i].key # NULL /\ pool[i].idle <= idle
  BY <1>0 DEF ScanStops
<1> QED
  BY <1>1, <1>2, <1>3 DEF Ordered

(* Moving the slots from k up by one makes room in a pool that is not full.*)
LEMMA RightRoom ==
  ASSUME PoolInv, NEW k \in Slot, NEW idle \in Nat, ScanStops(k, idle),
         pool[k].key # NULL, ~Full
  PROVE  /\ shift_right(k) \in [Slot -> Entry]
         /\ Owned(shift_right(k), text, k) /\ Ordered(shift_right(k), k, idle)
<1>0. /\ pool \in [Slot -> Entry] /\ \A j \in Slot : j \in Int /\ pool[j].idle \in Nat
      /\ k \in Int /\ Last \in Slot /\ Last \in Int /\ EVPOOL_SIZE \in Nat
      /\ \A j \in Slot : j <= Last /\ j >= 0
      /\ Slot = 0 .. Last
  BY PoolAssumption DEF PoolInv, TypeOK, Entry, Slot, Last
<1> DEFINE src == [j \in Slot |-> IF j > k THEN j - 1 ELSE j]
           q == [j \in Slot |-> IF j = k THEN [pool[k] EXCEPT !.cached = pool[Last].cached]
                                ELSE pool[src[j]]]
           mem == IF pool[Last].key \in {NULL, pool[Last].cached} THEN text
                  ELSE [text EXCEPT ![pool[Last].key] = NULL]
<1>1. src \in [Slot -> Slot] /\ \A j \in Slot : src[j] = IF j > k THEN j - 1 ELSE j
  BY <1>0
<1>2. mem = text
  BY DEF Full
<1>3. shift_right(k) = q
  BY <1>0, <1>1 DEF shift_right
<1>4. k # Last
  BY DEF Full
<1>5. \A i, j \in Slot \ {k} : src[i] = src[j] => i = j
  BY <1>0, <1>1
<1>6. ASSUME NEW j \in Slot PROVE j # Last <=> \E i \in Slot \ {k} : src[i] = j
  <2>1. ASSUME j < k PROVE src[j] = j /\ j \in Slot \ {k}
    BY <1>0, <1>1, <2>1
  <2>2. ASSUME j >= k, j # Last PROVE src[j + 1] = j /\ j + 1 \in Slot \ {k}
    BY <1>0, <1>1, <2>2
  <2>3. ASSUME NEW i \in Slot \ {k} PROVE src[i] # Last
    BY <1>0, <1>1, <1>4, <2>3
  <2>4. j < k \/ j >= k
    BY <1>0
  <2>5. j < k => j # Last
    BY <1>0
  <2> QED
    BY <2>1, <2>2, <2>3, <2>4, <2>5
<1>6a. /\ q = [j \in Slot |-> IF j = k THEN [pool[k] EXCEPT !.cached = pool[Last].cached]
                              ELSE pool[src[j]]]
       /\ mem = IF pool[Last].key \in {NULL, pool[Last].cached} THEN text
                ELSE [text EXCEPT ![pool[Last].key] = NULL]
  OBVIOUS
<1> HIDE DEF src, q, mem
<1>7. q \in [Slot -> Entry] /\ Owned(q, mem, k)
  <2>1. Shifted(q, mem, k, Last, src)
    BY <1>1, <1>5, <1>6, <1>6a DEF Shifted
  <2> QED
    BY <1>0, <2>1, ShiftOwns
<1>8. \A i, j \in Slot :
        i < j /\ pool[j].key # NULL => pool[i].key # NULL /\ pool[i].idle <= pool[j].idle
  BY DEF PoolInv, PoolIsSorted
<1>9. \A i \in Slot : i < k => pool[i].key # NULL /\ pool[i].idle < idle
  BY DEF ScanStops
<1>10. idle <= pool[k].idle
  BY <1>0 DEF ScanStops
<1>11. \A j \in Slot \ {k} : q[j] = pool[src[j]]
  BY <1>6a
<1>12. ASSUME NEW i \in Slot \ {k}, NEW j \in Slot \ {k}, i < j, q[j].key # NULL
       PROVE  q[i].key # NULL /\ q[i].idle <= q[j].idle
  <2>1. src[i] < src[j] /\ src[i] \in Slot /\ src[j] \in Slot
    <3>1. /\ src[i] = (IF i > k THEN i - 1 ELSE i) /\ src[j] = (IF j > k THEN j - 1 ELSE j)
          /\ i \in Int /\ j \in Int /\ i # k /\ j # k
      BY <1>0, <1>1
    <3>2. src[i] < src[j]
      BY <1>0, <1>12, <3>1
    <3> QED
      BY <1>1, <3>2
  <2> QED
    BY <1>8, <1>11, <1>12, <2>1
<1>13. ASSUME NEW i \in Slot, i < k PROVE q[i].key # NULL /\ q[i].idle <= idle
  <2>1. q[i] = pool[i]
    <3>1. i # k /\ ~(i > k)
      BY <1>0, <1>13
    <3> QED
      BY <1>1, <1>11, <3>1
  <2> QED
    BY <1>0, <1>9, <1>13, <2>1
<1>14. ASSUME NEW j \in Slot, k < j, q[j].key # NULL PROVE idle <= q[j].idle
  <2>1. q[j] = pool[j - 1] /\ j - 1 \in Slot /\ (j - 1 = k \/ k < j - 1)
    BY <1>0, <1>1, <1>11, <1>14
  <2>2. pool[k].idle <= pool[j - 1].idle
    BY <1>0, <1>8, <1>14, <2>1
  <2> QED
    BY <1>0, <1>10, <2>1, <2>2
<1> QED
  BY <1>2, <1>3, <1>7, <1>12, <1>13, <1>14 DEF Ordered

(* Moving the slots before k down by one makes room in a full pool, once   *)
(* the key of the first is deleted.                                        *)
LEMMA LeftRoom ==
  ASSUME PoolInv, NEW n \in 1 .. EVPOOL_SIZE, NEW idle \in Nat, ScanStops(n, idle), Full
  PROVE  /\ n - 1 \in Slot
         /\ shift_left(n - 1) \in [Slot -> Entry]
         /\ sds_delete_first \in [Sds -> Key \cup {NULL, EMPTY}]
         /\ Owned(shift_left(n - 1), sds_delete_first, n - 1)
         /\ Ordered(shift_left(n - 1), n - 1, idle)
<1> DEFINE k == n - 1
<1>0. /\ pool \in [Slot -> Entry] /\ \A j \in Slot : j \in Int /\ pool[j].idle \in Nat
      /\ k \in Slot /\ k \in Int /\ Last \in Int /\ 0 \in Slot /\ n = k + 1
      /\ \A j \in Slot : j <= Last /\ j >= 0
      /\ Slot = 0 .. Last
  BY PoolAssumption DEF PoolInv, TypeOK, Entry, Slot, Last
<1> HIDE DEF k
<1> DEFINE src == [j \in Slot |-> IF j < k THEN j + 1 ELSE j]
           q == [j \in Slot |-> IF j = k THEN [pool[k] EXCEPT !.cached = pool[0].cached]
                                ELSE pool[src[j]]]
           mem == IF pool[0].key \in {NULL, pool[0].cached} THEN text
                  ELSE [text EXCEPT ![pool[0].key] = NULL]
<1>1. src \in [Slot -> Slot] /\ \A j \in Slot : src[j] = IF j < k THEN j + 1 ELSE j
  BY <1>0
<1>2. mem = sds_delete_first
  <2>1. pool[0].key # NULL
    BY <1>0, FullIsFull
  <2> QED
    BY <2>1 DEF sds_delete_first
<1>3. shift_left(k) = q
  BY <1>0, <1>1 DEF shift_left
<1>5. \A i, j \in Slot \ {k} : src[i] = src[j] => i = j
  BY <1>0, <1>1
<1>6. ASSUME NEW j \in Slot PROVE j # 0 <=> \E i \in Slot \ {k} : src[i] = j
  <2>1. ASSUME j > k PROVE src[j] = j /\ j \in Slot \ {k}
    BY <1>0, <1>1, <2>1
  <2>2. ASSUME j <= k, j # 0 PROVE src[j - 1] = j /\ j - 1 \in Slot \ {k}
    BY <1>0, <1>1, <2>2
  <2>3. ASSUME NEW i \in Slot \ {k} PROVE src[i] # 0
    BY <1>0, <1>1, <2>3
  <2>4. j > k \/ j <= k
    BY <1>0
  <2>5. j > k => j # 0
    BY <1>0
  <2> QED
    BY <2>1, <2>2, <2>3, <2>4, <2>5
<1>6a. /\ q = [j \in Slot |-> IF j = k THEN [pool[k] EXCEPT !.cached = pool[0].cached]
                              ELSE pool[src[j]]]
       /\ mem = IF pool[0].key \in {NULL, pool[0].cached} THEN text
                ELSE [text EXCEPT ![pool[0].key] = NULL]
  OBVIOUS
<1> HIDE DEF src, q, mem
<1>7. q \in [Slot -> Entry] /\ mem \in [Sds -> Key \cup {NULL, EMPTY}] /\ Owned(q, mem, k)
  <2>1. Shifted(q, mem, k, 0, src)
    BY <1>1, <1>5, <1>6, <1>6a DEF Shifted
  <2> QED
    BY <1>0, <2>1, ShiftOwns
<1>8. \A i, j \in Slot :
        i < j /\ pool[j].key # NULL => pool[i].key # NULL /\ pool[i].idle <= pool[j].idle
  BY DEF PoolInv, PoolIsSorted
<1>9. \A i \in Slot : i <= k => pool[i].key # NULL /\ pool[i].idle < idle
  BY <1>0 DEF ScanStops
<1>10. \A j \in Slot : pool[j].key # NULL
  BY FullIsFull
<1>11. \A j \in Slot \ {k} : q[j] = pool[src[j]]
  BY <1>6a
<1>12. ASSUME NEW i \in Slot \ {k}, NEW j \in Slot \ {k}, i < j, q[j].key # NULL
       PROVE  q[i].key # NULL /\ q[i].idle <= q[j].idle
  <2>1. src[i] < src[j] /\ src[i] \in Slot /\ src[j] \in Slot
    <3>1. /\ src[i] = (IF i < k THEN i + 1 ELSE i) /\ src[j] = (IF j < k THEN j + 1 ELSE j)
          /\ i \in Int /\ j \in Int /\ i # k /\ j # k
      BY <1>0, <1>1
    <3>2. src[i] < src[j]
      BY <1>0, <1>12, <3>1
    <3> QED
      BY <1>1, <3>2
  <2> QED
    BY <1>8, <1>11, <1>12, <2>1
<1>13. ASSUME NEW i \in Slot, i < k PROVE q[i].key # NULL /\ q[i].idle <= idle
  <2>1. q[i] = pool[i + 1] /\ i + 1 \in Slot /\ i + 1 <= k
    BY <1>0, <1>1, <1>11, <1>13
  <2> QED
    BY <1>0, <1>9, <2>1
<1>14. ASSUME NEW j \in Slot, k < j, q[j].key # NULL PROVE idle <= q[j].idle
  <2>1. q[j] = pool[j] /\ n \in Slot /\ (j = n \/ n < j)
    BY <1>0, <1>1, <1>11, <1>14
  <2>2. idle <= pool[n].idle
    BY <1>0, <1>10, <2>1 DEF ScanStops
  <2>3. pool[n].idle <= pool[j].idle
    BY <1>0, <1>8, <1>10, <2>1
  <2> QED
    BY <1>0, <2>1, <2>2, <2>3
<1>15. Ordered(q, k, idle)
  BY <1>12, <1>13, <1>14 DEF Ordered
<1> QED
  BY <1>0, <1>2, <1>3, <1>7, <1>15 DEF k

(* Every step keeps the pool sorted and every key owned. *)
LEMMA PoolInvariant == Spec => []PoolInv
<1>1. Init => PoolInv
  <2> SUFFICES ASSUME Init PROVE PoolInv
    OBVIOUS
  <2>1. PICK buffer \in [Slot -> Sds] :
          /\ \A i, j \in Slot : buffer[i] = buffer[j] => i = j
          /\ pool = [j \in Slot |-> [idle |-> 0, key |-> NULL, cached |-> buffer[j], dbid |-> 0]]
          /\ text = [p \in Sds |-> IF \E j \in Slot : buffer[j] = p THEN EMPTY ELSE NULL]
    BY DEF Init, eviction_pool_alloc
  <2>2. \A j \in Slot : /\ pool[j] \in Entry /\ pool[j].key = NULL
                        /\ pool[j].cached = buffer[j] /\ buffer[j] \in Sds
    BY <2>1 DEF Entry
  <2>3. TypeOK
    BY <2>1, <2>2, PoolAssumption DEF Init, TypeOK
  <2>4. PoolIsSorted
    BY <2>2 DEF PoolIsSorted
  <2>5. EntriesOwnTheirKeys
    BY <2>1, <2>2, PoolAssumption DEF EntriesOwnTheirKeys
  <2> QED
    BY <2>3, <2>4, <2>5 DEF PoolInv
<1>2. PoolInv /\ [Next]_vars => PoolInv'
  <2> SUFFICES ASSUME PoolInv, [Next]_vars PROVE PoolInv'
    OBVIOUS
  <2>0. /\ pool \in [Slot -> Entry] /\ text \in [Sds -> Key \cup {NULL, EMPTY}]
        /\ policy \in {"lru", "lfu", "ttl", "random"} /\ tick \in Nat /\ proc \in {"up", "panicked"}
        /\ PoolIsSorted /\ EntriesOwnTheirKeys
    BY DEF PoolInv, TypeOK
  <2>1. ASSUME NEW n \in 0 .. EVPOOL_SIZE, NEW name \in Key, NEW idle \in Idle, NEW dbid \in Dbid,
               eviction_pool_populate(n, name, idle, dbid)
        PROVE  PoolInv'
    <3>1. idle \in Nat
      BY IdleType
    <3>2. UNCHANGED <<policy, tick, proc>>
      BY <2>1 DEF eviction_pool_populate, UseEmptySlot, InsertRight, InsertLeft
    <3>3. CASE UseEmptySlot(n, name, idle, dbid)
      <4>1. /\ n \in Slot /\ pool[n].key = NULL /\ ScanStops(n, idle)
            /\ CopyKey(pool, text, n, name, idle, dbid)
        BY <3>3 DEF UseEmptySlot, Sample
      <4>2. Owned(pool, text, n) /\ Ordered(pool, n, idle)
        BY <3>1, <4>1, EmptyRoom
      <4> QED
        BY <2>0, <3>1, <3>2, <4>1, <4>2, CopyPreserves DEF PoolInv, TypeOK
    <3>4. CASE InsertRight(n, name, idle, dbid)
      <4>1. /\ n \in Slot /\ pool[n].key # NULL /\ ~Full /\ ScanStops(n, idle)
            /\ CopyKey(shift_right(n), text, n, name, idle, dbid)
        BY <3>4 DEF InsertRight, Sample
      <4>2. /\ shift_right(n) \in [Slot -> Entry]
            /\ Owned(shift_right(n), text, n) /\ Ordered(shift_right(n), n, idle)
        BY <3>1, <4>1, RightRoom
      <4> QED
        BY <2>0, <3>1, <3>2, <4>1, <4>2, CopyPreserves DEF PoolInv, TypeOK
    <3>5. CASE InsertLeft(n, name, idle, dbid)
      <4>1. /\ n > 0 /\ Full /\ ScanStops(n, idle)
            /\ CopyKey(shift_left(n - 1), sds_delete_first, n - 1, name, idle, dbid)
        BY <3>5 DEF InsertLeft, Sample
      <4>2. n \in 1 .. EVPOOL_SIZE
        BY <4>1, PoolAssumption
      <4>3. /\ n - 1 \in Slot
            /\ shift_left(n - 1) \in [Slot -> Entry]
            /\ sds_delete_first \in [Sds -> Key \cup {NULL, EMPTY}]
            /\ Owned(shift_left(n - 1), sds_delete_first, n - 1)
            /\ Ordered(shift_left(n - 1), n - 1, idle)
        BY <3>1, <4>1, <4>2, LeftRoom
      <4> QED
        BY <2>0, <3>1, <3>2, <4>1, <4>3, CopyPreserves DEF PoolInv, TypeOK
    <3> QED
      BY <2>1, <3>3, <3>4, <3>5 DEF eviction_pool_populate
  <2>2. CASE UNCHANGED <<pool, text, policy>> /\ tick' \in Nat /\ proc' \in {"up", "panicked"}
    <3>1. PoolIsSorted' /\ EntriesOwnTheirKeys'
      BY <2>0, <2>2 DEF PoolIsSorted, EntriesOwnTheirKeys
    <3> QED
      BY <2>0, <2>2, <3>1 DEF PoolInv, TypeOK
  <2>3. CASE UnknownPolicy \/ Tick
    BY <2>0, <2>2, <2>3 DEF UnknownPolicy, Tick
  <2>4. CASE (\E idle \in Idle : RejectSample(idle)) \/ UNCHANGED vars
    BY <2>0, <2>2, <2>4 DEF RejectSample, vars
  <2> QED
    BY <2>1, <2>3, <2>4 DEF Next
<1> QED
  BY <1>1, <1>2, PTL DEF Spec

(* The used slots come first and in ascending order, in a pool of any size *)
(* and after any number of insertions.                                     *)
THEOREM StaysSorted == Spec => []PoolIsSorted
<1>1. PoolInv => PoolIsSorted
  BY DEF PoolInv
<1> QED
  BY <1>1, PoolInvariant, PTL

(* No string is shared, lost, leaked or too long for its buffer. *)
THEOREM KeysAreOwned == Spec => []EntriesOwnTheirKeys
<1>1. PoolInv => EntriesOwnTheirKeys
  BY DEF PoolInv
<1> QED
  BY <1>1, PoolInvariant, PTL

(* The estimate of the idle time never overstates, loses at most one tick  *)
(* and keeps the order of last use, for any width and resolution of the    *)
(* clock.                                                                  *)
THEOREM IdleNeverOverstated == Spec => []IdleIsAMinimum
<1>1. tick \in Nat => IdleIsAMinimum
  <2> SUFFICES ASSUME tick \in Nat PROVE IdleIsAMinimum
    OBVIOUS
  <2> DEFINE Est(t) == estimate_object_idle_time(LruClock(tick), LruClock(t))
             R == LRU_CLOCK_RESOLUTION
             Ticks(t) == IF LruClock(tick) >= LruClock(t) THEN tick - t ELSE tick - t - 1
  <2>0. R \in Nat
    BY PoolAssumption
  <2>1. ASSUME NEW t \in 0 .. tick, tick - t <= LRU_CLOCK_MAX
        PROVE  Est(t) = Ticks(t) * R /\ Ticks(t) \in Int /\ t \in Nat
    <3>1. t \in Nat /\ t <= tick
      OBVIOUS
    <3> QED
      BY <2>1, <3>1, Estimate
  <2>2. ASSUME NEW t \in 0 .. tick, tick - t <= LRU_CLOCK_MAX
        PROVE  Est(t) <= (tick - t) * R /\ Est(t) >= (tick - t - 1) * R
    <3>1. Ticks(t) <= tick - t /\ tick - t - 1 <= Ticks(t) /\ tick - t \in Int /\ tick - t - 1 \in Int
      OBVIOUS
    <3>2. Est(t) = Ticks(t) * R /\ Ticks(t) \in Int
      BY <2>1, <2>2
    <3> HIDE DEF Est, Ticks, R
    <3>3. Ticks(t) * R <= (tick - t) * R /\ (tick - t - 1) * R <= Ticks(t) * R
      BY <2>0, <3>1, <3>2, Monotone
    <3> QED
      BY <2>0, <3>1, <3>2, <3>3
  <2>3. ASSUME NEW t \in 0 .. tick, tick - t <= LRU_CLOCK_MAX,
               NEW u \in 0 .. tick, tick - u <= LRU_CLOCK_MAX, t < u
        PROVE  Est(t) >= Est(u)
    <3>1. /\ Est(t) = Ticks(t) * R /\ Ticks(t) \in Int
          /\ Est(u) = Ticks(u) * R /\ Ticks(u) \in Int
      BY <2>1, <2>3
    <3>2. Ticks(u) <= Ticks(t)
      <4>1. t \in Int /\ u \in Int /\ t <= u - 1
        BY <2>3
      <4>2. Ticks(u) <= tick - u /\ tick - t - 1 <= Ticks(t)
        BY <4>1
      <4> HIDE DEF Ticks
      <4> QED
        BY <3>1, <4>1, <4>2
    <3> HIDE DEF Est, Ticks, R
    <3>3. Ticks(u) * R <= Ticks(t) * R
      BY <2>0, <3>1, <3>2, Monotone
    <3> QED
      BY <2>0, <3>1, <3>3
  <2> HIDE DEF Est
  <2>4. \A t \in {t \in 0 .. tick : tick - t <= LRU_CLOCK_MAX} :
          /\ Est(t) <= (tick - t) * LRU_CLOCK_RESOLUTION
          /\ Est(t) >= (tick - t - 1) * LRU_CLOCK_RESOLUTION
          /\ \A u \in {u \in 0 .. tick : tick - u <= LRU_CLOCK_MAX} : t < u => Est(t) >= Est(u)
    BY <2>2, <2>3 DEF R
  <2> QED
    BY <2>4 DEF IdleIsAMinimum, Est
<1>2. PoolInv => tick \in Nat
  BY DEF PoolInv, TypeOK
<1> QED
  BY <1>1, <1>2, PoolInvariant, PTL
-----------------------------------------------------------------------------
(* The pool keeps the idlest keys *)

Candidate == [idle : Nat, name : Key, dbid : Dbid \cup {0}]

(* The candidate in a slot, and the list of the candidates of an array. *)
View(q, mem, j) == [idle |-> q[j].idle, name |-> mem[q[j].key], dbid |-> q[j].dbid]
UsedIn(q) == {j \in Slot : q[j].key # NULL}
BestOf(q, mem) == [i \in {j + 1 : j \in UsedIn(q)} |-> View(q, mem, i - 1)]

(* The used slots are the first m. *)
Prefix(q, m) == m \in 0 .. EVPOOL_SIZE /\ \A j \in Slot : q[j].key # NULL <=> j < m

Named(q, mem) ==
  q \in [Slot -> Entry] /\ \A j \in Slot : q[j].key # NULL => mem[q[j].key] \in Key

IsList(s, q, mem, m) ==
  /\ s \in Seq(Candidate) /\ Len(s) = m
  /\ \A i \in 1 .. m : i - 1 \in Slot /\ s[i] = View(q, mem, i - 1)

(* The list has one candidate per used slot. *)
LEMMA ListOf ==
  ASSUME NEW q, NEW mem, NEW m, Named(q, mem), Prefix(q, m)
  PROVE  IsList(BestOf(q, mem), q, mem, m)
<1>0. /\ q \in [Slot -> Entry]
      /\ \A j \in Slot : q[j].key # NULL => mem[q[j].key] \in Key
  BY DEF Named
<1>1. m \in Nat /\ m <= EVPOOL_SIZE /\ EVPOOL_SIZE \in Nat
  BY PoolAssumption DEF Prefix
<1>2. UsedIn(q) = 0 .. m - 1
  BY <1>1 DEF UsedIn, Prefix, Slot
<1>3. {j + 1 : j \in UsedIn(q)} = 1 .. m
  <2>1. ASSUME NEW i \in 1 .. m PROVE i - 1 \in 0 .. m - 1 /\ i = (i - 1) + 1
    BY <1>1
  <2>2. ASSUME NEW j \in 0 .. m - 1 PROVE j + 1 \in 1 .. m
    BY <1>1
  <2> QED
    BY <1>2, <2>1, <2>2
<1>4. ASSUME NEW i \in 1 .. m
      PROVE  i - 1 \in Slot /\ View(q, mem, i - 1) \in Candidate
  <2>1. i - 1 \in Slot /\ i - 1 < m
    BY <1>1 DEF Slot
  <2>2. q[i - 1].key # NULL
    BY <2>1 DEF Prefix
  <2>3. q[i - 1] \in Entry /\ mem[q[i - 1].key] \in Key
    BY <1>0, <2>1, <2>2
  <2> QED
    BY <2>1, <2>3 DEF View, Candidate, Entry
<1>5. BestOf(q, mem) = [i \in 1 .. m |-> View(q, mem, i - 1)]
  BY <1>3 DEF BestOf
<1>6. BestOf(q, mem) \in [1 .. m -> Candidate]
  BY <1>4, <1>5
<1> QED
  BY <1>1, <1>4, <1>5, <1>6 DEF IsList

(* The invariant names every candidate. *)
LEMMA PoolNamed == /\ PoolInv => Named(pool, text)
                   /\ PoolInv' => Named(pool', text')
BY DEF PoolInv, TypeOK, EntriesOwnTheirKeys, Named

(* The list s with c inserted after the first n, as far as there is room. *)
InsertAt(s, n, c) == SubSeq(s, 1, n) \o <<c>> \o SubSeq(s, n + 1, Len(s))
CutOf(t) == IF Len(t) > EVPOOL_SIZE THEN Tail(t) ELSE t

(* t is s with c after the first n. *)
IsInsertion(t, S, s, n, c) ==
  /\ t \in Seq(S) /\ Len(t) = Len(s) + 1
  /\ \A i \in 1 .. Len(s) + 1 :
       t[i] = IF i <= n THEN s[i] ELSE IF i = n + 1 THEN c ELSE s[i - 1]

(* What is where, once c is inserted. *)
LEMMA Inserted ==
  ASSUME NEW S, NEW s \in Seq(S), NEW c \in S, NEW n \in 0 .. Len(s)
  PROVE  IsInsertion(InsertAt(s, n, c), S, s, n, c)
<1> DEFINE a == SubSeq(s, 1, n)
           b == SubSeq(s, n + 1, Len(s))
           ac == a \o <<c>>
           t == InsertAt(s, n, c)
<1>0. Len(s) \in Nat /\ n \in Nat /\ n <= Len(s)
  OBVIOUS
<1>1. a \in Seq(S) /\ Len(a) = n /\ \A i \in 1 .. n : a[i] = s[i]
  <2>1. \A i \in 1 .. n : s[i] \in S
    BY <1>0, ElementOfSeq
  <2>2. /\ a \in Seq(S) /\ Len(a) = (IF 1 <= n THEN n - 1 + 1 ELSE 0)
        /\ \A i \in 1 .. n - 1 + 1 : a[i] = s[1 + i - 1]
    BY <1>0, <2>1, SubSeqProperties
  <2> HIDE DEF a
  <2> QED
    BY <1>0, <2>2
<1>2. b \in Seq(S) /\ Len(b) = Len(s) - n /\ \A i \in 1 .. Len(s) - n : b[i] = s[n + i]
  <2>1. \A i \in n + 1 .. Len(s) : s[i] \in S
    BY <1>0, ElementOfSeq
  <2>2. /\ b \in Seq(S) /\ Len(b) = (IF n + 1 <= Len(s) THEN Len(s) - (n + 1) + 1 ELSE 0)
        /\ \A i \in 1 .. Len(s) - (n + 1) + 1 : b[i] = s[(n + 1) + i - 1]
    BY <1>0, <2>1, SubSeqProperties
  <2> HIDE DEF b
  <2> QED
    BY <1>0, <2>2
<1> HIDE DEF a, b
<1>3. <<c>> \in Seq(S) /\ Len(<<c>>) = 1 /\ <<c>>[1] = c
  OBVIOUS
<1>4. /\ ac \in Seq(S) /\ Len(ac) = n + 1
      /\ \A i \in 1 .. n + 1 : ac[i] = IF i <= n THEN a[i] ELSE <<c>>[i - n]
  BY <1>0, <1>1, <1>3, ConcatProperties
<1>5. \A i \in 1 .. n + 1 : ac[i] = IF i <= n THEN s[i] ELSE c
  <2> SUFFICES ASSUME NEW i \in 1 .. n + 1 PROVE ac[i] = IF i <= n THEN s[i] ELSE c
    BY Zenon
  <2>1. CASE i <= n
    BY <1>0, <1>1, <1>4, <2>1
  <2>2. CASE ~(i <= n)
    <3>1. i - n = 1
      BY <1>0, <2>2
    <3> QED
      BY <1>3, <1>4, <2>2, <3>1
  <2> QED
    BY <2>1, <2>2, Zenon
<1> HIDE DEF ac
<1>6. t = ac \o b
  BY DEF InsertAt, ac, a, b
<1> HIDE DEF t
<1>6a. (n + 1) + (Len(s) - n) = Len(s) + 1
  BY <1>0
<1>7. /\ t \in Seq(S) /\ Len(t) = Len(s) + 1
      /\ \A i \in 1 .. Len(s) + 1 :
           t[i] = IF i <= n + 1 THEN ac[i] ELSE b[i - (n + 1)]
  <2>1. /\ ac \o b \in Seq(S) /\ Len(ac \o b) = Len(ac) + Len(b)
        /\ \A i \in 1 .. Len(ac) + Len(b) :
             (ac \o b)[i] = IF i <= Len(ac) THEN ac[i] ELSE b[i - Len(ac)]
    BY <1>2, <1>4, ConcatProperties, Zenon
  <2> QED
    BY <1>2, <1>4, <1>6, <1>6a, <2>1
<1>8. ASSUME NEW i \in 1 .. Len(s) + 1
      PROVE  t[i] = IF i <= n THEN s[i] ELSE IF i = n + 1 THEN c ELSE s[i - 1]
  <2>1. t[i] = IF i <= n + 1 THEN ac[i] ELSE b[i - (n + 1)]
    BY <1>7
  <2>2. CASE i <= n + 1
    <3>1. i \in 1 .. n + 1 /\ (~(i <= n) => i = n + 1) /\ (i <= n => i # n + 1)
      BY <1>0, <2>2
    <3>2. ac[i] = IF i <= n THEN s[i] ELSE c
      BY <1>5, <3>1
    <3> QED
      BY <2>1, <2>2, <3>1, <3>2
  <2>3. CASE ~(i <= n + 1)
    <3>1. i - (n + 1) \in 1 .. Len(s) - n /\ n + (i - (n + 1)) = i - 1 /\ ~(i <= n) /\ i # n + 1
      BY <1>0, <2>3
    <3>2. b[i - (n + 1)] = s[n + (i - (n + 1))]
      BY <1>2, <3>1
    <3> QED
      BY <2>1, <2>3, <3>1, <3>2
  <2> QED
    BY <2>2, <2>3
<1> QED
  BY <1>7, <1>8 DEF IsInsertion, t

(* There is room for c. *)
LEMMA InsertGrows ==
  ASSUME NEW S, NEW s \in Seq(S), NEW c \in S, NEW n \in 0 .. Len(s), NEW z \in Seq(S),
         Len(s) < EVPOOL_SIZE, Len(z) = Len(s) + 1,
         \A i \in 1 .. Len(s) + 1 :
           z[i] = IF i <= n THEN s[i] ELSE IF i = n + 1 THEN c ELSE s[i - 1]
  PROVE  z = CutOf(InsertAt(s, n, c))
<1> DEFINE t == InsertAt(s, n, c)
<1>1. /\ t \in Seq(S) /\ Len(t) = Len(s) + 1
      /\ \A i \in 1 .. Len(s) + 1 :
           t[i] = IF i <= n THEN s[i] ELSE IF i = n + 1 THEN c ELSE s[i - 1]
  <2>1. IsInsertion(t, S, s, n, c)
    BY Inserted
  <2> QED
    BY <2>1 DEF IsInsertion
<1> HIDE DEF t
<1>3. Len(s) \in Nat /\ EVPOOL_SIZE \in Nat
  BY PoolAssumption
<1>4. CutOf(t) = t
  BY <1>1, <1>3 DEF CutOf
<1>5. Len(z) = Len(t) /\ \A i \in 1 .. Len(z) : z[i] = t[i]
  BY <1>1, Zenon
<1>6. z = t
  BY <1>1, <1>5, SeqEqual
<1> QED
  BY <1>4, <1>6 DEF t

(* There is none, and the first of the list goes. *)
LEMMA InsertDrops ==
  ASSUME NEW S, NEW s \in Seq(S), NEW c \in S, NEW n \in 1 .. Len(s), NEW z \in Seq(S),
         Len(s) = EVPOOL_SIZE, Len(z) = Len(s),
         \A i \in 1 .. Len(s) : z[i] = IF i < n THEN s[i + 1] ELSE IF i = n THEN c ELSE s[i]
  PROVE  z = CutOf(InsertAt(s, n, c))
<1> DEFINE t == InsertAt(s, n, c)
<1>0. Len(s) \in Nat /\ n \in Nat /\ EVPOOL_SIZE \in Nat
  BY PoolAssumption
<1>0a. n \in 0 .. Len(s)
  BY <1>0
<1>1. /\ t \in Seq(S) /\ Len(t) = Len(s) + 1
      /\ \A i \in 1 .. Len(s) + 1 :
           t[i] = IF i <= n THEN s[i] ELSE IF i = n + 1 THEN c ELSE s[i - 1]
  <2>1. IsInsertion(t, S, s, n, c)
    BY <1>0a, Inserted
  <2> QED
    BY <2>1 DEF IsInsertion
<1> HIDE DEF t
<1>3. CutOf(t) = Tail(t) /\ t # <<>>
  BY <1>0, <1>1 DEF CutOf
<1>4. /\ Tail(t) \in Seq(S) /\ Len(Tail(t)) = Len(t) - 1
      /\ \A i \in 1 .. Len(Tail(t)) : Tail(t)[i] = t[i + 1]
  BY <1>1, <1>3, HeadTailProperties
<1>5. Len(Tail(t)) = Len(s)
  BY <1>0, <1>1, <1>4
<1>6. ASSUME NEW i \in 1 .. Len(s) PROVE z[i] = Tail(t)[i]
  <2>1. /\ i + 1 \in 1 .. Len(s) + 1 /\ (i + 1) - 1 = i
        /\ (i + 1 <= n <=> i < n) /\ (i + 1 = n + 1 <=> i = n)
    BY <1>0
  <2>2. t[i + 1] = IF i < n THEN s[i + 1] ELSE IF i = n THEN c ELSE s[i]
    BY <1>1, <2>1
  <2>3. Tail(t)[i] = t[i + 1]
    BY <1>4, <1>5
  <2> QED
    BY <2>2, <2>3, Zenon
<1>7. z = Tail(t)
  BY <1>4, <1>5, <1>6, SeqEqual
<1> QED
  BY <1>3, <1>7 DEF t

(* Slot k has the candidate c, the others are as before. *)
Viewed(q, mem, k, c) ==
  /\ pool'[k].key # NULL /\ View(pool', text', k) = c
  /\ \A j \in Slot \ {k} : pool'[j].key = q[j].key
  /\ \A j \in Slot \ {k} : q[j].key # NULL => View(pool', text', j) = View(q, mem, j)

(* Copying the key changes the candidate of slot k only. *)
LEMMA CopyViews ==
  ASSUME NEW q \in [Slot -> Entry], NEW mem \in [Sds -> Key \cup {NULL, EMPTY}],
         NEW k \in Slot, NEW name \in Key, NEW idle \in Nat, NEW dbid \in Dbid,
         Owned(q, mem, k), CopyKey(q, mem, k, name, idle, dbid)
  PROVE  Viewed(q, mem, k, [idle |-> idle, name |-> name, dbid |-> dbid])
<1>1. PICK p \in Sds : Written(q, mem, k, name, idle, dbid, p)
  BY CopyWrites
<1>2. NULL \notin Sds /\ \A j \in Slot : q[j].key \in Sds \cup {NULL}
  BY PoolAssumption DEF Entry
<1>3. /\ pool'[k].key = p /\ pool'[k].idle = idle /\ pool'[k].dbid = dbid
      /\ \A j \in Slot \ {k} : pool'[j] = q[j]
      /\ text'[p] = name /\ \A x \in Sds \ {p} : text'[x] = mem[x]
      /\ \A j \in Slot : j # k => q[j].key # p
  BY <1>1 DEF Written
<1>4. ASSUME NEW j \in Slot \ {k}, q[j].key # NULL PROVE View(pool', text', j) = View(q, mem, j)
  <2>1. text'[q[j].key] = mem[q[j].key] /\ pool'[j] = q[j]
    BY <1>2, <1>3, <1>4
  <2> QED
    BY <2>1 DEF View
<1>5. View(pool', text', k) = [idle |-> idle, name |-> name, dbid |-> dbid]
  BY <1>3 DEF View
<1> QED
  BY <1>2, <1>3, <1>4, <1>5 DEF Viewed
(* One sample that is taken, seen on the list: m slots are used before it. *)
Taken(m, c) ==
  \E n \in 0 .. m, l \in 0 .. EVPOOL_SIZE :
    /\ \A i \in 1 .. n : BestOf(pool, text)[i].idle < c.idle
    /\ \A i \in n + 1 .. m : BestOf(pool, text)[i].idle >= c.idle
    /\ BestOf(pool', text') = CutOf(InsertAt(BestOf(pool, text), n, c))
    /\ Prefix(pool', l)

(* The candidates before the place of a score are less idle, the others    *)
(* are not.                                                                *)
LEMMA ScanSplits ==
  ASSUME PoolInv, NEW m, Prefix(pool, m), NEW n \in 0 .. m, NEW idle \in Nat, ScanStops(n, idle)
  PROVE  /\ \A i \in 1 .. n : BestOf(pool, text)[i].idle < idle
         /\ \A i \in n + 1 .. m : BestOf(pool, text)[i].idle >= idle
<1>0. /\ pool \in [Slot -> Entry] /\ \A j \in Slot : pool[j].idle \in Nat /\ j \in Int
      /\ m \in Nat /\ n \in Nat /\ n <= m /\ EVPOOL_SIZE \in Nat /\ m <= EVPOOL_SIZE
  BY PoolAssumption DEF PoolInv, TypeOK, Entry, Prefix, Slot
<1>1. \A i \in 1 .. m : i - 1 \in Slot /\ BestOf(pool, text)[i] = View(pool, text, i - 1)
  <2>1. IsList(BestOf(pool, text), pool, text, m)
    BY PoolNamed, ListOf
  <2> QED
    BY <2>1 DEF IsList
<1>2. \A i \in 1 .. m : BestOf(pool, text)[i].idle = pool[i - 1].idle
  <2>1. \A j \in Slot : View(pool, text, j).idle = pool[j].idle
    BY DEF View
  <2> QED
    BY <1>1, <2>1
<1>3. ASSUME NEW i \in 1 .. n PROVE BestOf(pool, text)[i].idle < idle
  <2>1. i \in 1 .. m /\ i - 1 < n
    BY <1>0
  <2>2. pool[i - 1].idle < idle
    BY <1>1, <2>1 DEF ScanStops
  <2> QED
    BY <1>2, <2>1, <2>2
<1>4. ASSUME NEW i \in n + 1 .. m PROVE BestOf(pool, text)[i].idle >= idle
  <2>1. /\ i \in 1 .. m /\ i - 1 >= n /\ i - 1 < m /\ i - 1 \in Slot /\ n \in Slot /\ n < m
        /\ (n = i - 1 \/ n < i - 1)
    BY <1>0 DEF Slot
  <2>2. pool[n].key # NULL /\ pool[i - 1].key # NULL
    BY <2>1 DEF Prefix
  <2>3. pool[n].idle >= idle
    BY <2>1, <2>2 DEF ScanStops
  <2>4. pool[n].idle <= pool[i - 1].idle
    BY <1>0, <2>1, <2>2 DEF PoolInv, PoolIsSorted
  <2>5. pool[i - 1].idle >= idle
    BY <1>0, <2>1, <2>3, <2>4
  <2> QED
    BY <1>2, <2>1, <2>5
<1> QED
  BY <1>3, <1>4

(* The candidate is in slot n, the others before and behind it. *)
Grows(m, n, c) ==
  /\ m < EVPOOL_SIZE /\ Prefix(pool', m + 1)
  /\ View(pool', text', n) = c
  /\ \A j \in Slot : j < n => View(pool', text', j) = View(pool, text, j)
  /\ \A j \in Slot : n < j /\ j <= m => View(pool', text', j) = View(pool, text, j - 1)

(* A sample that finds room: what the two insertions without a loss share. *)
LEMMA GrowTaken ==
  ASSUME PoolInv, PoolInv', NEW m, Prefix(pool, m), NEW n \in 0 .. m, NEW c \in Candidate,
         ScanStops(n, c.idle), Grows(m, n, c)
  PROVE  Taken(m, c)
<1> DEFINE s == BestOf(pool, text)
           z == BestOf(pool', text')
<1>a. /\ m < EVPOOL_SIZE /\ Prefix(pool', m + 1) /\ View(pool', text', n) = c
      /\ \A j \in Slot : j < n => View(pool', text', j) = View(pool, text, j)
      /\ \A j \in Slot : n < j /\ j <= m => View(pool', text', j) = View(pool, text, j - 1)
  BY DEF Grows
<1>b. Prefix(pool', m + 1)
  BY <1>a
<1>0. m \in Nat /\ n \in Nat /\ n <= m /\ c.idle \in Nat /\ EVPOOL_SIZE \in Nat
  BY PoolAssumption DEF Prefix, Candidate
<1>1. /\ s \in Seq(Candidate) /\ Len(s) = m
      /\ \A i \in 1 .. m : i - 1 \in Slot /\ s[i] = View(pool, text, i - 1)
  <2>1. IsList(s, pool, text, m)
    BY PoolNamed, ListOf
  <2> QED
    BY <2>1 DEF IsList
<1>2. /\ z \in Seq(Candidate) /\ Len(z) = m + 1
      /\ \A i \in 1 .. m + 1 : i - 1 \in Slot /\ z[i] = View(pool', text', i - 1)
  <2>1. IsList(z, pool', text', m + 1)
    BY <1>b, PoolNamed, ListOf
  <2> QED
    BY <2>1 DEF IsList
<1>3. /\ \A i \in 1 .. n : s[i].idle < c.idle
      /\ \A i \in n + 1 .. m : s[i].idle >= c.idle
  BY <1>0, ScanSplits
<1> HIDE DEF s, z
<1>4. ASSUME NEW i \in 1 .. m + 1
      PROVE  z[i] = IF i <= n THEN s[i] ELSE IF i = n + 1 THEN c ELSE s[i - 1]
  <2>0. i \in Nat /\ i - 1 \in Slot /\ z[i] = View(pool', text', i - 1)
    BY <1>2
  <2>1. CASE i <= n
    <3>1. i - 1 < n /\ i \in 1 .. m
      BY <1>0, <2>0, <2>1
    <3> QED
      BY <1>a, <1>1, <2>0, <2>1, <3>1
  <2>2. CASE i = n + 1
    <3>1. i - 1 = n /\ ~(i <= n)
      BY <1>0, <2>2
    <3> QED
      BY <1>a, <2>0, <2>2, <3>1
  <2>3. CASE i > n + 1
    <3>1. n < i - 1 /\ i - 1 <= m /\ i - 1 \in 1 .. m /\ ~(i <= n) /\ i # n + 1
      BY <1>0, <2>0, <2>3
    <3>2. View(pool', text', i - 1) = View(pool, text, (i - 1) - 1)
      BY <1>a, <2>0, <3>1
    <3>3. s[i - 1] = View(pool, text, (i - 1) - 1)
      BY <1>1, <3>1
    <3> QED
      BY <2>0, <3>1, <3>2, <3>3
  <2> QED
    BY <1>0, <2>0, <2>1, <2>2, <2>3
<1>5. z = CutOf(InsertAt(s, n, c))
  <2>1. /\ n \in 0 .. Len(s) /\ Len(s) < EVPOOL_SIZE /\ Len(z) = Len(s) + 1
        /\ \A i \in 1 .. Len(s) + 1 :
             z[i] = IF i <= n THEN s[i] ELSE IF i = n + 1 THEN c ELSE s[i - 1]
    BY <1>a, <1>1, <1>2, <1>4
  <2> QED
    BY <1>1, <1>2, <2>1, InsertGrows, Zenon
<1>6. m + 1 \in 0 .. EVPOOL_SIZE
  BY <1>a, <1>0
<1> QED
  BY <1>a, <1>3, <1>5, <1>6 DEF Taken, s, z

(* The candidate is in slot n - 1, the others before and behind it. *)
Drops(n, c) ==
  /\ Prefix(pool', EVPOOL_SIZE)
  /\ View(pool', text', n - 1) = c
  /\ \A j \in Slot : j < n - 1 => View(pool', text', j) = View(pool, text, j + 1)
  /\ \A j \in Slot : j > n - 1 => View(pool', text', j) = View(pool, text, j)

(* A sample that makes the first candidate of a full pool go. *)
LEMMA DropTaken ==
  ASSUME PoolInv, PoolInv', NEW m, m = EVPOOL_SIZE, Prefix(pool, m), NEW n \in 1 .. m,
         NEW c \in Candidate, ScanStops(n, c.idle), Drops(n, c)
  PROVE  Taken(m, c)
<1> DEFINE s == BestOf(pool, text)
           z == BestOf(pool', text')
<1>a. /\ View(pool', text', n - 1) = c
      /\ \A j \in Slot : j < n - 1 => View(pool', text', j) = View(pool, text, j + 1)
      /\ \A j \in Slot : j > n - 1 => View(pool', text', j) = View(pool, text, j)
  BY DEF Drops
<1>b. Prefix(pool', m)
  BY DEF Drops
<1>0. m \in Nat /\ n \in Nat /\ n <= m /\ n >= 1 /\ c.idle \in Nat /\ n \in 0 .. m /\ m \in 0 .. m
  BY PoolAssumption DEF Candidate
<1>1. /\ s \in Seq(Candidate) /\ Len(s) = m
      /\ \A i \in 1 .. m : i - 1 \in Slot /\ s[i] = View(pool, text, i - 1)
  <2>1. IsList(s, pool, text, m)
    BY PoolNamed, ListOf
  <2> QED
    BY <2>1 DEF IsList
<1>2. /\ z \in Seq(Candidate) /\ Len(z) = m
      /\ \A i \in 1 .. m : i - 1 \in Slot /\ z[i] = View(pool', text', i - 1)
  <2>1. IsList(z, pool', text', m)
    BY <1>b, PoolNamed, ListOf
  <2> QED
    BY <2>1 DEF IsList
<1>2a. n \in 0 .. m
  BY <1>0
<1>3. /\ \A i \in 1 .. n : s[i].idle < c.idle
      /\ \A i \in n + 1 .. m : s[i].idle >= c.idle
  BY <1>0, <1>2a, ScanSplits
<1> HIDE DEF s, z
<1>4. ASSUME NEW i \in 1 .. m
      PROVE  z[i] = IF i < n THEN s[i + 1] ELSE IF i = n THEN c ELSE s[i]
  <2>0. i \in Nat /\ i - 1 \in Slot /\ z[i] = View(pool', text', i - 1)
    BY <1>2
  <2>1. CASE i < n
    <3>1. i - 1 < n - 1 /\ i + 1 \in 1 .. m /\ (i - 1) + 1 = (i + 1) - 1
      BY <1>0, <2>0, <2>1
    <3>2. View(pool', text', i - 1) = View(pool, text, (i - 1) + 1)
      BY <1>a, <2>0, <3>1
    <3>3. s[i + 1] = View(pool, text, (i + 1) - 1)
      BY <1>1, <3>1
    <3> QED
      BY <2>0, <2>1, <3>1, <3>2, <3>3
  <2>2. CASE i = n
    <3>1. i - 1 = n - 1 /\ ~(i < n)
      BY <1>0, <2>2
    <3> QED
      BY <1>a, <2>0, <2>2, <3>1
  <2>3. CASE i > n
    <3>1. i - 1 > n - 1 /\ ~(i < n) /\ i # n
      BY <1>0, <2>0, <2>3
    <3> QED
      BY <1>a, <1>1, <2>0, <3>1
  <2>4. i < n \/ i = n \/ i > n
    BY <1>0, <2>0
  <2> QED
    BY <2>1, <2>2, <2>3, <2>4
<1>5. z = CutOf(InsertAt(s, n, c))
  <2>1. /\ n \in 1 .. Len(s) /\ Len(s) = EVPOOL_SIZE /\ Len(z) = Len(s)
        /\ \A i \in 1 .. Len(s) : z[i] = IF i < n THEN s[i + 1] ELSE IF i = n THEN c ELSE s[i]
    BY <1>1, <1>2, <1>4
  <2> QED
    BY <1>1, <1>2, <2>1, InsertDrops
<1> QED
  BY <1>b, <1>0, <1>3, <1>5 DEF Taken, s, z

(* Every sample that is taken is inserted in the list. *)
LEMMA PopulateTakes ==
  ASSUME PoolInv, PoolInv', NEW m, Prefix(pool, m),
         NEW k \in 0 .. EVPOOL_SIZE, NEW name \in Key, NEW idle \in Idle, NEW dbid \in Dbid,
         eviction_pool_populate(k, name, idle, dbid)
  PROVE  Taken(m, [idle |-> idle, name |-> name, dbid |-> dbid])
<1> DEFINE c == [idle |-> idle, name |-> name, dbid |-> dbid]
<1>0. /\ pool \in [Slot -> Entry] /\ text \in [Sds -> Key \cup {NULL, EMPTY}]
      /\ m \in Nat /\ m <= EVPOOL_SIZE /\ EVPOOL_SIZE \in Nat \ {0}
      /\ Slot = 0 .. EVPOOL_SIZE - 1 /\ Last = EVPOOL_SIZE - 1
      /\ \A j \in Slot : pool[j].key # NULL <=> j < m
      /\ idle \in Nat /\ NULL \notin Sds /\ \A j \in Slot : pool[j].key \in Sds \cup {NULL}
  BY PoolAssumption, IdleType, SMTT(30) DEF PoolInv, TypeOK, Entry, Slot, Last, Prefix
<1>n. /\ m \in Nat /\ m <= EVPOOL_SIZE /\ EVPOOL_SIZE \in Nat \ {0}
      /\ Slot = 0 .. EVPOOL_SIZE - 1 /\ Last = EVPOOL_SIZE - 1
  BY <1>0
<1>u. \A j \in Slot : pool[j].key # NULL <=> j < m
  BY <1>0
<1>0a. c \in Candidate /\ c.idle = idle
  BY <1>0 DEF Candidate
<1>1. CASE UseEmptySlot(k, name, idle, dbid)
  <2>1. /\ k \in Slot /\ pool[k].key = NULL /\ ScanStops(k, idle)
        /\ CopyKey(pool, text, k, name, idle, dbid)
    BY <1>1 DEF UseEmptySlot, Sample
  <2>2. Owned(pool, text, k)
    BY <1>0, <2>1, EmptyRoom
  <2>3. /\ pool'[k].key # NULL /\ View(pool', text', k) = c
        /\ \A j \in Slot \ {k} : pool'[j].key = pool[j].key
        /\ \A j \in Slot \ {k} : pool[j].key # NULL => View(pool', text', j) = View(pool, text, j)
    <3>1. Viewed(pool, text, k, c)
      BY <1>0, <2>1, <2>2, CopyViews
    <3> QED
      BY <3>1 DEF Viewed
  <2>4. \A j \in Slot : j < k => pool[j].key # NULL
    BY <2>1 DEF ScanStops
  <2>5. k = m /\ m < EVPOOL_SIZE /\ m \in 0 .. m /\ m + 1 \in 0 .. EVPOOL_SIZE
    <3>1. ~(k < m) /\ k < EVPOOL_SIZE /\ k \in Nat
      BY <1>n, <1>u, <2>1
    <3>2. ASSUME m < k PROVE FALSE
      <4>1. m \in Slot
        BY <1>n, <3>1, <3>2
      <4> QED
        BY <1>n, <1>u, <2>4, <3>2, <4>1
    <3>3. k = m
      BY <1>n, <3>1, <3>2
    <3> QED
      BY <1>n, <3>1, <3>3
  <2>6. Prefix(pool', m + 1)
    <3>1. ASSUME NEW j \in Slot PROVE pool'[j].key # NULL <=> j < m + 1
      <4>1. j \in Int /\ (j < m + 1 <=> j < m \/ j = m)
        BY <1>n
      <4> QED
        BY <1>u, <2>3, <2>5, <4>1
    <3> QED
      BY <2>5, <3>1 DEF Prefix
  <2>7. \A j \in Slot : j < m => View(pool', text', j) = View(pool, text, j)
    <3>1. \A j \in Slot : j < m => j # k /\ pool[j].key # NULL
      BY <1>n, <1>u, <2>5
    <3> QED
      BY <2>3, <3>1
  <2>8. \A j \in Slot : ~(m < j /\ j <= m)
    BY <1>n
  <2> HIDE DEF c
  <2>9. Grows(m, m, c)
    BY <2>3, <2>5, <2>6, <2>7, <2>8 DEF Grows
  <2>10. Taken(m, c)
    BY <1>0a, <2>1, <2>5, <2>9, GrowTaken
  <2> QED
    BY <2>10 DEF c
<1>2. CASE InsertRight(k, name, idle, dbid)
  <2> DEFINE q == shift_right(k)
  <2>1. /\ k \in Slot /\ pool[k].key # NULL /\ ~Full /\ ScanStops(k, idle)
        /\ CopyKey(q, text, k, name, idle, dbid)
    BY <1>2 DEF InsertRight, Sample
  <2>2. q \in [Slot -> Entry] /\ Owned(q, text, k)
    BY <1>0, <2>1, RightRoom
  <2>3. \A j \in Slot : /\ j < k => q[j] = pool[j]
                        /\ j > k => q[j] = pool[j - 1]
    BY <1>0, <2>1 DEF shift_right
  <2> HIDE DEF q
  <2>4. /\ pool'[k].key # NULL /\ View(pool', text', k) = c
        /\ \A j \in Slot \ {k} : pool'[j].key = q[j].key
        /\ \A j \in Slot \ {k} : q[j].key # NULL => View(pool', text', j) = View(q, text, j)
    <3>1. Viewed(q, text, k, c)
      BY <1>0, <2>1, <2>2, CopyViews
    <3> QED
      BY <3>1 DEF Viewed
  <2>5. k < m /\ m < EVPOOL_SIZE /\ k \in 0 .. m /\ m + 1 \in 0 .. EVPOOL_SIZE /\ k \in Int
    <3>1. k < m /\ k \in Int /\ k >= 0
      BY <1>n, <1>u, <2>1
    <3>2. Last \in Slot /\ ~(Last < m)
      BY <1>n, <1>u, <2>1 DEF Full
    <3> QED
      BY <1>n, <3>1, <3>2
  <2>6. ASSUME NEW j \in Slot, j < k
        PROVE  pool'[j].key # NULL /\ View(pool', text', j) = View(pool, text, j)
    <3>0. j < m /\ j # k
      BY <1>n, <2>5, <2>6
    <3>1. q[j] = pool[j] /\ pool[j].key # NULL /\ j \in Slot \ {k}
      BY <1>u, <2>3, <2>6, <3>0
    <3>2. View(q, text, j) = View(pool, text, j)
      BY <3>1 DEF View
    <3> QED
      BY <2>4, <3>1, <3>2
  <2>7. ASSUME NEW j \in Slot, k < j
        PROVE  /\ pool'[j].key # NULL <=> j < m + 1
               /\ j <= m => View(pool', text', j) = View(pool, text, j - 1)
    <3>0. /\ j > k /\ j # k /\ j - 1 \in Slot /\ (j - 1 < m <=> j < m + 1)
          /\ (j <= m <=> j < m + 1)
      BY <1>n, <2>5, <2>7
    <3>1. q[j] = pool[j - 1] /\ j \in Slot \ {k}
      BY <2>3, <3>0
    <3>2. pool[j - 1].key # NULL <=> j < m + 1
      BY <1>u, <3>0
    <3>3. View(q, text, j) = View(pool, text, j - 1)
      BY <3>1 DEF View
    <3> QED
      BY <2>4, <3>0, <3>1, <3>2, <3>3
  <2>8. Prefix(pool', m + 1)
    <3>1. ASSUME NEW j \in Slot PROVE pool'[j].key # NULL <=> j < m + 1
      <4>1. (j < k /\ j < m + 1) \/ (j = k /\ j < m + 1) \/ k < j
        BY <1>n, <2>5
      <4> QED
        BY <2>4, <2>6, <2>7, <4>1
    <3> QED
      BY <2>5, <3>1 DEF Prefix
  <2> HIDE DEF c
  <2>9. Grows(m, k, c)
    BY <2>4, <2>5, <2>6, <2>7, <2>8 DEF Grows
  <2>10. Taken(m, c)
    BY <1>0a, <2>1, <2>5, <2>9, GrowTaken
  <2> QED
    BY <2>10 DEF c
<1>3. CASE InsertLeft(k, name, idle, dbid)
  <2> DEFINE q == shift_left(k - 1)
             mem == sds_delete_first
  <2>1. /\ k > 0 /\ Full /\ ScanStops(k, idle)
        /\ CopyKey(q, mem, k - 1, name, idle, dbid)
    BY <1>3 DEF InsertLeft, Sample
  <2>2. k \in 1 .. EVPOOL_SIZE
    BY <1>0, <2>1
  <2>3. /\ k - 1 \in Slot /\ q \in [Slot -> Entry] /\ mem \in [Sds -> Key \cup {NULL, EMPTY}]
        /\ Owned(q, mem, k - 1)
    BY <1>0, <2>1, <2>2, LeftRoom
  <2>4. \A j \in Slot : /\ j < k - 1 => q[j] = pool[j + 1]
                        /\ j > k - 1 => q[j] = pool[j]
    BY <1>0, <2>3 DEF shift_left
  <2>5. m = EVPOOL_SIZE /\ \A j \in Slot : pool[j].key # NULL
    <3>1. Last \in Slot /\ Last < m
      BY <1>n, <1>u, <2>1 DEF Full
    <3>2. m = EVPOOL_SIZE /\ \A j \in Slot : j < m
      BY <1>n, <3>1
    <3> QED
      BY <1>u, <3>2
  <2>6. ASSUME NEW j \in Slot, j # 0 PROVE mem[pool[j].key] = text[pool[j].key]
    <3>1. 0 \in Slot
      BY <1>n
    <3>2. \A i \in Slot : pool[i].key # NULL /\ pool[i].key = pool[j].key => i = j
      BY DEF PoolInv, EntriesOwnTheirKeys
    <3>3. pool[0].key # pool[j].key /\ pool[j].key \in Sds
      BY <1>0, <2>5, <2>6, <3>1, <3>2
    <3>4. text \in [Sds -> Key \cup {NULL, EMPTY}]
      BY <1>0
    <3> QED
      BY <3>3, <3>4 DEF sds_delete_first
  <2> HIDE DEF q, mem
  <2>7. /\ pool'[k - 1].key # NULL /\ View(pool', text', k - 1) = c
        /\ \A j \in Slot \ {k - 1} : pool'[j].key = q[j].key
        /\ \A j \in Slot \ {k - 1} : q[j].key # NULL => View(pool', text', j) = View(q, mem, j)
    <3>1. Viewed(q, mem, k - 1, c)
      BY <1>0, <2>1, <2>3, CopyViews
    <3> QED
      BY <3>1 DEF Viewed
  <2>8. ASSUME NEW j \in Slot, j < k - 1
        PROVE  pool'[j].key # NULL /\ View(pool', text', j) = View(pool, text, j + 1)
    <3>0. j # k - 1 /\ j + 1 \in Slot /\ j + 1 # 0
      BY <1>n, <2>2, <2>8
    <3>1. q[j] = pool[j + 1] /\ j \in Slot \ {k - 1}
      BY <2>4, <2>8, <3>0, Zenon
    <3>2. pool[j + 1].key # NULL /\ View(q, mem, j) = View(pool, text, j + 1)
      BY <2>5, <2>6, <3>0, <3>1, Zenon DEF View
    <3> QED
      BY <2>7, <3>1, <3>2
  <2>9. ASSUME NEW j \in Slot, j > k - 1
        PROVE  pool'[j].key # NULL /\ View(pool', text', j) = View(pool, text, j)
    <3>0. j # k - 1 /\ j # 0
      BY <1>n, <2>2, <2>9
    <3>1. q[j] = pool[j] /\ j \in Slot \ {k - 1}
      BY <2>4, <2>9, <3>0
    <3>2. pool[j].key # NULL /\ View(q, mem, j) = View(pool, text, j)
      BY <2>5, <2>6, <3>0, <3>1 DEF View
    <3> QED
      BY <2>7, <3>1, <3>2
  <2>10. Prefix(pool', EVPOOL_SIZE)
    <3>1. ASSUME NEW j \in Slot PROVE pool'[j].key # NULL /\ j < EVPOOL_SIZE
      <4>1. (j < k - 1 \/ j = k - 1 \/ j > k - 1) /\ j < EVPOOL_SIZE
        BY <1>n, <2>2
      <4> QED
        BY <2>7, <2>8, <2>9, <4>1
    <3> QED
      <4>1. EVPOOL_SIZE \in 0 .. EVPOOL_SIZE
        BY <1>n
      <4> QED
        BY <3>1, <4>1 DEF Prefix
  <2> HIDE DEF c
  <2>11. Drops(k, c)
    BY <2>7, <2>8, <2>9, <2>10 DEF Drops
  <2>12. k \in 1 .. m /\ m = EVPOOL_SIZE
    BY <2>2, <2>5
  <2>13. Taken(m, c)
    BY <1>0a, <2>1, <2>11, <2>12, DropTaken
  <2> QED
    BY <2>13 DEF c
<1> QED
  BY <1>1, <1>2, <1>3 DEF eviction_pool_populate

(* The used slots are always the first ones. *)
Compact == \E m \in 0 .. EVPOOL_SIZE : Prefix(pool, m)

(* A pool of any size implements the list of the idlest keys: no order of  *)
(* samples makes it drop, duplicate or misname a candidate.                *)
THEOREM PoolKeepsIdlest == Spec => ImplementsIdlestKeys
<1>1. Init => Compact /\ Promise!Init
  <2> SUFFICES ASSUME Init PROVE Compact /\ Promise!Init
    OBVIOUS
  <2>1. \A j \in Slot : pool[j].key = NULL
    BY DEF Init, eviction_pool_alloc
  <2>2. Prefix(pool, 0) /\ 0 \in 0 .. EVPOOL_SIZE
    BY <2>1, PoolAssumption DEF Prefix, Slot
  <2>3. Used = {}
    BY <2>1 DEF Used
  <2>4. {j + 1 : j \in Used} = {}
    BY <2>3
  <2>5. Best = <<>>
    BY <2>4, SMTT(30) DEF Best
  <2> QED
    BY <2>2, <2>5 DEF Compact, Promise!Init
<1>2. PoolInv /\ PoolInv' /\ Compact /\ [Next]_vars => Compact' /\ [Promise!Next]_Best
  <2> SUFFICES ASSUME PoolInv, PoolInv', Compact, [Next]_vars
               PROVE  Compact' /\ [Promise!Next]_Best
    OBVIOUS
  <2>0. PICK m \in 0 .. EVPOOL_SIZE : Prefix(pool, m)
    BY DEF Compact
  <2>1. ASSUME NEW k \in 0 .. EVPOOL_SIZE, NEW name \in Key, NEW idle \in Idle, NEW dbid \in Dbid,
               eviction_pool_populate(k, name, idle, dbid)
        PROVE  Compact' /\ Promise!Next
    <3> DEFINE c == [idle |-> idle, name |-> name, dbid |-> dbid]
    <3>1. Taken(m, c)
      BY <2>0, <2>1, PopulateTakes
    <3>2. c \in Candidates
      BY DEF Candidates
    <3>3. Best = BestOf(pool, text) /\ Best' = BestOf(pool', text')
      BY DEF Best, Used, BestOf, UsedIn, View
    <3> HIDE DEF c
    <3>4. Len(Best) = m
      <4>1. IsList(Best, pool, text, m)
        BY <2>0, <3>3, PoolNamed, ListOf
      <4> QED
        BY <4>1 DEF IsList
    <3>5. PICK n \in 0 .. m, l \in 0 .. EVPOOL_SIZE :
            /\ \A i \in 1 .. n : Best[i].idle < c.idle
            /\ \A i \in n + 1 .. m : Best[i].idle >= c.idle
            /\ Best' = CutOf(InsertAt(Best, n, c))
            /\ Prefix(pool', l)
      BY <3>1, <3>3 DEF Taken
    <3>6. Promise!Offer(c)
      BY <3>4, <3>5, Zenon DEF Promise!Offer, Promise!Cut, CutOf, InsertAt
    <3> QED
      BY <3>2, <3>5, <3>6 DEF Compact, Promise!Next
  <2>2. CASE UNCHANGED <<pool, text>>
    BY <2>0, <2>2 DEF Compact, Prefix, Best, Used
  <2>3. CASE UnknownPolicy \/ Tick \/ (\E idle \in Idle : RejectSample(idle)) \/ UNCHANGED vars
    BY <2>2, <2>3 DEF UnknownPolicy, Tick, RejectSample, vars
  <2> QED
    BY <2>1, <2>3 DEF Next
<1> QED
  BY <1>1, <1>2, PoolInvariant, PTL DEF Spec, ImplementsIdlestKeys, Promise!Spec
=============================================================================
