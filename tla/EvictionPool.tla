---------------------------- MODULE EvictionPool ----------------------------
(***************************************************************************)
(* The pool of eviction candidates (redis/evict.c): an array sorted by     *)
(* idle score that eviction_pool_populate fills from sampled keys.  Each   *)
(* slot owns a buffer; a short key is copied into it, a long one into an   *)
(* allocation of its own, and both kinds of memory move with the slots     *)
(* when the array is shifted.                                              *)
(*                                                                         *)
(* A sampled key is an input: its name, its database and the field its     *)
(* score is computed from (the LRU stamp, the LFU counter or the           *)
(* deadline).  One action is one iteration of the loop over the samples.   *)
(***************************************************************************)
EXTENDS Integers

CONSTANTS
  EVPOOL_SIZE,
  Key,                   \* names of keys
  Long,                  \* names longer than EVPOOL_CACHED_SDS_SIZE
  Sds,                   \* addresses of strings
  Dbid,
  Counter,               \* results of LFUDecrAndReturn
  Deadline,              \* when_ms of sampled keys
  ULLONG_MAX,
  LRU_CLOCK_MAX,
  LRU_CLOCK_RESOLUTION,
  MaxTick,               \* bound on the clock
  NULL, EMPTY            \* no string; the string of a new buffer

ASSUME PoolAssumption ==
  /\ EVPOOL_SIZE \in Nat \ {0}
  /\ Long \subseteq Key /\ NULL \notin Key /\ EMPTY \notin Key /\ NULL # EMPTY /\ NULL \notin Sds
  /\ Counter \subseteq 0 .. 255
  /\ ULLONG_MAX \in Nat /\ Deadline \subseteq 0 .. ULLONG_MAX
  /\ LRU_CLOCK_MAX \in Nat /\ LRU_CLOCK_RESOLUTION \in Nat \ {0}
  /\ MaxTick \in Nat

VARIABLES
  pool,      \* eviction_pool_lru
  text,      \* the string at each address; NULL where nothing is allocated
  policy,    \* maxmemory_policy
  tick,      \* mstime() / LRU_CLOCK_RESOLUTION
  proc       \* "up", or "panicked"

vars == <<pool, text, policy, tick, proc>>

Slot == 0 .. EVPOOL_SIZE - 1
Last == EVPOOL_SIZE - 1

(* eviction_pool_alloc: one new buffer per slot. *)
eviction_pool_alloc ==
  /\ \E buffer \in [Slot -> Sds] :
       /\ \A i, j \in Slot : buffer[i] = buffer[j] => i = j
       /\ pool = [j \in Slot |-> [idle |-> 0, key |-> NULL, cached |-> buffer[j], dbid |-> 0]]
       /\ text = [p \in Sds |-> IF \E j \in Slot : buffer[j] = p THEN EMPTY ELSE NULL]

Init ==
  /\ eviction_pool_alloc
  /\ policy \in {"lru", "lfu", "ttl", "random"}
  /\ tick \in 0 .. MaxTick
  /\ proc = "up"
-----------------------------------------------------------------------------
(* The clock of get_lru_clock: LRU_CLOCK_MAX is a mask of ones. *)
LruClock(t) == t % (LRU_CLOCK_MAX + 1)

(* Wrong variant: a stamp from before the wrap is taken for a later one. *)
estimate_object_idle_time_nowrap(lruclock, lru) ==
  IF lruclock >= lru THEN (lruclock - lru) * LRU_CLOCK_RESOLUTION
  ELSE (lru - lruclock) * LRU_CLOCK_RESOLUTION

estimate_object_idle_time(lruclock, lru) ==
  IF lruclock >= lru THEN (lruclock - lru) * LRU_CLOCK_RESOLUTION
  ELSE (lruclock + (LRU_CLOCK_MAX - lru)) * LRU_CLOCK_RESOLUTION

(* The scores a sampled key can have. *)
Score(idle) ==
  \/ policy = "lru" /\ \E lru \in 0 .. LRU_CLOCK_MAX :
       idle = estimate_object_idle_time(LruClock(tick), lru)
  \/ policy = "lfu" /\ \E c \in Counter : idle = 255 - c
  \/ policy = "ttl" /\ \E when_ms \in Deadline : idle = ULLONG_MAX - when_ms
-----------------------------------------------------------------------------
(* Wrong variant: the scan goes on to the first empty slot. *)
ScanStops_append(k, idle) ==
  /\ \A j \in Slot : j < k => pool[j].key # NULL
  /\ k \in Slot => pool[k].key = NULL

(* The while loop stops at k. *)
ScanStops(k, idle) ==
  /\ \A j \in Slot : j < k => pool[j].key # NULL /\ pool[j].idle < idle
  /\ k \in Slot => pool[k].key = NULL \/ pool[k].idle >= idle

Full == pool[Last].key # NULL

(* Wrong variant: the buffer of the last slot is lost. *)
shift_right_lossy(k) ==
  [j \in Slot |-> IF j > k THEN pool[j - 1] ELSE pool[j]]

(* pool[k .. Last - 1] move one slot up; k keeps the buffer of the last.   *)
shift_right(k) ==
  [j \in Slot |-> IF j > k THEN pool[j - 1]
                  ELSE IF j = k THEN [pool[k] EXCEPT !.cached = pool[Last].cached]
                  ELSE pool[j]]

(* Wrong variant: one slot too few is moved. *)
shift_left_short(k) ==
  [j \in Slot |-> IF j < k - 1 THEN pool[j + 1]
                  ELSE IF j = k THEN [pool[k] EXCEPT !.cached = pool[0].cached]
                  ELSE pool[j]]

(* pool[1 .. k] move one slot down; k gets the buffer of the first. *)
shift_left(k) ==
  [j \in Slot |-> IF j < k THEN pool[j + 1]
                  ELSE IF j = k THEN [pool[k] EXCEPT !.cached = pool[0].cached]
                  ELSE pool[j]]

(* The strings once the first key is deleted, if it is not in a buffer. *)
sds_delete_first ==
  IF pool[0].key # pool[0].cached THEN [text EXCEPT ![pool[0].key] = NULL] ELSE text

(* The end of the iteration: the key is copied and slot k described.  q is *)
(* the array and mem the strings once there is room.                       *)
CopyKey(q, mem, k, name, idle, dbid) ==
  \/ /\ name \in Long
     /\ \E p \in Sds : /\ mem[p] = NULL
                       /\ text' = [mem EXCEPT ![p] = name]
                       /\ pool' = [q EXCEPT ![k].key = p, ![k].idle = idle, ![k].dbid = dbid]
  \/ /\ name \notin Long
     /\ text' = [mem EXCEPT ![q[k].cached] = name]
     /\ pool' = [q EXCEPT ![k].key = q[k].cached, ![k].idle = idle, ![k].dbid = dbid]
-----------------------------------------------------------------------------
(* eviction_pool_populate, one sample; the four ways through the loop body *)

Sample(k, idle) == proc = "up" /\ Score(idle) /\ ScanStops(k, idle)

(* Every key in a full pool is at least as idle: continue. *)
RejectSample(idle) ==
  /\ Sample(0, idle) /\ Full
  /\ UNCHANGED vars

UseEmptySlot(k, name, idle, dbid) ==
  /\ Sample(k, idle)
  /\ k \in Slot /\ pool[k].key = NULL
  /\ CopyKey(pool, text, k, name, idle, dbid)
  /\ UNCHANGED <<policy, tick, proc>>

InsertRight(k, name, idle, dbid) ==
  /\ Sample(k, idle)
  /\ k \in Slot /\ pool[k].key # NULL /\ ~Full
  /\ CopyKey(shift_right(k), text, k, name, idle, dbid)
  /\ UNCHANGED <<policy, tick, proc>>

(* The least idle key makes room. *)
InsertLeft(k, name, idle, dbid) ==
  /\ Sample(k, idle)
  /\ k > 0 /\ Full
  /\ CopyKey(shift_left(k - 1), sds_delete_first, k - 1, name, idle, dbid)
  /\ UNCHANGED <<policy, tick, proc>>

(* "Unknow eviction policy in eviction_pool_populate()". *)
UnknownPolicy ==
  /\ proc = "up" /\ policy \notin {"lru", "lfu", "ttl"}
  /\ proc' = "panicked"
  /\ UNCHANGED <<pool, text, policy, tick>>

Tick ==
  /\ proc = "up" /\ tick < MaxTick
  /\ tick' = tick + 1
  /\ UNCHANGED <<pool, text, policy, proc>>

(* The scores that can be met at all. *)
Idle == {n * LRU_CLOCK_RESOLUTION : n \in 0 .. LRU_CLOCK_MAX}
        \cup {255 - c : c \in Counter} \cup {ULLONG_MAX - d : d \in Deadline}

eviction_pool_populate(k, name, idle, dbid) ==
  \/ UseEmptySlot(k, name, idle, dbid)
  \/ InsertRight(k, name, idle, dbid)
  \/ InsertLeft(k, name, idle, dbid)

Next ==
  \/ \E idle \in Idle : RejectSample(idle)
  \/ \E k \in 0 .. EVPOOL_SIZE, name \in Key, idle \in Idle, dbid \in Dbid :
       eviction_pool_populate(k, name, idle, dbid)
  \/ UnknownPolicy \/ Tick

Spec == Init /\ [][Next]_vars
-----------------------------------------------------------------------------
(* Properties *)

Entry == [idle : Nat, key : Sds \cup {NULL}, cached : Sds, dbid : Dbid \cup {0}]

TypeOK ==
  /\ pool \in [Slot -> Entry]
  /\ text \in [Sds -> Key \cup {NULL, EMPTY}]
  /\ policy \in {"lru", "lfu", "ttl", "random"}
  /\ tick \in Nat
  /\ proc \in {"up", "panicked"}

(* The used slots come first, in ascending order of their scores, after    *)
(* any number of insertions at any place: the scan of the next sample and  *)
(* the choice of the key to drop rely on it (evict.c:101-131).             *)
PoolIsSorted ==
  \A i, j \in Slot :
    i < j /\ pool[j].key # NULL => pool[i].key # NULL /\ pool[i].idle <= pool[j].idle

(* Every slot has a buffer of its own, every key is in the buffer of its   *)
(* slot or in an allocation nobody else refers to, a long key is never in  *)
(* a buffer, and nothing else is allocated: shifting loses, shares and     *)
(* leaks no string (evict.c:109-140).                                      *)
EntriesOwnTheirKeys ==
  /\ \A i, j \in Slot : pool[i].cached = pool[j].cached => i = j
  /\ \A i, j \in Slot : pool[i].key # NULL /\ pool[i].key = pool[j].key => i = j
  /\ \A i, j \in Slot : pool[i].key = pool[j].cached => i = j
  /\ \A j \in Slot : text[pool[j].cached] # NULL /\ text[pool[j].cached] \notin Long
  /\ \A j \in Slot : pool[j].key # NULL => text[pool[j].key] \in Key
  /\ \A p \in Sds : text[p] # NULL => \E j \in Slot : p \in {pool[j].key, pool[j].cached}

(* The score of a key that was last used t ticks ago, less than a period   *)
(* of the clock, is never more than t ticks and at most one less, and a    *)
(* key used earlier never scores less than one used later, wherever the    *)
(* clock wrapped in between: "returns the min number of milliseconds the   *)
(* object was never requested" (evict.c:59-69).                            *)
IdleIsAMinimum ==
  LET Est(t) == estimate_object_idle_time(LruClock(tick), LruClock(t))
      Recent == {t \in 0 .. tick : tick - t <= LRU_CLOCK_MAX}
  IN \A t \in Recent :
       /\ Est(t) <= (tick - t) * LRU_CLOCK_RESOLUTION
       /\ Est(t) >= (tick - t - 1) * LRU_CLOCK_RESOLUTION
       /\ \A u \in Recent : t < u => Est(t) >= Est(u)
-----------------------------------------------------------------------------
(* The pool as a list of candidates *)

Used == {j \in Slot : pool[j].key # NULL}
Candidates == [idle : Idle, name : Key, dbid : Dbid]

Best ==
  [i \in {j + 1 : j \in Used} |->
     [idle |-> pool[i - 1].idle, name |-> text[pool[i - 1].key], dbid |-> pool[i - 1].dbid]]

Promise == INSTANCE IdlestKeys WITH
  Size <- EVPOOL_SIZE,
  Candidate <- Candidates,
  best <- Best

(* Whatever is sampled in whatever order, the pool holds the keys with the *)
(* highest scores of all that were sampled, each with the name, the score  *)
(* and the database it came with; a full pool drops the least idle, as the *)
(* comment on the left shift says (evict.c:122-123).                       *)
ImplementsIdlestKeys == Promise!Spec
=============================================================================
