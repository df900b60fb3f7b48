--------------------------- MODULE StringObjects ---------------------------
(***************************************************************************)
(* The string objects behind the database: a client's arguments are        *)
(* objects with a reference count, SET keeps one of them as the value of a *)
(* key, and a count that drops to zero returns the memory for the next     *)
(* object.  Module Keyspace says what the commands do to the stores; here  *)
(* each of them also does what its code does to the counts, call by call.  *)
(*                                                                         *)
(* Another client may have sent part of a request: its arguments are held  *)
(* until the request is complete, and lost when it disconnects first.      *)
(***************************************************************************)
EXTENDS Keyspace

CONSTANTS
  Object,     \* memory for objects
  MaxLost     \* bound on the disconnections in the middle of a request

ASSUME ObjectAssumption ==
  /\ NULL \notin Object
  /\ MaxLost \in Nat

VARIABLES
  refcount,   \* of each object; 0 is memory that is free
  ptr,        \* the string of each object, NULL in memory that is free
  value,      \* the value pointer of each entry of db->keys
  argv,       \* an argument of another client's half-read request, or NULL
  lost,       \* arguments whose client is gone
  losses      \* how many

heap == <<refcount, ptr, value, argv, lost, losses>>
ovars == <<vars, heap>>

ObjectInit ==
  /\ Init
  /\ refcount = [o \in Object |-> 0]
  /\ ptr = [o \in Object |-> NULL]
  /\ value = [k \in Key |-> NULL]
  /\ argv = NULL /\ lost = {} /\ losses = 0
-----------------------------------------------------------------------------
(* latte_c: string_object_new takes free memory, the last decrement        *)
(* returns it.                                                             *)
string_object_new(o) == refcount[o] = 0
latte_object_incr_ref_count(rc, o) == [rc EXCEPT ![o] = @ + 1]
latte_object_decr_ref_count(rc, o) == [rc EXCEPT ![o] = @ - 1]

(* The strings, once the memory without a reference is free. *)
Strings(p) == [o \in Object |-> IF refcount'[o] = 0 THEN NULL ELSE p[o]]

(* The counts, and the entries, after lookup_key: the destructor of the    *)
(* keys dictionary gives up the value of a key that was due.               *)
dict_object_destructor(rc, k) ==
  IF ExpireDue(k) /\ value[k] # NULL THEN latte_object_decr_ref_count(rc, value[k]) ELSE rc
-----------------------------------------------------------------------------
(* Wrong variant: the value that is replaced is not given up. *)
set_entry_keep_old(rc, k) == rc

(* redis_module_use_db_entry_set_value gives up the old value. *)
set_entry(rc, k) == latte_object_decr_ref_count(rc, value[k])

(* Wrong variant: the store does not take a reference of its own. *)
SetCounts_borrow(k, o) ==
  LET new  == [refcount EXCEPT ![o] = 1]
      gone == dict_object_destructor(new, k)
      kept == IF lookup_key(keys, k)[k] = NULL THEN gone ELSE set_entry(gone, k)
  IN latte_object_decr_ref_count(kept, o)

(* The counts along one SET: its argument is created with one reference,   *)
(* lookup_key may delete the key, the store takes a reference, an old      *)
(* value is given up, and free_client_argv drops the argument.             *)
SetCounts(k, o) ==
  LET new  == [refcount EXCEPT ![o] = 1]
      gone == dict_object_destructor(new, k)
      held == latte_object_incr_ref_count(gone, o)
      kept == IF lookup_key(keys, k)[k] = NULL THEN held ELSE set_entry(held, k)
  IN latte_object_decr_ref_count(kept, o)

SetObject(k, v, o) ==
  /\ string_object_new(o)
  /\ set_command(k, v)
  /\ refcount' = SetCounts(k, o)
  /\ ptr' = Strings([ptr EXCEPT ![o] = v])
  /\ value' = IF proc' = "aborted" THEN lookup_key(value, k)
              ELSE [lookup_key(value, k) EXCEPT
                      ![IF lookup_key(keys, k)[k] = NULL THEN sds_new(k) ELSE k] = o]
  /\ UNCHANGED <<argv, lost, losses>>

(* GET copies the value into its reply. *)
GetObject(k) ==
  /\ get_command(k)
  /\ refcount' = dict_object_destructor(refcount, k)
  /\ ptr' = Strings(ptr)
  /\ value' = lookup_key(value, k)
  /\ UNCHANGED <<argv, lost, losses>>

(* The arguments of the other commands are gone when they end; the store   *)
(* expires has no objects.                                                 *)
OtherCommand ==
  /\ \/ \E k \in Key, s \in Seconds : expire_command(k, s)
     \/ \E cmd \in {"set", "get", "expire"} : wrong_arity(cmd)
     \/ \E t \in 0 .. MaxTime : mstime(t)
  /\ UNCHANGED heap
-----------------------------------------------------------------------------
(* process_multibulk_buffer keeps the arguments it has when it has to wait *)
(* for more.                                                               *)
process_multibulk_buffer(v, o) ==
  /\ proc = "up" /\ argv = NULL /\ string_object_new(o)
  /\ argv' = o
  /\ refcount' = [refcount EXCEPT ![o] = 1]
  /\ ptr' = [ptr EXCEPT ![o] = v]
  /\ UNCHANGED <<vars, value, lost, losses>>

(* The rest arrives, the command takes no reference, and the argument is   *)
(* given up with the others.                                               *)
free_client_argv ==
  /\ proc = "up" /\ argv # NULL
  /\ refcount' = latte_object_decr_ref_count(refcount, argv)
  /\ ptr' = Strings(ptr)
  /\ argv' = NULL
  /\ UNCHANGED <<vars, value, lost, losses>>

(* redis_client_delete frees the structure and nothing it points to. *)
redis_client_delete ==
  /\ proc = "up" /\ argv # NULL /\ losses < MaxLost
  /\ lost' = lost \cup {argv} /\ losses' = losses + 1
  /\ argv' = NULL
  /\ UNCHANGED <<vars, refcount, ptr, value>>

ObjectNext ==
  \/ \E k \in Key, v \in Val, o \in Object : SetObject(k, v, o)
  \/ \E v \in Val, o \in Object : process_multibulk_buffer(v, o)
  \/ \E k \in Key : GetObject(k)
  \/ OtherCommand
  \/ free_client_argv \/ redis_client_delete

ObjectSpec == ObjectInit /\ [][ObjectNext]_ovars
-----------------------------------------------------------------------------
(* Properties *)

ObjectTypeOK ==
  /\ refcount \in [Object -> Int]
  /\ ptr \in [Object -> Val \cup {NULL}]
  /\ value \in [Key -> Object \cup {NULL}]
  /\ argv \in Object \cup {NULL}
  /\ lost \in SUBSET Object /\ losses \in Nat

Holds(o) == {k \in Key : value[k] = o}

(* While no assertion failed, every object that is referred to is alive    *)
(* with a count of one, no two keys, requests or clients share one, and    *)
(* memory that nobody refers to is free, but for the arguments of clients  *)
(* that left in the middle of a request (string.c:16-23, db.c:227-231,     *)
(* module.c:342-346, client.c:60-64).                                      *)
ObjectsAreCounted ==
  proc = "up" =>
    \A o \in Object :
      /\ \A j, k \in Holds(o) : j = k
      /\ Holds(o) # {} => o # argv /\ o \notin lost
      /\ o \in lost => o # argv
      /\ refcount[o] = IF Holds(o) # {} \/ o = argv \/ o \in lost THEN 1 ELSE 0

(* What the entry of a key points to is the value of that key, whatever    *)
(* was freed and allocated in between: no value is read from memory that   *)
(* another object has taken over (add_reply_bulk in get_command).          *)
EntriesPointToValues ==
  proc = "up" =>
    \A k \in Key : keys[k] = IF value[k] = NULL THEN NULL ELSE ptr[value[k]]
=============================================================================
