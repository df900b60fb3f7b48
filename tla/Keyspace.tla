------------------------------ MODULE Keyspace ------------------------------
(***************************************************************************)
(* One database of the server: the two stores of redis_db_t (keys and      *)
(* expires), the lazy deletion of due keys, and the commands that reach    *)
(* them: SET and GET of the string module, EXPIRE of the command table.    *)
(*                                                                         *)
(* The event loop runs one command at a time, so a command is one action.  *)
(* Between two commands the wall clock moves; mstime() is gettimeofday,    *)
(* which an adjustment may also set back.                                  *)
(*                                                                         *)
(* A store is a function to a value or NULL, as dict_find returns it; the  *)
(* counters each store keeps are the subject of module KvStore.            *)
(***************************************************************************)
EXTENDS Integers

CONSTANTS
  Key,              \* key names a command can carry
  Val,              \* string values
  NULL,
  Seconds,          \* third argument of EXPIRE, as string2ll reads it
  NotAnInteger,     \* ... when it does not parse
  CString,          \* [Key -> Key], a name cut at its first NUL byte
  MsPerSec,         \* 1000
  LLongMax,         \* largest long long, 2^63 - 1
  MaxTime,          \* bound on the clock
  ClockMayStepBack  \* whether the wall clock is ever set back

ASSUME KeyspaceAssumption ==
  /\ NULL \notin Val /\ NULL \notin Int /\ NULL \notin Key
  /\ CString \in [Key -> Key]
  /\ \A k \in Key : CString[CString[k]] = CString[k]
  /\ NotAnInteger \notin Int
  /\ Seconds \subseteq Int \cup {NotAnInteger}
  /\ MsPerSec \in Nat \ {0}
  /\ LLongMax \in Nat
  /\ MaxTime \in Nat
  /\ ClockMayStepBack \in BOOLEAN

VARIABLES
  keys,     \* db->keys: the value of each key
  expires,  \* db->expires: when_ms of each key that has one
  now,      \* mstime()
  reply,    \* reply to the last command; NoReply once the clock moved on
  proc      \* "up", or "aborted" once an assertion failed

vars == <<keys, expires, now, reply, proc>>

Reply(cmd, k, ret) == [cmd |-> cmd, key |-> k, ret |-> ret]
NoReply == Reply("none", NULL, NULL)

OutOfRange == "-ERR value is not an integer or out of range"
CouldNotSet == "-ERR could not set expire"
WrongArity == "ERR wrong number of arguments"

Init ==
  /\ keys = [k \in Key |-> NULL]
  /\ expires = [k \in Key |-> NULL]
  /\ now \in 0 .. MaxTime
  /\ reply = NoReply
  /\ proc = "up"

-----------------------------------------------------------------------------
(* db.c *)

(* sds_new(key->ptr) copies a C string: a name with a NUL byte is cut. *)
sds_new(k) == CString[k]

(* Wrong variants of ExpireDue, for mutation runs: the deadline itself     *)
(* still counts as alive; the clock is not consulted.                      *)
ExpireDueTooLate(k) == expires[k] # NULL /\ expires[k] < now
ExpireDueAlways(k) == expires[k] # NULL

(* expire_if_needed finds an entry that is due. *)
ExpireDue(k) == expires[k] # NULL /\ ~(now < expires[k])

(* db_delete_key clears the key from expires, then from keys; the stores   *)
(* as lookup_key leaves them behind.                                       *)
db_delete_key(store, k) == [store EXCEPT ![k] = NULL]

expire_if_needed(store, k) == IF ExpireDue(k) THEN db_delete_key(store, k) ELSE store

(* db_add_key_value stores under the cut name.  If that name is taken it   *)
(* calls db_set_value with overwrite = 1, which asserts.                   *)
db_add_key_value(ks, k, v) ==
  \/ /\ ks[sds_new(k)] = NULL
     /\ keys' = [ks EXCEPT ![sds_new(k)] = v]
     /\ reply' = Reply("set", k, "+OK")
     /\ UNCHANGED proc
  \/ /\ ks[sds_new(k)] # NULL
     /\ keys' = ks
     /\ reply' = NoReply
     /\ proc' = "aborted"

(* Wrong variant: the entry that exists is given the new deadline. *)
db_set_expire_overwriting(k, when_ms) == [expires EXCEPT ![k] = when_ms]

(* dict_add_raw gives no entry for a name that is already in the store. *)
db_set_expire(k, when_ms) ==
  IF expires[k] # NULL THEN expires ELSE [expires EXCEPT ![k] = when_ms]

(* Signed 64-bit arithmetic as the compiled code performs it. *)
LLong(x) == ((x + LLongMax + 1) % (2 * (LLongMax + 1))) - (LLongMax + 1)
-----------------------------------------------------------------------------
(* The module API, as the string module calls it *)

(* A store as redis_module_use_lookup_key leaves it: a due key is deleted  *)
(* before the look-up, and the entry is what is then under the name.       *)
lookup_key(store, k) == expire_if_needed(store, k)

(* redis_module_use_db_entry_set_value replaces the value in place. *)
db_entry_set_value(ks, k, v) == [ks EXCEPT ![k] = v]
-----------------------------------------------------------------------------
(* The commands *)

(* Wrong variants: SET that skips expire_if_needed, and SET that drops the *)
(* deadline of a live key.                                                 *)
set_command_no_lookup(k, v) ==
  /\ proc = "up"
  /\ UNCHANGED <<now, expires>>
  /\ \/ keys[k] = NULL /\ db_add_key_value(keys, k, v)
     \/ /\ keys[k] # NULL
        /\ keys' = [keys EXCEPT ![k] = v]
        /\ reply' = Reply("set", k, "+OK")
        /\ UNCHANGED proc

set_command_persist(k, v) ==
  LET ks == expire_if_needed(keys, k)
  IN /\ proc = "up"
     /\ expires' = [expires EXCEPT ![k] = NULL]
     /\ UNCHANGED now
     /\ \/ ks[k] = NULL /\ db_add_key_value(ks, k, v)
        \/ /\ ks[k] # NULL
           /\ keys' = [ks EXCEPT ![k] = v]
           /\ reply' = Reply("set", k, "+OK")
           /\ UNCHANGED proc

(* Wrong variant: SET that adds the key without a look at what is there. *)
set_command_adds(k, v) ==
  /\ proc = "up"
  /\ expires' = lookup_key(expires, k)
  /\ UNCHANGED now
  /\ db_add_key_value(lookup_key(keys, k), k, v)

(* set_command: lookup_key deletes a due key first; a key that is there    *)
(* gets its value replaced in place, and its entry in expires stays.       *)
set_command(k, v) ==
  LET ks == lookup_key(keys, k)
  IN /\ proc = "up"
     /\ expires' = lookup_key(expires, k)
     /\ UNCHANGED now
     /\ \/ ks[k] = NULL /\ db_add_key_value(ks, k, v)
        \/ /\ ks[k] # NULL
           /\ keys' = db_entry_set_value(ks, k, v)
           /\ reply' = Reply("set", k, "+OK")
           /\ UNCHANGED proc

get_command(k) ==
  /\ proc = "up"
  /\ keys' = lookup_key(keys, k)
  /\ expires' = lookup_key(expires, k)
  /\ reply' = Reply("get", k, lookup_key(keys, k)[k])
  /\ UNCHANGED <<now, proc>>

(* string2ll accepts the argument and it is not negative. *)
IsSeconds(s) == s # NotAnInteger /\ s >= 0

(* Wrong variant: EXPIRE that does not look the key up. *)
expire_command_blind(k, s) ==
  /\ proc = "up"
  /\ UNCHANGED <<keys, now, proc>>
  /\ \/ /\ ~IsSeconds(s)
        /\ reply' = Reply("expire", k, OutOfRange)
        /\ UNCHANGED expires
     \/ /\ IsSeconds(s)
        /\ expires' = db_set_expire(k, LLong(now + LLong(s * MsPerSec)))
        /\ reply' = Reply("expire", k, IF expires[k] # NULL THEN CouldNotSet ELSE ":1")

(* Wrong variant: the deadline is stored without adding the clock. *)
expire_command_relative(k, s) ==
  /\ proc = "up"
  /\ UNCHANGED <<keys, now, proc>>
  /\ IsSeconds(s) /\ keys[k] # NULL
  /\ expires' = db_set_expire(k, LLong(s * MsPerSec))
  /\ reply' = Reply("expire", k, IF expires[k] # NULL THEN CouldNotSet ELSE ":1")

(* expire_command looks the key up without expire_if_needed. *)
expire_command(k, s) ==
  /\ proc = "up"
  /\ UNCHANGED <<keys, now, proc>>
  /\ \/ /\ ~IsSeconds(s)
        /\ reply' = Reply("expire", k, OutOfRange)
        /\ UNCHANGED expires
     \/ /\ IsSeconds(s)
        /\ keys[k] = NULL
        /\ reply' = Reply("expire", k, ":0")
        /\ UNCHANGED expires
     \/ /\ IsSeconds(s)
        /\ keys[k] # NULL
        /\ expires' = db_set_expire(k, LLong(now + LLong(s * MsPerSec)))
        /\ reply' = Reply("expire", k, IF expires[k] # NULL THEN CouldNotSet ELSE ":1")

(* Each of the three commands answers a wrong argument count itself. *)
wrong_arity(cmd) ==
  /\ proc = "up"
  /\ reply' = Reply(cmd, NULL, WrongArity)
  /\ UNCHANGED <<keys, expires, now, proc>>

(* The wall clock moves between two commands. *)
mstime(t) ==
  /\ proc = "up"
  /\ now < t \/ (ClockMayStepBack /\ t < now)
  /\ now' = t
  /\ reply' = NoReply
  /\ UNCHANGED <<keys, expires, proc>>

Next ==
  \/ \E k \in Key, v \in Val : set_command(k, v)
  \/ \E k \in Key : get_command(k)
  \/ \E k \in Key, s \in Seconds : expire_command(k, s)
  \/ \E cmd \in {"set", "get", "expire"} : wrong_arity(cmd)
  \/ \E t \in 0 .. MaxTime : mstime(t)

Spec == Init /\ [][Next]_vars
-----------------------------------------------------------------------------
(* Properties *)

Replies ==
  [cmd : {"none", "set", "get", "expire"}, key : Key \cup {NULL},
   ret : Val \cup {NULL, "+OK", ":0", ":1", OutOfRange, CouldNotSet, WrongArity}]

TypeOK ==
  /\ keys \in [Key -> Val \cup {NULL}]
  /\ expires \in [Key -> Int \cup {NULL}]
  /\ now \in 0 .. MaxTime
  /\ reply \in Replies
  /\ proc \in {"up", "aborted"}

(* The value a client is entitled to see now. *)
Alive(k) == keys[k] # NULL /\ (expires[k] = NULL \/ now < expires[k])

(* Every entry of expires belongs to a key of keys: the two stores are     *)
(* written by separate calls (db_delete_key, db_set_expire, db_add) and an *)
(* orphan entry would kill the next key of that name.                      *)
ExpiresOnlyForKeys == \A k \in Key : expires[k] # NULL => keys[k] # NULL

(* keys holds cut names only, because db_add_key_value copies the name as  *)
(* a C string while every lookup compares all its bytes: a name with a NUL *)
(* byte is never found, neither by GET nor by EXPIRE.                      *)
StoredNamesAreCut == \A k \in Key : keys[k] # NULL => CString[k] = k

(* GET answers the value of a key that is alive and nothing else, and when *)
(* it answers null the name is gone from both stores, so that a clock that *)
(* is set back cannot bring the key back (expire_if_needed in lookup_key). *)
GetAnswersLiveValue ==
  reply.cmd = "get" /\ reply.key # NULL =>
    IF reply.ret = NULL
      THEN keys[reply.key] = NULL /\ expires[reply.key] = NULL
      ELSE Alive(reply.key) /\ reply.ret = keys[reply.key]

(* A SET that was answered OK leaves a key that can be read: it does not   *)
(* inherit the deadline of the dead key it replaces.                       *)
AckedSetIsAlive ==
  reply.cmd = "set" /\ reply.ret = "+OK" => Alive(CString[reply.key])

(* A deadline, once acknowledged, is kept until the key dies: neither SET  *)
(* nor a second EXPIRE replaces it (db_set_expire).                        *)
DeadlineNeverMoves ==
  [][\A k \in Key : expires[k] # NULL => expires'[k] \in {expires[k], NULL}]_vars

(* A key disappears only when its deadline has been reached, whatever the  *)
(* command and whatever other keys were due (expire_if_needed).            *)
OnlyDueKeysDie ==
  [][\A k \in Key :
       keys[k] # NULL /\ keys'[k] = NULL => expires[k] # NULL /\ expires[k] <= now]_vars

(* An EXPIRE acknowledged with 1 puts the deadline in the future, or at    *)
(* once when the argument is 0, as long as seconds * 1000 plus the clock   *)
(* does not overflow (expire_command).                                     *)
AckedDeadlineNotInThePast ==
  reply.cmd = "expire" /\ reply.ret = ":1" => now <= expires[reply.key]

(* As long as no name has a NUL byte, SET never reaches db_set_value with  *)
(* overwrite = 1, whose assertion would end the process.                   *)
NoAssertCrash == proc # "aborted"

-----------------------------------------------------------------------------
(* The database as its clients see it *)

Visible(store) == [k \in Key |-> IF Alive(k) THEN store[k] ELSE NULL]

Promise == INSTANCE TtlMap WITH map <- Visible(keys), deadline <- Visible(expires)

(* No name has a NUL byte, the clock only moves forward, and no deadline   *)
(* leaves the range of long long.                                          *)
OrdinaryOperation ==
  /\ \A k \in Key : CString[k] = k
  /\ ClockMayStepBack = FALSE
  /\ \A s \in Seconds : IsSeconds(s) => MaxTime + s * MsPerSec <= LLongMax

(* While the clock does not step back, no name has a NUL byte and no       *)
(* deadline overflows, the two stores with their lazy deletion are a map   *)
(* whose keys vanish exactly at their deadline.                            *)
ImplementsTtlMap == Promise!Spec
=============================================================================
