------------------------------- MODULE TtlMap -------------------------------
(***************************************************************************)
(* What a database of the server promises to its clients: a map from keys  *)
(* to values in which a key may carry a deadline and vanishes the moment   *)
(* the clock reaches it.  There is no lazily deleted state here: a key     *)
(* whose deadline has passed is simply not in the map.  Keyspace is the    *)
(* detailed specification and implements this one.                         *)
(***************************************************************************)
EXTENDS Integers

CONSTANTS
  Key,        \* key names
  Val,        \* values
  NULL,       \* absence of a value or of a deadline
  Seconds,    \* EXPIRE arguments, NotAnInteger among them
  NotAnInteger,
  MsPerSec,   \* milliseconds in a second
  MaxTime     \* bound on the clock

VARIABLES
  map,        \* [Key -> Val or NULL], the keys that are alive
  deadline,   \* [Key -> time or NULL]
  now,        \* wall clock in milliseconds
  reply       \* the reply to the last command, "none" between commands

vars == <<map, deadline, now, reply>>

Reply(cmd, k, ret) == [cmd |-> cmd, key |-> k, ret |-> ret]
NoReply == Reply("none", NULL, NULL)

OutOfRange == "-ERR value is not an integer or out of range"
CouldNotSet == "-ERR could not set expire"
WrongArity == "ERR wrong number of arguments"

Init ==
  /\ map = [k \in Key |-> NULL]
  /\ deadline = [k \in Key |-> NULL]
  /\ now \in 0 .. MaxTime
  /\ reply = NoReply

(* SET replaces the value and leaves a deadline the key already has. *)
Set(k, v) ==
  /\ map' = [map EXCEPT ![k] = v]
  /\ reply' = Reply("set", k, "+OK")
  /\ UNCHANGED <<deadline, now>>

Get(k) ==
  /\ reply' = Reply("get", k, map[k])
  /\ UNCHANGED <<map, deadline, now>>

(* A live key without a deadline gets one.  A deadline that is already     *)
(* due removes the key.                                                    *)
ExpireAccept(k, s) ==
  /\ s >= 0
  /\ map[k] # NULL /\ deadline[k] = NULL
  /\ IF s = 0
       THEN map' = [map EXCEPT ![k] = NULL] /\ UNCHANGED deadline
       ELSE deadline' = [deadline EXCEPT ![k] = now + s * MsPerSec] /\ UNCHANGED map
  /\ reply' = Reply("expire", k, ":1")
  /\ UNCHANGED now

(* EXPIRE may be refused: a deadline is never replaced, and a key that     *)
(* died but whose storage was not reclaimed is refused like a live one.    *)
ExpireRefuse(k) ==
  /\ map[k] = NULL \/ deadline[k] # NULL
  /\ reply' = Reply("expire", k, CouldNotSet)
  /\ UNCHANGED <<map, deadline, now>>

ExpireMissing(k) ==
  /\ map[k] = NULL
  /\ reply' = Reply("expire", k, ":0")
  /\ UNCHANGED <<map, deadline, now>>

(* A malformed command is answered and changes nothing. *)
Reject(cmd, k, err) ==
  /\ reply' = Reply(cmd, k, err)
  /\ UNCHANGED <<map, deadline, now>>

(* Time passes, and every key whose deadline is reached is gone with it. *)
Advance(t) ==
  LET Due == {k \in Key : deadline[k] # NULL /\ deadline[k] <= t}
  IN /\ now < t
     /\ now' = t
     /\ map' = [k \in Key |-> IF k \in Due THEN NULL ELSE map[k]]
     /\ deadline' = [k \in Key |-> IF k \in Due THEN NULL ELSE deadline[k]]
     /\ reply' = NoReply

Next ==
  \/ \E k \in Key, v \in Val : Set(k, v)
  \/ \E k \in Key : Get(k) \/ ExpireRefuse(k) \/ ExpireMissing(k)
  \/ \E k \in Key, s \in Seconds \ {NotAnInteger} : ExpireAccept(k, s)
  \/ \E k \in Key : Reject("expire", k, OutOfRange)
  \/ \E cmd \in {"set", "get", "expire"} : Reject(cmd, NULL, WrongArity)
  \/ \E t \in 0 .. MaxTime : Advance(t)

Spec == Init /\ [][Next]_vars
=============================================================================
