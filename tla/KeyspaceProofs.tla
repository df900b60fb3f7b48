--------------------------- MODULE KeyspaceProofs ---------------------------
(***************************************************************************)
(* Proofs about Keyspace, for any set of keys and values, any clock and    *)
(* any width of long long, and about StringObjects, for any objects.       *)
(*                                                                         *)
(* The counts of the objects are followed through each command call by     *)
(* call; SetCountsAre says where they end up after a SET.                  *)
(***************************************************************************)
EXTENDS StringObjects, TLAPS

(* The wrapped sum of two numbers is a number. *)
LEMMA LLongInt == ASSUME NEW x \in Int PROVE LLong(x) \in Int
BY KeyspaceAssumption DEF LLong

(* A store stays a store when a due key is deleted from it. *)
LEMMA ExpireIfNeededType ==
  ASSUME NEW S, NEW store \in [Key -> S \cup {NULL}], NEW k \in Key
  PROVE  expire_if_needed(store, k) \in [Key -> S \cup {NULL}]
BY DEF expire_if_needed, db_delete_key

(* What each command may answer is a reply. *)
LEMMA ReplyType ==
  ASSUME NEW cmd \in {"none", "set", "get", "expire"}, NEW k \in Key \cup {NULL},
         NEW ret \in Val \cup {NULL, "+OK", ":0", ":1", OutOfRange, CouldNotSet, WrongArity}
  PROVE  Reply(cmd, k, ret) \in Replies
BY DEF Reply, Replies

(* The variables keep their types: every command stores values under names *)
(* of the key space, and deadlines are integers of the machine.            *)
THEOREM TypeCorrect == Spec => []TypeOK
<1>1. Init => TypeOK
  BY KeyspaceAssumption, ReplyType DEF Init, TypeOK, NoReply
<1>2. TypeOK /\ [Next]_vars => TypeOK'
  <2> SUFFICES ASSUME TypeOK, [Next]_vars PROVE TypeOK'
    OBVIOUS
  <2> USE KeyspaceAssumption, ReplyType
  <2>1. ASSUME NEW k \in Key, NEW v \in Val, set_command(k, v) PROVE TypeOK'
    <3>1. /\ expire_if_needed(keys, k) \in [Key -> Val \cup {NULL}]
          /\ expire_if_needed(expires, k) \in [Key -> Int \cup {NULL}]
      BY ExpireIfNeededType DEF TypeOK
    <3>2. CString[k] \in Key
      OBVIOUS
    <3> QED
      BY <2>1, <3>1, <3>2 DEF set_command, lookup_key, db_entry_set_value, db_add_key_value, sds_new, TypeOK, NoReply
  <2>2. ASSUME NEW k \in Key, get_command(k) PROVE TypeOK'
    <3>1. /\ expire_if_needed(keys, k) \in [Key -> Val \cup {NULL}]
          /\ expire_if_needed(expires, k) \in [Key -> Int \cup {NULL}]
      BY ExpireIfNeededType DEF TypeOK
    <3> QED
      BY <2>2, <3>1 DEF get_command, lookup_key, TypeOK
  <2>3. ASSUME NEW k \in Key, NEW s \in Seconds, expire_command(k, s) PROVE TypeOK'
    <3>1. expires' \in [Key -> Int \cup {NULL}]
      <4>1. CASE UNCHANGED expires
        BY <4>1 DEF TypeOK
      <4>2. CASE IsSeconds(s) /\ expires' = db_set_expire(k, LLong(now + LLong(s * MsPerSec)))
        <5>1. s \in Int /\ now \in Int
          BY <4>2 DEF IsSeconds, TypeOK
        <5>2. s * MsPerSec \in Int
          BY <5>1
        <5>3. LLong(now + LLong(s * MsPerSec)) \in Int
          BY <5>1, <5>2, LLongInt
        <5> QED
          BY <4>2, <5>3 DEF db_set_expire, TypeOK
      <4> QED
        BY <2>3, <4>1, <4>2 DEF expire_command
    <3> QED
      BY <2>3, <3>1 DEF expire_command, TypeOK
  <2>4. ASSUME NEW cmd \in {"set", "get", "expire"}, wrong_arity(cmd) PROVE TypeOK'
    BY <2>4 DEF wrong_arity, TypeOK
  <2>5. ASSUME NEW t \in 0 .. MaxTime, mstime(t) PROVE TypeOK'
    BY <2>5 DEF mstime, TypeOK, NoReply
  <2>6. CASE UNCHANGED vars
    BY <2>6 DEF vars, TypeOK
  <2> QED
    BY <2>1, <2>2, <2>3, <2>4, <2>5, <2>6 DEF Next
<1> QED
  BY <1>1, <1>2, PTL DEF Spec

-----------------------------------------------------------------------------
(* No deadline without its key, in any reachable state: db_delete_key      *)
(* clears both stores, EXPIRE writes expires only for a name it found in   *)
(* keys, and nothing else removes a key.                                   *)
THEOREM NoOrphanDeadline == Spec => []ExpiresOnlyForKeys
<1>1. Init => ExpiresOnlyForKeys
  BY DEF Init, ExpiresOnlyForKeys
<1>2. TypeOK /\ ExpiresOnlyForKeys /\ [Next]_vars => ExpiresOnlyForKeys'
  <2> SUFFICES ASSUME TypeOK, ExpiresOnlyForKeys, [Next]_vars PROVE ExpiresOnlyForKeys'
    OBVIOUS
  <2> USE KeyspaceAssumption DEF TypeOK, ExpiresOnlyForKeys
  <2>1. ASSUME NEW k \in Key, NEW v \in Val, set_command(k, v) PROVE ExpiresOnlyForKeys'
    <3>1. CString[k] \in Key
      OBVIOUS
    <3> QED
      BY <2>1, <3>1 DEF set_command, lookup_key, db_entry_set_value, db_add_key_value, sds_new, expire_if_needed, db_delete_key
  <2>2. ASSUME NEW k \in Key, get_command(k) PROVE ExpiresOnlyForKeys'
    BY <2>2 DEF get_command, lookup_key, expire_if_needed, db_delete_key
  <2>3. ASSUME NEW k \in Key, NEW s \in Seconds, expire_command(k, s) PROVE ExpiresOnlyForKeys'
    BY <2>3 DEF expire_command, db_set_expire
  <2>4. ASSUME NEW cmd \in {"set", "get", "expire"}, wrong_arity(cmd) PROVE ExpiresOnlyForKeys'
    BY <2>4 DEF wrong_arity
  <2>5. ASSUME NEW t \in 0 .. MaxTime, mstime(t) PROVE ExpiresOnlyForKeys'
    BY <2>5 DEF mstime
  <2>6. CASE UNCHANGED vars
    BY <2>6 DEF vars
  <2> QED
    BY <2>1, <2>2, <2>3, <2>4, <2>5, <2>6 DEF Next
<1> QED
  BY <1>1, <1>2, TypeCorrect, PTL DEF Spec

(* GET never serves a key past its deadline, and a null answer means that  *)
(* the name is in neither store any more.                                  *)
THEOREM GetIsLive == Spec => []GetAnswersLiveValue
<1>1. Init => GetAnswersLiveValue
  BY DEF Init, GetAnswersLiveValue, NoReply, Reply
<1>2. TypeOK /\ ExpiresOnlyForKeys /\ GetAnswersLiveValue /\ [Next]_vars => GetAnswersLiveValue'
  <2> SUFFICES ASSUME TypeOK, ExpiresOnlyForKeys, GetAnswersLiveValue, [Next]_vars
               PROVE  GetAnswersLiveValue'
    OBVIOUS
  <2> USE KeyspaceAssumption DEF TypeOK, GetAnswersLiveValue, Reply, NoReply
  <2>1. ASSUME NEW k \in Key, NEW v \in Val, set_command(k, v) PROVE GetAnswersLiveValue'
    BY <2>1 DEF set_command, lookup_key, db_entry_set_value, db_add_key_value
  <2>2. ASSUME NEW k \in Key, get_command(k) PROVE GetAnswersLiveValue'
    <3>1. reply'.key = k /\ reply'.ret = keys'[k] /\ now' = now
      BY <2>2 DEF get_command, lookup_key
    <3>2. CASE ExpireDue(k)
      BY <2>2, <3>1, <3>2 DEF get_command, lookup_key, expire_if_needed, db_delete_key
    <3>3. CASE ~ExpireDue(k)
      BY <2>2, <3>1, <3>3 DEF get_command, lookup_key, expire_if_needed, ExpireDue, Alive, ExpiresOnlyForKeys
    <3> QED
      BY <3>2, <3>3
  <2>3. ASSUME NEW k \in Key, NEW s \in Seconds, expire_command(k, s) PROVE GetAnswersLiveValue'
    BY <2>3 DEF expire_command
  <2>4. ASSUME NEW cmd \in {"set", "get", "expire"}, wrong_arity(cmd) PROVE GetAnswersLiveValue'
    BY <2>4 DEF wrong_arity
  <2>5. ASSUME NEW t \in 0 .. MaxTime, mstime(t) PROVE GetAnswersLiveValue'
    BY <2>5 DEF mstime
  <2>6. CASE UNCHANGED vars
    BY <2>6 DEF vars, Alive
  <2> QED
    BY <2>1, <2>2, <2>3, <2>4, <2>5, <2>6 DEF Next
<1> QED
  BY <1>1, <1>2, TypeCorrect, NoOrphanDeadline, PTL DEF Spec

(* Every name in keys is the C string of the name that was set. *)
LEMMA NamesAreCut == Spec => []StoredNamesAreCut
<1>1. Init => StoredNamesAreCut
  BY DEF Init, StoredNamesAreCut
<1>2. TypeOK /\ StoredNamesAreCut /\ [Next]_vars => StoredNamesAreCut'
  <2> SUFFICES ASSUME TypeOK, StoredNamesAreCut, [Next]_vars PROVE StoredNamesAreCut'
    OBVIOUS
  <2> USE KeyspaceAssumption DEF TypeOK, StoredNamesAreCut
  <2>1. ASSUME NEW k \in Key, NEW v \in Val, set_command(k, v) PROVE StoredNamesAreCut'
    <3>1. CString[k] \in Key /\ CString[CString[k]] = CString[k]
      OBVIOUS
    <3> QED
      BY <2>1, <3>1 DEF set_command, lookup_key, db_entry_set_value, db_add_key_value, sds_new, expire_if_needed, db_delete_key
  <2>2. ASSUME NEW k \in Key, get_command(k) PROVE StoredNamesAreCut'
    BY <2>2 DEF get_command, lookup_key, expire_if_needed, db_delete_key
  <2>3. ASSUME NEW k \in Key, NEW s \in Seconds, expire_command(k, s) PROVE StoredNamesAreCut'
    BY <2>3 DEF expire_command
  <2>4. ASSUME NEW cmd \in {"set", "get", "expire"}, wrong_arity(cmd) PROVE StoredNamesAreCut'
    BY <2>4 DEF wrong_arity
  <2>5. ASSUME NEW t \in 0 .. MaxTime, mstime(t) PROVE StoredNamesAreCut'
    BY <2>5 DEF mstime
  <2>6. CASE UNCHANGED vars
    BY <2>6 DEF vars
  <2> QED
    BY <2>1, <2>2, <2>3, <2>4, <2>5, <2>6 DEF Next
<1> QED
  BY <1>1, <1>2, TypeCorrect, PTL DEF Spec

(* A SET that was acknowledged can be read, also when it replaces a key    *)
(* whose deadline had passed.                                              *)
THEOREM SetIsAlive == Spec => []AckedSetIsAlive
<1>1. Init => AckedSetIsAlive
  BY DEF Init, AckedSetIsAlive, NoReply, Reply
<1>2. /\ TypeOK /\ ExpiresOnlyForKeys /\ StoredNamesAreCut /\ AckedSetIsAlive
      /\ [Next]_vars
      => AckedSetIsAlive'
  <2> SUFFICES ASSUME TypeOK, ExpiresOnlyForKeys, StoredNamesAreCut, AckedSetIsAlive, [Next]_vars
               PROVE  AckedSetIsAlive'
    OBVIOUS
  <2> USE KeyspaceAssumption DEF TypeOK, AckedSetIsAlive, Reply, NoReply
  <2>1. ASSUME NEW k \in Key, NEW v \in Val, set_command(k, v) PROVE AckedSetIsAlive'
    <3> DEFINE c == CString[k]
               ks == expire_if_needed(keys, k)
    <3>0. c \in Key /\ ks \in [Key -> Val \cup {NULL}] /\ v # NULL /\ now' = now
      BY <2>1, ExpireIfNeededType DEF set_command, lookup_key, db_entry_set_value
    <3>1. CASE ks[k] = NULL /\ db_add_key_value(ks, k, v)
      <4>1. CASE ks[c] = NULL
        <5>1. expires'[c] = NULL
          BY <2>1, <3>0, <4>1 DEF set_command, lookup_key, db_entry_set_value, expire_if_needed, db_delete_key, ExpiresOnlyForKeys
        <5>2. keys'[c] = v /\ reply'.key = k
          BY <3>0, <3>1, <4>1 DEF db_add_key_value, sds_new
        <5> QED
          BY <3>0, <5>1, <5>2 DEF Alive
      <4>2. CASE ks[c] # NULL
        BY <3>1, <4>2 DEF db_add_key_value, sds_new
      <4> QED
        BY <4>1, <4>2
    <3>2. CASE ks[k] # NULL /\ keys' = [ks EXCEPT ![k] = v] /\ reply' = Reply("set", k, "+OK")
      <4>1. ~ExpireDue(k)
        BY <3>2 DEF expire_if_needed, db_delete_key
      <4>2. expires' = expires
        BY <2>1, <4>1 DEF set_command, lookup_key, db_entry_set_value, expire_if_needed
      <4>3. keys'[k] = v
        BY <3>0, <3>2
      <4>4. c = k
        BY <3>2, <4>1 DEF StoredNamesAreCut, expire_if_needed
      <4> QED
        BY <3>0, <3>2, <4>1, <4>2, <4>3, <4>4 DEF Alive, ExpireDue
    <3> QED
      BY <2>1, <3>1, <3>2 DEF set_command, lookup_key, db_entry_set_value
  <2>2. ASSUME NEW k \in Key, get_command(k) PROVE AckedSetIsAlive'
    BY <2>2 DEF get_command, lookup_key
  <2>3. ASSUME NEW k \in Key, NEW s \in Seconds, expire_command(k, s) PROVE AckedSetIsAlive'
    BY <2>3 DEF expire_command
  <2>4. ASSUME NEW cmd \in {"set", "get", "expire"}, wrong_arity(cmd) PROVE AckedSetIsAlive'
    BY <2>4, Zenon DEF wrong_arity, WrongArity
  <2>5. ASSUME NEW t \in 0 .. MaxTime, mstime(t) PROVE AckedSetIsAlive'
    BY <2>5 DEF mstime
  <2>6. CASE UNCHANGED vars
    BY <2>6 DEF vars, Alive
  <2> QED
    BY <2>1, <2>2, <2>3, <2>4, <2>5, <2>6 DEF Next
<1> QED
  BY <1>1, <1>2, TypeCorrect, NoOrphanDeadline, NamesAreCut, PTL DEF Spec

-----------------------------------------------------------------------------
(* An acknowledged deadline stays as it is until the key dies with it. *)
THEOREM DeadlinesStay == Spec => DeadlineNeverMoves
<1> DEFINE A == \A k \in Key : expires[k] # NULL => expires'[k] \in {expires[k], NULL}
<1>1. TypeOK /\ [Next]_vars => [A]_vars
  <2> SUFFICES ASSUME TypeOK, Next PROVE A
    OBVIOUS
  <2> USE KeyspaceAssumption DEF TypeOK
  <2>1. ASSUME NEW k \in Key, NEW v \in Val, set_command(k, v) PROVE A
    BY <2>1 DEF set_command, lookup_key, db_entry_set_value, expire_if_needed, db_delete_key
  <2>2. ASSUME NEW k \in Key, get_command(k) PROVE A
    BY <2>2 DEF get_command, lookup_key, expire_if_needed, db_delete_key
  <2>3. ASSUME NEW k \in Key, NEW s \in Seconds, expire_command(k, s) PROVE A
    BY <2>3 DEF expire_command, db_set_expire
  <2>4. ASSUME NEW cmd \in {"set", "get", "expire"}, wrong_arity(cmd) PROVE A
    BY <2>4 DEF wrong_arity
  <2>5. ASSUME NEW t \in 0 .. MaxTime, mstime(t) PROVE A
    BY <2>5 DEF mstime
  <2> QED
    BY <2>1, <2>2, <2>3, <2>4, <2>5 DEF Next
<1> QED
  BY <1>1, TypeCorrect, PTL DEF Spec, DeadlineNeverMoves

(* No command removes a key whose deadline has not been reached. *)
THEOREM OnlyDueDie == Spec => OnlyDueKeysDie
<1> DEFINE B == \A k \in Key : keys[k] # NULL /\ keys'[k] = NULL => ExpireDue(k)
           A == \A k \in Key :
                  keys[k] # NULL /\ keys'[k] = NULL => expires[k] # NULL /\ expires[k] <= now
<1>1. TypeOK /\ [Next]_vars => [A]_vars
  <2> SUFFICES ASSUME TypeOK, Next PROVE A
    OBVIOUS
  <2> USE KeyspaceAssumption DEF TypeOK
  <2>1. ASSUME NEW k \in Key, NEW v \in Val, set_command(k, v) PROVE B
    <3>1. CString[k] \in Key
      OBVIOUS
    <3> QED
      BY <2>1, <3>1 DEF set_command, lookup_key, db_entry_set_value, db_add_key_value, sds_new, expire_if_needed, db_delete_key
  <2>2. ASSUME NEW k \in Key, get_command(k) PROVE B
    BY <2>2 DEF get_command, lookup_key, expire_if_needed, db_delete_key
  <2>3. ASSUME NEW k \in Key, NEW s \in Seconds, expire_command(k, s) PROVE B
    BY <2>3 DEF expire_command
  <2>4. ASSUME NEW cmd \in {"set", "get", "expire"}, wrong_arity(cmd) PROVE B
    BY <2>4 DEF wrong_arity
  <2>5. ASSUME NEW t \in 0 .. MaxTime, mstime(t) PROVE B
    BY <2>5 DEF mstime
  <2>6. B
    BY <2>1, <2>2, <2>3, <2>4, <2>5 DEF Next
  <2>7. \A k \in Key : ExpireDue(k) => expires[k] # NULL /\ expires[k] <= now
    BY DEF ExpireDue
  <2> QED
    BY <2>6, <2>7
<1> QED
  BY <1>1, TypeCorrect, PTL DEF Spec, OnlyDueKeysDie

-----------------------------------------------------------------------------
(* Numbers of the machine are themselves. *)
LEMMA LLongIdentity ==
  ASSUME NEW x \in Nat, x <= LLongMax
  PROVE  LLong(x) = x
BY KeyspaceAssumption DEF LLong

(* In ordinary operation the deadline EXPIRE computes is the true sum. *)
LEMMA DeadlineExact ==
  ASSUME OrdinaryOperation, NEW s \in Seconds, IsSeconds(s), NEW t \in 0 .. MaxTime
  PROVE  /\ s \in Nat
         /\ LLong(t + LLong(s * MsPerSec)) = t + s * MsPerSec
         /\ s * MsPerSec \in Nat
         /\ s = 0 => s * MsPerSec = 0
         /\ s # 0 => s * MsPerSec > 0
<1>1. s \in Nat
  BY KeyspaceAssumption DEF IsSeconds
<1>2. s * MsPerSec \in Nat
  BY <1>1, KeyspaceAssumption
<1>3. MaxTime + s * MsPerSec <= LLongMax
  BY DEF OrdinaryOperation
<1>4. LLong(s * MsPerSec) = s * MsPerSec
  <2>1. s * MsPerSec <= LLongMax
    BY <1>2, <1>3, KeyspaceAssumption
  <2> QED
    BY <1>2, <2>1, LLongIdentity
<1>5. LLong(t + s * MsPerSec) = t + s * MsPerSec
  <2>1. t + s * MsPerSec \in Nat /\ t + s * MsPerSec <= LLongMax
    BY <1>2, <1>3, KeyspaceAssumption
  <2> QED
    BY <2>1, LLongIdentity
<1>6. s # 0 => s * MsPerSec > 0
  BY <1>1, KeyspaceAssumption
<1>7. s = 0 => s * MsPerSec = 0
  BY KeyspaceAssumption
<1> QED
  BY <1>1, <1>2, <1>4, <1>5, <1>6, <1>7

(* Every step of the two stores is a step of the map their clients see, or *)
(* leaves that map alone.                                                  *)
LEMMA StepRefines ==
  ASSUME OrdinaryOperation, TypeOK, ExpiresOnlyForKeys, [Next]_vars
  PROVE  [Promise!Next]_(Promise!vars)
<1> USE KeyspaceAssumption DEF TypeOK
<1> DEFINE M == Visible(keys)
           D == Visible(expires)
<1>a. M \in [Key -> Val \cup {NULL}] /\ D \in [Key -> Int \cup {NULL}]
  BY DEF Visible
<1>1. ASSUME NEW k \in Key, NEW v \in Val, set_command(k, v) PROVE Promise!Set(k, v)
  <2>1. v # NULL /\ CString[k] = k
    BY DEF OrdinaryOperation
  <2>2. keys' = [expire_if_needed(keys, k) EXCEPT ![k] = v] /\ reply' = Reply("set", k, "+OK")
    BY <1>1, <2>1 DEF set_command, lookup_key, db_entry_set_value, db_add_key_value, sds_new
  <2>3. expires' = expire_if_needed(expires, k) /\ now' = now
    BY <1>1 DEF set_command, lookup_key, db_entry_set_value
  <2>4. ASSUME NEW x \in Key PROVE M'[x] = IF x = k THEN v ELSE M[x]
    BY <2>1, <2>2, <2>3 DEF Visible, Alive, expire_if_needed, ExpireDue, db_delete_key
  <2>5. ASSUME NEW x \in Key PROVE D'[x] = D[x]
    BY <2>1, <2>2, <2>3 DEF Visible, Alive, expire_if_needed, ExpireDue, db_delete_key, ExpiresOnlyForKeys
  <2>6. M' = [M EXCEPT ![k] = v]
    BY <2>4, Zenon DEF Visible
  <2>7. D' = D
    BY <2>5 DEF Visible
  <2> QED
    BY <2>2, <2>3, <2>6, <2>7 DEF Promise!Set, Promise!Reply, Reply
<1>2. ASSUME NEW k \in Key, get_command(k) PROVE Promise!Get(k)
  <2>1. keys' = expire_if_needed(keys, k) /\ expires' = expire_if_needed(expires, k) /\ now' = now
    BY <1>2 DEF get_command, lookup_key
  <2>2. ASSUME NEW x \in Key PROVE M'[x] = M[x] /\ D'[x] = D[x]
    BY <2>1 DEF Visible, Alive, expire_if_needed, ExpireDue, db_delete_key
  <2>3. M' = M /\ D' = D
    BY <2>2 DEF Visible
  <2>4. expire_if_needed(keys, k)[k] = M[k]
    BY DEF Visible, Alive, expire_if_needed, ExpireDue, db_delete_key
  <2> QED
    BY <1>2, <2>1, <2>3, <2>4 DEF get_command, lookup_key, Promise!Get, Promise!Reply, Reply
<1>3. ASSUME NEW k \in Key, NEW s \in Seconds, expire_command(k, s) PROVE Promise!Next
  <2>0. keys' = keys /\ now' = now
    BY <1>3 DEF expire_command
  <2>a. ASSUME expires' = expires PROVE M' = M /\ D' = D
    BY <2>0, <2>a DEF Visible, Alive
  <2>1. CASE ~IsSeconds(s) /\ reply' = Reply("expire", k, OutOfRange) /\ UNCHANGED expires
    <3>1. Promise!Reject("expire", k, Promise!OutOfRange)
      BY <2>0, <2>1, <2>a, Zenon DEF Promise!Reject, Promise!Reply, Reply, Promise!OutOfRange, OutOfRange
    <3> QED
      BY <3>1 DEF Promise!Next
  <2>2. CASE keys[k] = NULL /\ reply' = Reply("expire", k, ":0") /\ UNCHANGED expires
    <3>1. Promise!ExpireMissing(k)
      BY <2>0, <2>2, <2>a DEF Promise!ExpireMissing, Promise!Reply, Reply, Visible, Alive
    <3> QED
      BY <3>1 DEF Promise!Next
  <2>3. CASE /\ IsSeconds(s) /\ keys[k] # NULL
             /\ expires' = db_set_expire(k, LLong(now + LLong(s * MsPerSec)))
             /\ reply' = Reply("expire", k, IF expires[k] # NULL THEN CouldNotSet ELSE ":1")
    <3>1. CASE expires[k] # NULL
      <4>1. expires' = expires
        BY <2>3, <3>1 DEF db_set_expire
      <4>2. Promise!ExpireRefuse(k)
        BY <2>0, <2>3, <2>a, <3>1, <4>1, Zenon
           DEF Promise!ExpireRefuse, Promise!Reply, Reply, Visible, Alive, Promise!CouldNotSet, CouldNotSet
      <4> QED
        BY <4>2 DEF Promise!Next
    <3>2. CASE expires[k] = NULL
      <4> DEFINE w == now + s * MsPerSec
      <4>1. /\ s \in Nat /\ w \in Int
            /\ s = 0 => w = now
            /\ s # 0 => now < w
            /\ expires' = [expires EXCEPT ![k] = w]
        <5>1. /\ s \in Nat
              /\ LLong(now + LLong(s * MsPerSec)) = w
              /\ s * MsPerSec \in Nat
              /\ s = 0 => s * MsPerSec = 0
              /\ s # 0 => s * MsPerSec > 0
          BY <2>3, DeadlineExact
        <5>2. w \in Int /\ (s = 0 => w = now) /\ (s # 0 => now < w)
          BY <5>1
        <5>3. expires' = [expires EXCEPT ![k] = w]
          BY <2>3, <3>2, <5>1, Zenon DEF db_set_expire
        <5> QED
          BY <5>1, <5>2, <5>3
      <4> HIDE DEF w
      <4>2. M[k] # NULL /\ D[k] = NULL
        BY <2>3, <3>2 DEF Visible, Alive
      <4>3. CASE s = 0
        <5>1. ASSUME NEW x \in Key PROVE M'[x] = IF x = k THEN NULL ELSE M[x]
          BY <2>0, <4>1, <4>3 DEF Visible, Alive
        <5>2. ASSUME NEW x \in Key PROVE D'[x] = D[x]
          BY <2>0, <3>2, <4>1, <4>3 DEF Visible, Alive
        <5>3. M' = [M EXCEPT ![k] = NULL] /\ D' = D
          BY <5>1, <5>2, Zenon DEF Visible
        <5>4. Promise!ExpireAccept(k, s)
          BY <2>0, <2>3, <3>2, <4>1, <4>2, <4>3, <5>3 DEF Promise!ExpireAccept, Promise!Reply, Reply
        <5> QED
          BY <2>3, <5>4 DEF Promise!Next, IsSeconds
      <4>4. CASE s # 0
        <5>1. ASSUME NEW x \in Key PROVE M'[x] = M[x]
          BY <2>0, <3>2, <4>1, <4>4 DEF Visible, Alive
        <5>2. ASSUME NEW x \in Key PROVE D'[x] = IF x = k THEN w ELSE D[x]
          BY <2>0, <2>3, <4>1, <4>4 DEF Visible, Alive
        <5>3. M' = M /\ D' = [D EXCEPT ![k] = w]
          BY <5>1, <5>2, Zenon DEF Visible
        <5>4. Promise!ExpireAccept(k, s)
          BY <2>0, <2>3, <3>2, <4>1, <4>2, <4>4, <5>3 DEF Promise!ExpireAccept, Promise!Reply, Reply, w
        <5> QED
          BY <2>3, <5>4 DEF Promise!Next, IsSeconds
      <4> QED
        BY <4>3, <4>4
    <3> QED
      BY <3>1, <3>2
  <2> QED
    BY <1>3, <2>1, <2>2, <2>3 DEF expire_command
<1>4. ASSUME NEW cmd \in {"set", "get", "expire"}, wrong_arity(cmd) PROVE Promise!Next
  <2>1. M' = M /\ D' = D
    BY <1>4 DEF wrong_arity, Visible, Alive
  <2>2. Promise!Reject(cmd, NULL, Promise!WrongArity)
    BY <1>4, <2>1, Zenon DEF wrong_arity, Promise!Reject, Promise!Reply, Reply, Promise!WrongArity, WrongArity
  <2> QED
    BY <2>2 DEF Promise!Next
<1>5. ASSUME NEW t \in 0 .. MaxTime, mstime(t) PROVE Promise!Advance(t)
  <2>1. now < t /\ now' = t /\ keys' = keys /\ expires' = expires /\ reply' = NoReply
    BY <1>5 DEF mstime, OrdinaryOperation
  <2>2. ASSUME NEW x \in Key
        PROVE  /\ M'[x] = IF D[x] # NULL /\ D[x] <= t THEN NULL ELSE M[x]
               /\ D'[x] = IF D[x] # NULL /\ D[x] <= t THEN NULL ELSE D[x]
    BY <2>1 DEF Visible, Alive
  <2> DEFINE Due == {x \in Key : D[x] # NULL /\ D[x] <= t}
  <2>3. /\ M' = [x \in Key |-> IF x \in Due THEN NULL ELSE M[x]]
        /\ D' = [x \in Key |-> IF x \in Due THEN NULL ELSE D[x]]
    BY <2>2 DEF Visible
  <2> QED
    BY <2>1, <2>3 DEF Promise!Advance, Promise!NoReply, Promise!Reply, NoReply, Reply
<1>6. CASE UNCHANGED vars
  BY <1>6 DEF vars, Promise!vars, Visible, Alive
<1> QED
  BY <1>1, <1>2, <1>3, <1>4, <1>5, <1>6 DEF Next, Promise!Next

(* In ordinary operation the database is a map whose keys vanish exactly   *)
(* at their deadline: the lazy deletion cannot be observed.                *)
THEOREM LazyExpiryIsInvisible == OrdinaryOperation => (Spec => ImplementsTtlMap)
<1> SUFFICES ASSUME OrdinaryOperation PROVE Spec => Promise!Spec
  BY DEF ImplementsTtlMap
<1>1. Init => Promise!Init
  BY DEF Init, Promise!Init, Visible, Alive, Promise!NoReply, Promise!Reply, NoReply, Reply
<1>2. TypeOK /\ ExpiresOnlyForKeys /\ [Next]_vars => [Promise!Next]_(Promise!vars)
  BY StepRefines
<1> QED
  BY <1>1, <1>2, TypeCorrect, NoOrphanDeadline, PTL DEF Spec, Promise!Spec

(* In ordinary operation SET adds a key only under a name that it found    *)
(* free, so db_set_value is never asked to overwrite and never asserts.    *)
THEOREM SetNeverAsserts == OrdinaryOperation => (Spec => []NoAssertCrash)
<1> SUFFICES ASSUME OrdinaryOperation PROVE Spec => []NoAssertCrash
  OBVIOUS
<1>1. Init => NoAssertCrash
  BY DEF Init, NoAssertCrash
<1>2. NoAssertCrash /\ [Next]_vars => NoAssertCrash'
  <2> SUFFICES ASSUME NoAssertCrash, [Next]_vars PROVE NoAssertCrash'
    OBVIOUS
  <2> USE DEF NoAssertCrash
  <2>1. ASSUME NEW k \in Key, NEW v \in Val, set_command(k, v) PROVE NoAssertCrash'
    <3>1. CString[k] = k
      BY DEF OrdinaryOperation
    <3> QED
      BY <2>1, <3>1 DEF set_command, db_add_key_value, sds_new
  <2>2. ASSUME NEW k \in Key, get_command(k) PROVE NoAssertCrash'
    BY <2>2 DEF get_command
  <2>3. ASSUME NEW k \in Key, NEW s \in Seconds, expire_command(k, s) PROVE NoAssertCrash'
    BY <2>3 DEF expire_command
  <2>4. ASSUME NEW cmd \in {"set", "get", "expire"}, wrong_arity(cmd) PROVE NoAssertCrash'
    BY <2>4 DEF wrong_arity
  <2>5. ASSUME NEW t \in 0 .. MaxTime, mstime(t) PROVE NoAssertCrash'
    BY <2>5 DEF mstime
  <2>6. CASE UNCHANGED vars
    BY <2>6 DEF vars
  <2> QED
    BY <2>1, <2>2, <2>3, <2>4, <2>5, <2>6 DEF Next
<1> QED
  BY <1>1, <1>2, PTL DEF Spec

(* In ordinary operation an EXPIRE answered with 1 has set a deadline that *)
(* is not in the past: neither product nor sum of expire_command wraps.    *)
THEOREM DeadlineIsAhead == OrdinaryOperation => (Spec => []AckedDeadlineNotInThePast)
<1> SUFFICES ASSUME OrdinaryOperation PROVE Spec => []AckedDeadlineNotInThePast
  OBVIOUS
<1>1. Init => AckedDeadlineNotInThePast
  BY DEF Init, AckedDeadlineNotInThePast, NoReply, Reply
<1>2. TypeOK /\ AckedDeadlineNotInThePast /\ [Next]_vars => AckedDeadlineNotInThePast'
  <2> SUFFICES ASSUME TypeOK, AckedDeadlineNotInThePast, [Next]_vars
               PROVE  AckedDeadlineNotInThePast'
    OBVIOUS
  <2> USE DEF AckedDeadlineNotInThePast, Reply, NoReply
  <2>1. ASSUME NEW k \in Key, NEW v \in Val, set_command(k, v) PROVE AckedDeadlineNotInThePast'
    BY <2>1 DEF set_command, db_add_key_value
  <2>2. ASSUME NEW k \in Key, get_command(k) PROVE AckedDeadlineNotInThePast'
    BY <2>2 DEF get_command
  <2>3. ASSUME NEW k \in Key, NEW s \in Seconds, expire_command(k, s)
        PROVE  AckedDeadlineNotInThePast'
    <3>0. OutOfRange # ":1" /\ CouldNotSet # ":1"
      BY DEF OutOfRange, CouldNotSet
    <3>1. CASE reply' = Reply("expire", k, ":1") /\ IsSeconds(s) /\ expires[k] = NULL
      <4>1. expires'[k] = LLong(now + LLong(s * MsPerSec)) /\ now' = now
        <5>1. reply'.ret = ":1"
          BY <3>1
        <5>2. reply'.ret # ":0" /\ reply'.ret # OutOfRange
          BY <5>1 DEF OutOfRange
        <5>3. expires' = db_set_expire(k, LLong(now + LLong(s * MsPerSec))) /\ now' = now
          BY <2>3, <5>2, SMTT(30) DEF expire_command
        <5> QED
          BY <3>1, <5>3 DEF db_set_expire, TypeOK
      <4>2. LLong(now + LLong(s * MsPerSec)) = now + s * MsPerSec /\ s * MsPerSec \in Nat
        BY <3>1, DeadlineExact DEF TypeOK
      <4>3. now \in Nat
        BY KeyspaceAssumption DEF TypeOK
      <4>4. now' <= expires'[k]
        BY <4>1, <4>2, <4>3
      <4> QED
        BY <3>1, <4>4
    <3>2. CASE reply'.ret # ":1"
      BY <3>2
    <3>3. ~IsSeconds(s) => reply'.ret # ":1"
      BY <2>3, <3>0 DEF expire_command
    <3>4. IsSeconds(s) /\ keys[k] = NULL => reply'.ret # ":1"
      BY <2>3 DEF expire_command
    <3>5. IsSeconds(s) /\ keys[k] # NULL /\ expires[k] # NULL => reply'.ret # ":1"
      BY <2>3, <3>0 DEF expire_command
    <3>6. IsSeconds(s) /\ keys[k] # NULL /\ expires[k] = NULL => reply' = Reply("expire", k, ":1")
      BY <2>3 DEF expire_command
    <3> QED
      BY <3>1, <3>2, <3>3, <3>4, <3>5, <3>6
  <2>4. ASSUME NEW cmd \in {"set", "get", "expire"}, wrong_arity(cmd)
        PROVE  AckedDeadlineNotInThePast'
    BY <2>4, Zenon DEF wrong_arity, WrongArity
  <2>5. ASSUME NEW t \in 0 .. MaxTime, mstime(t) PROVE AckedDeadlineNotInThePast'
    BY <2>5 DEF mstime
  <2>6. CASE UNCHANGED vars
    BY <2>6 DEF vars
  <2> QED
    BY <2>1, <2>2, <2>3, <2>4, <2>5, <2>6 DEF Next
<1> QED
  BY <1>1, <1>2, TypeCorrect, PTL DEF Spec
-----------------------------------------------------------------------------
(* Objects *)

(* An object with a reference has a string. *)
LiveHaveStrings ==
  proc = "up" => \A o \in Object : refcount[o] # 0 => ptr[o] \in Val

ObjectInv ==
  /\ TypeOK
  /\ ObjectTypeOK
  /\ ObjectsAreCounted
  /\ EntriesPointToValues
  /\ LiveHaveStrings

(* The commands do to the stores what Keyspace says, so every behaviour    *)
(* with objects is one of the database without them.                       *)
THEOREM ObjectsRefineKeyspace == ObjectSpec => Spec
<1>1. ObjectInit => Init
  BY DEF ObjectInit
<1>2. [ObjectNext]_ovars => [Next]_vars
  <2> SUFFICES ASSUME [ObjectNext]_ovars PROVE [Next]_vars
    OBVIOUS
  <2>1. CASE \E k \in Key, v \in Val, o \in Object : SetObject(k, v, o)
    BY <2>1 DEF SetObject, Next
  <2>2. CASE \E v \in Val, o \in Object : process_multibulk_buffer(v, o)
    BY <2>2 DEF process_multibulk_buffer
  <2>3. CASE \E k \in Key : GetObject(k)
    BY <2>3 DEF GetObject, Next
  <2>4. CASE OtherCommand
    BY <2>4 DEF OtherCommand, Next
  <2>5. CASE free_client_argv \/ redis_client_delete
    BY <2>5 DEF free_client_argv, redis_client_delete
  <2>6. CASE UNCHANGED ovars
    BY <2>6 DEF ovars
  <2> QED
    BY <2>1, <2>2, <2>3, <2>4, <2>5, <2>6 DEF ObjectNext
<1> QED
  BY <1>1, <1>2, PTL DEF ObjectSpec, Spec

(* Shared value objects, with their reference counts and the clients that  *)
(* hold them, keep the promise of the abstract map with expiring keys: a   *)
(* client cannot tell that values are shared, counted and freed.           *)
THEOREM SharingIsInvisible == OrdinaryOperation => (ObjectSpec => ImplementsTtlMap)
BY ObjectsRefineKeyspace, LazyExpiryIsInvisible, PTL

(* What ObjectsAreCounted says of one object, without Holds. *)
LEMMA CountsOf ==
  ASSUME ObjectInv, proc = "up", NEW y \in Object
  PROVE  /\ \A i, j \in Key : value[i] = y /\ value[j] = y => i = j
         /\ \A j \in Key : value[j] = y => y # argv /\ y \notin lost
         /\ y \in lost => y # argv
         /\ refcount[y] = IF (\E j \in Key : value[j] = y) \/ y = argv \/ y \in lost THEN 1 ELSE 0
<1>1. /\ \A j, k \in Holds(y) : j = k
      /\ Holds(y) # {} => y # argv /\ y \notin lost
      /\ y \in lost => y # argv
      /\ refcount[y] = IF Holds(y) # {} \/ y = argv \/ y \in lost THEN 1 ELSE 0
  BY DEF ObjectInv, ObjectsAreCounted
<1>2. \A j \in Key : j \in Holds(y) <=> value[j] = y
  BY DEF Holds
<1>3. Holds(y) # {} <=> \E j \in Key : value[j] = y
  BY DEF Holds
<1>4. /\ \A i, j \in Key : value[i] = y /\ value[j] = y => i = j
      /\ \A j \in Key : value[j] = y => y # argv /\ y \notin lost
  BY <1>1, <1>2
<1> QED
  BY <1>1, <1>3, <1>4

(* While no assertion failed, a key has a value exactly when its entry     *)
(* points to an object, and that object has one reference.                 *)
LEMMA EntryAlive ==
  ASSUME ObjectInv, proc = "up", NEW k \in Key
  PROVE  /\ keys[k] = NULL <=> value[k] = NULL
         /\ value[k] # NULL => value[k] \in Object /\ refcount[value[k]] = 1
<1>1. value[k] # NULL => value[k] \in Object
  BY DEF ObjectInv, ObjectTypeOK
<1>2. value[k] # NULL => refcount[value[k]] = 1
  BY <1>1, CountsOf
<1>3. value[k] # NULL => ptr[value[k]] \in Val
  BY <1>1, <1>2 DEF ObjectInv, LiveHaveStrings
<1>4. keys[k] = IF value[k] = NULL THEN NULL ELSE ptr[value[k]]
  BY DEF ObjectInv, EntriesPointToValues
<1> QED
  BY <1>1, <1>2, <1>3, <1>4, KeyspaceAssumption

(* After a SET the new object has one reference, the old value of the key  *)
(* none, whether it was replaced or had been due, and no other count has   *)
(* changed.                                                                *)
LEMMA SetCountsAre ==
  ASSUME ObjectInv, proc = "up", NEW k \in Key, NEW o \in Object, refcount[o] = 0
  PROVE  SetCounts(k, o) =
           [x \in Object |-> IF x = o THEN 1 ELSE IF x = value[k] THEN 0 ELSE refcount[x]]
<1>1. refcount \in [Object -> Int] /\ NULL \notin Object
  BY ObjectAssumption DEF ObjectInv, ObjectTypeOK
<1>2. keys \in [Key -> Val \cup {NULL}]
  BY DEF ObjectInv, TypeOK
<1>3. CASE value[k] = NULL
  <2>1. keys[k] = NULL
    BY <1>3, EntryAlive
  <2>2. lookup_key(keys, k)[k] = NULL
    BY <1>2, <2>1 DEF lookup_key, expire_if_needed, db_delete_key
  <2>3. SetCounts(k, o) = [[[refcount EXCEPT ![o] = 1] EXCEPT ![o] = @ + 1] EXCEPT ![o] = @ - 1]
    BY <1>3, <2>2 DEF SetCounts, dict_object_destructor,
         latte_object_incr_ref_count, latte_object_decr_ref_count
  <2> QED
    BY <1>1, <1>3, <2>3
<1>4. CASE value[k] # NULL
  <2>1. value[k] \in Object /\ refcount[value[k]] = 1 /\ keys[k] # NULL /\ value[k] # o
    BY <1>4, EntryAlive
  <2>2. CASE ExpireDue(k)
    <3>1. lookup_key(keys, k)[k] = NULL
      BY <1>2, <2>2 DEF lookup_key, expire_if_needed, db_delete_key
    <3>2. SetCounts(k, o) =
            [[[[refcount EXCEPT ![o] = 1] EXCEPT ![value[k]] = @ - 1] EXCEPT ![o] = @ + 1]
               EXCEPT ![o] = @ - 1]
      BY <1>4, <2>2, <3>1 DEF SetCounts, dict_object_destructor,
           latte_object_incr_ref_count, latte_object_decr_ref_count
    <3> QED
      BY <1>1, <2>1, <3>2
  <2>3. CASE ~ExpireDue(k)
    <3>1. lookup_key(keys, k)[k] # NULL
      BY <2>1, <2>3 DEF lookup_key, expire_if_needed
    <3>2. SetCounts(k, o) =
            [[[[refcount EXCEPT ![o] = 1] EXCEPT ![o] = @ + 1] EXCEPT ![value[k]] = @ - 1]
               EXCEPT ![o] = @ - 1]
      BY <2>3, <3>1 DEF SetCounts, dict_object_destructor, set_entry,
           latte_object_incr_ref_count, latte_object_decr_ref_count
    <3> QED
      BY <1>1, <2>1, <3>2
  <2> QED
    BY <2>2, <2>3
<1> QED
  BY <1>3, <1>4

(* A SET that is answered leaves the new object and the new value under    *)
(* one name, clears the entry of the key itself if the name is another,    *)
(* and that name was free if it is.                                        *)
LEMMA SetEntries ==
  ASSUME ObjectInv, NEW k \in Key, NEW v \in Val, NEW o \in Object,
         SetObject(k, v, o), proc' = "up"
  PROVE  \E n \in Key :
           /\ n = k \/ value[n] = NULL
           /\ value' = [j \in Key |-> IF j = n THEN o ELSE IF j = k THEN NULL ELSE value[j]]
           /\ keys' = [j \in Key |-> IF j = n THEN v ELSE IF j = k THEN NULL ELSE keys[j]]
<1>0. /\ proc = "up"
      /\ value \in [Key -> Object \cup {NULL}] /\ keys \in [Key -> Val \cup {NULL}]
      /\ CString[k] \in Key
  BY KeyspaceAssumption DEF SetObject, set_command, ObjectInv, TypeOK, ObjectTypeOK
<1>1. \A j \in Key : keys[j] = NULL <=> value[j] = NULL
  BY <1>0, EntryAlive
<1>2. proc' # "aborted"
  OBVIOUS
<1>3. CASE lookup_key(keys, k)[k] = NULL
  <2>1. /\ lookup_key(keys, k)[CString[k]] = NULL
        /\ keys' = [lookup_key(keys, k) EXCEPT ![CString[k]] = v]
    BY <1>2, <1>3 DEF SetObject, set_command, db_add_key_value, sds_new
  <2>2. value' = [lookup_key(value, k) EXCEPT ![CString[k]] = o]
    BY <1>2, <1>3, Zenon DEF SetObject, sds_new
  <2>3. /\ lookup_key(keys, k) = [keys EXCEPT ![k] = NULL]
        /\ lookup_key(value, k) = [value EXCEPT ![k] = NULL]
    <3>1. CASE ExpireDue(k)
      BY <3>1 DEF lookup_key, expire_if_needed, db_delete_key
    <3>2. CASE ~ExpireDue(k)
      <4>1. lookup_key(keys, k) = keys /\ lookup_key(value, k) = value
        BY <3>2 DEF lookup_key, expire_if_needed
      <4>2. keys[k] = NULL /\ value[k] = NULL
        BY <1>1, <1>3, <4>1
      <4> QED
        BY <1>0, <4>1, <4>2
    <3> QED
      BY <3>1, <3>2
  <2>4. CString[k] = k \/ value[CString[k]] = NULL
    BY <1>0, <1>1, <2>1, <2>3
  <2>5. value' = [j \in Key |-> IF j = CString[k] THEN o ELSE IF j = k THEN NULL ELSE value[j]]
    BY <1>0, <2>2, <2>3, Zenon
  <2>6. keys' = [j \in Key |-> IF j = CString[k] THEN v ELSE IF j = k THEN NULL ELSE keys[j]]
    BY <1>0, <2>1, <2>3, Zenon
  <2> QED
    BY <1>0, <2>4, <2>5, <2>6
<1>4. CASE lookup_key(keys, k)[k] # NULL
  <2>1. ~ExpireDue(k)
    BY <1>0, <1>4 DEF lookup_key, expire_if_needed, db_delete_key
  <2>2. lookup_key(keys, k) = keys /\ lookup_key(value, k) = value
    BY <2>1 DEF lookup_key, expire_if_needed
  <2>3. keys' = [keys EXCEPT ![k] = v] /\ value' = [value EXCEPT ![k] = o]
    BY <1>2, <1>4, <2>2 DEF SetObject, set_command, db_entry_set_value
  <2>4. /\ value' = [j \in Key |-> IF j = k THEN o ELSE IF j = k THEN NULL ELSE value[j]]
        /\ keys' = [j \in Key |-> IF j = k THEN v ELSE IF j = k THEN NULL ELSE keys[j]]
    BY <1>0, <2>3, Zenon
  <2> QED
    BY <2>4
<1> QED
  BY <1>3, <1>4

(* SET keeps the invariant. *)
LEMMA SetPreserves ==
  ASSUME ObjectInv, TypeOK', NEW k \in Key, NEW v \in Val, NEW o \in Object, SetObject(k, v, o)
  PROVE  ObjectInv'
<1>0. /\ proc = "up" /\ refcount[o] = 0
      /\ argv' = argv /\ lost' = lost /\ losses' = losses
  BY DEF SetObject, set_command, string_object_new
<1>1. /\ value \in [Key -> Object \cup {NULL}] /\ keys \in [Key -> Val \cup {NULL}]
      /\ ptr \in [Object -> Val \cup {NULL}] /\ refcount \in [Object -> Int]
      /\ argv \in Object \cup {NULL} /\ lost \in SUBSET Object /\ losses \in Nat
      /\ NULL \notin Object /\ NULL \notin Val
  BY KeyspaceAssumption, ObjectAssumption DEF ObjectInv, TypeOK, ObjectTypeOK
<1>2. refcount' = [x \in Object |-> IF x = o THEN 1 ELSE IF x = value[k] THEN 0 ELSE refcount[x]]
  BY <1>0, SetCountsAre, Zenon DEF SetObject
<1>3. ptr' = [x \in Object |-> IF refcount'[x] = 0 THEN NULL ELSE IF x = o THEN v ELSE ptr[x]]
  BY <1>1 DEF SetObject, Strings
<1>4. value' \in [Key -> Object \cup {NULL}]
  <2>1. lookup_key(value, k) \in [Key -> Object \cup {NULL}]
    BY <1>1, ExpireIfNeededType DEF lookup_key
  <2>2. CString[k] \in Key
    BY KeyspaceAssumption
  <2> QED
    BY <2>1, <2>2 DEF SetObject, sds_new
<1>5. ObjectTypeOK'
  <2>1. refcount' \in [Object -> Int]
    BY <1>1, <1>2
  <2>2. ptr' \in [Object -> Val \cup {NULL}]
    BY <1>1, <1>3
  <2> QED
    BY <1>0, <1>1, <1>4, <2>1, <2>2 DEF ObjectTypeOK
<1>6. CASE proc' # "up"
  BY <1>5, <1>6 DEF ObjectInv, ObjectsAreCounted, EntriesPointToValues, LiveHaveStrings
<1>7. CASE proc' = "up"
  <2>1. PICK n \in Key :
          /\ n = k \/ value[n] = NULL
          /\ value' = [j \in Key |-> IF j = n THEN o ELSE IF j = k THEN NULL ELSE value[j]]
          /\ keys' = [j \in Key |-> IF j = n THEN v ELSE IF j = k THEN NULL ELSE keys[j]]
    BY <1>7, SetEntries
  <2>2. \A j \in Key : /\ keys[j] = NULL <=> value[j] = NULL
                       /\ value[j] # NULL => value[j] \in Object /\ refcount[value[j]] = 1
    BY <1>0, EntryAlive
  <2>3. \A x \in Object :
          /\ \A i, j \in Key : value[i] = x /\ value[j] = x => i = j
          /\ \A j \in Key : value[j] = x => x # argv /\ x \notin lost
          /\ x \in lost => x # argv
          /\ refcount[x] = IF (\E j \in Key : value[j] = x) \/ x = argv \/ x \in lost THEN 1 ELSE 0
    BY <1>0, CountsOf
  <2>4. o # argv /\ o \notin lost /\ \A j \in Key : value[j] # o
    BY <1>0, <2>3
  <2>5. ASSUME NEW x \in Object
        PROVE  /\ \A i, j \in Key : value'[i] = x /\ value'[j] = x => i = j
               /\ \A j \in Key : value'[j] = x => x # argv /\ x \notin lost
               /\ refcount'[x] =
                    IF (\E j \in Key : value'[j] = x) \/ x = argv \/ x \in lost THEN 1 ELSE 0
    <3>1. CASE x = o
      <4>1. \A j \in Key : value'[j] = x <=> j = n
        BY <1>1, <2>1, <2>4, <3>1
      <4>2. refcount'[x] = 1
        BY <1>2, <3>1
      <4> QED
        BY <2>4, <3>1, <4>1, <4>2
    <3>2. CASE x # o /\ x = value[k]
      <4>1. \A j \in Key : value'[j] # x
        BY <1>1, <2>1, <2>3, <3>2
      <4>2. x # argv /\ x \notin lost
        BY <2>3, <3>2
      <4>3. refcount'[x] = 0
        BY <1>2, <3>2
      <4> QED
        BY <4>1, <4>2, <4>3
    <3>3. CASE x # o /\ x # value[k]
      <4>1. \A j \in Key : value'[j] = x <=> value[j] = x
        BY <1>1, <2>1, <3>3
      <4>2. refcount'[x] = refcount[x]
        BY <1>2, <3>3
      <4> QED
        BY <2>3, <4>1, <4>2
    <3> QED
      BY <3>1, <3>2, <3>3
  <2>6. ObjectsAreCounted'
    BY <1>0, <2>3, <2>5 DEF ObjectsAreCounted, Holds
  <2>7. \A x \in Object : refcount[x] # 0 => ptr[x] \in Val
    BY <1>0 DEF ObjectInv, LiveHaveStrings
  <2>8. LiveHaveStrings'
    BY <1>1, <1>2, <1>3, <2>7 DEF LiveHaveStrings
  <2>9. ASSUME NEW j \in Key
        PROVE  keys'[j] = IF value'[j] = NULL THEN NULL ELSE ptr'[value'[j]]
    <3>1. CASE j = n
      <4>1. keys'[j] = v /\ value'[j] = o
        BY <2>1, <3>1
      <4>2. ptr'[o] = v
        BY <1>2, <1>3
      <4> QED
        BY <1>1, <4>1, <4>2
    <3>2. CASE j # n /\ j = k
      BY <2>1, <3>2
    <3>3. CASE j # n /\ j # k
      <4>1. keys'[j] = keys[j] /\ value'[j] = value[j]
        BY <2>1, <3>3
      <4>2. keys[j] = IF value[j] = NULL THEN NULL ELSE ptr[value[j]]
        BY <1>0 DEF ObjectInv, EntriesPointToValues
      <4>3. ASSUME value[j] # NULL PROVE ptr'[value[j]] = ptr[value[j]]
        <5>1. value[j] \in Object /\ refcount[value[j]] = 1
          BY <2>2, <4>3
        <5>2. value[j] # value[k] /\ value[j] # o
          BY <2>3, <2>4, <3>3, <5>1
        <5>3. refcount'[value[j]] = 1
          BY <1>2, <5>1, <5>2
        <5> QED
          BY <1>3, <5>1, <5>2, <5>3
      <4> QED
        BY <4>1, <4>2, <4>3
    <3> QED
      BY <3>1, <3>2, <3>3
  <2>10. EntriesPointToValues'
    BY <2>9 DEF EntriesPointToValues
  <2> QED
    BY <1>5, <2>6, <2>8, <2>10 DEF ObjectInv
<1> QED
  BY <1>6, <1>7

(* A step that gives up at most one object, with the entry or the argument *)
(* that pointed to it, keeps the invariant.                                *)
LEMMA GivenUp ==
  ASSUME ObjectInv, TypeOK', proc = "up", UNCHANGED <<proc, lost, losses>>,
         NEW x \in Object, refcount[x] = 1, x \notin lost,
         refcount' = [refcount EXCEPT ![x] = @ - 1], ptr' = Strings(ptr),
         value' = [j \in Key |-> IF value[j] = x THEN NULL ELSE value[j]],
         argv' = IF argv = x THEN NULL ELSE argv,
         keys' = [j \in Key |-> IF value[j] = x THEN NULL ELSE keys[j]]
  PROVE  ObjectInv'
<1>1. /\ value \in [Key -> Object \cup {NULL}] /\ keys \in [Key -> Val \cup {NULL}]
      /\ ptr \in [Object -> Val \cup {NULL}] /\ refcount \in [Object -> Int]
      /\ argv \in Object \cup {NULL} /\ lost \in SUBSET Object /\ losses \in Nat
      /\ NULL \notin Object /\ NULL \notin Val
  BY KeyspaceAssumption, ObjectAssumption DEF ObjectInv, TypeOK, ObjectTypeOK
<1>2. refcount' = [y \in Object |-> IF y = x THEN 0 ELSE refcount[y]]
  <2>1. refcount[x] - 1 = 0
    OBVIOUS
  <2>2. refcount' = [y \in Object |-> IF y = x THEN refcount[x] - 1 ELSE refcount[y]]
    BY <1>1, Zenon
  <2> QED
    BY <2>1, <2>2, Zenon
<1>3. ptr' = [y \in Object |-> IF refcount'[y] = 0 THEN NULL ELSE ptr[y]]
  BY DEF Strings
<1>4. ObjectTypeOK'
  <2>1. refcount' \in [Object -> Int]
    BY <1>1, <1>2
  <2>2. ptr' \in [Object -> Val \cup {NULL}]
    BY <1>1, <1>3
  <2>3. value' \in [Key -> Object \cup {NULL}]
    BY <1>1
  <2> QED
    BY <1>1, <2>1, <2>2, <2>3 DEF ObjectTypeOK
<1>5. \A y \in Object :
        /\ \A i, j \in Key : value[i] = y /\ value[j] = y => i = j
        /\ \A j \in Key : value[j] = y => y # argv /\ y \notin lost
        /\ y \in lost => y # argv
        /\ refcount[y] = IF (\E j \in Key : value[j] = y) \/ y = argv \/ y \in lost THEN 1 ELSE 0
  BY CountsOf
<1>6. ASSUME NEW y \in Object
      PROVE  /\ \A i, j \in Key : value'[i] = y /\ value'[j] = y => i = j
             /\ \A j \in Key : value'[j] = y => y # argv' /\ y \notin lost
             /\ y \in lost => y # argv'
             /\ refcount'[y] =
                  IF (\E j \in Key : value'[j] = y) \/ y = argv' \/ y \in lost THEN 1 ELSE 0
  <2>1. CASE y = x
    <3>1. \A j \in Key : value'[j] # y
      BY <1>1, <2>1
    <3>2. y # argv' /\ y \notin lost /\ refcount'[y] = 0
      BY <1>1, <1>2, <2>1
    <3> QED
      BY <3>1, <3>2
  <2>2. CASE y # x
    <3>1. \A j \in Key : value'[j] = y <=> value[j] = y
      BY <1>1, <2>2
    <3>2. (y = argv' <=> y = argv) /\ refcount'[y] = refcount[y]
      BY <1>1, <1>2, <2>2
    <3> QED
      BY <1>5, <3>1, <3>2
  <2> QED
    BY <2>1, <2>2
<1>7. ObjectsAreCounted'
  BY <1>6 DEF ObjectsAreCounted, Holds
<1>8. \A y \in Object : refcount[y] # 0 => ptr[y] \in Val
  BY DEF ObjectInv, LiveHaveStrings
<1>9. LiveHaveStrings'
  BY <1>1, <1>2, <1>3, <1>8 DEF LiveHaveStrings
<1>10. ASSUME NEW j \in Key
       PROVE  keys'[j] = IF value'[j] = NULL THEN NULL ELSE ptr'[value'[j]]
  <2>1. keys[j] = IF value[j] = NULL THEN NULL ELSE ptr[value[j]]
    BY DEF ObjectInv, EntriesPointToValues
  <2>2. CASE value[j] = x \/ value[j] = NULL
    BY <2>1, <2>2
  <2>3. CASE value[j] # x /\ value[j] # NULL
    <3>1. value[j] \in Object /\ refcount[value[j]] = 1
      BY <2>3, EntryAlive
    <3>2. ptr'[value[j]] = ptr[value[j]]
      BY <1>2, <1>3, <2>3, <3>1
    <3>3. value'[j] = value[j] /\ keys'[j] = keys[j]
      BY <2>3
    <3> QED
      BY <2>1, <3>2, <3>3
  <2> QED
    BY <2>2, <2>3
<1>11. EntriesPointToValues'
  BY <1>10 DEF EntriesPointToValues
<1> QED
  BY <1>4, <1>7, <1>9, <1>11 DEF ObjectInv

(* GET keeps the invariant: a due key gives up its value. *)
LEMMA GetPreserves ==
  ASSUME ObjectInv, TypeOK', NEW k \in Key, GetObject(k)
  PROVE  ObjectInv'
<1>0. /\ proc = "up" /\ proc' = proc /\ argv' = argv /\ lost' = lost /\ losses' = losses
      /\ keys' = lookup_key(keys, k) /\ value' = lookup_key(value, k)
      /\ refcount' = dict_object_destructor(refcount, k) /\ ptr' = Strings(ptr)
  BY DEF GetObject, get_command
<1>1. /\ value \in [Key -> Object \cup {NULL}] /\ keys \in [Key -> Val \cup {NULL}]
      /\ ptr \in [Object -> Val \cup {NULL}] /\ refcount \in [Object -> Int]
      /\ NULL \notin Object
  BY ObjectAssumption DEF ObjectInv, TypeOK, ObjectTypeOK
<1>2. CASE ExpireDue(k) /\ value[k] # NULL
  <2>1. value[k] \in Object /\ refcount[value[k]] = 1
    BY <1>0, <1>2, EntryAlive
  <2>2. value[k] \notin lost /\ value[k] # argv
    BY <1>0, <2>1, CountsOf
  <2>3. keys' = [keys EXCEPT ![k] = NULL] /\ value' = [value EXCEPT ![k] = NULL]
    BY <1>0, <1>2 DEF lookup_key, expire_if_needed, db_delete_key
  <2>4. \A j \in Key : value[j] = value[k] <=> j = k
    BY <1>0, <2>1, CountsOf
  <2>5. /\ value' = [j \in Key |-> IF value[j] = value[k] THEN NULL ELSE value[j]]
        /\ keys' = [j \in Key |-> IF value[j] = value[k] THEN NULL ELSE keys[j]]
    BY <1>1, <2>3, <2>4, Zenon
  <2>6. refcount' = [refcount EXCEPT ![value[k]] = @ - 1]
    BY <1>0, <1>2 DEF dict_object_destructor, latte_object_decr_ref_count
  <2>7. argv' = IF argv = value[k] THEN NULL ELSE argv
    BY <1>0, <2>2
  <2> HIDE <1>1
  <2> QED
    BY <1>0, <2>1, <2>2, <2>5, <2>6, <2>7, GivenUp, Zenon
<1>3. CASE ~(ExpireDue(k) /\ value[k] # NULL)
  <2>1. keys[k] = NULL <=> value[k] = NULL
    BY <1>0, EntryAlive
  <2>2. keys' = keys
    BY <1>0, <1>1, <1>3, <2>1 DEF lookup_key, expire_if_needed, db_delete_key
  <2>3. value' = value
    BY <1>0, <1>1, <1>3 DEF lookup_key, expire_if_needed, db_delete_key
  <2>4. refcount' = refcount
    BY <1>0, <1>3 DEF dict_object_destructor
  <2>5. \A y \in Object : ptr'[y] = IF refcount[y] = 0 THEN NULL ELSE ptr[y]
    BY <1>0, <2>4 DEF Strings
  <2>6. ptr' \in [Object -> Val \cup {NULL}]
    BY <1>0, <1>1 DEF Strings
  <2>7. ObjectTypeOK'
    BY <1>0, <2>3, <2>4, <2>6 DEF ObjectInv, ObjectTypeOK
  <2>8. ObjectsAreCounted'
    BY <1>0, <2>3, <2>4 DEF ObjectInv, ObjectsAreCounted, Holds
  <2>9. LiveHaveStrings'
    BY <1>0, <2>4, <2>5 DEF ObjectInv, LiveHaveStrings
  <2>10. ASSUME NEW j \in Key
         PROVE  keys'[j] = IF value'[j] = NULL THEN NULL ELSE ptr'[value'[j]]
    <3>1. keys[j] = IF value[j] = NULL THEN NULL ELSE ptr[value[j]]
      BY <1>0 DEF ObjectInv, EntriesPointToValues
    <3>2. value[j] # NULL => value[j] \in Object /\ refcount[value[j]] = 1
      BY <1>0, EntryAlive
    <3>3. value[j] # NULL => ptr'[value[j]] = ptr[value[j]]
      BY <2>5, <3>2
    <3> QED
      BY <2>2, <2>3, <3>1, <3>3
  <2>11. EntriesPointToValues'
    BY <2>10 DEF EntriesPointToValues
  <2> QED
    BY <2>7, <2>8, <2>9, <2>11 DEF ObjectInv
<1> QED
  BY <1>2, <1>3

(* The half-read request of another client keeps the invariant, when it    *)
(* begins, when it is given up and when its client leaves.                 *)
LEMMA RequestPreserves ==
  ASSUME ObjectInv, TypeOK',
         \/ \E v \in Val, o \in Object : process_multibulk_buffer(v, o)
         \/ free_client_argv \/ redis_client_delete
  PROVE  ObjectInv'
<1>1. /\ value \in [Key -> Object \cup {NULL}] /\ keys \in [Key -> Val \cup {NULL}]
      /\ ptr \in [Object -> Val \cup {NULL}] /\ refcount \in [Object -> Int]
      /\ argv \in Object \cup {NULL} /\ lost \in SUBSET Object /\ losses \in Nat
      /\ NULL \notin Object /\ NULL \notin Val
  BY KeyspaceAssumption, ObjectAssumption DEF ObjectInv, TypeOK, ObjectTypeOK
<1>2. /\ proc = "up" /\ proc' = proc /\ keys' = keys
  BY DEF process_multibulk_buffer, free_client_argv, redis_client_delete, vars
<1>3. \A y \in Object :
        /\ \A i, j \in Key : value[i] = y /\ value[j] = y => i = j
        /\ \A j \in Key : value[j] = y => y # argv /\ y \notin lost
        /\ y \in lost => y # argv
        /\ refcount[y] = IF (\E j \in Key : value[j] = y) \/ y = argv \/ y \in lost THEN 1 ELSE 0
  BY <1>2, CountsOf, Zenon
<1>4. \A y \in Object : refcount[y] # 0 => ptr[y] \in Val
  BY <1>2 DEF ObjectInv, LiveHaveStrings
<1>5. \A j \in Key : keys[j] = IF value[j] = NULL THEN NULL ELSE ptr[value[j]]
  BY <1>2 DEF ObjectInv, EntriesPointToValues
<1>6. ASSUME NEW v \in Val, NEW o \in Object, process_multibulk_buffer(v, o) PROVE ObjectInv'
  <2>1. /\ argv = NULL /\ refcount[o] = 0 /\ argv' = o
        /\ refcount' = [refcount EXCEPT ![o] = 1] /\ ptr' = [ptr EXCEPT ![o] = v]
        /\ value' = value /\ lost' = lost /\ losses' = losses
    BY <1>6 DEF process_multibulk_buffer, string_object_new
  <2>2. o \notin lost /\ \A j \in Key : value[j] # o
    BY <1>3, <2>1
  <2>3. ObjectTypeOK'
    BY <1>1, <2>1 DEF ObjectTypeOK
  <2>4. ASSUME NEW y \in Object
        PROVE  /\ \A j \in Key : value[j] = y => y # o
               /\ y \in lost => y # o
               /\ refcount'[y] =
                    IF (\E j \in Key : value[j] = y) \/ y = o \/ y \in lost THEN 1 ELSE 0
    <3>1. refcount'[y] = IF y = o THEN 1 ELSE refcount[y]
      BY <1>1, <2>1
    <3>2. y # argv
      BY <1>1, <2>1
    <3> QED
      BY <1>3, <2>2, <3>1, <3>2
  <2>5. ObjectsAreCounted'
    BY <1>3, <2>1, <2>4 DEF ObjectsAreCounted, Holds
  <2>6. LiveHaveStrings'
    BY <1>1, <1>4, <2>1 DEF LiveHaveStrings
  <2>7. EntriesPointToValues'
    BY <1>1, <1>2, <1>5, <2>1, <2>2 DEF EntriesPointToValues
  <2> QED
    BY <2>3, <2>5, <2>6, <2>7 DEF ObjectInv
<1>7. CASE free_client_argv
  <2>1. /\ argv \in Object /\ argv' = NULL /\ UNCHANGED <<proc, lost, losses>>
        /\ refcount' = [refcount EXCEPT ![argv] = @ - 1] /\ ptr' = Strings(ptr)
        /\ value' = value
    BY <1>1, <1>2, <1>7 DEF free_client_argv, latte_object_decr_ref_count
  <2>2. refcount[argv] = 1 /\ argv \notin lost /\ \A j \in Key : value[j] # argv
    BY <1>3, <2>1
  <2>3. /\ value' = [j \in Key |-> IF value[j] = argv THEN NULL ELSE value[j]]
        /\ keys' = [j \in Key |-> IF value[j] = argv THEN NULL ELSE keys[j]]
    BY <1>1, <1>2, <2>1, <2>2
  <2>4. argv' = IF argv = argv THEN NULL ELSE argv
    BY <2>1
  <2> QED
    BY <1>2, <2>1, <2>2, <2>3, <2>4, GivenUp, Zenon
<1>8. CASE redis_client_delete
  <2>1. /\ argv \in Object /\ argv' = NULL /\ lost' = lost \cup {argv} /\ losses' = losses + 1
        /\ refcount' = refcount /\ ptr' = ptr /\ value' = value
    BY <1>1, <1>8 DEF redis_client_delete
  <2>2. ObjectTypeOK'
    BY <1>1, <2>1 DEF ObjectTypeOK
  <2>3. ASSUME NEW y \in Object
        PROVE  /\ \A j \in Key : value[j] = y => y # NULL /\ y \notin lost'
               /\ y \in lost' => y # NULL
               /\ refcount[y] =
                    IF (\E j \in Key : value[j] = y) \/ y = NULL \/ y \in lost' THEN 1 ELSE 0
    BY <1>1, <1>3, <2>1
  <2>4. ObjectsAreCounted'
    BY <1>3, <2>1, <2>3 DEF ObjectsAreCounted, Holds
  <2>5. LiveHaveStrings' /\ EntriesPointToValues'
    BY <1>2, <1>4, <1>5, <2>1 DEF LiveHaveStrings, EntriesPointToValues
  <2> QED
    BY <2>2, <2>4, <2>5 DEF ObjectInv
<1> QED
  BY <1>6, <1>7, <1>8

(* The invariant holds in every state of every behaviour. *)
LEMMA ObjectInvariant == ObjectSpec => []ObjectInv
<1>1. ObjectInit => ObjectInv
  <2> SUFFICES ASSUME ObjectInit PROVE ObjectInv
    OBVIOUS
  <2>1. TypeOK
    BY KeyspaceAssumption, ReplyType DEF ObjectInit, Init, TypeOK, NoReply
  <2>2. ObjectTypeOK
    BY DEF ObjectInit, ObjectTypeOK
  <2>3. ObjectsAreCounted
    BY ObjectAssumption DEF ObjectInit, ObjectsAreCounted, Holds
  <2>4. EntriesPointToValues
    BY Zenon DEF ObjectInit, Init, EntriesPointToValues
  <2>5. LiveHaveStrings
    BY DEF ObjectInit, LiveHaveStrings
  <2> QED
    BY <2>1, <2>2, <2>3, <2>4, <2>5 DEF ObjectInv
<1>2. ObjectInv /\ TypeOK' /\ [ObjectNext]_ovars => ObjectInv'
  <2> SUFFICES ASSUME ObjectInv, TypeOK', [ObjectNext]_ovars PROVE ObjectInv'
    OBVIOUS
  <2>1. CASE \E k \in Key, v \in Val, o \in Object : SetObject(k, v, o)
    BY <2>1, SetPreserves
  <2>2. CASE \E k \in Key : GetObject(k)
    BY <2>2, GetPreserves
  <2>3. CASE \/ \E v \in Val, o \in Object : process_multibulk_buffer(v, o)
             \/ free_client_argv \/ redis_client_delete
    BY <2>3, RequestPreserves
  <2>4. CASE UNCHANGED <<heap, keys, proc>>
    BY <2>4 DEF heap, ObjectInv, ObjectTypeOK, ObjectsAreCounted, Holds,
         EntriesPointToValues, LiveHaveStrings
  <2>5. CASE OtherCommand
    BY <2>4, <2>5, Zenon DEF OtherCommand, expire_command, wrong_arity, mstime
  <2>6. CASE UNCHANGED ovars
    BY <2>4, <2>6 DEF ovars, vars
  <2> QED
    BY <2>1, <2>2, <2>3, <2>5, <2>6 DEF ObjectNext
<1> QED
  BY <1>1, <1>2, ObjectsRefineKeyspace, TypeCorrect, PTL DEF ObjectSpec

(* Every value that is referred to is alive and has exactly one reference; *)
(* what nobody refers to is free, but for the arguments of clients that    *)
(* left in the middle of a request.                                        *)
THEOREM CountsAreExact == ObjectSpec => []ObjectsAreCounted
<1>1. ObjectInv => ObjectsAreCounted
  BY DEF ObjectInv
<1> QED
  BY <1>1, ObjectInvariant, PTL

(* The entry of a key points to the string that SET stored under it.       *)
THEOREM ValuesStay == ObjectSpec => []EntriesPointToValues
<1>1. ObjectInv => EntriesPointToValues
  BY DEF ObjectInv
<1> QED
  BY <1>1, ObjectInvariant, PTL
=============================================================================
