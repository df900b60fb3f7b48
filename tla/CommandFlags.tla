---------------------------- MODULE CommandFlags ----------------------------
(***************************************************************************)
(* The two translations of flag words into the 64-bit flags of a command:  *)
(* the one of the command table and the one of the module API.  A mask is  *)
(* the set of its bits.                                                    *)
(***************************************************************************)
EXTENDS Integers, Sequences

CMD_MODULE == 3
CMD_CATEGORY_FAST == 33
CMD_CATEGORY_SLOW == 34

(* The words of the table by the bit they stand for, from bit 0 on; "" is  *)
(* a bit without a word.  Some also stand for categories.                  *)
FlagWords == <<"write", "read-only", "use-memory", "", "admin", "pub-sub", "no-script",
  "random", "to-sort", "ok-loading", "ok-stale", "no-monitor", "no-slowlog",
  "cluster-asking", "fast", "no-auth", "may-replicate", "", "", "@keyspace", "@read",
  "@write", "@set", "@sortedset", "@list", "@hash", "@string", "@bitmap",
  "@hyperloglog", "@geo", "@stream", "@pubsub", "@admin", "@fast", "@slow", "@blocking",
  "@dangerous", "@connection", "@transaction", "@scripting", "@swap_keyspace",
  "@swap_string", "@swap_hash", "@swap_set", "@swap_zset", "@swap_list", "@swap_bitmap">>

AlsoCategory == {<<"write", 21>>, <<"read-only", 20>>, <<"admin", 32>>, <<"admin", 36>>,
  <<"pub-sub", 31>>, <<"fast", CMD_CATEGORY_FAST>>}

(* command_data_type_flag_by_name: the mask of a word, empty if unknown. *)
command_data_type_flag_by_name(w) ==
  {b \in 0 .. 46 : w # "" /\ (FlagWords[b + 1] = w \/ <<w, b>> \in AlsoCategory)}

(* int catflag: the mask of a word loses its upper half, and the sign bit  *)
(* fills that half again when it is widened to the 64 bits of the flags.   *)
AsInt(mask) == {b \in mask : b < 32} \cup IF 31 \in mask THEN 32 .. 63 ELSE {}

(* A word whose mask is zero as an int is not valid. *)
ValidTableWords(words) == \A w \in words : AsInt(command_data_type_flag_by_name(w)) # {}

(* Wrong variant: the flags are those of one word only. *)
populate_command_table_parse_flags_last(words) ==
  LET f == IF words = {} THEN {} ELSE AsInt(command_data_type_flag_by_name(CHOOSE w \in words : TRUE))
  IN IF CMD_CATEGORY_FAST \in f THEN f ELSE f \cup {CMD_CATEGORY_SLOW}

(* The flags of a command of the table whose words are valid. *)
populate_command_table_parse_flags(words) ==
  LET f == UNION {AsInt(command_data_type_flag_by_name(w)) : w \in words}
  IN IF CMD_CATEGORY_FAST \in f THEN f ELSE f \cup {CMD_CATEGORY_SLOW}

(* The words of the module API, from bit 0 on, and those it skips. *)
ModuleWords == <<"write", "readonly", "deny-oom", "", "admin", "pubsub", "deny-script",
  "random", "", "allow-loading", "allow-stale", "no-monitor", "no-slowlog", "", "fast",
  "no-auth", "may-replicate", "getkeys-api", "no-cluster">>
SwapWords == {"swap-nop", "swap-get", "swap-put", "swap-del"}

(* command_flags_from_string: -1 if a word is unknown, else all their bits *)
ValidModuleWords(words) ==
  \A w \in words : w # "" /\ (w \in SwapWords \/ \E b \in 1 .. Len(ModuleWords) : ModuleWords[b] = w)

command_flags_from_string(words) ==
  {b \in 0 .. 18 : ModuleWords[b + 1] # "" /\ ModuleWords[b + 1] \in words}
=============================================================================
