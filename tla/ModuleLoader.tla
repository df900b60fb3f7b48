---------------------------- MODULE ModuleLoader ----------------------------
(***************************************************************************)
(* The command table and the modules that add to it: command_manager_init  *)
(* registers the built-in commands, the configuration collects load-module *)
(* lines, init_redis_modules loads them before the server serves, and      *)
(* MODULE LOAD loads more while it serves.                                 *)
(*                                                                         *)
(* A library is what dlopen finds at a path: whether it can be opened, the *)
(* module name its redis_module_onload gives to redis_module_init, and the *)
(* commands it then creates.  Its onload may also give up by itself.       *)
(* Names are looked up without regard to case: Lower folds them.           *)
(***************************************************************************)
EXTENDS CommandFlags

CONSTANTS
  Name,           \* names of commands and modules, in any case
  Lower,          \* [Name -> Name], sds_to_lower
  Table,          \* redis_command_table: a sequence of declarations
  Libs,           \* paths
  Lib,            \* [Libs -> library]
  NULL,
  BitsCount,      \* USER_COMMAND_BITS_COUNT
  MaxLines,       \* bound on load-module lines
  MaxLoads        \* bound on MODULE LOAD commands

Decl == [name : Name, words : SUBSET STRING]
Kind == {"no permission", "no library", "no onload", "ok"}

ASSUME LoaderAssumption ==
  /\ Lower \in [Name -> Name] /\ \A n \in Name : Lower[Lower[n]] = Lower[n]
  /\ Table \in Seq(Decl) /\ \A i \in 1 .. Len(Table) : ValidTableWords(Table[i].words)
  /\ \A i, j \in 1 .. Len(Table) : Lower[Table[i].name] = Lower[Table[j].name] => i = j
  /\ Lib \in [Libs -> [kind : Kind, module : Name, cmds : Seq(Decl)]]
  /\ NULL \notin Libs /\ NULL \notin Nat
  /\ BitsCount \in Nat /\ BitsCount > 1
  /\ MaxLines \in Nat /\ MaxLoads \in Nat

VARIABLES
  commands,       \* cm->commands: the command of each name, or NoCommand
  commandId,      \* cm->commandId: the id of each name that ever had one
  nextid,         \* cm->nextid
  load_modules,   \* config->load_modules
  modules,        \* server->modules: the library of each module, or NULL
  handles,        \* open dlopen handles of each library
  ctx,            \* the load in progress: who asked, library, next command
  next,           \* next entry of Table, then of load_modules
  loads,          \* MODULE LOAD commands so far
  reply,          \* reply to the last of them
  pc              \* "table", "config", "init", "serve", "onload", "stopped", "aborted"

table == <<commands, commandId, nextid>>
vars == <<table, load_modules, modules, handles, ctx, next, loads, reply, pc>>

NoCommand == [lib |-> NULL, id |-> 0, flags |-> {}, owner |-> "none"]
Command(owner, lib, id, flags) == [owner |-> owner, lib |-> lib, id |-> id, flags |-> flags]
NoLoad == [by |-> "none", lib |-> NULL, i |-> 0]

(* command_manager_new, before command_manager_init. *)
Init ==
  /\ commands = [n \in Name |-> NoCommand]
  /\ commandId = [n \in Name |-> NULL]
  /\ nextid = 0
  /\ load_modules = <<>>
  /\ modules = [n \in Name |-> NULL]
  /\ handles = [l \in Libs |-> 0]
  /\ ctx = NoLoad /\ next = 1 /\ loads = 0 /\ reply = "none"
  /\ pc = "table"
-----------------------------------------------------------------------------
(* command_manager.c *)

command_manager_lookup(n) == commands[Lower[n]]

(* Wrong variant: the last bit is given away and the one after it skipped. *)
IdAfter_late(id) == IF id = BitsCount - 1 THEN id + 2 ELSE id + 1

(* nextid is incremented and then steps over the last bit of the bitmap. *)
IdAfter(id) == IF id + 1 = BitsCount - 1 THEN id + 2 ELSE id + 1

(* An id, once given to a lower-case name, stays with it. *)
acl_get_command_id(n) ==
  IF commandId[Lower[n]] # NULL
  THEN UNCHANGED <<commandId, nextid>>
  ELSE /\ commandId' = [commandId EXCEPT ![Lower[n]] = nextid]
       /\ nextid' = IdAfter(nextid)

(* dict_add keeps the command that is already there. *)
command_manager_register_command(n, owner, lib, flags) ==
  /\ acl_get_command_id(n)
  /\ commands' = IF commands[Lower[n]] # NoCommand THEN commands
       ELSE [commands EXCEPT ![Lower[n]] = Command(owner, lib, commandId'[Lower[n]], flags)]

(* One entry of the table.  A flag word that is not valid is a panic; the  *)
(* table has none, which LoaderAssumption says of it.                      *)
command_manager_init ==
  /\ pc = "table"
  /\ UNCHANGED <<load_modules, modules, handles, ctx, loads, reply>>
  /\ \/ /\ next > Len(Table)
        /\ next' = 1 /\ pc' = "config"
        /\ UNCHANGED table
     \/ /\ next <= Len(Table)
        /\ command_manager_register_command(Table[next].name, "table", NULL,
             populate_command_table_parse_flags(Table[next].words))
        /\ next' = next + 1
        /\ UNCHANGED pc
-----------------------------------------------------------------------------
(* config.c and start_redis_server: the lines of the configuration *)

config_load_modules_add(l) ==
  /\ pc = "config" /\ Len(load_modules) < MaxLines
  /\ load_modules' = Append(load_modules, l)
  /\ UNCHANGED <<table, modules, handles, ctx, next, loads, reply, pc>>

(* The configuration is read, or it has an error and the program ends. *)
start_redis_server ==
  /\ pc = "config"
  /\ pc' \in {"init", "stopped"}
  /\ UNCHANGED <<table, load_modules, modules, handles, ctx, next, loads, reply>>
-----------------------------------------------------------------------------
(* module.c *)

(* Wrong variant: a configured module that does not load is skipped. *)
load_ends_lenient(who, ok) ==
  /\ ctx' = NoLoad
  /\ \/ who = "config" /\ pc' = "init" /\ next' = next + 1 /\ UNCHANGED reply
     \/ who = "client" /\ pc' = "serve" /\ UNCHANGED next
        /\ reply' = IF ok THEN "+OK" ELSE "-ERR"

(* What the caller of module_load does with its result: init_redis_modules *)
(* asserts that it is 0, module_load_command replies.                      *)
load_ends(who, ok) ==
  /\ ctx' = NoLoad
  /\ \/ who = "config" /\ ok /\ pc' = "init" /\ next' = next + 1 /\ UNCHANGED reply
     \/ who = "config" /\ ~ok /\ pc' = "aborted" /\ UNCHANGED <<next, reply>>
     \/ who = "client" /\ pc' = "serve" /\ UNCHANGED next
        /\ reply' = IF ok THEN "+OK" ELSE "-ERR"

(* module_load up to the call of onload.  A library without onload is      *)
(* opened and closed again.                                                *)
module_load(who, l) ==
  /\ UNCHANGED <<table, load_modules, modules>>
  /\ \/ /\ Lib[l].kind # "ok"
        /\ load_ends(who, FALSE)
        /\ UNCHANGED handles
     \/ /\ Lib[l].kind = "ok"
        /\ handles' = [handles EXCEPT ![l] = @ + 1]
        /\ ctx' = [by |-> who, lib |-> l, i |-> 0]
        /\ pc' = "onload"
        /\ UNCHANGED <<next, reply>>

init_redis_modules ==
  /\ pc = "init"
  /\ UNCHANGED loads
  /\ \/ /\ next > Len(load_modules)
        /\ pc' = "serve"
        /\ UNCHANGED <<table, load_modules, modules, handles, ctx, next, reply>>
     \/ /\ next <= Len(load_modules)
        /\ module_load("config", load_modules[next])

module_load_command(l) ==
  /\ pc = "serve" /\ loads < MaxLoads
  /\ loads' = loads + 1
  /\ module_load("client", l)

(* Wrong variant: the handle stays open. *)
onload_fails_leak ==
  /\ UNCHANGED handles
  /\ load_ends(ctx.by, FALSE)
  /\ UNCHANGED <<table, load_modules, modules, loads>>

(* onload returned -1: the library is closed.  The commands it created are *)
(* not unregistered.                                                       *)
onload_fails ==
  /\ handles' = [handles EXCEPT ![ctx.lib] = @ - 1]
  /\ load_ends(ctx.by, FALSE)
  /\ UNCHANGED <<table, load_modules, modules, loads>>

is_module_name_busy(n) == modules[Lower[n]] # NULL

(* redis_module_init, the first call of an onload. *)
redis_module_init ==
  /\ pc = "onload" /\ ctx.i = 0
  /\ \/ /\ is_module_name_busy(Lib[ctx.lib].module)
        /\ onload_fails
     \/ /\ ~is_module_name_busy(Lib[ctx.lib].module)
        /\ ctx' = [ctx EXCEPT !.i = 1]
        /\ UNCHANGED <<table, load_modules, modules, handles, next, loads, reply, pc>>

(* Wrong variant: the command is not looked up first. *)
create_command_unchecked ==
  /\ pc = "onload" /\ ctx.i \in 1 .. Len(Lib[ctx.lib].cmds)
  /\ LET d == Lib[ctx.lib].cmds[ctx.i]
     IN \/ ~ValidModuleWords(d.words) /\ onload_fails
        \/ /\ ValidModuleWords(d.words)
           /\ command_manager_register_command(d.name, "module", ctx.lib,
                command_flags_from_string(d.words) \cup {CMD_MODULE})
           /\ ctx' = [ctx EXCEPT !.i = @ + 1]
           /\ UNCHANGED <<load_modules, modules, handles, next, loads, reply, pc>>

(* One call of redis_module_create_command; onload gives up when it fails. *)
create_command ==
  /\ pc = "onload" /\ ctx.i \in 1 .. Len(Lib[ctx.lib].cmds)
  /\ LET d == Lib[ctx.lib].cmds[ctx.i]
     IN \/ /\ ~ValidModuleWords(d.words) \/ command_manager_lookup(d.name) # NoCommand
           /\ onload_fails
        \/ /\ ValidModuleWords(d.words) /\ command_manager_lookup(d.name) = NoCommand
           /\ command_manager_register_command(d.name, "module", ctx.lib,
                command_flags_from_string(d.words) \cup {CMD_MODULE})
           /\ ctx' = [ctx EXCEPT !.i = @ + 1]
           /\ UNCHANGED <<load_modules, modules, handles, next, loads, reply, pc>>

(* A module's onload may give up for a reason of its own. *)
onload_gives_up ==
  /\ pc = "onload" /\ ctx.i > 0
  /\ onload_fails

(* onload returned 0: dict_add enters the module into server->modules. *)
module_loaded ==
  /\ pc = "onload" /\ ctx.i = Len(Lib[ctx.lib].cmds) + 1
  /\ modules' = IF is_module_name_busy(Lib[ctx.lib].module) THEN modules
       ELSE [modules EXCEPT ![Lower[Lib[ctx.lib].module]] = ctx.lib]
  /\ load_ends(ctx.by, TRUE)
  /\ UNCHANGED <<table, load_modules, handles, loads>>

Next ==
  \/ command_manager_init
  \/ \E l \in Libs : config_load_modules_add(l) \/ module_load_command(l)
  \/ start_redis_server \/ init_redis_modules
  \/ redis_module_init \/ create_command \/ onload_gives_up \/ module_loaded

Spec == Init /\ [][Next]_vars
-----------------------------------------------------------------------------
(* Properties *)

Commands == [owner : {"none", "table", "module"}, lib : Libs \cup {NULL}, id : Nat, flags : SUBSET (0 .. 63)]

TypeOK ==
  /\ commands \in [Name -> Commands]
  /\ commandId \in [Name -> Nat \cup {NULL}]
  /\ nextid \in Nat
  /\ load_modules \in Seq(Libs)
  /\ modules \in [Name -> Libs \cup {NULL}]
  /\ handles \in [Libs -> Nat]
  /\ ctx \in [by : {"none", "config", "client"}, lib : Libs \cup {NULL}, i : Nat]
  /\ next \in Nat \ {0} /\ loads \in Nat
  /\ reply \in {"none", "+OK", "-ERR"}
  /\ pc \in {"table", "config", "init", "serve", "onload", "stopped", "aborted"}

Loaded(l) == \E n \in Name : modules[n] = l

(* "every command should have an assigned ID": the ids of two names        *)
(* differ, none is the last bit of the bitmap, and a registered command    *)
(* carries the id of its name, whatever failed in between                  *)
(* (acl_get_command_id).                                                   *)
IdsIndexTheBitmap ==
  /\ \A m, n \in Name : commandId[m] # NULL /\ commandId[m] = commandId[n] => m = n
  /\ \A n \in Name : commandId[n] # BitsCount - 1
  /\ \A n \in Name : commands[n] # NoCommand => commands[n].id = commandId[n]

(* A module that is listed as loaded serves all the commands it declares:  *)
(* none of them was taken by the table, by another module or by a failed   *)
(* load, in whatever case the names are written (create_command).          *)
LoadedModuleOwnsItsCommands ==
  \A l \in Libs : Loaded(l) =>
    \A i \in 1 .. Len(Lib[l].cmds) :
      LET c == command_manager_lookup(Lib[l].cmds[i].name) IN c.owner = "module" /\ c.lib = l

(* The server only serves once every configured module is loaded           *)
(* (init_redis_modules asserts it).                                        *)
ServesWithAllModules ==
  pc = "serve" => \A i \in 1 .. Len(load_modules) : Loaded(load_modules[i])

(* A library stays open exactly while its module is listed: neither a      *)
(* second load under the same name nor a failed one leaks or closes it     *)
(* (module_load).                                                          *)
OpenIffLoaded ==
  \A l \in Libs : handles[l] = (IF Loaded(l) THEN 1 ELSE 0) + (IF ctx.lib = l THEN 1 ELSE 0)

(* The flags of a command of the table that are not categories are those   *)
(* of its declared words, and CMD_MODULE tells the commands of modules.    *)
FlagsAreDeclared ==
  /\ \A i \in 1 .. Len(Table) : LET c == command_manager_lookup(Table[i].name)
       IN c.owner = "table" => c.flags \cap (0 .. 18) =
            (UNION {command_data_type_flag_by_name(w) : w \in Table[i].words}) \cap (0 .. 18)
  /\ \A n \in Name : commands[n] # NoCommand =>
       (CMD_MODULE \in commands[n].flags <=> commands[n].owner = "module")
-----------------------------------------------------------------------------
(* "Module %s initialization failed. Module not loaded": between two       *)
(* requests every command of a module belongs to a module that is loaded.  *)
NotLoadedServesNothing ==
  pc = "serve" => \A n \in Name : commands[n].owner = "module" => Loaded(commands[n].lib)
=============================================================================
