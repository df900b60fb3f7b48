------------------------- MODULE ModuleLoaderProofs -------------------------
(***************************************************************************)
(* Proofs about the command table and the loading of modules, for any      *)
(* table, any libraries and any number of loads.                           *)
(***************************************************************************)
EXTENDS StartUp, Induction, TLAPS

(* The load in progress, if there is one, is described by ctx, and at the  *)
(* start of the server it is that of the next configured module.           *)
LoadInProgress ==
  /\ pc = "onload" => ctx.lib \in Libs /\ ctx.by \in {"config", "client"}
  /\ pc = "onload" /\ ctx.by = "config" =>
       next \in 1 .. Len(load_modules) /\ ctx.lib = load_modules[next]
  /\ pc # "onload" => ctx = NoLoad

(* Every id that was given is below nextid, so that the next one is new. *)
IdsBelowNext ==
  /\ nextid # BitsCount - 1
  /\ \A n \in Name : commandId[n] # NULL => commandId[n] < nextid
  /\ \A n \in Name : commands[n] # NoCommand => commandId[n] # NULL

(* A library is listed under its own name only, and one that is past       *)
(* redis_module_init is not listed yet.                                    *)
ListedUnderOwnName ==
  /\ \A n \in Name : modules[n] # NULL => n = Lower[Lib[modules[n]].module]
  /\ pc = "onload" /\ ctx.i > 0 => modules[Lower[Lib[ctx.lib].module]] = NULL

(* The command a library declares at place i is registered as its own. *)
Owns(l, i) ==
  LET c == command_manager_lookup(Lib[l].cmds[i].name) IN c.owner = "module" /\ c.lib = l

(* The library being loaded owns the commands it has created so far. *)
OwnsSoFar ==
  pc = "onload" => \A i \in 1 .. Len(Lib[ctx.lib].cmds) : i < ctx.i => Owns(ctx.lib, i)

(* The configured modules before next are loaded; all of them, once the    *)
(* server serves.                                                          *)
Due(i) ==
  \/ pc = "init" /\ i < next
  \/ pc = "onload" /\ (ctx.by = "client" \/ i < next)
  \/ pc = "serve"

ConfiguredSoFar ==
  /\ pc = "config" => next = 1
  /\ \A i \in 1 .. Len(load_modules) : Due(i) => Loaded(load_modules[i])

IInv ==
  /\ TypeOK
  /\ IdsIndexTheBitmap /\ IdsBelowNext
  /\ LoadInProgress /\ OpenIffLoaded /\ ListedUnderOwnName
  /\ LoadedModuleOwnsItsCommands /\ OwnsSoFar
  /\ ConfiguredSoFar

-----------------------------------------------------------------------------
(* The masks of both translations stay within the 64 bits of the flags. *)

(* Truncating and widening a mask of the table gives a mask of 64 bits. *)
LEMMA MaskFits ==
  ASSUME NEW w
  PROVE  AsInt(command_data_type_flag_by_name(w)) \subseteq 0 .. 63
<1> DEFINE m == command_data_type_flag_by_name(w)
<1>1. m \subseteq 0 .. 46
  BY Zenon DEF command_data_type_flag_by_name
<1> HIDE DEF m
<1>2. 0 .. 46 \subseteq 0 .. 63 /\ 32 .. 63 \subseteq 0 .. 63
  OBVIOUS
<1>3. {b \in m : b < 32} \subseteq m
  BY Zenon
<1>4. AsInt(m) \subseteq 0 .. 63
  BY <1>1, <1>2, <1>3, Zenon DEF AsInt
<1> QED BY <1>4 DEF m

(* The flags of a command of the table. *)
LEMMA TableFlagsFit ==
  ASSUME NEW words
  PROVE  populate_command_table_parse_flags(words) \in SUBSET (0 .. 63)
<1>1. UNION {AsInt(command_data_type_flag_by_name(w)) : w \in words} \subseteq 0 .. 63
  BY MaskFits, Zenon
<1>2. CMD_CATEGORY_SLOW \in 0 .. 63
  BY DEF CMD_CATEGORY_SLOW
<1> QED BY <1>1, <1>2, Zenon DEF populate_command_table_parse_flags

(* The flags of a command of a module. *)
LEMMA ModuleFlagsFit ==
  ASSUME NEW words
  PROVE  command_flags_from_string(words) \cup {CMD_MODULE} \in SUBSET (0 .. 63)
<1>1. command_flags_from_string(words) \subseteq 0 .. 18
  BY Zenon DEF command_flags_from_string
<1>2. 0 .. 18 \subseteq 0 .. 63 /\ CMD_MODULE \in 0 .. 63
  BY DEF CMD_MODULE
<1> QED BY <1>1, <1>2, Zenon

-----------------------------------------------------------------------------
(* Registering a command keeps every other one, and the ids stay a         *)
(* numbering of names that leaves out the last bit.                        *)
LEMMA RegisterIsSafe ==
  ASSUME TypeOK, IdsIndexTheBitmap, IdsBelowNext,
         NEW n \in Name, NEW owner \in {"table", "module"}, NEW lib \in Libs \cup {NULL},
         NEW flags \in SUBSET (0 .. 63),
         command_manager_register_command(n, owner, lib, flags)
  PROVE  /\ commands' \in [Name -> Commands]
         /\ commandId' \in [Name -> Nat \cup {NULL}]
         /\ nextid' \in Nat
         /\ IdsIndexTheBitmap' /\ IdsBelowNext'
         /\ \A m \in Name : commands[m] # NoCommand => commands'[m] = commands[m]
         /\ commands[Lower[n]] = NoCommand =>
              commands'[Lower[n]].owner = owner /\ commands'[Lower[n]].lib = lib
<1> USE LoaderAssumption
<1> DEFINE k == Lower[n]
<1>0. k \in Name
  OBVIOUS
<1>1. /\ commandId' \in [Name -> Nat \cup {NULL}]
      /\ nextid' \in Nat /\ nextid <= nextid' /\ nextid' # BitsCount - 1
      /\ commandId'[k] \in Nat /\ commandId'[k] < nextid' /\ commandId'[k] # BitsCount - 1
      /\ \A m \in Name : m # k => commandId'[m] = commandId[m]
      /\ commandId[k] # NULL => commandId'[k] = commandId[k]
      /\ commandId[k] = NULL => commandId'[k] = nextid
  <2>1. IdAfter(nextid) \in Nat /\ nextid < IdAfter(nextid) /\ IdAfter(nextid) # BitsCount - 1
    BY DEF IdAfter, TypeOK, IdsBelowNext
  <2>2. CASE commandId[k] # NULL
    BY <2>2 DEF command_manager_register_command, acl_get_command_id, TypeOK, IdsBelowNext,
      IdsIndexTheBitmap
  <2>3. CASE commandId[k] = NULL
    <3>1. commandId' = [commandId EXCEPT ![k] = nextid] /\ nextid' = IdAfter(nextid)
      BY <2>3 DEF command_manager_register_command, acl_get_command_id
    <3>2. commandId \in [Name -> Nat \cup {NULL}] /\ nextid \in Nat /\ nextid # BitsCount - 1
      BY DEF TypeOK, IdsBelowNext
    <3> QED BY <1>0, <2>1, <2>3, <3>1, <3>2
  <2> QED BY <2>2, <2>3
<1>2. \A m \in Name : commandId'[m] # NULL => commandId'[m] < nextid'
  <2> SUFFICES ASSUME NEW m \in Name, commandId'[m] # NULL, m # k PROVE commandId'[m] < nextid'
    BY <1>1
  <2>1. commandId[m] \in Nat /\ commandId[m] < nextid /\ commandId'[m] = commandId[m]
    BY <1>1 DEF TypeOK, IdsBelowNext
  <2> QED BY <2>1, <1>1 DEF TypeOK
<1>3. \A m, o \in Name : commandId'[m] # NULL /\ commandId'[m] = commandId'[o] => m = o
  <2> SUFFICES ASSUME NEW m \in Name, m # k, commandId'[m] = commandId'[k] PROVE FALSE
    BY <1>0, <1>1 DEF IdsIndexTheBitmap
  <2>1. commandId[m] = commandId'[k] /\ commandId[m] # NULL
    BY <1>1
  <2>2. commandId[m] < nextid
    BY <2>1 DEF IdsBelowNext
  <2> QED BY <1>0, <1>1, <2>1, <2>2 DEF IdsIndexTheBitmap, TypeOK
<1>4. \A m \in Name : commandId'[m] # BitsCount - 1
  BY <1>1 DEF IdsIndexTheBitmap
<1> DEFINE c == Command(owner, lib, commandId'[k], flags)
<1>5. c \in Commands /\ c # NoCommand /\ c.owner = owner /\ c.lib = lib /\ c.id = commandId'[k]
  BY <1>1 DEF Command, Commands, NoCommand
<1>6. \/ commands[k] # NoCommand /\ commands' = commands
      \/ commands[k] = NoCommand /\ commands' = [commands EXCEPT ![k] = c]
  BY DEF command_manager_register_command
<1> HIDE DEF c
<1>7. commands' \in [Name -> Commands]
  BY <1>5, <1>6, Zenon DEF TypeOK
<1>8. \A m \in Name : commands[m] # NoCommand => commands'[m] = commands[m]
  BY <1>6 DEF TypeOK
<1>9. \A m \in Name : commands'[m] # NoCommand =>
        commandId'[m] # NULL /\ commands'[m].id = commandId'[m]
  <2> SUFFICES ASSUME NEW m \in Name, commands'[m] # NoCommand
      PROVE commandId'[m] # NULL /\ commands'[m].id = commandId'[m]
    OBVIOUS
  <2>1. CASE commands[m] # NoCommand
    BY <1>1, <1>8, <2>1 DEF IdsIndexTheBitmap, IdsBelowNext
  <2>2. CASE commands[m] = NoCommand
    <3>1. m = k /\ commands'[m] = c
      BY <1>6, <2>2 DEF TypeOK
    <3> QED BY <1>1, <1>5, <3>1
  <2> QED BY <2>1, <2>2
<1>10. commands[k] = NoCommand => commands'[k].owner = owner /\ commands'[k].lib = lib
  BY <1>0, <1>5, <1>6 DEF TypeOK
<1>11. IdsIndexTheBitmap' /\ IdsBelowNext'
  BY <1>1, <1>2, <1>3, <1>4, <1>9 DEF IdsIndexTheBitmap, IdsBelowNext
<1> QED BY <1>1, <1>7, <1>8, <1>10, <1>11
-----------------------------------------------------------------------------
(* The initial state satisfies the invariant. *)
LEMMA InitEstablishes == Init => IInv
<1> SUFFICES ASSUME Init PROVE IInv
  OBVIOUS
<1> USE LoaderAssumption DEF Init
<1>1. TypeOK
  <2>1. NoCommand \in Commands
    BY DEF NoCommand, Commands
  <2> QED BY <2>1 DEF TypeOK, NoLoad
<1>2. \A l \in Libs : ~Loaded(l)
  BY DEF Loaded
<1>3. IdsIndexTheBitmap /\ IdsBelowNext
  BY DEF IdsIndexTheBitmap, IdsBelowNext
<1>4. LoadInProgress /\ OpenIffLoaded /\ ListedUnderOwnName
  BY <1>2 DEF LoadInProgress, OpenIffLoaded, ListedUnderOwnName, NoLoad
<1>5. LoadedModuleOwnsItsCommands /\ OwnsSoFar /\ ConfiguredSoFar
  BY <1>2 DEF LoadedModuleOwnsItsCommands, OwnsSoFar, ConfiguredSoFar, Due
<1> QED BY <1>1, <1>3, <1>4, <1>5 DEF IInv

(* The names that declarations carry are names. *)
LEMMA DeclaredNames ==
  /\ \A i \in 1 .. Len(Table) : Table[i].name \in Name
  /\ \A l \in Libs : Lib[l].module \in Name /\ Lower[Lib[l].module] \in Name
  /\ \A l \in Libs : Len(Lib[l].cmds) \in Nat
  /\ \A l \in Libs : \A i \in 1 .. Len(Lib[l].cmds) :
       Lib[l].cmds[i].name \in Name /\ Lower[Lib[l].cmds[i].name] \in Name
<1>1. \A d \in Decl : d.name \in Name /\ Lower[d.name] \in Name
  BY LoaderAssumption DEF Decl
<1>2. \A i \in 1 .. Len(Table) : Table[i] \in Decl
  BY LoaderAssumption
<1>3. \A l \in Libs : Lib[l].module \in Name /\ Lib[l].cmds \in Seq(Decl)
  BY LoaderAssumption
<1>4. \A l \in Libs : \A i \in 1 .. Len(Lib[l].cmds) : Lib[l].cmds[i] \in Decl
  BY <1>3
<1> QED BY <1>1, <1>2, <1>3, <1>4, LoaderAssumption

(* A step that registers at most one command and loads no module keeps     *)
(* what is known of the commands of libraries.                             *)
LEMMA OwnersStay ==
  ASSUME TypeOK, TypeOK',
         \A m \in Name : commands[m] # NoCommand => commands'[m] = commands[m],
         NEW l \in Libs, NEW i \in 1 .. Len(Lib[l].cmds), Owns(l, i)
  PROVE  Owns(l, i)'
<1>1. Lower[Lib[l].cmds[i].name] \in Name
  BY DeclaredNames
<1>2. commands[Lower[Lib[l].cmds[i].name]] # NoCommand
  <2> DEFINE c == commands[Lower[Lib[l].cmds[i].name]]
  <2>1. c.owner = "module"
    BY DEF Owns, command_manager_lookup
  <2> HIDE DEF c
  <2>2. NoCommand.owner = "none"
    BY DEF NoCommand
  <2>3. c # NoCommand
    BY <2>1, <2>2
  <2> QED BY <2>3 DEF c
<1> QED BY <1>1, <1>2, Zenon DEF Owns, command_manager_lookup

(* A step that leaves the commands and the modules alone. *)
LEMMA OwnersUnchanged ==
  ASSUME LoadedModuleOwnsItsCommands, commands' = commands, modules' = modules
  PROVE  LoadedModuleOwnsItsCommands'
BY Zenon DEF LoadedModuleOwnsItsCommands, Loaded, command_manager_lookup

(* The table is registered entry by entry. *)
LEMMA TablePreserves ==
  ASSUME IInv, command_manager_init
  PROVE  IInv'
<1> USE LoaderAssumption
<1>1. /\ commands' \in [Name -> Commands]
      /\ commandId' \in [Name -> Nat \cup {NULL}]
      /\ nextid' \in Nat
      /\ IdsIndexTheBitmap' /\ IdsBelowNext'
      /\ \A m \in Name : commands[m] # NoCommand => commands'[m] = commands[m]
      /\ pc' \in {"table", "config"} /\ next' \in Nat \ {0}
      /\ pc' = "config" => next' = 1
  <2>1. CASE next > Len(Table)
    BY <2>1 DEF command_manager_init, IInv, TypeOK, table, IdsIndexTheBitmap, IdsBelowNext
  <2>2. CASE next <= Len(Table)
    <3> DEFINE fl == populate_command_table_parse_flags(Table[next].words)
    <3>1. next \in 1 .. Len(Table) /\ Table[next].name \in Name
      BY <2>2, DeclaredNames, SMTT(30) DEF IInv, TypeOK
    <3>2. fl \in SUBSET (0 .. 63)
      BY TableFlagsFit
    <3>3. command_manager_register_command(Table[next].name, "table", NULL, fl)
      BY <2>2 DEF command_manager_init, IInv, TypeOK
    <3> HIDE DEF fl
    <3>4. next' \in Nat \ {0} /\ pc' = "table"
      BY <2>2 DEF command_manager_init, IInv, TypeOK
    <3>5. TypeOK /\ IdsIndexTheBitmap /\ IdsBelowNext
      BY DEF IInv
    <3> QED BY <3>1, <3>2, <3>3, <3>4, <3>5, RegisterIsSafe, Zenon
  <2> QED BY <2>1, <2>2 DEF IInv, TypeOK
<1>2. pc = "table" /\ UNCHANGED <<load_modules, modules, handles, ctx, loads, reply>>
  BY DEF command_manager_init
<1>3. TypeOK'
  BY <1>1, <1>2 DEF IInv, TypeOK
<1>4. LoadInProgress' /\ OpenIffLoaded' /\ ListedUnderOwnName' /\ OwnsSoFar' /\ ConfiguredSoFar'
  <2>1. LoadInProgress /\ OpenIffLoaded /\ ListedUnderOwnName
    BY DEF IInv
  <2>2. LoadInProgress'
    BY <1>1, <1>2, <2>1 DEF LoadInProgress
  <2>3. OpenIffLoaded'
    BY <1>2, <2>1 DEF OpenIffLoaded, Loaded
  <2>4. ListedUnderOwnName'
    BY <1>1, <1>2, <2>1 DEF ListedUnderOwnName
  <2>5. OwnsSoFar'
    BY <1>1 DEF OwnsSoFar
  <2>6. ConfiguredSoFar'
    BY <1>1, <1>2 DEF ConfiguredSoFar, Due
  <2> QED BY <2>2, <2>3, <2>4, <2>5, <2>6
<1>5. LoadedModuleOwnsItsCommands'
  <2> SUFFICES ASSUME NEW l \in Libs, Loaded(l)', NEW i \in 1 .. Len(Lib[l].cmds)
      PROVE Owns(l, i)'
    BY DEF LoadedModuleOwnsItsCommands, Owns
  <2>1. Owns(l, i)
    BY <1>2 DEF IInv, LoadedModuleOwnsItsCommands, Owns, Loaded
  <2> QED BY <1>1, <1>3, <2>1, OwnersStay DEF IInv
<1> QED BY <1>1, <1>3, <1>4, <1>5 DEF IInv

(* The ids stay what they are while the table does. *)
LEMMA IdsUnchanged ==
  ASSUME IdsIndexTheBitmap, IdsBelowNext,
         commands' = commands, commandId' = commandId, nextid' = nextid
  PROVE  IdsIndexTheBitmap' /\ IdsBelowNext'
<1>1. IdsIndexTheBitmap'
  BY DEF IdsIndexTheBitmap
<1>2. IdsBelowNext'
  BY DEF IdsBelowNext
<1> QED BY <1>1, <1>2

(* Reading the configuration adds to load_modules only. *)
LEMMA ConfigPreserves ==
  ASSUME IInv, (\E l \in Libs : config_load_modules_add(l)) \/ start_redis_server
  PROVE  IInv'
<1> USE LoaderAssumption
<1>1. /\ pc = "config" /\ UNCHANGED <<table, modules, handles, ctx, next, loads, reply>>
      /\ load_modules' \in Seq(Libs)
      /\ pc' \in {"config", "init", "stopped"}
  <2>1. ASSUME NEW l \in Libs, config_load_modules_add(l) PROVE <1>1!:
    BY <2>1 DEF config_load_modules_add, IInv, TypeOK
  <2>2. CASE start_redis_server
    BY <2>2 DEF start_redis_server, IInv, TypeOK
  <2> QED BY <2>1, <2>2
<1>2. TypeOK'
  BY <1>1 DEF IInv, TypeOK, table
<1>3. IdsIndexTheBitmap' /\ IdsBelowNext' /\ LoadInProgress' /\ OpenIffLoaded'
  <2>1. /\ IdsIndexTheBitmap /\ IdsBelowNext /\ LoadInProgress /\ OpenIffLoaded
        /\ commands' = commands /\ commandId' = commandId /\ nextid' = nextid
    BY <1>1 DEF IInv, table
  <2>2. IdsIndexTheBitmap' /\ IdsBelowNext'
    BY <2>1, IdsUnchanged
  <2>3. LoadInProgress'
    BY <1>1, <2>1 DEF LoadInProgress
  <2>4. OpenIffLoaded'
    BY <1>1, <2>1 DEF OpenIffLoaded, Loaded
  <2> QED BY <2>2, <2>3, <2>4
<1>4. ListedUnderOwnName' /\ LoadedModuleOwnsItsCommands' /\ OwnsSoFar'
  <2>1. ListedUnderOwnName' /\ OwnsSoFar'
    BY <1>1 DEF IInv, ListedUnderOwnName, OwnsSoFar
  <2>2. LoadedModuleOwnsItsCommands'
    <3>1. commands' = commands /\ modules' = modules
      BY <1>1 DEF table
    <3> QED BY <3>1, OwnersUnchanged DEF IInv
  <2> QED BY <2>1, <2>2
<1>5. ConfiguredSoFar'
  BY <1>1, <1>2 DEF IInv, ConfiguredSoFar, Due, TypeOK
<1> QED BY <1>2, <1>3, <1>4, <1>5 DEF IInv

-----------------------------------------------------------------------------
(* Steps of a load *)

(* module_load opens a library, or its caller learns that it failed. *)
LEMMA ModuleLoadPreserves ==
  ASSUME IInv, init_redis_modules \/ \E l \in Libs : module_load_command(l)
  PROVE  IInv'
<1> USE LoaderAssumption
<1>1. CASE pc = "init" /\ next > Len(load_modules) /\ pc' = "serve"
           /\ UNCHANGED <<table, load_modules, modules, handles, ctx, next, loads, reply>>
  <2>0. /\ commands' = commands /\ commandId' = commandId /\ nextid' = nextid
        /\ UNCHANGED <<load_modules, modules, handles, ctx, next, loads, reply>>
    BY <1>1 DEF table
  <2>1. TypeOK'
    BY <1>1, <2>0 DEF IInv, TypeOK
  <2>2. IdsIndexTheBitmap' /\ IdsBelowNext' /\ LoadInProgress' /\ OpenIffLoaded'
    <3>1. IdsIndexTheBitmap /\ IdsBelowNext /\ LoadInProgress /\ OpenIffLoaded
      BY DEF IInv
    <3>2. IdsIndexTheBitmap' /\ IdsBelowNext'
      BY <2>0, <3>1, IdsUnchanged
    <3>3. LoadInProgress'
      BY <1>1, <2>0, <3>1 DEF LoadInProgress
    <3>4. OpenIffLoaded'
      BY <2>0, <3>1 DEF OpenIffLoaded, Loaded
    <3> QED BY <3>2, <3>3, <3>4
  <2>3. ListedUnderOwnName' /\ OwnsSoFar'
    BY <1>1, <2>0 DEF IInv, ListedUnderOwnName, OwnsSoFar
  <2>4. LoadedModuleOwnsItsCommands'
    BY <2>0, OwnersUnchanged DEF IInv
  <2>5. ConfiguredSoFar'
    BY <1>1, <2>0 DEF IInv, ConfiguredSoFar, Due, TypeOK, Loaded
  <2> QED BY <2>1, <2>2, <2>3, <2>4, <2>5 DEF IInv
<1>2. ASSUME NEW who \in {"config", "client"}, NEW l \in Libs, module_load(who, l),
             loads' \in Nat,
             \/ who = "config" /\ pc = "init" /\ next \in 1 .. Len(load_modules)
                /\ l = load_modules[next]
             \/ who = "client" /\ pc = "serve"
      PROVE  IInv'
  <2>0. /\ commands' = commands /\ commandId' = commandId /\ nextid' = nextid
        /\ load_modules' = load_modules /\ modules' = modules /\ ctx = NoLoad
    BY <1>2 DEF module_load, table, IInv, LoadInProgress
  <2>1. IdsIndexTheBitmap' /\ IdsBelowNext'
    BY <2>0, IdsUnchanged DEF IInv
  <2>2. LoadedModuleOwnsItsCommands'
    BY <2>0, OwnersUnchanged DEF IInv
  <2>3. CASE Lib[l].kind # "ok"
    <3>1. /\ ctx' = NoLoad /\ handles' = handles
          /\ \/ pc' = "aborted" /\ next' = next /\ reply' = reply
             \/ pc = "serve" /\ pc' = "serve" /\ next' = next /\ reply' = "-ERR"
      BY <1>2, <2>3 DEF module_load, load_ends
    <3>2. TypeOK'
      BY <1>2, <2>0, <3>1 DEF IInv, TypeOK
    <3>3. LoadInProgress' /\ OpenIffLoaded' /\ ListedUnderOwnName' /\ OwnsSoFar'
      <4>1. OpenIffLoaded /\ ListedUnderOwnName /\ pc' # "onload"
        BY <3>1 DEF IInv
      <4>2. LoadInProgress' /\ OwnsSoFar'
        BY <3>1, <4>1 DEF LoadInProgress, OwnsSoFar
      <4>3. ListedUnderOwnName'
        BY <2>0, <4>1 DEF ListedUnderOwnName
      <4>4. OpenIffLoaded'
        BY <2>0, <3>1, <4>1 DEF OpenIffLoaded, Loaded
      <4> QED BY <4>2, <4>3, <4>4
    <3>4. ConfiguredSoFar'
      BY <2>0, <3>1 DEF IInv, ConfiguredSoFar, Due, Loaded
    <3> QED BY <2>1, <2>2, <3>2, <3>3, <3>4 DEF IInv
  <2>4. CASE Lib[l].kind = "ok"
    <3>1. /\ handles' = [handles EXCEPT ![l] = @ + 1]
          /\ ctx' = [by |-> who, lib |-> l, i |-> 0]
          /\ pc' = "onload" /\ next' = next /\ reply' = reply
      BY <1>2, <2>4 DEF module_load, load_ends
    <3>2. TypeOK'
      <4>1. TypeOK
        BY DEF IInv
      <4>2. handles' \in [Libs -> Nat]
        BY <3>1, <4>1 DEF TypeOK
      <4>3. ctx' \in [by : {"none", "config", "client"}, lib : Libs \cup {NULL}, i : Nat]
        BY <1>2, <3>1
      <4> QED BY <1>2, <2>0, <3>1, <4>1, <4>2, <4>3 DEF TypeOK
    <3>3. LoadInProgress' /\ ListedUnderOwnName' /\ OwnsSoFar'
      <4>1. ListedUnderOwnName /\ Len(Lib[l].cmds) \in Nat
        BY DeclaredNames DEF IInv
      <4>2. ctx'.by = who /\ ctx'.lib = l /\ ctx'.i = 0
        BY <3>1
      <4>3. LoadInProgress'
        BY <1>2, <2>0, <3>1, <4>1, <4>2 DEF LoadInProgress
      <4>4. ListedUnderOwnName'
        <5>1. ~(ctx'.i > 0)
          BY <4>2
        <5> QED BY <2>0, <4>1, <5>1, Zenon DEF ListedUnderOwnName
      <4>5. OwnsSoFar'
        BY <4>2 DEF OwnsSoFar
      <4> QED BY <4>3, <4>4, <4>5
    <3>4. OpenIffLoaded'
      <4> SUFFICES ASSUME NEW k \in Libs
          PROVE handles'[k] = (IF Loaded(k) THEN 1 ELSE 0) + (IF ctx'.lib = k THEN 1 ELSE 0)
        BY <2>0 DEF OpenIffLoaded, Loaded
      <4>1. handles[k] = (IF Loaded(k) THEN 1 ELSE 0)
        <5>1. ctx.lib # k
          BY <2>0 DEF NoLoad
        <5>2. handles[k] = (IF Loaded(k) THEN 1 ELSE 0) + (IF ctx.lib = k THEN 1 ELSE 0)
          BY DEF IInv, OpenIffLoaded
        <5> QED BY <5>1, <5>2
      <4> QED BY <3>1, <4>1 DEF IInv, TypeOK
    <3>5. ConfiguredSoFar'
      BY <1>2, <2>0, <3>1, Zenon DEF IInv, ConfiguredSoFar, Due, Loaded
    <3> QED BY <2>1, <2>2, <3>2, <3>3, <3>4, <3>5 DEF IInv
  <2> QED BY <2>3, <2>4
<1>3. CASE init_redis_modules
  <2>1. CASE next > Len(load_modules)
    <3>1. ~(next <= Len(load_modules))
      BY <2>1 DEF IInv, TypeOK
    <3>2. /\ pc = "init" /\ pc' = "serve"
          /\ UNCHANGED <<table, load_modules, modules, handles, ctx, next, loads, reply>>
      BY <1>3, <3>1 DEF init_redis_modules
    <3> QED BY <1>1, <2>1, <3>2
  <2>2. CASE next <= Len(load_modules)
    <3>1. load_modules[next] \in Libs /\ next \in 1 .. Len(load_modules)
      BY <2>2 DEF IInv, TypeOK
    <3>2. module_load("config", load_modules[next]) /\ loads' = loads /\ pc = "init"
      BY <1>3, <2>2 DEF init_redis_modules, IInv, TypeOK
    <3>3. loads' \in Nat
      BY <3>2 DEF IInv, TypeOK
    <3> QED BY <1>2, <3>1, <3>2, <3>3
  <2>3. next > Len(load_modules) \/ next <= Len(load_modules)
    BY DEF IInv, TypeOK
  <2> QED BY <2>1, <2>2, <2>3
<1>4. ASSUME NEW l \in Libs, module_load_command(l) PROVE IInv'
  <2>1. module_load("client", l) /\ pc = "serve" /\ loads' = loads + 1
    BY <1>4 DEF module_load_command
  <2>2. loads' \in Nat
    BY <2>1 DEF IInv, TypeOK
  <2> QED BY <1>2, <2>1, <2>2
<1> QED BY <1>3, <1>4

(* A load that fails closes the library and keeps the commands. *)
LEMMA FailedLoadPreserves ==
  ASSUME IInv, pc = "onload", onload_fails
  PROVE  IInv'
<1> USE LoaderAssumption
<1>1. /\ commands' = commands /\ commandId' = commandId /\ nextid' = nextid
      /\ load_modules' = load_modules /\ modules' = modules /\ loads' = loads
      /\ handles' = [handles EXCEPT ![ctx.lib] = @ - 1]
      /\ ctx' = NoLoad /\ ctx.lib \in Libs
      /\ \/ pc' = "aborted" /\ next' = next /\ reply' = reply
         \/ ctx.by = "client" /\ pc' = "serve" /\ next' = next /\ reply' = "-ERR"
  BY DEF onload_fails, load_ends, table, IInv, LoadInProgress
<1>2. \A k \in Libs : handles'[k] \in Nat /\ handles'[k] = IF Loaded(k) THEN 1 ELSE 0
  <2> SUFFICES ASSUME NEW k \in Libs
      PROVE  handles'[k] \in Nat /\ handles'[k] = IF Loaded(k) THEN 1 ELSE 0
    OBVIOUS
  <2>1. handles[k] = (IF Loaded(k) THEN 1 ELSE 0) + (IF ctx.lib = k THEN 1 ELSE 0)
    BY DEF IInv, OpenIffLoaded
  <2> QED BY <1>1, <2>1 DEF IInv, TypeOK
<1>3. TypeOK'
  BY <1>1, <1>2 DEF IInv, TypeOK, NoLoad
<1>4. IdsIndexTheBitmap' /\ IdsBelowNext' /\ LoadInProgress'
  <2>1. IdsIndexTheBitmap' /\ IdsBelowNext'
    BY <1>1, IdsUnchanged DEF IInv
  <2>2. LoadInProgress'
    BY <1>1 DEF LoadInProgress
  <2> QED BY <2>1, <2>2
<1>5. OpenIffLoaded' /\ ListedUnderOwnName' /\ OwnsSoFar'
  <2>1. ListedUnderOwnName /\ pc' # "onload"
    BY <1>1 DEF IInv
  <2>2. ListedUnderOwnName' /\ OwnsSoFar'
    BY <1>1, <2>1 DEF ListedUnderOwnName, OwnsSoFar
  <2>3. ctx'.lib = NULL
    BY <1>1 DEF NoLoad
  <2>4. OpenIffLoaded'
    BY <1>1, <1>2, <2>3 DEF OpenIffLoaded, Loaded
  <2> QED BY <2>2, <2>4
<1>6. LoadedModuleOwnsItsCommands'
  BY <1>1, OwnersUnchanged DEF IInv
<1>7. ConfiguredSoFar'
  BY <1>1 DEF IInv, ConfiguredSoFar, Due, Loaded
<1> QED BY <1>3, <1>4, <1>5, <1>6, <1>7 DEF IInv

(* redis_module_init finds the name free, or the load fails. *)
LEMMA ModuleInitPreserves ==
  ASSUME IInv, redis_module_init
  PROVE  IInv'
<1> USE LoaderAssumption
<1>1. CASE is_module_name_busy(Lib[ctx.lib].module)
  BY <1>1, FailedLoadPreserves DEF redis_module_init
<1>2. CASE ~is_module_name_busy(Lib[ctx.lib].module)
  <2>1. /\ commands' = commands /\ commandId' = commandId /\ nextid' = nextid
        /\ load_modules' = load_modules /\ modules' = modules /\ loads' = loads
        /\ handles' = handles /\ next' = next /\ reply' = reply
        /\ pc = "onload" /\ pc' = "onload" /\ ctx.i = 0 /\ ctx' = [ctx EXCEPT !.i = 1]
        /\ ctx.lib \in Libs /\ modules[Lower[Lib[ctx.lib].module]] = NULL
    BY <1>2 DEF redis_module_init, is_module_name_busy, table, IInv, LoadInProgress
  <2>2. ctx'.lib = ctx.lib /\ ctx'.by = ctx.by /\ ctx'.i = 1
    BY <2>1 DEF IInv, TypeOK
  <2>3. TypeOK'
    BY <2>1, <2>2, Zenon DEF IInv, TypeOK
  <2>4. IdsIndexTheBitmap' /\ IdsBelowNext' /\ LoadInProgress'
    BY <2>1, <2>2 DEF IInv, IdsIndexTheBitmap, IdsBelowNext, LoadInProgress
  <2>5. OpenIffLoaded'
    BY <2>1, <2>2 DEF IInv, OpenIffLoaded, Loaded
  <2>6. ListedUnderOwnName' /\ OwnsSoFar'
    BY <2>1, <2>2 DEF IInv, ListedUnderOwnName, OwnsSoFar
  <2>7. LoadedModuleOwnsItsCommands'
    BY <2>1, OwnersUnchanged DEF IInv
  <2>8. ConfiguredSoFar'
    BY <2>1, <2>2 DEF IInv, ConfiguredSoFar, Due, Loaded
  <2> QED BY <2>3, <2>4, <2>5, <2>6, <2>7, <2>8 DEF IInv
<1> QED BY <1>1, <1>2

(* A command is created under a name that was free, or the load fails. *)
LEMMA CreateCommandPreserves ==
  ASSUME IInv, create_command
  PROVE  IInv'
<1> USE LoaderAssumption
<1> DEFINE d == Lib[ctx.lib].cmds[ctx.i]
           fl == command_flags_from_string(d.words) \cup {CMD_MODULE}
<1>0. pc = "onload" /\ ctx.lib \in Libs /\ ctx.i \in 1 .. Len(Lib[ctx.lib].cmds)
  BY Zenon DEF create_command, IInv, LoadInProgress
<1>1. CASE onload_fails
  BY <1>0, <1>1, FailedLoadPreserves
<1>2. CASE /\ command_manager_lookup(d.name) = NoCommand
           /\ command_manager_register_command(d.name, "module", ctx.lib, fl)
           /\ ctx' = [ctx EXCEPT !.i = @ + 1]
           /\ UNCHANGED <<load_modules, modules, handles, next, loads, reply, pc>>
  <2>1. d.name \in Name /\ Lower[d.name] \in Name
    BY <1>0, DeclaredNames, Zenon
  <2>2. fl \in SUBSET (0 .. 63)
    BY ModuleFlagsFit, Zenon
  <2>3. TypeOK /\ IdsIndexTheBitmap /\ IdsBelowNext
    BY DEF IInv
  <2>4. command_manager_register_command(d.name, "module", ctx.lib, fl)
    BY <1>2
  <2>c. commands[Lower[d.name]] = NoCommand
    BY <1>2, Zenon DEF command_manager_lookup
  <2> HIDE DEF fl, d
  <2>5. /\ commands' \in [Name -> Commands]
        /\ commandId' \in [Name -> Nat \cup {NULL}]
        /\ nextid' \in Nat
        /\ IdsIndexTheBitmap' /\ IdsBelowNext'
        /\ \A m \in Name : commands[m] # NoCommand => commands'[m] = commands[m]
        /\ commands'[Lower[d.name]].owner = "module" /\ commands'[Lower[d.name]].lib = ctx.lib
    <3> DEFINE who == ctx.lib
    <3>1. who \in Libs \cup {NULL} /\ "module" \in {"table", "module"}
      BY <1>0
    <3>2. command_manager_register_command(d.name, "module", who, fl)
      BY <2>4
    <3> HIDE DEF who
    <3>3. <2>5!1 /\ <2>5!2 /\ <2>5!3 /\ <2>5!4 /\ <2>5!5
          /\ commands'[Lower[d.name]].owner = "module" /\ commands'[Lower[d.name]].lib = who
      BY <2>1, <2>2, <2>3, <2>c, <3>1, <3>2, RegisterIsSafe, Zenon
    <3> QED BY <3>3, Zenon DEF who
  <2>6. ctx'.lib = ctx.lib /\ ctx'.by = ctx.by /\ ctx'.i = ctx.i + 1 /\ ctx.i \in Nat
    BY <1>2 DEF IInv, TypeOK
  <2>7. TypeOK'
    <3>1. ctx' \in [by : {"none", "config", "client"}, lib : Libs \cup {NULL}, i : Nat]
      <4>1. ctx \in [by : {"none", "config", "client"}, lib : Libs \cup {NULL}, i : Nat]
        BY DEF IInv, TypeOK
      <4>2. ctx' = [ctx EXCEPT !.i = ctx.i + 1]
        BY <1>2
      <4>3. ctx.i + 1 \in Nat
        BY <4>1
      <4> QED BY <4>1, <4>2, <4>3, Zenon
    <3>2. UNCHANGED <<load_modules, modules, handles, next, loads, reply, pc>>
      BY <1>2
    <3> QED BY <2>5, <3>1, <3>2, Zenon DEF IInv, TypeOK
  <2>8. LoadInProgress' /\ OpenIffLoaded'
    BY <1>0, <1>2, <2>6 DEF IInv, LoadInProgress, OpenIffLoaded, Loaded
  <2>9. ListedUnderOwnName' /\ ConfiguredSoFar'
    BY <1>0, <1>2, <2>6 DEF IInv, ListedUnderOwnName, ConfiguredSoFar, Due, Loaded
  <2>10. OwnsSoFar'
    <3> SUFFICES ASSUME NEW i \in 1 .. Len(Lib[ctx.lib].cmds), i < ctx.i + 1
        PROVE  Owns(ctx.lib, i)'
      BY <2>6, Zenon DEF OwnsSoFar, Owns, command_manager_lookup
    <3>1. CASE i < ctx.i
      <4>1. Owns(ctx.lib, i)
        BY <1>0, <3>1 DEF IInv, OwnsSoFar
      <4>2. \A l \in Libs : l = ctx.lib => Owns(l, i)'
        BY <2>3, <2>5, <2>7, <4>1, OwnersStay, Zenon
      <4> QED BY <1>0, <2>6, <4>2
    <3>2. CASE i = ctx.i
      BY <2>5, <2>6, <3>2, Zenon DEF Owns, command_manager_lookup, d
    <3> QED BY <2>6, <3>1, <3>2, SMTT(30)
  <2>11. LoadedModuleOwnsItsCommands'
    <3> SUFFICES ASSUME NEW l \in Libs, Loaded(l)', NEW i \in 1 .. Len(Lib[l].cmds)
        PROVE Owns(l, i)'
      BY DEF LoadedModuleOwnsItsCommands, Owns
    <3>1. Owns(l, i)
      BY <1>2, Zenon DEF IInv, LoadedModuleOwnsItsCommands, Owns, Loaded
    <3> QED BY <2>3, <2>5, <2>7, <3>1, OwnersStay, Zenon
  <2> QED BY <2>5, <2>7, <2>8, <2>9, <2>10, <2>11 DEF IInv
<1> QED BY <1>1, <1>2, Zenon DEF create_command

(* The module is listed once it has created all its commands. *)
LEMMA ModuleLoadedPreserves ==
  ASSUME IInv, module_loaded
  PROVE  IInv'
<1> USE LoaderAssumption
<1> DEFINE l == ctx.lib
           name == Lower[Lib[l].module]
<1>1. /\ commands' = commands /\ commandId' = commandId /\ nextid' = nextid
      /\ load_modules' = load_modules /\ loads' = loads /\ handles' = handles
      /\ pc = "onload" /\ l \in Libs /\ ctx.i = Len(Lib[l].cmds) + 1 /\ ctx' = NoLoad
      /\ \/ ctx.by = "config" /\ pc' = "init" /\ next' = next + 1 /\ reply' = reply
         \/ ctx.by = "client" /\ pc' = "serve" /\ next' = next /\ reply' = "+OK"
  BY DEF module_loaded, load_ends, table, IInv, LoadInProgress
<1>2. name \in Name /\ Len(Lib[l].cmds) \in Nat
  BY <1>1, DeclaredNames, ZenonT(30)
<1>3. modules[name] = NULL /\ modules' = [modules EXCEPT ![name] = l]
  <2>1. modules[name] = NULL
    <3>1. ListedUnderOwnName /\ ctx.i \in Nat /\ ctx.i > 0
      BY <1>1, <1>2 DEF IInv, TypeOK
    <3> QED BY <1>1, <1>2, <3>1, Zenon DEF ListedUnderOwnName
  <2> QED BY <2>1, Zenon DEF module_loaded, is_module_name_busy
<1> HIDE DEF name
<1>4. modules \in [Name -> Libs \cup {NULL}]
  BY DEF IInv, TypeOK
<1>5. ~Loaded(l)
  BY <1>1, <1>3, <1>4, Zenon DEF Loaded, IInv, ListedUnderOwnName, name
<1>6. \A k \in Libs : Loaded(k)' <=> (Loaded(k) \/ k = l)
  BY <1>1, <1>2, <1>3, <1>4 DEF Loaded
<1> HIDE DEF l
<1>7. TypeOK'
  <2>1. modules' \in [Name -> Libs \cup {NULL}]
    BY <1>1, <1>3, <1>4, Zenon
  <2>2. next' \in Nat \ {0}
    <3>1. next \in Nat \ {0}
      BY DEF IInv, TypeOK
    <3> QED BY <1>1, <3>1
  <2> QED BY <1>1, <2>1, <2>2 DEF IInv, TypeOK, NoLoad
<1>8. IdsIndexTheBitmap' /\ IdsBelowNext' /\ LoadInProgress' /\ OwnsSoFar'
  BY <1>1, Zenon DEF IInv, IdsIndexTheBitmap, IdsBelowNext, LoadInProgress, OwnsSoFar
<1>9. OpenIffLoaded'
  <2> SUFFICES ASSUME NEW k \in Libs
      PROVE handles[k] = IF Loaded(k)' THEN 1 ELSE 0
    BY <1>1 DEF OpenIffLoaded, NoLoad
  <2>1. handles[k] = (IF Loaded(k) THEN 1 ELSE 0) + (IF l = k THEN 1 ELSE 0)
    BY DEF IInv, OpenIffLoaded, l
  <2> QED BY <1>5, <1>6, <2>1
<1>10. ListedUnderOwnName'
  BY <1>1, <1>2, <1>3, <1>4, Zenon DEF IInv, ListedUnderOwnName, name, l
<1>11. LoadedModuleOwnsItsCommands'
  <2> SUFFICES ASSUME NEW k \in Libs, Loaded(k)', NEW i \in 1 .. Len(Lib[k].cmds)
      PROVE Owns(k, i)'
    BY DEF LoadedModuleOwnsItsCommands, Owns
  <2>1. Owns(k, i)
    <3>1. CASE Loaded(k)
      BY <3>1 DEF IInv, LoadedModuleOwnsItsCommands, Owns
    <3>2. CASE k = l
      BY <1>1, <3>2 DEF IInv, OwnsSoFar, l
    <3> QED BY <1>6, <3>1, <3>2
  <2> QED BY <1>1, <2>1, Zenon DEF Owns, command_manager_lookup
<1>12. ConfiguredSoFar'
  <2> SUFFICES ASSUME NEW i \in 1 .. Len(load_modules), Due(i)'
      PROVE \E n \in Name : modules'[n] = load_modules[i]
    BY <1>1 DEF ConfiguredSoFar, Loaded
  <2>0. \A k \in Libs : Loaded(k) \/ k = l => \E n \in Name : modules'[n] = k
    BY <1>6 DEF Loaded
  <2>1. load_modules[i] \in Libs
    BY DEF IInv, TypeOK
  <2>2. CASE ctx.by = "config" /\ i = next
    <3>1. load_modules[i] = l
      BY <1>1, <2>2 DEF IInv, LoadInProgress, l
    <3> QED BY <2>0, <2>1, <3>1
  <2>3. CASE Due(i)
    BY <2>0, <2>1, <2>3 DEF IInv, ConfiguredSoFar
  <2>4. Due(i) \/ (ctx.by = "config" /\ i = next)
    <3>1. next \in Nat
      BY DEF IInv, TypeOK
    <3>2. CASE ctx.by = "client"
      BY <1>1, <3>1, <3>2 DEF Due
    <3>3. CASE ctx.by = "config"
      BY <1>1, <3>1, <3>3 DEF Due
    <3> QED BY <1>1, <3>2, <3>3
  <2> QED BY <2>2, <2>3, <2>4, Zenon
<1> QED BY <1>7, <1>8, <1>9, <1>10, <1>11, <1>12 DEF IInv

-----------------------------------------------------------------------------
(* Every step preserves the invariant. *)
LEMMA NextPreserves == IInv /\ [Next]_vars => IInv'
<1> SUFFICES ASSUME IInv, [Next]_vars PROVE IInv'
  OBVIOUS
<1>1. CASE Next
  <2>1. ASSUME onload_gives_up PROVE IInv'
    BY <2>1, FailedLoadPreserves DEF onload_gives_up
  <2> QED BY <1>1, <2>1, TablePreserves, ConfigPreserves, ModuleLoadPreserves, ModuleInitPreserves,
    CreateCommandPreserves, ModuleLoadedPreserves DEF Next
<1>2. CASE UNCHANGED vars
  <2>1. /\ commands' = commands /\ commandId' = commandId /\ nextid' = nextid
        /\ UNCHANGED <<load_modules, modules, handles, ctx, next, loads, reply, pc>>
    BY <1>2 DEF vars, table
  <2>2. TypeOK' /\ IdsIndexTheBitmap' /\ IdsBelowNext' /\ LoadInProgress'
    BY <2>1 DEF IInv, TypeOK, IdsIndexTheBitmap, IdsBelowNext, LoadInProgress
  <2>3. OpenIffLoaded' /\ ListedUnderOwnName' /\ ConfiguredSoFar'
    BY <2>1, Zenon DEF IInv, OpenIffLoaded, ListedUnderOwnName, ConfiguredSoFar, Due, Loaded
  <2>4. LoadedModuleOwnsItsCommands'
    BY <2>1, OwnersUnchanged DEF IInv
  <2>5. OwnsSoFar'
    BY <2>1, Zenon DEF IInv, OwnsSoFar, Owns, command_manager_lookup
  <2> QED BY <2>2, <2>3, <2>4, <2>5 DEF IInv
<1> QED BY <1>1, <1>2

(* The invariant holds in every reachable state. *)
LEMMA LoaderInvariant == Spec => []IInv
BY InitEstablishes, NextPreserves, PTL DEF Spec

(* The state of the command table and of the loader keeps its types, for   *)
(* any table and any libraries (command_manager.c, module.c).              *)
THEOREM LoaderTypeCorrect == Spec => []TypeOK
<1>1. IInv => TypeOK
  BY DEF IInv
<1> QED BY <1>1, LoaderInvariant, PTL

(* Ids number the names without repetition and leave out the last bit of   *)
(* the bitmap, whatever loads fail in between (acl_get_command_id).        *)
THEOREM IdsAreSound == Spec => []IdsIndexTheBitmap
<1>1. IInv => IdsIndexTheBitmap
  BY DEF IInv
<1> QED BY <1>1, LoaderInvariant, PTL

(* A listed module serves all its commands (create_command, module_load).  *)
THEOREM ListedModulesServe == Spec => []LoadedModuleOwnsItsCommands
<1>1. IInv => LoadedModuleOwnsItsCommands
  BY DEF IInv
<1> QED BY <1>1, LoaderInvariant, PTL

(* No load leaks a library handle or closes one in use (module_load).      *)
THEOREM HandlesAreSound == Spec => []OpenIffLoaded
<1>1. IInv => OpenIffLoaded
  BY DEF IInv
<1> QED BY <1>1, LoaderInvariant, PTL

(* The server serves only with every configured module loaded              *)
(* (init_redis_modules).                                                   *)
THEOREM StartIsComplete == Spec => []ServesWithAllModules
<1>1. IInv => ServesWithAllModules
  BY DEF IInv, ConfiguredSoFar, Due, ServesWithAllModules
<1> QED BY <1>1, LoaderInvariant, PTL
-----------------------------------------------------------------------------
(* The flags of the commands *)

(* A command is an entry of the table with the flags of its words, or one  *)
(* of a module with CMD_MODULE among them.                                 *)
FlagsSoFar ==
  \A n \in Name : commands[n] # NoCommand =>
    \/ /\ commands[n].owner = "table"
       /\ \E i \in 1 .. Len(Table) :
            /\ Lower[Table[i].name] = n
            /\ commands[n].flags = populate_command_table_parse_flags(Table[i].words)
    \/ commands[n].owner = "module" /\ CMD_MODULE \in commands[n].flags

(* What a step does to the commands. *)
LEMMA CommandsChange ==
  ASSUME IInv, [Next]_vars
  PROVE  \/ commands' = commands
         \/ \E i \in 1 .. Len(Table) :
              command_manager_register_command(Table[i].name, "table", NULL,
                populate_command_table_parse_flags(Table[i].words))
         \/ \E n \in Name : \E l, words :
              command_manager_register_command(n, "module", l,
                command_flags_from_string(words) \cup {CMD_MODULE})
<1>1. CASE command_manager_init
  <2>1. next > Len(Table) \/ next \in 1 .. Len(Table)
    BY LoaderAssumption DEF IInv, TypeOK
  <2>2. CASE next > Len(Table)
    <3>1. ~(next <= Len(Table))
      BY <2>2, LoaderAssumption DEF IInv, TypeOK
    <3> QED BY <1>1, <3>1 DEF command_manager_init, table
  <2>3. CASE next \in 1 .. Len(Table)
    <3>1. ~(next > Len(Table))
      BY <2>3, LoaderAssumption
    <3> QED BY <1>1, <2>3, <3>1 DEF command_manager_init
  <2> QED BY <2>1, <2>2, <2>3, Zenon
<1>2. CASE create_command
  <2>1. ctx.lib \in Libs /\ ctx.i \in 1 .. Len(Lib[ctx.lib].cmds)
    BY <1>2 DEF create_command, IInv, LoadInProgress
  <2>2. Lib[ctx.lib].cmds[ctx.i].name \in Name
    BY <2>1, DeclaredNames
  <2> QED BY <1>2, <2>2, Zenon DEF create_command, onload_fails, table
<1>3. CASE \E l \in Libs : config_load_modules_add(l) \/ module_load_command(l)
  BY <1>3, Zenon DEF config_load_modules_add, module_load_command, module_load, table
<1>4. CASE start_redis_server \/ init_redis_modules
  BY <1>4, Zenon DEF start_redis_server, init_redis_modules, module_load, table
<1>5. CASE redis_module_init \/ onload_gives_up \/ module_loaded
  BY <1>5, Zenon DEF redis_module_init, onload_gives_up, onload_fails, module_loaded, table
<1>6. CASE UNCHANGED vars
  BY <1>6 DEF vars, table
<1> QED BY <1>1, <1>2, <1>3, <1>4, <1>5, <1>6, Zenon DEF Next

(* Registering a command enters its flags where there was none. *)
LEMMA RegisterFlags ==
  ASSUME TypeOK, NEW n \in Name, NEW owner, NEW lib, NEW flags, NEW m \in Name,
         command_manager_register_command(n, owner, lib, flags)
  PROVE  \/ commands'[m] = commands[m]
         \/ m = Lower[n] /\ commands'[m].owner = owner /\ commands'[m].flags = flags
BY DEF command_manager_register_command, Command, TypeOK

(* Registering commands keeps their flags those of their words. *)
LEMMA FlagsInvariant == Spec => []FlagsSoFar
<1>1. Init => FlagsSoFar
  BY DEF Init, FlagsSoFar
<1>2. IInv /\ FlagsSoFar /\ [Next]_vars => FlagsSoFar'
  <2> SUFFICES ASSUME IInv, FlagsSoFar, [Next]_vars, NEW m \in Name, commands'[m] # NoCommand
      PROVE  \/ /\ commands'[m].owner = "table"
                /\ \E i \in 1 .. Len(Table) :
                     /\ Lower[Table[i].name] = m
                     /\ commands'[m].flags = populate_command_table_parse_flags(Table[i].words)
             \/ commands'[m].owner = "module" /\ CMD_MODULE \in commands'[m].flags
    BY DEF FlagsSoFar
  <2>0. TypeOK
    BY DEF IInv
  <2>1. CASE commands'[m] = commands[m]
    BY <2>1, Zenon DEF FlagsSoFar
  <2>2. ASSUME commands'[m] # commands[m], NEW i \in 1 .. Len(Table),
               command_manager_register_command(Table[i].name, "table", NULL,
                 populate_command_table_parse_flags(Table[i].words))
        PROVE  /\ commands'[m].owner = "table" /\ Lower[Table[i].name] = m
               /\ commands'[m].flags = populate_command_table_parse_flags(Table[i].words)
    BY <2>0, <2>2, DeclaredNames, RegisterFlags
  <2>3. ASSUME commands'[m] # commands[m], NEW n \in Name, NEW l, NEW words,
               command_manager_register_command(n, "module", l,
                 command_flags_from_string(words) \cup {CMD_MODULE})
        PROVE  commands'[m].owner = "module" /\ CMD_MODULE \in commands'[m].flags
    <3>1. commands'[m].owner = "module"
          /\ commands'[m].flags = command_flags_from_string(words) \cup {CMD_MODULE}
      BY <2>0, <2>3, RegisterFlags
    <3> QED BY <3>1
  <2> QED BY <2>1, <2>2, <2>3, CommandsChange, Zenon
<1> QED BY <1>1, <1>2, LoaderInvariant, PTL DEF Spec

(* No word of the table has the bit of CMD_MODULE. *)
LEMMA NoWordIsModule == ASSUME NEW w PROVE CMD_MODULE \notin command_data_type_flag_by_name(w)
<1>1. FlagWords[4] = ""
  BY DEF FlagWords
<1>2. \A b : <<w, b>> \in AlsoCategory => b \in {20, 21, 31, 32, 33, 36}
  BY DEF AlsoCategory, CMD_CATEGORY_FAST
<1>3. <<w, 3>> \notin AlsoCategory
  BY <1>2
<1>4. ASSUME 3 \in command_data_type_flag_by_name(w) PROVE w # "" /\ FlagWords[4] = w
  <2>1. w # "" /\ (FlagWords[3 + 1] = w \/ <<w, 3>> \in AlsoCategory)
    BY <1>4, Zenon DEF command_data_type_flag_by_name
  <2>2. 3 + 1 = 4
    OBVIOUS
  <2> QED BY <1>3, <2>1, <2>2, Zenon
<1> QED BY <1>1, <1>4, Zenon DEF CMD_MODULE

(* Below the categories the int mask of a word is its 64-bit mask. *)
LEMMA LowBitsAreKept ==
  ASSUME NEW words, NEW b \in 0 .. 18
  PROVE  b \in populate_command_table_parse_flags(words)
           <=> \E w \in words : b \in command_data_type_flag_by_name(w)
<1>1. ASSUME NEW mask PROVE b \in AsInt(mask) <=> b \in mask
  BY DEF AsInt
<1>2. b # CMD_CATEGORY_SLOW
  BY DEF CMD_CATEGORY_SLOW
<1> DEFINE f == UNION {AsInt(command_data_type_flag_by_name(w)) : w \in words}
<1>3. b \in f <=> \E w \in words : b \in AsInt(command_data_type_flag_by_name(w))
  OBVIOUS
<1>4. populate_command_table_parse_flags(words) \in {f, f \cup {CMD_CATEGORY_SLOW}}
  BY DEF populate_command_table_parse_flags
<1> HIDE DEF f
<1>5. b \in populate_command_table_parse_flags(words) <=> b \in f
  BY <1>2, <1>4
<1> QED BY <1>1, <1>3, <1>5

(* The flags of every command are those its words declare, and CMD_MODULE  *)
(* is set for the commands of modules only, for any table that lists each  *)
(* name once (populate_command_table_parse_flags, create_command).         *)
THEOREM FlagsAreFromWords == Spec => []FlagsAreDeclared
<1>1. ASSUME IInv, FlagsSoFar PROVE FlagsAreDeclared
  <2>1. ASSUME NEW i \in 1 .. Len(Table), commands[Lower[Table[i].name]].owner = "table"
        PROVE  commands[Lower[Table[i].name]].flags \cap (0 .. 18) =
                 (UNION {command_data_type_flag_by_name(w) : w \in Table[i].words}) \cap (0 .. 18)
    <3> DEFINE n == Lower[Table[i].name]
    <3>0. n \in Name
      BY DeclaredNames, LoaderAssumption
    <3>1. commands[n] # NoCommand
      BY <2>1 DEF NoCommand
    <3>2. PICK j \in 1 .. Len(Table) :
            Lower[Table[j].name] = n
            /\ commands[n].flags = populate_command_table_parse_flags(Table[j].words)
      BY <1>1, <2>1, <3>0, <3>1 DEF FlagsSoFar
    <3>3. i = j
      BY <3>2, LoaderAssumption
    <3>4. commands[n].flags = populate_command_table_parse_flags(Table[i].words)
      BY <3>2, <3>3
    <3> HIDE DEF n
    <3>5. ASSUME NEW b \in 0 .. 18
          PROVE  b \in commands[n].flags
                   <=> \E w \in Table[i].words : b \in command_data_type_flag_by_name(w)
      <4>1. b \in populate_command_table_parse_flags(Table[i].words)
              <=> \E w \in Table[i].words : b \in command_data_type_flag_by_name(w)
        BY LowBitsAreKept, Zenon
      <4> QED BY <3>4, <4>1, Zenon
    <3>6. \A b : b \in UNION {command_data_type_flag_by_name(w) : w \in Table[i].words}
            <=> \E w \in Table[i].words : b \in command_data_type_flag_by_name(w)
      OBVIOUS
    <3>7. commands[n].flags \cap (0 .. 18) =
            (UNION {command_data_type_flag_by_name(w) : w \in Table[i].words}) \cap (0 .. 18)
      <4> DEFINE F == commands[n].flags
                 U == UNION {command_data_type_flag_by_name(w) : w \in Table[i].words}
      <4>1. \A b \in 0 .. 18 : b \in F <=> b \in U
        BY <3>5, <3>6, Zenon
      <4> HIDE DEF F, U
      <4>2. F \cap (0 .. 18) = U \cap (0 .. 18)
        BY <4>1
      <4> QED BY <4>2, Zenon DEF F, U
    <3> QED BY <3>7 DEF n
  <2>2. ASSUME NEW n \in Name, commands[n] # NoCommand
        PROVE  CMD_MODULE \in commands[n].flags <=> commands[n].owner = "module"
    <3>1. ASSUME commands[n].owner = "table" PROVE CMD_MODULE \notin commands[n].flags
      <4>1. PICK i \in 1 .. Len(Table) :
              commands[n].flags = populate_command_table_parse_flags(Table[i].words)
        BY <1>1, <2>2, <3>1 DEF FlagsSoFar
      <4>2. CMD_MODULE \in 0 .. 18
        BY DEF CMD_MODULE
      <4> QED BY <4>1, <4>2, LowBitsAreKept, NoWordIsModule
    <3> QED BY <1>1, <2>2, <3>1 DEF FlagsSoFar
  <2> QED BY <2>1, <2>2 DEF FlagsAreDeclared, command_manager_lookup
<1>2. IInv /\ FlagsSoFar => FlagsAreDeclared
  BY <1>1
<1> QED BY <1>2, LoaderInvariant, FlagsInvariant, PTL

-----------------------------------------------------------------------------
(* What a failed load leaves behind *)

(* onload fails after it has created a command. *)
FailsLate == pc = "onload" /\ ctx.i > 1 /\ onload_fails

(* A command of a module belongs to a module that is loaded, or to the     *)
(* load in progress, which has created it.                                 *)
BelongsToLoad ==
  \A n \in Name : commands[n].owner = "module" =>
    /\ commands[n].lib # NULL
    /\ Loaded(commands[n].lib) \/ (pc = "onload" /\ ctx.lib = commands[n].lib /\ ctx.i > 1)

(* A step that is not a late failure leaves no command without a module. *)
LEMMA BelongsStays ==
  ASSUME IInv, BelongsToLoad, [Next]_vars, [~FailsLate]_vars
  PROVE  BelongsToLoad'
<1>0. TypeOK /\ ctx.i \in Nat
  BY DEF IInv, TypeOK
<1>1. ASSUME commands' = commands, modules' = modules, pc # "onload" \/ ~(ctx.i > 1)
      PROVE  BelongsToLoad'
  BY <1>1 DEF BelongsToLoad, Loaded
<1>2. ASSUME pc = "onload", onload_fails PROVE BelongsToLoad'
  <2>1. pc' # "onload"
    BY <1>2 DEF onload_fails, load_ends
  <2>2. ~(ctx.i > 1)
    BY <1>2, <2>1 DEF FailsLate, vars
  <2> QED BY <1>1, <1>2, <2>2 DEF onload_fails, table
<1>3. CASE command_manager_init
  <2>1. pc = "table" /\ modules' = modules
    BY <1>3 DEF command_manager_init
  <2>2. \/ commands' = commands
        \/ \E i \in 1 .. Len(Table) :
             command_manager_register_command(Table[i].name, "table", NULL,
               populate_command_table_parse_flags(Table[i].words))
    <3>1. Len(Table) \in Nat /\ next \in Nat \ {0}
      BY LoaderAssumption DEF IInv, TypeOK
    <3>2. next > Len(Table) \/ next \in 1 .. Len(Table)
      BY <3>1
    <3>3. ~(next > Len(Table) /\ next <= Len(Table))
      BY <3>1
    <3> QED BY <1>3, <3>2, <3>3 DEF command_manager_init, table
  <2>3. ASSUME NEW i \in 1 .. Len(Table), NEW m \in Name, commands'[m].owner = "module",
               command_manager_register_command(Table[i].name, "table", NULL,
                 populate_command_table_parse_flags(Table[i].words))
        PROVE  commands'[m] = commands[m]
    <3>1. Table[i].name \in Name
      BY DeclaredNames, Zenon
    <3>2. commands'[m] = commands[m] \/ commands'[m].owner = "table"
      BY <1>0, <2>3, <3>1, Zenon DEF command_manager_register_command, Command, TypeOK
    <3>3. "module" # "table"
      OBVIOUS
    <3> QED BY <2>3, <3>2, <3>3, Zenon
  <2>4. \A m \in Name : commands'[m].owner = "module" => commands'[m] = commands[m]
    BY <2>2, <2>3
  <2> QED BY <2>1, <2>4 DEF BelongsToLoad, Loaded
<1>4. CASE create_command
  <2> DEFINE d == Lib[ctx.lib].cmds[ctx.i]
  <2>1. /\ pc = "onload" /\ ctx.i \in 1 .. Len(Lib[ctx.lib].cmds)
        /\ ctx.lib \in Libs
    BY <1>4 DEF create_command, IInv, LoadInProgress
  <2>2. CASE onload_fails
    BY <1>2, <2>1, <2>2
  <2>3. CASE /\ command_manager_register_command(d.name, "module", ctx.lib,
                  command_flags_from_string(d.words) \cup {CMD_MODULE})
             /\ ctx' = [ctx EXCEPT !.i = @ + 1]
             /\ modules' = modules /\ pc' = pc
    <3>1. d.name \in Name
      BY <2>1, DeclaredNames
    <3> HIDE DEF d
    <3>2. ctx'.lib = ctx.lib /\ ctx'.i = ctx.i + 1
      BY <2>3 DEF IInv, TypeOK
    <3>3. ctx'.i > 1
      BY <1>0, <2>1, <3>2
    <3>4. \A m \in Name : commands'[m] = commands[m] \/ commands'[m].lib = ctx.lib
      BY <1>0, <2>3, <3>1 DEF command_manager_register_command, Command, TypeOK
    <3>5. ctx.lib # NULL
      BY <2>1, LoaderAssumption
    <3> QED BY <2>1, <2>3, <3>2, <3>3, <3>4, <3>5 DEF BelongsToLoad, Loaded
  <2> QED BY <1>4, <2>2, <2>3 DEF create_command
<1>5. CASE module_loaded
  <2>1. pc = "onload" /\ ctx.lib \in Libs /\ commands' = commands
    BY <1>5 DEF module_loaded, table, IInv, LoadInProgress
  <2>2. Lower[Lib[ctx.lib].module] \in Name
    BY <2>1, DeclaredNames
  <2>3. modules \in [Name -> Libs \cup {NULL}]
    BY DEF IInv, TypeOK
  <2>4. modules[Lower[Lib[ctx.lib].module]] = NULL
    <3>1. Len(Lib[ctx.lib].cmds) \in Nat
      BY <2>1, DeclaredNames, Zenon
    <3>2. ctx.i = Len(Lib[ctx.lib].cmds) + 1
      BY <1>5, Zenon DEF module_loaded
    <3>3. ctx.i > 0
      BY <3>1, <3>2
    <3> QED BY <2>1, <3>3 DEF IInv, ListedUnderOwnName
  <2>5. modules' = [modules EXCEPT ![Lower[Lib[ctx.lib].module]] = ctx.lib]
    BY <1>5, <2>4 DEF module_loaded, is_module_name_busy
  <2>6. ASSUME NEW l, l # NULL, Loaded(l) \/ l = ctx.lib PROVE Loaded(l)'
    BY <2>2, <2>3, <2>4, <2>5, <2>6 DEF Loaded
  <2> QED BY <2>1, <2>6 DEF BelongsToLoad
<1>6. CASE \E l \in Libs : config_load_modules_add(l) \/ module_load_command(l)
  BY <1>1, <1>6, Zenon DEF config_load_modules_add, module_load_command, module_load, table
<1>7. CASE start_redis_server \/ init_redis_modules
  BY <1>1, <1>7, Zenon DEF start_redis_server, init_redis_modules, module_load, table
<1>8. CASE redis_module_init
  <2>1. pc = "onload" /\ ctx.i = 0 /\ (onload_fails \/ (commands' = commands /\ modules' = modules))
    BY <1>8 DEF redis_module_init, table
  <2> QED BY <1>1, <1>2, <2>1
<1>9. CASE onload_gives_up
  BY <1>2, <1>9 DEF onload_gives_up
<1>10. CASE UNCHANGED vars
  BY <1>10 DEF vars, table, BelongsToLoad, Loaded
<1> QED BY <1>3, <1>4, <1>5, <1>6, <1>7, <1>8, <1>9, <1>10 DEF Next

(* "Module not loaded" is true of the commands too as long as no onload    *)
(* fails after it has created one: a late failure is the only way a        *)
(* command outlives its module (module_load, which unregisters nothing).   *)
THEOREM OnlyLateFailuresLeaveCommands == Spec /\ [][~FailsLate]_vars => []NotLoadedServesNothing
<1>1. Init => BelongsToLoad
  BY DEF Init, BelongsToLoad, NoCommand
<1>2. IInv /\ BelongsToLoad /\ [Next]_vars /\ [~FailsLate]_vars => BelongsToLoad'
  BY BelongsStays
<1>3. BelongsToLoad => NotLoadedServesNothing
  BY DEF BelongsToLoad, NotLoadedServesNothing
<1> QED BY <1>1, <1>2, <1>3, LoaderInvariant, PTL DEF Spec

-----------------------------------------------------------------------------
(* The start of the program only takes steps of the loader, whatever files *)
(* and arguments it is given: what is proved of the loader holds from      *)
(* main on (main.c, start_redis_server).                                   *)
THEOREM StartUpUsesTheLoader == BootSpec => Spec
<1>1. BootInit => Init
  BY DEF BootInit
<1>2. BootNext => [Next]_vars
  <2>1. ASSUME fail PROVE [Next]_vars
    BY <2>1 DEF fail, Next
  <2>2. CASE main \/ read_argv1 \/ join_cwd \/ strip_parent \/ glue_path \/ config_load_argv
    BY <2>2, Zenon DEF main, read_argv1, join_cwd, strip_parent, glue_path, config_load_argv
  <2>3. CASE init_redis_server
    BY <2>3, Zenon DEF init_redis_server, Next
  <2>4. CASE getcwd_fails \/ config_refuses
    BY <2>1, <2>4 DEF getcwd_fails, config_refuses
  <2>5. CASE config_load_file
    BY <2>1, <2>5 DEF config_load_file
  <2>6. CASE config_set
    <3>1. config_load_modules_add(Head(lines).value) \/ UNCHANGED vars
      BY <2>6 DEF config_set
    <3>2. Head(lines).value \in Libs \/ UNCHANGED vars
      BY <2>6 DEF config_set
    <3> QED
      BY <3>1, <3>2, Zenon DEF Next
  <2>7. CASE config_read
    BY <2>7 DEF config_read, Next
  <2>8. CASE load_and_serve
    BY <2>8 DEF load_and_serve, Next
  <2>9. CASE LoaderStep
    BY <2>9 DEF LoaderStep, Next
  <2> QED
    BY <2>2, <2>3, <2>4, <2>5, <2>6, <2>7, <2>8, <2>9 DEF BootNext
<1>3. [BootNext]_<<vars, bvars>> => [Next]_vars
  BY <1>2
<1> QED
  BY <1>1, <1>3, PTL DEF BootSpec, Spec

-----------------------------------------------------------------------------
(* The place of a path *)

(* The places passed on the way along a path. *)
IsWalk(w, p) ==
  w \in [0 .. Len(p) -> Seq(Symbol)] /\ w[0] = <<>> /\ \A i \in 1 .. Len(p) : w[i] = Enter(w[i - 1], p[i])

(* Entering a directory, or its parent, leads to a directory. *)
LEMMA EnterPlace == ASSUME NEW q \in Seq(Symbol), NEW x \in Symbol PROVE Enter(q, x) \in Seq(Symbol)
<1>1. q = <<>> \/ SubSeq(q, 1, Len(q) - 1) \in Seq(Symbol)
  OBVIOUS
<1>2. Append(q, x) \in Seq(Symbol) /\ <<>> \in Seq(Symbol)
  OBVIOUS
<1> QED BY <1>1, <1>2 DEF Enter

(* The place a path leads to is where a walk along it ends ... *)
LEMMA PlaceIsWalk ==
  ASSUME NEW p \in Seq(Symbol)
  PROVE  \E w : IsWalk(w, p) /\ Place(p) = w[Len(p)]
<1> DEFINE n == Len(p)
           S == Seq(Symbol)
           step == [i \in 1 .. n |-> [q \in S |-> Enter(q, p[i])]]
           walk == CHOOSE w : w = [i \in 0 .. n |-> IF i = 0 THEN <<>> ELSE Enter(w[i - 1], p[i])]
<1>1. n \in Nat /\ <<>> \in S /\ n = Len(p) /\ S = Seq(Symbol)
  OBVIOUS
<1>2. step \in [1 .. n -> [S -> S]]
  <2>1. ASSUME NEW i \in 1 .. n, NEW q \in S PROVE Enter(q, p[i]) \in S
    BY EnterPlace
  <2> QED BY <2>1
<1>3. \A i \in 1 .. n : \A q \in S : step[i][q] = Enter(q, p[i])
  OBVIOUS
<1>4. Place(p) = walk[n]
  BY DEF Place
<1> HIDE DEF n, S, step
<1>5. PICK f \in [0 .. n -> S] : Iterates(f, n, <<>>, step)
  BY <1>1, <1>2, IterationExists, Zenon
<1>6. ASSUME NEW i \in 0 .. n PROVE f[i] = IF i = 0 THEN <<>> ELSE Enter(f[i - 1], p[i])
  <2>1. CASE i = 0
    BY <1>5, <2>1 DEF Iterates
  <2>2. CASE i # 0
    <3>1. i \in 1 .. n /\ i - 1 \in 0 .. n
      BY <1>1, <2>2
    <3>2. f[i - 1] \in S
      BY <3>1
    <3>3. f[i] = step[i][f[i - 1]]
      BY <1>5, <3>1 DEF Iterates
    <3> QED BY <1>3, <2>2, <3>1, <3>2, <3>3
  <2> QED BY <2>1, <2>2
<1>7. f = [i \in 0 .. n |-> IF i = 0 THEN <<>> ELSE Enter(f[i - 1], p[i])]
  BY <1>6
<1>8. walk = [i \in 0 .. n |-> IF i = 0 THEN <<>> ELSE Enter(walk[i - 1], p[i])]
  BY <1>7, Zenon
<1> HIDE DEF walk
<1>9. walk[0] = <<>> /\ \A i \in 1 .. n : walk[i] = Enter(walk[i - 1], p[i])
  BY <1>1, <1>8
<1> DEFINE T == {i \in 0 .. n : walk[i] \in S}
<1>10. \A i \in 0 .. n : i \in T
  <2>1. 0 \in T
    <3>1. 0 \in 0 .. n /\ walk[0] \in S
      BY <1>1, <1>9
    <3> QED BY <3>1
  <2>2. ASSUME NEW i \in 1 .. n, i - 1 \in T PROVE i \in T
    <3>1. walk[i - 1] \in Seq(Symbol) /\ p[i] \in Symbol /\ i \in 0 .. n
      BY <1>1, <2>2
    <3>2. walk[i] \in Seq(Symbol)
      BY <1>9, <3>1, EnterPlace, Zenon
    <3> QED BY <1>1, <3>1, <3>2
  <2> HIDE DEF T
  <2> QED BY <1>1, <2>1, <2>2, UpwardInduction, Zenon
<1>11. IsWalk(walk, p)
  BY <1>1, <1>8, <1>9, <1>10, Zenon DEF IsWalk
<1> QED BY <1>1, <1>4, <1>11

(* ... and where every walk along it ends. *)
LEMMA WalkIsPlace == ASSUME NEW p \in Seq(Symbol), NEW w, IsWalk(w, p) PROVE Place(p) = w[Len(p)]
<1>1. PICK v : IsWalk(v, p) /\ Place(p) = v[Len(p)]
  BY PlaceIsWalk
<1> DEFINE T == {i \in 0 .. Len(p) : v[i] = w[i]}
<1>2. 0 \in T
  BY <1>1 DEF IsWalk
<1>3. ASSUME NEW i \in 1 .. Len(p), i - 1 \in T PROVE i \in T
  BY <1>1, <1>3 DEF IsWalk
<1>4. Len(p) \in Nat
  OBVIOUS
<1> HIDE DEF T
<1>5. \A i \in 0 .. Len(p) : i \in T
  BY <1>2, <1>3, <1>4, UpwardInduction, Zenon
<1> QED BY <1>1, <1>4, <1>5 DEF T

(* A path leads from the place of its start one element on. *)
LEMMA PlaceSteps ==
  /\ Place(<<>>) = <<>>
  /\ \A p \in Seq(Symbol) : Place(p) \in Seq(Symbol)
  /\ \A p \in Seq(Symbol), x \in Symbol : Place(Append(p, x)) = Enter(Place(p), x)
<1>1. Place(<<>>) = <<>>
  <2>1. <<>> \in Seq(Symbol) /\ Len(<<>>) = 0
    OBVIOUS
  <2>2. PICK w : IsWalk(w, <<>>) /\ Place(<<>>) = w[0]
    BY <2>1, PlaceIsWalk, Zenon
  <2> QED BY <2>2 DEF IsWalk
<1>2. ASSUME NEW p \in Seq(Symbol) PROVE Place(p) \in Seq(Symbol)
  <2>1. PICK w : IsWalk(w, p) /\ Place(p) = w[Len(p)]
    BY PlaceIsWalk
  <2>2. Len(p) \in 0 .. Len(p)
    OBVIOUS
  <2> QED BY <2>1, <2>2 DEF IsWalk
<1>3. ASSUME NEW p \in Seq(Symbol), NEW x \in Symbol PROVE Place(Append(p, x)) = Enter(Place(p), x)
  <2> DEFINE q == Append(p, x)
             n == Len(p)
  <2>1. q \in Seq(Symbol) /\ Len(q) = n + 1 /\ n \in Nat /\ q[n + 1] = x /\ \A i \in 1 .. n : q[i] = p[i]
    OBVIOUS
  <2> HIDE DEF q
  <2>2. PICK w : IsWalk(w, q) /\ Place(q) = w[n + 1]
    BY <2>1, PlaceIsWalk
  <2> DEFINE v == [i \in 0 .. n |-> w[i]]
  <2>3. IsWalk(v, p)
    <3>1. v \in [0 .. n -> Seq(Symbol)]
      BY <2>1, <2>2 DEF IsWalk
    <3>2. v[0] = <<>>
      BY <2>1, <2>2 DEF IsWalk
    <3>3. ASSUME NEW i \in 1 .. n PROVE v[i] = Enter(v[i - 1], p[i])
      <4>1. i \in 1 .. n + 1 /\ i \in 0 .. n /\ i - 1 \in 0 .. n
        BY <2>1
      <4>2. w[i] = Enter(w[i - 1], q[i])
        BY <2>1, <2>2, <4>1 DEF IsWalk
      <4> QED BY <2>1, <4>1, <4>2
    <3> QED BY <3>1, <3>2, <3>3, Zenon DEF IsWalk
  <2>4. v[n] = w[n]
    BY <2>1
  <2> HIDE DEF v
  <2>5. Place(p) = w[n]
    BY <2>3, <2>4, WalkIsPlace
  <2>6. w[n + 1] = Enter(w[(n + 1) - 1], q[n + 1])
    BY <2>1, <2>2 DEF IsWalk
  <2>7. w[n + 1] = Enter(w[n], x)
    BY <2>1, <2>6
  <2> QED BY <2>2, <2>5, <2>7 DEF q
<1> QED BY <1>1, <1>2, <1>3

(* Two paths that lead to one place still do when one goes on from there.  *)
LEMMA PlaceGoesOn ==
  ASSUME NEW p \in Seq(Symbol), NEW q \in Seq(Symbol), Place(p) = Place(q), NEW r \in Seq(Symbol)
  PROVE  Place(p \o r) = Place(q \o r)
<1> DEFINE n == Len(r)
           P(i) == p \o SubSeq(r, 1, i)
           Q(i) == q \o SubSeq(r, 1, i)
           T == {i \in 0 .. n : Place(P(i)) = Place(Q(i))}
<1>1. 0 \in T
  <2>1. P(0) = p /\ Q(0) = q /\ 0 \in 0 .. n
    OBVIOUS
  <2> HIDE DEF P, Q
  <2> QED BY <2>1
<1>2. ASSUME NEW i \in 1 .. n, i - 1 \in T PROVE i \in T
  <2>1. P(i - 1) \in Seq(Symbol) /\ Q(i - 1) \in Seq(Symbol) /\ r[i] \in Symbol
    OBVIOUS
  <2>2. P(i) = Append(P(i - 1), r[i]) /\ Q(i) = Append(Q(i - 1), r[i])
    OBVIOUS
  <2>3. Place(P(i - 1)) = Place(Q(i - 1)) /\ i \in 0 .. n
    BY <1>2
  <2> HIDE DEF P, Q
  <2>4. /\ Place(Append(P(i - 1), r[i])) = Enter(Place(P(i - 1)), r[i])
        /\ Place(Append(Q(i - 1), r[i])) = Enter(Place(Q(i - 1)), r[i])
    BY <2>1, PlaceSteps, Zenon
  <2>5. Place(P(i)) = Place(Q(i))
    BY <2>2, <2>3, <2>4
  <2> QED BY <2>3, <2>5
<1>3. n \in Nat /\ n \in 0 .. n
  OBVIOUS
<1>4. P(n) = p \o r /\ Q(n) = q \o r
  BY WholeSubSeq
<1> HIDE DEF T, P, Q, n
<1>5. n \in T
  BY <1>1, <1>2, <1>3, UpwardInduction, Zenon
<1> QED BY <1>4, <1>5, Zenon DEF T

(* The symbols that paths are made of. *)
LEMMA PathSymbols == "/" \in Symbol /\ "." \in Symbol /\ ".." \in Symbol
BY StartAssumption, Zenon

(* A slash leads nowhere. *)
LEMMA SlashStays == ASSUME NEW p \in Seq(Symbol) PROVE Place(Append(p, "/")) = Place(p)
<1>1. Place(Append(p, "/")) = Enter(Place(p), "/")
  BY PathSymbols, PlaceSteps
<1> QED BY <1>1 DEF Enter

(* Removing the last element of a directory leads where "../" does, also   *)
(* at the root (get_absolute_path).                                        *)
LEMMA ParentIsRemoved ==
  ASSUME NEW a \in Seq(Symbol), IsDirectory(a)
  PROVE  /\ last_removed(a) \in Seq(Symbol) /\ IsDirectory(last_removed(a))
         /\ Place(last_removed(a)) = Place(a \o <<"..", "/">>)
<1> DEFINE n == Len(a)
           b == SubSeq(a, 1, n - 2)
<1>0. n \in Nat /\ n % 2 = 1 /\ n >= 1
  BY DEF IsDirectory
<1>1. Place(a \o <<"..", "/">>) = Enter(Place(a), "..")
  <2>1. a \o <<"..", "/">> = Append(Append(a, ".."), "/") /\ Append(a, "..") \in Seq(Symbol)
    BY PathSymbols
  <2>2. Place(Append(Append(a, ".."), "/")) = Place(Append(a, ".."))
    BY <2>1, SlashStays, Zenon
  <2>3. Place(Append(a, "..")) = Enter(Place(a), "..")
    BY PathSymbols, PlaceSteps
  <2> QED BY <2>1, <2>2, <2>3, Zenon
<1>2. CASE n = 1
  <2>1. last_removed(a) = a
    BY <1>2 DEF last_removed
  <2>2. a = Append(<<>>, "/") /\ <<>> \in Seq(Symbol)
    BY <1>2 DEF IsDirectory
  <2>3. Place(a) = <<>>
    BY <2>2, SlashStays, PlaceSteps, Zenon
  <2>4. Enter(Place(a), "..") = <<>>
    BY <2>3 DEF Enter
  <2> QED BY <1>1, <2>1, <2>3, <2>4
<1>3. CASE n # 1
  <2>1. n >= 3 /\ n - 1 \in 1 .. n /\ n - 2 \in 1 .. n - 1
    <3> HIDE DEF n
    <3>1. 2 % 2 = 0
      OBVIOUS
    <3>2. n # 2
      BY <1>0, <3>1
    <3> QED BY <1>0, <1>3, <3>2
  <2>2. /\ a[n] = "/" /\ a[n - 2] = "/" /\ a[n - 1] \notin {"/", ".", ".."}
    <3>1. (n - 2) % 2 = 1 /\ (n - 1) % 2 = 0
      BY <1>0, <2>1
    <3>2. n \in 1 .. n /\ n - 2 \in 1 .. n
      BY <2>1
    <3> QED BY <1>0, <2>1, <3>1, <3>2 DEF IsDirectory
  <2>3. (CHOOSE i \in 1 .. n - 1 : a[i] = "/" /\ \A j \in i + 1 .. n - 1 : a[j] # "/") = n - 2
    <3>1. \A j \in (n - 2) + 1 .. n - 1 : a[j] # "/"
      <4>1. \A j \in (n - 2) + 1 .. n - 1 : j = n - 1
        BY <2>1
      <4> QED BY <2>2, <4>1
    <3>2. ASSUME NEW i \in 1 .. n - 1, a[i] = "/", \A j \in i + 1 .. n - 1 : a[j] # "/" PROVE i = n - 2
      <4>1. i # n - 1
        BY <2>2, <3>2
      <4>2. n - 2 \notin i + 1 .. n - 1
        BY <2>2, <3>2
      <4> QED BY <2>1, <4>1, <4>2
    <3> QED BY <2>1, <2>2, <3>1, <3>2
  <2>4. last_removed(a) = b
    <3>1. Len(a) > 1
      BY <2>1
    <3> QED BY <2>3, <3>1, Zenon DEF last_removed
  <2>5. b \in Seq(Symbol) /\ Len(b) = n - 2 /\ \A i \in 1 .. n - 2 : b[i] = a[i]
    BY <2>1
  <2>6. IsDirectory(b)
    <3>1. (n - 2) % 2 = 1
      BY <1>0, <2>1
    <3> HIDE DEF b
    <3> QED BY <1>0, <2>5, <3>1 DEF IsDirectory
  <2>7. a = Append(Append(b, a[n - 1]), "/") /\ a[n - 1] \in Symbol /\ Append(b, a[n - 1]) \in Seq(Symbol)
    <3>1. a[n - 1] \in Symbol
      BY <2>1
    <3> DEFINE c == Append(Append(b, a[n - 1]), "/")
    <3>2. Append(b, a[n - 1]) \in Seq(Symbol) /\ c \in Seq(Symbol) /\ Len(c) = n
      BY <2>1, <2>5, <3>1, PathSymbols
    <3>3. ASSUME NEW i \in 1 .. n PROVE c[i] = a[i]
      <4> DEFINE d == Append(b, a[n - 1])
      <4>1. /\ d \in Seq(Symbol) /\ Len(d) = n - 1 /\ d[n - 1] = a[n - 1]
            /\ \A k \in 1 .. n - 2 : d[k] = a[k]
        BY <2>1, <2>5, <3>1
      <4> HIDE DEF d
      <4>2. Append(d, "/")[n] = "/" /\ \A k \in 1 .. n - 1 : Append(d, "/")[k] = d[k]
        BY <2>1, <4>1, PathSymbols
      <4>3. i \in 1 .. n - 2 \/ i = n - 1 \/ i = n
        BY <2>1
      <4>4. Append(d, "/")[i] = a[i]
        BY <2>1, <2>2, <4>1, <4>2, <4>3
      <4> QED BY <4>4 DEF d
    <3> HIDE DEF c
    <3>4. c = a
      BY <3>2, <3>3, EqualSequences
    <3> QED BY <3>1, <3>2, <3>4 DEF c
  <2> HIDE DEF b
  <2>8. Place(a) = Enter(Place(b), a[n - 1])
    BY <2>5, <2>7, SlashStays, PlaceSteps, Zenon
  <2>9. Place(a) = Append(Place(b), a[n - 1]) /\ Place(b) \in Seq(Symbol)
    BY <2>2, <2>5, <2>8, PlaceSteps, Zenon DEF Enter
  <2>10. Enter(Place(a), "..") = Place(b)
    <3>1. Place(a) # <<>> /\ SubSeq(Place(a), 1, Len(Place(a)) - 1) = Place(b)
      BY <2>7, <2>9
    <3> QED BY <3>1 DEF Enter
  <2> QED BY <1>1, <2>4, <2>5, <2>6, <2>10
<1> QED BY <1>2, <1>3

(* sds_trim gives a part of the string. *)
LEMMA TrimmedPath == ASSUME NEW s \in Seq(Symbol) PROVE sds_trim(s) \in Seq(Symbol)
<1> DEFINE Solid == {i \in 1 .. Len(s) : s[i] # " "}
           first == CHOOSE i \in Solid : \A j \in Solid : i <= j
           last == CHOOSE i \in Solid : \A j \in Solid : j <= i
<1>0. sds_trim(s) = IF Solid = {} THEN <<>> ELSE SubSeq(s, first, last)
  BY DEF sds_trim
<1>1. CASE Solid = {}
  <2>1. <<>> \in Seq(Symbol)
    OBVIOUS
  <2> QED BY <1>0, <1>1, <2>1, Zenon
<1>2. CASE Solid # {}
  <2>0. Len(s) \in Nat /\ Solid \subseteq 1 .. Len(s)
    <3>1. Solid \subseteq 1 .. Len(s)
      BY Zenon
    <3>2. Len(s) \in Nat
      OBVIOUS
    <3> QED BY <3>1, <3>2, Zenon
  <2> HIDE DEF Solid
  <2>1. first \in Solid
    <3>1. Solid \in SUBSET Nat
      BY <2>0
    <3>2. \E i \in Solid : \A j \in Solid : i <= j
      BY <1>2, <3>1, LeastMember
    <3> QED BY <3>2
  <2>2. last \in Solid
    <3> DEFINE U == {Len(s) - i : i \in Solid}
    <3>1. U \in SUBSET Nat /\ U # {}
      <4>1. \A i \in Solid : Len(s) - i \in Nat
        BY <2>0
      <4>2. U # {}
        BY <1>2, Zenon
      <4> QED BY <4>1, <4>2, Zenon
    <3>2. PICK m \in U : \A k \in U : m <= k
      <4> HIDE DEF U
      <4> QED BY <3>1, LeastMember
    <3>3. PICK i \in Solid : m = Len(s) - i
      OBVIOUS
    <3>4. ASSUME NEW j \in Solid PROVE j <= i
      <4>1. m <= Len(s) - j
        BY <3>2
      <4> QED BY <2>0, <3>3, <4>1
    <3> QED BY <3>4
  <2>3. first \in 1 .. Len(s) /\ last \in 1 .. Len(s)
    BY <2>0, <2>1, <2>2, Zenon
  <2> HIDE DEF first, last
  <2>4. SubSeq(s, first, last) \in Seq(Symbol)
    BY <2>3
  <2>5. sds_trim(s) = SubSeq(s, first, last)
    BY <1>0, <1>2, Zenon
  <2> QED BY <2>4, <2>5
<1> QED BY <1>1, <1>2, Zenon

-----------------------------------------------------------------------------
(* The lines of the configuration *)

(* One more line is read: a module is added or a setting is replaced.      *)
LEMMA ModulesStep ==
  ASSUME Given \in Seq(Lines)
  PROVE  /\ Modules[0] = <<>>
         /\ \A k \in 1 .. Len(Given) :
              Modules[k] = IF Given[k].name = "load-module"
                           THEN Append(Modules[k - 1], Given[k].value) ELSE Modules[k - 1]
<1> DEFINE n == Len(Given)
           V == {Given[i].value : i \in 1 .. n}
           S == Seq(V)
           Adds(i) == Given[i].name = "load-module"
           step == [i \in 1 .. n |-> [q \in S |-> IF Adds(i) THEN Append(q, Given[i].value) ELSE q]]
<1> HIDE DEF V, Adds
<1>1. n \in Nat /\ <<>> \in S /\ n = Len(Given)
  OBVIOUS
<1>2. step \in [1 .. n -> [S -> S]]
  <2>1. ASSUME NEW i \in 1 .. n, NEW q \in S
        PROVE  (IF Adds(i) THEN Append(q, Given[i].value) ELSE q) \in S
    <3>1. Given[i].value \in V
      BY DEF V
    <3> QED BY <3>1
  <2> QED BY <2>1
<1>3. \A i \in 1 .. n : \A q \in S : step[i][q] = IF Adds(i) THEN Append(q, Given[i].value) ELSE q
  OBVIOUS
<1> HIDE DEF n, S, step
<1>4. PICK f \in [0 .. n -> S] : Iterates(f, n, <<>>, step)
  BY <1>1, <1>2, IterationExists, Zenon
<1>5. ASSUME NEW i \in 0 .. n
      PROVE  f[i] = IF i = 0 THEN <<>> ELSE IF Adds(i) THEN Append(f[i - 1], Given[i].value) ELSE f[i - 1]
  <2>1. CASE i = 0
    BY <1>4, <2>1 DEF Iterates
  <2>2. CASE i # 0
    <3>1. i \in 1 .. n /\ i - 1 \in 0 .. n
      BY <1>1, <2>2
    <3>2. f[i - 1] \in S
      BY <3>1
    <3>3. f[i] = step[i][f[i - 1]]
      BY <1>4, <3>1 DEF Iterates
    <3> QED BY <1>3, <2>2, <3>1, <3>2, <3>3
  <2> QED BY <2>1, <2>2
<1>6. f = [i \in 0 .. Len(Given) |-> IF i = 0 THEN <<>>
             ELSE IF Given[i].name = "load-module" THEN Append(f[i - 1], Given[i].value) ELSE f[i - 1]]
  BY <1>1, <1>5 DEF Adds
<1>7. Modules = [i \in 0 .. Len(Given) |-> IF i = 0 THEN <<>>
             ELSE IF Given[i].name = "load-module" THEN Append(Modules[i - 1], Given[i].value)
             ELSE Modules[i - 1]]
  BY <1>6, Zenon DEF Modules
<1>8. ASSUME NEW k \in 1 .. Len(Given)
      PROVE  Modules[k] = IF Given[k].name = "load-module"
                          THEN Append(Modules[k - 1], Given[k].value) ELSE Modules[k - 1]
  <2>1. k \in 0 .. Len(Given) /\ k # 0
    BY <1>1
  <2> QED BY <1>7, <2>1, Zenon
<1>9. Modules[0] = <<>>
  <2>1. 0 \in 0 .. Len(Given)
    BY <1>1
  <2> QED BY <1>7, <2>1
<1> QED BY <1>8, <1>9

(* One more line gives a setting its value, or leaves it. *)
LEMMA SettingStep ==
  ASSUME NEW k \in Nat, NEW s
  PROVE  /\ Setting(s, 0) = Rule[s].default
         /\ Setting(s, k + 1) = IF Given[k + 1].name = s THEN Given[k + 1].value ELSE Setting(s, k)
<1> DEFINE About(i) == {j \in 1 .. i : Given[j].name = s}
           Last(A) == CHOOSE j \in A : \A m \in A : m <= j
<1>0. \A i : Setting(s, i) = IF About(i) = {} THEN Rule[s].default ELSE Given[Last(About(i))].value
  BY DEF Setting
<1>1. About(0) = {}
  OBVIOUS
<1>2. CASE Given[k + 1].name = s
  <2>1. k + 1 \in About(k + 1) /\ \A m \in About(k + 1) : m \in Nat /\ m <= k + 1
    BY <1>2
  <2> HIDE DEF About
  <2>2. Last(About(k + 1)) = k + 1
    BY <2>1
  <2> HIDE DEF Last
  <2> QED BY <1>0, <1>1, <1>2, <2>1, <2>2
<1>3. CASE Given[k + 1].name # s
  <2>1. About(k + 1) = About(k)
    <3>1. \A j \in 1 .. k + 1 : j \in 1 .. k \/ j = k + 1
      OBVIOUS
    <3>2. \A j \in 1 .. k : j \in 1 .. k + 1
      OBVIOUS
    <3> QED BY <1>3, <3>1, <3>2, Zenon
  <2> HIDE DEF About, Last
  <2> QED BY <1>0, <1>1, <1>3, <2>1
<1> QED BY <1>2, <1>3

(* The lines given are those of this start. *)
LEMMA GivenStays ==
  ASSUME start' = start
  PROVE  /\ Given' = Given /\ Named' = Named /\ Modules' = Modules
         /\ \A s, k : Setting(s, k)' = Setting(s, k)
<1>1. Given' = Given /\ Named' = Named
  BY DEF Given, Named
<1>2. Modules' = Modules
  BY <1>1 DEF Modules
<1>3. \A s, k : Setting(s, k)' = Setting(s, k)
  BY <1>1 DEF Setting
<1> QED BY <1>1, <1>2, <1>3

(* The lines still to be read, and what those before them have set. *)
Remaining == lines \o IF at = "lines" THEN start.lines ELSE <<>>
HasRead(k) == load_modules = Modules[k] /\ config = [s \in DOMAIN Rule |-> Setting(s, k)]
ReadsOn(k) ==
  /\ HasRead(k) /\ Len(Remaining) = Len(Given) - k
  /\ \A i \in 1 .. Len(Remaining) : Remaining[i] = Given[k + i]

(* What holds while the program starts: the rest of the path still leads   *)
(* to the file that was named, and the lines read so far are in force.     *)
BootInv ==
  /\ start \in Starts
  /\ at \in {"main", "server", "path", "file", "lines", "argv", "up", "ended"}
  /\ at \in {"main", "server", "path", "file"} => load_modules = <<>>
  /\ at \in {"main", "server"} => abspath = <<>>
  /\ at \in {"path", "file"} =>
       start.argv1 = "file" /\ config = [s \in DOMAIN Rule |-> Rule[s].default]
  /\ at = "path" /\ abspath = <<>> => relpath = sds_trim(start.file)
  /\ at = "path" /\ abspath # <<>> =>
       /\ relpath \in Seq(Symbol) /\ abspath \in Seq(Symbol)
       /\ IsDirectory(abspath) /\ Place(abspath \o relpath) = Place(Named)
  /\ at = "file" => Place(abspath) = Place(Named)
  /\ at \in {"lines", "argv", "up"} => Given \in Seq(Lines)
  /\ at \in {"lines", "argv"} =>
       lines \in Seq(Lines) /\ \E k \in 0 .. Len(Given) : ReadsOn(k)
  /\ at = "up" => HasRead(Len(Given))
  /\ server # <<>> => at = "up" /\ server = config

(* The loader changes what is to be loaded only while it reads lines. *)
LEMMA LoadsStay ==
  ASSUME init_redis_modules \/ LoaderStep \/ fail \/ config_read \/ init_redis_server
  PROVE  load_modules' = load_modules
BY Zenon DEF init_redis_modules, LoaderStep, fail, config_read, init_redis_server, start_redis_server,
       command_manager_init, module_load_command, redis_module_init, create_command,
       onload_gives_up, module_loaded, module_load, onload_fails

(* The program starts with nothing read. *)
LEMMA BootInitEstablishes == ASSUME BootInit PROVE BootInv
BY DEF BootInit, Init, BootInv

(* The steps that find the file. *)
LEMMA PathPreserves ==
  ASSUME BootInv, join_cwd \/ strip_parent \/ glue_path
  PROVE  BootInv'
<1>0. /\ start' = start /\ at = "path" /\ load_modules' = load_modules /\ load_modules = <<>>
      /\ config' = config /\ server' = server /\ server = <<>>
      /\ start.argv1 = "file" /\ config = [s \in DOMAIN Rule |-> Rule[s].default]
      /\ start \in Starts
  BY Zenon DEF BootInv, join_cwd, strip_parent, glue_path, vars
<1>1. Named' = Named
  BY <1>0, GivenStays
<1> DEFINE name == sds_trim(start.file)
<1>2. name \in Seq(Symbol) /\ start.cwd \in Seq(Symbol) /\ start.cwd # <<>>
      /\ (start.cwd = <<"/">> \/ IsDirectory(Append(start.cwd, "/")))
  BY <1>0, TrimmedPath, StartAssumption, Zenon
<1>3. Named = IF IsAbsolute(name) THEN name ELSE start.cwd \o <<"/">> \o name
  BY DEF Named
<1> HIDE DEF name
<1>4. ASSUME at' = "path", abspath' # <<>>, relpath' \in Seq(Symbol), abspath' \in Seq(Symbol),
             IsDirectory(abspath'), Place(abspath' \o relpath') = Place(Named)
      PROVE  BootInv'
  BY <1>0, <1>1, <1>4, Zenon DEF BootInv
<1>5. ASSUME at' = "file", Place(abspath') = Place(Named)
      PROVE  BootInv'
  BY <1>0, <1>1, <1>5 DEF BootInv
<1>6. CASE join_cwd
  <2>0. abspath = <<>> /\ relpath = name
    BY <1>0, <1>6, Zenon DEF BootInv, join_cwd, name
  <2>1. CASE IsAbsolute(relpath)
    BY <1>3, <1>5, <1>6, <2>0, <2>1, Zenon DEF join_cwd
  <2>2. CASE ~IsAbsolute(relpath)
    <3> DEFINE a == IF start.cwd[Len(start.cwd)] # "/" THEN Append(start.cwd, "/") ELSE start.cwd
    <3>1. abspath' = a /\ relpath' = name /\ at' = "path"
      BY <1>0, <1>6, <2>0, <2>2 DEF join_cwd
    <3>2. a \in Seq(Symbol) /\ a # <<>> /\ IsDirectory(a) /\ Place(a) = Place(Append(start.cwd, "/"))
      <4>1. CASE start.cwd = <<"/">>
        <5>1. a = <<"/">> /\ IsDirectory(<<"/">>)
          BY <4>1 DEF IsDirectory
        <5>2. Place(Append(start.cwd, "/")) = Place(start.cwd)
          BY <1>2, SlashStays
        <5> HIDE DEF a
        <5> QED BY <1>2, <4>1, <5>1, <5>2
      <4>2. CASE start.cwd # <<"/">>
        <5> DEFINE n == Len(start.cwd)
                   c == Append(start.cwd, "/")
        <5>1. c \in Seq(Symbol) /\ c # <<>> /\ IsDirectory(c) /\ Len(c) = n + 1 /\ n \in Nat \ {0}
              /\ c[n] = start.cwd[n]
          BY <1>2, <4>2, PathSymbols
        <5> HIDE DEF n, c
        <5>2. n % 2 = 0 /\ n \in 1 .. Len(c)
          BY <5>1 DEF IsDirectory
        <5>3. start.cwd[n] # "/"
          BY <5>1, <5>2 DEF IsDirectory
        <5> QED BY <5>1, <5>3 DEF n, c
      <4> QED BY <4>1, <4>2, Zenon
    <3> HIDE DEF a
    <3>3. Place(a \o name) = Place(Append(start.cwd, "/") \o name)
      <4>1. Append(start.cwd, "/") \in Seq(Symbol)
        BY <1>2, PathSymbols
      <4> QED BY <1>2, <3>2, <4>1, PlaceGoesOn, Zenon
    <3>4. Append(start.cwd, "/") = start.cwd \o <<"/">>
      BY <1>2, PathSymbols, AppendAsConcat
    <3>5. Place(a \o name) = Place(Named)
      BY <1>3, <2>0, <2>2, <3>3, <3>4, Zenon
    <3> QED BY <1>2, <1>4, <3>1, <3>2, <3>5
  <2> QED BY <2>1, <2>2
<1>7. CASE strip_parent
  <2>0. /\ relpath \in Seq(Symbol) /\ abspath \in Seq(Symbol) /\ abspath # <<>>
        /\ IsDirectory(abspath) /\ Place(abspath \o relpath) = Place(Named)
    BY <1>0, <1>7 DEF strip_parent, BootInv
  <2> DEFINE r == SubSeq(relpath, 3, Len(relpath))
  <2>1. abspath' = last_removed(abspath) /\ relpath' = r /\ at' = "path"
    BY <1>0, <1>7 DEF strip_parent
  <2>2. r \in Seq(Symbol) /\ abspath \o relpath = (abspath \o <<"..", "/">>) \o r
    <3>1. Len(relpath) >= 2 /\ relpath[1] = ".." /\ relpath[2] = "/"
      BY <1>7 DEF strip_parent, StartsWithParent
    <3> QED BY <2>0, <3>1, TakeTwo, Zenon
  <2> HIDE DEF r
  <2>3. /\ last_removed(abspath) \in Seq(Symbol) /\ IsDirectory(last_removed(abspath))
        /\ Place(last_removed(abspath)) = Place(abspath \o <<"..", "/">>)
    BY <2>0, ParentIsRemoved
  <2>4. abspath \o <<"..", "/">> \in Seq(Symbol)
    <3>1. abspath \o <<"..", "/">> = Append(Append(abspath, ".."), "/")
      BY <2>0
    <3> QED BY <2>0, <3>1, PathSymbols
  <2>5. Place(last_removed(abspath) \o r) = Place(Named)
    <3>1. Place(last_removed(abspath) \o r) = Place((abspath \o <<"..", "/">>) \o r)
      BY <2>2, <2>3, <2>4, PlaceGoesOn, Zenon
    <3> QED BY <2>0, <2>2, <3>1
  <2>6. last_removed(abspath) # <<>>
    <3>1. Len(<<>>) % 2 # 1
      OBVIOUS
    <3> QED BY <2>3, <3>1 DEF IsDirectory
  <2> QED BY <1>4, <2>1, <2>2, <2>3, <2>5, <2>6
<1>8. CASE glue_path
  BY <1>0, <1>5, <1>8, Zenon DEF glue_path, BootInv
<1> QED BY <1>6, <1>7, <1>8

(* A configuration with an error ends the program. *)
LEMMA FailPreserves == ASSUME BootInv, fail, at # "up" PROVE BootInv'
<1>1. start' = start /\ at' = "ended" /\ server' = server /\ server = <<>>
  BY Zenon DEF fail, BootInv
<1> QED BY <1>1 DEF BootInv

(* The steps that read lines: one line is taken from the rest and added to *)
(* those in force.                                                         *)
LEMMA LinePreserves ==
  ASSUME BootInv, config_set
  PROVE  BootInv'
<1>0. /\ start' = start /\ at' = at /\ at \in {"lines", "argv"} /\ server' = server /\ server = <<>>
      /\ start \in Starts /\ Given \in Seq(Lines) /\ lines \in Seq(Lines) /\ lines # <<>>
      /\ lines' = Tail(lines)
  BY Zenon DEF BootInv, config_set
<1>1. /\ Given' = Given /\ Modules' = Modules /\ \A s, i : Setting(s, i)' = Setting(s, i)
  BY <1>0, GivenStays
<1>2. PICK k \in 0 .. Len(Given) : ReadsOn(k)
  BY <1>0 DEF BootInv
<1> DEFINE more == IF at = "lines" THEN start.lines ELSE <<>>
           R == Remaining
<1>3. more \in Seq(Lines) /\ Remaining = lines \o more /\ Remaining' = Tail(lines) \o more
  <2>1. start.lines \in Seq(Lines)
    BY <1>0, StartAssumption, Zenon
  <2>2. more \in Seq(Lines)
    BY <2>1
  <2>3. Remaining' = lines' \o more
    BY <1>0 DEF Remaining
  <2> QED BY <1>0, <2>2, <2>3 DEF Remaining
<1>4. /\ R \in Seq(Lines) /\ R # <<>> /\ Head(lines) = R[1]
      /\ Remaining' \in Seq(Lines) /\ Len(Remaining') = Len(R) - 1 /\ Len(R) > 0 /\ Len(R) \in Nat
      /\ \A i \in 1 .. Len(R) - 1 : Remaining'[i] = R[i + 1]
  <2> HIDE DEF more
  <2> QED BY <1>0, <1>3
<1>5. Len(R) = Len(Given) - k /\ \A i \in 1 .. Len(R) : R[i] = Given[k + i]
  BY <1>2 DEF ReadsOn
<1> HIDE DEF more, R
<1>6. k + 1 \in 1 .. Len(Given) /\ Head(lines) = Given[k + 1] /\ Len(Given) \in Nat
  <2>1. Len(Given) \in Nat
    BY <1>0
  <2>2. 1 \in 1 .. Len(R)
    BY <1>4
  <2> QED BY <1>4, <1>5, <2>1, <2>2
<1>7. Len(Remaining') = Len(Given) - (k + 1)
  BY <1>4, <1>5, <1>6
<1>8. \A i \in 1 .. Len(Remaining') : Remaining'[i] = Given[(k + 1) + i]
  <2> TAKE i \in 1 .. Len(Remaining')
  <2>1. i \in 1 .. Len(R) - 1 /\ i + 1 \in 1 .. Len(R) /\ k + (i + 1) = (k + 1) + i
    BY <1>4, <1>6
  <2>2. Remaining'[i] = R[i + 1] /\ R[i + 1] = Given[k + (i + 1)]
    BY <1>4, <1>5, <2>1
  <2> QED BY <2>1, <2>2
<1> DEFINE l == Given[k + 1]
<1>9. load_modules = Modules[k] /\ config = [s \in DOMAIN Rule |-> Setting(s, k)]
  BY <1>2 DEF ReadsOn, HasRead
<1>10. Modules[k + 1] = IF l.name = "load-module" THEN Append(Modules[k], l.value) ELSE Modules[k]
  <2>1. (k + 1) - 1 = k
    OBVIOUS
  <2> QED BY <1>0, <1>6, <2>1, ModulesStep
<1>11. \A s : Setting(s, k + 1) = IF l.name = s THEN l.value ELSE Setting(s, k)
  <2>1. k \in Nat
    BY <1>6
  <2> QED BY <2>1, SettingStep
<1> HIDE DEF l
<1>12. load_modules' = Modules[k + 1] /\ config' = [s \in DOMAIN Rule |-> Setting(s, k + 1)]
  <2>1. CASE l.name \in DOMAIN Rule /\ config' = [config EXCEPT ![l.name] = l.value] /\ UNCHANGED vars
    <3>1. load_modules' = load_modules /\ l.name # "load-module"
      BY <2>1, StartAssumption, Zenon DEF vars
    <3>2. config' = [s \in DOMAIN Rule |-> IF s = l.name THEN l.value ELSE Setting(s, k)]
      BY <1>9, <2>1
    <3> QED BY <1>9, <1>10, <1>11, <3>1, <3>2
  <2>2. CASE l.name = "load-module" /\ config_load_modules_add(l.value) /\ UNCHANGED config
    <3>1. load_modules' = Append(Modules[k], l.value) /\ config' = config
      BY <1>9, <2>2 DEF config_load_modules_add
    <3>2. \A s \in DOMAIN Rule : l.name # s
      BY <2>2, StartAssumption, Zenon
    <3>3. \A s \in DOMAIN Rule : Setting(s, k + 1) = Setting(s, k)
      BY <1>11, <3>2
    <3> QED BY <1>9, <1>10, <2>2, <3>1, <3>3
  <2>3. Head(lines) = l
    BY <1>6 DEF l
  <2> QED BY <2>1, <2>2, <2>3, Zenon DEF config_set
<1>13. ReadsOn(k + 1)'
  <2>1. HasRead(k + 1)'
    BY <1>1, <1>12 DEF HasRead
  <2> QED BY <1>1, <1>7, <1>8, <2>1 DEF ReadsOn
<1>14. k + 1 \in 0 .. Len(Given') /\ lines' \in Seq(Lines)
  BY <1>0, <1>1, <1>6
<1> QED BY <1>0, <1>1, <1>13, <1>14 DEF BootInv

(* The first line is next: nothing has been read. *)
LEMMA ReadingStarts ==
  ASSUME BootInv, start' = start, server' = server, server = <<>>, at' \in {"lines", "argv"},
         load_modules' = <<>>, config' = [s \in DOMAIN Rule |-> Rule[s].default],
         lines' \in Seq(Lines), Given \in Seq(Lines), Remaining' = Given
  PROVE  BootInv'
<1>1. /\ Given' = Given /\ Modules' = Modules /\ \A s, i : Setting(s, i)' = Setting(s, i)
  BY GivenStays
<1>2. Modules[0] = <<>> /\ \A s : Setting(s, 0) = Rule[s].default
  BY ModulesStep, SettingStep, Zenon
<1>3. HasRead(0)'
  BY <1>1, <1>2 DEF HasRead
<1>4. Len(Given) \in Nat /\ Len(Given) = Len(Given) - 0 /\ \A i \in 1 .. Len(Given) : 0 + i = i
  OBVIOUS
<1>5. ReadsOn(0)'
  BY <1>1, <1>3, <1>4 DEF ReadsOn
<1>6. 0 \in 0 .. Len(Given')
  BY <1>1, <1>4
<1>7. start' \in Starts
  BY DEF BootInv
<1> QED BY <1>1, <1>5, <1>6, <1>7 DEF BootInv

(* The lines of the file come first ... *)
LEMMA FirstLines ==
  ASSUME BootInv, config_load_file \/ (read_argv1 /\ start.argv1 # "file"), ~fail
  PROVE  BootInv'
<1>1. CASE config_load_file
  <2>1. /\ at = "file" /\ start' = start /\ server' = server /\ server = <<>> /\ load_modules' = <<>>
        /\ at' = "lines" /\ config' = [s \in DOMAIN Rule |-> Rule[s].default]
        /\ start \in Starts /\ start.argv1 = "file" /\ Place(abspath) = Place(Named)
        /\ Place(abspath) \in DOMAIN File /\ lines' = File[Place(abspath)]
    BY <1>1, Zenon DEF config_load_file, BootInv, vars
  <2>2. File[Place(Named)] \in Seq(Lines) /\ start.lines \in Seq(Lines)
    BY <2>1, StartAssumption, Zenon
  <2>3. Given = File[Place(Named)] \o start.lines /\ Given \in Seq(Lines)
    BY <2>1, <2>2 DEF Given
  <2>4. Remaining' = Given
    BY <2>1, <2>3 DEF Remaining
  <2> QED BY <2>1, <2>2, <2>3, <2>4, ReadingStarts
<1>2. CASE read_argv1 /\ start.argv1 # "file"
  <2>1. /\ at = "server" /\ start' = start /\ server' = server /\ server = <<>> /\ load_modules' = <<>>
        /\ at' = "argv" /\ config' = [s \in DOMAIN Rule |-> Rule[s].default]
        /\ start \in Starts /\ lines' = start.lines
    BY <1>2, Zenon DEF read_argv1, BootInv, vars
  <2>2. start.lines \in Seq(Lines)
    BY <2>1, StartAssumption, Zenon
  <2>3. Given = start.lines /\ Given \in Seq(Lines)
    BY <1>2, <2>1, <2>2 DEF Given
  <2>4. Remaining' = Given
    BY <2>1, <2>2, <2>3 DEF Remaining
  <2> QED BY <2>1, <2>2, <2>3, <2>4, ReadingStarts
<1> QED BY <1>1, <1>2

(* The steps between the file and the command line, and from there on. *)
LEMMA LastLines ==
  ASSUME BootInv, config_load_argv \/ config_read
  PROVE  BootInv'
<1>0. /\ start' = start /\ server' = server /\ server = <<>> /\ config' = config
      /\ start \in Starts /\ Given \in Seq(Lines) /\ lines = <<>> /\ at \in {"lines", "argv"}
      /\ load_modules' = load_modules
  BY LoadsStay, Zenon DEF BootInv, config_load_argv, config_read, vars
<1>1. /\ Given' = Given /\ Modules' = Modules /\ \A s, i : Setting(s, i)' = Setting(s, i)
  BY <1>0, GivenStays
<1>2. PICK k \in 0 .. Len(Given) : ReadsOn(k)
  BY <1>0 DEF BootInv
<1>3. HasRead(k)'
  BY <1>0, <1>1, <1>2 DEF ReadsOn, HasRead
<1>4. start.lines \in Seq(Lines)
  BY <1>0, StartAssumption, Zenon
<1>5. CASE config_load_argv
  <2>1. at = "lines" /\ at' = "argv" /\ lines' = start.lines
    BY <1>5 DEF config_load_argv
  <2>2. Remaining = start.lines /\ Remaining' = start.lines
    BY <1>0, <1>4, <2>1 DEF Remaining
  <2>3. ReadsOn(k)'
    BY <1>1, <1>2, <1>3, <2>2 DEF ReadsOn
  <2> QED BY <1>0, <1>1, <1>4, <2>1, <2>3 DEF BootInv
<1>6. CASE config_read
  <2>1. at = "argv" /\ at' = "up"
    BY <1>6 DEF config_read
  <2>2. Remaining = <<>>
    BY <1>0, <2>1 DEF Remaining
  <2>3. Len(Given) \in Nat /\ Len(<<>>) = 0
    BY <1>0
  <2>4. k = Len(Given)
    BY <1>2, <2>2, <2>3 DEF ReadsOn
  <2> QED BY <1>0, <1>1, <1>3, <2>1, <2>4 DEF BootInv
<1> QED BY <1>5, <1>6

(* The server starts: nothing that was configured changes any more. *)
LEMMA ServePreserves ==
  ASSUME BootInv, load_and_serve \/ LoaderStep \/ UNCHANGED <<vars, bvars>>
  PROVE  BootInv'
<1>1. /\ start' = start /\ at' = at /\ relpath' = relpath /\ abspath' = abspath /\ lines' = lines
      /\ config' = config /\ load_modules' = load_modules
  BY LoadsStay DEF load_and_serve, LoaderStep, bvars, vars
<1>2. server' # <<>> => at = "up" /\ server' = config
  BY DEF BootInv, load_and_serve, LoaderStep, bvars
<1>3. /\ Given' = Given /\ Named' = Named /\ Modules' = Modules /\ \A s, i : Setting(s, i)' = Setting(s, i)
  BY <1>1, GivenStays
<1>4. \A k : HasRead(k)' = HasRead(k)
  BY <1>1, <1>3 DEF HasRead
<1>5. Remaining' = Remaining
  BY <1>1 DEF Remaining
<1>6. \A k : ReadsOn(k)' = ReadsOn(k)
  BY <1>3, <1>4, <1>5 DEF ReadsOn
<1> QED BY <1>1, <1>2, <1>3, <1>4, <1>6 DEF BootInv

(* Every step of the start keeps what was read in force. *)
LEMMA BootInvariant == BootSpec => []BootInv
<1>1. BootInit => BootInv
  BY BootInitEstablishes
<1>2. BootInv /\ [BootNext]_<<vars, bvars>> => BootInv'
  <2> SUFFICES ASSUME BootInv, [BootNext]_<<vars, bvars>> PROVE BootInv'
    OBVIOUS
  <2>1. CASE main \/ init_redis_server
    <3>1. /\ start' = start /\ at' \in {"main", "server", "ended"} /\ load_modules' = load_modules
          /\ load_modules = <<>> /\ abspath' = abspath /\ server' = server /\ server = <<>>
          /\ (at' # "ended" => abspath = <<>>) /\ start \in Starts
      BY <2>1, LoadsStay DEF BootInv, main, init_redis_server, vars, bvars
    <3> QED BY <3>1, Zenon DEF BootInv
  <2>2. CASE read_argv1
    <3>1. CASE start.argv1 # "file"
      BY <2>2, <3>1, FirstLines, Zenon DEF read_argv1, fail
    <3>2. CASE start.argv1 = "file"
      <4>1. /\ at' = "path" /\ start' = start /\ load_modules' = <<>> /\ abspath' = <<>> /\ server' = <<>>
            /\ relpath' = sds_trim(start.file) /\ config' = [s \in DOMAIN Rule |-> Rule[s].default]
            /\ start \in Starts
        BY <2>2, <3>2 DEF read_argv1, BootInv, vars
      <4> QED BY <3>2, <4>1, Zenon DEF BootInv
    <3> QED BY <3>1, <3>2
  <2>3. CASE join_cwd \/ strip_parent \/ glue_path
    BY <2>3, PathPreserves
  <2>4. CASE getcwd_fails \/ config_refuses
    BY <2>4, FailPreserves DEF getcwd_fails, config_refuses
  <2>5. CASE config_load_file
    BY <2>5, FailPreserves, FirstLines DEF config_load_file
  <2>6. CASE config_set
    BY <2>6, LinePreserves
  <2>7. CASE config_load_argv \/ config_read
    BY <2>7, LastLines
  <2>8. CASE load_and_serve \/ LoaderStep \/ UNCHANGED <<vars, bvars>>
    BY <2>8, ServePreserves, Zenon
  <2> QED BY <2>1, <2>2, <2>3, <2>4, <2>5, <2>6, <2>7, <2>8 DEF BootNext
<1> QED BY <1>1, <1>2, PTL DEF BootSpec

(* Whatever the working directory, the arguments and the files, a server   *)
(* that serves has read the file that was named, loads the modules of all  *)
(* its lines in order and runs with the last value given for each setting  *)
(* (get_absolute_path, start_redis_server).                                *)
THEOREM ConfigurationIsInForce == BootSpec => []ServesWhatWasConfigured
<1>1. BootInv => ServesWhatWasConfigured
  BY DEF BootInv, HasRead, ServesWhatWasConfigured
<1> QED BY <1>1, BootInvariant, PTL

(* A server that serves has all commands of all modules that the lines of  *)
(* its configuration name: what the file and the command line ask for,     *)
(* from the path of the file to the entry of the command table.            *)
THEOREM ConfiguredCommandsAreServed ==
  BootSpec => [](server # <<>> /\ pc = "serve" =>
    \A i \in 1 .. Len(Modules[Len(Given)]) : \A k \in 1 .. Len(Lib[Modules[Len(Given)][i]].cmds) :
      Owns(Modules[Len(Given)][i], k))
<1> DEFINE Served == server # <<>> /\ pc = "serve" =>
      \A i \in 1 .. Len(Modules[Len(Given)]) :
        \A k \in 1 .. Len(Lib[Modules[Len(Given)][i]].cmds) : Owns(Modules[Len(Given)][i], k)
<1>1. TypeOK /\ ServesWhatWasConfigured /\ ServesWithAllModules /\ LoadedModuleOwnsItsCommands => Served
  <2> SUFFICES ASSUME TypeOK, ServesWhatWasConfigured, ServesWithAllModules,
                      LoadedModuleOwnsItsCommands, server # <<>>, pc = "serve",
                      NEW i \in 1 .. Len(Modules[Len(Given)]),
                      NEW k \in 1 .. Len(Lib[Modules[Len(Given)][i]].cmds)
               PROVE  Owns(Modules[Len(Given)][i], k)
    OBVIOUS
  <2>1. load_modules = Modules[Len(Given)]
    BY Zenon DEF ServesWhatWasConfigured
  <2>2. i \in 1 .. Len(load_modules) /\ k \in 1 .. Len(Lib[load_modules[i]].cmds)
    BY <2>1, Zenon
  <2>3. Loaded(load_modules[i])
    BY <2>2 DEF ServesWithAllModules
  <2>4. load_modules[i] \in Libs
    BY <2>2 DEF TypeOK
  <2>5. Owns(load_modules[i], k)
    BY <2>2, <2>3, <2>4, Zenon DEF LoadedModuleOwnsItsCommands, Owns
  <2> QED BY <2>1, <2>5, Zenon
<1> HIDE DEF Served
<1>2. BootSpec => []Served
  BY <1>1, ConfigurationIsInForce, StartUpUsesTheLoader, LoaderTypeCorrect, StartIsComplete,
     ListedModulesServe, PTL
<1> QED BY <1>2 DEF Served
=============================================================================
